---------------------------- MODULE MCTwsSession ----------------------------
(* A redirect, a version that is too old, and one that is supported. *)
EXTENDS TwsSession

MCServerVersions == {-1, 90, 178}
=============================================================================
