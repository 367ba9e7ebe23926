------------------------------ MODULE MCTwsApi ------------------------------
(* Every version the handshake accepts. *)
EXTENDS TwsApi

MCVersions == Version
=============================================================================
