---------------------------- MODULE MCTradeStore ----------------------------
(* Two strategies, each with an execution model of its own. *)
EXTENDS TradeStore, TLC

CONSTANTS s1, s2, e1, e2

MCParent == (e1 :> s1) @@ (e2 :> s2)
=============================================================================
