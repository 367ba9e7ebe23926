---------------------------- MODULE MCModelTree ----------------------------
(* Instances of ModelTree for TLC: where each model may be added.          *)
EXTENDS ModelTree

CONSTANTS a1, a2, p1, s1

(* Two accounts, one of them with a portfolio and a strategy. *)
TwoAccounts == [n \in {a1, a2, p1, s1, Root} |->
                  CASE n = s1 -> p1 [] n = p1 -> a1 [] OTHER -> Root]

=============================================================================
