------------------------------- MODULE Ledger -------------------------------
(***************************************************************************)
(* What the trade database promises, whoever writes to it: an execution is *)
(* booked at most once, on one account; a booked trade is never changed    *)
(* but for its commission, and never lost; and the position of an account  *)
(* moves with the booking of its trades, by their signed quantity, and     *)
(* with nothing else.                                                      *)
(***************************************************************************)
EXTENDS Integers

CONSTANTS Trade,   \* identities of executions
          Account, \* who trades are booked on
          Amount   \* signed quantities

VARIABLES book,    \* the trades booked, by identity
          position \* the balance of each account

ledger == <<book, position>>

Entry == [owner : Account, amount : Amount, charged : BOOLEAN]

Init ==
  /\ book = [t \in {} |-> 0]
  /\ position = [a \in Account |-> 0]

Record(t, a, q) ==
  /\ t \notin DOMAIN book
  /\ book' = [u \in DOMAIN book \cup {t} |->
                IF u = t THEN [owner |-> a, amount |-> q, charged |-> FALSE]
                ELSE book[u]]
  /\ position' = [position EXCEPT ![a] = @ + q]

Charge(t) ==
  /\ t \in DOMAIN book
  /\ book' = [book EXCEPT ![t].charged = TRUE]
  /\ UNCHANGED position

Next ==
  \/ \E t \in Trade, a \in Account, q \in Amount : Record(t, a, q)
  \/ \E t \in Trade : Charge(t)

Spec == Init /\ [][Next]_ledger

=============================================================================
