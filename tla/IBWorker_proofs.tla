--------------------------- MODULE IBWorker_proofs ---------------------------
(* Proofs about IBWorker for any number of clicks and losses, with and     *)
(* without an account model.                                               *)
EXTENDS IBWorker, SequenceTheorems, TLAPS

-----------------------------------------------------------------------------
(* Every step leaves every variable in its type. *)
LEMMA TypeInit == Init => TypeOK
<1> SUFFICES ASSUME Init PROVE TypeOK
  OBVIOUS
<1>1. updates \in Seq(BOOLEAN)
  BY EmptySeq DEF Init
<1>2. clicks \in 0 .. MaxClick /\ losses \in 0 .. MaxLoss
  BY IBWorkerAssumption DEF IBWorkerAssumption, Init
<1> QED
  BY <1>1, <1>2, Zenon DEF Init, TypeOK, Command, Place, Doing

(* The queue of updates stays a sequence of Booleans. *)
LEMMA QueueType ==
  ASSUME NEW q \in Seq(BOOLEAN), NEW b \in BOOLEAN
  PROVE  Append(q, b) \in Seq(BOOLEAN) /\ (q # <<>> => Tail(q) \in Seq(BOOLEAN))
  BY AppendProperties, HeadTailProperties

LEMMA TypeWorker == TypeOK /\ WorkerStep => TypeOK'
<1> SUFFICES ASSUME TypeOK, WorkerStep PROVE TypeOK'
  OBVIOUS
<1> USE DEF TypeOK, Command, Place, Goes
<1>1. CASE Switch
  BY <1>1 DEF Switch
<1>2. CASE TakeCommand
  BY <1>2 DEF TakeCommand
<1>3. CASE Connect
  BY <1>3 DEF Connect
<1>4. CASE Handshake
  <2>1. updates' \in Seq(BOOLEAN)
    BY <1>4, QueueType, Zenon DEF Handshake
  <2> QED
    BY <1>4, <2>1 DEF Handshake
<1>5. CASE Disconnect
  <2>1. updates' \in Seq(BOOLEAN)
    BY <1>5, QueueType, Zenon DEF Disconnect, disconnectAPI
  <2> QED
    BY <1>5, <2>1 DEF Disconnect, disconnectAPI
<1>6. CASE TestConnection
  BY <1>6 DEF TestConnection
<1>7. CASE StoreCommand
  BY <1>7 DEF StoreCommand
<1>8. CASE ProcessMessages
  BY <1>8 DEF ProcessMessages
<1>9. CASE Exit
  <2>1. updates' \in Seq(BOOLEAN)
    BY <1>9, QueueType, Zenon DEF Exit, disconnectAPI
  <2> QED
    BY <1>9, <2>1 DEF Exit, disconnectAPI
<1> QED
  BY <1>1, <1>2, <1>3, <1>4, <1>5, <1>6, <1>7, <1>8, <1>9 DEF WorkerStep

LEMMA TypeStep == TypeOK /\ [Next]_vars => TypeOK'
<1> SUFFICES ASSUME TypeOK, [Next]_vars PROVE TypeOK'
  OBVIOUS
<1> USE IBWorkerAssumption DEF IBWorkerAssumption, TypeOK, Command, Place, Doing
<1>1. CASE WorkerStep
  BY <1>1, TypeWorker
<1>2. CASE onClickMyButton
  BY <1>2 DEF onClickMyButton
<1>3. CASE onUpdateServerConnectionState
  <2>1. updates' \in Seq(BOOLEAN)
    BY <1>3, QueueType, Zenon DEF onUpdateServerConnectionState
  <2> QED
    BY <1>3, <2>1 DEF onUpdateServerConnectionState
<1>4. CASE callbackTimer \/ Request \/ GuiHandshake
  BY <1>4 DEF callbackTimer, Request, GuiHandshake
<1>5. CASE Close
  BY <1>5 DEF Close
<1>6. CASE Lose
  <2>1. losses' \in 0 .. MaxLoss
    BY <1>6 DEF Lose
  <2> QED
    BY <1>6, <2>1, Zenon DEF Lose
<1>7. CASE UNCHANGED vars
  BY <1>7 DEF vars
<1> QED
  BY <1>1, <1>2, <1>3, <1>4, <1>5, <1>6, <1>7 DEF Next, GuiStep

(* Every variable has its type in every state of the program. *)
THEOREM TypeCorrect == Spec => []TypeOK
  BY TypeInit, TypeStep, PTL DEF Spec

-----------------------------------------------------------------------------
(* EXIT comes from the closing GUI thread alone, which then opens no       *)
(* connection any more; a returned loop has left none open.                *)
ExitInv ==
  /\ cmd = "EXIT" \/ pc \in {"EXIT", "done"} => gui = "closed"
  /\ ExitDisconnects

LEMMA ExitStep == TypeOK /\ ExitInv /\ [Next]_vars => ExitInv'
<1> SUFFICES ASSUME TypeOK, ExitInv, [Next]_vars PROVE ExitInv'
  OBVIOUS
<1> USE DEF TypeOK, ExitInv, ExitDisconnects, Command, Place
<1>1. CASE Switch \/ TakeCommand \/ Connect \/ Handshake
  BY <1>1 DEF Switch, TakeCommand, Connect, Handshake, Goes
<1>2. CASE Disconnect \/ Exit
  BY <1>2 DEF Disconnect, Exit, disconnectAPI, Goes
<1>3. CASE TestConnection \/ StoreCommand \/ ProcessMessages
  BY <1>3 DEF TestConnection, StoreCommand, ProcessMessages, Goes
<1>4. CASE onClickMyButton \/ Close
  BY <1>4 DEF onClickMyButton, Close
<1>5. CASE callbackTimer \/ onUpdateServerConnectionState \/ Request \/ GuiHandshake
  BY <1>5 DEF callbackTimer, onUpdateServerConnectionState, Request, GuiHandshake
<1>6. CASE Lose
  BY <1>6 DEF Lose
<1>7. CASE UNCHANGED vars
  BY <1>7 DEF vars
<1> QED
  BY <1>1, <1>2, <1>3, <1>4, <1>5, <1>6, <1>7 DEF Next, WorkerStep, GuiStep

(* When the worker's loop has returned, the connection is closed and stays *)
(* closed, whatever was clicked, lost or reconnected before.               *)
THEOREM ExitCorrect == Spec => []ExitDisconnects
<1>1. Init => ExitInv
  BY DEF Init, ExitInv, ExitDisconnects
<1>2. ExitInv => ExitDisconnects
  BY DEF ExitInv
<1> QED
  BY <1>1, <1>2, ExitStep, TypeCorrect, PTL DEF Spec

-----------------------------------------------------------------------------
(* Until there is a reader, and unless the GUI thread connects without     *)
(* one, only the worker's own handshake sees a connection: nobody asks the *)
(* worker to process messages, and the account model has no update to      *)
(* react to.                                                               *)
NoReaderYet ==
  /\ connected => pc = "handshake"
  /\ updates = <<>>
  /\ gui \in {"ready", "timer", "closed"}
  /\ pc # "waiting"

ReaderInv ==
  /\ early \/ hasReader \/ NoReaderYet
  /\ ReaderReady

LEMMA ReaderStep == TypeOK /\ ReaderInv /\ [Next]_vars => ReaderInv'
<1> SUFFICES ASSUME TypeOK, ReaderInv, [Next]_vars PROVE ReaderInv'
  OBVIOUS
<1> USE DEF TypeOK, ReaderInv, NoReaderYet, ReaderReady, Command, Place, Doing
<1>1. CASE Switch \/ TakeCommand \/ Connect
  BY <1>1 DEF Switch, TakeCommand, Connect, Goes
<1>2. CASE Handshake
  BY <1>2 DEF Handshake, Goes
<1>3. CASE Disconnect \/ Exit
  BY <1>3 DEF Disconnect, Exit, disconnectAPI, Goes
<1>4. CASE TestConnection \/ StoreCommand \/ ProcessMessages
  BY <1>4 DEF TestConnection, StoreCommand, ProcessMessages, Goes
<1>5. CASE onClickMyButton \/ Close
  BY <1>5 DEF onClickMyButton, Close
<1>6. CASE callbackTimer \/ onUpdateServerConnectionState
  BY <1>6 DEF callbackTimer, onUpdateServerConnectionState
<1>7. CASE Request
  <2>1. CASE UNCHANGED <<connected, early>>
    <3>1. gui' = "ready" \/ ~connected
      BY <1>7, <2>1, Zenon DEF Request
    <3> QED
      BY <1>7, <2>1, <3>1 DEF Request
  <2>2. CASE early' = (early \/ ~hasReader) /\ ~connected
    <3>1. UNCHANGED <<hasReader, pc>> /\ gui' \in Doing
      BY <1>7 DEF Request
    <3>2. (early \/ hasReader) => (early \/ hasReader)'
      BY <2>2, <3>1, Zenon
    <3>3. ~hasReader => early'
      BY <2>2, Zenon
    <3>4. ReaderReady'
      BY <2>2, <3>1, Zenon
    <3> QED
      BY <3>2, <3>3, <3>4, Zenon
  <2> QED
    BY <1>7, <2>1, <2>2, Zenon DEF Request
<1>10. CASE GuiHandshake
  BY <1>10 DEF GuiHandshake
<1>8. CASE Lose
  BY <1>8 DEF Lose
<1>9. CASE UNCHANGED vars
  BY <1>9 DEF vars
<1> QED
  BY <1>1, <1>2, <1>3, <1>4, <1>5, <1>6, <1>7, <1>8, <1>9, <1>10 DEF Next, WorkerStep, GuiStep

(* The worker processes messages through a null m_pReader only where the   *)
(* GUI thread connected before the first reader was made: however often    *)
(* the button is clicked, and whatever the timer and the account request,  *)
(* a connection of the worker itself never comes without its reader.       *)
THEOREM ReaderCorrect == Spec => []ReaderReady
<1>1. Init => ReaderInv
  BY DEF Init, ReaderInv, NoReaderYet, ReaderReady
<1>2. ReaderInv => ReaderReady
  BY DEF ReaderInv
<1> QED
  BY <1>1, <1>2, ReaderStep, TypeCorrect, PTL DEF Spec

=============================================================================
