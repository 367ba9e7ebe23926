------------------------------ MODULE IBWorker ------------------------------
(***************************************************************************)
(* The connection to the broker: the command loop of IBWorker::Worker on   *)
(* the worker thread, the connect button of CPresenter, the timer that     *)
(* asks for the time (AlphaModGetTime) and the account model               *)
(* (CBasicAccount) on the GUI thread, and the network.                     *)
(*                                                                         *)
(* m_workerCmd is written by both threads without a lock.  The worker      *)
(* reads it at the switch of its loop and writes it again some steps later *)
(* in the branch it took, so each read, test and write is a step here.     *)
(* connectAPI is two steps: the socket counts as connected as soon as the  *)
(* connect request is sent, m_pReader is set after the handshake.  A       *)
(* request of the GUI thread on a closed connection connects there, and    *)
(* neither thread waits for the other: where the worker uses m_pReader     *)
(* before it is set the program ends.  The signals                         *)
(* signalServerStateUpdate of the worker wait in the event queue of the    *)
(* GUI thread.                                                             *)
(***************************************************************************)
EXTENDS Integers, Sequences

CONSTANTS MaxClick,     \* bound on the clicks of the connect button
          MaxLoss,      \* bound on the losses of the connection
          AccountActive \* TRUE: an account model follows the connection

ASSUME IBWorkerAssumption ==
  MaxClick \in Nat /\ MaxLoss \in Nat /\ AccountActive \in BOOLEAN

Command == {"IDLE", "CONNECT", "DISCONNECT", "PROCESSING", "EXIT"}

VARIABLES
  cmd,        \* m_workerCmd
  pc,         \* where the worker is: at the switch, in a branch, or returned
  connected,  \* isConnectedAPI
  hasReader,  \* m_pReader is not null
  gui,        \* the GUI thread: ready, inside a request or connectAPI, or closed
  button,     \* buttonState of onClickMyButton, and whether the timer runs
  updates,    \* signalServerStateUpdate, queued for the GUI thread
  early,      \* history: the GUI thread connected before there was a reader
  clicks, losses

vars == <<cmd, pc, connected, hasReader, gui, button, updates, early, clicks, losses>>

(* After the switch the worker is in a branch; "connecting" and "leaving"  *)
(* follow the reset of the command, "handshake" a connected socket,        *)
(* "waiting" is waitForSignal before processMsgs; toIDLE and toPROCESSING  *)
(* come before the write of the branch.                                    *)
Place == Command \cup {"switch", "connecting", "leaving", "handshake", "waiting",
                       "toIDLE", "toPROCESSING", "done", "crashed"}

(* What the GUI thread does in a request: of the timer or of an account,   *)
(* and the handshake it may lead to.                                       *)
Doing == {"ready", "timer", "timerHandshake", "requesting", "handshake", "closed"}

-----------------------------------------------------------------------------
(* Worker::process *)

Goes(from, to) == pc = from /\ pc' = to

Switch ==
  /\ Goes("switch", cmd)
  /\ UNCHANGED <<cmd, connected, hasReader, gui, button, updates, early, clicks, losses>>

(* Mutant: DISCONNECT resets the command and falls through to IDLE. *)
TakeCommandAsIdle ==
  /\ Goes("CONNECT", "connecting") \/ Goes("DISCONNECT", "IDLE")
  /\ cmd' = "IDLE"
  /\ UNCHANGED <<connected, hasReader, gui, button, updates, early, clicks, losses>>

(* CONNECT and DISCONNECT reset the command first. *)
TakeCommand ==
  /\ Goes("CONNECT", "connecting") \/ Goes("DISCONNECT", "leaving")
  /\ cmd' = "IDLE"
  /\ UNCHANGED <<connected, hasReader, gui, button, updates, early, clicks, losses>>

(* connectAPI, unless connected: the attempt fails or the socket connects. *)
Connect ==
  /\ \/ Goes("connecting", "switch") /\ UNCHANGED connected
     \/ /\ ~connected
        /\ Goes("connecting", "handshake")
        /\ connected' = TRUE
  /\ UNCHANGED <<cmd, hasReader, gui, button, updates, early, clicks, losses>>

(* Mutant: the reader of an account's reconnection is relied on. *)
HandshakeWithoutReader ==
  /\ Goes("handshake", "switch")
  /\ updates' = IF connected THEN Append(updates, TRUE) ELSE updates
  /\ UNCHANGED <<cmd, connected, hasReader, gui, button, early, clicks, losses>>

(* The reader is made if the socket is still good after the handshake. *)
Handshake ==
  /\ Goes("handshake", "switch")
  /\ hasReader' = (hasReader \/ connected)
  /\ updates' = IF connected THEN Append(updates, TRUE) ELSE updates
  /\ UNCHANGED <<cmd, connected, gui, button, early, clicks, losses>>

(* A connected client disconnects and says so. *)
disconnectAPI ==
  /\ connected' = FALSE
  /\ updates' = IF connected THEN Append(updates, FALSE) ELSE updates

Disconnect ==
  /\ Goes("leaving", "switch")
  /\ disconnectAPI
  /\ UNCHANGED <<cmd, hasReader, gui, button, early, clicks, losses>>

(* Mutant: a connection found in the IDLE branch is left alone. *)
TestConnectionWhileProcessing ==
  /\ \/ Goes("PROCESSING", IF connected THEN "waiting" ELSE "toIDLE")
     \/ Goes("IDLE", "switch")
  /\ UNCHANGED <<cmd, connected, hasReader, gui, button, updates, early, clicks, losses>>

TestConnection ==
  /\ \/ Goes("PROCESSING", IF connected THEN "waiting" ELSE "toIDLE")
     \/ Goes("IDLE", IF connected THEN "toPROCESSING" ELSE "switch")
  /\ UNCHANGED <<cmd, connected, hasReader, gui, button, updates, early, clicks, losses>>

StoreCommand ==
  /\ \/ Goes("toIDLE", "switch") /\ cmd' = "IDLE"
     \/ Goes("toPROCESSING", "switch") /\ cmd' = "PROCESSING"
  /\ UNCHANGED <<connected, hasReader, gui, button, updates, early, clicks, losses>>

(* processMessagesAPI: the wait ends by a signal or after two seconds, then *)
(* m_pReader is used.                                                      *)
ProcessMessages ==
  /\ Goes("waiting", IF hasReader THEN "switch" ELSE "crashed")
  /\ UNCHANGED <<cmd, connected, hasReader, gui, button, updates, early, clicks, losses>>

(* Mutant: the loop is left at once. *)
ExitAtOnce ==
  /\ Goes("EXIT", "done")
  /\ UNCHANGED <<cmd, connected, hasReader, gui, button, updates, early, clicks, losses>>

Exit ==
  /\ Goes("EXIT", "done")
  /\ disconnectAPI
  /\ UNCHANGED <<cmd, hasReader, gui, button, early, clicks, losses>>

-----------------------------------------------------------------------------
(* The GUI thread *)

(* Mutant: one click more than the bound. *)
onOneMoreClick ==
  /\ gui = "ready" /\ clicks <= MaxClick
  /\ clicks' = clicks + 1
  /\ cmd' = IF ~button /\ ~connected THEN "CONNECT" ELSE "DISCONNECT"
  /\ button' = (~button /\ ~connected)
  /\ UNCHANGED <<pc, connected, hasReader, gui, updates, early, losses>>

(* Connect if the button says disconnected and so does the socket, else    *)
(* disconnect; the timer is started or stopped along with it.              *)
onClickMyButton ==
  LET connect == ~button /\ ~connected
  IN  /\ gui = "ready" /\ clicks < MaxClick
      /\ clicks' = clicks + 1
      /\ cmd' = IF connect THEN "CONNECT" ELSE "DISCONNECT"
      /\ button' = connect
      /\ UNCHANGED <<pc, connected, hasReader, gui, updates, early, losses>>

(* Every second, while it runs, the timer asks for the time, if connected. *)
callbackTimer ==
  /\ gui = "ready" /\ button /\ connected
  /\ gui' = "timer"
  /\ UNCHANGED <<cmd, pc, connected, hasReader, button, updates, early, clicks, losses>>

(* onUpdateServerConnectionStateSlot of an active account: on TRUE it      *)
(* requests the account summary and the positions; on FALSE it cancels     *)
(* them, and cancelling the summary requests it again.                     *)
onUpdateServerConnectionState ==
  /\ gui = "ready" /\ updates # <<>>
  /\ updates' = Tail(updates)
  /\ gui' = IF AccountActive THEN "requesting" ELSE "ready"
  /\ UNCHANGED <<cmd, pc, connected, hasReader, button, early, clicks, losses>>

(* On a connection that is closed, or was since the test of the timer,     *)
(* each of these requests makes EClient report error 504 with id -1 on     *)
(* this thread, and error() calls connectAPI, which may fail.              *)
Request ==
  /\ gui \in {"timer", "requesting"}
  /\ \/ gui' = "ready" /\ UNCHANGED <<connected, early>>
     \/ /\ ~connected /\ connected' = TRUE
        /\ gui' = IF gui = "timer" THEN "timerHandshake" ELSE "handshake"
        /\ early' = (early \/ ~hasReader)
  /\ UNCHANGED <<cmd, pc, hasReader, button, updates, clicks, losses>>

(* The signal of this connection is delivered at once, on this thread: the *)
(* account requests again, then goes on with its earlier requests.         *)
GuiHandshake ==
  /\ gui \in {"timerHandshake", "handshake"}
  /\ gui' = IF gui = "handshake" \/ (AccountActive /\ connected)
            THEN "requesting" ELSE "ready"
  /\ hasReader' = (hasReader \/ connected)
  /\ UNCHANGED <<cmd, pc, connected, button, updates, early, clicks, losses>>

(* ~CPresenter sets the command and does not wait for the thread. *)
Close ==
  /\ gui = "ready"
  /\ gui' = "closed"
  /\ cmd' = "EXIT"
  /\ UNCHANGED <<pc, connected, hasReader, button, updates, early, clicks, losses>>

-----------------------------------------------------------------------------
(* The broker closes the connection: the reader thread disconnects. *)
Lose ==
  /\ connected /\ losses < MaxLoss
  /\ connected' = FALSE
  /\ losses' = losses + 1
  /\ UNCHANGED <<cmd, pc, hasReader, gui, button, updates, early, clicks>>

-----------------------------------------------------------------------------
Init ==
  /\ cmd = "IDLE" /\ pc = "switch"
  /\ connected = FALSE /\ hasReader = FALSE
  /\ gui = "ready" /\ button = FALSE
  /\ updates = <<>> /\ early = FALSE /\ clicks = 0 /\ losses = 0

WorkerStep == \/ Switch \/ TakeCommand \/ Connect \/ Handshake \/ Disconnect
              \/ TestConnection \/ StoreCommand \/ ProcessMessages \/ Exit

GuiStep == onClickMyButton \/ callbackTimer \/ onUpdateServerConnectionState
           \/ Request \/ GuiHandshake \/ Close

Running == pc # "crashed"

Next == Running /\ (WorkerStep \/ GuiStep \/ Lose)

Spec == Init /\ [][Next]_vars

(* The worker thread keeps running, and a handshake of the GUI thread ends. *)
FairSpec ==
  Spec /\ WF_vars(Running /\ WorkerStep) /\ WF_vars(Running /\ GuiHandshake)

-----------------------------------------------------------------------------
(* Properties *)

(* Every variable has its type. *)
TypeOK ==
  /\ cmd \in Command /\ pc \in Place
  /\ connected \in BOOLEAN /\ hasReader \in BOOLEAN /\ button \in BOOLEAN
  /\ gui \in Doing /\ early \in BOOLEAN
  /\ updates \in Seq(BOOLEAN)
  /\ clicks \in 0 .. MaxClick /\ losses \in 0 .. MaxLoss

(* The worker uses m_pReader while it is null, which ends the program,     *)
(* only if the GUI thread connected before the first reader was made: the  *)
(* timer found the worker's first connection in its handshake, the         *)
(* connection was lost, and the request for the time opened another one.   *)
(* Whatever else is clicked, lost and reconnected finds a reader.          *)
ReaderReady == pc = "crashed" => early

(* When the loop has returned the connection is closed and stays so. *)
ExitDisconnects == pc = "done" => ~connected

(* However the commands overwrite each other, a connection is not left     *)
(* without someone to process its messages while the program runs.         *)
ConnectionProcessed ==
  []<>(pc = "waiting" \/ ~connected \/ pc \in {"done", "crashed"})

(* A disconnect the worker finds at its switch, or after its wait, leads   *)
(* to a closed connection, however the button is clicked then, or to the   *)
(* end of a program without a reader.                                      *)
DisconnectTaken ==
  (cmd = "DISCONNECT" /\ pc \in {"switch", "waiting"}) ~> (~connected \/ pc = "crashed")

=============================================================================
