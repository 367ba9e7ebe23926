----------------------------- MODULE TwsSession -----------------------------
(***************************************************************************)
(* The session of the TWS client library with the server: EClientSocket    *)
(* owns the socket, EReader threads cut its bytes into messages and queue  *)
(* them, the worker thread waits on EReaderOSSignal and decodes the queue, *)
(* and connectAPI, on the worker's thread or the GUI's, performs the       *)
(* handshake with a reader of its own.                                     *)
(*                                                                         *)
(* A connection is known by its number, and so is the reader connectAPI    *)
(* makes for it; reader 0 is the local one of the handshake.  Nothing      *)
(* stops a reader but the sight of a closed socket: each looks at the one  *)
(* m_fd of the client, so a reader that missed the gap between two         *)
(* connections goes on with the new one.  The bytes of a message are its   *)
(* length and its body.                                                    *)
(***************************************************************************)
EXTENDS TwsVersion, Sequences, FiniteSets

CONSTANTS MaxConn,        \* bound on the connections
          MaxMsg,         \* bound on the messages of a connection after the ack
          ServerVersions, \* versions a server answers with; -1 is a redirect
          Unreadable      \* messages the decoder stops at

ASSUME TwsSessionAssumption ==
  /\ MaxConn \in Nat /\ MaxMsg \in Nat
  /\ ServerVersions \subseteq Int \ {0}
  /\ Unreadable \subseteq 1 .. MaxMsg

Conn    == 1 .. MaxConn
Reader  == 0 .. MaxConn
Garbled == MaxMsg + 1

VARIABLES
  fd,        \* m_fd: the open connection, 0 when closed
  connState, \* m_connState
  opened,    \* connections opened so far
  wire,      \* bytes of the open connection the client has not received
  peer,      \* the server's side of each connection
  offered,   \* the version the server answered on each connection
  sent,      \* messages the server sent on each connection
  caller,    \* the thread inside connectAPI
  place,     \* where that thread is
  pReader,   \* m_pReader
  thread,    \* place of each reader thread
  buf,       \* m_buf of each reader
  queue,     \* m_msgQueue of each reader
  decoder,   \* m_serverVersion of each reader's decoder
  signal,    \* EReaderOSSignal::open
  worker,    \* place of the worker thread
  target,    \* the reader whose processMsgs runs, 0 for none
  processed, \* messages decoded after the handshakes, as <<connection, number>>
  overtaken  \* history: a connection was opened before an old reader had ended

client  == <<fd, connState, version>>
server  == <<peer, offered, sent>>
connect == <<caller, place, opened, pReader, decoder, overtaken>>
work    == <<worker, target, processed>>
vars    == <<client, server, connect, work, wire, thread, buf, queue, signal>>

isSocketOK  == fd # 0
isConnected == connState = "CONNECTED"

(* What the socket has not delivered is gone with it. *)
eDisconnect ==
  /\ fd' = 0 /\ version' = 0 /\ connState' = "DISCONNECTED"
  /\ wire' = <<>>

-----------------------------------------------------------------------------
(* The bytes in a reader's buffer *)

(* select finds the socket readable and recv takes what has arrived, or a  *)
(* part of it.                                                             *)
onReceive(r) ==
  /\ isSocketOK
  /\ \E k \in 1 .. Len(wire) :
       /\ buf' = [buf EXCEPT ![r] = @ \o SubSeq(wire, 1, k)]
       /\ wire' = SubSeq(wire, k + 1, Len(wire))

(* onReceive has made the buffer as large as it gets.  When recv finds the *)
(* connection closed it stays so, filled up with zeros, which are no       *)
(* length of a message but may pass for the body of one that is no longer  *)
(* than the buffer.                                                        *)
Zeros == <<<<0, 0, "zeros">>, <<0, 0, "zeros">>>>
onClose(r) ==
  /\ isSocketOK => wire = <<>> /\ peer[fd] = "closed"
  /\ eDisconnect
  /\ buf' \in {buf, [buf EXCEPT ![r] = @ \o Zeros]}

(* What starts the buffer is no length, and so exceeds MAX_MSG_LEN, or is  *)
(* zero.                                                                   *)
BadLength(r) == buf[r] # <<>> /\ buf[r][1][3] # "length"

(* bufferedRead of the length, then of as many bytes. *)
readSingleMsg(r) ==
  LET length == buf[r][1]
      body   == buf[r][2]
  IN  IF body = [length EXCEPT ![3] = "body"]
      THEN <<length[1], length[2]>> ELSE <<length[1], Garbled>>

Complete(r) == Len(buf[r]) >= 2 /\ ~BadLength(r)
Incomplete(r) == Len(buf[r]) < 2 /\ ~BadLength(r)

(* Mutant: the bytes of the message stay in the buffer. *)
EnqueueAgain(r) ==
  /\ Complete(r)
  /\ queue' = [queue EXCEPT ![r] = IF Len(@) < 2 THEN Append(@, readSingleMsg(r)) ELSE @]
  /\ UNCHANGED buf

(* The message is queued, whatever has become of the socket. *)
Enqueue(r) ==
  /\ Complete(r)
  /\ queue' = [queue EXCEPT ![r] = Append(@, readSingleMsg(r))]
  /\ buf' = [buf EXCEPT ![r] = SubSeq(@, 3, Len(@))]

-----------------------------------------------------------------------------
(* EReader::readToQueue, the reader threads *)

(* A reader receives while its buffer is empty, and then, in               *)
(* readSingleMsg, while the message is incomplete.                         *)
Receives(r) ==
  \/ thread[r] = "reading" /\ buf[r] = <<>>
  \/ thread[r] = "message" /\ Incomplete(r)

Receive(r) ==
  /\ Receives(r) /\ onReceive(r)
  /\ UNCHANGED <<client, server, connect, work, thread, queue, signal>>

(* Nothing is left to receive.  Where the socket was closed on this side   *)
(* the reader gets here from between the test of m_fd and recv.            *)
ReceiveEnd(r) ==
  /\ Receives(r) /\ onClose(r)
  /\ UNCHANGED <<server, connect, work, thread, queue, signal>>

putMessageToQueue(r) ==
  /\ thread[r] = "reading" /\ buf[r] # <<>> /\ isSocketOK
  /\ thread' = [thread EXCEPT ![r] = "message"]
  /\ UNCHANGED <<client, server, connect, work, wire, buf, queue, signal>>

Queued(r) ==
  /\ thread[r] = "message"
  /\ Enqueue(r)
  /\ thread' = [thread EXCEPT ![r] = "queued"]
  /\ UNCHANGED <<client, server, connect, work, wire, signal>>

issueSignal(r) ==
  /\ thread[r] = "queued"
  /\ thread' = [thread EXCEPT ![r] = "reading"]
  /\ signal' = TRUE
  /\ UNCHANGED <<client, server, connect, work, wire, buf, queue>>

(* Mutant: a select that times out ends the loop. *)
EndReaderOnTimeout(r) ==
  /\ thread[r] = "reading"
  /\ isSocketOK => wire = <<>>
  /\ thread' = [thread EXCEPT ![r] = "ended"]
  /\ buf' = [buf EXCEPT ![r] = <<>>]
  /\ signal' = TRUE
  /\ UNCHANGED <<client, server, connect, work, wire, queue>>

(* The loop ends on a closed socket, before a message or within one that   *)
(* is incomplete, or on a bad length; handleSocketError finds no error     *)
(* then.                                                                   *)
EndReader(r) ==
  /\ \/ thread[r] = "reading" /\ ~isSocketOK
     \/ thread[r] = "message" /\ Incomplete(r) /\ ~isSocketOK
     \/ thread[r] = "message" /\ BadLength(r)
  /\ thread' = [thread EXCEPT ![r] = "ended"]
  /\ buf' = [buf EXCEPT ![r] = <<>>]
  /\ signal' = TRUE
  /\ UNCHANGED <<client, server, connect, work, wire, queue>>

-----------------------------------------------------------------------------
(* connectAPI *)

OldReadersEnded == \A r \in Conn : thread[r] \in {"none", "ended"}

(* eConnect opens a socket and sends the version request; isConnected from *)
(* then on.  A failed attempt changes nothing.  The GUI thread connects    *)
(* when a request on a closed client reports error 504: one of an account, *)
(* or that of the timer, which may come before the first reader.           *)
connectAPI(t) ==
  /\ caller = "none" /\ ~isConnected /\ ~isSocketOK
  /\ t = "worker" => worker = "loop"
  /\ opened < MaxConn
  /\ caller' = t /\ place' = "connected"
  /\ opened' = opened + 1
  /\ overtaken' = (overtaken \/ ~OldReadersEnded)
  /\ fd' = opened + 1 /\ connState' = "CONNECTED"
  /\ peer' = [peer EXCEPT ![opened + 1] = "asked"]
  /\ worker' = IF t = "worker" THEN "connecting" ELSE worker
  /\ UNCHANGED <<version, offered, sent, pReader, decoder, target, processed,
                 wire, thread, buf, queue, signal>>

(* connectAPI returns; the local reader is gone. *)
Return ==
  /\ caller' = "none" /\ place' = "none"
  /\ worker' = IF caller = "worker" THEN "loop" ELSE worker
  /\ buf' = [buf EXCEPT ![0] = <<>>]
  /\ queue' = [queue EXCEPT ![0] = <<>>]

(* Not connected any more: return, else go on to the handshake. *)
CheckConnected ==
  /\ place = "connected"
  /\ IF isConnected
     THEN place' = "asking" /\ UNCHANGED <<caller, worker, buf, queue>>
     ELSE Return
  /\ UNCHANGED <<client, server, opened, pReader, decoder, overtaken, target, processed,
                 wire, thread, signal>>

(* putMessageToQueue of the local reader: it receives until it has the     *)
(* message, or the socket is closed.                                       *)
ReceiveAck ==
  /\ place = "asking"
  /\ \/ /\ Incomplete(0) /\ onReceive(0)
        /\ UNCHANGED <<client, place, queue, signal>>
     \/ /\ Enqueue(0)
        /\ place' = "answered" /\ signal' = TRUE
        /\ UNCHANGED <<client, wire>>
     \/ /\ Incomplete(0) /\ onClose(0)
        /\ UNCHANGED <<place, queue, signal>>
     \/ /\ BadLength(0) \/ (Incomplete(0) /\ ~isSocketOK)
        /\ place' = "answered"
        /\ UNCHANGED <<client, wire, buf, queue, signal>>
  /\ UNCHANGED <<server, work, caller, opened, pReader, decoder, overtaken, thread>>

(* Mutant: an unsupported version is reported and the socket left open. *)
serverVersionKeepsSocket(c) ==
  LET v == offered[c]
  IN  IF v \in Version
      THEN /\ version' = v /\ UNCHANGED <<fd, connState, wire>>
           /\ peer' = IF isConnected /\ isSocketOK /\ peer[fd] = "acked"
                      THEN [peer EXCEPT ![fd] = "started"] ELSE peer
      ELSE UNCHANGED <<client, peer, wire>>

(* processConnectAck: the server's version, or a redirect, which is        *)
(* refused and leaves the version at 0.  An unsupported version            *)
(* disconnects, a supported one is answered by startApi.                   *)
serverVersion(c) ==
  LET v == offered[c]
  IN  CASE v < 0 -> UNCHANGED <<client, peer, wire>>
        [] v > 0 /\ v \notin Version ->
             eDisconnect /\ UNCHANGED peer
        [] OTHER ->
             /\ version' = v /\ UNCHANGED <<fd, connState, wire>>
             /\ peer' = IF isConnected /\ isSocketOK /\ peer[fd] = "acked"
                        THEN [peer EXCEPT ![fd] = "started"] ELSE peer

(* The loop of eConnectImpl: while there is no version and the socket is   *)
(* open it waits for the signal, or two seconds, and processes the local   *)
(* reader's queue.                                                         *)
ProcessAck ==
  /\ place = "answered" /\ version = 0 /\ isSocketOK
  /\ queue[0] # <<>>
  /\ queue' = [queue EXCEPT ![0] = <<>>]
  /\ signal' = FALSE
  /\ serverVersion(queue[0][1][1])
  /\ UNCHANGED <<offered, sent, connect, work, thread, buf>>

(* Mutant: the reader is made before the handshake has the version. *)
StartReaderEarly ==
  /\ place = "answered" /\ (version # 0 \/ ~isSocketOK)
  /\ IF isSocketOK
     THEN /\ pReader' = opened
          /\ decoder' = [decoder EXCEPT ![opened] = 0]
          /\ thread' = [thread EXCEPT ![opened] = "reading"]
     ELSE UNCHANGED <<pReader, decoder, thread>>
  /\ Return
  /\ UNCHANGED <<client, server, opened, overtaken, target, processed, wire, signal>>

(* eConnect returns isSocketOK; connectAPI makes the reader and starts it. *)
StartReader ==
  /\ place = "answered" /\ (version # 0 \/ ~isSocketOK)
  /\ IF isSocketOK
     THEN /\ pReader' = opened
          /\ decoder' = [decoder EXCEPT ![opened] = version]
          /\ thread' = [thread EXCEPT ![opened] = "reading"]
     ELSE UNCHANGED <<pReader, decoder, thread>>
  /\ Return
  /\ UNCHANGED <<client, server, opened, overtaken, target, processed, wire, signal>>

CallerStep == CheckConnected \/ ReceiveAck \/ ProcessAck \/ StartReader

-----------------------------------------------------------------------------
(* The worker thread: PROCESSING and DISCONNECT *)

waitForSignal ==
  /\ worker = "loop" /\ isConnected
  /\ worker' = "waiting"
  /\ UNCHANGED <<client, server, connect, target, processed, wire, thread, buf,
                 queue, signal>>

(* Mutant: the wait has no timeout. *)
WakeBySignal ==
  /\ worker = "waiting" /\ signal
  /\ worker' = (IF pReader = 0 THEN "crashed" ELSE "processing")
  /\ target' = pReader
  /\ signal' = FALSE
  /\ UNCHANGED <<client, server, connect, processed, wire, thread, buf, queue>>

(* The signal, which is reset, or the two seconds.  Without a reader the   *)
(* program ends here.                                                      *)
Wake ==
  /\ worker = "waiting"
  /\ worker' = (IF pReader = 0 THEN "crashed" ELSE "processing")
  /\ target' = pReader
  /\ signal' = FALSE
  /\ UNCHANGED <<client, server, connect, processed, wire, thread, buf, queue>>

(* processMsgs takes a message and decodes it, up to the end of the queue  *)
(* or to a message it could not decode.                                    *)
processMsgs ==
  /\ worker = "processing"
  /\ IF queue[target] = <<>>
     THEN worker' = "loop" /\ target' = 0 /\ UNCHANGED <<queue, processed>>
     ELSE LET msg == Head(queue[target])
          IN  /\ queue' = [queue EXCEPT ![target] = Tail(@)]
              /\ processed' = Append(processed, msg)
              /\ IF msg[2] \in Unreadable THEN worker' = "loop" /\ target' = 0
                 ELSE UNCHANGED <<worker, target>>
  /\ UNCHANGED <<client, server, connect, wire, thread, buf, signal>>

disconnectAPI ==
  /\ worker = "loop" /\ isConnected
  /\ eDisconnect
  /\ UNCHANGED <<server, connect, work, thread, buf, queue, signal>>

WorkerStep == waitForSignal \/ Wake \/ processMsgs

(* A request of the GUI thread cannot be sent: handleSocketError. *)
SendFails ==
  /\ isConnected /\ isSocketOK /\ peer[fd] = "closed"
  /\ eDisconnect
  /\ UNCHANGED <<server, connect, work, thread, buf, queue, signal>>

-----------------------------------------------------------------------------
(* The server.  What it does on a connection the client has closed reaches *)
(* nobody.                                                                 *)

Bytes(c, n) == <<<<c, n, "length">>, <<c, n, "body">>>>

Answer(c) ==
  /\ fd = c /\ peer[c] = "asked"
  /\ peer' = [peer EXCEPT ![c] = "acked"]
  /\ \E v \in ServerVersions : offered' = [offered EXCEPT ![c] = v]
  /\ wire' = wire \o Bytes(c, 0)
  /\ UNCHANGED <<client, sent, connect, work, thread, buf, queue, signal>>

Send(c) ==
  /\ fd = c /\ peer[c] = "started" /\ sent[c] < MaxMsg
  /\ sent' = [sent EXCEPT ![c] = @ + 1]
  /\ wire' = wire \o Bytes(c, sent[c] + 1)
  /\ UNCHANGED <<client, peer, offered, connect, work, thread, buf, queue, signal>>

(* The server ends the connection or dies, maybe within a message. *)
Close(c) ==
  /\ fd = c /\ peer[c] \in {"asked", "acked", "started"}
  /\ peer' = [peer EXCEPT ![c] = "closed"]
  /\ \/ UNCHANGED wire
     \/ wire # <<>> /\ wire' = SubSeq(wire, 1, Len(wire) - 1)
  /\ UNCHANGED <<client, offered, sent, connect, work, thread, buf, queue, signal>>

-----------------------------------------------------------------------------
Init ==
  /\ fd = 0 /\ connState = "DISCONNECTED" /\ version = 0
  /\ opened = 0 /\ caller = "none" /\ place = "none"
  /\ wire = <<>>
  /\ peer = [c \in Conn |-> "none"]
  /\ offered = [c \in Conn |-> 0]
  /\ sent = [c \in Conn |-> 0]
  /\ pReader = 0
  /\ thread = [r \in Conn |-> "none"]
  /\ buf = [r \in Reader |-> <<>>]
  /\ queue = [r \in Reader |-> <<>>]
  /\ decoder = [r \in Conn |-> 0]
  /\ signal = FALSE
  /\ worker = "loop" /\ target = 0
  /\ processed = <<>> /\ overtaken = FALSE

ReaderStep(r) == \/ Receive(r) \/ ReceiveEnd(r) \/ putMessageToQueue(r) \/ Queued(r)
                 \/ issueSignal(r) \/ EndReader(r)

Running == worker # "crashed"

Next ==
  /\ Running
  /\ \/ \E r \in Conn : ReaderStep(r)
     \/ \E t \in {"worker", "gui"} : connectAPI(t)
     \/ CallerStep
     \/ WorkerStep \/ disconnectAPI \/ SendFails
     \/ \E c \in Conn : Answer(c) \/ Send(c) \/ Close(c)

Spec == Init /\ [][Next]_vars

(* The threads run, and a server that was asked for its version answers or *)
(* closes the connection.                                                  *)
FairSpec ==
  /\ Spec
  /\ \A r \in Conn : WF_vars(Running /\ ReaderStep(r))
  /\ WF_vars(Running /\ CallerStep) /\ WF_vars(Running /\ WorkerStep)
  /\ \A c \in Conn : WF_vars(Running /\ Answer(c))

-----------------------------------------------------------------------------
(* Properties *)

(* The numbers of the messages of c among the first j decoded ones. *)
Decoded(c, j) == {processed[i][2] : i \in {i \in 1 .. j : processed[i][1] = c}}

(* Unless a connection is opened while the reader of an old one still runs *)
(* (which then goes on with the new socket): the messages of a connection  *)
(* are decoded in the order the server sent them, none twice and none left *)
(* out, and all as they were sent but for a last one that the end of the   *)
(* connection cut short.                                                   *)
InOrder ==
  ~overtaken =>
    \A j \in 1 .. Len(processed) :
      LET c == processed[j][1]
      IN  \E n \in 1 .. sent[c] :
            /\ Decoded(c, j - 1) = 1 .. n - 1
            /\ \/ processed[j][2] = n
               \/ processed[j][2] = Garbled /\ fd # c

(* Then too a message is never decoded by a decoder that still waits for   *)
(* the server's version, nor by one that has the version of another        *)
(* server.                                                                 *)
DecoderKnowsVersion ==
  ~overtaken =>
    \A r \in Conn : queue[r] # <<>> =>
       /\ decoder[r] \in Version
       /\ \A i \in 1 .. Len(queue[r]) : decoder[r] = offered[queue[r][i][1]]

(* Then too a reader thread that ended leaves no open connection behind:   *)
(* the client is told that the socket was closed.                          *)
ReaderEndsClosed ==
  ~overtaken => \A r \in Conn : thread[r] = "ended" => fd # r

(* What the reader of an open connection has queued is decoded, even what  *)
(* a message that could not be decoded left behind it, and whichever       *)
(* reader runs beside it.                                                  *)
QueueServed ==
  \A r \in Conn : (fd = r /\ pReader = r /\ queue[r] # <<>>)
                    ~> (fd # r \/ queue[r] = <<>>)

(* A handshake ends, with a connection or without, unless the server       *)
(* redirects the client (which is refused and leaves the socket open       *)
(* without a version), an old reader takes the server's answer, or the     *)
(* worker ends the program meanwhile.                                      *)
HandshakeEnds ==
  (caller # "none") ~> (caller = "none" \/ offered[opened] < 0 \/ overtaken \/ ~Running)

=============================================================================
