------------------------- MODULE TwsLibrary_proofs -------------------------
(* Proofs about the TWS API library: TwsSession for any connections,       *)
(* messages, versions and unreadable messages, and TwsApi for any versions *)
(* of the server, any attributes of a request and any length of a list.    *)
(* The two share the variable of TwsVersion.                               *)
EXTENDS TwsSession, TwsApi, SequenceTheorems, TLAPS

(* The versions of the servers that serverVersion lets pass. *)
Supported == ServerVersions \cap Version

-----------------------------------------------------------------------------
(* Sequences of bytes and messages *)

(* What recv moves from the connection into a buffer. *)
LEMMA TakeProperties ==
  ASSUME NEW S, NEW s \in Seq(S), NEW w \in Seq(S), NEW k \in 1 .. Len(w)
  PROVE  /\ s \o SubSeq(w, 1, k) \in Seq(S)
         /\ Len(s \o SubSeq(w, 1, k)) = Len(s) + k
         /\ \A i \in 1 .. Len(s) : (s \o SubSeq(w, 1, k))[i] = s[i]
         /\ \A i \in Len(s) + 1 .. Len(s) + k :
              (s \o SubSeq(w, 1, k))[i] = w[i - Len(s)]
         /\ SubSeq(w, k + 1, Len(w)) \in Seq(S)
         /\ Len(SubSeq(w, k + 1, Len(w))) = Len(w) - k
         /\ \A i \in 1 .. Len(w) - k : SubSeq(w, k + 1, Len(w))[i] = w[i + k]
<1>1. Len(s) \in Nat /\ Len(w) \in Nat
  BY LenProperties
<1>2. \A i \in 1 .. Len(w) : w[i] \in S
  BY ElementOfSeq
<1>3. /\ SubSeq(w, 1, k) \in Seq(S) /\ Len(SubSeq(w, 1, k)) = k
      /\ \A i \in 1 .. k : SubSeq(w, 1, k)[i] = w[i]
  <2>1. \A i \in 1 .. k : w[i] \in S
    BY <1>1, <1>2
  <2>2. /\ SubSeq(w, 1, k) \in Seq(S)
        /\ Len(SubSeq(w, 1, k)) = IF 1 <= k THEN k - 1 + 1 ELSE 0
        /\ \A i \in 1 .. k - 1 + 1 : SubSeq(w, 1, k)[i] = w[1 + i - 1]
    BY <1>1, <2>1, SubSeqProperties
  <2> QED
    BY <1>1, <2>2
<1>4. /\ SubSeq(w, k + 1, Len(w)) \in Seq(S)
      /\ Len(SubSeq(w, k + 1, Len(w))) = Len(w) - k
      /\ \A i \in 1 .. Len(w) - k : SubSeq(w, k + 1, Len(w))[i] = w[i + k]
  <2>1. \A i \in k + 1 .. Len(w) : w[i] \in S
    BY <1>1, <1>2
  <2> DEFINE m == k + 1
  <2>2. m \in Int /\ Len(w) \in Int
    BY <1>1
  <2>3. \A i \in m .. Len(w) : w[i] \in S
    BY <2>1
  <2> HIDE DEF m
  <2>4. /\ SubSeq(w, m, Len(w)) \in Seq(S)
        /\ Len(SubSeq(w, m, Len(w))) = IF m <= Len(w) THEN Len(w) - m + 1 ELSE 0
        /\ \A i \in 1 .. Len(w) - m + 1 : SubSeq(w, m, Len(w))[i] = w[m + i - 1]
    BY <2>2, <2>3, SubSeqProperties
  <2> QED
    BY <1>1, <2>4 DEF m
<1> DEFINE t == SubSeq(w, 1, k)
<1>5. t \in Seq(S) /\ Len(t) = k /\ \A i \in 1 .. k : t[i] = w[i]
  BY <1>3
<1> HIDE DEF t
<1>6. /\ s \o t \in Seq(S)
      /\ Len(s \o t) = Len(s) + k
      /\ \A i \in 1 .. Len(s) + k : (s \o t)[i] = IF i <= Len(s) THEN s[i] ELSE t[i - Len(s)]
  BY <1>5, ConcatProperties
<1>7. /\ s \o t \in Seq(S)
      /\ Len(s \o t) = Len(s) + k
      /\ \A i \in 1 .. Len(s) : (s \o t)[i] = s[i]
      /\ \A i \in Len(s) + 1 .. Len(s) + k : (s \o t)[i] = w[i - Len(s)]
  BY <1>1, <1>5, <1>6
<1> QED
  BY <1>4, <1>7 DEF t

(* Two bytes more: a message the server sends, or the zeros of onClose. *)
LEMMA TwoMore ==
  ASSUME NEW S, NEW s \in Seq(S), NEW a \in S, NEW b \in S
  PROVE  /\ s \o <<a, b>> \in Seq(S)
         /\ Len(s \o <<a, b>>) = Len(s) + 2
         /\ \A i \in 1 .. Len(s) : (s \o <<a, b>>)[i] = s[i]
         /\ (s \o <<a, b>>)[Len(s) + 1] = a
         /\ (s \o <<a, b>>)[Len(s) + 2] = b
<1>1. Len(s) \in Nat
  BY LenProperties
<1>2. PICK t : t = <<a, b>>
  OBVIOUS
<1>3. t \in Seq(S) /\ Len(t) = 2 /\ t[1] = a /\ t[2] = b
  BY <1>2
<1>4. /\ s \o t \in Seq(S)
      /\ Len(s \o t) = Len(s) + Len(t)
      /\ \A i \in 1 .. Len(s) + Len(t) :
           (s \o t)[i] = IF i <= Len(s) THEN s[i] ELSE t[i - Len(s)]
  BY <1>3, ConcatProperties
<1> DEFINE u == s \o t
<1>5. /\ u \in Seq(S) /\ Len(u) = Len(s) + 2
      /\ \A i \in 1 .. Len(s) + 2 : u[i] = IF i <= Len(s) THEN s[i] ELSE t[i - Len(s)]
  BY <1>3, <1>4
<1> HIDE DEF u
<1>6. /\ \A i \in 1 .. Len(s) : u[i] = s[i]
      /\ u[Len(s) + 1] = a
      /\ u[Len(s) + 2] = b
  BY <1>1, <1>3, <1>5
<1> QED
  BY <1>2, <1>5, <1>6 DEF u

(* The message at the start of a buffer is taken from it. *)
LEMMA DropTwo ==
  ASSUME NEW S, NEW s \in Seq(S), 2 <= Len(s)
  PROVE  /\ SubSeq(s, 3, Len(s)) \in Seq(S)
         /\ Len(SubSeq(s, 3, Len(s))) = Len(s) - 2
         /\ \A i \in 1 .. Len(s) - 2 : SubSeq(s, 3, Len(s))[i] = s[i + 2]
<1> DEFINE n == Len(s)
           t == SubSeq(s, 3, n)
<1>1. n \in Nat /\ 2 <= n
  BY LenProperties
<1>2. \A i \in 3 .. n : s[i] \in S
  BY ElementOfSeq
<1> HIDE DEF n
<1>3. /\ t \in Seq(S)
      /\ Len(t) = IF 3 <= n THEN n - 3 + 1 ELSE 0
      /\ \A i \in 1 .. n - 3 + 1 : t[i] = s[3 + i - 1]
  BY <1>1, <1>2, SubSeqProperties
<1> HIDE DEF t
<1>4. Len(t) = n - 2 /\ \A i \in 1 .. n - 2 : t[i] = s[i + 2]
  BY <1>1, <1>3
<1> QED
  BY <1>3, <1>4 DEF t, n

(* The connection ends within a message. *)
LEMMA DropLast ==
  ASSUME NEW S, NEW s \in Seq(S), s # <<>>
  PROVE  /\ SubSeq(s, 1, Len(s) - 1) \in Seq(S)
         /\ Len(SubSeq(s, 1, Len(s) - 1)) = Len(s) - 1
         /\ \A i \in 1 .. Len(s) - 1 : SubSeq(s, 1, Len(s) - 1)[i] = s[i]
<1>1. Len(s) \in Nat \ {0}
  BY EmptySeq
<1> DEFINE n == Len(s) - 1
<1>2. n \in Int /\ n >= 0 /\ \A i \in 1 .. n : s[i] \in S
  BY <1>1, ElementOfSeq
<1> HIDE DEF n
<1>3. /\ SubSeq(s, 1, n) \in Seq(S)
      /\ Len(SubSeq(s, 1, n)) = IF 1 <= n THEN n - 1 + 1 ELSE 0
      /\ \A i \in 1 .. n - 1 + 1 : SubSeq(s, 1, n)[i] = s[1 + i - 1]
  BY <1>2, SubSeqProperties
<1>4. /\ SubSeq(s, 1, n) \in Seq(S)
      /\ Len(SubSeq(s, 1, n)) = n
      /\ \A i \in 1 .. n : SubSeq(s, 1, n)[i] = s[i]
  BY <1>2, <1>3
<1> QED
  BY <1>4 DEF n

-----------------------------------------------------------------------------
(* Types *)

MessageSet == Conn \X (0 .. Garbled)
ByteSet ==
  (Conn \X (0 .. MaxMsg) \X {"length", "body"}) \cup {<<0, 0, "zeros">>}

ClientOK ==
  /\ fd \in Reader
  /\ connState \in {"CONNECTED", "DISCONNECTED"}
  /\ version \in Int
  /\ wire \in Seq(ByteSet)

ServerOK ==
  /\ peer \in [Conn -> {"none", "asked", "acked", "started", "closed"}]
  /\ offered \in [Conn -> ServerVersions \cup {0}]
  /\ sent \in [Conn -> 0 .. MaxMsg]

ConnectOK ==
  /\ caller \in {"none", "worker", "gui"}
  /\ place \in {"none", "connected", "asking", "answered"}
  /\ opened \in Reader /\ pReader \in Reader
  /\ decoder \in [Conn -> Int]
  /\ overtaken \in BOOLEAN

ReadersOK ==
  /\ thread \in [Conn -> {"none", "reading", "message", "queued", "ended"}]
  /\ buf \in [Reader -> Seq(ByteSet)]
  /\ queue \in [Reader -> Seq(MessageSet)]

WorkOK ==
  /\ worker \in {"loop", "connecting", "waiting", "processing", "crashed"}
  /\ target \in Reader
  /\ processed \in Seq(MessageSet)

TypeInv == ClientOK /\ ServerOK /\ ConnectOK /\ ReadersOK /\ WorkOK

LEMMA Bounds ==
  /\ MaxConn \in Nat /\ MaxMsg \in Nat
  /\ 0 \in Reader /\ 0 \notin Conn
  /\ \A c \in Conn : c \in Reader /\ c \in Nat
  /\ \A r \in Reader : r \in Nat /\ (r # 0 => r \in Conn)
BY TwsSessionAssumption DEF TwsSessionAssumption, Conn, Reader

LEMMA ReceiveType ==
  ASSUME ReadersOK, ClientOK, NEW r \in Reader, onReceive(r)
  PROVE  buf' \in [Reader -> Seq(ByteSet)] /\ wire' \in Seq(ByteSet)
<1>1. PICK k \in 1 .. Len(wire) :
        /\ buf' = [buf EXCEPT ![r] = buf[r] \o SubSeq(wire, 1, k)]
        /\ wire' = SubSeq(wire, k + 1, Len(wire))
  BY DEF onReceive
<1>2. buf[r] \in Seq(ByteSet) /\ wire \in Seq(ByteSet)
  BY DEF ReadersOK, ClientOK
<1>3. /\ buf[r] \o SubSeq(wire, 1, k) \in Seq(ByteSet)
      /\ SubSeq(wire, k + 1, Len(wire)) \in Seq(ByteSet)
  BY <1>2, TakeProperties
<1> QED
  BY <1>1, <1>3, Zenon DEF ReadersOK

LEMMA CloseType ==
  ASSUME ReadersOK, NEW r \in Reader, onClose(r)
  PROVE  buf' \in [Reader -> Seq(ByteSet)] /\ ClientOK'
<1>1. buf[r] \o Zeros \in Seq(ByteSet)
  BY TwoMore DEF ReadersOK, Zeros, ByteSet
<1>2. buf' = buf \/ buf' = [buf EXCEPT ![r] = buf[r] \o Zeros]
  BY DEF onClose
<1>3. buf' \in [Reader -> Seq(ByteSet)]
  BY <1>1, <1>2, Zenon DEF ReadersOK
<1>4. ClientOK'
  BY Bounds, EmptySeq DEF onClose, eDisconnect, ClientOK
<1> QED
  BY <1>3, <1>4

(* A complete message is one of the connection whose length it starts with. *)
LEMMA MessageRead ==
  ASSUME ReadersOK, NEW r \in Reader, Complete(r)
  PROVE  /\ readSingleMsg(r) \in MessageSet
         /\ readSingleMsg(r)[1] = buf[r][1][1]
<1>1. buf[r] \in Seq(ByteSet) /\ Len(buf[r]) \in Nat /\ Len(buf[r]) >= 2
  BY LenProperties DEF ReadersOK, Complete
<1>2. buf[r][1] \in ByteSet
  BY <1>1, ElementOfSeq
<1>3. buf[r] # <<>>
  BY <1>1, EmptySeq
<1>4. buf[r][1] \in Conn \X (0 .. MaxMsg) \X {"length", "body"}
  BY <1>2, <1>3 DEF Complete, BadLength, ByteSet
<1> DEFINE b == buf[r][1]
<1>5. /\ b[1] \in Conn /\ b[2] \in 0 .. Garbled /\ Garbled \in 0 .. Garbled
  BY <1>4, Bounds DEF Garbled
<1>6. readSingleMsg(r) = <<b[1], b[2]>> \/ readSingleMsg(r) = <<b[1], Garbled>>
  BY DEF readSingleMsg
<1> QED
  BY <1>5, <1>6 DEF MessageSet

LEMMA EnqueueType ==
  ASSUME ReadersOK, NEW r \in Reader, Enqueue(r)
  PROVE  /\ buf' \in [Reader -> Seq(ByteSet)]
         /\ queue' \in [Reader -> Seq(MessageSet)]
<1>1. SubSeq(buf[r], 3, Len(buf[r])) \in Seq(ByteSet)
  BY DropTwo DEF ReadersOK, Enqueue, Complete
<1>2. Append(queue[r], readSingleMsg(r)) \in Seq(MessageSet)
  BY MessageRead, AppendProperties DEF ReadersOK, Enqueue
<1> QED
  BY <1>1, <1>2, Zenon DEF Enqueue, ReadersOK

LEMMA DisconnectType ==
  ASSUME eDisconnect
  PROVE  ClientOK'
BY Bounds, EmptySeq DEF eDisconnect, ClientOK

LEMMA ReturnType ==
  ASSUME ReadersOK, WorkOK, Return
  PROVE  /\ buf' \in [Reader -> Seq(ByteSet)]
         /\ queue' \in [Reader -> Seq(MessageSet)]
         /\ worker' \in {"loop", "connecting", "waiting", "processing", "crashed"}
<1>1. /\ <<>> \in Seq(ByteSet) /\ <<>> \in Seq(MessageSet)
      /\ buf' = [buf EXCEPT ![0] = <<>>] /\ queue' = [queue EXCEPT ![0] = <<>>]
  BY EmptySeq DEF Return
<1>2. worker' \in {"loop", "connecting", "waiting", "processing", "crashed"}
  BY DEF Return, WorkOK
<1> QED
  BY <1>1, <1>2, Zenon DEF ReadersOK

LEMMA TypeInit == Init => TypeInv
<1> SUFFICES ASSUME Init PROVE TypeInv
  OBVIOUS
<1>1. <<>> \in Seq(ByteSet) /\ <<>> \in Seq(MessageSet)
  BY EmptySeq
<1>2. ClientOK
  BY <1>1, Bounds DEF Init, ClientOK
<1>3. ServerOK
  BY Bounds DEF Init, ServerOK
<1>4. ConnectOK
  BY Bounds DEF Init, ConnectOK
<1>5. ReadersOK
  BY <1>1 DEF Init, ReadersOK
<1>6. WorkOK
  BY <1>1, Bounds DEF Init, WorkOK
<1> QED
  BY <1>2, <1>3, <1>4, <1>5, <1>6 DEF TypeInv

LEMMA TypeNext == TypeInv /\ [Next]_vars => TypeInv'
<1> SUFFICES ASSUME TypeInv, [Next]_vars PROVE TypeInv'
  OBVIOUS
<1> USE Bounds DEF TypeInv
<1>e. <<>> \in Seq(ByteSet) /\ <<>> \in Seq(MessageSet)
  BY EmptySeq
<1>1. ASSUME NEW r \in Conn, Receive(r) PROVE TypeInv'
  <2>1. buf' \in [Reader -> Seq(ByteSet)] /\ wire' \in Seq(ByteSet)
    BY <1>1, ReceiveType DEF Receive
  <2> QED
    BY <1>1, <2>1 DEF Receive, client, server, connect, work, ClientOK, ServerOK,
                      ConnectOK, ReadersOK, WorkOK
<1>2. ASSUME NEW r \in Conn, ReceiveEnd(r) PROVE TypeInv'
  <2>1. buf' \in [Reader -> Seq(ByteSet)] /\ ClientOK'
    BY <1>2, CloseType DEF ReceiveEnd
  <2> QED
    BY <1>2, <2>1 DEF ReceiveEnd, server, connect, work, ServerOK, ConnectOK, ReadersOK, WorkOK
<1>3. ASSUME NEW r \in Conn, putMessageToQueue(r) PROVE TypeInv'
  BY <1>3 DEF putMessageToQueue, client, server, connect, work, ClientOK, ServerOK,
              ConnectOK, ReadersOK, WorkOK
<1>4. ASSUME NEW r \in Conn, Queued(r) PROVE TypeInv'
  <2>1. buf' \in [Reader -> Seq(ByteSet)] /\ queue' \in [Reader -> Seq(MessageSet)]
    BY <1>4, EnqueueType DEF Queued
  <2>2. thread' \in [Conn -> {"none", "reading", "message", "queued", "ended"}]
    BY <1>4 DEF Queued, ReadersOK
  <2>3. ReadersOK'
    BY <2>1, <2>2 DEF ReadersOK
  <2> QED
    BY <1>4, <2>3 DEF Queued, client, server, connect, work, ClientOK, ServerOK,
                      ConnectOK, WorkOK
<1>5. ASSUME NEW r \in Conn, issueSignal(r) PROVE TypeInv'
  BY <1>5 DEF issueSignal, client, server, connect, work, ClientOK, ServerOK,
              ConnectOK, ReadersOK, WorkOK
<1>6. ASSUME NEW r \in Conn, EndReader(r) PROVE TypeInv'
  BY <1>e, <1>6 DEF EndReader, client, server, connect, work, ClientOK, ServerOK,
              ConnectOK, ReadersOK, WorkOK
<1>7. ASSUME NEW t \in {"worker", "gui"}, connectAPI(t) PROVE TypeInv'
  <2>1. opened + 1 \in Reader
    BY <1>7 DEF connectAPI, ConnectOK, Reader
  <2> QED
    BY <1>7, <2>1 DEF connectAPI, ClientOK, ServerOK, ConnectOK, ReadersOK, WorkOK
<1>8. CASE CheckConnected
  <2>1. CASE isConnected
    BY <1>8, <2>1 DEF CheckConnected, client, server, ClientOK, ServerOK,
                ConnectOK, ReadersOK, WorkOK
  <2>2. CASE ~isConnected
    <3>1. Return
      BY <1>8, <2>2 DEF CheckConnected
    <3>2. /\ caller' \in {"none", "worker", "gui"}
          /\ place' \in {"none", "connected", "asking", "answered"}
      BY <3>1 DEF Return
    <3> QED
      BY <1>8, <3>1, <3>2, ReturnType DEF CheckConnected, client, server, ClientOK, ServerOK,
                ConnectOK, ReadersOK, WorkOK
  <2> QED
    BY <2>1, <2>2
<1>9. CASE ReceiveAck
  <2>0. ServerOK' /\ WorkOK' /\ thread' = thread
    BY <1>9 DEF ReceiveAck, server, work, ServerOK, WorkOK
  <2>1. CASE Incomplete(0) /\ onReceive(0) /\ UNCHANGED <<client, place, queue, signal>>
    BY <1>9, <2>0, <2>1, ReceiveType DEF ReceiveAck, client, ClientOK, ConnectOK, ReadersOK
  <2>2. CASE Enqueue(0) /\ place' = "answered" /\ signal' = TRUE /\ UNCHANGED <<client, wire>>
    BY <1>9, <2>0, <2>2, EnqueueType DEF ReceiveAck, client, ClientOK, ConnectOK, ReadersOK
  <2>3. CASE Incomplete(0) /\ onClose(0) /\ UNCHANGED <<place, queue, signal>>
    BY <1>9, <2>0, <2>3, CloseType DEF ReceiveAck, ConnectOK, ReadersOK
  <2>4. CASE place' = "answered" /\ UNCHANGED <<client, wire, buf, queue, signal>>
    BY <1>9, <2>0, <2>4 DEF ReceiveAck, client, ClientOK, ConnectOK, ReadersOK
  <2> QED
    BY <1>9, <2>1, <2>2, <2>3, <2>4 DEF ReceiveAck
<1>10. CASE ProcessAck
  <2>1. queue[0][1] \in MessageSet
    <3>1. queue[0] \in Seq(MessageSet) /\ queue[0] # <<>>
      BY <1>10 DEF ProcessAck, ReadersOK
    <3>2. 1 \in 1 .. Len(queue[0])
      BY <3>1, EmptySeq
    <3> QED
      BY <3>1, <3>2, ElementOfSeq
  <2>2. PICK c \in Conn : c = queue[0][1][1]
    BY <2>1 DEF MessageSet
  <2>3. offered[c] \in Int
    <3>1. ServerVersions \cup {0} \subseteq Int
      BY TwsSessionAssumption DEF TwsSessionAssumption
    <3>2. offered[c] \in ServerVersions \cup {0}
      BY DEF ServerOK
    <3> QED
      BY <3>1, <3>2, Zenon
  <2>4. \/ UNCHANGED <<client, peer, wire>>
        \/ eDisconnect /\ UNCHANGED peer
        \/ /\ version' = offered[c] /\ UNCHANGED <<fd, connState, wire>>
           /\ peer' = peer \/ peer' = [peer EXCEPT ![fd] = "started"]
    <3>1. serverVersion(c)
      BY <1>10, <2>2 DEF ProcessAck
    <3> QED
      BY <2>3, <3>1 DEF serverVersion
  <2>5. ClientOK'
    BY <2>3, <2>4, DisconnectType DEF client, ClientOK
  <2>6. peer' \in [Conn -> {"none", "asked", "acked", "started", "closed"}]
    BY <2>4 DEF ServerOK
  <2>7. ReadersOK'
    BY <1>e, <1>10 DEF ProcessAck, ReadersOK
  <2> QED
    BY <1>10, <2>5, <2>6, <2>7 DEF ProcessAck, connect, work, ServerOK, ConnectOK, WorkOK
<1>11. CASE StartReader
  <2>1. Return
    BY <1>11 DEF StartReader
  <2>2. /\ caller' \in {"none", "worker", "gui"}
        /\ place' \in {"none", "connected", "asking", "answered"}
    BY <2>1 DEF Return
  <2>3. /\ pReader' \in Reader
        /\ decoder' \in [Conn -> Int]
        /\ thread' \in [Conn -> {"none", "reading", "message", "queued", "ended"}]
    BY <1>11 DEF StartReader, ClientOK, ConnectOK, ReadersOK
  <2>4. ConnectOK' /\ ReadersOK'
    BY <1>11, <2>1, <2>2, <2>3, ReturnType DEF StartReader, ConnectOK, ReadersOK
  <2> QED
    BY <1>11, <2>1, <2>4, ReturnType DEF StartReader, client, server, ClientOK, ServerOK, WorkOK
<1>12. CASE waitForSignal
  BY <1>12 DEF waitForSignal, client, server, connect, ClientOK, ServerOK,
              ConnectOK, ReadersOK, WorkOK
<1>13. CASE Wake
  BY <1>13 DEF Wake, client, server, connect, ClientOK, ServerOK,
              ConnectOK, ReadersOK, WorkOK
<1>14. CASE processMsgs
  <2>0. ClientOK' /\ ServerOK' /\ ConnectOK'
    BY <1>14 DEF processMsgs, client, server, connect, ClientOK, ServerOK, ConnectOK
  <2>1. CASE queue[target] = <<>>
    BY <1>14, <2>0, <2>1 DEF processMsgs, ReadersOK, WorkOK
  <2>2. CASE queue[target] # <<>>
    <3> DEFINE q == queue[target]
    <3>1. q \in Seq(MessageSet) /\ q # <<>>
      BY <2>2 DEF ReadersOK, WorkOK
    <3>2. Head(q) \in MessageSet /\ Tail(q) \in Seq(MessageSet)
      BY <3>1, HeadTailProperties
    <3>3. Append(processed, Head(q)) \in Seq(MessageSet)
      BY <3>2, AppendProperties DEF WorkOK
    <3>4. /\ queue' = [queue EXCEPT ![target] = Tail(q)]
          /\ processed' = Append(processed, Head(q))
          /\ (worker' = "loop" /\ target' = 0) \/ (worker' = worker /\ target' = target)
          /\ thread' = thread /\ buf' = buf
      BY <1>14, <2>2 DEF processMsgs
    <3> HIDE DEF q
    <3>5. ReadersOK'
      BY <3>2, <3>4 DEF ReadersOK
    <3>6. WorkOK'
      BY <3>3, <3>4 DEF WorkOK
    <3> QED
      BY <2>0, <3>5, <3>6
  <2> QED
    BY <2>1, <2>2
<1>15. CASE disconnectAPI \/ SendFails
  BY <1>15, DisconnectType DEF disconnectAPI, SendFails, server, connect, work,
                               ServerOK, ConnectOK, ReadersOK, WorkOK
<1>16. ASSUME NEW c \in Conn, Answer(c) \/ Send(c) \/ Close(c) PROVE TypeInv'
  <2>0. ConnectOK' /\ ReadersOK' /\ WorkOK'
    BY <1>16 DEF Answer, Send, Close, client, connect, work, ConnectOK, ReadersOK, WorkOK
  <2>1. \A n \in 0 .. MaxMsg : wire \o Bytes(c, n) \in Seq(ByteSet)
    BY TwoMore DEF Bytes, ByteSet, ClientOK
  <2>2. CASE Answer(c)
    BY <2>0, <2>1, <2>2 DEF Answer, client, ClientOK, ServerOK
  <2>3. CASE Send(c)
    <3>1. sent[c] + 1 \in 0 .. MaxMsg
      BY <2>3 DEF Send, ServerOK
    <3> QED
      BY <2>0, <2>1, <2>3, <3>1 DEF Send, client, ClientOK, ServerOK
  <2>4. CASE Close(c)
    <3>1. wire # <<>> => SubSeq(wire, 1, Len(wire) - 1) \in Seq(ByteSet)
      BY DropLast DEF ClientOK
    <3> QED
      BY <2>0, <2>4, <3>1 DEF Close, client, ClientOK, ServerOK
  <2> QED
    BY <1>16, <2>2, <2>3, <2>4
<1>17. CASE UNCHANGED vars
  BY <1>17 DEF vars, client, server, connect, work, ClientOK, ServerOK, ConnectOK, ReadersOK, WorkOK
<1> QED
  BY <1>1, <1>2, <1>3, <1>4, <1>5, <1>6, <1>7, <1>8, <1>9, <1>10, <1>11, <1>12, <1>13,
     <1>14, <1>15, <1>16, <1>17 DEF Next, ReaderStep, CallerStep, WorkerStep

(* Every variable keeps its type, whatever overtakes whatever. *)
THEOREM Typing == Spec => []TypeInv
<1>1. Init => TypeInv
  BY TypeInit
<1>2. TypeInv /\ [Next]_vars => TypeInv'
  BY TypeNext
<1> QED
  BY <1>1, <1>2, PTL DEF Spec

-----------------------------------------------------------------------------
(* The client, the thread that connects and the worker *)

(* The socket is open and the client connected together; a connection is   *)
(* the last one opened, or none; the local reader of the handshake is      *)
(* empty outside it, and what no reader was started for has nothing queued.*)
Socket ==
  /\ isSocketOK <=> isConnected
  /\ fd \in {0, opened}
  /\ ~isSocketOK => version = 0 /\ wire = <<>>
  /\ caller = "none" <=> place = "none"
  /\ caller # "none" => opened # 0
  /\ caller = "none" => buf[0] = <<>>
  /\ place \in {"none", "connected", "asking"} => queue[0] = <<>>
  /\ \A c \in Conn : thread[c] = "none" => queue[c] = <<>> /\ buf[c] = <<>>
  /\ \A c \in Conn : c > opened =>
       /\ thread[c] = "none" /\ peer[c] = "none" /\ sent[c] = 0 /\ offered[c] = 0
  /\ worker = "processing" => target # 0

LEMMA SocketInit == Init => Socket
BY Bounds DEF Init, Socket, isSocketOK, isConnected

LEMMA SocketNext == TypeInv /\ Socket /\ [Next]_vars => Socket'
<1> SUFFICES ASSUME TypeInv, Socket, [Next]_vars PROVE Socket'
  OBVIOUS
<1> USE Bounds DEF TypeInv, ConnectOK, ReadersOK, isSocketOK, isConnected
<1>1. ASSUME NEW r \in Conn, Receive(r) PROVE Socket'
  <2>1. /\ thread[r] # "none"
        /\ \E b : buf' = [buf EXCEPT ![r] = b]
        /\ isSocketOK
    BY <1>1 DEF Receive, Receives, onReceive
  <2> QED
    BY <1>1, <2>1 DEF Receive, client, server, connect, work, Socket
<1>2. ASSUME NEW r \in Conn, ReceiveEnd(r) PROVE Socket'
  <2>1. /\ thread[r] # "none"
        /\ buf' = buf \/ \E b : buf' = [buf EXCEPT ![r] = b]
        /\ eDisconnect
    BY <1>2 DEF ReceiveEnd, Receives, onClose
  <2> QED
    BY <1>2, <2>1 DEF ReceiveEnd, eDisconnect, server, connect, work, Socket
<1>3. ASSUME NEW r \in Conn, putMessageToQueue(r) PROVE Socket'
  BY <1>3 DEF putMessageToQueue, client, server, connect, work, Socket
<1>4. ASSUME NEW r \in Conn, Queued(r) PROVE Socket'
  <2>1. \E q : queue' = [queue EXCEPT ![r] = q]
    BY <1>4 DEF Queued, Enqueue
  <2>2. \E b : buf' = [buf EXCEPT ![r] = b]
    BY <1>4 DEF Queued, Enqueue
  <2> QED
    BY <1>4, <2>1, <2>2 DEF Queued, client, server, connect, work, Socket
<1>5. ASSUME NEW r \in Conn, issueSignal(r) PROVE Socket'
  BY <1>5 DEF issueSignal, client, server, connect, work, Socket
<1>6. ASSUME NEW r \in Conn, EndReader(r) PROVE Socket'
  BY <1>6 DEF EndReader, client, server, connect, work, Socket
<1>7. ASSUME NEW t \in {"worker", "gui"}, connectAPI(t) PROVE Socket'
  BY <1>7 DEF connectAPI, ServerOK, Socket
<1>8. CASE CheckConnected
  <2>1. CASE isConnected
    BY <1>8, <2>1 DEF CheckConnected, client, server, Socket
  <2>2. CASE ~isConnected
    BY <1>8, <2>2 DEF CheckConnected, Return, client, server, Socket
  <2> QED
    BY <2>1, <2>2
<1>9. CASE ReceiveAck
  <2>1. CASE Incomplete(0) /\ onReceive(0) /\ UNCHANGED <<client, place, queue, signal>>
    <3>1. isSocketOK /\ \E b : buf' = [buf EXCEPT ![0] = b]
      BY <2>1 DEF onReceive
    <3> QED
      BY <1>9, <2>1, <3>1 DEF ReceiveAck, client, server, work, Socket
  <2>2. CASE Enqueue(0) /\ place' = "answered" /\ signal' = TRUE /\ UNCHANGED <<client, wire>>
    <3>1. \E b : buf' = [buf EXCEPT ![0] = b]
      BY <2>2 DEF Enqueue
    <3>2. \E q : queue' = [queue EXCEPT ![0] = q]
      BY <2>2 DEF Enqueue
    <3> QED
      BY <1>9, <2>2, <3>1, <3>2 DEF ReceiveAck, client, server, work, Socket
  <2>3. CASE Incomplete(0) /\ onClose(0) /\ UNCHANGED <<place, queue, signal>>
    <3>1. buf' = buf \/ \E b : buf' = [buf EXCEPT ![0] = b]
      BY <2>3 DEF onClose
    <3> QED
      BY <1>9, <2>3, <3>1 DEF ReceiveAck, onClose, eDisconnect, server, work, Socket
  <2>4. CASE place' = "answered" /\ UNCHANGED <<client, wire, buf, queue, signal>>
    BY <1>9, <2>4 DEF ReceiveAck, client, server, work, Socket
  <2> QED
    BY <1>9, <2>1, <2>2, <2>3, <2>4 DEF ReceiveAck
<1>10. CASE ProcessAck
  <2>1. PICK c : c = queue[0][1][1]
    OBVIOUS
  <2>2. serverVersion(c)
    BY <1>10, <2>1 DEF ProcessAck
  <2>3. /\ \/ UNCHANGED client
           \/ eDisconnect
           \/ fd' = fd /\ connState' = connState
        /\ peer' = peer \/ peer' = [peer EXCEPT ![fd] = "started"]
    BY <2>2 DEF serverVersion
  <2>4. isSocketOK /\ fd <= opened
    BY <1>10 DEF ProcessAck, Socket
  <2> HIDE <2>2
  <2> QED
    BY <1>10, <2>3, <2>4 DEF ProcessAck, eDisconnect, client, connect, work, ServerOK, Socket
<1>11. CASE StartReader
  <2>1. CASE isSocketOK
    BY <1>11, <2>1 DEF StartReader, Return, client, server, Socket
  <2>2. CASE ~isSocketOK
    BY <1>11, <2>2 DEF StartReader, Return, client, server, Socket
  <2> QED
    BY <2>1, <2>2
<1>12. CASE waitForSignal
  BY <1>12 DEF waitForSignal, client, server, connect, Socket
<1>13. CASE Wake
  BY <1>13 DEF Wake, client, server, connect, Socket
<1>14. CASE processMsgs
  <2>1. CASE queue[target] = <<>>
    BY <1>14, <2>1 DEF processMsgs, client, server, connect, Socket
  <2>2. CASE queue[target] # <<>>
    <3>1. /\ \E q : queue' = [queue EXCEPT ![target] = q]
          /\ worker' = "loop" \/ (worker' = worker /\ target' = target)
          /\ target \in Conn /\ thread[target] # "none"
      BY <1>14, <2>2 DEF processMsgs, Socket, WorkOK
    <3> QED
      BY <1>14, <3>1 DEF processMsgs, client, server, connect, Socket
  <2> QED
    BY <2>1, <2>2
<1>15. CASE disconnectAPI \/ SendFails
  BY <1>15 DEF disconnectAPI, SendFails, eDisconnect, server, connect, work, Socket
<1>16. ASSUME NEW c \in Conn, Answer(c) \/ Send(c) \/ Close(c) PROVE Socket'
  <2>1. c <= opened /\ fd # 0
    BY <1>16 DEF Answer, Send, Close, Socket
  <2>2. \A d \in Conn : d # c =>
          peer'[d] = peer[d] /\ sent'[d] = sent[d] /\ offered'[d] = offered[d]
    BY <1>16 DEF Answer, Send, Close, ServerOK
  <2>3. UNCHANGED <<client, connect, work, thread, buf, queue>>
    BY <1>16 DEF Answer, Send, Close
  <2>4. \A d \in Conn : d > opened => d # c
    BY <2>1
  <2>5. \A d \in Conn : d > opened' =>
          thread'[d] = "none" /\ peer'[d] = "none" /\ sent'[d] = 0 /\ offered'[d] = 0
    BY <2>2, <2>3, <2>4 DEF connect, Socket
  <2> QED
    BY <2>1, <2>3, <2>5 DEF client, connect, work, Socket
<1>17. CASE UNCHANGED vars
  BY <1>17 DEF vars, client, server, connect, work, Socket
<1> QED
  BY <1>1, <1>2, <1>3, <1>4, <1>5, <1>6, <1>7, <1>8, <1>9, <1>10, <1>11, <1>12, <1>13,
     <1>14, <1>15, <1>16, <1>17 DEF Next, ReaderStep, CallerStep, WorkerStep

-----------------------------------------------------------------------------
(* The bytes of a connection, counted from 0: message n is at 2n and at    *)
(* 2n + 1.                                                                 *)
Byte(c, p) == <<c, p \div 2, IF p % 2 = 0 THEN "length" ELSE "body">>

(* s is part of what the server sent on c, from its byte p on. *)
InPlace(s, c, p) == \A i \in 1 .. Len(s) : s[i] = Byte(c, p + i - 1)

LEMMA ByteOf ==
  ASSUME NEW n \in Nat, NEW c
  PROVE  /\ Byte(c, 2 * n) = <<c, n, "length">>
         /\ Byte(c, 2 * n + 1) = <<c, n, "body">>
<1>1. (2 * n) \div 2 = n /\ (2 * n) % 2 = 0
  OBVIOUS
<1>2. (2 * n + 1) \div 2 = n /\ (2 * n + 1) % 2 = 1
  OBVIOUS
<1> QED
  BY <1>1, <1>2 DEF Byte

LEMMA InPlaceTake ==
  ASSUME NEW s \in Seq(ByteSet), NEW w \in Seq(ByteSet), NEW k \in 1 .. Len(w),
         NEW c, NEW p \in Nat, InPlace(s, c, p), InPlace(w, c, p + Len(s))
  PROVE  /\ InPlace(s \o SubSeq(w, 1, k), c, p)
         /\ InPlace(SubSeq(w, k + 1, Len(w)), c, p + Len(s) + k)
<1>0. /\ Len(s \o SubSeq(w, 1, k)) = Len(s) + k
      /\ \A i \in 1 .. Len(s) : (s \o SubSeq(w, 1, k))[i] = s[i]
      /\ \A i \in Len(s) + 1 .. Len(s) + k : (s \o SubSeq(w, 1, k))[i] = w[i - Len(s)]
      /\ Len(SubSeq(w, k + 1, Len(w))) = Len(w) - k
      /\ \A i \in 1 .. Len(w) - k : SubSeq(w, k + 1, Len(w))[i] = w[i + k]
  BY TakeProperties
<1> DEFINE t == s \o SubSeq(w, 1, k)
           u == SubSeq(w, k + 1, Len(w))
           n == Len(s)
           l == Len(w)
<1>1. n \in Nat /\ l \in Nat
  BY LenProperties
<1>2. /\ Len(t) = n + k
      /\ \A i \in 1 .. n : t[i] = s[i]
      /\ \A i \in n + 1 .. n + k : t[i] = w[i - n]
      /\ Len(u) = l - k
      /\ \A i \in 1 .. l - k : u[i] = w[i + k]
  BY <1>0
<1>3. k \in 1 .. l /\ (\A i \in 1 .. n : s[i] = Byte(c, p + i - 1))
      /\ \A i \in 1 .. l : w[i] = Byte(c, p + n + i - 1)
  BY DEF InPlace
<1> HIDE DEF t, u, n, l
<1>4. \A i \in 1 .. n + k : t[i] = Byte(c, p + i - 1)
  <2> TAKE i \in 1 .. n + k
  <2>1. CASE i \in 1 .. n
    BY <1>2, <1>3, <2>1
  <2>2. CASE i \in n + 1 .. n + k
    <3>1. i - n \in 1 .. l /\ p + n + (i - n) - 1 = p + i - 1
      BY <1>1, <1>3, <2>2
    <3> QED
      BY <1>2, <1>3, <2>2, <3>1
  <2> QED
    BY <1>1, <2>1, <2>2
<1>5. \A i \in 1 .. l - k : u[i] = Byte(c, p + n + k + i - 1)
  <2> TAKE i \in 1 .. l - k
  <2>1. i + k \in 1 .. l /\ p + n + (i + k) - 1 = p + n + k + i - 1
    BY <1>1, <1>3
  <2> QED
    BY <1>2, <1>3, <2>1
<1> QED
  BY <1>2, <1>4, <1>5 DEF InPlace, t, u, n

(* The server sends message n when the bytes before it are 2n. *)
LEMMA InPlaceSend ==
  ASSUME NEW w \in Seq(ByteSet), NEW c \in Conn, NEW n \in 0 .. MaxMsg, NEW p \in Nat,
         InPlace(w, c, p), p + Len(w) = 2 * n
  PROVE  /\ InPlace(w \o Bytes(c, n), c, p)
         /\ Len(w \o Bytes(c, n)) = Len(w) + 2
<1> DEFINE l == Len(w)
           a == <<c, n, "length">>
           b == <<c, n, "body">>
           t == w \o <<a, b>>
<1>1. l \in Nat /\ n \in Nat /\ p + l = 2 * n
  BY LenProperties, Bounds
<1>2. a \in ByteSet /\ b \in ByteSet
  BY DEF ByteSet
<1>3. Byte(c, p + l) = a /\ Byte(c, p + l + 1) = b
  BY <1>1, ByteOf
<1>4. \A i \in 1 .. l : w[i] = Byte(c, p + i - 1)
  BY DEF InPlace
<1> HIDE DEF a, b, l
<1>5. /\ Len(t) = l + 2
      /\ \A i \in 1 .. l : t[i] = w[i]
      /\ t[l + 1] = a /\ t[l + 2] = b
  BY <1>2, TwoMore DEF l
<1> HIDE DEF t
<1>6. \A i \in 1 .. l + 2 : t[i] = Byte(c, p + i - 1)
  <2> TAKE i \in 1 .. l + 2
  <2>1. CASE i \in 1 .. l
    BY <1>4, <1>5, <2>1
  <2>2. CASE i = l + 1
    <3>1. p + i - 1 = p + l
      BY <1>1, <2>2
    <3> QED
      BY <1>3, <1>5, <2>2, <3>1
  <2>3. CASE i = l + 2
    <3>1. p + i - 1 = p + l + 1
      BY <1>1, <2>3
    <3> QED
      BY <1>3, <1>5, <2>3, <3>1
  <2> QED
    BY <1>1, <2>1, <2>2, <2>3
<1>7. w \o Bytes(c, n) = t
  BY DEF Bytes, t, a, b
<1> QED
  BY <1>5, <1>6, <1>7 DEF InPlace, l

LEMMA InPlaceDrop ==
  ASSUME NEW s \in Seq(ByteSet), NEW c, NEW p \in Nat, InPlace(s, c, p)
  PROVE  /\ 2 <= Len(s) => InPlace(SubSeq(s, 3, Len(s)), c, p + 2)
         /\ s # <<>> => InPlace(SubSeq(s, 1, Len(s) - 1), c, p)
<1> DEFINE n == Len(s)
           t == SubSeq(s, 3, n)
           u == SubSeq(s, 1, n - 1)
<1>1. n \in Nat /\ \A i \in 1 .. n : s[i] = Byte(c, p + i - 1)
  BY LenProperties DEF InPlace
<1>2. 2 <= n => Len(t) = n - 2 /\ \A i \in 1 .. n - 2 : t[i] = s[i + 2]
  BY DropTwo
<1>3. s # <<>> => Len(u) = n - 1 /\ \A i \in 1 .. n - 1 : u[i] = s[i]
  BY DropLast
<1> HIDE DEF n, t, u
<1>4. ASSUME 2 <= n PROVE InPlace(t, c, p + 2)
  <2>1. ASSUME NEW i \in 1 .. n - 2 PROVE t[i] = Byte(c, (p + 2) + i - 1)
    <3>1. i + 2 \in 1 .. n /\ (p + 2) + i - 1 = p + (i + 2) - 1
      BY <1>1
    <3> QED
      BY <1>1, <1>2, <1>4, <3>1
  <2> QED
    BY <1>2, <1>4, <2>1 DEF InPlace
<1>5. ASSUME s # <<>> PROVE InPlace(u, c, p)
  BY <1>1, <1>3, <1>5 DEF InPlace
<1> QED
  BY <1>4, <1>5 DEF n, t, u

(* One reader at a time: that of the last connection, once the handshake   *)
(* is over, and it runs as long as the connection is open.                 *)
OneReader ==
  /\ \A r \in Conn : r < opened => thread[r] \in {"none", "ended"}
  /\ caller # "none" => thread[opened] = "none"
  /\ isSocketOK /\ caller = "none" => thread[fd] \in {"reading", "message", "queued"}

(* The handshake: the local reader takes the ack and nothing of what       *)
(* follows it, and the client has no version but that of the server.       *)
Handshake ==
  /\ version # 0 => version = offered[fd] /\ version \in Version
  /\ isSocketOK =>
       /\ peer[fd] = "asked" => offered[fd] = 0
       /\ peer[fd] \in {"acked", "started"} => offered[fd] # 0
       /\ version = 0 => peer[fd] # "started" /\ sent[fd] = 0
  /\ isSocketOK /\ place \in {"connected", "asking"} =>
       /\ version = 0
       /\ InPlace(buf[0], fd, 0) /\ InPlace(wire, fd, Len(buf[0]))
       /\ Len(buf[0]) + Len(wire) <= IF offered[fd] = 0 THEN 0 ELSE 2
       /\ Len(buf[0]) + Len(wire) = 2 \/ peer[fd] \in {"asked", "closed"}
  /\ isSocketOK /\ place = "answered" =>
       /\ offered[fd] # 0 /\ peer[fd] # "asked"
       /\ queue[0] # <<>> => queue[0][1][1] = fd /\ version = 0

(* A reader's decoder has the version of the server of its connection. *)
Decoders ==
  \A c \in Conn : thread[c] # "none" =>
    /\ decoder[c] = offered[c] /\ decoder[c] \in Version
    /\ peer[c] # "asked"

(* The messages of c that were decoded are the first ones sent.  Those     *)
(* that the reader queued come next, in order, the last of them cut short  *)
(* maybe, when the connection is no longer open and no more will be read;  *)
(* then the bytes in the buffer and then those of the socket.  When the    *)
(* reader is within a message of a closed connection its buffer may have   *)
(* been filled up with zeros.                                              *)
Seen(c) == Decoded(c, Len(processed))

InLine(c, k) ==
  \A i \in 1 .. Len(queue[c]) :
    \/ queue[c][i] = <<c, k + i>>
    \/ /\ queue[c][i] = <<c, Garbled>> /\ i = Len(queue[c])
       /\ fd # c /\ thread[c] # "message"

OnTheWay(c, n) ==
  /\ InPlace(buf[c], c, 2 * n)
  /\ InPlace(wire, c, 2 * n + Len(buf[c]))
  /\ 2 * n + Len(buf[c]) + Len(wire) <= 2 * sent[c] + 2
  /\ 2 * n + Len(buf[c]) + Len(wire) = 2 * sent[c] + 2 \/ peer[c] = "closed"

LeftOver(c, n) ==
  \A i \in 1 .. Len(buf[c]) :
    \/ buf[c][i] = <<0, 0, "zeros">>
    \/ buf[c][i] = Byte(c, 2 * n + i - 1) /\ 2 * n + i - 1 <= 2 * sent[c] + 1

Flows(c, k) ==
  /\ Seen(c) = 1 .. k
  /\ k + Len(queue[c]) <= sent[c]
  /\ thread[c] = "none" => k = 0
  /\ InLine(c, k)
  /\ fd = c /\ place \in {"none", "answered"} => OnTheWay(c, k + Len(queue[c]) + 1)
  /\ thread[c] = "message" /\ fd # c => LeftOver(c, k + Len(queue[c]) + 1)

(* The message that was cut short has been decoded. *)
Cut(c, k) ==
  /\ Seen(c) = (1 .. k) \cup {Garbled}
  /\ k < sent[c]
  /\ queue[c] = <<>> /\ fd # c /\ thread[c] \notin {"none", "message"}

Flow == \A c \in Conn : \E k \in Nat : Flows(c, k) \/ Cut(c, k)

(* Unless a connection was opened over a reader that still ran. *)
Orderly == OneReader /\ Handshake /\ Decoders /\ Flow

LEMMA OvertakenStays == [Next]_vars /\ TypeInv /\ ~overtaken' => ~overtaken
BY DEF Next, ReaderStep, CallerStep, WorkerStep, vars, connect, TypeInv, ConnectOK,
  Receive, ReceiveEnd, putMessageToQueue, Queued, issueSignal, EndReader, connectAPI,
  CheckConnected, ReceiveAck, ProcessAck, StartReader, waitForSignal, Wake, processMsgs,
  disconnectAPI, SendFails, Answer, Send, Close

LEMMA OrderlyInit == Init => Orderly
<1> SUFFICES ASSUME Init PROVE Orderly
  OBVIOUS
<1>1. OneReader /\ Handshake /\ Decoders
  BY Bounds DEF Init, OneReader, Handshake, Decoders, isSocketOK
<1>2. ASSUME NEW c \in Conn PROVE Flows(c, 0)
  <2>1. fd # c /\ thread[c] = "none" /\ sent[c] = 0 /\ Len(processed) = 0
        /\ queue[c] = <<>> /\ Len(queue[c]) = 0
    BY Bounds DEF Init
  <2>2. Seen(c) = 1 .. 0
    BY <2>1 DEF Seen, Decoded
  <2> QED
    BY <2>1, <2>2 DEF Flows, InLine
<1> QED
  BY <1>1, <1>2 DEF Orderly, Flow

(* A reader that runs is that of the last connection. *)
LEMMA ReaderRuns ==
  ASSUME TypeInv, Socket, OneReader, NEW r \in Conn, thread[r] \notin {"none", "ended"}
  PROVE  /\ r = opened /\ caller = "none" /\ place = "none"
         /\ fd \in {0, r}
<1> USE Bounds DEF TypeInv, ConnectOK
<1>1. r <= opened /\ ~(r < opened)
  BY DEF Socket, OneReader
<1>2. r = opened
  BY <1>1
<1> QED
  BY <1>2 DEF Socket, OneReader

(* The message that a reader cuts from the bytes of an open connection is  *)
(* the next one the server sent.                                           *)
LEMMA NextMessage ==
  ASSUME TypeInv, NEW c \in Conn, NEW r \in Reader, NEW n \in Nat, InPlace(buf[r], c, 2 * n)
  PROVE  /\ ~BadLength(r)
         /\ Complete(r) => readSingleMsg(r) = <<c, n>>
<1>1. Len(buf[r]) \in Nat
  BY LenProperties DEF TypeInv, ReadersOK
<1>2. buf[r] # <<>> => Len(buf[r]) >= 1
  BY EmptySeq DEF TypeInv, ReadersOK
<1>3. buf[r] # <<>> => buf[r][1] = <<c, n, "length">>
  <2>1. buf[r] # <<>> => buf[r][1] = Byte(c, 2 * n + 1 - 1)
    BY <1>1, <1>2 DEF InPlace
  <2>2. 2 * n + 1 - 1 = 2 * n
    OBVIOUS
  <2> QED
    BY <2>1, <2>2, ByteOf
<1>4. Len(buf[r]) >= 2 => buf[r][2] = <<c, n, "body">>
  <2>1. Len(buf[r]) >= 2 => buf[r][2] = Byte(c, 2 * n + 2 - 1)
    BY <1>1 DEF InPlace
  <2>2. 2 * n + 2 - 1 = 2 * n + 1
    OBVIOUS
  <2> QED
    BY <2>1, <2>2, ByteOf
<1>5. ~BadLength(r)
  BY <1>3 DEF BadLength
<1>6. ASSUME Complete(r) PROVE readSingleMsg(r) = <<c, n>>
  <2>1. Len(buf[r]) >= 2
    BY <1>6 DEF Complete
  <2>2. buf[r] # <<>>
    BY <2>1, EmptySeq
  <2> QED
    BY <1>3, <1>4, <2>1, <2>2 DEF readSingleMsg
<1> QED
  BY <1>5, <1>6

(* The bytes on the way of an open connection, some of which may now be    *)
(* lost, are what the reader may find in its buffer after the close.       *)
LEMMA LeftOfTheWay ==
  ASSUME TypeInv, NEW c \in Conn, NEW n \in Nat, OnTheWay(c, n)
  PROVE  LeftOver(c, n)
<1> DEFINE l == Len(buf[c])
           w == Len(wire)
<1>1. l \in Nat /\ w \in Nat /\ sent[c] \in Nat
  BY LenProperties, Bounds DEF TypeInv, ReadersOK, ClientOK, ServerOK
<1>2. /\ \A i \in 1 .. l : buf[c][i] = Byte(c, 2 * n + i - 1)
      /\ 2 * n + l + w <= 2 * sent[c] + 2
  BY DEF OnTheWay, InPlace
<1> HIDE DEF l, w
<1>3. ASSUME NEW i \in 1 .. l
      PROVE  /\ buf[c][i] = Byte(c, 2 * n + i - 1)
             /\ 2 * n + i - 1 <= 2 * sent[c] + 1
  BY <1>1, <1>2
<1> QED
  BY <1>3 DEF LeftOver, l

(* A step after which c is not the open connection, in which its reader    *)
(* does nothing but end or find the connection closed.                     *)
LEMMA FlowAway ==
  ASSUME TypeInv, NEW c \in Conn, NEW k \in Nat, Flows(c, k) \/ Cut(c, k),
         fd' # c, UNCHANGED <<processed, queue[c], sent[c]>>,
         thread'[c] \in {thread[c], "ended"}, thread[c] = "none" => thread'[c] = "none",
         thread[c] = "message" /\ fd = c => place = "none",
         thread'[c] = "message" =>
           \A i \in 1 .. Len(buf'[c]) :
             \/ i \in 1 .. Len(buf[c]) /\ buf'[c][i] = buf[c][i]
             \/ buf'[c][i] = <<0, 0, "zeros">>
  PROVE  Flows(c, k)' \/ Cut(c, k)'
<1>1. PICK n \in Nat : n = k + Len(queue[c]) + 1
  BY LenProperties, Bounds DEF TypeInv, ReadersOK
<1>2. Seen(c)' = Seen(c)
  BY DEF Seen, Decoded
<1>3. CASE Cut(c, k)
  BY <1>2, <1>3 DEF Cut
<1>4. CASE Flows(c, k)
  <2>1. InLine(c, k)'
    BY <1>4 DEF Flows, InLine
  <2>2. ASSUME thread'[c] = "message" PROVE LeftOver(c, n)'
    <3>1. thread[c] = "message"
      BY <2>2
    <3>2. LeftOver(c, n)
      BY <1>1, <1>4, <3>1, LeftOfTheWay DEF Flows
    <3>3. /\ sent'[c] = sent[c]
          /\ \A i \in 1 .. Len(buf'[c]) :
             \/ i \in 1 .. Len(buf[c]) /\ buf'[c][i] = buf[c][i]
             \/ buf'[c][i] = <<0, 0, "zeros">>
      BY <2>2
    <3> QED
      BY <3>2, <3>3 DEF LeftOver
  <2> QED
    BY <1>1, <1>2, <1>4, <2>1, <2>2 DEF Flows
<1> QED
  BY <1>3, <1>4

(* A step that leaves the messages and bytes of c where they are. *)
LEMMA FlowStays ==
  ASSUME TypeInv, NEW c \in Conn, NEW k \in Nat, Flows(c, k) \/ Cut(c, k),
         UNCHANGED <<fd, Seen(c), queue[c], sent[c], buf[c]>>,
         fd = c /\ place' \in {"none", "answered"} =>
           /\ place \in {"none", "answered"} /\ wire' = wire
           /\ peer[c] = "closed" => peer'[c] = "closed",
         thread'[c] = "message" => thread[c] = "message" \/ fd = c,
         thread'[c] = "none" => thread[c] = "none"
  PROVE  Flows(c, k)' \/ Cut(c, k)'
<1>2. Seen(c)' = Seen(c)
  OBVIOUS
<1>3. CASE Cut(c, k)
  BY <1>2, <1>3 DEF Cut
<1>4. CASE Flows(c, k)
  <2>1. InLine(c, k)'
    BY <1>4 DEF Flows, InLine
  <2>2. ASSUME NEW n, fd = c, place' \in {"none", "answered"}, OnTheWay(c, n)
        PROVE  OnTheWay(c, n)'
    BY <2>2 DEF OnTheWay, InPlace
  <2>3. ASSUME NEW n, LeftOver(c, n) PROVE LeftOver(c, n)'
    BY <2>3 DEF LeftOver
  <2> QED
    BY <1>2, <1>4, <2>1, <2>2, <2>3 DEF Flows
<1> QED
  BY <1>3, <1>4

(* What one more decoded message adds. *)
LEMMA SeenMore ==
  ASSUME NEW m \in MessageSet, processed \in Seq(MessageSet), processed' = Append(processed, m),
         NEW c
  PROVE  /\ Seen(c)' = Seen(c) \cup (IF m[1] = c THEN {m[2]} ELSE {})
         /\ \A j \in 0 .. Len(processed) : Decoded(c, j)' = Decoded(c, j)
<1> DEFINE p == processed
           q == processed'
           n == Len(processed)
<1>1. /\ n \in Nat /\ Len(q) = n + 1
      /\ \A i \in 1 .. n : q[i] = p[i]
      /\ q[n + 1] = m
  BY AppendProperties, LenProperties
<1>2. \A j \in 0 .. n : Decoded(c, j)' = Decoded(c, j)
  <2> TAKE j \in 0 .. n
  <2>1. 1 .. j \subseteq 1 .. n
    BY <1>1
  <2>2. \A i \in 1 .. j : q[i] = p[i]
    BY <1>1, <2>1
  <2> QED
    BY <2>2 DEF Decoded
<1>3. Seen(c)' = {q[i][2] : i \in {i \in 1 .. n + 1 : q[i][1] = c}}
  BY <1>1 DEF Seen, Decoded
<1>4. Seen(c) = {p[i][2] : i \in {i \in 1 .. n : p[i][1] = c}}
  BY DEF Seen, Decoded
<1> HIDE DEF n
<1>5. 1 .. n + 1 = (1 .. n) \cup {n + 1}
  BY <1>1
<1> HIDE DEF p, q
<1>6. {q[i][2] : i \in {i \in 1 .. n + 1 : q[i][1] = c}} =
        {p[i][2] : i \in {i \in 1 .. n : p[i][1] = c}} \cup (IF m[1] = c THEN {m[2]} ELSE {})
  <2>1. n + 1 \notin 1 .. n
    BY <1>1
  <2> QED
    BY <1>1, <1>5, <2>1
<1> QED
  BY <1>2, <1>3, <1>4, <1>6 DEF n

(* An open connection's reader ends only when it is closed. *)
LEMMA LengthInPlace ==
  ASSUME TypeInv, Socket, OneReader, Flow, NEW r \in Conn, thread[r] = "message", fd = r
  PROVE  ~BadLength(r)
<1>1. PICK k \in Nat : Flows(r, k) \/ Cut(r, k)
  BY DEF Flow
<1>2. place = "none"
  BY ReaderRuns
<1>3. PICK n \in Nat : n = k + Len(queue[r]) + 1
  BY LenProperties, Bounds DEF TypeInv, ReadersOK
<1>4. InPlace(buf[r], r, 2 * n)
  BY <1>1, <1>2, <1>3 DEF Flows, Cut, OnTheWay
<1> QED
  BY <1>4, NextMessage, Bounds

LEMMA OneReaderNext ==
  ASSUME TypeInv, Socket, Socket', Orderly, [Next]_vars, ~overtaken'
  PROVE  OneReader'
<1> USE Bounds DEF TypeInv, ConnectOK, ReadersOK, isSocketOK, isConnected
<1>0. OneReader /\ Flow
  BY DEF Orderly
<1>1. ASSUME NEW r \in Conn, Receive(r) PROVE OneReader'
  BY <1>0, <1>1 DEF Receive, client, connect, OneReader
<1>2. ASSUME NEW r \in Conn, ReceiveEnd(r) PROVE OneReader'
  BY <1>0, <1>2 DEF ReceiveEnd, onClose, eDisconnect, connect, OneReader
<1>3. ASSUME NEW r \in Conn, putMessageToQueue(r) PROVE OneReader'
  <2>1. r = opened /\ caller = "none"
    BY <1>0, <1>3, ReaderRuns DEF putMessageToQueue
  <2> QED
    BY <1>0, <1>3, <2>1 DEF putMessageToQueue, client, connect, OneReader
<1>4. ASSUME NEW r \in Conn, Queued(r) PROVE OneReader'
  <2>1. r = opened /\ caller = "none"
    BY <1>0, <1>4, ReaderRuns DEF Queued
  <2> QED
    BY <1>0, <1>4, <2>1 DEF Queued, client, connect, OneReader
<1>5. ASSUME NEW r \in Conn, issueSignal(r) PROVE OneReader'
  <2>1. r = opened /\ caller = "none"
    BY <1>0, <1>5, ReaderRuns DEF issueSignal
  <2> QED
    BY <1>0, <1>5, <2>1 DEF issueSignal, client, connect, OneReader
<1>6. ASSUME NEW r \in Conn, EndReader(r) PROVE OneReader'
  <2>1. r = opened /\ caller = "none"
    BY <1>0, <1>6, ReaderRuns DEF EndReader
  <2>2. fd # r
    BY <1>0, <1>6, LengthInPlace DEF EndReader
  <2> QED
    BY <1>0, <1>6, <2>1, <2>2 DEF EndReader, client, connect, OneReader
<1>7. ASSUME NEW t \in {"worker", "gui"}, connectAPI(t) PROVE OneReader'
  <2>1. OldReadersEnded
    BY <1>7 DEF connectAPI
  <2>2. opened' = opened + 1 /\ opened' \in Conn /\ thread' = thread /\ caller' # "none"
    BY <1>7 DEF connectAPI, Conn, Reader
  <2>3. thread[opened'] = "none"
    BY <2>2 DEF Socket
  <2> QED
    BY <2>1, <2>2, <2>3 DEF OneReader, OldReadersEnded
<1>8. CASE CheckConnected
  <2>1. CASE isConnected
    BY <1>0, <1>8, <2>1 DEF CheckConnected, client, OneReader
  <2>2. CASE ~isConnected
    <3>1. ~isSocketOK'
      BY <1>8, <2>2 DEF CheckConnected, client, Socket
    <3> QED
      BY <1>0, <1>8, <2>2, <3>1 DEF CheckConnected, Return, client, OneReader
  <2> QED
    BY <2>1, <2>2
<1>9. CASE ReceiveAck
  <2>1. fd' = fd \/ fd' = 0
    BY <1>9 DEF ReceiveAck, client, onClose, eDisconnect
  <2> QED
    BY <1>0, <1>9, <2>1 DEF ReceiveAck, OneReader
<1>10. CASE ProcessAck
  <2>1. fd' = fd \/ fd' = 0
    BY <1>10 DEF ProcessAck, serverVersion, client, eDisconnect
  <2> QED
    BY <1>0, <1>10, <2>1 DEF ProcessAck, connect, OneReader
<1>11. CASE StartReader
  <2>1. CASE isSocketOK
    BY <1>0, <1>11, <2>1 DEF StartReader, Return, client, OneReader, Socket
  <2>2. CASE ~isSocketOK
    BY <1>0, <1>11, <2>2 DEF StartReader, Return, client, OneReader
  <2> QED
    BY <2>1, <2>2
<1>12. CASE waitForSignal \/ Wake
  BY <1>0, <1>12 DEF waitForSignal, Wake, client, connect, OneReader
<1>13. CASE processMsgs
  BY <1>0, <1>13 DEF processMsgs, client, connect, OneReader
<1>14. CASE disconnectAPI \/ SendFails
  BY <1>0, <1>14 DEF disconnectAPI, SendFails, eDisconnect, connect, OneReader
<1>15. ASSUME NEW c \in Conn, Answer(c) \/ Send(c) \/ Close(c) PROVE OneReader'
  BY <1>0, <1>15 DEF Answer, Send, Close, client, connect, OneReader
<1>16. CASE UNCHANGED vars
  BY <1>0, <1>16 DEF vars, client, connect, OneReader
<1> QED
  BY <1>1, <1>2, <1>3, <1>4, <1>5, <1>6, <1>7, <1>8, <1>9, <1>10, <1>11, <1>12, <1>13,
     <1>14, <1>15, <1>16 DEF Next, ReaderStep, CallerStep, WorkerStep

LEMMA DecodersNext ==
  ASSUME TypeInv, Socket, Orderly, [Next]_vars, ~overtaken'
  PROVE  Decoders'
<1> USE Bounds DEF TypeInv, ConnectOK, ReadersOK, ServerOK
<1>0. OneReader /\ Handshake /\ Decoders
  BY DEF Orderly
(* Readers do not touch their decoder once they run. *)
<1>1. ASSUME UNCHANGED <<decoder, offered, peer>>,
             \A c \in Conn : thread'[c] # "none" => thread[c] # "none"
      PROVE  Decoders'
  BY <1>0, <1>1 DEF Decoders
<1>2. ASSUME NEW r \in Conn, ReaderStep(r) PROVE Decoders'
  <2>1. UNCHANGED <<decoder, offered, peer>>
    BY <1>2 DEF ReaderStep, Receive, ReceiveEnd, putMessageToQueue, Queued, issueSignal,
                EndReader, server, connect
  <2>2. thread[r] # "none"
    BY <1>2 DEF ReaderStep, Receive, ReceiveEnd, putMessageToQueue, Queued, issueSignal,
                EndReader, Receives
  <2>3. \A c \in Conn : c # r => thread'[c] = thread[c]
    BY <1>2 DEF ReaderStep, Receive, ReceiveEnd, putMessageToQueue, Queued, issueSignal,
                EndReader
  <2> QED
    BY <1>1, <2>1, <2>2, <2>3
<1>3. ASSUME NEW t \in {"worker", "gui"}, connectAPI(t) PROVE Decoders'
  <2>1. /\ opened + 1 \in Conn /\ UNCHANGED <<decoder, offered, thread>>
        /\ peer' = [peer EXCEPT ![opened + 1] = "asked"]
    BY <1>3 DEF connectAPI, Conn, Reader
  <2>2. thread[opened + 1] = "none"
    BY <2>1 DEF Socket
  <2> QED
    BY <1>0, <2>1, <2>2 DEF Decoders
<1>4. CASE CheckConnected \/ ReceiveAck \/ waitForSignal \/ Wake \/ processMsgs
           \/ disconnectAPI \/ SendFails \/ UNCHANGED vars
  <2>1. UNCHANGED <<decoder, offered, peer, thread>>
    BY <1>4 DEF CheckConnected, ReceiveAck, waitForSignal, Wake, processMsgs, disconnectAPI,
                SendFails, vars, server, connect
  <2> QED
    BY <1>1, <2>1
<1>5. CASE ProcessAck
  <2>1. peer' = peer \/ peer' = [peer EXCEPT ![fd] = "started"]
    BY <1>5 DEF ProcessAck, serverVersion
  <2> QED
    BY <1>0, <1>5, <2>1 DEF ProcessAck, connect, Decoders
<1>6. CASE StartReader
  <2>1. CASE isSocketOK
    <3>1. /\ opened \in Conn /\ fd = opened
          /\ place = "answered" /\ version # 0
      BY <1>6, <2>1 DEF StartReader, Socket, isSocketOK
    <3>2. /\ version = offered[opened] /\ version \in Version
          /\ peer[opened] # "asked"
      BY <1>0, <2>1, <3>1 DEF Handshake
    <3>3. UNCHANGED <<offered, peer>>
      BY <1>6 DEF StartReader, server
    <3>4. /\ decoder' = [decoder EXCEPT ![opened] = version]
          /\ thread' = [thread EXCEPT ![opened] = "reading"]
      BY <1>6, <2>1 DEF StartReader
    <3> QED
      BY <1>0, <3>1, <3>2, <3>3, <3>4 DEF Decoders
  <2>2. CASE ~isSocketOK
    BY <1>1, <1>6, <2>2 DEF StartReader, server
  <2> QED
    BY <2>1, <2>2
<1>7. ASSUME NEW c \in Conn, Answer(c) \/ Send(c) \/ Close(c) PROVE Decoders'
  <2>1. CASE Answer(c)
    <3>1. thread[c] = "none"
      BY <1>0, <2>1 DEF Answer, Decoders
    <3>2. \A d \in Conn : d # c => peer'[d] = peer[d] /\ offered'[d] = offered[d]
      BY <2>1 DEF Answer
    <3> QED
      BY <1>0, <2>1, <3>1, <3>2 DEF Answer, connect, Decoders
  <2>2. CASE Send(c)
    BY <1>1, <2>2 DEF Send, connect
  <2>3. CASE Close(c)
    BY <1>0, <2>3 DEF Close, connect, Decoders
  <2> QED
    BY <1>7, <2>1, <2>2, <2>3
<1> QED
  BY <1>2, <1>3, <1>4, <1>5, <1>6, <1>7 DEF Next, CallerStep, WorkerStep

LEMMA HandshakeNext ==
  ASSUME TypeInv, TypeInv', Socket, Orderly, [Next]_vars, ~overtaken'
  PROVE  Handshake'
<1> USE Bounds DEF isSocketOK, isConnected
<1>0. /\ OneReader /\ Handshake /\ Decoders
      /\ TypeInv /\ ConnectOK /\ ClientOK /\ ServerOK /\ ReadersOK
  BY DEF Orderly, TypeInv
<1>z. \A v \in Version : v > 0
  BY DEF Version, MIN_CLIENT_VER, MAX_CLIENT_VER
<1>1. ASSUME fd' = 0, version' = 0 PROVE Handshake'
  BY <1>1, <1>z DEF Handshake
(* Outside the handshake, and within it where the local reader rests. *)
<1>2. ASSUME UNCHANGED <<fd, version, offered, peer, sent>>,
             place' = "none" \/ UNCHANGED <<place, wire, buf[0], queue[0]>>
      PROVE  Handshake'
  <2>1. CASE place' = "none"
    BY <1>0, <1>2, <2>1 DEF Handshake
  <2>2. CASE UNCHANGED <<place, wire, buf[0], queue[0]>>
    BY <1>0, <1>2, <2>2 DEF Handshake, InPlace
  <2> QED
    BY <1>2, <2>1, <2>2
<1>3. ASSUME NEW r \in Conn, ReaderStep(r) PROVE Handshake'
  <2>1. place = "none"
    BY <1>0, <1>3, ReaderRuns DEF ReaderStep, Receive, ReceiveEnd, putMessageToQueue, Queued,
                issueSignal, EndReader, Receives
  <2>2. CASE ReceiveEnd(r)
    BY <1>1, <2>2 DEF ReceiveEnd, onClose, eDisconnect
  <2>3. CASE ~ReceiveEnd(r)
    BY <1>2, <1>3, <2>1, <2>3 DEF ReaderStep, Receive, putMessageToQueue, Queued,
                issueSignal, EndReader, client, server, connect
  <2> QED
    BY <2>2, <2>3
<1>4. ASSUME NEW t \in {"worker", "gui"}, connectAPI(t) PROVE Handshake'
  <2>1. /\ version' = 0 /\ place' = "connected" /\ fd' = opened + 1
        /\ UNCHANGED <<offered, sent, buf, wire>> /\ wire = <<>> /\ buf[0] = <<>>
    BY <1>4 DEF connectAPI, Socket
  <2>2. opened + 1 \in Conn /\ peer'[opened + 1] = "asked"
    BY <1>0, <1>4 DEF connectAPI, ConnectOK, ServerOK, Conn, Reader
  <2>3. offered[opened + 1] = 0 /\ sent[opened + 1] = 0
    BY <1>0, <2>2 DEF Socket, ConnectOK
  <2>4. Len(buf[0]) = 0 /\ Len(wire) = 0
    BY <2>1
  <2>5. InPlace(buf[0], fd', 0) /\ InPlace(wire, fd', Len(buf[0]))
    BY <2>4 DEF InPlace
  <2>6. InPlace(buf[0], fd, 0)' /\ InPlace(wire, fd, Len(buf[0]))'
    BY <2>1, <2>5 DEF InPlace
  <2> QED
    BY <1>z, <2>1, <2>2, <2>3, <2>4, <2>6 DEF Handshake
<1>5. CASE CheckConnected
  <2>1. CASE isConnected
    <3>1. UNCHANGED <<fd, version, offered, peer, sent, wire, buf, queue>>
          /\ place = "connected" /\ place' = "asking"
      BY <1>5, <2>1 DEF CheckConnected, client, server
    <3> QED
      BY <1>0, <3>1 DEF Handshake, InPlace
  <2>2. CASE ~isConnected
    BY <1>2, <1>5, <2>2 DEF CheckConnected, Return, client, server
  <2> QED
    BY <2>1, <2>2
<1>6. CASE ReceiveAck
  <2>0. place = "asking" /\ UNCHANGED <<offered, peer, sent>>
    BY <1>6 DEF ReceiveAck, server
  <2>1. CASE fd = 0
    <3>1. fd' = 0 /\ version' = 0
      BY <1>6, <2>1 DEF ReceiveAck, onReceive, onClose, eDisconnect, client, Socket
    <3> QED
      BY <1>1, <3>1
  <2>2. CASE fd # 0
    <3> PICK c \in Conn : c = fd
      BY <1>0, <2>2 DEF ClientOK
    <3>1. /\ version = 0
          /\ InPlace(buf[0], c, 0) /\ InPlace(wire, c, Len(buf[0]))
          /\ Len(buf[0]) + Len(wire) <= IF offered[c] = 0 THEN 0 ELSE 2
          /\ Len(buf[0]) + Len(wire) = 2 \/ peer[c] \in {"asked", "closed"}
          /\ peer[c] = "asked" => offered[c] = 0
          /\ peer[c] \in {"acked", "started"} => offered[c] # 0
          /\ peer[c] # "started" /\ sent[c] = 0
      BY <1>0, <2>0, <2>2 DEF Handshake
    <3>2. buf[0] \in Seq(ByteSet) /\ wire \in Seq(ByteSet) /\ queue[0] = <<>>
      BY <1>0, <2>0 DEF ReadersOK, ClientOK, Socket
    <3>3. Len(buf[0]) \in Nat /\ Len(wire) \in Nat
      BY <3>2, LenProperties
    <3>4. ~BadLength(0) /\ (Complete(0) => readSingleMsg(0) = <<c, 0>>)
      <4>1. InPlace(buf[0], c, 2 * 0)
        BY <3>1
      <4> QED
        BY <1>0, <4>1, NextMessage
    <3>5. CASE Incomplete(0) /\ onReceive(0) /\ UNCHANGED <<client, place, queue, signal>>
      <4>1. PICK k \in 1 .. Len(wire) :
              /\ buf' = [buf EXCEPT ![0] = buf[0] \o SubSeq(wire, 1, k)]
              /\ wire' = SubSeq(wire, k + 1, Len(wire))
        BY <3>5 DEF onReceive
      <4>2. buf'[0] = buf[0] \o SubSeq(wire, 1, k)
        BY <1>0, <4>1 DEF ReadersOK
      <4>3. InPlace(wire, c, 0 + Len(buf[0]))
        BY <3>1, <3>3
      <4>4. /\ InPlace(buf[0] \o SubSeq(wire, 1, k), c, 0)
            /\ InPlace(SubSeq(wire, k + 1, Len(wire)), c, 0 + Len(buf[0]) + k)
        BY <3>1, <3>2, <4>3, InPlaceTake
      <4>5. /\ Len(buf[0] \o SubSeq(wire, 1, k)) = Len(buf[0]) + k
            /\ Len(SubSeq(wire, k + 1, Len(wire))) = Len(wire) - k
        BY <3>2, TakeProperties
      <4>6. /\ InPlace(buf'[0], c, 0) /\ InPlace(wire', c, Len(buf'[0]))
            /\ Len(buf'[0]) + Len(wire') = Len(buf[0]) + Len(wire)
        <5> DEFINE t == buf[0] \o SubSeq(wire, 1, k)
                   u == SubSeq(wire, k + 1, Len(wire))
                   a == Len(buf[0])
                   b == Len(wire)
        <5>1. /\ buf'[0] = t /\ wire' = u /\ a \in Nat /\ b \in Nat
              /\ InPlace(t, c, 0) /\ InPlace(u, c, 0 + a + k)
              /\ Len(t) = a + k /\ Len(u) = b - k
          BY <3>3, <4>1, <4>2, <4>4, <4>5
        <5> HIDE DEF t, u, a, b
        <5>2. 0 + a + k = a + k /\ (a + k) + (b - k) = a + b
          BY <5>1
        <5> QED
          BY <5>1, <5>2 DEF a, b
      <4>7. fd' = c /\ version' = 0 /\ place' = "asking"
        BY <2>0, <3>1, <3>5 DEF client
      <4>8. InPlace(buf[0], fd, 0)' /\ InPlace(wire, fd, Len(buf[0]))'
        BY <4>6, <4>7 DEF InPlace
      <4> QED
        BY <1>z, <2>0, <3>1, <4>6, <4>7, <4>8 DEF Handshake
    <3>6. CASE Enqueue(0) /\ place' = "answered" /\ signal' = TRUE /\ UNCHANGED <<client, wire>>
      <4>1. readSingleMsg(0) = <<c, 0>> /\ Len(buf[0]) >= 2
        BY <3>4, <3>6 DEF Enqueue, Complete
      <4>2. offered[c] # 0 /\ peer[c] # "asked"
        BY <3>1, <3>3, <4>1
      <4>3. queue'[0] = Append(<<>>, <<c, 0>>)
        BY <1>0, <3>2, <3>6, <4>1 DEF Enqueue, ReadersOK
      <4>4. queue'[0][1] = <<c, 0>>
        BY <4>3
      <4>5. fd' = c /\ version' = 0
        BY <3>1, <3>6 DEF client
      <4> QED
        BY <1>z, <2>0, <3>1, <3>6, <4>2, <4>4, <4>5 DEF Handshake
    <3>7. CASE Incomplete(0) /\ onClose(0) /\ UNCHANGED <<place, queue, signal>>
      BY <1>1, <3>7 DEF onClose, eDisconnect
    <3> QED
      BY <1>6, <2>2, <3>4, <3>5, <3>6, <3>7 DEF ReceiveAck
  <2> QED
    BY <2>1, <2>2
<1>7. CASE ProcessAck
  <2>0. PICK c \in Conn : c = fd
    BY <1>0, <1>7 DEF ProcessAck, ClientOK
  <2>1. /\ place = "answered" /\ version = 0 /\ fd = c /\ queue[0] # <<>>
        /\ UNCHANGED <<offered, sent, place>> /\ queue'[0] = <<>>
    BY <1>0, <1>7, <2>0 DEF ProcessAck, connect, ReadersOK
  <2>2. /\ offered[c] # 0 /\ peer[c] # "asked" /\ queue[0][1][1] = c
        /\ peer[c] # "started" /\ sent[c] = 0
    BY <1>0, <2>1 DEF Handshake
  <2>3. serverVersion(c)
    BY <1>7, <2>2 DEF ProcessAck
  <2>4. ServerVersions \cup {0} \subseteq Int
    BY TwsSessionAssumption DEF TwsSessionAssumption
  <2>5. PICK v \in Int : v = offered[c]
    BY <1>0, <2>4, Zenon DEF ServerOK
  <2>6. CASE v < 0
    <3>1. UNCHANGED <<fd, version, offered, peer, sent, place>>
      BY <2>1, <2>3, <2>5, <2>6 DEF serverVersion, client
    <3> QED
      BY <1>0, <2>1, <2>2, <3>1 DEF Handshake
  <2>7. CASE v > 0 /\ v \notin Version
    BY <1>1, <2>3, <2>5, <2>7 DEF serverVersion, eDisconnect
  <2>8. CASE v > 0 /\ v \in Version
    <3>1. /\ version' = v /\ fd' = fd
          /\ peer' = IF isConnected /\ isSocketOK /\ peer[fd] = "acked"
                     THEN [peer EXCEPT ![fd] = "started"] ELSE peer
      BY <2>3, <2>5, <2>8 DEF serverVersion
    <3>2. peer'[c] # "asked"
      BY <1>0, <2>1, <2>2, <3>1 DEF ServerOK
    <3> QED
      BY <2>1, <2>2, <2>5, <2>8, <3>1, <3>2 DEF Handshake
  <2> QED
    BY <2>2, <2>5, <2>6, <2>7, <2>8
<1>8. CASE StartReader
  BY <1>2, <1>8 DEF StartReader, Return, client, server
<1>9. CASE waitForSignal \/ Wake
  BY <1>2, <1>9 DEF waitForSignal, Wake, client, server, connect
<1>10. CASE processMsgs
  <2>1. target # 0
    BY <1>10 DEF processMsgs, Socket
  <2>2. queue'[0] = queue[0]
    BY <1>0, <1>10, <2>1 DEF processMsgs, ReadersOK
  <2> QED
    BY <1>2, <1>10, <2>2 DEF processMsgs, client, server, connect
<1>11. CASE disconnectAPI \/ SendFails
  BY <1>1, <1>11 DEF disconnectAPI, SendFails, eDisconnect
<1>12. ASSUME NEW c \in Conn, Answer(c) PROVE Handshake'
  <2>1. /\ fd = c /\ peer[c] = "asked" /\ UNCHANGED <<fd, version, sent, place, buf, queue>>
        /\ wire' = wire \o Bytes(c, 0)
    BY <1>12 DEF Answer, client, connect
  <2>2. peer'[c] = "acked" /\ offered'[c] # 0
    <3>1. PICK v \in ServerVersions : offered' = [offered EXCEPT ![c] = v]
      BY <1>12 DEF Answer
    <3>2. v # 0
      BY TwsSessionAssumption DEF TwsSessionAssumption
    <3> QED
      BY <1>0, <1>12, <3>1, <3>2 DEF Answer, ServerOK
  <2>3. offered[c] = 0 /\ version = 0
    BY <1>0, <1>z, <2>1 DEF Handshake
  <2>4. place \in {"connected", "asking"}
    <3>1. thread[c] = "none"
      BY <1>0, <2>1 DEF Decoders
    <3>2. caller # "none"
      BY <1>0, <2>1, <3>1 DEF OneReader
    <3> QED
      BY <1>0, <2>1, <3>2 DEF Socket, Handshake, ConnectOK
  <2>5. /\ InPlace(buf[0], c, 0) /\ InPlace(wire, c, Len(buf[0]))
        /\ Len(buf[0]) + Len(wire) <= 0 /\ sent[c] = 0
    BY <1>0, <2>1, <2>3, <2>4 DEF Handshake
  <2>6. /\ buf[0] \in Seq(ByteSet) /\ wire \in Seq(ByteSet)
        /\ Len(buf[0]) \in Nat /\ Len(wire) \in Nat
    BY <1>0, LenProperties DEF ReadersOK, ClientOK
  <2>7. Len(buf[0]) = 0 /\ Len(wire) = 0 /\ 0 + Len(wire) = 2 * 0 /\ 0 \in 0 .. MaxMsg
    BY <2>5, <2>6
  <2>8. /\ InPlace(wire \o Bytes(c, 0), c, 0)
        /\ Len(wire \o Bytes(c, 0)) = Len(wire) + 2
    BY <2>5, <2>6, <2>7, InPlaceSend
  <2>9. InPlace(buf[0], fd, 0)' /\ InPlace(wire, fd, Len(buf[0]))'
        /\ Len(buf'[0]) + Len(wire') = 2
    BY <2>1, <2>5, <2>7, <2>8 DEF InPlace
  <2>10. version' = 0 /\ fd' = c /\ sent'[c] = 0
    BY <2>1, <2>3, <2>5
  <2>11. place' = place
    BY <2>1
  <2>12. (Len(buf[0]) + Len(wire))' = 2
    BY <2>9
  <2> QED
    BY <1>z, <2>2, <2>4, <2>9, <2>10, <2>11, <2>12 DEF Handshake
<1>13. ASSUME NEW c \in Conn, Send(c) PROVE Handshake'
  <2>1. /\ fd = c /\ peer[c] = "started"
        /\ UNCHANGED <<fd, version, peer, offered, place, buf, queue>>
    BY <1>13 DEF Send, client, connect
  <2>2. version # 0
    BY <1>0, <2>1 DEF Handshake
  <2> QED
    BY <1>0, <2>1, <2>2 DEF Handshake
<1>14. ASSUME NEW c \in Conn, Close(c) PROVE Handshake'
  <2>1. /\ fd = c /\ UNCHANGED <<fd, version, sent, offered, place, buf, queue>>
        /\ wire' = wire \/ (wire # <<>> /\ wire' = SubSeq(wire, 1, Len(wire) - 1))
        /\ peer'[c] = "closed"
    BY <1>0, <1>14 DEF Close, client, connect, ServerOK
  <2>2. /\ buf[0] \in Seq(ByteSet) /\ wire \in Seq(ByteSet)
        /\ Len(buf[0]) \in Nat /\ Len(wire) \in Nat
    BY <1>0, LenProperties DEF ReadersOK, ClientOK
  <2>3. Len(wire') \in Nat /\ Len(wire') <= Len(wire)
    BY <2>1, <2>2, DropLast
  <2>4. ASSUME InPlace(wire, c, Len(buf[0])) PROVE InPlace(wire', c, Len(buf[0]))
    BY <2>1, <2>2, <2>4, InPlaceDrop
  <2>5. ASSUME place \in {"connected", "asking"}
        PROVE  /\ version = 0 /\ InPlace(buf[0], c, 0) /\ InPlace(wire', c, Len(buf[0]))
               /\ Len(buf[0]) + Len(wire') <= IF offered[c] = 0 THEN 0 ELSE 2
    <3>1. /\ version = 0 /\ InPlace(buf[0], c, 0) /\ InPlace(wire, c, Len(buf[0]))
          /\ Len(buf[0]) + Len(wire) <= IF offered[c] = 0 THEN 0 ELSE 2
      BY <1>0, <2>1, <2>5 DEF Handshake
    <3> QED
      BY <2>2, <2>3, <2>4, <3>1
  <2>6. ASSUME place \in {"connected", "asking"}
        PROVE  InPlace(buf[0], fd, 0)' /\ InPlace(wire, fd, Len(buf[0]))'
    BY <2>1, <2>5, <2>6 DEF InPlace
  <2> QED
    BY <1>0, <2>1, <2>5, <2>6 DEF Handshake
<1>15. CASE UNCHANGED vars
  BY <1>2, <1>15 DEF vars, client, server, connect
<1> QED
  BY <1>3, <1>4, <1>5, <1>6, <1>7, <1>8, <1>9, <1>10, <1>11, <1>12, <1>13,
     <1>14, <1>15 DEF Next, CallerStep, WorkerStep

(* The reader r cuts a message from the bytes of its buffer. *)
LEMMA FlowQueued ==
  ASSUME TypeInv, NEW r \in Conn, NEW k \in Nat, Flows(r, k),
         Queued(r), place = "none"
  PROVE  Flows(r, k)'
<1> USE Bounds
<1>1. PICK l \in Nat : l = Len(queue[r])
  BY LenProperties DEF TypeInv, ReadersOK
<1>2. PICK n \in Nat : n = k + l + 1
  OBVIOUS
<1>3. PICK b \in Seq(ByteSet) : b = buf[r]
  BY DEF TypeInv, ReadersOK
<1>4. PICK m \in MessageSet : m = readSingleMsg(r)
  BY MessageRead DEF TypeInv, Queued, Enqueue
<1>5. /\ thread[r] = "message" /\ thread'[r] = "queued" /\ UNCHANGED <<fd, place, sent, wire, peer>>
      /\ Seen(r)' = Seen(r)
      /\ Complete(r) /\ Len(b) >= 2 /\ Len(b) \in Nat
  BY <1>3, LenProperties
     DEF Queued, Enqueue, Complete, client, server, connect, work, TypeInv, ReadersOK, Seen, Decoded
<1>6. /\ queue'[r] = Append(queue[r], m) /\ buf'[r] = SubSeq(b, 3, Len(b))
  BY <1>3, <1>4 DEF Queued, Enqueue, TypeInv, ReadersOK
<1>7. /\ Len(queue'[r]) = l + 1 /\ queue'[r][l + 1] = m
      /\ \A i \in 1 .. l : queue'[r][i] = queue[r][i]
  BY <1>1, <1>6, AppendProperties DEF TypeInv, ReadersOK
<1>8. /\ Len(buf'[r]) = Len(b) - 2
      /\ \A p \in Nat : InPlace(b, r, p) => InPlace(buf'[r], r, p + 2)
  BY <1>5, <1>6, DropTwo, InPlaceDrop
<1>9. /\ Seen(r) = 1 .. k /\ k + l <= sent[r] /\ InLine(r, k)
  BY <1>1 DEF Flows
<1>10. sent[r] \in Nat
  BY DEF TypeInv, ServerOK
<1>11. CASE fd = r
  <2>1. /\ InPlace(b, r, 2 * n) /\ InPlace(wire, r, 2 * n + Len(b))
        /\ 2 * n + Len(b) + Len(wire) <= 2 * sent[r] + 2
        /\ 2 * n + Len(b) + Len(wire) = 2 * sent[r] + 2 \/ peer[r] = "closed"
    BY <1>1, <1>2, <1>3, <1>11 DEF Flows, OnTheWay
  <2>2. m = <<r, n>>
    BY <1>2, <1>3, <1>4, <1>5, <2>1, NextMessage
  <2>3. PICK w \in Nat : w = Len(wire)
    BY LenProperties DEF TypeInv, ClientOK
  <2>4. PICK h \in Nat : h = Len(b)
    BY <1>5
  <2>5. n <= sent[r]
    BY <1>5, <1>10, <2>1, <2>3, <2>4
  <2>6. k + Len(queue'[r]) <= sent'[r] /\ k + Len(queue'[r]) + 1 = n + 1
    BY <1>2, <1>5, <1>7, <2>5
  <2>7. InLine(r, k)'
    <3>1. ASSUME NEW i \in 1 .. l + 1 PROVE queue'[r][i] = <<r, k + i>>
      <4>1. CASE i = l + 1
        BY <1>2, <1>7, <2>2, <4>1
      <4>2. CASE i \in 1 .. l
        BY <1>1, <1>7, <1>9, <1>11, <4>2 DEF InLine
      <4> QED
        BY <4>1, <4>2
    <3> QED
      BY <1>7, <3>1 DEF InLine
  <2>8. OnTheWay(r, n + 1)'
    <3>1. /\ 2 * (n + 1) = 2 * n + 2 /\ 2 * n + h = 2 * n + 2 + (h - 2)
          /\ h - 2 = Len(buf'[r])
      BY <1>8, <2>4
    <3>2. InPlace(buf'[r], r, 2 * (n + 1))
      BY <1>8, <2>1, <3>1
    <3>3. InPlace(wire', r, 2 * (n + 1) + Len(buf'[r]))
      BY <1>5, <2>1, <2>4, <3>1
    <3>4. /\ 2 * (n + 1) + Len(buf'[r]) + Len(wire') <= 2 * sent'[r] + 2
          /\ \/ 2 * (n + 1) + Len(buf'[r]) + Len(wire') = 2 * sent'[r] + 2
             \/ peer'[r] = "closed"
      BY <1>5, <1>10, <2>1, <2>3, <2>4, <3>1
    <3>5. InPlace(buf[r], r, 2 * (n + 1))' /\ InPlace(wire, r, 2 * (n + 1) + Len(buf[r]))'
      BY <3>2, <3>3 DEF InPlace
    <3> QED
      BY <3>4, <3>5 DEF OnTheWay
  <2> QED
    BY <1>5, <1>9, <1>11, <2>6, <2>7, <2>8 DEF Flows
<1>12. CASE fd # r
  <2>1. \A i \in 1 .. Len(b) :
          \/ b[i] = <<0, 0, "zeros">>
          \/ b[i] = Byte(r, 2 * n + i - 1) /\ 2 * n + i - 1 <= 2 * sent[r] + 1
    BY <1>1, <1>2, <1>3, <1>5, <1>12 DEF Flows, LeftOver
  <2>2. b[1] # <<0, 0, "zeros">>
    <3>1. b # <<>>
      BY <1>5, EmptySeq
    <3> QED
      BY <1>3, <1>5, <3>1 DEF Complete, BadLength
  <2>3. b[1] = <<r, n, "length">> /\ n <= sent[r]
    <3>1. b[1] = Byte(r, 2 * n + 1 - 1) /\ 2 * n + 1 - 1 <= 2 * sent[r] + 1
      BY <1>5, <2>1, <2>2
    <3>2. 2 * n + 1 - 1 = 2 * n
      OBVIOUS
    <3> QED
      BY <1>10, <3>1, <3>2, ByteOf
  <2>4. m = <<r, n>> \/ m = <<r, Garbled>>
    BY <1>3, <1>4, <2>3 DEF readSingleMsg
  <2>5. k + Len(queue'[r]) <= sent'[r]
    BY <1>2, <1>5, <1>7, <2>3
  <2>6. InLine(r, k)'
    <3>1. ASSUME NEW i \in 1 .. l PROVE queue'[r][i] = <<r, k + i>>
      BY <1>1, <1>5, <1>7, <1>9, <3>1 DEF InLine
    <3>2. queue'[r][l + 1] = <<r, k + (l + 1)>> \/ queue'[r][l + 1] = <<r, Garbled>>
      BY <1>2, <1>7, <2>4
    <3>3. 1 .. l + 1 = (1 .. l) \cup {l + 1}
      OBVIOUS
    <3> QED
      BY <1>5, <1>7, <1>12, <3>1, <3>2, <3>3 DEF InLine
  <2> QED
    BY <1>5, <1>9, <1>12, <2>5, <2>6 DEF Flows
<1> QED
  BY <1>11, <1>12

(* What a step does to the bytes of the open connection. *)
LEMMA FlowReceive ==
  ASSUME TypeInv, NEW r \in Conn, NEW k \in Nat, Flows(r, k),
         Receive(r), fd = r, place = "none"
  PROVE  Flows(r, k)'
<1> USE Bounds
<1>1. PICK n \in Nat : n = k + Len(queue[r]) + 1
  BY LenProperties DEF TypeInv, ReadersOK
<1>2. PICK b \in Seq(ByteSet) : b = buf[r]
  BY DEF TypeInv, ReadersOK
<1>3. PICK w \in Seq(ByteSet) : w = wire
  BY DEF TypeInv, ClientOK
<1>4. PICK j \in 1 .. Len(w) :
        /\ buf'[r] = b \o SubSeq(w, 1, j)
        /\ wire' = SubSeq(w, j + 1, Len(w))
  BY <1>2, <1>3 DEF Receive, onReceive, TypeInv, ReadersOK
<1>5. /\ UNCHANGED <<fd, place, sent, peer, thread, queue>> /\ Seen(r)' = Seen(r)
  BY DEF Receive, client, server, connect, work, Seen, Decoded
<1>6. PICK h \in Nat, l \in Nat : h = Len(b) /\ l = Len(w)
  BY LenProperties
<1>7. /\ InPlace(b, r, 2 * n) /\ InPlace(w, r, 2 * n + h)
      /\ 2 * n + h + l <= 2 * sent[r] + 2
      /\ 2 * n + h + l = 2 * sent[r] + 2 \/ peer[r] = "closed"
  BY <1>1, <1>2, <1>3, <1>6 DEF Flows, OnTheWay
<1>8. InPlace(buf'[r], r, 2 * n) /\ InPlace(wire', r, 2 * n + h + j)
  BY <1>4, <1>6, <1>7, InPlaceTake
<1>9. Len(buf'[r]) = h + j /\ Len(wire') = l - j
  BY <1>4, <1>6, TakeProperties
<1>10. /\ 2 * n + h + j = 2 * n + (h + j)
       /\ 2 * n + (h + j) + (l - j) = 2 * n + h + l
  BY <1>6
<1>11. OnTheWay(r, n)'
  <2>1. /\ 2 * n + Len(buf'[r]) + Len(wire') <= 2 * sent'[r] + 2
        /\ 2 * n + Len(buf'[r]) + Len(wire') = 2 * sent'[r] + 2 \/ peer'[r] = "closed"
    BY <1>5, <1>7, <1>9, <1>10
  <2>2. InPlace(buf[r], r, 2 * n)' /\ InPlace(wire, r, 2 * n + Len(buf[r]))'
    BY <1>8, <1>9, <1>10 DEF InPlace
  <2> QED
    BY <2>1, <2>2 DEF OnTheWay
<1>12. InLine(r, k)'
  BY <1>5 DEF Flows, InLine
<1> QED
  BY <1>1, <1>5, <1>11, <1>12 DEF Flows

LEMMA FlowSend ==
  ASSUME TypeInv, NEW c \in Conn, NEW k \in Nat, Flows(c, k),
         Send(c), place \in {"none", "answered"}
  PROVE  Flows(c, k)'
<1> USE Bounds
<1>1. PICK n \in Nat : n = k + Len(queue[c]) + 1
  BY LenProperties DEF TypeInv, ReadersOK
<1>2. PICK h \in Nat, l \in Nat : h = Len(buf[c]) /\ l = Len(wire)
  BY LenProperties DEF TypeInv, ReadersOK, ClientOK
<1>3. PICK s \in 0 .. MaxMsg : s = sent[c]
  BY DEF TypeInv, ServerOK
<1>4. /\ fd = c /\ fd' = c /\ peer[c] = "started" /\ s < MaxMsg /\ sent'[c] = s + 1
      /\ wire' = wire \o Bytes(c, s + 1)
      /\ UNCHANGED <<place, thread, queue, buf>> /\ Seen(c)' = Seen(c)
  BY <1>3 DEF Send, client, connect, work, TypeInv, ServerOK, Seen, Decoded
<1>5. /\ InPlace(buf[c], c, 2 * n) /\ InPlace(wire, c, 2 * n + h)
      /\ 2 * n + h + l = 2 * s + 2
  BY <1>1, <1>2, <1>3, <1>4 DEF Flows, OnTheWay
<1>6. PICK p \in Nat : p = 2 * n + h
  OBVIOUS
<1>7. PICK m \in 0 .. MaxMsg : m = s + 1
  BY <1>4
<1>8. p + l = 2 * m
  BY <1>5, <1>6, <1>7
<1>9. InPlace(wire', c, p) /\ Len(wire') = l + 2
  BY <1>2, <1>4, <1>5, <1>6, <1>7, <1>8, InPlaceSend DEF TypeInv, ClientOK
<1>10. OnTheWay(c, n)'
  <2>1. /\ Len(buf'[c]) = h /\ Len(wire') = l + 2 /\ sent'[c] = s + 1
        /\ 2 * n + h + (l + 2) = 2 * (s + 1) + 2
        /\ 2 * n + h + (l + 2) <= 2 * (s + 1) + 2
    <3>1. Len(buf'[c]) = h /\ Len(wire') = l + 2 /\ sent'[c] = s + 1
      BY <1>2, <1>4, <1>9
    <3>2. s \in Nat /\ 2 * n + h + l = 2 * s + 2
      BY <1>5
    <3>3. /\ 2 * n + h + (l + 2) = 2 * (s + 1) + 2
          /\ 2 * n + h + (l + 2) <= 2 * (s + 1) + 2
      BY <3>2
    <3> QED
      BY <3>1, <3>3
  <2>2. InPlace(buf[c], c, 2 * n)' /\ InPlace(wire, c, 2 * n + Len(buf[c]))'
    BY <1>2, <1>4, <1>5, <1>6, <1>9 DEF InPlace
  <2>3. /\ (2 * n + Len(buf[c]) + Len(wire) = 2 * sent[c] + 2)'
        /\ (2 * n + Len(buf[c]) + Len(wire) <= 2 * sent[c] + 2)'
    BY <2>1, Zenon
  <2> QED
    BY <2>2, <2>3, Zenon DEF OnTheWay
<1>11. InLine(c, k)'
  BY <1>4 DEF Flows, InLine
<1>12. k + Len(queue'[c]) <= sent'[c]
  <2>1. Len(queue[c]) \in Nat
    BY LenProperties DEF TypeInv, ReadersOK
  <2> QED
    BY <1>3, <1>4, <2>1 DEF Flows
<1> QED
  BY <1>1, <1>4, <1>10, <1>11, <1>12 DEF Flows

LEMMA FlowClose ==
  ASSUME TypeInv, NEW c \in Conn, NEW k \in Nat, Flows(c, k), Close(c)
  PROVE  Flows(c, k)'
<1> USE Bounds
<1>1. PICK n \in Nat : n = k + Len(queue[c]) + 1
  BY LenProperties DEF TypeInv, ReadersOK
<1>2. PICK h \in Nat, l \in Nat : h = Len(buf[c]) /\ l = Len(wire)
  BY LenProperties DEF TypeInv, ReadersOK, ClientOK
<1>3. /\ fd = c /\ fd' = c /\ peer'[c] = "closed"
      /\ wire' = wire \/ (wire # <<>> /\ wire' = SubSeq(wire, 1, Len(wire) - 1))
      /\ UNCHANGED <<place, thread, queue, buf, sent>> /\ Seen(c)' = Seen(c)
  BY DEF Close, client, connect, work, TypeInv, ServerOK, Seen, Decoded
<1>4. Len(wire') \in Nat /\ Len(wire') <= l
  BY <1>2, <1>3, DropLast DEF TypeInv, ClientOK
<1>5. ASSUME place' \in {"none", "answered"} PROVE OnTheWay(c, n)'
  <2>1. /\ InPlace(buf[c], c, 2 * n) /\ InPlace(wire, c, 2 * n + h)
        /\ 2 * n + h + l <= 2 * sent[c] + 2
    BY <1>1, <1>2, <1>3, <1>5 DEF Flows, OnTheWay
  <2>2. PICK p \in Nat : p = 2 * n + h
    OBVIOUS
  <2>3. InPlace(wire', c, p)
    BY <1>3, <2>1, <2>2, InPlaceDrop DEF TypeInv, ClientOK
  <2>4. sent[c] \in Nat
    BY DEF TypeInv, ServerOK
  <2>5. 2 * n + Len(buf'[c]) + Len(wire') <= 2 * sent'[c] + 2
    <3>1. PICK s \in Nat, v \in Nat : s = sent[c] /\ v = Len(wire')
      BY <1>4, <2>4
    <3>2. 2 * n + h + v <= 2 * s + 2
      BY <1>4, <2>1, <3>1
    <3> QED
      BY <1>2, <1>3, <3>1, <3>2
  <2>6. InPlace(buf[c], c, 2 * n)' /\ InPlace(wire, c, 2 * n + Len(buf[c]))'
    BY <1>2, <1>3, <2>1, <2>2, <2>3 DEF InPlace
  <2> QED
    BY <1>3, <2>5, <2>6 DEF OnTheWay
<1>6. InLine(c, k)'
  BY <1>3 DEF Flows, InLine
<1> QED
  BY <1>1, <1>3, <1>5, <1>6 DEF Flows

(* processMsgs takes the next message of its reader's queue. *)
LEMMA FlowProcessed ==
  ASSUME TypeInv, NEW c \in Conn, NEW k \in Nat, Flows(c, k) \/ Cut(c, k), Socket,
         processMsgs, target = c, queue[c] # <<>>
  PROVE  \E j \in Nat : Flows(c, j)' \/ Cut(c, j)'
<1> USE Bounds
<1>1. PICK l \in Nat : l = Len(queue[c])
  BY LenProperties DEF TypeInv, ReadersOK
<1>2. PICK m \in MessageSet : m = Head(queue[c])
  BY HeadTailProperties DEF TypeInv, ReadersOK
<1>3. /\ processed' = Append(processed, m) /\ queue'[c] = Tail(queue[c])
      /\ UNCHANGED <<fd, place, sent, thread, buf, wire, peer>>
  BY <1>2 DEF processMsgs, client, server, connect, TypeInv, ReadersOK
<1>4. /\ l # 0 /\ Len(queue'[c]) = l - 1 /\ m = queue[c][1]
      /\ \A i \in 1 .. l - 1 : queue'[c][i] = queue[c][i + 1]
  <2>1. l # 0
    BY <1>1, EmptySeq DEF TypeInv, ReadersOK
  <2> QED
    BY <1>1, <1>2, <1>3, <2>1, HeadTailProperties DEF TypeInv, ReadersOK
<1>5. /\ Flows(c, k) /\ Seen(c) = 1 .. k /\ k + l <= sent[c] /\ InLine(c, k)
      /\ thread[c] # "none"
  BY <1>1 DEF Flows, Cut, Socket
<1>6. /\ sent[c] \in 0 .. MaxMsg /\ 1 \in 1 .. l
      /\ sent[c] \in Nat
  BY <1>4 DEF TypeInv, ServerOK
<1>7. \/ m = <<c, k + 1>>
      \/ m = <<c, Garbled>> /\ l = 1 /\ fd # c /\ thread[c] # "message"
  BY <1>1, <1>4, <1>5, <1>6 DEF InLine
<1>8. Seen(c)' = Seen(c) \cup {m[2]}
  BY <1>3, <1>7, SeenMore DEF TypeInv, WorkOK
<1>9. CASE m = <<c, k + 1>>
  <2>1. Seen(c)' = 1 .. k + 1
    BY <1>5, <1>8, <1>9
  <2>2. /\ (k + 1) + Len(queue'[c]) = k + l
        /\ (k + 1) + Len(queue'[c]) <= sent'[c]
    <3>1. (k + 1) + (l - 1) = k + l
      OBVIOUS
    <3> QED
      BY <1>3, <1>4, <1>5, <3>1
  <2>3. InLine(c, k + 1)'
    <3>1. ASSUME NEW i \in 1 .. l - 1
          PROVE  \/ queue'[c][i] = <<c, (k + 1) + i>>
                 \/ /\ queue'[c][i] = <<c, Garbled>> /\ i = l - 1
                    /\ fd # c /\ thread[c] # "message"
      <4>1. i + 1 \in 1 .. l /\ k + (i + 1) = (k + 1) + i
        BY <1>1
      <4>2. \/ queue[c][i + 1] = <<c, k + (i + 1)>>
            \/ /\ queue[c][i + 1] = <<c, Garbled>> /\ i + 1 = l
               /\ fd # c /\ thread[c] # "message"
        BY <1>1, <1>5, <4>1 DEF InLine
      <4>3. queue'[c][i] = queue[c][i + 1]
        BY <1>4
      <4>4. i + 1 = l => i = l - 1
        OBVIOUS
      <4> QED
        BY <4>1, <4>2, <4>3, <4>4
    <3> QED
      BY <1>3, <1>4, <3>1 DEF InLine
  <2>4. PICK n \in Nat : n = k + l + 1
    OBVIOUS
  <2>5. ASSUME OnTheWay(c, n) PROVE OnTheWay(c, n)'
    BY <1>3, <2>5 DEF OnTheWay, InPlace
  <2>6. ASSUME LeftOver(c, n) PROVE LeftOver(c, n)'
    BY <1>3, <2>6 DEF LeftOver
  <2>7. (k + 1) + Len(queue'[c]) + 1 = n /\ k + Len(queue[c]) + 1 = n
    BY <1>1, <2>2, <2>4
  <2>8. Flows(c, k + 1)'
    BY <1>3, <1>5, <2>1, <2>2, <2>3, <2>5, <2>6, <2>7 DEF Flows
  <2> QED
    BY <2>8
<1>10. CASE m = <<c, Garbled>> /\ l = 1 /\ fd # c /\ thread[c] # "message"
  <2>1. queue'[c] = <<>>
    <3>1. queue'[c] \in Seq(MessageSet) /\ Len(queue'[c]) = 0
      BY <1>3, <1>4, <1>10, HeadTailProperties DEF TypeInv, ReadersOK
    <3> QED
      BY <3>1, EmptySeq
  <2>2. k < sent[c]
    BY <1>5, <1>6, <1>10
  <2>3. Seen(c)' = (1 .. k) \cup {Garbled}
    BY <1>5, <1>8, <1>10
  <2>4. Cut(c, k)'
    BY <1>3, <1>5, <1>10, <2>1, <2>2, <2>3 DEF Cut
  <2> QED
    BY <2>4
<1> QED
  BY <1>7, <1>9, <1>10

LEMMA FlowNext ==
  ASSUME TypeInv, Socket, Orderly, [Next]_vars, ~overtaken'
  PROVE  Flow'
<1> USE Bounds DEF isSocketOK, isConnected
<1>0. /\ OneReader /\ Handshake /\ Decoders /\ Flow
      /\ ConnectOK /\ ClientOK /\ ServerOK /\ ReadersOK /\ WorkOK
  BY DEF Orderly, TypeInv
<1> SUFFICES ASSUME NEW c \in Conn PROVE \E k \in Nat : (Flows(c, k) \/ Cut(c, k))'
  BY DEF Flow
<1>1. PICK k \in Nat : Flows(c, k) \/ Cut(c, k)
  BY <1>0 DEF Flow
<1>2. fd = c => Flows(c, k)
  BY <1>1 DEF Cut
<1>3. thread[c] = "message" => place = "none"
  BY <1>0, ReaderRuns
(* The connection is closed, or is not the open one. *)
<1>4. ASSUME fd' # c, UNCHANGED <<processed, queue[c], sent[c]>>,
             thread'[c] = thread[c] \/ (thread'[c] = "ended" /\ thread[c] # "none"),
             buf'[c] = buf[c] \/ buf'[c] = buf[c] \o Zeros \/ thread'[c] = "ended"
      PROVE  Flows(c, k)' \/ Cut(c, k)'
  <2>1. ASSUME buf'[c] = buf[c] \o Zeros
        PROVE  \A i \in 1 .. Len(buf'[c]) :
                 \/ i \in 1 .. Len(buf[c]) /\ buf'[c][i] = buf[c][i]
                 \/ buf'[c][i] = <<0, 0, "zeros">>
    <3>1. PICK z : z = <<0, 0, "zeros">>
      OBVIOUS
    <3>2. z \in ByteSet /\ Zeros = <<z, z>> /\ buf[c] \in Seq(ByteSet)
      BY <1>0, <3>1 DEF ByteSet, Zeros, ReadersOK
    <3>3. PICK l \in Nat : l = Len(buf[c])
      BY <3>2, LenProperties
    <3>4. /\ Len(buf'[c]) = l + 2
          /\ \A i \in 1 .. l : buf'[c][i] = buf[c][i]
          /\ buf'[c][l + 1] = z /\ buf'[c][l + 2] = z
      BY <2>1, <3>2, <3>3, TwoMore
    <3>5. \A i \in 1 .. l + 2 : i \in 1 .. l \/ i = l + 1 \/ i = l + 2
      OBVIOUS
    <3> QED
      BY <3>1, <3>3, <3>4, <3>5
  <2>2. thread'[c] = "message" =>
           \A i \in 1 .. Len(buf'[c]) :
             \/ i \in 1 .. Len(buf[c]) /\ buf'[c][i] = buf[c][i]
             \/ buf'[c][i] = <<0, 0, "zeros">>
    BY <1>4, <2>1
  <2>3. thread'[c] \in {thread[c], "ended"} /\ (thread[c] = "none" => thread'[c] = "none")
    BY <1>4
  <2> QED
    BY <1>1, <1>3, <1>4, <2>2, <2>3, FlowAway
(* Nothing of the connection moves. *)
<1>5. ASSUME UNCHANGED <<fd, Seen(c), queue[c], sent[c], buf[c], thread[c]>>,
             fd = c /\ place' \in {"none", "answered"} =>
               /\ place \in {"none", "answered"} /\ wire' = wire
               /\ peer[c] = "closed" => peer'[c] = "closed"
      PROVE  Flows(c, k)' \/ Cut(c, k)'
  BY <1>1, <1>5, FlowStays
<1>6. ASSUME NEW r \in Conn, ReaderStep(r) PROVE \E j \in Nat : (Flows(c, j) \/ Cut(c, j))'
  <2>0. /\ DOMAIN thread = Conn /\ DOMAIN buf = Reader /\ DOMAIN queue = Reader
        /\ Conn \subseteq Reader
    BY <1>0 DEF ReadersOK
  <2>11. thread[r] \notin {"none", "ended"}
    BY <1>6 DEF ReaderStep, Receive, ReceiveEnd, putMessageToQueue, Queued, issueSignal,
                EndReader, Receives
  <2>12. UNCHANGED <<place, processed, sent, peer>>
    BY <1>6 DEF ReaderStep, Receive, ReceiveEnd, putMessageToQueue, Queued, issueSignal,
                EndReader, server, connect, work
  <2>13. \A d \in Conn : d # r => thread'[d] = thread[d]
    BY <1>6, <2>0 DEF ReaderStep, Receive, ReceiveEnd, putMessageToQueue, Queued, issueSignal,
                EndReader
  <2>14. \A d \in Conn : d # r => queue'[d] = queue[d]
    BY <1>6, <2>0 DEF ReaderStep, Receive, ReceiveEnd, putMessageToQueue, Queued, issueSignal,
                EndReader, Enqueue
  <2>15. ASSUME NEW d \in Conn, d # r PROVE buf'[d] = buf[d]
    <3>1. CASE Receive(r)
      BY <2>0, <2>15, <3>1 DEF Receive, onReceive
    <3>2. CASE ReceiveEnd(r)
      BY <2>0, <2>15, <3>2 DEF ReceiveEnd, onClose
    <3>3. CASE putMessageToQueue(r) \/ issueSignal(r)
      BY <3>3 DEF putMessageToQueue, issueSignal
    <3>4. CASE Queued(r)
      BY <2>0, <2>15, <3>4 DEF Queued, Enqueue
    <3>5. CASE EndReader(r)
      BY <2>0, <2>15, <3>5 DEF EndReader
    <3> QED
      BY <1>6, <3>1, <3>2, <3>3, <3>4, <3>5 DEF ReaderStep
  <2>1. /\ thread[r] \notin {"none", "ended"}
        /\ \A d \in Conn : d # r => buf'[d] = buf[d] /\ queue'[d] = queue[d] /\ thread'[d] = thread[d]
        /\ UNCHANGED <<place, processed, sent, peer>>
    BY <2>11, <2>12, <2>13, <2>14, <2>15
  <2>2. r = opened /\ fd \in {0, r} /\ place = "none"
    BY <1>0, <2>1, ReaderRuns
  <2>3. fd' = fd \/ fd' = 0
    BY <1>6 DEF ReaderStep, Receive, ReceiveEnd, putMessageToQueue, Queued, issueSignal,
                EndReader, onClose, eDisconnect, client
  <2>4. CASE c # r
    <3>1. fd' # c
      BY <2>2, <2>3, <2>4
    <3> QED
      BY <1>4, <2>1, <2>4, <3>1
  <2>5. CASE c = r
    <3>1. CASE Receive(c)
      <4>1. fd = c
        BY <2>2, <2>5, <3>1 DEF Receive, onReceive
      <4> QED
        BY <1>2, <2>2, <3>1, <4>1, FlowReceive
    <3>2. CASE ReceiveEnd(c)
      <4>1. buf'[c] = buf[c] \/ buf'[c] = buf[c] \o Zeros
        BY <1>0, <3>2 DEF ReceiveEnd, onClose, ReadersOK
      <4>2. fd' # c /\ UNCHANGED <<processed, queue, sent, thread>>
        BY <3>2 DEF ReceiveEnd, onClose, eDisconnect, server, work
      <4> QED
        BY <1>4, <4>1, <4>2
    <3>3. CASE putMessageToQueue(c)
      <4>1. fd = c /\ thread'[c] = "message"
        BY <1>0, <2>2, <2>5, <3>3 DEF putMessageToQueue, ReadersOK
      <4>2. /\ UNCHANGED <<fd, processed, queue, sent, buf, wire, peer>>
            /\ Seen(c)' = Seen(c)
        BY <3>3 DEF putMessageToQueue, client, server, work, Seen, Decoded
      <4>3. Flows(c, k)' \/ Cut(c, k)'
        BY <1>1, <2>2, <4>1, <4>2, FlowStays
      <4> QED
        BY <4>3
    <3>4. CASE Queued(c)
      <4>1. Flows(c, k)
        BY <1>1, <3>4 DEF Queued, Cut
      <4> QED
        BY <2>2, <3>4, <4>1, FlowQueued
    <3>5. CASE issueSignal(c)
      <4>1. thread'[c] = "reading"
        BY <1>0, <3>5 DEF issueSignal, ReadersOK
      <4>2. /\ UNCHANGED <<fd, processed, queue, sent, buf, wire, peer, place>>
            /\ Seen(c)' = Seen(c)
        BY <3>5 DEF issueSignal, client, server, connect, work, Seen, Decoded
      <4>3. Flows(c, k)' \/ Cut(c, k)'
        BY <1>1, <2>2, <4>1, <4>2, FlowStays
      <4> QED
        BY <4>3
    <3>6. CASE EndReader(c)
      <4>1. thread'[c] = "ended" /\ UNCHANGED <<fd, processed, queue, sent>>
        BY <1>0, <3>6 DEF EndReader, client, server, work, ReadersOK
      <4>2. fd # c
        BY <1>0, <3>6, LengthInPlace DEF EndReader
      <4> QED
        BY <1>4, <2>1, <2>5, <4>1, <4>2
    <3> QED
      BY <1>6, <2>5, <3>1, <3>2, <3>3, <3>4, <3>5, <3>6 DEF ReaderStep
  <2> QED
    BY <2>4, <2>5
<1>7. ASSUME NEW t \in {"worker", "gui"}, connectAPI(t)
      PROVE \E j \in Nat : (Flows(c, j) \/ Cut(c, j))'
  <2>1. /\ fd' = opened + 1 /\ place' = "connected" /\ fd = 0
        /\ UNCHANGED <<sent, processed, thread, buf, queue>>
    BY <1>7 DEF connectAPI
  <2>2. CASE c # opened + 1
    BY <1>4, <2>1, <2>2
  <2>3. CASE c = opened + 1
    <3>1. thread[c] = "none" /\ queue[c] = <<>>
      BY <1>0, <2>3 DEF Socket, ConnectOK
    <3>2. Flows(c, k) /\ k = 0
      BY <1>1, <3>1 DEF Flows, Cut
    <3>3. Seen(c)' = Seen(c) /\ place' \notin {"none", "answered"}
      BY <2>1 DEF Seen, Decoded
    <3>4. InLine(c, k)'
      <4>1. Len(queue'[c]) = 0
        BY <2>1, <3>1
      <4> QED
        BY <4>1 DEF InLine
    <3>5. Flows(c, k)'
      BY <2>1, <3>1, <3>2, <3>3, <3>4 DEF Flows
    <3> QED
      BY <3>5
  <2> QED
    BY <2>2, <2>3
<1>8. CASE CheckConnected
  <2>1. /\ UNCHANGED <<fd, processed, sent, thread, wire, peer, queue[c], buf[c]>>
        /\ Seen(c)' = Seen(c) /\ (fd # 0 => place' = "asking")
    <3>1. CASE isConnected
      BY <1>8, <3>1 DEF CheckConnected, client, server, Seen, Decoded
    <3>2. CASE ~isConnected
      BY <1>0, <1>8, <3>2 DEF CheckConnected, Return, client, server, Seen, Decoded, Socket, ReadersOK
    <3> QED
      BY <3>1, <3>2
  <2> QED
    BY <1>5, <2>1
<1>9. CASE ReceiveAck
  <2>1. /\ UNCHANGED <<processed, sent, thread, peer, queue[c], buf[c]>>
        /\ Seen(c)' = Seen(c) /\ place = "asking"
    BY <1>0, <1>9 DEF ReceiveAck, server, work, onReceive, onClose, Enqueue, Seen, Decoded, ReadersOK
  <2>2. CASE fd' # c
    BY <1>4, <2>1, <2>2
  <2>3. CASE fd' = c
    <3>1. fd = c
      BY <1>9, <2>3 DEF ReceiveAck, client, onClose, eDisconnect
    <3>2. CASE place' = "asking"
      BY <1>5, <2>1, <2>3, <3>1, <3>2
    <3>3. CASE place' # "asking"
      <4>1. /\ InPlace(buf[0], c, 0) /\ InPlace(wire, c, Len(buf[0])) /\ sent[c] = 0
            /\ Len(buf[0]) + Len(wire) <= IF offered[c] = 0 THEN 0 ELSE 2
            /\ Len(buf[0]) + Len(wire) = 2 \/ peer[c] \in {"asked", "closed"}
            /\ peer[c] = "asked" => offered[c] = 0
        BY <1>0, <2>1, <3>1 DEF Handshake
      <4>2. ~BadLength(0)
        <5>1. InPlace(buf[0], c, 2 * 0)
          BY <4>1
        <5> QED
          BY <5>1, NextMessage
      <4>3. Enqueue(0) /\ UNCHANGED <<client, wire>>
        BY <1>9, <2>1, <2>3, <3>1, <3>3, <4>2 DEF ReceiveAck, onClose, eDisconnect
      <4>4. /\ buf[0] \in Seq(ByteSet) /\ Len(buf[0]) >= 2 /\ Len(buf[0]) \in Nat
            /\ Len(wire) \in Nat
        BY <1>0, <4>3, LenProperties DEF Enqueue, Complete, ReadersOK, ClientOK
      <4>5. Len(buf[0]) = 2 /\ Len(wire) = 0 /\ peer[c] # "asked"
        <5>1. PICK h \in Nat, w \in Nat : h = Len(buf[0]) /\ w = Len(wire)
          BY <4>4
        <5>2. h >= 2 /\ (h + w <= IF offered[c] = 0 THEN 0 ELSE 2)
          BY <4>1, <4>4, <5>1
        <5>3. offered[c] # 0
          BY <5>1, <5>2
        <5>4. h = 2 /\ w = 0
          <6>1. h + w <= 2
            BY <5>2, <5>3
          <6> HIDE <5>1
          <6> QED
            BY <5>2, <6>1
        <5>5. peer[c] # "asked"
          BY <4>1, <5>3
        <5> QED
          BY <5>1, <5>4, <5>5
      <4>6. thread[c] = "none" /\ queue[c] = <<>> /\ buf[c] = <<>>
        <5>1. caller # "none" /\ c = opened
          BY <2>1, <3>1 DEF Socket
        <5> QED
          BY <1>0, <5>1 DEF OneReader, Socket
      <4>7. Flows(c, k) /\ k = 0
        BY <1>1, <4>6 DEF Flows, Cut
      <4>8. k + Len(queue'[c]) + 1 = 1 /\ Len(queue'[c]) = 0
        BY <2>1, <4>6, <4>7
      <4>9. OnTheWay(c, 1)'
        <5>1. Len(buf'[c]) = 0 /\ Len(wire') = 0 /\ sent'[c] = 0
          BY <2>1, <4>1, <4>3, <4>5, <4>6
        <5> QED
          BY <5>1 DEF OnTheWay, InPlace
      <4>10. InLine(c, k)'
        BY <4>8 DEF InLine
      <4>11. Flows(c, k)'
        BY <2>1, <2>3, <4>7, <4>8, <4>9, <4>10 DEF Flows
      <4> QED
        BY <4>11
    <3> QED
      BY <3>2, <3>3
  <2> QED
    BY <2>2, <2>3
<1>10. CASE ProcessAck
  <2>1. /\ UNCHANGED <<processed, sent, thread, queue[c], buf[c], place>>
        /\ Seen(c)' = Seen(c)
    BY <1>0, <1>10 DEF ProcessAck, connect, work, Seen, Decoded, ReadersOK
  <2>2. \/ fd' = 0
        \/ /\ fd' = fd /\ wire' = wire
           /\ peer' = peer \/ (peer[fd] = "acked" /\ peer' = [peer EXCEPT ![fd] = "started"])
    BY <1>10 DEF ProcessAck, serverVersion, eDisconnect, client
  <2>3. CASE fd' # c
    BY <1>4, <2>1, <2>3
  <2>4. CASE fd' = c
    <3>1. /\ fd' = fd /\ wire' = wire /\ place \in {"none", "answered"}
          /\ peer[c] = "closed" => peer'[c] = "closed"
      BY <1>0, <1>10, <2>2, <2>4 DEF ProcessAck, ServerOK
    <3> QED
      BY <1>5, <2>1, <3>1
  <2> QED
    BY <2>3, <2>4
<1>11. CASE StartReader
  <2>1. /\ UNCHANGED <<fd, processed, sent, wire, peer, queue[c], buf[c]>>
        /\ Seen(c)' = Seen(c) /\ place = "answered"
        /\ thread'[c] = thread[c] \/ thread'[c] = "reading"
    BY <1>0, <1>11 DEF StartReader, Return, client, server, Seen, Decoded, ReadersOK
  <2>2. Flows(c, k)' \/ Cut(c, k)'
    BY <1>1, <2>1, FlowStays
  <2> QED
    BY <2>2
<1>12. CASE waitForSignal \/ Wake \/ UNCHANGED vars
  <2>1. /\ UNCHANGED <<fd, processed, sent, wire, peer, thread, queue, buf, place>>
        /\ Seen(c)' = Seen(c)
    BY <1>12 DEF waitForSignal, Wake, vars, client, server, connect, work, Seen, Decoded
  <2> QED
    BY <1>5, <2>1
<1>13. CASE processMsgs
  <2>1. target \in Conn
    BY <1>0, <1>13 DEF processMsgs, WorkOK, Socket
  <2>2. CASE queue[target] # <<>> /\ target = c
    BY <1>1, <1>13, <2>2, FlowProcessed
  <2>3. CASE queue[target] # <<>> /\ target # c
    <3>1. PICK m \in MessageSet : m = Head(queue[target])
      BY <1>0, <2>3, HeadTailProperties DEF WorkOK, ReadersOK
    <3>2. m[1] = target
      <4>1. PICK j \in Nat : Flows(target, j)
        BY <1>0, <2>1, <2>3 DEF Flow, Cut
      <4>2. 1 \in 1 .. Len(queue[target]) /\ m = queue[target][1]
        BY <1>0, <2>3, <3>1, EmptySeq DEF WorkOK, ReadersOK
      <4> QED
        BY <4>1, <4>2 DEF Flows, InLine
    <3>3. /\ processed' = Append(processed, m)
          /\ UNCHANGED <<fd, sent, wire, peer, thread, queue[c], buf, place>>
      BY <1>0, <1>13, <2>3, <3>1 DEF processMsgs, client, server, connect, ReadersOK
    <3>4. Seen(c)' = Seen(c)
      <4>1. processed \in Seq(MessageSet) /\ processed' = Append(processed, m)
        BY <1>0, <3>3 DEF WorkOK
      <4>2. Seen(c)' = Seen(c) \cup (IF m[1] = c THEN {m[2]} ELSE {})
        BY <4>1, SeenMore
      <4> QED
        BY <2>3, <3>2, <4>2
    <3> QED
      BY <1>5, <3>3, <3>4
  <2>4. CASE queue[target] = <<>>
    <3>1. /\ UNCHANGED <<fd, processed, sent, wire, peer, thread, queue, buf, place>>
          /\ Seen(c)' = Seen(c)
      BY <1>13, <2>4 DEF processMsgs, client, server, connect, Seen, Decoded
    <3> QED
      BY <1>5, <3>1
  <2> QED
    BY <2>2, <2>3, <2>4
<1>14. CASE disconnectAPI \/ SendFails
  <2>1. fd' # c /\ UNCHANGED <<processed, sent, thread, queue, buf>>
    BY <1>14 DEF disconnectAPI, SendFails, eDisconnect, server, work
  <2> QED
    BY <1>4, <2>1
<1>15. ASSUME NEW d \in Conn, Answer(d) \/ Send(d) \/ Close(d)
       PROVE  \E j \in Nat : (Flows(c, j) \/ Cut(c, j))'
  <2>1. /\ fd = d /\ UNCHANGED <<fd, processed, thread, queue, buf, place, version>>
        /\ Seen(c)' = Seen(c)
    BY <1>15 DEF Answer, Send, Close, client, connect, work, Seen, Decoded
  <2>2. CASE c # d
    <3>1. sent'[c] = sent[c] /\ fd # c
      BY <1>0, <1>15, <2>1, <2>2 DEF Answer, Send, Close, ServerOK
    <3> QED
      BY <1>5, <2>1, <3>1
  <2>3. CASE c = d /\ Answer(c)
    <3>1. sent' = sent
      BY <2>3 DEF Answer
    <3>2. peer[c] = "asked" /\ fd = c
      BY <2>3 DEF Answer
    <3>3. place # "answered"
      BY <1>0, <3>2 DEF Handshake
    <3>4. thread[c] = "none"
      BY <1>0, <3>2 DEF Decoders
    <3>5. place # "none"
      BY <1>0, <3>2, <3>4 DEF OneReader, Socket
    <3> QED
      BY <1>5, <2>1, <3>1, <3>3, <3>5
  <2>4. CASE c = d /\ Send(c)
    <3>1. fd = c /\ peer[c] = "started"
      BY <2>4 DEF Send
    <3>2. place \in {"none", "answered"}
      <4>1. version # 0
        BY <1>0, <3>1 DEF Handshake
      <4> QED
        BY <1>0, <3>1, <4>1 DEF Handshake, ConnectOK
    <3>3. Flows(c, k)'
      BY <1>2, <2>4, <3>1, <3>2, FlowSend
    <3> QED
      BY <3>3
  <2>5. CASE c = d /\ Close(c)
    <3>1. Flows(c, k)'
      BY <1>2, <2>1, <2>5, FlowClose
    <3> QED
      BY <3>1
  <2> QED
    BY <1>15, <2>2, <2>3, <2>4, <2>5
<1> QED
  BY <1>6, <1>7, <1>8, <1>9, <1>10, <1>11, <1>12, <1>13,
     <1>14, <1>15 DEF Next, CallerStep, WorkerStep


(* What has been decoded stays, and so does what the server sent; a        *)
(* connection on which messages were sent is not opened again.             *)
LEMMA InOrderStays ==
  ASSUME TypeInv, Socket, InOrder, ~overtaken, [Next]_vars, UNCHANGED processed
  PROVE  InOrder'
<1> USE Bounds DEF TypeInv
<1>1. ASSUME NEW c \in Conn PROVE sent[c] \in Nat /\ sent'[c] \in Nat /\ sent[c] <= sent'[c]
  <2>1. sent[c] \in Nat
    BY DEF ServerOK
  <2>2. sent' = sent \/ \E d \in Conn : sent' = [sent EXCEPT ![d] = sent[d] + 1]
    BY DEF Next, ReaderStep, CallerStep, WorkerStep, vars, server, connectAPI, Receive,
       ReceiveEnd, putMessageToQueue, Queued, issueSignal, EndReader, CheckConnected,
       ReceiveAck, ProcessAck, StartReader, waitForSignal, Wake, processMsgs,
       disconnectAPI, SendFails, Answer, Send, Close
  <2> QED
    BY <2>1, <2>2 DEF ServerOK
<1>2. fd' \in {fd, 0, opened + 1}
  BY DEF Next, ReaderStep, CallerStep, WorkerStep, vars, client, connectAPI, Receive,
     ReceiveEnd, putMessageToQueue, Queued, issueSignal, EndReader, CheckConnected,
     ReceiveAck, ProcessAck, StartReader, waitForSignal, Wake, processMsgs, onClose,
     eDisconnect, serverVersion, disconnectAPI, SendFails, Answer, Send, Close
<1>3. ASSUME NEW c \in Conn, fd' = c, fd # c PROVE sent[c] = 0
  BY <1>2, <1>3 DEF Socket, ConnectOK
<1>4. ASSUME NEW j \in 1 .. Len(processed)
      PROVE  \E c \in Conn : \E n \in 1 .. sent'[c] :
               /\ c = processed[j][1]
               /\ Decoded(c, j - 1)' = 1 .. n - 1
               /\ processed[j][2] = n \/ (processed[j][2] = Garbled /\ fd' # c)
  <2>1. PICK c \in Conn : c = processed[j][1]
    BY ElementOfSeq DEF WorkOK, MessageSet
  <2>2. PICK n \in 1 .. sent[c] :
          /\ Decoded(c, j - 1) = 1 .. n - 1
          /\ processed[j][2] = n \/ (processed[j][2] = Garbled /\ fd # c)
    BY <2>1 DEF InOrder
  <2>3. Decoded(c, j - 1)' = 1 .. n - 1
    BY <2>2 DEF Decoded
  <2>4. n \in 1 .. sent'[c] /\ sent[c] # 0
    BY <1>1, <2>2
  <2>5. fd # c => fd' # c
    BY <1>3, <2>4
  <2> QED
    BY <2>1, <2>2, <2>3, <2>4, <2>5
<1> QED
  BY <1>4 DEF InOrder

(* The message that processMsgs decodes is the next one of its connection. *)
LEMMA InOrderMore ==
  ASSUME TypeInv, Socket, Orderly, InOrder, ~overtaken, processMsgs, queue[target] # <<>>
  PROVE  InOrder'
<1> USE Bounds DEF TypeInv
<1>1. PICK c \in Conn : c = target
  BY DEF processMsgs, WorkOK, Socket
<1>2. PICK m \in MessageSet : m = Head(queue[c])
  BY <1>1, HeadTailProperties DEF ReadersOK
<1>3. PICK k \in Nat : Flows(c, k)
  BY <1>1 DEF Orderly, Flow, Cut
<1>4. /\ processed \in Seq(MessageSet) /\ processed' = Append(processed, m)
      /\ UNCHANGED <<sent, fd>>
  BY <1>1, <1>2 DEF processMsgs, client, server, WorkOK
<1>5. PICK p \in Nat : p = Len(processed)
  BY <1>4, LenProperties
<1>6. /\ Len(processed') = p + 1
      /\ \A i \in 1 .. p : processed'[i] = processed[i]
      /\ processed'[p + 1] = m
  BY <1>4, <1>5, AppendProperties
<1>7. k + 1 \in 1 .. sent[c]
      /\ (m = <<c, k + 1>> \/ (m = <<c, Garbled>> /\ fd # c))
  <2>1. PICK l \in Nat : l = Len(queue[c])
    BY LenProperties DEF ReadersOK
  <2>2. l # 0 /\ m = queue[c][1]
    BY <1>1, <1>2, <2>1, EmptySeq DEF ReadersOK
  <2>3. k + l <= sent[c] /\ sent[c] \in Nat
    BY <1>3, <2>1 DEF Flows, ServerOK
  <2>4. 1 \in 1 .. l
    BY <2>2
  <2>5. m = <<c, k + 1>> \/ (m = <<c, Garbled>> /\ fd # c)
    BY <1>3, <2>1, <2>2, <2>4 DEF Flows, InLine
  <2> QED
    BY <2>2, <2>3, <2>5
<1>8. ASSUME NEW j \in 1 .. p
      PROVE  \E d \in Conn : \E n \in 1 .. sent[d] :
               /\ d = processed[j][1]
               /\ Decoded(d, j - 1)' = 1 .. n - 1
               /\ processed[j][2] = n \/ (processed[j][2] = Garbled /\ fd # d)
  <2>1. PICK d \in Conn : d = processed[j][1]
    BY <1>4, <1>5, ElementOfSeq DEF MessageSet
  <2>2. PICK n \in 1 .. sent[d] :
          /\ Decoded(d, j - 1) = 1 .. n - 1
          /\ processed[j][2] = n \/ (processed[j][2] = Garbled /\ fd # d)
    BY <1>5, <2>1 DEF InOrder
  <2>3. j - 1 \in 0 .. p
    OBVIOUS
  <2>4. Decoded(d, j - 1)' = Decoded(d, j - 1)
    BY <1>4, <1>5, <2>3, SeenMore
  <2> QED
    BY <2>1, <2>2, <2>4
<1>9. Decoded(c, p)' = 1 .. (k + 1) - 1
  <2>1. Decoded(c, p) = 1 .. k
    BY <1>3, <1>5 DEF Flows, Seen
  <2>2. p \in 0 .. p
    OBVIOUS
  <2>3. Decoded(c, p)' = Decoded(c, p)
    BY <1>4, <1>5, <2>2, SeenMore
  <2> QED
    BY <2>1, <2>3
<1>10. ASSUME NEW j \in 1 .. p + 1
       PROVE  \E d \in Conn : \E n \in 1 .. sent'[d] :
                /\ d = processed'[j][1]
                /\ Decoded(d, j - 1)' = 1 .. n - 1
                /\ processed'[j][2] = n \/ (processed'[j][2] = Garbled /\ fd' # d)
  <2>1. CASE j = p + 1
    <3>1. j - 1 = p /\ processed'[j] = m /\ m[1] = c
      BY <1>6, <1>7, <2>1
    <3>2. m[2] = k + 1 \/ (m[2] = Garbled /\ fd # c)
      BY <1>7
    <3>3. Decoded(c, j - 1)' = 1 .. (k + 1) - 1
      BY <1>9, <3>1
    <3> QED
      BY <1>4, <1>7, <3>1, <3>2, <3>3
  <2>2. CASE j \in 1 .. p
    <3>1. processed'[j] = processed[j]
      BY <1>6, <2>2
    <3>2. PICK d \in Conn : \E n \in 1 .. sent[d] :
            /\ d = processed[j][1]
            /\ Decoded(d, j - 1)' = 1 .. n - 1
            /\ processed[j][2] = n \/ (processed[j][2] = Garbled /\ fd # d)
      BY <1>8, <2>2
    <3> QED
      BY <1>4, <3>1, <3>2
  <2> QED
    BY <2>1, <2>2
<1>11. \A j \in 1 .. Len(processed') :
         \E d \in Conn : \E n \in 1 .. sent'[d] :
           /\ d = processed'[j][1]
           /\ Decoded(d, j - 1)' = 1 .. n - 1
           /\ processed'[j][2] = n \/ (processed'[j][2] = Garbled /\ fd' # d)
  BY <1>6, <1>10
<1> QED
  BY <1>11 DEF InOrder, Decoded

-----------------------------------------------------------------------------
(* The inductive invariant: types, the socket, and the order of things     *)
(* as long as no connection was opened over a reader that still ran.       *)
Sound == ~overtaken => Orderly /\ InOrder

IInv == TypeInv /\ Socket /\ Sound

LEMMA SessionInit == Init => IInv
<1> SUFFICES ASSUME Init PROVE IInv
  OBVIOUS
<1>1. Len(processed) = 0
  BY DEF Init
<1>2. InOrder
  BY <1>1 DEF InOrder
<1> QED
  BY <1>2, TypeInit, SocketInit, OrderlyInit DEF IInv, Sound

LEMMA SessionNext == IInv /\ [Next]_vars => IInv'
<1> SUFFICES ASSUME IInv, [Next]_vars PROVE IInv'
  OBVIOUS
<1>1. TypeInv' /\ Socket'
  BY TypeNext, SocketNext DEF IInv
<1>2. ASSUME ~overtaken' PROVE (Orderly /\ InOrder)'
  <2>1. ~overtaken
    BY <1>2, OvertakenStays DEF IInv
  <2>2. TypeInv /\ Socket /\ Orderly /\ InOrder
    BY <2>1 DEF IInv, Sound
  <2>3. Orderly'
    BY <1>1, <1>2, <2>2, OneReaderNext, HandshakeNext, DecodersNext, FlowNext DEF Orderly
  <2>4. InOrder'
    <3>1. CASE processMsgs /\ queue[target] # <<>>
      BY <2>1, <2>2, <3>1, InOrderMore
    <3>2. CASE ~(processMsgs /\ queue[target] # <<>>)
      <4>1. processed' = processed
        BY <3>2 DEF Next, ReaderStep, CallerStep, WorkerStep, vars, work, connectAPI, Receive,
           ReceiveEnd, putMessageToQueue, Queued, issueSignal, EndReader, CheckConnected,
           ReceiveAck, ProcessAck, StartReader, waitForSignal, Wake, processMsgs,
           disconnectAPI, SendFails, Answer, Send, Close
      <4> QED
        BY <2>1, <2>2, <4>1, InOrderStays
    <3> QED
      BY <3>1, <3>2
  <2> QED
    BY <2>3, <2>4
<1> QED
  BY <1>1, <1>2 DEF IInv, Sound

LEMMA SessionInvariant == Spec => []IInv
BY SessionInit, SessionNext, PTL DEF Spec

(* Unless a connection was opened over a reader that still ran, processMsgs*)
(* decodes the messages of each connection in the order the server sent    *)
(* them, none twice, none left out, and as they were sent but for the one  *)
(* the end of the connection cut short: two threads share the socket and   *)
(* the queue, and the buffer is cut wherever recv happened to stop.        *)
THEOREM DecodedInOrder == Spec => []InOrder
<1>1. IInv => InOrder
  BY DEF IInv, Sound, InOrder
<1> QED
  BY <1>1, SessionInvariant, PTL

(* Then too EReader's decoder has the version that the server of its       *)
(* messages answered with, and one the client supports, whenever a message *)
(* waits for it.                                                           *)
THEOREM DecodersKnowVersion == Spec => []DecoderKnowsVersion
<1>1. IInv => DecoderKnowsVersion
  <2> SUFFICES ASSUME IInv, ~overtaken, NEW r \in Conn, queue[r] # <<>>
               PROVE  /\ decoder[r] \in Version
                      /\ \A i \in 1 .. Len(queue[r]) : decoder[r] = offered[queue[r][i][1]]
    BY DEF DecoderKnowsVersion
  <2>1. Socket /\ Decoders /\ Flow
    BY DEF IInv, Sound, Orderly
  <2>2. decoder[r] = offered[r] /\ decoder[r] \in Version
    BY <2>1 DEF Socket, Decoders
  <2>3. PICK k \in Nat : InLine(r, k)
    BY <2>1 DEF Flow, Flows, Cut
  <2>4. \A i \in 1 .. Len(queue[r]) : queue[r][i][1] = r
    BY <2>3 DEF InLine
  <2> QED
    BY <2>2, <2>4
<1> QED
  BY <1>1, SessionInvariant, PTL

(* Then too no reader thread ends while the connection it reads is open.   *)
THEOREM ReadersEndClosed == Spec => []ReaderEndsClosed
<1>1. IInv => ReaderEndsClosed
  BY Bounds DEF IInv, Sound, Orderly, OneReader, Socket, ReaderEndsClosed, isSocketOK
<1> QED
  BY <1>1, SessionInvariant, PTL

-----------------------------------------------------------------------------
(* TwsApi: what a request writes in the versions that know it *)

(* In a version that passes the test of an attribute its field is written. *)
Gated(row, v) ==
  \A a \in DOMAIN row.accepts :
    v \in row.accepts[a] => a \in DOMAIN row.writes /\ v \in row.writes[a]

(* An attribute without a test of its own is written in every version that *)
(* is not one of those that drop it.  The offset of an order pegged to the *)
(* midpoint is written beside another, whose test stands for its own.      *)
Ungated(request, row, v) ==
  \A a \in DOMAIN row.writes \ (DOMAIN row.accepts \cup Unasked) :
    \/ v \in row.writes[a]
    \/ v \in Dropped(request, a)
    \/ request = "placeOrder" /\ a = "upToMid"

(* The tests and the fields of a request agree in all versions that know   *)
(* it; during the handshake, which has no version, what has no test may be *)
(* left out.                                                               *)
Carries(request) ==
  LET row == Requests[request]
  IN  /\ row.since \subseteq AnyVersion
      /\ \A v \in row.since :
           Gated(row, v) /\ (v # NoVersion => Ungated(request, row, v))

(* The oldest versions the client accepts know what is older.              *)
LEMMA Long ==
  \A v \in Version : v \in Since("LINKING") /\ v \in Since("TRADING_CLASS")
BY DEF Version, Since, MIN_CLIENT_VER, MAX_CLIENT_VER, MinServerVer

(* Without a version nothing is known that some version began with.        *)
LEMMA Unversioned == NoVersion \notin Version /\ \A name : NoVersion \notin Since(name)
BY DEF NoVersion, Version, Since, MIN_CLIENT_VER, MAX_CLIENT_VER

(* The requests with attributes, one by one: first whether the versions    *)
(* that know it are versions of the client, then its tests, then the       *)
(* fields without a test.                                                  *)
LEMMA CarriesReqMktData == Carries("reqMktData")
<1>1. Requests["reqMktData"] = reqMktData
  BY DEF Requests
<1>2. reqMktData.since \subseteq AnyVersion
  BY DEF reqMktData, Plain, Since, AnyVersion
<1>3. \A v \in AnyVersion : Gated(reqMktData, v)
  BY Long, Unversioned DEF Gated, reqMktData, Plain, AnyVersion, Before
<1>4. \A v \in Version : Ungated("reqMktData", reqMktData, v)
  BY Long DEF Ungated, reqMktData, Plain,
     Dropped, DroppedBefore, Before, Unasked, AnyVersion
<1> QED
  BY <1>1, <1>2, <1>3, <1>4 DEF Carries, AnyVersion

LEMMA CarriesReqMktDepth == Carries("reqMktDepth")
<1>1. Requests["reqMktDepth"] = reqMktDepth
  BY DEF Requests
<1>2. reqMktDepth.since \subseteq AnyVersion
  BY DEF reqMktDepth, Plain, Since, AnyVersion
<1>3. \A v \in AnyVersion : Gated(reqMktDepth, v)
  BY Long, Unversioned DEF Gated, reqMktDepth, Plain, AnyVersion, Before
<1>4. \A v \in Version : Ungated("reqMktDepth", reqMktDepth, v)
  BY Long DEF Ungated, reqMktDepth, Plain,
     Dropped, DroppedBefore, Before, Unasked, AnyVersion
<1> QED
  BY <1>1, <1>2, <1>3, <1>4 DEF Carries, AnyVersion

LEMMA CarriesCancelMktDepth == Carries("cancelMktDepth")
<1>1. Requests["cancelMktDepth"] = cancelMktDepth
  BY DEF Requests
<1>2. cancelMktDepth.since \subseteq AnyVersion
  BY DEF cancelMktDepth, Plain, Since, AnyVersion
<1>3. \A v \in AnyVersion : Gated(cancelMktDepth, v)
  BY Long, Unversioned DEF Gated, cancelMktDepth, Plain, AnyVersion, Before
<1>4. \A v \in Version : Ungated("cancelMktDepth", cancelMktDepth, v)
  BY Long DEF Ungated, cancelMktDepth, Plain,
     Dropped, DroppedBefore, Before, Unasked, AnyVersion
<1> QED
  BY <1>1, <1>2, <1>3, <1>4 DEF Carries, AnyVersion

LEMMA CarriesReqHistoricalData == Carries("reqHistoricalData")
<1>1. Requests["reqHistoricalData"] = reqHistoricalData
  BY DEF Requests
<1>2. reqHistoricalData.since \subseteq AnyVersion
  BY DEF reqHistoricalData, Plain, Since, AnyVersion
<1>3. \A v \in AnyVersion : Gated(reqHistoricalData, v)
  BY Long, Unversioned DEF Gated, reqHistoricalData, Plain, AnyVersion, Before
<1>4. \A v \in Version : Ungated("reqHistoricalData", reqHistoricalData, v)
  BY Long DEF Ungated, reqHistoricalData, Plain,
     Dropped, DroppedBefore, Before, Unasked, AnyVersion
<1> QED
  BY <1>1, <1>2, <1>3, <1>4 DEF Carries, AnyVersion

LEMMA CarriesReqRealTimeBars == Carries("reqRealTimeBars")
<1>1. Requests["reqRealTimeBars"] = reqRealTimeBars
  BY DEF Requests
<1>2. reqRealTimeBars.since \subseteq AnyVersion
  BY DEF reqRealTimeBars, Plain, Since, AnyVersion
<1>3. \A v \in AnyVersion : Gated(reqRealTimeBars, v)
  BY Long, Unversioned DEF Gated, reqRealTimeBars, Plain, AnyVersion, Before
<1>4. \A v \in Version : Ungated("reqRealTimeBars", reqRealTimeBars, v)
  BY Long DEF Ungated, reqRealTimeBars, Plain,
     Dropped, DroppedBefore, Before, Unasked, AnyVersion
<1> QED
  BY <1>1, <1>2, <1>3, <1>4 DEF Carries, AnyVersion

LEMMA CarriesReqScannerSubscription == Carries("reqScannerSubscription")
<1>1. Requests["reqScannerSubscription"] = reqScannerSubscription
  BY DEF Requests
<1>2. reqScannerSubscription.since \subseteq AnyVersion
  BY DEF reqScannerSubscription, Plain, Since, AnyVersion
<1>3. \A v \in AnyVersion : Gated(reqScannerSubscription, v)
  BY Long, Unversioned DEF Gated, reqScannerSubscription, Plain, AnyVersion, Before
<1>4. \A v \in Version : Ungated("reqScannerSubscription", reqScannerSubscription, v)
  BY Long DEF Ungated, reqScannerSubscription, Plain,
     Dropped, DroppedBefore, Before, Unasked, AnyVersion
<1> QED
  BY <1>1, <1>2, <1>3, <1>4 DEF Carries, AnyVersion

LEMMA CarriesReqFundamentalData == Carries("reqFundamentalData")
<1>1. Requests["reqFundamentalData"] = reqFundamentalData
  BY DEF Requests
<1>2. reqFundamentalData.since \subseteq AnyVersion
  BY DEF reqFundamentalData, Plain, Since, AnyVersion
<1>3. \A v \in AnyVersion : Gated(reqFundamentalData, v)
  BY Long, Unversioned DEF Gated, reqFundamentalData, Plain, AnyVersion, Before
<1>4. \A v \in Version : Ungated("reqFundamentalData", reqFundamentalData, v)
  BY Long DEF Ungated, reqFundamentalData, Plain,
     Dropped, DroppedBefore, Before, Unasked, AnyVersion
<1> QED
  BY <1>1, <1>2, <1>3, <1>4 DEF Carries, AnyVersion

LEMMA CarriesCalculateImpliedVolatility == Carries("calculateImpliedVolatility")
<1>1. Requests["calculateImpliedVolatility"] = calculateImpliedVolatility
  BY DEF Requests
<1>2. calculateImpliedVolatility.since \subseteq AnyVersion
  BY DEF calculateImpliedVolatility, Plain, Since, AnyVersion
<1>3. \A v \in AnyVersion : Gated(calculateImpliedVolatility, v)
  BY Long, Unversioned DEF Gated, calculateImpliedVolatility, Plain, AnyVersion, Before
<1>4. \A v \in Version : Ungated("calculateImpliedVolatility", calculateImpliedVolatility, v)
  BY Long DEF Ungated, calculateImpliedVolatility, Plain,
     Dropped, DroppedBefore, Before, Unasked, AnyVersion
<1> QED
  BY <1>1, <1>2, <1>3, <1>4 DEF Carries, AnyVersion

LEMMA CarriesCalculateOptionPrice == Carries("calculateOptionPrice")
<1>1. Requests["calculateOptionPrice"] = calculateOptionPrice
  BY DEF Requests
<1>2. calculateOptionPrice.since \subseteq AnyVersion
  BY DEF calculateOptionPrice, Plain, Since, AnyVersion
<1>3. \A v \in AnyVersion : Gated(calculateOptionPrice, v)
  BY Long, Unversioned DEF Gated, calculateOptionPrice, Plain, AnyVersion, Before
<1>4. \A v \in Version : Ungated("calculateOptionPrice", calculateOptionPrice, v)
  BY Long DEF Ungated, calculateOptionPrice, Plain,
     Dropped, DroppedBefore, Before, Unasked, AnyVersion
<1> QED
  BY <1>1, <1>2, <1>3, <1>4 DEF Carries, AnyVersion

LEMMA CarriesReqContractDetails == Carries("reqContractDetails")
<1>1. Requests["reqContractDetails"] = reqContractDetails
  BY DEF Requests
<1>2. reqContractDetails.since \subseteq AnyVersion
  BY DEF reqContractDetails, Plain, Since, AnyVersion
<1>3. \A v \in AnyVersion : Gated(reqContractDetails, v)
  BY Long, Unversioned DEF Gated, reqContractDetails, Plain, AnyVersion, Before
<1>4. \A v \in Version : Ungated("reqContractDetails", reqContractDetails, v)
  BY Long DEF Ungated, reqContractDetails, Plain,
     Dropped, DroppedBefore, Before, Unasked, AnyVersion
<1> QED
  BY <1>1, <1>2, <1>3, <1>4 DEF Carries, AnyVersion

LEMMA CarriesReqTickByTickData == Carries("reqTickByTickData")
<1>1. Requests["reqTickByTickData"] = reqTickByTickData
  BY DEF Requests
<1>2. reqTickByTickData.since \subseteq AnyVersion
  BY DEF reqTickByTickData, From, Global, Plain, Since, AnyVersion
<1>3. \A v \in AnyVersion : Gated(reqTickByTickData, v)
  BY Long, Unversioned DEF Gated, reqTickByTickData, From, Global, Plain, AnyVersion, Before
<1>4. \A v \in Version : Ungated("reqTickByTickData", reqTickByTickData, v)
  BY Long DEF Ungated, reqTickByTickData, From, Global, Plain,
     Dropped, DroppedBefore, Before, Unasked, AnyVersion
<1> QED
  BY <1>1, <1>2, <1>3, <1>4 DEF Carries, AnyVersion

LEMMA CarriesReqNewsArticle == Carries("reqNewsArticle")
<1>1. Requests["reqNewsArticle"] = reqNewsArticle
  BY DEF Requests
<1>2. reqNewsArticle.since \subseteq AnyVersion
  BY DEF reqNewsArticle, From, Global, Plain, Since, AnyVersion
<1>3. \A v \in AnyVersion : Gated(reqNewsArticle, v)
  BY Long, Unversioned DEF Gated, reqNewsArticle, From, Global, Plain, AnyVersion, Before
<1>4. \A v \in Version : Ungated("reqNewsArticle", reqNewsArticle, v)
  BY Long DEF Ungated, reqNewsArticle, From, Global, Plain,
     Dropped, DroppedBefore, Before, Unasked, AnyVersion
<1> QED
  BY <1>1, <1>2, <1>3, <1>4 DEF Carries, AnyVersion

LEMMA CarriesReqHistoricalNews == Carries("reqHistoricalNews")
<1>1. Requests["reqHistoricalNews"] = reqHistoricalNews
  BY DEF Requests
<1>2. reqHistoricalNews.since \subseteq AnyVersion
  BY DEF reqHistoricalNews, From, Global, Plain, Since, AnyVersion
<1>3. \A v \in AnyVersion : Gated(reqHistoricalNews, v)
  BY Long, Unversioned DEF Gated, reqHistoricalNews, From, Global, Plain, AnyVersion, Before
<1>4. \A v \in Version : Ungated("reqHistoricalNews", reqHistoricalNews, v)
  BY Long DEF Ungated, reqHistoricalNews, From, Global, Plain,
     Dropped, DroppedBefore, Before, Unasked, AnyVersion
<1> QED
  BY <1>1, <1>2, <1>3, <1>4 DEF Carries, AnyVersion

LEMMA CarriesReqWshEventData == Carries("reqWshEventData")
<1>1. Requests["reqWshEventData"] = reqWshEventData
  BY DEF Requests
<1>2. reqWshEventData.since \subseteq AnyVersion
  BY DEF reqWshEventData, From, Global, Plain, Since, AnyVersion
<1>3. \A v \in AnyVersion : Gated(reqWshEventData, v)
  BY Long, Unversioned DEF Gated, reqWshEventData, From, Global, Plain, AnyVersion, Before
<1>4. \A v \in Version : Ungated("reqWshEventData", reqWshEventData, v)
  BY Long DEF Ungated, reqWshEventData, From, Global, Plain,
     Dropped, DroppedBefore, Before, Unasked, AnyVersion
<1> QED
  BY <1>1, <1>2, <1>3, <1>4 DEF Carries, AnyVersion

LEMMA CarriesRequestFA == Carries("requestFA")
<1>1. Requests["requestFA"] = requestFA
  BY DEF Requests
<1>2. requestFA.since \subseteq AnyVersion
  BY DEF requestFA, Global, Plain, Since, AnyVersion
<1>3. \A v \in AnyVersion : Gated(requestFA, v)
  BY Long, Unversioned DEF Gated, requestFA, Global, Plain, AnyVersion, Before
<1>4. \A v \in Version : Ungated("requestFA", requestFA, v)
  BY Long DEF Ungated, requestFA, Global, Plain,
     Dropped, DroppedBefore, Before, Unasked, AnyVersion
<1> QED
  BY <1>1, <1>2, <1>3, <1>4 DEF Carries, AnyVersion

LEMMA CarriesReplaceFA == Carries("replaceFA")
<1>1. Requests["replaceFA"] = replaceFA
  BY DEF Requests
<1>2. replaceFA.since \subseteq AnyVersion
  BY DEF replaceFA, Plain, Since, AnyVersion
<1>3. \A v \in AnyVersion : Gated(replaceFA, v)
  BY Long, Unversioned DEF Gated, replaceFA, Plain, AnyVersion, Before
<1>4. \A v \in Version : Ungated("replaceFA", replaceFA, v)
  BY Long DEF Ungated, replaceFA, Plain,
     Dropped, DroppedBefore, Before, Unasked, AnyVersion
<1> QED
  BY <1>1, <1>2, <1>3, <1>4 DEF Carries, AnyVersion

LEMMA CarriesVerifyRequest == Carries("verifyRequest")
<1>1. Requests["verifyRequest"] = verifyRequest
  BY DEF Requests
<1>2. verifyRequest.since \subseteq AnyVersion
  BY DEF verifyRequest, From, Global, Plain, Since, AnyVersion
<1>3. \A v \in AnyVersion : Gated(verifyRequest, v)
  BY Long, Unversioned DEF Gated, verifyRequest, From, Global, Plain, AnyVersion, Before
<1>4. \A v \in Version : Ungated("verifyRequest", verifyRequest, v)
  BY Long DEF Ungated, verifyRequest, From, Global, Plain,
     Dropped, DroppedBefore, Before, Unasked, AnyVersion
<1> QED
  BY <1>1, <1>2, <1>3, <1>4 DEF Carries, AnyVersion

LEMMA CarriesVerifyAndAuthRequest == Carries("verifyAndAuthRequest")
<1>1. Requests["verifyAndAuthRequest"] = verifyAndAuthRequest
  BY DEF Requests
<1>2. verifyAndAuthRequest.since \subseteq AnyVersion
  BY DEF verifyAndAuthRequest, From, Global, Plain, Since, AnyVersion
<1>3. \A v \in AnyVersion : Gated(verifyAndAuthRequest, v)
  BY Long, Unversioned DEF Gated, verifyAndAuthRequest, From, Global, Plain, AnyVersion, Before
<1>4. \A v \in Version : Ungated("verifyAndAuthRequest", verifyAndAuthRequest, v)
  BY Long DEF Ungated, verifyAndAuthRequest, From, Global, Plain,
     Dropped, DroppedBefore, Before, Unasked, AnyVersion
<1> QED
  BY <1>1, <1>2, <1>3, <1>4 DEF Carries, AnyVersion

LEMMA CarriesCancelOrder == Carries("cancelOrder")
<1>1. Requests["cancelOrder"] = cancelOrder
  BY DEF Requests
<1>2. cancelOrder.since \subseteq AnyVersion
  BY DEF cancelOrder, Plain, Since, AnyVersion
<1>3. \A v \in AnyVersion : Gated(cancelOrder, v)
  BY Long, Unversioned DEF Gated, cancelOrder, Plain, AnyVersion, Before
<1>4. \A v \in Version : Ungated("cancelOrder", cancelOrder, v)
  BY Long DEF Ungated, cancelOrder, Plain,
     Dropped, DroppedBefore, Before, Unasked, AnyVersion
<1> QED
  BY <1>1, <1>2, <1>3, <1>4 DEF Carries, AnyVersion

LEMMA CarriesExerciseOptions == Carries("exerciseOptions")
<1>1. Requests["exerciseOptions"] = exerciseOptions
  BY DEF Requests
<1>2. exerciseOptions.since \subseteq AnyVersion
  BY DEF exerciseOptions, Plain, Since, AnyVersion
<1>3. \A v \in AnyVersion : Gated(exerciseOptions, v)
  BY Long, Unversioned DEF Gated, exerciseOptions, Plain, AnyVersion, Before
<1>4. \A v \in Version : Ungated("exerciseOptions", exerciseOptions, v)
  BY Long DEF Ungated, exerciseOptions, Plain,
     Dropped, DroppedBefore, Before, Unasked, AnyVersion
<1> QED
  BY <1>1, <1>2, <1>3, <1>4 DEF Carries, AnyVersion

(* The other requests have no attributes: nothing they write depends on    *)
(* the version.                                                            *)
Bare(row) ==
  DOMAIN row.accepts = {} /\ DOMAIN row.writes = {} /\ row.since \subseteq AnyVersion

(* Without tests and fields of attributes there is nothing to agree.        *)
LEMMA BareCarries ==
  ASSUME NEW request, Bare(Requests[request])
  PROVE  Carries(request)
BY DEF Bare, Carries, Gated, Ungated

(* The shapes most rows have. *)
LEMMA BareShapes ==
  /\ Bare(Plain) /\ Bare(Global)
  /\ \A name : Bare(From(name)) /\ Bare(Text(From(name)))
  /\ Bare(Text(Global))
BY DEF Bare, Plain, Global, From, Text, Since, AnyVersion

(* Requests any version knows, that name what they end.                    *)
PlainRequests ==
  {"cancelMktData", "cancelHistoricalData", "cancelRealTimeBars",
   "cancelScannerSubscription"}

(* None of them has attributes. *)
LEMMA PlainRequestsBare == \A request \in PlainRequests : Bare(Requests[request])
BY BareShapes DEF PlainRequests, Requests, cancelMktData, cancelHistoricalData,
   cancelRealTimeBars, cancelScannerSubscription

(* Requests any version knows, without an id.                              *)
GlobalRequests ==
  {"reqScannerParameters", "reqCurrentTime", "reqSoftDollarTiers", "reqNewsBulletins",
   "cancelNewsBulletins", "reqManagedAccts", "setServerLogLevel", "reqOpenOrders",
   "reqAutoOpenOrders", "reqAllOpenOrders"}

(* None of them has attributes. *)
LEMMA GlobalRequestsBare == \A request \in GlobalRequests : Bare(Requests[request])
BY BareShapes DEF GlobalRequests, Requests, reqScannerParameters,
   reqCurrentTime, reqSoftDollarTiers, reqNewsBulletins,
   cancelNewsBulletins, reqManagedAccts, setServerLogLevel, reqOpenOrders,
   reqAutoOpenOrders, reqAllOpenOrders

(* Requests from some version on, without text of the caller.              *)
RecentRequests ==
  {"cancelHeadTimestamp", "cancelHistogramData", "cancelTickByTickData",
   "reqMarketRule", "reqMarketDataType", "reqMktDepthExchanges", "reqFamilyCodes",
   "reqNewsProviders", "reqWshMetaData", "cancelWshMetaData", "cancelWshEventData",
   "reqPositions", "cancelPositions", "cancelAccountSummary", "cancelPositionsMulti",
   "cancelAccountUpdatesMulti", "cancelPnL", "cancelPnLSingle", "reqUserInfo",
   "queryDisplayGroups", "subscribeToGroupEvents", "unsubscribeFromGroupEvents",
   "reqCompletedOrders", "reqGlobalCancel"}

(* None of them has attributes. *)
LEMMA RecentRequestsBare == \A request \in RecentRequests : Bare(Requests[request])
BY BareShapes DEF RecentRequests, Requests, cancelHeadTimestamp,
   cancelHistogramData, cancelTickByTickData, reqMarketRule,
   reqMarketDataType, reqMktDepthExchanges, reqFamilyCodes,
   reqNewsProviders, reqWshMetaData, cancelWshMetaData, cancelWshEventData,
   reqPositions, cancelPositions, cancelAccountSummary,
   cancelPositionsMulti, cancelAccountUpdatesMulti, cancelPnL,
   cancelPnLSingle, reqUserInfo, queryDisplayGroups, subscribeToGroupEvents,
   unsubscribeFromGroupEvents, reqCompletedOrders, reqGlobalCancel

(* Requests from some version on that write text of the caller.            *)
TextRequests ==
  {"reqHeadTimestamp", "reqHistogramData", "reqHistoricalTicks", "reqSmartComponents",
   "reqSecDefOptParams", "reqMatchingSymbols", "reqAccountSummary", "reqPositionsMulti",
   "reqAccountUpdatesMulti", "reqPnL", "reqPnLSingle", "updateDisplayGroup",
   "reqExecutions"}

(* None of them has attributes. *)
LEMMA TextRequestsBare == \A request \in TextRequests : Bare(Requests[request])
BY BareShapes DEF TextRequests, Requests, reqHeadTimestamp, reqHistogramData,
   reqHistoricalTicks, reqSmartComponents, reqSecDefOptParams,
   reqMatchingSymbols, reqAccountSummary, reqPositionsMulti,
   reqAccountUpdatesMulti, reqPnL, reqPnLSingle, updateDisplayGroup,
   reqExecutions

(* The rest of them.                                                       *)
MixedRequests ==
  {"cancelFundamentalData", "cancelCalculateImpliedVolatility",
   "cancelCalculateOptionPrice", "reqAccountUpdates", "verifyMessage",
   "verifyAndAuthMessage", "reqIds"}

(* None of them has attributes. *)
LEMMA MixedRequestsBare == \A request \in MixedRequests : Bare(Requests[request])
<1>1. Bare(cancelFundamentalData)
  BY DEF Bare, cancelFundamentalData, Plain, Since, AnyVersion
<1>2. Bare(cancelCalculateImpliedVolatility)
  BY DEF Bare, cancelCalculateImpliedVolatility, Plain, Since, AnyVersion
<1>3. Bare(cancelCalculateOptionPrice)
  BY DEF Bare, cancelCalculateOptionPrice, Plain, Since, AnyVersion
<1>4. Bare(reqAccountUpdates)
  BY DEF Bare, reqAccountUpdates, Global, Plain, Since, AnyVersion
<1>5. Bare(verifyMessage)
  BY DEF Bare, verifyMessage, From, Global, Plain, Since, AnyVersion
<1>6. Bare(verifyAndAuthMessage)
  BY DEF Bare, verifyAndAuthMessage, From, Global, Plain, Since, AnyVersion
<1>7. Bare(reqIds)
  BY DEF Bare, reqIds, Global, Plain, Since, AnyVersion
<1> QED
  BY <1>1, <1>2, <1>3, <1>4, <1>5, <1>6, <1>7 DEF MixedRequests, Requests

-----------------------------------------------------------------------------
(* TwsApi: the tables of an order *)

(* The first of two tables comes first. *)
LEMMA WithProperties ==
  ASSUME NEW f, NEW g
  PROVE  /\ DOMAIN With(f, g) = DOMAIN f \cup DOMAIN g
         /\ \A x \in DOMAIN f : With(f, g)[x] = f[x]
         /\ \A x \in DOMAIN g \ DOMAIN f : With(f, g)[x] = g[x]
BY DEF With

(* Two tables without a common name keep their entries when they are made  *)
(* one.                                                                    *)
LEMMA Joined ==
  ASSUME NEW f, NEW g, DOMAIN f \cap DOMAIN g = {}
  PROVE  /\ DOMAIN With(f, g) = DOMAIN f \cup DOMAIN g
         /\ \A x \in DOMAIN f : With(f, g)[x] = f[x]
         /\ \A x \in DOMAIN g : With(f, g)[x] = g[x]
BY DEF With

(* The fields of an order are those of its eight tables. *)
LEMMA OrderFields ==
  /\ DOMAIN placeOrder.writes =
       UNION {DOMAIN mainOrderFields, DOMAIN comboFields, DOMAIN extendedFields,
              DOMAIN scaleAndHedgeFields, DOMAIN algoAndMiscFields,
              DOMAIN peggedFields, DOMAIN recentFields, DOMAIN offsetFields}
  /\ \A a \in DOMAIN mainOrderFields : placeOrder.writes[a] = mainOrderFields[a]
  /\ \A a \in DOMAIN comboFields : placeOrder.writes[a] = comboFields[a]
  /\ \A a \in DOMAIN extendedFields : placeOrder.writes[a] = extendedFields[a]
  /\ \A a \in DOMAIN scaleAndHedgeFields :
       placeOrder.writes[a] = scaleAndHedgeFields[a]
  /\ \A a \in DOMAIN algoAndMiscFields :
       placeOrder.writes[a] = algoAndMiscFields[a]
  /\ \A a \in DOMAIN peggedFields : placeOrder.writes[a] = peggedFields[a]
  /\ \A a \in DOMAIN recentFields : placeOrder.writes[a] = recentFields[a]
  /\ \A a \in DOMAIN offsetFields : placeOrder.writes[a] = offsetFields[a]
<1> DEFINE main == With(mainOrderFields, comboFields)
           extended == With(extendedFields, scaleAndHedgeFields)
           misc == With(algoAndMiscFields, peggedFields)
           recent == With(recentFields, offsetFields)
<1>1. /\ DOMAIN main = DOMAIN mainOrderFields \cup DOMAIN comboFields
      /\ \A a \in DOMAIN mainOrderFields : main[a] = mainOrderFields[a]
      /\ \A a \in DOMAIN comboFields : main[a] = comboFields[a]
  <2>1. DOMAIN mainOrderFields \cap DOMAIN comboFields = {}
    BY DEF mainOrderFields, comboFields
  <2> QED
    BY <2>1, Joined
<1>2. /\ DOMAIN extended = DOMAIN extendedFields \cup DOMAIN scaleAndHedgeFields
      /\ \A a \in DOMAIN extendedFields : extended[a] = extendedFields[a]
      /\ \A a \in DOMAIN scaleAndHedgeFields : extended[a] = scaleAndHedgeFields[a]
  <2>1. DOMAIN extendedFields \cap DOMAIN scaleAndHedgeFields = {}
    BY DEF extendedFields, scaleAndHedgeFields
  <2> QED
    BY <2>1, Joined
<1>3. /\ DOMAIN misc = DOMAIN algoAndMiscFields \cup DOMAIN peggedFields
      /\ \A a \in DOMAIN algoAndMiscFields : misc[a] = algoAndMiscFields[a]
      /\ \A a \in DOMAIN peggedFields : misc[a] = peggedFields[a]
  <2>1. DOMAIN algoAndMiscFields \cap DOMAIN peggedFields = {}
    BY DEF algoAndMiscFields, peggedFields
  <2> QED
    BY <2>1, Joined
<1>4. /\ DOMAIN recent = DOMAIN recentFields \cup DOMAIN offsetFields
      /\ \A a \in DOMAIN recentFields : recent[a] = recentFields[a]
      /\ \A a \in DOMAIN offsetFields : recent[a] = offsetFields[a]
  <2>1. DOMAIN recentFields \cap DOMAIN offsetFields = {}
    BY DEF recentFields, offsetFields
  <2> QED
    BY <2>1, Joined
<1> DEFINE old == With(main, extended)
           new == With(misc, recent)
<1>5. placeOrder.writes = With(old, new)
  BY DEF placeOrder, Plain
<1>6. DOMAIN main \cap DOMAIN extended = {} /\ DOMAIN misc \cap DOMAIN recent = {}
  BY <1>1, <1>2, <1>3, <1>4 DEF mainOrderFields, comboFields, extendedFields,
     scaleAndHedgeFields, algoAndMiscFields, peggedFields, recentFields,
     offsetFields
<1> DEFINE later == UNION {DOMAIN algoAndMiscFields, DOMAIN peggedFields,
                           DOMAIN recentFields, DOMAIN offsetFields}
<1>7. (DOMAIN main \cup DOMAIN extended) \cap (DOMAIN misc \cup DOMAIN recent) = {}
  <2>1. DOMAIN mainOrderFields \cap later = {}
    BY DEF mainOrderFields, algoAndMiscFields, peggedFields,
       recentFields, offsetFields
  <2>2. DOMAIN comboFields \cap later = {}
    BY DEF comboFields, algoAndMiscFields, peggedFields,
       recentFields, offsetFields
  <2>3. DOMAIN extendedFields \cap later = {}
    BY DEF extendedFields, algoAndMiscFields, peggedFields,
       recentFields, offsetFields
  <2>4. DOMAIN scaleAndHedgeFields \cap later = {}
    BY DEF scaleAndHedgeFields, algoAndMiscFields, peggedFields,
       recentFields, offsetFields
  <2> HIDE DEF main, extended, misc, recent
  <2> QED
    BY <1>1, <1>2, <1>3, <1>4, <2>1, <2>2, <2>3, <2>4
<1> HIDE DEF main, extended, misc, recent
<1>8. /\ DOMAIN old = DOMAIN main \cup DOMAIN extended
      /\ \A a \in DOMAIN main : old[a] = main[a]
      /\ \A a \in DOMAIN extended : old[a] = extended[a]
  BY <1>6, Joined
<1>9. /\ DOMAIN new = DOMAIN misc \cup DOMAIN recent
      /\ \A a \in DOMAIN misc : new[a] = misc[a]
      /\ \A a \in DOMAIN recent : new[a] = recent[a]
  BY <1>6, Joined
<1> HIDE DEF old, new
<1>10. /\ DOMAIN With(old, new) = DOMAIN old \cup DOMAIN new
       /\ \A a \in DOMAIN old : With(old, new)[a] = old[a]
       /\ \A a \in DOMAIN new : With(old, new)[a] = new[a]
  <2>1. DOMAIN old \cap DOMAIN new = {}
    BY <1>7, <1>8, <1>9
  <2> QED
    BY <2>1, Joined
<1> QED
  BY <1>1, <1>2, <1>3, <1>4, <1>5, <1>8, <1>9, <1>10

(* The tests of an order are those of three tables. *)
LEMMA OrderGates ==
  /\ DOMAIN placeOrder.accepts =
       UNION {DOMAIN contractAndComboGates, DOMAIN scaleAndAlgoGates,
              DOMAIN recentGates}
  /\ \A a \in DOMAIN contractAndComboGates :
       placeOrder.accepts[a] = contractAndComboGates[a]
  /\ \A a \in DOMAIN scaleAndAlgoGates :
       placeOrder.accepts[a] = scaleAndAlgoGates[a]
  /\ \A a \in DOMAIN recentGates : placeOrder.accepts[a] = recentGates[a]
<1> DEFINE late == With(scaleAndAlgoGates, recentGates)
<1>1. placeOrder.accepts = With(contractAndComboGates, late)
  BY DEF placeOrder, Plain
<1>2. DOMAIN scaleAndAlgoGates \cap DOMAIN recentGates = {}
  BY DEF scaleAndAlgoGates, recentGates
<1>3. /\ DOMAIN late = DOMAIN scaleAndAlgoGates \cup DOMAIN recentGates
      /\ \A a \in DOMAIN scaleAndAlgoGates : late[a] = scaleAndAlgoGates[a]
      /\ \A a \in DOMAIN recentGates : late[a] = recentGates[a]
  BY <1>2, Joined
<1> HIDE DEF late
<1>4. DOMAIN contractAndComboGates \cap DOMAIN late = {}
  BY <1>3 DEF contractAndComboGates, scaleAndAlgoGates, recentGates
<1>5. /\ DOMAIN With(contractAndComboGates, late) =
           DOMAIN contractAndComboGates \cup DOMAIN late
      /\ \A a \in DOMAIN contractAndComboGates :
           With(contractAndComboGates, late)[a] = contractAndComboGates[a]
      /\ \A a \in DOMAIN late : With(contractAndComboGates, late)[a] = late[a]
  BY <1>4, Joined
<1> QED
  BY <1>1, <1>3, <1>5

(* The fields of an order the oldest versions have. *)
LEMMA LongOrder ==
  \A v \in Version :
    \A name \in {"SSHORTX_OLD", "PTA_ORDERS", "SMART_COMBO_ROUTING_PARAMS", "HEDGE_ORDERS",
                 "ALGO_ORDERS", "LINKING", "RANDOMIZE_SIZE_AND_PRICE"} :
      v \in Since(name)
BY DEF Version, Since, MIN_CLIENT_VER, MAX_CLIENT_VER, MinServerVer

(* What placeOrder tests and what it writes agree. *)
LEMMA CarriesOrder == Carries("placeOrder")
<1>1. Requests["placeOrder"] = placeOrder
  BY DEF Requests
<1>2. placeOrder.since = AnyVersion
  BY DEF placeOrder, Plain
<1>3. ASSUME NEW v \in AnyVersion
      PROVE  Gated(placeOrder, v)
  <2>1. \A a \in DOMAIN contractAndComboGates :
          v \in contractAndComboGates[a] =>
            a \in DOMAIN placeOrder.writes /\ v \in placeOrder.writes[a]
    BY OrderFields, LongOrder, Unversioned DEF contractAndComboGates, mainOrderFields,
       comboFields, extendedFields, scaleAndHedgeFields, algoAndMiscFields, AnyVersion
  <2>2. \A a \in DOMAIN scaleAndAlgoGates :
          v \in scaleAndAlgoGates[a] =>
            a \in DOMAIN placeOrder.writes /\ v \in placeOrder.writes[a]
    BY OrderFields, LongOrder, Unversioned DEF scaleAndAlgoGates, mainOrderFields,
       comboFields, extendedFields, scaleAndHedgeFields, algoAndMiscFields,
       recentFields, AnyVersion
  <2>3. \A a \in DOMAIN recentGates :
          v \in recentGates[a] =>
            a \in DOMAIN placeOrder.writes /\ v \in placeOrder.writes[a]
    BY OrderFields, LongOrder, Unversioned DEF recentGates, recentFields, offsetFields,
       AnyVersion
  <2> QED
    BY <2>1, <2>2, <2>3, OrderGates DEF Gated
<1>4. ASSUME NEW v \in Version
      PROVE  Ungated("placeOrder", placeOrder, v)
  <2> DEFINE Present(a) == \/ a \in DOMAIN placeOrder.accepts \cup Unasked
                           \/ v \in placeOrder.writes[a]
                           \/ v \in Dropped("placeOrder", a)
                           \/ a = "upToMid"
  <2>1. \A a \in DOMAIN mainOrderFields : Present(a)
    BY OrderFields, OrderGates, LongOrder DEF mainOrderFields,
       contractAndComboGates, scaleAndAlgoGates, Dropped, DroppedBefore,
       Before, Unasked, AnyVersion
  <2>2. \A a \in DOMAIN comboFields : Present(a)
    BY OrderFields, OrderGates, LongOrder DEF comboFields, contractAndComboGates,
       scaleAndAlgoGates, AnyVersion
  <2>3. \A a \in DOMAIN extendedFields : Present(a)
    BY OrderFields, OrderGates, LongOrder DEF extendedFields, contractAndComboGates,
       scaleAndAlgoGates, Unasked, AnyVersion
  <2>4. \A a \in DOMAIN scaleAndHedgeFields : Present(a)
    BY OrderFields, OrderGates, LongOrder DEF scaleAndHedgeFields,
       contractAndComboGates, scaleAndAlgoGates, AnyVersion
  <2>5. \A a \in DOMAIN algoAndMiscFields : Present(a)
    BY OrderFields, OrderGates, LongOrder DEF algoAndMiscFields,
       contractAndComboGates, scaleAndAlgoGates
  <2>6. \A a \in DOMAIN peggedFields : Present(a)
    BY OrderFields, OrderGates, LongOrder DEF peggedFields, Dropped,
       DroppedBefore, Before, AnyVersion
  <2>7. \A a \in DOMAIN recentFields : Present(a)
    BY OrderFields, OrderGates, LongOrder DEF recentFields, scaleAndAlgoGates,
       recentGates
  <2>8. \A a \in DOMAIN offsetFields : Present(a)
    BY OrderFields, OrderGates, LongOrder DEF offsetFields, recentGates
  <2> QED
    BY <2>1, <2>2, <2>3, <2>4, <2>5, <2>6, <2>7, <2>8, OrderFields DEF Ungated
<1> QED
  BY <1>1, <1>2, <1>3, <1>4 DEF Carries, AnyVersion

(* The tests and the fields of every request agree. *)
LEMMA EveryRequestCarries == \A request \in DOMAIN Requests : Carries(request)
<1>1. \A request \in DOMAIN Requests :
        \/ request \in UNION {PlainRequests, GlobalRequests, RecentRequests, TextRequests,
                              MixedRequests}
        \/ request \in {"reqMktData", "reqMktDepth", "cancelMktDepth", "reqHistoricalData",
                        "reqRealTimeBars", "reqScannerSubscription", "reqFundamentalData",
                        "calculateImpliedVolatility", "calculateOptionPrice",
                        "reqContractDetails", "reqTickByTickData", "reqNewsArticle",
                        "reqHistoricalNews", "reqWshEventData", "requestFA", "replaceFA",
                        "verifyRequest", "verifyAndAuthRequest", "cancelOrder",
                        "exerciseOptions", "placeOrder"}
  BY DEF Requests, PlainRequests, GlobalRequests, RecentRequests, TextRequests,
     MixedRequests
<1>2. \A request \in UNION {PlainRequests, GlobalRequests, RecentRequests, TextRequests,
                            MixedRequests} : Carries(request)
  BY BareCarries, PlainRequestsBare, GlobalRequestsBare, RecentRequestsBare,
     TextRequestsBare, MixedRequestsBare
<1> QED
  BY <1>1, <1>2, CarriesReqMktData, CarriesReqMktDepth, CarriesCancelMktDepth,
     CarriesReqHistoricalData, CarriesReqRealTimeBars, CarriesReqScannerSubscription,
     CarriesReqFundamentalData, CarriesCalculateImpliedVolatility,
     CarriesCalculateOptionPrice, CarriesReqContractDetails, CarriesReqTickByTickData,
     CarriesReqNewsArticle, CarriesReqHistoricalNews, CarriesReqWshEventData,
     CarriesRequestFA, CarriesReplaceFA, CarriesVerifyRequest, CarriesVerifyAndAuthRequest,
     CarriesCancelOrder, CarriesExerciseOptions, CarriesOrder

-----------------------------------------------------------------------------
(* TwsApi: an order that comes back *)

(* The fields of an open order the oldest versions have. *)
LEMMA LongRead ==
  \A v \in Version :
    \A name \in {"DELTA_NEUTRAL_CONID", "DELTA_NEUTRAL_OPEN_CLOSE", "TRAILING_PERCENT",
                 "ORDER_COMBO_LEGS_PRICE", "SCALE_ORDERS2", "SCALE_ORDERS3",
                 "OPT_OUT_SMART_ROUTING", "NOT_HELD", "DELTA_NEUTRAL", "ORDER_SOLICITED"} :
      v \in Since(name)
BY DEF Version, Since, MIN_CLIENT_VER, MAX_CLIENT_VER, MinServerVer

(* A table of the decoder agrees with placeOrder on the versions that have *)
(* a field.                                                                *)
Agrees(table) ==
  \A f \in DOMAIN table \cap DOMAIN placeOrder.writes :
    \A v \in Version : v \in table[f] <=> v \in placeOrder.writes[f]

(* Tables made one agree if each does. *)
LEMMA AgreesJoined ==
  ASSUME NEW f, NEW g, Agrees(f), Agrees(g)
  PROVE  Agrees(With(f, g))
BY DEF Agrees, With

(* The decoder of open orders looks for the fields placeOrder writes.      *)
LEMMA OpenOrderAgrees == Agrees(processOpenOrderMsg.reads)
<1>1. Agrees(identityReads) /\ Agrees(accountReads)
  BY OrderFields, LongOrder, Long
     DEF Agrees, identityReads, accountReads, mainOrderFields, extendedFields, AnyVersion
<1>2. Agrees(volatilityAndComboReads)
  BY OrderFields, LongOrder, Long, LongRead
     DEF Agrees, volatilityAndComboReads, extendedFields, comboFields,
         scaleAndHedgeFields, AnyVersion
<1>3. Agrees(scaleAndAlgoReads)
  BY OrderFields, LongOrder, Long, LongRead
     DEF Agrees, scaleAndAlgoReads, scaleAndHedgeFields, algoAndMiscFields, AnyVersion
<1>4. Agrees(peggedReads) /\ Agrees(adjustedReads)
  BY OrderFields DEF Agrees, peggedReads, adjustedReads, peggedFields, AnyVersion
<1>5. Agrees(sharedRecentReads) /\ Agrees(softDollarTierReads)
  BY OrderFields DEF Agrees, sharedRecentReads, softDollarTierReads, recentFields, AnyVersion
<1>6. Agrees(offsetReads)
  BY OrderFields DEF Agrees, offsetReads, offsetFields, AnyVersion
<1>7. Agrees([version |-> Before("ORDER_CONTAINER")])
  BY OrderFields
     DEF Agrees, mainOrderFields, comboFields, extendedFields,
         scaleAndHedgeFields, algoAndMiscFields, peggedFields, recentFields,
         offsetFields, AnyVersion
<1>8. Agrees(whatIfReads)
  <2>1. "whatIfBefore" \notin DOMAIN placeOrder.writes
    BY OrderFields
       DEF mainOrderFields, comboFields, extendedFields,
           scaleAndHedgeFields, algoAndMiscFields, peggedFields,
           recentFields, offsetFields
  <2> QED
    BY <2>1 DEF Agrees, whatIfReads, AnyVersion
<1>9. Agrees(openRecentReads)
  BY OrderFields DEF Agrees, openRecentReads, recentFields, AnyVersion
<1>10. Agrees(autoCancelParentReads(MinServerVer["AUTO_CANCEL_PARENT"]))
  <2>1. autoCancelParentReads(MinServerVer["AUTO_CANCEL_PARENT"]) =
          [autoCancelParent |-> Since("AUTO_CANCEL_PARENT")]
    BY DEF autoCancelParentReads, Since
  <2> QED
    BY <2>1, OrderFields DEF Agrees, recentFields, AnyVersion
<1>11. Agrees(randomizeReads)
  BY OrderFields, LongOrder DEF Agrees, randomizeReads, algoAndMiscFields, AnyVersion
<1>12. Agrees(orderReads)
  BY <1>1, <1>2, <1>3, <1>4, <1>5, <1>6, <1>11, AgreesJoined DEF orderReads
<1>13. Agrees(openReads)
  BY <1>4, <1>5, <1>7, <1>8, <1>9, AgreesJoined DEF openReads
<1>14. processOpenOrderMsg.reads =
         With(With(orderReads, openReads),
                  autoCancelParentReads(MinServerVer["AUTO_CANCEL_PARENT"]))
  BY DEF processOpenOrderMsg, Handler, Calls
<1> QED
  BY <1>10, <1>12, <1>13, <1>14, AgreesJoined

(* What it needs to find a field was written along with it.                *)
LEMMA OpenOrderNeeds ==
  ASSUME NEW v \in Version, NEW set,
         NEW f \in Written(placeOrder, v, set) \cap DOMAIN processOpenOrderMsg.needs
  PROVE  processOpenOrderMsg.needs[f] \subseteq Written(placeOrder, v, set)
<1> DEFINE fields == Written(placeOrder, v, set)
<1>1. processOpenOrderMsg.needs = orderNeeds
  BY DEF processOpenOrderMsg, Handler, Calls
<1>2. placeOrder.needs = orderCompanions
  BY DEF placeOrder, Plain
<1>3. /\ f \in set /\ v \in placeOrder.writes[f]
      /\ f \in DOMAIN orderCompanions =>
           \E others \in orderCompanions[f] : others \subseteq set
  BY <1>2 DEF Written, Accompanied
<1>4. \A a \in set \cap DOMAIN placeOrder.writes :
        /\ v \in placeOrder.writes[a]
        /\ a \in DOMAIN orderCompanions =>
             \E others \in orderCompanions[a] : others \subseteq set
        => a \in fields
  BY <1>2 DEF Written, Accompanied
<1>5. \A a \in {"comboLegs", "deltaNeutralOrderType", "scalePriceIncrement", "hedgeType",
              "algoStrategy", "pegBench"} :
        a \in DOMAIN placeOrder.writes /\ v \in placeOrder.writes[a]
  BY OrderFields, LongOrder DEF comboFields, extendedFields, scaleAndHedgeFields,
     algoAndMiscFields, mainOrderFields, AnyVersion
<1>6. /\ "conditions" \in DOMAIN placeOrder.writes
      /\ placeOrder.writes["conditions"] = placeOrder.writes["conditionsCancelOrder"]
  BY OrderFields DEF peggedFields
<1> SUFFICES orderNeeds[f] \subseteq fields
  BY <1>1
<1> HIDE DEF fields
<1>7. DOMAIN orderNeeds = {"legExemptCode", "deltaNeutralConId", "deltaNeutralOpenClose",
                              "scaleAdjustments", "hedgeParam", "algoParams",
                              "pegBenchFields", "conditionsCancelOrder"}
  BY DEF orderNeeds
<1>8. CASE f = "legExemptCode"
  <2>1. orderNeeds["legExemptCode"] = {"comboLegs"}
    BY DEF orderNeeds
  <2>2. /\ {"legExemptCode", "comboLegs"} \subseteq DOMAIN orderCompanions
        /\ orderCompanions["legExemptCode"] = {{"BAG", "comboLegs"}}
        /\ orderCompanions["comboLegs"] = {{"BAG"}}
    BY DEF orderCompanions
  <2>3. "BAG" \in set /\ "comboLegs" \in set
    BY <1>3, <1>8, <2>2
  <2>4. \E others \in orderCompanions["comboLegs"] : others \subseteq set
    BY <2>2, <2>3
  <2>5. "comboLegs" \in fields
    BY <1>4, <1>5, <2>3, <2>4
  <2> QED
    BY <1>8, <2>1, <2>5
<1>9. CASE f = "conditionsCancelOrder"
  <2>1. orderNeeds["conditionsCancelOrder"] = {"conditions"}
    BY DEF orderNeeds
  <2>2. /\ "conditionsCancelOrder" \in DOMAIN orderCompanions
        /\ orderCompanions["conditionsCancelOrder"] = {{"conditions"}}
        /\ "conditions" \notin DOMAIN orderCompanions
    BY DEF orderCompanions
  <2> QED
    BY <1>1, <1>3, <1>4, <1>6, <1>9, <2>1, <2>2
<1>10. ASSUME NEW other \in {"deltaNeutralOrderType", "scalePriceIncrement", "hedgeType",
                            "algoStrategy", "pegBench"},
              f \in DOMAIN orderCompanions,
              orderNeeds[f] = {other}, orderCompanions[f] = {{other}}
       PROVE  orderNeeds[f] \subseteq fields
  <2>1. other \notin DOMAIN orderCompanions
    BY DEF orderCompanions
  <2> QED
    BY <1>3, <1>4, <1>5, <1>10, <2>1
<1>11. ASSUME f \in DOMAIN orderNeeds \ {"legExemptCode", "conditionsCancelOrder"}
       PROVE  \E other \in {"deltaNeutralOrderType", "scalePriceIncrement", "hedgeType",
                           "algoStrategy", "pegBench"} :
                /\ f \in DOMAIN orderCompanions
                /\ orderNeeds[f] = {other} /\ orderCompanions[f] = {{other}}
  BY <1>7, <1>11 DEF orderNeeds, orderCompanions
<1>12. f \in DOMAIN orderNeeds
  BY <1>1
<1> QED
  BY <1>8, <1>9, <1>10, <1>11, <1>12

(* An order is read back as it was written. *)
LEMMA ReadsBack ==
  ASSUME NEW v \in Version, NEW set
  PROVE  LET fields == Written(placeOrder, v, set)
         IN  ReadBack("OPEN_ORDER", v, fields) =
               fields \cap DOMAIN processOpenOrderMsg.reads
<1> DEFINE fields == Written(placeOrder, v, set)
<1>1. ~Misread(processOpenOrderMsg, v)
  BY OpenOrderAgrees DEF Agrees, Misread
<1>2. ReadBack("OPEN_ORDER", v, fields) = Read(processOpenOrderMsg, v, fields)
  BY <1>1 DEF ReadBack
<1>3. \A f \in fields : f \in DOMAIN placeOrder.writes /\ v \in placeOrder.writes[f]
  BY DEF Written
<1>4. \A f \in fields \cap DOMAIN processOpenOrderMsg.reads :
        v \in processOpenOrderMsg.reads[f]
  BY <1>3, OpenOrderAgrees DEF Agrees
<1>5. \A f \in fields \cap DOMAIN processOpenOrderMsg.needs :
        processOpenOrderMsg.needs[f] \subseteq fields
  BY OpenOrderNeeds
<1> HIDE DEF fields
<1>6. Read(processOpenOrderMsg, v, fields) =
        fields \cap DOMAIN processOpenOrderMsg.reads
  BY <1>4, <1>5 DEF Read
<1> QED
  BY <1>2, <1>6 DEF fields

-----------------------------------------------------------------------------
(* What becomes of a call *)

(* A request that is sent passed its tests. *)
LEMMA OutcomeSent ==
  ASSUME NEW row, NEW online, NEW v, NEW set,
         Outcome(row, online, v, set).kind = "sent"
  PROVE  /\ v \in row.since /\ Refusing(row, v, set) = {}
         /\ Outcome(row, online, v, set).fields = Written(row, v, set)
<1>1. online
  BY DEF Outcome, Refused
<1>2. v \in row.since
  BY <1>1 DEF Outcome, Refused
<1>3. Refusing(row, v, set) = {}
  BY <1>1, <1>2 DEF Outcome, Refused
<1>4. ~("badText" \in set /\ Accompanied(row, "badText", set))
  BY <1>1, <1>2, <1>3 DEF Outcome, Refused, Thrown
<1> QED
  BY <1>1, <1>2, <1>3, <1>4 DEF Outcome, Sent

(* One that passes its tests is sent. *)
LEMMA SentOutcome ==
  ASSUME NEW row, NEW online, online, NEW v \in row.since, NEW set,
         Refusing(row, v, set) = {}, "badText" \notin set
  PROVE  Outcome(row, online, v, set).kind = "sent"
BY DEF Outcome, Sent

(* Only without a connection a refusal says so. *)
LEMMA OutcomeOffline ==
  ASSUME NEW row, NEW online, NEW v, NEW set,
         Outcome(row, online, v, set).code = "NOT_CONNECTED"
  PROVE  ~online
BY DEF Outcome, Sent, Refused, Thrown

(* The cancels are requests, other than those they end. *)
LEMMA CancelTable ==
  \A request \in DOMAIN CancelOf :
    /\ request \in DOMAIN Requests /\ request # "none"
    /\ CancelOf[request] \in DOMAIN Requests
    /\ CancelOf[request] # request /\ CancelOf[request] # "none"
<1>1. \A request \in DOMAIN CancelOf : request # "none"
  BY DEF CancelOf
<1>2. \A request \in DOMAIN CancelOf : CancelOf[request] # request
  BY DEF CancelOf
<1>3. \A request \in DOMAIN CancelOf : request \in DOMAIN Requests
  BY DEF CancelOf, Requests
<1>4. \A request \in DOMAIN CancelOf : CancelOf[request] \in DOMAIN Requests
  BY DEF CancelOf, Requests
<1>5. "none" \notin DOMAIN Requests
  BY DEF Requests
<1> QED
  BY <1>1, <1>2, <1>3, <1>4, <1>5

(* The versions that know a request know the one that ends it, the         *)
(* excepted ones aside: most cancels are as old as the client's oldest     *)
(* version or have the version of their request.                           *)
LEMMA CancelKnown ==
  ASSUME NEW request \in DOMAIN CancelOf,
         NEW v \in Requests[request].since, v # NoVersion
  PROVE  \/ CannotCancel(request, v)
         \/ v \in Requests[CancelOf[request]].since
<1>1. v \in Version /\ v \in AnyVersion
  BY CancelTable, EveryRequestCarries DEF Carries, AnyVersion
<1>2. CASE request \in {"reqMktData", "reqMktDepth", "reqHistoricalData", "reqRealTimeBars",
                       "reqScannerSubscription", "reqNewsBulletins", "placeOrder"}
  <2>1. /\ cancelMktData.since = AnyVersion /\ cancelMktDepth.since = AnyVersion
        /\ cancelHistoricalData.since = AnyVersion
        /\ cancelRealTimeBars.since = AnyVersion
        /\ cancelScannerSubscription.since = AnyVersion
        /\ cancelNewsBulletins.since = AnyVersion
        /\ cancelOrder.since = AnyVersion
    BY DEF cancelMktData, cancelMktDepth, cancelHistoricalData,
       cancelRealTimeBars, cancelScannerSubscription, cancelNewsBulletins,
       cancelOrder, Plain, Global
  <2> QED
    BY <1>1, <1>2, <2>1 DEF CancelOf, Requests
<1>3. CASE request \in {"reqFundamentalData", "calculateImpliedVolatility",
                       "calculateOptionPrice", "reqPositions", "reqAccountSummary",
                       "subscribeToGroupEvents"}
  <2>1. \A name \in {"FUNDAMENTAL_DATA", "CANCEL_CALC_IMPLIED_VOLAT",
                     "CANCEL_CALC_OPTION_PRICE", "POSITIONS", "ACCOUNT_SUMMARY", "LINKING"} :
          v \in Since(name)
    BY <1>1 DEF Version, Since, MIN_CLIENT_VER, MAX_CLIENT_VER,
       MinServerVer
  <2>2. /\ cancelFundamentalData.since = Since("FUNDAMENTAL_DATA")
        /\ cancelCalculateImpliedVolatility.since = Since("CANCEL_CALC_IMPLIED_VOLAT")
        /\ cancelCalculateOptionPrice.since = Since("CANCEL_CALC_OPTION_PRICE")
        /\ cancelPositions.since = Since("POSITIONS")
        /\ cancelAccountSummary.since = Since("ACCOUNT_SUMMARY")
        /\ unsubscribeFromGroupEvents.since = Since("LINKING")
    BY DEF cancelFundamentalData, cancelCalculateImpliedVolatility,
       cancelCalculateOptionPrice, cancelPositions, cancelAccountSummary,
       unsubscribeFromGroupEvents, Plain, Global, From
  <2> QED
    BY <1>3, <2>1, <2>2 DEF CancelOf, Requests
<1>4. CASE request \in {"reqTickByTickData", "reqWshMetaData", "reqWshEventData",
                       "reqPositionsMulti", "reqAccountUpdatesMulti", "reqPnL",
                       "reqPnLSingle"}
  <2>1. /\ cancelTickByTickData.since = reqTickByTickData.since
        /\ cancelWshMetaData.since = reqWshMetaData.since
        /\ cancelWshEventData.since = reqWshEventData.since
    BY DEF cancelTickByTickData, reqTickByTickData, cancelWshMetaData,
       reqWshMetaData, cancelWshEventData, reqWshEventData, From, Global,
       Plain
  <2>2. /\ cancelPositionsMulti.since = reqPositionsMulti.since
        /\ cancelAccountUpdatesMulti.since = reqAccountUpdatesMulti.since
        /\ cancelPnL.since = reqPnL.since
        /\ cancelPnLSingle.since = reqPnLSingle.since
    BY DEF cancelPositionsMulti, reqPositionsMulti, cancelAccountUpdatesMulti,
       reqAccountUpdatesMulti, cancelPnL, reqPnL, cancelPnLSingle,
       reqPnLSingle, From, Global, Plain, Text
  <2> QED
    BY <1>4, <2>1, <2>2 DEF CancelOf, Requests
<1>5. CASE request = "reqHeadTimestamp"
  <2>1. cancelHeadTimestamp.since = Since("CANCEL_HEADTIMESTAMP")
    BY DEF cancelHeadTimestamp, From, Global, Plain
  <2> QED
    BY <1>1, <1>5, <2>1 DEF CancelOf, Requests, CannotCancel, Before
<1>6. CASE request = "reqHistogramData"
  <2>1. /\ cancelHistogramData.since = Since("REQ_HEAD_TIMESTAMP")
        /\ reqHistogramData.since = Since("REQ_HISTOGRAM")
    BY DEF cancelHistogramData, reqHistogramData, From, Global, Plain,
       Text
  <2>2. v \in Since("REQ_HISTOGRAM") => v \in Since("REQ_HEAD_TIMESTAMP")
    BY DEF Since, Version, MIN_CLIENT_VER, MAX_CLIENT_VER, MinServerVer
  <2> QED
    BY <1>6, <2>1, <2>2 DEF CancelOf, Requests
<1> QED
  BY <1>2, <1>3, <1>4, <1>5, <1>6 DEF CancelOf

(* The arguments of a cancel are attributes of it, and refuse it in no     *)
(* version that accepted them with the request.                            *)
LEMMA CancelArguments ==
  ASSUME NEW request \in DOMAIN CancelOf, NEW set,
         NEW v \in Requests[request].since,
         Refusing(Requests[request], v, set) = {}
  PROVE  LET row == Requests[CancelOf[request]]
             arguments == CancelSet(request, set)
         IN  /\ arguments \subseteq Attributes(row) /\ "badText" \notin arguments
             /\ CannotCancel(request, v) \/ Refusing(row, v, arguments) = {}
<1> DEFINE row == Requests[CancelOf[request]]
           arguments == CancelSet(request, set)
<1>1. CASE request = "reqMktDepth"
  <2>1. row = cancelMktDepth /\ Requests[request] = reqMktDepth
    BY <1>1 DEF CancelOf, Requests
  <2>2. arguments = set \cap {"isSmartDepth"}
    BY <1>1 DEF CancelSet
  <2>3. /\ DOMAIN cancelMktDepth.accepts = {"isSmartDepth"}
        /\ cancelMktDepth.accepts["isSmartDepth"] = Since("SMART_DEPTH")
    BY DEF cancelMktDepth, Plain
  <2>4. /\ "isSmartDepth" \in DOMAIN reqMktDepth.accepts
        /\ reqMktDepth.accepts["isSmartDepth"] = Since("SMART_DEPTH")
    BY DEF reqMktDepth, Plain
  <2>5. "isSmartDepth" \in set => v \in Since("SMART_DEPTH")
    BY <2>1, <2>4 DEF Refusing
  <2> QED
    BY <2>1, <2>2, <2>3, <2>5 DEF Refusing, Attributes, Unasked
<1>2. CASE request = "placeOrder"
  <2>1. row = cancelOrder /\ Requests[request] = placeOrder
    BY <1>2 DEF CancelOf, Requests
  <2>2. arguments = {"manualOrderCancelTime"}
    BY <1>2 DEF CancelSet
  <2>3. /\ DOMAIN cancelOrder.accepts = {"manualOrderCancelTime"}
        /\ cancelOrder.accepts["manualOrderCancelTime"] = Since("MANUAL_ORDER_TIME")
    BY DEF cancelOrder, Plain
  <2>4. v \in AnyVersion
    BY <2>1 DEF placeOrder, Plain
  <2> QED
    BY <1>2, <2>1, <2>2, <2>3, <2>4
       DEF Refusing, Attributes, Unasked, CannotCancel, Before
<1>3. CASE request \notin {"reqMktDepth", "placeOrder"}
  <2>1. arguments = {}
    BY <1>3 DEF CancelSet
  <2> QED
    BY <2>1 DEF Refusing
<1> QED
  BY <1>1, <1>2, <1>3

(* A request that was sent can be cancelled, but for the excepted cases. *)
LEMMA CancelSent ==
  ASSUME NEW request \in DOMAIN CancelOf, NEW set,
         NEW v \in Requests[request].since, v # NoVersion,
         Refusing(Requests[request], v, set) = {},
         ~CannotCancel(request, v), NEW online, online
  PROVE  Outcome(Requests[CancelOf[request]], online, v,
                     CancelSet(request, set)).kind = "sent"
<1> DEFINE row == Requests[CancelOf[request]]
           arguments == CancelSet(request, set)
<1>1. v \in row.since
  BY CancelKnown
<1>2. Refusing(row, v, arguments) = {} /\ "badText" \notin arguments
  BY CancelArguments
<1> HIDE DEF row, arguments
<1>3. Outcome(row, online, v, arguments).kind = "sent"
  BY <1>1, <1>2, SentOutcome
<1> QED
  BY <1>3 DEF row, arguments

-----------------------------------------------------------------------------
(* Where an answer goes *)

(* The callbacks of a message are those of its handler, however long the   *)
(* list it brings.                                                         *)
LEMMA RunCallbacks ==
  ASSUME NEW handler, NEW entries \in Nat, NEW run \in CallbackRuns(handler, entries)
  PROVE  \A i \in 1 .. Len(run) :
           run[i] \in (handler.call \cup {handler.rows, handler.also}) \ {"none"}
<1> DEFINE S == (handler.call \cup {handler.rows, handler.also}) \ {"none"}
           rows == Rows(handler, entries)
<1>1. PICK c \in handler.call, d \in {"none", handler.also} :
        run = rows \o Once(c) \o Once(d)
  BY DEF CallbackRuns
<1>2. rows \in Seq(S)
  <2> DEFINE n == IF handler.rows = "none" THEN 0 ELSE entries
  <2>1. handler.rows # "none" => handler.rows \in S
    OBVIOUS
  <2>2. n \in Nat /\ (handler.rows = "none" => n = 0)
    OBVIOUS
  <2>3. rows = [i \in 1 .. n |-> handler.rows]
    BY DEF Rows
  <2> HIDE DEF n, S, rows
  <2>4. \A i \in 1 .. n : handler.rows \in S
    BY <2>1, <2>2
  <2>5. [i \in 1 .. n |-> handler.rows] \in Seq(S)
    BY <2>2, <2>4, IsASeq
  <2> QED
    BY <2>3, <2>5
<1>3. Once(c) \in Seq(S) /\ Once(d) \in Seq(S)
  <2>1. (c # "none" => c \in S) /\ (d # "none" => d \in S)
    OBVIOUS
  <2> HIDE DEF S
  <2> QED
    BY <2>1 DEF Once
<1> HIDE DEF rows, S
<1>4. rows \o Once(c) \in Seq(S)
  BY <1>2, <1>3, ConcatProperties
<1>5. run \in Seq(S)
  BY <1>1, <1>3, <1>4, ConcatProperties
<1>6. \A i \in 1 .. Len(run) : run[i] \in S
  BY <1>5, ElementOfSeq
<1> QED
  BY <1>6 DEF S

(* The callbacks of IBComClientImpl that send, one by one. *)
LEMMA ForwardTable ==
  /\ Forward["tickPrice"] = To("own", "RT_TICK_PRICE")
  /\ Forward["tickSize"] = To("own", "RT_TICK_SIZE")
  /\ Forward["tickGeneric"] = To("own", "RT_TICK_GENERIC")
  /\ Forward["tickString"] = To("own", "RT_TICK_STRING")
  /\ Forward["tickOptionComputation"] = To("own", "RT_REQ_OPTION_PRICE")
  /\ Forward["historicalData"] = To("own", "RT_HISTORICAL_DATA")
  /\ Forward["historicalDataEnd"] = To("own", "RT_HISTORICAL_DATA")
  /\ Forward["realtimeBar"] = To("own", "RT_REALTIME_BAR")
  /\ Forward["position"] = To(-9, "RT_REQ_POSITION")
  /\ Forward["positionEnd"] = To(-9, "RT_REQ_POSITION")
  /\ Forward["accountSummaryEnd"] = To(-5, "RT_REQ_ACCOUNT_SUMMURY")
  /\ Forward["orderStatus"] = To(-6, "RT_ORDER_STATUS")
  /\ Forward["execDetails"] = To(-6, "RT_ORDER_EXECUTION")
  /\ Forward["commissionReport"] = To(-6, "RT_ORDER_COMMISSION")
  /\ {"tickPrice", "tickSize", "tickGeneric", "tickString", "tickOptionComputation",
      "historicalData", "historicalDataEnd", "realtimeBar", "position", "positionEnd",
      "accountSummaryEnd", "orderStatus", "execDetails", "commissionReport"}
       \subseteq DOMAIN Forward
<1> DEFINE data == With(forwardTicks, forwardSession)
           rest == With(forwardOrders, forwardTickByTick)
<1>1. /\ DOMAIN data = DOMAIN forwardTicks \cup DOMAIN forwardSession
      /\ \A c \in DOMAIN forwardTicks : data[c] = forwardTicks[c]
  BY WithProperties
<1>2. /\ DOMAIN rest = DOMAIN forwardOrders \cup DOMAIN forwardTickByTick
      /\ \A c \in DOMAIN forwardOrders : rest[c] = forwardOrders[c]
  BY WithProperties
<1> HIDE DEF data, rest
<1>3. DOMAIN data \cap DOMAIN rest = {}
  BY <1>1, <1>2 DEF forwardTicks, forwardSession, forwardOrders,
     forwardTickByTick
<1>4. /\ DOMAIN With(data, rest) = DOMAIN data \cup DOMAIN rest
      /\ \A c \in DOMAIN data : With(data, rest)[c] = data[c]
      /\ \A c \in DOMAIN rest : With(data, rest)[c] = rest[c]
  BY <1>3, Joined
<1>5. Forward = With(data, rest)
  BY DEF Forward, data, rest
<1>6. /\ \A c \in DOMAIN forwardTicks :
           c \in DOMAIN Forward /\ Forward[c] = forwardTicks[c]
      /\ \A c \in DOMAIN forwardOrders :
           c \in DOMAIN Forward /\ Forward[c] = forwardOrders[c]
  BY <1>1, <1>2, <1>4, <1>5
<1> QED
  BY <1>6 DEF forwardTicks, forwardOrders

(* The handlers of the messages with data of the program's requests. *)
LEMMA IncomingTable ==
  /\ Incoming["TICK_PRICE"] = processTickPriceMsg
  /\ Incoming["TICK_SIZE"] = processTickSizeMsg
  /\ Incoming["TICK_GENERIC"] = processTickGenericMsg
  /\ Incoming["TICK_STRING"] = processTickStringMsg
  /\ Incoming["TICK_OPTION_COMPUTATION"] = processTickOptionComputationMsg
  /\ Incoming["HISTORICAL_DATA"] = processHistoricalDataMsg
  /\ Incoming["REAL_TIME_BARS"] = processRealTimeBarsMsg
  /\ Incoming["ORDER_STATUS"] = processOrderStatusMsg
  /\ Incoming["EXECUTION_DATA"] = processExecutionDetailsMsg
  /\ Incoming["COMMISSION_REPORT"] = processCommissionReportMsg
  /\ Incoming["POSITION_DATA"] = processPositionDataMsg
  /\ Incoming["POSITION_END"] = processPositionEndMsg
  /\ Incoming["ACCOUNT_SUMMARY_END"] = processAccountSummaryEndMsg
<1> DEFINE rest == With(incomingEnds, incomingRecent)
<1>1. /\ DOMAIN rest = DOMAIN incomingEnds \cup DOMAIN incomingRecent
      /\ \A m \in DOMAIN incomingEnds : rest[m] = incomingEnds[m]
  BY WithProperties
<1> HIDE DEF rest
<1>2. /\ \A m \in DOMAIN incomingMarketData :
           With(incomingMarketData, rest)[m] = incomingMarketData[m]
      /\ \A m \in DOMAIN rest \ DOMAIN incomingMarketData :
           With(incomingMarketData, rest)[m] = rest[m]
  BY WithProperties
<1>3. Incoming = With(incomingMarketData, rest)
  BY DEF Incoming, rest
<1>4. DOMAIN incomingEnds \cap DOMAIN incomingMarketData = {}
  BY DEF incomingEnds, incomingMarketData
<1>5. /\ \A m \in DOMAIN incomingMarketData :
           Incoming[m] = incomingMarketData[m]
      /\ \A m \in DOMAIN incomingEnds : Incoming[m] = incomingEnds[m]
  BY <1>1, <1>2, <1>3, <1>4
<1>6. /\ Incoming["TICK_PRICE"] = processTickPriceMsg
      /\ Incoming["TICK_SIZE"] = processTickSizeMsg
      /\ Incoming["TICK_GENERIC"] = processTickGenericMsg
      /\ Incoming["TICK_STRING"] = processTickStringMsg
      /\ Incoming["TICK_OPTION_COMPUTATION"] = processTickOptionComputationMsg
  BY <1>5 DEF incomingMarketData
<1>7. /\ Incoming["HISTORICAL_DATA"] = processHistoricalDataMsg
      /\ Incoming["REAL_TIME_BARS"] = processRealTimeBarsMsg
      /\ Incoming["ORDER_STATUS"] = processOrderStatusMsg
      /\ Incoming["EXECUTION_DATA"] = processExecutionDetailsMsg
  BY <1>5 DEF incomingMarketData
<1>8. /\ Incoming["COMMISSION_REPORT"] = processCommissionReportMsg
      /\ Incoming["POSITION_DATA"] = processPositionDataMsg
      /\ Incoming["POSITION_END"] = processPositionEndMsg
      /\ Incoming["ACCOUNT_SUMMARY_END"] = processAccountSummaryEndMsg
  BY <1>5 DEF incomingEnds
<1> QED
  BY <1>6, <1>7, <1>8

(* The callbacks that are forwarded under the id and the type a request is *)
(* registered with.                                                        *)
Reached(request) ==
  {c \in DOMAIN Forward :
     /\ Forward[c] # <<>>
     /\ Forward[c][1].id = RegisteredId(request)
     /\ R!keyOf(Forward[c][1].type) = RegisteredAs[request]}

(* Those a handler of EDecoder makes. *)
Callbacks(handler) == (handler.call \cup {handler.rows, handler.also}) \ {"none"}

(* Every callback of a message with data of a request reaches it. *)
LEMMA DataReached ==
  ASSUME NEW request \in DOMAIN DataOf, NEW message \in DataOf[request]
  PROVE  Callbacks(Incoming[message]) \subseteq Reached(request)
<1>1. \A id, type : /\ To(id, type) # <<>>
                    /\ To(id, type)[1].id = id /\ To(id, type)[1].type = type
  BY DEF To
<1>2. DOMAIN DataOf = {"reqMktData", "reqHistoricalData", "reqRealTimeBars",
                           "reqPositions", "reqAccountSummary", "placeOrder"}
  BY DEF DataOf
<1>3. CASE request = "reqMktData"
  <2>1. RegisteredAs[request] = "RT_REQ_REL_DATA" /\ RegisteredId(request) = "own"
    BY <1>3 DEF RegisteredAs, RegisteredId, R!FixedType
  <2>2. {"tickPrice", "tickSize", "tickGeneric", "tickString", "tickOptionComputation"}
          \subseteq Reached(request)
    BY <1>1, <2>1, ForwardTable DEF Reached, R!keyOf
  <2>3. message \in {"TICK_PRICE", "TICK_SIZE", "TICK_OPTION_COMPUTATION", "TICK_GENERIC",
                     "TICK_STRING"}
    BY <1>3 DEF DataOf
  <2>4. /\ Callbacks(processTickPriceMsg) = {"tickPrice", "tickSize"}
        /\ Callbacks(processTickSizeMsg) = {"tickSize"}
        /\ Callbacks(processTickGenericMsg) = {"tickGeneric"}
        /\ Callbacks(processTickStringMsg) = {"tickString"}
    BY DEF Callbacks, processTickPriceMsg, processTickSizeMsg,
       processTickGenericMsg, processTickStringMsg, Handler, Calls
  <2>5. Callbacks(processTickOptionComputationMsg) = {"tickOptionComputation"}
    BY DEF Callbacks, processTickOptionComputationMsg, Reading, Handler, Calls
  <2> QED
    BY <2>2, <2>3, <2>4, <2>5, IncomingTable
<1>4. CASE request = "reqHistoricalData"
  <2>1. RegisteredAs[request] = "RT_HISTORICAL_DATA" /\ RegisteredId(request) = "own"
    BY <1>4 DEF RegisteredAs, RegisteredId, R!FixedType
  <2>2. {"historicalData", "historicalDataEnd"} \subseteq Reached(request)
    BY <1>1, <2>1, ForwardTable DEF Reached, R!keyOf
  <2>3. message = "HISTORICAL_DATA"
    BY <1>4 DEF DataOf
  <2>4. Callbacks(processHistoricalDataMsg) = {"historicalData", "historicalDataEnd"}
    BY DEF Callbacks, processHistoricalDataMsg, Reading, List, Handler,
       Calls
  <2> QED
    BY <2>2, <2>3, <2>4, IncomingTable
<1>5. CASE request = "reqRealTimeBars"
  <2>1. RegisteredAs[request] = "RT_REALTIME_BAR" /\ RegisteredId(request) = "own"
    BY <1>5 DEF RegisteredAs, RegisteredId, R!FixedType
  <2>2. {"realtimeBar"} \subseteq Reached(request)
    BY <1>1, <2>1, ForwardTable DEF Reached, R!keyOf
  <2>3. message = "REAL_TIME_BARS"
    BY <1>5 DEF DataOf
  <2>4. Callbacks(processRealTimeBarsMsg) = {"realtimeBar"}
    BY DEF Callbacks, processRealTimeBarsMsg, Handler, Calls
  <2> QED
    BY <2>2, <2>3, <2>4, IncomingTable
<1>6. CASE request = "reqPositions"
  <2>1. RegisteredAs[request] = "RT_REQ_POSITION" /\ RegisteredId(request) = -9
    BY <1>6 DEF RegisteredAs, RegisteredId, R!FixedType, R!fixedId
  <2>2. {"position", "positionEnd"} \subseteq Reached(request)
    BY <1>1, <2>1, ForwardTable DEF Reached, R!keyOf
  <2>3. message \in {"POSITION_DATA", "POSITION_END"}
    BY <1>6 DEF DataOf
  <2>4. /\ Callbacks(processPositionDataMsg) = {"position"}
        /\ Callbacks(processPositionEndMsg) = {"positionEnd"}
    BY DEF Callbacks, processPositionDataMsg, processPositionEndMsg, Handler,
       Calls
  <2> QED
    BY <2>2, <2>3, <2>4, IncomingTable
<1>7. CASE request = "reqAccountSummary"
  <2>1. /\ RegisteredAs[request] = "RT_REQ_ACCOUNT_SUMMURY"
        /\ RegisteredId(request) = -5
    BY <1>7 DEF RegisteredAs, RegisteredId, R!FixedType, R!fixedId
  <2>2. {"accountSummaryEnd"} \subseteq Reached(request)
    BY <1>1, <2>1, ForwardTable DEF Reached, R!keyOf
  <2>3. message = "ACCOUNT_SUMMARY_END"
    BY <1>7 DEF DataOf
  <2>4. Callbacks(processAccountSummaryEndMsg) = {"accountSummaryEnd"}
    BY DEF Callbacks, processAccountSummaryEndMsg, Handler, Calls
  <2> QED
    BY <2>2, <2>3, <2>4, IncomingTable
<1>8. CASE request = "placeOrder"
  <2>1. RegisteredAs[request] = "RT_REQ_ORDER_STATUS" /\ RegisteredId(request) = -6
    BY <1>8 DEF RegisteredAs, RegisteredId, R!FixedType, R!fixedId
  <2>2. {"orderStatus", "execDetails", "commissionReport"} \subseteq Reached(request)
    BY <1>1, <2>1, ForwardTable DEF Reached, R!keyOf
  <2>3. message \in {"ORDER_STATUS", "EXECUTION_DATA", "COMMISSION_REPORT"}
    BY <1>8 DEF DataOf
  <2>4. /\ Callbacks(processOrderStatusMsg) = {"orderStatus"}
        /\ Callbacks(processExecutionDetailsMsg) = {"execDetails"}
        /\ Callbacks(processCommissionReportMsg) = {"commissionReport"}
    BY DEF Callbacks, processOrderStatusMsg, processExecutionDetailsMsg,
       processCommissionReportMsg, Reading, Handler, Calls
  <2> QED
    BY <2>2, <2>3, <2>4, IncomingTable
<1> QED
  BY <1>2, <1>3, <1>4, <1>5, <1>6, <1>7, <1>8

-----------------------------------------------------------------------------
(* The invariant of TwsApi *)

(* A call that was sent passed the tests of the version it found: what was *)
(* written is what the rules of its request say for that version.          *)
Passed(c) ==
  LET row == Requests[c.request]
  IN  /\ c.request \in DOMAIN Requests
      /\ c.at \in row.since
      /\ c.set \subseteq Attributes(row)
      /\ Refusing(row, c.at, c.set) = {}
      /\ c.result.fields = Written(row, c.at, c.set)

CallPassed == call.request # "none" /\ call.result.kind = "sent" => Passed(call)

(* TWS works on what was sent to it in this session; the last call is that *)
(* one, or a cancel that this version refuses.                             *)
ServedPassed ==
  served # NoCall =>
    /\ served.request \in DOMAIN TwsAnswers /\ served.result.kind = "sent"
    /\ Passed(served)
    /\ served.at = version /\ version # NoVersion

ServedCalled ==
  served # NoCall =>
    \/ call = served
    \/ /\ served.request \in DOMAIN CancelOf
       /\ call.request = CancelOf[served.request]
       /\ CannotCancel(served.request, version)

(* Only a connected client has a version. *)
VersionConnected == version # NoVersion => connected

(* The answers are right from the step they arrive in on.                  *)
ApiInv ==
  /\ VersionConnected
  /\ CallPassed /\ ServedPassed /\ ServedCalled
  /\ AnswersReach /\ OrderComesBack

(* The invariant holds before there is a session. *)
LEMMA ApiInvInit == ApiInit => ApiInv
<1> SUFFICES ASSUME ApiInit PROVE ApiInv
  OBVIOUS
<1>1. CallPassed /\ ServedPassed /\ ServedCalled /\ VersionConnected
  BY DEF ApiInit, NoCall, CallPassed, ServedPassed, ServedCalled, VersionConnected
<1>2. heard = Nothing
  BY DEF ApiInit
<1>3. AnswersReach /\ OrderComesBack
  BY <1>2 DEF Nothing, AnswersReach, DataOf, OrderComesBack
<1> QED
  BY <1>1, <1>3 DEF ApiInv

(* Where nothing was heard there is nothing to be wrong about. *)
LEMMA NothingHeard ==
  ASSUME heard' = Nothing
  PROVE  AnswersReach' /\ OrderComesBack'
BY DEF Nothing, AnswersReach, DataOf, OrderComesBack

(* What TWS works on was sent in a session. *)
LEMMA ServedInSession ==
  ASSUME ApiInv, served # NoCall
  PROVE  version \in Version
BY EveryRequestCarries DEF ApiInv, ServedPassed, Passed, Carries, AnyVersion

(* The user connects. *)
LEMMA ApiDialled ==
  ASSUME ApiInv, Dialled
  PROVE  ApiInv'
<1>1. connected' = TRUE /\ UNCHANGED <<version, call, served, heard>>
  BY DEF Dialled
<1> QED
  BY <1>1 DEF ApiInv, VersionConnected, CallPassed, ServedPassed, ServedCalled, Passed,
     AnswersReach, OrderComesBack

(* A session begins with nothing sent in it.                               *)
LEMMA ApiAnswered ==
  ASSUME ApiInv, NEW v \in Versions, Answered(v)
  PROVE  ApiInv'
<1>1. version = NoVersion /\ connected /\ UNCHANGED <<connected, call, served, heard>>
  BY DEF Answered, begins
<1>2. served = NoCall
  BY <1>1 DEF ApiInv, ServedPassed
<1>3. CallPassed' /\ ServedPassed' /\ ServedCalled' /\ VersionConnected'
  BY <1>1, <1>2 DEF ApiInv, CallPassed, ServedPassed, ServedCalled, Passed,
     VersionConnected
<1>4. AnswersReach' /\ OrderComesBack'
  BY <1>1 DEF ApiInv, AnswersReach, OrderComesBack
<1> QED
  BY <1>3, <1>4 DEF ApiInv

(* It ends with nothing left of it.                                        *)
LEMMA ApiLost ==
  ASSUME ApiInv, Lost
  PROVE  ApiInv'
<1>1. /\ version' = NoVersion
      /\ call' = NoCall /\ served' = NoCall /\ heard' = Nothing
  BY DEF Lost
<1>2. CallPassed' /\ ServedPassed' /\ ServedCalled' /\ VersionConnected'
  BY <1>1 DEF CallPassed, ServedPassed, ServedCalled, VersionConnected, NoCall
<1> QED
  BY <1>1, <1>2, NothingHeard DEF ApiInv

(* The application sets attributes of the request. *)
LEMMA SetsAttributes ==
  ASSUME NEW row, NEW set \in ArgumentSets(row)
  PROVE  set \subseteq Attributes(row)
BY DEF ArgumentSets

(* A request is sent with what its rules say for the version.              *)
LEMMA ApiCall ==
  ASSUME ApiInv, NEW request \in DOMAIN Requests,
         NEW set \in ArgumentSets(Requests[request]), Call(request, set)
  PROVE  ApiInv'
<1> DEFINE row == Requests[request]
           result == Outcome(row, connected, version, set)
           id == IF result.id = "num" THEN "all" ELSE result.id
           made == [request |-> request, set |-> set, at |-> version,
                    result |-> [result EXCEPT !.id = id]]
<1>1. /\ call' = made
      /\ served' = IF /\ result.kind = "sent" /\ request \in DOMAIN TwsAnswers
                      /\ version # NoVersion
                   THEN made ELSE NoCall
      /\ heard' = Nothing /\ version' = version
      /\ result.code = "NOT_CONNECTED" \/ connected' = connected
  BY DEF Call, errorDials
<1>2. /\ made.request = request /\ made.set = set /\ made.at = version
      /\ made.result.kind = result.kind /\ made.result.fields = result.fields
  BY DEF Outcome, Sent, Refused, Thrown
<1>3. set \subseteq Attributes(row)
  BY SetsAttributes
<1>4. result.kind = "sent" =>
        /\ version \in row.since /\ Refusing(row, version, set) = {}
        /\ result.fields = Written(row, version, set)
  BY OutcomeSent
<1>5. result.code = "NOT_CONNECTED" => ~connected
  BY OutcomeOffline
<1> HIDE DEF made, result
<1>6. VersionConnected'
  BY <1>1, <1>5 DEF ApiInv, VersionConnected
<1>7. call'.result.kind = "sent" => Passed(call)'
  BY <1>1, <1>2, <1>3, <1>4 DEF Passed
<1>8. \/ served' = NoCall
      \/ /\ served' = call' /\ call'.result.kind = "sent"
         /\ call'.request \in DOMAIN TwsAnswers
         /\ call'.at = version' /\ version' # NoVersion
  BY <1>1, <1>2
<1>9. CallPassed' /\ ServedPassed' /\ ServedCalled'
  BY <1>7, <1>8 DEF CallPassed, ServedPassed, ServedCalled, Passed
<1> QED
  BY <1>1, <1>6, <1>9, NothingHeard DEF ApiInv

(* TWS has nothing left to work on.                                        *)
LEMMA ApiDone ==
  ASSUME ApiInv, Done
  PROVE  ApiInv'
<1>1. /\ call' = NoCall /\ served' = NoCall /\ heard' = Nothing
      /\ UNCHANGED <<version, connected>>
  BY DEF Done
<1>2. CallPassed' /\ ServedPassed' /\ ServedCalled' /\ VersionConnected'
  BY <1>1 DEF ApiInv, CallPassed, ServedPassed, ServedCalled, VersionConnected, NoCall
<1> QED
  BY <1>1, <1>2, NothingHeard DEF ApiInv

(* A cancel that is sent ends the request; one that is not is among those  *)
(* that are excepted.                                                      *)
LEMMA ApiCancel ==
  ASSUME ApiInv, Cancel
  PROVE  ApiInv'
<1> DEFINE request == served.request
           cancel == CancelOf[request]
           row == Requests[cancel]
           set == CancelSet(request, served.set)
           result == Outcome(row, connected, version, set)
           made == [request |-> cancel, set |-> set, at |-> version, result |-> result]
<1>1. /\ request \in DOMAIN CancelOf
      /\ call' = made
      /\ served' = IF result.kind = "sent" THEN NoCall ELSE served
      /\ heard' = Nothing /\ version' = version /\ connected' = connected
  BY DEF Cancel
<1>2. served # NoCall
  BY <1>1, CancelTable DEF NoCall
<1>3. /\ version \in Requests[request].since /\ version # NoVersion
      /\ Refusing(Requests[request], version, served.set) = {}
      /\ Passed(served)
  BY <1>2 DEF ApiInv, ServedPassed, Passed
<1>4. connected
  BY <1>3 DEF ApiInv, VersionConnected
<1>5. cancel \in DOMAIN Requests /\ set \subseteq Attributes(row)
  BY <1>1, <1>3, CancelTable, CancelArguments
<1>6. result.kind = "sent" =>
        /\ version \in row.since /\ Refusing(row, version, set) = {}
        /\ result.fields = Written(row, version, set)
  BY OutcomeSent
<1>7. result.kind # "sent" => CannotCancel(request, version)
  BY <1>1, <1>3, <1>4, CancelSent
<1>8. made.request = cancel /\ made.set = set /\ made.result = result /\ made.at = version
  OBVIOUS
<1> HIDE DEF result, set, row, cancel, made
<1>9. CallPassed'
  BY <1>1, <1>5, <1>6, <1>8 DEF CallPassed, Passed, row
<1>10. ServedPassed'
  BY <1>1 DEF ApiInv, ServedPassed, Passed
<1>11. ServedCalled'
  BY <1>1, <1>7, <1>8 DEF ServedCalled, cancel
<1>12. VersionConnected'
  BY <1>1 DEF ApiInv, VersionConnected
<1> QED
  BY <1>1, <1>9, <1>10, <1>11, <1>12, NothingHeard DEF ApiInv

(* Only an order is answered with an open order. *)
LEMMA OpenOrderOfOrder ==
  \A request \in DOMAIN TwsAnswers :
    "OPEN_ORDER" \in TwsAnswers[request] => request = "placeOrder"
BY DEF TwsAnswers

(* An answer of any length reaches the request it answers.                 *)
LEMMA ApiArrives ==
  ASSUME ApiInv, NEW message \in Message,
         NEW entries \in 0 .. MaxEntries, NEW whole \in BOOLEAN,
         Arrives(message, entries, whole)
  PROVE  ApiInv'
<1>1. /\ served # NoCall /\ message \in TwsAnswers[served.request]
      /\ UNCHANGED <<version, connected, call, served>>
  BY DEF Arrives
<1>2. PICK run \in CallbackRuns(Incoming[message], entries) :
        heard' = [request |-> served.request, message |-> message,
                  fields |-> IF whole
                             THEN ReadBack(message, version, served.result.fields)
                             ELSE {},
                  sends |-> IF whole THEN Forwarded(run) ELSE <<>>]
  BY DEF Arrives
<1>3. /\ heard'.request = served.request /\ heard'.message = message
      /\ heard'.fields = {}
           \/ heard'.fields = ReadBack(message, version, served.result.fields)
      /\ heard'.sends = <<>> \/ heard'.sends = Forwarded(run)
  BY <1>2, Zenon
<1>4. CallPassed' /\ ServedPassed' /\ ServedCalled' /\ VersionConnected'
  BY <1>1 DEF ApiInv, CallPassed, ServedPassed, ServedCalled, Passed, VersionConnected
<1>5. AnswersReach'
  <2> SUFFICES ASSUME heard'.request \in DOMAIN DataOf,
                      heard'.message \in DataOf[heard'.request],
                      NEW i \in DOMAIN heard'.sends
               PROVE  heard'.sends[i] # <<>>
                      /\ heard'.sends[i][1].id = RegisteredId(heard'.request)
                      /\ R!keyOf(heard'.sends[i][1].type) =
                           RegisteredAs[heard'.request]
    BY DEF AnswersReach
  <2>1. entries \in Nat
    BY MaxEntriesAssumption DEF MaxEntriesAssumption
  <2>2. heard'.sends = Forwarded(run)
    BY <1>3
  <2>3. i \in 1 .. Len(run)
        /\ heard'.sends[i] = IF run[i] \in DOMAIN Forward
                             THEN Forward[run[i]] ELSE <<>>
    BY <2>2 DEF Forwarded
  <2>4. run[i] \in Callbacks(Incoming[message])
    BY <2>1, <2>3, RunCallbacks DEF Callbacks
  <2>5. run[i] \in Reached(served.request)
    BY <1>3, <2>4, DataReached
  <2> QED
    BY <1>3, <2>3, <2>5 DEF Reached
<1>6. OrderComesBack'
  <2> SUFFICES ASSUME heard'.message = "OPEN_ORDER", heard'.fields # {}
               PROVE  heard'.fields =
                        served'.result.fields \cap DOMAIN processOpenOrderMsg.reads
    BY DEF OrderComesBack
  <2>1. message = "OPEN_ORDER" /\ served' = served
    BY <1>1, <1>3
  <2>2. heard'.fields = ReadBack("OPEN_ORDER", version, served.result.fields)
    BY <1>3, <2>1
  <2>3. served.request \in DOMAIN TwsAnswers /\ Passed(served) /\ served.at = version
    BY <1>1 DEF ApiInv, ServedPassed
  <2>4. served.request = "placeOrder"
    BY <1>1, <2>1, <2>3, OpenOrderOfOrder
  <2>5. Requests["placeOrder"] = placeOrder
    BY DEF Requests
  <2>6. served.result.fields = Written(placeOrder, version, served.set)
    BY <2>3, <2>4, <2>5 DEF Passed
  <2>7. version \in Version
    BY <1>1, ServedInSession
  <2> QED
    BY <2>1, <2>2, <2>6, <2>7, ReadsBack
<1> QED
  BY <1>4, <1>5, <1>6 DEF ApiInv

(* A message without a request brings no data of one.                      *)
LEMMA ApiNotified ==
  ASSUME ApiInv, NEW code \in ErrorCode, Notified(code)
  PROVE  ApiInv'
<1>1. UNCHANGED <<version, connected, call, served>>
  BY DEF Notified
<1>2. heard'.request = "none" /\ heard'.message = "ERR_MSG"
  BY DEF Notified, Nothing
<1>3. CallPassed' /\ ServedPassed' /\ ServedCalled' /\ VersionConnected'
  BY <1>1 DEF ApiInv, CallPassed, ServedPassed, ServedCalled, Passed, VersionConnected
<1>4. AnswersReach' /\ OrderComesBack'
  BY <1>2 DEF AnswersReach, DataOf, OrderComesBack
<1> QED
  BY <1>3, <1>4 DEF ApiInv

(* Every step keeps the invariant.                                         *)
LEMMA ApiInvNext ==
  ASSUME ApiInv, [ApiNext]_apiVars
  PROVE  ApiInv'
<1>1. CASE \E v \in Versions : Answered(v)
  BY <1>1, ApiAnswered
<1>2. CASE Lost
  BY <1>2, ApiLost
<1>3. CASE \E request \in DOMAIN Requests :
             \E set \in ArgumentSets(Requests[request]) : Call(request, set)
  BY <1>3, ApiCall
<1>4. CASE Done
  BY <1>4, ApiDone
<1>5. CASE Cancel
  BY <1>5, ApiCancel
<1>6. CASE \E message \in Message, entries \in 0 .. MaxEntries, whole \in BOOLEAN :
             Arrives(message, entries, whole)
  BY <1>6, ApiArrives
<1>7. CASE \E code \in ErrorCode : Notified(code)
  BY <1>7, ApiNotified
<1>8. CASE UNCHANGED apiVars
  BY <1>8 DEF apiVars, ApiInv, CallPassed, ServedPassed, ServedCalled, Passed,
     VersionConnected, AnswersReach, OrderComesBack
<1>9. CASE Dialled
  BY <1>9, ApiDialled
<1> QED
  BY <1>1, <1>2, <1>3, <1>4, <1>5, <1>6, <1>7, <1>8, <1>9 DEF ApiNext

(* It holds in every state of TwsApi. *)
LEMMA ApiInvariant == ApiSpec => []ApiInv
<1>1. ApiInv /\ [ApiNext]_apiVars => ApiInv'
  BY ApiInvNext
<1> QED
  BY ApiInvInit, <1>1, PTL DEF ApiSpec

(* EClient writes every attribute the caller sets, whatever others are set *)
(* with it, in every version a session may have, unless it refuses the     *)
(* request: the tests at the head of each function of EClient and the ones *)
(* around the fields of its message fit each other, the listed exceptions  *)
(* aside.  While another thread's handshake lasts and there is no version, *)
(* at least what has a test of its own is written or refused.              *)
THEOREM NothingIsLost == ApiSpec => []NothingLost
<1>1. ApiInv => NothingLost
  <2> SUFFICES ASSUME ApiInv, call.request # "none", call.result.kind = "sent",
                      NEW a \in call.set \ {"badText"},
                      Accompanied(Requests[call.request], a, call.set),
                      call.at \notin Dropped(call.request, a),
                      \/ call.at # NoVersion
                      \/ a \in DOMAIN Requests[call.request].accepts
               PROVE  a \in call.result.fields
    BY DEF NothingLost
  <2> DEFINE row == Requests[call.request]
             v == call.at
  <2>1. /\ call.request \in DOMAIN Requests /\ v \in row.since
        /\ call.set \subseteq Attributes(row)
        /\ Refusing(row, v, call.set) = {}
        /\ call.result.fields = Written(row, v, call.set)
    BY DEF ApiInv, CallPassed, Passed
  <2>2. Gated(row, v) /\ (v # NoVersion => Ungated(call.request, row, v))
    BY <2>1, EveryRequestCarries DEF Carries
  <2>3. \A b \in call.set \cap DOMAIN row.accepts : v \in row.accepts[b]
    BY <2>1 DEF Refusing
  <2>4. a \in DOMAIN row.accepts \/ a \in DOMAIN row.writes \ Unasked
    BY <2>1 DEF Attributes
  <2>5. a \in DOMAIN row.writes /\ v \in row.writes[a]
    <3>1. CASE a \in DOMAIN row.accepts
      BY <2>2, <2>3, <3>1 DEF Gated
    <3>2. CASE a \notin DOMAIN row.accepts /\ ~(call.request = "placeOrder" /\ a = "upToMid")
      BY <2>2, <2>4, <3>2 DEF Ungated
    <3>3. CASE call.request = "placeOrder" /\ a = "upToMid"
      <4>1. row = placeOrder
        BY <3>3 DEF Requests
      <4>2. placeOrder.needs["upToMid"] = {{"pegBest", "competeAgainstBestOffset"}}
            /\ "upToMid" \in DOMAIN placeOrder.needs
        BY DEF placeOrder, Plain, orderCompanions
      <4>3. "competeAgainstBestOffset" \in call.set
        BY <3>3, <4>1, <4>2 DEF Accompanied
      <4>4. /\ "competeAgainstBestOffset" \in DOMAIN placeOrder.accepts
            /\ placeOrder.accepts["competeAgainstBestOffset"] =
                 Since("PEGBEST_PEGMID_OFFSETS")
        BY OrderGates DEF recentGates
      <4>5. /\ "upToMid" \in DOMAIN placeOrder.writes
            /\ placeOrder.writes["upToMid"] = Since("PEGBEST_PEGMID_OFFSETS")
        BY OrderFields DEF offsetFields
      <4> QED
        BY <2>3, <3>3, <4>1, <4>3, <4>4, <4>5
    <3> QED
      BY <3>1, <3>2, <3>3
  <2> QED
    BY <2>1, <2>5 DEF Written
<1> QED
  BY <1>1, ApiInvariant, PTL

(* Whatever version accepted a request accepts the function of EClient     *)
(* that ends it with the arguments the program gives, the two excepted     *)
(* cases aside: after a cancel TWS no longer works on the request.         *)
THEOREM CancelsEnd == ApiSpec => []CancelEnds
<1>1. ApiInv => CancelEnds
  <2> SUFFICES ASSUME ApiInv, served.request \in DOMAIN CancelOf,
                      call.request = CancelOf[served.request]
               PROVE  CannotCancel(served.request, version)
    BY DEF CancelEnds
  <2>1. served # NoCall /\ call # served
    BY CancelTable DEF NoCall
  <2> QED
    BY <2>1 DEF ApiInv, ServedCalled
<1> QED
  BY <1>1, ApiInvariant, PTL

(* Every callback of an answer with data of a request of the program goes  *)
(* out under the id and type CBrokerDataProvider registered the request    *)
(* with, for lists of any length: EDecoder's handler, IBComClientImpl and  *)
(* the registry fit each other.                                            *)
THEOREM AnswersAllReach == ApiSpec => []AnswersReach
<1>1. ApiInv => AnswersReach
  BY DEF ApiInv
<1> QED
  BY <1>1, ApiInvariant, PTL

(* EOrderDecoder reads an order with the fields EClient::placeOrder wrote, *)
(* for every combination of its attributes and every version.              *)
THEOREM OrdersComeBack == ApiSpec => []OrderComesBack
<1>1. ApiInv => OrderComesBack
  BY DEF ApiInv
<1> QED
  BY <1>1, ApiInvariant, PTL

(* The session TwsApi takes for granted is the one TwsSession provides: in *)
(* EClient's m_serverVersion a version never follows another, and it is    *)
(* one the client supports, which some server announced.                   *)
THEOREM SessionProvided == Spec => Session(Supported)
<1>1. Init => version = NoVersion
  BY DEF Init, NoVersion
<1>2. TypeInv /\ [Next]_vars => [(\E v \in Supported : begins(v)) \/ ends]_version
  <2> SUFFICES ASSUME TypeInv, [Next]_vars, version' # version
               PROVE  (\E v \in Supported : begins(v)) \/ ends
    OBVIOUS
  <2>1. CASE eDisconnect
    BY <2>1 DEF eDisconnect, ends, NoVersion
  <2>2. CASE ProcessAck /\ ~eDisconnect
    <3> DEFINE c == queue[0][1][1]
               v == offered[c]
    <3>1. version = 0 /\ queue[0] # <<>> /\ serverVersion(c)
      BY <2>2 DEF ProcessAck
    <3>2. v \in ServerVersions \cup {0}
      <4>1. queue[0] \in Seq(MessageSet) /\ offered \in [Conn -> ServerVersions \cup {0}]
        BY Bounds DEF TypeInv, ReadersOK, ServerOK
      <4>2. queue[0][1] \in MessageSet
        BY <3>1, <4>1
      <4> QED
        BY <4>1, <4>2 DEF MessageSet
    <3> HIDE DEF c
    <3>3. version' = v /\ v \in Version
      BY <2>2, <3>1, <3>2, TwsSessionAssumption DEF serverVersion, TwsSessionAssumption, client
    <3> QED
      BY <3>1, <3>2, <3>3 DEF begins, Supported, NoVersion, Version, MIN_CLIENT_VER
  <2>3. CASE ~ProcessAck /\ ~eDisconnect
    BY <2>3 DEF Next, ReaderStep, CallerStep, WorkerStep, vars, client, connectAPI, Receive,
       ReceiveEnd, putMessageToQueue, Queued, issueSignal, EndReader, CheckConnected,
       ReceiveAck, StartReader, Return, waitForSignal, Wake, processMsgs, disconnectAPI,
       SendFails, Answer, Send, Close, onClose
  <2> QED
    BY <2>1, <2>2, <2>3
<1> QED
  BY <1>1, <1>2, Typing, PTL DEF Spec, Session

=============================================================================
