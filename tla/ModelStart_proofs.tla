-------------------------- MODULE ModelStart_proofs --------------------------
(* Proofs about ModelStart for a strategy or another model, any value of   *)
(* the uninitialised flag and any bounds.                                  *)
EXTENDS ModelStart, FiniteSetTheorems, SequenceTheorems, TLAPS

-----------------------------------------------------------------------------
(* Types: what is asked, answered and stored is what the model needs.      *)
Needed == {"info"} \cup IF IsStrategy THEN {"data"} ELSE {}
Asked  == Needed \cup IF IsStrategy THEN {"positions"} ELSE {}

Question == {"get"} \X Asked
Command  == {<<"open">>} \cup Question \cup ({"put"} \X Needed)
Answer   == ({"db"} \X {"open", "failed"}) \cup (Asked \X {"valid", "not_found", "error"})

FlagsOK  == opened \in BOOLEAN /\ failed \in BOOLEAN
CountsOK == fails \in 0 .. MaxFails /\ restarts \in 0 .. MaxRestarts
QueuesOK == queue \in Seq(Command) /\ inbox \in Seq(Answer)
ModelOK  == phase \in {"init", "init2", "ready"} /\ rows \subseteq Needed

TypeInv == FlagsOK /\ CountsOK /\ QueuesOK /\ ModelOK

Has(s, x) == \E i \in 1 .. Len(s) : s[i] = x

LEMMA Questions ==
  /\ requestInitData \in Seq(Question) /\ Len(requestInitData) \in Nat
  /\ \A kind \in Asked : Has(requestInitData, <<"get", kind>>)
<1>1. CASE IsStrategy
  <2> DEFINE A == <<<<"get", "info">>>>
             B == <<<<"get", "data">>, <<"get", "positions">>>>
  <2>1. requestInitData = A \o B
    BY <1>1 DEF requestInitData
  <2>2. Asked = {"info", "data", "positions"}
    BY <1>1 DEF Asked, Needed
  <2>3. /\ A \in Seq(Question) /\ Len(A) = 1 /\ A[1] = <<"get", "info">>
        /\ B \in Seq(Question) /\ Len(B) = 2
        /\ B[1] = <<"get", "data">> /\ B[2] = <<"get", "positions">>
    BY <2>2 DEF Question
  <2> HIDE DEF A, B
  <2> DEFINE Q == A \o B
  <2>4. /\ Q \in Seq(Question) /\ Len(Q) = Len(A) + Len(B)
        /\ \A i \in 1 .. Len(A) + Len(B) : Q[i] = IF i <= Len(A) THEN A[i] ELSE B[i - Len(A)]
    BY <2>3, ConcatProperties
  <2> HIDE DEF Q
  <2>5. Q[1] = A[1] /\ Q[2] = B[1] /\ Q[3] = B[2] /\ Len(Q) = 3
    BY <2>3, <2>4
  <2>6. \A kind \in Asked : Has(Q, <<"get", kind>>)
    BY <2>2, <2>3, <2>5 DEF Has
  <2> QED
    BY <2>1, <2>4, <2>5, <2>6 DEF Q
<1>2. CASE ~IsStrategy
  <2>1. requestInitData = <<<<"get", "info">>>>
    BY <1>2 DEF requestInitData
  <2> QED
    BY <1>2, <2>1 DEF Question, Asked, Needed, Has
<1> QED
  BY <1>1, <1>2

(* One statement among those of a sequence. *)
LEMMA Inserted ==
  ASSUME NEW S, NEW R \in Seq(S), NEW x \in S, NEW k \in 0 .. Len(R)
  PROVE  LET s == SubSeq(R, 1, k) \o <<x>> \o SubSeq(R, k + 1, Len(R))
         IN  /\ s \in Seq(S)
             /\ \A y : Has(R, y) => Has(s, y)
<1> DEFINE A == SubSeq(R, 1, k)
           B == SubSeq(R, k + 1, Len(R))
           n == Len(R)
<1>0. n \in Nat /\ k \in Nat /\ k <= n /\ \A i \in 1 .. n : R[i] \in S
  BY LenProperties, ElementOfSeq
<1>1. /\ A \in Seq(S) /\ Len(A) = k /\ \A i \in 1 .. k : A[i] = R[i]
  BY <1>0, SubSeqProperties
<1>2. /\ B \in Seq(S) /\ Len(B) = n - k /\ \A i \in 1 .. n - k : B[i] = R[k + i]
  BY <1>0, SubSeqProperties
<1>3. /\ <<x>> \in Seq(S) /\ Len(<<x>>) = 1
  OBVIOUS
<1> HIDE DEF A, B
<1> DEFINE AX == A \o <<x>>
<1>4. /\ AX \in Seq(S) /\ Len(AX) = k + 1 /\ \A i \in 1 .. k : AX[i] = A[i]
  BY <1>0, <1>1, <1>3, ConcatProperties
<1> HIDE DEF AX
<1> DEFINE s == AX \o B
<1>5. /\ s \in Seq(S) /\ Len(s) = n + 1
      /\ \A i \in 1 .. k : s[i] = R[i]
      /\ \A i \in k + 1 .. n : s[i + 1] = R[i]
  <2>1. /\ s \in Seq(S) /\ Len(s) = Len(AX) + Len(B)
        /\ \A i \in 1 .. Len(AX) + Len(B) : s[i] = IF i <= Len(AX) THEN AX[i] ELSE B[i - Len(AX)]
    BY <1>2, <1>4, ConcatProperties
  <2> HIDE DEF s
  <2>2. Len(AX) + Len(B) = n + 1
    BY <1>0, <1>2, <1>4
  <2>4. ASSUME NEW i \in 1 .. k PROVE s[i] = R[i]
    <3>1. i \in 1 .. Len(AX) + Len(B) /\ i <= Len(AX)
      BY <1>0, <1>4, <2>2
    <3> QED
      BY <1>1, <1>4, <2>1, <3>1
  <2>3. ASSUME NEW i \in k + 1 .. n PROVE s[i + 1] = R[i]
    <3>1. i + 1 \in 1 .. n + 1 /\ i - k \in 1 .. n - k /\ (i + 1) - (k + 1) = i - k /\ k + (i - k) = i
          /\ ~(i + 1 <= k + 1)
      BY <1>0
    <3>2. \A j \in 1 .. n + 1 : s[j] = IF j <= k + 1 THEN AX[j] ELSE B[j - (k + 1)]
      BY <1>4, <2>1, <2>2
    <3>3. s[i + 1] = B[(i + 1) - (k + 1)]
      BY <3>1, <3>2
    <3> QED
      BY <1>2, <3>1, <3>3
  <2> QED
    BY <2>1, <2>2, <2>3, <2>4
<1> HIDE DEF s
<1>6. ASSUME NEW y, Has(R, y) PROVE Has(s, y)
  <2>1. PICK i \in 1 .. n : R[i] = y
    BY <1>6 DEF Has
  <2>2. CASE i \in 1 .. k
    BY <1>0, <1>5, <2>1, <2>2 DEF Has
  <2>3. CASE i \in k + 1 .. n
    <3>1. i + 1 \in 1 .. Len(s) /\ s[i + 1] = R[i]
      BY <1>0, <1>5, <2>3
    <3> QED
      BY <2>1, <3>1 DEF Has
  <2> QED
    BY <1>0, <2>2, <2>3
<1> QED
  BY <1>5, <1>6 DEF s, AX, A, B

LEMMA CreatedType ==
  ASSUME NEW c \in Created
  PROVE  /\ c.phase \in {"init", "init2"} /\ c.queue \in Seq(Command)
         /\ c.phase # "init" => \A kind \in Asked : Has(c.queue, <<"get", kind>>)
<1> DEFINE R == requestInitData
<1>1. R \in Seq(Command) /\ <<"open">> \in Command
  <2>1. Question \subseteq Command
    BY DEF Command
  <2> QED
    BY <2>1, Questions, SeqMonotonic DEF Command
<1>2. CASE c = [phase |-> "init", queue |-> <<<<"open">>>>]
  BY <1>1, <1>2
<1>3. CASE \E k \in 0 .. Len(R) :
             c = [phase |-> "init2",
                  queue |-> SubSeq(R, 1, k) \o <<<<"open">>>> \o SubSeq(R, k + 1, Len(R))]
  BY <1>1, <1>3, Inserted, Questions
<1> QED
  BY <1>2, <1>3 DEF Created

LEMMA ConcatHas ==
  ASSUME NEW S, NEW s \in Seq(S), NEW t \in Seq(S)
  PROVE  /\ s \o t \in Seq(S)
         /\ \A x : Has(s, x) \/ Has(t, x) => Has(s \o t, x)
<1> DEFINE st == s \o t
<1>1. /\ st \in Seq(S) /\ Len(st) = Len(s) + Len(t) /\ Len(s) \in Nat /\ Len(t) \in Nat
      /\ \A i \in 1 .. Len(s) + Len(t) : st[i] = IF i <= Len(s) THEN s[i] ELSE t[i - Len(s)]
  BY ConcatProperties, LenProperties
<1> HIDE DEF st
<1>2. \A i \in 1 .. Len(s) : i \in 1 .. Len(st) /\ st[i] = s[i]
  BY <1>1
<1>3. ASSUME NEW i \in 1 .. Len(t) PROVE Len(s) + i \in 1 .. Len(st) /\ st[Len(s) + i] = t[i]
  <2>1. /\ Len(s) + i \in 1 .. Len(s) + Len(t) /\ ~(Len(s) + i <= Len(s))
        /\ (Len(s) + i) - Len(s) = i
    BY <1>1
  <2> QED
    BY <1>1, <2>1
<1>4. \A x : Has(s, x) \/ Has(t, x) => Has(st, x)
  BY <1>2, <1>3 DEF Has
<1> QED
  BY <1>1, <1>4 DEF st

LEMMA TailHas ==
  ASSUME NEW S, NEW s \in Seq(S), s # <<>>
  PROVE  /\ s[1] \in S /\ Tail(s) \in Seq(S)
         /\ \A x : Has(s, x) => x = s[1] \/ Has(Tail(s), x)
<1>1. /\ Len(s) \in Nat \ {0} /\ Tail(s) \in Seq(S) /\ Len(Tail(s)) = Len(s) - 1
      /\ \A i \in 1 .. Len(Tail(s)) : Tail(s)[i] = s[i + 1]
  BY EmptySeq, LenProperties, HeadTailProperties
<1>2. s[1] \in S
  BY <1>1, ElementOfSeq
<1>3. ASSUME NEW x, Has(s, x), x # s[1] PROVE Has(Tail(s), x)
  <2>1. PICK i \in 1 .. Len(s) : s[i] = x
    BY <1>3 DEF Has
  <2>2. i - 1 \in 1 .. Len(Tail(s)) /\ (i - 1) + 1 = i
    BY <1>1, <1>3, <2>1
  <2>3. Tail(s)[i - 1] = s[i]
    BY <1>1, <2>2
  <2> QED
    BY <2>1, <2>2, <2>3 DEF Has
<1> QED
  BY <1>1, <1>2, <1>3

LEMMA AppendHas ==
  ASSUME NEW S, NEW s \in Seq(S), NEW e \in S
  PROVE  /\ Append(s, e) \in Seq(S)
         /\ \A x : Has(s, x) \/ x = e => Has(Append(s, e), x)
<1>1. /\ Append(s, e) \in Seq(S) /\ Len(s) \in Nat /\ Len(Append(s, e)) = Len(s) + 1
      /\ \A i \in 1 .. Len(s) : Append(s, e)[i] = s[i]
      /\ Append(s, e)[Len(s) + 1] = e
  BY AppendProperties, LenProperties
<1> QED
  BY <1>1 DEF Has

-----------------------------------------------------------------------------
(* What a step of the GUI thread appends, and what the database thread     *)
(* answers.                                                                *)
LEMMA CommandTypes ==
  /\ requestInitData \in Seq(Command) /\ <<>> \in Seq(Command)
  /\ \A kind \in Needed : <<<<"put", kind>>>> \in Seq(Command)
<1>1. Question \subseteq Command
  BY DEF Command
<1>2. \A kind \in Needed : <<"put", kind>> \in Command
  BY DEF Command
<1> QED
  BY <1>1, <1>2, Questions, SeqMonotonic

LEMMA GuiShape ==
  ASSUME TypeInv, GuiStep
  PROVE  \E kind \in {"db", "info", "data", "positions"}, statements \in Seq(Command) :
           /\ Handle(kind, statements)
           /\ phase' \in {"init", "init2", "ready"}
           /\ phase' # "init" /\ phase = "init" => statements = requestInitData
           /\ phase # "init" => phase' # "init"
           /\ inbox[1][2] = "not_found" /\ inbox[1][1] \in Needed
                => statements = <<<<"put", inbox[1][1]>>>>
<1>0. /\ phase \in {"init", "init2", "ready"} /\ inbox # <<>>
      /\ inbox[1] \in Answer
  <2>1. inbox # <<>>
    BY DEF GuiStep, slotDbManagerConnectionState, slotModelInfoFetched, slotStrategyDataFetched,
           slotOpenPositionsFetched, Handle
  <2> QED
    BY <2>1, TailHas DEF TypeInv, QueuesOK, ModelOK
<1>1. CASE slotDbManagerConnectionState
  <2>1. inbox[1][1] = "db" /\ inbox[1][1] \notin Needed
    BY <1>1 DEF slotDbManagerConnectionState, Handle, Needed
  <2>2. CASE inbox # <<>> /\ inbox[1][2] = "open" /\ phase = "init"
    <3>1. phase' = "init2" /\ Handle("db", requestInitData)
      BY <1>1, <2>2 DEF slotDbManagerConnectionState
    <3> QED
      BY <2>1, <3>1, CommandTypes
  <2>3. CASE ~(inbox # <<>> /\ inbox[1][2] = "open" /\ phase = "init")
    <3>1. UNCHANGED phase /\ Handle("db", <<>>)
      BY <1>1, <2>3 DEF slotDbManagerConnectionState
    <3> QED
      BY <1>0, <2>1, <3>1, CommandTypes
  <2> QED
    BY <2>2, <2>3
<1>2. ASSUME inbox[1][1] \in {"info", "data"}
      PROVE  /\ inbox[1][1] \in Needed
             /\ Missing(inbox[1][1]) \in Seq(Command)
             /\ inbox[1][2] = "not_found" => Missing(inbox[1][1]) = <<<<"put", inbox[1][1]>>>>
  <2>1. inbox[1][1] \in Needed
    BY <1>0, <1>2 DEF Answer, Asked, Needed
  <2> QED
    BY <1>0, <2>1, CommandTypes DEF Missing
<1>3. CASE slotModelInfoFetched
  <2>1. /\ inbox[1][1] = "info" /\ Handle("info", Missing("info"))
        /\ phase' = IF phase = "init2" THEN "ready" ELSE phase
    BY <1>3 DEF slotModelInfoFetched, Handle
  <2>2. /\ Missing("info") \in Seq(Command)
        /\ inbox[1][2] = "not_found" => Missing("info") = <<<<"put", inbox[1][1]>>>>
    BY <1>2, <2>1
  <2> QED
    BY <1>0, <2>1, <2>2
<1>4. CASE slotStrategyDataFetched
  <2>1. inbox[1][1] = "data" /\ Handle("data", Missing("data")) /\ UNCHANGED phase
    BY <1>4 DEF slotStrategyDataFetched, Handle
  <2>2. /\ Missing("data") \in Seq(Command)
        /\ inbox[1][2] = "not_found" => Missing("data") = <<<<"put", inbox[1][1]>>>>
    BY <1>2, <2>1
  <2> QED
    BY <1>0, <2>1, <2>2
<1>5. CASE slotOpenPositionsFetched
  <2>1. inbox[1][1] = "positions" /\ Handle("positions", <<>>) /\ UNCHANGED phase
    BY <1>5 DEF slotOpenPositionsFetched, Handle
  <2>2. inbox[1][1] \notin Needed
    BY <2>1 DEF Needed
  <2> QED
    BY <1>0, <2>1, <2>2, CommandTypes
<1> QED
  BY <1>1, <1>3, <1>4, <1>5 DEF GuiStep

(* The thread takes its next statement, and tells what became of it. *)
LEMMA DbShape ==
  ASSUME TypeInv, DbStep
  PROVE  /\ queue # <<>> /\ queue[1] \in Command /\ queue' = Tail(queue)
         /\ UNCHANGED <<phase, restarts>>
         /\ inbox' = inbox \/ \E answer \in Answer : inbox' = Append(inbox, answer)
         /\ rows \subseteq rows' /\ rows' \subseteq Needed
         /\ FlagsOK' /\ fails' \in 0 .. MaxFails
         /\ ~failed' => ~failed /\ \A kind \in Needed :
              /\ queue[1] = <<"put", kind>> => kind \in rows'
              /\ queue[1] = <<"get", kind>> =>
                   kind \in rows \/ inbox' = Append(inbox, <<kind, "not_found">>)
<1> DEFINE kind == queue[1][2]
<1>1. queue # <<>> /\ queue' = Tail(queue) /\ UNCHANGED <<phase, restarts>>
  BY DEF DbStep, initializeConnectionSlot, Fetch, AddOrUpdate, Statement
<1>2. queue[1] \in Command
  BY <1>1, TailHas DEF TypeInv, QueuesOK
<1>3. Fail => failed' = TRUE /\ fails' \in 0 .. MaxFails
  BY ModelStartAssumption DEF Fail, TypeInv, CountsOK, ModelStartAssumption
<1>4. /\ Fail \/ UNCHANGED <<failed, fails>>
      /\ opened' = TRUE \/ opened' = opened
  BY DEF DbStep, initializeConnectionSlot, Fetch, AddOrUpdate
<1>5. fails' \in 0 .. MaxFails
  BY <1>3, <1>4 DEF TypeInv, CountsOK
<1>6. FlagsOK' /\ (~failed' => ~failed)
  <2>1. (failed' = TRUE \/ failed' = failed) /\ (opened' = TRUE \/ opened' = opened)
    BY <1>3, <1>4, Zenon
  <2>2. FlagsOK'
    BY <2>1 DEF TypeInv, FlagsOK
  <2>3. ~failed' => ~failed
    BY <2>1
  <2> QED
    BY <2>2, <2>3
<1>7. CASE initializeConnectionSlot
  <2>1. queue[1][1] = "open" /\ UNCHANGED rows
    BY <1>7 DEF initializeConnectionSlot, Statement
  <2>2. \E answer \in Answer : inbox' = Append(inbox, answer)
    <3>1. <<"db", "open">> \in Answer /\ <<"db", "failed">> \in Answer
      BY DEF Answer
    <3> QED
      BY <1>7, <3>1 DEF initializeConnectionSlot, Tell
  <2>3. rows \subseteq rows' /\ rows' \subseteq Needed
    BY <2>1 DEF TypeInv, ModelOK
  <2>4. \A k \in Needed : queue[1] # <<"put", k>> /\ queue[1] # <<"get", k>>
    BY <2>1
  <2> QED
    BY <1>1, <1>2, <1>5, <1>6, <2>2, <2>3, <2>4, Zenon
<1>8. CASE Fetch
  <2>1. queue[1][1] = "get" /\ UNCHANGED rows
    BY <1>8 DEF Fetch, Statement
  <2>2. kind \in Asked
    BY <1>2, <2>1 DEF Command, Question
  <2>3. \/ inbox' = Append(inbox, <<kind, IF kind \in rows THEN "valid" ELSE "not_found">>)
        \/ Fail /\ inbox' = Append(inbox, <<kind, "error">>)
    BY <1>8 DEF Fetch, Tell
  <2>4. \E answer \in Answer : inbox' = Append(inbox, answer)
    <3>1. \A a \in {"valid", "not_found", "error"} : <<kind, a>> \in Answer
      BY <2>2 DEF Answer
    <3> QED
      BY <2>3, <3>1
  <2>5. rows \subseteq rows' /\ rows' \subseteq Needed
    BY <2>1 DEF TypeInv, ModelOK
  <2>6. ~failed' => kind \in rows \/ inbox' = Append(inbox, <<kind, "not_found">>)
    BY <1>3, <2>3
  <2>7. /\ \A k \in Needed : queue[1] # <<"put", k>>
        /\ ~failed' => \A k \in Needed : queue[1] = <<"get", k>> =>
             k \in rows \/ inbox' = Append(inbox, <<k, "not_found">>)
    BY <2>1, <2>6
  <2> QED
    BY <1>1, <1>2, <1>5, <1>6, <2>4, <2>5, <2>7, Zenon
<1>9. CASE AddOrUpdate
  <2>1. queue[1][1] = "put" /\ UNCHANGED inbox
    BY <1>9 DEF AddOrUpdate, Statement
  <2>2. kind \in Needed
    BY <1>2, <2>1 DEF Command, Question
  <2>3. rows' = rows \cup {kind} \/ (Fail /\ UNCHANGED rows)
    BY <1>9 DEF AddOrUpdate
  <2>4. rows \subseteq rows' /\ rows' \subseteq Needed
    BY <2>2, <2>3 DEF TypeInv, ModelOK
  <2>5. ~failed' => kind \in rows'
    BY <1>3, <2>3
  <2>6. /\ \A k \in Needed : queue[1] # <<"get", k>>
        /\ ~failed' => \A k \in Needed : queue[1] = <<"put", k>> => k \in rows'
    BY <2>1, <2>5
  <2> QED
    BY <1>1, <1>2, <1>5, <1>6, <2>1, <2>4, <2>6, Zenon
<1> QED
  BY <1>7, <1>8, <1>9 DEF DbStep

LEMMA TypeStep == TypeInv /\ [Next]_dbVars => TypeInv'
<1> SUFFICES ASSUME TypeInv, [Next]_dbVars PROVE TypeInv'
  OBVIOUS
<1>1. CASE GuiStep
  <2>1. PICK kind \in {"db", "info", "data", "positions"}, statements \in Seq(Command) :
          Handle(kind, statements) /\ phase' \in {"init", "init2", "ready"}
    BY <1>1, GuiShape
  <2>2. /\ inbox # <<>> /\ inbox' = Tail(inbox) /\ queue' = queue \o statements
        /\ UNCHANGED <<opened, rows, failed, fails, restarts>>
    BY <2>1 DEF Handle
  <2>3. QueuesOK'
    BY <2>2, ConcatHas, TailHas DEF TypeInv, QueuesOK
  <2> QED
    BY <2>1, <2>2, <2>3 DEF TypeInv, FlagsOK, CountsOK, ModelOK
<1>2. CASE DbStep
  <2>1. /\ queue # <<>> /\ queue' = Tail(queue)
        /\ inbox' = inbox \/ \E answer \in Answer : inbox' = Append(inbox, answer)
    BY <1>2, DbShape, Zenon
  <2>2. QueuesOK'
    BY <2>1, TailHas, AppendHas DEF TypeInv, QueuesOK
  <2>3. UNCHANGED <<phase, restarts>> /\ rows' \subseteq Needed /\ fails' \in 0 .. MaxFails /\ FlagsOK'
    BY <1>2, DbShape, Zenon
  <2>4. CountsOK' /\ ModelOK'
    BY <2>3 DEF TypeInv, CountsOK, ModelOK
  <2> QED
    BY <2>2, <2>3, <2>4 DEF TypeInv
<1>3. CASE Restart
  <2>1. PICK c \in Created : phase' = c.phase /\ queue' = c.queue
    BY <1>3 DEF Restart
  <2>2. c.phase \in {"init", "init2"} /\ c.queue \in Seq(Command)
    BY CreatedType
  <2>3. inbox' = <<>> /\ UNCHANGED <<rows, fails>> /\ restarts < MaxRestarts /\ restarts' = restarts + 1
    BY <1>3 DEF Restart
  <2>4. QueuesOK' /\ ModelOK'
    BY <2>1, <2>2, <2>3 DEF TypeInv, QueuesOK, ModelOK
  <2>5. CountsOK'
    BY <2>3, ModelStartAssumption DEF TypeInv, CountsOK, ModelStartAssumption
  <2>6. FlagsOK'
    BY <1>3 DEF Restart, FlagsOK
  <2> QED
    BY <2>4, <2>5, <2>6 DEF TypeInv
<1>4. CASE UNCHANGED dbVars
  BY <1>4 DEF dbVars, TypeInv, FlagsOK, CountsOK, QueuesOK, ModelOK
<1> QED
  BY <1>1, <1>2, <1>3, <1>4 DEF Next

LEMMA TypeInit == Init => TypeInv
<1> SUFFICES ASSUME Init PROVE TypeInv
  OBVIOUS
<1>1. PICK c \in Created : phase = c.phase /\ queue = c.queue
  BY DEF Init
<1>2. c.phase \in {"init", "init2"} /\ c.queue \in Seq(Command)
  BY CreatedType
<1>3. QueuesOK /\ ModelOK
  BY <1>1, <1>2 DEF Init, QueuesOK, ModelOK
<1>4. CountsOK
  BY ModelStartAssumption DEF Init, CountsOK, ModelStartAssumption
<1>5. FlagsOK
  BY DEF Init, FlagsOK
<1> QED
  BY <1>3, <1>4, <1>5 DEF TypeInv

LEMMA TypeAlways == Spec => []TypeInv
  BY TypeInit, TypeStep, PTL DEF Spec

(* Every variable has its type in every state of the program. *)
THEOREM TypeCorrect == Spec => []TypeOK
<1>1. ASSUME TypeInv PROVE TypeOK
  <2>1. /\ Command \subseteq {<<"open">>} \cup {"get", "put"} \X {"info", "data", "positions"}
        /\ Answer \subseteq {"db"} \X {"open", "failed"} \cup
                            {"info", "data", "positions"} \X {"valid", "not_found", "error"}
        /\ Needed \subseteq {"info", "data"}
    BY DEF Command, Answer, Question, Asked, Needed
  <2>2. /\ queue \in Seq({<<"open">>} \cup {"get", "put"} \X {"info", "data", "positions"})
        /\ inbox \in Seq({"db"} \X {"open", "failed"} \cup
                         {"info", "data", "positions"} \X {"valid", "not_found", "error"})
    BY <1>1, <2>1, SeqMonotonic DEF TypeInv, QueuesOK
  <2> QED
    BY <1>1, <2>1, <2>2 DEF TypeInv, FlagsOK, CountsOK, ModelOK, TypeOK
<1> QED
  BY <1>1, TypeAlways, PTL

-----------------------------------------------------------------------------
(* Rows.  Once the model has asked, each row it needs is in the database,  *)
(* or a question, its answer or the command to store it is on its way.     *)
OnItsWay(kind) ==
  \/ kind \in rows
  \/ Has(queue, <<"get", kind>>) \/ Has(queue, <<"put", kind>>)
  \/ Has(inbox, <<kind, "not_found">>)

RowsInv == (phase # "init" /\ ~failed) => \A kind \in Needed : OnItsWay(kind)

LEMMA RowsCreated ==
  ASSUME NEW c \in Created, phase = c.phase, queue = c.queue
  PROVE  RowsInv
<1> SUFFICES ASSUME phase # "init", NEW kind \in Needed PROVE OnItsWay(kind)
  BY DEF RowsInv
<1>1. kind \in Asked
  BY DEF Asked
<1>2. Has(queue, <<"get", kind>>)
  BY <1>1, CreatedType
<1> QED
  BY <1>2, Zenon DEF OnItsWay

LEMMA RowsStep == TypeInv /\ RowsInv /\ [Next]_dbVars => RowsInv'
<1> SUFFICES ASSUME TypeInv, RowsInv, [Next]_dbVars,
                    phase' # "init", ~failed', NEW need \in Needed
             PROVE  OnItsWay(need)'
  BY DEF RowsInv
<1>0. queue \in Seq(Command) /\ inbox \in Seq(Answer)
  BY DEF TypeInv, QueuesOK
<1>1. CASE GuiStep
  <2>1. PICK kind \in {"db", "info", "data", "positions"}, statements \in Seq(Command) :
          /\ Handle(kind, statements)
          /\ phase' # "init" /\ phase = "init" => statements = requestInitData
          /\ inbox[1][2] = "not_found" /\ inbox[1][1] \in Needed
               => statements = <<<<"put", inbox[1][1]>>>>
    BY <1>1, GuiShape
  <2>2. /\ inbox # <<>> /\ inbox' = Tail(inbox) /\ queue' = queue \o statements
        /\ rows' = rows /\ failed' = failed
    BY <2>1 DEF Handle
  <2>3. /\ \A x : Has(queue, x) \/ Has(statements, x) => Has(queue', x)
        /\ \A x : Has(inbox, x) => x = inbox[1] \/ Has(inbox', x)
    BY <1>0, <2>2, ConcatHas, TailHas
  <2>4. CASE phase = "init"
    <3>1. Has(statements, <<"get", need>>)
      BY <2>1, <2>4, Questions DEF Asked
    <3> QED
      BY <2>3, <3>1 DEF OnItsWay
  <2>5. CASE phase # "init"
    <3>1. OnItsWay(need)
      BY <2>2, <2>5 DEF RowsInv
    <3>2. CASE inbox[1] = <<need, "not_found">>
      <4>1. statements = <<<<"put", need>>>>
        BY <2>1, <3>2
      <4>2. Has(statements, <<"put", need>>)
        BY <4>1 DEF Has
      <4> QED
        BY <2>3, <4>2 DEF OnItsWay
    <3>3. CASE inbox[1] # <<need, "not_found">>
      BY <2>2, <2>3, <3>1, <3>3 DEF OnItsWay
    <3> QED
      BY <3>2, <3>3
  <2> QED
    BY <2>4, <2>5
<1>2. CASE DbStep
  <2>1. /\ queue # <<>> /\ queue' = Tail(queue) /\ phase' = phase /\ ~failed
        /\ inbox' = inbox \/ \E answer \in Answer : inbox' = Append(inbox, answer)
        /\ rows \subseteq rows'
        /\ queue[1] = <<"put", need>> => need \in rows'
        /\ queue[1] = <<"get", need>> =>
             need \in rows \/ inbox' = Append(inbox, <<need, "not_found">>)
    BY <1>2, DbShape
  <2>2. OnItsWay(need)
    BY <2>1 DEF RowsInv
  <2>3. \A x : Has(queue, x) => x = queue[1] \/ Has(queue', x)
    BY <1>0, <2>1, TailHas
  <2>4. \A x : Has(inbox, x) => Has(inbox', x)
    BY <1>0, <2>1, AppendHas
  <2>5. inbox' = Append(inbox, <<need, "not_found">>) => Has(inbox', <<need, "not_found">>)
    <3>1. <<need, "not_found">> \in Answer
      BY DEF Answer, Asked
    <3> QED
      BY <1>0, <3>1, AppendHas
  <2> QED
    BY <2>1, <2>2, <2>3, <2>4, <2>5, Zenon DEF OnItsWay
<1>3. CASE Restart
  <2>1. PICK c \in Created : phase' = c.phase /\ queue' = c.queue
    BY <1>3 DEF Restart
  <2>2. Has(queue', <<"get", need>>)
    BY <2>1, CreatedType DEF Asked
  <2> QED
    BY <2>2 DEF OnItsWay
<1>4. CASE UNCHANGED dbVars
  BY <1>4 DEF dbVars, RowsInv, OnItsWay
<1> QED
  BY <1>1, <1>2, <1>3, <1>4 DEF Next

(* A ready model none of whose statements has failed finds its rows in the *)
(* database once the threads have nothing left to do, and no others.       *)
THEOREM RowsAreStored == Spec => []RowsStored
<1>1. Init => RowsInv
  BY RowsCreated DEF Init
<1>2. ASSUME TypeInv, RowsInv PROVE RowsStored
  <2> SUFFICES ASSUME queue = <<>>, inbox = <<>>, phase = "ready", ~failed
               PROVE  rows = Needed
    BY DEF RowsStored, Needed
  <2>1. \A x : ~Has(queue, x) /\ ~Has(inbox, x)
    BY DEF Has
  <2>2. Needed \subseteq rows
    BY <1>2, <2>1 DEF RowsInv, OnItsWay
  <2> QED
    BY <1>2, <2>2 DEF TypeInv, ModelOK
<1> QED
  BY <1>1, <1>2, RowsStep, TypeAlways, PTL DEF Spec

-----------------------------------------------------------------------------
(* Counting the elements of a sequence of some kinds.                      *)
Marked(s, M) == {i \in DOMAIN s : s[i][1] \in M}
Count(s, M)  == Cardinality(Marked(s, M))

LEMMA MarkedFinite ==
  ASSUME NEW S, NEW s \in Seq(S), NEW M
  PROVE  IsFiniteSet(Marked(s, M)) /\ Count(s, M) \in Nat
<1>1. Len(s) \in Nat /\ Marked(s, M) \in SUBSET (1 .. Len(s))
  BY LenProperties DEF Marked
<1>2. IsFiniteSet(1 .. Len(s))
  BY <1>1, FS_Interval
<1>3. IsFiniteSet(Marked(s, M))
  BY <1>1, <1>2, FS_Subset
<1> QED
  BY <1>3, FS_CardinalityType DEF Count

LEMMA Shifted ==
  ASSUME NEW A \in SUBSET Int, IsFiniteSet(A), NEW k \in Int
  PROVE  IsFiniteSet({i + k : i \in A}) /\ Cardinality({i + k : i \in A}) = Cardinality(A)
<1> DEFINE B == {i + k : i \in A}
           f == [i \in A |-> i + k]
<1>1. f \in [A -> B] /\ \A b \in B : \E i \in A : f[i] = b
  OBVIOUS
<1>2. IsInjective(f)
  BY DEF IsInjective
<1> HIDE DEF f, B
<1>3. f \in Bijection(A, B)
  BY <1>1, <1>2 DEF Bijection, Injection, Surjection
<1>4. IsFiniteSet(B) /\ Cardinality(B) = Cardinality(A)
  BY <1>3, FS_Bijection DEF ExistsBijection
<1> QED
  BY <1>4 DEF B

LEMMA CountTail ==
  ASSUME NEW S, NEW s \in Seq(S), s # <<>>, NEW M
  PROVE  Count(Tail(s), M) = Count(s, M) - IF s[1][1] \in M THEN 1 ELSE 0
<1> DEFINE A == Marked(s, M)
           B == Marked(Tail(s), M)
<1>1. /\ Len(s) \in Nat \ {0} /\ Tail(s) \in Seq(S) /\ Len(Tail(s)) = Len(s) - 1
      /\ DOMAIN s = 1 .. Len(s) /\ DOMAIN Tail(s) = 1 .. Len(s) - 1
      /\ \A i \in 1 .. Len(s) - 1 : Tail(s)[i] = s[i + 1]
  <2>1. Len(s) \in Nat \ {0}
    BY EmptySeq
  <2>2. Tail(s) \in Seq(S) /\ Len(Tail(s)) = Len(s) - 1
    BY HeadTailProperties
  <2> QED
    BY <2>1, <2>2, LenProperties, HeadTailProperties
<1>2. /\ \A i \in A \ {1} : i - 1 \in B /\ (i - 1) + 1 = i
      /\ \A j \in B : j + 1 \in A \ {1} /\ j \in Int
  BY <1>1 DEF Marked
<1>3. 1 \in A <=> s[1][1] \in M
  BY <1>1 DEF Marked
<1>4. IsFiniteSet(A) /\ IsFiniteSet(B) /\ Cardinality(A) \in Nat
  BY <1>1, MarkedFinite, Zenon DEF Count
<1> HIDE DEF A, B
<1>6. Cardinality(A \ {1}) = Cardinality(B)
  <2>1. B \in SUBSET Int
    BY <1>2
  <2>2. \A k \in Int : Cardinality({j + k : j \in B}) = Cardinality(B)
    BY <1>4, <2>1, Shifted
  <2>3. PICK k \in Int : k = 1
    OBVIOUS
  <2>4. A \ {1} = {j + k : j \in B}
    BY <1>2, <2>3
  <2> QED
    BY <2>2, <2>4
<1>7. Cardinality(A \ {1}) = IF 1 \in A THEN Cardinality(A) - 1 ELSE Cardinality(A)
  BY <1>4, FS_RemoveElement
<1> QED
  BY <1>3, <1>4, <1>6, <1>7 DEF Count, A, B

LEMMA CountConcat ==
  ASSUME NEW S, NEW s \in Seq(S), NEW t \in Seq(S), NEW M
  PROVE  Count(s \o t, M) = Count(s, M) + Count(t, M)
<1> DEFINE A == Marked(s, M)
           B == Marked(t, M)
           C == Marked(s \o t, M)
           n == Len(s)
           D == {j + n : j \in B}
<1>1. /\ s \o t \in Seq(S) /\ Len(s \o t) = n + Len(t) /\ n \in Nat /\ Len(t) \in Nat
      /\ DOMAIN s = 1 .. n /\ DOMAIN t = 1 .. Len(t) /\ DOMAIN (s \o t) = 1 .. n + Len(t)
      /\ \A i \in 1 .. n + Len(t) : (s \o t)[i] = IF i <= n THEN s[i] ELSE t[i - n]
  BY ConcatProperties, LenProperties
<1>2. /\ \A i \in C : i \in A \/ (i - n \in B /\ (i - n) + n = i)
      /\ \A i \in A : i \in C /\ i <= n
      /\ \A j \in B : j + n \in C /\ j + n > n /\ j \in Int
  <2>1. \A i \in 1 .. n : i \in 1 .. n + Len(t) /\ (s \o t)[i] = s[i]
    BY <1>1
  <2>2. ASSUME NEW j \in 1 .. Len(t)
        PROVE  j + n \in 1 .. n + Len(t) /\ (s \o t)[j + n] = t[j] /\ j + n > n
    <3>1. j + n \in 1 .. n + Len(t) /\ ~(j + n <= n) /\ (j + n) - n = j
      BY <1>1
    <3> QED
      BY <1>1, <3>1
  <2>3. ASSUME NEW i \in 1 .. n + Len(t), i \notin 1 .. n
        PROVE  i - n \in 1 .. Len(t) /\ (i - n) + n = i
    BY <1>1, <2>3
  <2>4. ASSUME NEW i \in C, i \notin 1 .. n PROVE i - n \in B /\ (i - n) + n = i
    <3>1. i \in 1 .. n + Len(t) /\ (s \o t)[i][1] \in M
      BY <1>1 DEF Marked
    <3>2. i - n \in 1 .. Len(t) /\ (i - n) + n = i
      BY <2>3, <2>4, <3>1
    <3>3. (s \o t)[i] = t[i - n]
      BY <2>2, <3>2
    <3> QED
      BY <1>1, <3>1, <3>2, <3>3 DEF Marked
  <2>5. ASSUME NEW i \in C, i \in 1 .. n PROVE i \in A
    BY <1>1, <2>1, <2>5 DEF Marked
  <2>6. ASSUME NEW i \in A PROVE i \in C /\ i <= n
    BY <1>1, <2>1 DEF Marked
  <2>7. ASSUME NEW j \in B PROVE j + n \in C /\ j + n > n /\ j \in Int
    BY <1>1, <2>2 DEF Marked
  <2> QED
    BY <2>4, <2>5, <2>6, <2>7
<1>3. IsFiniteSet(A) /\ IsFiniteSet(B) /\ Cardinality(A) \in Nat /\ Cardinality(B) \in Nat
  BY MarkedFinite DEF Count
<1> HIDE DEF A, B, C
<1>4. C = A \cup D /\ A \cap D = {}
  BY <1>1, <1>2
<1>5. IsFiniteSet(D) /\ Cardinality(D) = Cardinality(B)
  <2>1. B \in SUBSET Int /\ n \in Int
    BY <1>1, <1>2
  <2> QED
    BY <1>3, <2>1, Shifted
<1> HIDE DEF D
<1>6. Cardinality(C) = Cardinality(A) + Cardinality(B)
  <2>1. Cardinality(A \cup D) = Cardinality(A) + Cardinality(D) - Cardinality(A \cap D)
    BY <1>3, <1>5, FS_Union
  <2>2. Cardinality(A \cap D) = 0
    BY <1>4, FS_EmptySet
  <2> QED
    BY <1>3, <1>4, <1>5, <2>1, <2>2
<1> QED
  BY <1>6 DEF Count, A, B, C

LEMMA CountOne ==
  ASSUME NEW x, NEW M
  PROVE  Count(<<x>>, M) = IF x[1] \in M THEN 1 ELSE 0
<1>1. Marked(<<x>>, M) = IF x[1] \in M THEN {1} ELSE {}
  BY DEF Marked
<1> QED
  BY <1>1, FS_EmptySet, FS_Singleton DEF Count

LEMMA CountAll ==
  ASSUME NEW S, NEW s \in Seq(S), NEW M, \A x \in S : x[1] \in M
  PROVE  Count(s, M) = Len(s)
<1>1. Marked(s, M) = 1 .. Len(s) /\ Len(s) \in Nat
  BY LenProperties, ElementOfSeq DEF Marked
<1>2. Cardinality(1 .. Len(s)) = Len(s)
  <2>1. Cardinality(1 .. Len(s)) = IF 1 > Len(s) THEN 0 ELSE Len(s) - 1 + 1
    BY <1>1, FS_Interval
  <2> QED
    BY <1>1, <2>1
<1> QED
  BY <1>1, <1>2 DEF Count

-----------------------------------------------------------------------------
(* Questions.  None is asked before the model waits for its rows, and then *)
(* they are asked together; an answer takes the place of its question.     *)
Kinds     == {"info", "data", "positions"}
Unanswered(q) == Count(q, {"get"})
Answers(b)    == Count(b, Kinds)
AskInv ==
  /\ phase = "init" => Unanswered(queue) + Answers(inbox) = 0
  /\ Unanswered(queue) + Answers(inbox) <= Len(requestInitData)

LEMMA CountNone ==
  ASSUME NEW M
  PROVE  Count(<<>>, M) = 0
<1>1. Marked(<<>>, M) = {}
  BY DEF Marked
<1> QED
  BY <1>1, FS_EmptySet DEF Count

LEMMA CountAppend ==
  ASSUME NEW S, NEW s \in Seq(S), NEW x \in S, NEW M
  PROVE  Count(Append(s, x), M) = Count(s, M) + IF x[1] \in M THEN 1 ELSE 0
<1>1. <<x>> \in Seq(S) /\ Append(s, x) = s \o <<x>>
  BY AppendIsConcat
<1>2. Count(s \o <<x>>, M) = Count(s, M) + Count(<<x>>, M)
  BY <1>1, CountConcat
<1>3. Count(<<x>>, M) = IF x[1] \in M THEN 1 ELSE 0
  BY CountOne
<1> QED
  BY <1>1, <1>2, <1>3

LEMMA GuiAsks ==
  ASSUME TypeInv, GuiStep
  PROVE  \E statements \in Seq(Command) :
           /\ inbox # <<>> /\ inbox' = Tail(inbox) /\ queue' = queue \o statements
           /\ \/ /\ statements = requestInitData
                 /\ phase = "init" /\ phase' = "init2"
              \/ /\ Unanswered(statements) = 0
                 /\ phase' = "init" <=> phase = "init"
<1> USE CommandTypes
<1>1. Unanswered(<<>>) = 0
  BY CountNone DEF Unanswered
<1>2. ASSUME NEW kind \in Needed PROVE Unanswered(<<<<"put", kind>>>>) = 0
  <2>1. PICK x : x = <<"put", kind>>
    OBVIOUS
  <2>2. x[1] \notin {"get"}
    BY <2>1
  <2> QED
    BY <2>1, <2>2, CountOne DEF Unanswered
<1>3. \A kind \in {"info", "data"} :
        inbox # <<>> /\ inbox[1][1] = kind =>
          Missing(kind) \in Seq(Command) /\ Unanswered(Missing(kind)) = 0
  <2> SUFFICES ASSUME NEW kind \in {"info", "data"}, inbox # <<>>, inbox[1][1] = kind
               PROVE  Missing(kind) \in Seq(Command) /\ Unanswered(Missing(kind)) = 0
    OBVIOUS
  <2>1. inbox[1] \in Answer
    BY TailHas DEF TypeInv, QueuesOK
  <2>2. kind \in Needed
    BY <2>1 DEF Answer, Asked, Needed
  <2>3. Missing(kind) = <<>> \/ Missing(kind) = <<<<"put", kind>>>>
    BY DEF Missing
  <2> QED
    BY <1>1, <1>2, <2>2, <2>3
<1>4. CASE slotDbManagerConnectionState
  BY <1>1, <1>4 DEF slotDbManagerConnectionState, Handle
<1>5. CASE slotModelInfoFetched
  <2>1. /\ inbox # <<>> /\ inbox[1][1] = "info" /\ inbox' = Tail(inbox)
        /\ queue' = queue \o Missing("info")
        /\ phase' = IF phase = "init2" THEN "ready" ELSE phase
    BY <1>5 DEF slotModelInfoFetched, Handle
  <2> QED
    BY <1>3, <2>1
<1>6. CASE slotStrategyDataFetched
  <2>1. /\ inbox # <<>> /\ inbox[1][1] = "data" /\ inbox' = Tail(inbox)
        /\ queue' = queue \o Missing("data") /\ phase' = phase
    BY <1>6 DEF slotStrategyDataFetched, Handle
  <2> QED
    BY <1>3, <2>1
<1>7. CASE slotOpenPositionsFetched
  BY <1>1, <1>7 DEF slotOpenPositionsFetched, Handle
<1> QED
  BY <1>4, <1>5, <1>6, <1>7 DEF GuiStep

LEMMA DbAnswers ==
  ASSUME TypeInv, DbStep
  PROVE  \/ inbox' = inbox
         \/ \E answer \in Answer : /\ inbox' = Append(inbox, answer)
                                   /\ queue[1][1] = "get" \/ answer[1] = "db"
<1>1. CASE initializeConnectionSlot
  <2>1. \E a \in {"open", "failed"} : inbox' = Append(inbox, <<"db", a>>)
    BY <1>1 DEF initializeConnectionSlot, Tell
  <2>2. \A a \in {"open", "failed"} : <<"db", a>> \in Answer /\ <<"db", a>>[1] = "db"
    BY DEF Answer
  <2> QED
    BY <2>1, <2>2
<1>2. CASE Fetch
  <2>1. queue[1][1] = "get"
    BY <1>2 DEF Fetch, Statement
  <2>2. inbox' = inbox \/ \E answer \in Answer : inbox' = Append(inbox, answer)
    BY DbShape
  <2> QED
    BY <2>1, <2>2
<1>3. CASE AddOrUpdate
  BY <1>3 DEF AddOrUpdate
<1> QED
  BY <1>1, <1>2, <1>3 DEF DbStep

LEMMA AskCreated ==
  ASSUME NEW c \in Created
  PROVE  /\ Unanswered(c.queue) \in Nat /\ Unanswered(c.queue) <= Len(requestInitData)
         /\ c.phase = "init" => Unanswered(c.queue) = 0
<1> DEFINE R == requestInitData
           n == Len(R)
           o == <<"open">>
<1>0. R \in Seq(Question) /\ R \in Seq(Command) /\ n \in Nat /\ o \in Command
      /\ Question \subseteq Command
  BY Questions, CommandTypes DEF Command
<1>1. Unanswered(<<o>>) = 0
  <2>1. PICK x : x = o
    OBVIOUS
  <2>2. x[1] \notin {"get"}
    BY <2>1
  <2> QED
    BY <2>1, <2>2, CountOne DEF Unanswered
<1>2. ASSUME NEW k \in 0 .. n
      PROVE  Unanswered(SubSeq(R, 1, k) \o <<o>> \o SubSeq(R, k + 1, n)) = n
  <2> DEFINE A == SubSeq(R, 1, k)
             B == SubSeq(R, k + 1, n)
             O == <<o>>
             AO == A \o O
  <2>1. /\ k \in Nat /\ k <= n /\ \A i \in 1 .. n : R[i] \in Question
    BY <1>0, ElementOfSeq
  <2>2. A \in Seq(Question) /\ Len(A) = k /\ B \in Seq(Question) /\ Len(B) = n - k
    BY <1>0, <2>1, SubSeqProperties
  <2> HIDE DEF A, B
  <2>3. Unanswered(A) = k /\ Unanswered(B) = n - k
    BY <2>2, CountAll DEF Question, Unanswered
  <2>4. A \in Seq(Command) /\ B \in Seq(Command) /\ O \in Seq(Command)
    BY <1>0, <2>2, SeqMonotonic
  <2>5. Unanswered(O) = 0
    BY <1>1
  <2> HIDE DEF O
  <2>6. AO \in Seq(Command) /\ Unanswered(AO) = Unanswered(A) + Unanswered(O)
    BY <2>4, CountConcat, ConcatProperties DEF Unanswered
  <2> HIDE DEF AO
  <2>7. Unanswered(AO \o B) = Unanswered(AO) + Unanswered(B)
    BY <2>4, <2>6, CountConcat DEF Unanswered
  <2>8. Unanswered(AO \o B) = n
    BY <1>0, <2>1, <2>3, <2>5, <2>6, <2>7
  <2> QED
    BY <2>8 DEF A, B, O, AO
<1>3. CASE c = [phase |-> "init", queue |-> <<o>>]
  BY <1>0, <1>1, <1>3
<1>4. CASE \E k \in 0 .. n :
             c = [phase |-> "init2", queue |-> SubSeq(R, 1, k) \o <<o>> \o SubSeq(R, k + 1, n)]
  BY <1>0, <1>2, <1>4
<1> QED
  BY <1>3, <1>4 DEF Created

LEMMA AskStep == TypeInv /\ AskInv /\ [Next]_dbVars => AskInv'
<1> SUFFICES ASSUME TypeInv, AskInv, [Next]_dbVars PROVE AskInv'
  OBVIOUS
<1>0. /\ queue \in Seq(Command) /\ inbox \in Seq(Answer)
      /\ Unanswered(queue) \in Nat /\ Answers(inbox) \in Nat /\ Len(requestInitData) \in Nat
      /\ requestInitData \in Seq(Question) /\ requestInitData \in Seq(Command)
  BY MarkedFinite, Questions, CommandTypes DEF TypeInv, QueuesOK, Unanswered, Answers
<1>1. CASE GuiStep
  <2>1. PICK statements \in Seq(Command) :
          /\ inbox # <<>> /\ inbox' = Tail(inbox) /\ queue' = queue \o statements
          /\ \/ /\ statements = requestInitData
                /\ phase = "init" /\ phase' = "init2"
             \/ /\ Unanswered(statements) = 0
                /\ phase' = "init" <=> phase = "init"
    BY <1>1, GuiAsks
  <2>2. Unanswered(queue') = Unanswered(queue) + Unanswered(statements)
    BY <1>0, <2>1, CountConcat DEF Unanswered
  <2>3. /\ Answers(inbox') = Answers(inbox) - (IF inbox[1][1] \in Kinds THEN 1 ELSE 0)
        /\ Answers(inbox') \in Nat
    BY <1>0, <2>1, CountTail, TailHas, MarkedFinite DEF Answers
  <2>4. Unanswered(requestInitData) = Len(requestInitData)
    BY <1>0, CountAll DEF Question, Unanswered
  <2>5. Answers(inbox') <= Answers(inbox)
    BY <1>0, <2>3
  <2>6. CASE statements = requestInitData /\ phase = "init" /\ phase' = "init2"
    BY <1>0, <2>2, <2>3, <2>4, <2>5, <2>6 DEF AskInv
  <2>7. CASE Unanswered(statements) = 0 /\ (phase' = "init" <=> phase = "init")
    BY <1>0, <2>2, <2>3, <2>5, <2>7 DEF AskInv
  <2> QED
    BY <2>1, <2>6, <2>7
<1>2. CASE DbStep
  <2>1. queue # <<>> /\ queue' = Tail(queue) /\ phase' = phase
    BY <1>2, DbShape, Zenon
  <2>2. Unanswered(queue') = Unanswered(queue) - IF queue[1][1] \in {"get"} THEN 1 ELSE 0
    BY <1>0, <2>1, CountTail DEF Unanswered
  <2>3. \/ Answers(inbox') = Answers(inbox)
        \/ /\ queue[1][1] = "get"
           /\ Answers(inbox') \in {Answers(inbox), Answers(inbox) + 1}
    <3>1. CASE inbox' = inbox
      BY <3>1
    <3>2. ASSUME NEW answer \in Answer, inbox' = Append(inbox, answer),
                 queue[1][1] = "get" \/ answer[1] = "db"
          PROVE  \/ Answers(inbox') = Answers(inbox)
                 \/ /\ queue[1][1] = "get"
                    /\ Answers(inbox') \in {Answers(inbox), Answers(inbox) + 1}
      <4>1. Answers(inbox') = Answers(inbox) + IF answer[1] \in Kinds THEN 1 ELSE 0
        BY <1>0, <3>2, CountAppend DEF Answers
      <4> QED
        BY <1>0, <3>2, <4>1 DEF Kinds
    <3> QED
      BY <1>2, <3>1, <3>2, DbAnswers
  <2>4. Unanswered(queue') \in Nat /\ Answers(inbox') \in Nat
    <3>1. queue' \in Seq(Command) /\ inbox' \in Seq(Answer)
      BY TypeStep DEF TypeInv, QueuesOK
    <3> QED
      BY <3>1, MarkedFinite DEF Unanswered, Answers
  <2>5. Unanswered(queue') + Answers(inbox') <= Unanswered(queue) + Answers(inbox)
    BY <1>0, <2>2, <2>3
  <2> QED
    BY <1>0, <2>1, <2>4, <2>5 DEF AskInv
<1>3. CASE Restart
  <2>1. PICK c \in Created : phase' = c.phase /\ queue' = c.queue
    BY <1>3 DEF Restart
  <2>2. Answers(inbox') = 0
    BY <1>3, CountNone DEF Restart, Answers
  <2> QED
    BY <1>0, <2>1, <2>2, AskCreated DEF AskInv
<1>4. CASE UNCHANGED dbVars
  BY <1>4 DEF dbVars, AskInv
<1> QED
  BY <1>1, <1>2, <1>3, <1>4 DEF Next

(* A model asks its questions once: those the database has still to answer *)
(* and the answers on their way are never more than one round of them.     *)
THEOREM AskedOnce == Spec => []AsksOnce
<1>1. Init => AskInv
  <2> SUFFICES ASSUME Init PROVE AskInv
    OBVIOUS
  <2>1. PICK c \in Created : phase = c.phase /\ queue = c.queue
    BY DEF Init
  <2>2. Answers(inbox) = 0
    BY CountNone DEF Init, Answers
  <2> QED
    BY <2>1, <2>2, AskCreated DEF AskInv
<1>2. ASSUME TypeInv, AskInv PROVE AsksOnce
  <2>1. {i \in DOMAIN queue : queue[i][1] = "get"} = Marked(queue, {"get"})
    BY DEF Marked
  <2>2. {i \in DOMAIN inbox : inbox[i][1] # "db"} = Marked(inbox, Kinds)
    <3>1. \A i \in DOMAIN inbox : inbox[i] \in Answer
      BY <1>2, LenProperties, ElementOfSeq DEF TypeInv, QueuesOK
    <3>2. \A a \in Answer : a[1] # "db" <=> a[1] \in Kinds
      BY DEF Answer, Asked, Needed, Kinds
    <3> QED
      BY <3>1, <3>2 DEF Marked
  <2> QED
    BY <1>2, <2>1, <2>2 DEF AskInv, AsksOnce, Unanswered, Answers, Count
<1> QED
  BY <1>1, <1>2, AskStep, TypeAlways, PTL DEF Spec

=============================================================================
