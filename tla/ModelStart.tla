----------------------------- MODULE ModelStart -----------------------------
(***************************************************************************)
(* How a model starts: it is created with a DBManager whose thread opens   *)
(* the database; once the connection is open and the model has its id it   *)
(* asks for its rows (state Init2), stores those that are missing, and is  *)
(* ready when the question for its info has been answered, in whatever     *)
(* way.  The thread runs the statements, and the GUI thread its answers,   *)
(* in the order they were queued.                                          *)
(***************************************************************************)
EXTENDS Integers, Sequences, FiniteSets

CONSTANTS IsStrategy, \* whether the model is a strategy
          Flags,      \* what the uninitialised m_isDbConnected may hold
          MaxFails, MaxRestarts \* bounds

ASSUME ModelStartAssumption ==
  /\ IsStrategy \in BOOLEAN /\ Flags \subseteq BOOLEAN /\ Flags # {}
  /\ MaxFails \in Nat /\ MaxRestarts \in Nat

VARIABLES
  phase,   \* Init, Init2 or Ready
  opened,  \* the connection is open
  queue,   \* statements queued to the thread
  inbox,   \* its answers, queued to the GUI thread
  rows,    \* the model's rows in the database: "info", "data"
  failed,  \* a statement has failed since the program started
  fails,   \* faults so far
  restarts \* restarts of the program so far

dbVars == <<phase, opened, queue, inbox, rows, failed, fails, restarts>>

-----------------------------------------------------------------------------
(* GUI thread *)

(* requestInitData of CBaseModel and of CBasicStrategy_V2. *)
requestInitData ==
  <<<<"get", "info">>>> \o
    IF IsStrategy THEN <<<<"get", "data">>, <<"get", "positions">>>> ELSE <<>>

(* The constructor starts the thread, setId follows.  A flag that happens  *)
(* to hold TRUE lets the model ask at once, and the thread's started event *)
(* may come in behind any of the questions.                                *)
Created ==
  {[phase |-> "init", queue |-> <<<<"open">>>>] : f \in Flags \cap {FALSE}} \cup
  {[phase |-> "init2",
    queue |-> SubSeq(requestInitData, 1, k) \o <<<<"open">>>>
                \o SubSeq(requestInitData, k + 1, Len(requestInitData))] :
     k \in IF TRUE \in Flags THEN 0 .. Len(requestInitData) ELSE {}}

Handle(kind, statements) ==
  /\ inbox # <<>> /\ inbox[1][1] = kind
  /\ inbox' = Tail(inbox)
  /\ queue' = queue \o statements
  /\ UNCHANGED <<opened, rows, failed, fails, restarts>>

(* Mutant: the model asks whether or not it waits for the connection. *)
slotDbManagerConnectionStateAnyPhase ==
  IF inbox # <<>> /\ inbox[1][2] = "open"
  THEN phase' = "init2" /\ Handle("db", requestInitData)
  ELSE UNCHANGED phase /\ Handle("db", <<>>)

(* validateModelInit: only a model that waits for the connection asks. *)
slotDbManagerConnectionState ==
  IF inbox # <<>> /\ inbox[1][2] = "open" /\ phase = "init"
  THEN phase' = "init2" /\ Handle("db", requestInitData)
  ELSE UNCHANGED phase /\ Handle("db", <<>>)

Missing(kind) ==
  IF inbox # <<>> /\ inbox[1][2] = "not_found" THEN <<<<"put", kind>>>> ELSE <<>>

(* Mutant: only a row, or its absence, makes the model ready. *)
slotModelInfoFetchedValid ==
  /\ Handle("info", Missing("info"))
  /\ phase' = IF phase = "init2" /\ inbox[1][2] # "error" THEN "ready" ELSE phase

(* validateModelInit2: any answer, an error too, makes the model ready. *)
slotModelInfoFetched ==
  /\ Handle("info", Missing("info"))
  /\ phase' = IF phase = "init2" THEN "ready" ELSE phase

(* Mutant: a strategy without a row of data does not store one. *)
slotStrategyDataFetchedOnly ==
  /\ Handle("data", <<>>) /\ UNCHANGED phase

slotStrategyDataFetched ==
  /\ Handle("data", Missing("data")) /\ UNCHANGED phase

(* The positions are shown, nothing else. *)
slotOpenPositionsFetched == Handle("positions", <<>>) /\ UNCHANGED phase

GuiStep == \/ slotDbManagerConnectionState \/ slotModelInfoFetched
           \/ slotStrategyDataFetched \/ slotOpenPositionsFetched

-----------------------------------------------------------------------------
(* Database thread *)

Statement(kind) ==
  /\ queue # <<>> /\ queue[1][1] = kind
  /\ queue' = Tail(queue)
  /\ UNCHANGED <<phase, restarts>>

(* A statement on a connection that is not open fails, and a fault is one  *)
(* on an open connection: the file stays locked too long.                  *)
Fail ==
  /\ failed' = TRUE
  /\ IF opened \/ queue[1] = <<"open">> THEN fails < MaxFails /\ fails' = fails + 1
     ELSE UNCHANGED fails

Tell(answer) == inbox' = Append(inbox, answer)

initializeConnectionSlot ==
  /\ Statement("open")
  /\ \/ opened' = TRUE /\ Tell(<<"db", "open">>) /\ UNCHANGED <<failed, fails>>
     \/ Fail /\ Tell(<<"db", "failed">>) /\ UNCHANGED opened
  /\ UNCHANGED rows

(* slotGetModelInfo, slotGetStrategyData and slotFetchOpenPositions, which *)
(* finds positions or not.                                                 *)
Fetch ==
  /\ Statement("get")
  /\ LET kind == queue[1][2]
     IN  \/ /\ opened /\ UNCHANGED <<failed, fails>>
            /\ Tell(<<kind, IF kind \in rows THEN "valid" ELSE "not_found">>)
         \/ Fail /\ Tell(<<kind, "error">>)
  /\ UNCHANGED <<opened, rows>>

(* slotAddOrUpdateDbModelInfo and slotAddOrUpdateDbStrategyData; a failure *)
(* is only logged.                                                         *)
AddOrUpdate ==
  /\ Statement("put")
  /\ \/ opened /\ rows' = rows \cup {queue[1][2]} /\ UNCHANGED <<failed, fails>>
     \/ Fail /\ UNCHANGED rows
  /\ UNCHANGED <<opened, inbox>>

DbStep == initializeConnectionSlot \/ Fetch \/ AddOrUpdate

(* The program ends, or crashes, and starts with the saved tree. *)
Restart ==
  /\ restarts < MaxRestarts /\ restarts' = restarts + 1
  /\ \E c \in Created : phase' = c.phase /\ queue' = c.queue
  /\ opened' = FALSE /\ inbox' = <<>> /\ failed' = FALSE
  /\ UNCHANGED <<rows, fails>>

-----------------------------------------------------------------------------
Init ==
  /\ \E c \in Created : phase = c.phase /\ queue = c.queue
  /\ opened = FALSE /\ inbox = <<>> /\ rows = {}
  /\ failed = FALSE /\ fails = 0 /\ restarts = 0

Next == GuiStep \/ DbStep \/ Restart

(* The GUI thread and the database thread run. *)
Fairness == WF_dbVars(GuiStep) /\ WF_dbVars(DbStep)

Spec == Init /\ [][Next]_dbVars /\ Fairness

-----------------------------------------------------------------------------
(* Properties *)

(* Every variable has its type. *)
TypeOK ==
  /\ phase \in {"init", "init2", "ready"} /\ opened \in BOOLEAN /\ failed \in BOOLEAN
  /\ queue \in Seq({<<"open">>} \cup {"get", "put"} \X {"info", "data", "positions"})
  /\ inbox \in Seq({"db"} \X {"open", "failed"} \cup
                   {"info", "data", "positions"} \X {"valid", "not_found", "error"})
  /\ rows \subseteq {"info", "data"}
  /\ fails \in 0 .. MaxFails /\ restarts \in 0 .. MaxRestarts

(* A ready model none of whose statements has failed finds its rows in the *)
(* database once the threads have nothing left to do.                      *)
RowsStored ==
  (queue = <<>> /\ inbox = <<>> /\ phase = "ready" /\ ~failed) =>
     rows = {"info"} \cup IF IsStrategy THEN {"data"} ELSE {}

(* With an open connection the model becomes ready, whatever its questions *)
(* are answered.                                                           *)
BecomesReady == opened ~> (phase = "ready" \/ ~opened)

(* A model asks its questions once: what the database is asked and has     *)
(* answered is never more than one round of them.                          *)
AsksOnce ==
  Cardinality({i \in DOMAIN queue : queue[i][1] = "get"}) +
  Cardinality({i \in DOMAIN inbox : inbox[i][1] # "db"}) <= Len(requestInitData)

=============================================================================
