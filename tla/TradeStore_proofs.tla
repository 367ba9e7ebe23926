-------------------------- MODULE TradeStore_proofs --------------------------
(* Proofs about TradeStore for any strategies, execution models and        *)
(* bounds: its types, that it implements Ledger, and that nothing reported *)
(* is missing where nothing failed.                                        *)
EXTENDS TradeStore, FoldTheorems, SequenceTheorems, TLAPS

-----------------------------------------------------------------------------
(* Types.  A statement or an event names an execution that has happened,   *)
(* so that the row it makes has the shares of that execution.              *)
ReportOf(n)    == {"execution", "commission"} \X (1 .. n)
StatementOf(n) ==
  {<<"open">>} \cup ({"insert"} \X (1 .. n) \X Side) \cup ({"update"} \X (1 .. n))

Deal == [by : Executions, shares : Shares, side : Side]
Row  == [owner : Strategies, quantity : Shares, tradeType : Side, fee : BOOLEAN]

TablesOK ==
  /\ DOMAIN trades \subseteq 1 .. Len(executed)
  /\ \A e \in DOMAIN trades : trades[e] \in Row
  /\ DOMAIN positions \subseteq Strategies
  /\ \A s \in DOMAIN positions : positions[s] \in Int \ {0}

QueuesOK ==
  /\ queue \in [Executions -> Seq(StatementOf(Len(executed)))]
  /\ inbox \in [Executions -> Seq(ReportOf(Len(executed)))]

ModelsOK ==
  /\ opened \in [Executions -> BOOLEAN]
  /\ direction \in [Executions -> Side]
  /\ subscribed \subseteq Executions

BrokerOK ==
  /\ open \in [Executions -> Nat]
  /\ executed \in Seq(Deal)
  /\ Len(executed) \in 0 .. MaxExecs
  /\ DOMAIN reported \subseteq ReportOf(Len(executed))
  /\ \A r \in DOMAIN reported : reported[r] \subseteq Executions
  /\ ordered \in 0 .. MaxOrders

FaultsOK ==
  /\ fails \in 0 .. MaxFails
  /\ failed \subseteq Executions
  /\ restarts \in 0 .. MaxRestarts

TypeInv == TablesOK /\ QueuesOK /\ ModelsOK /\ BrokerOK /\ FaultsOK

LEMMA FirstElement ==
  ASSUME NEW S, NEW s \in Seq(S), s # <<>>
  PROVE  s[1] \in S
<1>1. 1 \in 1 .. Len(s)
  BY EmptySeq
<1> QED
  BY <1>1, ElementOfSeq

(* The parts of a statement. *)
LEMMA StatementParts ==
  ASSUME NEW n \in Nat, NEW s \in StatementOf(n)
  PROVE  /\ s[1] = "insert" => s[2] \in 1 .. n /\ s[3] \in Side
         /\ s[1] = "update" => s[2] \in 1 .. n
  BY DEF StatementOf

LEMMA Growing ==
  ASSUME NEW n \in Nat, NEW k \in Nat, n <= k
  PROVE  /\ Seq(StatementOf(n)) \subseteq Seq(StatementOf(k))
         /\ Seq(ReportOf(n)) \subseteq Seq(ReportOf(k))
         /\ ReportOf(n) \subseteq ReportOf(k)
<1>1. 1 .. n \subseteq 1 .. k
  OBVIOUS
<1>2. StatementOf(n) \subseteq StatementOf(k) /\ ReportOf(n) \subseteq ReportOf(k)
  BY <1>1 DEF StatementOf, ReportOf
<1> QED
  BY <1>2, SeqMonotonic

LEMMA TypeInit == Init => TypeInv
<1> SUFFICES ASSUME Init PROVE TypeInv
  OBVIOUS
<1> USE TradeStoreAssumption DEF TradeStoreAssumption
<1>1. Len(executed) = 0 /\ executed \in Seq(Deal)
  BY DEF Init
<1>2. /\ <<<<"open">>>> \in Seq(StatementOf(0))
      /\ <<>> \in Seq(ReportOf(0))
  BY DEF StatementOf
<1>3. QueuesOK
  BY <1>1, <1>2 DEF Init, QueuesOK
<1>4. TablesOK
  BY DEF Init, TablesOK
<1>5. ModelsOK
  BY DEF Init, ModelsOK, Side
<1>6. BrokerOK
  BY <1>1 DEF Init, BrokerOK
<1>7. FaultsOK
  BY DEF Init, FaultsOK
<1> QED
  BY <1>3, <1>4, <1>5, <1>6, <1>7 DEF TypeInv

(* update_or_insert_position leaves rows of known strategies with shares.  *)
LEMMA PositionType ==
  ASSUME TablesOK, NEW s \in Strategies, NEW side, NEW q \in Shares,
         update_or_insert_position(s, side, q)
  PROVE  /\ DOMAIN positions' \subseteq Strategies
         /\ \A u \in DOMAIN positions' : positions'[u] \in Int \ {0}
<1> DEFINE quantity == quantityOf(s) + signed(side, q)
<1>1. quantity \in Int
  BY TradeStoreAssumption DEF TradeStoreAssumption, TablesOK, quantityOf, signed, Shares
<1>2. CASE quantity = 0
  BY <1>2 DEF update_or_insert_position, Restrict, TablesOK
<1>3. CASE quantity # 0
  BY <1>1, <1>3 DEF update_or_insert_position, TablesOK
<1> QED
  BY <1>2, <1>3

(* Where nobody books, only time passes for the tables. *)
LEMMA TablesKept ==
  ASSUME TablesOK, UNCHANGED tables, BrokerOK, BrokerOK', Len(executed) <= Len(executed')
  PROVE  TablesOK'
<1>1. Len(executed) \in Nat /\ Len(executed') \in Nat
  BY DEF BrokerOK
<1> QED
  BY <1>1 DEF TablesOK, tables

LEMMA ExecutedType ==
  ASSUME BrokerOK, NEW e \in 1 .. Len(executed)
  PROVE  executed[e].shares \in Shares
<1>1. executed[e] \in Deal
  BY ElementOfSeq, Zenon DEF BrokerOK
<1> QED
  BY <1>1 DEF Deal

(* The effect of queueing, running and dispatching on the queues. *)
LEMMA QueueTypes ==
  ASSUME QueuesOK, BrokerOK, NEW m \in Executions
  PROVE  /\ Taken(m) /\ queue[m] # <<>> =>
              queue' \in [Executions -> Seq(StatementOf(Len(executed)))]
         /\ \A st \in StatementOf(Len(executed)) : Consume(m, st) /\ inbox[m] # <<>> =>
              /\ queue' \in [Executions -> Seq(StatementOf(Len(executed)))]
              /\ inbox' \in [Executions -> Seq(ReportOf(Len(executed)))]
<1>1. queue[m] # <<>> => Tail(queue[m]) \in Seq(StatementOf(Len(executed)))
  BY HeadTailProperties, Zenon DEF QueuesOK
<1>2. inbox[m] # <<>> => Tail(inbox[m]) \in Seq(ReportOf(Len(executed)))
  BY HeadTailProperties, Zenon DEF QueuesOK
<1>3. \A st \in StatementOf(Len(executed)) :
        Append(queue[m], st) \in Seq(StatementOf(Len(executed)))
  BY AppendProperties, Zenon DEF QueuesOK
<1> QED
  BY <1>1, <1>2, <1>3, Zenon DEF QueuesOK, Taken, Consume

(* What the broker and the program as a whole do. *)
LEMMA BrokerStep ==
  ASSUME TypeInv, [Next]_vars
  PROVE  BrokerOK' /\ Len(executed) <= Len(executed')
<1> USE TradeStoreAssumption DEF TradeStoreAssumption, TypeInv
<1>0. /\ Len(executed) \in Nat /\ MaxExecs \in Nat
      /\ DOMAIN reported \subseteq ReportOf(Len(executed))
  BY DEF BrokerOK
<1>1. ASSUME NEW m \in Executions, Execute(m) PROVE BrokerOK' /\ Len(executed) <= Len(executed')
  <2>1. PICK q \in {k \in Shares : k <= open[m]} :
          /\ executed' = Append(executed, [by |-> m, shares |-> q, side |-> "SELL"])
          /\ open' = [open EXCEPT ![m] = @ - q]
    BY <1>1 DEF Execute
  <2>2. [by |-> m, shares |-> q, side |-> "SELL"] \in Deal
    BY <2>1 DEF Side, Deal
  <2>3. /\ executed' \in Seq(Deal)
        /\ Len(executed') = Len(executed) + 1
    BY <2>1, <2>2, AppendProperties, Zenon DEF BrokerOK
  <2>4. Len(executed') \in 0 .. MaxExecs
    BY <1>0, <1>1, <2>3 DEF Execute
  <2>5. open' \in [Executions -> Nat]
    BY <2>1 DEF BrokerOK, Shares
  <2>6. DOMAIN reported' \subseteq ReportOf(Len(executed'))
    BY <1>0, <1>1, <2>3, Growing DEF Execute
  <2> QED
    BY <1>0, <1>1, <2>3, <2>4, <2>5, <2>6 DEF BrokerOK, Execute
<1>2. ASSUME NEW kind \in {"execution", "commission"}, NEW e \in 1 .. Len(executed),
             Dispatch(kind, e)
      PROVE  BrokerOK' /\ Len(executed) <= Len(executed')
  <2>1. <<kind, e>> \in ReportOf(Len(executed))
    BY DEF ReportOf
  <2>2. /\ DOMAIN reported' \subseteq ReportOf(Len(executed))
        /\ \A r \in DOMAIN reported' : reported'[r] \subseteq Executions
    BY <1>0, <1>2, <2>1 DEF Dispatch, BrokerOK, ModelsOK
  <2>3. UNCHANGED <<open, executed, ordered>>
    BY <1>2 DEF Dispatch
  <2> QED
    BY <1>0, <2>2, <2>3 DEF BrokerOK
<1>3. ASSUME NEW e \in Exec, execDetails(e) \/ commissionReport(e)
      PROVE  BrokerOK' /\ Len(executed) <= Len(executed')
  <2>1. CASE execDetails(e)
    BY <1>2, <2>1 DEF execDetails, Exec
  <2>2. CASE commissionReport(e)
    <3>1. e \in 1 .. Len(executed)
      BY <1>0, <2>2 DEF commissionReport, IsReported, ReportOf
    <3> QED
      BY <1>2, <2>2, <3>1 DEF commissionReport
  <2> QED
    BY <1>3, <2>1, <2>2
<1>4. CASE Restart
  <2>1. PICK last \in 0 .. Len(executed) :
          reported' = [r \in DOMAIN reported \cup ({"execution"} \X (1 .. last)) |->
                         IF r \in DOMAIN reported THEN reported[r] ELSE {}]
    BY <1>4 DEF Restart
  <2>2. DOMAIN reported' \subseteq ReportOf(Len(executed))
    BY <1>0, <2>1 DEF ReportOf
  <2>3. \A r \in DOMAIN reported' : reported'[r] \subseteq Executions
    BY <2>1 DEF BrokerOK
  <2> QED
    BY <1>0, <1>4, <2>2, <2>3 DEF Restart, BrokerOK
<1>5. ASSUME NEW m \in Executions, processData(m)
      PROVE  BrokerOK' /\ Len(executed) <= Len(executed')
  BY <1>0, <1>5 DEF processData, BrokerOK
<1>6. ASSUME NEW m \in Executions, GuiStep(m) \/ DbStep(m) \/ start(m)
      PROVE  BrokerOK' /\ Len(executed) <= Len(executed')
  <2>1. UNCHANGED broker
    BY <1>6 DEF GuiStep, DbStep, start, slotRecvExecutionReport, slotRecvCommissionReport,
                initializeConnectionSlot, slotAddNewTrade, slotUpdateTradeCommission, Failed
  <2> QED
    BY <1>0, <2>1 DEF broker, BrokerOK
<1>7. CASE UNCHANGED vars
  BY <1>0, <1>7 DEF vars, broker, BrokerOK
<1> QED
  BY <1>1, <1>3, <1>4, <1>5, <1>6, <1>7 DEF Next

LEMMA FaultsStep ==
  ASSUME TypeInv, [Next]_vars
  PROVE  FaultsOK'
<1> USE TradeStoreAssumption DEF TradeStoreAssumption, TypeInv, FaultsOK
<1>1. ASSUME NEW m \in Executions, GuiStep(m) \/ DbStep(m) PROVE FaultsOK'
  BY <1>1 DEF GuiStep, DbStep, slotRecvExecutionReport, slotRecvCommissionReport,
              initializeConnectionSlot, slotAddNewTrade, slotUpdateTradeCommission, Failed,
              Fails, Fail, faults
<1>2. ASSUME NEW m \in Executions, start(m) \/ processData(m) \/ Execute(m) PROVE FaultsOK'
  BY <1>2 DEF start, processData, Execute, faults
<1>3. ASSUME NEW e \in Exec, execDetails(e) \/ commissionReport(e) PROVE FaultsOK'
  BY <1>3 DEF execDetails, commissionReport, Dispatch, faults
<1>4. CASE Restart
  BY <1>4 DEF Restart
<1>5. CASE UNCHANGED vars
  BY <1>5 DEF vars, faults
<1> QED
  BY <1>1, <1>2, <1>3, <1>4, <1>5 DEF Next

LEMMA ModelsStep ==
  ASSUME TypeInv, [Next]_vars
  PROVE  ModelsOK'
<1> USE DEF TypeInv, ModelsOK, Side
<1>1. ASSUME NEW m \in Executions, GuiStep(m) \/ DbStep(m) PROVE ModelsOK'
  BY <1>1 DEF GuiStep, DbStep, slotRecvExecutionReport, slotRecvCommissionReport,
              initializeConnectionSlot, slotAddNewTrade, slotUpdateTradeCommission, Failed
<1>2. ASSUME NEW m \in Executions, start(m) \/ processData(m) \/ Execute(m) PROVE ModelsOK'
  BY <1>2 DEF start, processData, Execute, models
<1>3. ASSUME NEW e \in Exec, execDetails(e) \/ commissionReport(e) PROVE ModelsOK'
  BY <1>3 DEF execDetails, commissionReport, Dispatch
<1>4. CASE Restart
  BY <1>4 DEF Restart
<1>5. CASE UNCHANGED vars
  BY <1>5 DEF vars, models
<1> QED
  BY <1>1, <1>2, <1>3, <1>4, <1>5 DEF Next

LEMMA QueuesStep ==
  ASSUME TypeInv, [Next]_vars
  PROVE  QueuesOK'
<1> DEFINE n == Len(executed)
<1>0. /\ n \in Nat /\ Len(executed') \in Nat /\ n <= Len(executed')
      /\ BrokerOK /\ QueuesOK
  BY BrokerStep DEF BrokerOK, TypeInv
<1>1. ASSUME NEW m \in Executions, GuiStep(m) PROVE QueuesOK'
  <2>1. inbox[m] # <<>> /\ inbox[m] \in Seq(ReportOf(n)) /\ executed' = executed
    BY <1>0, <1>1 DEF GuiStep, slotRecvExecutionReport, slotRecvCommissionReport, QueuesOK, broker
  <2>2. inbox[m][1] \in ReportOf(n)
    BY <2>1, FirstElement, Zenon
  <2>3. inbox[m][1][2] \in 1 .. n
    BY <2>2 DEF ReportOf
  <2>4. \E st \in StatementOf(n) : Consume(m, st)
    <3>1. CASE slotRecvExecutionReport(m)
      <4>1. <<"insert", inbox[m][1][2], direction[m]>> \in StatementOf(n)
        BY <2>3 DEF StatementOf, TypeInv, ModelsOK
      <4> QED
        BY <3>1, <4>1 DEF slotRecvExecutionReport
    <3>2. CASE slotRecvCommissionReport(m)
      <4>1. <<"update", inbox[m][1][2]>> \in StatementOf(n)
        BY <2>3 DEF StatementOf
      <4> QED
        BY <3>2, <4>1 DEF slotRecvCommissionReport
    <3> QED
      BY <1>1, <3>1, <3>2 DEF GuiStep
  <2> QED
    BY <1>0, <2>1, <2>4, QueueTypes DEF QueuesOK
<1>2. ASSUME NEW m \in Executions, DbStep(m) PROVE QueuesOK'
  <2>1. Taken(m) /\ queue[m] # <<>> /\ UNCHANGED <<inbox, executed>>
    BY <1>2 DEF DbStep, initializeConnectionSlot, slotAddNewTrade, slotUpdateTradeCommission,
                Failed, Runs, broker
  <2> QED
    BY <1>0, <2>1, QueueTypes DEF QueuesOK
<1>3. ASSUME NEW kind \in {"execution", "commission"}, NEW e \in 1 .. n, Dispatch(kind, e)
      PROVE  QueuesOK'
  <2>1. <<kind, e>> \in ReportOf(n)
    BY DEF ReportOf
  <2>2. \A m \in Executions : Append(inbox[m], <<kind, e>>) \in Seq(ReportOf(n))
    BY <1>0, <2>1, AppendProperties, Zenon DEF QueuesOK
  <2>3. inbox' \in [Executions -> Seq(ReportOf(n))]
    BY <1>0, <1>3, <2>2, Zenon DEF Dispatch, QueuesOK
  <2> QED
    BY <1>0, <1>3, <2>3 DEF Dispatch, QueuesOK
<1>4. ASSUME NEW e \in Exec, execDetails(e) \/ commissionReport(e) PROVE QueuesOK'
  <2>1. e \in 1 .. n
    BY <1>0, <1>4 DEF execDetails, commissionReport, IsReported, Exec, BrokerOK, ReportOf
  <2> QED
    BY <1>3, <1>4, <2>1 DEF execDetails, commissionReport
<1>5. CASE Restart
  <2>1. <<<<"open">>>> \in Seq(StatementOf(n)) /\ <<>> \in Seq(ReportOf(n))
    BY DEF StatementOf
  <2> QED
    BY <1>5, <2>1 DEF Restart, QueuesOK
<1>6. ASSUME NEW m \in Executions, start(m) \/ processData(m) \/ Execute(m) PROVE QueuesOK'
  <2>1. UNCHANGED <<queue, inbox>>
    BY <1>6 DEF start, processData, Execute, models
  <2> QED
    BY <1>0, <2>1, Growing DEF QueuesOK
<1>7. CASE UNCHANGED vars
  BY <1>0, <1>7 DEF vars, models, broker, QueuesOK
<1> QED
  BY <1>1, <1>2, <1>4, <1>5, <1>6, <1>7 DEF Next

(* The head of a queue that holds a statement of a kind.                   *)
LEMMA HeadStatement ==
  ASSUME TypeInv, NEW m \in Executions, NEW kind, Runs(m, kind)
  PROVE  /\ queue[m][1] \in StatementOf(Len(executed))
         /\ kind \in {"insert", "update"} => queue[m][1][2] \in 1 .. Len(executed)
         /\ kind = "insert" => queue[m][1][3] \in Side
<1>1. queue[m] \in Seq(StatementOf(Len(executed))) /\ queue[m] # <<>> /\ queue[m][1][1] = kind
  BY DEF Runs, TypeInv, QueuesOK
<1>2. queue[m][1] \in StatementOf(Len(executed))
  BY <1>1, FirstElement, Zenon
<1>3. Len(executed) \in Nat
  BY DEF TypeInv, BrokerOK
<1> QED
  BY <1>1, <1>2, <1>3, StatementParts

LEMMA TablesStep ==
  ASSUME TypeInv, [Next]_vars
  PROVE  TablesOK'
<1>0. /\ TablesOK /\ BrokerOK /\ BrokerOK' /\ Len(executed) <= Len(executed')
      /\ Len(executed) \in Nat /\ Len(executed') \in Nat
  BY BrokerStep DEF TypeInv, BrokerOK
<1>1. ASSUME NEW m \in Executions, slotAddNewTrade(m) PROVE TablesOK'
  <2> DEFINE e == queue[m][1][2]
             row == [owner |-> Parent[m], quantity |-> executed[e].shares,
                     tradeType |-> queue[m][1][3], fee |-> FALSE]
  <2>1. e \in 1 .. Len(executed) /\ queue[m][1][3] \in Side /\ executed' = executed
    BY <1>1, HeadStatement DEF slotAddNewTrade, broker
  <2>2. Parent[m] \in Strategies /\ executed[e].shares \in Shares
    BY <1>0, <2>1, ExecutedType, TradeStoreAssumption DEF TradeStoreAssumption
  <2>3. row \in Row
    BY <2>1, <2>2 DEF Row
  <2>4. CASE e \in DOMAIN trades
    BY <1>0, <1>1, <2>4, TablesKept DEF slotAddNewTrade, tables
  <2>5. CASE e \notin DOMAIN trades
    <3>1. /\ trades' = [t \in DOMAIN trades \cup {e} |-> IF t = e THEN row ELSE trades[t]]
          /\ update_or_insert_position(Parent[m], queue[m][1][3], executed[e].shares)
      BY <1>1, <2>5 DEF slotAddNewTrade
    <3>2. /\ DOMAIN trades' \subseteq 1 .. Len(executed)
          /\ \A t \in DOMAIN trades' : trades'[t] \in Row
      BY <1>0, <2>1, <2>3, <3>1 DEF TablesOK
    <3> QED
      BY <1>0, <2>1, <2>2, <3>1, <3>2, PositionType DEF TablesOK
  <2> QED
    BY <2>4, <2>5
<1>2. ASSUME NEW m \in Executions, slotUpdateTradeCommission(m) PROVE TablesOK'
  <2> DEFINE e == queue[m][1][2]
  <2>1. /\ trades' = IF e \in DOMAIN trades THEN [trades EXCEPT ![e].fee = TRUE] ELSE trades
        /\ UNCHANGED <<positions, executed>>
    BY <1>2 DEF slotUpdateTradeCommission, broker
  <2>2. DOMAIN trades' = DOMAIN trades
    BY <2>1
  <2>3. ASSUME NEW t \in DOMAIN trades' PROVE trades'[t] \in Row
    <3>1. trades[t] \in Row
      BY <1>0, <2>2 DEF TablesOK
    <3>2. [trades[t] EXCEPT !.fee = TRUE] \in Row
      BY <3>1 DEF Row
    <3> QED
      BY <2>1, <3>1, <3>2, Zenon
  <2> QED
    BY <1>0, <2>1, <2>2, <2>3 DEF TablesOK
<1>3. ASSUME NEW m \in Executions,
             \/ GuiStep(m) \/ initializeConnectionSlot(m)
             \/ \E kind \in {"insert", "update"} : Failed(m, kind)
             \/ start(m) \/ processData(m) \/ Execute(m)
      PROVE  UNCHANGED tables
  BY <1>3 DEF GuiStep, slotRecvExecutionReport, slotRecvCommissionReport,
              initializeConnectionSlot, Failed, start, processData, Execute
<1>4. ASSUME NEW e \in Exec, execDetails(e) \/ commissionReport(e) PROVE UNCHANGED tables
  BY <1>4 DEF execDetails, commissionReport, Dispatch
<1>5. CASE Restart \/ UNCHANGED vars
  BY <1>0, <1>5, TablesKept DEF Restart, vars
<1> QED
  BY <1>0, <1>1, <1>2, <1>3, <1>4, <1>5, TablesKept DEF Next, DbStep

LEMMA TypeStep == TypeInv /\ [Next]_vars => TypeInv'
  BY BrokerStep, FaultsStep, ModelsStep, QueuesStep, TablesStep DEF TypeInv

LEMMA TypeAlways == Spec => []TypeInv
  BY TypeInit, TypeStep, PTL DEF Spec

(* Every variable has its type in every state of the program. *)
THEOREM TypeCorrect == Spec => []TypeOK
<1>1. ASSUME TypeInv PROVE TypeOK
  <2>0. TablesOK /\ QueuesOK /\ ModelsOK /\ BrokerOK /\ FaultsOK
    BY <1>1 DEF TypeInv
  <2>1. Len(executed) \in Nat /\ Len(executed) <= MaxExecs /\ MaxExecs \in Nat
    BY <2>0, TradeStoreAssumption DEF TradeStoreAssumption, BrokerOK
  <2>2. /\ StatementOf(MaxExecs) = Statement
        /\ ReportOf(MaxExecs) = Report
    BY DEF StatementOf, ReportOf, Statement, Report, Exec
  <2>3. /\ Seq(StatementOf(Len(executed))) \subseteq Seq(Statement)
        /\ Seq(ReportOf(Len(executed))) \subseteq Seq(Report)
    BY <2>1, <2>2, Growing
  <2>4. /\ queue \in [Executions -> Seq(Statement)]
        /\ inbox \in [Executions -> Seq(Report)]
    BY <2>0, <2>3 DEF QueuesOK
  <2> QED
    BY <2>0, <2>4 DEF TypeOK, TablesOK, ModelsOK, BrokerOK, FaultsOK, Row, Deal, ReportOf
<1> QED
  BY <1>1, TypeAlways, PTL

-----------------------------------------------------------------------------
(* Refinement.  A step of the detailed system is the booking of one        *)
(* execution, the charging of one, or nothing to the ledger.               *)
Book == [e \in DOMAIN trades |->
           [owner |-> trades[e].owner, amount |-> bookedAmount(e), charged |-> trades[e].fee]]
Position == [s \in Strategies |-> quantityOf(s)]

LEMMA LedgerInit == Init => L!Init
  BY DEF Init, L!Init, quantityOf

(* The trigger moves the position of the strategy and of no other.         *)
LEMMA PositionMoves ==
  ASSUME TablesOK, NEW s \in Strategies, NEW side, NEW q \in Shares,
         update_or_insert_position(s, side, q)
  PROVE  Position' = [Position EXCEPT ![s] = @ + signed(side, q)]
<1>1. /\ signed(side, q) \in Int
      /\ \A u \in Strategies : quantityOf(u) \in Int
  BY TradeStoreAssumption DEF TradeStoreAssumption, TablesOK, quantityOf, signed, Shares
<1>2. \A u \in Strategies : quantityOf(u)' = IF u = s THEN quantityOf(s) + signed(side, q)
                                             ELSE quantityOf(u)
  <2>1. CASE quantityOf(s) + signed(side, q) = 0
    BY <2>1 DEF update_or_insert_position, quantityOf, Restrict
  <2>2. CASE quantityOf(s) + signed(side, q) # 0
    BY <2>2 DEF update_or_insert_position, quantityOf
  <2> QED
    BY <2>1, <2>2
<1> QED
  BY <1>2 DEF Position

(* An execution that is booked is recorded once, with the signed quantity. *)
LEMMA BookingRecords ==
  ASSUME TypeInv, NEW m \in Executions, slotAddNewTrade(m)
  PROVE  L!Next \/ UNCHANGED <<Book, Position>>
<1> DEFINE e == queue[m][1][2]
           side == queue[m][1][3]
           q == executed[e].shares
           row == [owner |-> Parent[m], quantity |-> q, tradeType |-> side, fee |-> FALSE]
<1>1. e \in 1 .. Len(executed) /\ side \in Side /\ TablesOK /\ Len(executed) <= MaxExecs
      /\ Len(executed) \in Nat /\ MaxExecs \in Nat
  BY HeadStatement, TradeStoreAssumption
     DEF slotAddNewTrade, TypeInv, BrokerOK, TradeStoreAssumption
<1>2. Parent[m] \in Strategies /\ q \in Shares
  BY <1>1, ExecutedType, TradeStoreAssumption DEF TradeStoreAssumption, TypeInv
<1>3. signed(side, q) \in -OrderSize .. OrderSize
  BY <1>2, TradeStoreAssumption DEF signed, Shares, TradeStoreAssumption
<1>4. CASE e \in DOMAIN trades
  <2>1. UNCHANGED <<trades, positions>>
    BY <1>4 DEF slotAddNewTrade
  <2> QED
    BY <2>1 DEF Book, Position, bookedAmount, quantityOf
<1>5. CASE e \notin DOMAIN trades
  <2>1. /\ trades' = [t \in DOMAIN trades \cup {e} |-> IF t = e THEN row ELSE trades[t]]
        /\ update_or_insert_position(Parent[m], side, q)
    BY <1>5 DEF slotAddNewTrade
  <2>2. Position' = [Position EXCEPT ![Parent[m]] = @ + signed(side, q)]
    BY <1>1, <1>2, <2>1, PositionMoves
  <2>3. /\ e \notin DOMAIN Book
        /\ Book' = [t \in DOMAIN Book \cup {e} |->
                      IF t = e THEN [owner |-> Parent[m], amount |-> signed(side, q),
                                     charged |-> FALSE]
                      ELSE Book[t]]
    BY <1>5, <2>1 DEF Book, bookedAmount
  <2>4. e \in Exec
    BY <1>1 DEF Exec
  <2>5. \E t \in Exec, a \in Strategies, k \in -OrderSize .. OrderSize :
           t = e /\ a = Parent[m] /\ k = signed(side, q)
    BY <1>2, <1>3, <2>4
  <2>6. PICK t \in Exec, a \in Strategies, k \in -OrderSize .. OrderSize :
           t = e /\ a = Parent[m] /\ k = signed(side, q)
    BY <2>5
  <2>7. L!Record(t, a, k)
    BY <2>2, <2>3, <2>6 DEF L!Record, Book, Position
  <2> QED
    BY <2>7 DEF L!Next
<1> QED
  BY <1>4, <1>5

LEMMA CommissionCharges ==
  ASSUME TypeInv, NEW m \in Executions, slotUpdateTradeCommission(m)
  PROVE  L!Next \/ UNCHANGED <<Book, Position>>
<1> DEFINE e == queue[m][1][2]
<1>1. e \in Exec
  BY HeadStatement, TradeStoreAssumption
     DEF slotUpdateTradeCommission, TypeInv, BrokerOK, TradeStoreAssumption, Exec
<1>2. /\ trades' = IF e \in DOMAIN trades THEN [trades EXCEPT ![e].fee = TRUE] ELSE trades
      /\ UNCHANGED positions
  BY DEF slotUpdateTradeCommission
<1>3. UNCHANGED Position
  BY <1>2 DEF Position, quantityOf
<1>4. CASE e \notin DOMAIN trades
  BY <1>2, <1>3, <1>4 DEF Book, bookedAmount
<1>5. CASE e \in DOMAIN trades
  <2>1. DOMAIN trades' = DOMAIN trades
    BY <1>2, <1>5
  <2>2. ASSUME NEW t \in DOMAIN trades
        PROVE  /\ trades'[t].owner = trades[t].owner
               /\ trades'[t].quantity = trades[t].quantity
               /\ trades'[t].tradeType = trades[t].tradeType
               /\ trades'[t].fee = IF t = e THEN TRUE ELSE trades[t].fee
    <3>1. trades[t] \in Row
      BY DEF TypeInv, TablesOK
    <3>2. CASE t = e
      <4>1. trades'[t] = [trades[t] EXCEPT !.fee = TRUE]
        BY <1>2, <1>5, <3>2, Zenon
      <4> QED
        BY <3>1, <3>2, <4>1 DEF Row
    <3>3. CASE t # e
      <4>1. trades'[t] = trades[t]
        BY <1>2, <1>5, <3>3, Zenon
      <4> QED
        BY <3>3, <4>1
    <3> QED
      BY <3>2, <3>3
  <2>3. /\ e \in DOMAIN Book
        /\ Book' = [Book EXCEPT ![e].charged = TRUE]
    <3>1. \A t \in DOMAIN trades :
             Book'[t] = IF t = e THEN [Book[t] EXCEPT !.charged = TRUE] ELSE Book[t]
      BY <2>1, <2>2 DEF Book, bookedAmount
    <3>2. DOMAIN Book' = DOMAIN trades /\ DOMAIN Book = DOMAIN trades
      BY <2>1 DEF Book
    <3>3. Book = [t \in DOMAIN trades |-> Book[t]] /\ Book' = [t \in DOMAIN trades |-> Book'[t]]
      BY <2>1 DEF Book
    <3> QED
      BY <1>5, <3>1, <3>2, <3>3
  <2> QED
    BY <1>1, <1>3, <2>3 DEF L!Next, L!Charge, Book, Position
<1> QED
  BY <1>4, <1>5

LEMMA LedgerStep ==
  ASSUME TypeInv, [Next]_vars
  PROVE  [L!Next]_(L!ledger)
<1>1. ASSUME UNCHANGED tables PROVE UNCHANGED <<Book, Position>>
  BY <1>1 DEF tables, Book, Position, bookedAmount, quantityOf
<1>2. ASSUME NEW m \in Executions,
             \/ GuiStep(m) \/ initializeConnectionSlot(m)
             \/ \E kind \in {"insert", "update"} : Failed(m, kind)
             \/ start(m) \/ processData(m) \/ Execute(m)
      PROVE  UNCHANGED tables
  BY <1>2 DEF GuiStep, slotRecvExecutionReport, slotRecvCommissionReport,
              initializeConnectionSlot, Failed, start, processData, Execute
<1>3. ASSUME NEW e \in Exec, execDetails(e) \/ commissionReport(e) PROVE UNCHANGED tables
  BY <1>3 DEF execDetails, commissionReport, Dispatch
<1>4. ASSUME Restart \/ UNCHANGED vars PROVE UNCHANGED tables
  BY <1>4 DEF Restart, vars
<1>5. L!Next \/ UNCHANGED <<Book, Position>>
  BY <1>1, <1>2, <1>3, <1>4, BookingRecords, CommissionCharges DEF Next, DbStep
<1> QED
  BY <1>5 DEF L!ledger, Book, Position

(* The tables implement the ledger: whatever the models' threads do, each  *)
(* execution is booked once, positions move with the booking only, and a   *)
(* booked trade changes by its commission only.                            *)
THEOREM Refinement == Spec => ImplementsLedger
  BY LedgerInit, LedgerStep, TypeAlways, PTL DEF Spec, ImplementsLedger, L!Spec

-----------------------------------------------------------------------------
(* Balances.  What the ledger records moves a position and adds the same   *)
(* amount to the sum over the trades of its owner, and what it charges     *)
(* changes neither.                                                        *)
Amounts   == [e \in DOMAIN trades |-> bookedAmount(e)]
BookedOn(s) == {e \in DOMAIN trades : trades[e].owner = s}
Balances  == \A s \in Strategies : quantityOf(s) = SumFunctionOnSet(Amounts, BookedOn(s))

LEMMA AmountTypes ==
  ASSUME TypeInv, NEW s
  PROVE  /\ IsFiniteSet(BookedOn(s))
         /\ \A e \in DOMAIN trades : Amounts[e] \in Int
<1>1. IsFiniteSet(1 .. Len(executed)) /\ DOMAIN trades \subseteq 1 .. Len(executed)
  BY FS_Interval DEF TypeInv, BrokerOK, TablesOK
<1>2. IsFiniteSet(BookedOn(s))
  BY <1>1, FS_Subset DEF BookedOn
<1>3. ASSUME NEW e \in DOMAIN trades PROVE bookedAmount(e) \in Int
  <2>1. trades[e].quantity \in Int
    BY TradeStoreAssumption DEF TypeInv, TablesOK, Row, Shares, TradeStoreAssumption
  <2> QED
    BY <2>1 DEF bookedAmount, signed
<1> QED
  BY <1>2, <1>3 DEF Amounts

(* The sum over an operator of the state is that over its values.          *)
LEMMA BalancesAreSums ==
  ASSUME TypeInv
  PROVE  Balances <=> PositionsMatchTrades
<1>1. ASSUME NEW s \in Strategies
      PROVE  SumFunctionOnSet(Amounts, BookedOn(s)) = MapThenSumSet(bookedAmount, BookedOn(s))
  <2>1. PICK S : S = BookedOn(s)
    OBVIOUS
  <2>2. IsFiniteSet(S) /\ S \subseteq DOMAIN trades
    BY <2>1, AmountTypes DEF BookedOn
  <2> DEFINE first(u) == CHOOSE x \in u : TRUE
             Folds(it) == it = [u \in SUBSET S |-> IF u = {} THEN 0
                                                   ELSE bookedAmount(first(u)) + it[u \ {first(u)}]]
  <2>3. \A u \in SUBSET S : u # {} => Amounts[first(u)] = bookedAmount(first(u))
    BY <2>2 DEF Amounts
  <2>4. \A it : Folds(it) <=> Adds(it, Amounts, S)
    BY <2>3 DEF Adds
  <2>5. PICK jt : jt = CHOOSE it : Folds(it)
    OBVIOUS
  <2>6. MapThenSumSet(bookedAmount, S) = jt[S]
    BY <2>5 DEF MapThenSumSet, MapThenFoldSet
  <2>7. PICK it : Adds(it, Amounts, S) /\ SumFunctionOnSet(Amounts, S) = it[S]
    BY <2>2, SumIs
  <2> HIDE DEF Folds
  <2>8. Folds(jt)
    BY <2>4, <2>5, <2>7
  <2>9. Adds(jt, Amounts, S)
    BY <2>4, <2>8
  <2>10. it[S] = jt[S]
    BY <2>2, <2>7, <2>9, AddsAgree
  <2> QED
    BY <2>1, <2>6, <2>7, <2>10
<1> QED
  BY <1>1 DEF Balances, PositionsMatchTrades, BookedOn

LEMMA BalancesInit == Init => Balances
<1> SUFFICES ASSUME Init, NEW s \in Strategies
             PROVE  quantityOf(s) = SumFunctionOnSet(Amounts, BookedOn(s))
  BY DEF Balances
<1>1. quantityOf(s) = 0 /\ BookedOn(s) = {}
  BY DEF Init, quantityOf, BookedOn
<1> QED
  BY <1>1, SumNone

LEMMA BalancesStep ==
  ASSUME TypeInv, TypeInv', Balances, [Next]_vars
  PROVE  Balances'
<1>0. /\ DOMAIN Book = DOMAIN trades /\ DOMAIN Position = Strategies
      /\ \A e \in DOMAIN trades : Book[e].owner = trades[e].owner /\ Book[e].amount = Amounts[e]
      /\ \A s \in Strategies : Position[s] = quantityOf(s)
  BY DEF Book, Position, Amounts
<1>1. /\ DOMAIN Book' = DOMAIN trades'
      /\ \A e \in DOMAIN trades' : Book'[e].owner = trades'[e].owner /\ Book'[e].amount = Amounts'[e]
      /\ \A s \in Strategies : Position'[s] = quantityOf(s)'
  BY DEF Book, Position, Amounts
<1>2. ASSUME NEW s \in Strategies, BookedOn(s)' = BookedOn(s), quantityOf(s)' = quantityOf(s),
             \A e \in BookedOn(s) : Amounts'[e] = Amounts[e]
      PROVE  quantityOf(s)' = SumFunctionOnSet(Amounts, BookedOn(s))'
  <2>1. SumFunctionOnSet(Amounts', BookedOn(s)) = SumFunctionOnSet(Amounts, BookedOn(s))
    BY <1>2, AmountTypes, SumSame
  <2>2. quantityOf(s) = SumFunctionOnSet(Amounts, BookedOn(s))
    BY DEF Balances
  <2> QED
    BY <1>2, <2>1, <2>2
<1>3. CASE UNCHANGED <<Book, Position>>
  <2>1. ASSUME NEW s \in Strategies
        PROVE  quantityOf(s)' = SumFunctionOnSet(Amounts, BookedOn(s))'
    <3>1. /\ BookedOn(s)' = BookedOn(s) /\ quantityOf(s)' = quantityOf(s)
          /\ \A e \in BookedOn(s) : Amounts'[e] = Amounts[e]
      BY <1>0, <1>1, <1>3 DEF BookedOn
    <3> QED
      BY <1>2, <3>1
  <2> QED
    BY <2>1 DEF Balances
<1>4. ASSUME NEW t \in Exec, L!Charge(t) PROVE Balances'
  <2>1. ASSUME NEW s \in Strategies
        PROVE  quantityOf(s)' = SumFunctionOnSet(Amounts, BookedOn(s))'
    <3>1. Position' = Position /\ DOMAIN Book' = DOMAIN Book
      BY <1>4 DEF L!Charge, Book, Position
    <3>2. ASSUME NEW e \in DOMAIN Book
          PROVE  Book'[e].owner = Book[e].owner /\ Book'[e].amount = Book[e].amount
      <4>1. Book' = [Book EXCEPT ![t].charged = TRUE]
        BY <1>4 DEF L!Charge, Book
      <4>2. Book'[e] = IF e = t THEN [Book[e] EXCEPT !.charged = TRUE] ELSE Book[e]
        BY <4>1
      <4>3. Book[e] = [owner |-> trades[e].owner, amount |-> bookedAmount(e),
                       charged |-> trades[e].fee]
        BY DEF Book
      <4> QED
        BY <4>2, <4>3
    <3>3. /\ BookedOn(s)' = BookedOn(s) /\ quantityOf(s)' = quantityOf(s)
          /\ \A e \in BookedOn(s) : Amounts'[e] = Amounts[e]
      BY <1>0, <1>1, <3>1, <3>2 DEF BookedOn
    <3> QED
      BY <1>2, <3>3
  <2> QED
    BY <2>1 DEF Balances
<1>5. ASSUME NEW t \in Exec, NEW a \in Strategies, NEW q \in -OrderSize .. OrderSize,
             L!Record(t, a, q)
      PROVE  Balances'
  <2>1. /\ t \notin DOMAIN Book
        /\ DOMAIN Book' = DOMAIN Book \cup {t}
        /\ \A e \in DOMAIN Book : Book'[e] = Book[e]
        /\ Book'[t].owner = a /\ Book'[t].amount = q
        /\ Position' = [Position EXCEPT ![a] = @ + q]
    BY <1>5 DEF L!Record, Book, Position
  <2>2. ASSUME NEW s \in Strategies, s # a
        PROVE  quantityOf(s)' = SumFunctionOnSet(Amounts, BookedOn(s))'
    <3>1. /\ BookedOn(s)' = BookedOn(s) /\ quantityOf(s)' = quantityOf(s)
          /\ \A e \in BookedOn(s) : Amounts'[e] = Amounts[e]
      BY <1>0, <1>1, <2>1, <2>2 DEF BookedOn
    <3> QED
      BY <1>2, <3>1
  <2>3. quantityOf(a)' = SumFunctionOnSet(Amounts, BookedOn(a))'
    <3>1. PICK B : B = BookedOn(a)
      OBVIOUS
    <3>2. /\ t \notin B /\ BookedOn(a)' = B \cup {t} /\ quantityOf(a)' = quantityOf(a) + q
          /\ \A e \in B : Amounts'[e] = Amounts[e]
          /\ Amounts'[t] = q
      BY <1>0, <1>1, <2>1, <3>1 DEF BookedOn
    <3>3. IsFiniteSet(B) /\ \A e \in B : Amounts[e] \in Int
      BY <3>1, AmountTypes DEF BookedOn
    <3>4. q \in Int
      BY TradeStoreAssumption DEF TradeStoreAssumption
    <3>5. \A e \in B \cup {t} : Amounts'[e] \in Int
      BY <3>2, <3>3, <3>4
    <3>6. SumFunctionOnSet(Amounts', B) = SumFunctionOnSet(Amounts, B)
      BY <3>2, <3>3, SumSame
    <3>7. PICK f : f = Amounts'
      OBVIOUS
    <3>8. /\ SumFunctionOnSet(f, B) \in Int
          /\ SumFunctionOnSet(f, B \cup {t}) = f[t] + SumFunctionOnSet(f, B)
      BY <3>2, <3>3, <3>5, <3>7, SumMore
    <3>9. quantityOf(a) = SumFunctionOnSet(Amounts, B)
      BY <3>1 DEF Balances
    <3>10. PICK b \in Int : b = SumFunctionOnSet(f, B)
      BY <3>8
    <3>11. SumFunctionOnSet(Amounts, BookedOn(a))' = q + b /\ quantityOf(a)' = b + q
      BY <3>2, <3>6, <3>7, <3>8, <3>9, <3>10, Zenon
    <3> QED
      BY <3>4, <3>10, <3>11
  <2> QED
    BY <2>2, <2>3 DEF Balances
<1>6. L!Next \/ UNCHANGED <<Book, Position>>
  BY LedgerStep DEF L!ledger, Book, Position
<1> QED
  BY <1>3, <1>4, <1>5, <1>6 DEF L!Next

(* A strategy's position is the sum of its booked trades, sold shares      *)
(* negative, and has no row when that is 0: the trigger agrees with the    *)
(* table, whichever threads book, fail or are cut off.                     *)
THEOREM PositionsAddUp == Spec => []PositionsMatchTrades
<1>1. Init => Balances
  BY BalancesInit
<1>2. TypeInv /\ TypeInv' /\ Balances /\ [Next]_vars => Balances'
  BY BalancesStep
<1>3. TypeInv /\ Balances => PositionsMatchTrades
  BY BalancesAreSums
<1> QED
  BY <1>1, <1>2, <1>3, TypeAlways, PTL DEF Spec

-----------------------------------------------------------------------------
(* Completeness.  Where nothing failed and the program ran on, an event or *)
(* a statement is on its way until its row is written, and the insert of a *)
(* trade is before its update on every way.                                *)
Is(x, kind, e)  == x[1] = kind /\ x[2] = e
Has(s, kind, e) == \E j \in 1 .. Len(s) : Is(s[j], kind, e)
HasBefore(s, n, kind, e) == \E j \in 1 .. Len(s) : j < n /\ Is(s[j], kind, e)

(* Of one model that was told of execution e: its statements Q, its events *)
(* B, the booked trades T, those P with their commission, and the          *)
(* executions C whose commission is reported.                              *)
Arrives(Q, B, e, T, P, C) ==
  /\ e \in T \/ Has(Q, "insert", e) \/ Has(B, "execution", e)
  /\ e \in C => e \in P \/ Has(Q, "update", e) \/ Has(B, "commission", e)
  /\ \A j \in 1 .. Len(Q) : Is(Q[j], "update", e) => e \in T \/ HasBefore(Q, j, "insert", e)
  /\ \A j \in 1 .. Len(B) : Is(B[j], "commission", e) =>
       e \in T \/ Has(Q, "insert", e) \/ HasBefore(B, j, "execution", e)

(* No commission is on its way before it is reported. *)
Foreseen(Q, B, e, C) ==
  Has(Q, "update", e) \/ Has(B, "commission", e) => e \in C

Paid    == {e \in DOMAIN trades : trades[e].fee}
Charged == {e \in Exec : IsReported("commission", e)}
Told(m, e) == IsReported("execution", e) /\ m \in reported[<<"execution", e>>]

ToldOK == \A r \in DOMAIN reported : reported[r] \subseteq subscribed
OrderOK == \A e \in Charged : IsReported("execution", e)
Way(m, e) ==
  /\ Foreseen(queue[m], inbox[m], e, Charged)
  /\ Told(m, e) => Arrives(queue[m], inbox[m], e, DOMAIN trades, Paid, Charged)
WaysOK == \A m \in Executions, e \in Exec : Way(m, e)

BooksInv == (failed = {} /\ restarts = 0) => ToldOK /\ OrderOK /\ WaysOK

(* What a sequence still has of a kind, without its head or with one more. *)
LEMMA TailHas ==
  ASSUME NEW S, NEW s \in Seq(S), s # <<>>, NEW kind, NEW e
  PROVE  /\ Has(s, kind, e) <=> Is(s[1], kind, e) \/ Has(Tail(s), kind, e)
         /\ \A j \in 1 .. Len(Tail(s)) :
              HasBefore(s, j + 1, kind, e) <=>
                Is(s[1], kind, e) \/ HasBefore(Tail(s), j, kind, e)
         /\ ~HasBefore(s, 1, kind, e)
<1>1. /\ Len(s) \in Nat /\ Len(s) > 0
      /\ Len(Tail(s)) = Len(s) - 1
      /\ \A j \in 1 .. Len(s) - 1 : Tail(s)[j] = s[j + 1]
  <2>1. Len(s) \in Nat /\ Len(s) # 0
    BY EmptySeq, LenProperties
  <2> QED
    BY <2>1, HeadTailProperties
<1>2. \A j \in 2 .. Len(s) : j - 1 \in 1 .. Len(s) - 1 /\ Tail(s)[j - 1] = s[j]
  BY <1>1
<1>3. ASSUME NEW n \in Nat \ {0}, HasBefore(s, n + 1, kind, e)
      PROVE  Is(s[1], kind, e) \/ HasBefore(Tail(s), n, kind, e)
  <2>1. PICK j \in 1 .. Len(s) : j < n + 1 /\ Is(s[j], kind, e)
    BY <1>3 DEF HasBefore
  <2>2. CASE j = 1
    BY <2>1, <2>2
  <2>3. CASE j \in 2 .. Len(s)
    <3>1. /\ j - 1 \in 1 .. Len(Tail(s)) /\ j - 1 < n
          /\ Is(Tail(s)[j - 1], kind, e)
      BY <1>1, <1>2, <2>1, <2>3
    <3> QED
      BY <3>1 DEF HasBefore
  <2> QED
    BY <1>1, <2>2, <2>3
<1>4. ASSUME NEW n \in Nat \ {0}, Is(s[1], kind, e) \/ HasBefore(Tail(s), n, kind, e)
      PROVE  HasBefore(s, n + 1, kind, e)
  <2>1. CASE Is(s[1], kind, e)
    BY <1>1, <2>1 DEF HasBefore
  <2>2. CASE HasBefore(Tail(s), n, kind, e)
    <3>1. PICK j \in 1 .. Len(Tail(s)) : j < n /\ Is(Tail(s)[j], kind, e)
      BY <2>2 DEF HasBefore
    <3>2. j + 1 \in 1 .. Len(s) /\ j + 1 < n + 1 /\ Is(s[j + 1], kind, e)
      BY <1>1, <3>1
    <3> QED
      BY <3>2 DEF HasBefore
  <2> QED
    BY <1>4, <2>1, <2>2
<1>5. /\ Has(s, kind, e) <=> HasBefore(s, Len(s) + 1, kind, e)
      /\ Has(Tail(s), kind, e) <=> HasBefore(Tail(s), Len(s), kind, e)
  <2>1. /\ \A j \in 1 .. Len(s) : j < Len(s) + 1
        /\ \A j \in 1 .. Len(Tail(s)) : j < Len(s)
    BY <1>1
  <2> QED
    BY <2>1, Zenon DEF Has, HasBefore
<1>6. ~HasBefore(s, 1, kind, e)
  BY DEF HasBefore
<1>7. Len(s) \in Nat \ {0} /\ \A j \in 1 .. Len(Tail(s)) : j \in Nat \ {0}
  BY <1>1
<1>8. Has(s, kind, e) <=> Is(s[1], kind, e) \/ Has(Tail(s), kind, e)
  BY <1>3, <1>4, <1>5, <1>7, Zenon
<1>9. \A n \in Nat \ {0} : HasBefore(s, n + 1, kind, e) <=>
                             Is(s[1], kind, e) \/ HasBefore(Tail(s), n, kind, e)
  BY <1>3, <1>4, Zenon
<1> QED
  BY <1>6, <1>7, <1>8, <1>9, Zenon

LEMMA AppendHas ==
  ASSUME NEW S, NEW s \in Seq(S), NEW x \in S, NEW kind, NEW e
  PROVE  /\ Has(Append(s, x), kind, e) <=> Has(s, kind, e) \/ Is(x, kind, e)
         /\ \A j \in 1 .. Len(s) :
              HasBefore(Append(s, x), j, kind, e) <=> HasBefore(s, j, kind, e)
         /\ HasBefore(Append(s, x), Len(s) + 1, kind, e) <=> Has(s, kind, e)
<1>1. /\ Len(s) \in Nat
      /\ Len(Append(s, x)) = Len(s) + 1
      /\ \A j \in 1 .. Len(s) : Append(s, x)[j] = s[j]
      /\ Append(s, x)[Len(s) + 1] = x
  BY AppendProperties, LenProperties
<1> QED
  BY <1>1 DEF Has, HasBefore

(* The ways of a model, step by step: a report is handled, ... *)
LEMMA ExecutionHandled ==
  ASSUME NEW S, NEW Q \in Seq(S), NEW st \in S, NEW R, NEW B \in Seq(R), B # <<>>,
         NEW e, NEW f, NEW T, NEW P, NEW C,
         Is(B[1], "execution", f), Is(st, "insert", f)
  PROVE  /\ Arrives(Q, B, e, T, P, C) => Arrives(Append(Q, st), Tail(B), e, T, P, C)
         /\ Foreseen(Q, B, e, C) => Foreseen(Append(Q, st), Tail(B), e, C)
<1> DEFINE QQ == Append(Q, st)
           BB == Tail(B)
<1>1. /\ ~Is(B[1], "commission", e) /\ ~Is(st, "update", e)
      /\ Is(B[1], "execution", e) <=> e = f
      /\ Is(st, "insert", e) <=> e = f
  BY DEF Is
<1>2. /\ Has(QQ, "update", e) <=> Has(Q, "update", e)
      /\ Has(QQ, "insert", e) <=> Has(Q, "insert", e) \/ e = f
      /\ Has(BB, "commission", e) <=> Has(B, "commission", e)
      /\ Has(B, "execution", e) <=> Has(BB, "execution", e) \/ e = f
  BY <1>1, AppendHas, TailHas
<1>3. ASSUME \A j \in 1 .. Len(Q) : Is(Q[j], "update", e) => e \in T \/ HasBefore(Q, j, "insert", e),
             NEW j \in 1 .. Len(QQ), Is(QQ[j], "update", e)
      PROVE  e \in T \/ HasBefore(QQ, j, "insert", e)
  <2>1. j \in 1 .. Len(Q) /\ QQ[j] = Q[j]
    BY <1>1, <1>3, AppendProperties, LenProperties
  <2> QED
    BY <1>3, <2>1, AppendHas
<1>4. ASSUME \A j \in 1 .. Len(B) : Is(B[j], "commission", e) =>
               e \in T \/ Has(Q, "insert", e) \/ HasBefore(B, j, "execution", e),
             NEW j \in 1 .. Len(BB), Is(BB[j], "commission", e)
      PROVE  e \in T \/ Has(QQ, "insert", e) \/ HasBefore(BB, j, "execution", e)
  <2>1. j + 1 \in 1 .. Len(B) /\ BB[j] = B[j + 1]
    BY HeadTailProperties, LenProperties
  <2>2. e \in T \/ Has(Q, "insert", e) \/ HasBefore(B, j + 1, "execution", e)
    BY <1>4, <2>1
  <2>3. HasBefore(B, j + 1, "execution", e) => e = f \/ HasBefore(BB, j, "execution", e)
    BY <1>1, TailHas
  <2> QED
    BY <1>2, <2>2, <2>3
<1> QED
  BY <1>2, <1>3, <1>4, Zenon DEF Arrives, Foreseen

LEMMA CommissionHandled ==
  ASSUME NEW S, NEW Q \in Seq(S), NEW st \in S, NEW R, NEW B \in Seq(R), B # <<>>,
         NEW e, NEW f, NEW T, NEW P, NEW C,
         Is(B[1], "commission", f), Is(st, "update", f)
  PROVE  /\ Arrives(Q, B, e, T, P, C) => Arrives(Append(Q, st), Tail(B), e, T, P, C)
         /\ Foreseen(Q, B, e, C) => Foreseen(Append(Q, st), Tail(B), e, C)
<1> DEFINE QQ == Append(Q, st)
           BB == Tail(B)
<1>1. /\ ~Is(B[1], "execution", e) /\ ~Is(st, "insert", e)
      /\ Is(B[1], "commission", e) <=> e = f
      /\ Is(st, "update", e) <=> e = f
  BY DEF Is
<1>2. /\ Has(QQ, "update", e) <=> Has(Q, "update", e) \/ e = f
      /\ Has(QQ, "insert", e) <=> Has(Q, "insert", e)
      /\ Has(B, "commission", e) <=> Has(BB, "commission", e) \/ e = f
      /\ Has(B, "execution", e) <=> Has(BB, "execution", e)
  BY <1>1, AppendHas, TailHas
<1>3. ASSUME Arrives(Q, B, e, T, P, C), NEW j \in 1 .. Len(QQ), Is(QQ[j], "update", e)
      PROVE  e \in T \/ HasBefore(QQ, j, "insert", e)
  <2>1. CASE j \in 1 .. Len(Q)
    <3>1. QQ[j] = Q[j]
      BY <2>1, AppendProperties
    <3> QED
      BY <1>3, <2>1, <3>1, AppendHas DEF Arrives
  <2>2. CASE j = Len(Q) + 1
    <3>1. e = f
      BY <1>1, <1>3, <2>2, AppendProperties
    <3>2. 1 \in 1 .. Len(B) /\ Is(B[1], "commission", e)
      BY <1>1, <3>1, EmptySeq
    <3>3. e \in T \/ Has(Q, "insert", e) \/ HasBefore(B, 1, "execution", e)
      BY <1>3, <3>2 DEF Arrives
    <3> QED
      BY <2>2, <3>3, TailHas, AppendHas
  <2> QED
    BY <1>3, <2>1, <2>2, AppendProperties, LenProperties
<1>4. ASSUME Arrives(Q, B, e, T, P, C), NEW j \in 1 .. Len(BB), Is(BB[j], "commission", e)
      PROVE  e \in T \/ Has(QQ, "insert", e) \/ HasBefore(BB, j, "execution", e)
  <2>1. j + 1 \in 1 .. Len(B) /\ BB[j] = B[j + 1]
    BY HeadTailProperties, LenProperties
  <2>2. e \in T \/ Has(Q, "insert", e) \/ HasBefore(B, j + 1, "execution", e)
    BY <1>4, <2>1 DEF Arrives
  <2>3. HasBefore(B, j + 1, "execution", e) => HasBefore(BB, j, "execution", e)
    BY <1>1, TailHas
  <2> QED
    BY <1>2, <2>2, <2>3
<1> QED
  BY <1>2, <1>3, <1>4, Zenon DEF Arrives, Foreseen

(* ... a report is sent to the model, ... *)
LEMMA Sent ==
  ASSUME NEW Q, NEW R, NEW B \in Seq(R), NEW b \in R, NEW e, NEW T, NEW P, NEW C, NEW CC,
         e \in CC <=> e \in C \/ Is(b, "commission", e)
  PROVE  /\ Arrives(Q, B, e, T, P, C) => Arrives(Q, Append(B, b), e, T, P, CC)
         /\ Foreseen(Q, B, e, C) => Foreseen(Q, Append(B, b), e, CC)
<1> DEFINE BB == Append(B, b)
<1>1. /\ Has(BB, "execution", e) <=> Has(B, "execution", e) \/ Is(b, "execution", e)
      /\ Has(BB, "commission", e) <=> Has(B, "commission", e) \/ Is(b, "commission", e)
  BY AppendHas
<1>2. ASSUME Arrives(Q, B, e, T, P, C), NEW j \in 1 .. Len(BB), Is(BB[j], "commission", e)
      PROVE  e \in T \/ Has(Q, "insert", e) \/ HasBefore(BB, j, "execution", e)
  <2>1. CASE j \in 1 .. Len(B)
    <3>1. BB[j] = B[j]
      BY <2>1, AppendProperties
    <3> QED
      BY <1>2, <2>1, <3>1, AppendHas DEF Arrives
  <2>2. CASE j = Len(B) + 1
    <3>1. e \in T \/ Has(Q, "insert", e) \/ Has(B, "execution", e)
      BY <1>2 DEF Arrives
    <3> QED
      BY <2>2, <3>1, AppendHas
  <2> QED
    BY <1>2, <2>1, <2>2, AppendProperties, LenProperties
<1> QED
  BY <1>1, <1>2, Zenon DEF Arrives, Foreseen

LEMMA SentFirst ==
  ASSUME NEW Q, NEW R, NEW B \in Seq(R), NEW b \in R, NEW e, NEW T, NEW P, NEW C,
         Foreseen(Q, B, e, C), e \notin C, Is(b, "execution", e)
  PROVE  Arrives(Q, Append(B, b), e, T, P, C)
<1> DEFINE BB == Append(B, b)
<1>1. Has(BB, "execution", e)
  BY AppendHas
<1>2. ~Is(b, "commission", e)
  BY DEF Is
<1>3. ~Has(Q, "update", e) /\ ~Has(BB, "commission", e)
  BY <1>2, AppendHas DEF Foreseen
<1>4. /\ \A j \in 1 .. Len(Q) : ~Is(Q[j], "update", e)
      /\ \A j \in 1 .. Len(BB) : ~Is(BB[j], "commission", e)
  BY <1>3 DEF Has
<1> QED
  BY <1>1, <1>4, Zenon DEF Arrives

(* ... its thread runs a statement, or another thread does. *)
LEMMA Ran ==
  ASSUME NEW S, NEW Q \in Seq(S), Q # <<>>, NEW B, NEW e, NEW T, NEW P, NEW C, NEW TT, NEW PP,
         T \subseteq TT, P \subseteq PP,
         Is(Q[1], "insert", e) => e \in TT,
         Is(Q[1], "update", e) /\ e \in T => e \in PP
  PROVE  /\ Arrives(Q, B, e, T, P, C) => Arrives(Tail(Q), B, e, TT, PP, C)
         /\ Foreseen(Q, B, e, C) => Foreseen(Tail(Q), B, e, C)
<1> DEFINE QQ == Tail(Q)
<1>1. /\ Has(Q, "insert", e) <=> Is(Q[1], "insert", e) \/ Has(QQ, "insert", e)
      /\ Has(Q, "update", e) <=> Is(Q[1], "update", e) \/ Has(QQ, "update", e)
  BY TailHas
<1>2. ASSUME Arrives(Q, B, e, T, P, C), Is(Q[1], "update", e)
      PROVE  e \in PP
  <2>1. 1 \in 1 .. Len(Q)
    BY EmptySeq
  <2>2. e \in T
    BY <1>2, <2>1, TailHas DEF Arrives
  <2> QED
    BY <1>2, <2>2
<1>3. ASSUME Arrives(Q, B, e, T, P, C), NEW j \in 1 .. Len(QQ), Is(QQ[j], "update", e)
      PROVE  e \in TT \/ HasBefore(QQ, j, "insert", e)
  <2>1. j + 1 \in 1 .. Len(Q) /\ QQ[j] = Q[j + 1]
    BY HeadTailProperties, LenProperties
  <2>2. e \in T \/ HasBefore(Q, j + 1, "insert", e)
    BY <1>3, <2>1 DEF Arrives
  <2>3. HasBefore(Q, j + 1, "insert", e) => e \in TT \/ HasBefore(QQ, j, "insert", e)
    BY TailHas
  <2> QED
    BY <2>2, <2>3
<1>4. ASSUME Arrives(Q, B, e, T, P, C)
      PROVE  /\ e \in TT \/ Has(QQ, "insert", e) \/ Has(B, "execution", e)
             /\ e \in C => e \in PP \/ Has(QQ, "update", e) \/ Has(B, "commission", e)
             /\ \A j \in 1 .. Len(B) : Is(B[j], "commission", e) =>
                  e \in TT \/ Has(QQ, "insert", e) \/ HasBefore(B, j, "execution", e)
  BY <1>1, <1>2, <1>4, Zenon DEF Arrives
<1> QED
  BY <1>1, <1>3, <1>4, Zenon DEF Arrives, Foreseen

LEMMA OthersRan ==
  ASSUME NEW Q, NEW B, NEW e, NEW T, NEW P, NEW C, NEW TT, NEW PP,
         T \subseteq TT, P \subseteq PP
  PROVE  Arrives(Q, B, e, T, P, C) => Arrives(Q, B, e, TT, PP, C)
  BY Zenon DEF Arrives

LEMMA InboxHead ==
  ASSUME TypeInv, NEW m \in Executions, inbox[m] # <<>>
  PROVE  /\ inbox[m] \in Seq(ReportOf(Len(executed)))
         /\ queue[m] \in Seq(StatementOf(Len(executed)))
         /\ inbox[m][1][2] \in 1 .. Len(executed)
<1>1. /\ inbox[m] \in Seq(ReportOf(Len(executed)))
      /\ queue[m] \in Seq(StatementOf(Len(executed)))
  BY DEF TypeInv, QueuesOK
<1>2. inbox[m][1] \in ReportOf(Len(executed))
  BY <1>1, FirstElement
<1> QED
  BY <1>1, <1>2 DEF ReportOf

LEMMA GuiBooks ==
  ASSUME TypeInv, WaysOK, NEW m \in Executions, GuiStep(m)
  PROVE  WaysOK'
<1> DEFINE n == Len(executed)
           f == inbox[m][1][2]
<1>1. UNCHANGED <<trades, reported>> /\ inbox[m] # <<>>
  BY DEF GuiStep, slotRecvExecutionReport, slotRecvCommissionReport, tables, broker
<1>2. /\ UNCHANGED <<Paid, Charged, DOMAIN trades>>
      /\ \A k, e : Told(k, e)' <=> Told(k, e)
  BY <1>1 DEF Paid, Charged, Told, IsReported
<1>3. inbox[m] \in Seq(ReportOf(n)) /\ queue[m] \in Seq(StatementOf(n)) /\ f \in 1 .. n
  BY <1>1, InboxHead
<1>4. queue \in [Executions -> Seq(StatementOf(n))] /\ inbox \in [Executions -> Seq(ReportOf(n))]
  BY DEF TypeInv, QueuesOK
<1>5. ASSUME NEW st, Consume(m, st)
      PROVE  /\ queue'[m] = Append(queue[m], st) /\ inbox'[m] = Tail(inbox[m])
             /\ \A k \in Executions \ {m} : queue'[k] = queue[k] /\ inbox'[k] = inbox[k]
  BY <1>4, <1>5 DEF Consume
<1>6. CASE slotRecvExecutionReport(m)
  <2> DEFINE st == <<"insert", f, direction[m]>>
  <2>1. Consume(m, st) /\ Is(inbox[m][1], "execution", f)
    BY <1>6 DEF slotRecvExecutionReport, Is
  <2>2. st \in StatementOf(n) /\ Is(st, "insert", f)
    BY <1>3 DEF StatementOf, Is, TypeInv, ModelsOK
  <2>3. ASSUME NEW e \in Exec PROVE Way(m, e)'
    <3>1. /\ Foreseen(queue[m], inbox[m], e, Charged)
               => Foreseen(Append(queue[m], st), Tail(inbox[m]), e, Charged)
          /\ Arrives(queue[m], inbox[m], e, DOMAIN trades, Paid, Charged)
               => Arrives(Append(queue[m], st), Tail(inbox[m]), e, DOMAIN trades, Paid, Charged)
      BY <1>1, <1>3, <2>1, <2>2, ExecutionHandled
    <3> QED
      BY <1>2, <1>5, <2>1, <3>1 DEF WaysOK, Way
  <2> QED
    BY <1>2, <1>5, <2>1, <2>3 DEF WaysOK, Way
<1>7. CASE slotRecvCommissionReport(m)
  <2> DEFINE st == <<"update", f>>
  <2>1. Consume(m, st) /\ Is(inbox[m][1], "commission", f)
    BY <1>7 DEF slotRecvCommissionReport, Is
  <2>2. st \in StatementOf(n) /\ Is(st, "update", f)
    BY <1>3 DEF StatementOf, Is
  <2>3. ASSUME NEW e \in Exec PROVE Way(m, e)'
    <3>1. /\ Foreseen(queue[m], inbox[m], e, Charged)
               => Foreseen(Append(queue[m], st), Tail(inbox[m]), e, Charged)
          /\ Arrives(queue[m], inbox[m], e, DOMAIN trades, Paid, Charged)
               => Arrives(Append(queue[m], st), Tail(inbox[m]), e, DOMAIN trades, Paid, Charged)
      BY <1>1, <1>3, <2>1, <2>2, CommissionHandled
    <3> QED
      BY <1>2, <1>5, <2>1, <3>1 DEF WaysOK, Way
  <2> QED
    BY <1>2, <1>5, <2>1, <2>3 DEF WaysOK, Way
<1> QED
  BY <1>6, <1>7 DEF GuiStep

LEMMA DbBooks ==
  ASSUME TypeInv, WaysOK, NEW m \in Executions, DbStep(m), \A kind : ~Failed(m, kind)
  PROVE  WaysOK'
<1> DEFINE n == Len(executed)
           f == queue[m][1][2]
<1>1. UNCHANGED <<inbox, reported>> /\ queue[m] # <<>> /\ Taken(m)
  BY DEF DbStep, initializeConnectionSlot, slotAddNewTrade, slotUpdateTradeCommission, Runs, broker
<1>2. /\ UNCHANGED Charged
      /\ \A k, e : Told(k, e)' <=> Told(k, e)
  BY <1>1 DEF Charged, Told, IsReported
<1>3. queue \in [Executions -> Seq(StatementOf(n))]
  BY DEF TypeInv, QueuesOK
<1>4. /\ queue'[m] = Tail(queue[m])
      /\ \A k \in Executions \ {m} : queue'[k] = queue[k]
  BY <1>1, <1>3 DEF Taken
<1>5. /\ DOMAIN trades \subseteq DOMAIN trades' /\ Paid \subseteq Paid'
      /\ \A e : /\ Is(queue[m][1], "insert", e) => e \in DOMAIN trades'
                /\ Is(queue[m][1], "update", e) /\ e \in DOMAIN trades => e \in Paid'
  <2>1. CASE initializeConnectionSlot(m)
    BY <2>1 DEF initializeConnectionSlot, Runs, tables, Paid, Is
  <2>2. CASE slotAddNewTrade(m)
    BY <2>2 DEF slotAddNewTrade, Runs, Paid, Is
  <2>3. CASE slotUpdateTradeCommission(m)
    <3>1. /\ trades' = IF f \in DOMAIN trades THEN [trades EXCEPT ![f].fee = TRUE] ELSE trades
          /\ queue[m][1][1] = "update"
      BY <2>3 DEF slotUpdateTradeCommission, Runs
    <3>2. DOMAIN trades' = DOMAIN trades
      BY <3>1
    <3>3. ASSUME NEW e \in DOMAIN trades
          PROVE  trades'[e].fee = IF e = f THEN TRUE ELSE trades[e].fee
      <4>1. trades[e] \in Row
        BY DEF TypeInv, TablesOK
      <4>2. CASE e = f
        <5>1. trades'[e] = [trades[e] EXCEPT !.fee = TRUE]
          BY <3>1, <4>2, Zenon
        <5> QED
          BY <4>1, <4>2, <5>1 DEF Row
      <4>3. CASE e # f
        <5>1. trades'[e] = trades[e]
          BY <3>1, <4>3, Zenon
        <5> QED
          BY <4>3, <5>1
      <4> QED
        BY <4>2, <4>3
    <3> QED
      BY <3>1, <3>2, <3>3 DEF Paid, Is
  <2> QED
    BY <2>1, <2>2, <2>3 DEF DbStep
<1>6. ASSUME NEW e \in Exec PROVE Way(m, e)'
  <2>1. queue[m] \in Seq(StatementOf(n))
    BY <1>3
  <2>2. /\ Foreseen(queue[m], inbox[m], e, Charged)
             => Foreseen(Tail(queue[m]), inbox[m], e, Charged)
        /\ Arrives(queue[m], inbox[m], e, DOMAIN trades, Paid, Charged)
             => Arrives(Tail(queue[m]), inbox[m], e, DOMAIN trades', Paid', Charged)
    BY <1>1, <1>5, <2>1, Ran
  <2> QED
    BY <1>1, <1>2, <1>4, <2>2 DEF WaysOK, Way
<1>7. ASSUME NEW k \in Executions \ {m}, NEW e \in Exec PROVE Way(k, e)'
  <2>1. Arrives(queue[k], inbox[k], e, DOMAIN trades, Paid, Charged)
             => Arrives(queue[k], inbox[k], e, DOMAIN trades', Paid', Charged)
    BY <1>5, OthersRan
  <2> QED
    BY <1>1, <1>2, <1>4, <2>1 DEF WaysOK, Way
<1> QED
  BY <1>6, <1>7 DEF WaysOK

(* A step that touches neither the queues nor the rows nor the reports. *)
LEMMA ElsewhereBooks ==
  ASSUME WaysOK, UNCHANGED <<queue, inbox, trades, reported>>
  PROVE  WaysOK'
<1>1. /\ UNCHANGED <<Paid, Charged, DOMAIN trades>>
      /\ \A k, e : Told(k, e)' <=> Told(k, e)
  BY DEF Paid, Charged, Told, IsReported
<1> QED
  BY <1>1 DEF WaysOK, Way

LEMMA DispatchBooks ==
  ASSUME TypeInv, ToldOK, OrderOK, WaysOK, NEW f \in Exec,
         execDetails(f) \/ commissionReport(f)
  PROVE  ToldOK' /\ OrderOK' /\ WaysOK'
<1> DEFINE n == Len(executed)
<1>0. /\ n \in Nat /\ DOMAIN reported \subseteq ReportOf(n) /\ subscribed \subseteq Executions
      /\ queue \in [Executions -> Seq(StatementOf(n))] /\ inbox \in [Executions -> Seq(ReportOf(n))]
  BY DEF TypeInv, BrokerOK, ModelsOK, QueuesOK
<1>1. PICK kind \in {"execution", "commission"} :
        /\ Dispatch(kind, f)
        /\ kind = "execution" => execDetails(f)
        /\ kind = "commission" => commissionReport(f)
  <2>1. \/ execDetails(f) /\ Dispatch("execution", f)
        \/ commissionReport(f) /\ Dispatch("commission", f)
    BY DEF execDetails, commissionReport
  <2> QED
    BY <2>1
<1>2. /\ UNCHANGED <<trades, queue, subscribed>>
      /\ reported' = [r \in DOMAIN reported \cup {<<kind, f>>} |->
                        IF r = <<kind, f>> THEN subscribed ELSE reported[r]]
      /\ \A m \in Executions :
           inbox'[m] = IF m \in subscribed THEN Append(inbox[m], <<kind, f>>) ELSE inbox[m]
  BY <1>1 DEF Dispatch, tables
<1>3. UNCHANGED <<Paid, DOMAIN trades>>
  BY <1>2 DEF Paid
<1>4. ToldOK'
  BY <1>2 DEF ToldOK
<1>5. <<kind, f>> \in ReportOf(n) /\ Is(<<kind, f>>, kind, f)
  BY <1>0, <1>1 DEF execDetails, commissionReport, IsReported, Exec, ReportOf, Is
<1>6. CASE kind = "execution"
  <2>1. ~IsReported("execution", f) /\ f \notin Charged
    BY <1>0, <1>1, <1>6 DEF execDetails, Exec, OrderOK
  <2>2. /\ Charged' = Charged /\ OrderOK'
        /\ \A e \in Exec : IsReported("execution", e)' <=> IsReported("execution", e) \/ e = f
    BY <1>2, <1>6 DEF Charged, IsReported, OrderOK
  <2>3. \A m, e : e # f => (Told(m, e)' <=> Told(m, e))
    BY <1>2, <1>6 DEF Told, IsReported
  <2>4. \A m : Told(m, f)' => m \in subscribed
    BY <1>2, <1>6 DEF Told
  <2>5. \A e : ~Is(<<kind, f>>, "commission", e)
    BY <1>6 DEF Is
  <2>6. ASSUME NEW m \in Executions, NEW e \in Exec PROVE Way(m, e)'
    <3>1. inbox[m] \in Seq(ReportOf(n)) /\ Way(m, e)
      BY <1>0 DEF WaysOK
    <3>2. CASE m \in subscribed
      <4>1. /\ Arrives(queue[m], inbox[m], e, DOMAIN trades, Paid, Charged)
                  => Arrives(queue[m], Append(inbox[m], <<kind, f>>), e, DOMAIN trades, Paid, Charged)
            /\ Foreseen(queue[m], inbox[m], e, Charged)
                  => Foreseen(queue[m], Append(inbox[m], <<kind, f>>), e, Charged)
        BY <1>5, <2>5, <3>1, Sent
      <4>2. e = f => Arrives(queue[m], Append(inbox[m], <<kind, f>>), e, DOMAIN trades, Paid, Charged)
        BY <1>5, <1>6, <2>1, <3>1, SentFirst DEF Way
      <4> QED
        BY <1>2, <1>3, <2>2, <2>3, <3>1, <3>2, <4>1, <4>2 DEF Way
    <3>3. CASE m \notin subscribed
      BY <1>2, <1>3, <2>2, <2>3, <2>4, <3>1, <3>3 DEF Way
    <3> QED
      BY <3>2, <3>3
  <2> QED
    BY <1>4, <2>2, <2>6 DEF WaysOK
<1>7. CASE kind = "commission"
  <2>1. IsReported("execution", f)
    BY <1>1, <1>7 DEF commissionReport
  <2>2. /\ Charged' = Charged \cup {f}
        /\ \A e \in Exec : IsReported("execution", e)' <=> IsReported("execution", e)
        /\ \A m, e : Told(m, e)' <=> Told(m, e)
    BY <1>2, <1>7 DEF Charged, IsReported, Told
  <2>3. OrderOK'
    BY <2>1, <2>2 DEF OrderOK, Charged
  <2>4. \A m, e : Told(m, e) => m \in subscribed
    BY DEF Told, ToldOK, IsReported
  <2>5. \A e : Is(<<kind, f>>, "commission", e) <=> e = f
    BY <1>7 DEF Is
  <2>6. ASSUME NEW m \in Executions, NEW e \in Exec PROVE Way(m, e)'
    <3>1. inbox[m] \in Seq(ReportOf(n)) /\ Way(m, e)
      BY <1>0 DEF WaysOK
    <3>2. CASE m \in subscribed
      <4>1. e \in Charged' <=> e \in Charged \/ Is(<<kind, f>>, "commission", e)
        BY <2>2, <2>5
      <4>2. /\ Arrives(queue[m], inbox[m], e, DOMAIN trades, Paid, Charged)
                  => Arrives(queue[m], Append(inbox[m], <<kind, f>>), e, DOMAIN trades, Paid, Charged')
            /\ Foreseen(queue[m], inbox[m], e, Charged)
                  => Foreseen(queue[m], Append(inbox[m], <<kind, f>>), e, Charged')
        BY <1>5, <3>1, <4>1, Sent
      <4> QED
        BY <1>2, <1>3, <2>2, <3>1, <3>2, <4>2 DEF Way
    <3>3. CASE m \notin subscribed
      <4>1. Foreseen(queue[m], inbox[m], e, Charged) => Foreseen(queue[m], inbox[m], e, Charged')
        BY <2>2 DEF Foreseen
      <4> QED
        BY <1>2, <1>3, <2>2, <2>4, <3>1, <3>3, <4>1 DEF Way
    <3> QED
      BY <3>2, <3>3
  <2> QED
    BY <1>4, <2>3, <2>6 DEF WaysOK
<1> QED
  BY <1>6, <1>7

LEMMA BooksInit == Init => BooksInv
<1> SUFFICES ASSUME Init PROVE ToldOK /\ OrderOK /\ WaysOK
  BY DEF BooksInv
<1>1. reported = [r \in {} |-> {}] /\ DOMAIN reported = {}
  BY DEF Init
<1>2. Charged = {} /\ \A m, e : ~Told(m, e)
  BY <1>1 DEF Charged, Told, IsReported
<1>3. ASSUME NEW m \in Executions, NEW e \in Exec PROVE Way(m, e)
  <2>1. queue[m] = <<<<"open">>>> /\ inbox[m] = <<>>
    BY DEF Init
  <2>2. ~Has(queue[m], "update", e) /\ ~Has(inbox[m], "commission", e)
    BY <2>1 DEF Has, Is
  <2> QED
    BY <1>2, <2>2 DEF Way, Foreseen
<1> QED
  BY <1>1, <1>2, <1>3 DEF ToldOK, OrderOK, WaysOK

LEMMA BooksStep == TypeInv /\ BooksInv /\ [Next]_vars => BooksInv'
<1> SUFFICES ASSUME TypeInv, BooksInv, [Next]_vars, failed' = {}, restarts' = 0
             PROVE  ToldOK' /\ OrderOK' /\ WaysOK'
  BY DEF BooksInv
<1>1. ~Restart
  BY DEF Restart, TypeInv, FaultsOK
<1>2. \A m, kind : ~Failed(m, kind)
  BY DEF Failed, Fails, Fail
<1>3. failed = {} /\ restarts = 0
  <2>1. ASSUME NEW m \in Executions, GuiStep(m) \/ DbStep(m) PROVE UNCHANGED <<failed, restarts>>
    BY <1>2, <2>1 DEF GuiStep, DbStep, slotRecvExecutionReport, slotRecvCommissionReport,
         initializeConnectionSlot, slotAddNewTrade, slotUpdateTradeCommission, Fail, faults
  <2>2. ASSUME NEW m \in Executions, start(m) \/ processData(m) \/ Execute(m)
        PROVE  UNCHANGED <<failed, restarts>>
    BY <2>2 DEF start, processData, Execute, faults
  <2>3. ASSUME NEW e \in Exec, execDetails(e) \/ commissionReport(e) PROVE UNCHANGED <<failed, restarts>>
    BY <2>3 DEF execDetails, commissionReport, Dispatch, faults
  <2>4. CASE UNCHANGED vars
    BY <2>4 DEF vars, faults
  <2> QED
    BY <1>1, <2>1, <2>2, <2>3, <2>4 DEF Next
<1>4. ToldOK /\ OrderOK /\ WaysOK
  BY <1>3 DEF BooksInv
<1>5. ASSUME UNCHANGED reported, subscribed \subseteq subscribed' PROVE ToldOK' /\ OrderOK'
  BY <1>4, <1>5 DEF ToldOK, OrderOK, Charged, IsReported
<1>6. ASSUME NEW m \in Executions, GuiStep(m) PROVE ToldOK' /\ OrderOK' /\ WaysOK'
  <2>1. UNCHANGED <<reported, subscribed>>
    BY <1>6 DEF GuiStep, slotRecvExecutionReport, slotRecvCommissionReport, broker
  <2> QED
    BY <1>4, <1>5, <1>6, <2>1, GuiBooks
<1>7. ASSUME NEW m \in Executions, DbStep(m) PROVE ToldOK' /\ OrderOK' /\ WaysOK'
  <2>1. UNCHANGED <<reported, subscribed>>
    BY <1>2, <1>7 DEF DbStep, initializeConnectionSlot, slotAddNewTrade, slotUpdateTradeCommission, broker
  <2> QED
    BY <1>2, <1>4, <1>5, <1>7, <2>1, DbBooks
<1>8. ASSUME NEW m \in Executions, start(m) \/ processData(m) \/ Execute(m)
      PROVE  ToldOK' /\ OrderOK' /\ WaysOK'
  <2>1. UNCHANGED <<queue, inbox, trades, reported>> /\ subscribed \subseteq subscribed'
    BY <1>8 DEF start, processData, Execute, tables, models, broker
  <2> QED
    BY <1>4, <1>5, <2>1, ElsewhereBooks
<1>9. ASSUME NEW e \in Exec, execDetails(e) \/ commissionReport(e)
      PROVE  ToldOK' /\ OrderOK' /\ WaysOK'
  BY <1>4, <1>9, DispatchBooks
<1>10. CASE UNCHANGED vars
  <2>1. UNCHANGED <<queue, inbox, trades, reported, subscribed>>
    BY <1>10 DEF vars, tables, models, broker
  <2> QED
    BY <1>4, <1>5, <2>1, ElsewhereBooks
<1> QED
  BY <1>1, <1>6, <1>7, <1>8, <1>9, <1>10 DEF Next

(* Where no statement failed and the program ran on, each execution that   *)
(* some model was told of is booked once the threads are idle, and with    *)
(* the commission that was reported: no event of one model and no          *)
(* statement of another takes it away.                                     *)
THEOREM NothingMissing == Spec => []BooksComplete
<1>1. ASSUME TypeInv, BooksInv PROVE BooksComplete
  <2> SUFFICES ASSUME Idle, failed = {}, restarts = 0,
                      NEW e \in 1 .. Len(executed), IsReported("execution", e),
                      reported[<<"execution", e>>] # {}
               PROVE  /\ e \in DOMAIN trades
                      /\ IsReported("commission", e) => trades[e].fee
    BY DEF BooksComplete
  <2>1. PICK m \in Executions : Told(m, e)
    BY <1>1 DEF TypeInv, BrokerOK, Told, IsReported
  <2>2. e \in Exec
    BY <1>1, TradeStoreAssumption DEF TypeInv, BrokerOK, Exec, TradeStoreAssumption
  <2>3. Arrives(queue[m], inbox[m], e, DOMAIN trades, Paid, Charged)
    BY <1>1, <2>1, <2>2 DEF BooksInv, WaysOK, Way
  <2>4. queue[m] = <<>> /\ inbox[m] = <<>>
    BY DEF Idle
  <2>5. \A kind : ~Has(queue[m], kind, e) /\ ~Has(inbox[m], kind, e)
    BY <2>4 DEF Has
  <2>6. e \in DOMAIN trades /\ (e \in Charged => e \in Paid)
    BY <2>3, <2>5 DEF Arrives
  <2> QED
    BY <2>2, <2>6 DEF Charged, Paid
<1> QED
  BY <1>1, TypeAlways, BooksInit, BooksStep, PTL DEF Spec

=============================================================================
