----------------------------- MODULE TradeStore -----------------------------
(***************************************************************************)
(* Executions on their way into the database.  Every model owns a          *)
(* DBManager with a thread and a connection to the one sqlite file, which  *)
(* runs the model's statements in the order they were queued.  The         *)
(* broker's execution reports go to every execution model that has         *)
(* subscribed to order states; each books them on its own strategy, with   *)
(* the direction of its own last order.  What a model asks the database    *)
(* when it is created is ModelStart's.                                     *)
(*                                                                         *)
(* The GUI thread's event queue is kept per model: its handlers touch only *)
(* the model they belong to, so that only the order for one model matters. *)
(* Prices, dates and symbols are left out, a quantity is the shares of one *)
(* execution.                                                              *)
(***************************************************************************)
EXTENDS Integers, Sequences, FiniteSets, Functions, FiniteSetsExt

CONSTANTS Strategies,   \* strategies
          Executions,   \* execution models
          Parent,       \* the strategy of an execution model
          OrderSize,    \* shares of an order
          MaxOrders, MaxExecs, MaxFails, MaxRestarts \* bounds

ASSUME TradeStoreAssumption ==
  /\ Parent \in [Executions -> Strategies]
  /\ OrderSize \in Nat \ {0}
  /\ MaxOrders \in Nat /\ MaxExecs \in Nat
  /\ MaxFails \in Nat /\ MaxRestarts \in Nat

Exec   == 1 .. MaxExecs
Shares == 1 .. OrderSize
Side   == {"BUY", "SELL"}

VARIABLES
  trades,     \* table Trades: owner, quantity, tradeType and fee by execId
  positions,  \* table Positions: quantity by strategy
  opened,     \* the connection of each model
  queue,      \* statements queued to each model's thread
  inbox,      \* events queued to the GUI thread, per model
  direction,  \* m_Oder.m_Direction of each execution model
  subscribed, \* execution models subscribed to order states
  open,       \* shares of each model's orders not executed yet
  executed,   \* executions so far: model, shares and side
  reported,   \* the broker's reports so far, and the models each went to
  ordered,    \* orders placed, a bound
  fails,      \* faults: connections and statements that failed
  failed,     \* models one of whose statements has failed
  restarts    \* restarts of the program

tables == <<trades, positions>>
models == <<opened, queue, inbox, direction, subscribed>>
broker == <<open, executed, reported, ordered>>
faults == <<fails, failed>>
vars   == <<tables, models, broker, faults, restarts>>

-----------------------------------------------------------------------------
(* The models on the GUI thread *)

(* Mutant: a statement overtakes those that wait. *)
ConsumeAtOnce(m, statement) ==
  /\ inbox' = [inbox EXCEPT ![m] = Tail(@)]
  /\ queue' = [queue EXCEPT ![m] = <<statement>> \o @]

(* The model's next event is handled and queues a statement. *)
Consume(m, statement) ==
  /\ inbox' = [inbox EXCEPT ![m] = Tail(@)]
  /\ queue' = [queue EXCEPT ![m] = Append(@, statement)]

(* CBasicExecutionModel::start; a strategy has no child models, so that    *)
(* its stop() never reaches the execution model's.                         *)
start(m) ==
  /\ subscribed' = subscribed \cup {m}
  /\ UNCHANGED <<tables, broker, opened, queue, inbox, direction, faults, restarts>>

(* Whatever the data, an order to sell. *)
processData(m) ==
  /\ m \in subscribed /\ ordered < MaxOrders
  /\ ordered' = ordered + 1
  /\ direction' = [direction EXCEPT ![m] = "SELL"]
  /\ open' = [open EXCEPT ![m] = @ + OrderSize]
  /\ UNCHANGED <<tables, opened, queue, inbox, subscribed, executed,
                 reported, faults, restarts>>

slotRecvExecutionReport(m) ==
  /\ inbox[m] # <<>> /\ inbox[m][1][1] = "execution"
  /\ Consume(m, <<"insert", inbox[m][1][2], direction[m]>>)
  /\ UNCHANGED <<tables, broker, opened, direction, subscribed, faults, restarts>>

slotRecvCommissionReport(m) ==
  /\ inbox[m] # <<>> /\ inbox[m][1][1] = "commission"
  /\ Consume(m, <<"update", inbox[m][1][2]>>)
  /\ UNCHANGED <<tables, broker, opened, direction, subscribed, faults, restarts>>

-----------------------------------------------------------------------------
(* The models' database threads *)

signed(side, q) == IF side = "SELL" THEN -q ELSE q

quantityOf(s) == IF s \in DOMAIN positions THEN positions[s] ELSE 0

(* Mutant: the trigger adds the quantity whatever the side. *)
update_or_insert_position_unsigned(s, side, q) ==
  LET quantity == quantityOf(s) + q
  IN  positions' = IF quantity = 0 THEN Restrict(positions, DOMAIN positions \ {s})
                   ELSE [u \in DOMAIN positions \cup {s} |->
                           IF u = s THEN quantity ELSE positions[u]]

(* Mutant: the row of a position of nothing stays. *)
update_or_insert_position_only(s, side, q) ==
  positions' = [u \in DOMAIN positions \cup {s} |->
                  IF u = s THEN quantityOf(s) + signed(side, q) ELSE positions[u]]

(* The trigger: a position is inserted, or moved by the signed quantity,   *)
(* and deleted when nothing is left of it.                                 *)
update_or_insert_position(s, side, q) ==
  LET quantity == quantityOf(s) + signed(side, q)
  IN  positions' = IF quantity = 0 THEN Restrict(positions, DOMAIN positions \ {s})
                   ELSE [u \in DOMAIN positions \cup {s} |->
                           IF u = s THEN quantity ELSE positions[u]]

Taken(m) == queue' = [queue EXCEPT ![m] = Tail(@)]
Runs(m, kind) == queue[m] # <<>> /\ queue[m][1][1] = kind

(* A fault: the file cannot be opened, or stays locked too long. *)
Fail(m) == fails < MaxFails /\ fails' = fails + 1 /\ failed' = failed \cup {m}

(* A statement on a connection that is not open, or a fault. *)
Fails(m) ==
  \/ ~opened[m] /\ failed' = failed \cup {m} /\ UNCHANGED fails
  \/ opened[m] /\ Fail(m)

(* connectDB opens the file and initializeDatabase makes the tables that   *)
(* are missing.                                                            *)
initializeConnectionSlot(m) ==
  /\ Runs(m, "open") /\ Taken(m)
  /\ \/ opened' = [opened EXCEPT ![m] = TRUE] /\ UNCHANGED faults
     \/ Fail(m) /\ UNCHANGED opened
  /\ UNCHANGED <<tables, broker, inbox, direction, subscribed, restarts>>

(* A statement that fails is logged and forgotten. *)
Failed(m, kind) ==
  /\ Runs(m, kind) /\ Taken(m) /\ Fails(m)
  /\ UNCHANGED <<tables, broker, opened, inbox, direction, subscribed, restarts>>

(* Mutant: an execution is booked again (INSERT OR REPLACE). *)
slotAddNewTradeReplacing(m) ==
  /\ Runs(m, "insert") /\ Taken(m) /\ opened[m]
  /\ LET e == queue[m][1][2]
         row == [owner |-> Parent[m], quantity |-> executed[e].shares,
                 tradeType |-> queue[m][1][3], fee |-> FALSE]
     IN  /\ trades' = [t \in DOMAIN trades \cup {e} |-> IF t = e THEN row ELSE trades[t]]
         /\ update_or_insert_position(row.owner, row.tradeType, row.quantity)
  /\ UNCHANGED <<broker, opened, inbox, direction, subscribed,
                 faults, restarts>>

(* execId is the primary key: the first to book an execution wins, the     *)
(* statement of every other model fails.                                   *)
slotAddNewTrade(m) ==
  /\ Runs(m, "insert") /\ Taken(m) /\ opened[m]
  /\ LET e == queue[m][1][2]
         row == [owner |-> Parent[m], quantity |-> executed[e].shares,
                 tradeType |-> queue[m][1][3], fee |-> FALSE]
     IN  IF e \in DOMAIN trades
         THEN UNCHANGED <<trades, positions>>
         ELSE /\ trades' = [t \in DOMAIN trades \cup {e} |->
                              IF t = e THEN row ELSE trades[t]]
              /\ update_or_insert_position(row.owner, row.tradeType, row.quantity)
  /\ UNCHANGED <<broker, opened, inbox, direction, subscribed,
                 faults, restarts>>

(* An UPDATE that finds no row changes nothing. *)
slotUpdateTradeCommission(m) ==
  /\ Runs(m, "update") /\ Taken(m) /\ opened[m]
  /\ LET e == queue[m][1][2]
     IN  trades' = IF e \in DOMAIN trades THEN [trades EXCEPT ![e].fee = TRUE] ELSE trades
  /\ UNCHANGED <<positions, broker, opened, inbox, direction,
                 subscribed, faults, restarts>>

-----------------------------------------------------------------------------
(* The broker, and the worker that dispatches its reports *)

Execute(m) ==
  /\ open[m] > 0 /\ Len(executed) < MaxExecs
  /\ \E q \in {q \in Shares : q <= open[m]} :
       /\ executed' = Append(executed, [by |-> m, shares |-> q, side |-> "SELL"])
       /\ open' = [open EXCEPT ![m] = @ - q]
  /\ UNCHANGED <<tables, models, reported, ordered, faults, restarts>>

Dispatch(kind, e) ==
  /\ inbox' = [m \in Executions |-> IF m \in subscribed THEN Append(inbox[m], <<kind, e>>)
                                    ELSE inbox[m]]
  /\ reported' = [r \in DOMAIN reported \cup {<<kind, e>>} |->
                    IF r = <<kind, e>> THEN subscribed ELSE reported[r]]
  /\ UNCHANGED <<tables, opened, queue, direction, subscribed, open, executed,
                 ordered, faults, restarts>>

IsReported(kind, e) == <<kind, e>> \in DOMAIN reported

(* Executions are reported in their order, each before its commission. *)
execDetails(e) ==
  /\ e <= Len(executed)
  /\ \A f \in 1 .. e : IsReported("execution", f) <=> f # e
  /\ Dispatch("execution", e)

commissionReport(e) ==
  /\ IsReported("execution", e) /\ ~IsReported("commission", e)
  /\ Dispatch("commission", e)

(* The program ends, or crashes, and starts with the saved tree.  The      *)
(* statements and events that were queued are lost, and so are the reports *)
(* of the broker in the meantime.                                          *)
Restart ==
  /\ restarts < MaxRestarts
  /\ restarts' = restarts + 1
  /\ queue' = [m \in Executions |-> <<<<"open">>>>]
  /\ opened' = [m \in Executions |-> FALSE]
  /\ inbox' = [m \in Executions |-> <<>>]
  /\ direction' = [m \in Executions |-> "BUY"]
  /\ subscribed' = {}
  /\ \E last \in 0 .. Len(executed) :
       reported' = [r \in DOMAIN reported \cup ({"execution"} \X (1 .. last)) |->
                      IF r \in DOMAIN reported THEN reported[r] ELSE {}]
  /\ failed' = {}
  /\ UNCHANGED <<tables, open, executed, ordered, fails>>

-----------------------------------------------------------------------------
Init ==
  /\ trades = [e \in {} |-> 0] /\ positions = [s \in {} |-> 0]
  /\ queue = [m \in Executions |-> <<<<"open">>>>]
  /\ opened = [m \in Executions |-> FALSE]
  /\ inbox = [m \in Executions |-> <<>>]
  /\ direction = [m \in Executions |-> "BUY"]
  /\ subscribed = {}
  /\ open = [m \in Executions |-> 0]
  /\ executed = <<>> /\ reported = [r \in {} |-> {}]
  /\ ordered = 0 /\ fails = 0 /\ failed = {} /\ restarts = 0

GuiStep(m) == slotRecvExecutionReport(m) \/ slotRecvCommissionReport(m)

DbStep(m) ==
  \/ initializeConnectionSlot(m) \/ slotAddNewTrade(m) \/ slotUpdateTradeCommission(m)
  \/ \E kind \in {"insert", "update"} : Failed(m, kind)

Next ==
  \/ \E m \in Executions : GuiStep(m) \/ DbStep(m)
  \/ \E m \in Executions : start(m) \/ processData(m) \/ Execute(m)
  \/ \E e \in Exec : execDetails(e) \/ commissionReport(e)
  \/ Restart

Spec == Init /\ [][Next]_vars

-----------------------------------------------------------------------------
(* Properties *)

Report    == {"execution", "commission"} \X Exec
Statement == {<<"open">>} \cup ({"insert"} \X Exec \X Side) \cup ({"update"} \X Exec)

(* Every variable has its type; a position row has shares left.            *)
TypeOK ==
  /\ DOMAIN trades \subseteq 1 .. Len(executed)
  /\ \A e \in DOMAIN trades :
       trades[e] \in [owner : Strategies, quantity : Shares, tradeType : Side, fee : BOOLEAN]
  /\ DOMAIN positions \subseteq Strategies
  /\ \A s \in DOMAIN positions : positions[s] \in Int \ {0}
  /\ opened \in [Executions -> BOOLEAN]
  /\ queue \in [Executions -> Seq(Statement)]
  /\ inbox \in [Executions -> Seq(Report)]
  /\ direction \in [Executions -> Side]
  /\ subscribed \subseteq Executions
  /\ open \in [Executions -> Nat]
  /\ executed \in Seq([by : Executions, shares : Shares, side : Side])
  /\ Len(executed) \in 0 .. MaxExecs
  /\ DOMAIN reported \subseteq {"execution", "commission"} \X (1 .. Len(executed))
  /\ \A r \in DOMAIN reported : reported[r] \subseteq Executions
  /\ ordered \in 0 .. MaxOrders /\ fails \in 0 .. MaxFails
  /\ failed \subseteq Executions /\ restarts \in 0 .. MaxRestarts

bookedAmount(e) == signed(trades[e].tradeType, trades[e].quantity)

(* A strategy's open position is what its booked trades add up to, and     *)
(* there is no row for a position of nothing: whichever models' threads    *)
(* book, fail, or are cut off by the end of the program.                   *)
PositionsMatchTrades ==
  \A s \in Strategies :
    quantityOf(s) = MapThenSumSet(bookedAmount, {e \in DOMAIN trades : trades[e].owner = s})

(* The tables are a ledger: of several models that book one execution one  *)
(* succeeds, positions move with the booking and nothing else, and a       *)
(* booked trade keeps its owner, quantity and side whatever fails.         *)
L == INSTANCE Ledger WITH
       Trade    <- Exec,
       Account  <- Strategies,
       Amount   <- -OrderSize .. OrderSize,
       book     <- [e \in DOMAIN trades |->
                      [owner |-> trades[e].owner, amount |-> bookedAmount(e),
                       charged |-> trades[e].fee]],
       position <- [s \in Strategies |-> quantityOf(s)]

ImplementsLedger == L!Spec

Idle == \A m \in Executions : queue[m] = <<>> /\ inbox[m] = <<>>

(* Where no statement failed and the program ran on, nothing a model was   *)
(* told is missing once the threads are idle: each execution told to some  *)
(* model is booked, and with its commission.                               *)
BooksComplete ==
  (Idle /\ failed = {} /\ restarts = 0) =>
     \A e \in 1 .. Len(executed) :
       (IsReported("execution", e) /\ reported[<<"execution", e>>] # {}) =>
          /\ e \in DOMAIN trades
          /\ IsReported("commission", e) => trades[e].fee

=============================================================================
