# A verification of IbTradeQt

IbTradeQt is a Qt program that trades through the TWS API of Interactive
Brokers.  A tree of models (accounts, portfolios, strategies) requests market
data, receives it from one connection to the broker, computes target positions,
places orders and books their executions in a database.  The modules in this directory model the parts of it whose
correctness depends on the order in which things happen; TLC checks them on
small instances and TLAPS proves the most important properties for all.
All paths below are relative to `src/IbTradeQt/`.

## 1. The system and its parts

| part | source | state | operations |
|------|--------|-------|------------|
| request registry | `ReqManager/` | list of active `(id, type)`, map symbol → request | add, remove, next free id, look up by id or symbol |
| dispatcher | `IBComm/Dispatcher.*` | shared pointer to the list of subscriber items, one registry per item | Subscribe, Unsubscribe, UnsubscribeAllItemsOfSubscriber, SendMessageToSubscribers |
| broker data provider | `IBComm/cbrokerdataprovider.*` | the client, the dispatcher | request and cancel of each type of data, orders |
| processing base | `Common/cprocessingbase_v2.*` | history map, position map, active requests | message handler, one receiver per type of message |
| broker client | `IBComm/IBComClientIpml.cpp` | socket, reader, next order id | connect, disconnect, process messages, callbacks |
| connection worker | `IBComm/IBworker.*`, `MainSystem/cpresenter.cpp` | `m_workerCmd` | command loop; the connect button |
| timer of the server time | `AlphaModelGetTime/` | a timer | started and stopped by the button, asks for the time every second |
| model tree | `Strategies/Generic/`, `MainSystem/portfolioconfigmodel.cpp` | started and activation flags, child models, signal connections | add, start, stop, activate, connect |
| pipeline of a strategy | alpha, selection, rebalance, risk and execution models in `Strategies/Generic/` and beside it | links between the stages, the list worked on, pending answers | connect, disconnect, request, collect, send on, order |
| model state machine | `Strategies/StateMachine/`, `Strategies/Generic/cbasemodel.*` | Init, Init2 or Ready | transitions on id, database and data |
| trade database | `DB/` | tables of trades, positions, model and strategy data; one thread and connection per model | queued statements, trigger |
| TWS client library | `Brokers/IB/` | socket, version, readers with buffer and queue, signal | handshake, requests, reader threads, decoding, callbacks |
| user interface, settings, old strategies | the rest | | |

**How they interact.**  The subscribers are objects of the GUI thread.  A
subscriber requests data by a synchronous call: the provider asks the registry
of the subscriber's item for an id, registers it (`Subscribe`) and hands the
request to the socket.  The worker thread loops over `m_workerCmd`; when it
processes messages, each callback of the client calls
`SendMessageToSubscribers`, which copies the pointer to the list under a lock
and then, without it, tests each item and calls the subscriber's
`MessageHandler` - on the worker thread, while the GUI thread goes on.  The
worker tells the GUI of changes of the connection by queued signals; an
account model answers them with requests or cancels, and a timer of the GUI
thread asks for the time every second.  Below, `EClient` writes
requests to a socket whose bytes a reader thread of its own turns into a queue
of messages; the worker waits for that reader's signal and decodes the queue.
A connection is made on the worker's thread or, when a request finds the client
closed, on the GUI's; while its handshake lasts the other thread goes on, and
finds the client connected.  Above, a started strategy sends data down a chain of
signals and slots from stage to stage; the alpha model waits for the history of
each asset, and what comes out of the chain is an order.  Reports of its
execution reach every execution model that has subscribed to order states; each
queues statements to its own database thread, and all threads write one file.

**What is hard in it.**  Two threads work on the same registries, items, socket
and command without a common lock; items are reference counted and their
destructors call back into the dispatcher; ids are counted per subscriber while
the broker knows one connection; answers arrive after the request they belong
to was cancelled, superseded, or its id reused; commands overwrite each other;
reactions to a closed connection open it again.  A reader thread ends only when
it happens to see a closed socket; the test that refuses a request for an old
server and the test that writes its field stand far apart; stages are exchanged
while they are connected; one execution is booked by several threads; statements
fail, and the program may end between any two of them.  Each of these is
listed at its line under `hazards` in `PROJECT.json`, with the properties that
watch it, or why none does.

**What makes each part correct.**  Registry: ids are unique and the two views
agree.  Dispatcher: one item per subscriber, dropped items are empty, destroyed
subscribers are gone.  Provider: a stream that is needed exists; an answer is
reported under its own symbol and eventually.  Worker: messages are processed
through a reader, no connection is left unprocessed, commands are carried out,
the end of the loop closes the connection.  Tree: a strategy starts only if it
and every model above it is active (with one exception that the code makes), and
runs if so while the connection is up.
Pipeline: the stages are connected as a chain, one event makes one order at
most, a round of requests is sent on once.  State machine: a model asks once,
becomes ready, and its rows are stored.  Database: what is booked is booked
once, positions follow from the trades, nothing a model was told is missing.
Client library: messages are decoded once, in order, with the version of their
server; a handshake and a reader end; what is set in a request is sent or
refused, and its answer finds the subscriber.

## 2. The modules

| module | what it is |
|--------|-----------|
| `ReqManager` | the registry as a value and its operations as functions |
| `DataProvider` | dispatcher, provider, receiver of historical data, the broker's side of a request; EXTENDS `ReqManager` |
| `MCDataProvider` | sets of request types and symmetry for TLC |
| `DataProvider_proofs` | theorems about the two |
| `IBWorker`, `IBWorker_proofs` | the command loop, the connect button, the account's reaction, the network; theorems |
| `ModelTree`, `ModelTree_proofs` | accounts, portfolios and strategies: activation, start and stop, connection, saving and loading; theorems |
| `MCModelTree` | a tree for TLC |
| `ModelStart`, `ModelStart_proofs` | the state machine of a model and its first questions to the database; theorems |
| `Pipeline`, `MCPipeline`, `Pipeline_proofs` | the stages of a strategy; lists of assets for TLC; theorems |
| `Ledger` | abstract specification: what the trade database promises |
| `TradeStore`, `MCTradeStore`, `TradeStore_proofs` | executions on their way into the tables, a refinement of `Ledger`; two strategies for TLC; theorems |
| `TwsVersion` | the version of a session and how it may change: the one variable `TwsSession` and `TwsApi` share |
| `TwsSession`, `MCTwsSession` | socket, handshake, readers, queue and signal of the client library; EXTENDS `TwsVersion`; the versions a server answers with for TLC |
| `TwsRequests` | what each request of `EClient` does in each version, as values; EXTENDS `TwsVersion` |
| `TwsDecoder` | what the decoder does with each message, as values; EXTENDS `TwsRequests` |
| `TwsApi`, `MCTwsApi` | one request from its call to its answer at the dispatcher; EXTENDS `TwsDecoder`, INSTANCE of `ReqManager` |
| `TwsLibrary_proofs` | theorems about `TwsSession` and `TwsApi`, both of which it EXTENDS |
| `FoldTheorems` | lemmas on sums, which are folds, and the inductions they need; used by the proofs of `TradeStore` and `Pipeline` |

### ReqManager

`Registry` is the pair of the list (`ids`, a set: `addReqIds` never stores a
pair twice and no order matters) and `m_tickerMap` (`ticker`, a function on
symbols, `NoReq` where the map has no entry).  Each definition has the name of
the method it translates.  `getNextFreeId` steps through ids as the C++ loop does,
written as the first id from 1 that is free or used as the loop tests.
Ids are 32-bit in the code and count from 1; `MaxId` bounds the pool, and a
request that would need a higher id is not enabled.

### DataProvider

State: `alive` (objects), `disp` (list, owner and registry of each item),
`sender` (the worker's pass: message, copied list, items still to look at, the
item whose handler is called, and what that has looked up so far), `history` (`m_historyMap`), `streams` (what
the broker serves), `wire` (messages not yet dispatched), `crashed`.

Each request or cancel of `CBrokerDataProvider` is one action, named like the
method, with every call it makes: choice of the id, `Subscribe` or
`Unsubscribe`, the request to the broker, the release of a dropped item.
Requests of the same shape share `subscribeAndRequest`, `cancelFor`,
`subscribeOnly` and `unsubscribeOnly`.  `Destroy` is the destructor of the
processing base.  The worker's pass is `SendMessageToSubscribers`
(take a message, copy the list), `TestItem` (the `isPresent` test), the call of
the handler and `EndSend` (the copy is let go and the destructors of items only
it referred to run).  Of the handlers `recvHistoricalData` is three actions, one
for each of its look-ups in the registry: `MessageHandler` (the symbol of the
id), `getIdFromRM` (the id that symbol has then; a bar is kept under it) and
`removeOldHistoricalRequest` (at the end of an answer: the request the symbol
has by then is removed, the bars are marked and reported).  Between any two of
all these the GUI thread may act; each of its requests is one step.  `Release` is the destructor of `CSubscriberItem`: it
unsubscribes everything of its subscriber, a new item included.

`crashed` is set where the code follows a null or dangling pointer; nothing
happens after it.  The broker is external: it refuses an id it already serves
for the same kind of request, answers a historical request with at least one
bar and then its end, or with an error (200, no such security) and nothing
else, and forgets a cancelled request.  `overlapped` and `refused` are history
variables: a symbol was requested while the worker handled an answer it had
looked up under that symbol; the requests that ended with an error.

Left out: prices, times and other payload; the wording of logs; torn reads of a
`QList` or `QMap` changed by two threads at once (an operation on a registry, on
the list or on the history is atomic here, and so is a request of the GUI thread
from the choice of its id to the call of the broker; the race is listed as a
hazard); errors that end other requests than historical ones; the receivers of
messages that touch neither a registry nor the history.

### IBWorker

`pc` is the place of the worker in `Worker::process`: the switch, a branch, or
a point between a read and the next write of `m_workerCmd`; each read, test
and write is a step.  `connectAPI` is two steps (the socket counts as connected
before the reader is made), on the worker (`Connect`, `Handshake`) as on the GUI
thread (`Request`, `GuiHandshake`), where requests come from two places: an active account
reacts to an update of the connection (`onUpdateServerConnectionState`) by
requests, and the timer that the connect button starts and stops asks for the
time if the connection is up (`callbackTimer`); on a connection that is closed,
or was closed since that test, `EClient` reports error 504 with id -1, and
`IBComClientImpl::error` connects - again and again, if the connection is lost
again.  `crashed`, a place of the worker, is the use of `m_pReader` while it is
null; `early` is a history variable: the GUI thread connected before there was
a reader.  `Lose` is the broker closing the
connection, `Close` the destructor of the presenter.

### ModelTree

`tree` is the set of models that exist; `Parent`, a constant, says below which
model each one may be added, so that a model removed and added again stands for
a new object in the same place.  `started` and `parentOn` are the two entries of
`m_InfoMap` that decide activation, `running` the strategies (`cMomentum`) whose
timer runs.  `addAccount` and `addBelow` are the three branches of `addModel`,
`removeModel` destroys a subtree with its timers and the signals queued for it (`dropSignals`),
`setActivationState` toggles a check box with everything it pushes down, starts
and stops - in one step, as the GUI thread runs it.

The connection appears as this component sees it: the socket (`connected`), a
worker between opening it and its signal (`handshake`), and the signals queued
for each account (`updates`).  `onUpdateServerConnectionState` delivers one; its
second branch is the reconnection by the account's own requests, whose signal
reaches all accounts directly because it is emitted on their thread
(`reconnect`).  `callbackTimer` is the same by the request of the timer.
`StoreModelTree` writes tree and flags to the file, `Restart` is the end of the
program at any moment and the next start, which loads the file.

`overtaken` is a history variable: the accounts to which a reconnection's direct
signal came before the end of an older connection that is still in their queue.
It is kept per account, for the other accounts hear of everything in order, and it
is emptied by the next connection, whose signal goes to all.  `unpushed` is another: the
models that were added below an inactive one and got the flag of that parent, which
says that the models above it are active, until the next push.  Left out: names and parameters; the
stage models of a strategy, which are `Pipeline`'s; the strategies other than
`cMomentum`, which the tree does not create.

### ModelStart

One model and its `DBManager`: `phase` is the state of the machine, `queue` the
statements queued to the database thread, `inbox` its answers queued to the GUI
thread, `rows` what the database holds of the model.  `m_isDbConnected` is read
before anything sets it, so that `Created` has both outcomes: a model that waits
for the connection, and one that asks at once, in front of, between or behind
which the thread's start may fall.  Any statement may fail (`MaxFails`), those
on a connection that is not open do, and the program may end at any time
(`Restart`), which loses both queues and keeps the rows.

### Pipeline

One strategy: `links` counts how often each pair of objects is connected,
because Qt keeps a connection as often as it is made.  Everything between two
events runs within a call: `Emits` follows the links and says how often each
stage is reached; each arrival at the execution model is an order.  The alpha
model is the exception.  `processDataOfAlpha` makes a request per asset, the
slots of history and error count, and the list goes on when they add up.
`addModel`, `removeModel` and `setParameters` are the user's exchange of stages
and of the list, which the alpha model may share.  `crashed` is the read of the
last element of an empty list.  `touched` and `clean` are history variables that
bound what the properties claim (below).  Left out: prices, shares and what the
stages compute with them.

### Ledger and TradeStore

`Ledger` has two actions: `Record` books an execution that is not booked and
moves the position of its account, `Charge` marks its commission.

`TradeStore` is the detailed system: per execution model an event queue of the
GUI thread (`inbox`), a queue of statements (`queue`) and a connection
(`opened`); the tables `trades` and `positions`.  `slotAddNewTrade` is the
`INSERT` with its key and the trigger `update_or_insert_position`,
`slotUpdateTradeCommission` the `UPDATE` that may find no row, `Failed` any
statement that fails.  The broker executes orders in parts and reports each
execution before its commission; a report goes to all subscribed models.
`Restart` loses queues, events and the reports of the meantime.  Left out:
prices, dates and symbols; a quantity is the shares of one execution.

### TwsSession

A connection is known by its number and so is the reader made for it; reader 0
is the local one of the handshake.  `place` is where the thread inside
`connectAPI` stands, `thread` where each reader does, `worker` where the worker
does; the steps between are the calls that see the socket, the queue or the
signal.  A message is two elements, its length and its body, so that a reader
that starts in the middle of one is told from a reader that does not.  The
server answers a handshake with a version, sends messages and closes, maybe in
the middle of one.  `onClose` leaves the buffer filled up with zeros, as
`onReceive` does when `recv` fails: they complete a message that was cut short, and
are no length of a next one.
A redirect to another host, which is refused and leaves the socket open without a
version, is the version -1.  The GUI thread may connect before the first reader
was made; where the worker then uses the reader the program ends (`crashed`).
`overtaken` is a history variable: a connection was opened while an old reader
still ran, which then goes on with the new socket.  Two handshakes at once, one
per thread, are not modelled.

### TwsRequests, TwsDecoder and TwsApi

`EClient` and `EDecoder` keep no state between two calls but the connection and the version.  Their
functions, some eighty of each, are therefore records of rules, one per function and named like
it: since which version it exists, which version accepts, and which one's message
carries, each attribute, to whom a refusal is told; which fields of a message
a version has, and which callbacks follow.  `Outcome` and `CallbackRuns` apply them.
What a request tests first is the connection, which counts as made from the start
of the handshake, and not the version, which is 0 until its end (`NoVersion`): in
between a request is written in the oldest layout, or refused for its version.

`TwsApi` puts a request together: `Call` applies the rules in the version of the
session, `Arrives` lets TWS reply, whole or cut short, and passes the callbacks on as
`IBComClientImpl` forwards them, `Cancel` makes the call that ends it, `Notified` is the
error callback.  `Dialled` begins a handshake, as a refused call may (`errorDials`),
`Answered` ends it with a version, `Lost` ends the connection in it or after it.
`Session`, in `TwsVersion`, states what is taken for granted of `TwsSession`: the version
is none between two sessions, and nothing but their begin and end changes it.  The
specification is `ApiSpec`, for it stands beside the `Spec` of `TwsSession` in the proofs.
With `AnySet` a caller may set all combinations of attributes, too
many for TLC; without it, an attribute and what it depends on.
`R!keyOf` and `R!fixedId` of `ReqManager` say what the dispatcher will look for.
Assumed of TWS: which messages answer a request (`TwsAnswers`), and that
it describes an open order with the fields `placeOrder` has in that version; what it
does with a request that comes before `startApi` is left open.
Left out: the values of fields and the fields of messages other than the open
order; completed orders are not compared with what was sent.

## 3. What the runs check

`CHECK_DEADLOCK FALSE` everywhere: a crash ends the program, ids and bounds run
out, a closed program does nothing, and a started model has nothing left to do.

| run | instance | shows |
|-----|----------|-------|
| `DP_shared` | 2 subscribers, 4 items, 1 symbol, real-time data and errors, both may be destroyed | one item per subscriber; dropped items are empty; a shared stream exists as long as someone needs it |
| `DP_ids` | 1 subscriber, 2 symbols, 5 types, 2 ids | types; ids unique; map and list agree; no request has two symbols |
| `DP_destroy` | 1 subscriber, 3 items, all fixed-id subscriptions and history, all notices | a destroyed subscriber is not listed; its items are released in the end |
| `DP_history` | 1 subscriber, 2 symbols, 2 ids, 2 messages on the wire, answers and errors | until a request overlaps the handling of an answer for its symbol: answers are reported under their symbol, no crash; each request is answered, superseded, or refused and kept |
| `DP_bad_history` | 2 subscribers | **violation**: one reports the other's bars |
| `IBW_worker` | 4 clicks, 2 losses, the timer, an active account | types; exit disconnects; a null reader is used after an early connection of the GUI thread only; connection processed; disconnect taken |
| `Tree_flags` | 2 accounts, 1 portfolio, 1 strategy, 2 queued signals, additions anywhere | parent flags are right, or left from an addition below an inactive model; only active strategies start, but for the click that meets such a flag; active strategies run while the connection is up |
| `Strategy_start` | a strategy, both values of the flag, 2 faults, 2 restarts | its rows are stored; it asks once; it becomes ready |
| `Strategy_pipe` | all stages or two, lists of 1 and 2 assets, 3 starts, 2 rounds, 1 foreign error, 1 edit | the stages are a chain; a round is sent once; one order per event at most |
| `Store_books` | 2 strategies with an execution model each, 2 orders of 1 share, 2 executions, 1 fault, 1 restart | types; positions match trades; nothing told is missing; the tables implement `Ledger` |
| `Session` | 2 connections, 2 messages each, the first unreadable, any of them cut short, a supported and an unsupported version and a redirect | messages in order; decoder knows the version; an ended reader leaves no open connection; a queue is served; a handshake ends unless it is redirected |
| `Tws_api` | every request, each attribute with what it depends on, all 81 versions and none yet, lists of at most 1 entry | nothing set is lost, in a handshake nothing a test protects; a cancel ends the request; answers reach; an order comes back as sent |

**Why the bounds are enough.**  The registry of a subscriber is touched by one
subscriber only, so one subscriber with two symbols and two ids meets every
way to take, free and retake an id or an entry; five types are enough for one
to evict another while a third is answered.  Interference between subscribers
goes through the broker's ids and the item list: two subscribers, and one item
more than the list and the worker's copy can hold, reach it.  Two messages on
the wire let an answer overtake a new request for the same id.  In `IBWorker`
four clicks and two losses let each branch of the worker be interrupted by a
click and a loss, twice.  In `ModelTree` each rule about flags involves one path
from an account to a strategy; the second account is the one whose signals a
reconnection must not be mixed up with, and two queued signals, one for each,
are those of one end of a connection, which a reconnection overtakes for one account or both.  In
`ModelStart` the second restart starts from what the first left half done, and
two faults let the connection and a later statement fail.  In `Pipeline` a chain
without and one with an alpha model are started, stopped and started again, the
second round while the first is unanswered; two assets are enough for answers
out of order and for an error among them.  In `TradeStore` two models book one
execution, two executions let a position go on from a first trade, and
the fault may hit either.  In `TwsSession` two connections are the least for a
reader to outlive its own, and two messages for one to stay behind an
unreadable one.  `TwsApi` has all versions; its rules for an attribute
depend on that attribute and what it needs, which are set together
(`AnySet = FALSE`), and an empty list and a list of one entry are the two ways of a loop.  The proofs
remove the bounds where there is one, for `TwsApi` both that of the list and that of
the combinations.

**Where the code does not keep them.**  A property is claimed where the code
keeps it, and its hypotheses name the rest:

* `ReportedUnderItsSymbol` and `NoCrash` hold for a subscriber that is alone and does not
  cancel; with a second one the first is violated (`DP_bad_history`), because
  ids count from 1 in each subscriber.  They hold until such a subscriber requests a symbol
  while the worker handles an answer for that symbol (`overlapped`): between its
  look-ups the symbol gets another id, and the end of the answer then meets no bar, reports
  what another request has collected, or removes the request that is not answered yet.
* A historical request the broker answers with an error stays registered
  (`refused` in `HistoryAnswered`): `error` tells the error subscribers and removes nothing.
* A registry keeps one entry per symbol: a request of a second type forgets the id
  of the first, and a second request of the first type then gets a second id.
  `RelStreamServed` is claimed while all want the same symbol and type.
* The destructor of an item the worker held unsubscribes what its
  subscriber has subscribed anew since; the broker's stream goes on unread.
* `ReaderReady` allows one way to a null reader (`early`): the timer finds the first
  connection in its handshake, the connection is lost, and the timer's request connects on
  the GUI thread before any reader was made, while the worker goes on to process.
* A DISCONNECT may be overwritten by the worker (`DisconnectTaken` is
  about those it finds at its switch or after its wait), and an active account connects again what the user closed.
* `RunsWhileActive` is not claimed of an account after an overtaking: a queued FALSE that
  arrives after the reconnection's direct TRUE stops the strategies of an open
  connection.
* A model added below an inactive one gets the flag of that parent, not its check box
  (`unpushed`): `ParentActivated` allows the wrong flag until something is pushed down, and
  `StartsActive` the start by the click that activates the strategy or its portfolio meanwhile.
* `InOrder`, `DecoderKnowsVersion` and `ReaderEndsClosed` are claimed while no
  connection was opened over a running old reader (`overtaken`), `HandshakeEnds`
  likewise: such a reader takes bytes, even the answer to the handshake.  A handshake that is
  redirected never ends: the refusal leaves the socket open, and the loop waits for a version.
* A message cut short by the end of its connection is completed with zero bytes and
  decoded as if it were whole (`EReader::onReceive`); `InOrder` excepts
  it, and shows that it is the last one of a closed connection.
* `ChainWhileStarted` and `OneOrderAtMost` are claimed until the strategy is started
  twice without a stop, or a stage of a started one is exchanged (`touched`):
  links are doubled, or old ones stay.
* The database agrees with itself, but which strategy an execution is booked on is
  decided by which thread is first.
* A request made during the handshake of the other thread loses the attributes that
  no refusing test of their own protects (`call.at = NoVersion` in `NothingLost`).
* `DroppedBefore` and `CannotCancel` list the attributes some versions lose without a
  word, and the cancels some versions refuse.  The data of historical ticks and of option
  prices is forwarded under a type nobody has registered.

**Fairness.**  The worker thread never blocks for ever: its loop spins when there is
nothing to do, waits two seconds at most for the signal of a reader, and
dispatching calls no blocking function; hence `WF_vars(WorkerStep)`, as long as
the program runs.  `IBWorker` takes a handshake to end on either thread (the worker's
fairness and `WF_vars(GuiHandshake)`); that
it does, unless it is redirected or a reader takes its answer, is `HandshakeEnds` of `TwsSession`.
In `TwsSession` the reader threads, the thread that
connects and the worker go on (weak fairness of each): their waits for the
signal and for the socket have timeouts.  A server that was asked for its version
answers, redirects or closes the connection (`WF_vars(Answer(c))`).  In `ModelStart` the GUI thread and the database thread handle their
queues (`WF_dbVars(GuiStep)`, `WF_dbVars(DbStep)`).  The broker answers each historical request it
serves in the end, with bars or with an error, however often the queue is full when it wants to
(`BrokerFairness`, strong); this is an assumption about the broker, without
which no client could promise an answer.  Nothing is assumed about the user,
about losses, or about other subscribers.

## 4. What is proved

For every value of the constants, from `MaxIdAssumption`, `TickerAssumption`,
`DataProviderAssumption`, `IBWorkerAssumption`, `ModelTreeAssumption`,
`TradeStoreAssumption`, `PipelineAssumption`, `ModelStartAssumption` and
`TwsSessionAssumption` (positive
pool, symbols distinct from the reserved ones, `Nobody` not a subscriber, sets of
types as declared; natural bounds; a tree of the three levels; each execution
model has a strategy and an order at least one share; lists of assets
are not empty; the flag holds something; natural numbers of connections and
messages, versions that are numbers other than 0), and for `TwsApi` from
`MaxEntriesAssumption` (a list has a natural length):

* `DataProvider_proofs`: `IdsUnique`, `TickerListed`, `TickerInjective`,
  `OneItemPerSubscriber`, `DroppedItemEmpty`, `DestroyedUnlisted`, `TypeOK`;
  `RelStreamServed`, where all want one symbol; `NoCrash` and
  `ReportedUnderItsSymbol`, for one subscriber that lives on and cancels nothing
  (both speak of the time until a request overlaps the handling of an answer).
* `IBWorker_proofs`: `TypeOK`, `ExitDisconnects`, `ReaderReady`.
* `ModelTree_proofs`: `ParentActivated`, `StartsActive`, `NoneLeftOut` (the flag is
  set where all ancestors are active) and `RunsWhileActive`.
* `TradeStore_proofs`: `TypeOK`, `ImplementsLedger` (the refinement), `BooksComplete`,
  `PositionsMatchTrades`.
* `Pipeline_proofs`: `ChainWhileStarted`, `RoundSentOnce`, `OneOrderAtMost`.
* `ModelStart_proofs`: `TypeOK`, `RowsStored`, `AsksOnce`.
* `TwsLibrary_proofs`: of `TwsSession` types, `InOrder`, `DecoderKnowsVersion`,
  `ReaderEndsClosed`; of `TwsApi` `NothingLost`, `CancelEnds`, `AnswersReach`,
  `OrderComesBack`; and that `TwsSession` provides the session `TwsApi` takes for
  granted (`SessionProvided`).

**DataProvider, registration.**  None of the first six is inductive alone.
`RegistryOK` is the invariant of one registry: it has its type, each
registered pair is proper (pool id with a keyed type, fixed id with its fixed
type), ids are unique, each entry of the map is in the list, no two symbols have
the same entry, and a fixed type is entered under its own symbol only - without
the last, a cancel by symbol could remove the entry of another request.  Lemmas
show that each registry operation preserves it, and that what the provider
registers is registrable: its id is free in the list, or the request takes over
the id and the symbol it already had.  `RegistrationInv` says that every
registry is `RegistryOK`, that listed items have an owner and no two the same,
that unlisted items are empty, and that the owners of listed items are alive.
There is a lemma for each dispatcher operation and one for each group of steps;
the step theorem combines them.

**DataProvider, streams and answers.**  `TypeOK` needs that the broker serves nothing
for a subscription it is never asked about (`SilentType`): such a stream would be
answered under a type that is none of a response.  `RelInv` adds that a stream
of real-time data is of a symbol and not of a fixed subscription; no step but a request
gives a registry a new entry (`NoNewEntry`), and a request that does asks
the broker, which serves it or did already.

`HistoryInv` follows the answers to historical requests.  `flight` is the message being
handled, at place 0, and the wire behind it.  Of each id, `AnswerOK` says, given the
registry: a free id has left no stream, message or bar behind, which is why it may be
used again; nothing comes after an end, and one stream at most serves it; while a symbol
names it, stream, messages and bars are of that symbol; and an end finds a bar,
kept already or in front of it.  `Handling` relates what the worker has looked up to the
registry: the symbol it found still names the request of its message, and an id it
found is that of the message, which is an end.  A second request for the symbol takes the name
away from the first, whose answers then go nowhere; nothing is claimed of
those but that they end.  With this the end of an answer never meets a missing
bar (`NoCrash`), and what becomes available is of the symbol it is reported under.
A request for the symbol the worker has looked up breaks `Handling`, so the inductive
invariant is `UntilOverlap`: types, and `HistoryInv` until that has happened.
The hypotheses are not conveniences.  With two subscribers the theorem is false
(`DP_bad_history`); a cancelled request frees its id while answers are on their way;
a cancel may also drop an item the worker still holds, whose destructor later
takes away what its subscriber has registered anew.  The types
in use, symbols, pool, notices and the capacity of the wire are arbitrary.

**IBWorker.**  `ExitInv` adds to `ExitDisconnects` that a worker that has
returned, or is about to, finds the GUI closed, so that no account reconnects:
`EXIT` is stored only on closing and never overwritten by a click.
`ReaderInv` says that as long as there is no reader and the GUI thread has made no early
connection, the system is in its first connection or before it: the worker has not gone
beyond its handshake, no update is queued and no account reacts, and the GUI thread is
inside no handshake.  An update follows a reader, a reaction follows an update, and
a request of the timer that connects without a reader is `early`.

**ModelTree.**  `ParentActivated` is not inductive: the file may hold an older tree,
and a model whose parent is missing would escape the rule.  `TreeOK` states
types, the presence of parents and the two halves of the rule for any tree with
its flags and its unpushed models; `FlagsInv` says it of the tree in memory and of the
one in the file.  `AddKeeps`, `RemoveKeeps` and `PushKeeps` show that adding, removing and
activating preserve `TreeOK`; loading and saving copy it.  `StartsActive` follows: `start()`
of an account reaches a strategy through active models only, and `start()` of a
model just activated relies on its parent flag for what is above, which is where
a flag left from an addition may be wrong.

`RunsWhileActive` speaks of an empty queue; `RunInv` says what holds while signals
are queued.  An account is `told` of the open connection if no end of one is the last
news on its way, and either the news of a beginning is or its active strategies
run.  Every account of the tree that was not overtaken is told.  A step at the
queue's head, a new signal and the signals dropped with a removed account each have a
lemma on what the queue then tells (`TailTells`, `EmitTells`, `DropTells`).  It is
this proof that made `overtaken` a set: with one flag for all accounts, reset as soon as
no end was queued, the property fails for two accounts.

**TradeStore.**  `TypeOK` is not inductive: a statement in a queue must name an
execution that has happened, for its row to have that execution's shares;
`TypeInv` says so of statements, events and reports.  The refinement maps the table to
the ledger's book and the rows of positions, absent ones as 0, to its balances:
`LedgerStep` shows that `slotAddNewTrade` is a `Record` where the key is free and
nothing where it is not, that `slotUpdateTradeCommission` is a `Charge` or nothing, and
that every other step, a failing statement and a restart included, leaves
both tables.  `PositionMoves` is the trigger: insert, move or delete, the balance moves by
the signed quantity and no other balance does.  For `BooksComplete`, `BooksInv`
follows each execution on its way: a model that was told of it has the event, or the
statement, or the row is there; on each of these ways the commission is behind
the execution, so that no `UPDATE` comes before its `INSERT`.  It is claimed
without failures and restarts, which break exactly that.

`PositionsMatchTrades` is about a sum over the table of trades.  Where a step
books an execution, the sum over the trades of its strategy gains one term and the others
none (`FoldTheorems`), as the balance does in the ledger (`PositionMoves`).

**Pipeline.**  `ChainWhileStarted` is inductive: a disconnection removes the pairs
the chain has now, and those are the ones that are there unless `touched`.  For
`RoundSentOnce`, `RoundInv` counts: while a round is clean, the assets still pending,
those with history and the errors add up to the list, and no asset is asked twice; so
the test is true at the last answer only, and at the last answer only if it is history.

`OneOrderAtMost`: how often a stage is reached is a recursive function over the objects,
a sum over the links that lead to it.  `EmitsSolves` shows that the recursion has a
solution, object by object, so that its equation may be used.  In a chain one link
leads to a stage, once (`Single`), hence each object emits once or not at all, and
the execution model is reached at most once.

**FoldTheorems.**  An induction principle with a predicate as a parameter cannot
be used by the provers here, but one with a set can: `AllNumbers` and `AllSubsets` say that
a set of numbers, or of subsets of a finite set, closed under the step contains all
of them.  With these, what `SumFunction` of the community modules computes is shown not to
depend on the order in which it chooses: a sum of equal functions is equal, one more
element adds its value, a function without values other than 0 has sum 0.

**TwsSession.**  `InOrder` speaks of decoded messages only; what is decoded next depends on bytes
that a thread has moved half-way.  `Socket` relates the client's own variables.  `OneReader` says
that all readers but the last connection's are over, `Handshake` that the local reader
takes the acknowledgement and nothing behind it, `Decoders` that a reader has the version of
its server.  `Flow` places each byte: of a connection, the messages seen are the first
`k` sent; those in the queue are next (`InLine`); the buffer, then the socket, go on where the queue
ends (`OnTheWay`).  After the end of the connection the buffer may hold what is left of a
message and zeros (`LeftOver`), and the one message completed with them is the last
(`Cut`).  All of it is claimed while no connection was opened over a running reader, and this
is what makes `ReaderEndsClosed` and `DecoderKnowsVersion` follow as well.

**TwsApi.**  The versions a session may have are any of the 81, and none during its handshake; the attributes set together
and the length of a list are arbitrary: the theorems hold for both values of `AnySet`.

What the four invariants need of the past is little: a call that was sent passed the
tests of the version it found (`CallPassed`, `ServedPassed`), and a request
that is still served has not been cancelled, or had a cancel refused that is one of the listed
cases (`ServedCalled`).  `ApiInv` is this with `AnswersReach` and `OrderComesBack`;
`NothingLost` and `CancelEnds` follow from it.

The weight is in the tables, about which lemmas are stated once and then cited.
`EveryRequestCarries`: in each version that knows a request, an attribute whose test
is passed is among the fields written, and so is one that has no test, unless it is listed
as dropped.  One attribute is covered by another's test: the offset from the midpoint, which is
written beside `competeAgainstBestOffset` only.  `CancelKnown` and `CancelArguments`: the versions and arguments
that pass for a request pass for its cancel.  `OpenOrderAgrees`: `EOrderDecoder` looks for a field in
exactly the versions in which `placeOrder` writes it; `OpenOrderNeeds`: the
other fields it looks at first were written with it.  `RunCallbacks`: whatever the length of
the list, the callbacks of a message are those of its handler; `DataReached`: each of those
goes to the id and type of the request.  Tables are joined by `With`, whose two lemmas
(`WithProperties`, `Joined`) say which entry is found, so that a table of
a hundred fields is opened group by group.

`SessionProvided` closes the gap between the modules: a step of `TwsSession`, overtaken or
not, changes the version from 0 to a supported one or back to 0, as `Session` says, hence an
answer meets the version its request was tested in.  An unsupported version
never shows, because `serverVersion` disconnects before it returns.

**ModelStart.**  `RowsInv`: once the model has asked and nothing failed, each row it
needs is stored, or its question, the answer that it is missing, or the command to
store it is on its way.  `AskInv` counts: none is asked while the model waits for the
connection; afterwards an answer takes the place of a question, so that the sum
never grows.  Lemmas on counting the elements of a queue without its head
and of a queue with more behind it carry the argument.

**Only model-checked.**  The liveness properties `ItemsReleased`, `HistoryAnswered`,
`ConnectionProcessed`, `DisconnectTaken`, `QueueServed`, `HandshakeEnds` and
`BecomesReady`, which are out of the prover's reach.  Every invariant and every action property
of a passing run is proved.
`NoCrash` and `ReportedUnderItsSymbol` beyond the hypotheses above are not
properties of the code.

## 5. Plan

1. `ReqManager`, `DataProvider`, proofs (done): what every strategy's data goes through.
2. `IBWorker`, proofs (done).
3. `ModelTree`, proofs (done): activation, start and stop of the models.
4. `Ledger`, `TradeStore`, refinement, proofs (done).
5. `Pipeline`, proofs (done).
6. `ModelStart`, proofs (done).
7. `TwsSession`, `TwsRequests`, `TwsDecoder`, `TwsApi`, proofs (done).
8. Models to come: order ids (`m_nexValidId` on two threads), two handshakes at once.

## 6. Not modelled

* Of the client library: the values of fields and the fields of messages other than
  the open order; `addon/`, constructors of sample contracts and orders; the
  redirect to another host beyond its refusal.
* Of the strategies: what the stages compute from prices; `csma`, which the tree does
  not create; the older strategies (pair
  trader, delta alignment), whose processing is commented out.
* Torn containers: a `QList`, `QMap` or output buffer changed by two threads at once has no
  outcomes to enumerate; the operations on them are atomic here and the races listed.
* The old database store, whose statements are commented out or never reached.
* The user interface, resources, settings, logging, the value classes of `CObjects`,
  the JSON format of the saved tree, generated code and `Libs`.

`PROJECT.json` lists every part with the reason.
