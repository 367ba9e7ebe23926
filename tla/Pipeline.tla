------------------------------ MODULE Pipeline ------------------------------
(***************************************************************************)
(* A strategy and its stage models.  start() connects the stages in a      *)
(* chain of signals and slots and sends the first data down it; all of it  *)
(* runs within the call, but for the alpha model, which requests the       *)
(* history of each asset and goes on when the answers, and the errors, add *)
(* up to the number of assets.  Each list that reaches the execution model *)
(* is an order.  The user may exchange stages and the list of assets at    *)
(* any time.                                                               *)
(*                                                                         *)
(* Stages are numbered along the chain, the strategy is 0.  Qt keeps a     *)
(* connection as often as it was made and drops those of an object that is *)
(* destroyed.  What is sent is told apart only by being empty or not.      *)
(***************************************************************************)
EXTENDS Integers, Sequences, FiniteSets, SequencesExt

CONSTANTS AssetLists, \* the lists of assets the user may select
          Saved,      \* the stages and the list a strategy may be loaded with
          MaxStarts, MaxRounds, MaxErrors, MaxEdits \* bounds

strategy  == 0
selection == 1
alpha     == 2
rebalance == 3
risk      == 4
execution == 5

Stage  == selection .. execution
Object == strategy .. execution

ASSUME PipelineAssumption ==
  /\ Saved \subseteq (SUBSET Stage) \X AssetLists
  /\ AssetLists \subseteq Seq(STRING) \ {<<>>}
  /\ MaxStarts \in Nat /\ MaxRounds \in Nat /\ MaxErrors \in Nat /\ MaxEdits \in Nat

VARIABLES
  stages,   \* the stage models the strategy has
  links,    \* how often each pair of objects is connected
  started,  \* start() was called, and stop() not since
  assets,   \* the list of the selection model
  given,    \* m_pProcessingData of the alpha model: a list, <<>> for none
  shared,   \* whether that is the list object of the selection model
  got,      \* keys of m_historicalData
  errors,   \* m_errorReceivedCounter
  pending,  \* requests not answered yet, as <<round, position, asset>>
  orders,   \* orders placed
  crashed,  \* the alpha model took the last element of an empty list
  \* history, for the properties and the bounds
  round,    \* rounds of requests so far
  emitted,  \* lists the alpha model sent in this round
  clean,    \* nothing but its own answers has reached this round
  answered, \* whether the round's last answer was history, not an error
  touched,  \* stages exchanged, or started twice, on existing connections
  starts, edits

chain   == <<stages, links, started, touched, starts>>
lists   == <<assets, given, shared>>
history == <<emitted, clean, answered>>
vars    == <<chain, lists, got, errors, pending, orders, crashed, round, history, edits>>

-----------------------------------------------------------------------------
(* Connections *)

(* The pairs connectModels goes through: each object and the next stage.   *)
Chain == {p \in Object \X Stage :
            /\ p[1] < p[2] /\ p[2] \in stages /\ p[1] \in stages \cup {strategy}
            /\ \A i \in stages : ~(p[1] < i /\ i < p[2])}

connectModels == [p \in Object \X Stage |-> links[p] + IF p \in Chain THEN 1 ELSE 0]

(* Mutant: the link of the strategy itself stays. *)
disconnectStages ==
  [p \in Object \X Stage |-> IF p \in Chain /\ p[1] # strategy THEN 0 ELSE links[p]]

(* All connections of the pairs the chain has now. *)
disconnectModels == [p \in Object \X Stage |-> IF p \in Chain THEN 0 ELSE links[p]]

(* How often each object emits, given that source does, over the links ls. *)
(* The alpha model emits later; the rebalance model sends on what is not   *)
(* empty, and what the strategy sends is.                                  *)
Emits(ls, source) ==
  LET heard(i) == (IF i = rebalance THEN selection ELSE strategy) .. i - 1
      e[i \in Object] ==
        IF i = source THEN 1
        ELSE IF i < source \/ i = alpha THEN 0
        ELSE SumFunction([j \in heard(i) |-> ls[<<j, i>>] * e[j]])
  IN  e

(* How often processData of a stage is called. *)
Calls(ls, source, stage) ==
  LET e == Emits(ls, source)
  IN  SumFunction([j \in strategy .. stage - 1 |-> ls[<<j, stage>>] * e[j]])

-----------------------------------------------------------------------------
(* The alpha model *)

(* Mutant: the errors of the last round count in the next. *)
processDataOfAlphaKeepingErrors(n) ==
  /\ given' = assets /\ shared' = TRUE
  /\ got' = {} /\ errors' = errors
  /\ round' = round + n
  /\ pending' = pending \cup {<<round + k, i, assets[i]>> : k \in 1 .. n, i \in DOMAIN assets}
  /\ emitted' = 0 /\ answered' = FALSE
  /\ clean' = (pending = {} /\ n = 1 /\ IsInjective(assets))

(* The list of the selection model, and a request for each asset on it, n  *)
(* times.  Nothing is claimed of a round that is made more than once, that *)
(* asks for an asset twice, or that finds answers of an earlier one still  *)
(* to come.                                                                *)
processDataOfAlpha(n) ==
  /\ given' = assets /\ shared' = TRUE
  /\ got' = {} /\ errors' = 0
  /\ round' = round + n
  /\ pending' = pending \cup {<<round + k, i, assets[i]>> : k \in 1 .. n, i \in DOMAIN assets}
  /\ emitted' = 0 /\ answered' = FALSE
  /\ clean' = (pending = {} /\ n = 1 /\ IsInjective(assets))

(* source emits, over links ls, and all that follows at once.  The alpha   *)
(* model reads the last element of a list the strategy sends empty.        *)
EmitFrom(ls, source) ==
  /\ orders' = orders + Calls(ls, source, execution)
  /\ crashed' = (source = strategy /\ ls[<<strategy, alpha>>] > 0)
  /\ IF source < alpha /\ Calls(ls, source, alpha) > 0 /\ ~crashed'
     THEN processDataOfAlpha(Calls(ls, source, alpha))
     ELSE UNCHANGED <<given, shared, got, errors, round, pending, history>>

(* History of an asset: with it the answers and errors may add up, and     *)
(* every later answer that leaves them so sends the list again.            *)
slotCbkRecvHistoricalData(r) ==
  /\ got' = got \cup {r[3]}
  /\ pending' = pending \ {r}
  /\ answered' = TRUE
  /\ IF Len(given) = Cardinality(got') + errors
     THEN emitted' = emitted + 1 /\ orders' = orders + Calls(links, alpha, execution)
     ELSE UNCHANGED <<emitted, orders>>
  /\ UNCHANGED <<chain, lists, errors, crashed, round, clean, edits>>

(* An error is counted, whoever made the request, and nothing else. *)
slotErrorProcessing(r) ==
  /\ errors' = errors + 1
  /\ pending' = pending \ {r}
  /\ answered' = IF r \in pending THEN FALSE ELSE answered
  /\ clean' = (clean /\ r \in pending)
  /\ UNCHANGED <<chain, lists, got, orders, crashed, round, emitted, edits>>

Answer ==
  \/ \E r \in pending : slotCbkRecvHistoricalData(r) \/ slotErrorProcessing(r)
  \/ /\ alpha \in stages /\ errors < MaxErrors
     /\ slotErrorProcessing(<<0, 0, "foreign">>)

-----------------------------------------------------------------------------
(* The strategy *)

(* cMomentum::start and CBaseModel::start, with a connection. *)
start ==
  /\ starts < MaxStarts /\ round + Calls(connectModels, strategy, alpha) <= MaxRounds
  /\ starts' = starts + 1 /\ started' = TRUE
  /\ touched' = (touched \/ started)
  /\ links' = connectModels
  /\ EmitFrom(connectModels, strategy)
  /\ UNCHANGED <<stages, assets, edits>>

stop ==
  /\ started' = FALSE
  /\ links' = disconnectModels
  /\ UNCHANGED <<stages, touched, starts, lists, got, errors, pending, orders, crashed,
                 round, history, edits>>

(* A stage that is destroyed takes its connections along, the alpha model  *)
(* its data and its requests, the selection model its list.                *)
WithoutStage(i) ==
  /\ links' = [p \in Object \X Stage |-> IF i \in {p[1], p[2]} THEN 0 ELSE links[p]]
  /\ touched' = (touched \/ started)
  /\ IF i = alpha
     THEN /\ given' = <<>> /\ got' = {} /\ errors' = 0 /\ pending' = {}
          /\ shared' = FALSE /\ clean' = FALSE
     ELSE /\ shared' = (shared /\ i # selection)
          /\ UNCHANGED <<given, got, errors, pending, clean>>
  /\ UNCHANGED <<started, starts, assets, orders, crashed, round, emitted, answered>>

addModel(i) ==
  /\ edits < MaxEdits /\ edits' = edits + 1
  /\ stages' = stages \cup {i}
  /\ WithoutStage(i)

removeModel(i) ==
  /\ edits < MaxEdits /\ edits' = edits + 1
  /\ i \in stages /\ stages' = stages \ {i}
  /\ WithoutStage(i)

(* setParameters of the selection model rewrites its list, which the alpha *)
(* model may be working on.                                                *)
setParameters(l) ==
  /\ selection \in stages /\ l # assets
  /\ edits < MaxEdits /\ edits' = edits + 1
  /\ assets' = l
  /\ IF shared THEN given' = l /\ clean' = FALSE ELSE UNCHANGED <<given, clean>>
  /\ UNCHANGED <<chain, shared, got, errors, pending, orders, crashed, round, emitted,
                 answered>>

-----------------------------------------------------------------------------
Init ==
  /\ \E s \in Saved : stages = s[1] /\ assets = s[2]
  /\ links = [p \in Object \X Stage |-> 0]
  /\ started = FALSE
  /\ given = <<>> /\ shared = FALSE
  /\ got = {} /\ errors = 0 /\ pending = {}
  /\ orders = 0 /\ crashed = FALSE
  /\ round = 0 /\ emitted = 0 /\ clean = FALSE /\ answered = FALSE /\ touched = FALSE
  /\ starts = 0 /\ edits = 0

Next ==
  /\ ~crashed
  /\ \/ start \/ stop \/ Answer
     \/ \E i \in Stage : addModel(i) \/ removeModel(i)
     \/ \E l \in AssetLists : setParameters(l)

Spec == Init /\ [][Next]_vars

-----------------------------------------------------------------------------
(* Properties *)

(* While no stage is exchanged on existing connections and the strategy is *)
(* not started twice, its stages are connected along the chain, each pair  *)
(* once, while it is started, and not at all when it is stopped.           *)
ChainWhileStarted ==
  ~touched => links = [p \in Object \X Stage |-> IF started /\ p \in Chain THEN 1 ELSE 0]

(* Then one event leads to one order at most, and to none when the         *)
(* strategy is stopped, although answers still arrive.                     *)
OneOrderAtMost ==
  [][~touched' => orders' - orders <= IF started' THEN 1 ELSE 0]_vars

(* The alpha model sends its list once in a round, when all of the         *)
(* round's requests have been answered, and only when the last of them was *)
(* answered by history.                                                    *)
RoundSentOnce ==
  clean => emitted = IF pending = {} /\ answered THEN 1 ELSE 0

=============================================================================
