----------------------------- MODULE ModelTree -----------------------------
(***************************************************************************)
(* The tree of models (CBaseModel): accounts, their portfolios and their   *)
(* strategies (cMomentum), each with a check box that activates it.        *)
(*                                                                         *)
(* A model keeps two flags: CIM_IsStarted, its own check box, and          *)
(* CIM_IsParentActivated, which its parent pushes down.  Activation        *)
(* changes start and stop what is below at once if the socket is           *)
(* connected; the connection and its end are told to the accounts by       *)
(* queued signals, and an active account starts or stops what is below it. *)
(* The GUI thread runs each operation in one step.  The tree with its      *)
(* flags is saved to a file on demand and loaded at the next start.  A     *)
(* model may be added below any other; it gets the flag of its parent, and *)
(* nobody looks at the check box of the parent until that changes.         *)
(***************************************************************************)
EXTENDS Integers, FiniteSets, SequencesExt

CONSTANTS Account, Portfolio, Strategy, \* the models that may be added
          Root,        \* m_pRoot
          Parent,      \* the model below which each one is added
          Reconnects,  \* TRUE: a request on a closed connection may open it
          MaxUpdate    \* bound on the signals queued for the accounts

Node == Account \cup Portfolio \cup Strategy

ASSUME ModelTreeAssumption ==
  /\ Account \cap Portfolio = {} /\ Portfolio \cap Strategy = {}
  /\ Account \cap Strategy = {} /\ Root \notin Node
  /\ Parent \in [Node \cup {Root} -> Node \cup {Root}]
  /\ \A n \in Account \cup {Root} : Parent[n] = Root
  /\ \A n \in Portfolio : Parent[n] \in Account
  /\ \A n \in Strategy : Parent[n] \in Portfolio
  /\ Reconnects \in BOOLEAN /\ MaxUpdate \in Nat

VARIABLES
  tree,       \* the models that exist
  started,    \* CIM_IsStarted
  parentOn,   \* CIM_IsParentActivated
  running,    \* the strategies whose timer runs
  connected,  \* isConnectedTotheServer
  handshake,  \* connected, but signalServerStateUpdate is still to come
  updates,    \* that signal, queued for the accounts in turn
  file,       \* model_tree_config.json
  unpushed,   \* (history) models added below an inactive one that have the flag of
              \* that parent, and no flag pushed down since
  overtaken   \* (history) accounts that heard of a reconnection before an older end

vars == <<tree, started, parentOn, running, connected, handshake, updates, file,
          unpushed, overtaken>>
models == <<tree, started, parentOn, unpushed, file>>

-----------------------------------------------------------------------------
Grandparent(n) == Parent[Parent[n]]

strategiesOf(n) == {s \in tree \cap Strategy : n \in {s, Parent[s], Grandparent(s)}}

(* Mutant: an account starts the strategies of inactive portfolios. *)
startableUnchecked(n) == {s \in strategiesOf(n) : s # n => started[s]}

(* The strategies that start() of n reaches: it goes down to children that *)
(* are active, whatever n itself is.                                       *)
startable(n) ==
  {s \in strategiesOf(n) : /\ s # n => started[s]
                           /\ n = Grandparent(s) => started[Parent[s]]}

(* start and stop; a strategy does not start without a connection. *)
start(r, n, conn) == IF conn THEN r \cup startable(n) ELSE r
stop(r, n) == r \ strategiesOf(n)

activeAccounts == {a \in tree \cap Account : started[a] /\ parentOn[a]}
startAll(r) == r \cup UNION {startable(a) : a \in activeAccounts}

-----------------------------------------------------------------------------
(* CPortfolioConfigModel *)

add(n, flag) ==
  /\ n \notin tree
  /\ tree' = tree \cup {n}
  /\ started' = [started EXCEPT ![n] = FALSE]
  /\ parentOn' = [parentOn EXCEPT ![n] = flag]
  /\ unpushed' = unpushed \cup {k \in {n} : flag /\ Parent[k] # Root /\ ~started[Parent[k]]}
  /\ UNCHANGED <<running, connected, handshake, updates, file, overtaken>>

addAccount(n) == n \in Account /\ add(n, TRUE)

(* The parent's own check box is not looked at. *)
addBelow(n) ==
  /\ n \in Portfolio \cup Strategy
  /\ Parent[n] \in tree
  /\ add(n, parentOn[Parent[n]])

subtree(n) == {k \in tree : n \in {k, Parent[k], Grandparent(k)}}

(* The signals to other accounts stay queued in their order. *)
dropSignals(gone) ==
  LET kept == {i \in DOMAIN updates : updates[i].to \notin gone}
  IN  \E at \in [1 .. Cardinality(kept) -> kept] :
        /\ \A i, j \in DOMAIN at : i < j => at[i] < at[j]
        /\ updates' = [i \in DOMAIN at |-> updates[at[i]]]

(* The objects are destroyed, with their timers and queued signals. *)
removeModel(n) ==
  LET gone == subtree(n)
  IN  /\ n \in tree
      /\ tree' = tree \ gone
      /\ started' = [k \in Node |-> k \notin gone /\ started[k]]
      /\ parentOn' = [k \in Node |-> k \notin gone /\ parentOn[k]]
      /\ running' = running \ gone
      /\ unpushed' = unpushed \ gone
      /\ overtaken' = overtaken \ gone
      /\ dropSignals(gone)
      /\ UNCHANGED <<connected, handshake, file>>

(* Mutant: the flag goes down whether or not the child is active. *)
pushedDownUnchecked(n, on) ==
  [k \in Node |-> IF k \in tree /\ n \in {Parent[k], Grandparent(k)} THEN on
                  ELSE parentOn[k]]

(* setParentActivationState, called for the children of n: a child passes  *)
(* the flag on only if it is active.                                       *)
pushedDown(n, on) ==
  [k \in Node |-> CASE k \in tree /\ Parent[k] = n -> on
                    [] k \in tree /\ Parent[k] # n /\ Grandparent(k) = n
                         -> on /\ started[Parent[k]]
                    [] OTHER -> parentOn[k]]

setActivationState(n) ==
  LET on == ~started[n]
  IN  /\ n \in tree
      /\ started' = [started EXCEPT ![n] = on]
      /\ parentOn' = IF parentOn[n] THEN pushedDown(n, on) ELSE parentOn
      /\ unpushed' = {k \in unpushed : ~(parentOn[n] /\ n \in {Parent[k], Grandparent(k)})}
      /\ running' = IF ~connected THEN running
                    ELSE IF on /\ parentOn[n] THEN start(running, n, TRUE)
                    ELSE stop(running, n)
      /\ UNCHANGED <<tree, connected, handshake, updates, file, overtaken>>

-----------------------------------------------------------------------------
(* The connection, driven by the worker thread and the broker (IBWorker). *)

(* Each account of the tree gets the signal. *)
emit(on) ==
  LET tos == SetToSeq(tree \cap Account)
  IN  /\ Len(updates) + Len(tos) <= MaxUpdate
      /\ updates' = updates \o [i \in DOMAIN tos |-> [to |-> tos[i], state |-> on]]

(* connectAPI on the worker: the socket is connected before the signal. *)
Connect ==
  /\ ~connected /\ ~handshake
  /\ connected' = TRUE /\ handshake' = TRUE
  /\ UNCHANGED <<models, running, updates, overtaken>>

Connected ==
  /\ handshake
  /\ handshake' = FALSE
  /\ IF connected THEN emit(TRUE) /\ overtaken' = {} ELSE UNCHANGED <<updates, overtaken>>
  /\ UNCHANGED <<models, running, connected>>

Disconnect ==
  /\ connected /\ ~handshake
  /\ connected' = FALSE
  /\ emit(FALSE)
  /\ UNCHANGED <<models, running, handshake, overtaken>>

(* The broker closes the connection: nobody is told. *)
Lose ==
  /\ connected
  /\ connected' = FALSE
  /\ UNCHANGED <<models, running, handshake, updates, overtaken>>

(* The last signal for a in the queue q is the end of a connection. *)
endsOff(q, a) ==
  \E i \in DOMAIN q : /\ q[i] = [to |-> a, state |-> FALSE]
                     /\ \A j \in DOMAIN q : q[j] = [to |-> a, state |-> TRUE] => j < i

(* error() connects again on the GUI thread, and the signal of that        *)
(* reaches all accounts at once, before what is queued in q.               *)
reconnect(r, q) ==
  /\ Reconnects /\ ~connected /\ ~handshake
  /\ connected' = TRUE
  /\ running' = startAll(r)
  /\ overtaken' = {a \in tree \cap Account : endsOff(q, a)}

(* AlphaModGetTime: the connection ended after the timer tested it. *)
callbackTimer ==
  /\ reconnect(running, updates)
  /\ UNCHANGED <<models, handshake, updates>>

(* onUpdateServerConnectionStateSlot.  An active account starts or stops   *)
(* what is below it, then requests or cancels the account summary and the  *)
(* positions.  On a closed connection these requests may connect again.    *)
onUpdateServerConnectionState ==
  LET u == Head(updates)
      r == IF u.to \notin activeAccounts THEN running
           ELSE IF u.state THEN start(running, u.to, connected) ELSE stop(running, u.to)
  IN  /\ updates # <<>>
      /\ updates' = Tail(updates)
      /\ \/ /\ running' = r
            /\ UNCHANGED <<connected, overtaken>>
         \/ u.to \in activeAccounts /\ reconnect(r, Tail(updates))
      /\ UNCHANGED <<models, handshake>>

-----------------------------------------------------------------------------
(* CApplicationController: slotStoreModelTree and, at the next start of    *)
(* the program, loadTreeFromFile.                                          *)

StoreModelTree ==
  /\ file' = [tree |-> tree, started |-> started, parentOn |-> parentOn,
              unpushed |-> unpushed]
  /\ UNCHANGED <<tree, started, parentOn, unpushed, running, connected, handshake,
                 updates, overtaken>>

(* Mutant: the flag of the parent is not read from the file. *)
RestartWithoutFlag ==
  /\ tree' = file.tree /\ started' = file.started
  /\ parentOn' = [n \in Node |-> n \in tree' \cap Account]
  /\ unpushed' = file.unpushed
  /\ running' = {} /\ updates' = <<>>
  /\ connected' = FALSE /\ handshake' = FALSE /\ overtaken' = {}
  /\ UNCHANGED file

Restart ==
  /\ tree' = file.tree /\ started' = file.started /\ parentOn' = file.parentOn
  /\ unpushed' = file.unpushed
  /\ running' = {} /\ updates' = <<>>
  /\ connected' = FALSE /\ handshake' = FALSE /\ overtaken' = {}
  /\ UNCHANGED file

-----------------------------------------------------------------------------
NoFlag == [n \in Node |-> FALSE]

Init ==
  /\ tree = {} /\ started = NoFlag /\ parentOn = NoFlag
  /\ running = {} /\ updates = <<>>
  /\ connected = FALSE /\ handshake = FALSE /\ unpushed = {} /\ overtaken = {}
  /\ file = [tree |-> {}, started |-> NoFlag, parentOn |-> NoFlag, unpushed |-> {}]

UserStep == \E n \in Node : addAccount(n) \/ addBelow(n) \/ removeModel(n)
                              \/ setActivationState(n)

ConnectionStep == Connect \/ Connected \/ Disconnect \/ Lose

Next == \/ UserStep \/ ConnectionStep \/ callbackTimer \/ onUpdateServerConnectionState
        \/ StoreModelTree \/ Restart

Spec == Init /\ [][Next]_vars

-----------------------------------------------------------------------------
(* Properties *)

ancestorsStarted(n) ==
  /\ Parent[n] # Root => started[Parent[n]]
  /\ Grandparent(n) # Root => started[Grandparent(n)]

(* A flag n has from its own addition, or its parent has, below a model    *)
(* that was not active: nothing has been pushed down to it since.          *)
flagStale(n) == n \in unpushed \/ Parent[n] \in unpushed

(* After any sequence of activations, additions anywhere, removals, saves  *)
(* and restarts, a model below active models only has its flag set; a      *)
(* model that has it set is below active models only, or it or its parent  *)
(* was added below an inactive model and has been told nothing since.      *)
ParentActivated ==
  \A n \in tree : /\ ancestorsStarted(n) => parentOn[n]
                  /\ parentOn[n] => ancestorsStarted(n) \/ flagStale(n)

(* A strategy starts only if it is active and so are all models above it.  *)
(* The one exception is the click that activates it, or its portfolio,     *)
(* while the flag is that of an addition below an inactive model; the      *)
(* connection and its return never start such a strategy.                  *)
StartsActive ==
  [][\A s \in running' \ running :
       /\ started'[s]
       /\ \/ ancestorsStarted(s)'
          \/ flagStale(s) /\ \E n \in {s, Parent[s]} : started'[n] /\ ~started[n]]_vars

(* When the connection is up and all its signals are processed, every      *)
(* strategy that is active with all models above it runs - unless its      *)
(* account heard of a reconnection before the end of an older connection.  *)
RunsWhileActive ==
  connected /\ ~handshake /\ updates = <<>> =>
    \A s \in tree \cap Strategy :
      started[s] /\ ancestorsStarted(s) /\ Grandparent(s) \notin overtaken => s \in running

=============================================================================
