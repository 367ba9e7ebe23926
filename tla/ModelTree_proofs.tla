-------------------------- MODULE ModelTree_proofs --------------------------
(* Proofs about ModelTree for any number of accounts, portfolios and       *)
(* strategies and any order of activations, connections and restarts.      *)
EXTENDS ModelTree, SequenceTheorems, FiniteSetTheorems, TLAPS

-----------------------------------------------------------------------------
(* The models above n, by what n is. *)
LEMMA Levels ==
  ASSUME NEW n \in Node
  PROVE  /\ n # Root
         /\ n \in Account => Parent[n] = Root /\ Grandparent(n) = Root
         /\ n \in Portfolio => Parent[n] \in Account /\ Grandparent(n) = Root
         /\ n \in Strategy => Parent[n] \in Portfolio /\ Grandparent(n) \in Account
  BY ModelTreeAssumption DEF ModelTreeAssumption, Node, Grandparent

(* A node is on one level. *)
LEMMA OneLevel ==
  ASSUME NEW a \in Account, NEW p \in Portfolio, NEW s \in Strategy
  PROVE  a # p /\ a # s /\ p # s /\ a # Root /\ p # Root /\ s # Root
  BY ModelTreeAssumption DEF ModelTreeAssumption, Node

-----------------------------------------------------------------------------
(* The flags of a tree - the one in memory or the one in the file - and    *)
(* the models u to which nothing was pushed down since their addition.  An *)
(* account is never one of them: so a flag that is wrong is one of theirs, *)
(* or was handed on by one of them to its children.                        *)
above(s, n) ==
  /\ Parent[n] # Root => s[Parent[n]]
  /\ Grandparent(n) # Root => s[Grandparent(n)]

stale(u, n) == n \in u \/ Parent[n] \in u

TreeOK(t, s, p, u) ==
  /\ t \subseteq Node
  /\ s \in [Node -> BOOLEAN]
  /\ p \in [Node -> BOOLEAN]
  /\ u \subseteq Node \ Account
  /\ \A n \in t : Parent[n] \in t \cup {Root}
  /\ \A n \in t : above(s, n) => p[n]
  /\ \A n \in t : p[n] => above(s, n) \/ stale(u, n)

FlagsInv ==
  /\ TreeOK(tree, started, parentOn, unpushed)
  /\ TreeOK(file.tree, file.started, file.parentOn, file.unpushed)

(* The models above a model of the tree are in the tree. *)
LEMMA AboveInTree ==
  ASSUME NEW t, NEW s, NEW p, NEW u, TreeOK(t, s, p, u), NEW n \in t
  PROVE  Parent[n] \in t \cup {Root} /\ Grandparent(n) \in t \cup {Root}
<1>1. n \in Node /\ Parent[n] \in t \cup {Root}
  BY DEF TreeOK
<1>2. CASE Parent[n] = Root
  BY <1>1, <1>2, ModelTreeAssumption DEF ModelTreeAssumption, Grandparent
<1>3. CASE Parent[n] # Root
  BY <1>1, <1>3 DEF TreeOK, Grandparent
<1> QED
  BY <1>2, <1>3, <1>1

(* A change of check boxes that are not above a model leaves its rule.     *)
LEMMA SameAbove ==
  ASSUME NEW s, NEW r, NEW n,
         Parent[n] # Root => r[Parent[n]] = s[Parent[n]],
         Grandparent(n) # Root => r[Grandparent(n)] = s[Grandparent(n)]
  PROVE  above(s, n) <=> above(r, n)
  BY DEF above

(* A new account is below nothing; another model has the flag of its       *)
(* parent, and is noted unless its parent is active or has no flag set.    *)
LEMMA AddKeeps ==
  ASSUME NEW t, NEW s, NEW p, NEW u, TreeOK(t, s, p, u),
         NEW n \in Node \ t, NEW flag \in BOOLEAN,
         n \in Account => flag,
         n \notin Account => Parent[n] \in t /\ flag = p[Parent[n]],
         NEW v, v = u \cup {k \in {n} : flag /\ Parent[k] # Root /\ ~s[Parent[k]]}
  PROVE  TreeOK(t \cup {n}, [s EXCEPT ![n] = FALSE], [p EXCEPT ![n] = flag], v)
<1> DEFINE r == [s EXCEPT ![n] = FALSE]
           q == [p EXCEPT ![n] = flag]
<1>1. r \in [Node -> BOOLEAN] /\ q \in [Node -> BOOLEAN] /\ t \cup {n} \subseteq Node
  BY DEF TreeOK
<1>2. \A k \in t \cup {n} : Parent[k] \in t \cup {Root}
  BY Levels DEF TreeOK, Node
<1>3. \A k \in t \cup {n} : Grandparent(k) \in t \cup {Root}
  <2> TAKE k \in t \cup {n}
  <2>1. CASE Parent[k] = Root
    BY <2>1, ModelTreeAssumption DEF ModelTreeAssumption, Grandparent
  <2>2. CASE Parent[k] \in t
    BY <2>2 DEF TreeOK, Grandparent
  <2> QED
    BY <2>1, <2>2, <1>2
<1>4. \A k \in Node : k # n => r[k] = s[k] /\ q[k] = p[k]
  BY DEF TreeOK
<1>5. \A k \in t \cup {n} : above(r, k) <=> above(s, k)
  <2> TAKE k \in t \cup {n}
  <2>1. Parent[k] # Root => r[Parent[k]] = s[Parent[k]]
    BY <1>2, <1>4 DEF TreeOK
  <2>2. Grandparent(k) # Root => r[Grandparent(k)] = s[Grandparent(k)]
    BY <1>3, <1>4 DEF TreeOK
  <2> QED
    BY <2>1, <2>2, SameAbove
<1>6. q[n] = flag
  BY DEF TreeOK
<1>7. /\ above(s, n) => flag
      /\ flag => above(s, n) \/ stale(v, n)
  <2>1. CASE n \in Account
    BY <2>1, Levels DEF above
  <2>2. CASE n \notin Account
    <3>1. Parent[n] \in t /\ Parent[n] # Root
      BY <2>2, Levels DEF TreeOK
    <3>2. Parent[Parent[n]] = Grandparent(n) /\ Grandparent(Parent[n]) = Root
      BY <2>2, Levels DEF Node, Grandparent
    <3>3. above(s, n) <=> s[Parent[n]] /\ above(s, Parent[n])
      BY <3>1, <3>2 DEF above
    <3>4. above(s, Parent[n]) => p[Parent[n]]
      BY <3>1 DEF TreeOK
    <3>5. p[Parent[n]] => above(s, Parent[n]) \/ Parent[n] \in u
      <4>1. Parent[Parent[n]] \in Account \cup {Root}
        BY <2>2, Levels, ModelTreeAssumption DEF ModelTreeAssumption, Node
      <4>2. Parent[Parent[n]] \notin u
        BY <4>1, ModelTreeAssumption DEF ModelTreeAssumption, TreeOK
      <4> QED
        BY <3>1, <4>2 DEF TreeOK, stale
    <3>6. flag /\ ~s[Parent[n]] => n \in v
      BY <3>1
    <3>7. Parent[n] \in u => Parent[n] \in v
      OBVIOUS
    <3> QED
      BY <2>2, <3>3, <3>4, <3>5, <3>6, <3>7, Zenon DEF stale
  <2> QED
    BY <2>1, <2>2
<1>8. \A k \in t \cup {n} : above(r, k) => q[k]
  <2> TAKE k \in t \cup {n}
  <2>1. CASE k = n
    BY <2>1, <1>5, <1>6, <1>7
  <2>2. CASE k # n
    BY <2>2, <1>4, <1>5 DEF TreeOK
  <2> QED
    BY <2>1, <2>2
<1>9. \A k \in t \cup {n} : q[k] => above(r, k) \/ stale(v, k)
  <2> TAKE k \in t \cup {n}
  <2>1. CASE k = n
    BY <2>1, <1>5, <1>6, <1>7
  <2>2. CASE k # n
    BY <2>2, <1>4, <1>5 DEF TreeOK, stale
  <2> QED
    BY <2>1, <2>2
<1>10. v \subseteq Node \ Account
  BY ModelTreeAssumption DEF ModelTreeAssumption, TreeOK
<1> QED
  BY <1>1, <1>2, <1>8, <1>9, <1>10, Zenon DEF TreeOK

(* Nothing that stays is below something that goes. *)
LEMMA RemoveKeeps ==
  ASSUME NEW t, NEW s, NEW p, NEW u, TreeOK(t, s, p, u), NEW n \in t, NEW gone,
         gone = {k \in t : n \in {k, Parent[k], Grandparent(k)}},
         NEW r, r = [k \in Node |-> k \notin gone /\ s[k]],
         NEW q, q = [k \in Node |-> k \notin gone /\ p[k]],
         NEW v, v = u \ gone
  PROVE  TreeOK(t \ gone, r, q, v)
<1>1. r \in [Node -> BOOLEAN] /\ q \in [Node -> BOOLEAN] /\ t \ gone \subseteq Node
  BY DEF TreeOK
<1>2. \A k \in Node \ gone : r[k] = s[k] /\ q[k] = p[k]
  BY DEF TreeOK
<1>3. \A k \in t \ gone : /\ Parent[k] \in (t \ gone) \cup {Root}
                          /\ Grandparent(k) \in (t \ gone) \cup {Root}
  <2> TAKE k \in t \ gone
  <2>1. Parent[k] \in t \cup {Root} /\ Grandparent(k) \in t \cup {Root}
    BY AboveInTree
  <2>2. n # Root /\ n \notin {k, Parent[k], Grandparent(k)}
    BY Levels DEF TreeOK
  <2>3. Parent[Grandparent(k)] = Root /\ Parent[Root] = Root
    BY Levels, ModelTreeAssumption DEF TreeOK, ModelTreeAssumption, Node
  <2> QED
    BY <2>1, <2>2, <2>3 DEF Grandparent
<1>4. \A k \in t \ gone : above(r, k) <=> above(s, k)
  <2> TAKE k \in t \ gone
  <2>1. Parent[k] # Root => r[Parent[k]] = s[Parent[k]]
    BY <1>2, <1>3 DEF TreeOK
  <2>2. Grandparent(k) # Root => r[Grandparent(k)] = s[Grandparent(k)]
    BY <1>2, <1>3 DEF TreeOK
  <2> QED
    BY <2>1, <2>2, SameAbove
<1>5. \A k \in t \ gone : above(r, k) => q[k]
  BY <1>2, <1>4 DEF TreeOK
<1>6. ASSUME NEW k \in t \ gone, q[k] PROVE above(r, k) \/ stale(u \ gone, k)
  <2>1. above(s, k) \/ stale(u, k)
    BY <1>2, <1>6 DEF TreeOK
  <2>2. gone \subseteq t /\ Root \notin t
    BY ModelTreeAssumption DEF ModelTreeAssumption, TreeOK
  <2>3. k \notin gone /\ Parent[k] \notin gone
    BY <1>3, <2>2
  <2> QED
    BY <1>4, <2>1, <2>3 DEF stale
<1>7. u \ gone \subseteq Node \ Account
  BY DEF TreeOK
<1> QED
  BY <1>1, <1>3, <1>5, <1>6, <1>7, Zenon DEF TreeOK

(* Below n the flags follow its check box if its own flag is set; if it is *)
(* not, no flag below it has to be set, and one that is was set before.    *)
LEMMA PushKeeps ==
  ASSUME NEW t, NEW s, NEW p, NEW u, TreeOK(t, s, p, u),
         NEW n \in t, NEW on \in BOOLEAN, NEW q, NEW v,
         v = {k \in u : ~(p[n] /\ n \in {Parent[k], Grandparent(k)})},
         q = IF p[n]
             THEN [k \in Node |-> CASE k \in t /\ Parent[k] = n -> on
                                    [] k \in t /\ Parent[k] # n /\ Grandparent(k) = n
                                         -> on /\ s[Parent[k]]
                                    [] OTHER -> p[k]]
             ELSE p
  PROVE  TreeOK(t, [s EXCEPT ![n] = on], q, v)
<1> DEFINE r == [s EXCEPT ![n] = on]
<1>1. /\ r \in [Node -> BOOLEAN] /\ t \subseteq Node /\ n \in Node /\ n # Root
      /\ r[n] = on /\ \A k \in Node \ {n} : r[k] = s[k]
  BY Levels DEF TreeOK
<1>2. q \in [Node -> BOOLEAN]
  <2>1. CASE p[n]
    <3>1. \A k \in Node : (on /\ s[Parent[k]]) \in BOOLEAN /\ p[k] \in BOOLEAN
      BY DEF TreeOK
    <3> QED
      BY <2>1, <3>1
  <2>2. CASE ~p[n]
    BY <2>2 DEF TreeOK
  <2> QED
    BY <2>1, <2>2
<1>3. ASSUME NEW k \in t
      PROVE  /\ above(r, k) => q[k]
             /\ q[k] => above(r, k) \/ stale(v, k)
  <2>1. /\ k \in Node /\ Parent[k] \in Node \cup {Root} /\ Grandparent(k) \in Node \cup {Root}
        /\ above(s, k) => p[k]
        /\ p[k] => above(s, k) \/ stale(u, k)
        /\ above(s, n) => p[n]
        /\ p[n] => above(s, n) \/ stale(u, n)
        /\ u \subseteq Node \ Account
    BY AboveInTree DEF TreeOK
  <2>2. CASE Parent[k] = n
    <3>1. Grandparent(k) = Parent[n] /\ Grandparent(n) = Root
      BY <2>1, <2>2, <1>1, Levels, ModelTreeAssumption
         DEF Node, Grandparent, ModelTreeAssumption
    <3>2. Parent[n] # n
      BY <1>1, Levels, OneLevel DEF Node
    <3>3. above(s, n) <=> (Parent[n] # Root => s[Parent[n]])
      BY <3>1 DEF above
    <3>4. above(r, k) <=> on /\ above(s, n)
      BY <1>1, <2>1, <2>2, <3>1, <3>2, <3>3 DEF above
    <3>5. above(s, k) <=> s[n] /\ above(s, n)
      BY <1>1, <2>2, <3>1, <3>3 DEF above
    <3>6. CASE p[n]
      <4>1. q[k] = on
        BY <2>1, <2>2, <3>6
      <4>2. Parent[n] \in Account \cup {Root} \/ n \notin Portfolio \cup Account
        BY <1>1, Levels DEF Node
      <4>3. n \in Portfolio \cup Account
        BY <2>1, <2>2, <1>1, Levels DEF Node
      <4>4. Parent[n] \notin u
        BY <2>1, <4>2, <4>3, ModelTreeAssumption DEF ModelTreeAssumption
      <4>5. n \in u => n \in v
        BY <1>1, <3>1, <3>2
      <4>6. stale(u, n) => stale(v, k)
        BY <2>2, <4>4, <4>5 DEF stale
      <4> QED
        BY <2>1, <3>4, <3>6, <4>1, <4>6
    <3>7. CASE ~p[n]
      <4>1. q[k] = p[k] /\ v = u
        BY <3>7
      <4> QED
        BY <2>1, <3>4, <3>5, <3>7, <4>1
    <3> QED
      BY <3>6, <3>7
  <2>3. CASE Parent[k] # n /\ Grandparent(k) = n
    <3>1. k \in Strategy /\ n \in Account /\ Parent[k] \in Node
      BY <2>1, <2>3, <1>1, Levels, OneLevel DEF Node
    <3>2. above(s, n) /\ p[n]
      BY <1>1, <2>1, <3>1, Levels DEF above
    <3>3. above(r, k) <=> on /\ s[Parent[k]]
      BY <1>1, <2>3, <3>1, Levels, OneLevel DEF above, Node
    <3>4. q[k] <=> on /\ s[Parent[k]]
      BY <2>1, <2>3, <3>2
    <3> QED
      BY <3>3, <3>4
  <2>4. CASE Parent[k] # n /\ Grandparent(k) # n
    <3>1. above(s, k) <=> above(r, k)
      <4>1. Parent[k] # Root => r[Parent[k]] = s[Parent[k]]
        BY <1>1, <2>1, <2>4
      <4>2. Grandparent(k) # Root => r[Grandparent(k)] = s[Grandparent(k)]
        BY <1>1, <2>1, <2>4
      <4> QED
        BY <4>1, <4>2, SameAbove
    <3>2. q[k] = p[k]
      BY <2>1, <2>4
    <3>3. Grandparent(Parent[k]) = Root \/ Parent[k] \notin u
      BY <2>1, Levels DEF Node, Grandparent
    <3>4. n # Root /\ Grandparent(k) = Parent[Parent[k]]
      BY <1>1 DEF Grandparent
    <3>5. stale(u, k) => stale(v, k)
      BY <2>4, <3>3, <3>4 DEF stale
    <3> QED
      BY <2>1, <3>1, <3>2, <3>5
  <2> QED
    BY <2>2, <2>3, <2>4
<1>4. \A k \in t : Parent[k] \in t \cup {Root}
  BY DEF TreeOK
<1>5. /\ \A k \in t : above(r, k) => q[k]
      /\ \A k \in t : q[k] => above(r, k) \/ stale(v, k)
  BY <1>3
<1>6. v \subseteq Node \ Account
  BY DEF TreeOK
<1> QED
  BY <1>1, <1>2, <1>4, <1>5, <1>6, Zenon DEF TreeOK

-----------------------------------------------------------------------------
(* A step of the connection or of the account's reaction leaves the models *)
(* alone; loading takes them from the file.                                *)
LEMMA FlagsInit == Init => FlagsInv
  BY DEF Init, FlagsInv, TreeOK, NoFlag

LEMMA FlagsStep == FlagsInv /\ [Next]_vars => FlagsInv'
<1> SUFFICES ASSUME FlagsInv, [Next]_vars PROVE FlagsInv'
  OBVIOUS
<1>1. ASSUME NEW n \in Node, addAccount(n) PROVE FlagsInv'
  <2>1. n \in Account /\ n \in Node \ tree
    BY <1>1 DEF addAccount, add
  <2>2. unpushed' = unpushed \cup {k \in {n} : TRUE /\ Parent[k] # Root /\ ~started[Parent[k]]}
    BY <1>1 DEF addAccount, add
  <2>3. TreeOK(tree \cup {n}, [started EXCEPT ![n] = FALSE], [parentOn EXCEPT ![n] = TRUE],
               unpushed')
    BY <2>1, <2>2, AddKeeps DEF FlagsInv
  <2> QED
    BY <1>1, <2>3 DEF addAccount, add, FlagsInv
<1>2. ASSUME NEW n \in Node, addBelow(n) PROVE FlagsInv'
  <2>1. n \notin Account /\ n \in Node \ tree
    BY <1>2, ModelTreeAssumption DEF ModelTreeAssumption, addBelow, add
  <2>2. parentOn[Parent[n]] \in BOOLEAN
    BY <1>2 DEF addBelow, FlagsInv, TreeOK
  <2>3. /\ Parent[n] \in tree
        /\ unpushed' = unpushed \cup {k \in {n} : /\ parentOn[Parent[n]]
                                                 /\ Parent[k] # Root
                                                 /\ ~started[Parent[k]]}
    BY <1>2 DEF addBelow, add
  <2>4. TreeOK(tree \cup {n}, [started EXCEPT ![n] = FALSE],
               [parentOn EXCEPT ![n] = parentOn[Parent[n]]], unpushed')
    BY <2>1, <2>2, <2>3, AddKeeps DEF FlagsInv
  <2> QED
    BY <1>2, <2>4 DEF addBelow, add, FlagsInv
<1>3. ASSUME NEW n \in Node, removeModel(n) PROVE FlagsInv'
  <2>0. n \in tree /\ subtree(n) = {k \in tree : n \in {k, Parent[k], Grandparent(k)}}
    BY <1>3 DEF removeModel, subtree
  <2>1. PICK gone : gone = subtree(n)
    OBVIOUS
  <2>2. gone = {k \in tree : n \in {k, Parent[k], Grandparent(k)}}
    BY <2>0, <2>1
  <2>3. TreeOK(tree, started, parentOn, unpushed)
    BY DEF FlagsInv
  <2>4. PICK r : r = [k \in Node |-> k \notin gone /\ started[k]]
    OBVIOUS
  <2>5. PICK q : q = [k \in Node |-> k \notin gone /\ parentOn[k]]
    OBVIOUS
  <2>6. TreeOK(tree \ gone, r, q, unpushed \ gone)
    BY <2>0, <2>2, <2>3, <2>4, <2>5, RemoveKeeps
  <2> QED
    BY <1>3, <2>1, <2>4, <2>5, <2>6 DEF removeModel, FlagsInv
<1>4. ASSUME NEW n \in Node, setActivationState(n) PROVE FlagsInv'
  <2>1. (~started[n]) \in BOOLEAN /\ n \in tree
    BY <1>4 DEF setActivationState, FlagsInv, TreeOK
  <2>2. PICK v : v = {k \in unpushed : ~(parentOn[n] /\ n \in {Parent[k], Grandparent(k)})}
    OBVIOUS
  <2>3. PICK on \in BOOLEAN : on = ~started[n]
    BY <2>1
  <2>4. PICK q : q = IF parentOn[n] THEN pushedDown(n, on) ELSE parentOn
    OBVIOUS
  <2>5. TreeOK(tree, started, parentOn, unpushed)
    BY DEF FlagsInv
  <2>6. TreeOK(tree, [started EXCEPT ![n] = on], q, v)
    BY <2>1, <2>2, <2>4, <2>5, PushKeeps DEF pushedDown
  <2> QED
    BY <1>4, <2>2, <2>3, <2>4, <2>6 DEF setActivationState, FlagsInv
<1>5. CASE ConnectionStep \/ callbackTimer \/ onUpdateServerConnectionState
  BY <1>5 DEF ConnectionStep, Connect, Connected, Disconnect, Lose, callbackTimer,
              onUpdateServerConnectionState, models, FlagsInv
<1>6. CASE StoreModelTree
  BY <1>6 DEF StoreModelTree, FlagsInv
<1>7. CASE Restart
  BY <1>7 DEF Restart, FlagsInv
<1>8. CASE UNCHANGED vars
  BY <1>8 DEF vars, FlagsInv
<1> QED
  BY <1>1, <1>2, <1>3, <1>4, <1>5, <1>6, <1>7, <1>8 DEF Next, UserStep

(* No model is left out: one whose ancestors are all active has its flag   *)
(* set, wherever models are added.                                         *)
NoneLeftOut == \A n \in tree : ancestorsStarted(n) => parentOn[n]

THEOREM FlagsNotMissed == Spec => []NoneLeftOut
<1>1. FlagsInv => NoneLeftOut
  BY DEF FlagsInv, TreeOK, NoneLeftOut, ancestorsStarted, above
<1> QED
  BY FlagsInit, FlagsStep, <1>1, PTL DEF Spec

(* Wherever models are added, a flag is missing nowhere, and it is set in  *)
(* excess only at a model, or below a portfolio, that was added below an   *)
(* inactive model and has been told nothing since.                         *)
THEOREM FlagsCorrect == Spec => []ParentActivated
<1>1. FlagsInv => ParentActivated
  BY DEF FlagsInv, TreeOK, ParentActivated, ancestorsStarted, above, flagStale, stale
<1> QED
  BY FlagsInit, FlagsStep, <1>1, PTL DEF Spec

-----------------------------------------------------------------------------
(* start() of an active account reaches active strategies only.            *)
LEMMA AccountStarts ==
  ASSUME FlagsInv, NEW a \in activeAccounts, NEW s \in startable(a)
  PROVE  started[s] /\ ancestorsStarted(s)
<1>1. s \in tree /\ s \in Strategy /\ s \in Node /\ a \in Account /\ started[a]
  BY DEF startable, strategiesOf, activeAccounts, Node
<1>2. a # s /\ a # Parent[s]
  BY <1>1, Levels, OneLevel
<1>3. a = Grandparent(s)
  BY <1>2 DEF startable, strategiesOf
<1> QED
  BY <1>1, <1>2, <1>3 DEF startable, ancestorsStarted

(* start() of a model that is activated reaches active strategies, and     *)
(* those below active models only unless the flag it relies on is stale.   *)
startsRightly(s) ==
  /\ started'[s]
  /\ \/ ancestorsStarted(s)'
     \/ flagStale(s) /\ \E n \in {s, Parent[s]} : started'[n] /\ ~started[n]

LEMMA ActivationStarts ==
  ASSUME FlagsInv, NEW n \in Node, setActivationState(n),
         ~started[n], parentOn[n], NEW s \in startable(n)
  PROVE  startsRightly(s)
<1>1. /\ n \in tree /\ started' = [started EXCEPT ![n] = TRUE]
      /\ started \in [Node -> BOOLEAN] /\ tree \subseteq Node
  BY DEF setActivationState, FlagsInv, TreeOK
<1>2. s \in tree /\ s \in Strategy /\ s \in Node
  BY DEF startable, strategiesOf, Node
<1>3. Parent[s] \in Portfolio /\ Grandparent(s) \in Account
      /\ Parent[s] \in Node /\ Grandparent(s) \in Node
  BY <1>2, Levels DEF Node
<1>4. started'[n] /\ ~started[n] /\ \A k \in Node : started[k] => started'[k]
  BY <1>1
<1>5. above(started, n) \/ stale(unpushed, n)
  BY <1>1 DEF FlagsInv, TreeOK
<1>6. started'[Parent[s]] /\ started'[Grandparent(s)] => ancestorsStarted(s)'
  BY DEF ancestorsStarted, Grandparent
<1>7. CASE n = s
  <2>1. (started[Parent[s]] /\ started[Grandparent(s)]) \/ flagStale(s)
    BY <1>3, <1>5, <1>7, Levels DEF above, stale, flagStale
  <2> QED
    BY <1>3, <1>4, <1>6, <1>7, <2>1 DEF startsRightly
<1>8. CASE n = Parent[s]
  <2>1. started[s]
    BY <1>2, <1>3, <1>8, OneLevel DEF startable
  <2>2. Parent[n] \notin unpushed
    <3>1. Parent[n] \in Account
      BY <1>3, <1>8, Levels
    <3> QED
      BY <3>1 DEF FlagsInv, TreeOK
  <2>3. started[Grandparent(s)] \/ flagStale(s)
    BY <1>3, <1>5, <1>8, <2>2, Levels DEF above, Grandparent, stale, flagStale
  <2> QED
    BY <1>2, <1>3, <1>4, <1>6, <1>8, <2>1, <2>3 DEF startsRightly
<1>9. CASE n = Grandparent(s)
  <2>1. started[s] /\ started[Parent[s]]
    BY <1>2, <1>3, <1>9, OneLevel DEF startable
  <2> QED
    BY <1>2, <1>3, <1>4, <1>6, <1>9, <2>1 DEF startsRightly
<1> QED
  BY <1>7, <1>8, <1>9 DEF startable, strategiesOf

LEMMA StartStep ==
  ASSUME FlagsInv, Next
  PROVE  \A s \in running' \ running : startsRightly(s)
<1>1. ASSUME NEW n \in Node, addAccount(n) \/ addBelow(n) \/ removeModel(n)
      PROVE  running' \subseteq running
  BY <1>1 DEF addAccount, addBelow, add, removeModel
<1>2. ASSUME NEW n \in Node, setActivationState(n), NEW s \in running' \ running
      PROVE  startsRightly(s)
  <2>1. ~started[n] /\ parentOn[n] /\ s \in startable(n)
    BY <1>2 DEF setActivationState, start, stop
  <2> QED
    BY <1>2, <2>1, ActivationStarts
<1>3. CASE ConnectionStep \/ StoreModelTree \/ Restart
  <2>1. running' \subseteq running
    BY <1>3 DEF ConnectionStep, Connect, Connected, Disconnect, Lose, StoreModelTree, Restart
  <2> QED
    BY <2>1
<1>4. ASSUME onUpdateServerConnectionState \/ callbackTimer, NEW s \in running' \ running
      PROVE  startsRightly(s)
  <2>1. PICK a \in activeAccounts : s \in startable(a)
    BY <1>4 DEF onUpdateServerConnectionState, callbackTimer, reconnect, start, stop, startAll
  <2>2. started[s] /\ ancestorsStarted(s) /\ started' = started
    BY <1>4, <2>1, AccountStarts DEF onUpdateServerConnectionState, callbackTimer, models
  <2> QED
    BY <2>2 DEF ancestorsStarted, startsRightly
<1> QED
  BY <1>1, <1>2, <1>3, <1>4 DEF Next, UserStep

(* Wherever models are added: a strategy that starts is active, and below  *)
(* active models only, unless it or its portfolio is activated just then   *)
(* with the flag of an addition below an inactive model.                   *)
THEOREM StartsOnlyActive == Spec => StartsActive
<1>1. FlagsInv /\ [Next]_vars =>
        [\A s \in running' \ running :
           /\ started'[s]
           /\ \/ ancestorsStarted(s)'
              \/ flagStale(s) /\ \E n \in {s, Parent[s]} : started'[n] /\ ~started[n]]_vars
  BY StartStep DEF startsRightly
<1> QED
  BY FlagsInit, FlagsStep, <1>1, PTL DEF Spec, StartsActive

-----------------------------------------------------------------------------
(* The queued signals.  In a queue q the account a is told of a connection *)
(* if one of its signals begins it, and of its end after that if endsOff.  *)
Signal == [to : Account, state : BOOLEAN]

begins(q, a) == \E i \in DOMAIN q : q[i] = [to |-> a, state |-> TRUE]

(* The first signal goes: what is left ends as before.                     *)
LEMMA TailTells ==
  ASSUME NEW q \in Seq(Signal), q # <<>>, NEW a
  PROVE  /\ endsOff(Tail(q), a) => endsOff(q, a)
         /\ begins(q, a) /\ Head(q) # [to |-> a, state |-> TRUE] => begins(Tail(q), a)
         /\ ~endsOff(q, a) /\ Head(q) = [to |-> a, state |-> FALSE] => begins(Tail(q), a)
<1> DEFINE on == [to |-> a, state |-> TRUE]
           off == [to |-> a, state |-> FALSE]
           t == Tail(q)
           n == Len(q)
<1>1. /\ n \in Nat /\ n # 0 /\ DOMAIN q = 1 .. n
      /\ DOMAIN t = 1 .. (n - 1) /\ q[1] = Head(q)
      /\ \A i \in 1 .. (n - 1) : t[i] = q[i + 1]
  BY HeadTailProperties, LenProperties, EmptySeq
<1>2. on # off
  OBVIOUS
<1> HIDE DEF on, off, t, n
<1>3. ASSUME endsOff(t, a) PROVE endsOff(q, a)
  <2>1. PICK i \in 1 .. (n - 1) : t[i] = off /\ \A j \in 1 .. (n - 1) : t[j] = on => j < i
    BY <1>1, <1>3 DEF endsOff, on, off
  <2>2. i + 1 \in 1 .. n /\ q[i + 1] = off
    BY <1>1, <2>1
  <2>3. ASSUME NEW j \in 1 .. n, q[j] = on PROVE j < i + 1
    <3>1. CASE j = 1
      BY <2>1, <3>1
    <3>2. CASE j # 1
      <4>1. j - 1 \in 1 .. (n - 1) /\ t[j - 1] = q[j]
        BY <1>1, <3>2
      <4> QED
        BY <2>1, <2>3, <4>1
    <3> QED
      BY <3>1, <3>2
  <2> QED
    BY <1>1, <2>2, <2>3 DEF endsOff, on, off
<1>4. ASSUME NEW j \in 1 .. n, q[j] = on, j # 1 PROVE begins(t, a)
  <2>1. j - 1 \in 1 .. (n - 1) /\ t[j - 1] = on
    BY <1>1, <1>4
  <2> QED
    BY <1>1, <2>1 DEF begins, on
<1>5. ASSUME begins(q, a), Head(q) # on PROVE begins(t, a)
  <2>1. PICK j \in 1 .. n : q[j] = on
    BY <1>1, <1>5 DEF begins, on
  <2> QED
    BY <1>1, <1>4, <1>5, <2>1
<1>6. ASSUME ~endsOff(q, a), Head(q) = off PROVE begins(t, a)
  <2>1. 1 \in 1 .. n /\ q[1] = off
    BY <1>1, <1>6
  <2>2. PICK j \in 1 .. n : q[j] = on /\ ~(j < 1)
    BY <1>1, <1>6, <2>1 DEF endsOff, on, off
  <2>3. j # 1
    BY <1>2, <2>1, <2>2
  <2> QED
    BY <1>4, <2>2, <2>3
<1> QED
  BY <1>3, <1>5, <1>6 DEF t, on, off

(* Signals to others go: those to a are the same in the same order.        *)
LEMMA DropTells ==
  ASSUME updates \in Seq(Signal), NEW gone, dropSignals(gone)
  PROVE  /\ updates' \in Seq(Signal)
         /\ \A i \in DOMAIN updates' : \E k \in DOMAIN updates :
              updates'[i] = updates[k] /\ updates[k].to \notin gone
         /\ \A a : a \notin gone => /\ endsOff(updates', a) => endsOff(updates, a)
                                    /\ begins(updates, a) => begins(updates', a)
<1> DEFINE kept == {i \in DOMAIN updates : updates[i].to \notin gone}
           D == 1 .. Cardinality(kept)
<1>1. PICK at \in [D -> kept] : /\ \A i, j \in DOMAIN at : i < j => at[i] < at[j]
                                /\ updates' = [i \in DOMAIN at |-> updates[at[i]]]
  BY DEF dropSignals
<1>2. DOMAIN updates = 1 .. Len(updates) /\ Len(updates) \in Nat
  BY LenProperties
<1>3. IsFiniteSet(kept) /\ Cardinality(kept) \in Nat /\ kept \subseteq Nat
  <2>1. IsFiniteSet(1 .. Len(updates))
    BY <1>2, FS_Interval
  <2>2. kept \subseteq 1 .. Len(updates)
    BY <1>2
  <2> QED
    BY <1>2, <2>1, <2>2, FS_Subset, FS_CardinalityType
<1>4. D \subseteq Nat /\ IsFiniteSet(D) /\ Cardinality(D) = Cardinality(kept)
  <2>1. PICK c \in Nat : c = Cardinality(kept)
    BY <1>3
  <2>2. IsFiniteSet(1 .. c) /\ Cardinality(1 .. c) = c
    BY FS_Interval
  <2> QED
    BY <2>1, <2>2
<1>5. \A k \in kept : k \in DOMAIN updates /\ updates[k].to \notin gone /\ updates[k] \in Signal
  BY <1>2, ElementOfSeq
<1>6. \A k \in DOMAIN updates : updates[k].to \notin gone => k \in kept
  OBVIOUS
<1>7. D = 1 .. Cardinality(kept)
  OBVIOUS
<1> HIDE DEF kept, D
<1>8. IsInjective(at)
  <2>1. ASSUME NEW i \in D, NEW j \in D, at[i] = at[j] PROVE i = j
    <3>1. at[i] \in Nat /\ at[j] \in Nat /\ i \in Nat /\ j \in Nat
      BY <1>3, <1>4
    <3>2. ~(i < j) /\ ~(j < i)
      BY <1>1, <2>1, <3>1
    <3> QED
      BY <3>1, <3>2
  <2> QED
    BY <2>1 DEF IsInjective
<1>9. \A k \in kept : \E i \in D : at[i] = k
  <2>1. at \in Injection(D, kept)
    BY <1>8 DEF Injection
  <2>2. at \in Surjection(D, kept)
    BY <1>3, <1>4, <2>1, FS_Injection
  <2> QED
    BY <2>2 DEF Surjection
<1>10. updates' \in [D -> Signal] /\ \A i \in D : updates'[i] = updates[at[i]]
  BY <1>1, <1>5
<1>11. updates' \in Seq(Signal)
  BY <1>3, <1>7, <1>10, SeqDef
<1>12. DOMAIN updates' = D
  BY <1>10
<1>13. ASSUME NEW a, a \notin gone, endsOff(updates', a) PROVE endsOff(updates, a)
  <2>1. PICK i \in D : /\ updates'[i] = [to |-> a, state |-> FALSE]
                       /\ \A j \in D : updates'[j] = [to |-> a, state |-> TRUE] => j < i
    BY <1>12, <1>13 DEF endsOff
  <2>2. at[i] \in DOMAIN updates /\ updates[at[i]] = [to |-> a, state |-> FALSE]
    BY <1>5, <1>10, <2>1
  <2>3. ASSUME NEW k \in DOMAIN updates, updates[k] = [to |-> a, state |-> TRUE]
        PROVE  k < at[i]
    <3>1. k \in kept
      BY <1>6, <1>13, <2>3
    <3>2. PICK j \in D : at[j] = k
      BY <1>9, <3>1
    <3>3. j < i
      BY <1>10, <2>1, <2>3, <3>2
    <3> QED
      BY <1>1, <3>2, <3>3
  <2> QED
    BY <2>2, <2>3 DEF endsOff
<1>14. ASSUME NEW a, a \notin gone, begins(updates, a) PROVE begins(updates', a)
  <2>1. PICK k \in DOMAIN updates : updates[k] = [to |-> a, state |-> TRUE]
    BY <1>14 DEF begins
  <2>2. k \in kept
    BY <1>6, <1>14, <2>1
  <2>3. PICK j \in D : at[j] = k
    BY <1>9, <2>2
  <2> QED
    BY <1>10, <1>12, <2>1, <2>3 DEF begins
<1> QED
  BY <1>5, <1>10, <1>11, <1>12, <1>13, <1>14

(* SetToSeq is a sequence of all elements of a finite set.                 *)
LEMMA AllInSeq ==
  ASSUME NEW S, IsFiniteSet(S)
  PROVE  /\ SetToSeq(S) \in Seq(S)
         /\ \A x \in S : \E i \in DOMAIN SetToSeq(S) : SetToSeq(S)[i] = x
<1>1. PICK c \in Nat : c = Cardinality(S) /\ ExistsBijection(1 .. c, S)
  BY FS_CardinalityType
<1>2. \E f \in [1 .. c -> S] : IsInjective(f)
  BY <1>1 DEF ExistsBijection, Bijection, Injection
<1>3. PICK f : f = SetToSeq(S)
  OBVIOUS
<1>4. f \in [1 .. c -> S] /\ IsInjective(f)
  BY <1>1, <1>2, <1>3 DEF SetToSeq
<1>5. f \in Injection(1 .. c, S)
  BY <1>4 DEF Injection
<1>6. IsFiniteSet(1 .. c) /\ Cardinality(1 .. c) = c
  BY FS_Interval
<1>7. f \in Surjection(1 .. c, S)
  BY <1>1, <1>5, <1>6, FS_Injection
<1>8. f \in Seq(S)
  BY <1>4, SeqDef
<1> QED
  BY <1>3, <1>4, <1>7, <1>8 DEF Surjection

(* A new signal goes to every account and comes after all older ones.      *)
LEMMA EmitTells ==
  ASSUME updates \in Seq(Signal), IsFiniteSet(tree), NEW on \in BOOLEAN, emit(on)
  PROVE  /\ updates' \in Seq(Signal)
         /\ \A i \in DOMAIN updates' : \/ updates'[i].to \in tree
                                       \/ \E k \in DOMAIN updates : updates'[i] = updates[k]
         /\ on => \A a \in tree \cap Account : begins(updates', a) /\ ~endsOff(updates', a)
<1>1. PICK A : A = tree \cap Account
  OBVIOUS
<1>2. IsFiniteSet(A)
  BY <1>1, FS_Subset
<1>3. PICK tos : tos = SetToSeq(A)
  OBVIOUS
<1>4. tos \in Seq(A) /\ \A x \in A : \E i \in DOMAIN tos : tos[i] = x
  BY <1>2, <1>3, AllInSeq
<1>5. PICK m \in Nat, n \in Nat : m = Len(updates) /\ n = Len(tos)
  BY <1>4, LenProperties
<1>6. DOMAIN tos = 1 .. n /\ \A i \in 1 .. n : tos[i] \in A
  BY <1>4, <1>5, LenProperties, ElementOfSeq
<1>7. PICK new : new = [i \in 1 .. n |-> [to |-> tos[i], state |-> on]]
  OBVIOUS
<1>8. new \in [1 .. n -> Signal]
  BY <1>1, <1>6, <1>7 DEF Signal
<1>9. new \in Seq(Signal) /\ Len(new) = n
  BY <1>8, SeqDef, LenProperties
<1>10. updates' = updates \o new
  BY <1>1, <1>3, <1>6, <1>7 DEF emit
<1>11. /\ updates' \in Seq(Signal)
       /\ Len(updates') = m + n
       /\ \A i \in 1 .. m + n : updates'[i] = IF i <= m THEN updates[i] ELSE new[i - m]
  <2>1. PICK q \in Seq(Signal) : q = updates
    OBVIOUS
  <2>2. /\ q \o new \in Seq(Signal)
        /\ Len(q \o new) = Len(q) + Len(new)
        /\ \A i \in 1 .. Len(q) + Len(new) :
             (q \o new)[i] = IF i <= Len(q) THEN q[i] ELSE new[i - Len(q)]
    BY <1>9, ConcatProperties
  <2> QED
    BY <1>5, <1>9, <1>10, <2>1, <2>2
<1>12. DOMAIN updates' = 1 .. m + n /\ DOMAIN updates = 1 .. m
  BY <1>5, <1>11, LenProperties
<1>13. ASSUME NEW i \in 1 .. m + n
       PROVE  \/ i \in 1 .. m /\ updates'[i] = updates[i]
              \/ /\ i > m /\ i - m \in 1 .. n
                 /\ updates'[i] = [to |-> tos[i - m], state |-> on] /\ tos[i - m] \in A
  <2>1. CASE i <= m
    BY <1>11, <2>1
  <2>2. CASE i > m
    <3>1. i - m \in 1 .. n
      BY <2>2
    <3> QED
      BY <1>6, <1>7, <1>11, <2>2, <3>1
  <2> QED
    BY <2>1, <2>2
<1>14. \A i \in DOMAIN updates' : \/ updates'[i].to \in tree
                                  \/ \E k \in DOMAIN updates : updates'[i] = updates[k]
  BY <1>1, <1>12, <1>13
<1>15. ASSUME on, NEW a \in A PROVE begins(updates', a) /\ ~endsOff(updates', a)
  <2>1. PICK k \in 1 .. n : tos[k] = a
    BY <1>4, <1>6
  <2>2. m + k \in 1 .. m + n /\ updates'[m + k] = [to |-> a, state |-> TRUE]
    <3>1. PICK x : x = m + k
      OBVIOUS
    <3>2. x \in 1 .. m + n /\ ~(x <= m) /\ x - m = k
      BY <3>1
    <3>3. updates'[x] = new[k]
      BY <1>11, <3>2
    <3>4. new[k] = [to |-> a, state |-> on]
      BY <1>7, <2>1
    <3>5. on = TRUE
      BY <1>15
    <3> QED
      BY <3>1, <3>2, <3>3, <3>4, <3>5
  <2>3. begins(updates', a)
    BY <1>12, <2>2 DEF begins
  <2>4. ASSUME endsOff(updates', a) PROVE FALSE
    <3>1. PICK i \in 1 .. m + n : /\ updates'[i] = [to |-> a, state |-> FALSE]
                                  /\ \A j \in 1 .. m + n :
                                       updates'[j] = [to |-> a, state |-> TRUE] => j < i
      BY <1>12, <2>4 DEF endsOff
    <3>2. m + k < i
      BY <2>2, <3>1
    <3>3. i > m
      BY <3>2
    <3>4. updates'[i] = [to |-> tos[i - m], state |-> on]
      BY <1>13, <3>3
    <3> QED
      BY <1>15, <3>1, <3>4
  <2> QED
    BY <2>3, <2>4
<1> QED
  BY <1>1, <1>11, <1>14, <1>15

-----------------------------------------------------------------------------
(* While the connection is up, an account that was not overtaken is told   *)
(* of it, in the queue or already: then its active strategies run.         *)
runs(a) ==
  \A s \in tree \cap Strategy :
    Grandparent(s) = a /\ started[s] /\ ancestorsStarted(s) => s \in running

told(a) == ~endsOff(updates, a) /\ (begins(updates, a) \/ runs(a))

Queued ==
  /\ IsFiniteSet(tree) /\ IsFiniteSet(file.tree)
  /\ connected \in BOOLEAN /\ handshake \in BOOLEAN
  /\ updates \in Seq(Signal)
  /\ \A i \in DOMAIN updates : updates[i].to \in tree

Told == connected /\ ~handshake => \A a \in tree \cap Account : a \notin overtaken => told(a)

RunInv == FlagsInv /\ Queued /\ Told

LEMMA QueuedStep ==
  ASSUME Queued, [Next]_vars
  PROVE  Queued'
<1>1. ASSUME NEW n \in Node, add(n, TRUE) \/ add(n, parentOn[Parent[n]]) PROVE Queued'
  <2>1. IsFiniteSet(tree')
    BY <1>1, FS_AddElement DEF add, Queued
  <2>2. UNCHANGED <<connected, handshake, updates, file>> /\ tree \subseteq tree'
    BY <1>1 DEF add
  <2> QED
    BY <2>1, <2>2 DEF Queued
<1>2. ASSUME NEW n \in Node, removeModel(n) PROVE Queued'
  <2>1. PICK gone : gone = subtree(n)
    OBVIOUS
  <2>2. tree' = tree \ gone /\ dropSignals(gone) /\ UNCHANGED <<connected, handshake, file>>
    BY <1>2, <2>1 DEF removeModel
  <2>3. IsFiniteSet(tree')
    BY <2>2, FS_Subset DEF Queued
  <2>4. updates' \in Seq(Signal) /\ \A i \in DOMAIN updates' : updates'[i].to \in tree'
    BY <2>2, DropTells DEF Queued
  <2> QED
    BY <2>2, <2>3, <2>4 DEF Queued
<1>3. ASSUME NEW n \in Node, setActivationState(n) PROVE Queued'
  BY <1>3 DEF setActivationState, Queued
<1>4. ASSUME NEW on \in BOOLEAN, emit(on), UNCHANGED <<tree, file>>,
             connected' \in BOOLEAN, handshake' \in BOOLEAN
      PROVE  Queued'
  <2>1. /\ updates' \in Seq(Signal)
        /\ \A i \in DOMAIN updates' : \/ updates'[i].to \in tree
                                      \/ \E k \in DOMAIN updates : updates'[i] = updates[k]
    BY <1>4, EmitTells DEF Queued
  <2> QED
    BY <1>4, <2>1 DEF Queued
<1>5. CASE Connect \/ Lose
  BY <1>5 DEF Connect, Lose, models, Queued
<1>6. CASE Connected
  BY <1>4, <1>6 DEF Connected, models, Queued
<1>7. CASE Disconnect
  BY <1>4, <1>7 DEF Disconnect, models, Queued
<1>8. CASE onUpdateServerConnectionState
  <2>1. updates # <<>> /\ updates' = Tail(updates)
    BY <1>8 DEF onUpdateServerConnectionState
  <2>2. /\ Tail(updates) \in Seq(Signal)
        /\ \A i \in 1 .. Len(Tail(updates)) : Tail(updates)[i] = updates[i + 1]
        /\ Len(Tail(updates)) = Len(updates) - 1
    BY <2>1, HeadTailProperties DEF Queued
  <2>3. Len(updates) \in Nat /\ DOMAIN updates = 1 .. Len(updates)
        /\ DOMAIN Tail(updates) = 1 .. Len(Tail(updates))
    BY <2>2, LenProperties DEF Queued
  <2>4. \A i \in DOMAIN Tail(updates) : Tail(updates)[i].to \in tree
    BY <2>2, <2>3 DEF Queued
  <2>5. UNCHANGED <<tree, file, handshake>> /\ connected' \in BOOLEAN
    BY <1>8 DEF onUpdateServerConnectionState, reconnect, models, Queued
  <2> QED
    BY <2>1, <2>2, <2>4, <2>5 DEF Queued
<1>9. CASE StoreModelTree
  BY <1>9 DEF StoreModelTree, Queued
<1>10. CASE Restart
  <2>1. <<>> \in Seq(Signal) /\ DOMAIN <<>> = {}
    BY EmptySeq
  <2>2. updates' = <<>> /\ tree' = file.tree /\ file' = file
        /\ connected' = FALSE /\ handshake' = FALSE
    BY <1>10 DEF Restart
  <2> QED
    BY <2>1, <2>2 DEF Queued
<1>11. CASE UNCHANGED vars
  BY <1>11 DEF vars, Queued
<1>12. CASE callbackTimer
  BY <1>12 DEF callbackTimer, reconnect, models, Queued
<1> QED
  BY <1>1, <1>2, <1>3, <1>5, <1>6, <1>7, <1>8, <1>9, <1>10, <1>11, <1>12
     DEF Next, UserStep, ConnectionStep, addAccount, addBelow

(* The strategies of one account are not those of another.                 *)
LEMMA ItsStrategies ==
  ASSUME NEW a \in Account, NEW s \in tree \cap Strategy, Grandparent(s) # a
  PROVE  s \notin strategiesOf(a)
<1>1. s \in Node /\ Parent[s] \in Portfolio
  BY Levels DEF Node
<1>2. a # s /\ a # Parent[s]
  BY <1>1, OneLevel
<1> QED
  BY <1>2 DEF strategiesOf

(* A model that is added is not active, nor above another one.             *)
LEMMA ToldAdd ==
  ASSUME RunInv, NEW n \in Node, NEW flag, add(n, flag)
  PROVE  Told'
<1> SUFFICES ASSUME connected', ~handshake', NEW a \in tree' \cap Account, a \notin overtaken'
             PROVE  told(a)'
  BY DEF Told
<1>1. /\ n \notin tree /\ tree' = tree \cup {n}
      /\ UNCHANGED <<running, updates, connected, handshake, overtaken>>
      /\ started' = [started EXCEPT ![n] = FALSE] /\ started \in [Node -> BOOLEAN]
  BY DEF add, RunInv, FlagsInv, TreeOK
<1>2. TreeOK(tree, started, parentOn, unpushed)
  BY DEF RunInv, FlagsInv
<1>3. CASE a = n
  <2>1. ~endsOff(updates, a)
    BY <1>1, <1>3 DEF endsOff, RunInv, Queued
  <2>2. ASSUME NEW s \in tree' \cap Strategy, Grandparent(s) = a PROVE FALSE
    <3>1. s # n /\ a # Root
      BY <1>3, <2>2, OneLevel, Levels
    <3>2. s \in tree
      BY <1>1, <3>1, <2>2
    <3>3. Grandparent(s) \in tree \cup {Root}
      BY <1>2, <3>2, AboveInTree
    <3> QED
      BY <1>1, <1>3, <2>2, <3>1, <3>3
  <2>3. runs(a)'
    BY <2>2 DEF runs
  <2> QED
    BY <1>1, <2>1, <2>3 DEF told, endsOff
<1>4. CASE a # n
  <2>1. told(a)
    BY <1>1, <1>4 DEF RunInv, Told
  <2>2. ASSUME runs(a), NEW s \in tree' \cap Strategy, Grandparent(s) = a, started'[s], ancestorsStarted(s)'
        PROVE  s \in running'
    <3>1. s # n
      BY <1>1, <2>2
    <3>2. s \in tree /\ s \in Node
      BY <1>1, <3>1, <2>2 DEF Node
    <3>3. Parent[s] \in tree \cup {Root} /\ Grandparent(s) \in tree \cup {Root}
      BY <1>2, <3>2, AboveInTree
    <3>4. started[s] /\ ancestorsStarted(s)
      BY <1>1, <2>2, <3>1, <3>2, <3>3, Levels DEF ancestorsStarted
    <3> QED
      BY <1>1, <2>2, <3>2, <3>4 DEF runs
  <2>3. runs(a) => runs(a)'
    BY <2>2 DEF runs
  <2> QED
    BY <1>1, <2>1, <2>3 DEF told, endsOff, begins
<1> QED
  BY <1>3, <1>4

(* What stays is active as before, runs as before and is told the same.    *)
LEMMA ToldRemove ==
  ASSUME RunInv, NEW n \in Node, removeModel(n)
  PROVE  Told'
<1> SUFFICES ASSUME connected', ~handshake', NEW a \in tree' \cap Account, a \notin overtaken'
             PROVE  told(a)'
  BY DEF Told
<1>1. PICK gone : gone = subtree(n)
  OBVIOUS
<1>2. /\ tree' = tree \ gone /\ running' = running \ gone
      /\ started' = [k \in Node |-> k \notin gone /\ started[k]]
      /\ overtaken' = overtaken \ gone /\ dropSignals(gone)
      /\ UNCHANGED <<connected, handshake>>
  BY <1>1 DEF removeModel
<1>3. a \in tree /\ a \notin gone /\ told(a)
  BY <1>2 DEF RunInv, Told
<1>4. /\ endsOff(updates', a) => endsOff(updates, a)
      /\ begins(updates, a) => begins(updates', a)
  BY <1>2, <1>3, DropTells DEF RunInv, Queued
<1>5. ASSUME runs(a), NEW s \in tree' \cap Strategy, Grandparent(s) = a, started'[s], ancestorsStarted(s)'
      PROVE  s \in running'
  <2>1. s \in tree /\ s \notin gone /\ s \in Node
    BY <1>2, <1>5 DEF Node
  <2>2. /\ Parent[s] \in Node /\ Grandparent(s) \in Node
        /\ \A k \in Node : started'[k] => started[k]
    BY <1>2, <2>1, <1>5, Levels DEF Node
  <2>3. started[s] /\ ancestorsStarted(s)
    BY <1>5, <2>1, <2>2 DEF ancestorsStarted
  <2> QED
    BY <1>2, <1>5, <2>1, <2>3 DEF runs
<1>6. runs(a) => runs(a)'
  BY <1>5 DEF runs
<1>7. told(a)' <=> ~endsOff(updates', a) /\ (begins(updates', a) \/ runs(a)')
  BY DEF told, endsOff, begins
<1> QED
  BY <1>3, <1>4, <1>6, <1>7 DEF told

(* A model that is activated starts what becomes active; one that is not   *)
(* below active models, or is deactivated, stops what is not active.       *)
LEMMA ToldActivate ==
  ASSUME RunInv, NEW n \in Node, setActivationState(n)
  PROVE  Told'
<1> SUFFICES ASSUME connected', ~handshake', NEW a \in tree' \cap Account, a \notin overtaken'
             PROVE  told(a)'
  BY DEF Told
<1>1. PICK on \in BOOLEAN : on = ~started[n]
  OBVIOUS
<1>2. /\ n \in tree /\ started' = [started EXCEPT ![n] = on] /\ started \in [Node -> BOOLEAN]
      /\ running' = IF on /\ parentOn[n] THEN running \cup startable(n)
                    ELSE running \ strategiesOf(n)
      /\ UNCHANGED <<tree, connected, handshake, updates, overtaken>>
  BY <1>1 DEF setActivationState, start, stop, RunInv, FlagsInv, TreeOK
<1>3. told(a)
  BY <1>2 DEF RunInv, Told
<1>4. ASSUME runs(a), NEW s \in tree \cap Strategy, Grandparent(s) = a, started'[s], ancestorsStarted(s)'
      PROVE  s \in running'
  <2>1. s \in Node /\ Parent[s] \in Portfolio /\ a \in Node /\ Parent[s] \in Node /\ Parent[s] # Root /\ a # Root
    BY <1>4, Levels DEF Node
  <2>2. started'[s] /\ started'[Parent[s]] /\ started'[a]
    BY <1>4, <2>1 DEF ancestorsStarted
  <2>3. \A k \in Node : k # n => started'[k] = started[k]
    BY <1>2
  <2>4. CASE n \notin {s, Parent[s], a}
    <3>1. started[s] /\ ancestorsStarted(s)
      BY <1>4, <2>1, <2>2, <2>3, <2>4 DEF ancestorsStarted
    <3>2. s \in running /\ s \notin strategiesOf(n)
      BY <1>4, <2>4, <3>1 DEF runs, strategiesOf
    <3> QED
      BY <1>2, <3>2
  <2>5. CASE n \in {s, Parent[s], a}
    <3>1. on
      BY <1>2, <2>2, <2>5
    <3>2. s # Parent[s] /\ s # a /\ Parent[s] # a
      BY <1>4, <2>1, OneLevel
    <3>3. s \in startable(n)
      BY <1>4, <2>1, <2>2, <2>3, <2>5, <3>2 DEF startable, strategiesOf
    <3>4. above(started, n)
      <4>1. CASE n = s
        BY <1>4, <2>1, <2>2, <2>3, <3>2, <4>1 DEF above
      <4>2. CASE n = Parent[s]
        BY <1>4, <2>1, <2>2, <2>3, <3>2, <4>2, Levels DEF above, Grandparent
      <4>3. CASE n = a
        BY <4>3, Levels DEF above
      <4> QED
        BY <2>5, <4>1, <4>2, <4>3
    <3>5. parentOn[n]
      BY <1>2, <3>4 DEF RunInv, FlagsInv, TreeOK
    <3> QED
      BY <1>2, <3>1, <3>3, <3>5
  <2> QED
    BY <2>4, <2>5
<1>5. runs(a) => runs(a)'
  BY <1>2, <1>4 DEF runs
<1>6. told(a)' <=> ~endsOff(updates', a) /\ (begins(updates', a) \/ runs(a)')
  BY DEF told, endsOff, begins
<1> QED
  BY <1>2, <1>3, <1>5, <1>6 DEF told

(* The strategies that are active below an account are startable from it.  *)
LEMMA ActiveIsStartable ==
  ASSUME RunInv, NEW s \in tree \cap Strategy, started[s], ancestorsStarted(s)
  PROVE  Grandparent(s) \in activeAccounts /\ s \in startable(Grandparent(s))
<1>1. PICK a : a = Grandparent(s)
  OBVIOUS
<1>2. s \in Node /\ Parent[s] \in Portfolio /\ Parent[s] \in Node /\ a \in Account /\ a # Root
  BY <1>1, Levels DEF Node
<1>3. a \in tree /\ a \in Node
  BY <1>1, <1>2, AboveInTree DEF RunInv, FlagsInv, Node
<1>4. started[a] /\ started[Parent[s]]
  BY <1>1, <1>2, Levels DEF ancestorsStarted
<1>5. above(started, a)
  BY <1>2, <1>3, Levels DEF above
<1>6. parentOn[a]
  BY <1>3, <1>5 DEF RunInv, FlagsInv, TreeOK
<1> QED
  BY <1>1, <1>2, <1>3, <1>4, <1>6 DEF activeAccounts, startable, strategiesOf

(* An account that hears of the connection starts what is active; one that *)
(* hears of an end is told of a connection after it, or was overtaken.     *)
LEMMA ToldUpdate ==
  ASSUME RunInv, onUpdateServerConnectionState
  PROVE  Told'
<1> SUFFICES ASSUME connected', ~handshake', NEW a \in tree' \cap Account, a \notin overtaken'
             PROVE  told(a)'
  BY DEF Told
<1>1. PICK u : u = Head(updates)
  OBVIOUS
<1>2. PICK r : r = IF u.to \notin activeAccounts THEN running
                   ELSE IF u.state THEN start(running, u.to, connected) ELSE stop(running, u.to)
  OBVIOUS
<1>3. /\ updates # <<>> /\ updates' = Tail(updates)
      /\ UNCHANGED <<tree, started, handshake>>
      /\ \/ running' = r /\ UNCHANGED <<connected, overtaken>>
         \/ /\ running' = startAll(r)
            /\ overtaken' = {b \in tree \cap Account : endsOff(Tail(updates), b)}
  BY <1>1, <1>2 DEF onUpdateServerConnectionState, reconnect, models
<1>4. /\ endsOff(Tail(updates), a) => endsOff(updates, a)
      /\ begins(updates, a) /\ u # [to |-> a, state |-> TRUE] => begins(Tail(updates), a)
      /\ ~endsOff(updates, a) /\ u = [to |-> a, state |-> FALSE] => begins(Tail(updates), a)
  BY <1>1, <1>3, TailTells DEF RunInv, Queued
<1>5. u \in Signal
  BY <1>1, <1>3, HeadTailProperties DEF RunInv, Queued
<1>6. told(a)' <=> ~endsOff(Tail(updates), a) /\ (begins(Tail(updates), a) \/ runs(a)')
  BY <1>3 DEF told, endsOff, begins
<1>7. CASE running' = r /\ UNCHANGED <<connected, overtaken>>
  <2>1. told(a)
    BY <1>3, <1>7 DEF RunInv, Told
  <2>2. ~endsOff(Tail(updates), a)
    BY <1>4, <2>1 DEF told
  <2>3. CASE u = [to |-> a, state |-> FALSE]
    BY <1>4, <1>6, <2>1, <2>2, <2>3 DEF told
  <2>4. CASE u = [to |-> a, state |-> TRUE]
    <3>1. ASSUME NEW s \in tree \cap Strategy, Grandparent(s) = a, started[s], ancestorsStarted(s)
          PROVE  s \in r
      <4>1. a \in activeAccounts /\ s \in startable(a)
        BY <3>1, ActiveIsStartable
      <4> QED
        BY <1>2, <1>7, <2>4, <4>1 DEF start
    <3>2. runs(a)'
      BY <1>3, <1>7, <3>1 DEF runs, ancestorsStarted
    <3> QED
      BY <1>6, <2>2, <3>2
  <2>5. CASE u.to # a
    <3>1. u # [to |-> a, state |-> TRUE]
      BY <2>5
    <3>2. ASSUME runs(a), NEW s \in tree \cap Strategy, Grandparent(s) = a, started[s], ancestorsStarted(s)
          PROVE  s \in r
      <4>1. s \in running
        BY <3>2 DEF runs
      <4>2. s \notin strategiesOf(u.to)
        BY <1>5, <2>5, <3>2, ItsStrategies DEF Signal
      <4> QED
        BY <1>2, <4>1, <4>2 DEF start, stop
    <3>3. runs(a) => runs(a)'
      BY <1>3, <1>7, <3>2 DEF runs, ancestorsStarted
    <3> QED
      BY <1>4, <1>6, <2>1, <2>2, <3>1, <3>3 DEF told
  <2>6. u.to # a \/ u = [to |-> a, state |-> TRUE] \/ u = [to |-> a, state |-> FALSE]
    BY <1>5 DEF Signal
  <2> QED
    BY <2>3, <2>4, <2>5, <2>6
<1>8. CASE /\ running' = startAll(r)
           /\ overtaken' = {b \in tree \cap Account : endsOff(Tail(updates), b)}
  <2>1. ~endsOff(Tail(updates), a)
    BY <1>3, <1>8
  <2>2. ASSUME NEW s \in tree \cap Strategy, Grandparent(s) = a, started[s], ancestorsStarted(s)
        PROVE  s \in startAll(r)
    <3>1. a \in activeAccounts /\ s \in startable(a)
      BY <2>2, ActiveIsStartable
    <3> QED
      BY <3>1 DEF startAll
  <2>3. runs(a)'
    BY <1>3, <1>8, <2>2 DEF runs, ancestorsStarted
  <2> QED
    BY <1>6, <2>1, <2>3
<1> QED
  BY <1>3, <1>7, <1>8

(* The reconnection of the timer starts the strategies of every account    *)
(* that is active.                                                         *)
LEMMA ToldTimer ==
  ASSUME RunInv, callbackTimer
  PROVE  Told'
<1> SUFFICES ASSUME NEW a \in tree' \cap Account, a \notin overtaken'
             PROVE  told(a)'
  BY DEF Told
<1>1. /\ UNCHANGED <<tree, started, updates>>
      /\ running' = startAll(running)
      /\ overtaken' = {b \in tree \cap Account : endsOff(updates, b)}
  BY DEF callbackTimer, reconnect, models
<1>2. ~endsOff(updates, a)
  BY <1>1
<1>3. ASSUME NEW s \in tree \cap Strategy, Grandparent(s) = a, started[s], ancestorsStarted(s)
      PROVE  s \in startAll(running)
  <2>1. a \in activeAccounts /\ s \in startable(a)
    BY <1>3, ActiveIsStartable
  <2> QED
    BY <2>1 DEF startAll
<1>4. runs(a)'
  BY <1>1, <1>3 DEF runs, ancestorsStarted
<1> QED
  BY <1>1, <1>2, <1>4 DEF told, endsOff, begins

LEMMA RunStep ==
  ASSUME RunInv, [Next]_vars
  PROVE  RunInv'
<1>1. FlagsInv' /\ Queued'
  BY FlagsStep, QueuedStep DEF RunInv
<1>2. SUFFICES Told'
  BY <1>1 DEF RunInv
<1>3. ASSUME NEW n \in Node, addAccount(n) \/ addBelow(n) PROVE Told'
  BY <1>3, ToldAdd DEF addAccount, addBelow
<1>4. ASSUME NEW n \in Node, removeModel(n) PROVE Told'
  BY <1>4, ToldRemove
<1>5. ASSUME NEW n \in Node, setActivationState(n) PROVE Told'
  BY <1>5, ToldActivate
<1>6. CASE Connect
  BY <1>6 DEF Connect, Told
<1>7. CASE Connected
  <2>1. SUFFICES ASSUME connected', NEW a \in tree' \cap Account PROVE told(a)'
    BY DEF Told
  <2>2. emit(TRUE) /\ tree' = tree
    BY <1>7, <2>1 DEF Connected, models
  <2>3. begins(updates', a) /\ ~endsOff(updates', a)
    BY <2>1, <2>2, EmitTells DEF RunInv, Queued
  <2>4. told(a)' <=> ~endsOff(updates', a) /\ (begins(updates', a) \/ runs(a)')
    BY DEF told, endsOff, begins
  <2> QED
    BY <2>3, <2>4
<1>8. CASE Disconnect \/ Lose \/ Restart
  BY <1>8 DEF Disconnect, Lose, Restart, Told
<1>9. CASE onUpdateServerConnectionState
  BY <1>9, ToldUpdate
<1>13. CASE callbackTimer
  BY <1>13, ToldTimer
<1>10. ASSUME UNCHANGED <<tree, started, running, connected, handshake, updates, overtaken>>
       PROVE  Told'
  BY <1>10 DEF RunInv, Told, told, endsOff, begins, runs, ancestorsStarted
<1>11. CASE StoreModelTree
  BY <1>10, <1>11 DEF StoreModelTree
<1>12. CASE UNCHANGED vars
  BY <1>10, <1>12 DEF vars
<1> QED
  BY <1>3, <1>4, <1>5, <1>6, <1>7, <1>8, <1>9, <1>11, <1>12, <1>13
     DEF Next, UserStep, ConnectionStep

(* When the connection is up and all its signals are processed, every      *)
(* strategy that is active with all models above it runs, unless its       *)
(* account heard of a reconnection before the end of an older connection:  *)
(* wherever models are added, and however often the connection comes and   *)
(* goes.                                                                   *)
THEOREM ActiveRuns == Spec => []RunsWhileActive
<1>1. Init => RunInv
  <2> SUFFICES ASSUME Init PROVE RunInv
    OBVIOUS
  <2>1. Queued
    <3>1. <<>> \in Seq(Signal) /\ DOMAIN <<>> = {} /\ IsFiniteSet({})
      BY EmptySeq, FS_EmptySet
    <3> QED
      BY <3>1 DEF Init, Queued
  <2>2. Told
    BY DEF Init, Told
  <2> QED
    BY <2>1, <2>2, FlagsInit DEF RunInv
<1>2. RunInv => RunsWhileActive
  <2> SUFFICES ASSUME RunInv, connected, ~handshake, updates = <<>>, NEW s \in tree \cap Strategy,
                      started[s], ancestorsStarted(s), Grandparent(s) \notin overtaken
               PROVE  s \in running
    BY DEF RunsWhileActive
  <2>1. Grandparent(s) \in tree \cap Account
    BY ActiveIsStartable DEF activeAccounts
  <2>2. told(Grandparent(s))
    BY <2>1 DEF RunInv, Told
  <2>3. ~begins(updates, Grandparent(s))
    <3>1. DOMAIN <<>> = {}
      BY EmptySeq
    <3> QED
      BY <3>1 DEF begins
  <2> QED
    BY <2>2, <2>3 DEF told, runs
<1> QED
  BY <1>1, <1>2, RunStep, PTL DEF Spec

=============================================================================
