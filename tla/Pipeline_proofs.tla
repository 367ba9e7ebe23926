--------------------------- MODULE Pipeline_proofs ---------------------------
(* Proofs about Pipeline for any lists of assets, saved strategies and     *)
(* bounds: how the stages are connected, and when the alpha model sends.   *)
EXTENDS Pipeline, FoldTheorems, SequenceTheorems, TLAPS

-----------------------------------------------------------------------------
(* Connections.  Nothing but starting a started strategy, and exchanging a *)
(* stage of one, leaves a link that the chain does not have.               *)
Linked(p) == IF started /\ p \in Chain THEN 1 ELSE 0

LEMMA ChainStep ==
  ASSUME ChainWhileStarted, [Next]_vars
  PROVE  ChainWhileStarted'
<1> DEFINE Pairs == Object \X Stage
<1>1. CASE start
  <2> SUFFICES ASSUME ~touched' PROVE links' = [p \in Pairs |-> IF p \in Chain THEN 1 ELSE 0]
    BY <1>1 DEF ChainWhileStarted, start, Chain
  <2>1. ~touched /\ ~started /\ links' = connectModels
    BY <1>1 DEF start
  <2>2. links = [p \in Pairs |-> 0]
    BY <2>1 DEF ChainWhileStarted
  <2> QED
    BY <2>1, <2>2 DEF connectModels
<1>2. CASE stop
  <2> SUFFICES ASSUME ~touched' PROVE links' = [p \in Pairs |-> 0]
    BY <1>2 DEF ChainWhileStarted, stop
  <2>1. ~touched /\ links' = disconnectModels
    BY <1>2 DEF stop
  <2>2. links = [p \in Pairs |-> IF started /\ p \in Chain THEN 1 ELSE 0]
    BY <2>1 DEF ChainWhileStarted
  <2> QED
    BY <2>1, <2>2 DEF disconnectModels
<1>3. ASSUME NEW i \in Stage, WithoutStage(i) PROVE ChainWhileStarted'
  <2> SUFFICES ASSUME ~touched' PROVE links' = [p \in Pairs |-> 0] /\ ~started'
    BY DEF ChainWhileStarted
  <2>1. ~touched /\ ~started /\ ~started'
    BY <1>3 DEF WithoutStage
  <2>2. links = [p \in Pairs |-> 0]
    BY <2>1 DEF ChainWhileStarted
  <2> QED
    BY <1>3, <2>1, <2>2 DEF WithoutStage
<1>4. ASSUME NEW i \in Stage, addModel(i) \/ removeModel(i) PROVE ChainWhileStarted'
  BY <1>3, <1>4 DEF addModel, removeModel
<1>5. ASSUME UNCHANGED chain PROVE ChainWhileStarted'
  BY <1>5 DEF chain, ChainWhileStarted, Chain
<1>6. CASE Answer
  BY <1>5, <1>6 DEF Answer, slotCbkRecvHistoricalData, slotErrorProcessing
<1>7. ASSUME NEW l \in AssetLists, setParameters(l) PROVE ChainWhileStarted'
  BY <1>5, <1>7 DEF setParameters
<1>8. CASE UNCHANGED vars
  BY <1>5, <1>8 DEF vars
<1> QED
  BY <1>1, <1>2, <1>4, <1>6, <1>7, <1>8 DEF Next

(* While no stage is exchanged on existing connections and the strategy is *)
(* not started twice, its stages are connected along the chain, each pair  *)
(* once, while it is started, and not at all when it is stopped.           *)
THEOREM Connections == Spec => []ChainWhileStarted
<1>1. Init => ChainWhileStarted
  BY DEF Init, ChainWhileStarted
<1> QED
  BY <1>1, ChainStep, PTL DEF Spec

-----------------------------------------------------------------------------
(* Rounds.  What the round's list still lacks is what its requests have    *)
(* not answered; each of them is for another asset.                        *)
SumsUp ==
  /\ IsFiniteSet(pending) /\ IsFiniteSet(got)
  /\ errors \in Nat /\ Len(given) \in Nat
  /\ Len(given) = Cardinality(pending) + Cardinality(got) + errors

OneEach ==
  /\ \A r, s \in pending : r[3] = s[3] => r = s
  /\ \A r \in pending : r[3] \notin got

RoundInv ==
  /\ assets \in AssetLists
  /\ clean => SumsUp /\ OneEach /\ RoundSentOnce

(* The requests of a round are as many as the list has assets. *)
LEMMA Requests ==
  ASSUME NEW l \in Seq(STRING), NEW first
  PROVE  LET R == {<<first + k, i, l[i]>> : k \in 1 .. 1, i \in DOMAIN l}
         IN  IsFiniteSet(R) /\ Cardinality(R) = Len(l)
<1> DEFINE R == {<<first + k, i, l[i]>> : k \in 1 .. 1, i \in DOMAIN l}
           D == 1 .. Len(l)
           f == [i \in D |-> <<first + 1, i, l[i]>>]
<1>1. Len(l) \in Nat /\ DOMAIN l = D
  BY LenProperties
<1>2. IsFiniteSet(D) /\ Cardinality(D) = Len(l)
  BY <1>1, FS_Interval
<1>3. f \in [D -> R]
  BY <1>1
<1>4. IsInjective(f)
  BY DEF IsInjective
<1>5. \A r \in R : \E i \in D : f[i] = r
  BY <1>1
<1> HIDE DEF D, R, f
<1>6. f \in Bijection(D, R)
  BY <1>3, <1>4, <1>5 DEF Bijection, Injection, Surjection
<1>7. IsFiniteSet(R) /\ Cardinality(R) = Len(l)
  BY <1>2, <1>6, FS_Bijection DEF ExistsBijection
<1> QED
  BY <1>7 DEF R

LEMMA RoundStarts ==
  ASSUME RoundInv, NEW n, processDataOfAlpha(n), UNCHANGED assets
  PROVE  RoundInv'
<1> SUFFICES ASSUME clean' PROVE SumsUp' /\ OneEach' /\ RoundSentOnce'
  BY DEF RoundInv
<1>1. pending = {} /\ n = 1 /\ IsInjective(assets)
  BY DEF processDataOfAlpha
<1>2. assets \in Seq(STRING) /\ Len(assets) \in Nat
  BY PipelineAssumption, LenProperties DEF PipelineAssumption, RoundInv
<1> DEFINE R == {<<round + k, i, assets[i]>> : k \in 1 .. 1, i \in DOMAIN assets}
<1>3. pending' = R /\ got' = {} /\ errors' = 0 /\ given' = assets
  BY <1>1 DEF processDataOfAlpha
<1>4. SumsUp'
  <2>1. IsFiniteSet(R) /\ Cardinality(R) = Len(assets)
    BY <1>2, Requests
  <2>2. IsFiniteSet({}) /\ Cardinality({}) = 0
    BY FS_EmptySet
  <2> QED
    BY <1>2, <1>3, <2>1, <2>2 DEF SumsUp
<1>5. OneEach'
  BY <1>1, <1>3 DEF OneEach, IsInjective
<1>6. RoundSentOnce'
  BY DEF processDataOfAlpha, RoundSentOnce
<1> QED
  BY <1>4, <1>5, <1>6

LEMMA RoundAnswer ==
  ASSUME RoundInv, NEW r,
         slotErrorProcessing(r) \/ (r \in pending /\ slotCbkRecvHistoricalData(r))
  PROVE  RoundInv'
<1> SUFFICES ASSUME clean' PROVE SumsUp' /\ OneEach' /\ RoundSentOnce'
  BY DEF RoundInv, slotErrorProcessing, slotCbkRecvHistoricalData, lists
<1>1. clean /\ r \in pending /\ pending' = pending \ {r} /\ UNCHANGED given
  BY DEF slotErrorProcessing, slotCbkRecvHistoricalData, lists
<1>2. SumsUp /\ OneEach /\ RoundSentOnce
  BY <1>1 DEF RoundInv
<1>3. /\ Cardinality(pending) \in Nat /\ Cardinality(got) \in Nat
      /\ IsFiniteSet(pending') /\ Cardinality(pending') = Cardinality(pending) - 1
      /\ Cardinality(pending') = 0 <=> pending' = {}
  BY <1>1, <1>2, FS_CardinalityType, FS_RemoveElement, FS_EmptySet DEF SumsUp
<1>4. emitted = 0
  BY <1>1, <1>2 DEF RoundSentOnce
<1>5. CASE slotErrorProcessing(r)
  <2>1. got' = got /\ errors' = errors + 1 /\ emitted' = emitted /\ ~answered'
    BY <1>1, <1>5 DEF slotErrorProcessing
  <2>2. SumsUp'
    BY <1>1, <1>2, <1>3, <2>1 DEF SumsUp
  <2>3. OneEach'
    BY <1>1, <1>2, <2>1 DEF OneEach
  <2> QED
    BY <1>4, <2>1, <2>2, <2>3 DEF RoundSentOnce
<1>6. CASE slotCbkRecvHistoricalData(r)
  <2>1. got' = got \cup {r[3]} /\ errors' = errors /\ answered'
    BY <1>6 DEF slotCbkRecvHistoricalData
  <2>2. IsFiniteSet(got') /\ Cardinality(got') = Cardinality(got) + 1
    BY <1>1, <1>2, <2>1, FS_AddElement DEF SumsUp, OneEach
  <2>3. SumsUp'
    BY <1>1, <1>2, <1>3, <2>1, <2>2 DEF SumsUp
  <2>4. OneEach'
    BY <1>1, <1>2, <2>1 DEF OneEach
  <2>5. Len(given) = Cardinality(got') + errors <=> pending' = {}
    BY <1>2, <1>3, <2>2 DEF SumsUp
  <2>6. emitted' = IF pending' = {} THEN 1 ELSE 0
    BY <1>4, <1>6, <2>5 DEF slotCbkRecvHistoricalData
  <2> QED
    BY <2>1, <2>3, <2>4, <2>6 DEF RoundSentOnce
<1> QED
  BY <1>5, <1>6

LEMMA RoundStep ==
  ASSUME RoundInv, [Next]_vars
  PROVE  RoundInv'
<1>1. ASSUME UNCHANGED <<assets, given, got, errors, pending, history>> PROVE RoundInv'
  BY <1>1 DEF RoundInv, history, SumsUp, OneEach, RoundSentOnce
<1>2. CASE start
  <2>1. EmitFrom(connectModels, strategy) /\ UNCHANGED assets
    BY <1>2 DEF start
  <2>2. CASE UNCHANGED <<given, shared, got, errors, round, pending, history>>
    BY <1>1, <2>1, <2>2
  <2>3. CASE processDataOfAlpha(Calls(connectModels, strategy, alpha))
    BY <2>1, <2>3, RoundStarts
  <2> QED
    BY <2>1, <2>2, <2>3 DEF EmitFrom
<1>3. CASE stop
  BY <1>1, <1>3 DEF stop, lists
<1>4. CASE Answer
  <2>1. CASE \E r \in pending : slotCbkRecvHistoricalData(r) \/ slotErrorProcessing(r)
    BY <2>1, RoundAnswer
  <2>2. CASE slotErrorProcessing(<<0, 0, "foreign">>)
    <3>1. PICK r : r = <<0, 0, "foreign">>
      OBVIOUS
    <3>2. slotErrorProcessing(r)
      BY <2>2, <3>1
    <3> QED
      BY <3>2, RoundAnswer
  <2> QED
    BY <1>4, <2>1, <2>2 DEF Answer
<1>5. ASSUME NEW i \in Stage, addModel(i) \/ removeModel(i) PROVE RoundInv'
  <2>1. WithoutStage(i)
    BY <1>5 DEF addModel, removeModel
  <2>2. CASE i = alpha
    BY <2>1, <2>2 DEF WithoutStage, RoundInv
  <2>3. CASE i # alpha
    BY <1>1, <2>1, <2>3 DEF WithoutStage, history
  <2> QED
    BY <2>2, <2>3
<1>6. ASSUME NEW l \in AssetLists, setParameters(l) PROVE RoundInv'
  BY <1>6 DEF setParameters, RoundInv, SumsUp, OneEach, RoundSentOnce
<1>7. CASE UNCHANGED vars
  BY <1>1, <1>7 DEF vars, lists
<1> QED
  BY <1>2, <1>3, <1>4, <1>5, <1>6, <1>7 DEF Next

(* The alpha model sends its list once in a round, when all of the round's *)
(* requests have been answered, and only when the last of them was         *)
(* answered by history: a list of any length, answers in any order.        *)
THEOREM Rounds == Spec => []RoundSentOnce
<1>1. Init => RoundInv
  BY PipelineAssumption DEF Init, RoundInv, PipelineAssumption
<1>2. RoundInv => RoundSentOnce
  BY DEF RoundInv, RoundSentOnce
<1> QED
  BY <1>1, <1>2, RoundStep, PTL DEF Spec

-----------------------------------------------------------------------------
(* Orders.  How often a stage is reached is a sum over the links to it,    *)
(* of how often the stages before it emit; a stage of a chain has one link *)
(* to it, and each emits once or not at all.                               *)
Heard(i) == (IF i = rebalance THEN selection ELSE strategy) .. i - 1

Emitted(ls, source, e, i) ==
  IF i = source THEN 1
  ELSE IF i < source \/ i = alpha THEN 0
  ELSE SumFunction([j \in Heard(i) |-> ls[<<j, i>>] * e[j]])

LEMMA Objects == Object = 0 .. 5 /\ Stage = 1 .. 5 /\ \A i \in Object : i \in Nat
BY DEF Object, Stage, strategy, selection, execution

LEMMA HeardBefore ==
  ASSUME NEW i \in Object
  PROVE  /\ IsFiniteSet(Heard(i))
         /\ \A j \in Heard(i) : j \in 0 .. i - 1 /\ j \in Object /\ <<j, i>> \in Object \X Stage
<1>1. Heard(i) \subseteq 0 .. i - 1 /\ 0 .. i - 1 \subseteq Object
  BY Objects DEF Heard, strategy, selection
<1>2. i # 0 => i \in Stage
  BY Objects
<1>3. IsFiniteSet(0 .. i - 1)
  BY Objects, FS_Interval
<1>4. IsFiniteSet(Heard(i))
  BY <1>1, <1>3, FS_Subset
<1>5. ASSUME NEW j \in Heard(i) PROVE i # 0
  BY <1>1, Objects
<1> QED
  BY <1>1, <1>2, <1>4, <1>5

(* How often an object emits depends on the objects before it.             *)
LEMMA EmittedBefore ==
  ASSUME NEW ls, NEW source, NEW i \in Object, NEW e, NEW d, \A j \in 0 .. i - 1 : e[j] = d[j]
  PROVE  Emitted(ls, source, e, i) = Emitted(ls, source, d, i)
<1>1. \A j \in Heard(i) : e[j] = d[j]
  BY HeardBefore
<1>2. [j \in Heard(i) |-> ls[<<j, i>>] * e[j]] = [j \in Heard(i) |-> ls[<<j, i>>] * d[j]]
  BY <1>1
<1> QED
  BY <1>2 DEF Emitted

(* The recursion has a solution, object by object.                         *)
LEMMA EmitsSolves ==
  ASSUME NEW ls, NEW source \in Object
  PROVE  \A i \in Object : Emits(ls, source)[i] = Emitted(ls, source, Emits(ls, source), i)
<1> DEFINE Up(g, n) == /\ g = [i \in Object |-> g[i]]
                       /\ \A i \in Object : i <= n => g[i] = Emitted(ls, source, g, i)
           N == {n \in Nat : \E g : Up(g, n)}
           Solves(g) == g = [i \in Object |-> Emitted(ls, source, g, i)]
<1>1. 0 \in N
  <2> DEFINE g == [i \in Object |-> IF i = source THEN 1 ELSE 0]
  <2>1. ASSUME NEW i \in Object, i <= 0 PROVE g[i] = Emitted(ls, source, g, i)
    <3>1. i = source \/ (i # source /\ i < source)
      BY <2>1, Objects
    <3>2. CASE i = source
      BY <3>2 DEF Emitted
    <3>3. CASE i # source /\ i < source
      BY <3>3 DEF Emitted
    <3> QED
      BY <3>1, <3>2, <3>3
  <2>2. Up(g, 0)
    BY <2>1
  <2> QED
    BY <2>2
<1>2. ASSUME NEW n \in Nat, n \in N PROVE n + 1 \in N
  <2>1. PICK g : Up(g, n)
    BY <1>2
  <2> DEFINE h == [i \in Object |-> IF i = n + 1 THEN Emitted(ls, source, g, i) ELSE g[i]]
  <2>2. ASSUME NEW i \in Object, i <= n + 1 PROVE h[i] = Emitted(ls, source, h, i)
    <3>1. \A j \in 0 .. i - 1 : j \in Object /\ j # n + 1
      BY <2>2, Objects
    <3>2. \A j \in 0 .. i - 1 : g[j] = h[j]
      BY <3>1
    <3>3. Emitted(ls, source, g, i) = Emitted(ls, source, h, i)
      BY <3>2, EmittedBefore
    <3>4. i = n + 1 \/ i <= n
      BY <2>2, Objects
    <3> QED
      BY <2>1, <3>3, <3>4
  <2>3. Up(h, n + 1)
    BY <2>2
  <2> HIDE DEF Up, h
  <2> QED
    BY <2>3
<1>3. \E g : Solves(g)
  <2>1. Nat \subseteq N
    <3> HIDE DEF N
    <3> QED
      BY <1>1, <1>2, AllNumbers
  <2>2. PICK g : Up(g, 5)
    BY <2>1
  <2>3. Solves(g)
    BY <2>2, Objects
  <2> HIDE DEF Solves
  <2> QED
    BY <2>3
<1>4. Emits(ls, source) = CHOOSE g : Solves(g)
  BY DEF Emits, Emitted, Heard
<1> HIDE DEF Solves
<1>5. Solves(Emits(ls, source))
  BY <1>3, <1>4
<1> QED
  BY <1>5 DEF Solves

(* No two links lead to one stage, and none is kept twice.                 *)
Single(ls) ==
  /\ \A p \in Object \X Stage : ls[p] \in {0, 1}
  /\ \A j, k \in Object, i \in Stage : ls[<<j, i>>] = 1 /\ ls[<<k, i>>] = 1 => j = k

(* One of those emitting reaches a stage, by its link, or none does.       *)
LEMMA OneReaches ==
  ASSUME NEW ls, Single(ls), NEW i \in Stage, NEW S \in SUBSET Object, IsFiniteSet(S),
         NEW e, \A j \in S : e[j] \in {0, 1}
  PROVE  LET reached == SumFunction([j \in S |-> ls[<<j, i>>] * e[j]])
         IN  reached \in {0, 1} /\ (reached = 1 => \E j \in Object : ls[<<j, i>>] = 1)
<1> DEFINE f == [j \in S |-> ls[<<j, i>>] * e[j]]
<1>1. \A j \in S : f[j] \in {0, 1} /\ (f[j] = 1 => ls[<<j, i>>] = 1)
  <2> SUFFICES ASSUME NEW j \in S PROVE f[j] \in {0, 1} /\ (f[j] = 1 => ls[<<j, i>>] = 1)
    OBVIOUS
  <2>1. PICK a \in {0, 1}, b \in {0, 1} : a = ls[<<j, i>>] /\ b = e[j]
    BY DEF Single
  <2>2. f[j] = a * b
    BY <2>1
  <2>3. a * b \in {0, 1} /\ (a * b = 1 => a = 1)
    OBVIOUS
  <2> QED
    BY <2>1, <2>2, <2>3
<1>2. \A j, k \in S : f[j] = 1 /\ f[k] = 1 => j = k
  BY <1>1 DEF Single
<1>3. SumFunction(f) = SumFunctionOnSet(f, S)
  BY DEF SumFunction, SumFunctionOnSet, FoldFunction
<1> HIDE DEF f
<1>4. /\ SumFunctionOnSet(f, S) \in {0, 1}
      /\ SumFunctionOnSet(f, S) = 1 => \E j \in S : f[j] = 1
  BY <1>1, <1>2, SumOfOne
<1>5. SumFunction(f) \in {0, 1} /\ (SumFunction(f) = 1 => \E j \in Object : ls[<<j, i>>] = 1)
  BY <1>1, <1>3, <1>4
<1> QED
  BY <1>5 DEF f

(* So each object emits once or not at all: object by object.              *)
LEMMA EmitsOnce ==
  ASSUME NEW ls, Single(ls), NEW source \in Object
  PROVE  \A i \in Object : Emits(ls, source)[i] \in {0, 1}
<1>1. PICK e : e = Emits(ls, source)
  OBVIOUS
<1>2. \A i \in Object : e[i] = Emitted(ls, source, e, i)
  BY <1>1, EmitsSolves
<1> DEFINE N == {n \in Nat : \A i \in Object : i <= n => e[i] \in {0, 1}}
<1>3. ASSUME NEW i \in Object, \A j \in Object : j < i => e[j] \in {0, 1}
      PROVE  e[i] \in {0, 1}
  <2>1. CASE i = source
    BY <1>2, <2>1 DEF Emitted
  <2>2. CASE i # source /\ (i < source \/ i = alpha)
    BY <1>2, <2>2 DEF Emitted
  <2>3. CASE i # source /\ ~(i < source) /\ i # alpha
    <3>1. i \in Stage
      BY <2>3, Objects
    <3>2. IsFiniteSet(Heard(i)) /\ Heard(i) \in SUBSET Object
      BY HeardBefore
    <3>3. \A j \in Heard(i) : e[j] \in {0, 1}
      <4>1. \A j \in Heard(i) : j \in Object /\ j \in 0 .. i - 1
        BY HeardBefore
      <4> QED
        BY <1>3, <4>1, Objects
    <3>4. SumFunction([j \in Heard(i) |-> ls[<<j, i>>] * e[j]]) \in {0, 1}
      BY <3>1, <3>2, <3>3, OneReaches
    <3> QED
      BY <1>2, <2>3, <3>4 DEF Emitted
  <2> QED
    BY <2>1, <2>2, <2>3
<1>4. 0 \in N
  BY <1>3, Objects
<1>5. ASSUME NEW n \in Nat, n \in N PROVE n + 1 \in N
  BY <1>3, <1>5, Objects
<1> HIDE DEF N
<1>6. Nat \subseteq N
  BY <1>4, <1>5, AllNumbers
<1>7. 5 \in N
  BY <1>6
<1> QED
  BY <1>1, <1>7, Objects DEF N

(* and a stage is called once or not at all, and only if a link leads to it.*)
LEMMA CallsOnce ==
  ASSUME NEW ls, Single(ls), NEW source \in Object, NEW stage \in Stage
  PROVE  /\ Calls(ls, source, stage) \in {0, 1}
         /\ Calls(ls, source, stage) = 1 => \E j \in Object : ls[<<j, stage>>] = 1
<1>1. PICK e : e = Emits(ls, source)
  OBVIOUS
<1>2. PICK S : S = strategy .. stage - 1
  OBVIOUS
<1>3. S \in SUBSET Object /\ IsFiniteSet(S)
  BY <1>2, Objects, FS_Interval DEF strategy
<1>4. \A j \in S : e[j] \in {0, 1}
  BY <1>1, <1>3, EmitsOnce
<1>5. LET reached == SumFunction([j \in S |-> ls[<<j, stage>>] * e[j]])
      IN  reached \in {0, 1} /\ (reached = 1 => \E j \in Object : ls[<<j, stage>>] = 1)
  BY <1>3, <1>4, OneReaches
<1>6. Calls(ls, source, stage) = SumFunction([j \in S |-> ls[<<j, stage>>] * e[j]])
  BY <1>1, <1>2 DEF Calls
<1> QED
  BY <1>5, <1>6

(* The links of a chain are such links.                                    *)
LEMMA ChainIsSingle ==
  ASSUME NEW b \in BOOLEAN
  PROVE  Single([p \in Object \X Stage |-> IF b /\ p \in Chain THEN 1 ELSE 0])
<1>1. ASSUME NEW j \in Object, NEW k \in Object, NEW i \in Stage, <<j, i>> \in Chain, <<k, i>> \in Chain
      PROVE  j = k
  <2>1. /\ j < i /\ k < i
        /\ j \in stages \cup {0} /\ k \in stages \cup {0}
        /\ \A m \in stages : ~(j < m /\ m < i) /\ ~(k < m /\ m < i)
    BY <1>1 DEF Chain, strategy
  <2>2. j \in Nat /\ k \in Nat
    BY Objects
  <2>3. ~(j < k) /\ ~(k < j)
    BY <2>1, <2>2
  <2> QED
    BY <2>2, <2>3
<1> DEFINE ls == [p \in Object \X Stage |-> IF b /\ p \in Chain THEN 1 ELSE 0]
<1>2. \A p \in Object \X Stage : ls[p] \in {0, 1} /\ (ls[p] = 1 => p \in Chain)
  OBVIOUS
<1>3. \A j \in Object, i \in Stage : <<j, i>> \in Object \X Stage
  OBVIOUS
<1> HIDE DEF ls
<1>4. Single(ls)
  BY <1>1, <1>2, <1>3 DEF Single
<1> QED
  BY <1>4 DEF ls

OrderInv == ChainWhileStarted /\ (started \in BOOLEAN) /\ (~touched => orders \in Nat)

LEMMA OrderStep ==
  ASSUME OrderInv, [Next]_vars
  PROVE  /\ OrderInv'
         /\ ~touched' => orders' - orders <= IF started' THEN 1 ELSE 0
<1>1. ChainWhileStarted'
  BY ChainStep DEF OrderInv
<1>2. SUFFICES /\ started' \in BOOLEAN
               /\ ~touched' => /\ orders' \in Nat
                               /\ orders' - orders <= IF started' THEN 1 ELSE 0
  BY <1>1 DEF OrderInv
<1>3. ASSUME UNCHANGED orders, touched' = touched \/ touched' = (touched \/ started)
      PROVE  ~touched' => orders' \in Nat /\ orders' - orders <= IF started' THEN 1 ELSE 0
  <2>1. SUFFICES ASSUME ~touched' PROVE orders' \in Nat /\ orders' - orders <= IF started' THEN 1 ELSE 0
    OBVIOUS
  <2>2. ~touched
    BY <1>3, <2>1
  <2>3. orders \in Nat /\ orders' = orders
    BY <1>3, <2>2 DEF OrderInv
  <2>4. orders' - orders = 0
    BY <2>3
  <2> QED
    BY <2>3, <2>4
<1>4. ASSUME start PROVE ~touched' => orders' \in Nat /\ orders' - orders <= 1
  <2>1. SUFFICES ASSUME ~touched' PROVE orders' \in Nat /\ orders' - orders <= 1
    OBVIOUS
  <2>2. ~touched /\ ~started
    BY <1>4, <2>1 DEF start
  <2>3. links = [p \in Object \X Stage |-> 0] /\ orders \in Nat
    BY <2>2 DEF OrderInv, ChainWhileStarted
  <2>4. connectModels = [p \in Object \X Stage |-> IF TRUE /\ p \in Chain THEN 1 ELSE 0]
    BY <2>3 DEF connectModels
  <2>5. Single(connectModels)
    BY <2>4, ChainIsSingle
  <2>6. Calls(connectModels, strategy, execution) \in {0, 1}
    BY <2>5, CallsOnce, Objects DEF strategy, execution
  <2>7. orders' = orders + Calls(connectModels, strategy, execution)
    BY <1>4 DEF start, EmitFrom
  <2> QED
    BY <2>3, <2>6, <2>7
<1>5. CASE stop
  <2>1. UNCHANGED orders /\ touched' = touched /\ started' = FALSE
    BY <1>5 DEF stop
  <2>2. ~touched' => orders' \in Nat /\ orders' - orders <= IF started' THEN 1 ELSE 0
    BY <1>3, <2>1
  <2> QED
    BY <2>1, <2>2
<1>6. ASSUME NEW r, slotCbkRecvHistoricalData(r)
      PROVE  /\ started' \in BOOLEAN
             /\ ~touched' => orders' \in Nat /\ orders' - orders <= IF started' THEN 1 ELSE 0
  <2>1. started' = started /\ touched' = touched /\ started \in BOOLEAN
    BY <1>6 DEF slotCbkRecvHistoricalData, chain, OrderInv
  <2>2. SUFFICES ASSUME ~touched PROVE orders' \in Nat /\ orders' - orders <= IF started THEN 1 ELSE 0
    BY <2>1
  <2>3. links = [p \in Object \X Stage |-> IF started /\ p \in Chain THEN 1 ELSE 0] /\ orders \in Nat
    BY <2>2 DEF OrderInv, ChainWhileStarted
  <2>4. Single(links)
    BY <2>1, <2>3, ChainIsSingle
  <2>5. /\ Calls(links, alpha, execution) \in {0, 1}
        /\ Calls(links, alpha, execution) = 1 => \E j \in Object : links[<<j, execution>>] = 1
    BY <2>4, CallsOnce, Objects DEF alpha, execution
  <2>6. Calls(links, alpha, execution) <= IF started THEN 1 ELSE 0
    <3>1. CASE started
      BY <2>5, <3>1
    <3>2. CASE ~started
      <4>1. execution \in Stage
        BY Objects DEF execution
      <4>2. \A p \in Object \X Stage : ~(links[p] = 1)
        BY <2>3, <3>2
      <4>3. ~ \E j \in Object : links[<<j, execution>>] = 1
        BY <4>1, <4>2
      <4>4. Calls(links, alpha, execution) # 1
        BY <2>5, <4>3
      <4>5. Calls(links, alpha, execution) = 0
        BY <2>5, <4>4
      <4> QED
        BY <3>2, <4>5
    <3> QED
      BY <3>1, <3>2
  <2>7. orders' = orders \/ orders' = orders + Calls(links, alpha, execution)
    BY <1>6 DEF slotCbkRecvHistoricalData
  <2>8. PICK c \in {0, 1} : c = Calls(links, alpha, execution)
    BY <2>5
  <2>9. PICK o \in Nat : o = orders
    BY <2>3
  <2>10. orders' = o \/ orders' = o + c
    BY <2>7, <2>8, <2>9
  <2>11. PICK m \in {0, 1} : m = IF started THEN 1 ELSE 0
    OBVIOUS
  <2> QED
    BY <2>6, <2>8, <2>9, <2>10, <2>11
<1>7. ASSUME NEW r, slotErrorProcessing(r) PROVE UNCHANGED <<started, touched, orders>>
  BY <1>7 DEF slotErrorProcessing, chain
<1>8. ASSUME NEW i \in Stage, WithoutStage(i)
      PROVE  UNCHANGED <<started, orders>> /\ touched' = (touched \/ started)
  BY <1>8 DEF WithoutStage
<1>9. ASSUME UNCHANGED <<started, touched, orders>>
      PROVE  /\ started' \in BOOLEAN
             /\ ~touched' => orders' \in Nat /\ orders' - orders <= IF started' THEN 1 ELSE 0
  BY <1>3, <1>9 DEF OrderInv
<1>10. CASE Answer
  BY <1>6, <1>7, <1>9, <1>10 DEF Answer
<1>11. ASSUME NEW i \in Stage, addModel(i) \/ removeModel(i)
       PROVE  /\ started' \in BOOLEAN
              /\ ~touched' => orders' \in Nat /\ orders' - orders <= IF started' THEN 1 ELSE 0
  BY <1>3, <1>8, <1>11 DEF addModel, removeModel, OrderInv
<1>12. ASSUME NEW l \in AssetLists, setParameters(l) PROVE UNCHANGED <<started, touched, orders>>
  BY <1>12 DEF setParameters, chain
<1>13. CASE UNCHANGED vars
  BY <1>9, <1>13 DEF vars, chain
<1>14. CASE start
  <2>1. started' = TRUE
    BY <1>14 DEF start
  <2> QED
    BY <1>4, <1>14, <2>1
<1> QED
  BY <1>5, <1>9, <1>10, <1>11, <1>12, <1>13, <1>14 DEF Next

(* While no stage is exchanged on existing connections and the strategy is *)
(* not started twice, one event leads to one order at most, and to none    *)
(* when the strategy is stopped: whatever stages it has, each that is in   *)
(* the chain is reached over one link.                                     *)
THEOREM Orders == Spec => OneOrderAtMost
<1>1. Init => OrderInv
  <2> SUFFICES ASSUME Init PROVE OrderInv
    OBVIOUS
  <2>1. links = [p \in Object \X Stage |-> 0] /\ started = FALSE /\ orders = 0
    BY DEF Init
  <2>2. ChainWhileStarted
    BY <2>1 DEF ChainWhileStarted
  <2> QED
    BY <2>1, <2>2 DEF OrderInv
<1>2. OrderInv /\ [Next]_vars => OrderInv' /\ [~touched' => orders' - orders <= IF started' THEN 1 ELSE 0]_vars
  BY OrderStep
<1> QED
  BY <1>1, <1>2, PTL DEF Spec, OneOrderAtMost

=============================================================================
