---------------------------- MODULE FoldTheorems ----------------------------
(***************************************************************************)
(* Induction, for numbers and for the subsets of a finite set, and what    *)
(* the sums of Functions, which are folds, compute.  An induction is about *)
(* the set of the numbers, or of the subsets, that have a property: a set  *)
(* can be given to a theorem where a predicate cannot.                     *)
(***************************************************************************)
EXTENDS Integers, FiniteSets, Functions, FiniteSetTheorems, WellFoundedInduction, TLAPS

(* A set with 0, and with the successor of each number in it, has them all.*)
LEMMA AllNumbers ==
  ASSUME NEW N, 0 \in N, \A n \in Nat : n \in N => n + 1 \in N
  PROVE  Nat \subseteq N
<1> DEFINE R == {ss \in Nat \X Nat : ss[1] < ss[2]}
           T == Nat \ N
<1>1. IsWellFoundedOn(R, Nat)
  BY NatLessThanWellFounded DEF OpToRel
<1>2. SUFFICES ASSUME T # {} PROVE FALSE
  OBVIOUS
<1>3. T \subseteq Nat
  OBVIOUS
<1> HIDE DEF R, T
<1>4. PICK x \in T : \A y \in T : ~ (<<y, x>> \in R)
  BY <1>1, <1>2, <1>3, WFMin
<1>5. x \in Nat /\ x \notin N
  BY DEF T
<1>6. x - 1 \in Nat
  BY <1>5
<1>7. <<x - 1, x>> \in R
  BY <1>5, <1>6 DEF R
<1>8. x - 1 \in N
  BY <1>4, <1>6, <1>7 DEF T
<1> QED
  BY <1>5, <1>6, <1>8

(* A collection with the empty set, and with each set from which any       *)
(* element can be taken, has all subsets of S.                             *)
LEMMA AllSubsets ==
  ASSUME NEW S, IsFiniteSet(S), NEW G, {} \in G,
         \A s \in SUBSET S : s # {} /\ (\A x \in s : s \ {x} \in G) => s \in G
  PROVE  SUBSET S \subseteq G
<1> DEFINE N == {n \in Nat : \A s \in SUBSET S : Cardinality(s) = n => s \in G}
<1>1. \A s \in SUBSET S : /\ IsFiniteSet(s) /\ Cardinality(s) \in Nat
                          /\ Cardinality(s) = 0 <=> s = {}
  BY FS_Subset, FS_CardinalityType, FS_EmptySet
<1>2. 0 \in N
  BY <1>1
<1>3. ASSUME NEW n \in Nat, n \in N PROVE n + 1 \in N
  <2>1. ASSUME NEW s \in SUBSET S, Cardinality(s) = n + 1 PROVE s \in G
    <3>1. s # {}
      BY <1>1, <2>1
    <3>2. ASSUME NEW x \in s PROVE s \ {x} \in G
      <4>1. Cardinality(s \ {x}) = Cardinality(s) - 1
        BY <1>1, FS_RemoveElement
      <4>2. Cardinality(s \ {x}) = n
        BY <2>1, <4>1
      <4> QED
        BY <1>3, <4>2
    <3> QED
      BY <3>1, <3>2
  <2> QED
    BY <2>1
<1> HIDE DEF N
<1>4. Nat \subseteq N
  BY <1>2, <1>3, AllNumbers
<1> QED
  BY <1>1, <1>4 DEF N

(* it is the fold that adds up the values of f on the subsets of S.        *)
Adds(it, f, S) ==
  it = [s \in SUBSET S |-> IF s = {} THEN 0
                           ELSE f[CHOOSE x \in s : TRUE] + it[s \ {CHOOSE x \in s : TRUE}]]

(* There is one for every finite set: by the size of the subsets.          *)
LEMMA AddsExists ==
  ASSUME NEW S, IsFiniteSet(S), NEW f
  PROVE  \E it : Adds(it, f, S)
<1> DEFINE Up(n) == {s \in SUBSET S : Cardinality(s) <= n}
           first(s) == CHOOSE x \in s : TRUE
           To(g, n) == g = [s \in Up(n) |-> IF s = {} THEN 0 ELSE f[first(s)] + g[s \ {first(s)}]]
           N == {n \in Nat : \E g : To(g, n)}
<1>1. \A s \in SUBSET S : /\ IsFiniteSet(s) /\ Cardinality(s) \in Nat
                          /\ Cardinality(s) = 0 <=> s = {}
  BY FS_Subset, FS_CardinalityType, FS_EmptySet
<1>2. 0 \in N
  <2>1. \A s \in Up(0) : s = {}
    BY <1>1
  <2>2. To([s \in Up(0) |-> 0], 0)
    BY <2>1
  <2> QED
    BY <2>2
<1>3. ASSUME NEW n \in Nat, n \in N PROVE n + 1 \in N
  <2>1. PICK g : To(g, n)
    BY <1>3
  <2> DEFINE h == [s \in Up(n + 1) |-> IF s = {} THEN 0 ELSE f[first(s)] + g[s \ {first(s)}]]
  <2>2. ASSUME NEW s \in Up(n + 1), s # {}
        PROVE  h[s \ {first(s)}] = g[s \ {first(s)}]
    <3>1. PICK r : r = s \ {first(s)}
      OBVIOUS
    <3>2. first(s) \in s
      BY <2>2
    <3>3. Cardinality(r) = Cardinality(s) - 1
      BY <1>1, <3>1, <3>2, FS_RemoveElement
    <3>4. r \in SUBSET S /\ Cardinality(r) \in Nat /\ Cardinality(s) \in Nat
      BY <1>1, <3>1
    <3>5. r \in Up(n) /\ r \in Up(n + 1)
      BY <3>3, <3>4
    <3> HIDE DEF Up, first
    <3>6. g[r] = IF r = {} THEN 0 ELSE f[first(r)] + g[r \ {first(r)}]
      BY <2>1, <3>5
    <3>7. h[r] = IF r = {} THEN 0 ELSE f[first(r)] + g[r \ {first(r)}]
      BY <3>5
    <3> QED
      BY <3>1, <3>6, <3>7
  <2> HIDE DEF Up, first
  <2>3. h = [s \in Up(n + 1) |-> IF s = {} THEN 0 ELSE f[first(s)] + h[s \ {first(s)}]]
    BY <2>2
  <2>4. To(h, n + 1)
    BY <2>3
  <2> HIDE DEF h, To
  <2> QED
    BY <2>4
<1>4. Nat \subseteq N
  <2> HIDE DEF N
  <2> QED
    BY <1>2, <1>3, AllNumbers
<1>5. PICK c \in Nat : c = Cardinality(S)
  BY FS_CardinalityType
<1>6. Up(c) = SUBSET S
  BY <1>5, FS_Subset
<1>7. PICK g : To(g, c)
  BY <1>4
<1>8. Adds(g, f, S)
  BY <1>6, <1>7 DEF Adds
<1> QED
  BY <1>8

(* Two folds agree on what both have and where the values agree.           *)
LEMMA AddsAgree ==
  ASSUME NEW S, IsFiniteSet(S), NEW T, S \subseteq T, NEW f, NEW g, \A x \in S : f[x] = g[x],
         NEW it, Adds(it, f, S), NEW jt, Adds(jt, g, T)
  PROVE  \A s \in SUBSET S : it[s] = jt[s]
<1> DEFINE G == {s \in SUBSET S : it[s] = jt[s]}
           first(s) == CHOOSE x \in s : TRUE
<1>1. /\ \A s \in SUBSET S : it[s] = IF s = {} THEN 0 ELSE f[first(s)] + it[s \ {first(s)}]
      /\ \A s \in SUBSET T : jt[s] = IF s = {} THEN 0 ELSE g[first(s)] + jt[s \ {first(s)}]
  BY DEF Adds
<1>2. {} \in G
  BY <1>1
<1>3. ASSUME NEW s \in SUBSET S, s # {}, \A x \in s : s \ {x} \in G
      PROVE  s \in G
  <2>1. first(s) \in s
    BY <1>3
  <2>2. s \in SUBSET T
    OBVIOUS
  <2> HIDE DEF first
  <2>3. it[s \ {first(s)}] = jt[s \ {first(s)}]
    BY <1>3, <2>1
  <2>4. f[first(s)] = g[first(s)]
    BY <2>1
  <2> QED
    BY <1>1, <1>3, <2>2, <2>3, <2>4
<1> HIDE DEF G
<1>4. SUBSET S \subseteq G
  BY <1>2, <1>3, AllSubsets
<1> QED
  BY <1>4 DEF G

(* A fold of integers is an integer, and any element of a set may be added *)
(* last.                                                                   *)
LEMMA AddsAny ==
  ASSUME NEW S, IsFiniteSet(S), NEW f, \A x \in S : f[x] \in Int, NEW it, Adds(it, f, S)
  PROVE  /\ it[{}] = 0
         /\ \A s \in SUBSET S : /\ it[s] \in Int
                                /\ \A x \in s : it[s] = f[x] + it[s \ {x}]
<1> DEFINE first(s) == CHOOSE x \in s : TRUE
           I == {s \in SUBSET S : it[s] \in Int}
           G == {s \in SUBSET S : \A x \in s : it[s] = f[x] + it[s \ {x}]}
<1>1. \A s \in SUBSET S : it[s] = IF s = {} THEN 0 ELSE f[first(s)] + it[s \ {first(s)}]
  BY DEF Adds
<1>2. it[{}] = 0
  BY <1>1
<1>3. \A s \in SUBSET S : it[s] \in Int
  <2>1. {} \in I
    BY <1>2
  <2>2. ASSUME NEW s \in SUBSET S, s # {}, \A x \in s : s \ {x} \in I
        PROVE  s \in I
    <3>1. first(s) \in s
      BY <2>2
    <3> HIDE DEF first
    <3>2. it[s \ {first(s)}] \in Int
      BY <2>2, <3>1
    <3>3. PICK a \in Int, b \in Int : a = f[first(s)] /\ b = it[s \ {first(s)}]
      BY <3>1, <3>2
    <3>4. it[s] = a + b
      BY <1>1, <2>2, <3>3
    <3> QED
      BY <3>4
  <2> HIDE DEF I
  <2>3. SUBSET S \subseteq I
    BY <2>1, <2>2, AllSubsets
  <2> QED
    BY <2>3 DEF I
<1>4. {} \in G
  OBVIOUS
<1>5. ASSUME NEW s \in SUBSET S, s # {}, \A x \in s : s \ {x} \in G
      PROVE  s \in G
  <2>1. PICK y \in s : y = first(s)
    BY <1>5
  <2>2. it[s] = f[y] + it[s \ {y}]
    BY <1>1, <1>5, <2>1
  <2>3. ASSUME NEW x \in s PROVE it[s] = f[x] + it[s \ {x}]
    <3>1. CASE x = y
      BY <2>2, <3>1
    <3>2. CASE x # y
      <4>1. it[s \ {y}] = f[x] + it[(s \ {y}) \ {x}]
        BY <1>5, <3>2
      <4>2. it[s \ {x}] = f[y] + it[(s \ {x}) \ {y}]
        BY <1>5, <3>2
      <4>3. (s \ {x}) \ {y} = (s \ {y}) \ {x}
        OBVIOUS
      <4>4. PICK r \in Int : r = it[(s \ {y}) \ {x}]
        BY <1>3
      <4>5. PICK a \in Int, b \in Int : a = f[x] /\ b = f[y]
        OBVIOUS
      <4>6. it[s] = b + (a + r) /\ it[s \ {x}] = b + r
        BY <2>2, <4>1, <4>2, <4>3, <4>4, <4>5
      <4>7. b + (a + r) = a + (b + r)
        OBVIOUS
      <4> QED
        BY <4>5, <4>6, <4>7
    <3> QED
      BY <3>1, <3>2
  <2> QED
    BY <2>3
<1> HIDE DEF G
<1>6. SUBSET S \subseteq G
  BY <1>4, <1>5, AllSubsets
<1> QED
  BY <1>2, <1>3, <1>6 DEF G


(* The sum that the fold of Functions computes.                            *)
LEMMA SumIs ==
  ASSUME NEW S, IsFiniteSet(S), NEW f
  PROVE  \E it : Adds(it, f, S) /\ SumFunctionOnSet(f, S) = it[S]
<1>1. \E it : Adds(it, f, S)
  BY AddsExists
<1>2. PICK jt : jt = CHOOSE it : Adds(it, f, S)
  OBVIOUS
<1>3. Adds(jt, f, S)
  BY <1>1, <1>2
<1>4. SumFunctionOnSet(f, S) = jt[S]
  BY <1>2 DEF SumFunctionOnSet, FoldFunctionOnSet, MapThenFoldSet, Adds
<1> QED
  BY <1>3, <1>4

(* A sum depends on the values of its indices only.                        *)
LEMMA SumSame ==
  ASSUME NEW S, IsFiniteSet(S), NEW f, NEW g, \A x \in S : f[x] = g[x]
  PROVE  SumFunctionOnSet(f, S) = SumFunctionOnSet(g, S)
<1>1. PICK it : Adds(it, f, S) /\ SumFunctionOnSet(f, S) = it[S]
  BY SumIs
<1>2. PICK jt : Adds(jt, g, S) /\ SumFunctionOnSet(g, S) = jt[S]
  BY SumIs
<1>3. it[S] = jt[S]
  BY <1>1, <1>2, AddsAgree
<1> QED
  BY <1>1, <1>2, <1>3

(* One more index adds its value.                                          *)
LEMMA SumMore ==
  ASSUME NEW S, IsFiniteSet(S), NEW x, x \notin S, NEW f, \A y \in S \cup {x} : f[y] \in Int
  PROVE  /\ SumFunctionOnSet(f, S) \in Int
         /\ SumFunctionOnSet(f, S \cup {x}) = f[x] + SumFunctionOnSet(f, S)
<1>1. PICK T : T = S \cup {x}
  OBVIOUS
<1>2. IsFiniteSet(T) /\ S \subseteq T /\ x \in T /\ T \ {x} = S /\ \A y \in T : f[y] \in Int
  BY <1>1, FS_AddElement
<1>3. PICK it : Adds(it, f, S) /\ SumFunctionOnSet(f, S) = it[S]
  BY SumIs
<1>4. PICK jt : Adds(jt, f, T) /\ SumFunctionOnSet(f, T) = jt[T]
  BY <1>2, SumIs
<1>5. it[S] = jt[S]
  BY <1>2, <1>3, <1>4, AddsAgree
<1>6. jt[T] = f[x] + jt[T \ {x}] /\ jt[S] \in Int
  <2>1. IsFiniteSet(T) /\ Adds(jt, f, T) /\ \A y \in T : f[y] \in Int
    BY <1>2, <1>4
  <2>2. \A s \in SUBSET T : jt[s] \in Int /\ \A y \in s : jt[s] = f[y] + jt[s \ {y}]
    BY <2>1, AddsAny
  <2> QED
    BY <1>2, <2>2
<1> QED
  BY <1>1, <1>2, <1>3, <1>4, <1>5, <1>6

LEMMA SumNone ==
  ASSUME NEW f
  PROVE  SumFunctionOnSet(f, {}) = 0
<1>1. IsFiniteSet({})
  BY FS_EmptySet
<1>2. PICK it : Adds(it, f, {}) /\ SumFunctionOnSet(f, {}) = it[{}]
  BY <1>1, SumIs
<1> QED
  BY <1>2 DEF Adds

(* A sum of numbers is one.                                                *)
LEMMA SumNat ==
  ASSUME NEW S, IsFiniteSet(S), NEW f, \A x \in S : f[x] \in Nat
  PROVE  SumFunctionOnSet(f, S) \in Nat
<1> DEFINE G == {s \in SUBSET S : SumFunctionOnSet(f, s) \in Nat}
<1>1. {} \in G
  BY SumNone
<1>2. ASSUME NEW s \in SUBSET S, s # {}, \A x \in s : s \ {x} \in G
      PROVE  s \in G
  <2>1. PICK x \in s : TRUE
    BY <1>2
  <2>2. PICK r : r = s \ {x}
    OBVIOUS
  <2>3. s = r \cup {x} /\ x \notin r /\ IsFiniteSet(r) /\ r \in G
    BY <1>2, <2>1, <2>2, FS_Subset
  <2>4. SumFunctionOnSet(f, r \cup {x}) = f[x] + SumFunctionOnSet(f, r)
    <3>1. \A y \in r \cup {x} : f[y] \in Int
      BY <2>2
    <3> QED
      BY <2>3, <3>1, SumMore
  <2>5. PICK a \in Nat, b \in Nat : a = f[x] /\ b = SumFunctionOnSet(f, r)
    BY <2>1, <2>3
  <2> QED
    BY <2>3, <2>4, <2>5
<1> HIDE DEF G
<1>3. SUBSET S \subseteq G
  BY <1>1, <1>2, AllSubsets
<1> QED
  BY <1>3 DEF G

(* Where one value at most is 1 and the others are 0, so is the sum.       *)
LEMMA SumOfOne ==
  ASSUME NEW S, IsFiniteSet(S), NEW f, \A x \in S : f[x] \in {0, 1},
         \A x, y \in S : f[x] = 1 /\ f[y] = 1 => x = y
  PROVE  /\ SumFunctionOnSet(f, S) \in {0, 1}
         /\ SumFunctionOnSet(f, S) = 1 => \E x \in S : f[x] = 1
<1> DEFINE G == {s \in SUBSET S : /\ SumFunctionOnSet(f, s) \in {0, 1}
                                  /\ SumFunctionOnSet(f, s) = 1 => \E x \in s : f[x] = 1}
<1>1. {} \in G
  BY SumNone
<1>2. ASSUME NEW s \in SUBSET S, s # {}, \A x \in s : s \ {x} \in G
      PROVE  s \in G
  <2>1. PICK x \in s : TRUE
    BY <1>2
  <2>2. PICK r : r = s \ {x}
    OBVIOUS
  <2>3. s = r \cup {x} /\ x \notin r /\ IsFiniteSet(r) /\ r \in G
    BY <1>2, <2>1, <2>2, FS_Subset
  <2>4. SumFunctionOnSet(f, r \cup {x}) = f[x] + SumFunctionOnSet(f, r)
    <3>1. \A y \in r \cup {x} : f[y] \in Int
      BY <2>2
    <3> QED
      BY <2>3, <3>1, SumMore
  <2>5. PICK a \in {0, 1}, b \in {0, 1} : a = f[x] /\ b = SumFunctionOnSet(f, r)
    BY <2>1, <2>3
  <2>6. ASSUME a = 1, b = 1 PROVE FALSE
    <3>1. PICK y \in r : f[y] = 1
      BY <2>3, <2>5, <2>6
    <3> QED
      BY <2>1, <2>2, <2>3, <2>5, <2>6, <3>1
  <2>7. b = 1 => \E y \in s : f[y] = 1
    BY <2>3, <2>5
  <2>8. SumFunctionOnSet(f, s) = a + b
    BY <2>3, <2>4, <2>5
  <2> QED
    BY <2>1, <2>5, <2>6, <2>7, <2>8
<1> HIDE DEF G
<1>3. SUBSET S \subseteq G
  BY <1>1, <1>2, AllSubsets
<1> QED
  BY <1>3 DEF G

=============================================================================
