------------------------------- MODULE FoldProofs -------------------------------
(***************************************************************************)
(* What the other proofs need of numbers, finite sets, the sums over them  *)
(* that weigh a prompt (Segments) and add up a ledger (AgentRun), what is  *)
(* kept of a sequence (Logs) and sequences of sequences that are joined.   *)
(* Induction is stated over sets: the least element of a set of numbers,   *)
(* and a family of finite sets closed under adding an element.             *)
(***************************************************************************)
EXTENDS Integers, Functions, FiniteSets, SequencesExt, Logs, FiniteSetTheorems,
        SequenceTheorems, WellFoundedInduction, TLAPS

(* Induction.                                                              *)

\* A set of natural numbers that is not empty has a least one.
LEMMA LeastElement ==
  ASSUME NEW T \in SUBSET Nat, T # {}
  PROVE  \E least \in T : \A y \in T : least <= y
<1> DEFINE R == OpToRel(<, Nat)
<1>1. IsWellFoundedOn(R, Nat)
  BY NatLessThanWellFounded
<1>2. \A x, y \in Nat : x < y => <<x, y>> \in R
  BY DEF OpToRel
<1> HIDE DEF R
<1>3. PICK least \in T : \A y \in T : ~(<<y, least>> \in R)
  BY <1>1, WFMin
<1>4. \A y \in T : ~(y < least)
  BY <1>2, <1>3
<1> QED
  BY <1>3, <1>4

\* A set that holds zero and every successor of what it holds holds every number.
LEMMA Induction ==
  ASSUME NEW S \in SUBSET Nat, 0 \in S, \A n \in S : n + 1 \in S
  PROVE  S = Nat
<1> SUFFICES ASSUME Nat \ S # {} PROVE FALSE
  OBVIOUS
<1>1. PICK least \in Nat \ S : \A y \in Nat \ S : least <= y
  BY LeastElement
<1>2. least # 0 /\ least - 1 \in Nat
  BY <1>1
<1>3. least - 1 \in S
  BY <1>1, <1>2
<1>4. (least - 1) + 1 \in S
  BY <1>3
<1> QED
  BY <1>1, <1>4

\* A family that holds a finite set as soon as it holds the set short of any one of its
\* elements holds them all.
LEMMA SetInduction ==
  ASSUME NEW U, IsFiniteSet(U), NEW C \in SUBSET (SUBSET U),
         \A s \in SUBSET U : (\A x \in s : s \ {x} \in C) => s \in C
  PROVE  C = SUBSET U
<1> DEFINE N == {n \in Nat : \A s \in SUBSET U : Cardinality(s) = n => s \in C}
<1>1. \A s \in SUBSET U : IsFiniteSet(s) /\ Cardinality(s) \in Nat
  BY FS_Subset, FS_CardinalityType
<1>2. 0 \in N
  BY <1>1, FS_EmptySet
<1>3. ASSUME NEW n \in N PROVE n + 1 \in N
  <2> SUFFICES ASSUME NEW s \in SUBSET U, Cardinality(s) = n + 1 PROVE s \in C
    OBVIOUS
  <2>1. ASSUME NEW x \in s PROVE s \ {x} \in C
    <3>1. s \ {x} \in SUBSET U /\ Cardinality(s \ {x}) = n
      BY <1>1, <2>1, FS_RemoveElement
    <3> QED
      BY <3>1
  <2> QED
    BY <2>1
<1>4. N = Nat
  <2> HIDE DEF N
  <2>1. N \in SUBSET Nat
    BY DEF N
  <2> QED
    BY <1>2, <1>3, <2>1, Induction
<1> QED
  BY <1>1, <1>4

--------------------------------------------------------------------------------
(* Sums.                                                                   *)

\* The sums of f over the subsets of U, each taken the way the fold takes it.
SumsBy(f, U, h) ==
  h = [s \in SUBSET U |->
         IF s = {} THEN 0 ELSE f[CHOOSE x \in s : TRUE] + h[s \ {CHOOSE x \in s : TRUE}]]

\* There are such sums, up to any number of elements and hence over any finite set.
LEMMA SumsExist ==
  ASSUME NEW U, IsFiniteSet(U), NEW f \in [U -> Nat]
  PROVE  \E h \in [SUBSET U -> Nat] : SumsBy(f, U, h)
<1> DEFINE Small(n) == {s \in SUBSET U : Cardinality(s) <= n}
           First(s) == CHOOSE x \in s : TRUE
           Reached(n) == \E h \in [SUBSET U -> Nat] :
                           \A s \in Small(n) :
                             h[s] = IF s = {} THEN 0
                                    ELSE f[First(s)] + h[s \ {First(s)}]
           N == {n \in Nat : Reached(n)}
<1>1. \A s \in SUBSET U : IsFiniteSet(s) /\ Cardinality(s) \in Nat
  BY FS_Subset, FS_CardinalityType
<1>2. 0 \in N
  <2>1. \A s \in Small(0) : s = {}
    BY <1>1, FS_EmptySet
  <2>2. [s \in SUBSET U |-> 0] \in [SUBSET U -> Nat]
    OBVIOUS
  <2> QED
    BY <2>1, <2>2
<1>3. ASSUME NEW n \in N PROVE n + 1 \in N
  <2>0. n \in Nat
    BY <1>3
  <2>1. PICK h \in [SUBSET U -> Nat] :
          \A s \in Small(n) :
            h[s] = IF s = {} THEN 0 ELSE f[First(s)] + h[s \ {First(s)}]
    BY <1>3
  <2>2. \A s \in SUBSET U : s # {} => First(s) \in s
    OBVIOUS
  <2> HIDE DEF First
  <2> DEFINE g == [s \in SUBSET U |-> IF s = {} THEN 0
                                      ELSE f[First(s)] + h[s \ {First(s)}]]
  <2>3. g \in [SUBSET U -> Nat]
    BY <2>2
  <2>4. ASSUME NEW s \in Small(n) PROVE g[s] = h[s]
    BY <2>1, <2>4
  <2>5. ASSUME NEW s \in Small(n + 1)
        PROVE  g[s] = IF s = {} THEN 0 ELSE f[First(s)] + g[s \ {First(s)}]
    <3>1. CASE s = {}
      BY <3>1
    <3>2. CASE s # {}
      <4>1. s \ {First(s)} \in Small(n)
        <5>1. First(s) \in s /\ s \in SUBSET U /\ Cardinality(s) <= n + 1
          BY <2>2, <3>2
        <5>2. Cardinality(s \ {First(s)}) = Cardinality(s) - 1
          BY <1>1, <5>1, FS_RemoveElement
        <5> QED
          BY <1>1, <2>0, <5>1, <5>2
      <4>2. g[s \ {First(s)}] = h[s \ {First(s)}]
        BY <2>4, <4>1
      <4> QED
        BY <3>2, <4>2
    <3> QED
      BY <3>1, <3>2
  <2> HIDE DEF g, Small
  <2>6. Reached(n + 1)
    BY <2>3, <2>5
  <2> HIDE DEF Reached
  <2> QED
    BY <2>0, <2>6
<1>4. N = Nat
  <2> HIDE DEF N
  <2>1. N \in SUBSET Nat
    BY DEF N
  <2> QED
    BY <1>2, <1>3, <2>1, Induction
<1>5. Cardinality(U) \in N
  BY <1>4, FS_CardinalityType
<1>6. PICK h \in [SUBSET U -> Nat] :
        \A s \in Small(Cardinality(U)) :
          h[s] = IF s = {} THEN 0 ELSE f[First(s)] + h[s \ {First(s)}]
  BY <1>5
<1>7. \A s \in SUBSET U : s \in Small(Cardinality(U))
  BY FS_Subset
<1> HIDE DEF Small
<1>8. \A s \in SUBSET U :
        h[s] = IF s = {} THEN 0 ELSE f[First(s)] + h[s \ {First(s)}]
  BY <1>6, <1>7
<1>9. h = [s \in SUBSET U |->
             IF s = {} THEN 0 ELSE f[First(s)] + h[s \ {First(s)}]]
  BY <1>8
<1> QED
  BY <1>9 DEF SumsBy

LEMMA SumsAreNumbers ==
  ASSUME NEW U, IsFiniteSet(U), NEW f \in [U -> Nat], NEW h, SumsBy(f, U, h)
  PROVE  h \in [SUBSET U -> Nat]
<1> DEFINE C == {s \in SUBSET U : h[s] \in Nat}
<1>1. ASSUME NEW s \in SUBSET U, \A x \in s : s \ {x} \in C
      PROVE  s \in C
  <2>1. CASE s = {}
    BY <2>1 DEF SumsBy
  <2>2. CASE s # {}
    <3> DEFINE x == CHOOSE x \in s : TRUE
    <3>1. x \in s
      BY <2>2
    <3>2. h[s] = f[x] + h[s \ {x}]
      BY <2>2 DEF SumsBy
    <3>3. h[s \ {x}] \in Nat
      BY <1>1, <3>1
    <3> HIDE DEF x
    <3> QED
      BY <3>1, <3>2, <3>3
  <2> QED
    BY <2>1, <2>2
<1>2. C = SUBSET U
  <2> HIDE DEF C
  <2>1. C \in SUBSET (SUBSET U)
    BY DEF C
  <2> QED
    BY <1>1, <2>1, SetInduction
<1> QED
  BY <1>2 DEF SumsBy

LEMMA SumIsTaken ==
  ASSUME NEW U, IsFiniteSet(U), NEW f \in [U -> Nat]
  PROVE  \E h \in [SUBSET U -> Nat] : SumsBy(f, U, h) /\ SumFunction(f) = h[U]
<1> DEFINE g == CHOOSE h : SumsBy(f, U, h)
<1>1. SumsBy(f, U, g)
  BY SumsExist
<1>2. SumFunction(f) = g[U]
  BY DEF SumFunction, SumFunctionOnSet, FoldFunctionOnSet, MapThenFoldSet, SumsBy
<1> QED
  BY <1>1, <1>2, SumsAreNumbers

\* The order in which the fold takes the elements does not matter.
TakesAny(f, U, h) == \A s \in SUBSET U : \A y \in s : h[s] = f[y] + h[s \ {y}]

LEMMA SumsTakeAny ==
  ASSUME NEW U, IsFiniteSet(U), NEW f \in [U -> Nat], NEW h, SumsBy(f, U, h)
  PROVE  TakesAny(f, U, h)
<1> DEFINE C == {t \in SUBSET U : \A z \in t : h[t] = f[z] + h[t \ {z}]}
<1>1. h \in [SUBSET U -> Nat]
  BY SumsAreNumbers
<1>2. ASSUME NEW t \in SUBSET U, \A x \in t : t \ {x} \in C
      PROVE  t \in C
  <2> SUFFICES ASSUME NEW z \in t PROVE h[t] = f[z] + h[t \ {z}]
    OBVIOUS
  <2> DEFINE x == CHOOSE x \in t : TRUE
  <2>1. x \in t
    OBVIOUS
  <2>2. h[t] = f[x] + h[t \ {x}]
    BY DEF SumsBy
  <2>0. \A a \in t : h[t \ {a}] \in Nat /\ f[a] \in Nat
    BY <1>1
  <2> HIDE DEF x
  <2>3. CASE z = x
    BY <2>2, <2>3
  <2>4. CASE z # x
    <3>1. z \in t \ {x} /\ x \in t \ {z}
      BY <2>1, <2>4
    <3>2. h[t \ {x}] = f[z] + h[(t \ {x}) \ {z}]
      BY <1>2, <2>1, <3>1
    <3>3. h[t \ {z}] = f[x] + h[(t \ {z}) \ {x}]
      BY <1>2, <2>1, <3>1
    <3>4. (t \ {x}) \ {z} = (t \ {z}) \ {x}
      OBVIOUS
    <3>5. f[x] \in Nat /\ f[z] \in Nat /\ h[(t \ {x}) \ {z}] \in Nat
      <4>1. (t \ {x}) \ {z} \in SUBSET U
        OBVIOUS
      <4> QED
        BY <1>1, <2>0, <2>1, <4>1
    <3>6. \A a, b, r, u, v, w \in Nat : u = a + v /\ v = b + r /\ w = a + r => u = b + w
      OBVIOUS
    <3>7. h[t] \in Nat /\ h[t \ {x}] \in Nat /\ h[t \ {z}] \in Nat
      BY <1>1, <2>0, <2>1
    <3>8. h[t \ {z}] = f[x] + h[(t \ {x}) \ {z}]
      BY <3>3, <3>4
    <3> QED
      BY <2>2, <3>2, <3>5, <3>6, <3>7, <3>8
  <2> QED
    BY <2>3, <2>4
<1>3. C = SUBSET U
  <2> HIDE DEF C
  <2>1. C \in SUBSET (SUBSET U)
    BY DEF C
  <2> QED
    BY <1>2, <2>1, SetInduction
<1> QED
  BY <1>3 DEF TakesAny

\* Nor does what else f is defined on.
LEMMA SumsAgree ==
  ASSUME NEW U, IsFiniteSet(U), NEW f \in [U -> Nat], NEW h, SumsBy(f, U, h),
         NEW V \in SUBSET U, NEW g \in [V -> Nat], NEW k, SumsBy(g, V, k),
         \A x \in V : g[x] = f[x]
  PROVE  h[V] = k[V]
<1>1. IsFiniteSet(V)
  BY FS_Subset
<1>5. TakesAny(g, V, k) /\ TakesAny(f, U, h)
  BY <1>1, SumsTakeAny
<1> DEFINE C == {s \in SUBSET V : h[s] = k[s]}
<1>2. ASSUME NEW s \in SUBSET V, \A x \in s : s \ {x} \in C
      PROVE  s \in C
  <2>1. CASE s = {}
    BY <2>1 DEF SumsBy
  <2>2. CASE s # {}
    <3>1. PICK x \in s : TRUE
      BY <2>2
    <3>2. h[s] = f[x] + h[s \ {x}]
      BY <1>5, <3>1 DEF TakesAny
    <3>3. k[s] = g[x] + k[s \ {x}]
      BY <1>5, <3>1 DEF TakesAny
    <3>4. h[s \ {x}] = k[s \ {x}]
      BY <1>2
    <3> QED
      BY <3>2, <3>3, <3>4
  <2> QED
    BY <2>1, <2>2
<1>3. C = SUBSET V
  <2> HIDE DEF C
  <2>1. C \in SUBSET (SUBSET V)
    BY DEF C
  <2> QED
    BY <1>1, <1>2, <2>1, SetInduction
<1>4. V \in C
  BY <1>3
<1> QED
  BY <1>4

LEMMA SumIsNumber ==
  ASSUME NEW U, IsFiniteSet(U), NEW f \in [U -> Nat]
  PROVE  SumFunction(f) \in Nat
<1>1. PICK h \in [SUBSET U -> Nat] : SumFunction(f) = h[U]
  BY SumIsTaken
<1> QED
  BY <1>1

LEMMA SumOfNothing ==
  ASSUME NEW f \in [{} -> Nat]
  PROVE  SumFunction(f) = 0
<1>1. PICK h : SumsBy(f, {}, h) /\ SumFunction(f) = h[{}]
  BY SumIsTaken, FS_EmptySet
<1> QED
  BY <1>1 DEF SumsBy

LEMMA SumOfZeros ==
  ASSUME NEW U, IsFiniteSet(U), NEW f \in [U -> Nat], \A x \in U : f[x] = 0
  PROVE  SumFunction(f) = 0
<1>1. PICK h \in [SUBSET U -> Nat] : SumsBy(f, U, h) /\ SumFunction(f) = h[U]
  BY SumIsTaken
<1>2. TakesAny(f, U, h)
  BY <1>1, SumsTakeAny
<1> DEFINE C == {s \in SUBSET U : h[s] = 0}
<1>3. ASSUME NEW s \in SUBSET U, \A x \in s : s \ {x} \in C PROVE s \in C
  <2>1. CASE s = {}
    BY <1>1, <2>1 DEF SumsBy
  <2>2. CASE s # {}
    <3>1. PICK x \in s : TRUE
      BY <2>2
    <3>2. h[s] = f[x] + h[s \ {x}]
      BY <1>2, <3>1 DEF TakesAny
    <3>3. f[x] = 0 /\ h[s \ {x}] = 0
      BY <1>3, <3>1
    <3> QED
      BY <3>2, <3>3
  <2> QED
    BY <2>1, <2>2
<1>4. C = SUBSET U
  <2> HIDE DEF C
  <2>1. C \in SUBSET (SUBSET U)
    BY DEF C
  <2> QED
    BY <1>3, <2>1, SetInduction
<1>5. U \in C
  BY <1>4
<1> QED
  BY <1>1, <1>5

\* A sum is one of its terms and the sum of the others.
LEMMA SumSplits ==
  ASSUME NEW U, IsFiniteSet(U), NEW f \in [U -> Nat], NEW y \in U
  PROVE  SumFunction(f) = f[y] + SumFunction(Restrict(f, U \ {y}))
<1> DEFINE V == U \ {y}
           g == Restrict(f, V)
<1>1. g \in [V -> Nat] /\ \A x \in V : g[x] = f[x]
  BY DEF Restrict
<1>2. IsFiniteSet(V)
  BY FS_RemoveElement
<1>3. PICK h \in [SUBSET U -> Nat] : SumsBy(f, U, h) /\ SumFunction(f) = h[U]
  BY SumIsTaken
<1> HIDE DEF g
<1>4. PICK k \in [SUBSET V -> Nat] : SumsBy(g, V, k) /\ SumFunction(g) = k[V]
  BY <1>1, <1>2, SumIsTaken
<1>5. h[V] = k[V]
  BY <1>1, <1>3, <1>4, SumsAgree
<1>6. h[U] = f[y] + h[U \ {y}]
  BY <1>3, SumsTakeAny DEF TakesAny
<1> QED
  BY <1>3, <1>4, <1>5, <1>6 DEF g

\* One term more.
LEMMA SumGrows ==
  ASSUME NEW U, IsFiniteSet(U), NEW f \in [U -> Nat], NEW x, x \notin U,
         NEW g \in [U \cup {x} -> Nat], \A y \in U : g[y] = f[y]
  PROVE  SumFunction(g) = SumFunction(f) + g[x]
<1>1. IsFiniteSet(U \cup {x})
  BY FS_AddElement
<1>2. SumFunction(g) = g[x] + SumFunction(Restrict(g, (U \cup {x}) \ {x}))
  BY <1>1, SumSplits
<1>3. Restrict(g, (U \cup {x}) \ {x}) = f
  BY DEF Restrict
<1>4. SumFunction(f) \in Nat /\ g[x] \in Nat
  BY SumIsNumber
<1> QED
  BY <1>2, <1>3, <1>4

\* The last term of a sum along a sequence.
LEMMA LastTerm ==
  ASSUME NEW n \in Nat, NEW f, f \in [1 .. n -> Nat], NEW g, g \in [1 .. n + 1 -> Nat],
         \A i \in 1 .. n : g[i] = f[i]
  PROVE  SumFunction(g) = SumFunction(f) + g[n + 1]
<1>1. IsFiniteSet(1 .. n)
  <2>1. 1 \in Int /\ n \in Int
    OBVIOUS
  <2> QED
    BY <2>1, FS_Interval
<1>2. ASSUME NEW x, NEW U, x = n + 1, U = 1 .. n PROVE SumFunction(g) = SumFunction(f) + g[x]
  <2>1. IsFiniteSet(U)
    BY <1>1, <1>2
  <2>2. x \notin U
    BY <1>2
  <2>3. U \cup {x} = 1 .. n + 1
    BY <1>2
  <2>4. f \in [U -> Nat]
    BY <1>2
  <2>5. g \in [U \cup {x} -> Nat]
    BY <2>3
  <2>6. \A y \in U : g[y] = f[y]
    BY <1>2
  <2> QED
    BY ONLY <2>1, <2>2, <2>4, <2>5, <2>6, SumGrows
<1> QED
  BY <1>2

\* Taking terms away makes no sum longer.
LEMMA SumIsMonotone ==
  ASSUME NEW U, IsFiniteSet(U), NEW f \in [U -> Nat], NEW V \in SUBSET U
  PROVE  SumFunction(Restrict(f, V)) <= SumFunction(f)
<1>1. PICK h \in [SUBSET U -> Nat] : SumsBy(f, U, h) /\ SumFunction(f) = h[U]
  BY SumIsTaken
<1> DEFINE g == Restrict(f, V)
           C == {s \in SUBSET U : V \subseteq s => h[V] <= h[s]}
<1>2. g \in [V -> Nat] /\ \A x \in V : g[x] = f[x]
  BY DEF Restrict
<1>3. ASSUME NEW s \in SUBSET U, \A x \in s : s \ {x} \in C
      PROVE  s \in C
  <2> SUFFICES ASSUME V \subseteq s PROVE h[V] <= h[s]
    OBVIOUS
  <2>1. CASE s = V
    BY <1>1, <2>1
  <2>2. CASE s # V
    <3>1. PICK x \in s : x \notin V
      BY <2>2
    <3>2. h[s] = f[x] + h[s \ {x}]
      BY <1>1, <3>1, SumsTakeAny DEF TakesAny
    <3>3. h[V] <= h[s \ {x}]
      BY <1>3, <3>1
    <3>4. f[x] \in Nat /\ h[V] \in Nat /\ h[s \ {x}] \in Nat
      BY <1>1, <3>1
    <3> QED
      BY <3>2, <3>3, <3>4
  <2> QED
    BY <2>1, <2>2
<1>4. C = SUBSET U
  <2> HIDE DEF C
  <2>1. C \in SUBSET (SUBSET U)
    BY DEF C
  <2> QED
    BY <1>3, <2>1, SetInduction
<1>5. h[V] <= h[U]
  <2>1. U \in C
    BY <1>4
  <2> QED
    BY <2>1
<1> HIDE DEF g
<1>6. IsFiniteSet(V)
  BY FS_Subset
<1>7. PICK k \in [SUBSET V -> Nat] : SumsBy(g, V, k) /\ SumFunction(g) = k[V]
  BY <1>2, <1>6, SumIsTaken
<1>8. h[V] = k[V]
  BY <1>1, <1>2, <1>7, SumsAgree
<1> QED
  BY <1>1, <1>5, <1>7, <1>8 DEF g

\* A sum does not depend on what its terms are named.
LEMMA SumIsRenamed ==
  ASSUME NEW U, IsFiniteSet(U), NEW f \in [U -> Nat],
         NEW V, IsFiniteSet(V), NEW g \in [V -> Nat], NEW s \in [U -> V],
         \A y \in V : \E x \in U : y = s[x],
         \A x, y \in U : s[x] = s[y] => x = y,
         \A x \in U : g[s[x]] = f[x]
  PROVE  SumFunction(f) = SumFunction(g)
<1>1. PICK h \in [SUBSET U -> Nat] : SumsBy(f, U, h) /\ SumFunction(f) = h[U]
  BY SumIsTaken
<1>2. PICK k \in [SUBSET V -> Nat] : SumsBy(g, V, k) /\ SumFunction(g) = k[V]
  BY SumIsTaken
<1>3. TakesAny(f, U, h) /\ TakesAny(g, V, k)
  BY <1>1, <1>2, SumsTakeAny
<1> DEFINE img(t) == {s[x] : x \in t}
           C == {t \in SUBSET U : h[t] = k[img(t)]}
<1>4. ASSUME NEW t \in SUBSET U, \A x \in t : t \ {x} \in C
      PROVE  t \in C
  <2>1. CASE t = {}
    BY <1>1, <1>2, <2>1 DEF SumsBy
  <2>2. CASE t # {}
    <3>1. PICK x \in t : TRUE
      BY <2>2
    <3>2. h[t] = f[x] + h[t \ {x}]
      BY <1>3, <3>1 DEF TakesAny
    <3>3. img(t) \in SUBSET V /\ s[x] \in img(t)
      BY <3>1
    <3>4. k[img(t)] = g[s[x]] + k[img(t) \ {s[x]}]
      <4> HIDE DEF img
      <4> QED
        BY <1>3, <3>3 DEF TakesAny
    <3>5. img(t) \ {s[x]} = img(t \ {x})
      BY <3>1
    <3>6. h[t \ {x}] = k[img(t \ {x})]
      BY <1>4, <3>1
    <3> QED
      BY <3>1, <3>2, <3>4, <3>5, <3>6
  <2> QED
    BY <2>1, <2>2
<1>5. C = SUBSET U
  <2> HIDE DEF C
  <2>1. C \in SUBSET (SUBSET U)
    BY DEF C
  <2> QED
    BY <1>4, <2>1, SetInduction
<1>6. U \in C
  BY <1>5
<1>7. img(U) = V
  OBVIOUS
<1> QED
  BY <1>1, <1>2, <1>6, <1>7

--------------------------------------------------------------------------------
(* Recursion along the natural numbers: a fold over a sequence, given as   *)
(* the function it takes at each place.                                    *)

Follows(f, n, A, base, step) ==
  f[0] = base /\ \A i \in 1 .. n : f[i - 1] \in A => f[i] = step[i][f[i - 1]]

LEMMA RunsAgree ==
  ASSUME NEW A, NEW n \in Nat, NEW base \in A, NEW step \in [1 .. n -> [A -> A]],
         NEW f, Follows(f, n, A, base, step), NEW g, Follows(g, n, A, base, step)
  PROVE  \A i \in 0 .. n : f[i] = g[i] /\ f[i] \in A
<1> DEFINE S == {i \in Nat : i <= n => f[i] = g[i] /\ f[i] \in A}
<1>1. 0 \in S
  BY DEF Follows
<1>2. ASSUME NEW i \in S PROVE i + 1 \in S
  <2> SUFFICES ASSUME i + 1 <= n PROVE f[i + 1] = g[i + 1] /\ f[i + 1] \in A
    OBVIOUS
  <2>1. i + 1 \in 1 .. n /\ (i + 1) - 1 = i /\ i <= n
    OBVIOUS
  <2>2. f[i] = g[i] /\ f[i] \in A
    BY <2>1
  <2>3. f[i + 1] = step[i + 1][f[i]] /\ g[i + 1] = step[i + 1][g[i]]
    BY <2>1, <2>2 DEF Follows
  <2>4. step[i + 1] \in [A -> A]
    BY <2>1
  <2> QED
    BY <2>2, <2>3, <2>4
<1>3. S = Nat
  <2> HIDE DEF S
  <2>1. S \in SUBSET Nat
    BY DEF S
  <2> QED
    BY <1>1, <1>2, <2>1, Induction
<1> QED
  BY <1>3

LEMMA RunExists ==
  ASSUME NEW A, NEW n \in Nat, NEW base \in A, NEW step \in [1 .. n -> [A -> A]]
  PROVE  \E f \in [0 .. n -> A] : Follows(f, n, A, base, step)
<1> DEFINE Reached(m) == \E f \in [0 .. m -> A] :
                          f[0] = base /\ \A i \in 1 .. m : f[i] = step[i][f[i - 1]]
           S == {m \in Nat : m <= n => Reached(m)}
<1>1. 0 \in S
  <2> DEFINE h == [i \in 0 .. 0 |-> base]
  <2>1. h \in [0 .. 0 -> A] /\ h[0] = base /\ \A i \in 1 .. 0 : h[i] = step[i][h[i - 1]]
    OBVIOUS
  <2> HIDE DEF h
  <2>2. Reached(0)
    BY <2>1
  <2> HIDE DEF Reached
  <2> QED
    BY <2>2
<1>2. ASSUME NEW m \in S PROVE m + 1 \in S
  <2> HIDE DEF Reached
  <2> SUFFICES ASSUME m + 1 <= n PROVE Reached(m + 1)
    OBVIOUS
  <2>0. Reached(m)
    OBVIOUS
  <2>1. PICK f \in [0 .. m -> A] :
          f[0] = base /\ \A i \in 1 .. m : f[i] = step[i][f[i - 1]]
    BY <2>0 DEF Reached
  <2> DEFINE last == step[m + 1][f[m]]
             g == [i \in 0 .. m + 1 |-> IF i = m + 1 THEN last ELSE f[i]]
  <2>2. m \in 0 .. m /\ m + 1 \in 1 .. n
    OBVIOUS
  <2>3. last \in A
    <3>1. step[m + 1] \in [A -> A] /\ f[m] \in A
      BY <2>1, <2>2
    <3> QED
      BY <3>1
  <2>4. g \in [0 .. m + 1 -> A]
    <3>1. \A i \in 0 .. m + 1 : i # m + 1 => i \in 0 .. m
      OBVIOUS
    <3> HIDE DEF last
    <3> QED
      BY <2>1, <2>3, <3>1
  <2>5. g[0] = base
    BY <2>1
  <2>6. ASSUME NEW i \in 1 .. m + 1 PROVE g[i] = step[i][g[i - 1]]
    <3>1. CASE i = m + 1
      BY <3>1
    <3>2. CASE i # m + 1
      <4>1. i \in 1 .. m /\ i \in 0 .. m + 1 /\ i - 1 \in 0 .. m + 1 /\ i - 1 # m + 1
        BY <3>2
      <4> QED
        BY <2>1, <3>2, <4>1
    <3> QED
      BY <3>1, <3>2
  <2> HIDE DEF g
  <2> QED
    BY <2>4, <2>5, <2>6 DEF Reached
<1>3. S = Nat
  <2> HIDE DEF S
  <2>1. S \in SUBSET Nat
    BY DEF S
  <2> QED
    BY <1>1, <1>2, <2>1, Induction
<1>4. PICK f \in [0 .. n -> A] :
        f[0] = base /\ \A i \in 1 .. n : f[i] = step[i][f[i - 1]]
  <2>1. n \in S
    BY <1>3
  <2> QED
    BY <2>1
<1> QED
  BY <1>4 DEF Follows

\* A longer run goes on from where the shorter one ended.
LEMMA RunGrows ==
  ASSUME NEW A, NEW n \in Nat, NEW base \in A, NEW s \in [1 .. n -> [A -> A]],
         NEW f, Follows(f, n, A, base, s),
         NEW t, \A i \in 1 .. n : t[i] = s[i],
         NEW g, Follows(g, n + 1, A, base, t)
  PROVE  f[n] \in A /\ g[n + 1] = t[n + 1][f[n]]
<1>1. \A i \in 1 .. n : i \in 1 .. n + 1
  OBVIOUS
<1>2. Follows(g, n, A, base, s)
  BY <1>1 DEF Follows
<1>3. n \in 0 .. n /\ n + 1 \in 1 .. n + 1 /\ (n + 1) - 1 = n
  OBVIOUS
<1>4. f[n] = g[n] /\ f[n] \in A
  BY <1>2, <1>3, RunsAgree
<1>5. g[n] \in A => g[n + 1] = t[n + 1][g[n]]
  BY <1>3 DEF Follows
<1> QED
  BY <1>4, <1>5

--------------------------------------------------------------------------------
(* Logs, and what of them is of some kinds.                                *)

\* A set that holds the empty sequence, and every sequence one longer than one it holds.
LEMMA SequenceInduction ==
  ASSUME NEW S, NEW C \in SUBSET Seq(S), <<>> \in C,
         \A s \in C : \A e \in S : Append(s, e) \in C
  PROVE  C = Seq(S)
<1> DEFINE N == {n \in Nat : \A s \in Seq(S) : Len(s) = n => s \in C}
<1>1. 0 \in N
  <2>1. \A s \in Seq(S) : Len(s) = 0 => s = <<>>
    BY EmptySeq
  <2> QED
    BY <2>1
<1>2. ASSUME NEW n \in N PROVE n + 1 \in N
  <2> SUFFICES ASSUME NEW s \in Seq(S), Len(s) = n + 1 PROVE s \in C
    OBVIOUS
  <2>1. s # <<>> /\ n \in Nat
    BY EmptySeq
  <2>2. PICK front \in Seq(S), last \in S : s = Append(front, last)
    BY <2>1, SequenceEmptyOrAppend
  <2>3. Len(front) = n
    BY <2>1, <2>2, AppendProperties, LenProperties
  <2> QED
    BY <2>2, <2>3
<1>3. N = Nat
  <2> HIDE DEF N
  <2>1. N \in SUBSET Nat
    BY DEF N
  <2> QED
    BY <1>1, <1>2, <2>1, Induction
<1>4. \A s \in Seq(S) : s \in C
  <2> SUFFICES ASSUME NEW s \in Seq(S) PROVE s \in C
    OBVIOUS
  <2>1. Len(s) \in N
    BY <1>3, LenProperties
  <2> QED
    BY <2>1
<1> QED
  BY <1>4

(* What of a sequence is in a set, and of a longer one.                    *)

Picking(log, set, A) ==
  [i \in 1 .. Len(log) |->
     [a \in A |-> IF log[i] \in set THEN Append(a, log[i]) ELSE a]]

LEMMA OnlyInFollows ==
  ASSUME NEW S, NEW log \in Seq(S), NEW set
  PROVE  \E f \in [0 .. Len(log) -> Seq(S \cap set)] :
           /\ Follows(f, Len(log), Seq(S \cap set), <<>>,
                      Picking(log, set, Seq(S \cap set)))
           /\ OnlyIn(log, set) = f[Len(log)]
<1> DEFINE A == Seq(S \cap set)
           n == Len(log)
           step == Picking(log, set, A)
           Run(f) == f = [i \in 0 .. n |->
                            IF i = 0 THEN <<>>
                            ELSE IF log[i] \in set THEN Append(f[i - 1], log[i])
                            ELSE f[i - 1]]
           g == CHOOSE f : Run(f)
<1>1. n \in Nat /\ DOMAIN log = 1 .. n /\ \A i \in 1 .. n : log[i] \in S
  OBVIOUS
<1>2. step \in [1 .. n -> [A -> A]] /\ <<>> \in A
  <2>1. ASSUME NEW i \in 1 .. n, NEW a \in A
        PROVE  (IF log[i] \in set THEN Append(a, log[i]) ELSE a) \in A
    <3>1. log[i] \in set => log[i] \in (S \cap set)
      BY <1>1
    <3> QED
      BY <3>1, AppendProperties
  <2> QED
    BY <1>1, <2>1, EmptySeq DEF Picking
<1>3. PICK h \in [0 .. n -> A] : Follows(h, n, A, <<>>, step)
  <2> HIDE DEF n, step
  <2> QED
    BY <1>1, <1>2, RunExists
<1>4. \A i \in 1 .. n : i - 1 \in 0 .. n /\ i \in 0 .. n /\ i # 0
  BY <1>1
<1>5. \A i \in 1 .. n : \A a \in A :
        step[i][a] = IF log[i] \in set THEN Append(a, log[i]) ELSE a
  BY DEF Picking
<1>6. Run(h)
  <2>1. ASSUME NEW i \in 0 .. n
        PROVE  h[i] = IF i = 0 THEN <<>>
                      ELSE IF log[i] \in set THEN Append(h[i - 1], log[i])
                      ELSE h[i - 1]
    <3>1. CASE i = 0
      BY <1>3, <3>1 DEF Follows
    <3>2. CASE i # 0
      <4>1. i \in 1 .. n /\ h[i - 1] \in A
        BY <1>1, <1>3, <3>2
      <4>2. h[i] = step[i][h[i - 1]]
        BY <1>3, <4>1 DEF Follows
      <4> HIDE DEF step
      <4> QED
        BY <1>5, <3>2, <4>1, <4>2
    <3> QED
      BY <3>1, <3>2
  <2> QED
    BY <1>3, <2>1
<1>7. Run(g)
  BY <1>6
<1>8. Follows(g, n, A, <<>>, step)
  <2>1. g[0] = <<>>
    <3>1. 0 \in 0 .. n
      BY <1>1
    <3> HIDE DEF g
    <3> QED
      BY <1>7, <3>1
  <2>2. ASSUME NEW i \in 1 .. n, g[i - 1] \in A
        PROVE  g[i] = step[i][g[i - 1]]
    <3>1. g[i] = IF log[i] \in set THEN Append(g[i - 1], log[i]) ELSE g[i - 1]
      BY <1>4, <1>7
    <3> HIDE DEF step, g
    <3> QED
      BY <1>5, <2>2, <3>1
  <2> HIDE DEF g
  <2> QED
    BY <2>1, <2>2 DEF Follows
<1>9. OnlyIn(log, set) = g[n]
  BY DEF OnlyIn
<1>10. g[n] = h[n]
  <2>1. n \in 0 .. n
    BY <1>1
  <2> HIDE DEF n, step, g, A
  <2> QED
    BY <1>1, <1>2, <1>3, <1>8, <2>1, RunsAgree
<1> QED
  BY <1>3, <1>9, <1>10

LEMMA OnlyInType ==
  ASSUME NEW S, NEW log \in Seq(S), NEW set
  PROVE  OnlyIn(log, set) \in Seq(S \cap set)
<1>1. PICK f \in [0 .. Len(log) -> Seq(S \cap set)] : OnlyIn(log, set) = f[Len(log)]
  BY OnlyInFollows
<1>2. Len(log) \in 0 .. Len(log)
  OBVIOUS
<1> QED
  BY <1>1, <1>2

LEMMA OnlyInNothing ==
  ASSUME NEW set
  PROVE  OnlyIn(<<>>, set) = <<>>
<1>1. PICK S, s : S = {} /\ s = <<>>
  OBVIOUS
<1>2. s \in Seq(S) /\ Len(s) = 0
  BY <1>1
<1>3. PICK f : /\ Follows(f, Len(s), Seq(S \cap set), <<>>, Picking(s, set, Seq(S \cap set)))
               /\ OnlyIn(s, set) = f[Len(s)]
  BY ONLY <1>2, OnlyInFollows
<1> QED
  BY <1>1, <1>2, <1>3 DEF Follows

\* A longer sequence adds its last element, if it is in the set.
LEMMA OnlyInGrows ==
  ASSUME NEW S, NEW log \in Seq(S), NEW e \in S, NEW set
  PROVE  OnlyIn(Append(log, e), set) =
           IF e \in set THEN Append(OnlyIn(log, set), e) ELSE OnlyIn(log, set)
<1> DEFINE A == Seq(S \cap set)
           n == Len(log)
           more == Append(log, e)
           s == Picking(log, set, A)
           t == Picking(more, set, A)
<1>1. /\ more \in Seq(S) /\ Len(more) = n + 1 /\ n \in Nat
      /\ more[n + 1] = e /\ \A i \in 1 .. n : more[i] = log[i]
  BY AppendProperties
<1>2. PICK f \in [0 .. n -> A] :
        Follows(f, n, A, <<>>, s) /\ OnlyIn(log, set) = f[n]
  BY OnlyInFollows
<1>3. PICK g : Follows(g, n + 1, A, <<>>, t) /\ OnlyIn(more, set) = g[n + 1]
  <2>1. \E g \in [0 .. Len(more) -> A] :
          Follows(g, Len(more), A, <<>>, t) /\ OnlyIn(more, set) = g[Len(more)]
    <3> HIDE DEF more
    <3> QED
      BY <1>1, OnlyInFollows
  <2> HIDE DEF A, t, more
  <2> QED
    BY <1>1, <2>1
<1>4. \A i \in 1 .. n : t[i] = s[i]
  BY <1>1 DEF Picking
<1>5. s \in [1 .. n -> [A -> A]] /\ <<>> \in A
  <2>1. ASSUME NEW i \in 1 .. n, NEW a \in A
        PROVE  (IF log[i] \in set THEN Append(a, log[i]) ELSE a) \in A
    <3>1. log[i] \in set => log[i] \in (S \cap set)
      OBVIOUS
    <3> QED
      BY <3>1, AppendProperties
  <2> QED
    BY <2>1, EmptySeq DEF Picking
<1>6. f[n] \in A /\ g[n + 1] = t[n + 1][f[n]]
  <2> HIDE DEF n, s, t, A
  <2> QED
    BY <1>1, <1>2, <1>3, <1>4, <1>5, RunGrows
<1>7. \A a \in A : t[n + 1][a] = IF e \in set THEN Append(a, e) ELSE a
  BY <1>1 DEF Picking
<1> HIDE DEF t, more, A
<1> QED
  BY <1>2, <1>3, <1>6, <1>7 DEF more

\* What is in a set of a sequence of two parts is what is in the one and then the other.
LEMMA OnlyInSplits ==
  ASSUME NEW S, NEW a \in Seq(S), NEW b \in Seq(S), NEW set
  PROVE  OnlyIn(a \o b, set) = OnlyIn(a, set) \o OnlyIn(b, set)
<1> DEFINE Splits(s) == OnlyIn(a \o s, set) = OnlyIn(a, set) \o OnlyIn(s, set)
           C == {s \in Seq(S) : Splits(s)}
           T == S \cap set
<1>1. <<>> \in C
  <2>1. a \o <<>> = a /\ <<>> \in Seq(S)
    OBVIOUS
  <2>2. OnlyIn(a, set) \in Seq(T)
    BY OnlyInType
  <2>3. OnlyIn(a, set) \o <<>> = OnlyIn(a, set)
    BY ONLY <2>2, ConcatEmptySeq
  <2> QED
    BY <2>1, <2>3, OnlyInNothing
<1>2. ASSUME NEW s \in C, NEW e \in S PROVE Append(s, e) \in C
  <2>1. s \in Seq(S) /\ a \o s \in Seq(S) /\ Append(s, e) \in Seq(S)
    OBVIOUS
  <2>2. a \o Append(s, e) = Append(a \o s, e)
    BY <2>1
  <2>3. OnlyIn(Append(a \o s, e), set) =
          IF e \in set THEN Append(OnlyIn(a \o s, set), e) ELSE OnlyIn(a \o s, set)
    <3> DEFINE log == a \o s
    <3>1. log \in Seq(S)
      BY <2>1
    <3> HIDE DEF log
    <3>2. OnlyIn(Append(log, e), set) =
            IF e \in set THEN Append(OnlyIn(log, set), e) ELSE OnlyIn(log, set)
      BY <3>1, OnlyInGrows
    <3> QED
      BY <3>2 DEF log
  <2>4. OnlyIn(Append(s, e), set) =
          IF e \in set THEN Append(OnlyIn(s, set), e) ELSE OnlyIn(s, set)
    BY <2>1, OnlyInGrows
  <2>5. OnlyIn(a, set) \in Seq(T) /\ OnlyIn(s, set) \in Seq(T)
    BY <2>1, OnlyInType
  <2>6. e \in set => e \in T
    OBVIOUS
  <2>7. \A x, y \in Seq(T) : \A z \in T : Append(x \o y, z) = x \o Append(y, z)
    OBVIOUS
  <2>8. OnlyIn(a \o s, set) = OnlyIn(a, set) \o OnlyIn(s, set)
    OBVIOUS
  <2> DEFINE x == OnlyIn(a, set)
             y == OnlyIn(s, set)
  <2>10. e \in set => Append(x \o y, e) = x \o Append(y, e)
    <3> HIDE DEF x, y, T
    <3> QED
      BY <2>5, <2>6, <2>7 DEF x, y
  <2>9. Splits(Append(s, e))
    <3>1. CASE e \in set
      BY <2>2, <2>3, <2>4, <2>8, <2>10, <3>1
    <3>2. CASE e \notin set
      BY <2>2, <2>3, <2>4, <2>8, <3>2
    <3> QED
      BY <3>1, <3>2
  <2> HIDE DEF Splits
  <2> QED
    BY <2>1, <2>9
<1>3. C = Seq(S)
  <2> HIDE DEF C
  <2>1. C \in SUBSET Seq(S)
    BY DEF C
  <2> QED
    BY <1>1, <1>2, <2>1, SequenceInduction
<1> QED
  BY <1>3

\* A sequence that is all in the set is kept whole.
LEMMA OnlyInKeeps ==
  ASSUME NEW S, NEW set, NEW m \in Seq(S \cap set)
  PROVE  OnlyIn(m, set) = m
<1> DEFINE T == S \cap set
           C == {s \in Seq(T) : OnlyIn(s, set) = s}
<1>1. <<>> \in C
  BY EmptySeq, OnlyInNothing
<1>2. ASSUME NEW s \in C, NEW e \in T PROVE Append(s, e) \in C
  <2>1. s \in Seq(T) /\ Append(s, e) \in Seq(T)
    OBVIOUS
  <2>2. e \in set
    OBVIOUS
  <2> HIDE DEF T
  <2>3. OnlyIn(Append(s, e), set) = Append(OnlyIn(s, set), e)
    BY <2>1, <2>2, OnlyInGrows
  <2> QED
    BY <2>1, <2>3
<1>3. C = Seq(T)
  <2> HIDE DEF C, T
  <2>1. C \in SUBSET Seq(T)
    BY DEF C
  <2> QED
    BY <1>1, <1>2, <2>1, SequenceInduction
<1> QED
  BY <1>3

\* Filters by sets that tell the elements apart alike are one.
LEMMA OnlyInAgrees ==
  ASSUME NEW S, NEW log \in Seq(S), NEW P, NEW Q, \A e \in S : e \in P <=> e \in Q
  PROVE  OnlyIn(log, P) = OnlyIn(log, Q)
<1> DEFINE C == {s \in Seq(S) : OnlyIn(s, P) = OnlyIn(s, Q)}
<1>1. <<>> \in C
  BY EmptySeq, OnlyInNothing
<1>2. ASSUME NEW s \in C, NEW e \in S PROVE Append(s, e) \in C
  <2>1. s \in Seq(S) /\ Append(s, e) \in Seq(S) /\ OnlyIn(s, P) = OnlyIn(s, Q)
    OBVIOUS
  <2>2. /\ OnlyIn(Append(s, e), P) = IF e \in P THEN Append(OnlyIn(s, P), e) ELSE OnlyIn(s, P)
        /\ OnlyIn(Append(s, e), Q) = IF e \in Q THEN Append(OnlyIn(s, Q), e) ELSE OnlyIn(s, Q)
    BY <2>1, OnlyInGrows
  <2>3. OnlyIn(Append(s, e), P) = OnlyIn(Append(s, e), Q)
    <3>1. CASE e \in P
      BY <2>1, <2>2, <3>1, Zenon
    <3>2. CASE e \notin P
      BY <2>1, <2>2, <3>2, Zenon
    <3> QED
      BY <3>1, <3>2
  <2> QED
    BY <2>1, <2>3
<1>3. C = Seq(S)
  <2> HIDE DEF C
  <2>1. C \in SUBSET Seq(S)
    BY DEF C
  <2> QED
    BY <1>1, <1>2, <2>1, SequenceInduction
<1> QED
  BY <1>3

\* Nothing is left of what is outside.
LEMMA OnlyInLeaves ==
  ASSUME NEW set, NEW S, S \cap set = {}, NEW m \in Seq(S)
  PROVE  OnlyIn(m, set) = <<>>
<1>1. OnlyIn(m, set) \in Seq(S \cap set)
  BY OnlyInType
<1> QED
  BY <1>1

(* What is of some kinds, in a log and in the longer log.                  *)

OfSorts(S, kinds) == {e \in S : e.kind \in kinds}
Others(S, kinds) == {e \in S : e.kind \notin kinds}

LEMMA OfKindsIs ==
  ASSUME NEW S, NEW log \in Seq(S), NEW kinds
  PROVE  OfKinds(log, kinds) = OnlyIn(log, OfSorts(S, kinds))
<1> DEFINE R == Range(log)
<1>1. log \in Seq(R) /\ R \subseteq S
  BY SeqDef DEF Range
<1>2. \A e \in R : e \in {entry \in R : entry.kind \in kinds} <=> e \in OfSorts(S, kinds)
  BY <1>1 DEF OfSorts
<1> HIDE DEF R
<1>3. OnlyIn(log, {entry \in R : entry.kind \in kinds}) = OnlyIn(log, OfSorts(S, kinds))
  BY <1>1, <1>2, OnlyInAgrees
<1> QED
  BY <1>3 DEF OfKinds, R

LEMMA OfKindsType ==
  ASSUME NEW S, NEW log \in Seq(S), NEW kinds
  PROVE  OfKinds(log, kinds) \in Seq(OfSorts(S, kinds))
<1>1. S \cap OfSorts(S, kinds) = OfSorts(S, kinds)
  BY DEF OfSorts
<1>2. OnlyIn(log, OfSorts(S, kinds)) \in Seq(S \cap OfSorts(S, kinds))
  BY OnlyInType
<1> QED
  BY <1>1, <1>2, OfKindsIs

LEMMA OfKindsOfNothing ==
  ASSUME NEW kinds
  PROVE  OfKinds(<<>>, kinds) = <<>>
BY OnlyInNothing DEF OfKinds

\* A longer log adds its last entry, if it is of the kind.
LEMMA OfKindsGrows ==
  ASSUME NEW S, NEW log \in Seq(S), NEW e \in S, NEW kinds
  PROVE  OfKinds(Append(log, e), kinds) =
           IF e.kind \in kinds THEN Append(OfKinds(log, kinds), e) ELSE OfKinds(log, kinds)
<1> DEFINE T == OfSorts(S, kinds)
<1>1. Append(log, e) \in Seq(S) /\ (e \in T <=> e.kind \in kinds)
  BY DEF OfSorts
<1>2. /\ OfKinds(Append(log, e), kinds) = OnlyIn(Append(log, e), T)
      /\ OfKinds(log, kinds) = OnlyIn(log, T)
  BY <1>1, OfKindsIs
<1> HIDE DEF T
<1>3. OnlyIn(Append(log, e), T) = IF e \in T THEN Append(OnlyIn(log, T), e) ELSE OnlyIn(log, T)
  BY OnlyInGrows
<1> QED
  BY <1>1, <1>2, <1>3

\* What is of some kinds in a log of two parts is what is in the one and then the other.
LEMMA OfKindsSplits ==
  ASSUME NEW S, NEW a \in Seq(S), NEW b \in Seq(S), NEW kinds
  PROVE  OfKinds(a \o b, kinds) = OfKinds(a, kinds) \o OfKinds(b, kinds)
<1> DEFINE T == OfSorts(S, kinds)
<1>1. a \o b \in Seq(S)
  BY ConcatProperties
<1>2. /\ OfKinds(a \o b, kinds) = OnlyIn(a \o b, T)
      /\ OfKinds(a, kinds) = OnlyIn(a, T) /\ OfKinds(b, kinds) = OnlyIn(b, T)
  BY <1>1, OfKindsIs
<1> HIDE DEF T
<1>3. OnlyIn(a \o b, T) = OnlyIn(a, T) \o OnlyIn(b, T)
  BY OnlyInSplits
<1> QED
  BY <1>2, <1>3

\* A log that is all of the kinds is kept whole.
LEMMA OfKindsKeeps ==
  ASSUME NEW S, NEW kinds, NEW m \in Seq(OfSorts(S, kinds))
  PROVE  OfKinds(m, kinds) = m
<1> DEFINE T == OfSorts(S, kinds)
           U == OfSorts(T, kinds)
<1>1. U = T /\ T \cap T = T
  BY DEF OfSorts
<1>2. OfKinds(m, kinds) = OnlyIn(m, U)
  <2>1. m \in Seq(T)
    OBVIOUS
  <2> HIDE DEF T
  <2> QED
    BY <2>1, OfKindsIs
<1> HIDE DEF T, U
<1>3. OnlyIn(m, T) = m
  BY <1>1, OnlyInKeeps DEF T
<1> QED
  BY <1>1, <1>2, <1>3

LEMMA OfKindsSkips ==
  ASSUME NEW S, NEW log \in Seq(S), NEW kinds, NEW more \in Seq(Others(S, kinds))
  PROVE  OfKinds(log \o more, kinds) = OfKinds(log, kinds)
<1> DEFINE T == OfSorts(S, kinds)
           a == OfKinds(log, kinds)
<1>1. Others(S, kinds) \subseteq S /\ Others(S, kinds) \cap T = {} /\ more \in Seq(S)
  BY DEF OfSorts, Others
<1>2. OfKinds(more, kinds) = OnlyIn(more, T)
  BY <1>1, OfKindsIs
<1>3. OnlyIn(more, T) = <<>>
  <2> HIDE DEF T
  <2> QED
    BY <1>1, OnlyInLeaves
<1>4. OfKinds(log \o more, kinds) = a \o OfKinds(more, kinds)
  BY <1>1, OfKindsSplits
<1>5. a \in Seq(T)
  BY OfKindsType
<1> HIDE DEF a, T
<1>6. a \o <<>> = a
  BY <1>5, ConcatEmptySeq
<1> QED
  BY <1>2, <1>3, <1>4, <1>6 DEF a

\* A log that begins with entries of the kinds is not disturbed there.
LEMMA OfKindsBegins ==
  ASSUME NEW S, NEW log \in Seq(S), NEW kinds, NEW k \in 0 .. Len(log),
         \A i \in 1 .. k : log[i].kind \in kinds
  PROVE  /\ k <= Len(OfKinds(log, kinds))
         /\ \A i \in 1 .. k : OfKinds(log, kinds)[i] = log[i]
<1> DEFINE a == SubSeq(log, 1, k)
           b == SubSeq(log, k + 1, Len(log))
           T == OfSorts(S, kinds)
<1>1. log = a \o b /\ a \in Seq(S) /\ b \in Seq(S) /\ Len(a) = k
      /\ \A i \in 1 .. k : a[i] = log[i]
  <2>1. /\ 1 \in 1 .. Len(log) + 1 /\ k \in 1 - 1 .. Len(log)
        /\ Len(log) \in k .. Len(log) /\ Len(log) \in Nat
    BY LenProperties
  <2>2. a \o b = SubSeq(log, 1, Len(log))
    BY <2>1, ConcatAdjacentSubSeq
  <2>3. a \in Seq(S) /\ b \in Seq(S) /\ Len(a) = k /\ \A i \in 1 .. k : a[i] = log[i]
    OBVIOUS
  <2> QED
    BY <2>2, <2>3, SubSeqFull
<1>2. a \in Seq(T)
  <2>1. \A i \in 1 .. k : log[i] \in S
    OBVIOUS
  <2>2. \A i \in 1 .. Len(a) : a[i] \in T
    BY <1>1, <2>1 DEF OfSorts
  <2> HIDE DEF a, T
  <2> QED
    BY <1>1, <2>2, SeqDef
<1>3. OfKinds(a, kinds) = a
  <2> HIDE DEF a
  <2> QED
    BY <1>2, OfKindsKeeps
<1>4. OfKinds(b, kinds) \in Seq(T)
  <2> HIDE DEF b, a
  <2> QED
    BY <1>1, OfKindsType
<1>5. OfKinds(log, kinds) = a \o OfKinds(b, kinds)
  <2> HIDE DEF b, a
  <2>1. OfKinds(a \o b, kinds) = OfKinds(a, kinds) \o OfKinds(b, kinds)
    BY <1>1, OfKindsSplits
  <2> QED
    BY <1>1, <1>3, <2>1
<1> DEFINE c == OfKinds(b, kinds)
<1>7. c \in Seq(T)
  BY <1>4
<1> HIDE DEF a, b, T, c
<1>6. Len(a \o c) = k + Len(c) /\ Len(c) \in Nat /\ \A i \in 1 .. k : (a \o c)[i] = a[i]
  <2>1. k \in Nat /\ Len(a) = k
    BY <1>1
  <2>2. /\ Len(a \o c) = Len(a) + Len(c)
        /\ \A i \in 1 .. Len(a) + Len(c) :
             (a \o c)[i] = IF i <= Len(a) THEN a[i] ELSE c[i - Len(a)]
    BY ONLY <1>2, <1>7, ConcatProperties
  <2>3. Len(c) \in Nat
    BY <1>7, LenProperties
  <2> QED
    BY <2>1, <2>2, <2>3
<1> QED
  BY <1>1, <1>5, <1>6 DEF c

--------------------------------------------------------------------------------
(* The numbers of a set, in ascending order.                               *)

Rising(n, set) ==
  [i \in 1 .. n |-> [a \in Seq(Nat) |-> IF i \in set THEN Append(a, i) ELSE a]]

LEMMA RisingType ==
  ASSUME NEW n \in Nat, NEW set
  PROVE  Rising(n, set) \in [1 .. n -> [Seq(Nat) -> Seq(Nat)]] /\ <<>> \in Seq(Nat)
<1>1. ASSUME NEW i \in 1 .. n, NEW a \in Seq(Nat)
      PROVE  (IF i \in set THEN Append(a, i) ELSE a) \in Seq(Nat)
  BY AppendProperties
<1> QED
  BY <1>1, EmptySeq DEF Rising

LEMMA AscendingFollows ==
  ASSUME NEW n \in Nat, NEW set
  PROVE  \E f \in [0 .. n -> Seq(Nat)] :
           Follows(f, n, Seq(Nat), <<>>, Rising(n, set)) /\ Ascending(n, set) = f[n]
<1> DEFINE A == Seq(Nat)
           base == <<>>
           step == Rising(n, set)
           Run(f) == f = [i \in 0 .. n |-> IF i = 0 THEN base
                                           ELSE IF i \in set THEN Append(f[i - 1], i)
                                           ELSE f[i - 1]]
           g == CHOOSE f : Run(f)
<1>1. step \in [1 .. n -> [A -> A]] /\ base \in A
  BY RisingType
<1>2. \A i \in 1 .. n : \A a \in A : step[i][a] = IF i \in set THEN Append(a, i) ELSE a
  BY DEF Rising
<1>3. \A i \in 1 .. n : i - 1 \in 0 .. n /\ i \in 0 .. n /\ i # 0
  OBVIOUS
<1> HIDE DEF A, base, step
<1>4. PICK h \in [0 .. n -> A] : Follows(h, n, A, base, step)
  BY <1>1, RunExists
<1>5. Run(h)
  <2>1. ASSUME NEW i \in 0 .. n
        PROVE  h[i] = IF i = 0 THEN base
                      ELSE IF i \in set THEN Append(h[i - 1], i) ELSE h[i - 1]
    <3>1. CASE i = 0
      BY <1>4, <3>1 DEF Follows
    <3>2. CASE i # 0
      <4>1. i \in 1 .. n /\ h[i - 1] \in A
        BY <1>4, <3>2
      <4>2. h[i] = step[i][h[i - 1]]
        BY <1>4, <4>1 DEF Follows
      <4> QED
        BY <1>2, <3>2, <4>1, <4>2
    <3> QED
      BY <3>1, <3>2
  <2> QED
    BY <1>4, <2>1
<1>6. Run(g)
  BY <1>5
<1>7. Follows(g, n, A, base, step)
  <2>1. g[0] = base
    <3>1. 0 \in 0 .. n
      OBVIOUS
    <3> HIDE DEF g
    <3> QED
      BY <1>6, <3>1
  <2>2. ASSUME NEW i \in 1 .. n, g[i - 1] \in A
        PROVE  g[i] = step[i][g[i - 1]]
    <3>1. g[i] = IF i \in set THEN Append(g[i - 1], i) ELSE g[i - 1]
      <4> HIDE DEF g
      <4> QED
        BY <1>3, <1>6
    <3> HIDE DEF g
    <3> QED
      BY <1>2, <2>2, <3>1
  <2> HIDE DEF g
  <2> QED
    BY <2>1, <2>2 DEF Follows
<1>8. Ascending(n, set) = g[n]
  BY DEF Ascending, base
<1>9. g[n] = h[n]
  <2>1. n \in 0 .. n
    OBVIOUS
  <2> HIDE DEF g
  <2> QED
    BY <1>1, <1>4, <1>7, <2>1, RunsAgree
<1> QED
  BY <1>4, <1>8, <1>9 DEF A, base, step

LEMMA AscendingGrows ==
  ASSUME NEW n \in Nat, NEW set
  PROVE  /\ Ascending(n, set) \in Seq(Nat)
         /\ Ascending(0, set) = <<>>
         /\ Ascending(n + 1, set) = IF n + 1 \in set THEN Append(Ascending(n, set), n + 1)
                                    ELSE Ascending(n, set)
<1> DEFINE A == Seq(Nat)
           base == <<>>
           m == n + 1
           s == Rising(n, set)
           t == Rising(m, set)
<1>1. m \in Nat /\ m = n + 1 /\ m \in 1 .. m
  OBVIOUS
<1>2. PICK f \in [0 .. n -> A] : Follows(f, n, A, base, s) /\ Ascending(n, set) = f[n]
  BY AscendingFollows
<1>3. PICK g \in [0 .. m -> A] : Follows(g, m, A, base, t) /\ Ascending(m, set) = g[m]
  <2> HIDE DEF m, t
  <2>1. \E g \in [0 .. m -> A] :
          Follows(g, m, A, base, Rising(m, set)) /\ Ascending(m, set) = g[m]
    BY <1>1, AscendingFollows
  <2> QED
    BY <2>1 DEF t
<1>4. s \in [1 .. n -> [A -> A]] /\ base \in A
  BY RisingType
<1>5. \A i \in 1 .. n : t[i] = s[i]
  BY DEF Rising
<1>6. \A a \in A : t[m][a] = IF m \in set THEN Append(a, m) ELSE a
  BY <1>1 DEF Rising
<1>7. Ascending(0, set) = <<>>
  <2> DEFINE z == 0
  <2>1. z \in Nat /\ z = 0
    OBVIOUS
  <2> HIDE DEF z
  <2>2. \E h \in [0 .. z -> Seq(Nat)] :
          Follows(h, z, Seq(Nat), <<>>, Rising(z, set)) /\ Ascending(z, set) = h[z]
    BY <2>1, AscendingFollows
  <2> QED
    BY <2>1, <2>2 DEF Follows
<1> HIDE DEF A, base, s, t
<1>8. f[n] \in A /\ g[n + 1] = t[n + 1][f[n]]
  <2>1. Follows(g, n + 1, A, base, t)
    BY <1>3 DEF m
  <2> QED
    BY <1>2, <1>4, <1>5, <2>1, RunGrows
<1>9. Ascending(m, set) = IF m \in set THEN Append(f[n], m) ELSE f[n]
  BY <1>1, <1>3, <1>6, <1>8
<1> QED
  BY <1>2, <1>7, <1>8, <1>9 DEF A, m

\* The numbers up to n only depend on what of the set is up to n.
LEMMA AscendingAgrees ==
  ASSUME NEW n \in Nat, NEW P, NEW Q, \A i \in 1 .. n : i \in P <=> i \in Q
  PROVE  Ascending(n, P) = Ascending(n, Q)
<1> DEFINE S == {i \in Nat : i <= n => Ascending(i, P) = Ascending(i, Q)}
<1>1. 0 \in S
  <2>1. Ascending(0, P) = <<>> /\ Ascending(0, Q) = <<>>
    BY AscendingGrows
  <2> QED
    BY <2>1
<1>2. ASSUME NEW i \in S PROVE i + 1 \in S
  <2>1. /\ Ascending(i + 1, P) = IF i + 1 \in P THEN Append(Ascending(i, P), i + 1) ELSE Ascending(i, P)
        /\ Ascending(i + 1, Q) = IF i + 1 \in Q THEN Append(Ascending(i, Q), i + 1) ELSE Ascending(i, Q)
    BY AscendingGrows
  <2>2. i + 1 <= n => i <= n /\ i + 1 \in 1 .. n
    OBVIOUS
  <2> QED
    BY <2>1, <2>2
<1>3. S = Nat
  <2> HIDE DEF S
  <2>1. S \in SUBSET Nat
    BY DEF S
  <2> QED
    BY <1>1, <1>2, <2>1, Induction
<1> QED
  BY <1>3

\* A stretch of a set follows what comes before it.
LEMMA AscendingJoins ==
  ASSUME NEW P, NEW k \in Nat, NEW q \in Nat, k <= q, NEW n \in Nat, q <= n
  PROVE  Ascending(k, P) \o Ascending(n, P \cap (k + 1 .. q)) = Ascending(q, P)
<1> DEFINE Q == P \cap (k + 1 .. q)
           a == Ascending(k, P)
           Joined(i) == IF i <= k THEN k ELSE IF i <= q THEN i ELSE q
           Joins(i) == a \o Ascending(i, Q) = Ascending(Joined(i), P)
           S == {i \in Nat : Joins(i)}
<1>1. a \in Seq(Nat)
  BY AscendingGrows
<1>2. 0 \in S
  <2>1. Ascending(0, Q) = <<>>
    BY AscendingGrows
  <2>2. a \o <<>> = a
    <3> HIDE DEF a
    <3> QED
      BY <1>1, ConcatEmptySeq
  <2>3. 0 <= k /\ Joined(0) = k
    OBVIOUS
  <2>4. Joins(0)
    BY <2>1, <2>2, <2>3
  <2> HIDE DEF Joins
  <2> QED
    BY <2>4
<1>3. ASSUME NEW i \in S PROVE i + 1 \in S
  <2> DEFINE b == Ascending(i, Q)
             c == Ascending(Joined(i), P)
  <2>1. i \in Nat /\ a \o b = c /\ b \in Seq(Nat)
    <3>1. i \in Nat /\ Joins(i)
      OBVIOUS
    <3> HIDE DEF Q
    <3> QED
      BY <3>1, AscendingGrows
  <2>2. Ascending(i + 1, Q) = IF i + 1 \in Q THEN Append(b, i + 1) ELSE b
    <3> HIDE DEF Q
    <3> QED
      BY <2>1, AscendingGrows
  <2>3. a \o Append(b, i + 1) = Append(c, i + 1)
    <3> HIDE DEF a, b, c
    <3>1. a \o Append(b, i + 1) = Append(a \o b, i + 1)
      <4>1. \A s, t \in Seq(Nat) : \A v \in Nat : s \o Append(t, v) = Append(s \o t, v)
        BY SMTT(30)
      <4>2. a \in Seq(Nat) /\ b \in Seq(Nat) /\ i + 1 \in Nat
        BY <1>1, <2>1
      <4> QED
        BY ONLY <4>1, <4>2
    <3> QED
      BY <2>1, <3>1
  <2>4. ASSUME i < k PROVE Joins(i + 1)
    <3>1. i + 1 \notin Q /\ Joined(i) = k /\ Joined(i + 1) = k
      BY <2>1, <2>4
    <3> HIDE DEF Joined, Q, a
    <3> QED
      BY <2>1, <2>2, <3>1
  <2>5. ASSUME k <= i, i < q PROVE Joins(i + 1)
    <3>1. Joined(i) = i /\ Joined(i + 1) = i + 1 /\ (i + 1 \in Q <=> i + 1 \in P)
      BY <2>1, <2>5
    <3>2. Ascending(i + 1, P) = IF i + 1 \in P THEN Append(Ascending(i, P), i + 1)
                                ELSE Ascending(i, P)
      BY <2>1, AscendingGrows
    <3> HIDE DEF Joined, a, b, Q
    <3>3. c = Ascending(i, P)
      BY <3>1
    <3> HIDE DEF c
    <3>4. a \o Ascending(i + 1, Q) = Ascending(i + 1, P)
      <4>1. CASE i + 1 \in P
        BY <2>2, <2>3, <3>1, <3>2, <3>3, <4>1
      <4>2. CASE i + 1 \notin P
        BY <2>1, <2>2, <3>1, <3>2, <3>3, <4>2
      <4> QED
        BY <4>1, <4>2
    <3> QED
      BY <2>1, <3>1, <3>4
  <2>6. ASSUME q <= i PROVE Joins(i + 1)
    <3>1. i + 1 \notin Q /\ Joined(i) = q /\ Joined(i + 1) = q
      BY <2>1, <2>6
    <3> HIDE DEF Joined, Q, a
    <3> QED
      BY <2>1, <2>2, <3>1
  <2> HIDE DEF Joins
  <2>7. i < k \/ (k <= i /\ i < q) \/ q <= i
    BY <2>1
  <2> QED
    BY <2>1, <2>4, <2>5, <2>6, <2>7
<1>4. S = Nat
  <2> HIDE DEF S
  <2>1. S \in SUBSET Nat
    BY DEF S
  <2> QED
    BY <1>2, <1>3, <2>1, Induction
<1>5. Joined(n) = q
  OBVIOUS
<1>6. Joins(n)
  <2> HIDE DEF Joins
  <2> QED
    BY <1>4
<1> QED
  BY <1>5, <1>6

\* The numbers are those from one on.
LEMMA AscendingType ==
  ASSUME NEW n \in Nat, NEW set
  PROVE  Ascending(n, set) \in Seq(Nat \ {0})
<1> DEFINE S == {i \in Nat : Ascending(i, set) \in Seq(Nat \ {0})}
<1>1. 0 \in S
  BY AscendingGrows, EmptySeq
<1>2. ASSUME NEW i \in S PROVE i + 1 \in S
  <2> DEFINE a == Ascending(i, set)
             T == Nat \ {0}
  <2>1. a \in Seq(T) /\ i + 1 \in T /\ i \in Nat
    OBVIOUS
  <2>2. Ascending(i + 1, set) = IF i + 1 \in set THEN Append(a, i + 1) ELSE a
    BY <2>1, AscendingGrows
  <2> HIDE DEF a, T
  <2>3. Append(a, i + 1) \in Seq(T)
    BY <2>1, AppendProperties
  <2>4. Ascending(i + 1, set) \in Seq(T)
    BY <2>1, <2>2, <2>3
  <2> QED
    BY <2>1, <2>4 DEF T
<1>3. S = Nat
  <2> HIDE DEF S
  <2>1. S \in SUBSET Nat
    BY DEF S
  <2> QED
    BY <1>1, <1>2, <2>1, Induction
<1> QED
  BY <1>3

\* The numbers up to k come first among those up to n.
LEMMA AscendingBegins ==
  ASSUME NEW P, NEW k \in Nat, NEW n \in Nat, k <= n
  PROVE  /\ Len(Ascending(k, P)) \in Nat /\ Len(Ascending(n, P)) \in Nat
         /\ Len(Ascending(k, P)) <= Len(Ascending(n, P))
         /\ \A i \in 1 .. Len(Ascending(k, P)) : Ascending(n, P)[i] = Ascending(k, P)[i]
<1> DEFINE a == Ascending(k, P)
           c == Ascending(n, P \cap (k + 1 .. n))
           d == Ascending(n, P)
<1>1. a \in Seq(Nat) /\ d \in Seq(Nat)
  BY AscendingGrows
<1>2. c \in Seq(Nat)
  <2> DEFINE Q == P \cap (k + 1 .. n)
  <2> HIDE DEF Q
  <2>1. Ascending(n, Q) \in Seq(Nat)
    BY AscendingGrows
  <2> QED
    BY <2>1 DEF Q
<1>3. a \o c = d
  <2> DEFINE q == n
  <2>1. q \in Nat /\ k <= q /\ q <= n
    OBVIOUS
  <2> HIDE DEF q
  <2>2. Ascending(k, P) \o Ascending(n, P \cap (k + 1 .. q)) = Ascending(q, P)
    BY <2>1, AscendingJoins
  <2> QED
    BY <2>2 DEF q
<1> HIDE DEF a, c, d
<1>4. /\ Len(a \o c) = Len(a) + Len(c)
      /\ \A i \in 1 .. Len(a) + Len(c) :
           (a \o c)[i] = IF i <= Len(a) THEN a[i] ELSE c[i - Len(a)]
  BY ONLY <1>1, <1>2, ConcatProperties
<1>5. Len(a) \in Nat /\ Len(c) \in Nat /\ Len(d) \in Nat
  BY <1>1, <1>2, LenProperties
<1>6. \A i \in 1 .. Len(a) : i \in 1 .. Len(a) + Len(c) /\ i <= Len(a)
  BY <1>5
<1> QED
  BY <1>3, <1>4, <1>5, <1>6 DEF a, d

--------------------------------------------------------------------------------
(* Sequences of sequences, end to end.                                     *)

Joining(ss, A) == [i \in 1 .. Len(ss) |-> [a \in A |-> a \o ss[i]]]

LEMMA JoiningType ==
  ASSUME NEW S, NEW ss \in Seq(Seq(S))
  PROVE  Joining(ss, Seq(S)) \in [1 .. Len(ss) -> [Seq(S) -> Seq(S)]]
<1>1. \A i \in 1 .. Len(ss) : ss[i] \in Seq(S)
  OBVIOUS
<1> QED
  BY <1>1, ConcatProperties DEF Joining

LEMMA FlattenFollows ==
  ASSUME NEW S, NEW ss \in Seq(Seq(S))
  PROVE  \E f \in [0 .. Len(ss) -> Seq(S)] :
           /\ Follows(f, Len(ss), Seq(S), <<>>, Joining(ss, Seq(S)))
           /\ FlattenSeq(ss) = f[Len(ss)]
<1> DEFINE A == Seq(S)
           n == Len(ss)
           step == Joining(ss, A)
           Run(f) == f = [i \in 1 .. n |-> IF i = 1 THEN ss[i] ELSE f[i - 1] \o ss[i]]
           g == CHOOSE f : Run(f)
           f0 == [i \in 0 .. n |-> IF i = 0 THEN <<>> ELSE g[i]]
<1>1. n \in Nat /\ DOMAIN ss = 1 .. n /\ \A i \in 1 .. n : ss[i] \in A
  OBVIOUS
<1>2. step \in [1 .. n -> [A -> A]] /\ <<>> \in A
  BY JoiningType, EmptySeq
<1>3. PICK h \in [0 .. n -> A] : Follows(h, n, A, <<>>, step)
  <2> HIDE DEF n, step
  <2> QED
    BY <1>1, <1>2, RunExists
<1>4. \A i \in 1 .. n : i - 1 \in 0 .. n /\ i \in 0 .. n /\ i # 0 /\ (i # 1 => i - 1 \in 1 .. n)
  BY <1>1
<1>5. \A i \in 1 .. n : \A a \in A : step[i][a] = a \o ss[i]
  BY DEF Joining
<1>6. \A i \in 1 .. n : h[i] = h[i - 1] \o ss[i]
  <2>1. TAKE i \in 1 .. n
  <2>2. h[i - 1] \in A
    BY <1>3, <1>4
  <2>3. h[i] = step[i][h[i - 1]]
    BY <1>3, <2>2 DEF Follows
  <2> HIDE DEF step
  <2> QED
    BY <1>5, <2>2, <2>3
<1>7. h[0] = <<>>
  BY <1>3 DEF Follows
<1>8. Run([i \in 1 .. n |-> h[i]])
  <2> DEFINE k == [i \in 1 .. n |-> h[i]]
  <2>1. ASSUME NEW i \in 1 .. n PROVE k[i] = IF i = 1 THEN ss[i] ELSE k[i - 1] \o ss[i]
    <3>1. CASE i = 1
      <4>1. h[1] = <<>> \o ss[1] /\ ss[1] \in A
        <5>1. 1 \in 1 .. n /\ 1 - 1 = 0
          BY <3>1
        <5> HIDE DEF n, A
        <5>2. h[1] = h[0] \o ss[1]
          BY <1>6, <5>1
        <5>3. ss[1] \in A
          BY <1>1, <5>1
        <5> QED
          BY <1>7, <5>2, <5>3
      <4>2. <<>> \o ss[1] = ss[1]
        BY <4>1, ConcatEmptySeq
      <4> QED
        BY <3>1, <4>1, <4>2
    <3>2. CASE i # 1
      BY <1>4, <1>6, <3>2
    <3> QED
      BY <3>1, <3>2
  <2> QED
    BY <2>1
<1>9. Run(g)
  BY <1>8
<1>10. \A i \in 1 .. n : g[i] = IF i = 1 THEN ss[i] ELSE g[i - 1] \o ss[i]
  <2> HIDE DEF g
  <2> QED
    BY <1>9
<1>11. Follows(f0, n, A, <<>>, step)
  <2>1. f0[0] = <<>>
    BY <1>1
  <2>2. ASSUME NEW i \in 1 .. n, f0[i - 1] \in A PROVE f0[i] = step[i][f0[i - 1]]
    <3>1. step[i][f0[i - 1]] = f0[i - 1] \o ss[i]
      <4> HIDE DEF step, f0
      <4> QED
        BY <1>5, <2>2
    <3>2. f0[i] = g[i] /\ f0[i - 1] = IF i = 1 THEN <<>> ELSE g[i - 1]
      <4> HIDE DEF g
      <4> QED
        BY <1>1, <1>4
    <3>3. CASE i = 1
      <4>1. ss[1] \in A
        BY <1>1, <3>3
      <4>2. <<>> \o ss[1] = ss[1]
        BY <4>1, ConcatEmptySeq
      <4> HIDE DEF step, f0, g
      <4> QED
        BY <1>10, <3>1, <3>2, <3>3, <4>2
    <3>4. CASE i # 1
      <4> HIDE DEF step, f0, g
      <4> QED
        BY <1>10, <3>1, <3>2, <3>4
    <3> QED
      BY <3>3, <3>4
  <2> HIDE DEF f0, step
  <2> QED
    BY <2>1, <2>2 DEF Follows
<1>12. FlattenSeq(ss) = f0[n]
  <2>1. CASE n = 0
    <3>1. ss = <<>>
      BY <2>1
    <3> QED
      BY <2>1, <3>1 DEF FlattenSeq
  <2>2. CASE n # 0
    <3>1. FlattenSeq(ss) = g[n]
      BY <2>2 DEF FlattenSeq
    <3> HIDE DEF g
    <3> QED
      BY <1>1, <2>2, <3>1
  <2> QED
    BY <2>1, <2>2
<1>13. f0[n] = h[n]
  <2>1. n \in 0 .. n
    BY <1>1
  <2> HIDE DEF n, step, g, A, f0
  <2> QED
    BY <1>1, <1>2, <1>3, <1>11, <2>1, RunsAgree
<1> QED
  BY <1>3, <1>12, <1>13

LEMMA FlattenType ==
  ASSUME NEW S, NEW ss \in Seq(Seq(S))
  PROVE  FlattenSeq(ss) \in Seq(S)
<1>1. PICK f \in [0 .. Len(ss) -> Seq(S)] : FlattenSeq(ss) = f[Len(ss)]
  BY FlattenFollows
<1>2. Len(ss) \in 0 .. Len(ss)
  OBVIOUS
<1> QED
  BY <1>1, <1>2

LEMMA FlattenNothing == FlattenSeq(<<>>) = <<>>
<1>1. Len(<<>>) = 0
  OBVIOUS
<1> QED
  BY <1>1 DEF FlattenSeq

\* One sequence more comes last.
LEMMA FlattenGrows ==
  ASSUME NEW S, NEW ss \in Seq(Seq(S)), NEW e \in Seq(S)
  PROVE  FlattenSeq(Append(ss, e)) = FlattenSeq(ss) \o e
<1> DEFINE A == Seq(S)
           n == Len(ss)
           more == Append(ss, e)
           s == Joining(ss, A)
           t == Joining(more, A)
<1>1. /\ more \in Seq(A) /\ Len(more) = n + 1 /\ n \in Nat
      /\ more[n + 1] = e /\ \A i \in 1 .. n : more[i] = ss[i]
  BY AppendProperties
<1>2. PICK f \in [0 .. n -> A] : Follows(f, n, A, <<>>, s) /\ FlattenSeq(ss) = f[n]
  BY FlattenFollows
<1>3. PICK g : Follows(g, n + 1, A, <<>>, t) /\ FlattenSeq(more) = g[n + 1]
  <2>1. \E g \in [0 .. Len(more) -> A] :
          Follows(g, Len(more), A, <<>>, t) /\ FlattenSeq(more) = g[Len(more)]
    <3> HIDE DEF more
    <3> QED
      BY <1>1, FlattenFollows
  <2> HIDE DEF t, more, A
  <2> QED
    BY <1>1, <2>1
<1>4. \A i \in 1 .. n : t[i] = s[i]
  BY <1>1 DEF Joining
<1>5. s \in [1 .. n -> [A -> A]] /\ <<>> \in A
  BY JoiningType, EmptySeq
<1>6. f[n] \in A /\ g[n + 1] = t[n + 1][f[n]]
  <2>1. n \in Nat /\ <<>> \in A /\ s \in [1 .. n -> [A -> A]]
    BY <1>1, <1>5
  <2>2. Follows(f, n, A, <<>>, s) /\ Follows(g, n + 1, A, <<>>, t)
    BY <1>2, <1>3
  <2> HIDE DEF n, s, t, A, more
  <2> QED
    <3>1. PICK base : base = <<>>
      OBVIOUS
    <3>2. /\ n \in Nat /\ base \in A /\ s \in [1 .. n -> [A -> A]]
          /\ Follows(f, n, A, base, s) /\ Follows(g, n + 1, A, base, t)
      BY <2>1, <2>2, <3>1
    <3>3. f \in [0 .. n -> A]
      OBVIOUS
    <3> QED
      BY ONLY <1>4, <3>2, <3>3, RunGrows
<1>7. \A a \in A : t[n + 1][a] = a \o e
  BY <1>1 DEF Joining
<1> HIDE DEF t, more
<1> QED
  BY <1>2, <1>3, <1>6, <1>7 DEF more

\* What comes one by one adds up to itself.
LEMMA OneByOneIsAll ==
  ASSUME NEW S, NEW s \in Seq(S)
  PROVE  FlattenSeq([k \in 1 .. Len(s) |-> <<s[k]>>]) = s
<1> DEFINE Ones(x) == [k \in 1 .. Len(x) |-> <<x[k]>>]
           C == {x \in Seq(S) : FlattenSeq(Ones(x)) = x}
<1>1. <<>> \in C
  <2>1. Ones(<<>>) = <<>>
    OBVIOUS
  <2> QED
    BY <2>1, FlattenNothing, EmptySeq
<1>2. ASSUME NEW x \in C, NEW e \in S PROVE Append(x, e) \in C
  <2> DEFINE more == Append(x, e)
             n == Len(x)
  <2>1. /\ x \in Seq(S) /\ more \in Seq(S) /\ Len(more) = n + 1 /\ n \in Nat
        /\ more[n + 1] = e /\ \A i \in 1 .. n : more[i] = x[i] /\ x[i] \in S
    BY AppendProperties
  <2>2. Ones(x) \in Seq(Seq(S)) /\ Len(Ones(x)) = n /\ <<e>> \in Seq(S)
    BY <2>1
  <2>3. Ones(more) = Append(Ones(x), <<e>>)
    <3>1. Append(Ones(x), <<e>>) = [k \in 1 .. n + 1 |-> IF k = n + 1 THEN <<e>> ELSE <<x[k]>>]
      BY <2>1, <2>2
    <3>2. Ones(more) = [k \in 1 .. n + 1 |-> IF k = n + 1 THEN <<e>> ELSE <<x[k]>>]
      <4>1. \A k \in 1 .. n + 1 : <<more[k]>> = IF k = n + 1 THEN <<e>> ELSE <<x[k]>>
        BY <2>1
      <4> HIDE DEF more
      <4> QED
        BY <2>1, <4>1
    <3> QED
      BY <3>1, <3>2
  <2>4. FlattenSeq(Ones(more)) = FlattenSeq(Ones(x)) \o <<e>>
    <3> DEFINE y == Ones(x)
    <3>1. y \in Seq(Seq(S))
      BY <2>2
    <3> HIDE DEF y
    <3>2. FlattenSeq(Append(y, <<e>>)) = FlattenSeq(y) \o <<e>>
      BY <2>2, <3>1, FlattenGrows
    <3> QED
      BY <2>3, <3>2 DEF y
  <2>5. x \o <<e>> = more
    BY <2>1, AppendIsConcat
  <2>6. FlattenSeq(Ones(x)) = x
    OBVIOUS
  <2>7. FlattenSeq(Ones(more)) = more
    BY <2>4, <2>5, <2>6
  <2> QED
    BY <2>1, <2>7
<1>3. C = Seq(S)
  <2> HIDE DEF C
  <2>1. C \in SUBSET Seq(S)
    BY DEF C
  <2> QED
    BY <1>1, <1>2, <2>1, SequenceInduction
<1> QED
  BY <1>3
================================================================================
