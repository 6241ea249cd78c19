------------------------------ MODULE ReportProofs -----------------------------
(***************************************************************************)
(* What the framework reports of itself is what happened, for every value  *)
(* of the constants: every token that a provider charged is charged once   *)
(* and to its route, and the phases of a turn are a turn's (Metering); and *)
(* a conformance check that passes rests on evidence of the day, and a     *)
(* variant that passes is built somewhere that is not a test (Evidence);   *)
(* and a request that goes out says what the turns say that it is of, with *)
(* the blocks of its own provider given back as they came (Wire).          *)
(***************************************************************************)
EXTENDS Metering, Evidence, Wire, FoldProofs, SequenceTheorems, TLAPS
--------------------------------------------------------------------------------
(* Sums that grow.                                                         *)

\* What is added up over a part of a record of numbers.
LEMMA SumOverGrows ==
  ASSUME NEW U, NEW t \in [U -> Nat], NEW V, IsFiniteSet(V), NEW x, x \notin V,
         V \cup {x} \subseteq U
  PROVE  /\ SumOver(V, t) \in Nat
         /\ SumOver(V \cup {x}, t) = SumOver(V, t) + t[x]
<1> DEFINE f == Restrict(t, V)
           g == Restrict(t, V \cup {x})
<1>1. f \in [V -> Nat] /\ g \in [V \cup {x} -> Nat]
  BY DEF Restrict
<1>2. (\A y \in V : g[y] = f[y]) /\ g[x] = t[x]
  BY DEF Restrict
<1> HIDE DEF f, g
<1>3. SumFunction(f) \in Nat /\ SumFunction(g) = SumFunction(f) + g[x]
  BY <1>1, <1>2, SumGrows, SumIsNumber
<1> QED
  BY <1>2, <1>3 DEF SumOver, f, g

\* Places of a sequence, when it has one more.
LEMMA LastMayJoin ==
  ASSUME NEW n \in Nat, NEW P, NEW Q, P \in SUBSET (1 .. n), Q \in SUBSET (1 .. n + 1),
         \A i \in 1 .. n : i \in Q <=> i \in P
  PROVE  /\ n + 1 \in Q => Q = P \cup {n + 1}
         /\ n + 1 \notin Q => Q = P
<1>1. \A i : i \in Q => i \in 1 .. n \/ i = n + 1
  OBVIOUS
<1>2. \A i \in Q : i \in P \/ i = n + 1
  BY <1>1
<1>3. \A i \in P : i \in Q
  OBVIOUS
<1>4. CASE n + 1 \in Q
  <2>1. \A i : i \in Q <=> i \in P \cup {n + 1}
    BY <1>2, <1>3, <1>4
  <2>2. Q = P \cup {n + 1}
    BY <2>1
  <2> QED
    BY <1>4, <2>2
<1>5. CASE n + 1 \notin Q
  <2>1. \A i : i \in Q <=> i \in P
    BY <1>2, <1>3, <1>5
  <2>2. Q = P
    BY <2>1
  <2> QED
    BY <1>5, <2>2
<1> QED
  BY <1>4, <1>5

LEMMA CountGrows ==
  ASSUME NEW n \in Nat, NEW P, NEW Q, P \in SUBSET (1 .. n), Q \in SUBSET (1 .. n + 1),
         \A i \in 1 .. n : i \in Q <=> i \in P
  PROVE  /\ Cardinality(P) \in Nat
         /\ Cardinality(Q) = Cardinality(P) + (IF n + 1 \in Q THEN 1 ELSE 0)
<1>1. IsFiniteSet(P) /\ Cardinality(P) \in Nat
  <2>1. 1 \in Int /\ n \in Int
    OBVIOUS
  <2>2. IsFiniteSet(1 .. n)
    BY <2>1, FS_Interval
  <2> QED
    BY <2>2, FS_Subset, FS_CardinalityType
<1>2. n + 1 \in Q => Q = P \cup {n + 1}
  BY LastMayJoin
<1>3. n + 1 \notin Q => Q = P
  BY LastMayJoin
<1>4. n + 1 \notin P
  OBVIOUS
<1>5. Cardinality(P \cup {n + 1}) = Cardinality(P) + 1
  BY <1>1, <1>4, FS_AddElement
<1> QED
  BY <1>1, <1>2, <1>3, <1>5
--------------------------------------------------------------------------------
(* The middle of what was sorted.                                          *)

\* Of some places of a sequence of numbers, one where the greatest stands.
LEMMA GreatestStands ==
  ASSUME NEW n \in Nat, NEW f \in [1 .. n -> Nat], NEW I \in SUBSET (1 .. n), I # {}
  PROVE  \E i \in I : \A j \in I : f[j] <= f[i]
<1> DEFINE U == 1 .. n
           C == {s \in SUBSET U : s # {} => \E i \in s : \A j \in s : f[j] <= f[i]}
<1>1. IsFiniteSet(U)
  BY FS_Interval
<1>2. ASSUME NEW s \in SUBSET U, \A x \in s : s \ {x} \in C PROVE s \in C
  <2> SUFFICES ASSUME s # {} PROVE \E i \in s : \A j \in s : f[j] <= f[i]
    OBVIOUS
  <2>1. PICK x \in s : TRUE
    OBVIOUS
  <2>2. CASE s \ {x} = {}
    <3>1. \A j \in s : j = x
      BY <2>2
    <3>2. f[x] \in Nat
      BY <2>1
    <3> QED
      BY <2>1, <3>1, <3>2
  <2>3. CASE s \ {x} # {}
    <3>1. PICK i \in s \ {x} : \A j \in s \ {x} : f[j] <= f[i]
      BY <1>2, <2>1, <2>3
    <3>2. \A j \in s : f[j] \in Nat
      OBVIOUS
    <3>3. CASE f[x] <= f[i]
      BY <3>1, <3>3
    <3>4. CASE f[i] <= f[x]
      <4>1. \A j \in s : f[j] <= f[x]
        BY <2>1, <3>1, <3>2, <3>4
      <4> QED
        BY <2>1, <4>1
    <3> QED
      BY <2>1, <3>1, <3>2, <3>3, <3>4
  <2> QED
    BY <2>2, <2>3
<1>3. C \in SUBSET (SUBSET U)
  OBVIOUS
<1> HIDE DEF C, U
<1>4. C = SUBSET U
  BY <1>1, <1>2, <1>3, SetInduction
<1> QED
  BY <1>4 DEF C, U

\* There is one: the least value that more than half of them do not exceed.
LEMMA MedianIs ==
  ASSUME NEW values \in Seq(Nat), values # <<>>
  PROVE  /\ Median(values) \in Range(values)
         /\ Cardinality({i \in DOMAIN values : values[i] < Median(values)})
              <= Len(values) \div 2
         /\ Len(values) \div 2
              < Cardinality({i \in DOMAIN values : values[i] <= Median(values)})
<1> DEFINE n == Len(values)
           half == n \div 2
           below(v) == {i \in 1 .. n : values[i] < v}
           reach(v) == {i \in 1 .. n : values[i] <= v}
           T == {v \in Range(values) : half < Cardinality(reach(v))}
<1>1. n \in Nat /\ n > 0 /\ DOMAIN values = 1 .. n /\ half \in Nat /\ half < n
  BY LenProperties
<1>2. /\ values \in [1 .. n -> Nat]
      /\ Range(values) = {values[i] : i \in 1 .. n}
  BY <1>1 DEF Range
<1>3. IsFiniteSet(1 .. n) /\ Cardinality(1 .. n) = n
  <2>1. 1 \in Int /\ n \in Int /\ ~(1 > n) /\ n - 1 + 1 = n
    BY <1>1
  <2> QED
    BY <2>1, FS_Interval
<1>4. \A v : IsFiniteSet(below(v)) /\ Cardinality(below(v)) \in Nat
             /\ IsFiniteSet(reach(v)) /\ Cardinality(reach(v)) \in Nat
  <2> TAKE v
  <2>1. below(v) \in SUBSET (1 .. n) /\ reach(v) \in SUBSET (1 .. n)
    OBVIOUS
  <2> HIDE DEF below, reach, n
  <2> QED
    BY <1>3, <2>1, FS_Subset, FS_CardinalityType
<1>5. PICK top \in 1 .. n : \A j \in 1 .. n : values[j] <= values[top]
  <2> HIDE DEF n
  <2>1. 1 \in 1 .. n /\ 1 .. n \in SUBSET (1 .. n)
    BY <1>1
  <2> QED
    BY <1>1, <1>2, <2>1, GreatestStands
<1>6. values[top] \in T
  <2>1. reach(values[top]) = 1 .. n
    BY <1>5
  <2> QED
    BY <1>1, <1>2, <1>3, <1>5, <2>1
<1>7. PICK least \in T : \A v \in T : least <= v
  <2>1. T \in SUBSET Nat
    BY <1>2
  <2> HIDE DEF T
  <2> QED
    BY <1>6, <2>1, LeastElement
<1>8. least \in Nat
  BY <1>2, <1>7
<1>9. Cardinality(below(least)) <= half
  <2> SUFFICES ASSUME half < Cardinality(below(least)) PROVE FALSE
    <3>1. half \in Nat /\ Cardinality(below(least)) \in Nat
      BY <1>1, <1>4
    <3> HIDE DEF below, half
    <3> QED
      BY <3>1
  <2>1. below(least) # {} /\ below(least) \in SUBSET (1 .. n)
    <3>1. CASE below(least) = {}
      <4>1. Cardinality(below(least)) = 0
        BY <3>1, FS_EmptySet
      <4> HIDE DEF below
      <4> QED
        BY <1>1, <4>1
    <3> QED
      BY <3>1
  <2>2. PICK i \in below(least) : \A j \in below(least) : values[j] <= values[i]
    <3> HIDE DEF below, n
    <3> QED
      BY <1>1, <1>2, <2>1, GreatestStands
  <2>3. values[i] \in Range(values) /\ values[i] < least /\ values[i] \in Nat
    BY <1>2, <2>2
  <2>4. below(least) \in SUBSET reach(values[i])
    BY <2>2
  <2>5. Cardinality(below(least)) <= Cardinality(reach(values[i]))
    <3> HIDE DEF below, reach
    <3> QED
      BY <1>4, <2>4, FS_Subset
  <2>6. half < Cardinality(reach(values[i]))
    <3> HIDE DEF below, reach, half
    <3>1. /\ Cardinality(below(least)) \in Nat /\ Cardinality(reach(values[i])) \in Nat
          /\ half \in Nat
      BY <1>1, <1>4
    <3>2. half < Cardinality(below(least))
      OBVIOUS
    <3> QED
      BY ONLY <2>5, <3>1, <3>2
  <2>7. values[i] \in T
    BY <2>3, <2>6
  <2>8. least <= values[i]
    <3> HIDE DEF T
    <3> QED
      BY ONLY <1>7, <2>7
  <2>9. values[i] < least /\ values[i] \in Nat
    BY <2>3
  <2> QED
    BY ONLY <1>8, <2>8, <2>9
<1>10. \E v \in Range(values) : Cardinality(below(v)) <= half /\ half < Cardinality(reach(v))
  BY <1>7, <1>9
<1>11. Median(values) = CHOOSE v \in Range(values) :
                          Cardinality(below(v)) <= half /\ half < Cardinality(reach(v))
  BY <1>1 DEF Median
<1> QED
  BY <1>1, <1>10, <1>11

\* What is longer everywhere is longer in the middle.
LEMMA MedianIsMonotone ==
  ASSUME NEW a \in Seq(Nat), NEW b \in Seq(Nat), Len(a) = Len(b), a # <<>>,
         \A i \in DOMAIN a : a[i] <= b[i]
  PROVE  Median(a) <= Median(b)
<1> DEFINE p == Median(a)
           q == Median(b)
           n == Len(a)
           below == {i \in DOMAIN a : a[i] < p}
           reach == {i \in DOMAIN b : b[i] <= q}
<1>1. n \in Nat /\ DOMAIN a = 1 .. n /\ DOMAIN b = 1 .. n /\ b # <<>>
  BY LenProperties
<1>2. p \in Range(a) /\ Cardinality(below) <= n \div 2
  BY MedianIs
<1>3. q \in Range(b) /\ n \div 2 < Cardinality(reach)
  BY <1>1, MedianIs
<1>4. p \in Nat /\ q \in Nat
  <2> HIDE DEF p, q
  <2>1. \A i \in DOMAIN a : a[i] \in Nat
    BY ElementOfSeq, LenProperties
  <2>2. \A i \in DOMAIN b : b[i] \in Nat
    BY ElementOfSeq, LenProperties
  <2> QED
    BY ONLY <1>2, <1>3, <2>1, <2>2 DEF Range
<1> HIDE DEF p, q
<1> SUFFICES ASSUME q < p PROVE FALSE
  BY <1>4 DEF p, q
<1>5. reach \subseteq below
  BY <1>1, <1>4
<1>6. IsFiniteSet(below)
  <2>1. 1 \in Int /\ n \in Int /\ below \in SUBSET (1 .. n)
    BY <1>1
  <2>2. IsFiniteSet(1 .. n)
    BY <2>1, FS_Interval
  <2> HIDE DEF below, n
  <2> QED
    BY <2>1, <2>2, FS_Subset
<1>7. Cardinality(reach) <= Cardinality(below) /\ Cardinality(below) \in Nat
      /\ Cardinality(reach) \in Nat
  BY <1>5, <1>6, FS_Subset, FS_CardinalityType
<1>8. n \div 2 \in Nat
  BY <1>1
<1> QED
  BY <1>2, <1>3, <1>7, <1>8
--------------------------------------------------------------------------------
(* What was used.                                                          *)

\* What a usage block is read as, whoever reported it.
LEMMA UsageIsRead ==
  ASSUME NEW a \in Adapters, NEW c \in Consumption, c.thought <= c.output,
         NEW u, u = DecodeUsage(a, Reported(a, c))
  PROVE  /\ u.input \in Nat /\ u.read \in Nat /\ u.written \in Nat
         /\ u.output \in Nat /\ u.thought \in Nat
         /\ TotalInput(u) = IF c.silent THEN 0
                            ELSE c.fresh + c.read + c.written
                                   + (IF a \in TotalWires THEN c.written ELSE 0)
         /\ u.written = IF c.silent THEN 0 ELSE c.written
         /\ u.output = IF c.silent THEN 0 ELSE c.output
         /\ u.read = IF c.silent THEN 0 ELSE c.read
         /\ u.thought <= u.output
         /\ ~u.priced <=> c.silent \/ ~c.priced \/ a \in {"anthropic", "openai", "chat"}
<1> DEFINE r == Reported(a, c)
<1>1. /\ c.fresh \in Nat /\ c.read \in Nat /\ c.written \in Nat /\ c.output \in Nat
      /\ c.thought \in Nat /\ c.priced \in BOOLEAN /\ c.silent \in BOOLEAN
  BY DEF Consumption
<1>2. /\ r.output = c.output /\ r.cached = c.read /\ r.written = c.written
      /\ r.thought = c.thought
      /\ r.input = IF a \in TotalWires THEN c.fresh + c.read + c.written ELSE c.fresh
  BY DEF Reported
<1>3. (r.silent <=> c.silent) /\ (r.cost <=> c.priced)
  BY DEF Reported
<1>4. u = DecodeUsage(a, r)
  OBVIOUS
<1> HIDE DEF r
<1>5. CASE c.silent
  <2>1. u = NoUsage
    BY <1>3, <1>4, <1>5 DEF DecodeUsage
  <2>2. u.input = 0 /\ u.read = 0 /\ u.written = 0 /\ u.output = 0 /\ u.thought = 0
    BY <2>1 DEF NoUsage, Usage
  <2>3. ~u.priced
    BY <2>1 DEF NoUsage, Usage
  <2> QED
    BY <1>1, <1>5, <2>2, <2>3 DEF TotalInput
<1>6. CASE ~c.silent /\ a = "anthropic"
  <2>1. u = MessagesUsage(r)
    BY <1>3, <1>4, <1>6 DEF DecodeUsage
  <2>2. u.input = c.fresh /\ u.read = c.read /\ u.written = c.written
        /\ u.output = c.output /\ u.thought = 0
    BY <1>2, <1>6, <2>1 DEF MessagesUsage, Usage, TotalWires
  <2>3. ~u.priced
    BY <2>1 DEF MessagesUsage, Usage
  <2> QED
    BY <1>1, <1>6, <2>2, <2>3 DEF TotalInput, TotalWires
<1>7. CASE ~c.silent /\ a = "openai"
  <2>1. u = ResponsesUsage(r)
    BY <1>3, <1>4, <1>7 DEF DecodeUsage
  <2>2. u.input = Less(c.fresh + c.read + c.written, c.read) /\ u.read = c.read
        /\ u.written = c.written /\ u.output = c.output /\ u.thought = c.thought
    BY <1>2, <1>7, <2>1 DEF ResponsesUsage, Usage, TotalWires
  <2>3. ~u.priced
    BY <2>1 DEF ResponsesUsage, Usage
  <2>4. u.input = c.fresh + c.written
    BY <1>1, <2>2 DEF Less
  <2> QED
    BY <1>1, <1>7, <2>2, <2>3, <2>4 DEF TotalInput, TotalWires
<1>8. CASE ~c.silent /\ a = "delegated"
  <2>1. u = ClaudeUsage(r)
    BY <1>3, <1>4, <1>8 DEF DecodeUsage
  <2>2. u.input = c.fresh /\ u.read = c.read /\ u.written = c.written
        /\ u.output = c.output /\ u.thought = 0
    BY <1>2, <1>8, <2>1 DEF ClaudeUsage, Usage, TotalWires
  <2>3. u.priced <=> c.priced
    BY <1>3, <2>1 DEF ClaudeUsage, Usage
  <2> QED
    BY <1>1, <1>8, <2>2, <2>3 DEF TotalInput, TotalWires
<1>9. CASE ~c.silent /\ a \in {"openrouter", "chat"}
  <2>1. u = ChatUsage(r, a = "openrouter")
    BY <1>3, <1>4, <1>9 DEF DecodeUsage
  <2>2. u.input = Less(c.fresh + c.read + c.written, c.read) /\ u.read = c.read
        /\ u.written = c.written /\ u.output = c.output /\ u.thought = 0
    BY <1>2, <1>9, <2>1 DEF ChatUsage, Usage, TotalWires
  <2>3. /\ a = "openrouter" => (u.priced <=> c.priced)
        /\ a # "openrouter" => ~u.priced
    <3>1. u.priced = (a = "openrouter" /\ r.cost)
      BY <2>1 DEF ChatUsage, Usage
    <3> QED
      BY <1>3, <3>1
  <2>4. u.input = c.fresh + c.written
    BY <1>1, <2>2 DEF Less
  <2> QED
    BY <1>1, <1>9, <2>2, <2>3, <2>4 DEF TotalInput, TotalWires
<1> QED
  BY <1>1, <1>5, <1>6, <1>7, <1>8, <1>9 DEF Adapters

\* What the calls of a model told of.
InputTold(route) == SumOf(Told(route), Charged)
WrittenTold(route) == SumOf(Told(route), LAMBDA c : c.written)
OutputTold(route) == SumOf(Told(route), LAMBDA c : c.output)
ReadTold(route) == SumOf(Told(route), LAMBDA c : c.read)

Tally ==
  [calls : Nat, input : Nat, output : Nat, read : Nat, written : Nat, thought : Nat]
Call == [route : Routes, used : Consumptions]

TallyStands(route) ==
  /\ tallies[route].calls = Cardinality(ServedBy(route))
  /\ TotalInput(tallies[route]) = InputTold(route)
  /\ tallies[route].output = OutputTold(route)
  /\ tallies[route].read = ReadTold(route)
  /\ tallies[route].written = WrittenTold(route)
  /\ tallies[route].thought <= tallies[route].output

\* The totals are what the calls so far used, each of them in the totals of its model.
UsageInv ==
  /\ adapter \in Adapters
  /\ really \in Seq(Call)
  /\ tallies \in [Routes -> Tally]
  /\ \A route \in Routes : TallyStands(route)
  /\ unmetered = Cardinality(Unpriced)

\* A sum to which a call is added, when it told of anything and is its model's.
Added(q, route, used, before, after, more) ==
  /\ before \in Nat
  /\ q = route /\ ~used.silent => after = before + more
  /\ ~(q = route /\ ~used.silent) => after = before

\* The calls that are added up, when one more was made.
LEMMA ACallMore ==
  ASSUME MeteringAssumption, really \in Seq(Call), NEW route \in Routes,
         NEW used \in Consumptions, NEW q \in Routes,
         really' = Append(really, [route |-> route, used |-> used]), adapter' = adapter
  PROVE  /\ Cardinality(ServedBy(q)) \in Nat
         /\ q = route => Cardinality(ServedBy(q))' = Cardinality(ServedBy(q)) + 1
         /\ q # route => Cardinality(ServedBy(q))' = Cardinality(ServedBy(q))
         /\ Added(q, route, used, InputTold(q),
                  InputTold(q)', Charged(used))
         /\ Added(q, route, used, OutputTold(q),
                  OutputTold(q)', used.output)
         /\ Added(q, route, used, ReadTold(q),
                  ReadTold(q)', used.read)
         /\ Added(q, route, used, WrittenTold(q),
                  WrittenTold(q)', used.written)
<1> DEFINE calls == Len(really)
           new == [route |-> route, used |-> used]
<1>1. calls \in Nat /\ DOMAIN really = 1 .. calls /\ \A i \in 1 .. calls : really[i] \in Call
  BY LenProperties, ElementOfSeq
<1>2. new \in Call
  BY DEF Call
<1>3. /\ DOMAIN really' = 1 .. calls + 1 /\ \A i \in 1 .. calls : really'[i] = really[i]
      /\ really'[calls + 1] = new
  <2> HIDE DEF new
  <2>1. really' = Append(really, new)
    BY DEF new
  <2> QED
    BY <1>1, <1>2, <2>1, AppendProperties, LenProperties
<1>4. \A i \in 1 .. calls + 1 : really'[i] \in Call
  <2> TAKE i \in 1 .. calls + 1
  <2>1. i \in 1 .. calls \/ i = calls + 1
    BY <1>1
  <2> HIDE DEF calls, new
  <2> QED
    BY <1>1, <1>2, <1>3, <2>1
<1>5. \A u \in Consumptions : u.fresh \in Nat /\ u.read \in Nat /\ u.written \in Nat
                                /\ u.output \in Nat
  BY DEF MeteringAssumption, Consumption
<1>6. (\A i \in 1 .. calls : really[i].used \in Consumptions)
      /\ \A i \in 1 .. calls + 1 : really'[i].used \in Consumptions
  BY <1>1, <1>4 DEF Call
<1>7. new.route = route /\ new.used = used
  OBVIOUS
<1>p. PICK served, servedNow, heard, heardNow :
        /\ served = ServedBy(q) /\ servedNow = ServedBy(q)'
        /\ heard = Told(q) /\ heardNow = Told(q)'
  OBVIOUS
<1>8. /\ served \in SUBSET (1 .. calls) /\ servedNow \in SUBSET (1 .. calls + 1)
      /\ \A i \in 1 .. calls : i \in servedNow <=> i \in served
      /\ calls + 1 \in servedNow <=> q = route
  <2> HIDE DEF calls, new
  <2>1. calls + 1 \in 1 .. calls + 1 /\ \A i \in 1 .. calls : i \in 1 .. calls + 1
    BY <1>1
  <2> QED
    BY <1>1, <1>3, <1>7, <1>p, <2>1 DEF ServedBy
<1>9. /\ heard \in SUBSET (1 .. calls) /\ heardNow \in SUBSET (1 .. calls + 1)
      /\ \A i \in 1 .. calls : i \in heardNow <=> i \in heard
      /\ calls + 1 \in heardNow <=> q = route /\ ~used.silent
  <2>1. \A i \in 1 .. calls : i \in heardNow <=> i \in heard
    BY <1>3, <1>8, <1>p DEF Told
  <2>2. calls + 1 \in heardNow <=> q = route /\ ~used.silent
    BY <1>3, <1>7, <1>8, <1>p DEF Told
  <2> QED
    BY <1>8, <1>p, <2>1, <2>2 DEF Told
<1>10. /\ Cardinality(served) \in Nat
       /\ q = route => Cardinality(servedNow) = Cardinality(served) + 1
       /\ q # route => Cardinality(servedNow) = Cardinality(served)
  <2> HIDE DEF calls
  <2>1. /\ Cardinality(served) \in Nat
        /\ Cardinality(servedNow)
             = Cardinality(served) + (IF calls + 1 \in servedNow THEN 1 ELSE 0)
    BY <1>1, <1>8, CountGrows
  <2>2. CASE q = route
    BY <1>8, <2>1, <2>2
  <2>3. CASE q # route
    BY <1>8, <2>1, <2>3
  <2> QED
    BY <2>2, <2>3
<1>f. IsFiniteSet(heard)
  <2> HIDE DEF calls
  <2>1. 1 \in Int /\ calls \in Int
    BY <1>1
  <2>2. IsFiniteSet(1 .. calls)
    BY <2>1, FS_Interval
  <2> QED
    BY <1>9, <2>2, FS_Subset
<1>11. ASSUME NEW f \in [heard -> Nat], NEW g \in [heardNow -> Nat],
              \A i \in heard : g[i] = f[i]
       PROVE  Added(q, route, used, SumFunction(f), SumFunction(g), g[calls + 1])
  <2> DEFINE late == calls + 1
  <2>1. SumFunction(f) \in Nat
    BY <1>f, SumIsNumber
  <2>2. late \in heardNow <=> q = route /\ ~used.silent
    BY <1>9
  <2>3. late \notin heard
    BY <1>1, <1>9
  <2>4. late \in heardNow => heardNow = heard \cup {late}
    <3> HIDE DEF calls
    <3> QED
      BY <1>1, <1>9, LastMayJoin
  <2>5. late \notin heardNow => heardNow = heard
    <3> HIDE DEF calls
    <3> QED
      BY <1>1, <1>9, LastMayJoin
  <2> HIDE DEF calls, late
  <2>6. CASE late \in heardNow
    <3>1. g \in [heard \cup {late} -> Nat]
      BY <2>4, <2>6
    <3>2. SumFunction(g) = SumFunction(f) + g[late]
      BY ONLY <1>11, <1>f, <2>3, <3>1, f \in [heard -> Nat], SumGrows
    <3> QED
      BY <2>1, <2>2, <2>6, <3>2 DEF late, Added
  <2>7. CASE late \notin heardNow
    <3>1. g \in [heard -> Nat]
      BY <2>5, <2>7
    <3>2. g = f
      BY ONLY <1>11, <3>1, f \in [heard -> Nat]
    <3> QED
      BY <2>1, <2>2, <2>7, <3>2 DEF late, Added
  <2> QED
    BY <2>6, <2>7
<1>12. Added(q, route, used, OutputTold(q),
             OutputTold(q)', used.output)
  <2> DEFINE f == [i \in heard |-> really[i].used.output]
             g == [i \in heardNow |-> really'[i].used.output]
  <2>1. f \in [heard -> Nat] /\ g \in [heardNow -> Nat] /\ \A i \in heard : g[i] = f[i]
    <3> HIDE DEF calls
    <3> QED
      BY <1>3, <1>5, <1>6, <1>9
  <2>2. q = route /\ ~used.silent => g[calls + 1] = used.output
    BY <1>3, <1>7, <1>9
  <2>3. OutputTold(q) = SumFunction(f)
    BY <1>p DEF SumOf, InputTold, OutputTold, ReadTold
  <2>4. OutputTold(q)' = SumFunction(g)
    BY <1>p DEF SumOf, InputTold, OutputTold, ReadTold
  <2> HIDE DEF f, g, calls
  <2>5. Added(q, route, used, SumFunction(f), SumFunction(g), g[calls + 1])
    BY <1>11, <2>1
  <2> QED
    BY <2>2, <2>3, <2>4, <2>5 DEF Added
<1>13. Added(q, route, used, ReadTold(q),
             ReadTold(q)', used.read)
  <2> DEFINE f == [i \in heard |-> really[i].used.read]
             g == [i \in heardNow |-> really'[i].used.read]
  <2>1. f \in [heard -> Nat] /\ g \in [heardNow -> Nat] /\ \A i \in heard : g[i] = f[i]
    <3> HIDE DEF calls
    <3> QED
      BY <1>3, <1>5, <1>6, <1>9
  <2>2. q = route /\ ~used.silent => g[calls + 1] = used.read
    BY <1>3, <1>7, <1>9
  <2>3. ReadTold(q) = SumFunction(f)
    BY <1>p DEF SumOf, InputTold, OutputTold, ReadTold
  <2>4. ReadTold(q)' = SumFunction(g)
    BY <1>p DEF SumOf, InputTold, OutputTold, ReadTold
  <2> HIDE DEF f, g, calls
  <2>5. Added(q, route, used, SumFunction(f), SumFunction(g), g[calls + 1])
    BY <1>11, <2>1
  <2> QED
    BY <2>2, <2>3, <2>4, <2>5 DEF Added
<1>14. Added(q, route, used, InputTold(q),
             InputTold(q)', Charged(used))
  <2> DEFINE f == [i \in heard |-> Charged(really[i].used)]
             g == [i \in heardNow |-> Charged(really'[i].used)]
  <2>c. ASSUME NEW u \in Consumptions PROVE Charged(u) \in Nat /\ Charged(u)' = Charged(u)
    <3>1. Charged(u)' = Charged(u)
      BY DEF Charged
    <3>2. u.fresh \in Nat /\ u.read \in Nat /\ u.written \in Nat
      BY <1>5, u \in Consumptions
    <3>3. PICK again : again = IF adapter \in TotalWires THEN u.written ELSE 0
      OBVIOUS
    <3>4. again \in Nat
      BY ONLY <3>2, <3>3
    <3>5. Charged(u) = u.fresh + u.read + u.written + again
      BY <3>3 DEF Charged
    <3>6. Charged(u) \in Nat
      BY ONLY <3>2, <3>4, <3>5
    <3> QED
      BY <3>1, <3>6
  <2>1. f \in [heard -> Nat] /\ g \in [heardNow -> Nat] /\ \A i \in heard : g[i] = f[i]
    <3> HIDE DEF calls
    <3>2. \A i \in heard : really[i].used \in Consumptions /\ really'[i].used = really[i].used
      BY <1>3, <1>6, <1>9
    <3>3. \A i \in heardNow : really'[i].used \in Consumptions
      BY <1>6, <1>9
    <3>4. \A i \in heard : i \in heardNow
      BY <1>9
    <3> QED
      BY <2>c, <3>2, <3>3, <3>4
  <2>2. q = route /\ ~used.silent => g[calls + 1] = Charged(used)
    BY <1>3, <1>7, <1>9
  <2>3. InputTold(q) = SumFunction(f)
    BY <1>p DEF SumOf, InputTold
  <2>4. InputTold(q)' = SumFunction(g)
    BY <1>p DEF SumOf, InputTold, Charged
  <2> HIDE DEF f, g, calls
  <2>5. Added(q, route, used, SumFunction(f), SumFunction(g), g[calls + 1])
    BY <1>11, <2>1
  <2> QED
    BY <2>2, <2>3, <2>4, <2>5 DEF Added
<1>15. Added(q, route, used, WrittenTold(q),
             WrittenTold(q)', used.written)
  <2> DEFINE f == [i \in heard |-> really[i].used.written]
             g == [i \in heardNow |-> really'[i].used.written]
  <2>1. f \in [heard -> Nat] /\ g \in [heardNow -> Nat] /\ \A i \in heard : g[i] = f[i]
    <3> HIDE DEF calls
    <3> QED
      BY <1>3, <1>5, <1>6, <1>9
  <2>2. q = route /\ ~used.silent => g[calls + 1] = used.written
    BY <1>3, <1>7, <1>9
  <2>3. WrittenTold(q) = SumFunction(f)
    BY <1>p DEF SumOf, WrittenTold
  <2>4. WrittenTold(q)' = SumFunction(g)
    BY <1>p DEF SumOf, WrittenTold
  <2> HIDE DEF f, g, calls
  <2>5. Added(q, route, used, SumFunction(f), SumFunction(g), g[calls + 1])
    BY <1>11, <2>1
  <2> QED
    BY <2>2, <2>3, <2>4, <2>5 DEF Added
<1> QED
  BY <1>10, <1>12, <1>13, <1>14, <1>15, <1>p

\* No call has been made yet.
LEMMA UsageStarts ==
  ASSUME MeteringAssumption, MeteringInit
  PROVE  UsageInv
<1>1. really = <<>> /\ tallies = [r \in Routes |-> NoTally] /\ unmetered = 0
      /\ adapter \in Adapters
  BY DEF MeteringInit
<1>2. DOMAIN really = {}
  <2>1. really \in Seq({}) /\ Len(really) = 0
    BY <1>1
  <2>2. DOMAIN really = 1 .. Len(really)
    BY <2>1, LenProperties
  <2> QED
    BY <2>1, <2>2
<1>3. (\A q \in Routes : ServedBy(q) = {} /\ Told(q) = {}) /\ Unpriced = {}
  BY <1>2 DEF ServedBy, Told, Unpriced
<1>4. Cardinality({}) = 0
  BY FS_EmptySet
<1>5. really \in Seq(Call)
  BY <1>1
<1>6. NoTally \in Tally /\ tallies \in [Routes -> Tally]
  BY <1>1 DEF NoTally, Tally
<1>7. ASSUME NEW q \in Routes PROVE TallyStands(q)
  <2>1. \A f \in [{} -> Nat] : SumFunction(f) = 0
    BY SumOfNothing
  <2>2. /\ InputTold(q) = 0
        /\ OutputTold(q) = 0
        /\ ReadTold(q) = 0
        /\ WrittenTold(q) = 0
    BY <1>3, <2>1 DEF SumOf, InputTold, OutputTold, ReadTold, WrittenTold
  <2>3. tallies[q] = NoTally
    BY <1>1
  <2>4. /\ tallies[q].calls = 0 /\ tallies[q].output = 0 /\ tallies[q].read = 0
        /\ tallies[q].written = 0 /\ tallies[q].thought = 0 /\ TotalInput(tallies[q]) = 0
    BY <2>3 DEF NoTally, TotalInput
  <2>5. Cardinality(ServedBy(q)) = 0
    BY <1>3, <1>4
  <2>6. tallies[q].thought <= tallies[q].output
    BY <2>4
  <2>7. TotalInput(tallies[q]) = InputTold(q)
    BY <2>2, <2>4
  <2> QED
    BY <2>2, <2>4, <2>5, <2>6, <2>7 DEF TallyStands
<1> QED
  BY <1>1, <1>3, <1>4, <1>5, <1>6, <1>7 DEF UsageInv

\* A call is added to the totals of the model that served it, and nowhere else.
LEMMA UsageIsAdded ==
  ASSUME MeteringAssumption, UsageInv, NEW took \in 0 .. 1, NEW route \in Routes,
         NEW used \in Consumptions, Receive(took, route, used)
  PROVE  UsageInv'
<1> DEFINE u == DecodeUsage(adapter, Reported(adapter, used))
<1>1. /\ adapter \in Adapters /\ used \in Consumption /\ used.thought <= used.output
      /\ used.fresh \in Nat /\ used.read \in Nat /\ used.written \in Nat /\ used.output \in Nat
      /\ used.silent \in BOOLEAN /\ used.priced \in BOOLEAN
  BY DEF UsageInv, MeteringAssumption, Consumption
<1>2. /\ u.input \in Nat /\ u.read \in Nat /\ u.written \in Nat
      /\ u.output \in Nat /\ u.thought \in Nat
      /\ TotalInput(u) = IF used.silent THEN 0 ELSE Charged(used)
      /\ u.written = IF used.silent THEN 0 ELSE used.written
      /\ u.output = IF used.silent THEN 0 ELSE used.output
      /\ u.read = IF used.silent THEN 0 ELSE used.read
      /\ u.thought <= u.output
      /\ ~u.priced <=> used.silent \/ ~used.priced
                         \/ adapter \in {"anthropic", "openai", "chat"}
  BY <1>1, UsageIsRead DEF Charged
<1>3. /\ really' = Append(really, [route |-> route, used |-> used])
      /\ tallies' = [tallies EXCEPT ![route] = AddUsage(@, u)]
      /\ unmetered' = unmetered + (IF u.priced THEN 0 ELSE 1)
      /\ adapter' = adapter
  BY DEF Receive
<1> HIDE DEF u
<1>4. /\ really \in Seq(Call) /\ tallies \in [Routes -> Tally]
      /\ \A q \in Routes : TallyStands(q)
      /\ unmetered = Cardinality(Unpriced)
  BY DEF UsageInv
<1>5. really' \in Seq(Call)
  <2>1. [route |-> route, used |-> used] \in Call
    BY DEF Call
  <2> QED
    BY <1>3, <1>4, <2>1, AppendProperties
<1>6. \A q \in Routes : tallies[q] \in Tally
  BY <1>4
<1>7. AddUsage(tallies[route], u) \in Tally
  <2> DEFINE t == tallies[route]
  <2>1. /\ t.calls \in Nat /\ t.input \in Nat /\ t.output \in Nat /\ t.read \in Nat
        /\ t.written \in Nat /\ t.thought \in Nat
    BY <1>6 DEF Tally
  <2>2. u.input \in Nat /\ u.read \in Nat /\ u.written \in Nat
        /\ u.output \in Nat /\ u.thought \in Nat
    BY <1>2
  <2> HIDE DEF t
  <2>3. AddUsage(t, u) \in Tally
    BY ONLY <2>1, <2>2 DEF AddUsage, Tally
  <2> QED
    BY <2>3 DEF t
<1>8. tallies' \in [Routes -> Tally]
  BY <1>3, <1>4, <1>7
<1>9. ASSUME NEW q \in Routes PROVE TallyStands(q)'
  <2> DEFINE t == tallies[q]
             tt == tallies'[q]
  <2>1. /\ t.calls \in Nat /\ t.input \in Nat /\ t.output \in Nat /\ t.read \in Nat
        /\ t.written \in Nat /\ t.thought \in Nat
    BY <1>6 DEF Tally
  <2>2. /\ t.calls = Cardinality(ServedBy(q))
        /\ TotalInput(t) = InputTold(q)
        /\ t.output = OutputTold(q)
        /\ t.read = ReadTold(q)
        /\ t.written = WrittenTold(q)
        /\ t.thought <= t.output
    BY <1>4 DEF TallyStands
  <2>3. PICK n, nn, i, ii, o, oo, r, rr, w, ww :
          /\ n = Cardinality(ServedBy(q)) /\ nn = Cardinality(ServedBy(q))'
          /\ i = InputTold(q) /\ ii = InputTold(q)'
          /\ o = OutputTold(q) /\ oo = OutputTold(q)'
          /\ r = ReadTold(q) /\ rr = ReadTold(q)'
          /\ w = WrittenTold(q) /\ ww = WrittenTold(q)'
    OBVIOUS
  <2>x. /\ n \in Nat
        /\ q = route => nn = n + 1
        /\ q # route => nn = n
        /\ Added(q, route, used, i, ii, Charged(used))
        /\ Added(q, route, used, o, oo, used.output)
        /\ Added(q, route, used, r, rr, used.read)
        /\ Added(q, route, used, w, ww, used.written)
    BY <1>3, <1>4, <2>3, ACallMore
  <2>y. /\ q = route => /\ nn = n + 1 /\ ii = i + TotalInput(u) /\ oo = o + u.output
                        /\ rr = r + u.read /\ ww = w + u.written
        /\ q # route => nn = n /\ ii = i /\ oo = o /\ rr = r /\ ww = w
    <3>1. CASE used.silent
      BY <1>1, <1>2, <2>x, <3>1 DEF Added
    <3>2. CASE ~used.silent
      BY <1>1, <1>2, <2>x, <3>2 DEF Added
    <3> QED
      BY <3>1, <3>2
  <2>4. CASE q = route
    <3>1. tt = AddUsage(t, u)
      BY <1>3, <1>4, <2>4
    <3>2. /\ tt.calls = t.calls + 1 /\ tt.input = t.input + u.input
          /\ tt.output = t.output + u.output /\ tt.read = t.read + u.read
          /\ tt.written = t.written + u.written /\ tt.thought = t.thought + u.thought
      BY <3>1 DEF AddUsage
    <3> HIDE DEF t, tt
    <3>3. TotalInput(tt) = TotalInput(t) + TotalInput(u)
      <4>1. u.input \in Nat /\ u.read \in Nat /\ u.written \in Nat
        BY <1>2
      <4> QED
        BY ONLY <2>1, <3>2, <4>1 DEF TotalInput
    <3>4. tt.calls = Cardinality(ServedBy(q))'
      BY <2>2, <2>3, <2>4, <2>y, <3>2
    <3>5. TotalInput(tt) = InputTold(q)'
      BY <2>2, <2>3, <2>4, <2>y, <3>3
    <3>6. tt.output = OutputTold(q)'
      BY <2>2, <2>3, <2>4, <2>y, <3>2
    <3>7. tt.read = ReadTold(q)'
      BY <2>2, <2>3, <2>4, <2>y, <3>2
    <3>9. tt.written = WrittenTold(q)'
      BY <2>2, <2>3, <2>4, <2>y, <3>2
    <3>8. tt.thought <= tt.output
      <4>1. u.output \in Nat /\ u.thought \in Nat /\ u.thought <= u.output
        BY <1>2
      <4>2. t.thought <= t.output
        BY <2>2
      <4> QED
        BY ONLY <2>1, <3>2, <4>1, <4>2
    <3> QED
      BY <3>4, <3>5, <3>6, <3>7, <3>8, <3>9 DEF TallyStands, tt
  <2>5. CASE q # route
    <3>1. tt = t
      BY <1>3, <1>4, <2>5
    <3> HIDE DEF t, tt
    <3>4. tt.calls = Cardinality(ServedBy(q))'
      BY <2>2, <2>3, <2>5, <2>y, <3>1
    <3>5. TotalInput(tt) = InputTold(q)'
      BY <2>2, <2>3, <2>5, <2>y, <3>1
    <3>6. tt.output = OutputTold(q)'
      BY <2>2, <2>3, <2>5, <2>y, <3>1
    <3>7. tt.read = ReadTold(q)'
      BY <2>2, <2>3, <2>5, <2>y, <3>1
    <3>9. tt.written = WrittenTold(q)'
      BY <2>2, <2>3, <2>5, <2>y, <3>1
    <3>8. tt.thought <= tt.output
      BY <2>2, <3>1
    <3> QED
      BY <3>4, <3>5, <3>6, <3>7, <3>8, <3>9 DEF TallyStands, tt
  <2> QED
    BY <2>4, <2>5
<1>10. unmetered' = Cardinality(Unpriced)'
  <2> DEFINE calls == Len(really)
             new == [route |-> route, used |-> used]
  <2>1. calls \in Nat /\ DOMAIN really = 1 .. calls
    BY <1>4, LenProperties
  <2>2. /\ DOMAIN really' = 1 .. calls + 1 /\ \A i \in 1 .. calls : really'[i] = really[i]
        /\ really'[calls + 1] = new
    <3>1. new \in Call
      BY DEF Call
    <3> HIDE DEF new
    <3>2. really' = Append(really, new)
      BY <1>3 DEF new
    <3> QED
      BY <1>4, <2>1, <3>1, <3>2, AppendProperties, LenProperties
  <2>3. new.used = used
    OBVIOUS
  <2>4. PICK before, after : before = Unpriced /\ after = Unpriced'
    OBVIOUS
  <2> HIDE DEF calls, new
  <2>5. /\ before \in SUBSET (1 .. calls) /\ after \in SUBSET (1 .. calls + 1)
        /\ \A i \in 1 .. calls : i \in after <=> i \in before
    <3>1. \A i \in 1 .. calls : i \in 1 .. calls + 1
      BY <2>1
    <3> QED
      BY <1>3, <2>1, <2>2, <2>4, <3>1 DEF Unpriced
  <2>6. calls + 1 \in after <=> ~u.priced
    <3>1. calls + 1 \in 1 .. calls + 1
      BY <2>1
    <3> QED
      BY <1>2, <1>3, <2>2, <2>3, <2>4, <3>1 DEF Unpriced
  <2>7. /\ Cardinality(before) \in Nat
        /\ Cardinality(after) = Cardinality(before) + (IF calls + 1 \in after THEN 1 ELSE 0)
    BY <2>1, <2>5, CountGrows
  <2> QED
    BY <1>3, <1>4, <2>4, <2>6, <2>7
<1> QED
  BY <1>1, <1>3, <1>5, <1>8, <1>9, <1>10 DEF UsageInv
--------------------------------------------------------------------------------
(* Where the time went.                                                    *)

PhaseNames == {"segment", "budget", "plan", "assemble", "provider", "account", "tools"}
StageNames == PhaseNames \cup {"idle", "answered", "settled", "over"}
Times == [PhaseNames \cup {"total"} -> Nat]
Work == [PhaseNames \cup {"loop"} -> Nat]

LEMMA PhasesAre ==
  /\ Range(Phases) = PhaseNames
  /\ NextPhase("segment") = "budget" /\ NextPhase("budget") = "plan"
  /\ NextPhase("plan") = "assemble" /\ NextPhase("assemble") = "provider"
<1>1. DOMAIN Phases = 1 .. 7 /\ Phases[1] = "segment" /\ Phases[2] = "budget"
      /\ Phases[3] = "plan" /\ Phases[4] = "assemble" /\ Phases[5] = "provider"
      /\ Phases[6] = "account" /\ Phases[7] = "tools"
  BY DEF Phases
<1>2. \A i : i \in 1 .. 7 <=> i = 1 \/ i = 2 \/ i = 3 \/ i = 4 \/ i = 5 \/ i = 6 \/ i = 7
  OBVIOUS
<1> DEFINE names == Phases
<1>3. Range(Phases) = PhaseNames
  BY <1>1, <1>2 DEF Range, PhaseNames
<1>4. \A i \in 1 .. 4 : \A j \in DOMAIN Phases : Phases[j] = Phases[i] => j = i
  BY <1>1, <1>2
<1>5. ASSUME NEW i \in 1 .. 4 PROVE NextPhase(Phases[i]) = Phases[i + 1]
  <2>1. i \in DOMAIN Phases
    BY <1>1
  <2>2. (CHOOSE j \in DOMAIN Phases : Phases[j] = Phases[i]) = i
    BY <1>4, <2>1
  <2> QED
    BY <2>2 DEF NextPhase
<1> QED
  BY <1>1, <1>3, <1>5

\* Records of phases added up.
LEMMA WorkAddsUp ==
  ASSUME NEW U, NEW t \in [U -> Nat], FreysPhases \subseteq U
  PROVE  /\ SumOver(FreysPhases, t)
              = t["segment"] + t["budget"] + t["plan"] + t["assemble"] + t["account"]
         /\ "loop" \in U => SumOver(FreysPhases \cup {"loop"}, t)
              = t["segment"] + t["budget"] + t["plan"] + t["assemble"] + t["account"]
                + t["loop"]
<1> DEFINE A == {"segment"}
           B == A \cup {"budget"}
           C == B \cup {"plan"}
           D == C \cup {"assemble"}
           E == D \cup {"account"}
           F == E \cup {"loop"}
<1>1. FreysPhases = E
  BY DEF FreysPhases
<1>2. IsFiniteSet({}) /\ IsFiniteSet(A) /\ IsFiniteSet(B) /\ IsFiniteSet(C)
      /\ IsFiniteSet(D) /\ IsFiniteSet(E)
  <2>1. IsFiniteSet({})
    BY FS_EmptySet
  <2>2. IsFiniteSet({} \cup {"segment"}) /\ {} \cup {"segment"} = A
    BY <2>1, FS_AddElement
  <2>3. IsFiniteSet(B)
    BY <2>2, FS_AddElement
  <2>4. IsFiniteSet(C)
    BY <2>3, FS_AddElement
  <2>5. IsFiniteSet(D)
    BY <2>4, FS_AddElement
  <2> QED
    BY <2>1, <2>2, <2>3, <2>4, <2>5, FS_AddElement
<1>3. SumOver({}, t) = 0
  <2>1. Restrict(t, {}) \in [{} -> Nat]
    BY DEF Restrict
  <2> QED
    BY <2>1, SumOfNothing DEF SumOver
<1>4. /\ SumOver({}, t) \in Nat
      /\ SumOver({} \cup {"segment"}, t) = SumOver({}, t) + t["segment"]
  <2>1. PICK none : none = {}
    OBVIOUS
  <2>2. "segment" \notin none /\ none \cup {"segment"} \subseteq U /\ IsFiniteSet(none)
    BY <1>1, <1>2, <2>1
  <2>3. /\ SumOver(none, t) \in Nat
        /\ SumOver(none \cup {"segment"}, t) = SumOver(none, t) + t["segment"]
    BY <2>2, SumOverGrows
  <2> QED
    BY <2>1, <2>3
<1>5. /\ SumOver(A, t) \in Nat /\ SumOver(B, t) = SumOver(A, t) + t["budget"]
  <2>1. "budget" \notin A /\ A \cup {"budget"} \subseteq U
    BY <1>1
  <2> HIDE DEF A
  <2> QED
    BY <1>2, <2>1, SumOverGrows
<1>6. /\ SumOver(B, t) \in Nat /\ SumOver(C, t) = SumOver(B, t) + t["plan"]
  <2>1. "plan" \notin B /\ B \cup {"plan"} \subseteq U
    BY <1>1
  <2> HIDE DEF B
  <2> QED
    BY <1>2, <2>1, SumOverGrows
<1>7. /\ SumOver(C, t) \in Nat /\ SumOver(D, t) = SumOver(C, t) + t["assemble"]
  <2>1. "assemble" \notin C /\ C \cup {"assemble"} \subseteq U
    BY <1>1
  <2> HIDE DEF C
  <2> QED
    BY <1>2, <2>1, SumOverGrows
<1>8. /\ SumOver(D, t) \in Nat /\ SumOver(E, t) = SumOver(D, t) + t["account"]
  <2>1. "account" \notin D /\ D \cup {"account"} \subseteq U
    BY <1>1
  <2> HIDE DEF D
  <2> QED
    BY <1>2, <2>1, SumOverGrows
<1>9. ASSUME "loop" \in U
      PROVE  SumOver(E, t) \in Nat /\ SumOver(F, t) = SumOver(E, t) + t["loop"]
  <2>1. "loop" \notin E /\ E \cup {"loop"} \subseteq U
    BY <1>1, <1>9
  <2> HIDE DEF E
  <2> QED
    BY <1>2, <2>1, SumOverGrows
<1>10. {} \cup {"segment"} = A
  OBVIOUS
<1>11. /\ t["segment"] \in Nat /\ t["budget"] \in Nat /\ t["plan"] \in Nat
       /\ t["assemble"] \in Nat /\ t["account"] \in Nat
  BY <1>1
<1>12. F = FreysPhases \cup {"loop"}
  BY <1>1
<1>13. SumOver(A, t) = t["segment"]
  <2>1. SumOver(A, t) = SumOver({}, t) + t["segment"]
    BY <1>4, <1>10
  <2> HIDE DEF A
  <2> QED
    BY <1>3, <1>11, <2>1
<1> HIDE DEF A, B, C, D
<1>14. SumOver(C, t) = t["segment"] + t["budget"] + t["plan"]
  BY <1>5, <1>6, <1>11, <1>13
<1>15. SumOver(E, t) = t["segment"] + t["budget"] + t["plan"] + t["assemble"] + t["account"]
  <2> HIDE DEF E
  <2> QED
    BY <1>7, <1>8, <1>11, <1>14
<1> HIDE DEF E, F
<1> QED
  BY <1>1, <1>9, <1>12, <1>15

\* A share is at most the whole.
LEMMA ShareIsAShare ==
  ASSUME NEW a \in Nat, NEW b \in Nat, a <= b, b # 0
  PROVE  (a * 1000000) \div b <= 1000000
<1> DEFINE x == a * 1000000
           q == x \div b
<1>1. x \in Nat /\ x <= 1000000 * b
  OBVIOUS
<1> HIDE DEF x
<1>2. q \in Nat /\ b * q <= x
  BY <1>1
<1> HIDE DEF q
<1>3. ASSUME q > 1000000 PROVE FALSE
  <2>1. PICK k \in Nat : q = 1000001 + k
    <3>1. q - 1000001 \in Nat /\ q = 1000001 + (q - 1000001)
      BY <1>2, <1>3
    <3> QED
      BY <3>1
  <2>2. b * q = b * 1000001 + b * k
    BY <2>1
  <2>3. b * k \in Nat
    BY <2>1
  <2> QED
    BY <1>1, <1>2, <2>2, <2>3
<1> QED
  BY <1>2, <1>3 DEF q, x

Honest(t, w) ==
  /\ t.provider = w.provider /\ t.tools = w.tools
  /\ OverheadUs(t) = SumOver(FreysPhases \cup {"loop"}, w)
  /\ UnaccountedUs(t) = w.loop
  /\ OverheadPpm(t) <= 1000000
  /\ OverheadUs(t) \in Nat /\ OverheadUs(t) <= t.total
TimedTurns == {e \in [timing : Times, worked : Work] : Honest(e.timing, e.worked)}

\* The time of a turn is all there was between its start and its end.
LEMMA ATurnIsHonest ==
  ASSUME NEW t \in Times, NEW w \in Work, \A p \in PhaseNames : t[p] = w[p],
         t.total = w.segment + w.budget + w.plan + w.assemble + w.provider + w.account
                     + w.tools + w.loop
  PROVE  Honest(t, w)
<1>1. /\ w.segment \in Nat /\ w.budget \in Nat /\ w.plan \in Nat /\ w.assemble \in Nat
      /\ w.provider \in Nat /\ w.account \in Nat /\ w.tools \in Nat /\ w.loop \in Nat
      /\ t.total \in Nat
  BY DEF Work, Times, PhaseNames
<1>2. /\ t.segment = w.segment /\ t.budget = w.budget /\ t.plan = w.plan
      /\ t.assemble = w.assemble /\ t.provider = w.provider /\ t.account = w.account
      /\ t.tools = w.tools
  BY DEF PhaseNames
<1>3. PICK ours \in Nat :
        ours = w.segment + w.budget + w.plan + w.assemble + w.account + w.loop
  BY <1>1
<1>4. OverheadUs(t) = w.segment + w.budget + w.plan + w.assemble + w.account + w.loop
  <2>1. t.total = ours + w.tools + w.provider
    BY <1>1, <1>3
  <2>2. Less(t.total, t.provider) = ours + w.tools
    <3>1. t.total \in Nat /\ t.provider \in Nat /\ w.tools \in Nat
          /\ t.total = ours + w.tools + t.provider
      BY <1>1, <1>2, <2>1
    <3> QED
      BY ONLY <3>1, ours \in Nat DEF Less
  <2>3. Less(ours + w.tools, t.tools) = ours
    BY <1>1, <1>2 DEF Less
  <2> QED
    BY <1>3, <2>2, <2>3 DEF OverheadUs
<1>5. AccountedUs(t) = w.segment + w.budget + w.plan + w.assemble + w.account
  <2>1. t \in [PhaseNames \cup {"total"} -> Nat]
    BY DEF Times
  <2>2. FreysPhases \subseteq PhaseNames \cup {"total"}
    BY DEF FreysPhases, PhaseNames
  <2>3. SumOver(FreysPhases, t)
          = t["segment"] + t["budget"] + t["plan"] + t["assemble"] + t["account"]
    BY <2>1, <2>2, WorkAddsUp
  <2> QED
    BY <1>2, <2>3 DEF AccountedUs
<1>6. SumOver(FreysPhases \cup {"loop"}, w)
        = w.segment + w.budget + w.plan + w.assemble + w.account + w.loop
  <2>1. w \in [PhaseNames \cup {"loop"} -> Nat]
    BY DEF Work
  <2>2. FreysPhases \cup {"loop"} \subseteq PhaseNames \cup {"loop"}
    BY DEF FreysPhases, PhaseNames
  <2> QED
    BY <2>1, <2>2, WorkAddsUp
<1>7. OverheadUs(t) \in Nat /\ OverheadUs(t) <= t.total
  BY <1>1, <1>4
<1>8. UnaccountedUs(t) = w.loop
  BY <1>1, <1>4, <1>5 DEF Less, UnaccountedUs
<1>9. OverheadPpm(t) <= 1000000
  <2>1. CASE t.total = 0
    BY <2>1 DEF OverheadPpm
  <2>2. CASE t.total # 0
    <3>1. (OverheadUs(t) * 1000000) \div t.total <= 1000000
      BY <1>1, <1>7, <2>2, ShareIsAShare
    <3> QED
      BY <2>2, <3>1 DEF OverheadPpm
  <2> QED
    BY <2>1, <2>2
<1> QED
  BY <1>2, <1>4, <1>6, <1>7, <1>8, <1>9 DEF Honest

Elapsed(w) ==
  w.segment + w.budget + w.plan + w.assemble + w.provider + w.account + w.tools + w.loop

\* What is still to come has taken no time.
Ahead(s) ==
  CASE s = "segment" -> PhaseNames
    [] s = "budget" -> PhaseNames \ {"segment"}
    [] s = "plan" -> {"plan", "assemble", "provider", "account", "tools"}
    [] s = "assemble" -> {"assemble", "provider", "account", "tools"}
    [] s = "provider" -> {"provider", "account", "tools"}
    [] s = "account" -> {"account", "tools"}
    [] s = "tools" -> {"tools"}
    [] OTHER -> {}

\* While a turn runs, every moment since its start is in a phase or in the loop, and the
\* phases that are over are timed as what they took; the turns that were timed are honest.
ClockInv ==
  /\ stage \in StageNames
  /\ clock \in Nat /\ started \in Nat /\ phase \in Nat
  /\ worked \in Work /\ timing \in Times
  /\ timed \in Seq(TimedTurns)
  /\ stage \notin {"idle", "over"} =>
       /\ phase = clock
       /\ clock = started + Elapsed(worked)
       /\ \A p \in PhaseNames : timing[p] = worked[p]
       /\ \A p \in Ahead(stage) : worked[p] = 0

Spend(w, p, took) == [w EXCEPT ![p] = @ + took]

LEMMA ElapsedGrows ==
  ASSUME NEW w \in Work, NEW p \in PhaseNames \cup {"loop"}, NEW took \in Nat,
         NEW ww, ww = Spend(w, p, took)
  PROVE  /\ ww \in Work /\ Elapsed(ww) = Elapsed(w) + took /\ Elapsed(w) \in Nat
         /\ ww[p] = w[p] + took
<1>1. w \in [PhaseNames \cup {"loop"} -> Nat]
  BY DEF Work
<1>2. w[p] \in Nat
  BY <1>1
<1>3. ww \in [PhaseNames \cup {"loop"} -> Nat]
  BY <1>1, <1>2 DEF Spend
<1>4. ww[p] = w[p] + took /\ \A q \in PhaseNames \cup {"loop"} : q # p => ww[q] = w[q]
  BY <1>1 DEF Spend
<1>5. /\ w.segment \in Nat /\ w.budget \in Nat /\ w.plan \in Nat /\ w.assemble \in Nat
      /\ w.provider \in Nat /\ w.account \in Nat /\ w.tools \in Nat /\ w.loop \in Nat
  BY <1>1 DEF PhaseNames
<1>6. \A q \in {"segment", "budget", "plan", "assemble", "provider", "account", "tools",
                "loop"} : q # p => ww[q] = w[q]
  BY <1>4 DEF PhaseNames
<1>7. Elapsed(ww) = Elapsed(w) + took
  <2>1. CASE p = "segment"
    <3>1. /\ ww.segment = w.segment + took /\ ww.budget = w.budget /\ ww.plan = w.plan
          /\ ww.assemble = w.assemble /\ ww.provider = w.provider
          /\ ww.account = w.account /\ ww.tools = w.tools /\ ww.loop = w.loop
      BY <1>4, <1>6, <2>1
    <3> QED
      BY ONLY <1>5, <3>1, took \in Nat DEF Elapsed
  <2>2. CASE p = "budget"
    <3>1. /\ ww.segment = w.segment /\ ww.budget = w.budget + took /\ ww.plan = w.plan
          /\ ww.assemble = w.assemble /\ ww.provider = w.provider
          /\ ww.account = w.account /\ ww.tools = w.tools /\ ww.loop = w.loop
      BY <1>4, <1>6, <2>2
    <3> QED
      BY ONLY <1>5, <3>1, took \in Nat DEF Elapsed
  <2>3. CASE p = "plan"
    <3>1. /\ ww.segment = w.segment /\ ww.budget = w.budget /\ ww.plan = w.plan + took
          /\ ww.assemble = w.assemble /\ ww.provider = w.provider
          /\ ww.account = w.account /\ ww.tools = w.tools /\ ww.loop = w.loop
      BY <1>4, <1>6, <2>3
    <3> QED
      BY ONLY <1>5, <3>1, took \in Nat DEF Elapsed
  <2>4. CASE p = "assemble"
    <3>1. /\ ww.segment = w.segment /\ ww.budget = w.budget /\ ww.plan = w.plan
          /\ ww.assemble = w.assemble + took /\ ww.provider = w.provider
          /\ ww.account = w.account /\ ww.tools = w.tools /\ ww.loop = w.loop
      BY <1>4, <1>6, <2>4
    <3> QED
      BY ONLY <1>5, <3>1, took \in Nat DEF Elapsed
  <2>5. CASE p = "provider"
    <3>1. /\ ww.segment = w.segment /\ ww.budget = w.budget /\ ww.plan = w.plan
          /\ ww.assemble = w.assemble /\ ww.provider = w.provider + took
          /\ ww.account = w.account /\ ww.tools = w.tools /\ ww.loop = w.loop
      BY <1>4, <1>6, <2>5
    <3> QED
      BY ONLY <1>5, <3>1, took \in Nat DEF Elapsed
  <2>6. CASE p = "account"
    <3>1. /\ ww.segment = w.segment /\ ww.budget = w.budget /\ ww.plan = w.plan
          /\ ww.assemble = w.assemble /\ ww.provider = w.provider
          /\ ww.account = w.account + took /\ ww.tools = w.tools /\ ww.loop = w.loop
      BY <1>4, <1>6, <2>6
    <3> QED
      BY ONLY <1>5, <3>1, took \in Nat DEF Elapsed
  <2>7. CASE p = "tools"
    <3>1. /\ ww.segment = w.segment /\ ww.budget = w.budget /\ ww.plan = w.plan
          /\ ww.assemble = w.assemble /\ ww.provider = w.provider
          /\ ww.account = w.account /\ ww.tools = w.tools + took /\ ww.loop = w.loop
      BY <1>4, <1>6, <2>7
    <3> QED
      BY ONLY <1>5, <3>1, took \in Nat DEF Elapsed
  <2>8. CASE p = "loop"
    <3>1. /\ ww.segment = w.segment /\ ww.budget = w.budget /\ ww.plan = w.plan
          /\ ww.assemble = w.assemble /\ ww.provider = w.provider
          /\ ww.account = w.account /\ ww.tools = w.tools /\ ww.loop = w.loop + took
      BY <1>4, <1>6, <2>8
    <3> QED
      BY ONLY <1>5, <3>1, took \in Nat DEF Elapsed
  <2> QED
    BY <2>1, <2>2, <2>3, <2>4, <2>5, <2>6, <2>7, <2>8 DEF PhaseNames
<1>8. Elapsed(w) \in Nat
  BY <1>5 DEF Elapsed
<1> QED
  BY <1>3, <1>4, <1>7, <1>8 DEF Work

\* A phase is over: its time is what it took, since the clock of the phases moved with it.
LEMMA APhaseIsTimed ==
  ASSUME ClockInv, NEW took \in 0 .. 1, stage \in PhaseNames, Passes(stage, took),
         ElapsedUs(stage, clock')
  PROVE  /\ clock' \in Nat /\ phase' = clock' /\ clock' = started + Elapsed(worked')
         /\ worked' \in Work /\ timing' \in Times
         /\ \A p \in PhaseNames : timing'[p] = worked'[p]
         /\ \A p \in Ahead(stage) \ {stage} : worked'[p] = 0
<1>1. /\ clock \in Nat /\ started \in Nat /\ worked \in Work /\ timing \in Times
      /\ phase = clock /\ clock = started + Elapsed(worked)
      /\ \A p \in PhaseNames : timing[p] = worked[p]
      /\ \A p \in Ahead(stage) : worked[p] = 0
  BY DEF ClockInv, PhaseNames
<1>2. /\ clock' = clock + took /\ worked' = [worked EXCEPT ![stage] = @ + took]
      /\ timing' = [timing EXCEPT ![stage] = clock' - phase] /\ phase' = clock'
  BY DEF Passes, ElapsedUs
<1>3. took \in Nat
  OBVIOUS
<1>4. /\ worked' \in Work /\ Elapsed(worked') = Elapsed(worked) + took
      /\ Elapsed(worked) \in Nat /\ worked'[stage] = worked[stage] + took
      /\ \A q \in PhaseNames \cup {"loop"} : q # stage => worked'[q] = worked[q]
  <2>1. PICK w, ww, p : w = worked /\ ww = worked' /\ p = stage
    OBVIOUS
  <2>2. w \in Work /\ p \in PhaseNames \cup {"loop"} /\ ww = Spend(w, p, took)
    BY <1>1, <1>2, <2>1 DEF Spend
  <2>3. ww \in Work /\ Elapsed(w) \in Nat
    BY ONLY <1>3, <2>2, ElapsedGrows
  <2>4. Elapsed(ww) = Elapsed(w) + took
    BY ONLY <1>3, <2>2, ElapsedGrows
  <2>5. ww[p] = w[p] + took
    BY ONLY <1>3, <2>2, ElapsedGrows
  <2>6. ASSUME NEW q \in PhaseNames \cup {"loop"}, q # p PROVE ww[q] = w[q]
    BY <2>2, <2>6 DEF Spend, Work
  <2> QED
    BY <2>1, <2>3, <2>4, <2>5, <2>6
<1>5. clock' - phase = took
  BY <1>1, <1>2, <1>3
<1>6. worked[stage] = 0
  <2>1. stage \in Ahead(stage)
    BY DEF Ahead, PhaseNames
  <2> QED
    BY <1>1, <2>1
<1>7. timing \in [PhaseNames \cup {"total"} -> Nat]
  BY <1>1 DEF Times
<1>8. timing' = [timing EXCEPT ![stage] = took]
  BY <1>2, <1>5
<1>9. timing' \in Times /\ timing'[stage] = took
      /\ \A q \in PhaseNames : q # stage => timing'[q] = timing[q]
  BY <1>3, <1>7, <1>8 DEF Times
<1>10. worked'[stage] = took
  BY <1>3, <1>4, <1>6
<1>11. \A p \in PhaseNames : timing'[p] = worked'[p]
  BY <1>1, <1>4, <1>9, <1>10
<1>12. Ahead(stage) \subseteq PhaseNames
  BY DEF Ahead, PhaseNames
<1>13. \A p \in Ahead(stage) \ {stage} : worked'[p] = 0
  BY <1>1, <1>4, <1>12
<1>14. clock' \in Nat /\ clock' = started + Elapsed(worked')
  BY <1>1, <1>2, <1>3, <1>4
<1> QED
  BY <1>2, <1>4, <1>9, <1>11, <1>13, <1>14

LEMMA ClockStarts ==
  ASSUME MeteringInit
  PROVE  ClockInv
<1>1. /\ stage = "idle" /\ clock = 0 /\ started = 0 /\ phase = 0 /\ timed = <<>>
      /\ timing = NoTiming /\ worked = [p \in Range(Phases) \cup {"loop"} |-> 0]
  BY DEF MeteringInit
<1>2. worked \in Work /\ timing \in Times
  BY <1>1, PhasesAre DEF NoTiming, Work, Times
<1>3. timed \in Seq(TimedTurns)
  BY <1>1
<1> QED
  BY <1>1, <1>2, <1>3 DEF ClockInv, StageNames

\* Every step of the clock.
LEMMA ClockGoesOn ==
  ASSUME MeteringAssumption, ClockInv, [MeteringNext]_meteringVars
  PROVE  ClockInv'
<1>1. /\ clock \in Nat /\ started \in Nat /\ phase \in Nat
      /\ worked \in Work /\ timing \in Times /\ timed \in Seq(TimedTurns)
      /\ stage \in StageNames
  BY DEF ClockInv
<1>2. ASSUME NEW took \in 0 .. 1, StartTurn(took) PROVE ClockInv'
  <2>1. /\ clock' = clock + took /\ started' = clock /\ phase' = clock' /\ timing' = NoTiming
        /\ stage' = "segment" /\ timed' = timed
        /\ worked' = [p \in DOMAIN worked |-> IF p = "loop" THEN took ELSE 0]
    BY <1>2 DEF StartTurn
  <2>2. took \in Nat
    OBVIOUS
  <2>3. DOMAIN worked = PhaseNames \cup {"loop"}
    BY <1>1 DEF Work
  <2>4. worked' \in Work /\ worked'["loop"] = took /\ \A p \in PhaseNames : worked'[p] = 0
    BY <2>1, <2>2, <2>3 DEF Work, PhaseNames
  <2>5. timing' \in Times /\ \A p \in PhaseNames : timing'[p] = 0
    BY <2>1, PhasesAre DEF NoTiming, Times
  <2>6. Elapsed(worked') = took
    <3>1. PICK ww : ww = worked'
      OBVIOUS
    <3>2. /\ ww.segment = 0 /\ ww.budget = 0 /\ ww.plan = 0 /\ ww.assemble = 0
          /\ ww.provider = 0 /\ ww.account = 0 /\ ww.tools = 0 /\ ww.loop = took
      BY <2>4, <3>1 DEF PhaseNames
    <3>3. Elapsed(ww) = took
      BY ONLY <2>2, <3>2 DEF Elapsed
    <3> QED
      BY <3>1, <3>3
  <2>7. stage' \in StageNames /\ Ahead(stage') = PhaseNames
    BY <2>1 DEF StageNames, PhaseNames, Ahead
  <2>8. clock' \in Nat /\ started' \in Nat /\ phase' \in Nat
        /\ clock' = started' + Elapsed(worked')
    BY <1>1, <2>1, <2>2, <2>6
  <2>9. \A p \in PhaseNames : timing'[p] = worked'[p]
    BY <2>4, <2>5
  <2>10. (\A p \in Ahead(stage) : worked[p] = 0)'
    BY <2>4, <2>7
  <2> QED
    BY <1>1, <2>1, <2>4, <2>5, <2>7, <2>8, <2>9, <2>10 DEF ClockInv
<1>3. ASSUME NEW took \in 0 .. 1, stage \in PhaseNames, Passes(stage, took),
             ElapsedUs(stage, clock'), started' = started, timed' = timed,
             stage' \in StageNames, Ahead(stage') \subseteq Ahead(stage) \ {stage}
      PROVE  ClockInv'
  <2>1. /\ clock' \in Nat /\ phase' = clock' /\ clock' = started + Elapsed(worked')
        /\ worked' \in Work /\ timing' \in Times
        /\ \A p \in PhaseNames : timing'[p] = worked'[p]
        /\ \A p \in Ahead(stage) \ {stage} : worked'[p] = 0
    BY <1>3, APhaseIsTimed
  <2>2. (\A p \in Ahead(stage) : worked[p] = 0)'
    BY <1>3, <2>1
  <2> QED
    BY <1>1, <1>3, <2>1, <2>2 DEF ClockInv
<1>4. ASSUME NEW took \in 0 .. 1, Prepare(took) PROVE ClockInv'
  <2>1. /\ stage \in {"segment", "budget", "plan", "assemble"} /\ Passes(stage, took)
        /\ ElapsedUs(stage, clock') /\ started' = started /\ timed' = timed
        /\ stage' = NextPhase(stage)
    BY <1>4 DEF Prepare
  <2>2. stage' \in StageNames /\ Ahead(stage') \subseteq Ahead(stage) \ {stage}
    <3>1. CASE stage = "segment"
      BY <2>1, <3>1, PhasesAre DEF StageNames, PhaseNames, Ahead
    <3>2. CASE stage = "budget"
      BY <2>1, <3>2, PhasesAre DEF StageNames, PhaseNames, Ahead
    <3>3. CASE stage = "plan"
      BY <2>1, <3>3, PhasesAre DEF StageNames, PhaseNames, Ahead
    <3>4. CASE stage = "assemble"
      BY <2>1, <3>4, PhasesAre DEF StageNames, PhaseNames, Ahead
    <3> QED
      BY <2>1, <3>1, <3>2, <3>3, <3>4
  <2>3. stage \in PhaseNames
    BY <2>1 DEF PhaseNames
  <2> QED
    BY <1>3, <2>1, <2>2, <2>3
<1>5. ASSUME NEW took \in 0 .. 1, NEW route \in Routes, NEW c \in Consumptions,
             Receive(took, route, c)
      PROVE  ClockInv'
  <2>1. /\ stage = "provider" /\ Passes(stage, took) /\ ElapsedUs(stage, clock')
        /\ started' = started /\ timed' = timed /\ stage' = "account"
    BY <1>5 DEF Receive
  <2>2. stage \in PhaseNames /\ stage' \in StageNames
        /\ Ahead(stage') \subseteq Ahead(stage) \ {stage}
    BY <2>1 DEF StageNames, PhaseNames, Ahead
  <2> QED
    BY <1>3, <2>1, <2>2
<1>6. ASSUME NEW took \in 0 .. 1, Account(took) PROVE ClockInv'
  <2>1. /\ stage = "account" /\ Passes(stage, took) /\ ElapsedUs(stage, clock')
        /\ started' = started /\ timed' = timed /\ stage' \in {"tools", "answered"}
    BY <1>6 DEF Account, timeVars
  <2>2. stage \in PhaseNames /\ stage' \in StageNames
        /\ Ahead(stage') \subseteq Ahead(stage) \ {stage}
    BY <2>1 DEF StageNames, PhaseNames, Ahead
  <2> QED
    BY <1>3, <2>1, <2>2
<1>7. ASSUME NEW took \in 0 .. 1, UseTools(took) PROVE ClockInv'
  <2>1. /\ stage = "tools" /\ Passes(stage, took) /\ ElapsedUs(stage, clock')
        /\ started' = started /\ timed' = timed /\ stage' = "settled"
    BY <1>7 DEF UseTools
  <2>2. stage \in PhaseNames /\ stage' \in StageNames
        /\ Ahead(stage') \subseteq Ahead(stage) \ {stage}
    BY <2>1 DEF StageNames, PhaseNames, Ahead
  <2> QED
    BY <1>3, <2>1, <2>2
<1>8. ASSUME NEW took \in 0 .. 1, FinishTurn(took) PROVE ClockInv'
  <2>1. /\ stage \in {"answered", "settled"} /\ clock' = clock + took
        /\ worked' = [worked EXCEPT !["loop"] = @ + took]
        /\ timing' = [timing EXCEPT !["total"] = clock' - started]
        /\ timed' = Append(timed, [timing |-> timing', worked |-> worked'])
        /\ stage' = (IF stage = "settled" THEN "idle" ELSE "over")
        /\ started' = started /\ phase' = phase
    BY <1>8 DEF FinishTurn, Passes
  <2>2. /\ clock = started + Elapsed(worked)
        /\ \A p \in PhaseNames : timing[p] = worked[p]
    BY <2>1 DEF ClockInv
  <2>3. took \in Nat
    OBVIOUS
  <2>4. PICK w, ww : w = worked /\ ww = worked'
    OBVIOUS
  <2>5. /\ ww \in Work /\ Elapsed(ww) = Elapsed(w) + took /\ Elapsed(w) \in Nat
        /\ \A q \in PhaseNames \cup {"loop"} : q # "loop" => ww[q] = w[q]
    <3>1. w \in Work /\ "loop" \in PhaseNames \cup {"loop"} /\ ww = Spend(w, "loop", took)
      BY <1>1, <2>1, <2>4 DEF Spend
    <3> QED
      <4>1. ww \in Work /\ Elapsed(w) \in Nat
        BY ONLY <2>3, <3>1, ElapsedGrows
      <4>2. Elapsed(ww) = Elapsed(w) + took
        BY ONLY <2>3, <3>1, ElapsedGrows
      <4>3. \A q \in PhaseNames \cup {"loop"} : q # "loop" => ww[q] = w[q]
        BY <3>1 DEF Spend, Work
      <4> QED
        BY <4>1, <4>2, <4>3
  <2>6. clock' - started = Elapsed(ww) /\ Elapsed(ww) \in Nat /\ clock' \in Nat
    BY <1>1, <2>1, <2>2, <2>3, <2>4, <2>5
  <2>7. timing \in [PhaseNames \cup {"total"} -> Nat]
    BY <1>1 DEF Times
  <2>8. timing' = [timing EXCEPT !["total"] = Elapsed(ww)]
    BY <2>1, <2>6
  <2>9. /\ timing' \in Times /\ timing'["total"] = Elapsed(ww)
        /\ \A p \in PhaseNames : timing'[p] = timing[p]
    BY <2>6, <2>7, <2>8 DEF Times, PhaseNames
  <2>10. \A p \in PhaseNames : timing'[p] = ww[p]
    BY <2>2, <2>4, <2>5, <2>9 DEF PhaseNames
  <2>11. PICK t : t = timing'
    OBVIOUS
  <2>12. Honest(t, ww)
    <3>1. t \in Times /\ ww \in Work /\ (\A p \in PhaseNames : t[p] = ww[p])
          /\ t.total = ww.segment + ww.budget + ww.plan + ww.assemble + ww.provider
                         + ww.account + ww.tools + ww.loop
      BY <2>5, <2>9, <2>10, <2>11 DEF Elapsed
    <3> QED
      BY ONLY <3>1, ATurnIsHonest
  <2>13. [timing |-> t, worked |-> ww] \in TimedTurns
    <3>1. t \in Times /\ ww \in Work
      BY <2>5, <2>9, <2>11
    <3> QED
      BY <2>12, <3>1 DEF TimedTurns
  <2>14. timed' \in Seq(TimedTurns)
    <3>1. timed' = Append(timed, [timing |-> t, worked |-> ww])
      BY <2>1, <2>4, <2>11
    <3> QED
      BY <1>1, <2>13, <3>1, AppendProperties
  <2>15. stage' \in {"idle", "over"} /\ stage' \in StageNames
    BY <2>1 DEF StageNames
  <2> QED
    BY <1>1, <2>1, <2>4, <2>5, <2>6, <2>9, <2>14, <2>15 DEF ClockInv
<1>9. ASSUME GiveUp PROVE ClockInv'
  <2>1. /\ stage' = "over" /\ clock' = clock /\ started' = started /\ phase' = phase
        /\ timing' = timing /\ worked' = worked /\ timed' = timed
    BY <1>9 DEF GiveUp
  <2> QED
    BY <1>1, <2>1 DEF ClockInv, StageNames
<1>10. ASSUME UNCHANGED timeVars PROVE ClockInv'
  <2>1. /\ stage' = stage /\ clock' = clock /\ started' = started /\ phase' = phase
        /\ timing' = timing /\ worked' = worked /\ timed' = timed
    BY <1>10 DEF timeVars
  <2> QED
    BY <2>1 DEF ClockInv
<1>11. ASSUME NEW lines \in JournalFiles, ReadBack(lines) PROVE ClockInv'
  BY <1>10, <1>11 DEF ReadBack
<1>12. ASSUME UNCHANGED meteringVars PROVE ClockInv'
  BY <1>10, <1>12 DEF meteringVars, timeVars
<1> QED
  BY <1>2, <1>4, <1>5, <1>6, <1>7, <1>8, <1>9, <1>11, <1>12 DEF MeteringNext
--------------------------------------------------------------------------------
(* What is read back.                                                      *)

\* Every journal of a file is read once, on a line of its own or as the file.
LEMMA JournalsAreFound ==
  ASSUME NEW lines \in Seq({"journal", "blank", "other"})
  PROVE  /\ Cardinality(Candidates(lines))
              = Cardinality({i \in DOMAIN lines : lines[i] = "journal"})
         /\ Cardinality({i \in DOMAIN lines : lines[i] = "journal"}) \in Nat
<1> DEFINE journals == {i \in DOMAIN lines : lines[i] = "journal"}
           said == {i \in DOMAIN lines : lines[i] # "blank"}
<1>1. IsFiniteSet(journals) /\ Cardinality(journals) \in Nat
  <2> DEFINE n == Len(lines)
  <2>1. n \in Nat /\ DOMAIN lines = 1 .. n
    BY LenProperties
  <2>2. journals \in SUBSET (1 .. n)
    BY <2>1
  <2> HIDE DEF n, journals
  <2>3. 1 \in Int /\ n \in Int
    BY <2>1
  <2>4. IsFiniteSet(1 .. n)
    BY <2>3, FS_Interval
  <2> QED
    BY <2>2, <2>4, FS_Subset, FS_CardinalityType
<1>2. CASE \E i \in said : said = {i} /\ lines[i] = "journal"
  <2>1. PICK i \in said : said = {i} /\ lines[i] = "journal"
    BY <1>2
  <2>2. journals = {i}
    BY <2>1
  <2>3. Candidates(lines) = {0}
    BY <1>2 DEF Candidates
  <2>4. Cardinality({i}) = 1 /\ Cardinality({0}) = 1
    BY FS_Singleton
  <2>5. Cardinality(Candidates(lines)) = Cardinality(journals)
    BY <2>2, <2>3, <2>4
  <2> QED
    BY <1>1, <2>5
<1>3. CASE ~\E i \in said : said = {i} /\ lines[i] = "journal"
  <2>1. Candidates(lines) = {i \in said : lines[i] = "journal"}
    BY <1>3 DEF Candidates
  <2>2. {i \in said : lines[i] = "journal"} = journals
    OBVIOUS
  <2>3. Cardinality(Candidates(lines)) = Cardinality(journals)
    BY <2>1, <2>2
  <2> QED
    BY <1>1, <2>3
<1> QED
  BY <1>2, <1>3

\* The turns of a file are read back once for every journal, and no more of their time is
\* the framework's than there was.
LEMMA TimingsTell ==
  ASSUME NEW lines \in Seq({"journal", "blank", "other"}), NEW measured \in Seq(Times),
         \A i \in DOMAIN measured : OverheadUs(measured[i]) \in Nat
                                 /\ OverheadUs(measured[i]) <= measured[i].total
  PROVE  /\ Timings(lines, measured).turns
              = Cardinality({i \in DOMAIN lines : lines[i] = "journal"}) * Len(measured)
         /\ Timings(lines, measured).overhead <= Timings(lines, measured).total
<1>1. PICK journals \in Nat :
        /\ journals = Cardinality({i \in DOMAIN lines : lines[i] = "journal"})
        /\ journals = Cardinality(Candidates(lines))
  BY JournalsAreFound
<1>2. PICK n \in Nat : n = Len(measured) /\ DOMAIN measured = 1 .. n
  BY LenProperties
<1>3. PICK m \in Nat : m = journals * n
  <2>1. journals * n \in Nat
    OBVIOUS
  <2> QED
    BY <2>1
<1> DEFINE all == [k \in 1 .. m |-> measured[((k - 1) % n) + 1]]
<1>4. Timings(lines, measured)
        = IF all = <<>> THEN [journals |-> 0, turns |-> 0, total |-> 0, overhead |-> 0]
          ELSE [journals |-> journals, turns |-> Len(all),
                total |-> Median([k \in DOMAIN all |-> all[k].total]),
                overhead |-> Median([k \in DOMAIN all |-> OverheadUs(all[k])])]
  BY <1>1, <1>2, <1>3 DEF Timings
<1>5. ASSUME NEW k \in 1 .. m PROVE ((k - 1) % n) + 1 \in 1 .. n
  <2>1. n > 0
    BY <1>1, <1>2, <1>3
  <2>2. k - 1 \in Nat
    OBVIOUS
  <2> QED
    BY <1>2, <2>1, <2>2
<1>6. \A i \in 1 .. n : /\ measured[i] \in Times
                        /\ OverheadUs(measured[i]) \in Nat
                        /\ OverheadUs(measured[i]) <= measured[i].total
  BY <1>2, ElementOfSeq
<1>7. \A k \in 1 .. m : /\ all[k] \in Times
                        /\ OverheadUs(all[k]) \in Nat
                        /\ OverheadUs(all[k]) <= all[k].total
  BY <1>5, <1>6
<1>8. all \in [1 .. m -> Times] /\ DOMAIN all = 1 .. m
  BY <1>7
<1> HIDE DEF all
<1>9. all \in Seq(Times) /\ Len(all) = m
  BY <1>8, SeqDef, LenProperties
<1>10. CASE all = <<>>
  <2>1. m = 0
    BY <1>9, <1>10
  <2>2. Timings(lines, measured) = [journals |-> 0, turns |-> 0, total |-> 0, overhead |-> 0]
    BY <1>4, <1>10
  <2>3. /\ Timings(lines, measured).turns = 0 /\ Timings(lines, measured).total = 0
        /\ Timings(lines, measured).overhead = 0
    BY <2>2
  <2> QED
    BY <1>1, <1>2, <1>3, <2>1, <2>3
<1>11. CASE all # <<>>
  <2> DEFINE a == [k \in DOMAIN all |-> OverheadUs(all[k])]
             b == [k \in DOMAIN all |-> all[k].total]
  <2>1. /\ Timings(lines, measured).turns = m
        /\ Timings(lines, measured).total = Median(b)
        /\ Timings(lines, measured).overhead = Median(a)
    BY <1>4, <1>9, <1>11
  <2>2. \A t \in Times : t.total \in Nat
    BY DEF Times
  <2>3. a \in [1 .. m -> Nat] /\ b \in [1 .. m -> Nat]
        /\ \A k \in 1 .. m : a[k] <= b[k]
    BY <1>7, <1>8, <2>2
  <2> HIDE DEF a, b
  <2>4. a \in Seq(Nat) /\ Len(a) = m /\ b \in Seq(Nat) /\ Len(b) = m /\ DOMAIN a = 1 .. m
    BY <2>3, SeqDef, LenProperties
  <2>5. a # <<>>
    <3>1. m # 0
      BY <1>9, <1>11, EmptySeq
    <3> QED
      BY <2>4, <3>1
  <2>6. Median(a) <= Median(b)
    BY <2>3, <2>4, <2>5, MedianIsMonotone
  <2> QED
    BY <1>1, <1>2, <1>3, <2>1, <2>6
<1> QED
  BY <1>10, <1>11

\* What was printed is of turns that are over.
ReportInv ==
  /\ printed # {} => stage = "over"
  /\ EveryTurnIsReadBack

LEMMA ReportStands ==
  ASSUME MeteringAssumption, ClockInv, ReportInv, [MeteringNext]_meteringVars
  PROVE  ReportInv'
<1>1. ASSUME printed' = printed, timed' = timed, stage' = stage PROVE ReportInv'
  BY <1>1 DEF ReportInv, EveryTurnIsReadBack
<1>2. ASSUME printed' = printed, stage # "over" PROVE ReportInv'
  BY <1>2 DEF ReportInv, EveryTurnIsReadBack
<1>3. ASSUME NEW took \in 0 .. 1,
             \/ StartTurn(took) \/ Prepare(took) \/ Account(took) \/ UseTools(took)
             \/ FinishTurn(took) \/ \E route \in Routes, c \in Consumptions :
                                       Receive(took, route, c)
      PROVE  ReportInv'
  <2>1. CASE StartTurn(took)
    BY <1>2, <2>1 DEF StartTurn
  <2>2. CASE Prepare(took)
    BY <1>2, <2>2 DEF Prepare
  <2>3. CASE Account(took)
    BY <1>2, <2>3 DEF Account
  <2>4. CASE UseTools(took)
    BY <1>2, <2>4 DEF UseTools
  <2>5. CASE FinishTurn(took)
    <3>1. printed' = printed /\ stage \in {"answered", "settled"}
      BY <2>5 DEF FinishTurn
    <3> QED
      BY <1>2, <3>1
  <2>6. ASSUME NEW route \in Routes, NEW c \in Consumptions, Receive(took, route, c)
        PROVE  ReportInv'
    BY <1>2, <2>6 DEF Receive
  <2> QED
    BY <1>3, <2>1, <2>2, <2>3, <2>4, <2>5, <2>6
<1>4. CASE GiveUp
  BY <1>2, <1>4 DEF GiveUp
<1>5. ASSUME NEW lines \in JournalFiles, ReadBack(lines) PROVE ReportInv'
  <2>1. PICK n \in Nat : n = Len(timed) /\ DOMAIN timed = 1 .. n
                         /\ \A i \in 1 .. n : timed[i] \in TimedTurns
    BY LenProperties, ElementOfSeq DEF ClockInv
  <2> DEFINE measured == [i \in DOMAIN timed |-> timed[i].timing]
  <2>2. \A e \in TimedTurns : e.timing \in Times /\ OverheadUs(e.timing) \in Nat
                              /\ OverheadUs(e.timing) <= e.timing.total
    BY DEF TimedTurns, Honest
  <2>3. measured \in [1 .. n -> Times]
        /\ \A i \in 1 .. n : OverheadUs(measured[i]) \in Nat
                             /\ OverheadUs(measured[i]) <= measured[i].total
    BY <2>1, <2>2
  <2>4. ReadBack(lines) => printed' = {[lines |-> lines, told |-> Timings(lines, measured)]}
    BY DEF ReadBack
  <2>5. stage' = "over" /\ timed' = timed
    BY <1>5 DEF ReadBack, timeVars
  <2> HIDE DEF measured
  <2>6. measured \in Seq(Times) /\ Len(measured) = n /\ DOMAIN measured = 1 .. n
    BY <2>1, <2>3, SeqDef, LenProperties
  <2>7. lines \in Seq({"journal", "blank", "other"})
    BY DEF MeteringAssumption
  <2>8. /\ Timings(lines, measured).turns
             = Cardinality({i \in DOMAIN lines : lines[i] = "journal"}) * n
        /\ Timings(lines, measured).overhead <= Timings(lines, measured).total
    BY <2>3, <2>6, <2>7, TimingsTell
  <2>9. PICK told : told = Timings(lines, measured)
    OBVIOUS
  <2>10. \A p \in printed' : p.lines = lines /\ p.told = told
    BY <1>5, <2>4, <2>9
  <2> QED
    BY <2>1, <2>5, <2>8, <2>9, <2>10 DEF ReportInv, EveryTurnIsReadBack
<1>6. CASE UNCHANGED meteringVars
  BY <1>1, <1>6 DEF meteringVars
<1> QED
  BY <1>3, <1>4, <1>5, <1>6 DEF MeteringNext

MeteringInv == UsageInv /\ ClockInv /\ ReportInv

LEMMA MeteringInvHolds ==
  MeteringSpec => []MeteringInv
<1>1. MeteringInit => MeteringInv
  <2> SUFFICES ASSUME MeteringInit PROVE MeteringInv
    OBVIOUS
  <2>1. printed = {}
    BY DEF MeteringInit
  <2>2. ReportInv
    BY <2>1 DEF ReportInv, EveryTurnIsReadBack
  <2> QED
    BY <2>2, MeteringAssumption, UsageStarts, ClockStarts DEF MeteringInv
<1>2. MeteringInv /\ [MeteringNext]_meteringVars => MeteringInv'
  <2> SUFFICES ASSUME MeteringInv, [MeteringNext]_meteringVars PROVE MeteringInv'
    OBVIOUS
  <2>1. UsageInv /\ ClockInv /\ ReportInv
    BY DEF MeteringInv
  <2>2. ClockInv' /\ ReportInv'
    BY <2>1, MeteringAssumption, ClockGoesOn, ReportStands
  <2>3. ASSUME adapter' = adapter, UNCHANGED usageVars PROVE UsageInv'
    <3>1. really' = really /\ tallies' = tallies /\ unmetered' = unmetered
      BY <2>3 DEF usageVars
    <3>2. \A q \in Routes : ServedBy(q)' = ServedBy(q) /\ Told(q)' = Told(q)
      BY <3>1 DEF ServedBy, Told
    <3>3. \A q \in Routes : TallyStands(q) => TallyStands(q)'
      BY <2>3, <3>1 DEF TallyStands, ServedBy, InputTold, OutputTold, ReadTold, WrittenTold,
         SumOf, Told, Charged
    <3>4. Unpriced' = Unpriced
      BY <2>3, <3>1 DEF Unpriced
    <3> QED
      BY <2>1, <2>3, <3>1, <3>3, <3>4 DEF UsageInv
  <2>4. ASSUME NEW took \in 0 .. 1,
             \/ StartTurn(took) \/ Prepare(took) \/ Account(took) \/ UseTools(took)
             \/ FinishTurn(took) \/ \E route \in Routes, c \in Consumptions :
                                       Receive(took, route, c)
      PROVE  UsageInv'
    <3>1. CASE StartTurn(took)
      BY <2>3, <3>1 DEF StartTurn
    <3>2. CASE Prepare(took)
      BY <2>3, <3>2 DEF Prepare
    <3>3. CASE Account(took)
      BY <2>3, <3>3 DEF Account
    <3>4. CASE UseTools(took)
      BY <2>3, <3>4 DEF UseTools
    <3>5. CASE FinishTurn(took)
      <4>1. adapter' = adapter /\ UNCHANGED usageVars
        BY <3>5 DEF FinishTurn
      <4> QED
        BY <2>3, <4>1
    <3>6. ASSUME NEW route \in Routes, NEW c \in Consumptions, Receive(took, route, c)
          PROVE  UsageInv'
      BY <2>1, <3>6, MeteringAssumption, UsageIsAdded
    <3> QED
      BY <2>4, <3>1, <3>2, <3>3, <3>4, <3>5, <3>6
  <2>5. ASSUME GiveUp PROVE UsageInv'
    BY <2>3, <2>5 DEF GiveUp
  <2>6. ASSUME NEW lines \in JournalFiles, ReadBack(lines) PROVE UsageInv'
    BY <2>3, <2>6 DEF ReadBack
  <2>7. ASSUME UNCHANGED meteringVars PROVE UsageInv'
    BY <2>3, <2>7 DEF meteringVars, usageVars
  <2>8. UsageInv'
    BY <2>4, <2>5, <2>6, <2>7 DEF MeteringNext
  <2> QED
    BY <2>2, <2>8 DEF MeteringInv
<1> QED
  BY <1>1, <1>2, PTL DEF MeteringSpec

\* What a provider told of is in the totals of the model that served it once, and what was
\* written to a cache twice where the input that is told is the total; a call without a price
\* is never one that was free; a turn's time is the provider's, the tools' or the framework's;
\* and every turn of a file is read back once.
THEOREM ChargesAreTrue ==
  MeteringSpec => []OnlyWritesAreChargedTwice
<1>1. MeteringInv => OnlyWritesAreChargedTwice
  <2> SUFFICES ASSUME MeteringInv PROVE OnlyWritesAreChargedTwice
    OBVIOUS
  <2>1. UsageInv /\ ClockInv /\ ReportInv
    BY DEF MeteringInv
  <2>2. TotalsAreWhatWasUsed
    <3> SUFFICES ASSUME NEW route \in Routes
        PROVE  LET tally == tallies[route] IN
               /\ tally.calls = Cardinality(ServedBy(route))
               /\ TotalInput(tally) = SumOf(Told(route), Charged)
               /\ tally.written = SumOf(Told(route), LAMBDA c : c.written)
               /\ tally.output = SumOf(Told(route), LAMBDA c : c.output)
               /\ tally.thought <= tally.output
               /\ \A rate \in HitRate(tally) :
                    /\ rate.read = SumOf(Told(route), LAMBDA c : c.read)
                    /\ rate.read <= rate.of
      BY DEF TotalsAreWhatWasUsed
    <3>1. TallyStands(route) /\ tallies[route] \in Tally
      BY <2>1 DEF UsageInv
    <3>2. PICK tally : tally = tallies[route]
      OBVIOUS
    <3>3. /\ tally.calls = Cardinality(ServedBy(route))
          /\ TotalInput(tally) = InputTold(route)
          /\ tally.output = OutputTold(route)
          /\ tally.read = ReadTold(route)
          /\ tally.written = WrittenTold(route)
          /\ tally.thought <= tally.output
      BY <3>1, <3>2 DEF TallyStands
    <3>4. tally.input \in Nat /\ tally.read \in Nat /\ tally.written \in Nat
      BY <3>1, <3>2 DEF Tally
    <3>5. ASSUME NEW rate \in HitRate(tally)
          PROVE  rate.read = tally.read /\ rate.read <= rate.of
      <4>1. rate = [read |-> tally.read, of |-> TotalInput(tally)]
        BY DEF HitRate
      <4>2. rate.read = tally.read /\ rate.of = TotalInput(tally)
        BY <4>1
      <4> QED
        BY <3>4, <4>2 DEF TotalInput
    <3> QED
      BY <3>2, <3>3, <3>5 DEF InputTold, OutputTold, ReadTold, WrittenTold
  <2>3. unmetered = Cardinality(Unpriced)
    BY <2>1 DEF UsageInv
  <2>4. TimesAreWhatWasWorked
    <3> SUFFICES ASSUME NEW i \in DOMAIN timed PROVE Honest(timed[i].timing, timed[i].worked)
      BY DEF TimesAreWhatWasWorked, Honest
    <3>1. timed \in Seq(TimedTurns) /\ DOMAIN timed = 1 .. Len(timed)
      BY <2>1, LenProperties DEF ClockInv
    <3>2. timed[i] \in TimedTurns
      BY <3>1, ElementOfSeq
    <3> QED
      BY <3>2 DEF TimedTurns
  <2>5. EveryTurnIsReadBack
    BY <2>1 DEF ReportInv
  <2> QED
    BY <2>2, <2>3, <2>4, <2>5 DEF OnlyWritesAreChargedTwice
<1> QED
  BY <1>1, MeteringInvHolds, PTL

--------------------------------------------------------------------------------
(* Numbers in ascending order are those of the set, each once.             *)

LEMMA AscendingNames ==
  ASSUME NEW n \in Nat, NEW set
  PROVE  /\ Ascending(n, set) \in Seq(Nat \ {0})
         /\ \A k \in 1 .. Len(Ascending(n, set)) : Ascending(n, set)[k] \in set \cap (1 .. n)
         /\ \A x \in set \cap (1 .. n) :
              \E k \in 1 .. Len(Ascending(n, set)) : Ascending(n, set)[k] = x
         /\ \A k, l \in 1 .. Len(Ascending(n, set)) :
              Ascending(n, set)[k] = Ascending(n, set)[l] => k = l
<1> DEFINE Names(i, a) == /\ \A k \in 1 .. Len(a) : a[k] \in set /\ a[k] \in 1 .. i
                          /\ \A x \in set \cap (1 .. i) : \E k \in 1 .. Len(a) : a[k] = x
                          /\ \A k, l \in 1 .. Len(a) : a[k] = a[l] => k = l
           S == {i \in Nat : Names(i, Ascending(i, set))}
<1>1. 0 \in S
  <2>1. Ascending(0, set) = <<>> /\ Len(<<>>) = 0
    BY AscendingGrows
  <2> QED
    BY <2>1
<1>2. ASSUME NEW i \in S PROVE i + 1 \in S
  <2>1. PICK a, b : a = Ascending(i, set) /\ b = Ascending(i + 1, set)
    OBVIOUS
  <2>2. a \in Seq(Nat) /\ i \in Nat /\ i + 1 \in Nat /\ Names(i, a)
    BY <2>1, AscendingGrows
  <2>3. b = IF i + 1 \in set THEN Append(a, i + 1) ELSE a
    BY <2>1, <2>2, AscendingGrows
  <2>4. Names(i + 1, b)
    <3>1. CASE i + 1 \notin set
      BY <2>2, <2>3, <3>1
    <3>2. CASE i + 1 \in set
      <4>1. Len(b) = Len(a) + 1 /\ Len(a) \in Nat /\ b[Len(a) + 1] = i + 1
        BY <2>2, <2>3, <3>2
      <4>2. \A k \in 1 .. Len(a) : b[k] = a[k]
        BY <2>2, <2>3, <3>2
      <4>3. \A k \in 1 .. Len(b) : k \in 1 .. Len(a) \/ k = Len(a) + 1
        BY <4>1
      <4>4. \A k \in 1 .. Len(a) : a[k] \in set /\ a[k] \in 1 .. i /\ a[k] # i + 1
        BY <2>2
      <4>5. \A k \in 1 .. Len(b) : b[k] \in set /\ b[k] \in 1 .. i + 1
        <5> SUFFICES ASSUME NEW k \in 1 .. Len(b) PROVE b[k] \in set /\ b[k] \in 1 .. i + 1
          OBVIOUS
        <5>1. CASE k = Len(a) + 1
          BY <2>2, <3>2, <4>1, <5>1
        <5>2. CASE k \in 1 .. Len(a)
          <6>1. b[k] = a[k] /\ a[k] \in set /\ a[k] \in 1 .. i
            BY <4>2, <4>4, <5>2
          <6> QED
            BY <2>2, <6>1
        <5> QED
          BY <4>3, <5>1, <5>2
      <4>6. ASSUME NEW x \in set \cap (1 .. i + 1) PROVE \E k \in 1 .. Len(b) : b[k] = x
        <5>1. CASE x = i + 1
          BY <4>1, <5>1
        <5>2. CASE x # i + 1
          <6>1. PICK k \in 1 .. Len(a) : a[k] = x
            BY <2>2, <5>2
          <6> QED
            BY <4>1, <4>2, <6>1
        <5> QED
          BY <5>1, <5>2
      <4>7. ASSUME NEW k \in 1 .. Len(b), NEW l \in 1 .. Len(b), b[k] = b[l] PROVE k = l
        BY <2>2, <4>1, <4>2, <4>3, <4>4, <4>7
      <4> QED
        BY <4>5, <4>6, <4>7
    <3> QED
      BY <3>1, <3>2
  <2> QED
    BY <2>1, <2>2, <2>4
<1>3. S = Nat
  <2> HIDE DEF S
  <2>1. S \in SUBSET Nat
    BY DEF S
  <2> QED
    BY <1>1, <1>2, <2>1, Induction
<1>4. Names(n, Ascending(n, set))
  BY <1>3
<1> QED
  BY <1>4, AscendingType

--------------------------------------------------------------------------------
(* A state that is kept from line to line.                                 *)

States == [skips : BOOLEAN, depth : Nat, entered : BOOLEAN]
Lines == [opens : Nat, closes : Nat]

LEMMA ReadOnIs ==
  ASSUME NEW s \in States, NEW line, line.opens \in Nat, line.closes \in Nat
  PROVE  /\ ReadOn(s, line) \in States
         /\ ~s.skips /\ line.begins # "cfg(test)" => ReadOn(s, line) = s
         /\ ~s.skips /\ line.begins = "cfg(test)" =>
              /\ ReadOn(s, line).skips /\ ReadOn(s, line).depth = 0
              /\ ~ReadOn(s, line).entered
         /\ s.skips =>
              /\ ReadOn(s, line).depth = IF s.depth + line.opens > line.closes
                                         THEN s.depth + line.opens - line.closes ELSE 0
              /\ ReadOn(s, line).entered <=> (s.entered \/ s.depth + line.opens > 0)
              /\ ReadOn(s, line).skips <=>
                   ~(ReadOn(s, line).entered /\ ReadOn(s, line).depth = 0)
<1>1. CASE s.skips
  <2>1. ReadOn(s, line) = Skip(s, line)
    BY <1>1 DEF ReadOn
  <2>2. s.depth \in Nat /\ s.entered \in BOOLEAN
    BY DEF States
  <2>3. Skip(s, line).depth = IF s.depth + line.opens > line.closes
                              THEN s.depth + line.opens - line.closes ELSE 0
    <3>1. Skip(s, line).depth = DepthAfter(s.depth, line)
      BY DEF Skip
    <3> QED
      BY <3>1 DEF DepthAfter
  <2>4. Skip(s, line).entered <=> (s.entered \/ s.depth + line.opens > 0)
    BY DEF Skip
  <2>5. Skip(s, line).skips <=> ~(Skip(s, line).entered /\ Skip(s, line).depth = 0)
    BY <2>3, <2>4 DEF Skip
  <2>6. Skip(s, line) \in States
    <3>1. Skip(s, line).depth \in Nat
      BY <2>2, <2>3
    <3>2. Skip(s, line).entered \in BOOLEAN
      BY DEF Skip
    <3>3. Skip(s, line).skips \in BOOLEAN
      BY DEF Skip
    <3>4. Skip(s, line) = [skips |-> Skip(s, line).skips, depth |-> Skip(s, line).depth,
                           entered |-> Skip(s, line).entered]
      BY DEF Skip
    <3> QED
      BY <3>1, <3>2, <3>3, <3>4 DEF States
  <2> QED
    BY <1>1, <2>1, <2>3, <2>4, <2>5, <2>6
<1>2. CASE ~s.skips /\ line.begins = "cfg(test)"
  <2>1. ReadOn(s, line) = [Reading EXCEPT !.skips = TRUE]
    BY <1>2 DEF ReadOn
  <2>2. ReadOn(s, line) = [skips |-> TRUE, depth |-> 0, entered |-> FALSE]
    BY <2>1 DEF Reading
  <2>3. ReadOn(s, line) \in States
    BY <2>2 DEF States
  <2>4. ReadOn(s, line).skips /\ ReadOn(s, line).depth = 0 /\ ~ReadOn(s, line).entered
    BY <2>2
  <2> QED
    BY <1>2, <2>3, <2>4
<1>3. CASE ~s.skips /\ line.begins # "cfg(test)"
  <2>1. ReadOn(s, line) = s
    BY <1>3 DEF ReadOn
  <2> QED
    BY <1>3, <2>1
<1> QED
  BY <1>1, <1>2, <1>3

\* The states between the lines of a file.
ReadAfter(body, after) ==
  /\ after \in [0 .. Len(body) -> States]
  /\ after[0] = Reading
  /\ \A n \in 1 .. Len(body) : after[n] = ReadOn(after[n - 1], body[n])

LEMMA FilesAreRead ==
  ASSUME NEW body, IsSource(body)
  PROVE  \E after : /\ ReadAfter(body, after)
                    /\ StripTestModules(body) =
                         {body[n] : n \in {k \in DOMAIN body : ~after[k - 1].skips
                                                              /\ body[k].begins # "cfg(test)"}}
<1> DEFINE n == Len(body)
           step == [i \in 1 .. n |-> [s \in States |-> ReadOn(s, body[i])]]
           Run(f) == f = [i \in 0 .. n |-> IF i = 0 THEN Reading ELSE ReadOn(f[i - 1], body[i])]
           g == CHOOSE f : Run(f)
<1>1. n \in Nat /\ DOMAIN body = 1 .. n
  BY DEF IsSource
<1>2. \A i \in 1 .. n : body[i].opens \in Nat /\ body[i].closes \in Nat
  BY <1>1 DEF IsSource
<1>3. Reading \in States
  BY DEF Reading, States
<1>4. step \in [1 .. n -> [States -> States]]
  <2>1. \A i \in 1 .. n : \A s \in States : ReadOn(s, body[i]) \in States
    BY <1>2, ReadOnIs
  <2> QED
    BY <2>1
<1>5. \A i \in 1 .. n : \A s \in States : step[i][s] = ReadOn(s, body[i])
  OBVIOUS
<1>6. PICK h \in [0 .. n -> States] : Follows(h, n, States, Reading, step)
  <2> HIDE DEF n, step
  <2> QED
    BY <1>1, <1>3, <1>4, RunExists
<1> HIDE DEF n, step
<1>7. \A i \in 1 .. n : i - 1 \in 0 .. n /\ i \in 0 .. n /\ i # 0
  BY <1>1
<1>8. h[0] = Reading /\ \A i \in 1 .. n : h[i] = ReadOn(h[i - 1], body[i])
  BY <1>5, <1>6, <1>7 DEF Follows
<1>9. Run(h)
  <2>1. \A i \in 0 .. n : i = 0 \/ i \in 1 .. n
    BY <1>1
  <2>2. \A i \in 0 .. n : h[i] = IF i = 0 THEN Reading ELSE ReadOn(h[i - 1], body[i])
    BY <1>7, <1>8, <2>1
  <2> QED
    BY <1>6, <2>2
<1>10. Run(g)
  BY <1>9
<1>11. g \in [0 .. n -> States] /\ g[0] = Reading
       /\ \A i \in 1 .. n : g[i] = ReadOn(g[i - 1], body[i])
  <2>1. g[0] = Reading
    <3> HIDE DEF g
    <3> QED
      BY <1>1, <1>10
  <2>2. \A i \in 1 .. n : g[i] = ReadOn(g[i - 1], body[i])
    <3> HIDE DEF g
    <3> QED
      BY <1>7, <1>10
  <2>3. DOMAIN g = 0 .. n /\ g = [i \in 0 .. n |-> g[i]]
    <3> HIDE DEF g
    <3> QED
      BY <1>10
  <2>4. \A i \in 0 .. n : g[i] \in States
    <3> DEFINE R == {i \in Nat : i <= n => g[i] \in States}
    <3> HIDE DEF g
    <3>1. 0 \in R
      BY <1>3, <2>1
    <3>2. ASSUME NEW i \in R PROVE i + 1 \in R
      <4>1. CASE i + 1 <= n
        <5>1. i + 1 \in 1 .. n /\ (i + 1) - 1 = i /\ g[i] \in States
          BY <1>1, <4>1
        <5>2. g[i + 1] = ReadOn(g[i], body[i + 1])
          BY <2>2, <5>1
        <5>3. ReadOn(g[i], body[i + 1]) \in States
          BY <1>2, <5>1, ReadOnIs
        <5> QED
          BY <5>2, <5>3
      <4>2. CASE ~(i + 1 <= n)
        BY <4>2
      <4> QED
        BY <4>1, <4>2
    <3>3. R = Nat
      <4> HIDE DEF R
      <4>1. R \in SUBSET Nat
        BY DEF R
      <4> QED
        BY <3>1, <3>2, <4>1, Induction
    <3> QED
      BY <1>1, <3>3
  <2> QED
    BY <2>1, <2>2, <2>3, <2>4
<1>12. StripTestModules(body) =
         {body[i] : i \in {k \in DOMAIN body : ~g[k - 1].skips /\ body[k].begins # "cfg(test)"}}
  BY DEF StripTestModules, n
<1>13. ReadAfter(body, g)
  BY <1>11 DEF ReadAfter, n
<1> QED
  BY <1>12, <1>13

\* One more line of braces.
LEMMA BracesGrow ==
  ASSUME NEW body, IsSource(body), NEW a \in Nat, NEW n \in Nat, a <= n, n + 1 <= Len(body)
  PROVE  /\ Opened(body, a, a) = 0 /\ Closed(body, a, a) = 0
         /\ Opened(body, a, n) \in Nat /\ Closed(body, a, n) \in Nat
         /\ Opened(body, a, n + 1) = Opened(body, a, n) + body[n + 1].opens
         /\ Closed(body, a, n + 1) = Closed(body, a, n) + body[n + 1].closes
<1>1. \A m \in 1 .. Len(body) : body[m].opens \in Nat /\ body[m].closes \in Nat
  BY DEF IsSource
<1>2. Len(body) \in Nat
  BY DEF IsSource
<1> DEFINE U == (a + 1) .. n
           fo == [m \in U |-> body[m].opens]
           fc == [m \in U |-> body[m].closes]
           go == [m \in (a + 1) .. n + 1 |-> body[m].opens]
           gc == [m \in (a + 1) .. n + 1 |-> body[m].closes]
<1>3. IsFiniteSet(U) /\ n + 1 \notin U /\ U \cup {n + 1} = (a + 1) .. n + 1
  <2>1. a + 1 \in Int /\ n \in Int
    OBVIOUS
  <2>2. IsFiniteSet(U)
    BY <2>1, FS_Interval
  <2>3. n + 1 \notin U
    OBVIOUS
  <2>4. U \cup {n + 1} = (a + 1) .. n + 1
    OBVIOUS
  <2> QED
    BY <2>2, <2>3, <2>4
<1>4. \A m \in (a + 1) .. n + 1 : m \in 1 .. Len(body)
  BY <1>2
<1>5. fo \in [U -> Nat] /\ fc \in [U -> Nat]
  BY <1>1, <1>3, <1>4
<1>6. go \in [U \cup {n + 1} -> Nat] /\ gc \in [U \cup {n + 1} -> Nat]
  BY <1>1, <1>3, <1>4
<1>7. \A m \in U : go[m] = fo[m] /\ gc[m] = fc[m]
  OBVIOUS
<1>8. n + 1 \in (a + 1) .. n + 1
  OBVIOUS
<1>9. go[n + 1] = body[n + 1].opens /\ gc[n + 1] = body[n + 1].closes
  BY <1>8
<1>10. Opened(body, a, n) = SumFunction(fo) /\ Closed(body, a, n) = SumFunction(fc)
  BY DEF Opened, Closed
<1>11. Opened(body, a, n + 1) = SumFunction(go) /\ Closed(body, a, n + 1) = SumFunction(gc)
  BY DEF Opened, Closed
<1>12. Opened(body, a, a) = 0 /\ Closed(body, a, a) = 0
  <2> DEFINE eo == [m \in (a + 1) .. a |-> body[m].opens]
             ec == [m \in (a + 1) .. a |-> body[m].closes]
  <2>1. (a + 1) .. a = {}
    OBVIOUS
  <2>2. eo \in [{} -> Nat] /\ ec \in [{} -> Nat]
    BY <2>1
  <2>3. Opened(body, a, a) = SumFunction(eo) /\ Closed(body, a, a) = SumFunction(ec)
    BY DEF Opened, Closed
  <2> HIDE DEF eo, ec
  <2> QED
    BY <2>2, <2>3, SumOfNothing
<1> HIDE DEF fo, fc, go, gc, U
<1>13. SumFunction(fo) \in Nat /\ SumFunction(fc) \in Nat
  BY <1>3, <1>5, SumIsNumber
<1>14. SumFunction(go) = SumFunction(fo) + go[n + 1]
  <2>1. PICK x : x = n + 1
    OBVIOUS
  <2>2. go \in [U \cup {x} -> Nat] /\ x \notin U
    BY <1>3, <1>6, <2>1
  <2>3. \A m \in U : go[m] = fo[m]
    BY <1>7
  <2>4. SumFunction(go) = SumFunction(fo) + go[x]
    BY ONLY <1>3, <1>5, <2>2, <2>3, SumGrows
  <2> QED
    BY <2>1, <2>4
<1>15. SumFunction(gc) = SumFunction(fc) + gc[n + 1]
  <2>1. PICK x : x = n + 1
    OBVIOUS
  <2>2. gc \in [U \cup {x} -> Nat] /\ x \notin U
    BY <1>3, <1>6, <2>1
  <2>3. \A m \in U : gc[m] = fc[m]
    BY <1>7
  <2>4. SumFunction(gc) = SumFunction(fc) + gc[x]
    BY ONLY <1>3, <1>5, <2>2, <2>3, SumGrows
  <2> QED
    BY <2>1, <2>4
<1> QED
  BY <1>9, <1>10, <1>11, <1>12, <1>13, <1>14, <1>15

\* What is left of a file is no part of a test: from an attribute on, lines are skipped
\* until the item after it is over.
Within(body, a, n, s) ==
  \/ \E m \in (a + 1) .. n : IsOver(body, a, m)
  \/ /\ s.skips
     /\ s.depth + Closed(body, a, n) >= Opened(body, a, n)
     /\ s.entered => /\ s.depth > 0
                     /\ \/ Opened(body, a, n) > 0
                        \/ s.depth + Closed(body, a, n) > Opened(body, a, n)
     /\ ~s.entered => s.depth = 0

LEMMA SkippingGoesOn ==
  ASSUME NEW body, IsSource(body), NEW a \in Nat, NEW n \in Nat, a <= n, n + 1 <= Len(body),
         NEW s \in States, Within(body, a, n, s),
         NEW t, t = ReadOn(s, body[n + 1])
  PROVE  Within(body, a, n + 1, t)
<1>1. CASE \E m \in (a + 1) .. n : IsOver(body, a, m)
  <2>1. PICK m \in (a + 1) .. n : IsOver(body, a, m)
    BY <1>1
  <2>2. m \in (a + 1) .. n + 1
    OBVIOUS
  <2> QED
    BY <2>1, <2>2 DEF Within
<1>2. CASE ~\E m \in (a + 1) .. n : IsOver(body, a, m)
  <2> DEFINE o == Opened(body, a, n)
             c == Closed(body, a, n)
             p == body[n + 1].opens
             q == body[n + 1].closes
             d == s.depth
  <2>1. /\ s.skips /\ d + c >= o
        /\ s.entered => d > 0 /\ (o > 0 \/ d + c > o)
        /\ ~s.entered => d = 0
    BY <1>2 DEF Within
  <2>2. p \in Nat /\ q \in Nat
    BY DEF IsSource
  <2>3. /\ o \in Nat /\ c \in Nat
        /\ Opened(body, a, n + 1) = o + p /\ Closed(body, a, n + 1) = c + q
    BY BracesGrow
  <2>4. d \in Nat
    BY DEF States
  <2>5. t.depth = IF d + p > q THEN d + p - q ELSE 0
    BY <2>1, <2>2, ReadOnIs
  <2>6. t.entered <=> (s.entered \/ d + p > 0)
    BY <2>1, <2>2, ReadOnIs
  <2>7. t.skips <=> ~(t.entered /\ t.depth = 0)
    BY <2>1, <2>2, ReadOnIs
  <2> HIDE DEF o, c, p, q, d
  <2>8. t.depth \in Nat /\ t.depth + (c + q) >= o + p
    BY <2>1, <2>2, <2>3, <2>4, <2>5
  <2>9. t.entered => o + p > 0 \/ t.depth + (c + q) > o + p
    BY <2>1, <2>2, <2>3, <2>4, <2>5, <2>6
  <2>10. ~t.entered => t.depth = 0
    BY <2>1, <2>2, <2>3, <2>4, <2>5, <2>6
  <2>11. CASE t.entered /\ t.depth = 0
    <3>1. c + q > o + p \/ (c + q = o + p /\ o + p > 0)
      BY <2>2, <2>3, <2>8, <2>9, <2>11
    <3>2. IsOver(body, a, n + 1)
      BY <2>3, <3>1 DEF IsOver
    <3>3. n + 1 \in (a + 1) .. n + 1
      OBVIOUS
    <3> QED
      BY <3>2, <3>3 DEF Within
  <2>12. CASE ~(t.entered /\ t.depth = 0)
    <3>1. t.skips /\ (t.entered => t.depth > 0)
      BY <2>7, <2>8, <2>12
    <3> QED
      BY <2>3, <2>8, <2>9, <2>10, <3>1 DEF Within
  <2> QED
    BY <2>11, <2>12
<1> QED
  BY <1>1, <1>2

\* While lines are skipped, braces are open if any were.
Sound(s) == s.skips => /\ s.entered => s.depth > 0
                       /\ ~s.entered => s.depth = 0

LEMMA ReadingIsSound ==
  ASSUME NEW body, IsSource(body), NEW after, ReadAfter(body, after)
  PROVE  \A n \in 0 .. Len(body) : Sound(after[n])
<1> DEFINE S == {n \in Nat : n <= Len(body) => Sound(after[n])}
<1>1. Len(body) \in Nat
  BY DEF IsSource
<1>2. 0 \in S
  BY DEF ReadAfter, Reading, Sound
<1>3. ASSUME NEW n \in S PROVE n + 1 \in S
  <2>1. CASE ~(n + 1 <= Len(body))
    BY <2>1
  <2>2. CASE n + 1 <= Len(body)
    <3>1. n + 1 \in 1 .. Len(body) /\ n \in 0 .. Len(body) /\ (n + 1) - 1 = n /\ n <= Len(body)
      BY <1>1, <2>2
    <3>2. PICK s, line, t : s = after[n] /\ line = body[n + 1] /\ t = after[n + 1]
      OBVIOUS
    <3>3. s \in States /\ t = ReadOn(s, line) /\ Sound(s)
      BY <3>1, <3>2 DEF ReadAfter
    <3>4. line.opens \in Nat /\ line.closes \in Nat
      BY <3>1, <3>2 DEF IsSource
    <3>5. s.depth \in Nat
      BY <3>3 DEF States
    <3>6. Sound(t)
      <4>1. CASE ~s.skips /\ line.begins # "cfg(test)"
        BY <3>3, <3>4, <4>1, ReadOnIs
      <4>2. CASE ~s.skips /\ line.begins = "cfg(test)"
        <5>1. t.depth = 0 /\ ~t.entered
          BY <3>3, <3>4, <4>2, ReadOnIs
        <5> QED
          BY <5>1 DEF Sound
      <4>3. CASE s.skips
        <5>1. t.depth = IF s.depth + line.opens > line.closes
                        THEN s.depth + line.opens - line.closes ELSE 0
          BY <3>3, <3>4, <4>3, ReadOnIs
        <5>2. t.entered <=> (s.entered \/ s.depth + line.opens > 0)
          BY <3>3, <3>4, <4>3, ReadOnIs
        <5>3. t.skips <=> ~(t.entered /\ t.depth = 0)
          BY <3>3, <3>4, <4>3, ReadOnIs
        <5>4. t.skips /\ t.entered => t.depth > 0
          BY <3>4, <3>5, <5>1, <5>3
        <5>5. ~t.entered => t.depth = 0
          BY <3>3, <3>4, <3>5, <4>3, <5>1, <5>2 DEF Sound
        <5> QED
          BY <5>4, <5>5 DEF Sound
      <4> QED
        BY <4>1, <4>2, <4>3
    <3> QED
      BY <3>2, <3>6
  <2> QED
    BY <2>1, <2>2
<1>4. S = Nat
  <2> HIDE DEF S
  <2>1. S \in SUBSET Nat
    BY DEF S
  <2> QED
    BY <1>2, <1>3, <2>1, Induction
<1> QED
  BY <1>1, <1>4

LEMMA SkippingBegins ==
  ASSUME NEW body, IsSource(body), NEW a \in 1 .. Len(body), body[a].begins = "cfg(test)",
         NEW s \in States, Sound(s)
  PROVE  Within(body, a, a, ReadOn(s, body[a]))
<1>1. PICK line, t : line = body[a] /\ t = ReadOn(s, line)
  OBVIOUS
<1>2. line.opens = 0 /\ line.closes = 0 /\ line.begins = "cfg(test)"
  BY <1>1 DEF IsSource
<1>3. Opened(body, a, a) = 0 /\ Closed(body, a, a) = 0
  <2> DEFINE eo == [m \in (a + 1) .. a |-> body[m].opens]
             ec == [m \in (a + 1) .. a |-> body[m].closes]
  <2>1. (a + 1) .. a = {}
    BY DEF IsSource
  <2>2. eo \in [{} -> Nat] /\ ec \in [{} -> Nat]
    BY <2>1
  <2>3. Opened(body, a, a) = SumFunction(eo) /\ Closed(body, a, a) = SumFunction(ec)
    BY DEF Opened, Closed
  <2> HIDE DEF eo, ec
  <2> QED
    BY <2>2, <2>3, SumOfNothing
<1>4. s.depth \in Nat
  BY DEF States
<1>5. t.skips /\ t.depth \in Nat /\ (t.entered => t.depth > 0) /\ (~t.entered => t.depth = 0)
  <2>1. CASE ~s.skips
    <3>1. t.skips /\ t.depth = 0 /\ ~t.entered
      BY <1>1, <1>2, <2>1, ReadOnIs
    <3> QED
      BY <3>1
  <2>2. CASE s.skips
    <3>1. t.depth = IF s.depth + line.opens > line.closes
                    THEN s.depth + line.opens - line.closes ELSE 0
      BY <1>1, <1>2, <2>2, ReadOnIs
    <3>2. t.entered <=> (s.entered \/ s.depth + line.opens > 0)
      BY <1>1, <1>2, <2>2, ReadOnIs
    <3>3. t.skips <=> ~(t.entered /\ t.depth = 0)
      BY <1>1, <1>2, <2>2, ReadOnIs
    <3>4. t.depth = s.depth
      BY <1>2, <1>4, <3>1
    <3>5. (s.entered => s.depth > 0) /\ (~s.entered => s.depth = 0)
      BY <2>2 DEF Sound
    <3>6. t.entered <=> s.entered
      BY <1>2, <1>4, <3>2, <3>5
    <3> QED
      BY <1>4, <3>3, <3>4, <3>5, <3>6
  <2> QED
    BY <2>1, <2>2
<1>6. t.depth + 0 >= 0 /\ (t.entered => t.depth + 0 > 0)
  BY <1>5
<1> QED
  BY <1>1, <1>3, <1>5, <1>6 DEF Within

LEMMA WhatIsLeftIsNoTest ==
  ASSUME NEW body, IsSource(body), NEW line \in StripTestModules(body)
  PROVE  line \in Range(body) /\ ~line.tests
<1>1. PICK after : /\ ReadAfter(body, after)
                   /\ StripTestModules(body) =
                        {body[n] : n \in {k \in DOMAIN body : ~after[k - 1].skips
                                                             /\ body[k].begins # "cfg(test)"}}
  BY FilesAreRead
<1>2. PICK n \in DOMAIN body : /\ ~after[n - 1].skips /\ body[n].begins # "cfg(test)"
                               /\ line = body[n]
  BY <1>1
<1>3. Len(body) \in Nat /\ DOMAIN body = 1 .. Len(body)
  BY DEF IsSource
<1>4. line \in Range(body)
  BY <1>2 DEF Range
<1>5. ASSUME line.tests PROVE FALSE
  <2>1. PICK a \in 1 .. n : /\ body[a].begins = "cfg(test)"
                            /\ \A m \in (a + 1) .. (n - 1) : ~IsOver(body, a, m)
    BY <1>2, <1>5 DEF IsSource
  <2>2. n \in 1 .. Len(body) /\ a \in 1 .. Len(body) /\ a # n /\ a < n /\ a \in Nat /\ n \in Nat
    BY <1>2, <1>3, <2>1
  <2> DEFINE S == {m \in Nat : a <= m /\ m < n => Within(body, a, m, after[m])}
  <2>3. Within(body, a, a, after[a])
    <3>1. a - 1 \in 0 .. Len(body)
      BY <1>3, <2>2
    <3>2. after[a - 1] \in States /\ after[a] = ReadOn(after[a - 1], body[a])
      BY <1>1, <2>2, <3>1 DEF ReadAfter
    <3>3. Sound(after[a - 1])
      BY <1>1, <3>1, ReadingIsSound
    <3> QED
      BY <2>1, <2>2, <3>2, <3>3, SkippingBegins
  <2>4. 0 \in S
    BY <2>2
  <2>5. ASSUME NEW m \in S PROVE m + 1 \in S
    <3>1. CASE m + 1 = a
      BY <2>3, <3>1
    <3>2. CASE m + 1 < a
      BY <2>2, <3>2
    <3>3. CASE a <= m /\ m + 1 < n
      <4>1. Within(body, a, m, after[m])
        BY <2>2, <3>3
      <4>2. m \in 0 .. Len(body) /\ m + 1 \in 1 .. Len(body) /\ (m + 1) - 1 = m /\ m + 1 <= Len(body)
        BY <1>3, <2>2, <3>3
      <4>3. after[m] \in States /\ after[m + 1] = ReadOn(after[m], body[m + 1])
        BY <1>1, <4>2 DEF ReadAfter
      <4>4. Within(body, a, m + 1, after[m + 1])
        <5>1. PICK s, t : s = after[m] /\ t = after[m + 1]
          OBVIOUS
        <5>2. m \in Nat /\ a \in Nat /\ a <= m
          BY <2>2, <3>3
        <5>3. Within(body, a, m + 1, t)
          BY <4>1, <4>2, <4>3, <5>1, <5>2, SkippingGoesOn
        <5> QED
          BY <5>1, <5>3
      <4> QED
        BY <4>4
    <3>4. CASE ~(m + 1 < n)
      BY <2>2, <3>4
    <3> QED
      BY <2>2, <3>1, <3>2, <3>3, <3>4
  <2>6. S = Nat
    <3> HIDE DEF S
    <3>1. S \in SUBSET Nat
      BY DEF S
    <3> QED
      BY <2>4, <2>5, <3>1, Induction
  <2>7. Within(body, a, n - 1, after[n - 1])
    <3>1. n - 1 \in Nat /\ a <= n - 1 /\ n - 1 < n
      BY <2>2
    <3> QED
      BY <2>6, <3>1
  <2> QED
    BY <1>2, <2>1, <2>7 DEF Within
<1> QED
  BY <1>4, <1>5
--------------------------------------------------------------------------------
(* What the lint lets pass is built.                                       *)

LEMMA ConstructedIsBuilt ==
  ASSUME NEW files, \A f \in DOMAIN files : IsSource(files[f]),
         NEW v, IsConstructed(files, v[1], v[2])
  PROVE  ReallyBuilt(files, v)
<1>0. PICK f \in DOMAIN files :
        \E line \in StripTestModules(files[f]) :
          /\ line.begins # "comment"
          /\ \/ Builds(line, <<v[1], v[2]>>)
             \/ /\ \E d \in StripTestModules(files[f]) : d.begins = "enum" /\ d.left[1][1] = v[1]
                /\ Builds(line, <<"Self", v[2]>>)
  BY DEF IsConstructed
<1>1. PICK line \in StripTestModules(files[f]) :
        /\ line.begins # "comment"
        /\ \/ Builds(line, <<v[1], v[2]>>)
           \/ /\ \E d \in StripTestModules(files[f]) : d.begins = "enum" /\ d.left[1][1] = v[1]
              /\ Builds(line, <<"Self", v[2]>>)
  BY <1>0
<1>2. IsSource(files[f])
  OBVIOUS
<1>3. line \in Range(files[f]) /\ ~line.tests
  BY <1>2, WhatIsLeftIsNoTest
<1>4. ASSUME NEW needle, Builds(line, needle)
      PROVE  /\ line.begins \notin {"bar", "if let", "matches", "let ref"}
             /\ needle \in Range(IF line.arrow THEN line.right ELSE line.left)
  BY <1>4 DEF Builds
<1>5. CASE Builds(line, <<v[1], v[2]>>)
  BY <1>1, <1>3, <1>4, <1>5 DEF ReallyBuilt
<1>6. CASE /\ \E d \in StripTestModules(files[f]) : d.begins = "enum" /\ d.left[1][1] = v[1]
           /\ Builds(line, <<"Self", v[2]>>)
  <2>1. PICK d \in StripTestModules(files[f]) : d.begins = "enum" /\ d.left[1][1] = v[1]
    BY <1>6
  <2>2. d \in Range(files[f]) /\ ~d.tests
    BY <1>2, WhatIsLeftIsNoTest
  <2>3. DeclaredThere(files[f], v[1])
    BY <2>1, <2>2 DEF DeclaredThere
  <2> QED
    BY <1>1, <1>3, <1>4, <1>6, <2>3 DEF ReallyBuilt
<1> QED
  BY <1>1, <1>5, <1>6

LEMMA PassingMeansBuilt ==
  ASSUME NEW table, table # Unreadable, NEW tree,
         \A f \in DOMAIN tree.files : IsSource(tree.files[f]),
         ProducersPass(table, tree)
  PROVE  VariantsAreBuilt(table, tree)
<1> SUFFICES ASSUME NEW f \in DOMAIN tree.files, NEW v \in DeclaredVariants(tree.files[f]),
                    v[1] \in Swept
             PROVE  ReallyBuilt(tree.files, v) \/ \E c \in Range(table) : v \in c.orphan
  BY DEF VariantsAreBuilt
<1>1. CASE IsConstructed(tree.files, v[1], v[2])
  <2>1. PICK files : files = tree.files
    OBVIOUS
  <2>2. ReallyBuilt(files, v)
    BY <1>1, <2>1, ConstructedIsBuilt
  <2> QED
    BY <2>1, <2>2
<1>2. CASE ~IsConstructed(tree.files, v[1], v[2])
  <2>1. v \in Orphans(tree.files)
    BY <1>2 DEF Orphans
  <2>2. v \in AcknowledgedOrphans(table)
    BY <2>1 DEF ProducersPass, Unacknowledged
  <2> QED
    BY <2>2 DEF AcknowledgedOrphans, Range
<1> QED
  BY <1>1, <1>2
--------------------------------------------------------------------------------
(* The file of records.                                                    *)

OneADay(file) == \A i, j \in DOMAIN file : file[i].day = file[j].day => i = j
DaysIn(file) == {file[i].day : i \in DOMAIN file}

LEMMA OtherDaysStay ==
  ASSUME NEW file, file \in Seq(Range(file)), OneADay(file), NEW day
  PROVE  /\ OtherDays(file, day) \in Seq(Range(file))
         /\ OneADay(OtherDays(file, day))
         /\ DaysIn(OtherDays(file, day)) = DaysIn(file) \ {day}
<1>1. PICK n, others_, places : /\ n = Len(file)
                                /\ others_ = {i \in DOMAIN file : file[i].day # day}
                                /\ places = Ascending(n, others_)
  OBVIOUS
<1>2. n \in Nat /\ DOMAIN file = 1 .. n
  BY <1>1
<1>3. /\ places \in Seq(Nat \ {0})
      /\ \A k \in 1 .. Len(places) : places[k] \in others_ \cap (1 .. n)
      /\ \A x \in others_ \cap (1 .. n) : \E k \in 1 .. Len(places) : places[k] = x
      /\ \A k, l \in 1 .. Len(places) : places[k] = places[l] => k = l
  <2>1. /\ Ascending(n, others_) \in Seq(Nat \ {0})
        /\ \A k \in 1 .. Len(Ascending(n, others_)) : Ascending(n, others_)[k] \in others_ \cap (1 .. n)
        /\ \A x \in others_ \cap (1 .. n) :
             \E k \in 1 .. Len(Ascending(n, others_)) : Ascending(n, others_)[k] = x
        /\ \A k, l \in 1 .. Len(Ascending(n, others_)) :
             Ascending(n, others_)[k] = Ascending(n, others_)[l] => k = l
    BY ONLY <1>2, AscendingNames
  <2>2. places = Ascending(n, others_)
    BY <1>1
  <2> QED
    BY ONLY <2>1, <2>2
<1>4. PICK kept : kept = [k \in DOMAIN places |-> file[places[k]]]
  OBVIOUS
<1>5. OtherDays(file, day) = kept
  BY <1>1, <1>4 DEF OtherDays
<1>6. Len(places) \in Nat /\ DOMAIN places = 1 .. Len(places)
  BY <1>3
<1>7. \A k \in 1 .. Len(places) :
        kept[k] = file[places[k]] /\ places[k] \in 1 .. n /\ file[places[k]].day # day
  BY <1>1, <1>3, <1>4, <1>6
<1>8. \A i \in 1 .. n : file[i] \in Range(file)
  BY <1>2 DEF Range
<1>9. kept \in [1 .. Len(places) -> Range(file)]
  BY <1>4, <1>6, <1>7, <1>8
<1>10. kept \in Seq(Range(file)) /\ DOMAIN kept = 1 .. Len(places)
  BY <1>6, <1>9
<1>11. OneADay(kept)
  <2>1. ASSUME NEW k \in 1 .. Len(places), NEW l \in 1 .. Len(places), kept[k].day = kept[l].day
        PROVE  k = l
    <3>1. places[k] = places[l]
      BY <1>2, <1>7, <2>1 DEF OneADay
    <3> QED
      BY <1>3, <3>1
  <2> QED
    BY <1>10, <2>1 DEF OneADay
<1>12. ASSUME NEW d \in DaysIn(kept) PROVE d \in DaysIn(file) \ {day}
  <2>1. PICK k \in 1 .. Len(places) : d = kept[k].day
    BY <1>10, <1>12 DEF DaysIn
  <2> QED
    BY <1>2, <1>7, <2>1 DEF DaysIn
<1>13. ASSUME NEW d \in DaysIn(file) \ {day} PROVE d \in DaysIn(kept)
  <2>1. PICK i \in 1 .. n : d = file[i].day
    BY <1>2, <1>13 DEF DaysIn
  <2>2. i \in others_ \cap (1 .. n)
    BY <1>1, <1>2, <1>13, <2>1
  <2>3. PICK k \in 1 .. Len(places) : places[k] = i
    BY <1>3, <2>2
  <2> QED
    BY <1>7, <1>10, <2>1, <2>3 DEF DaysIn
<1> QED
  BY <1>5, <1>10, <1>11, <1>12, <1>13

LEMMA RecordReplaces ==
  ASSUME NEW file, file \in Seq(Range(file)), OneADay(file), NEW day, NEW record, record.day = day,
         NEW next, next = AppendRecord(file, day, record)
  PROVE  /\ next \in Seq(Range(next))
         /\ OneADay(next)
         /\ DaysIn(next) = DaysIn(file) \cup {day}
<1>1. PICK kept : kept = OtherDays(file, day)
  OBVIOUS
<1>2. /\ kept \in Seq(Range(file)) /\ OneADay(kept)
      /\ DaysIn(kept) = DaysIn(file) \ {day}
  BY <1>1, OtherDaysStay
<1>3. next = Append(kept, record)
  BY <1>1 DEF AppendRecord
<1>4. PICK T : T = Range(file) \cup {record}
  OBVIOUS
<1>5. kept \in Seq(T) /\ record \in T
  BY <1>2, <1>4
<1>6. next \in Seq(T)
  BY <1>3, <1>5
<1>7. PICK n : n = Len(kept)
  OBVIOUS
<1>8. /\ n \in Nat /\ DOMAIN kept = 1 .. n /\ DOMAIN next = 1 .. n + 1 /\ next[n + 1] = record
      /\ \A i \in 1 .. n : next[i] = kept[i]
  BY <1>3, <1>5, <1>7
<1>9. next \in Seq(Range(next))
  <2>1. \A i \in 1 .. n + 1 : next[i] \in Range(next)
    BY <1>8 DEF Range
  <2>2. next = [i \in 1 .. n + 1 |-> next[i]]
    BY <1>6, <1>8
  <2>3. n + 1 \in Nat
    BY <1>8
  <2>4. next \in [1 .. n + 1 -> Range(next)]
    BY <2>1, <2>2
  <2> QED
    BY <2>3, <2>4
<1>10. \A i \in 1 .. n : kept[i].day # day
  BY <1>2, <1>8 DEF DaysIn
<1>11. ASSUME NEW i \in 1 .. n + 1, NEW j \in 1 .. n + 1, next[i].day = next[j].day
       PROVE  i = j
  <2>1. i \in 1 .. n \/ i = n + 1
    BY <1>8
  <2>2. j \in 1 .. n \/ j = n + 1
    BY <1>8
  <2> QED
    BY <1>2, <1>8, <1>10, <1>11, <2>1, <2>2 DEF OneADay
<1>12. DaysIn(next) = DaysIn(file) \cup {day}
  <2>1. \A d \in DaysIn(next) : d \in DaysIn(kept) \cup {day}
    <3>1. \A i \in 1 .. n + 1 : i \in 1 .. n \/ i = n + 1
      BY <1>8
    <3> QED
      BY <1>8, <3>1 DEF DaysIn
  <2>2. \A d \in DaysIn(kept) : d \in DaysIn(next)
    <3>1. \A i \in 1 .. n : i \in 1 .. n + 1
      BY <1>8
    <3> QED
      BY <1>8, <3>1 DEF DaysIn
  <2>3. day \in DaysIn(next)
    <3>1. n + 1 \in 1 .. n + 1
      BY <1>8
    <3> QED
      BY <1>8, <3>1 DEF DaysIn
  <2> QED
    BY <1>2, <2>1, <2>2, <2>3
<1> QED
  BY <1>8, <1>9, <1>11, <1>12 DEF OneADay
--------------------------------------------------------------------------------
(* What the table of claims rests on.                                      *)

LEMMA NewestIsSwept ==
  ASSUME NEW file, file # <<>>, file \in Seq(Range(file)), NEW now \in Nat,
         DaysIn(file) \subseteq 0 .. now
  PROVE  NewestRecordDay(file) \in DaysIn(file)
<1>1. PICK days : days = DaysIn(file)
  OBVIOUS
<1>2. 1 \in DOMAIN file
  BY EmptySeq
<1>3. days # {}
  BY <1>1, <1>2 DEF DaysIn
<1>4. PICK ages : ages = {now - d : d \in days}
  OBVIOUS
<1>5. ages \in SUBSET Nat /\ ages # {}
  BY <1>1, <1>3, <1>4
<1>6. PICK least \in ages : \A y \in ages : least <= y
  BY <1>5, LeastElement
<1>7. PICK d \in days : least = now - d
  BY <1>4, <1>6
<1>8. \A e \in days : d >= e
  <2> SUFFICES ASSUME NEW e \in days PROVE d >= e
    OBVIOUS
  <2>1. now - d <= now - e
    BY <1>4, <1>6, <1>7
  <2>2. d \in Int /\ e \in Int
    BY <1>1
  <2> QED
    BY <2>1, <2>2
<1>9. Max(days) \in days
  BY <1>7, <1>8 DEF Max
<1>10. NewestRecordDay(file) = Max(days)
  BY <1>1 DEF NewestRecordDay, DaysIn
<1> QED
  BY <1>1, <1>9, <1>10

LEMMA PassingMeansEvidence ==
  ASSUME NEW table, table \in Seq(Range(table)),
         \A c \in Range(table) : c.window = {} \/ \E n \in c.window : n \in Nat /\ c.window = {n},
         NEW tree, today \in Nat, swept \subseteq 0 .. today, records \in Seq(Range(records)),
         DaysIn(records) = swept, ClaimsPass(table, tree, records, today)
  PROVE  ClaimsRest(table, tree)
<1>1. ProblemsOf(table, tree, records, today) = {}
  BY DEF ClaimsPass
<1>2. \A j \in DOMAIN table : ~EvidenceMissing(table[j], tree, records, today)
  BY <1>1 DEF ProblemsOf
<1>3. \A j \in DOMAIN table : ~(NeedsEvidence(table[j]) /\ table[j].kind = "none")
  BY <1>1 DEF ProblemsOf
<1>4. \A j \in DOMAIN table :
        ~(table[j].status = "operated" /\ table[j].kind # "none" /\ table[j].window = {})
  <2> SUFFICES ASSUME NEW j \in DOMAIN table, table[j].status = "operated",
                      table[j].kind # "none", table[j].window = {}
               PROVE  FALSE
    OBVIOUS
  <2>1. j \in {k \in DOMAIN table : table[k].status = "operated" /\ table[k].kind # "none"
                                    /\ table[k].window = {}}
    OBVIOUS
  <2>2. <<j, "no window">> \in ProblemsOf(table, tree, records, today)
    BY <2>1 DEF ProblemsOf
  <2> QED
    BY <1>1, <2>2
<1> SUFFICES ASSUME NEW c \in Range(table)
             PROVE  /\ NeedsEvidence(c) =>
                         \/ c.kind = "test" /\ c.by \in tree.functions
                         \/ c.kind = "doctest" /\ c.by \in tree.compileFail
                         \/ c.kind = "results" /\ \E s \in swept : \A w \in c.window : today - s <= w
                    /\ c.status = "operated" => c.window # {}
  BY DEF ClaimsRest
<1>5. /\ ~EvidenceMissing(c, tree, records, today)
      /\ ~(NeedsEvidence(c) /\ c.kind = "none")
      /\ ~(c.status = "operated" /\ c.kind # "none" /\ c.window = {})
  BY <1>2, <1>3, <1>4 DEF Range
<1>51. today \in Nat /\ swept \subseteq 0 .. today
  OBVIOUS
<1>6. c.status = "operated" => NeedsEvidence(c)
  BY DEF NeedsEvidence
<1>7. ASSUME NeedsEvidence(c)
      PROVE  \/ c.kind = "test" /\ c.by \in tree.functions
             \/ c.kind = "doctest" /\ c.by \in tree.compileFail
             \/ c.kind = "results" /\ \E s \in swept : \A w \in c.window : today - s <= w
  <2>1. c.kind # "none"
    BY <1>5, <1>7
  <2>2. CASE c.kind = "test"
    BY <1>5, <2>2 DEF EvidenceMissing
  <2>3. CASE c.kind = "doctest"
    BY <1>5, <2>3 DEF EvidenceMissing
  <2>4. CASE c.kind = "results"
    <3>1. records # <<>> /\ ~Stale(c, records, today)
      BY <1>5, <2>4 DEF EvidenceMissing
    <3>2. PICK s : s = NewestRecordDay(records)
      OBVIOUS
    <3>3. s \in swept
      BY <3>1, <3>2, NewestIsSwept
    <3>4. ASSUME NEW w \in c.window PROVE today - s <= w
      <4>1. c.window = {w} /\ w \in Nat
        OBVIOUS
      <4>2. Max(c.window) = w
        BY <4>1 DEF Max
      <4>3. ~(Since(s, today) > w)
        BY <3>1, <3>2, <4>1, <4>2 DEF Stale
      <4>4. s \in 0 .. today
        BY <1>51, <3>3, Zenon
      <4>5. s \in Nat /\ s <= today
        BY ONLY <1>51, <4>4, SMTT(30)
      <4> QED
        BY <4>1, <4>3, <4>5 DEF Since
    <3> QED
      BY <2>4, <3>3, <3>4
  <2>5. CASE c.kind \notin {"test", "doctest", "results"}
    BY <1>5, <2>1, <2>5 DEF EvidenceMissing
  <2> QED
    BY <2>2, <2>3, <2>4, <2>5
<1> QED
  BY <1>5, <1>6, <1>7

LEMMA PassingMeansNames ==
  ASSUME NEW table, table \in Seq(Range(table)), NEW tree, NEW file, NEW now,
         ClaimsPass(table, tree, file, now)
  PROVE  NamesDiffer(table)
<1>1. ProblemsOf(table, tree, file, now) = {}
  BY DEF ClaimsPass
<1>2. \A j \in DOMAIN table : ~\E k \in 1 .. (j - 1) : table[k].id = table[j].id
  BY <1>1 DEF ProblemsOf
<1>3. PICK n, ids, f : /\ n = Len(table) /\ ids = {c.id : c \in Range(table)}
                       /\ f = [i \in 1 .. n |-> table[i].id]
  OBVIOUS
<1>4. n \in Nat /\ DOMAIN table = 1 .. n
  BY <1>3
<1>5. ASSUME NEW i \in 1 .. n, NEW j \in 1 .. n, table[i].id = table[j].id PROVE i = j
  <2>1. ~(i < j)
    BY <1>2, <1>4, <1>5
  <2>2. ~(j < i)
    BY <1>2, <1>4, <1>5
  <2> QED
    BY <1>4, <2>1, <2>2
<1>6. f \in [1 .. n -> ids]
  BY <1>3, <1>4 DEF Range
<1>7. \A x \in ids : \E i \in 1 .. n : f[i] = x
  BY <1>3, <1>4 DEF Range
<1>8. \A i, j \in 1 .. n : f[i] = f[j] => i = j
  BY <1>3, <1>5
<1>9. f \in Bijection(1 .. n, ids)
  BY <1>6, <1>7, <1>8 DEF Bijection, Injection, Surjection, IsInjective
<1>10. IsFiniteSet(1 .. n) /\ Cardinality(1 .. n) = n
  <2>1. 1 \in Int /\ n \in Int
    BY <1>4
  <2> QED
    BY <1>4, <2>1, FS_Interval
<1>11. Cardinality(ids) = n
  BY <1>9, <1>10, FS_Bijection DEF ExistsBijection
<1> QED
  BY <1>3, <1>11 DEF NamesDiffer
--------------------------------------------------------------------------------
(* What was heard of a server, and the row it is given.                    *)

IsList(tools) == tools \in Seq(Range(tools))

LEMMA EmptyIsList == IsList(<<>>)
  BY DEF IsList

LEMMA AskedIs ==
  ASSUME NEW said \in SeqOf(ServerLines, MaxHeard), NEW how \in BOOLEAN
  PROVE  /\ IsList(AskForTools(how, said).tools)
         /\ AskForTools(how, said).stateless => how
<1>1. PICK m \in 0 .. MaxHeard : said \in [1 .. m -> ServerLines]
  BY DEF SeqOf
<1>2. m \in Nat /\ said \in Seq(ServerLines) /\ DOMAIN said = 1 .. m
  BY <1>1, EvidenceAssumption
<1>3. PICK heard : heard = HeardOf(said)
  OBVIOUS
<1>4. heard # <<>> => heard[Len(heard)] \in ServerLines
  <2> DEFINE ends == {i \in DOMAIN said : said[i].answers = "second"}
  <2>1. CASE ends = {}
    <3>1. heard = said
      BY <1>3, <2>1 DEF HeardOf
    <3> QED
      BY <1>2, <3>1
  <2>2. CASE ends # {}
    <3>1. ends \in SUBSET Nat
      BY <1>2
    <3>2. PICK first : first = CHOOSE i \in ends : \A j \in ends : i <= j
      OBVIOUS
    <3>3. \E i \in ends : \A j \in ends : i <= j
      BY <2>2, <3>1, LeastElement
    <3>4. first \in ends
      BY <3>2, <3>3
    <3>5. heard = SubSeq(said, 1, first)
      BY <1>3, <2>2, <3>2 DEF HeardOf
    <3>6. first \in 1 .. m
      BY <1>2, <3>4
    <3>7. Len(heard) = first /\ heard[first] = said[first]
      BY <1>2, <3>5, <3>6
    <3> QED
      BY <1>2, <3>6, <3>7
  <2> QED
    BY <2>1, <2>2
<1>5. PICK tools : tools = IF heard # <<>> THEN Last(heard).tools ELSE <<>>
  OBVIOUS
<1>6. \A line \in ServerLines : IsList(line.tools)
  <2> SUFFICES ASSUME NEW line \in ServerLines PROVE IsList(line.tools)
    OBVIOUS
  <2>1. CASE line \in {Noise, Discovered}
    BY <2>1, EmptyIsList DEF Noise, Discovered
  <2>2. CASE line \in {ToolsAnswer(told) : told \in Listed}
    <3>1. PICK told \in Listed : line = ToolsAnswer(told)
      BY <2>2
    <3>2. line.tools = told
      BY <3>1 DEF ToolsAnswer
    <3> QED
      BY <3>2, EvidenceAssumption DEF IsList
  <2> QED
    BY <2>1, <2>2 DEF ServerLines
<1>7. IsList(tools)
  BY <1>4, <1>5, <1>6, EmptyIsList DEF Last
<1>8. AskForTools(how, said).tools = tools
  BY <1>3, <1>5 DEF AskForTools
<1>9. AskForTools(how, said).stateless => how
  BY DEF AskForTools
<1> QED
  BY <1>7, <1>8, <1>9

\* A name that is there is there once or more often.
LEMMA OftenIs ==
  ASSUME NEW names, IsFiniteSet(DOMAIN names), NEW x
  PROVE  Often(names, x) = 0 <=> x \notin Range(names)
<1> DEFINE places == {i \in DOMAIN names : names[i] = x}
<1>1. IsFiniteSet(places)
  <2>1. places \in SUBSET DOMAIN names
    OBVIOUS
  <2> QED
    BY <2>1, FS_Subset
<1>2. Cardinality(places) = 0 <=> places = {}
  BY <1>1, FS_EmptySet
<1>3. places = {} <=> x \notin Range(names)
  BY DEF Range
<1> QED
  BY <1>2, <1>3 DEF Often

LEMMA ChurnIsDescribed ==
  ASSUME NEW first, IsList(first), NEW second, IsList(second), first # second
  PROVE  DetailIsTrue(DescribeChurn(first, second), first, second)
<1>1. PICK a, b : a = NamesIn(first) /\ b = NamesIn(second)
  OBVIOUS
<1>2. PICK m, n : /\ m = Len(first) /\ n = Len(second) /\ m \in Nat /\ n \in Nat
                  /\ DOMAIN first = 1 .. m /\ DOMAIN second = 1 .. n
                  /\ first = [i \in 1 .. m |-> first[i]] /\ second = [i \in 1 .. n |-> second[i]]
  <2>1. first \in Seq(Range(first)) /\ second \in Seq(Range(second))
    BY DEF IsList
  <2>2. /\ Len(first) \in Nat /\ DOMAIN first = 1 .. Len(first)
        /\ first = [i \in 1 .. Len(first) |-> first[i]]
    BY <2>1
  <2>3. /\ Len(second) \in Nat /\ DOMAIN second = 1 .. Len(second)
        /\ second = [i \in 1 .. Len(second) |-> second[i]]
    BY <2>1
  <2> QED
    BY <2>2, <2>3
<1>3. DOMAIN a = 1 .. m /\ DOMAIN b = 1 .. n
  BY <1>1, <1>2 DEF NamesIn
<1>4. IsFiniteSet(DOMAIN a) /\ IsFiniteSet(DOMAIN b)
  <2>1. 1 \in Int /\ m \in Int /\ n \in Int
    BY <1>2
  <2> QED
    BY <1>3, <2>1, FS_Interval
<1>5. PICK d : d = DescribeChurn(first, second)
  OBVIOUS
<1>6. CASE a # b /\ SameNames(a, b)
  <2>1. d = [NoChurn EXCEPT !.what = "order"]
    BY <1>1, <1>5, <1>6 DEF DescribeChurn
  <2>2. d.what = "order"
    BY <2>1 DEF NoChurn
  <2>3. \A x \in Range(a) \cup Range(b) : Often(a, x) = Often(b, x)
    BY <1>6 DEF SameNames
  <2>4. \A x \in Range(a) : x \in Range(b)
    BY <1>4, <2>3, OftenIs
  <2>5. \A x \in Range(b) : x \in Range(a)
    BY <1>4, <2>3, OftenIs
  <2>6. Range(a) = Range(b)
    BY <2>4, <2>5
  <2> QED
    BY <1>1, <1>5, <1>6, <2>2, <2>6 DEF DetailIsTrue
<1>7. CASE a # b /\ ~SameNames(a, b)
  <2>1. d = [NoChurn EXCEPT !.what = "set", !.gained = Range(b) \ Range(a),
                            !.lost = Range(a) \ Range(b)]
    BY <1>1, <1>5, <1>7 DEF DescribeChurn
  <2>2. d.what = "set" /\ d.gained = Range(b) \ Range(a) /\ d.lost = Range(a) \ Range(b)
    BY <2>1 DEF NoChurn
  <2>3. Range(b) = (Range(a) \ d.lost) \cup d.gained
    BY <2>2
  <2> QED
    BY <1>1, <1>5, <2>2, <2>3 DEF DetailIsTrue
<1>8. CASE a = b
  <2> DEFINE moved == {i \in DOMAIN first \cap DOMAIN second : first[i] # second[i]}
  <2>1. 1 .. m = 1 .. n
    BY <1>3, <1>8
  <2>2. moved # {}
    BY <1>2, <2>1
  <2>3. moved \in SUBSET Nat
    BY <1>2
  <2>4. PICK at : at = CHOOSE i \in moved : \A j \in moved : i <= j
    OBVIOUS
  <2>5. \E i \in moved : \A j \in moved : i <= j
    <3> HIDE DEF moved
    <3> QED
      BY <2>2, <2>3, LeastElement
  <2>6. at \in moved
    BY <2>4, <2>5
  <2>7. d = [NoChurn EXCEPT !.what = "field", !.at = at,
                            !.key = FieldThatMoved(first[at], second[at])]
    BY <1>1, <1>5, <1>8, <2>4 DEF DescribeChurn
  <2>8. d.what = "field" /\ d.at = at
    BY <2>7 DEF NoChurn
  <2>9. first[d.at] # second[d.at]
    BY <2>6, <2>8
  <2> QED
    BY <1>1, <1>5, <1>8, <2>8, <2>9 DEF DetailIsTrue
<1> QED
  BY <1>6, <1>7, <1>8

LEMMA NoChurnIsTrue ==
  ASSUME NEW first, NEW second
  PROVE  DetailIsTrue(NoChurn, first, second)
  BY DEF DetailIsTrue, NoChurn

\* A server that answers neither way.
LEMMA NotReachedIsTrue ==
  ASSUME NEW target, NEW a, ~a.ok, NEW b, NEW row, row = Row(target)
  PROVE  RowIsTrue(row, <<a, b>>)
<1>1. ~row.reached /\ ~row.stateless /\ ~row.churns /\ row.detail = NoChurn
  BY DEF Row
<1>2. PICK line : line = ShownAs(row)
  OBVIOUS
<1>3. line.churns = {} /\ line.stateless = {} /\ line.tools = {}
  BY <1>1, <1>2 DEF ShownAs
<1>4. ~\E i \in 1 .. (Len(<<a, b>>) - 1) : <<a, b>>[i].ok
  <2>1. \A i \in 1 .. (Len(<<a, b>>) - 1) : i = 1
    OBVIOUS
  <2> QED
    BY <2>1
<1> QED
  BY <1>1, <1>2, <1>3, <1>4, NoChurnIsTrue DEF RowIsTrue

\* A server that was asked once more.
LEMMA MeasuredIsTrue ==
  ASSUME NEW answers, answers \in Seq(Range(answers)), Len(answers) >= 1,
         NEW first, first = answers[Len(answers)], first.ok, IsList(first.tools),
         first.stateless => answers[1].stateless,
         NEW again, IsList(again.tools),
         NEW target, NEW row, row = Measured(target, first, again)
  PROVE  RowIsTrue(row, Append(answers, again))
<1>1. PICK n, more, T : /\ n = Len(answers) /\ more = Append(answers, again)
                        /\ T = Range(answers) \cup {again}
  OBVIOUS
<1>2. answers \in Seq(T) /\ again \in T /\ n \in Nat
  BY <1>1
<1>3. /\ Len(more) = n + 1 /\ more[n + 1] = again /\ more[n] = first /\ more[1] = answers[1]
  BY <1>1, <1>2
<1>4. PICK second : second = IF again.ok THEN again.tools ELSE <<>>
  OBVIOUS
<1>5. row.reached
  BY DEF Measured
<1>6. row.stateless = first.stateless
  BY DEF Measured
<1>7. row.churns <=> Churns(first.tools, second)
  BY <1>4 DEF Measured
<1>8. row.detail = IF Churns(first.tools, second) THEN DescribeChurn(first.tools, second)
                   ELSE NoChurn
  BY <1>4 DEF Measured
<1>9. Churns(first.tools, second) =>
        /\ second = again.tools /\ second # <<>> /\ first.tools # second
  BY <1>4 DEF Churns
<1>10. DetailIsTrue(row.detail, first.tools, again.tools)
  <2>1. CASE Churns(first.tools, second)
    <3>1. PICK x, y : x = first.tools /\ y = again.tools
      OBVIOUS
    <3>2. row.detail = DescribeChurn(x, y) /\ x # y
      BY <1>8, <1>9, <2>1, <3>1
    <3>3. DetailIsTrue(DescribeChurn(x, y), x, y)
      BY <3>1, <3>2, ChurnIsDescribed
    <3> QED
      BY <3>1, <3>2, <3>3
  <2>2. CASE ~Churns(first.tools, second)
    BY <1>8, <2>2, NoChurnIsTrue
  <2> QED
    BY <2>1, <2>2
<1>11. n \in 1 .. (Len(more) - 1)
  BY <1>1, <1>2, <1>3
<1>12. /\ more[Len(more) - 1].tools = first.tools /\ Last(more).tools = again.tools
  BY <1>2, <1>3 DEF Last
<1>13. row.reached <=> \E i \in 1 .. (Len(more) - 1) : more[i].ok
  BY <1>3, <1>5, <1>11
<1>14. row.stateless => more[1].stateless
  BY <1>3, <1>6
<1>15. row.churns => Last(more).tools # <<>> /\ more[Len(more) - 1].tools # Last(more).tools
  BY <1>7, <1>9, <1>12
<1> QED
  BY <1>1, <1>5, <1>10, <1>12, <1>13, <1>14, <1>15 DEF RowIsTrue
--------------------------------------------------------------------------------
(* The invariant: what was seen is a first attempt, a second one that made *)
(* good for it, or something a row was made of; what a check said stands   *)
(* until a sweep is started or a day is over.                              *)

SweepInv ==
  /\ IsList(todo) /\ IsList(rows) /\ IsList(seen)
  /\ \A i \in DOMAIN seen : IsList(seen[i].tools)
  /\ Probing => todo # <<>> /\ (Len(seen) = 2 => ~seen[2].stateless)
  /\ seen # <<>> /\ ~Probing => rows # <<>>
  /\ RowSaysWhatWasSeen
FileInv ==
  /\ today \in Nat /\ IsList(records)
  /\ swept \subseteq 0 .. today
  /\ HistoryIsKept
CheckInv ==
  /\ ~Idle => verdict = NotAsked
  /\ verdict.green =>
       /\ ClaimsRest(verdict.table, verdict.tree)
       /\ NamesDiffer(verdict.table)
       /\ VariantsAreBuilt(verdict.table, verdict.tree)
EvidenceInv == SweepInv /\ FileInv /\ CheckInv

LEMMA ListGrows ==
  ASSUME NEW list, IsList(list), NEW x
  PROVE  /\ IsList(Append(list, x)) /\ Append(list, x) # <<>> /\ Last(Append(list, x)) = x
         /\ Len(Append(list, x)) = Len(list) + 1 /\ Len(list) \in Nat
         /\ Append(list, x)[Len(list) + 1] = x
         /\ \A i \in 1 .. Len(list) : Append(list, x)[i] = list[i]
<1>1. PICK T, n, more : /\ T = Range(list) \cup {x} /\ n = Len(list) /\ more = Append(list, x)
  OBVIOUS
<1>2. list \in Seq(T) /\ x \in T
  BY <1>1 DEF IsList
<1>3. /\ n \in Nat /\ more \in Seq(T) /\ DOMAIN more = 1 .. n + 1 /\ Len(more) = n + 1
      /\ more[n + 1] = x /\ more # <<>> /\ \A i \in 1 .. n : more[i] = list[i]
  BY <1>1, <1>2
<1>4. IsList(more)
  <2>1. \A i \in 1 .. n + 1 : more[i] \in Range(more)
    BY <1>3 DEF Range
  <2>2. more = [i \in 1 .. n + 1 |-> more[i]]
    BY <1>3
  <2>3. more \in [1 .. n + 1 -> Range(more)] /\ n + 1 \in Nat
    BY <1>3, <2>1, <2>2
  <2> QED
    BY <2>3 DEF IsList
<1> QED
  BY <1>1, <1>3, <1>4 DEF Last

LEMMA ListShrinks ==
  ASSUME NEW list, IsList(list), list # <<>>
  PROVE  IsList(Tail(list))
<1>1. PICK n, less : n = Len(list) /\ less = Tail(list)
  OBVIOUS
<1>2. list \in Seq(Range(list))
  BY DEF IsList
<1>3. /\ n \in Nat /\ n # 0 /\ less \in Seq(Range(list)) /\ Len(less) = n - 1
      /\ DOMAIN less = 1 .. n - 1
  BY <1>1, <1>2
<1>4. \A i \in 1 .. n - 1 : less[i] \in Range(less)
  BY <1>3 DEF Range
<1>5. less = [i \in 1 .. n - 1 |-> less[i]]
  BY <1>3
<1>6. PICK k \in Nat : k = n - 1
  BY <1>3
<1>7. less \in [1 .. k -> Range(less)]
  BY <1>4, <1>5, <1>6
<1>8. less \in Seq(Range(less))
  BY <1>6, <1>7
<1> QED
  BY <1>1, <1>8 DEF IsList

LEMMA IdleHasSeenNothing ==
  ASSUME SweepInv, Idle
  PROVE  seen = <<>>
  BY DEF SweepInv, Idle

LEMMA EvidenceInitInv == EvidenceInit => EvidenceInv
<1> SUFFICES ASSUME EvidenceInit PROVE EvidenceInv
  OBVIOUS
<1>1. /\ today = 0 /\ records = <<>> /\ todo = <<>> /\ rows = <<>> /\ seen = <<>>
      /\ swept = {} /\ verdict = NotAsked
  BY DEF EvidenceInit
<1>2. SweepInv
  BY <1>1, EmptyIsList DEF SweepInv, Probing, RowSaysWhatWasSeen
<1>3. FileInv
  BY <1>1, EmptyIsList DEF FileInv, HistoryIsKept
<1>4. CheckInv
  BY <1>1 DEF CheckInv, Idle, NotAsked
<1> QED
  BY <1>2, <1>3, <1>4 DEF EvidenceInv

LEMMA StartSweepKeeps ==
  ASSUME EvidenceInv, NEW targets \in Sweeps, StartSweep(targets)
  PROVE  EvidenceInv'
<1>1. /\ todo' = targets /\ verdict' = NotAsked /\ today' = today /\ records' = records
      /\ rows' = rows /\ seen' = seen /\ swept' = swept /\ Idle
  BY DEF StartSweep
<1>2. seen = <<>>
  BY <1>1, IdleHasSeenNothing DEF EvidenceInv
<1>3. seen' = <<>> /\ ~(seen' # <<>>)
  BY <1>1, <1>2
<1>4. IsList(todo')
  BY <1>1, EvidenceAssumption DEF IsList
<1>5. SweepInv'
  BY <1>1, <1>3, <1>4, EmptyIsList
     DEF EvidenceInv, SweepInv, Probing, RowSaysWhatWasSeen
<1>6. FileInv'
  BY <1>1 DEF EvidenceInv, FileInv, HistoryIsKept
<1>7. CheckInv'
  BY <1>1 DEF CheckInv, NotAsked
<1> QED
  BY <1>5, <1>6, <1>7 DEF EvidenceInv

\* What the steps of a sweep leave alone.
LEMMA SweepLeavesAlone ==
  ASSUME EvidenceInv, ~Idle, UNCHANGED <<today, records, swept, verdict>>
  PROVE  FileInv' /\ CheckInv'
<1>1. verdict = NotAsked
  BY DEF EvidenceInv, CheckInv
<1>2. verdict' = NotAsked
  BY <1>1
<1>3. CheckInv'
  BY <1>2 DEF CheckInv, NotAsked
<1>4. FileInv'
  BY DEF EvidenceInv, FileInv, HistoryIsKept
<1> QED
  BY <1>3, <1>4

LEMMA AskFirstKeeps ==
  ASSUME EvidenceInv, NEW said \in SeqOf(ServerLines, MaxHeard), AskFirst(said)
  PROVE  EvidenceInv'
<1>1. PICK a : a = AskForTools(TRUE, said)
  OBVIOUS
<1>2. /\ seen' = <<a>> /\ todo' = todo /\ rows' = rows /\ todo # <<>>
      /\ UNCHANGED <<today, records, swept, verdict>>
  BY <1>1 DEF AskFirst
<1>3. IsList(a.tools)
  BY <1>1, AskedIs
<1>4. PICK s : s = seen'
  OBVIOUS
<1>5. s = <<a>>
  BY <1>2, <1>4
<1>6. /\ IsList(s) /\ Len(s) = 1 /\ s # <<>> /\ DOMAIN s = {1} /\ s[1] = a
  <2>1. s = Append(<<>>, a)
    BY <1>5
  <2>2. IsList(s)
    BY <2>1, EmptyIsList, ListGrows
  <2> QED
    BY <1>5, <2>2
<1>7. Len(seen') = 1 /\ seen' # <<>>
  BY <1>4, <1>6
<1>8. Probing'
  BY <1>7 DEF Probing
<1>9. \A i \in DOMAIN seen' : IsList(seen'[i].tools)
  BY <1>3, <1>4, <1>6
<1>10. SweepInv'
  <2>1. IsList(todo') /\ IsList(rows') /\ IsList(seen') /\ todo' # <<>>
    BY <1>2, <1>4, <1>6 DEF EvidenceInv, SweepInv
  <2>2. RowSaysWhatWasSeen'
    BY <1>8 DEF RowSaysWhatWasSeen
  <2>3. Len(seen') # 2
    BY <1>7
  <2> QED
    BY <1>7, <1>8, <1>9, <2>1, <2>2, <2>3 DEF SweepInv
<1>11. FileInv' /\ CheckInv'
  BY <1>2, SweepLeavesAlone DEF Idle
<1> QED
  BY <1>10, <1>11 DEF EvidenceInv

\* What is known of a server while it is asked.
LEMMA ProbingIs ==
  ASSUME SweepInv, Probing
  PROVE  /\ todo # <<>> /\ IsList(todo) /\ IsList(seen) /\ IsList(rows)
         /\ Len(seen) \in {1, 2} /\ Last(seen) = seen[Len(seen)]
         /\ Len(seen) = 2 => ~seen[1].ok /\ seen[2].ok /\ ~seen[2].stateless
         /\ \A i \in 1 .. Len(seen) : IsList(seen[i].tools)
<1>1. seen \in Seq(Range(seen))
  BY DEF SweepInv, IsList
<1>2. DOMAIN seen = 1 .. Len(seen)
  BY <1>1
<1> QED
  BY <1>2 DEF SweepInv, Probing, Last

LEMMA SeenGrows ==
  ASSUME SweepInv, Probing, NEW second, IsList(second.tools), seen' = Append(seen, second)
  PROVE  /\ IsList(seen') /\ seen' # <<>> /\ Len(seen') = Len(seen) + 1
         /\ seen'[1] = seen[1] /\ seen'[Len(seen) + 1] = second
         /\ \A i \in DOMAIN seen' : IsList(seen'[i].tools)
<1>1. IsList(seen) /\ Len(seen) \in {1, 2} /\ \A i \in 1 .. Len(seen) : IsList(seen[i].tools)
  BY ProbingIs
<1>2. PICK s, t, n : s = seen /\ t = seen' /\ n = Len(seen)
  OBVIOUS
<1>3. t = Append(s, second) /\ IsList(s) /\ n = Len(s) /\ n \in {1, 2}
      /\ \A i \in 1 .. n : IsList(s[i].tools)
  BY <1>1, <1>2
<1>4. /\ IsList(t) /\ t # <<>> /\ Len(t) = n + 1 /\ t[n + 1] = second
      /\ \A i \in 1 .. n : t[i] = s[i]
  BY <1>3, ListGrows
<1>5. DOMAIN t = 1 .. n + 1
  <2>1. t \in Seq(Range(t))
    BY <1>4 DEF IsList
  <2> QED
    BY <1>4, <2>1
<1>6. \A i \in 1 .. n + 1 : IsList(t[i].tools)
  BY <1>3, <1>4
<1>7. t[1] = s[1]
  BY <1>3, <1>4
<1> QED
  BY <1>2, <1>4, <1>5, <1>6, <1>7

LEMMA AskWithHandshakeKeeps ==
  ASSUME EvidenceInv, NEW said \in SeqOf(ServerLines, MaxHeard), AskWithHandshake(said)
  PROVE  EvidenceInv'
<1>1. PICK second : second = AskForTools(FALSE, said)
  OBVIOUS
<1>2. /\ Probing /\ ~Last(seen).ok /\ seen' = Append(seen, second)
      /\ rows' = IF second.ok THEN rows ELSE Append(rows, Row(Head(todo)))
      /\ todo' = IF second.ok THEN todo ELSE Tail(todo)
      /\ UNCHANGED <<today, records, swept, verdict>>
  BY <1>1 DEF AskWithHandshake
<1>3. IsList(second.tools) /\ ~second.stateless
  BY <1>1, AskedIs
<1>4. SweepInv
  BY DEF EvidenceInv
<1>5. /\ todo # <<>> /\ IsList(todo) /\ IsList(seen) /\ IsList(rows) /\ Len(seen) = 1
      /\ ~seen[1].ok
  BY <1>2, <1>4, ProbingIs
<1>6. /\ IsList(seen') /\ seen' # <<>> /\ Len(seen') = 2
      /\ seen'[1] = seen[1] /\ seen'[2] = second
      /\ \A i \in DOMAIN seen' : IsList(seen'[i].tools)
  BY <1>2, <1>3, <1>4, <1>5, SeenGrows
<1>7. FileInv' /\ CheckInv'
  BY <1>2, <1>5, SweepLeavesAlone DEF Idle
<1>8. Probing' <=> second.ok
  BY <1>5, <1>6 DEF Probing
<1>9. SweepInv'
  <2>1. CASE second.ok
    <3>1. todo' = todo /\ rows' = rows
      BY <1>2, <2>1
    <3>2. RowSaysWhatWasSeen'
      BY <1>8, <2>1 DEF RowSaysWhatWasSeen
    <3> QED
      BY <1>3, <1>5, <1>6, <1>8, <2>1, <3>1, <3>2 DEF SweepInv
  <2>2. CASE ~second.ok
    <3>1. PICK row : row = Row(Head(todo))
      OBVIOUS
    <3>2. todo' = Tail(todo) /\ rows' = Append(rows, row)
      BY <1>2, <2>2, <3>1
    <3>3. IsList(todo') /\ IsList(rows') /\ rows' # <<>> /\ Last(rows') = row
      <4>1. PICK r : r = rows
        OBVIOUS
      <4>2. IsList(Append(r, row)) /\ Append(r, row) # <<>> /\ Last(Append(r, row)) = row
        BY <1>5, <4>1, ListGrows
      <4>3. rows' = Append(r, row)
        BY <3>2, <4>1
      <4>4. IsList(Tail(todo))
        BY <1>5, ListShrinks
      <4> QED
        BY <3>2, <4>2, <4>3, <4>4
    <3>4. seen' = <<seen[1], second>>
      <4>1. PICK s : s = seen'
        OBVIOUS
      <4>2. s \in Seq(Range(s)) /\ Len(s) = 2 /\ s[1] = seen[1] /\ s[2] = second
        BY <1>6, <4>1 DEF IsList
      <4>3. s = <<seen[1], second>>
        BY <4>2
      <4> QED
        BY <4>1, <4>3
    <3>5. RowIsTrue(row, <<seen[1], second>>)
      <4>1. PICK a, target : a = seen[1] /\ target = Head(todo)
        OBVIOUS
      <4>2. ~a.ok /\ row = Row(target)
        BY <1>5, <3>1, <4>1
      <4>3. RowIsTrue(row, <<a, second>>)
        BY <4>2, NotReachedIsTrue
      <4> QED
        BY <4>1, <4>3
    <3>6. RowSaysWhatWasSeen'
      BY <3>3, <3>4, <3>5 DEF RowSaysWhatWasSeen
    <3> QED
      BY <1>6, <1>8, <2>2, <3>3, <3>6 DEF SweepInv
  <2> QED
    BY <2>1, <2>2
<1> QED
  BY <1>7, <1>9 DEF EvidenceInv

LEMMA AskAgainKeeps ==
  ASSUME EvidenceInv, NEW said \in SeqOf(ServerLines, MaxHeard), AskAgain(said)
  PROVE  EvidenceInv'
<1>1. PICK first, again, target, row :
        /\ first = Last(seen) /\ again = AskForTools(Last(seen).stateless, said)
        /\ target = Head(todo) /\ row = Measured(target, first, again)
  OBVIOUS
<1>2. /\ Probing /\ first.ok /\ seen' = Append(seen, again) /\ rows' = Append(rows, row)
      /\ todo' = Tail(todo) /\ UNCHANGED <<today, records, swept, verdict>>
  BY <1>1 DEF AskAgain
<1>3. SweepInv
  BY DEF EvidenceInv
<1>4. /\ todo # <<>> /\ IsList(todo) /\ IsList(seen) /\ IsList(rows)
      /\ Len(seen) \in {1, 2} /\ first = seen[Len(seen)]
      /\ Len(seen) = 2 => ~seen[1].ok /\ seen[2].ok /\ ~seen[2].stateless
      /\ \A i \in 1 .. Len(seen) : IsList(seen[i].tools)
  BY <1>1, <1>2, <1>3, ProbingIs
<1>5. IsList(first.tools)
  BY <1>4
<1>6. IsList(again.tools)
  <2>1. \A how \in BOOLEAN : IsList(AskForTools(how, said).tools)
    BY AskedIs
  <2> QED
    BY <1>1, <2>1 DEF AskForTools, HeardOf
<1>7. /\ IsList(seen') /\ seen' # <<>> /\ Len(seen') = Len(seen) + 1
      /\ seen'[1] = seen[1]
      /\ \A i \in DOMAIN seen' : IsList(seen'[i].tools)
  BY <1>2, <1>3, <1>6, SeenGrows
<1>8. ~Probing'
  BY <1>2, <1>4, <1>7 DEF Probing
<1>9. FileInv' /\ CheckInv'
  BY <1>2, <1>4, SweepLeavesAlone DEF Idle
<1>10. RowIsTrue(row, Append(seen, again))
  <2>1. PICK answers : answers = seen
    OBVIOUS
  <2>2. /\ answers \in Seq(Range(answers)) /\ Len(answers) >= 1
        /\ first = answers[Len(answers)] /\ (first.stateless => answers[1].stateless)
    <3>1. answers \in Seq(Range(answers)) /\ Len(answers) >= 1 /\ first = answers[Len(answers)]
      <4>1. answers \in Seq(Range(answers))
        BY <1>4, <2>1 DEF IsList
      <4>2. Len(answers) \in {1, 2}
        BY <1>4, <2>1
      <4>3. first = answers[Len(answers)]
        BY <1>4, <2>1
      <4> QED
        BY <4>1, <4>2, <4>3
    <3>2. CASE Len(answers) = 1
      BY <3>1, <3>2
    <3>3. CASE Len(answers) = 2
      BY <1>4, <2>1, <3>1, <3>3
    <3> QED
      BY <1>4, <2>1, <3>1, <3>2, <3>3
  <2>3. row = Measured(target, first, again) /\ first.ok
    BY <1>1, <1>2
  <2>4. RowIsTrue(row, Append(answers, again))
    BY <1>5, <1>6, <2>2, <2>3, MeasuredIsTrue
  <2> QED
    BY <2>1, <2>4
<1>11. IsList(todo') /\ IsList(rows') /\ rows' # <<>> /\ Last(rows') = row
  <2>1. PICK r : r = rows
    OBVIOUS
  <2>2. IsList(Append(r, row)) /\ Append(r, row) # <<>> /\ Last(Append(r, row)) = row
    BY <1>4, <2>1, ListGrows
  <2>3. rows' = Append(r, row)
    BY <1>2, <2>1
  <2>4. IsList(Tail(todo))
    BY <1>4, ListShrinks
  <2> QED
    BY <1>2, <2>2, <2>3, <2>4
<1>12. RowSaysWhatWasSeen'
  BY <1>2, <1>10, <1>11 DEF RowSaysWhatWasSeen
<1>13. SweepInv'
  BY <1>7, <1>8, <1>11, <1>12 DEF SweepInv
<1> QED
  BY <1>9, <1>13 DEF EvidenceInv

LEMMA CloseSweepKeeps ==
  ASSUME EvidenceInv, NEW written \in BOOLEAN, CloseSweep(written)
  PROVE  EvidenceInv'
<1>1. /\ todo' = todo /\ rows' = <<>> /\ seen' = <<>> /\ today' = today /\ verdict' = verdict
      /\ rows # <<>>
      /\ records' = IF written THEN AppendRecord(records, today, RecordOf(today, rows)) ELSE records
      /\ swept' = IF written THEN swept \cup {today} ELSE swept
  BY DEF CloseSweep
<1>2. verdict = NotAsked
  BY <1>1 DEF EvidenceInv, CheckInv, Idle
<1>3. verdict' = NotAsked
  BY <1>1, <1>2
<1>4. CheckInv'
  BY <1>3 DEF CheckInv, NotAsked
<1>5. ~(seen' # <<>>)
  BY <1>1
<1>6. SweepInv'
  BY <1>1, <1>5, EmptyIsList DEF EvidenceInv, SweepInv, Probing, RowSaysWhatWasSeen
<1>7. FileInv'
  <2>1. CASE ~written
    <3>1. records' = records /\ swept' = swept
      BY <1>1, <2>1
    <3> QED
      BY <1>1, <3>1 DEF EvidenceInv, FileInv, HistoryIsKept
  <2>2. CASE written
    <3>1. PICK record, next, file, day :
            /\ record = RecordOf(today, rows) /\ file = records /\ day = today
            /\ next = AppendRecord(file, day, record)
      OBVIOUS
    <3>2. record.day = day
      BY <3>1 DEF RecordOf
    <3>3. file \in Seq(Range(file)) /\ OneADay(file) /\ DaysIn(file) = swept
      BY <3>1 DEF EvidenceInv, FileInv, HistoryIsKept, IsList, OneADay, DaysIn
    <3>4. /\ next \in Seq(Range(next)) /\ OneADay(next) /\ DaysIn(next) = DaysIn(file) \cup {day}
      BY <3>1, <3>2, <3>3, RecordReplaces
    <3>5. records' = next /\ swept' = swept \cup {today}
      BY <1>1, <2>2, <3>1
    <3>6. OneADay(records') /\ DaysIn(records') = swept' /\ IsList(records')
      BY <3>1, <3>3, <3>4, <3>5 DEF IsList
    <3>7. HistoryIsKept'
      BY <3>6 DEF HistoryIsKept, OneADay, DaysIn
    <3>8. today' \in Nat /\ swept' \subseteq 0 .. today'
      BY <1>1, <3>5 DEF EvidenceInv, FileInv
    <3> QED
      BY <3>6, <3>7, <3>8 DEF FileInv
  <2> QED
    BY <2>1, <2>2
<1> QED
  BY <1>4, <1>6, <1>7 DEF EvidenceInv

LEMMA NextDayKeeps ==
  ASSUME EvidenceInv, NextDay
  PROVE  EvidenceInv'
<1>1. /\ today' = today + 1 /\ verdict' = NotAsked /\ records' = records /\ todo' = todo
      /\ rows' = rows /\ seen' = seen /\ swept' = swept
  BY DEF NextDay
<1>2. SweepInv'
  BY <1>1 DEF EvidenceInv, SweepInv, Probing, RowSaysWhatWasSeen
<1>3. FileInv'
  <2>1. today \in Nat /\ IsList(records) /\ swept \subseteq 0 .. today /\ HistoryIsKept
    BY DEF EvidenceInv, FileInv
  <2>2. today' \in Nat /\ swept' \subseteq 0 .. today'
    BY <1>1, <2>1
  <2>3. HistoryIsKept' /\ IsList(records')
    BY <1>1, <2>1 DEF HistoryIsKept
  <2> QED
    BY <2>2, <2>3 DEF FileInv
<1>4. CheckInv'
  BY <1>1 DEF CheckInv, NotAsked
<1> QED
  BY <1>2, <1>3, <1>4 DEF EvidenceInv

LEMMA CheckAllKeeps ==
  ASSUME EvidenceInv, NEW asked_ \in Checks, CheckAll(asked_.table, asked_.tree)
  PROVE  EvidenceInv'
<1>1. PICK table, tree : table = asked_.table /\ tree = asked_.tree
  OBVIOUS
<1>2. /\ verdict' = [table |-> table, tree |-> tree,
                     green |-> /\ ProducersPass(table, tree)
                               /\ ClaimsPass(table, tree, records, today)]
      /\ Idle /\ UNCHANGED <<today, records, todo, rows, seen, probes, swept>>
  BY <1>1 DEF CheckAll
<1>3. verdict'.table = table /\ verdict'.tree = tree
  BY <1>2
<1>4. verdict'.green <=> ProducersPass(table, tree) /\ ClaimsPass(table, tree, records, today)
  BY <1>2
<1>5. SweepInv'
  BY <1>2 DEF EvidenceInv, SweepInv, Probing, RowSaysWhatWasSeen
<1>6. FileInv'
  BY <1>2 DEF EvidenceInv, FileInv, HistoryIsKept
<1>7. Idle'
  BY <1>2 DEF Idle
<1>8. ASSUME verdict'.green
      PROVE  ClaimsRest(table, tree)' /\ NamesDiffer(table) /\ VariantsAreBuilt(table, tree)
  <2>1. ProducersPass(table, tree) /\ ClaimsPass(table, tree, records, today)
    BY <1>4, <1>8
  <2>2. table # Unreadable
    BY <2>1 DEF ClaimsPass
  <2>3. /\ table \in Seq(Range(table))
        /\ \A c \in Range(table) :
             c.window = {} \/ \E n \in c.window : n \in Nat /\ c.window = {n}
        /\ \A f \in DOMAIN tree.files : IsSource(tree.files[f])
    BY <1>1, <2>2, EvidenceAssumption
  <2>4. /\ today \in Nat /\ swept \subseteq 0 .. today /\ records \in Seq(Range(records))
        /\ DaysIn(records) = swept
    BY DEF EvidenceInv, FileInv, HistoryIsKept, IsList, DaysIn
  <2>5. ClaimsRest(table, tree)
    BY <2>1, <2>3, <2>4, PassingMeansEvidence
  <2>6. NamesDiffer(table)
    BY <2>1, <2>3, PassingMeansNames
  <2>7. VariantsAreBuilt(table, tree)
    BY <2>1, <2>2, <2>3, PassingMeansBuilt
  <2>8. ClaimsRest(table, tree)'
    BY <1>2, <2>5 DEF ClaimsRest
  <2> QED
    BY <2>6, <2>7, <2>8
<1>9. CheckInv'
  BY <1>3, <1>7, <1>8 DEF CheckInv, ClaimsRest, NamesDiffer, VariantsAreBuilt
<1> QED
  BY <1>5, <1>6, <1>9 DEF EvidenceInv

LEMMA EvidenceStep == EvidenceInv /\ [EvidenceNext]_evidenceVars => EvidenceInv'
<1> SUFFICES ASSUME EvidenceInv, [EvidenceNext]_evidenceVars PROVE EvidenceInv'
  OBVIOUS
<1>1. CASE \E targets \in Sweeps : StartSweep(targets)
  BY <1>1, StartSweepKeeps
<1>2. CASE \E said \in SeqOf(ServerLines, MaxHeard) :
             AskFirst(said) \/ AskWithHandshake(said) \/ AskAgain(said)
  BY <1>2, AskFirstKeeps, AskWithHandshakeKeeps, AskAgainKeeps
<1>3. CASE \E written \in BOOLEAN : CloseSweep(written)
  BY <1>3, CloseSweepKeeps
<1>4. CASE NextDay
  BY <1>4, NextDayKeeps
<1>5. CASE \E asked_ \in Checks : CheckAll(asked_.table, asked_.tree)
  BY <1>5, CheckAllKeeps
<1>6. CASE UNCHANGED evidenceVars
  <2>1. SweepInv'
    BY <1>6 DEF EvidenceInv, SweepInv, Probing, RowSaysWhatWasSeen, evidenceVars
  <2>2. FileInv'
    BY <1>6 DEF EvidenceInv, FileInv, HistoryIsKept, evidenceVars
  <2>3. CheckInv'
    BY <1>6 DEF EvidenceInv, CheckInv, Idle, ClaimsRest, NamesDiffer, VariantsAreBuilt, evidenceVars
  <2> QED
    BY <2>1, <2>2, <2>3 DEF EvidenceInv
<1> QED
  BY <1>1, <1>2, <1>3, <1>4, <1>5, <1>6 DEF EvidenceNext

\* A check that passes rests on evidence that is there, whatever the tables, the trees, the
\* servers and the days (GreenMeansEvidenced): the tests and doctests exist, a sweep was
\* made within the window, every row of it says what was seen of its server, and every
\* swept variant is built by the program or accounted for.
THEOREM PassingRestsOnEvidence == EvidenceSpec => []GreenMeansEvidenced
<1>1. EvidenceInit => EvidenceInv
  BY EvidenceInitInv
<1>2. EvidenceInv /\ [EvidenceNext]_evidenceVars => EvidenceInv'
  BY EvidenceStep
<1>3. EvidenceInv => GreenMeansEvidenced
  BY DEF EvidenceInv, SweepInv, FileInv, CheckInv, GreenMeansEvidenced
<1> QED
  BY <1>1, <1>2, <1>3, PTL DEF EvidenceSpec

--------------------------------------------------------------------------------
(* Where the parts of a request end up in it.                              *)

\* Where a part of what is joined ends.
EndOf(parts, t) == SumFunction([k \in 1 .. t |-> Len(parts[k])])

\* Every place tells which part it is of.
Signed(parts) == \A t \in 1 .. Len(parts) : \A k \in 1 .. Len(parts[t]) : parts[t][k].from = t

LEMMA EndsRise ==
  ASSUME NEW S, NEW parts \in Seq(Seq(S))
  PROVE  /\ EndOf(parts, 0) = 0
         /\ \A t \in 0 .. Len(parts) : EndOf(parts, t) \in Nat
         /\ \A t \in 1 .. Len(parts) :
              EndOf(parts, t) = EndOf(parts, t - 1) + Len(parts[t])
<1>1. /\ Len(parts) \in Nat
      /\ \A k \in 1 .. Len(parts) : parts[k] \in Seq(S) /\ Len(parts[k]) \in Nat
  OBVIOUS
<1> DEFINE f(t) == [k \in 1 .. t |-> Len(parts[k])]
<1>2. \A t \in 0 .. Len(parts) : f(t) \in [1 .. t -> Nat] /\ IsFiniteSet(1 .. t)
  <2> SUFFICES ASSUME NEW t \in 0 .. Len(parts)
               PROVE  f(t) \in [1 .. t -> Nat] /\ IsFiniteSet(1 .. t)
    OBVIOUS
  <2>1. \A k \in 1 .. t : Len(parts[k]) \in Nat
    BY <1>1
  <2>2. f(t) \in [1 .. t -> Nat]
    BY <2>1
  <2>3. IsFiniteSet(1 .. t)
    BY <1>1, FS_Interval
  <2> QED
    BY <2>2, <2>3
<1>3. ASSUME NEW t \in 0 .. Len(parts) PROVE EndOf(parts, t) \in Nat
  <2> DEFINE u == f(t)
  <2>1. u \in [1 .. t -> Nat] /\ IsFiniteSet(1 .. t)
    BY <1>2
  <2> HIDE DEF u
  <2>2. SumFunction(u) \in Nat
    BY <2>1, SumIsNumber
  <2> QED
    BY <2>2 DEF u, EndOf
<1>4. EndOf(parts, 0) = 0
  <2> DEFINE u == f(0)
  <2>1. u \in [{} -> Nat]
    OBVIOUS
  <2> HIDE DEF u
  <2>2. SumFunction(u) = 0
    BY <2>1, SumOfNothing
  <2> QED
    BY <2>2 DEF u, EndOf
<1>5. ASSUME NEW t \in 1 .. Len(parts)
      PROVE EndOf(parts, t) = EndOf(parts, t - 1) + Len(parts[t])
  <2> DEFINE u == f(t - 1)
             v == f(t)
  <2>1. PICK m : m = t - 1
    OBVIOUS
  <2>2. m \in Nat /\ m + 1 = t /\ m \in 0 .. Len(parts) /\ t \in 0 .. Len(parts)
    BY <1>1, <2>1
  <2>3. u \in [1 .. m -> Nat] /\ v \in [1 .. m + 1 -> Nat]
    <3> HIDE DEF f
    <3> QED
      BY <1>2, <2>1, <2>2
  <2>4. (\A i \in 1 .. m : v[i] = u[i]) /\ v[t] = Len(parts[t])
    BY <2>1, <2>2
  <2> HIDE DEF u, v, f
  <2>5. SumFunction(v) = SumFunction(u) + v[m + 1]
    BY ONLY <2>2, <2>3, <2>4, LastTerm
  <2> QED
    BY <2>2, <2>4, <2>5 DEF u, v, f, EndOf
<1> QED
  BY <1>3, <1>4, <1>5

LEMMA EndsAreOrdered ==
  ASSUME NEW S, NEW parts \in Seq(Seq(S)), NEW t \in 0 .. Len(parts)
  PROVE  \A u \in 0 .. t : EndOf(parts, u) <= EndOf(parts, t)
<1> DEFINE e(i) == EndOf(parts, i)
           n == Len(parts)
           C == {i \in Nat : i <= n => \A u \in 0 .. i : e(u) <= e(i)}
<1>1. /\ n \in Nat /\ e(0) = 0 /\ \A i \in 0 .. n : e(i) \in Nat
      /\ \A i \in 1 .. n : e(i) = e(i - 1) + Len(parts[i])
  BY EndsRise
<1>2. \A i \in 1 .. n : Len(parts[i]) \in Nat
  OBVIOUS
<1> HIDE DEF e, n
<1>3. 0 \in C
  BY <1>1
<1>4. ASSUME NEW i \in C PROVE i + 1 \in C
  <2> SUFFICES ASSUME i + 1 <= n, NEW u \in 0 .. i + 1 PROVE e(u) <= e(i + 1)
    BY <1>1
  <2>1. i \in 0 .. n /\ i + 1 \in 1 .. n /\ (i + 1) - 1 = i /\ i + 1 \in 0 .. n /\ u \in 0 .. n
    BY <1>1
  <2>2. e(i + 1) = e(i) + Len(parts[i + 1]) /\ Len(parts[i + 1]) \in Nat /\ e(i) \in Nat
    BY <1>1, <1>2, <2>1
  <2>3. e(i) <= e(i + 1)
    BY <2>2
  <2>4. CASE u = i + 1
    BY <1>1, <2>1, <2>4
  <2>5. CASE u # i + 1
    <3>1. e(u) <= e(i) /\ e(u) \in Nat /\ e(i + 1) \in Nat
      BY <1>1, <2>1, <2>5
    <3> QED
      BY <2>2, <2>3, <3>1
  <2> QED
    BY <2>4, <2>5
<1>5. C = Nat
  <2>1. C \in SUBSET Nat
    OBVIOUS
  <2> HIDE DEF C
  <2> QED
    BY <1>3, <1>4, <2>1, Induction
<1>6. t \in C /\ t <= n
  BY <1>5 DEF n
<1> QED
  BY <1>6 DEF e

\* A part is what lies between where the one before it ends and where it ends.
LEMMA PartsLieInOrder ==
  ASSUME NEW S, NEW parts \in Seq(Seq(S)), Signed(parts)
  PROVE  LET whole == FlattenSeq(parts) IN
         /\ whole \in Seq(S)
         /\ Len(whole) = EndOf(parts, Len(parts))
         /\ \A k \in 1 .. Len(whole) :
              /\ whole[k].from \in 1 .. Len(parts)
              /\ \A t \in 1 .. Len(parts) :
                   whole[k].from = t <=> EndOf(parts, t - 1) < k /\ k <= EndOf(parts, t)
<1> DEFINE Lies(ps) ==
             /\ Len(FlattenSeq(ps)) = EndOf(ps, Len(ps))
             /\ \A k \in 1 .. Len(FlattenSeq(ps)) :
                  /\ FlattenSeq(ps)[k].from \in 1 .. Len(ps)
                  /\ \A t \in 1 .. Len(ps) :
                       FlattenSeq(ps)[k].from = t <=> EndOf(ps, t - 1) < k /\ k <= EndOf(ps, t)
           C == {ps \in Seq(Seq(S)) : Signed(ps) => Lies(ps)}
<1>1. <<>> \in C
  <2>1. FlattenSeq(<<>>) = <<>> /\ Len(<<>>) = 0 /\ <<>> \in Seq(Seq(S))
    BY FlattenNothing
  <2>2. EndOf(<<>>, 0) = 0
    BY <2>1, EndsRise
  <2> QED
    BY <2>1, <2>2
<1>2. ASSUME NEW ps \in C, NEW part \in Seq(S) PROVE Append(ps, part) \in C
  <2> DEFINE more == Append(ps, part)
             n == Len(ps)
             w == FlattenSeq(ps)
             v == FlattenSeq(more)
  <2>1. /\ ps \in Seq(Seq(S)) /\ more \in Seq(Seq(S)) /\ n \in Nat /\ Len(more) = n + 1
        /\ more[n + 1] = part /\ \A t \in 1 .. n : more[t] = ps[t]
    BY AppendProperties
  <2> SUFFICES ASSUME Signed(more) PROVE Lies(more)
    BY <2>1
  <2>2. Signed(ps)
    <3>1. \A t \in 1 .. n : t \in 1 .. Len(more)
      BY <2>1
    <3> HIDE DEF more, n
    <3> QED
      BY <2>1, <3>1 DEF Signed, n
  <2>3. Lies(ps)
    BY <2>2
  <2>4. v = w \o part
    BY <2>1, FlattenGrows
  <2>5. w \in Seq(S) /\ v \in Seq(S)
    BY <2>1, FlattenType
  <2>6. \A t \in 0 .. n : EndOf(more, t) = EndOf(ps, t)
    <3> SUFFICES ASSUME NEW t \in 0 .. n PROVE EndOf(more, t) = EndOf(ps, t)
      OBVIOUS
    <3>1. \A k \in 1 .. t : Len(more[k]) = Len(ps[k])
      BY <2>1
    <3>2. [k \in 1 .. t |-> Len(more[k])] = [k \in 1 .. t |-> Len(ps[k])]
      <4> HIDE DEF more
      <4> QED
        BY <3>1
    <3> QED
      BY <3>2 DEF EndOf
  <2>7. EndOf(more, n + 1) = EndOf(ps, n) + Len(part)
    <3> HIDE DEF more
    <3>1. n + 1 \in 1 .. Len(more) /\ (n + 1) - 1 = n /\ n \in 0 .. n
      BY <2>1
    <3>2. EndOf(more, n + 1) = EndOf(more, n) + Len(more[n + 1])
      BY <2>1, <3>1, EndsRise
    <3> QED
      BY <2>1, <2>6, <3>1, <3>2
  <2>8. /\ Len(v) = Len(w) + Len(part) /\ Len(w) \in Nat /\ Len(part) \in Nat
        /\ \A k \in 1 .. Len(w) : v[k] = w[k]
        /\ \A k \in 1 .. Len(part) : v[Len(w) + k] = part[k]
    BY <2>4, <2>5, ConcatProperties, LenProperties
  <2>9. \A t \in 0 .. n : EndOf(ps, t) \in Nat /\ EndOf(ps, t) <= EndOf(ps, n)
    <3>1. n \in 0 .. n
      BY <2>1
    <3> HIDE DEF C
    <3> QED
      BY <2>1, <3>1, EndsRise, EndsAreOrdered
  <2>10. Len(w) = EndOf(ps, n)
    BY <2>3
  <2>11. Len(v) = EndOf(more, n + 1)
    BY <2>7, <2>8, <2>10
  <2>12. ASSUME NEW k \in 1 .. Len(v)
         PROVE /\ v[k].from \in 1 .. n + 1
               /\ \A t \in 1 .. n + 1 :
                    v[k].from = t <=> EndOf(more, t - 1) < k /\ k <= EndOf(more, t)
    <3>1. CASE k \in 1 .. Len(w)
      <4>1. /\ v[k].from = w[k].from /\ v[k].from \in 1 .. n
            /\ \A t \in 1 .. n : v[k].from = t <=> EndOf(ps, t - 1) < k /\ k <= EndOf(ps, t)
        BY <2>3, <2>8, <3>1
      <4>2. ~(EndOf(ps, n) < k)
        BY <2>9, <2>10, <3>1
      <4>3. ASSUME NEW t \in 1 .. n + 1
            PROVE  v[k].from = t <=> EndOf(more, t - 1) < k /\ k <= EndOf(more, t)
        <5>1. CASE t \in 1 .. n
          <6>1. t \in 0 .. n /\ t - 1 \in 0 .. n
            BY <2>1, <5>1
          <6> HIDE DEF v, w, more, n
          <6> QED
            BY <2>6, <4>1, <5>1, <6>1
        <5>2. CASE t = n + 1
          <6>1. t - 1 = n /\ n \in 0 .. n /\ t \notin 1 .. n
            BY <2>1, <5>2
          <6> HIDE DEF v, w, more, n
          <6> QED
            BY <2>6, <4>1, <4>2, <6>1
        <5> QED
          BY <2>1, <5>1, <5>2
      <4> QED
        BY <2>1, <4>1, <4>3
    <3>2. CASE k \notin 1 .. Len(w)
      <4>1. k - Len(w) \in 1 .. Len(part) /\ k = Len(w) + (k - Len(w)) /\ Len(w) < k
        BY <2>8, <3>2
      <4>2. v[k].from = n + 1
        <5>1. v[k] = part[k - Len(w)]
          BY <2>8, <4>1
        <5>2. n + 1 \in 1 .. Len(more) /\ k - Len(w) \in 1 .. Len(more[n + 1])
          BY <2>1, <4>1
        <5>3. more[n + 1][k - Len(w)].from = n + 1
          <6> HIDE DEF v, w, more, n
          <6> QED
            BY <5>2 DEF Signed
        <5> HIDE DEF v, w, more, n
        <5> QED
          BY <2>1, <5>1, <5>3
      <4>3. ASSUME NEW t \in 1 .. n + 1
            PROVE  v[k].from = t <=> EndOf(more, t - 1) < k /\ k <= EndOf(more, t)
        <5>1. CASE t \in 1 .. n
          <6>1. t \in 0 .. n /\ t # n + 1 /\ ~(k <= EndOf(ps, t))
            <7>1. t \in 0 .. n /\ t # n + 1
              BY <2>1, <5>1
            <7>2. PICK end, all : end = EndOf(ps, t) /\ all = Len(w)
              OBVIOUS
            <7>3. end \in Nat /\ end <= all /\ all \in Nat /\ all < k /\ k \in Nat
              BY <2>8, <2>9, <2>10, <4>1, <7>1, <7>2
            <7>4. ~(k <= end)
              BY ONLY <7>3
            <7> QED
              BY <7>1, <7>2, <7>4
          <6> HIDE DEF v, w, more, n
          <6> QED
            BY <2>6, <4>2, <6>1
        <5>2. CASE t = n + 1
          <6>1. t - 1 = n /\ n \in 0 .. n
            BY <2>1, <5>2
          <6>2. EndOf(ps, n) < k /\ k <= EndOf(more, n + 1)
            BY <2>10, <2>11, <4>1
          <6> HIDE DEF v, w, more, n
          <6> QED
            BY <2>6, <4>2, <5>2, <6>1, <6>2
        <5> QED
          BY <2>1, <5>1, <5>2
      <4> QED
        BY <2>1, <4>2, <4>3
    <3> QED
      BY <3>1, <3>2
  <2> HIDE DEF v
  <2>13. v = FlattenSeq(more)
    BY DEF v
  <2> HIDE DEF more
  <2> QED
    BY <2>1, <2>11, <2>12, <2>13
<1>3. C = Seq(Seq(S))
  <2>1. C \in SUBSET Seq(Seq(S))
    OBVIOUS
  <2> HIDE DEF C
  <2> QED
    BY <1>1, <1>2, <2>1, SequenceInduction
<1>4. Lies(parts)
  BY <1>3
<1>5. FlattenSeq(parts) \in Seq(S)
  BY FlattenType
<1> QED
  BY <1>4, <1>5

\* A sequence all of whose members are in a set is a sequence of that set.
LEMMA SeqWithin ==
  ASSUME NEW S, NEW seq \in Seq(S), NEW O, \A k \in 1 .. Len(seq) : seq[k] \in O
  PROVE  seq \in Seq(S \cap O)
<1> DEFINE q == [k \in 1 .. Len(seq) |-> seq[k]]
           T == S \cap O
<1>1. Len(seq) \in Nat /\ seq = q
  OBVIOUS
<1>2. \A k \in 1 .. Len(seq) : seq[k] \in T
  BY ElementOfSeq
<1> HIDE DEF T
<1>3. q \in Seq(T)
  BY <1>1, <1>2
<1> HIDE DEF q
<1> QED
  BY <1>1, <1>3 DEF T

\* What of the whole is signed by a part is that part.
LEMMA PartIsFound ==
  ASSUME NEW S, NEW parts \in Seq(Seq(S)), Signed(parts), NEW i \in 1 .. Len(parts)
  PROVE  OnlyIn(FlattenSeq(parts), {p \in S : p.from = i}) = parts[i]
<1> DEFINE By(u) == {p \in S : p.from = u}
           C == {ps \in Seq(Seq(S)) : Signed(ps) => \A u \in Nat :
                  OnlyIn(FlattenSeq(ps), By(u)) = IF u \in 1 .. Len(ps) THEN ps[u] ELSE <<>>}
<1>1. <<>> \in C
  <2>1. FlattenSeq(<<>>) = <<>> /\ Len(<<>>) = 0 /\ <<>> \in Seq(Seq(S))
    BY FlattenNothing
  <2> HIDE DEF By
  <2>2. \A u : OnlyIn(<<>>, By(u)) = <<>>
    BY OnlyInNothing
  <2> QED
    BY <2>1, <2>2
<1>2. ASSUME NEW ps \in C, NEW part \in Seq(S) PROVE Append(ps, part) \in C
  <2> DEFINE more == Append(ps, part)
             n == Len(ps)
             w == FlattenSeq(ps)
  <2>1. /\ ps \in Seq(Seq(S)) /\ more \in Seq(Seq(S)) /\ n \in Nat /\ Len(more) = n + 1
        /\ more[n + 1] = part /\ \A u \in 1 .. n : more[u] = ps[u]
    BY AppendProperties
  <2> SUFFICES ASSUME Signed(more), NEW u \in Nat
               PROVE  OnlyIn(FlattenSeq(more), By(u))
                        = IF u \in 1 .. n + 1 THEN more[u] ELSE <<>>
    BY <2>1
  <2>2. Signed(ps)
    <3>1. \A t \in 1 .. n : t \in 1 .. Len(more)
      BY <2>1
    <3> HIDE DEF more, n
    <3> QED
      BY <2>1, <3>1 DEF Signed, n
  <2>3. OnlyIn(w, By(u)) = IF u \in 1 .. n THEN ps[u] ELSE <<>>
    BY <2>2
  <2>4. FlattenSeq(more) = w \o part /\ w \in Seq(S)
    BY <2>1, FlattenGrows, FlattenType
  <2>5. \A k \in 1 .. Len(part) : part[k].from = n + 1
    <3>1. n + 1 \in 1 .. Len(more)
      BY <2>1
    <3> HIDE DEF more, n
    <3> QED
      BY <2>1, <3>1 DEF Signed
  <2>6. OnlyIn(FlattenSeq(more), By(u)) = OnlyIn(w, By(u)) \o OnlyIn(part, By(u))
    <3>1. PICK set : set = By(u)
      OBVIOUS
    <3> HIDE DEF w, By, more
    <3>2. w \in Seq(S) /\ part \in Seq(S)
      BY <2>4
    <3>3. OnlyIn(w \o part, set) = OnlyIn(w, set) \o OnlyIn(part, set)
      <4>1. PICK front : front = w
        OBVIOUS
      <4>2. front \in Seq(S) /\ part \in Seq(S)
        BY <3>2, <4>1
      <4> HIDE DEF C
      <4>3. OnlyIn(front \o part, set) = OnlyIn(front, set) \o OnlyIn(part, set)
        BY ONLY <4>2, OnlyInSplits
      <4> QED
        BY <4>1, <4>3
    <3> QED
      BY <2>4, <3>1, <3>3
  <2>7. CASE u = n + 1
    <3>1. part \in Seq(S \cap By(u))
      <4>1. ASSUME NEW k \in 1 .. Len(part) PROVE part[k] \in By(u)
        <5>1. part[k] \in S /\ part[k].from = u
          BY <2>5, <2>7, <4>1, ElementOfSeq
        <5> QED
          BY ONLY <5>1
      <4> HIDE DEF By, w, more
      <4> QED
        BY <4>1, SeqWithin
    <3> HIDE DEF By, w
    <3>2. OnlyIn(part, By(u)) = part
      BY <3>1, OnlyInKeeps
    <3>3. OnlyIn(w, By(u)) = <<>> /\ <<>> \o part = part
      BY <2>1, <2>3, <2>7, ConcatEmptySeq
    <3>4. u \in 1 .. n + 1 /\ more[u] = part
      BY <2>1, <2>7
    <3> HIDE DEF more, n
    <3> QED
      BY ONLY <2>6, <3>2, <3>3, <3>4
  <2>8. CASE u # n + 1
    <3> DEFINE O == {p \in S : p.from = n + 1}
    <3>1. part \in Seq(O)
      <4>1. ASSUME NEW k \in 1 .. Len(part) PROVE part[k] \in O
        <5>1. part[k] \in S /\ part[k].from = n + 1
          BY <2>5, <4>1, ElementOfSeq
        <5> QED
          BY ONLY <5>1
      <4>2. S \cap O = O
        OBVIOUS
      <4> HIDE DEF O, By, w, more
      <4>3. part \in Seq(S \cap O)
        BY <4>1, SeqWithin
      <4> QED
        BY <4>2, <4>3
    <3>11. O \cap By(u) = {}
      BY <2>8
    <3> HIDE DEF By, w, O
    <3>2. OnlyIn(part, By(u)) = <<>>
      BY <3>1, <3>11, OnlyInLeaves
    <3>3. OnlyIn(w, By(u)) \in Seq(S \cap By(u))
      BY <2>4, OnlyInType
    <3>4. OnlyIn(w, By(u)) \o <<>> = OnlyIn(w, By(u))
      BY <3>3, ConcatEmptySeq
    <3>5. u \in 1 .. n + 1 <=> u \in 1 .. n
      BY <2>1, <2>8
    <3> HIDE DEF more, n
    <3> QED
      BY <2>1, <2>3, <2>6, <3>2, <3>4, <3>5
  <2> QED
    BY <2>7, <2>8
<1>3. C = Seq(Seq(S))
  <2>1. C \in SUBSET Seq(Seq(S))
    OBVIOUS
  <2> HIDE DEF C
  <2> QED
    BY <1>1, <1>2, <2>1, SequenceInduction
<1> QED
  BY <1>3

--------------------------------------------------------------------------------
(* A conversation on the wire.                                             *)

BlockShapes == {"messages", "responses"}
Shapes == BlockShapes \cup {"chat"}
Kinds == {"Text", "ToolCall", "ToolResult", "Reasoning", "Opaque"}

\* All of them are strings, which the provers know of no literal.
BlockNames == {"text", "tool_use", "tool_result", "message", "function_call",
          "function_call_output", "content", "tool_call"}
Texts == STRING \cup BlockNames \cup {"none", "words", "null", "{}"}
Roles == {"system", "user", "assistant", "tool"}

\* What has no kind is there for what it carries.
Items == {item \in [kind : Kinds, id : Texts, data : Texts, carry : Carries \cup {NoCarry}] :
            item.kind = "Opaque" => item.carry # NoCarry}
WireBlocks == [type : Texts, id : Texts, data : Texts]
WirePlaces == [from : Nat, role : Roles, blocks : Seq(WireBlocks)]

LEMMA ItemsAreItems ==
  ASSUME NEW kind \in Kinds, NEW id \in Texts, NEW data \in Texts,
         NEW carry \in Carries \cup {NoCarry}, kind = "Opaque" => carry # NoCarry
  PROVE  Item(kind, id, data, carry) \in Items
<1> DEFINE item == Item(kind, id, data, carry)
<1>1. item.kind = kind /\ item.carry = carry
  BY DEF Item
<1>2. item \in [kind : Kinds, id : Texts, data : Texts, carry : Carries \cup {NoCarry}]
  BY DEF Item
<1> HIDE DEF item
<1> QED
  BY <1>1, <1>2 DEF Items, item

LEMMA DialectsHaveShapes ==
  \A d \in Dialects : Shape(d) \in Shapes /\ ProviderOf(d) \in Dialects
BY DEF Dialects, Shape, ProviderOf, Shapes, BlockShapes

\* A provider is spoken to in one shape.
LEMMA ProvidersHaveOneShape ==
  \A c, d \in Dialects : ProviderOf(c) = ProviderOf(d) => Shape(c) = Shape(d)
BY DEF Dialects, Shape, ProviderOf

\* But for reasoning, every kind has one name in each block dialect.
LEMMA KindsHaveNames ==
  ASSUME NEW shape \in BlockShapes
  PROVE  /\ DOMAIN NameOf[shape] = {"Text", "ToolCall", "ToolResult", "Reasoning"}
         /\ \A kind \in {"Text", "ToolCall", "ToolResult"} :
              \E name \in BlockNames : NameOf[shape][kind] = {name}
<1>1. CASE shape = "messages"
  BY <1>1 DEF NameOf, BlockNames
<1>2. CASE shape = "responses"
  BY <1>2 DEF NameOf, BlockNames
<1> QED
  BY <1>1, <1>2 DEF BlockShapes

LEMMA KindsAreKinds ==
  ASSUME NEW shape \in BlockShapes, NEW type
  PROVE  /\ KindOf(shape, type) \in Kinds
         /\ KindOf(shape, type) # "Opaque" => type \in NameOf[shape][KindOf(shape, type)]
<1>1. CASE \E kind \in DOMAIN NameOf[shape] : type \in NameOf[shape][kind]
  <2>1. /\ KindOf(shape, type) \in DOMAIN NameOf[shape]
        /\ type \in NameOf[shape][KindOf(shape, type)]
    BY <1>1 DEF KindOf
  <2> QED
    BY <2>1, KindsHaveNames DEF Kinds
<1>2. CASE ~\E kind \in DOMAIN NameOf[shape] : type \in NameOf[shape][kind]
  BY <1>2 DEF KindOf, Kinds
<1> QED
  BY <1>1, <1>2

LEMMA EncodedItemsAreBlocks ==
  ASSUME NEW shape \in BlockShapes, NEW item \in Items
  PROVE  EncodeItem(shape, item) \in Seq(WireBlocks)
<1>1. CASE item.carry # NoCarry
  <2>1. item.carry.raw \in WireBlocks
    BY <1>1 DEF Items, Carries, Blocks, WireBlocks, Texts
  <2> HIDE DEF WireBlocks
  <2> QED
    BY <1>1, <2>1 DEF EncodeItem, Carried
<1>2. CASE item.carry = NoCarry /\ item.kind = "Reasoning"
  BY <1>2 DEF EncodeItem
<1>3. CASE item.carry = NoCarry /\ item.kind # "Reasoning"
  <2>1. item.kind \in {"Text", "ToolCall", "ToolResult"} /\ item.id \in Texts /\ item.data \in Texts
    BY <1>3 DEF Items, Kinds
  <2>2. PICK name \in BlockNames : NameOf[shape][item.kind] = {name}
    BY <2>1, KindsHaveNames
  <2>3. (CHOOSE type \in NameOf[shape][item.kind] : TRUE) = name
    BY <2>2
  <2>4. EncodeItem(shape, item) = <<Block(name, item.id, item.data)>>
    BY <1>3, <2>3 DEF EncodeItem
  <2>5. Block(name, item.id, item.data) \in WireBlocks
    BY <2>1, <2>2 DEF Block, WireBlocks, Texts
  <2> HIDE DEF WireBlocks
  <2> QED
    BY <2>4, <2>5
<1> QED
  BY <1>1, <1>2, <1>3

LEMMA ParsedIsText ==
  ASSUME NEW shape, NEW data \in STRING
  PROVE  /\ Parsed(shape, data) \in Texts
         /\ data # "garbage" => Parsed(shape, data) = data
BY DEF Parsed, Texts

\* A block that is read and sent again is itself, but for arguments that were not JSON.
LEMMA BlocksComeBack ==
  ASSUME NEW d \in Dialects, Shape(d) # "chat", NEW b \in Blocks
  PROVE  /\ DecodeBlock(d, b) \in Items
         /\ \E back \in WireBlocks :
              /\ EncodeItem(Shape(d), DecodeBlock(d, b)) = <<back>>
              /\ Readable(Shape(d), b) => back = b
<1> DEFINE shape == Shape(d)
           kind == KindOf(shape, b.type)
           item == DecodeBlock(d, b)
<1>1. shape \in BlockShapes /\ ProviderOf(d) \in Dialects
  BY DialectsHaveShapes DEF Shapes
<1>2. b.type \in STRING /\ b.id \in STRING /\ b.data \in STRING /\ b = Block(b.type, b.id, b.data)
  BY DEF Blocks, Block
<1>3. kind \in Kinds /\ (kind # "Opaque" => b.type \in NameOf[shape][kind])
  BY <1>1, KindsAreKinds
<1>4. /\ Parsed(shape, b.data) \in Texts
      /\ b.data # "garbage" => Parsed(shape, b.data) = b.data
  BY <1>2, ParsedIsText
<1>5. [provider |-> ProviderOf(d), raw |-> b] \in Carries
  BY <1>1 DEF Carries
<1>6. NoCarry \notin Carries
  BY WireAssumption
<1>7. Readable(shape, b) => b.data # "garbage"
  BY DEF Readable
<1> HIDE DEF shape, kind
<1>8. CASE kind \in {"Reasoning", "Opaque"}
  <2>1. item = Item(kind, b.id, b.data, [provider |-> ProviderOf(d), raw |-> b])
    BY <1>8 DEF DecodeBlock, kind, shape
  <2>2. item \in Items
    <3>1. b.id \in Texts /\ b.data \in Texts
      BY <1>2 DEF Texts
    <3>2. PICK carry \in Carries : carry = [provider |-> ProviderOf(d), raw |-> b]
      BY <1>5
    <3> HIDE DEF item
    <3> QED
      BY <1>3, <1>6, <2>1, <3>1, <3>2, ItemsAreItems
  <2>3. item.carry = [provider |-> ProviderOf(d), raw |-> b]
    BY <2>1 DEF Item
  <2>4. EncodeItem(shape, item) = <<b>>
    BY <1>5, <1>6, <2>3 DEF EncodeItem, Carried
  <2>5. b \in WireBlocks
    BY <1>2 DEF Blocks, WireBlocks, Texts
  <2> QED
    BY <2>2, <2>4, <2>5 DEF shape
<1>9. CASE kind \notin {"Reasoning", "Opaque"}
  <2> DEFINE data == IF kind = "ToolCall" THEN Parsed(shape, b.data) ELSE b.data
  <2>1. item = Item(kind, b.id, data, NoCarry)
    BY <1>9 DEF DecodeBlock, kind, shape
  <2>2. data \in Texts /\ (b.data # "garbage" => data = b.data)
    BY <1>2, <1>4 DEF Texts
  <2> HIDE DEF data
  <2>3. item \in Items
    <3>1. b.id \in Texts
      BY <1>2 DEF Texts
    <3> HIDE DEF item
    <3> QED
      BY <1>3, <1>9, <2>1, <2>2, <3>1, ItemsAreItems
  <2>4. item.carry = NoCarry /\ item.kind = kind /\ item.id = b.id /\ item.data = data
    BY <2>1 DEF Item
  <2>5. kind \in {"Text", "ToolCall", "ToolResult"}
    BY <1>3, <1>9 DEF Kinds
  <2>6. PICK name \in BlockNames : NameOf[shape][kind] = {name}
    BY <1>1, <2>5, KindsHaveNames
  <2>7. (CHOOSE type \in NameOf[shape][kind] : TRUE) = b.type
    BY <1>3, <1>9, <2>6
  <2>8. EncodeItem(shape, item) = <<Block(b.type, b.id, data)>>
    <3> HIDE DEF item
    <3> QED
      BY <1>9, <2>4, <2>7 DEF EncodeItem
  <2>9. Block(b.type, b.id, data) \in WireBlocks
    BY <1>2, <2>2 DEF Block, WireBlocks, Texts
  <2>10. Readable(shape, b) => Block(b.type, b.id, data) = b
    BY <1>2, <1>7, <2>2
  <2> QED
    BY <2>3, <2>8, <2>9, <2>10 DEF shape
<1> QED
  BY <1>8, <1>9

\* Nothing is picked exactly where there is nothing to pick.
LEMMA OnlyInFinds ==
  ASSUME NEW S, NEW log \in Seq(S), NEW set
  PROVE  OnlyIn(log, set) = <<>> <=> \A k \in 1 .. Len(log) : log[k] \notin set
<1> DEFINE C == {l \in Seq(S) : OnlyIn(l, set) = <<>> <=> \A k \in 1 .. Len(l) : l[k] \notin set}
<1>1. <<>> \in C
  <2>1. OnlyIn(<<>>, set) = <<>> /\ Len(<<>>) = 0 /\ <<>> \in Seq(S)
    BY OnlyInNothing
  <2> QED
    BY <2>1
<1>2. ASSUME NEW l \in C, NEW e \in S PROVE Append(l, e) \in C
  <2> DEFINE more == Append(l, e)
             n == Len(l)
  <2>1. /\ l \in Seq(S) /\ more \in Seq(S) /\ n \in Nat /\ Len(more) = n + 1
        /\ more[n + 1] = e /\ \A k \in 1 .. n : more[k] = l[k]
    BY AppendProperties
  <2>2. OnlyIn(more, set) = IF e \in set THEN Append(OnlyIn(l, set), e) ELSE OnlyIn(l, set)
    BY <2>1, OnlyInGrows
  <2>3. OnlyIn(l, set) = <<>> <=> \A k \in 1 .. n : l[k] \notin set
    OBVIOUS
  <2>4. OnlyIn(l, set) \in Seq(S \cap set)
    BY <2>1, OnlyInType
  <2>5. CASE e \in set
    <3>1. OnlyIn(more, set) # <<>>
      BY <2>2, <2>4, <2>5, AppendProperties
    <3>2. n + 1 \in 1 .. Len(more) /\ more[n + 1] \in set
      BY <2>1, <2>5
    <3>3. ~\A k \in 1 .. Len(more) : more[k] \notin set
      BY <3>2
    <3> HIDE DEF more, n
    <3> QED
      BY <2>1, <3>1, <3>3 DEF more
  <2>6. CASE e \notin set
    <3>1. (\A k \in 1 .. n + 1 : more[k] \notin set) <=> \A k \in 1 .. n : l[k] \notin set
      <4>1. \A k \in 1 .. n : k \in 1 .. n + 1
        BY <2>1
      <4>2. \A k \in 1 .. n + 1 : k \in 1 .. n \/ k = n + 1
        BY <2>1
      <4> HIDE DEF more, n
      <4> QED
        BY <2>1, <2>6, <4>1, <4>2
    <3>2. OnlyIn(more, set) = OnlyIn(l, set)
      BY <2>2, <2>6
    <3> HIDE DEF more, n
    <3> QED
      BY <2>1, <2>3, <3>1, <3>2 DEF more
  <2> QED
    BY <2>5, <2>6
<1>3. C = Seq(S)
  <2>1. C \in SUBSET Seq(S)
    OBVIOUS
  <2> HIDE DEF C
  <2> QED
    BY <1>1, <1>2, <2>1, SequenceInduction
<1> QED
  BY <1>3

--------------------------------------------------------------------------------
(* The places of a turn.                                                   *)

LEMMA ItemsOfType ==
  ASSUME NEW turn, turn.items \in Seq(Items), NEW kind
  PROVE  ItemsOf(turn, kind) \in Seq(OfSorts(Items, {kind}))
BY OfKindsType DEF ItemsOf

LEMMA PlacesAreSigned ==
  ASSUME NEW shape \in Shapes, NEW t \in Nat, NEW turn, turn.items \in Seq(Items),
         turn.role \in Roles
  PROVE  LET places == PlacesOf(shape, t, turn) IN
         places \in Seq(WirePlaces) /\ \A k \in 1 .. Len(places) : places[k].from = t
<1>1. CASE shape # "chat" /\ turn.role = "system"
  <2>1. shape \in BlockShapes
    BY <1>1 DEF Shapes
  <2> DEFINE texts == ItemsOf(turn, "Text")
             f == [k \in DOMAIN texts |-> Place(t, "system", EncodeItem(shape, texts[k]))]
  <2>2. texts \in Seq(OfSorts(Items, {"Text"}))
    BY ItemsOfType
  <2> HIDE DEF texts
  <2>3. DOMAIN texts = 1 .. Len(texts) /\ Len(texts) \in Nat
    BY <2>2
  <2>4. \A k \in 1 .. Len(texts) : EncodeItem(shape, texts[k]) \in Seq(WireBlocks)
    <3>1. \A k \in 1 .. Len(texts) : texts[k] \in Items
      BY <2>2 DEF OfSorts
    <3> QED
      BY <2>1, <3>1, EncodedItemsAreBlocks
  <2>5. \A k \in 1 .. Len(texts) :
          /\ Place(t, "system", EncodeItem(shape, texts[k])) \in WirePlaces
          /\ Place(t, "system", EncodeItem(shape, texts[k])).from = t
    BY <2>4 DEF Place, WirePlaces, Roles
  <2>6. f \in Seq(WirePlaces) /\ Len(f) = Len(texts) /\ \A k \in 1 .. Len(f) : f[k].from = t
    <3> HIDE DEF WirePlaces
    <3> QED
      BY <2>3, <2>5
  <2>7. PlacesOf(shape, t, turn) = f
    BY <1>1, <2>1 DEF PlacesOf, SystemPlaces, texts
  <2> HIDE DEF f
  <2> QED
    BY <2>6, <2>7
<1>2. CASE shape # "chat" /\ turn.role # "system"
  <2>1. shape \in BlockShapes
    BY <1>2 DEF Shapes
  <2> DEFINE parts == [k \in DOMAIN turn.items |-> EncodeItem(shape, turn.items[k])]
             blocks == FlattenSeq(parts)
             f == [k \in DOMAIN blocks |-> Place(t, turn.role, <<blocks[k]>>)]
  <2>2. parts \in Seq(Seq(WireBlocks))
    <3>1. \A k \in 1 .. Len(turn.items) : EncodeItem(shape, turn.items[k]) \in Seq(WireBlocks)
      <4>1. \A k \in 1 .. Len(turn.items) : turn.items[k] \in Items
        OBVIOUS
      <4> QED
        BY <2>1, <4>1, EncodedItemsAreBlocks
    <3> QED
      BY <3>1
  <2> HIDE DEF parts
  <2>3. blocks \in Seq(WireBlocks)
    BY <2>2, FlattenType
  <2> HIDE DEF blocks
  <2>4. \A k \in 1 .. Len(blocks) :
          /\ Place(t, turn.role, <<blocks[k]>>) \in WirePlaces
          /\ Place(t, turn.role, <<blocks[k]>>).from = t
    <3>1. \A k \in 1 .. Len(blocks) : <<blocks[k]>> \in Seq(WireBlocks)
      <4> HIDE DEF WireBlocks
      <4> QED
        BY <2>3
    <3> QED
      BY <3>1 DEF Place, WirePlaces
  <2>5. f \in Seq(WirePlaces) /\ Len(f) = Len(blocks) /\ \A k \in 1 .. Len(f) : f[k].from = t
    <3> DEFINE P(k) == Place(t, turn.role, <<blocks[k]>>)
    <3>1. \A k \in 1 .. Len(blocks) : P(k) \in WirePlaces /\ P(k).from = t
      BY <2>4
    <3>2. f = [k \in 1 .. Len(blocks) |-> P(k)] /\ Len(blocks) \in Nat
      BY <2>3
    <3> HIDE DEF WirePlaces, WireBlocks, P, f
    <3> QED
      BY <3>1, <3>2
  <2>6. PlacesOf(shape, t, turn) = f
    BY <1>2, <2>1 DEF PlacesOf, BlockPlaces, blocks, parts
  <2> HIDE DEF f
  <2> QED
    BY <2>5, <2>6
<1>3. CASE shape = "chat"
  <2> DEFINE results == ItemsOf(turn, "ToolResult")
             texts == OnlyIn(turn.items,
                        {item \in Range(turn.items) : item.kind = "Text" /\ item.data # ""})
             calls == ItemsOf(turn, "ToolCall")
             a == [k \in DOMAIN texts |-> Block("content", "none", texts[k].data)]
             b == [k \in DOMAIN calls |->
                     Block("tool_call", calls[k].id, ChatArguments(calls[k].data))]
             body == a \o b
             r == [k \in DOMAIN results |->
                     Place(t, "tool", <<Block("content", results[k].id, results[k].data)>>)]
             last == IF body = <<>> THEN <<>> ELSE <<Place(t, turn.role, body)>>
  <2>1. /\ results \in Seq(Items) /\ texts \in Seq(Items) /\ calls \in Seq(Items)
    <3>1. \A set : OnlyIn(turn.items, set) \in Seq(Items \cap set)
      BY OnlyInType
    <3>2. \A set : \A m \in Seq(Items \cap set) : m \in Seq(Items)
      OBVIOUS
    <3> QED
      BY <3>1, <3>2 DEF ItemsOf, OfKinds
  <2> HIDE DEF results, texts, calls
  <2>2. \A item \in Items : item.id \in Texts /\ item.data \in Texts /\ ChatArguments(item.data) \in Texts
    BY DEF Items, ChatArguments, Texts
  <2>3. \A type \in BlockNames : \A id, data \in Texts : Block(type, id, data) \in WireBlocks
    BY DEF Block, WireBlocks, Texts
  <2>4. "content" \in BlockNames /\ "tool_call" \in BlockNames /\ "none" \in Texts
    BY DEF BlockNames, Texts
  <2>5. a \in Seq(WireBlocks)
    <3>1. \A k \in 1 .. Len(texts) : Block("content", "none", texts[k].data) \in WireBlocks
      <4>1. \A k \in 1 .. Len(texts) : texts[k] \in Items
        BY <2>1
      <4> QED
        BY <2>2, <2>3, <2>4, <4>1
    <3> HIDE DEF WireBlocks
    <3> QED
      BY <2>1, <3>1
  <2>6. b \in Seq(WireBlocks)
    <3>1. \A k \in 1 .. Len(calls) :
            Block("tool_call", calls[k].id, ChatArguments(calls[k].data)) \in WireBlocks
      <4>1. \A k \in 1 .. Len(calls) : calls[k] \in Items
        BY <2>1
      <4> QED
        BY <2>2, <2>3, <2>4, <4>1
    <3> DEFINE P(k) == Block("tool_call", calls[k].id, ChatArguments(calls[k].data))
    <3>2. b = [k \in 1 .. Len(calls) |-> P(k)] /\ Len(calls) \in Nat
      BY <2>1
    <3>3. \A k \in 1 .. Len(calls) : P(k) \in WireBlocks
      BY <3>1
    <3> HIDE DEF WireBlocks, P, b
    <3> QED
      BY <3>2, <3>3
  <2> HIDE DEF a, b
  <2>7. body \in Seq(WireBlocks)
    BY <2>5, <2>6, ConcatProperties
  <2> HIDE DEF body
  <2>8. r \in Seq(WirePlaces) /\ \A k \in 1 .. Len(r) : r[k].from = t
    <3> DEFINE P(k) == Place(t, "tool", <<Block("content", results[k].id, results[k].data)>>)
    <3>1. \A k \in 1 .. Len(results) : P(k) \in WirePlaces /\ P(k).from = t
      <4> SUFFICES ASSUME NEW k \in 1 .. Len(results) PROVE P(k) \in WirePlaces /\ P(k).from = t
        OBVIOUS
      <4>1. results[k] \in Items
        BY <2>1
      <4>2. Block("content", results[k].id, results[k].data) \in WireBlocks
        BY <2>2, <2>3, <2>4, <4>1
      <4>3. <<Block("content", results[k].id, results[k].data)>> \in Seq(WireBlocks)
        <5> HIDE DEF WireBlocks
        <5> QED
          BY <4>2
      <4> QED
        BY <4>3 DEF Place, WirePlaces, Roles
    <3> HIDE DEF WirePlaces, P
    <3>2. r = [k \in 1 .. Len(results) |-> P(k)]
      BY <2>1 DEF P
    <3> HIDE DEF r
    <3> QED
      BY <2>1, <3>1, <3>2
  <2>9. last \in Seq(WirePlaces) /\ \A k \in 1 .. Len(last) : last[k].from = t
    <3>1. Place(t, turn.role, body) \in WirePlaces /\ Place(t, turn.role, body).from = t
      BY <2>7 DEF Place, WirePlaces
    <3>2. CASE body = <<>>
      BY <3>2
    <3>3. CASE body # <<>>
      <4> HIDE DEF WirePlaces
      <4> QED
        BY <3>1, <3>3
    <3> QED
      BY <3>2, <3>3
  <2>10. PlacesOf(shape, t, turn) = r \o last
    <3>1. PlacesOf(shape, t, turn) = ChatPlaces(t, turn)
      BY <1>3 DEF PlacesOf
    <3>2. ChatPlaces(t, turn) = r \o last
      BY DEF ChatPlaces, results, texts, calls, a, b, body
    <3> HIDE DEF r, last
    <3> QED
      BY <3>1, <3>2
  <2> HIDE DEF r, last
  <2>11. /\ r \o last \in Seq(WirePlaces) /\ Len(r \o last) = Len(r) + Len(last)
         /\ \A k \in 1 .. Len(r \o last) :
              (r \o last)[k] = IF k <= Len(r) THEN r[k] ELSE last[k - Len(r)]
    BY <2>8, <2>9, ConcatProperties
  <2>12. \A k \in 1 .. Len(r \o last) : (r \o last)[k].from = t
    <3> SUFFICES ASSUME NEW k \in 1 .. Len(r \o last) PROVE (r \o last)[k].from = t
      OBVIOUS
    <3>1. Len(r) \in Nat /\ Len(last) \in Nat
      BY <2>8, <2>9
    <3>2. CASE k <= Len(r)
      BY <2>8, <2>11, <3>1, <3>2
    <3>3. CASE ~(k <= Len(r))
      BY <2>9, <2>11, <3>1, <3>3
    <3> QED
      BY <3>2, <3>3
  <2> QED
    BY <2>10, <2>11, <2>12
<1> QED
  BY <1>1, <1>2, <1>3

--------------------------------------------------------------------------------
(* What a provider said goes back to it.                                   *)

BlocksIn(places) == FlattenSeq([k \in DOMAIN places |-> places[k].blocks])

\* Everything that is due is there, in its order, and what can be read is what was said.
KeepsTheWord(shape, back, said) ==
  LET due == Due(shape, said) IN
  /\ Len(back) = Len(due)
  /\ \A k \in DOMAIN back : Readable(shape, due[k]) => back[k] = due[k]

LEMMA BlockTurnsComeBack ==
  ASSUME NEW d \in Dialects, Shape(d) # "chat", NEW said \in Seq(Blocks), NEW t \in Nat,
         NEW turn, turn.items = Decode(d, said), turn.role # "system"
  PROVE  /\ turn.items \in Seq(Items)
         /\ KeepsTheWord(Shape(d), BlocksIn(PlacesOf(Shape(d), t, turn)), said)
<1> DEFINE shape == Shape(d)
           n == Len(said)
           E(k) == EncodeItem(shape, DecodeBlock(d, said[k]))
           Back(k) == CHOOSE b \in WireBlocks : E(k) = <<b>> /\ (Readable(shape, said[k]) => b = said[k])
           back == [k \in 1 .. n |-> Back(k)]
           items == [k \in 1 .. n |-> DecodeBlock(d, said[k])]
           places == [k \in 1 .. n |-> Place(t, turn.role, <<back[k]>>)]
<1>1. n \in Nat /\ DOMAIN said = 1 .. n /\ \A k \in 1 .. n : said[k] \in Blocks
  OBVIOUS
<1>2. turn.items = items
  BY <1>1 DEF Decode
<1>3. items \in Seq(Items) /\ Len(items) = n /\ DOMAIN items = 1 .. n
  <2>1. \A k \in 1 .. n : DecodeBlock(d, said[k]) \in Items
    BY <1>1, BlocksComeBack
  <2> HIDE DEF n
  <2> QED
    BY <1>1, <2>1
<1>4. \A k \in 1 .. n : Back(k) \in WireBlocks /\ E(k) = <<Back(k)>>
                        /\ (Readable(shape, said[k]) => Back(k) = said[k])
  <2> SUFFICES ASSUME NEW k \in 1 .. n
               PROVE  Back(k) \in WireBlocks /\ E(k) = <<Back(k)>>
                      /\ (Readable(shape, said[k]) => Back(k) = said[k])
    OBVIOUS
  <2>1. \E b \in WireBlocks : E(k) = <<b>> /\ (Readable(shape, said[k]) => b = said[k])
    BY <1>1, BlocksComeBack
  <2> HIDE DEF E, WireBlocks
  <2> QED
    BY <2>1
<1> HIDE DEF Back, n
<1>5. back \in Seq(WireBlocks) /\ Len(back) = n
  <2> HIDE DEF E, shape
  <2> QED
    BY <1>1, <1>4
<1>6. FlattenSeq([k \in 1 .. n |-> <<back[k]>>]) = back
  <2> HIDE DEF back
  <2> QED
    BY <1>5, OneByOneIsAll
<1>7. [k \in DOMAIN items |-> EncodeItem(shape, items[k])] = [k \in 1 .. n |-> <<back[k]>>]
  <2>1. \A k \in 1 .. n : EncodeItem(shape, items[k]) = E(k) /\ back[k] = Back(k)
    OBVIOUS
  <2>2. \A k \in 1 .. n : EncodeItem(shape, items[k]) = <<back[k]>>
    <3> HIDE DEF E, back, items, shape
    <3> QED
      BY <1>4, <2>1
  <2> HIDE DEF E, back, items, shape
  <2> QED
    BY <1>3, <2>2
<1>8. PlacesOf(shape, t, turn) = places
  <2>1. PlacesOf(shape, t, turn) = BlockPlaces(shape, t, turn)
    BY DEF PlacesOf
  <2> HIDE DEF back, items, shape
  <2>2. BlockPlaces(shape, t, turn)
          = [k \in DOMAIN back |-> Place(t, turn.role, <<back[k]>>)]
    BY <1>2, <1>6, <1>7 DEF BlockPlaces
  <2>3. DOMAIN back = 1 .. n
    BY <1>5
  <2> QED
    BY <2>1, <2>2, <2>3
<1>9. BlocksIn(places) = back
  <2>1. \A k \in 1 .. n : places[k].blocks = <<back[k]>>
    BY DEF Place
  <2>2. DOMAIN places = 1 .. n
    OBVIOUS
  <2> HIDE DEF places, back
  <2>3. [k \in DOMAIN places |-> places[k].blocks] = [k \in 1 .. n |-> <<back[k]>>]
    BY <2>1, <2>2
  <2> QED
    BY <1>6, <2>3 DEF BlocksIn
<1>10. KeepsTheWord(shape, back, said)
  <2>1. Due(shape, said) = said
    BY DEF Due
  <2>2. DOMAIN back = 1 .. n
    BY <1>5
  <2>3. \A k \in 1 .. n : Readable(shape, said[k]) => back[k] = said[k]
    <3>1. \A k \in 1 .. n : back[k] = Back(k)
      OBVIOUS
    <3> HIDE DEF back, shape, E
    <3> QED
      BY <1>4, <3>1
  <2> HIDE DEF back, shape
  <2> QED
    BY <1>5, <2>1, <2>2, <2>3 DEF KeepsTheWord, n
<1> HIDE DEF items, places, back
<1> QED
  BY <1>2, <1>3, <1>8, <1>9, <1>10 DEF shape

SplitsInThree(a, b, c, set) ==
  OnlyIn((a \o b) \o c, set) = (OnlyIn(a, set) \o OnlyIn(b, set)) \o OnlyIn(c, set)

LEMMA OnlyInThree ==
  ASSUME NEW S, NEW a \in Seq(S), NEW b \in Seq(S), NEW c \in Seq(S), NEW set
  PROVE  SplitsInThree(a, b, c, set)
<1> DEFINE Splits(x, y) == OnlyIn(x \o y, set) = OnlyIn(x, set) \o OnlyIn(y, set)
<1>1. \A x \in Seq(S) : \A y \in Seq(S) : Splits(x, y)
  <2> TAKE x \in Seq(S)
  <2> TAKE y \in Seq(S)
  <2> QED
    BY ONLY x \in Seq(S), y \in Seq(S), OnlyInSplits, SMTT(30)
<1>2. a \o b \in Seq(S)
  BY ONLY a \in Seq(S), b \in Seq(S), ConcatProperties
<1>3. PICK front : front = a \o b
  OBVIOUS
<1> HIDE DEF Splits
<1>4. Splits(a, b) /\ Splits(front, c)
  <2>1. a \in Seq(S) /\ b \in Seq(S) /\ c \in Seq(S) /\ front \in Seq(S)
    BY <1>2, <1>3
  <2> QED
    BY ONLY <1>1, <2>1
<1> QED
  BY <1>3, <1>4 DEF Splits, SplitsInThree

LEMMA OneIsAll ==
  ASSUME NEW S, NEW s \in Seq(S)
  PROVE  FlattenSeq(<<s>>) = s
<1>1. Append(<<>>, s) = <<s>> /\ <<>> \o s = s
  BY ConcatEmptySeq
<1>2. PICK none : none = <<>>
  OBVIOUS
<1>3. none \in Seq(Seq(S))
  BY <1>2, EmptySeq
<1>4. FlattenSeq(Append(none, s)) = FlattenSeq(none) \o s
  BY <1>3, FlattenGrows
<1>5. FlattenSeq(none) = <<>>
  BY <1>2, FlattenNothing
<1> QED
  BY <1>1, <1>2, <1>4, <1>5

LEMMA ChatTurnsComeBack ==
  ASSUME NEW d \in Dialects, Shape(d) = "chat", NEW said \in Replies["chat"], NEW t \in Nat,
         NEW turn, turn.items = Decode(d, said)
  PROVE  /\ turn.items \in Seq(Items)
         /\ KeepsTheWord("chat", BlocksIn(PlacesOf("chat", t, turn)), said)
<1> DEFINE Of(type) == {b \in Range(said) : b.type = type}
           Full(type) == {b \in Of(type) : b.data # ""}
           reasonings == OnlyIn(said, Full("reasoning"))
           contents == OnlyIn(said, Full("content"))
           asked == OnlyIn(said, Of("tool_call"))
           R(k) == Item("Reasoning", "none", reasonings[k].data, NoCarry)
           T(k) == Item("Text", "none", contents[k].data, NoCarry)
           C(k) == Item("ToolCall", asked[k].id, Parsed("chat", asked[k].data), NoCarry)
           r == [k \in 1 .. Len(reasonings) |-> R(k)]
           x == [k \in 1 .. Len(contents) |-> T(k)]
           c == [k \in 1 .. Len(asked) |-> C(k)]
           Texts_ == {item \in Items : item.kind = "Text" /\ item.data # ""}
<1>1. said \in Seq(Blocks) /\ \A k \in 1 .. Len(said) : said[k].type = "content" => said[k].id = "none"
  BY WireAssumption
<1>2. /\ reasonings \in Seq(Blocks \cap Full("reasoning"))
      /\ contents \in Seq(Blocks \cap Full("content"))
      /\ asked \in Seq(Blocks \cap Of("tool_call"))
  <2> HIDE DEF Full, Of
  <2> QED
    BY <1>1, OnlyInType
<1>20. /\ DOMAIN reasonings = 1 .. Len(reasonings) /\ DOMAIN contents = 1 .. Len(contents)
       /\ DOMAIN asked = 1 .. Len(asked)
       /\ Len(reasonings) \in Nat /\ Len(contents) \in Nat /\ Len(asked) \in Nat
       /\ \A k \in 1 .. Len(reasonings) : reasonings[k] \in Blocks /\ reasonings[k] \in Full("reasoning")
       /\ \A k \in 1 .. Len(contents) : contents[k] \in Blocks /\ contents[k] \in Full("content")
       /\ \A k \in 1 .. Len(asked) : asked[k] \in Blocks /\ asked[k] \in Of("tool_call")
  <2> HIDE DEF Full, Of, reasonings, contents, asked
  <2> QED
    BY <1>2
<1>3. \A b \in Of("content") : b.id = "none"
  BY <1>1 DEF Range
<1> HIDE DEF reasonings, contents, asked
<1>4. \A b \in Blocks : b.data \in Texts /\ b.id \in Texts /\ Parsed("chat", b.data) \in Texts
                        /\ "none" \in Texts /\ b = Block(b.type, b.id, b.data)
  <2>1. \A b \in Blocks : Parsed("chat", b.data) \in Texts
    BY ParsedIsText DEF Blocks
  <2>2. \A b \in Blocks : b.data \in Texts /\ b.id \in Texts /\ "none" \in Texts
    BY DEF Blocks, Texts
  <2>3. \A b \in Blocks : b = Block(b.type, b.id, b.data)
    BY DEF Blocks, Block
  <2> QED
    BY <2>1, <2>2, <2>3
<1>5. \A k \in 1 .. Len(reasonings) : R(k) \in Items /\ R(k).kind = "Reasoning"
  <2> SUFFICES ASSUME NEW k \in 1 .. Len(reasonings) PROVE R(k) \in Items /\ R(k).kind = "Reasoning"
    OBVIOUS
  <2>1. reasonings[k] \in Blocks
    BY <1>20
  <2>2. "Reasoning" \in Kinds /\ "none" \in Texts /\ reasonings[k].data \in Texts
    BY <1>4, <2>1 DEF Kinds
  <2>3. R(k) \in Items
    BY <2>2, ItemsAreItems
  <2> QED
    BY <2>3 DEF Item
<1>6. \A k \in 1 .. Len(contents) :
        /\ T(k) \in Texts_ /\ T(k).kind = "Text"
        /\ Block("content", "none", T(k).data) = contents[k]
  <2> SUFFICES ASSUME NEW k \in 1 .. Len(contents)
               PROVE  /\ T(k) \in Texts_ /\ T(k).kind = "Text"
                      /\ Block("content", "none", T(k).data) = contents[k]
    OBVIOUS
  <2>1. contents[k] \in Blocks /\ contents[k] \in Of("content") /\ contents[k].data # ""
    BY <1>20
  <2>2. "Text" \in Kinds /\ "none" \in Texts /\ contents[k].data \in Texts
    BY <1>4, <2>1 DEF Kinds
  <2>3. T(k) \in Items
    BY <2>2, ItemsAreItems
  <2>4. T(k).kind = "Text" /\ T(k).data = contents[k].data
    BY DEF Item
  <2>5. contents[k].type = "content" /\ contents[k].id = "none"
    BY <1>3, <2>1
  <2>6. contents[k] = Block("content", "none", contents[k].data)
    BY <1>4, <2>1, <2>5
  <2> HIDE DEF Items
  <2> QED
    BY <2>1, <2>3, <2>4, <2>6
<1>7. \A k \in 1 .. Len(asked) :
        /\ C(k) \in Items /\ C(k).kind = "ToolCall"
        /\ Readable("chat", asked[k])
             => Block("tool_call", C(k).id, ChatArguments(C(k).data)) = asked[k]
  <2> SUFFICES ASSUME NEW k \in 1 .. Len(asked)
               PROVE  /\ C(k) \in Items /\ C(k).kind = "ToolCall"
                      /\ Readable("chat", asked[k])
                           => Block("tool_call", C(k).id, ChatArguments(C(k).data)) = asked[k]
    OBVIOUS
  <2>1. asked[k] \in Blocks /\ asked[k].type = "tool_call"
    BY <1>20
  <2>2. "ToolCall" \in Kinds /\ asked[k].id \in Texts /\ Parsed("chat", asked[k].data) \in Texts
    BY <1>4, <2>1 DEF Kinds
  <2>3. C(k) \in Items
    BY <2>2, ItemsAreItems
  <2>4. C(k).kind = "ToolCall" /\ C(k).id = asked[k].id /\ C(k).data = Parsed("chat", asked[k].data)
    BY DEF Item
  <2>5. Readable("chat", asked[k]) => ChatArguments(Parsed("chat", asked[k].data)) = asked[k].data
    BY DEF Readable, ChatArguments, Parsed
  <2>6. asked[k] = Block("tool_call", asked[k].id, asked[k].data)
    BY <1>4, <2>1
  <2> HIDE DEF Items
  <2> QED
    BY <2>3, <2>4, <2>5, <2>6
<1>8. turn.items = (r \o x) \o c
  <2>1. Decode(d, said) = DecodeChat(said)
    BY DEF Decode
  <2>2. DecodeChat(said) =
          ([k \in DOMAIN reasonings |-> R(k)] \o [k \in DOMAIN contents |-> T(k)])
            \o [k \in DOMAIN asked |-> C(k)]
    BY DEF DecodeChat, reasonings, contents, asked
  <2>3. /\ DOMAIN reasonings = 1 .. Len(reasonings) /\ DOMAIN contents = 1 .. Len(contents)
        /\ DOMAIN asked = 1 .. Len(asked)
    BY <1>20
  <2> HIDE DEF R, T, C
  <2> QED
    BY <2>1, <2>2, <2>3
<1>9. /\ r \in Seq(OfSorts(Items, {"Reasoning"})) /\ Len(r) = Len(reasonings)
      /\ x \in Seq(Texts_) /\ Len(x) = Len(contents)
      /\ c \in Seq(OfSorts(Items, {"ToolCall"})) /\ Len(c) = Len(asked)
  <2>1. /\ \A k \in 1 .. Len(reasonings) : R(k) \in OfSorts(Items, {"Reasoning"})
        /\ \A k \in 1 .. Len(contents) : T(k) \in Texts_
        /\ \A k \in 1 .. Len(asked) : C(k) \in OfSorts(Items, {"ToolCall"})
    <3> HIDE DEF R, T, C, Items, Texts_
    <3> QED
      BY <1>5, <1>6, <1>7 DEF OfSorts
  <2>5. Len(reasonings) \in Nat /\ Len(contents) \in Nat /\ Len(asked) \in Nat
    BY <1>20
  <2> HIDE DEF R, T, C, Texts_
  <2>2. r \in Seq(OfSorts(Items, {"Reasoning"})) /\ Len(r) = Len(reasonings)
    BY ONLY <2>1, <2>5
  <2>3. x \in Seq(Texts_) /\ Len(x) = Len(contents)
    BY ONLY <2>1, <2>5
  <2>4. c \in Seq(OfSorts(Items, {"ToolCall"})) /\ Len(c) = Len(asked)
    BY ONLY <2>1, <2>5
  <2> HIDE DEF r, x, c
  <2> QED
    BY <2>2, <2>3, <2>4
<1>10. \A k \in 1 .. Len(contents) : Block("content", "none", x[k].data) = contents[k]
  <2>1. \A k \in 1 .. Len(contents) : x[k] = T(k)
    OBVIOUS
  <2> HIDE DEF T, x
  <2> QED
    BY <1>6, <2>1
<1>11. \A k \in 1 .. Len(asked) : Readable("chat", asked[k])
         => Block("tool_call", c[k].id, ChatArguments(c[k].data)) = asked[k]
  <2>1. \A k \in 1 .. Len(asked) : c[k] = C(k)
    OBVIOUS
  <2> HIDE DEF C, c
  <2> QED
    BY <1>7, <2>1
<1> HIDE DEF R, T, C, r, x, c, Texts_
<1>12. r \in Seq(Items) /\ x \in Seq(Items) /\ c \in Seq(Items)
  <2>1. \A A : \A s \in Seq(Items \cap A) : s \in Seq(Items)
    OBVIOUS
  <2>2. /\ OfSorts(Items, {"Reasoning"}) = Items \cap OfSorts(Items, {"Reasoning"})
        /\ OfSorts(Items, {"ToolCall"}) = Items \cap OfSorts(Items, {"ToolCall"})
        /\ Texts_ = Items \cap Texts_
    BY DEF OfSorts, Texts_
  <2> QED
    BY <1>9, <2>1, <2>2
<1>13. turn.items \in Seq(Items)
  BY <1>8, <1>12, ConcatProperties
<1> DEFINE Picked(set) == OnlyIn(turn.items, set)
<1>14. \A set : Picked(set) = (OnlyIn(r, set) \o OnlyIn(x, set)) \o OnlyIn(c, set)
  <2>1. \A set : OnlyIn((r \o x) \o c, set)
                    = (OnlyIn(r, set) \o OnlyIn(x, set)) \o OnlyIn(c, set)
    <3> TAKE set
    <3>1. SplitsInThree(r, x, c, set)
      BY ONLY <1>12, OnlyInThree
    <3> QED
      BY ONLY <3>1 DEF SplitsInThree
  <2>2. \A set : Picked(set) = OnlyIn((r \o x) \o c, set)
    BY ONLY <1>8 DEF Picked
  <2> HIDE DEF Picked
  <2> QED
    BY ONLY <2>1, <2>2, Zenon
<1>15. ItemsOf(turn, "ToolResult") = <<>>
  <2> DEFINE set == OfSorts(Items, {"ToolResult"})
  <2>1. ItemsOf(turn, "ToolResult") = OnlyIn(turn.items, set)
    BY <1>13, OfKindsIs DEF ItemsOf
  <2>2. /\ OfSorts(Items, {"Reasoning"}) \cap set = {} /\ Texts_ \cap set = {}
        /\ OfSorts(Items, {"ToolCall"}) \cap set = {}
    BY DEF OfSorts, Texts_
  <2> HIDE DEF set
  <2>3. OnlyIn(r, set) = <<>> /\ OnlyIn(x, set) = <<>> /\ OnlyIn(c, set) = <<>>
    BY <1>9, <2>2, OnlyInLeaves
  <2>4. (<<>> \o <<>>) \o <<>> = <<>>
    OBVIOUS
  <2> QED
    BY <1>14, <2>1, <2>3, <2>4
<1>16. ItemsOf(turn, "ToolCall") = c
  <2> DEFINE set == OfSorts(Items, {"ToolCall"})
  <2>1. ItemsOf(turn, "ToolCall") = OnlyIn(turn.items, set)
    BY <1>13, OfKindsIs DEF ItemsOf
  <2>2. OfSorts(Items, {"Reasoning"}) \cap set = {} /\ Texts_ \cap set = {}
    BY DEF OfSorts, Texts_
  <2>20. c \in Seq(set \cap set)
    BY <1>9
  <2> HIDE DEF set
  <2>3. OnlyIn(r, set) = <<>> /\ OnlyIn(x, set) = <<>> /\ OnlyIn(c, set) = c
    BY <1>9, <2>2, <2>20, OnlyInLeaves, OnlyInKeeps
  <2>4. (<<>> \o <<>>) \o c = c
    BY <1>12, ConcatEmptySeq
  <2> QED
    BY <1>14, <2>1, <2>3, <2>4
<1>17. OnlyIn(turn.items, {item \in Range(turn.items) : item.kind = "Text" /\ item.data # ""}) = x
  <2> DEFINE near == {item \in Range(turn.items) : item.kind = "Text" /\ item.data # ""}
             all == Range(turn.items)
  <2>1. turn.items \in Seq(all) /\ all \subseteq Items
    BY <1>13 DEF Range
  <2>2. \A e \in all : e \in near <=> e \in Texts_
    BY <2>1 DEF Texts_
  <2>3. OfSorts(Items, {"Reasoning"}) \cap Texts_ = {} /\ OfSorts(Items, {"ToolCall"}) \cap Texts_ = {}
    BY DEF OfSorts, Texts_
  <2> HIDE DEF all, near
  <2>4. OnlyIn(turn.items, near) = OnlyIn(turn.items, Texts_)
    BY <2>1, <2>2, OnlyInAgrees
  <2>5. OnlyIn(r, Texts_) = <<>> /\ OnlyIn(c, Texts_) = <<>>
    BY <1>9, <2>3, OnlyInLeaves
  <2>6. OnlyIn(x, Texts_) = x
    <3>1. x \in Seq(Texts_ \cap Texts_)
      BY <1>9
    <3> QED
      BY <3>1, OnlyInKeeps
  <2>7. (<<>> \o x) \o <<>> = x
    BY <1>12, ConcatEmptySeq
  <2> QED
    BY <1>14, <2>4, <2>5, <2>6, <2>7 DEF near
<1> DEFINE a == [k \in DOMAIN x |-> Block("content", "none", x[k].data)]
           b == [k \in DOMAIN c |-> Block("tool_call", c[k].id, ChatArguments(c[k].data))]
           body == a \o b
<1>18. a \in Seq(WireBlocks) /\ b \in Seq(WireBlocks) /\ Len(a) = Len(contents) /\ Len(b) = Len(asked)
  <2>1. "content" \in Texts /\ "tool_call" \in Texts /\ "none" \in Texts
    BY DEF Texts, BlockNames
  <2>2. \A item \in Items : item.id \in Texts /\ item.data \in Texts /\ ChatArguments(item.data) \in Texts
    BY DEF Items, ChatArguments, Texts
  <2>3. \A type, id, data \in Texts : Block(type, id, data) \in WireBlocks
    BY DEF Block, WireBlocks
  <2>4. \A k \in 1 .. Len(x) : x[k] \in Items
    BY <1>12
  <2>5. \A k \in 1 .. Len(c) : c[k] \in Items
    BY <1>12
  <2> DEFINE P(k) == Block("content", "none", x[k].data)
             Q(k) == Block("tool_call", c[k].id, ChatArguments(c[k].data))
  <2>6. \A k \in 1 .. Len(x) : P(k) \in WireBlocks
    BY <2>1, <2>2, <2>3, <2>4
  <2>7. \A k \in 1 .. Len(c) : Q(k) \in WireBlocks
    BY <2>1, <2>2, <2>3, <2>5
  <2>8. a = [k \in 1 .. Len(x) |-> P(k)] /\ b = [k \in 1 .. Len(c) |-> Q(k)]
        /\ Len(x) \in Nat /\ Len(c) \in Nat
    BY <1>12
  <2> HIDE DEF a, b, P, Q, WireBlocks
  <2> QED
    BY <1>9, <2>6, <2>7, <2>8
<1>19. PlacesOf("chat", t, turn) = IF body = <<>> THEN <<>> ELSE <<Place(t, turn.role, body)>>
  <2> DEFINE last == IF body = <<>> THEN <<>> ELSE <<Place(t, turn.role, body)>>
             none == [k \in DOMAIN <<>> |-> Place(t, "tool", <<Block("content", <<>>[k].id, <<>>[k].data)>>)]
  <2>1. PlacesOf("chat", t, turn) = ChatPlaces(t, turn)
    BY DEF PlacesOf
  <2>2. ChatPlaces(t, turn) = none \o last
    <3> HIDE DEF Items
    <3> QED
      BY <1>15, <1>16, <1>17 DEF ChatPlaces
  <2>3. none = <<>>
    OBVIOUS
  <2>4. last \in Seq({Place(t, turn.role, body)})
    <3>1. PICK place : place = Place(t, turn.role, body)
      OBVIOUS
    <3>2. <<>> \in Seq({place}) /\ <<place>> \in Seq({place})
      OBVIOUS
    <3> HIDE DEF body
    <3> QED
      BY <3>1, <3>2
  <2>5. <<>> \o last = last
    <3> HIDE DEF last
    <3> QED
      BY <2>4, ConcatEmptySeq
  <2> HIDE DEF body
  <2> QED
    BY <2>1, <2>2, <2>3, <2>5
<1> HIDE DEF a, b
<1>21. body \in Seq(WireBlocks) /\ Len(body) = Len(contents) + Len(asked)
  <2>1. \A S : \A p, q \in Seq(S) : p \o q \in Seq(S) /\ Len(p \o q) = Len(p) + Len(q)
    BY ConcatProperties
  <2> QED
    BY <1>18, <2>1
<1>22. BlocksIn(PlacesOf("chat", t, turn)) = body
  <2> HIDE DEF body
  <2>1. CASE body = <<>>
    <3>1. [k \in DOMAIN <<>> |-> <<>>[k].blocks] = <<>>
      OBVIOUS
    <3> QED
      BY <1>19, <2>1, <3>1, FlattenNothing DEF BlocksIn
  <2>2. CASE body # <<>>
    <3> DEFINE one == <<Place(t, turn.role, body)>>
    <3>1. [k \in DOMAIN one |-> one[k].blocks] = <<body>>
      BY DEF Place
    <3> HIDE DEF one
    <3>2. PlacesOf("chat", t, turn) = one
      BY <1>19, <2>2 DEF one
    <3>3. FlattenSeq(<<body>>) = body
      BY <1>21, OneIsAll
    <3> QED
      BY <3>1, <3>2, <3>3 DEF BlocksIn
  <2> QED
    BY <2>1, <2>2
<1>23. Due("chat", said) = contents \o asked
  <2>1. Full("content") = {e \in Range(said) : e.type = "content" /\ e.data # ""}
    OBVIOUS
  <2> HIDE DEF Full
  <2> QED
    BY <2>1 DEF Due, contents, asked
<1>24. KeepsTheWord("chat", body, said)
  <2> DEFINE due == contents \o asked
             n == Len(contents)
             m == Len(asked)
  <2>1. contents \in Seq(Blocks) /\ asked \in Seq(Blocks)
    <3>1. \A A : \A s \in Seq(Blocks \cap A) : s \in Seq(Blocks)
      OBVIOUS
    <3> HIDE DEF Full, Of
    <3> QED
      BY <1>2, <3>1
  <2>2. /\ Len(due) = n + m /\ n \in Nat /\ m \in Nat
        /\ \A k \in 1 .. n + m : due[k] = IF k <= n THEN contents[k] ELSE asked[k - n]
    BY <2>1, ConcatProperties
  <2>3. \A k \in 1 .. n + m : body[k] = IF k <= n THEN a[k] ELSE b[k - n]
    BY <1>18, ConcatProperties
  <2>4. \A k \in 1 .. n : a[k] = contents[k]
    BY <1>9, <1>10, <1>12 DEF a
  <2>5. \A k \in 1 .. m : Readable("chat", asked[k]) => b[k] = asked[k]
    BY <1>9, <1>11, <1>12 DEF b
  <2>6. DOMAIN body = 1 .. n + m
    <3> HIDE DEF body
    <3> QED
      BY <1>21
  <2> HIDE DEF due, body
  <2>7. ASSUME NEW k \in 1 .. n + m, Readable("chat", due[k]) PROVE body[k] = due[k]
    <3>1. CASE k <= n
      BY <2>2, <2>3, <2>4, <3>1
    <3>2. CASE ~(k <= n)
      <4>1. k - n \in 1 .. m
        BY <2>2, <3>2
      <4>2. due[k] = asked[k - n] /\ body[k] = b[k - n]
        BY <2>2, <2>3, <3>2
      <4> QED
        BY <2>5, <2>7, <4>1, <4>2
    <3> QED
      BY <3>1, <3>2
  <2> QED
    BY <1>21, <1>23, <2>2, <2>6, <2>7 DEF KeepsTheWord, due
<1> HIDE DEF body
<1> QED
  BY <1>13, <1>22, <1>24

--------------------------------------------------------------------------------
(* Where the breakpoints land.                                             *)

\* Where no turn is blank, a turn is counted for as many messages as it becomes.
LEMMA MessagesAreCounted ==
  ASSUME NEW turn, turn.items \in Seq(Items), ~Blank(turn), NEW t
  PROVE  /\ Len(PlacesOf("chat", t, turn)) = MessagesFor(turn)
         /\ MessagesFor(turn) \in Nat
<1> DEFINE items == turn.items
           n == Len(items)
           results == ItemsOf(turn, "ToolResult")
           spoken == {item \in Range(items) : item.kind = "Text" /\ item.data # ""}
           texts == OnlyIn(items, spoken)
           calls == ItemsOf(turn, "ToolCall")
           a == [k \in DOMAIN texts |-> Block("content", "none", texts[k].data)]
           b == [k \in DOMAIN calls |->
                   Block("tool_call", calls[k].id, ChatArguments(calls[k].data))]
           body == a \o b
           r == [k \in DOMAIN results |->
                   Place(t, "tool", <<Block("content", results[k].id, results[k].data)>>)]
           last == IF body = <<>> THEN <<>> ELSE <<Place(t, turn.role, body)>>
<1>1. /\ Len(results) \in Nat /\ DOMAIN results = 1 .. Len(results)
      /\ Len(texts) \in Nat /\ DOMAIN texts = 1 .. Len(texts)
      /\ Len(calls) \in Nat /\ DOMAIN calls = 1 .. Len(calls)
      /\ (Len(texts) = 0 <=> texts = <<>>) /\ (Len(calls) = 0 <=> calls = <<>>)
  <2>1. PICK S : results \in Seq(S)
    BY ItemsOfType
  <2>2. PICK T : texts \in Seq(T)
    <3> HIDE DEF spoken
    <3> QED
      BY OnlyInType
  <2>3. PICK U : calls \in Seq(U)
    BY ItemsOfType
  <2> HIDE DEF results, texts, calls
  <2> QED
    BY <2>1, <2>2, <2>3, EmptySeq
<1>2. texts = <<>> <=> \A k \in 1 .. n : ~(items[k].kind = "Text" /\ items[k].data # "")
  <2>1. texts = <<>> <=> \A k \in 1 .. n : items[k] \notin spoken
    <3> HIDE DEF spoken
    <3> QED
      BY OnlyInFinds
  <2>2. \A k \in 1 .. n : items[k] \in Range(items)
    BY DEF Range
  <2> HIDE DEF texts
  <2> QED
    BY <2>1, <2>2
<1>3. calls = <<>> <=> \A k \in 1 .. n : items[k].kind # "ToolCall"
  <2> DEFINE set == OfSorts(Items, {"ToolCall"})
  <2>1. calls = OnlyIn(items, set)
    BY OfKindsIs DEF ItemsOf
  <2>2. \A k \in 1 .. n : items[k] \in Items
    OBVIOUS
  <2>3. \A k \in 1 .. n : items[k] \in set <=> items[k].kind = "ToolCall"
    <3> HIDE DEF Items
    <3> QED
      BY <2>2 DEF OfSorts
  <2> HIDE DEF set
  <2>4. OnlyIn(items, set) = <<>> <=> \A k \in 1 .. n : items[k] \notin set
    BY OnlyInFinds
  <2> HIDE DEF calls
  <2> QED
    BY <2>1, <2>3, <2>4
<1>4. HasBody(turn) <=> \E k \in 1 .. n : items[k].kind \in {"Text", "ToolCall"}
  BY DEF HasBody
<1>5. ~HasBody(turn) <=> texts = <<>> /\ calls = <<>>
  <2>1. Blank(turn) <=> /\ HasBody(turn) /\ calls = <<>>
                        /\ \A k \in 1 .. n : items[k].kind = "Text" => items[k].data = ""
    <3>1. DOMAIN turn.items = 1 .. n
      OBVIOUS
    <3> QED
      BY <3>1 DEF Blank
  <2> HIDE DEF texts, calls, items, n
  <2> QED
    BY <1>2, <1>3, <1>4, <2>1
<1> HIDE DEF results, texts, calls
<1>6. body = <<>> <=> texts = <<>> /\ calls = <<>>
  <2> DEFINE S == {a[k] : k \in 1 .. Len(texts)} \cup {b[k] : k \in 1 .. Len(calls)}
  <2>1. a \in Seq(S) /\ Len(a) = Len(texts)
    BY <1>1
  <2>2. b \in Seq(S) /\ Len(b) = Len(calls)
    BY <1>1
  <2> HIDE DEF a, b, S
  <2>3. body \in Seq(S) /\ Len(body) = Len(texts) + Len(calls)
    <3>1. a \o b \in Seq(S) /\ Len(a \o b) = Len(a) + Len(b)
      BY ONLY <2>1, <2>2, ConcatProperties
    <3> QED
      BY <2>1, <2>2, <3>1 DEF body
  <2> HIDE DEF body
  <2>4. body = <<>> <=> Len(body) = 0
    BY <2>3, EmptySeq
  <2> QED
    BY <1>1, <2>3, <2>4
<1>7. Len(r \o last) = Len(results) + (IF body = <<>> THEN 0 ELSE 1)
  <2> HIDE DEF body
  <2> DEFINE S == {r[k] : k \in 1 .. Len(results)} \cup {Place(t, turn.role, body)}
  <2>1. r \in Seq(S) /\ Len(r) = Len(results)
    BY <1>1
  <2>2. last \in Seq(S) /\ Len(last) = IF body = <<>> THEN 0 ELSE 1
    <3>1. PICK place : place = Place(t, turn.role, body)
      OBVIOUS
    <3>2. place \in S
      BY <3>1
    <3>3. <<>> \in Seq(S) /\ <<place>> \in Seq(S) /\ Len(<<>>) = 0 /\ Len(<<place>>) = 1
      <4> HIDE DEF S
      <4> QED
        BY <3>2
    <3> HIDE DEF S
    <3> QED
      BY <3>1, <3>3
  <2> HIDE DEF r, last, S
  <2>3. Len(r \o last) = Len(r) + Len(last)
    BY ONLY <2>1, <2>2, ConcatProperties
  <2> QED
    BY ONLY <2>1, <2>2, <2>3
<1>8. PlacesOf("chat", t, turn) = r \o last
  <2>1. PlacesOf("chat", t, turn) = ChatPlaces(t, turn)
    BY DEF PlacesOf
  <2>2. ChatPlaces(t, turn) = r \o last
    BY DEF ChatPlaces, results, texts, calls
  <2> HIDE DEF r, last
  <2> QED
    BY <2>1, <2>2
<1>9. MessagesFor(turn) = Len(results) + (IF HasBody(turn) THEN 1 ELSE 0)
  BY DEF MessagesFor, results
<1> HIDE DEF r, last, body
<1> QED
  BY <1>1, <1>5, <1>6, <1>7, <1>8, <1>9

\* What is in the whole is in its part.
LEMMA WholeIsOfParts ==
  ASSUME NEW S, NEW parts \in Seq(Seq(S))
  PROVE  \A k \in 1 .. Len(FlattenSeq(parts)) :
           \E t \in 1 .. Len(parts) : \E j \in 1 .. Len(parts[t]) :
             FlattenSeq(parts)[k] = parts[t][j]
<1> DEFINE In(p, ps) == \E t \in 1 .. Len(ps) : \E j \in 1 .. Len(ps[t]) : p = ps[t][j]
           C == {ps \in Seq(Seq(S)) : \A k \in 1 .. Len(FlattenSeq(ps)) : In(FlattenSeq(ps)[k], ps)}
<1>1. <<>> \in C
  <2>1. FlattenSeq(<<>>) = <<>> /\ Len(<<>>) = 0 /\ <<>> \in Seq(Seq(S))
    BY FlattenNothing
  <2> HIDE DEF In
  <2> QED
    BY <2>1
<1>2. ASSUME NEW ps \in C, NEW part \in Seq(S) PROVE Append(ps, part) \in C
  <2> DEFINE more == Append(ps, part)
             n == Len(ps)
             w == FlattenSeq(ps)
             v == FlattenSeq(more)
  <2>1. /\ ps \in Seq(Seq(S)) /\ more \in Seq(Seq(S)) /\ n \in Nat /\ Len(more) = n + 1
        /\ more[n + 1] = part /\ \A t \in 1 .. n : more[t] = ps[t]
    BY AppendProperties
  <2>2. v = w \o part /\ w \in Seq(S)
    BY <2>1, FlattenGrows, FlattenType
  <2>3. /\ Len(v) = Len(w) + Len(part) /\ Len(w) \in Nat /\ Len(part) \in Nat
        /\ \A k \in 1 .. Len(w) : v[k] = w[k]
        /\ \A k \in 1 .. Len(part) : v[Len(w) + k] = part[k]
    BY <2>2, ConcatProperties, LenProperties
  <2>4. \A k \in 1 .. Len(w) : In(w[k], ps)
    OBVIOUS
  <2>5. \A p : In(p, ps) => In(p, more)
    <3>1. \A t \in 1 .. n : t \in 1 .. Len(more)
      BY <2>1
    <3> HIDE DEF more
    <3> QED
      BY <2>1, <3>1
  <2>6. \A j \in 1 .. Len(part) : In(part[j], more)
    <3>1. n + 1 \in 1 .. Len(more)
      BY <2>1
    <3> HIDE DEF more, n
    <3> QED
      BY <2>1, <3>1
  <2> HIDE DEF In, v, w
  <2>7. ASSUME NEW k \in 1 .. Len(v) PROVE In(v[k], more)
    <3>1. CASE k \in 1 .. Len(w)
      BY <2>3, <2>4, <2>5, <3>1
    <3>2. CASE k \notin 1 .. Len(w)
      <4>1. k - Len(w) \in 1 .. Len(part) /\ k = Len(w) + (k - Len(w))
        BY <2>3, <3>2
      <4>2. v[k] = part[k - Len(w)]
        BY <2>3, <4>1
      <4> QED
        BY <2>6, <4>1, <4>2
    <3> QED
      BY <3>1, <3>2
  <2>8. \A k \in 1 .. Len(FlattenSeq(more)) : In(FlattenSeq(more)[k], more)
    BY <2>7 DEF v
  <2> QED
    BY <2>1, <2>8
<1>3. C = Seq(Seq(S))
  <2>1. C \in SUBSET Seq(Seq(S))
    OBVIOUS
  <2> HIDE DEF C
  <2> QED
    BY <1>1, <1>2, <2>1, SequenceInduction
<1> QED
  BY <1>3

\* A breakpoint lands where its turn ends, if it became anything.
Landing(parts, planned) == {EndOf(parts, t) : t \in {u \in planned : parts[u] # <<>>}}

LEMMA LandingIsRight ==
  ASSUME NEW S, NEW parts \in Seq(Seq(S)), Signed(parts),
         NEW planned \in SUBSET (1 .. Len(parts))
  PROVE  LET whole == FlattenSeq(parts)
             landed == Landing(parts, planned)
         IN  /\ \A k \in landed : k \in 1 .. Len(whole) /\ whole[k].from \in planned
             /\ \A t \in planned : parts[t] # <<>> =>
                  \E k \in landed : /\ whole[k].from = t
                                    /\ \A j \in 1 .. Len(whole) : whole[j].from = t => j <= k
<1> DEFINE whole == FlattenSeq(parts)
           landed == Landing(parts, planned)
           e(t) == EndOf(parts, t)
           n == Len(parts)
<1>1. /\ n \in Nat /\ \A t \in 0 .. n : e(t) \in Nat
      /\ \A t \in 1 .. n : e(t) = e(t - 1) + Len(parts[t])
  BY EndsRise
<1>2. n \in 0 .. n /\ \A t \in 0 .. n : 0 <= e(t) /\ e(t) <= e(n)
  <2>1. n \in 0 .. n
    BY ONLY <1>1
  <2>2. \A t \in 0 .. n : t <= n /\ e(t) <= e(n)
    BY <1>1, <2>1, EndsAreOrdered
  <2> HIDE DEF e, n
  <2> QED
    BY ONLY <1>1, <2>1, <2>2
<1>3. /\ Len(whole) = e(n)
      /\ \A k \in 1 .. Len(whole) : \A t \in 1 .. n :
           whole[k].from = t <=> e(t - 1) < k /\ k <= e(t)
  BY PartsLieInOrder
<1>4. \A t \in 1 .. n : parts[t] # <<>> => Len(parts[t]) \in Nat /\ Len(parts[t]) # 0
  BY EmptySeq
<1> HIDE DEF whole, e, n
<1>5. ASSUME NEW t \in planned, parts[t] # <<>>
      PROVE  /\ e(t) \in landed /\ e(t) \in 1 .. Len(whole) /\ whole[e(t)].from = t
             /\ \A j \in 1 .. Len(whole) : whole[j].from = t => j <= e(t)
  <2>1. t \in 1 .. n /\ t \in 0 .. n /\ t - 1 \in 0 .. n
    BY <1>1 DEF n
  <2>2. e(t) = e(t - 1) + Len(parts[t]) /\ e(t - 1) \in Nat /\ e(t) \in Nat /\ e(t) <= e(n)
    BY <1>1, <1>2, <2>1
  <2>3. Len(parts[t]) \in Nat /\ Len(parts[t]) # 0
    BY <1>4, <1>5, <2>1
  <2>4. e(t - 1) < e(t) /\ e(t) \in 1 .. Len(whole)
    <3>1. PICK before, here, more, end :
            before = e(t - 1) /\ here = e(t) /\ more = Len(parts[t]) /\ end = e(n)
      OBVIOUS
    <3>2. /\ before \in Nat /\ here \in Nat /\ more \in Nat /\ end \in Nat
          /\ here = before + more /\ more # 0 /\ here <= end
      BY <1>1, <1>2, <2>1, <2>2, <2>3, <3>1
    <3>3. before < here /\ here \in 1 .. end
      BY ONLY <3>2
    <3> QED
      BY <1>3, <3>1, <3>3
  <2>5. e(t) \in landed
    BY <1>5 DEF Landing, e
  <2> HIDE DEF landed
  <2> QED
    BY <1>3, <2>1, <2>2, <2>4, <2>5
<1>6. \A k \in landed : \E t \in planned : parts[t] # <<>> /\ k = e(t)
  BY DEF Landing, e
<1> HIDE DEF landed
<1>7. \A k \in landed : k \in 1 .. Len(whole) /\ whole[k].from \in planned
  BY <1>5, <1>6
<1>8. \A t \in planned : parts[t] # <<>> =>
        \E k \in landed : /\ whole[k].from = t
                          /\ \A j \in 1 .. Len(whole) : whole[j].from = t => j <= k
  BY <1>5
<1> QED
  BY <1>7, <1>8 DEF whole, landed

--------------------------------------------------------------------------------
(* The invariant.                                                          *)

Turns == [role : Roles, items : Seq(Items),
          said : [by : Dialects \cup {"nobody"}, blocks : Seq(Blocks)]]

\* What a provider said is what it may say, and was read as its dialect reads it.
Heard(turn) ==
  turn.said.by # "nobody" =>
    /\ turn.role # "system"
    /\ turn.said.blocks \in Replies[Shape(turn.said.by)]
    /\ turn.items = Decode(turn.said.by, turn.said.blocks)

TurnsInv ==
  /\ turns \in Seq(Turns) /\ turns # <<>>
  /\ \A t \in 1 .. Len(turns) : Heard(turns[t]) /\ (turns[t].role = "system" => t = 1)

\* A request is of the turns that there are.
SentInv ==
  sent # NotSent =>
    /\ sent.dialect \in Dialects
    /\ sent.turns = Len(turns)
    /\ sent.places = Places(Shape(sent.dialect), turns)
    /\ sent.marks \in SUBSET Segment
    /\ sent.realised = Realised(sent.dialect, sent.places, sent.marks)
    /\ sent.toolsMarked = ToolsMarked(sent.dialect, sent.marks)

WireInv ==
  /\ dialect \in Dialects
  /\ toolBlock \in {"none", "eager", "deferred"}
  /\ TurnsInv
  /\ SentInv
  /\ StopSaysHowItEnded

PartsOf(shape) == [t \in 1 .. Len(turns) |-> PlacesOf(shape, t, turns[t])]

LEMMA PartsArePlaces ==
  ASSUME TurnsInv, NEW shape \in Shapes
  PROVE  /\ PartsOf(shape) \in Seq(Seq(WirePlaces))
         /\ Len(PartsOf(shape)) = Len(turns) /\ Len(turns) \in Nat
         /\ \A t \in 1 .. Len(turns) : PartsOf(shape)[t] = PlacesOf(shape, t, turns[t])
         /\ Signed(PartsOf(shape))
         /\ Places(shape, turns) = FlattenSeq(PartsOf(shape))
<1> DEFINE P(t) == PlacesOf(shape, t, turns[t])
           n == Len(turns)
<1>1. n \in Nat /\ DOMAIN turns = 1 .. n /\ \A t \in 1 .. n : turns[t] \in Turns
  BY DEF TurnsInv
<1>2. \A t \in 1 .. n : P(t) \in Seq(WirePlaces) /\ \A k \in 1 .. Len(P(t)) : P(t)[k].from = t
  <2> SUFFICES ASSUME NEW t \in 1 .. n
               PROVE  P(t) \in Seq(WirePlaces) /\ \A k \in 1 .. Len(P(t)) : P(t)[k].from = t
    OBVIOUS
  <2>1. turns[t].items \in Seq(Items) /\ turns[t].role \in Roles /\ t \in Nat
    <3>1. turns[t] \in Turns
      BY <1>1
    <3> QED
      BY <1>1, <3>1 DEF Turns
  <2>2. PICK turn : turn = turns[t]
    OBVIOUS
  <2> QED
    BY <2>1, <2>2, PlacesAreSigned
<1>3. PartsOf(shape) = [t \in 1 .. n |-> P(t)]
  BY DEF PartsOf
<1>4. Places(shape, turns) = FlattenSeq(PartsOf(shape))
  BY <1>1 DEF Places, PartsOf
<1> HIDE DEF P, n, WirePlaces
<1>5. /\ PartsOf(shape) \in Seq(Seq(WirePlaces)) /\ Len(PartsOf(shape)) = n
      /\ \A t \in 1 .. n : PartsOf(shape)[t] = P(t)
  BY <1>1, <1>2, <1>3
<1>6. Signed(PartsOf(shape))
  BY <1>2, <1>5 DEF Signed
<1> QED
  BY <1>1, <1>4, <1>5, <1>6 DEF n, P

LEMMA MessagesLand ==
  ASSUME TurnsInv, NEW marks
  PROVE  MessagesMarks(Places("messages", turns), marks)
           = Landing(PartsOf("messages"), MarkedTurns(marks))
<1> DEFINE parts == PartsOf("messages")
           whole == Places("messages", turns)
           n == Len(turns)
           e(t) == EndOf(parts, t)
           Of(t) == IF turns[t].role = "system"
                    THEN {k \in DOMAIN whole : whole[k].role = "system" /\ whole[k].from <= t}
                    ELSE {k \in DOMAIN whole : whole[k].from = t}
<1>0. "messages" \in Shapes
  BY DEF Shapes, BlockShapes
<1>1. /\ parts \in Seq(Seq(WirePlaces)) /\ Len(parts) = n /\ n \in Nat /\ Signed(parts)
      /\ whole = FlattenSeq(parts)
      /\ \A t \in 1 .. n : parts[t] = PlacesOf("messages", t, turns[t])
  BY <1>0, PartsArePlaces
<1> HIDE DEF parts, whole
<1>2. /\ whole \in Seq(WirePlaces) /\ Len(whole) = e(n) /\ DOMAIN whole = 1 .. Len(whole)
      /\ Len(whole) \in Nat
      /\ \A k \in 1 .. Len(whole) :
           /\ whole[k].from \in 1 .. n
           /\ \A t \in 1 .. n : whole[k].from = t <=> e(t - 1) < k /\ k <= e(t)
  <2>1. /\ FlattenSeq(parts) \in Seq(WirePlaces) /\ Len(FlattenSeq(parts)) = e(n)
        /\ \A k \in 1 .. Len(FlattenSeq(parts)) :
           /\ FlattenSeq(parts)[k].from \in 1 .. n
           /\ \A t \in 1 .. n : FlattenSeq(parts)[k].from = t <=> e(t - 1) < k /\ k <= e(t)
    BY <1>1, PartsLieInOrder
  <2>2. whole \in Seq(WirePlaces)
    BY <1>1, <2>1
  <2> HIDE DEF e
  <2> QED
    BY <1>1, <2>1, <2>2
<1>3. \A t \in 0 .. n : e(t) \in Nat /\ e(t) <= e(n)
  <2>1. n \in 0 .. n
    BY <1>1
  <2> QED
    BY <1>1, <2>1, EndsRise, EndsAreOrdered
<1>4. \A t \in 1 .. n : e(t) = e(t - 1) + Len(parts[t]) /\ Len(parts[t]) \in Nat
                        /\ (Len(parts[t]) = 0 <=> parts[t] = <<>>)
  <2>1. \A t \in 1 .. n : Len(parts[t]) \in Nat /\ (Len(parts[t]) = 0 <=> parts[t] = <<>>)
    <3>1. \A t \in 1 .. n : parts[t] \in Seq(WirePlaces)
      BY <1>1
    <3> QED
      BY <3>1, EmptySeq
  <2> QED
    BY <1>1, <2>1, EndsRise
<1> HIDE DEF e
<1>5. ASSUME NEW k \in 1 .. Len(whole), whole[k].from = 1, turns[1].role = "system"
      PROVE  whole[k].role = "system"
  <2>1. PICK u \in 1 .. n : \E j \in 1 .. Len(parts[u]) : whole[k] = parts[u][j]
    <3>1. \A i \in 1 .. Len(FlattenSeq(parts)) : \E u \in 1 .. Len(parts) :
            \E j \in 1 .. Len(parts[u]) : FlattenSeq(parts)[i] = parts[u][j]
      BY <1>1, WholeIsOfParts
    <3> QED
      BY <1>1, <3>1
  <2>2. PICK j \in 1 .. Len(parts[u]) : whole[k] = parts[u][j]
    BY <2>1
  <2>3. u = 1
    <3>1. parts[u][j].from = u
      BY <1>1, <2>1, <2>2 DEF Signed
    <3> QED
      BY <1>5, <2>2, <3>1
  <2>4. parts[1] = SystemPlaces("messages", 1, turns[1])
    BY <1>1, <1>5, <2>3 DEF PlacesOf
  <2> DEFINE texts == ItemsOf(turns[1], "Text")
             f == [i \in DOMAIN texts |-> Place(1, "system", EncodeItem("messages", texts[i]))]
  <2>5. parts[1] = f
    BY <2>4 DEF SystemPlaces
  <2>6. DOMAIN texts = 1 .. Len(texts)
    <3>1. PICK turn : turn = turns[1]
      OBVIOUS
    <3>2. turn.items \in Seq(Items)
      <4>1. turns \in Seq(Turns) /\ 1 \in 1 .. Len(turns)
        BY <2>3 DEF TurnsInv
      <4>2. turn \in Turns
        BY <3>1, <4>1
      <4> QED
        BY <4>2 DEF Turns
    <3>3. ItemsOf(turn, "Text") \in Seq(OfSorts(Items, {"Text"}))
      BY <3>2, ItemsOfType
    <3> QED
      BY <3>1, <3>3
  <2> HIDE DEF texts
  <2>7. j \in DOMAIN f
    <3>1. j \in 1 .. Len(f) /\ DOMAIN f = DOMAIN texts
      BY <2>2, <2>3, <2>5
    <3>2. Len(f) = Len(texts)
      <4>1. Len(parts[1]) \in Nat /\ DOMAIN parts[1] = 1 .. Len(parts[1])
        BY <1>1, <2>3
      <4> QED
        BY <2>5, <2>6, <3>1, <4>1
    <3> QED
      BY <2>6, <3>1, <3>2
  <2>8. f[j].role = "system"
    BY <2>7 DEF Place
  <2> HIDE DEF f
  <2> QED
    BY <2>2, <2>3, <2>5, <2>8
<1>6. ASSUME NEW t \in 1 .. n PROVE Of(t) = {k \in 1 .. Len(whole) : e(t - 1) < k /\ k <= e(t)}
  <2>1. \A k \in 1 .. Len(whole) : whole[k].from = t <=> e(t - 1) < k /\ k <= e(t)
    BY <1>2
  <2>2. CASE turns[t].role # "system"
    BY <1>2, <2>1, <2>2
  <2>3. CASE turns[t].role = "system"
    <3>1. t = 1
      BY <2>3 DEF TurnsInv
    <3>2. \A k \in 1 .. Len(whole) : whole[k].from <= t <=> whole[k].from = t
      BY <1>2, <3>1
    <3>3. \A k \in 1 .. Len(whole) : whole[k].from = t => whole[k].role = "system"
      BY <1>5, <2>3, <3>1
    <3>4. Of(t) = {k \in DOMAIN whole : whole[k].role = "system" /\ whole[k].from <= t}
      BY <2>3
    <3> HIDE DEF Of
    <3> QED
      BY <1>2, <2>1, <3>2, <3>3, <3>4
  <2> QED
    BY <2>2, <2>3
<1>7. ASSUME NEW t \in 1 .. n PROVE LastOf(Of(t)) = IF parts[t] = <<>> THEN {} ELSE {e(t)}
  <2> DEFINE set == {k \in 1 .. Len(whole) : e(t - 1) < k /\ k <= e(t)}
  <2>1. t \in 0 .. n /\ t - 1 \in 0 .. n
    BY <1>1
  <2>2. e(t) \in Nat /\ e(t - 1) \in Nat /\ e(t) <= Len(whole)
    BY <1>2, <1>3, <2>1
  <2>3. e(t) = e(t - 1) + Len(parts[t]) /\ Len(parts[t]) \in Nat /\ (Len(parts[t]) = 0 <=> parts[t] = <<>>)
    BY <1>4
  <2>4. Of(t) = set
    BY <1>6
  <2> HIDE DEF Of
  <2>5. CASE parts[t] = <<>>
    <3>1. set = {}
      BY <1>2, <2>2, <2>3, <2>5
    <3> QED
      BY <2>4, <2>5, <3>1 DEF LastOf
  <2>6. CASE parts[t] # <<>>
    <3>1. e(t) \in set /\ \A k \in set : k <= e(t) /\ k \in Nat
      BY <1>2, <2>2, <2>3, <2>6
    <3> HIDE DEF set
    <3>2. \A k \in set : (\A j \in set : j <= k) <=> k = e(t)
      BY <2>2, <3>1
    <3>3. LastOf(set) = {e(t)}
      BY <3>1, <3>2 DEF LastOf
    <3> QED
      BY <2>4, <2>6, <3>3
  <2> QED
    BY <2>5, <2>6
<1>8. MarkedTurns(marks) \subseteq 1 .. n
  BY DEF MarkedTurns, TurnsInv
<1>9. MessagesMarks(whole, marks) = UNION {LastOf(Of(t)) : t \in MarkedTurns(marks)}
  BY DEF MessagesMarks
<1> HIDE DEF Of, n
<1>10. UNION {LastOf(Of(t)) : t \in MarkedTurns(marks)} = Landing(parts, MarkedTurns(marks))
  <2> DEFINE M == MarkedTurns(marks)
  <2>1. \A t \in M : LastOf(Of(t)) = IF parts[t] = <<>> THEN {} ELSE {e(t)}
    BY <1>7, <1>8
  <2> HIDE DEF M
  <2>2. ASSUME NEW k, k \in UNION {LastOf(Of(t)) : t \in M} PROVE k \in Landing(parts, M)
    <3>1. PICK t \in M : k \in LastOf(Of(t))
      BY <2>2
    <3>2. parts[t] # <<>> /\ k = e(t)
      BY <2>1, <3>1
    <3> QED
      BY <3>2 DEF Landing, e
  <2>3. ASSUME NEW k, k \in Landing(parts, M) PROVE k \in UNION {LastOf(Of(t)) : t \in M}
    <3>1. PICK t \in M : parts[t] # <<>> /\ k = e(t)
      BY <2>3 DEF Landing, e
    <3>2. k \in LastOf(Of(t))
      BY <2>1, <3>1
    <3> QED
      BY <3>2
  <2>4. UNION {LastOf(Of(t)) : t \in M} = Landing(parts, M)
    <3> DEFINE left == UNION {LastOf(Of(t)) : t \in M}
               right == Landing(parts, M)
    <3>1. \A k : k \in left <=> k \in right
      BY <2>2, <2>3
    <3> HIDE DEF left, right
    <3>2. left = right
      BY <3>1
    <3> QED
      BY <3>2 DEF left, right
  <2> QED
    BY <2>4 DEF M
<1> QED
  BY <1>9, <1>10 DEF whole, parts

LEMMA ChatLands ==
  ASSUME TurnsInv, \A t \in 1 .. Len(turns) : ~Blank(turns[t]), NEW marks
  PROVE  ChatMarks(Places("chat", turns), marks) = Landing(PartsOf("chat"), MarkedTurns(marks))
<1> DEFINE parts == PartsOf("chat")
           whole == Places("chat", turns)
           n == Len(turns)
           e(t) == EndOf(parts, t)
           M == MarkedTurns(marks)
           before(t) == SumFunction([k \in 1 .. t - 1 |-> MessagesFor(turns[k])])
<1>0. "chat" \in Shapes
  BY DEF Shapes
<1>1. /\ parts \in Seq(Seq(WirePlaces)) /\ Len(parts) = n /\ n \in Nat /\ Signed(parts)
      /\ whole = FlattenSeq(parts)
      /\ \A t \in 1 .. n : parts[t] = PlacesOf("chat", t, turns[t])
  BY <1>0, PartsArePlaces
<1> HIDE DEF parts, whole
<1>2. \A t \in 1 .. n : MessagesFor(turns[t]) = Len(parts[t])
  <2> SUFFICES ASSUME NEW t \in 1 .. n PROVE MessagesFor(turns[t]) = Len(parts[t])
    OBVIOUS
  <2>1. PICK turn : turn = turns[t]
    OBVIOUS
  <2>2. turn \in Turns
    BY <2>1 DEF TurnsInv
  <2>3. turn.items \in Seq(Items) /\ ~Blank(turn)
    BY <2>1, <2>2 DEF Turns
  <2>4. Len(PlacesOf("chat", t, turn)) = MessagesFor(turn)
    BY <2>3, MessagesAreCounted
  <2> QED
    BY <1>1, <2>1, <2>4
<1>3. /\ \A t \in 0 .. n : e(t) \in Nat /\ e(t) <= e(n)
      /\ \A t \in 1 .. n : e(t) = e(t - 1) + Len(parts[t])
  <2>1. n \in 0 .. n
    BY <1>1
  <2> QED
    BY <1>1, <2>1, EndsRise, EndsAreOrdered
<1>4. \A t \in 1 .. n : Len(parts[t]) \in Nat /\ (Len(parts[t]) = 0 <=> parts[t] = <<>>)
  <2>1. \A t \in 1 .. n : parts[t] \in Seq(WirePlaces)
    BY <1>1
  <2> QED
    BY <2>1, EmptySeq
<1>5. \A t \in 1 .. n : before(t) = e(t - 1)
  <2> SUFFICES ASSUME NEW t \in 1 .. n PROVE before(t) = e(t - 1)
    OBVIOUS
  <2>1. \A k \in 1 .. t - 1 : MessagesFor(turns[k]) = Len(parts[k])
    BY <1>1, <1>2
  <2>2. [k \in 1 .. t - 1 |-> MessagesFor(turns[k])] = [k \in 1 .. t - 1 |-> Len(parts[k])]
    BY <2>1
  <2> QED
    BY <2>2 DEF EndOf
<1>6. DOMAIN whole = 1 .. e(n)
  <2>1. FlattenSeq(parts) \in Seq(WirePlaces) /\ Len(FlattenSeq(parts)) = e(n)
    BY <1>1, PartsLieInOrder
  <2>2. whole \in Seq(WirePlaces) /\ Len(whole) = e(n)
    BY <1>1, <2>1
  <2> HIDE DEF e
  <2> QED
    BY <2>2
<1>7. M \subseteq 1 .. n
  BY DEF MarkedTurns, TurnsInv
<1>8. ChatMarks(whole, marks) =
        {before(t) + MessagesFor(turns[t]) : t \in {u \in M : MessagesFor(turns[u]) # 0}}
          \cap DOMAIN whole
  BY DEF ChatMarks
<1> HIDE DEF e, before, M, n
<1>9. \A t \in M : /\ MessagesFor(turns[t]) # 0 <=> parts[t] # <<>>
                   /\ before(t) + MessagesFor(turns[t]) = e(t)
                   /\ parts[t] # <<>> => e(t) \in 1 .. e(n)
  <2> SUFFICES ASSUME NEW t \in M
               PROVE  /\ MessagesFor(turns[t]) # 0 <=> parts[t] # <<>>
                      /\ before(t) + MessagesFor(turns[t]) = e(t)
                      /\ parts[t] # <<>> => e(t) \in 1 .. e(n)
    OBVIOUS
  <2>1. t \in 1 .. n /\ t \in 0 .. n /\ t - 1 \in 0 .. n /\ n \in 0 .. n
    BY <1>1, <1>7
  <2>2. MessagesFor(turns[t]) = Len(parts[t]) /\ before(t) = e(t - 1) /\ e(t) = e(t - 1) + Len(parts[t])
    BY <1>2, <1>3, <1>5, <2>1
  <2>3. Len(parts[t]) \in Nat /\ (Len(parts[t]) = 0 <=> parts[t] = <<>>)
    BY <1>4, <2>1
  <2>4. e(t) \in Nat /\ e(t) <= e(n) /\ e(t - 1) \in Nat /\ e(n) \in Nat
    BY <1>3, <2>1
  <2> QED
    BY <2>2, <2>3, <2>4
<1>10. ChatMarks(whole, marks) = Landing(parts, M)
  <2> DEFINE left == ChatMarks(whole, marks)
             right == Landing(parts, M)
  <2>1. ASSUME NEW k, k \in left PROVE k \in right
    <3>1. PICK t \in M : MessagesFor(turns[t]) # 0 /\ k = before(t) + MessagesFor(turns[t])
      BY <1>8, <2>1
    <3>2. parts[t] # <<>> /\ k = e(t)
      BY <1>9, <3>1
    <3> QED
      BY <3>2 DEF Landing, e
  <2>2. ASSUME NEW k, k \in right PROVE k \in left
    <3>1. PICK t \in M : parts[t] # <<>> /\ k = e(t)
      BY <2>2 DEF Landing, e
    <3>2. MessagesFor(turns[t]) # 0 /\ k = before(t) + MessagesFor(turns[t]) /\ k \in DOMAIN whole
      BY <1>6, <1>9, <3>1
    <3> QED
      BY <1>8, <3>2
  <2>3. \A k : k \in left <=> k \in right
    BY <2>1, <2>2
  <2> HIDE DEF left, right
  <2>4. left = right
    BY <2>3
  <2> QED
    BY <2>4 DEF left, right
<1> QED
  BY <1>10 DEF whole, parts, M

\* There are never more breakpoints than were planned.
LEMMA LandingIsSmall ==
  ASSUME TurnsInv, toolBlock \in {"none", "eager", "deferred"}, NEW marks \in SUBSET Segment,
         NEW parts, NEW d
  PROVE  Cardinality(Landing(parts, MarkedTurns(marks))) + (IF ToolsMarked(d, marks) THEN 1 ELSE 0)
           <= Cardinality(marks)
<1> DEFINE landed == Landing(parts, MarkedTurns(marks))
           turnOf(m) == IF HasTools THEN m ELSE m + 1
           rest == IF ToolsMarked(d, marks) THEN marks \ {0} ELSE marks
           used == {m \in rest : turnOf(m) \in MarkedTurns(marks) /\ parts[turnOf(m)] # <<>>}
           f == [m \in used |-> EndOf(parts, turnOf(m))]
<1>1. marks \in SUBSET Int /\ IsFiniteSet(marks)
  <2>1. Len(turns) \in Nat
    BY DEF TurnsInv
  <2>2. Segment \subseteq Int /\ IsFiniteSet(Segment)
    <3>1. PICK last \in Int : Segment = 0 .. last
      <4>1. Len(turns) - (IF HasTools THEN 0 ELSE 1) \in Int
        BY <2>1
      <4> QED
        BY <4>1 DEF Segment
    <3> QED
      BY <3>1, FS_Interval
  <2> QED
    BY <2>2, FS_Subset
<1>2. /\ IsFiniteSet(rest) /\ Cardinality(rest) \in Nat
      /\ Cardinality(rest) + (IF ToolsMarked(d, marks) THEN 1 ELSE 0) = Cardinality(marks)
  <2>1. Cardinality(marks) \in Nat
    BY <1>1, FS_CardinalityType
  <2>2. CASE ToolsMarked(d, marks)
    <3>1. 0 \in marks
      BY <2>2 DEF ToolsMarked, MarksTools
    <3>2. IsFiniteSet(marks \ {0}) /\ Cardinality(marks \ {0}) = Cardinality(marks) - 1
      BY <1>1, <3>1, FS_RemoveElement
    <3>3. Cardinality(marks \ {0}) \in Nat
      BY <3>2, FS_CardinalityType
    <3> QED
      BY <2>1, <2>2, <3>2, <3>3
  <2>3. CASE ~ToolsMarked(d, marks)
    BY <1>1, <2>1, <2>3
  <2> QED
    BY <2>2, <2>3
<1>3. ASSUME NEW t \in MarkedTurns(marks) PROVE \E m \in rest : turnOf(m) = t
  <2>1. t \in DOMAIN turns /\ \E mark \in marks : mark = IF HasTools THEN t ELSE t - 1
    BY DEF MarkedTurns
  <2>2. t \in Nat /\ t # 0
    BY <2>1 DEF TurnsInv
  <2>3. CASE HasTools
    <3>1. t \in marks /\ t \in rest
      BY <2>1, <2>2, <2>3
    <3> QED
      BY <2>3, <3>1
  <2>4. CASE ~HasTools
    <3>1. ~ToolsMarked(d, marks)
      BY <2>4 DEF ToolsMarked, MarksTools
    <3>2. t - 1 \in rest /\ (t - 1) + 1 = t
      BY <2>1, <2>2, <2>4, <3>1
    <3> QED
      BY <2>4, <3>2
  <2> QED
    BY <2>3, <2>4
<1>4. IsFiniteSet(used) /\ Cardinality(used) <= Cardinality(rest)
  <2>1. used \in SUBSET rest
    OBVIOUS
  <2> HIDE DEF used, rest
  <2> QED
    BY <1>2, <2>1, FS_Subset
<1>5. f \in Surjection(used, landed)
  <2>1. \A m \in used : f[m] \in landed
    BY DEF Landing
  <2>2. \A k \in landed : \E m \in used : f[m] = k
    <3> SUFFICES ASSUME NEW k \in landed PROVE \E m \in used : f[m] = k
      OBVIOUS
    <3>1. PICK t \in MarkedTurns(marks) : parts[t] # <<>> /\ k = EndOf(parts, t)
      BY DEF Landing
    <3>2. PICK m \in rest : turnOf(m) = t
      BY <1>3
    <3> HIDE DEF rest, turnOf
    <3>3. m \in used
      BY <3>1, <3>2
    <3>4. f[m] = EndOf(parts, turnOf(m))
      BY <3>3
    <3> QED
      BY <3>1, <3>2, <3>3, <3>4
  <2>3. DOMAIN f = used
    OBVIOUS
  <2>4. f = [m \in used |-> f[m]]
    OBVIOUS
  <2> HIDE DEF f, used, landed
  <2> QED
    BY <2>1, <2>2, <2>3, <2>4 DEF Surjection
<1> HIDE DEF f, used, landed, rest
<1>6. IsFiniteSet(landed) /\ Cardinality(landed) <= Cardinality(used)
  BY <1>4, <1>5, FS_Surjection
<1>7. Cardinality(landed) \in Nat /\ Cardinality(used) \in Nat
  BY <1>4, <1>6, FS_CardinalityType
<1> QED
  BY <1>2, <1>4, <1>6, <1>7 DEF landed

\* A request that is of the turns that there are keeps its word.
LEMMA SentKeepsItsWord ==
  ASSUME WireInv, sent # NotSent
  PROVE  RequestKeepsItsWord
<1> DEFINE shape == Shape(sent.dialect)
           parts == PartsOf(shape)
           n == Len(turns)
           planned == MarkedTurns(sent.marks)
<1>1. /\ sent.dialect \in Dialects /\ sent.turns = n
      /\ sent.places = Places(shape, turns)
      /\ sent.marks \in SUBSET Segment
      /\ sent.realised = Realised(sent.dialect, sent.places, sent.marks)
      /\ sent.toolsMarked = ToolsMarked(sent.dialect, sent.marks)
      /\ TurnsInv /\ toolBlock \in {"none", "eager", "deferred"}
  BY DEF WireInv, SentInv
<1>2. shape \in Shapes
  BY <1>1, DialectsHaveShapes
<1> HIDE DEF shape
<1>3. /\ parts \in Seq(Seq(WirePlaces)) /\ Len(parts) = n /\ n \in Nat /\ Signed(parts)
      /\ \A t \in 1 .. n : parts[t] = PlacesOf(shape, t, turns[t])
      /\ sent.places = FlattenSeq(parts)
  BY <1>1, <1>2, PartsArePlaces
<1> HIDE DEF parts
<1>4. sent.places \in Seq(WirePlaces)
  BY <1>3, FlattenType
<1>5. \A t \in 1 .. n : PlacesFrom(t) = parts[t]
  <2> SUFFICES ASSUME NEW t \in 1 .. n PROVE PlacesFrom(t) = parts[t]
    OBVIOUS
  <2> DEFINE all == Range(sent.places)
             near == {p \in all : p.from = t}
             far == {p \in WirePlaces : p.from = t}
  <2>1. sent.places \in Seq(all) /\ all \subseteq WirePlaces
    <3> HIDE DEF WirePlaces
    <3> QED
      BY <1>4 DEF Range
  <2>2. \A p \in all : p \in near <=> p \in far
    <3> HIDE DEF WirePlaces
    <3> QED
      BY <2>1
  <2>3. OnlyIn(FlattenSeq(parts), far) = parts[t]
    BY <1>3, PartIsFound
  <2>4. PlacesFrom(t) = OnlyIn(sent.places, near)
    BY DEF PlacesFrom
  <2> HIDE DEF all, near, far
  <2>5. OnlyIn(sent.places, near) = OnlyIn(sent.places, far)
    BY <2>1, <2>2, OnlyInAgrees
  <2> QED
    BY <1>3, <2>3, <2>4, <2>5
<1>6. ASSUME NEW t \in 1 .. n, turns[t].said.by # "nobody",
             ProviderOf(turns[t].said.by) = ProviderOf(sent.dialect)
      PROVE  LET due == Due(shape, turns[t].said.blocks) IN
             /\ Len(BlocksFrom(t)) = Len(due)
             /\ \A k \in DOMAIN BlocksFrom(t) :
                  Readable(shape, due[k]) => BlocksFrom(t)[k] = due[k]
  <2>1. PICK turn : turn = turns[t]
    OBVIOUS
  <2>2. turn \in Turns /\ Heard(turn)
    BY <1>1, <2>1 DEF TurnsInv
  <2> DEFINE by == turn.said.by
             said == turn.said.blocks
  <2>3. by \in Dialects /\ by # "nobody" /\ ProviderOf(by) = ProviderOf(sent.dialect)
    BY <1>6, <2>1, <2>2 DEF Turns
  <2>4. turn.role # "system" /\ said \in Replies[Shape(by)] /\ turn.items = Decode(by, said)
    BY <2>2, <2>3 DEF Heard
  <2>5. Shape(by) = shape
    BY <1>1, <2>3, ProvidersHaveOneShape DEF shape
  <2>6. BlocksFrom(t) = BlocksIn(PlacesOf(shape, t, turn))
    BY <1>3, <1>5, <2>1 DEF BlocksFrom, BlocksIn
  <2>7. KeepsTheWord(shape, BlocksIn(PlacesOf(shape, t, turn)), said)
    <3>1. t \in Nat
      BY <1>3
    <3>2. CASE shape = "chat"
      <4>1. said \in Replies["chat"] /\ Shape(by) = "chat"
        BY <2>4, <2>5, <3>2
      <4> HIDE DEF by, said
      <4> QED
        BY <2>3, <2>4, <3>1, <3>2, <4>1, ChatTurnsComeBack
    <3>3. CASE shape # "chat"
      <4>1. said \in Seq(Blocks)
        BY <1>2, <2>4, <2>5, WireAssumption DEF Shapes, BlockShapes
      <4>2. Shape(by) # "chat"
        BY <2>5, <3>3
      <4> HIDE DEF by, said
      <4>3. KeepsTheWord(Shape(by), BlocksIn(PlacesOf(Shape(by), t, turn)), said)
        BY <2>3, <2>4, <3>1, <4>1, <4>2, BlockTurnsComeBack
      <4> QED
        BY <2>5, <4>3
    <3> QED
      BY <3>2, <3>3
  <2> QED
    BY <2>1, <2>6, <2>7 DEF KeepsTheWord
<1>7. ASSUME MaxBreakpoints(sent.dialect) > 0, ~Misled
      PROVE  sent.realised = Landing(parts, planned)
  <2>1. sent.dialect \in {"anthropic", "openrouter+explicit"}
    BY <1>7 DEF MaxBreakpoints
  <2>2. CASE sent.dialect = "anthropic"
    <3>1. shape = "messages"
      BY <2>2 DEF shape, Shape
    <3>2. sent.realised = MessagesMarks(sent.places, sent.marks)
      BY <1>1, <2>2 DEF Realised
    <3>3. PICK marks : marks = sent.marks
      OBVIOUS
    <3>4. MessagesMarks(Places("messages", turns), marks)
            = Landing(PartsOf("messages"), MarkedTurns(marks))
      BY <1>1, MessagesLand
    <3> QED
      BY <1>1, <3>1, <3>2, <3>3, <3>4 DEF parts
  <2>3. CASE sent.dialect = "openrouter+explicit"
    <3>1. shape = "chat"
      BY <2>3 DEF shape, Shape
    <3>2. sent.realised = ChatMarks(sent.places, sent.marks)
      BY <1>1, <2>3 DEF Realised
    <3>3. \A t \in 1 .. Len(turns) : ~Blank(turns[t])
      BY <1>1, <1>7, <3>1 DEF Misled, shape
    <3>4. PICK marks : marks = sent.marks
      OBVIOUS
    <3>5. ChatMarks(Places("chat", turns), marks) = Landing(PartsOf("chat"), MarkedTurns(marks))
      BY <1>1, <3>3, ChatLands
    <3> QED
      BY <1>1, <3>1, <3>2, <3>4, <3>5 DEF parts
  <2> QED
    BY <2>1, <2>2, <2>3
<1>8. planned \in SUBSET (1 .. Len(parts))
  BY <1>1, <1>3 DEF MarkedTurns, TurnsInv
<1>9. ASSUME MaxBreakpoints(sent.dialect) > 0, ~Misled
      PROVE  /\ \A k \in sent.realised : sent.places[k].from \in planned
             /\ \A t \in planned : PlacesFrom(t) # <<>> =>
                  \E k \in {i \in sent.realised : sent.places[i].from = t} :
                    \A j \in DOMAIN sent.places : sent.places[j].from = t => j <= k
             /\ Cardinality(sent.realised) + (IF sent.toolsMarked THEN 1 ELSE 0)
                  <= Cardinality(sent.marks)
             /\ sent.toolsMarked => toolBlock = "eager"
  <2> DEFINE landed == Landing(parts, planned)
             whole == FlattenSeq(parts)
  <2>1. sent.realised = landed
    BY <1>7, <1>9
  <2>2. /\ \A k \in landed : k \in 1 .. Len(whole) /\ whole[k].from \in planned
        /\ \A t \in planned : parts[t] # <<>> =>
             \E k \in landed : /\ whole[k].from = t
                               /\ \A j \in 1 .. Len(whole) : whole[j].from = t => j <= k
    <3> HIDE DEF planned
    <3> QED
      BY <1>3, <1>8, LandingIsRight
  <2>3. Cardinality(landed) + (IF ToolsMarked(sent.dialect, sent.marks) THEN 1 ELSE 0)
          <= Cardinality(sent.marks)
    <3>1. PICK marks, d : marks = sent.marks /\ d = sent.dialect
      OBVIOUS
    <3>2. marks \in SUBSET Segment
      BY <1>1, <3>1
    <3>3. Cardinality(Landing(parts, MarkedTurns(marks))) + (IF ToolsMarked(d, marks) THEN 1 ELSE 0)
            <= Cardinality(marks)
      BY <1>1, <3>2, LandingIsSmall
    <3> QED
      BY <3>1, <3>3
  <2>4. sent.toolsMarked => toolBlock = "eager"
    BY <1>1 DEF ToolsMarked, MarksTools, HasTools
  <2>5. DOMAIN sent.places = 1 .. Len(sent.places)
    BY <1>4
  <2>6. \A t \in planned : PlacesFrom(t) = parts[t]
    BY <1>3, <1>5, <1>8
  <2> HIDE DEF landed, planned
  <2>7. whole = sent.places
    BY <1>3
  <2> HIDE DEF whole
  <2> QED
    BY <1>1, <2>1, <2>2, <2>3, <2>4, <2>5, <2>6, <2>7
<1> QED
  BY <1>1, <1>6, <1>9 DEF RequestKeepsItsWord, shape

LEMMA InvariantKeepsItsWord ==
  ASSUME WireInv
  PROVE  RequestSaysWhatWasMeant
<1>1. StopSaysHowItEnded
  BY DEF WireInv
<1>2. CASE sent = NotSent
  <2>1. sent.turns = 0
    BY <1>2 DEF NotSent
  <2>2. RequestKeepsItsWord
    BY <1>2, <2>1 DEF RequestKeepsItsWord
  <2> QED
    BY <1>1, <2>2 DEF RequestSaysWhatWasMeant
<1>3. CASE sent # NotSent
  BY <1>1, <1>3, SentKeepsItsWord DEF RequestSaysWhatWasMeant
<1> QED
  BY <1>2, <1>3

--------------------------------------------------------------------------------
(* The invariant holds.                                                    *)

LEMMA TurnsAreTurns ==
  ASSUME NEW role \in Roles, NEW items \in Seq(Items), NEW by \in Dialects \cup {"nobody"},
         NEW blocks \in Seq(Blocks)
  PROVE  Turn(role, items, [by |-> by, blocks |-> blocks]) \in Turns
BY DEF Turn, Turns

LEMMA UnsaidIsHeard ==
  ASSUME NEW role \in Roles, NEW items \in Seq(Items)
  PROVE  Turn(role, items, Unsaid) \in Turns /\ Heard(Turn(role, items, Unsaid))
<1>1. "nobody" \in Dialects \cup {"nobody"} /\ <<>> \in Seq(Blocks)
  BY EmptySeq
<1>2. Turn(role, items, [by |-> "nobody", blocks |-> <<>>]) \in Turns
  BY <1>1, TurnsAreTurns
<1> QED
  BY <1>2 DEF Unsaid, Heard, Turn

LEMMA OneItem ==
  ASSUME NEW data \in Texts
  PROVE  <<Item("Text", "none", data, NoCarry)>> \in Seq(Items)
<1>1. "Text" \in Kinds /\ "none" \in Texts
  BY DEF Kinds, Texts
<1>2. Item("Text", "none", data, NoCarry) \in Items
  BY <1>1, ItemsAreItems
<1> HIDE DEF Items
<1> QED
  BY <1>2

LEMMA WireStarts == WireInit => WireInv
<1> SUFFICES ASSUME WireInit PROVE WireInv
  OBVIOUS
<1>1. "words" \in Texts /\ "system" \in Roles
  BY DEF Texts, Roles
<1>2. PICK items : items = <<Item("Text", "none", "words", NoCarry)>>
  OBVIOUS
<1>3. items \in Seq(Items)
  BY <1>1, <1>2, OneItem
<1>4. SystemTurn \in Turns /\ Heard(SystemTurn)
  BY <1>1, <1>2, <1>3, UnsaidIsHeard DEF SystemTurn
<1>5. turns = <<SystemTurn>>
  BY DEF WireInit
<1> HIDE DEF Turns, SystemTurn, Heard
<1>6. TurnsInv
  BY <1>4, <1>5 DEF TurnsInv
<1>7. SentInv /\ StopSaysHowItEnded
  BY DEF WireInit, SentInv, StopSaysHowItEnded
<1> QED
  BY <1>6, <1>7 DEF WireInit, WireInv

\* One more turn, and no request yet.
LEMMA TurnJoins ==
  ASSUME WireInv, NEW turn \in Turns, Heard(turn), turn.role # "system", Joins(turn)
  PROVE  /\ dialect' \in Dialects /\ toolBlock' \in {"none", "eager", "deferred"}
         /\ TurnsInv' /\ SentInv'
<1>1. turns \in Seq(Turns) /\ turns # <<>>
      /\ \A t \in 1 .. Len(turns) : Heard(turns[t]) /\ (turns[t].role = "system" => t = 1)
  BY DEF WireInv, TurnsInv
<1>2. turns' = Append(turns, turn)
  BY DEF Joins
<1> DEFINE n == Len(turns)
           more == Append(turns, turn)
<1>3. /\ more \in Seq(Turns) /\ more # <<>> /\ n \in Nat /\ Len(more) = n + 1
      /\ more[n + 1] = turn /\ \A t \in 1 .. n : more[t] = turns[t]
  BY <1>1, AppendProperties
<1> HIDE DEF more
<1>4. \A t \in 1 .. n + 1 : Heard(more[t]) /\ (more[t].role = "system" => t = 1)
  <2>1. \A t \in 1 .. n + 1 : t \in 1 .. n \/ t = n + 1
    BY <1>3
  <2> HIDE DEF n
  <2> QED
    BY <1>1, <1>3, <2>1 DEF n
<1>5. turns' = more
  BY <1>2 DEF more
<1>6. TurnsInv'
  BY <1>3, <1>4, <1>5 DEF TurnsInv, Heard
<1>7. SentInv'
  BY DEF Joins, SentInv
<1> QED
  BY <1>6, <1>7 DEF Joins, WireInv

LEMMA UserSaysSafely ==
  ASSUME WireInv, NEW word \in Words, UserSays(word)
  PROVE  WireInv'
<1>1. word \in Texts /\ "user" \in Roles
  BY WireAssumption DEF Texts, Roles
<1>2. PICK items : items = <<Item("Text", "none", word, NoCarry)>>
  OBVIOUS
<1>3. items \in Seq(Items)
  BY <1>1, <1>2, OneItem
<1>4. PICK turn : turn = Turn("user", items, Unsaid)
  OBVIOUS
<1>5. turn \in Turns /\ Heard(turn)
  BY <1>1, <1>3, <1>4, UnsaidIsHeard
<1>6. turn.role # "system"
  BY <1>4 DEF Turn
<1>7. Joins(turn) /\ stopped' = NotStopped
  BY <1>2, <1>4 DEF UserSays, JoinsAfter
<1>8. StopSaysHowItEnded'
  BY <1>7 DEF StopSaysHowItEnded
<1> QED
  BY <1>5, <1>6, <1>7, <1>8, TurnJoins DEF WireInv

LEMMA ToolsReturnSafely ==
  ASSUME WireInv, NEW word \in Words, ToolsReturn(word)
  PROVE  WireInv'
<1>1. word \in Texts /\ "user" \in Roles /\ "ToolResult" \in Kinds
  BY WireAssumption DEF Texts, Roles, Kinds
<1>2. PICK calls : calls = Calls(Last(turns).items)
  OBVIOUS
<1>3. calls \in Seq(Items)
  <2>1. Last(turns).items \in Seq(Items)
    <3>1. turns \in Seq(Turns) /\ Len(turns) \in 1 .. Len(turns)
      BY EmptySeq DEF WireInv, TurnsInv
    <3>2. Last(turns) \in Turns
      BY <3>1 DEF Last
    <3> QED
      BY <3>2 DEF Turns
  <2>2. PICK all \in Seq(Items) : all = Last(turns).items
    BY <2>1
  <2>3. \A set : OnlyIn(all, set) \in Seq(Items \cap set)
    BY OnlyInType
  <2>4. \A set : \A m \in Seq(Items \cap set) : m \in Seq(Items)
    OBVIOUS
  <2> QED
    BY <1>2, <2>2, <2>3, <2>4 DEF Calls, OfKinds
<1> DEFINE R(k) == Item("ToolResult", calls[k].id, word, NoCarry)
           items == [k \in DOMAIN calls |-> R(k)]
<1>4. items \in Seq(Items)
  <2>1. \A k \in 1 .. Len(calls) : R(k) \in Items
    <3> SUFFICES ASSUME NEW k \in 1 .. Len(calls) PROVE R(k) \in Items
      OBVIOUS
    <3>1. calls[k] \in Items
      BY <1>3
    <3>2. calls[k].id \in Texts
      BY <3>1 DEF Items
    <3> QED
      BY <1>1, <3>2, ItemsAreItems
  <2> HIDE DEF R, Items
  <2> QED
    BY <1>3, <2>1
<1>5. PICK turn : turn = Turn("user", items, Unsaid)
  OBVIOUS
<1>6. Joins(turn) /\ stopped' = NotStopped
  BY <1>2, <1>5 DEF ToolsReturn, JoinsAfter
<1> HIDE DEF items
<1>7. turn \in Turns /\ Heard(turn)
  BY <1>1, <1>4, <1>5, UnsaidIsHeard
<1>8. turn.role # "system"
  BY <1>5 DEF Turn
<1>9. StopSaysHowItEnded'
  BY <1>6 DEF StopSaysHowItEnded
<1> QED
  BY <1>6, <1>7, <1>8, <1>9, TurnJoins DEF WireInv

\* However a reply ends, what is made of it tells.
LEMMA EndingsAreTold ==
  ASSUME NEW d \in Dialects, NEW ending \in Endings, NEW items,
         ending = "asked" => Calls(items) # <<>>,
         ending \in {"ended", "matched", "refused"} => Calls(items) = <<>>,
         NEW stop, stop = DecodeStop(Shape(d), WordFor(Shape(d), ending), items)
  PROVE  /\ (ending = "cut") <=> ~RunIsComplete(stop)
         /\ ending = "asked" => WantsTools(stop)
         /\ WantsTools(stop) => Calls(items) # <<>>
         /\ ending \in {"strange", "refused"} /\ stop = "EndTurn" =>
              ending = "refused" /\ Shape(d) = "responses"
<1>1. PICK calls \in BOOLEAN : calls = (Calls(items) # <<>>)
  OBVIOUS
<1>2. Shape(d) \in {"messages", "responses", "chat"}
  BY DialectsHaveShapes DEF Shapes, BlockShapes
<1>3. CASE Shape(d) = "messages"
  <2>1. stop = MessagesStop(WordFor("messages", ending))
    BY <1>3 DEF DecodeStop
  <2>2. CASE ending \in {"strange", "unsaid"}
    BY <1>3, <2>1, <2>2 DEF WordFor, MessagesStop, RunIsComplete, IsTruncated, WantsTools
  <2>3. CASE ending \notin {"strange", "unsaid"}
    BY <1>3, <2>1, <2>3 DEF Endings, WordFor, MessagesStop, RunIsComplete, IsTruncated, WantsTools
  <2> QED
    BY <2>2, <2>3
<1>4. CASE Shape(d) = "responses"
  <2>1. stop = ResponsesStop(WordFor("responses", ending), calls)
    BY <1>1, <1>4 DEF DecodeStop
  <2>2. CASE ending \in {"strange", "unsaid"}
    BY <1>1, <1>4, <2>1, <2>2 DEF WordFor, ResponsesStop, RunIsComplete, IsTruncated, WantsTools
  <2>3. CASE ending \notin {"strange", "unsaid"}
    BY <1>1, <1>4, <2>1, <2>3 DEF Endings, WordFor, ResponsesStop, RunIsComplete, IsTruncated, WantsTools
  <2> QED
    BY <2>2, <2>3
<1>5. CASE Shape(d) = "chat"
  <2>1. stop = ChatFinish(WordFor("chat", ending))
    BY <1>5 DEF DecodeStop
  <2>2. CASE ending \in {"strange", "unsaid"}
    BY <1>5, <2>1, <2>2 DEF WordFor, ChatFinish, RunIsComplete, IsTruncated, WantsTools
  <2>3. CASE ending \notin {"strange", "unsaid"}
    BY <1>5, <2>1, <2>3 DEF Endings, WordFor, ChatFinish, RunIsComplete, IsTruncated, WantsTools
  <2> QED
    BY <2>2, <2>3
<1> QED
  BY <1>2, <1>3, <1>4, <1>5

LEMMA ProviderSaysSafely ==
  ASSUME WireInv, NEW blocks \in Replies[Shape(dialect)], NEW ending \in Endings,
         ProviderSays(blocks, ending)
  PROVE  WireInv'
<1>1. PICK d \in Dialects : d = dialect
  BY DEF WireInv
<1>2. PICK items : items = Decode(d, blocks)
  OBVIOUS
<1>3. Shape(d) \in Shapes /\ blocks \in Replies[Shape(d)]
  BY <1>1, DialectsHaveShapes
<1>4. blocks \in Seq(Blocks)
  BY <1>3, WireAssumption DEF Shapes, BlockShapes
<1>5. items \in Seq(Items)
  <2>1. PICK any : any = [items |-> items, role |-> "assistant"]
    OBVIOUS
  <2>2. any.items = Decode(d, blocks) /\ any.role # "system"
    BY <1>2, <2>1
  <2>3. CASE Shape(d) = "chat"
    <3>1. any.items \in Seq(Items)
      BY <1>3, <2>2, <2>3, 0 \in Nat, ChatTurnsComeBack
    <3> QED
      BY <1>2, <2>2, <3>1
  <2>4. CASE Shape(d) # "chat"
    <3>1. any.items \in Seq(Items)
      BY <1>4, <2>2, <2>4, 0 \in Nat, BlockTurnsComeBack
    <3> QED
      BY <1>2, <2>2, <3>1
  <2> QED
    BY <2>3, <2>4
<1>6. PICK turn : turn = Turn("assistant", items, [by |-> d, blocks |-> blocks])
  OBVIOUS
<1>7. turn \in Turns
  BY <1>4, <1>5, <1>6, TurnsAreTurns DEF Roles
<1>8. Heard(turn) /\ turn.role # "system"
  BY <1>2, <1>3, <1>6 DEF Heard, Turn
<1> DEFINE stop == DecodeStop(Shape(d), WordFor(Shape(d), ending), items)
           calls == Calls(items) # <<>>
<1>9. /\ Joins(turn)
      /\ ending = "asked" => calls
      /\ ending \in {"ended", "matched", "refused"} => ~calls
      /\ stopped' = [by |-> d, ending |-> ending, calls |-> calls, stop |-> stop]
  BY <1>1, <1>2, <1>6 DEF ProviderSays
<1>10. /\ (ending = "cut") <=> ~RunIsComplete(stop)
       /\ ending = "asked" => WantsTools(stop)
       /\ WantsTools(stop) => calls
       /\ ending \in {"strange", "refused"} /\ stop = "EndTurn" =>
            ending = "refused" /\ Shape(d) = "responses"
  <2> HIDE DEF stop
  <2>1. stop = DecodeStop(Shape(d), WordFor(Shape(d), ending), items)
    BY DEF stop
  <2> QED
    BY <1>9, <2>1, EndingsAreTold
<1> HIDE DEF stop, calls
<1>11. StopSaysHowItEnded'
  <2>1. stopped'.ending = ending /\ stopped'.stop = stop /\ stopped'.calls = calls /\ stopped'.by = d
    BY <1>9
  <2> QED
    BY <1>10, <2>1 DEF StopSaysHowItEnded
<1> QED
  BY <1>7, <1>8, <1>9, <1>11, TurnJoins DEF WireInv

\* What a request becomes depends on the turns and on the tools it is of.
LEMMA RealisedStays ==
  ASSUME turns' = turns, toolBlock' = toolBlock, NEW d, NEW places, NEW marks
  PROVE  /\ Realised(d, places, marks)' = Realised(d, places, marks)
         /\ ToolsMarked(d, marks)' = ToolsMarked(d, marks)
         /\ Segment' = Segment
<1>1. HasTools' = HasTools
  BY DEF HasTools
<1>2. MarkedTurns(marks)' = MarkedTurns(marks)
  BY <1>1 DEF MarkedTurns
<1>3. MessagesMarks(places, marks)' = MessagesMarks(places, marks)
  BY <1>2 DEF MessagesMarks
<1>4. ChatMarks(places, marks)' = ChatMarks(places, marks)
  BY <1>2 DEF ChatMarks
<1>5. ToolsMarked(d, marks)' = ToolsMarked(d, marks)
  BY <1>1 DEF ToolsMarked, MarksTools
<1>6. Segment' = Segment
  BY <1>1 DEF Segment
<1> QED
  BY <1>3, <1>4, <1>5, <1>6 DEF Realised

LEMMA EncodeSafely ==
  ASSUME WireInv, NEW marks \in SUBSET Segment, Encode(marks)
  PROVE  WireInv'
<1>1. dialect' = dialect /\ toolBlock' = toolBlock /\ turns' = turns /\ stopped' = stopped
  BY DEF Encode
<1>2. TurnsInv'
  BY <1>1 DEF WireInv, TurnsInv, Heard
<1>3. StopSaysHowItEnded'
  BY <1>1 DEF WireInv, StopSaysHowItEnded
<1>4. PICK places : places = Places(Shape(dialect), turns)
  OBVIOUS
<1>5. /\ sent'.dialect = dialect /\ sent'.turns = Len(turns) /\ sent'.marks = marks
      /\ sent'.places = places /\ sent'.realised = Realised(dialect, places, marks)
      /\ sent'.toolsMarked = ToolsMarked(dialect, marks)
  BY <1>4 DEF Encode
<1>6. PICK d \in Dialects : d = dialect
  BY DEF WireInv
<1>7. /\ Realised(d, places, marks)' = Realised(d, places, marks)
      /\ ToolsMarked(d, marks)' = ToolsMarked(d, marks)
      /\ Segment' = Segment
  BY <1>1, RealisedStays
<1>8. SentInv'
  <2>1. sent'.dialect \in Dialects /\ sent'.turns = Len(turns')
        /\ sent'.places = Places(Shape(sent'.dialect), turns') /\ sent'.marks \in SUBSET Segment'
    BY <1>1, <1>4, <1>5, <1>6, <1>7
  <2>2. /\ sent'.realised = Realised(sent.dialect, sent.places, sent.marks)'
        /\ sent'.toolsMarked = ToolsMarked(sent.dialect, sent.marks)'
    BY <1>5, <1>6, <1>7
  <2> QED
    BY <2>1, <2>2 DEF SentInv
<1> QED
  BY <1>1, <1>2, <1>3, <1>8 DEF WireInv

LEMMA WireIdles ==
  ASSUME WireInv, UNCHANGED <<toolBlock, turns, stopped>>, UNCHANGED sent, dialect' \in Dialects
  PROVE  WireInv'
<1>1. TurnsInv'
  BY DEF WireInv, TurnsInv, Heard
<1>2. StopSaysHowItEnded'
  BY DEF WireInv, StopSaysHowItEnded
<1>3. SentInv'
  <2>1. CASE sent = NotSent
    BY <2>1 DEF SentInv
  <2>2. CASE sent # NotSent
    <3>1. PICK d, places, marks : d = sent.dialect /\ places = sent.places /\ marks = sent.marks
      OBVIOUS
    <3>2. /\ Realised(d, places, marks)' = Realised(d, places, marks)
          /\ ToolsMarked(d, marks)' = ToolsMarked(d, marks)
          /\ Segment' = Segment
      BY RealisedStays
    <3>3. /\ Realised(sent.dialect, sent.places, sent.marks)' = Realised(sent.dialect, sent.places, sent.marks)
          /\ ToolsMarked(sent.dialect, sent.marks)' = ToolsMarked(sent.dialect, sent.marks)
      BY <3>1, <3>2
    <3> QED
      BY <2>2, <3>2, <3>3 DEF WireInv, SentInv
  <2> QED
    BY <2>1, <2>2
<1> QED
  BY <1>1, <1>2, <1>3 DEF WireInv

LEMMA WireStepsSafely ==
  ASSUME WireInv, [WireNext]_wireVars
  PROVE  WireInv'
<1>1. ASSUME NEW word \in Words, UserSays(word) PROVE WireInv'
  BY <1>1, UserSaysSafely
<1>2. ASSUME NEW word \in Words, ToolsReturn(word) PROVE WireInv'
  BY <1>2, ToolsReturnSafely
<1>3. ASSUME NEW blocks \in Replies[Shape(dialect)], NEW ending \in Endings,
             ProviderSays(blocks, ending)
      PROVE  WireInv'
  BY <1>3, ProviderSaysSafely
<1>4. ASSUME NEW marks \in SUBSET Segment, Encode(marks) PROVE WireInv'
  BY <1>4, EncodeSafely
<1>5. ASSUME NEW d \in Dialects, Switch(d) PROVE WireInv'
  BY <1>5, WireIdles DEF Switch
<1>6. CASE UNCHANGED wireVars
  BY <1>6, WireIdles DEF WireInv, wireVars
<1> QED
  BY <1>1, <1>2, <1>3, <1>4, <1>5, <1>6 DEF WireNext

\* What goes out says what was meant, through whichever dialects a conversation went: what
\* a provider said goes back to it block for block and in its order, every breakpoint is
\* on the last place of the turn it was planned for and there are no more of them than
\* were planned; and how a reply ended is told.
THEOREM RequestsAreTrue == WireSpec => []RequestSaysWhatWasMeant
<1>1. WireInit => WireInv
  BY WireStarts
<1>2. WireInv /\ [WireNext]_wireVars => WireInv'
  BY WireStepsSafely
<1>3. WireInv => RequestSaysWhatWasMeant
  BY InvariantKeepsItsWord
<1> QED
  BY <1>1, <1>2, <1>3, PTL DEF WireSpec
================================================================================
