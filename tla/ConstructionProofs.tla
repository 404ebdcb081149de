-------------------------- MODULE ConstructionProofs --------------------------
(***************************************************************************)
(* Proofs about the construction phase, for every call, unit, cost, pool   *)
(* size and schedule: the shape of the pool at each stage, the costs beside*)
(* it, the box, the calls made, and what is chosen in the end.             *)
(***************************************************************************)
EXTENDS Construction, FiniteSetTheorems, SequenceTheorems, WellFoundedInduction, TLAPS

\* The stages: before the seed, while the pool is built, once it is built.
Unseeded == {"validate", "seed", "rejected"}
Building == {"heuristic", "random"}
Built == {"batch", "sequential", "processes", "cloudpickle", "BrokenProcessPool",
          "threads", "choose", "done"}

Candidates == [Vars -> Reach(call)]
Size == Max({PoolSize, Seeds + 1})

\* What the cache gives for a key is the cost of a solution with that key.
MemoryInv == \A k \in DOMAIN cached : \E t \in Evaluated : Key(t) = k /\ Cost(t) = cached[k]

\* The shape of the pool at each stage, and the threads at work on it.
ShapeInv ==
  /\ call \in Calls /\ MemoryInv
  /\ stage \in Unseeded \cup Building \cup Built \cup {"IndexError"}
  /\ pool \in Seq(Candidates) /\ costs \in Seq(Int) /\ Len(costs) = Len(pool)
  /\ stage \in Unseeded => pool = <<>>
  /\ stage = "seed" => call.guess = <<>> \/ StrictlyInside(call.guess)
  /\ stage \in {"heuristic", "IndexError"} =>
       Seeds <= Len(pool) /\ Len(pool) < Seeds + HeuristicSize
  /\ stage = "random" => Seeds + HeuristicSize <= Len(pool) /\ Len(pool) < PoolSize
  /\ stage \in Built => Len(pool) = Size
  /\ running \subseteq Batch /\ Cardinality(running) <= call.workers
  /\ running # {} => stage = "threads"

\* The seed is priced at once, the batch not before its evaluation.
Readings(s) == {Cost(t) : t \in Twins(s)}
CostInv ==
  /\ \A i \in 1..Len(pool) :
       /\ costs[i] # Unpriced => costs[i] \in Readings(pool[i])
       /\ i <= Seeds \/ stage \in {"choose", "done"} => costs[i] # Unpriced
  /\ \A i \in Batch :
       i \in running \/ stage \notin {"sequential", "threads", "choose", "done"}
         => costs[i] = Unpriced

\* The box, candidate by candidate.
Whole == \A v \in Integral : Lo(v) <= Hi(v)
SeedWhole == \A v \in Integral : call.lower[v] % Unit = 0 /\ call.upper[v] % Unit = 0
Boxed(s) == \A v \in Vars : call.lower[v] <= s[v] /\ s[v] <= call.upper[v]
FitInv ==
  \A i \in 1..Len(pool) :
    /\ \A v \in Integral : pool[i][v] % Unit = 0
    /\ Whole /\ (i <= Seeds => SeedWhole) => Boxed(pool[i])

\* The calls: two for the seed, one for each candidate priced, the wasted ones;
\* and with a cache no fewer than the keys that are new to it.
Priced == {i \in Batch : costs[i] # Unpriced}
Known == {Key(pool[i]) : i \in {j \in 1..Len(pool) : costs[j] # Unpriced}}
News == Known \ inherited
Pooled == ~call.caching /\ ~Sequentially
TallyInv ==
  /\ nfev \in Nat /\ calls \in Nat /\ wasted \in Nat /\ nfev <= calls
  /\ stage \in Unseeded => calls = 0 /\ wasted = 0
  /\ stage \notin Unseeded =>
       /\ calls <= 2 * Seeds + Cardinality(Priced) + wasted
       /\ ~call.caching => calls = 2 * Seeds + Cardinality(Priced) + wasted
       /\ call.caching => Seeds + Cardinality(News) <= calls
  /\ call.caching => DOMAIN cached \subseteq inherited \cup Known

\* Only pools of processes, which are not always used, count elsewhere.
PooledInv ==
  /\ nfev # calls \/ wasted # 0 =>
       stage \in {"cloudpickle", "BrokenProcessPool", "threads", "choose", "done"} /\ Pooled
  /\ stage \in {"processes", "cloudpickle", "BrokenProcessPool"} => Pooled

-----------------------------------------------------------------------------
(* Numbers.                                                                *)

(* The greater of two integers is one of them and at least each.           *)
LEMMA GreaterOfTwo ==
  ASSUME NEW a \in Int, NEW b \in Int
  PROVE  Max({a, b}) \in {a, b} /\ Max({a, b}) >= a /\ Max({a, b}) >= b
<1>1. \E x \in {a, b} : \A y \in {a, b} : x >= y
  OBVIOUS
<1>2. Max({a, b}) \in {a, b} /\ \A y \in {a, b} : Max({a, b}) >= y
  BY <1>1 DEF Max
<1> QED BY <1>2

(* Division rounds down, and leaves a remainder below the divisor.         *)
LEMMA Division ==
  ASSUME NEW a \in Int, NEW d \in Nat \ {0}
  PROVE  /\ a \div d \in Int
         /\ a % d \in 0..(d - 1)
         /\ a = d * (a \div d) + (a % d)
OBVIOUS

(* Multiplying by a unit is monotone.                                      *)
LEMMA MultiplesAscend ==
  ASSUME NEW d \in Nat \ {0}, NEW a \in Int, NEW b \in Int, a <= b
  PROVE  d * a <= d * b
OBVIOUS

(* A multiple of a unit has no remainder.                                  *)
LEMMA MultipleIsWhole ==
  ASSUME NEW k \in Int, NEW d \in Nat \ {0}
  PROVE  (d * k) % d = 0
<1> DEFINE q == (d * k) \div d
           r == (d * k) % d
<1>0. d * k \in Int
  OBVIOUS
<1>1. q \in Int /\ r \in 0..(d - 1) /\ d * k = d * q + r
  BY <1>0, Division
<1> HIDE DEF q, r
<1>2. CASE k <= q
  <2>1. d * k <= d * q
    BY <1>1, <1>2, MultiplesAscend
  <2> QED BY <1>1, <2>1 DEF r
<1>3. CASE q + 1 <= k
  <2>1. d * (q + 1) <= d * k
    BY <1>1, <1>3, MultiplesAscend
  <2>2. d * (q + 1) = d * q + d
    BY <1>1
  <2> QED BY <1>1, <2>1, <2>2
<1> QED BY <1>1, <1>2, <1>3

(* rint(a / b) is an integer less than one away from a / b, and none of the *)
(* integers on either side of a / b is closer.                             *)
LEMMA RintIsNear ==
  ASSUME NEW a \in Int, NEW b \in Nat \ {0}
  PROVE  /\ Rint(a, b) \in Int
         /\ b * Rint(a, b) - b < a /\ a < b * Rint(a, b) + b
         /\ \A k \in Int : (b * k <= a => k <= Rint(a, b)) /\ (a <= b * k => Rint(a, b) <= k)
<1> DEFINE q == a \div b
           r == a % b
<1>1. q \in Int /\ r \in 0..(b - 1) /\ a = b * q + r
  BY Division
<1>2. Rint(a, b) = q \/ (Rint(a, b) = q + 1 /\ 0 < r)
  BY <1>1 DEF Rint
<1> HIDE DEF q, r
<1>3. b * (q + 1) = b * q + b
  BY <1>1
<1>4. ASSUME NEW k \in Int, b * k <= a PROVE k <= q
  <2>1. CASE q + 1 <= k
    BY <1>1, <1>3, <1>4, <2>1, MultiplesAscend
  <2> QED BY <1>1, <2>1
<1>5. ASSUME NEW k \in Int, a <= b * k PROVE q <= k /\ (0 < r => q + 1 <= k)
  <2>1. CASE k + 1 <= q
    <3>1. b * (k + 1) <= b * q /\ b * (k + 1) = b * k + b
      BY <1>1, <2>1, MultiplesAscend
    <3> QED BY <1>1, <1>5, <3>1
  <2>2. CASE k = q
    BY <1>1, <1>5, <2>2
  <2> QED BY <1>1, <2>1, <2>2
<1> QED BY <1>1, <1>2, <1>3, <1>4, <1>5

(* The integers between the bounds of a variable, in units, lie in its box. *)
LEMMA BoundsInUnits ==
  ASSUME NEW l \in Int, NEW u \in Int, NEW k \in Int,
         -((-l) \div Unit) <= k, k <= u \div Unit
  PROVE  l <= Unit * k /\ Unit * k <= u
<1> DEFINE m == (-l) \div Unit
           q == u \div Unit
<1>0. Unit \in Nat \ {0}
  BY ConstructionAssumption
<1>1. m \in Int /\ Unit * m <= -l /\ q \in Int /\ Unit * q <= u
  BY <1>0, Division
<1> HIDE DEF m, q
<1>2. -m <= k /\ k <= q
  BY DEF m, q
<1>3. Unit * (-k) <= Unit * m /\ Unit * k <= Unit * q
  BY <1>0, <1>1, <1>2, MultiplesAscend
<1>4. Unit * (-k) = -(Unit * k)
  BY <1>0
<1> QED BY <1>0, <1>1, <1>3, <1>4

(* A set of natural numbers has a least one.                               *)
LEMMA NaturalsHaveLeast ==
  ASSUME NEW S, S \subseteq Nat, S # {}
  PROVE  Min(S) \in S /\ \A y \in S : Min(S) <= y
<1>1. PICK x \in S : \A y \in S : ~(<<y, x>> \in OpToRel(<, Nat))
  BY NatLessThanWellFounded, WFMin
<1>2. ASSUME NEW y \in Nat, NEW z \in Nat, y < z PROVE <<y, z>> \in OpToRel(<, Nat)
  <2>1. <<y, z>> \in Nat \X Nat /\ <<y, z>>[1] < <<y, z>>[2]
    BY <1>2
  <2> QED BY <2>1, Zenon DEF OpToRel
<1>3. ASSUME NEW y \in S, y < x PROVE FALSE
  <2>1. <<y, x>> \in OpToRel(<, Nat)
    BY <1>2, <1>3, x \in S, Zenon
  <2> QED BY <1>1, <2>1, Zenon
<1>4. \E z \in S : \A y \in S : z <= y
  <2>1. \A y \in S : x <= y
    BY <1>3
  <2> QED BY <2>1
<1> QED BY <1>4 DEF Min

(* So has a finite set of integers: the one with the fewest below it.       *)
LEMMA FiniteSetsHaveLeast ==
  ASSUME NEW S, S \subseteq Int, IsFiniteSet(S), S # {}
  PROVE  Min(S) \in S /\ \A y \in S : Min(S) <= y
<1> DEFINE Below(x) == {y \in S : y < x}
           Counts == {Cardinality(Below(x)) : x \in S}
<1>1. \A x \in S : IsFiniteSet(Below(x)) /\ Cardinality(Below(x)) \in Nat
  <2> SUFFICES ASSUME NEW x \in S
               PROVE  IsFiniteSet(Below(x)) /\ Cardinality(Below(x)) \in Nat
    OBVIOUS
  <2>1. IsFiniteSet(Below(x))
    <3>1. Below(x) \in SUBSET S
      OBVIOUS
    <3> QED BY <3>1, FS_Subset, Zenon
  <2> QED BY <2>1, FS_CardinalityType
<1>2. Counts \subseteq Nat /\ Counts # {}
  BY <1>1
<1>3. Min(Counts) \in Counts /\ \A c \in Counts : Min(Counts) <= c
  BY <1>2, NaturalsHaveLeast
<1>4. PICK x \in S : Min(Counts) = Cardinality(Below(x))
  BY <1>3
<1>5. ASSUME NEW y \in S, y < x PROVE FALSE
  <2>0. x \in Int /\ y \in Int
    OBVIOUS
  <2>1. Below(y) \in SUBSET Below(x) /\ y \in Below(x) /\ y \notin Below(y)
    <3>1. y \in Below(x) /\ y \notin Below(y)
      BY <1>5, <2>0
    <3>2. ASSUME NEW z \in Below(y) PROVE z \in Below(x)
      BY <1>5, <2>0, <3>2
    <3> QED BY <3>1, <3>2
  <2>2. /\ Cardinality(Below(y)) <= Cardinality(Below(x))
        /\ Cardinality(Below(x)) = Cardinality(Below(y)) => Below(x) = Below(y)
    BY <1>1, <2>1, FS_Subset, Zenon
  <2>3. Cardinality(Below(x)) <= Cardinality(Below(y))
    BY <1>3, <1>4
  <2> QED BY <1>1, <2>1, <2>2, <2>3
<1>6. \E z \in S : \A y \in S : z <= y
  BY <1>5
<1> QED BY <1>6 DEF Min

(* A set of integers with an upper bound has a greatest one.               *)
LEMMA BoundedHaveGreatest ==
  ASSUME NEW S, S \subseteq Int, S # {}, NEW b \in Int, \A y \in S : y <= b
  PROVE  Max(S) \in S
<1> DEFINE T == {b - y : y \in S}
<1>1. T \subseteq Nat /\ T # {}
  <2>1. \A y \in S : b - y \in Nat
    OBVIOUS
  <2> QED BY <2>1
<1>2. Min(T) \in T /\ \A t \in T : Min(T) <= t
  BY <1>1, NaturalsHaveLeast
<1>3. PICK x \in S : Min(T) = b - x
  BY <1>2
<1>4. \A y \in S : b - x <= b - y
  BY <1>2, <1>3
<1>5. \E z \in S : \A y \in S : z >= y
  BY <1>4
<1> QED BY <1>5 DEF Max

(* The image of a finite set under a function is finite and no larger.     *)
LEMMA ImageIsFinite ==
  ASSUME NEW S, IsFiniteSet(S), NEW f
  PROVE  /\ IsFiniteSet({f[x] : x \in S})
         /\ Cardinality({f[x] : x \in S}) <= Cardinality(S)
<1> DEFINE T == {f[x] : x \in S}
           g == [x \in S |-> f[x]]
<1>1. g \in Surjection(S, T)
  BY DEF Surjection
<1> HIDE DEF T, g
<1>2. IsFiniteSet(T) /\ Cardinality(T) <= Cardinality(S)
  BY <1>1, FS_Surjection
<1> QED BY <1>2 DEF T

(* A set grows by no more than what it is given.                           *)
LEMMA GrowsByAtMost ==
  ASSUME NEW A, IsFiniteSet(A), NEW C, IsFiniteSet(C), NEW B, B \subseteq A \cup C
  PROVE  /\ IsFiniteSet(B) /\ Cardinality(B) \in Nat /\ Cardinality(A) \in Nat
         /\ Cardinality(B) <= Cardinality(A) + Cardinality(C)
<1>1. /\ IsFiniteSet(A \cup C)
      /\ Cardinality(A \cup C) = Cardinality(A) + Cardinality(C) - Cardinality(A \cap C)
  BY FS_Union
<1>2. B \in SUBSET (A \cup C)
  OBVIOUS
<1>3. IsFiniteSet(B) /\ Cardinality(B) <= Cardinality(A \cup C)
  BY <1>1, <1>2, FS_Subset, Zenon
<1>4. IsFiniteSet(A \cap C)
  BY FS_Intersection
<1>5. /\ Cardinality(A) \in Nat /\ Cardinality(B) \in Nat /\ Cardinality(C) \in Nat
      /\ Cardinality(A \cap C) \in Nat
  BY <1>3, <1>4, FS_CardinalityType
<1>6. Cardinality(A \cup C) <= Cardinality(A) + Cardinality(C)
  BY <1>1, <1>5
<1>7. IsFiniteSet(A \cup C) /\ Cardinality(A \cup C) \in Nat
  BY <1>1, FS_CardinalityType
<1> QED BY <1>3, <1>5, <1>6, <1>7

-----------------------------------------------------------------------------
(* Calls and candidates.                                                   *)

(* What the validation of a configuration leaves of a call.                *)
LEMMA CallFacts ==
  ASSUME call \in Calls
  PROVE  /\ call.n \in Nat /\ call.half \in Nat /\ call.half <= call.n
         /\ call.request \in Nat /\ call.workers \in Nat /\ call.caching \in BOOLEAN
         /\ \A v \in Vars : /\ call.lower[v] \in Int /\ call.upper[v] \in Int
                            /\ call.lower[v] < call.upper[v]
         /\ call.guess # <<>> => call.guess \in [Vars -> Int]
         /\ Unit \in Nat \ {0}
<1>1. call \in Call
  BY ConstructionAssumption
<1>2. /\ call.n \in Nat /\ call.half \in Nat /\ call.request \in Nat
      /\ call.workers \in Nat /\ call.caching \in BOOLEAN
      /\ call.lower \in Seq(Int) /\ call.upper \in Seq(Int) /\ call.guess \in Seq(Int)
  BY <1>1 DEF Call
<1>3. /\ call.half <= call.n /\ Len(call.lower) = call.n /\ Len(call.upper) = call.n
      /\ Len(call.guess) \in {0, call.n}
      /\ \A v \in Vars : call.lower[v] < call.upper[v]
  BY ConstructionAssumption DEF Vars
<1>4. ASSUME NEW v \in Vars PROVE call.lower[v] \in Int /\ call.upper[v] \in Int
  <2>1. v \in 1..Len(call.lower) /\ v \in 1..Len(call.upper)
    BY <1>3 DEF Vars
  <2>2. call.lower[v] \in Int
    BY <1>2, <2>1, ElementOfSeq
  <2>3. call.upper[v] \in Int
    BY <1>2, <2>1, ElementOfSeq
  <2> QED BY <2>2, <2>3
<1>5. call.guess # <<>> => call.guess \in [Vars -> Int]
  BY <1>2, <1>3 DEF Vars
<1> QED BY <1>2, <1>3, <1>4, <1>5, ConstructionAssumption

(* How many candidates the stages build.                                   *)
LEMMA SizeFacts ==
  ASSUME call \in Calls
  PROVE  /\ PoolSize \in Nat \ {0} /\ Seeds \in {0, 1} /\ HeuristicSize \in Nat \ {0}
         /\ Size \in {PoolSize, Seeds + 1} /\ PoolSize <= Size /\ Seeds + 1 <= Size
         /\ Seeds + HeuristicSize <= Size
         /\ PoolSize <= Seeds + HeuristicSize => Size = Seeds + HeuristicSize
         /\ Seeds + HeuristicSize < PoolSize => Size = PoolSize
<1> DEFINE r == IF call.request = 0 THEN DefaultPool ELSE call.request
           h == (PoolSize - Seeds) \div 2
<1>1. r \in Nat \ {0} /\ MinPool \in Nat \ {0}
  BY CallFacts, ConstructionAssumption
<1>2. PoolSize = Max({r, MinPool})
  BY DEF PoolSize
<1> HIDE DEF r
<1>3. PoolSize \in Nat \ {0}
  <2>1. r \in Int /\ MinPool \in Int
    BY <1>1
  <2>2. Max({r, MinPool}) \in {r, MinPool}
    BY <2>1, GreaterOfTwo, Zenon
  <2> QED BY <1>1, <1>2, <2>2
<1>4. Seeds \in {0, 1}
  BY DEF Seeds
<1>5. h \in Int /\ 2 * h <= PoolSize - Seeds /\ PoolSize - Seeds <= 2 * h + 1
  BY <1>3, <1>4
<1>6. HeuristicSize = Max({1, h})
  BY DEF HeuristicSize
<1> HIDE DEF h
<1>7. HeuristicSize \in {1, h} /\ HeuristicSize >= 1 /\ HeuristicSize >= h
  <2>1. 1 \in Int /\ h \in Int
    BY <1>5
  <2> QED BY <1>6, <2>1, GreaterOfTwo, Zenon
<1>8. Size \in {PoolSize, Seeds + 1} /\ Size >= PoolSize /\ Size >= Seeds + 1
  <2>1. PoolSize \in Int /\ Seeds + 1 \in Int
    BY <1>3, <1>4
  <2> QED BY <2>1, GreaterOfTwo, Zenon DEF Size
<1> QED BY <1>3, <1>4, <1>5, <1>7, <1>8

(* A vector no further from the box than a unit is a candidate.            *)
LEMMA InReach ==
  ASSUME call \in Calls, NEW s \in [Vars -> Int],
         \A v \in Vars : call.lower[v] - Unit <= s[v] /\ s[v] <= call.upper[v] + Unit
  PROVE  s \in Candidates
<1>1. ASSUME NEW v \in Vars PROVE s[v] \in Reach(call)
  <2>1. s[v] \in (call.lower[v] - Unit)..(call.upper[v] + Unit)
    BY CallFacts
  <2> QED BY <2>1 DEF Reach, Vars
<1> QED BY <1>1 DEF Candidates

(* A candidate is a vector of integers, and its cost no greater than that   *)
(* of an infeasible one.                                                   *)
LEMMA CandidateFacts ==
  ASSUME call \in Calls, NEW s \in Candidates
  PROVE  /\ DOMAIN s = Vars /\ \A v \in Vars : s[v] \in Int
         /\ Cost(s) \in Int /\ Cost(s) <= Infinity /\ Cost(s) # Unpriced
         /\ Unpriced \in Int /\ Infinity \in Int
<1>1. Reach(call) \subseteq Int
  BY CallFacts DEF Reach, Vars
<1>2. Cost(s) \in Int /\ Cost(s) <= Infinity /\ Infinity \in Int
  BY ConstructionAssumption DEF Candidates, Vars
<1> QED BY <1>1, <1>2 DEF Candidates, Unpriced

(* The integers between a variable's bounds are integers, and the middle of *)
(* the bounds, rounded, is one within a unit of them.                       *)
LEMMA BoundsFacts ==
  ASSUME call \in Calls, NEW v \in Vars
  PROVE  /\ Lo(v) \in Int /\ Hi(v) \in Int /\ Span(v) \in Nat \ {0}
         /\ \A k \in Int : Lo(v) <= k /\ k <= Hi(v) =>
              call.lower[v] <= Unit * k /\ Unit * k <= call.upper[v]
         /\ \E k \in Int : /\ Middle(v) = Unit * k
                           /\ call.lower[v] - Unit <= Unit * k
                           /\ Unit * k <= call.upper[v] + Unit
<1> DEFINE l == call.lower[v]
           u == call.upper[v]
           k == Rint(l + u, 2 * Unit)
<1>1. l \in Int /\ u \in Int /\ l < u /\ Unit \in Nat \ {0}
  BY CallFacts
<1>2. Lo(v) = -((-l) \div Unit) /\ Hi(v) = u \div Unit /\ Span(v) = u - l
      /\ Middle(v) = Unit * k
  BY DEF Lo, Hi, Span, Middle
<1>3. 2 * Unit \in Nat \ {0} /\ l + u \in Int
  BY <1>1
<1>4. k \in Int /\ (2 * Unit) * k - 2 * Unit < l + u /\ l + u < (2 * Unit) * k + 2 * Unit
  BY <1>3, RintIsNear
<1> HIDE DEF l, u, k
<1>5. (2 * Unit) * k = 2 * (Unit * k) /\ Unit * k \in Int
  BY <1>1, <1>4
<1>6. l - Unit <= Unit * k /\ Unit * k <= u + Unit
  BY <1>1, <1>4, <1>5
<1>7. Lo(v) \in Int /\ Hi(v) \in Int /\ Span(v) \in Nat \ {0}
  BY <1>1, <1>2, Division
<1>8. \A j \in Int : Lo(v) <= j /\ j <= Hi(v) => l <= Unit * j /\ Unit * j <= u
  BY <1>1, <1>2, BoundsInUnits
<1> QED BY <1>2, <1>4, <1>6, <1>7, <1>8 DEF l, u

(* Vectors in the box but for a tail of integers within a unit of it fit.   *)
TailFits(v, x) ==
  \E k \in Int : /\ x = Unit * k
                 /\ call.lower[v] - Unit <= x /\ x <= call.upper[v] + Unit
                 /\ Lo(v) <= Hi(v) => call.lower[v] <= x /\ x <= call.upper[v]
Fits(s) ==
  /\ s \in Candidates
  /\ \A v \in Integral : s[v] % Unit = 0
  /\ Whole => Boxed(s)

\* A vector in the box with an integral tail fits.
LEMMA BuiltFits ==
  ASSUME call \in Calls, NEW s, s = [v \in Vars |-> s[v]],
         \A v \in Vars : IF v \in Integral THEN TailFits(v, s[v])
                         ELSE s[v] \in call.lower[v]..call.upper[v]
  PROVE  Fits(s)
<1>1. \A v \in Integral : s[v] % Unit = 0
  <2> SUFFICES ASSUME NEW v \in Integral PROVE s[v] % Unit = 0
    OBVIOUS
  <2>1. v \in Vars
    BY CallFacts DEF Integral, Vars
  <2>2. PICK k \in Int : s[v] = Unit * k
    BY <2>1 DEF TailFits
  <2> QED BY <2>2, CallFacts, MultipleIsWhole
<1>2. ASSUME NEW v \in Vars
      PROVE  /\ s[v] \in Int
             /\ call.lower[v] - Unit <= s[v] /\ s[v] <= call.upper[v] + Unit
             /\ Whole => call.lower[v] <= s[v] /\ s[v] <= call.upper[v]
  <2>1. CASE v \in Integral
    <3>1. TailFits(v, s[v])
      BY <2>1
    <3>2. PICK k \in Int : /\ s[v] = Unit * k
                           /\ call.lower[v] - Unit <= s[v] /\ s[v] <= call.upper[v] + Unit
                           /\ Lo(v) <= Hi(v) => call.lower[v] <= s[v] /\ s[v] <= call.upper[v]
      BY <3>1 DEF TailFits
    <3>3. s[v] \in Int
      BY <3>2, CallFacts
    <3> QED BY <2>1, <3>2, <3>3 DEF Whole
  <2>2. CASE v \notin Integral
    BY <2>2, CallFacts
  <2> QED BY <2>1, <2>2
<1>3. s \in Candidates
  BY <1>2, InReach
<1> QED BY <1>1, <1>2, <1>3 DEF Fits, Boxed

(* An integer between the bounds, and the middle of bounds without one.     *)
LEMMA TailOfBounds ==
  ASSUME call \in Calls, NEW v \in Vars
  PROVE  /\ \A k \in Int : Lo(v) <= k /\ k <= Hi(v) => TailFits(v, Unit * k)
         /\ ~(Lo(v) <= Hi(v)) => TailFits(v, Middle(v))
<1>1. ASSUME NEW k \in Int, Lo(v) <= k, k <= Hi(v) PROVE TailFits(v, Unit * k)
  <2>1. call.lower[v] <= Unit * k /\ Unit * k <= call.upper[v]
    BY <1>1, BoundsFacts
  <2>2. call.lower[v] \in Int /\ call.upper[v] \in Int /\ Unit \in Nat /\ Unit * k \in Int
    BY CallFacts
  <2> QED BY <2>1, <2>2 DEF TailFits
<1>2. ~(Lo(v) <= Hi(v)) => TailFits(v, Middle(v))
  <2>1. PICK k \in Int : /\ Middle(v) = Unit * k
                         /\ call.lower[v] - Unit <= Unit * k
                         /\ Unit * k <= call.upper[v] + Unit
    BY BoundsFacts
  <2> QED BY <2>1 DEF TailFits
<1> QED BY <1>1, <1>2

(* A random candidate fits.                                                *)
LEMMA RandomsFit ==
  ASSUME call \in Calls, NEW s \in Randoms
  PROVE  Fits(s)
<1>1. /\ s = [v \in Vars |-> s[v]]
      /\ \A v \in Vars : s[v] \in IF v \notin Integral THEN Sampled(v)
                                  ELSE IF Hi(v) >= Lo(v) THEN {Unit * i : i \in Lo(v)..Hi(v)}
                                  ELSE {Middle(v)}
  BY DEF Randoms, Vectors
<1>2. ASSUME NEW v \in Vars
      PROVE  IF v \in Integral THEN TailFits(v, s[v]) ELSE s[v] \in call.lower[v]..call.upper[v]
  <2>1. CASE v \notin Integral
    BY <1>1, <2>1, CallFacts DEF Sampled
  <2>2. CASE v \in Integral /\ Hi(v) >= Lo(v)
    <3>1. PICK k \in Lo(v)..Hi(v) : s[v] = Unit * k
      BY <1>1, <2>2
    <3> QED BY <2>2, <3>1, BoundsFacts, TailOfBounds
  <2>3. CASE v \in Integral /\ ~(Hi(v) >= Lo(v))
    <3>1. s[v] = Middle(v)
      BY <1>1, <2>3
    <3> QED BY <2>3, <3>1, BoundsFacts, TailOfBounds
  <2> QED BY <2>1, <2>2, <2>3
<1> QED BY <1>1, <1>2, BuiltFits

(* An integer placed in proportion to its partner is between its bounds.    *)
LEMMA ProportionalFits ==
  ASSUME call \in Calls, NEW s, NEW v \in Integral, Hi(v) > Lo(v), Partner(v) <= call.half,
         s[Partner(v)] \in Int
  PROVE  TailFits(v, Proportional(s, v))
<1> DEFINE c == Partner(v)
           num == Lo(v) * Span(c) + (s[c] - call.lower[c]) * (Hi(v) - Lo(v))
           k == Between(Rint(num, Span(c)), Lo(v), Hi(v))
<1>1. v \in Vars /\ c \in Vars
  BY CallFacts DEF Integral, Partner, Vars
<1>2. Lo(v) \in Int /\ Hi(v) \in Int /\ Span(c) \in Nat \ {0} /\ call.lower[c] \in Int
  BY <1>1, BoundsFacts, CallFacts
<1>3. num \in Int
  BY <1>2
<1>4. Proportional(s, v) = Unit * k
  BY DEF Proportional
<1> HIDE DEF num
<1>5. Rint(num, Span(c)) \in Int
  BY <1>2, <1>3, RintIsNear
<1>6. k \in Int /\ Lo(v) <= k /\ k <= Hi(v)
  BY <1>2, <1>5 DEF Between
<1> HIDE DEF k
<1> QED BY <1>1, <1>4, <1>6, TailOfBounds

(* A heuristic candidate fits.                                             *)
LEMMA HeuristicsFit ==
  ASSUME call \in Calls, ~NoPartner, NEW s \in Heuristics
  PROVE  Fits(s)
<1>1. PICK r : /\ \A v \in Vars : r[v] \in IF v \in Integral THEN {0} ELSE AroundMiddle(v)
               /\ s = [v \in Vars |-> IF v \notin Integral THEN r[v]
                                      ELSE IF Hi(v) > Lo(v) THEN Proportional(r, v)
                                      ELSE IF Hi(v) = Lo(v) THEN Unit * Hi(v) ELSE Middle(v)]
  BY DEF Heuristics, Vectors
<1>2. \A v \in Vars : v \notin Integral => r[v] \in call.lower[v]..call.upper[v]
  BY <1>1 DEF AroundMiddle
<1>3. ASSUME NEW v \in Vars
      PROVE  IF v \in Integral THEN TailFits(v, s[v]) ELSE s[v] \in call.lower[v]..call.upper[v]
  <2>0. Lo(v) \in Int /\ Hi(v) \in Int
    BY BoundsFacts
  <2>1. CASE v \notin Integral
    BY <1>1, <1>2, <2>1
  <2>2. CASE v \in Integral /\ Hi(v) > Lo(v)
    <3>1. s[v] = Proportional(r, v)
      BY <1>1, <2>2
    <3>2. Partner(v) \in Int /\ Partner(v) <= call.half
      BY <2>2, CallFacts DEF NoPartner, Partner, Integral, Vars
    <3>3. Partner(v) \in Vars /\ Partner(v) \notin Integral
      BY <2>2, <3>2, CallFacts DEF Partner, Integral, Vars
    <3>4. r[Partner(v)] \in Int
      BY <1>2, <3>3, CallFacts
    <3> QED BY <2>2, <3>1, <3>2, <3>4, ProportionalFits
  <2>3. CASE v \in Integral /\ Hi(v) = Lo(v)
    <3>1. s[v] = Unit * Hi(v)
      BY <1>1, <2>0, <2>3
    <3> QED BY <2>0, <2>3, <3>1, TailOfBounds
  <2>4. CASE v \in Integral /\ ~(Lo(v) <= Hi(v))
    <3>1. s[v] = Middle(v)
      BY <1>1, <2>0, <2>4
    <3> QED BY <2>0, <2>4, <3>1, TailOfBounds
  <2> QED BY <2>0, <2>1, <2>2, <2>3, <2>4
<1> QED BY <1>1, <1>3, BuiltFits

(* The point that becomes the seed, its tail rounded, fits integer bounds.  *)
LEMMA SeedFits ==
  ASSUME call \in Calls, NEW raw \in [Vars -> Int], Boxed(raw)
  PROVE  /\ RoundTail(raw) \in Candidates
         /\ \A v \in Integral : RoundTail(raw)[v] % Unit = 0
         /\ SeedWhole => Boxed(RoundTail(raw))
<1> DEFINE s == RoundTail(raw)
<1>1. \A v \in Vars : s[v] = IF v \in Integral THEN Unit * Rint(raw[v], Unit) ELSE raw[v]
  BY DEF RoundTail
<1>2. s = [v \in Vars |-> s[v]]
  BY DEF RoundTail
<1>3. Integral \subseteq Vars
  BY CallFacts DEF Integral, Vars
<1> HIDE DEF s
<1>4. ASSUME NEW v \in Vars
      PROVE  /\ s[v] \in Int
             /\ call.lower[v] - Unit <= s[v] /\ s[v] <= call.upper[v] + Unit
             /\ v \in Integral => s[v] % Unit = 0
             /\ SeedWhole => call.lower[v] <= s[v] /\ s[v] <= call.upper[v]
  <2>1. /\ raw[v] \in Int /\ call.lower[v] \in Int /\ call.upper[v] \in Int
        /\ Unit \in Nat \ {0} /\ call.lower[v] <= raw[v] /\ raw[v] <= call.upper[v]
    BY CallFacts DEF Boxed
  <2>2. CASE v \notin Integral
    BY <1>1, <2>1, <2>2
  <2>3. CASE v \in Integral
    <3> DEFINE k == Rint(raw[v], Unit)
               l == call.lower[v] \div Unit
               u == call.upper[v] \div Unit
    <3>1. /\ k \in Int /\ Unit * k - Unit < raw[v] /\ raw[v] < Unit * k + Unit
          /\ \A j \in Int : /\ Unit * j <= raw[v] => j <= k
                            /\ raw[v] <= Unit * j => k <= j
      BY <2>1, RintIsNear
    <3>2. /\ l \in Int /\ call.lower[v] = Unit * l + (call.lower[v] % Unit)
          /\ u \in Int /\ call.upper[v] = Unit * u + (call.upper[v] % Unit)
      BY <2>1, Division
    <3>3. s[v] = Unit * k
      BY <1>1, <2>3
    <3> HIDE DEF k, l, u
    <3>4. s[v] \in Int /\ s[v] % Unit = 0
      <4>1. (Unit * k) % Unit = 0
        BY <2>1, <3>1, MultipleIsWhole
      <4>2. Unit * k \in Int
        BY <2>1, <3>1
      <4> QED BY <3>3, <4>1, <4>2
    <3>5. ASSUME SeedWhole PROVE call.lower[v] <= s[v] /\ s[v] <= call.upper[v]
      <4>0. call.lower[v] % Unit = 0 /\ call.upper[v] % Unit = 0
        BY <2>3, <3>5 DEF SeedWhole
      <4>1. call.lower[v] = Unit * l /\ call.upper[v] = Unit * u
        BY <2>1, <3>2, <4>0
      <4>2. l <= k /\ k <= u
        BY <2>1, <3>1, <3>2, <4>1
      <4> QED BY <2>1, <3>1, <3>2, <3>3, <4>1, <4>2, MultiplesAscend
    <3> QED BY <2>1, <3>1, <3>3, <3>4, <3>5
  <2> QED BY <2>2, <2>3
<1>5. s \in Candidates
  BY <1>2, <1>4, InReach
<1> QED BY <1>3, <1>4, <1>5 DEF s, Boxed

-----------------------------------------------------------------------------
(* The shape of the pool.                                                  *)

\* Before the validation the pool is empty.
LEMMA ShapeBegins == ConstructionInit => ShapeInv
<1> SUFFICES ASSUME ConstructionInit PROVE ShapeInv
  OBVIOUS
<1>1. Cardinality({}) = 0 /\ call.workers \in Nat
  BY FS_EmptySet, CallFacts DEF ConstructionInit
<1>2. MemoryInv
  BY DEF ConstructionInit, MemoryInv, Evaluated
<1> QED BY <1>1, <1>2 DEF ConstructionInit, ShapeInv, Unseeded, Building, Built

(* Adding one candidate to the pool, with no cost yet.                     *)
LEMMA AddedShape ==
  ASSUME ShapeInv, stage \in Building, NEW s \in Candidates,
         pool' = Append(pool, s), costs' = Append(costs, Unpriced)
  PROVE  /\ pool' \in Seq(Candidates) /\ costs' \in Seq(Int)
         /\ Len(pool) \in Nat /\ Len(pool') = Len(pool) + 1 /\ Len(costs') = Len(pool')
         /\ \A i \in 1..Len(pool) : pool'[i] = pool[i] /\ costs'[i] = costs[i]
         /\ pool'[Len(pool) + 1] = s /\ costs'[Len(pool) + 1] = Unpriced
<1>1. Unpriced \in Int
  BY ConstructionAssumption DEF Unpriced
<1>2. pool \in Seq(Candidates) /\ costs \in Seq(Int) /\ Len(costs) = Len(pool)
  BY DEF ShapeInv
<1> QED BY <1>1, <1>2

(* What only the arguments of the call decide stays as it is.              *)
LEMMA SameCall ==
  ASSUME call' = call
  PROVE  /\ Vars' = Vars /\ Integral' = Integral /\ Candidates' = Candidates
         /\ Seeds' = Seeds /\ PoolSize' = PoolSize /\ HeuristicSize' = HeuristicSize
         /\ Size' = Size
         /\ \A s : Key(s)' = Key(s)
BY DEF Vars, Integral, Candidates, Reach, Seeds, PoolSize, HeuristicSize, Size, Key

(* The point a seed is made of is in the box.                              *)
SeedPoints == IF Cost(call.guess) # Infinity THEN {call.guess} ELSE Vectors(Sampled)

\* What becomes the seed is in the box and within reach.
LEMMA SeedPointBoxed ==
  ASSUME ShapeInv, stage = "seed", call.guess # <<>>, NEW raw \in SeedPoints
  PROVE  raw \in [Vars -> Int] /\ Boxed(raw)
<1>0. call \in Calls
  BY DEF ShapeInv
<1>1. CASE raw = call.guess
  <2>1. call.guess \in [Vars -> Int] /\ StrictlyInside(call.guess)
    BY <1>0, CallFacts DEF ShapeInv
  <2> QED BY <1>0, <1>1, <2>1, CallFacts DEF StrictlyInside, Boxed
<1>2. CASE raw \in Vectors(Sampled)
  <2>1. raw = [v \in Vars |-> raw[v]] /\ \A v \in Vars : raw[v] \in Sampled(v)
    BY <1>2 DEF Vectors
  <2>2. \A v \in Vars : raw[v] \in Int /\ call.lower[v] <= raw[v] /\ raw[v] <= call.upper[v]
    BY <1>0, <2>1, CallFacts DEF Sampled
  <2> QED BY <2>1, <2>2 DEF Boxed
<1> QED BY <1>1, <1>2 DEF SeedPoints

(* The stages of the batch leave the pool as it is, and put costs beside it *)
(* without moving any.                                                     *)
BatchStep ==
  \/ StartBatch \/ EvaluateNext \/ StandardPool \/ CloudpicklePool
  \/ StartThread \/ (\E i \in Batch : FinishThread(i)) \/ EndBatch

\* The steps before the batch, those of the batch, and the choice.
LEMMA NextSplits ==
  ASSUME [ConstructionNext]_constructionVars
  PROVE  \/ Validate \/ Seed \/ NoSeed \/ AddHeuristic \/ FailHeuristic \/ AddRandom
         \/ BatchStep \/ Choose \/ UNCHANGED constructionVars
BY DEF ConstructionNext, Step, BatchStep

(* Where the candidates of the batch are.                                  *)
LEMMA BatchFacts ==
  ASSUME ShapeInv
  PROVE  /\ IsFiniteSet(Batch) /\ Batch \subseteq 1..Len(pool) /\ Len(pool) \in Nat
         /\ Waiting \subseteq Batch /\ Waiting \cap running = {}
         /\ Cardinality(Batch) \in Nat
         /\ Seeds <= Len(pool) => Cardinality(Batch) = Len(pool) - Seeds
         /\ IsFiniteSet(running) /\ Cardinality(running) \in Nat
         /\ DOMAIN costs = 1..Len(pool) /\ DOMAIN pool = 1..Len(pool)
         /\ \A i \in 1..Len(pool) : pool[i] \in Candidates /\ costs[i] \in Int
         /\ costs = [i \in 1..Len(pool) |-> costs[i]]
<1>1. /\ pool \in Seq(Candidates) /\ costs \in Seq(Int) /\ Len(costs) = Len(pool)
      /\ call \in Calls /\ running \subseteq Batch
  BY DEF ShapeInv
<1>2. Len(pool) \in Nat /\ Seeds \in {0, 1}
  BY <1>1, SizeFacts
<1>3. /\ DOMAIN costs = 1..Len(pool) /\ DOMAIN pool = 1..Len(pool)
      /\ \A i \in 1..Len(pool) : pool[i] \in Candidates /\ costs[i] \in Int
      /\ costs = [i \in 1..Len(pool) |-> costs[i]]
  BY <1>1
<1>4. /\ IsFiniteSet(Batch)
      /\ Cardinality(Batch) = IF Seeds + 1 > Len(pool) THEN 0 ELSE Len(pool) - (Seeds + 1) + 1
  BY <1>2, FS_Interval DEF Batch
<1>5. Seeds <= Len(pool) => Cardinality(Batch) = Len(pool) - Seeds
  BY <1>2, <1>4
<1>6. IsFiniteSet(running)
  BY <1>1, <1>4, FS_Subset
<1>7. Cardinality(running) \in Nat /\ Cardinality(Batch) \in Nat
  BY <1>4, <1>6, FS_CardinalityType
<1> QED BY <1>1, <1>2, <1>3, <1>4, <1>5, <1>6, <1>7 DEF Batch, Waiting

(* The next candidate of the batch is one that waits.                      *)
LEMMA NextWaits ==
  ASSUME ShapeInv, Waiting # {}
  PROVE  Min(Waiting) \in Waiting
<1>1. Waiting \subseteq Nat
  BY BatchFacts
<1> QED BY <1>1, NaturalsHaveLeast

(* What a reading of a candidate may be: an integer, the cost of the        *)
(* candidate or of a twin; and a reading now is one of them.               *)
LEMMA ReadingFacts ==
  ASSUME ShapeInv, NEW i \in 1..Len(pool)
  PROVE  /\ Cost(pool[i]) \in Readings(pool[i]) /\ Read(pool[i]) \in Readings(pool[i])
         /\ \A c \in Readings(pool[i]) : c \in Int /\ c <= Infinity /\ c # Unpriced
<1>1. call \in Calls /\ call.caching \in BOOLEAN /\ MemoryInv
  BY CallFacts DEF ShapeInv
<1>2. pool[i] \in Evaluated /\ (\A j \in DOMAIN pool : pool[j] \in Candidates)
  BY BatchFacts DEF Evaluated
<1>3. Evaluated \subseteq Candidates
  BY <1>1, <1>2, ConstructionAssumption DEF Evaluated, Candidates, Vars
<1>4. \A c \in Readings(pool[i]) : c \in Int /\ c <= Infinity /\ c # Unpriced
  <2>1. Twins(pool[i]) \subseteq Candidates
    BY <1>2, <1>3 DEF Twins
  <2> QED BY <1>1, <2>1, CandidateFacts DEF Readings
<1>5. Cost(pool[i]) \in Readings(pool[i])
  BY <1>1, <1>2 DEF Readings, Twins
<1>6. Read(pool[i]) \in Readings(pool[i])
  <2>1. CASE ~Held(pool[i])
    BY <1>5, <2>1 DEF Read
  <2>2. CASE Held(pool[i])
    <3>1. PICK t \in Evaluated : Key(t) = Key(pool[i]) /\ Cost(t) = cached[Key(pool[i])]
      BY <1>1, <2>2 DEF Held, MemoryInv
    <3>2. t \in Twins(pool[i])
      BY <2>2, <3>1 DEF Held, Twins
    <3> QED BY <2>2, <3>1, <3>2 DEF Read, Readings
  <2> QED BY <2>1, <2>2
<1> QED BY <1>4, <1>5, <1>6

(* The batch keeps the shape of the pool.                                  *)
LEMMA BatchKeepsShape ==
  ASSUME ShapeInv, BatchStep
  PROVE  /\ call' = call /\ pool' = pool /\ costs' \in Seq(Int) /\ Len(costs') = Len(costs)
         /\ stage \in Built /\ stage' \in Built
         /\ running' \subseteq Batch /\ Cardinality(running') <= call.workers
         /\ running' # {} => stage' = "threads"
<1>0. /\ call.workers \in Nat /\ Cardinality({}) = 0 /\ call \in Calls
      /\ \A i \in Batch : Cost(pool[i]) \in Int /\ Read(pool[i]) \in Int
  <2>1. call \in Calls
    BY DEF ShapeInv
  <2>2. ASSUME NEW i \in Batch PROVE Cost(pool[i]) \in Int /\ Read(pool[i]) \in Int
    BY <2>2, BatchFacts, ReadingFacts
  <2> QED BY <2>1, <2>2, CallFacts, FS_EmptySet
<1>1. /\ costs \in Seq(Int) /\ running \subseteq Batch /\ Cardinality(running) <= call.workers
      /\ running # {} => stage = "threads"
  BY DEF ShapeInv
<1>2. ASSUME NEW i \in Batch, NEW x \in Int
      PROVE  LET c == [costs EXCEPT ![i] = x] IN c \in Seq(Int) /\ Len(c) = Len(costs)
  <2>1. i \in 1..Len(costs)
    BY <1>0, <1>2, BatchFacts DEF ShapeInv
  <2> QED BY <1>1, <2>1
<1>3. CASE StartBatch \/ EndBatch
  BY <1>1, <1>3 DEF StartBatch, EndBatch, InBatch, inputs, Goto, Built
<1>4. CASE EvaluateNext
  <2>1. Min(Waiting) \in Batch
    BY <1>4, NextWaits, BatchFacts DEF EvaluateNext
  <2>2. costs' = [costs EXCEPT ![Min(Waiting)] = Read(pool[Min(Waiting)])]
    BY <1>4 DEF EvaluateNext
  <2>3. costs' \in Seq(Int) /\ Len(costs') = Len(costs)
    BY <1>0, <1>2, <2>1, <2>2
  <2> QED BY <1>1, <1>4, <2>3 DEF EvaluateNext, inputs, Built
<1>5. CASE StandardPool \/ CloudpicklePool
  <2>1. /\ stage \in {"processes", "cloudpickle"} /\ running' = running
        /\ call' = call /\ pool' = pool /\ stage' \in Built
        /\ PoolAnswers \/ costs' = costs
    BY <1>5 DEF StandardPool, CloudpicklePool, ProcessPool, PoolAnswers, PoolFails,
                PoolBreaks, inputs, Goto, Built
  <2>2. costs' \in Seq(Int) /\ Len(costs') = Len(costs)
    <3>1. CASE PoolAnswers
      <4>1. costs' = [i \in 1..Len(costs) |->
                        IF i \in Batch THEN Cost(pool[i]) ELSE costs[i]]
        BY <1>1, <3>1 DEF PoolAnswers
      <4>2. \A i \in 1..Len(costs) : (IF i \in Batch THEN Cost(pool[i]) ELSE costs[i]) \in Int
        BY <1>0, <1>1
      <4> QED BY <1>1, <4>1, <4>2
    <3> QED BY <1>1, <2>1, <3>1
  <2>3. running' = {}
    BY <1>1, <2>1
  <2> QED BY <1>0, <2>1, <2>2, <2>3 DEF Built
<1>6. CASE StartThread
  <2>1. Min(Waiting) \in Batch /\ Min(Waiting) \notin running
    BY <1>6, NextWaits, BatchFacts DEF StartThread
  <2>2. /\ stage = "threads" /\ stage' = stage /\ call' = call /\ pool' = pool
        /\ Cardinality(running) < call.workers
        /\ \/ /\ costs' = [costs EXCEPT ![Min(Waiting)] = Read(pool[Min(Waiting)])]
              /\ running' = running
           \/ running' = running \cup {Min(Waiting)} /\ costs' = costs
    BY <1>6 DEF StartThread, inputs
  <2>3. costs' \in Seq(Int) /\ Len(costs') = Len(costs)
    BY <1>0, <1>1, <1>2, <2>1, <2>2
  <2>4. Cardinality(running \cup {Min(Waiting)}) = Cardinality(running) + 1
    BY <2>1, BatchFacts, FS_AddElement
  <2>5. Cardinality(running') <= call.workers
    <3>1. Cardinality(running) \in Nat
      BY BatchFacts
    <3>2. Cardinality(running') \in {Cardinality(running), Cardinality(running) + 1}
      BY <2>2, <2>4, Zenon
    <3> QED BY <1>0, <2>2, <3>1, <3>2
  <2> QED BY <1>1, <2>1, <2>2, <2>3, <2>5 DEF Built
<1>7. ASSUME NEW i \in Batch, FinishThread(i)
      PROVE  /\ costs' \in Seq(Int) /\ Len(costs') = Len(costs)
             /\ running' \subseteq Batch /\ Cardinality(running') <= call.workers
             /\ stage = "threads" /\ stage' = stage /\ call' = call /\ pool' = pool
  <2>1. /\ stage = "threads" /\ stage' = stage /\ call' = call /\ pool' = pool
        /\ costs' = [costs EXCEPT ![i] = Cost(pool[i])] /\ running' = running \ {i}
    BY <1>7 DEF FinishThread, inputs
  <2>2. costs' \in Seq(Int) /\ Len(costs') = Len(costs)
    BY <1>0, <1>2, <2>1
  <2>3. Cardinality(running \ {i}) <= Cardinality(running)
        /\ Cardinality(running \ {i}) \in Nat
    <3>1. running \ {i} \in SUBSET running
      OBVIOUS
    <3>2. IsFiniteSet(running)
      BY BatchFacts
    <3>3. Cardinality(running \ {i}) <= Cardinality(running) /\ IsFiniteSet(running \ {i})
      BY <3>1, <3>2, FS_Subset, Zenon
    <3> QED BY <3>3, FS_CardinalityType
  <2> QED BY <1>0, <1>1, <2>1, <2>2, <2>3, BatchFacts
<1> QED BY <1>3, <1>4, <1>5, <1>6, <1>7 DEF BatchStep, Built

\* So is a reading of any candidate, in the pool or not.
LEMMA ReadIsInteger ==
  ASSUME ShapeInv, NEW s \in Candidates
  PROVE  /\ Read(s) \in Int /\ Read(s) # Unpriced
         /\ \/ Read(s) = Cost(s)
            \/ call.caching /\ \E t \in Evaluated : Key(t) = Key(s) /\ Read(s) = Cost(t)
<1>1. call \in Calls /\ MemoryInv
  BY DEF ShapeInv
<1>2. Evaluated \subseteq Candidates
  BY <1>1, BatchFacts, ConstructionAssumption DEF Evaluated, Candidates, Vars
<1>3. CASE Held(s)
  <2>1. PICK t \in Evaluated : Key(t) = Key(s) /\ Cost(t) = cached[Key(s)]
    BY <1>1, <1>3 DEF Held, MemoryInv
  <2>2. Read(s) = Cost(t) /\ call.caching
    BY <1>3, <2>1 DEF Read, Held
  <2> QED BY <1>1, <1>2, <2>1, <2>2, CandidateFacts
<1>4. CASE ~Held(s)
  BY <1>1, <1>4, CandidateFacts DEF Read
<1> QED BY <1>3, <1>4

\* A pool that grows keeps the readings of its candidates.
LEMMA ReadingsGrow ==
  ASSUME call' = call, Len(pool) \in Nat, DOMAIN pool = 1..Len(pool),
         DOMAIN pool \subseteq DOMAIN pool',
         \A i \in DOMAIN pool : pool'[i] = pool[i]
  PROVE  /\ Evaluated \subseteq Evaluated'
         /\ \A s : Readings(s) \subseteq Readings(s)'
<1>1. Evaluated \subseteq Evaluated'
  BY DEF Evaluated
<1>2. \A s : Twins(s) \subseteq Twins(s)'
  BY <1>1, SameCall DEF Twins
<1> QED BY <1>1, <1>2 DEF Readings

\* A solution evaluated may be put into the cache.
LEMMA PutKeepsMemory ==
  ASSUME MemoryInv, NEW s, s \in Evaluated', call' = call,
         Evaluated \subseteq Evaluated', Put(s) \/ cached' = cached
  PROVE  MemoryInv'
<1>1. \A t : Key(t)' = Key(t)
  BY SameCall
<1>2. \A k \in DOMAIN cached' :
        \/ k \in DOMAIN cached /\ cached'[k] = cached[k]
        \/ k = Key(s) /\ cached'[k] = Cost(s)
  BY DEF Put
<1> QED BY <1>1, <1>2 DEF MemoryInv

\* Every step keeps the cache right.
LEMMA MemoryStep ==
  ASSUME ShapeInv, [ConstructionNext]_constructionVars
  PROVE  MemoryInv'
<1>0. MemoryInv /\ call \in Calls /\ call' = call
  BY NextSplits DEF BatchStep, Validate, Seed, NoSeed, AddHeuristic, FailHeuristic,
     AddRandom, Add, Choose, StartBatch, EvaluateNext, StandardPool, CloudpicklePool,
     ProcessPool, StartThread, FinishThread, EndBatch, constructionVars, inputs, ShapeInv
<1>1. DOMAIN pool = 1..Len(pool) /\ Len(pool) \in Nat
  BY BatchFacts
<1>2. CASE Seed
  <2>1. PICK raw : /\ pool' = <<RoundTail(raw)>>
                   /\ Put(RoundTail(raw)) \/ cached' = cached
    BY <1>2 DEF Seed, Evaluate
  <2>2. DOMAIN pool = {} /\ pool'[1] = RoundTail(raw) /\ 1 \in DOMAIN pool'
    BY <1>1, <1>2, <2>1 DEF Seed, ShapeInv, Unseeded
  <2>3. Evaluated \subseteq Evaluated' /\ RoundTail(raw) \in Evaluated'
    BY <1>0, <1>1, <2>2, ReadingsGrow DEF Evaluated
  <2> QED BY <1>0, <2>1, <2>3, PutKeepsMemory
<1>3. CASE EvaluateNext \/ \E i \in Batch : FinishThread(i)
  <2>1. PICK i \in Batch : pool' = pool /\ (Put(pool[i]) \/ cached' = cached)
    BY <1>3, NextWaits, BatchFacts DEF EvaluateNext, FinishThread, Evaluate
  <2>2. Evaluated' = Evaluated /\ pool[i] \in Evaluated
    BY <1>0, <1>1, <2>1, BatchFacts DEF Evaluated
  <2> QED BY <1>0, <2>1, <2>2, PutKeepsMemory
<1>4. ASSUME cached' = cached, Evaluated \subseteq Evaluated' PROVE MemoryInv'
  BY <1>0, <1>4, SameCall DEF MemoryInv
<1>5. CASE AddHeuristic \/ AddRandom
  <2>1. /\ stage \in Building /\ cached' = cached /\ costs' = Append(costs, Unpriced)
        /\ stage = "heuristic" => ~NoPartner /\ \E s \in Heuristics : pool' = Append(pool, s)
        /\ stage = "random" => \E s \in Randoms : pool' = Append(pool, s)
    BY <1>5 DEF AddHeuristic, AddRandom, Add, Building
  <2>2. PICK s \in Candidates : pool' = Append(pool, s)
    BY <1>0, <2>1, HeuristicsFit, RandomsFit DEF Fits, Building
  <2>3. /\ pool' \in Seq(Candidates) /\ Len(pool') = Len(pool) + 1
        /\ \A i \in 1..Len(pool) : pool'[i] = pool[i]
    BY <2>1, <2>2, AddedShape
  <2>4. DOMAIN pool \subseteq DOMAIN pool'
    BY <1>1, <2>3
  <2>5. Evaluated \subseteq Evaluated'
    BY <1>0, <1>1, <2>3, <2>4, ReadingsGrow
  <2> QED BY <1>4, <2>1, <2>5
<1>6. CASE \/ Validate \/ NoSeed \/ FailHeuristic \/ Choose \/ UNCHANGED constructionVars
           \/ StartBatch \/ StandardPool \/ CloudpicklePool \/ StartThread \/ EndBatch
  <2>1. cached' = cached /\ pool' = pool
    BY <1>6 DEF Validate, NoSeed, FailHeuristic, Choose, constructionVars, StartBatch,
       StandardPool, CloudpicklePool, ProcessPool, StartThread, EndBatch
  <2>2. Evaluated' = Evaluated
    BY <1>0, <2>1 DEF Evaluated
  <2> QED BY <1>4, <2>1, <2>2
<1> QED BY <1>2, <1>3, <1>5, <1>6, NextSplits DEF BatchStep

\* Every step keeps the shape of the pool.
LEMMA ShapeStep ==
  ASSUME ShapeInv, [ConstructionNext]_constructionVars
  PROVE  ShapeInv'
<1>0. call \in Calls
  BY DEF ShapeInv
<1>1. call' = call => /\ Batch' = (Seeds + 1)..Len(pool') /\ Candidates' = Candidates
                      /\ Seeds' = Seeds /\ HeuristicSize' = HeuristicSize
                      /\ PoolSize' = PoolSize /\ Size' = Size
                      /\ StrictlyInside(call.guess)' = StrictlyInside(call.guess)
  BY SameCall DEF Batch, StrictlyInside
<1>2. (stage \notin {"threads"} => running = {}) /\ MemoryInv'
  BY MemoryStep DEF ShapeInv
<1>3. CASE Validate \/ NoSeed \/ FailHeuristic \/ Choose \/ UNCHANGED constructionVars
  <2>1. /\ call' = call /\ pool' = pool /\ costs' = costs /\ running' = running
    BY <1>3 DEF Validate, NoSeed, FailHeuristic, Choose, constructionVars, inputs
  <2>2. Batch' = Batch
    BY <1>1, <2>1 DEF Batch
  <2>3. CASE Validate
    BY <1>1, <1>2, <2>1, <2>2, <2>3 DEF Validate, ShapeInv, Goto, Unseeded, Building, Built
  <2>4. CASE NoSeed
    <3>1. Seeds = 0 /\ HeuristicSize \in Nat \ {0} /\ stage = "seed" /\ stage' = "heuristic"
      BY <1>0, <2>4, SizeFacts DEF NoSeed, Seeds, Goto
    <3>2. Len(pool) = 0
      BY <3>1 DEF ShapeInv, Unseeded
    <3> QED BY <1>1, <1>2, <2>1, <2>2, <3>1, <3>2 DEF ShapeInv, Unseeded, Building, Built
  <2>5. CASE FailHeuristic
    BY <1>1, <1>2, <2>1, <2>2, <2>5
       DEF FailHeuristic, ShapeInv, Goto, Unseeded, Building, Built
  <2>6. CASE Choose
    BY <1>1, <1>2, <2>1, <2>2, <2>6 DEF Choose, ShapeInv, Goto, Unseeded, Building, Built
  <2>7. CASE UNCHANGED constructionVars
    BY <1>1, <1>2, <2>1, <2>2, <2>7 DEF constructionVars, ShapeInv
  <2> QED BY <1>3, <2>3, <2>4, <2>5, <2>6, <2>7
<1>4. CASE Seed
  <2>1. /\ stage = "seed" /\ stage' = "heuristic" /\ call' = call /\ running' = running
        /\ call.guess # <<>>
    BY <1>4 DEF Seed, Goto, inputs
  <2>2. PICK raw \in SeedPoints :
          pool' = <<RoundTail(raw)>> /\ costs' = <<Read(RoundTail(raw))>>
    BY <1>4 DEF Seed, SeedPoints
  <2>3. RoundTail(raw) \in Candidates
    BY <1>0, <2>1, SeedPointBoxed, SeedFits
  <2>4. Read(RoundTail(raw)) \in Int
    BY <2>3, ReadIsInteger
  <2>5. Seeds = 1 /\ HeuristicSize \in Nat \ {0}
    BY <1>0, <2>1, SizeFacts DEF Seeds
  <2>6. pool' \in Seq(Candidates) /\ costs' \in Seq(Int) /\ Len(pool') = 1 /\ Len(costs') = 1
    BY <2>2, <2>3, <2>4
  <2> QED BY <1>1, <1>2, <2>1, <2>5, <2>6 DEF ShapeInv, Unseeded, Building, Built
<1>5. CASE AddHeuristic \/ AddRandom
  <2>1. /\ stage \in Building /\ call' = call /\ running' = running
        /\ costs' = Append(costs, Unpriced)
        /\ stage = "heuristic" =>
             /\ \E s \in Heuristics : pool' = Append(pool, s)
             /\ ~NoPartner
             /\ stage' = IF Len(pool) + 1 >= Seeds + HeuristicSize
                         THEN IF Seeds + HeuristicSize >= PoolSize THEN "batch" ELSE "random"
                         ELSE stage
        /\ stage = "random" =>
             /\ \E s \in Randoms : pool' = Append(pool, s)
             /\ stage' = IF Len(pool) + 1 >= PoolSize THEN "batch" ELSE stage
    BY <1>5 DEF AddHeuristic, AddRandom, Add, Goto, inputs, Building
  <2>2. PICK s \in Candidates : pool' = Append(pool, s)
    BY <1>0, <2>1, HeuristicsFit, RandomsFit DEF Fits, Building
  <2>3. /\ pool' \in Seq(Candidates) /\ costs' \in Seq(Int)
        /\ Len(pool) \in Nat /\ Len(pool') = Len(pool) + 1 /\ Len(costs') = Len(pool')
    BY <2>1, <2>2, AddedShape
  <2>4. /\ PoolSize \in Nat \ {0} /\ Seeds \in {0, 1} /\ HeuristicSize \in Nat \ {0}
        /\ Seeds + HeuristicSize <= Size
        /\ PoolSize <= Seeds + HeuristicSize => Size = Seeds + HeuristicSize
        /\ Seeds + HeuristicSize < PoolSize => Size = PoolSize
    BY <1>0, SizeFacts
  <2>5. running' = {}
    BY <1>2, <2>1 DEF Building
  <2>8. /\ running' = {} /\ running' \subseteq Batch'
        /\ Cardinality(running') <= call'.workers
    BY <1>0, <2>1, <2>5, CallFacts, FS_EmptySet
  <2>6. CASE stage = "heuristic"
    <3>1. Seeds <= Len(pool) /\ Len(pool) < Seeds + HeuristicSize
      BY <2>6 DEF ShapeInv
    <3>2. \/ stage' = "heuristic" /\ Len(pool') < Seeds + HeuristicSize
          \/ /\ stage' = "random" /\ Len(pool') = Seeds + HeuristicSize
             /\ Len(pool') < PoolSize
          \/ stage' = "batch" /\ Len(pool') = Size
      BY <2>1, <2>3, <2>4, <2>6, <3>1
    <3>3. stage' = "heuristic" => Seeds' <= Len(pool') /\ Len(pool') < Seeds' + HeuristicSize'
      BY <1>1, <2>1, <2>3, <2>4, <3>1, <3>2
    <3>4. stage' = "random" =>
            Seeds' + HeuristicSize' <= Len(pool') /\ Len(pool') < PoolSize'
      BY <1>1, <2>1, <2>3, <2>4, <3>2
    <3> QED BY <1>0, <1>1, <1>2, <2>1, <2>3, <2>8, <3>2, <3>3, <3>4
            DEF ShapeInv, Unseeded, Building, Built
  <2>7. CASE stage = "random"
    <3>1. Seeds + HeuristicSize <= Len(pool) /\ Len(pool) < PoolSize
      BY <2>7 DEF ShapeInv
    <3>2. \/ stage' = "random" /\ Len(pool') < PoolSize
          \/ stage' = "batch" /\ Len(pool') = Size
      BY <2>1, <2>3, <2>4, <2>7, <3>1
    <3>3. stage' = "random" =>
            Seeds' + HeuristicSize' <= Len(pool') /\ Len(pool') < PoolSize'
      BY <1>1, <2>1, <2>3, <2>4, <3>1, <3>2
    <3> QED BY <1>0, <1>1, <1>2, <2>1, <2>3, <2>8, <3>2, <3>3
            DEF ShapeInv, Unseeded, Building, Built
  <2> QED BY <2>1, <2>6, <2>7 DEF Building
<1>6. CASE BatchStep
  <2>1. /\ call' = call /\ pool' = pool /\ costs' \in Seq(Int) /\ Len(costs') = Len(costs)
        /\ stage \in Built /\ stage' \in Built
        /\ running' \subseteq Batch /\ Cardinality(running') <= call.workers
        /\ running' # {} => stage' = "threads"
    BY <1>6, BatchKeepsShape
  <2>2. Batch' = Batch
    BY <1>1, <2>1 DEF Batch
  <2> QED BY <1>1, <1>2, <2>1, <2>2 DEF ShapeInv, Unseeded, Building, Built
<1> QED BY <1>3, <1>4, <1>5, <1>6, NextSplits

-----------------------------------------------------------------------------
(* The costs.                                                              *)

\* What a stage of the batch does to a cost: nothing, or it sets its own.
LEMMA BatchPrices ==
  ASSUME ShapeInv, CostInv, BatchStep, NEW i \in 1..Len(pool)
  PROVE  /\ costs'[i] = costs[i] \/ costs'[i] \in Readings(pool[i])
         /\ i \notin Batch => costs'[i] = costs[i]
         /\ i \in running' => costs'[i] = costs[i] /\ costs[i] = Unpriced
         /\ stage' \in {"processes", "cloudpickle", "BrokenProcessPool"} =>
              costs'[i] = costs[i] /\ stage \in {"batch", "processes", "cloudpickle"}
         /\ stage' = "choose" /\ i \in Batch => costs'[i] # Unpriced
         /\ stage' \notin {"batch", "done"}
<1>0. /\ DOMAIN costs = 1..Len(pool) /\ DOMAIN pool = 1..Len(pool)
      /\ Cost(pool[i]) \in Readings(pool[i]) /\ \A c \in Readings(pool[i]) : c # Unpriced
      /\ i \in running => costs[i] = Unpriced
      /\ running # {} => stage = "threads"
  <2>1. Cost(pool[i]) \in Readings(pool[i]) /\ \A c \in Readings(pool[i]) : c # Unpriced
    BY ReadingFacts
  <2> QED BY <2>1, BatchFacts DEF ShapeInv, CostInv
<1>1. CASE StartBatch \/ EndBatch
  <2>1. CASE StartBatch
    BY <1>0, <2>1 DEF StartBatch, Goto
  <2>2. CASE EndBatch
    BY <1>0, <2>2 DEF EndBatch, InBatch, Waiting, Goto
  <2> QED BY <1>1, <2>1, <2>2
<1>2. ASSUME NEW j \in Batch, NEW c \in Readings(pool[j]), costs' = [costs EXCEPT ![j] = c]
      PROVE  (costs'[i] = costs[i] \/ costs'[i] \in Readings(pool[i])) /\ (i # j => costs'[i] = costs[i])
  BY <1>0, <1>2
<1>3. CASE EvaluateNext
  <2>1. Min(Waiting) \in Batch
    BY <1>3, NextWaits, BatchFacts DEF EvaluateNext
  <2>2. /\ costs' = [costs EXCEPT ![Min(Waiting)] = Read(pool[Min(Waiting)])]
        /\ stage = "sequential" /\ stage' = stage /\ running' = running
    BY <1>3 DEF EvaluateNext
  <2>3. Read(pool[Min(Waiting)]) \in Readings(pool[Min(Waiting)])
    BY <2>1, BatchFacts, ReadingFacts
  <2> QED BY <1>0, <1>2, <2>1, <2>2, <2>3
<1>4. CASE StandardPool \/ CloudpicklePool
  <2>1. /\ stage \in {"processes", "cloudpickle"} /\ running' = running
        /\ \/ PoolAnswers /\ stage' = "choose"
           \/ costs' = costs /\ stage' \in {"cloudpickle", "threads", "BrokenProcessPool"}
    BY <1>4 DEF StandardPool, CloudpicklePool, ProcessPool, PoolAnswers, PoolFails,
                PoolBreaks, Goto
  <2>2. running = {}
    BY <1>0, <2>1
  <2>3. PoolAnswers => costs'[i] = IF i \in Batch THEN Cost(pool[i]) ELSE costs[i]
    BY <1>0 DEF PoolAnswers
  <2> QED BY <1>0, <2>1, <2>2, <2>3
<1>5. CASE StartThread
  <2>1. Min(Waiting) \in Batch /\ Min(Waiting) \notin running
    BY <1>5, NextWaits, BatchFacts DEF StartThread
  <2>2. /\ stage = "threads" /\ stage' = stage
        /\ \/ /\ costs' = [costs EXCEPT ![Min(Waiting)] = Read(pool[Min(Waiting)])]
              /\ running' = running
           \/ costs' = costs /\ running' = running \cup {Min(Waiting)}
    BY <1>5 DEF StartThread
  <2>3. costs[Min(Waiting)] = Unpriced
    BY <1>5, NextWaits DEF StartThread, Waiting
  <2>4. Read(pool[Min(Waiting)]) \in Readings(pool[Min(Waiting)])
    BY <2>1, BatchFacts, ReadingFacts
  <2> QED BY <1>0, <1>2, <2>1, <2>2, <2>3, <2>4
<1>6. ASSUME NEW j \in Batch, FinishThread(j)
      PROVE  /\ (costs'[i] = costs[i] \/ costs'[i] \in Readings(pool[i])) /\ (i # j => costs'[i] = costs[i])
             /\ running' = running \ {j} /\ stage' = "threads"
  <2>1. /\ stage = "threads" /\ stage' = stage
        /\ costs' = [costs EXCEPT ![j] = Cost(pool[j])] /\ running' = running \ {j}
    BY <1>6 DEF FinishThread
  <2>2. Cost(pool[j]) \in Readings(pool[j])
    BY BatchFacts, ReadingFacts
  <2> QED BY <1>2, <2>1, <2>2
<1>7. CASE \E j \in Batch : FinishThread(j)
  BY <1>0, <1>6, <1>7
<1> QED BY <1>1, <1>3, <1>4, <1>5, <1>7 DEF BatchStep

\* An empty pool has its costs.
LEMMA CostBegins == ConstructionInit => CostInv
<1> SUFFICES ASSUME ConstructionInit PROVE CostInv
  OBVIOUS
<1>1. pool = <<>> /\ running = {} /\ stage = "validate" /\ call \in Calls
  BY DEF ConstructionInit
<1>2. Len(pool) = 0 /\ Seeds \in {0, 1}
  BY <1>1, SizeFacts
<1> QED BY <1>1, <1>2 DEF CostInv, Batch

\* Every step leaves each candidate unpriced or at a reading of its own.
LEMMA CostStep ==
  ASSUME ShapeInv, CostInv, [ConstructionNext]_constructionVars
  PROVE  CostInv'
<1>0. call \in Calls /\ Seeds \in {0, 1} /\ Len(pool) \in Nat
      /\ (running # {} => stage = "threads")
  BY SizeFacts, BatchFacts DEF ShapeInv
<1>1. call' = call => Seeds' = Seeds /\ Batch' = (Seeds + 1)..Len(pool')
  BY SameCall DEF Batch
<1>2. CASE Validate \/ NoSeed
  <2>1. call' = call /\ pool' = pool /\ running' = {} /\ pool = <<>>
    BY <1>0, <1>2 DEF Validate, NoSeed, inputs, ShapeInv, Unseeded
  <2>2. Len(pool') = 0
    BY <2>1
  <2> QED BY <1>0, <1>1, <2>1, <2>2 DEF CostInv
<1>7. call' = call /\ pool' = pool => \A s : Readings(s)' = Readings(s)
  BY SameCall DEF Readings, Twins, Evaluated
<1>3. CASE FailHeuristic \/ Choose \/ UNCHANGED constructionVars
  <2>1. /\ call' = call /\ pool' = pool /\ costs' = costs /\ running' = running
        /\ \/ stage = "heuristic" /\ stage' = "IndexError"
           \/ stage = "choose" /\ stage' = "done"
           \/ stage' = stage
    BY <1>3 DEF FailHeuristic, Choose, constructionVars, inputs, Goto
  <2>2. Batch' = Batch
    BY <1>1, <2>1 DEF Batch
  <2> QED BY <1>1, <1>7, <2>1, <2>2 DEF CostInv
<1>4. CASE Seed
  <2>1. /\ stage = "seed" /\ stage' = "heuristic" /\ call' = call /\ running' = running
        /\ call.guess # <<>>
    BY <1>4 DEF Seed, Goto, inputs
  <2>2. PICK s \in Candidates : pool' = <<s>> /\ costs' = <<Read(s)>>
    <3>1. PICK raw \in SeedPoints :
            pool' = <<RoundTail(raw)>> /\ costs' = <<Read(RoundTail(raw))>>
      BY <1>4 DEF Seed, SeedPoints
    <3>2. RoundTail(raw) \in Candidates
      BY <1>0, <2>1, SeedPointBoxed, SeedFits
    <3> QED BY <3>1, <3>2
  <2>3. Read(s) # Unpriced /\ Read(s) \in Readings(s)'
    <3>1. Evaluated \subseteq Evaluated' /\ s \in Evaluated'
      BY <2>1, <2>2 DEF ShapeInv, Unseeded, Evaluated
    <3>2. \A t : Key(t)' = Key(t)
      BY <2>1, SameCall
    <3>3. call.caching \in BOOLEAN
      BY <1>0, CallFacts
    <3>4. \/ Read(s) = Cost(s)
          \/ call.caching /\ \E t \in Evaluated : Key(t) = Key(s) /\ Read(s) = Cost(t)
      BY ReadIsInteger
    <3>5. s \in Twins(s)'
      BY <2>1, <3>1, <3>2, <3>3 DEF Twins
    <3>6. call.caching => \A t \in Evaluated : Key(t) = Key(s) => t \in Twins(s)'
      BY <2>1, <3>1, <3>2 DEF Twins
    <3> QED BY <3>4, <3>5, <3>6, ReadIsInteger DEF Readings
  <2>5. /\ Seeds = 1 /\ Len(pool') = 1 /\ Batch' = {} /\ pool'[1] = s /\ costs'[1] = Read(s)
        /\ Seeds' = 1 /\ Unpriced' = Unpriced
    BY <1>1, <2>1, <2>2 DEF Seeds, Unpriced
  <2>6. ASSUME NEW i \in 1..Len(pool')
        PROVE  costs'[i] # Unpriced /\ costs'[i] \in Readings(pool[i])'
    BY <2>3, <2>5
  <2> QED BY <2>5, <2>6 DEF CostInv
<1>5. CASE AddHeuristic \/ AddRandom
  <2>1. /\ stage \in Building /\ call' = call /\ running' = running
        /\ costs' = Append(costs, Unpriced)
        /\ stage = "heuristic" => ~NoPartner /\ \E s \in Heuristics : pool' = Append(pool, s)
        /\ stage = "random" => \E s \in Randoms : pool' = Append(pool, s)
        /\ stage' \in {"heuristic", "random", "batch"}
    BY <1>5 DEF AddHeuristic, AddRandom, Add, Goto, inputs, Building
  <2>2. PICK s \in Candidates : pool' = Append(pool, s)
    BY <1>0, <2>1, HeuristicsFit, RandomsFit DEF Fits, Building
  <2>3. /\ Len(pool') = Len(pool) + 1
        /\ \A i \in 1..Len(pool) : pool'[i] = pool[i] /\ costs'[i] = costs[i]
        /\ costs'[Len(pool) + 1] = Unpriced
    BY <2>1, <2>2, AddedShape
  <2>4. Seeds <= Len(pool)
    BY <1>0, <2>1, SizeFacts DEF ShapeInv, Building
  <2>5. /\ \A i \in 1..Len(pool) : /\ costs[i] # Unpriced => costs[i] \in Readings(pool[i])
                                   /\ i <= Seeds => costs[i] # Unpriced
                                   /\ i > Seeds => costs[i] = Unpriced
    BY <1>0, <2>1 DEF CostInv, Building, Batch
  <2>11. \A t : Readings(t) \subseteq Readings(t)'
    BY <1>0, <2>1, <2>2, <2>3, BatchFacts, AddedShape, ReadingsGrow
  <2>6. \A i \in 1..Len(pool') : /\ costs'[i] # Unpriced => costs'[i] \in Readings(pool[i])'
                                 /\ i <= Seeds => costs'[i] # Unpriced
                                 /\ i > Seeds => costs'[i] = Unpriced
    BY <1>0, <2>3, <2>4, <2>5, <2>11
  <2>7. Seeds' = Seeds /\ Batch' = (Seeds + 1)..Len(pool') /\ Len(pool') \in Nat
    BY <1>0, <1>1, <2>1, <2>3
  <2>8. \A i \in 1..Len(pool') : i <= Seeds' \/ stage' \in {"choose", "done"}
                                 => costs'[i] # Unpriced
    BY <2>1, <2>6, <2>7
  <2>9. \A i \in Batch' : i \in 1..Len(pool') /\ i > Seeds
    BY <1>0, <2>7
  <2>10. \A i \in Batch' : costs'[i] = Unpriced
    BY <2>6, <2>9
  <2> QED BY <2>6, <2>8, <2>10 DEF CostInv
<1>6. CASE BatchStep
  <2>1. call' = call /\ pool' = pool /\ running' \subseteq Batch
    BY <1>6, BatchKeepsShape
  <2>2. Batch' = Batch /\ Seeds' = Seeds /\ Len(pool') = Len(pool)
    BY <1>1, <2>1 DEF Batch
  <2>3. ASSUME NEW i \in 1..Len(pool)
        PROVE  /\ costs'[i] = costs[i] \/ costs'[i] \in Readings(pool[i])
               /\ i \notin Batch => costs'[i] = costs[i]
               /\ i \in running' => costs'[i] = costs[i] /\ costs[i] = Unpriced
               /\ stage' \in {"processes", "cloudpickle", "BrokenProcessPool"} =>
                    costs'[i] = costs[i] /\ stage \in {"batch", "processes", "cloudpickle"}
               /\ stage' = "choose" /\ i \in Batch => costs'[i] # Unpriced
               /\ stage' \notin {"batch", "done"}
    BY <1>6, BatchPrices
  <2>4. \A i \in 1..Len(pool) : /\ \A c \in Readings(pool[i]) : c # Unpriced
                                /\ i \in Batch <=> i > Seeds
    BY <1>0, ReadingFacts DEF Batch
  <2>5. stage' \in Built
    BY <1>6, BatchKeepsShape
  <2>6. ASSUME NEW i \in 1..Len(pool')
        PROVE  /\ costs'[i] # Unpriced => costs'[i] \in Readings(pool[i])'
               /\ i <= Seeds' \/ stage' \in {"choose", "done"} => costs'[i] # Unpriced
    BY <1>0, <1>7, <2>1, <2>2, <2>3, <2>4 DEF CostInv
  <2>7. ASSUME NEW i \in Batch',
               i \in running' \/ stage' \notin {"sequential", "threads", "choose", "done"}
        PROVE  costs'[i] = Unpriced
    <3>1. i \in Batch /\ i \in 1..Len(pool)
      BY <2>2, <2>7, BatchFacts
    <3> QED BY <2>3, <2>5, <2>7, <3>1 DEF CostInv, Built
  <2> QED BY <2>6, <2>7 DEF CostInv
<1> QED BY <1>2, <1>3, <1>4, <1>5, <1>6, NextSplits

(* The stages hand a batch over with its shape, and each cost at the place  *)
(* of its candidate.                                                       *)
LEMMA ShapesAndCosts == ConstructionSpec => [](ShapeInv /\ CostInv)
<1>1. ConstructionInit => ShapeInv /\ CostInv
  BY ShapeBegins, CostBegins
<1>2. ShapeInv /\ CostInv /\ [ConstructionNext]_constructionVars => ShapeInv' /\ CostInv'
  BY ShapeStep, CostStep
<1> QED BY <1>1, <1>2, PTL DEF ConstructionSpec

(* Costs belong to the candidates at their places, and all of them are      *)
(* there when one is chosen, for every batch, pool of processes and order   *)
(* of the threads (evaluation.py:84-121).                                  *)
THEOREM CostsAlwaysMatch == ConstructionSpec => []CostsMatch
<1>1. CostInv => CostsMatch
  BY DEF CostInv, CostsMatch, Readings
<1> QED BY <1>1, ShapesAndCosts, PTL

-----------------------------------------------------------------------------
(* The box.                                                                *)

\* An empty pool fits.
LEMMA FitBegins == ConstructionInit => FitInv
<1> SUFFICES ASSUME ConstructionInit PROVE FitInv
  OBVIOUS
<1>1. Len(pool) = 0
  BY DEF ConstructionInit
<1> QED BY <1>1 DEF FitInv

\* The integers between the bounds are those of the call.
LEMMA SameBox ==
  ASSUME call' = call
  PROVE  /\ Whole' = Whole /\ SeedWhole' = SeedWhole /\ Integral' = Integral /\ Seeds' = Seeds
         /\ \A i : Boxed(pool[i])' <=>
              \A v \in Vars : call.lower[v] <= pool'[i][v] /\ pool'[i][v] <= call.upper[v]
BY DEF Whole, SeedWhole, Integral, Seeds, Boxed, Lo, Hi, Vars

\* Every step keeps the candidates fitting.
LEMMA FitStep ==
  ASSUME ShapeInv, FitInv, [ConstructionNext]_constructionVars
  PROVE  FitInv'
<1>0. call \in Calls /\ Seeds \in {0, 1} /\ Len(pool) \in Nat
  BY SizeFacts, BatchFacts DEF ShapeInv
<1>1. call' = call
  BY NextSplits, BatchKeepsShape
     DEF Validate, Seed, NoSeed, AddHeuristic, FailHeuristic, AddRandom, Add, Choose,
         constructionVars, inputs
<1>2. ASSUME NEW s, NEW i \in 1..Len(pool'), pool'[i] = s,
             \A v \in Integral : s[v] % Unit = 0,
             Whole /\ (i <= Seeds => SeedWhole) => Boxed(s)
      PROVE  /\ \A v \in Integral' : pool'[i][v] % Unit = 0
             /\ Whole' /\ (i <= Seeds' => SeedWhole') => Boxed(pool[i])'
  BY <1>1, <1>2, SameBox DEF Boxed
<1>3. CASE pool' = pool
  <2>1. ASSUME NEW i \in 1..Len(pool')
        PROVE  /\ \A v \in Integral' : pool'[i][v] % Unit = 0
               /\ Whole' /\ (i <= Seeds' => SeedWhole') => Boxed(pool[i])'
    BY <1>2, <1>3, <2>1 DEF FitInv
  <2> QED BY <2>1 DEF FitInv
<1>4. CASE Seed
  <2>1. stage = "seed" /\ call.guess # <<>>
    BY <1>4 DEF Seed
  <2>2. PICK raw \in SeedPoints : pool' = <<RoundTail(raw)>>
    BY <1>4 DEF Seed, SeedPoints
  <2>3. /\ \A v \in Integral : RoundTail(raw)[v] % Unit = 0
        /\ SeedWhole => Boxed(RoundTail(raw))
    BY <1>0, <2>1, SeedPointBoxed, SeedFits
  <2>4. Seeds = 1 /\ Len(pool') = 1 /\ pool'[1] = RoundTail(raw)
    BY <2>1, <2>2 DEF Seeds
  <2>5. ASSUME NEW i \in 1..Len(pool')
        PROVE  /\ \A v \in Integral' : pool'[i][v] % Unit = 0
               /\ Whole' /\ (i <= Seeds' => SeedWhole') => Boxed(pool[i])'
    <3>1. i <= Seeds /\ pool'[i] = RoundTail(raw)
      BY <2>4
    <3> QED BY <1>2, <2>3, <3>1
  <2> QED BY <2>5 DEF FitInv
<1>5. CASE AddHeuristic \/ AddRandom
  <2>1. /\ stage \in Building /\ costs' = Append(costs, Unpriced)
        /\ stage = "heuristic" => ~NoPartner /\ \E s \in Heuristics : pool' = Append(pool, s)
        /\ stage = "random" => \E s \in Randoms : pool' = Append(pool, s)
    BY <1>5 DEF AddHeuristic, AddRandom, Add, Building
  <2>2. PICK s : pool' = Append(pool, s) /\ Fits(s)
    BY <1>0, <2>1, HeuristicsFit, RandomsFit DEF Building
  <2>3. s \in Candidates /\ (\A v \in Integral : s[v] % Unit = 0) /\ (Whole => Boxed(s))
    BY <2>2 DEF Fits
  <2>4. /\ Len(pool') = Len(pool) + 1 /\ pool'[Len(pool) + 1] = s
        /\ \A i \in 1..Len(pool) : pool'[i] = pool[i]
    BY <2>1, <2>2, <2>3, AddedShape
  <2>5. ASSUME NEW i \in 1..Len(pool')
        PROVE  /\ \A v \in Integral' : pool'[i][v] % Unit = 0
               /\ Whole' /\ (i <= Seeds' => SeedWhole') => Boxed(pool[i])'
    <3>1. CASE i \in 1..Len(pool)
      BY <1>2, <2>4, <3>1 DEF FitInv
    <3>2. CASE i = Len(pool) + 1
      BY <1>2, <2>3, <2>4, <3>2
    <3> QED BY <1>0, <2>4, <3>1, <3>2
  <2> QED BY <2>5 DEF FitInv
<1>6. \/ Seed \/ AddHeuristic \/ AddRandom \/ pool' = pool
  BY NextSplits, BatchKeepsShape
     DEF Validate, NoSeed, FailHeuristic, Choose, constructionVars
<1> QED BY <1>3, <1>4, <1>5, <1>6

(* Integers where integers belong, every candidate in the box as far as it  *)
(* has room for them, and a batch of the size asked for, whatever bounds,   *)
(* guess and pool size (candidates.py:26-106).                             *)
THEOREM CandidatesAlwaysFit == ConstructionSpec => []CandidatesFit
<1>1. ShapeInv => ConstructionTypeOK
  <2> SUFFICES ASSUME ShapeInv PROVE ConstructionTypeOK
    OBVIOUS
  <2>1. /\ call \in Calls /\ Len(costs) = Len(pool) /\ Len(pool) \in Nat
        /\ running \subseteq Batch /\ Cardinality(running) <= call.workers
    BY BatchFacts DEF ShapeInv
  <2>2. \A i \in 1..Len(pool) : DOMAIN pool[i] = Vars
    BY <2>1, BatchFacts, CandidateFacts
  <2>3. /\ Len(pool) <= Size /\ (stage \in {"done", "choose"} => Len(pool) = Size)
    <3>1. /\ PoolSize \in Nat /\ Seeds \in {0, 1} /\ HeuristicSize \in Nat
          /\ PoolSize <= Size /\ Seeds + HeuristicSize <= Size
          /\ Size \in {PoolSize, Seeds + 1}
      BY <2>1, SizeFacts
    <3>2. CASE stage \in Unseeded
      <4>1. Len(pool) = 0
        BY <3>2 DEF ShapeInv
      <4> QED BY <3>1, <3>2, <4>1 DEF Unseeded
    <3>3. CASE stage \in {"heuristic", "IndexError", "random"}
      BY <2>1, <3>1, <3>3 DEF ShapeInv
    <3>4. CASE stage \in Built
      BY <3>1, <3>4 DEF ShapeInv
    <3> QED BY <3>2, <3>3, <3>4 DEF ShapeInv, Building
  <2> QED BY <2>1, <2>2, <2>3 DEF ConstructionTypeOK, Size
<1>2. ShapeInv /\ FitInv => CandidatesFit
  <2> SUFFICES ASSUME ShapeInv, FitInv PROVE CandidatesFit
    OBVIOUS
  <2>1. Seeds \in {0, 1}
    BY SizeFacts DEF ShapeInv
  <2>2. \A i \in 1..Len(pool) : i <= Seeds <=> i = 1 /\ Seeds = 1
    BY <2>1, BatchFacts
  <2> QED BY <1>1, <2>2 DEF FitInv, CandidatesFit, Whole, SeedWhole, Boxed
<1>3. ConstructionInit => ShapeInv /\ FitInv
  BY ShapeBegins, FitBegins
<1>4. ShapeInv /\ FitInv /\ [ConstructionNext]_constructionVars => ShapeInv' /\ FitInv'
  BY ShapeStep, FitStep
<1> QED BY <1>2, <1>3, <1>4, PTL DEF ConstructionSpec

-----------------------------------------------------------------------------
(* The choice.                                                             *)

(* What is worthy as it was read is worthy without a cache.                *)
LEMMA WorthyFromCosts ==
  ASSUME call' = call, costs' = costs, pool' = pool, DOMAIN pool = 1..Len(pool),
         ~call.caching => \A j \in 1..Len(pool) : costs[j] = Cost(pool[j]),
         NEW i \in 1..Len(pool), chosen' = pool[i],
         (\E j \in 1..Len(pool) : costs[j] # Infinity) => costs[i] # Infinity,
         alpha' = 0 => \A j \in 1..Len(pool) : costs[i] <= costs[j]
  PROVE  ChosenWorthy'
BY DEF ChosenWorthy

(* At the end of the batch the restricted list is drawn from the feasible   *)
(* candidates, and with alpha zero holds the cheapest only.                *)
LEMMA ChooseWorthy ==
  ASSUME ShapeInv, CostInv, Choose
  PROVE  ChosenWorthy'
<1>1. /\ stage = "choose" /\ pool' = pool /\ call \in Calls
      /\ \/ Feasible # {} /\ \E i \in RestrictedList(alpha') : chosen' = pool[i]
         \/ Feasible = {} /\ chosen' = pool[1]
  BY DEF Choose, ShapeInv
<1>0. call' = call /\ costs' = costs /\ pool' = pool
  BY DEF Choose
<1>2. /\ DOMAIN pool = 1..Len(pool) /\ DOMAIN costs = 1..Len(pool) /\ Len(pool) \in Nat
      /\ \A i \in 1..Len(pool) : /\ ~call.caching => costs[i] = Cost(pool[i])
                                 /\ costs[i] \in Int /\ costs[i] <= Infinity
  <2>1. ASSUME NEW i \in 1..Len(pool)
        PROVE  costs[i] \in Readings(pool[i])
    BY <1>1, <2>1 DEF CostInv
  <2>2. \A i \in 1..Len(pool) : costs[i] \in Int /\ costs[i] <= Infinity
    BY <2>1, ReadingFacts
  <2> QED BY <1>1, <2>1, <2>2, BatchFacts DEF Readings, Twins
<1>3. Feasible = {i \in 1..Len(pool) : costs[i] # Infinity} /\ Infinity \in Int
  BY <1>2, ConstructionAssumption DEF Feasible
<1>4. CASE Feasible = {}
  <2>1. 1 \in 1..Len(pool)
    BY <1>1, <1>2, SizeFacts DEF ShapeInv, Built
  <2>2. \A i \in 1..Len(pool) : costs[i] = Infinity
    BY <1>2, <1>3, <1>4
  <2>3. chosen' = pool[1]
    BY <1>1, <1>4
  <2> QED BY <1>0, <1>2, <1>3, <2>1, <2>2, <2>3, WorthyFromCosts
<1>5. CASE Feasible # {}
  <2> DEFINE S == {costs[i] : i \in Feasible}
  <2>1. PICK i \in RestrictedList(alpha') : chosen' = pool[i]
    BY <1>1, <1>5
  <2>2. /\ i \in Feasible
        /\ 100 * costs[i] <= 100 * Min(S) + alpha' * (Max(S) - Min(S))
    BY <2>1 DEF RestrictedList
  <2>3. S \subseteq Int /\ S # {} /\ (\A y \in S : y <= Infinity)
    BY <1>2, <1>3, <1>5
  <2>4. IsFiniteSet(S)
    <3>1. IsFiniteSet(1..Len(pool)) /\ Feasible \in SUBSET (1..Len(pool))
      BY <1>2, <1>3, FS_Interval
    <3>2. IsFiniteSet(Feasible)
      BY <3>1, FS_Subset, Zenon
    <3> QED BY <3>2, ImageIsFinite
  <2>5. Min(S) \in S /\ \A y \in S : Min(S) <= y
    BY <2>3, <2>4, FiniteSetsHaveLeast
  <2>6. Max(S) \in S
    BY <1>3, <2>3, BoundedHaveGreatest
  <2>7. costs[i] # Infinity /\ costs[i] \in Int /\ i \in 1..Len(pool)
    BY <1>2, <1>3, <2>1, <2>2
  <2>8. ASSUME alpha' = 0, NEW j \in 1..Len(pool) PROVE costs[i] <= costs[j]
    <3>1. Min(S) \in Int /\ Max(S) \in Int
      BY <2>3, <2>5, <2>6
    <3>2. costs[i] <= Min(S)
      <4> HIDE DEF S
      <4>1. 0 * (Max(S) - Min(S)) = 0
        BY <3>1
      <4>2. 100 * costs[i] <= 100 * Min(S) + 0
        BY <2>2, <2>8, <4>1
      <4> QED BY <2>7, <3>1, <4>2
    <3>3. CASE costs[j] = Infinity
      BY <1>2, <1>3, <2>2, <2>7, <3>3
    <3>4. CASE costs[j] # Infinity
      <4>1. costs[j] \in S
        BY <1>3, <3>4
      <4>2. Min(S) <= costs[j]
        BY <2>5, <4>1
      <4> HIDE DEF S
      <4> QED BY <1>2, <2>7, <3>1, <3>2, <4>2
    <3> QED BY <3>3, <3>4
  <2> QED BY <1>0, <1>2, <2>1, <2>7, <2>8, WorthyFromCosts
<1> QED BY <1>4, <1>5

(* The solution returned was read as feasible if any candidate was, and     *)
(* with alpha zero none - not even the seed - was read as cheaper; without  *)
(* a cache so it is, for every cost and schedule of alpha (rcl.py:18-39).   *)
THEOREM ChosenAlwaysWorthy == ConstructionSpec => []ChosenWorthy
<1>1. ConstructionInit => ChosenWorthy
  BY DEF ConstructionInit, ChosenWorthy
<1>2. ASSUME ShapeInv, CostInv, ChosenWorthy, [ConstructionNext]_constructionVars
      PROVE  ChosenWorthy'
  <2>1. CASE Choose
    BY <1>2, <2>1, ChooseWorthy
  <2>2. CASE UNCHANGED constructionVars
    BY <1>2, <2>2 DEF ChosenWorthy, constructionVars
  <2>3. CASE Validate \/ Seed \/ NoSeed \/ AddHeuristic \/ FailHeuristic \/ AddRandom
    <3>1. stage' # "done"
      BY <2>3 DEF Validate, Seed, NoSeed, AddHeuristic, FailHeuristic, AddRandom, Add, Goto
    <3> QED BY <3>1 DEF ChosenWorthy
  <2>4. CASE BatchStep
    <3>1. 1 \in 1..Len(pool)
      <4>1. stage \in Built /\ call \in Calls
        BY <1>2, <2>4, BatchKeepsShape DEF ShapeInv
      <4>2. Len(pool) = Size /\ Size >= 1 /\ Len(pool) \in Nat
        BY <1>2, <4>1, SizeFacts, BatchFacts DEF ShapeInv
      <4> QED BY <4>2
    <3>2. stage' # "done"
      BY <1>2, <2>4, <3>1, BatchPrices
    <3> QED BY <3>2 DEF ChosenWorthy
  <2> QED BY <1>2, <2>1, <2>2, <2>3, <2>4, NextSplits
<1> QED BY <1>1, <1>2, ShapesAndCosts, PTL DEF ConstructionSpec

-----------------------------------------------------------------------------
(* The calls of the objective.                                             *)

(* What has been priced is finite, in the batch, and none of it at first.   *)
LEMMA CountFacts ==
  ASSUME ShapeInv
  PROVE  /\ IsFiniteSet(Priced) /\ Cardinality(Priced) \in Nat
         /\ IsFiniteSet(News) /\ Cardinality(News) \in Nat
         /\ Priced = {} => Cardinality(Priced) = 0
<1>1. IsFiniteSet(Batch) /\ Len(pool) \in Nat
  BY BatchFacts
<1>2. Priced \in SUBSET Batch
  BY DEF Priced
<1>3. IsFiniteSet(Priced)
  BY <1>1, <1>2, FS_Subset, Zenon
<1> DEFINE J == {j \in 1..Len(pool) : costs[j] # Unpriced}
           k == [i \in 1..Len(pool) |-> Key(pool[i])]
<1>4. IsFiniteSet(1..Len(pool)) /\ J \in SUBSET (1..Len(pool))
  BY <1>1, FS_Interval
<1>5. IsFiniteSet(J)
  BY <1>4, FS_Subset, Zenon
<1>6. Known = {k[i] : i \in J}
  BY DEF Known
<1> HIDE DEF J, k
<1>7. IsFiniteSet(Known)
  BY <1>5, <1>6, ImageIsFinite
<1>8. News \in SUBSET Known
  BY DEF News
<1>9. IsFiniteSet(News)
  BY <1>7, <1>8, FS_Subset, Zenon
<1> QED BY <1>3, <1>9, FS_CardinalityType, FS_EmptySet

(* One more candidate priced is one more of the batch, and at most one more *)
(* key: none if the cache held it.                                         *)
LEMMA PriceOne ==
  ASSUME ShapeInv, call' = call, pool' = pool, inherited' = inherited,
         NEW i \in Batch, costs[i] = Unpriced, NEW c \in Readings(pool[i]),
         costs' = [costs EXCEPT ![i] = c]
  PROVE  /\ Cardinality(Priced') = Cardinality(Priced) + 1
         /\ Known' = Known \cup {Key(pool[i])}
         /\ Cardinality(News') \in Nat /\ Cardinality(News') <= Cardinality(News) + 1
         /\ Key(pool[i]) \in inherited \cup Known => News' = News
<1>1. Batch' = Batch /\ Unpriced' = Unpriced /\ \A t : Key(t)' = Key(t)
  BY SameCall DEF Batch, Unpriced
<1>2. i \in 1..Len(pool) /\ DOMAIN costs = 1..Len(pool) /\ Batch \subseteq 1..Len(pool)
      /\ c # Unpriced
  BY BatchFacts, ReadingFacts
<1>3. \A j \in 1..Len(pool) : costs'[j] = IF j = i THEN c ELSE costs[j]
  BY <1>2
<1>4. Priced' = Priced \cup {i} /\ i \notin Priced
  BY <1>1, <1>2, <1>3 DEF Priced
<1>5. Known' = Known \cup {Key(pool[i])}
  <2> DEFINE J == {j \in 1..Len(pool) : costs[j] # Unpriced}
  <2>1. {j \in 1..Len(pool') : costs'[j] # Unpriced'} = J \cup {i}
    BY <1>1, <1>2, <1>3
  <2>2. Known' = {Key(pool[j])' : j \in J \cup {i}}
    BY <2>1 DEF Known
  <2>3. \A j \in J \cup {i} : Key(pool[j])' = Key(pool[j])
    BY SameCall DEF Key
  <2> QED BY <2>2, <2>3 DEF Known
<1>6. IsFiniteSet(Priced) /\ IsFiniteSet(News) /\ Cardinality(News) \in Nat
      /\ IsFiniteSet({Key(pool[i])}) /\ Cardinality({Key(pool[i])}) = 1
  BY CountFacts, FS_Singleton
<1>7. News' \subseteq News \cup {Key(pool[i])}
  BY <1>5 DEF News
<1>8. Cardinality(News') \in Nat /\ Cardinality(News') <= Cardinality(News) + 1
  BY <1>6, <1>7, GrowsByAtMost
<1>9. Cardinality(Priced \cup {i}) = Cardinality(Priced) + 1
  BY <1>4, <1>6, FS_AddElement
<1> QED BY <1>4, <1>5, <1>8, <1>9 DEF News

\* At first nothing has been called.
LEMMA TallyBegins == ConstructionInit => TallyInv /\ PooledInv
BY DEF ConstructionInit, TallyInv, PooledInv, Unseeded

\* Calls that nfev misses are made by pools of processes.
LEMMA PooledStep ==
  ASSUME ShapeInv, TallyInv, PooledInv, [ConstructionNext]_constructionVars
  PROVE  PooledInv'
<1>1. call' = call /\ pool' = pool => (Pooled' <=> Pooled)
  BY SameCall DEF Pooled, Sequentially, Batch
<1>2. /\ nfev \in Nat /\ calls \in Nat /\ wasted \in Nat
      /\ stage \notin {"cloudpickle", "BrokenProcessPool", "threads", "choose", "done"} =>
           nfev = calls /\ wasted = 0
  BY DEF TallyInv, PooledInv
<1>3. CASE Validate \/ NoSeed \/ FailHeuristic
  BY <1>2, <1>3 DEF Validate, NoSeed, FailHeuristic, Goto, PooledInv
<1>4. CASE Seed
  <2>1. stage = "seed" /\ stage' = "heuristic" /\ wasted' = wasted
        /\ \E n \in {1, 2} : Called(n)
    BY <1>4 DEF Seed, Goto, Evaluate
  <2> QED BY <1>2, <2>1 DEF Called, PooledInv
<1>5. CASE AddHeuristic \/ AddRandom
  <2>1. /\ stage \in {"heuristic", "random"} /\ stage' \in {"heuristic", "random", "batch"}
        /\ UNCHANGED <<nfev, calls, wasted>>
    BY <1>5 DEF AddHeuristic, AddRandom, Add, Goto
  <2> QED BY <1>2, <2>1 DEF PooledInv
<1>6. CASE Choose \/ EndBatch \/ UNCHANGED constructionVars
  <2>1. /\ call' = call /\ pool' = pool /\ UNCHANGED <<nfev, calls, wasted>>
        /\ \/ stage \in {"choose", "sequential", "threads"} /\ stage' \in {"choose", "done"}
           \/ stage' = stage
    BY <1>6 DEF Choose, EndBatch, InBatch, Goto, constructionVars, inputs
  <2> QED BY <1>1, <1>2, <2>1 DEF PooledInv
<1>7. CASE StartBatch
  <2>1. /\ call' = call /\ pool' = pool /\ UNCHANGED <<nfev, calls, wasted>>
        /\ stage = "batch" /\ stage' \in {"sequential", "threads", "processes"}
        /\ stage' = "processes" => Pooled
    BY <1>7 DEF StartBatch, Goto, inputs, Pooled
  <2> QED BY <1>1, <1>2, <2>1 DEF PooledInv
<1>8. CASE EvaluateNext
  <2>1. stage = "sequential" /\ stage' = stage /\ wasted' = wasted /\ \E n \in {0, 1} : Called(n)
    BY <1>8 DEF EvaluateNext, Evaluate
  <2> QED BY <1>2, <2>1 DEF Called, PooledInv
<1>9. CASE StandardPool \/ CloudpicklePool
  <2>1. /\ call' = call /\ pool' = pool /\ stage \in {"processes", "cloudpickle"}
        /\ stage' \in {"choose", "cloudpickle", "threads", "BrokenProcessPool"}
    BY <1>9 DEF StandardPool, CloudpicklePool, ProcessPool, PoolAnswers, PoolFails,
                PoolBreaks, Goto, inputs
  <2> QED BY <1>1, <2>1 DEF PooledInv
<1>10. CASE StartThread \/ \E i \in Batch : FinishThread(i)
  <2>1. /\ call' = call /\ pool' = pool /\ stage = "threads" /\ stage' = stage
        /\ wasted' = wasted /\ (UNCHANGED <<nfev, calls>> \/ Called(1))
    BY <1>10 DEF StartThread, FinishThread, inputs
  <2> QED BY <1>1, <1>2, <2>1 DEF Called, PooledInv
<1> QED BY <1>3, <1>4, <1>5, <1>6, <1>7, <1>8, <1>9, <1>10, NextSplits DEF BatchStep

\* A step that leaves costs, cache and counters alone.
LEMMA TallyKept ==
  ASSUME TallyInv, UNCHANGED <<call, inherited, pool, costs, cached, nfev, calls, wasted>>,
         stage' \in Unseeded <=> stage \in Unseeded
  PROVE  TallyInv'
<1>1. Seeds' = Seeds /\ Priced' = Priced
  BY SameCall DEF Priced, Batch, Unpriced
<1>2. (stage' \in Unseeded') <=> (stage \in Unseeded)
  BY DEF Unseeded
<1>3. Known' = Known /\ News' = News
  BY DEF Known, News, Key, Vars, Integral, Unpriced
<1> QED BY <1>1, <1>2, <1>3 DEF TallyInv

\* While the pool is built, nothing of the batch is priced.
LEMMA NothingPriced ==
  ASSUME ShapeInv, CostInv,
         stage \notin {"sequential", "threads", "choose", "done"}
  PROVE  Priced = {} /\ Cardinality(Priced) = 0
BY FS_EmptySet DEF CostInv, Priced

\* Evaluating through the cache: found, or one call more and perhaps an entry.
LEMMA EvaluateFacts ==
  ASSUME NEW s, NEW n \in Nat, Evaluate(s, n)
  PROVE  \/ Held(s) /\ Called(n) /\ cached' = cached
         \/ ~Held(s) /\ Called(n + 1) /\ DOMAIN cached' \subseteq DOMAIN cached \cup {Key(s)}
BY DEF Evaluate, Put

\* A guess costs two calls, or one if the cache holds what it is rounded to.
LEMMA TallySeed ==
  ASSUME ShapeInv, TallyInv, Seed
  PROVE  TallyInv'
<1>1. /\ stage = "seed" /\ stage' = "heuristic" /\ call' = call /\ wasted' = wasted
      /\ inherited' = inherited /\ call.guess # <<>> /\ call \in Calls
  BY DEF Seed, Goto, inputs, ShapeInv
<1>3. PICK s \in Candidates :
        pool' = <<s>> /\ costs' = <<Read(s)>> /\ Evaluate(s, 1)
  <2>1. PICK raw \in SeedPoints :
          /\ pool' = <<RoundTail(raw)>> /\ costs' = <<Read(RoundTail(raw))>>
          /\ Evaluate(RoundTail(raw), 1)
    BY DEF Seed, SeedPoints
  <2>2. RoundTail(raw) \in Candidates
    BY <1>1, SeedPointBoxed, SeedFits
  <2> QED BY <2>1, <2>2
<1>4. /\ pool' = <<s>> /\ costs' = <<Read(s)>> /\ Read(s) # Unpriced
      /\ \/ Held(s) /\ Called(1) /\ cached' = cached
         \/ ~Held(s) /\ Called(2) /\ DOMAIN cached' \subseteq DOMAIN cached \cup {Key(s)}
  <2>1. \/ Held(s) /\ Called(1) /\ cached' = cached
        \/ ~Held(s) /\ Called(1 + 1) /\ DOMAIN cached' \subseteq DOMAIN cached \cup {Key(s)}
    BY <1>3, EvaluateFacts
  <2> QED BY <1>3, <2>1, ReadIsInteger
<1>5. Seeds = 1 /\ Seeds' = 1 /\ Batch' = {} /\ Unpriced' = Unpriced /\ Key(s)' = Key(s)
  BY <1>1, <1>4, SameCall DEF Seeds, Batch, Unpriced
<1>6. /\ Len(pool) = 0 /\ calls = 0 /\ wasted = 0 /\ nfev = 0 /\ call.caching \in BOOLEAN
      /\ call.caching => DOMAIN cached \subseteq inherited
  <2>1. pool = <<>> /\ Known = {}
    BY <1>1 DEF ShapeInv, Unseeded, Known
  <2> QED BY <1>1, <2>1, CallFacts DEF TallyInv, Unseeded
<1>7. Priced' = {} /\ Cardinality(Priced') = 0
  BY <1>5, FS_EmptySet DEF Priced
<1>8. Known' = {Key(s)} /\ News' = {Key(s)} \ inherited
  <2>1. pool'[1] = s /\ costs'[1] = Read(s) /\ Len(pool') = 1
    BY <1>4
  <2>2. {j \in 1..Len(pool') : costs'[j] # Unpriced'} = {1}
    BY <1>4, <1>5, <2>1
  <2>3. Known' = {Key(pool[j])' : j \in {1}}
    BY <2>2 DEF Known
  <2>4. Key(pool[1])' = Key(s)'
    BY <2>1 DEF Key
  <2>5. Known' = {Key(s)}
    BY <1>5, <2>3, <2>4
  <2> QED BY <1>1, <2>5 DEF News
<1>9. Cardinality(News') \in Nat /\ Cardinality(News') <= 1
      /\ (Key(s) \in inherited => Cardinality(News') = 0)
  <2>1. IsFiniteSet({Key(s)}) /\ Cardinality({Key(s)}) = 1 /\ News' \in SUBSET {Key(s)}
    BY <1>8, FS_Singleton
  <2>2. IsFiniteSet(News') /\ Cardinality(News') <= 1
    BY <2>1, FS_Subset
  <2>3. Key(s) \in inherited => News' = {}
    BY <1>8
  <2> QED BY <2>2, <2>3, FS_CardinalityType, FS_EmptySet
<1>10. CASE Held(s) /\ Called(1) /\ cached' = cached
  <2>1. calls' = 1 /\ nfev' = 1 /\ call.caching /\ Key(s) \in inherited
    BY <1>6, <1>10 DEF Called, Held
  <2> QED BY <1>1, <1>5, <1>6, <1>7, <1>8, <1>9, <1>10, <2>1 DEF TallyInv, Unseeded
<1>11. CASE ~Held(s) /\ Called(2) /\ DOMAIN cached' \subseteq DOMAIN cached \cup {Key(s)}
  <2>1. calls' = 2 /\ nfev' = 2
    BY <1>6, <1>11 DEF Called
  <2>2. call'.caching => DOMAIN cached' \subseteq inherited' \cup Known'
    BY <1>1, <1>6, <1>8, <1>11
  <2> QED BY <1>1, <1>5, <1>6, <1>7, <1>9, <2>1, <2>2 DEF TallyInv, Unseeded
<1> QED BY <1>4, <1>10, <1>11

\* A candidate added costs no call yet.
LEMMA TallyAdd ==
  ASSUME ShapeInv, CostInv, TallyInv, AddHeuristic \/ AddRandom
  PROVE  TallyInv'
<1>1. /\ stage \in Building /\ stage' \in {"heuristic", "random", "batch"} /\ call' = call
      /\ UNCHANGED <<inherited, cached, nfev, calls, wasted>> /\ costs' = Append(costs, Unpriced)
      /\ stage = "heuristic" => ~NoPartner /\ \E s \in Heuristics : pool' = Append(pool, s)
      /\ stage = "random" => \E s \in Randoms : pool' = Append(pool, s)
      /\ call \in Calls
  BY DEF AddHeuristic, AddRandom, Add, Goto, inputs, Building, ShapeInv
<1>2. PICK s \in Candidates : pool' = Append(pool, s)
  BY <1>1, HeuristicsFit, RandomsFit DEF Fits, Building
<1>3. /\ Len(pool') = Len(pool) + 1 /\ Len(pool) \in Nat
      /\ \A i \in 1..Len(pool) : pool'[i] = pool[i] /\ costs'[i] = costs[i]
      /\ costs'[Len(pool) + 1] = Unpriced
  BY <1>1, <1>2, AddedShape
<1>4. Seeds' = Seeds /\ Batch' = (Seeds + 1)..(Len(pool) + 1) /\ Unpriced' = Unpriced
      /\ Seeds \in {0, 1} /\ Batch = (Seeds + 1)..Len(pool)
  BY <1>1, <1>3, SameCall, SizeFacts DEF Batch, Unpriced
<1>5. Priced' = Priced
  BY <1>3, <1>4 DEF Priced
<1>6. {j \in 1..Len(pool') : costs'[j] # Unpriced} = {j \in 1..Len(pool) : costs[j] # Unpriced}
  BY <1>3
<1>7. Known' = Known
  <2> DEFINE J == {j \in 1..Len(pool) : costs[j] # Unpriced}
  <2>1. Known' = {Key(pool[i])' : i \in J}
    BY <1>4, <1>6 DEF Known
  <2>2. \A i \in J : Key(pool[i])' = Key(pool[i])
    BY <1>1, <1>3 DEF Key, Vars, Integral
  <2> QED BY <2>1, <2>2 DEF Known
<1>8. News' = News
  BY <1>1, <1>7 DEF News
<1> QED BY <1>1, <1>4, <1>5, <1>7, <1>8 DEF TallyInv, Unseeded, Building

\* Evaluating one candidate in this process, or finding it in the cache.
LEMMA TallyOne ==
  ASSUME ShapeInv, TallyInv, stage \notin Unseeded, stage' = stage, call' = call,
         pool' = pool, inherited' = inherited, wasted' = wasted, NEW i \in Batch,
         costs[i] = Unpriced, NEW c \in Readings(pool[i]), costs' = [costs EXCEPT ![i] = c],
         \/ Held(pool[i]) /\ cached' = cached /\ UNCHANGED <<nfev, calls>>
         \/ Called(1) /\ DOMAIN cached' \subseteq DOMAIN cached \cup {Key(pool[i])}
  PROVE  TallyInv'
<1>1. /\ Cardinality(Priced') = Cardinality(Priced) + 1
      /\ Known' = Known \cup {Key(pool[i])}
      /\ Cardinality(News') \in Nat /\ Cardinality(News') <= Cardinality(News) + 1
      /\ Key(pool[i]) \in inherited \cup Known => News' = News
  BY PriceOne
<1>2. /\ Cardinality(Priced) \in Nat /\ Cardinality(News) \in Nat /\ Seeds \in {0, 1}
      /\ Seeds' = Seeds
  BY CountFacts, SizeFacts, SameCall DEF ShapeInv
<1>3. call'.caching => DOMAIN cached' \subseteq inherited' \cup Known'
  BY <1>1 DEF TallyInv
<1>4. CASE Held(pool[i]) /\ cached' = cached /\ UNCHANGED <<nfev, calls>>
  <2>1. call.caching /\ Key(pool[i]) \in inherited \cup Known
    BY <1>4 DEF Held, TallyInv
  <2>2. calls' <= 2 * Seeds' + Cardinality(Priced') + wasted'
        /\ Seeds' + Cardinality(News') <= calls'
    BY <1>1, <1>2, <1>4, <2>1 DEF TallyInv
  <2> QED BY <1>3, <1>4, <2>1, <2>2 DEF TallyInv, Unseeded
<1>5. CASE Called(1)
  <2>1. nfev' = nfev + 1 /\ calls' = calls + 1
    BY <1>5 DEF Called
  <2>2. /\ calls' <= 2 * Seeds' + Cardinality(Priced') + wasted'
        /\ ~call.caching => calls' = 2 * Seeds' + Cardinality(Priced') + wasted'
        /\ call.caching => Seeds' + Cardinality(News') <= calls'
    BY <1>1, <1>2, <2>1 DEF TallyInv
  <2> QED BY <1>3, <2>1, <2>2 DEF TallyInv, Unseeded
<1> QED BY <1>4, <1>5

\* A pool of processes evaluates the whole batch, or part of it in vain.
LEMMA TallyPool ==
  ASSUME ShapeInv, CostInv, TallyInv, PooledInv, StandardPool \/ CloudpicklePool
  PROVE  TallyInv'
<1>1. /\ stage \in {"processes", "cloudpickle"} /\ call' = call /\ pool' = pool
      /\ cached' = cached /\ nfev' = nfev
      /\ stage' \in {"choose", "cloudpickle", "threads", "BrokenProcessPool"}
      /\ \/ /\ calls' = calls + Cardinality(Batch) /\ wasted' = wasted
            /\ costs' = [i \in DOMAIN costs |->
                           IF i \in Batch THEN Cost(pool[i]) ELSE costs[i]]
         \/ /\ \E done \in 0..Cardinality(Batch) :
                 calls' = calls + done /\ wasted' = wasted + done
            /\ costs' = costs
  BY DEF StandardPool, CloudpicklePool, ProcessPool, PoolAnswers, PoolFails, PoolBreaks,
         Goto, inputs
<1>2. /\ Seeds' = Seeds /\ Batch' = Batch /\ Unpriced' = Unpriced
  BY <1>1, SameCall DEF Batch, Unpriced
<1>3. /\ IsFiniteSet(Batch) /\ Cardinality(Batch) \in Nat /\ Batch \subseteq 1..Len(pool)
      /\ DOMAIN costs = 1..Len(pool) /\ Seeds \in {0, 1}
      /\ Priced = {} /\ Cardinality(Priced) = 0
  BY <1>1, BatchFacts, SizeFacts, NothingPriced DEF ShapeInv
<1>4. ~call.caching
  BY <1>1 DEF PooledInv, Pooled
<1>5. CASE /\ calls' = calls + Cardinality(Batch) /\ wasted' = wasted
           /\ costs' = [i \in DOMAIN costs |->
                          IF i \in Batch THEN Cost(pool[i]) ELSE costs[i]]
  <2>1. \A i \in Batch : Cost(pool[i]) # Unpriced
    BY <1>3, ReadingFacts
  <2>2. Priced' = Batch
    BY <1>2, <1>3, <1>5, <2>1 DEF Priced
  <2>8. Cardinality(Priced') = Cardinality(Batch)
    BY <2>2
  <2>9. /\ nfev' \in Nat /\ wasted' \in Nat
        /\ calls' <= 2 * Seeds' + Cardinality(Priced') + wasted'
        /\ ~call'.caching => calls' = 2 * Seeds' + Cardinality(Priced') + wasted'
    <3>1. /\ nfev \in Nat /\ wasted \in Nat /\ calls \in Nat
          /\ calls <= 2 * Seeds + 0 + wasted
          /\ ~call.caching => calls = 2 * Seeds + 0 + wasted
      BY <1>1, <1>3 DEF TallyInv, Unseeded
    <3>2. /\ nfev' = nfev /\ wasted' = wasted /\ calls' = calls + Cardinality(Batch)
          /\ Seeds' = Seeds /\ call' = call /\ Seeds \in {0, 1} /\ Cardinality(Batch) \in Nat
      BY <1>1, <1>2, <1>3, <1>5
    <3> QED BY <2>8, <3>1, <3>2
  <2>10. calls' \in Nat /\ nfev' <= calls'
    BY <1>1, <1>3, <1>5 DEF TallyInv
  <2> QED BY <1>1, <1>4, <2>9, <2>10 DEF TallyInv, Unseeded
<1>6. CASE /\ \E done \in 0..Cardinality(Batch) :
                calls' = calls + done /\ wasted' = wasted + done
           /\ costs' = costs
  <2>1. Priced' = Priced
    BY <1>1, <1>2, <1>6 DEF Priced
  <2>2. PICK done \in Nat : calls' = calls + done /\ wasted' = wasted + done
    BY <1>3, <1>6
  <2>3. /\ nfev \in Nat /\ calls \in Nat /\ wasted \in Nat /\ nfev <= calls
        /\ calls <= 2 * Seeds + Cardinality(Priced) + wasted
        /\ ~call.caching => calls = 2 * Seeds + Cardinality(Priced) + wasted
    BY <1>1 DEF TallyInv, Unseeded
  <2>4. /\ nfev' \in Nat /\ calls' \in Nat /\ wasted' \in Nat /\ nfev' <= calls'
        /\ calls' <= 2 * Seeds' + Cardinality(Priced') + wasted'
        /\ ~call'.caching => calls' = 2 * Seeds' + Cardinality(Priced') + wasted'
    <3>1. /\ Cardinality(Priced) = 0 /\ Cardinality(Priced') = 0 /\ Seeds' = Seeds
          /\ call' = call /\ nfev' = nfev /\ Seeds \in {0, 1}
      BY <1>1, <1>2, <1>3, <2>1
    <3>2. calls' = calls + done /\ wasted' = wasted + done /\ done \in Nat
      BY <2>2
    <3> QED BY <2>3, <3>1, <3>2
  <2> QED BY <1>1, <1>4, <2>4 DEF TallyInv, Unseeded
<1> QED BY <1>1, <1>5, <1>6

\* Every step keeps the tally.
LEMMA TallyStep ==
  ASSUME ShapeInv, CostInv, TallyInv, PooledInv, [ConstructionNext]_constructionVars
  PROVE  TallyInv'
<1>1. CASE Validate \/ FailHeuristic \/ Choose \/ UNCHANGED constructionVars \/ StartBatch
           \/ EndBatch
  <2>1. /\ UNCHANGED <<call, inherited, pool, costs, cached, nfev, calls, wasted>>
        /\ stage' \in Unseeded <=> stage \in Unseeded
    BY <1>1 DEF Validate, FailHeuristic, Choose, StartBatch, EndBatch, InBatch, Goto,
                constructionVars, inputs, Unseeded
  <2> QED BY <2>1, TallyKept
<1>2. CASE NoSeed
  <2>1. /\ UNCHANGED <<call, inherited, pool, costs, cached, nfev, calls, wasted>>
        /\ stage = "seed" /\ stage' = "heuristic" /\ Seeds = 0
    BY <1>2 DEF NoSeed, Goto, inputs, Seeds
  <2>2. Seeds' = Seeds /\ Priced' = Priced
    BY <2>1, SameCall DEF Priced, Batch, Unpriced
  <2>3. Cardinality(Priced) = 0 /\ calls = 0 /\ wasted = 0 /\ Known = {} /\ pool = <<>>
    BY <2>1, NothingPriced DEF TallyInv, Unseeded, ShapeInv, Known
  <2>4. Known' = {} /\ News' = {} /\ Cardinality(News') = 0
    BY <2>1, <2>3, FS_EmptySet DEF Known, News
  <2> QED BY <2>1, <2>2, <2>3, <2>4 DEF TallyInv, Unseeded
<1>3. CASE EvaluateNext
  <2> DEFINE i == Min(Waiting)
  <2>1. i \in Batch /\ costs[i] = Unpriced
    BY <1>3, NextWaits, BatchFacts DEF EvaluateNext, Waiting
  <2>2. /\ stage = "sequential" /\ stage' = stage /\ call' = call /\ pool' = pool
        /\ inherited' = inherited /\ wasted' = wasted
        /\ costs' = [costs EXCEPT ![i] = Read(pool[i])] /\ Evaluate(pool[i], 0)
    BY <1>3 DEF EvaluateNext, inputs
  <2> HIDE DEF i
  <2>3. \/ Held(pool[i]) /\ cached' = cached /\ UNCHANGED <<nfev, calls>>
        \/ Called(1) /\ DOMAIN cached' \subseteq DOMAIN cached \cup {Key(pool[i])}
    BY <2>2, EvaluateFacts DEF Called, TallyInv
  <2>4. Read(pool[i]) \in Readings(pool[i])
    BY <2>1, BatchFacts, ReadingFacts
  <2> QED BY <2>1, <2>2, <2>3, <2>4, TallyOne DEF Unseeded
<1>4. CASE StartThread
  <2> DEFINE i == Min(Waiting)
  <2>1. i \in Batch /\ costs[i] = Unpriced
    BY <1>4, NextWaits, BatchFacts DEF StartThread, Waiting
  <2>2. /\ stage = "threads" /\ stage' = stage
        /\ UNCHANGED <<call, inherited, pool, cached, nfev, calls, wasted>>
        /\ \/ Held(pool[i]) /\ costs' = [costs EXCEPT ![i] = Read(pool[i])]
           \/ costs' = costs
    BY <1>4 DEF StartThread, inputs
  <2> HIDE DEF i
  <2>5. Read(pool[i]) \in Readings(pool[i])
    BY <2>1, BatchFacts, ReadingFacts
  <2>3. CASE Held(pool[i]) /\ costs' = [costs EXCEPT ![i] = Read(pool[i])]
    BY <2>1, <2>2, <2>3, <2>5, TallyOne DEF Unseeded
  <2>4. CASE costs' = costs
    BY <2>2, <2>4, TallyKept DEF Unseeded
  <2> QED BY <2>2, <2>3, <2>4
<1>5. ASSUME NEW i \in Batch, FinishThread(i) PROVE TallyInv'
  <2>1. /\ stage = "threads" /\ stage' = stage /\ call' = call /\ pool' = pool
        /\ wasted' = wasted /\ costs' = [costs EXCEPT ![i] = Cost(pool[i])]
        /\ inherited' = inherited /\ Called(1) /\ i \in running
        /\ DOMAIN cached' \subseteq DOMAIN cached \cup {Key(pool[i])}
    BY <1>5 DEF FinishThread, inputs, Put
  <2>2. costs[i] = Unpriced
    BY <2>1 DEF CostInv
  <2>3. Cost(pool[i]) \in Readings(pool[i])
    BY BatchFacts, ReadingFacts
  <2> QED BY <2>1, <2>2, <2>3, TallyOne DEF Unseeded
<1> QED BY <1>1, <1>2, <1>3, <1>4, <1>5, TallySeed, TallyAdd, TallyPool, NextSplits DEF BatchStep

\* The tally with all it rests on is an invariant.
LEMMA TalliesKept == ConstructionSpec => [](ShapeInv /\ CostInv /\ TallyInv /\ PooledInv)
<1>1. ConstructionInit => ShapeInv /\ CostInv /\ TallyInv /\ PooledInv
  BY ShapeBegins, CostBegins, TallyBegins
<1>2. ShapeInv /\ CostInv /\ TallyInv /\ PooledInv /\ [ConstructionNext]_constructionVars
      => ShapeInv' /\ CostInv' /\ TallyInv' /\ PooledInv'
  BY ShapeStep, CostStep, TallyStep, PooledStep
<1> QED BY <1>1, <1>2, PTL DEF ConstructionSpec

(* What nfev misses is what worker processes evaluate, and the calls made   *)
(* are one for each candidate, one more for a guess and the wasted ones -   *)
(* less what a cache of any content and size saved, which is never the only *)
(* evaluation of a key it did not hold (evaluation.py:19-30, 92-121).      *)
THEOREM CallsAlwaysAccounted == ConstructionSpec => []CallsAccounted
<1>1. ASSUME ShapeInv, CostInv, TallyInv, PooledInv PROVE CallsAccounted
  <2>1. nfev <= calls
    BY <1>1 DEF TallyInv
  <2>2. call.caching \/ Sequentially => nfev = calls /\ wasted = 0
    BY <1>1 DEF PooledInv, Pooled
  <2>3. ASSUME stage = "done"
        PROVE  /\ calls <= Len(pool) + Seeds + wasted
               /\ ~call.caching => calls = Len(pool) + Seeds + wasted
               /\ call.caching =>
                    calls >= Seeds + Cardinality({Key(pool[i]) : i \in DOMAIN pool} \ inherited)
    <3>1. /\ DOMAIN pool = 1..Len(pool) /\ Batch \subseteq 1..Len(pool) /\ Len(pool) \in Nat
          /\ Seeds \in {0, 1} /\ Seeds <= Len(pool)
          /\ Cardinality(Batch) = Len(pool) - Seeds
      <4>1. Seeds \in {0, 1} /\ PoolSize \in Nat /\ Seeds + 1 <= Size
            /\ Size \in {PoolSize, Seeds + 1}
        BY <1>1, SizeFacts DEF ShapeInv
      <4>2. Len(pool) = Size
        BY <1>1, <2>3 DEF ShapeInv, Built
      <4>3. Seeds <= Len(pool)
        BY <4>1, <4>2
      <4> QED BY <1>1, <4>1, <4>3, BatchFacts
    <3>2. \A i \in 1..Len(pool) : costs[i] # Unpriced
      BY <1>1, <2>3 DEF CostInv
    <3>3. Priced = Batch /\ Known = {Key(pool[i]) : i \in DOMAIN pool}
      BY <3>1, <3>2 DEF Priced, Known
    <3>4. /\ calls <= 2 * Seeds + Cardinality(Batch) + wasted
          /\ ~call.caching => calls = 2 * Seeds + Cardinality(Batch) + wasted
      BY <1>1, <2>3, <3>3 DEF TallyInv, Unseeded
    <3>5. call.caching => Seeds + Cardinality(News) <= calls
      BY <1>1, <2>3 DEF TallyInv, Unseeded
    <3>6. calls \in Nat /\ wasted \in Nat
      BY <1>1 DEF TallyInv
    <3>7. /\ calls <= Len(pool) + Seeds + wasted
          /\ ~call.caching => calls = Len(pool) + Seeds + wasted
      BY <3>1, <3>4, <3>6
    <3>8. Cardinality(News) \in Nat
      BY <1>1, CountFacts
    <3>9. call.caching => calls >= Seeds + Cardinality(News)
      BY <3>1, <3>5, <3>6, <3>8
    <3> QED BY <3>3, <3>7, <3>9 DEF News
  <2> QED BY <2>1, <2>2, <2>3 DEF CallsAccounted
<1> QED BY <1>1, TalliesKept, PTL

(* A construction fails only for an integer part longer than the other, or  *)
(* in a pool of processes, which no call with a cache starts               *)
(* (candidates.py:76-82, evaluation.py:55-110).                            *)
THEOREM FailsOnlyEverOnSplit == ConstructionSpec => []FailsOnlyOnSplit
<1>1. ConstructionInit => FailsOnlyOnSplit
  BY DEF ConstructionInit, FailsOnlyOnSplit
<1>2. ASSUME ShapeInv, ShapeInv', PooledInv', FailsOnlyOnSplit,
             [ConstructionNext]_constructionVars
      PROVE  FailsOnlyOnSplit'
  <2>1. stage' = "IndexError" => call'.n > 2 * call'.half
    <3>1. CASE FailHeuristic
      <4>1. NoPartner /\ call' = call /\ call \in Calls
        BY <1>2, <3>1 DEF FailHeuristic, inputs, ShapeInv
      <4> QED BY <4>1, CallFacts DEF NoPartner, Partner, Integral
    <3>2. CASE UNCHANGED constructionVars
      BY <1>2, <3>2 DEF FailsOnlyOnSplit, constructionVars
    <3>3. CASE \/ Validate \/ Seed \/ NoSeed \/ AddHeuristic \/ AddRandom \/ Choose
      BY <3>3 DEF Validate, Seed, NoSeed, AddHeuristic, AddRandom, Add, Choose, Goto
    <3>4. CASE BatchStep
      BY <1>2, <3>4, BatchKeepsShape DEF Built
    <3> QED BY <1>2, <3>1, <3>2, <3>3, <3>4, NextSplits
  <2>2. stage' = "BrokenProcessPool" => call'.workers > 1 /\ ~call'.caching
    <3>1. call'.workers \in Nat
      <4>1. call' \in Call
        BY <1>2, ConstructionAssumption DEF ShapeInv
      <4> QED BY <4>1 DEF Call
    <3> QED BY <1>2, <3>1 DEF PooledInv, Pooled, Sequentially
  <2>3. stage' = "rejected" => call'.guess # <<>>
    <3>1. CASE Validate
      BY <3>1 DEF Validate, Goto, inputs
    <3>2. CASE UNCHANGED constructionVars
      BY <1>2, <3>2 DEF FailsOnlyOnSplit, constructionVars
    <3>3. CASE Seed \/ NoSeed \/ AddHeuristic \/ FailHeuristic \/ AddRandom \/ Choose
      BY <1>2, <3>3 DEF Seed, NoSeed, AddHeuristic, FailHeuristic, AddRandom, Add, Choose, Goto
    <3>4. CASE BatchStep
      BY <1>2, <3>4, BatchKeepsShape DEF Built
    <3> QED BY <1>2, <3>1, <3>2, <3>3, <3>4, NextSplits
  <2> QED BY <2>1, <2>2, <2>3 DEF FailsOnlyOnSplit
<1> QED BY <1>1, <1>2, TalliesKept, PTL DEF ConstructionSpec

=============================================================================
