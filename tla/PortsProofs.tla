----------------------------- MODULE PortsProofs -----------------------------
(***************************************************************************)
(* Proofs about the runs of the ports, for every box, distance, objective, *)
(* warm start, setting, budget and threshold.                              *)
(*                                                                         *)
(* First what the searches return: a set that a step of a search does not  *)
(* leave is not left by the search, by a least counterexample.  Then the   *)
(* invariant of a run, which has a part for the types, the control, the    *)
(* counts, the points, the costs, the losses and the picks; a lemma shows  *)
(* that a step keeps each of them.  The actions that challenge the         *)
(* incumbent have one description between them, which those lemmas use.    *)
(***************************************************************************)
EXTENDS Ports, ElitePoolProofs, FiniteSetTheorems, WellFoundedInduction

-----------------------------------------------------------------------------
(* Least and greatest numbers.                                             *)

(* A set of natural numbers has a least one.                               *)
LEMMA LeastNatural ==
  ASSUME NEW S, S \subseteq Nat, S # {}
  PROVE  \E x \in S : \A y \in S : x <= y
<1>1. PICK x \in S : \A y \in S : ~(<<y, x>> \in OpToRel(<, Nat))
  BY NatLessThanWellFounded, WFMin
<1>2. ASSUME NEW y \in Nat, NEW z \in Nat, y < z PROVE <<y, z>> \in OpToRel(<, Nat)
  <2>1. <<y, z>> \in Nat \X Nat /\ <<y, z>>[1] < <<y, z>>[2]
    BY <1>2
  <2> QED BY <2>1, Zenon DEF OpToRel
<1>3. ASSUME NEW y \in S, y < x PROVE FALSE
  <2>1. <<y, x>> \in OpToRel(<, Nat)
    BY <1>2, <1>3, x \in S, Zenon
  <2> QED BY <1>1, <2>1, Zenon
<1> QED BY <1>3

(* A set of costs that is not empty has a least and a greatest one.        *)
LEMMA ExtremeCosts ==
  ASSUME NEW S, S \subseteq Costs, S # {}
  PROVE  /\ Least(S) \in S /\ \A w \in S : Least(S) <= w
         /\ \E v \in S : \A w \in S : w <= v
<1>1. Infinity \in Nat /\ \A v \in S : v \in Nat /\ v <= Infinity
  BY EliteAssumption DEF Costs
<1>2. \E x \in S : \A y \in S : x <= y
  <2>1. S \subseteq Nat
    BY <1>1
  <2> QED BY <2>1, LeastNatural
<1>3. \E v \in S : \A w \in S : w <= v
  <2> DEFINE T == {Infinity - v : v \in S}
  <2>1. T \subseteq Nat /\ T # {}
    <3>1. \A v \in S : Infinity - v \in Nat
      BY <1>1
    <3> QED BY <3>1
  <2>2. PICK x \in T : \A y \in T : x <= y
    BY <2>1, LeastNatural
  <2>3. PICK v \in S : x = Infinity - v
    BY <2>2
  <2>4. \A w \in S : Infinity - v <= Infinity - w
    BY <2>2, <2>3
  <2> QED BY <1>1, <2>4
<1> QED BY <1>2, <1>3 DEF Least

(* The smaller of two numbers.                                             *)
LEMMA LeastOfTwo ==
  ASSUME NEW a \in Int, NEW b \in Int
  PROVE  /\ Least({a, b}) = IF a <= b THEN a ELSE b
         /\ Least({a, b}) <= a /\ Least({a, b}) <= b
<1>1. \E v \in {a, b} : \A w \in {a, b} : v <= w
  OBVIOUS
<1>2. Least({a, b}) \in {a, b} /\ \A w \in {a, b} : Least({a, b}) <= w
  BY <1>1 DEF Least
<1> QED BY <1>2

-----------------------------------------------------------------------------
(* What a search reaches.                                                  *)

\* f[n] is what is reached in n steps, for n up to m.
After(first, next, f, m) ==
  f = [n \in 0..m |-> IF n = 0 THEN first
                      ELSE UNION {{x} \cup next[x] : x \in f[n - 1]}]

(* The recursive function of Reached exists, for every limit: it is        *)
(* extended from one number to the next.                                   *)
LEMMA AfterExists ==
  ASSUME NEW first, NEW next
  PROVE  \A m \in Nat : \E f : After(first, next, f, m)
<1> DEFINE Bad == {m \in Nat : ~ \E f : After(first, next, f, m)}
<1> SUFFICES ASSUME Bad # {} PROVE FALSE
  OBVIOUS
<1>1. PICK m \in Bad : \A k \in Bad : m <= k
  <2>1. Bad \subseteq Nat
    OBVIOUS
  <2> HIDE DEF Bad
  <2> QED BY <2>1, LeastNatural
<1>2. m # 0
  <2> DEFINE f == [n \in 0..0 |-> first]
  <2>1. After(first, next, f, 0)
    BY DEF After
  <2> QED BY <1>1, <2>1
<1>3. PICK f : After(first, next, f, m - 1)
  BY <1>1, <1>2
<1> DEFINE g == [n \in 0..m |-> IF n < m THEN f[n]
                               ELSE UNION {{x} \cup next[x] : x \in f[n - 1]}]
<1>4. ASSUME NEW n \in 0..m
      PROVE  g[n] = IF n = 0 THEN first
                    ELSE UNION {{x} \cup next[x] : x \in g[n - 1]}
  <2>0. m \in Nat
    BY <1>1
  <2>1. CASE n = m
    <3>1. n - 1 \in 0..m /\ n - 1 < m /\ n # 0 /\ ~(n < m)
      BY <1>2, <2>0, <2>1
    <3>2. g[n - 1] = f[n - 1]
      BY <3>1
    <3>3. g[n] = UNION {{x} \cup next[x] : x \in f[n - 1]}
      BY <3>1
    <3> QED BY <3>1, <3>2, <3>3
  <2>2. CASE n < m /\ n # 0
    <3>1. n \in 0..(m - 1) /\ n - 1 \in 0..m /\ n - 1 < m
      BY <2>0, <2>2
    <3>2. g[n] = f[n] /\ g[n - 1] = f[n - 1]
      BY <2>2, <3>1
    <3>3. f[n] = UNION {{x} \cup next[x] : x \in f[n - 1]}
      BY <1>3, <2>2, <3>1 DEF After
    <3> QED BY <2>2, <3>2, <3>3
  <2>3. CASE n = 0 /\ n < m
    <3>1. 0 \in 0..(m - 1)
      BY <2>0, <2>3
    <3>2. f[0] = first
      BY <1>3, <3>1 DEF After
    <3> QED BY <2>3, <3>2
  <2> QED BY <2>0, <2>1, <2>2, <2>3
<1>5. After(first, next, g, m)
  <2> DEFINE h == [n \in 0..m |-> IF n = 0 THEN first
                      ELSE UNION {{x} \cup next[x] : x \in g[n - 1]}]
  <2>1. \A n \in 0..m : g[n] = h[n]
    BY <1>4
  <2> HIDE DEF g
  <2>2. g = [n \in 0..m |-> g[n]]
    BY DEF g
  <2>3. g = h
    BY <2>1, <2>2
  <2> QED BY <2>3 DEF After
<1> QED BY <1>1, <1>5

(* A search does not leave a set that no step of it leaves.                *)
LEMMA ReachedWithin ==
  ASSUME NEW first, NEW next, NEW limit \in Nat, NEW I,
         first \subseteq I, \A x \in I : next[x] \subseteq I
  PROVE  Reached(first, next, limit) \subseteq I
<1> DEFINE after == CHOOSE after : After(first, next, after, limit)
<1>1. After(first, next, after, limit)
  BY AfterExists
<1>2. Reached(first, next, limit) = after[limit]
  BY DEF Reached, After
<1> HIDE DEF after
<1> DEFINE Bad == {n \in 0..limit : ~ (after[n] \subseteq I)}
<1>3. Bad = {}
  <2> SUFFICES ASSUME Bad # {} PROVE FALSE
    OBVIOUS
  <2>1. PICK n \in Bad : \A k \in Bad : n <= k
    <3>1. Bad \subseteq Nat
      OBVIOUS
    <3> HIDE DEF Bad
    <3> QED BY <3>1, LeastNatural
  <2>2. CASE n = 0
    <3>1. after[0] = first
      BY <1>1, <2>1, <2>2 DEF After
    <3> QED BY <2>1, <2>2, <3>1
  <2>3. CASE n # 0
    <3>1. n \in 0..limit /\ n - 1 \in 0..limit /\ n - 1 < n
      BY <2>1, <2>3
    <3>2. after[n - 1] \subseteq I
      BY <2>1, <3>1
    <3>3. after[n] = UNION {{x} \cup next[x] : x \in after[n - 1]}
      BY <1>1, <2>3, <3>1 DEF After
    <3>4. after[n] \subseteq I
      BY <3>2, <3>3
    <3> QED BY <2>1, <3>4
  <2> QED BY <2>2, <2>3
<1> QED BY <1>2, <1>3

-----------------------------------------------------------------------------
(* Moves, descents and searches.                                           *)

\* The points of Rust and C++, with the zeros a walk may write.
Holed == Within([i \in Coords |-> Reach[i] \cup {0}])

(* Levels are numbers, and those of the bounds and their ends are levels.  *)
LEMMA LevelFacts ==
  /\ Levels \subseteq Nat /\ 0 \in Levels
  /\ \A i \in Coords : Bounds[i] \subseteq Levels /\ Bounds[i] \subseteq Nat
  /\ \A i \in Coords : Bounds[i] # {} /\ Bounds[i] \subseteq Reach[i]
  /\ \A i \in Coords : Reach[i] = Bounds[i] \cup Ends[i] /\ Reach[i] \subseteq Levels
  /\ Solutions = [Coords -> Levels] /\ \A range : Within(range) \subseteq Solutions
  /\ Box \subseteq Wide /\ Wide \subseteq Holed /\ Holed \subseteq Solutions
  /\ Len(Bounds) \in Nat /\ Coords = 1..Len(Bounds)
<1>1. /\ Bounds \in Seq(SUBSET (Nat \ {0})) /\ \A i \in Coords : Bounds[i] # {}
      /\ Ends \in Seq(SUBSET (Nat \ {0})) /\ Len(Ends) = Len(Bounds)
      /\ Solutions = [Coords -> Levels]
  BY PortAssumption
<1>2. Len(Bounds) \in Nat /\ Coords = 1..Len(Bounds)
  BY <1>1, LenProperties DEF Coords
<1>3. \A i \in Coords :
        Bounds[i] \in SUBSET (Nat \ {0}) /\ Ends[i] \in SUBSET (Nat \ {0})
  BY <1>1, <1>2, ElementOfSeq
<1>4. \A i \in Coords : Reach[i] = Bounds[i] \cup Ends[i]
  BY DEF Reach
<1>5. /\ Levels \subseteq Nat /\ 0 \in Levels
      /\ \A i \in Coords : Reach[i] \subseteq Levels
  BY <1>3, <1>4 DEF Levels
<1>6. \A range : Within(range) \subseteq Solutions
  BY <1>1 DEF Within
<1>7. Box \subseteq Wide /\ Wide \subseteq Holed /\ Holed \subseteq Solutions
  BY <1>4, <1>6 DEF Box, Wide, Holed, Within
<1> QED BY <1>1, <1>2, <1>3, <1>4, <1>5, <1>6, <1>7

(* A moved coordinate is in its range: the move leaves no region that      *)
(* covers the range.                                                       *)
LEMMA MovedWithin ==
  ASSUME NEW range, NEW room, \A i \in Coords : range[i] \subseteq room[i],
         NEW s \in Within(room), NEW k
  PROVE  Moved(s, k, range) \subseteq Within(room)
<1>1. ASSUME NEW t \in Moved(s, k, range) PROVE t \in Within(room)
  <2>1. t \in [Coords -> Levels] /\ \A i \in Coords : t[i] # s[i] => t[i] \in range[i]
    BY LevelFacts DEF Moved
  <2>2. \A i \in Coords : s[i] \in room[i]
    BY DEF Within
  <2> QED BY <2>1, <2>2 DEF Within
<1> QED BY <1>1

(* The moves of Julia and R stay in the box,                               *)
LEMMA MovedInBox ==
  ASSUME NEW s \in Box, NEW k
  PROVE  Moved(s, k, Bounds) \subseteq Box
BY MovedWithin DEF Box

(* those of Rust and C++ among the points a clamped one is rounded to, and *)
(* those with zeros.                                                       *)
LEMMA RustMovedWithin ==
  ASSUME NEW I \in {Wide, Holed}, NEW s \in I, NEW k
  PROVE  Moved(s, k, Reach) \subseteq I /\ I \subseteq Solutions
<1>1. CASE I = Wide
  BY <1>1, MovedWithin, LevelFacts DEF Wide
<1>2. CASE I = Holed
  <2> DEFINE room == [i \in Coords |-> Reach[i] \cup {0}]
  <2>1. \A i \in Coords : Reach[i] \subseteq room[i]
    OBVIOUS
  <2>2. Holed = Within(room)
    BY DEF Holed
  <2> HIDE DEF room
  <2> QED BY <1>2, <2>1, <2>2, MovedWithin, LevelFacts
<1> QED BY <1>1, <1>2

(* A descent stays where its neighbourhoods stay.                          *)
LEMMA DescendedWithin ==
  ASSUME NEW f, NEW up, NEW neighbours, NEW I, I \subseteq Solutions, NEW s \in I,
         \A t \in I : neighbours[t] \subseteq I
  PROVE  Descended(f, s, neighbours, up) \subseteq I
<1> DEFINE next == [t \in Solutions |->
                     {u \in neighbours[t] : Finite(f[u]) /\ Beats(f[u], f[t], up)}]
<1>1. \A t \in I : next[t] \subseteq I
  OBVIOUS
<1>2. Drops \in Nat /\ {s} \subseteq I
  BY PortAssumption
<1> HIDE DEF next
<1>3. Reached({s}, next, Drops) \subseteq I
  BY <1>1, <1>2, ReachedWithin
<1> QED BY <1>3 DEF Descended, next

(* So do the descents of Rust and C++,                                     *)
LEMMA RustDescentsWithin ==
  ASSUME NEW I \in {Wide, Holed}, NEW f \in Prices, NEW s \in I
  PROVE  RustDescents[f][s] \subseteq I
<1>1. I \subseteq Solutions
  BY LevelFacts
<1>2. \A t \in I : RustNeighbours[t] \subseteq I
  BY <1>1, RustMovedWithin DEF RustNeighbours, RustFlips, RustSwaps, RustMultiflips
<1>3. Descended(f, s, RustNeighbours, FALSE) \subseteq I
  BY <1>1, <1>2, DescendedWithin
<1> QED BY <1>1, <1>3 DEF RustDescents

(* those of R,                                                             *)
LEMMA RDescentsInBox ==
  ASSUME NEW f \in Prices, NEW up \in BOOLEAN, NEW s \in Box
  PROVE  RDescents[f][up][s] \subseteq Box
<1>1. Box \subseteq Solutions
  BY LevelFacts
<1>2. \A t \in Box : RNeighbours[t] \subseteq Box
  BY <1>1, MovedInBox DEF RNeighbours
<1>3. Descended(f, s, RNeighbours, up) \subseteq Box
  BY <1>1, <1>2, DescendedWithin
<1> QED BY <1>1, <1>3 DEF RDescents

(* A nearest level exists, whatever the bounds are.                        *)
LEMMA ProjectedInBox ==
  ASSUME NEW s \in Solutions
  PROVE  JuliaProjected(s) \in Box
<1> DEFINE away(u, v) == IF u < v THEN v - u ELSE u - v
<1>1. ASSUME NEW i \in Coords
      PROVE  \E v \in Bounds[i] : \A u \in Bounds[i] : away(s[i], v) <= away(s[i], u)
  <2> DEFINE D == {away(s[i], v) : v \in Bounds[i]}
  <2>1. s[i] \in Nat /\ Bounds[i] \subseteq Nat /\ Bounds[i] # {}
    BY LevelFacts
  <2>2. D \subseteq Nat /\ D # {}
    <3>1. \A v \in Bounds[i] : away(s[i], v) \in Nat
      BY <2>1
    <3> QED BY <2>1, <3>1
  <2>3. PICK d \in D : \A e \in D : d <= e
    <3> HIDE DEF D
    <3> QED BY <2>2, LeastNatural
  <2> QED BY <2>3
<1>2. \A i \in Coords :
        (CHOOSE v \in Bounds[i] : \A u \in Bounds[i] : away(s[i], v) <= away(s[i], u))
          \in Bounds[i]
  BY <1>1
<1> HIDE DEF away
<1>3. JuliaProjected(s) =
        [i \in Coords |->
           CHOOSE v \in Bounds[i] : \A u \in Bounds[i] : away(s[i], v) <= away(s[i], u)]
  BY DEF JuliaProjected, away
<1> QED BY <1>2, <1>3, LevelFacts DEF Box, Within

(* A descent of Julia ends in the box, wherever it starts.                 *)
LEMMA JuliaDescentsInBox ==
  ASSUME NEW f \in Prices, NEW s \in Solutions
  PROVE  JuliaDescents[f][s] \subseteq Box
<1>1. Box \subseteq Solutions
  BY LevelFacts
<1>2. \A t \in Box : JuliaNeighbours[t] \subseteq Box
  <2>1. \A t \in Box, k \in {1, 2, 3} : Moved(t, k, Bounds) \subseteq Box
    BY MovedInBox
  <2> QED
    BY <1>1, <2>1 DEF JuliaNeighbours, JuliaFlips, JuliaSwaps, JuliaMultiflips
<1>3. Descended(f, JuliaProjected(s), JuliaNeighbours, FALSE) \subseteq Box
  BY <1>1, <1>2, ProjectedInBox, DescendedWithin
<1> QED BY <1>3 DEF JuliaDescents

(* The solutions of I with their costs.                                    *)
PricedIn(f, I) == {PricedBy(f, t) : t \in I}

(* What is read in a run is a cost.                                        *)
LEMMA PriceFacts ==
  Prices \subseteq [Solutions -> Costs] /\ Objectives \subseteq Prices
<1>1. /\ Objectives \subseteq [Solutions -> Costs]
      /\ Representatives \subseteq [Solutions -> Solutions]
  BY PortAssumption
<1>2. ASSUME NEW f \in Objectives, NEW r \in Representatives
      PROVE  [s \in Solutions |-> f[r[s]]] \in [Solutions -> Costs]
  <2>1. f \in [Solutions -> Costs] /\ r \in [Solutions -> Solutions]
    BY <1>1
  <2> QED BY <2>1
<1> QED BY <1>1, <1>2 DEF Prices

(* It is the objective's, at the solution or at one with the same key.     *)
LEMMA ReadingFacts ==
  ASSUME NEW f \in Objectives, NEW p \in Readings(f)
  PROVE  /\ p \in Prices
         /\ \A s \in Solutions : \E t \in Twins(s) : p[s] = f[t]
<1>1. /\ Representatives \subseteq [Solutions -> Solutions]
      /\ \A r \in Representatives, s \in Solutions : Rounded[r[s]] = Rounded[s]
  BY PortAssumption
<1>2. CASE p = f
  <2>1. \A s \in Solutions : s \in Twins(s)
    BY DEF Twins
  <2> QED BY <1>2, <2>1, PriceFacts
<1>3. CASE config.cached /\ \E r \in Representatives : p = [s \in Solutions |-> f[r[s]]]
  <2>1. PICK r \in Representatives : p = [s \in Solutions |-> f[r[s]]]
    BY <1>3
  <2>2. ASSUME NEW s \in Solutions PROVE r[s] \in Twins(s) /\ p[s] = f[r[s]]
    <3>1. r \in [Solutions -> Solutions] /\ Rounded[r[s]] = Rounded[s]
      BY <1>1
    <3>2. r[s] \in Solutions /\ p[s] = f[r[s]]
      BY <2>1, <3>1
    <3> QED BY <1>3, <3>1, <3>2 DEF Twins
  <2>3. p \in Prices
    BY <2>1 DEF Prices
  <2> QED BY <2>2, <2>3
<1> QED BY <1>2, <1>3 DEF Readings

(* A priced solution is an entry, and its cost is a number.                *)
LEMMA PricedProperties ==
  ASSUME NEW f \in Prices, NEW s \in Solutions
  PROVE  /\ PricedBy(f, s) \in Entry
         /\ PricedBy(f, s).sol = s /\ PricedBy(f, s).cost = f[s]
         /\ f[s] \in Costs /\ f[s] \in Nat /\ f[s] <= Infinity
<1>1. f \in [Solutions -> Costs] /\ Infinity \in Nat
  BY PriceFacts, EliteAssumption
<1> QED BY <1>1 DEF PricedBy, Entry, Costs

(* ILS of Rust and C++ ends at a solution with its cost, in the region it  *)
(* starts in.                                                              *)
LEMMA RustSearchesWithin ==
  ASSUME NEW I \in {Wide, Holed}, NEW f \in Prices, NEW s \in I
  PROVE  RustSearches[f][s] \subseteq PricedIn(f, I)
<1> DEFINE next == [h \in Entry |-> {p \in RustTried[f][h.sol] : RustAccepts(h, p)}]
<1>1. I \subseteq Solutions
  BY LevelFacts
<1>2. ASSUME NEW h \in PricedIn(f, I) PROVE next[h] \subseteq PricedIn(f, I)
  <2>1. PICK t \in I : h = PricedBy(f, t)
    BY DEF PricedIn
  <2>2. h \in Entry /\ h.sol = t
    BY <1>1, <2>1, PricedProperties
  <2>3. RustPerturbed(t) \subseteq I
    BY RustMovedWithin DEF RustPerturbed
  <2>4. \A q \in RustPerturbed(t) : RustDescents[f][q] \subseteq I
    BY <2>3, RustDescentsWithin
  <2>5. RustTried[f][t] \subseteq PricedIn(f, I)
    <3>1. RustTried[f][t] =
            {PricedBy(f, u) : u \in UNION {RustDescents[f][q] : q \in RustPerturbed(t)}}
      BY <1>1, <2>1 DEF RustTried
    <3> QED BY <2>4, <3>1 DEF PricedIn
  <2> QED BY <2>2, <2>5
<1>3. {PricedBy(f, s)} \subseteq PricedIn(f, I) /\ IlsIterations \in Nat
  BY PortAssumption DEF PricedIn
<1> HIDE DEF next
<1>4. Reached({PricedBy(f, s)}, next, IlsIterations) \subseteq PricedIn(f, I)
  BY <1>2, <1>3, ReachedWithin
<1> QED BY <1>1, <1>4 DEF RustSearches, next

(* ILS of Julia ends at a solution in the box, with some cost.             *)
LEMMA JuliaSearchesInBox ==
  ASSUME NEW f \in Prices, NEW e \in Entry, e.sol \in Box
  PROVE  \A h \in JuliaSearches[f][e] : h \in Entry /\ h.sol \in Box
<1> DEFINE next == [h \in Entry |-> UNION {JuliaAccepted(h, p) : p \in JuliaTried[f][h.sol]}]
           I == {h \in Entry : h.sol \in Box}
<1>1. Box \subseteq Solutions
  BY LevelFacts
<1>2. ASSUME NEW h \in I, NEW p \in JuliaTried[f][h.sol]
      PROVE  JuliaAccepted(h, p) \subseteq I
  <2>1. JuliaTried[f][h.sol] =
          {PricedBy(f, t) : t \in UNION {JuliaDescents[f][q] : q \in JuliaPerturbed(h.sol)}}
    BY <1>1 DEF JuliaTried
  <2>2. PICK t \in UNION {JuliaDescents[f][q] : q \in JuliaPerturbed(h.sol)} :
          p = PricedBy(f, t)
    BY <2>1
  <2>3. \A q \in JuliaPerturbed(h.sol) : JuliaDescents[f][q] \subseteq Box
    BY <1>1, MovedInBox, JuliaDescentsInBox DEF JuliaPerturbed
  <2>4. p \in Entry /\ p.sol \in Box
    BY <1>1, <2>2, <2>3, PricedProperties
  <2>5. [h EXCEPT !.sol = p.sol] \in Entry /\ [h EXCEPT !.sol = p.sol].sol \in Box
    BY <2>4 DEF Entry
  <2> QED BY <2>4, <2>5 DEF JuliaAccepted
<1>3. \A h \in I : next[h] \subseteq I
  BY <1>2
<1>4. {e} \subseteq I /\ IlsIterations \in Nat
  BY PortAssumption
<1> HIDE DEF next, I
<1>5. Reached({e}, next, IlsIterations) \subseteq I
  BY <1>3, <1>4, ReachedWithin
<1>6. JuliaSearches[f][e] \subseteq I
  BY <1>5 DEF JuliaSearches, next
<1> QED BY <1>6 DEF I

(* The loss of a cost is a cost, and grows where the cost gets worse.      *)
LEMMA LossFacts ==
  ASSUME NEW v \in Costs, NEW w \in Costs, NEW up \in BOOLEAN
  PROVE  /\ Lost(v, up) \in Costs /\ Lost(v, up) \in Nat /\ Lost(v, up) <= Infinity
         /\ Finite(v) /\ Beats(v, w, up) => Lost(v, up) < Lost(w, up)
         /\ ~Beats(v, w, up) => Lost(w, up) <= Lost(v, up) \/ (up /\ ~Finite(w))
         /\ ~Finite(v) => Lost(v, up) = Infinity
         /\ Finite(v) => Lost(v, up) < Infinity
BY EliteAssumption DEF Costs, Lost, Finite, Beats

(* ILS of R ends at a solution with its cost, which is no worse than where *)
(* it starts.                                                              *)
LEMMA RSearchesWithin ==
  ASSUME NEW f \in Prices, NEW up \in BOOLEAN, NEW s \in Box
  PROVE  \A h \in RSearches[f][up][s] :
           h \in PricedIn(f, Box) /\ Lost(h.cost, up) <= Lost(f[s], up)
<1> DEFINE next == [h \in Entry |-> {PricedBy(f, t) : t \in RTried(f, up, h)}]
           J == {h \in PricedIn(f, Box) : Lost(h.cost, up) <= Lost(f[s], up)}
<1>1. Box \subseteq Solutions
  BY LevelFacts
<1>2. ASSUME NEW h \in J PROVE next[h] \subseteq J
  <2>1. PICK u \in Box : h = PricedBy(f, u)
    BY DEF PricedIn
  <2>2. h \in Entry /\ h.sol = u /\ h.cost = f[u] /\ f[u] \in Costs
    BY <1>1, <2>1, PricedProperties
  <2>3. ASSUME NEW t \in RTried(f, up, h)
        PROVE  PricedBy(f, t) \in J
    <3>1. /\ t \in UNION {RDescents[f][up][q] : q \in RPerturbed(u)}
          /\ Finite(f[t]) /\ Beats(f[t], f[u], up)
      BY <2>2 DEF RTried
    <3>2. PICK q \in RPerturbed(u) : t \in RDescents[f][up][q]
      BY <3>1
    <3>3. q \in Box
      BY MovedInBox DEF RPerturbed
    <3>4. t \in Box
      BY <3>2, <3>3, RDescentsInBox
    <3>5. /\ PricedBy(f, t).cost = f[t] /\ f[t] \in Costs /\ f[s] \in Costs
      BY <1>1, <3>4, PricedProperties
    <3>6. /\ Lost(f[t], up) < Lost(f[u], up)
          /\ Lost(f[t], up) \in Nat /\ Lost(f[u], up) \in Nat /\ Lost(f[s], up) \in Nat
      BY <2>2, <3>1, <3>5, LossFacts
    <3>7. Lost(f[u], up) <= Lost(f[s], up)
      BY <2>2
    <3>8. Lost(f[t], up) <= Lost(f[s], up)
      BY <3>6, <3>7
    <3> QED BY <3>4, <3>5, <3>8 DEF PricedIn
  <2> QED BY <2>2, <2>3
<1>3. {PricedBy(f, s)} \subseteq J /\ IlsIterations \in Nat
  <2>1. PricedBy(f, s).cost = f[s] /\ Lost(f[s], up) \in Nat
    BY <1>1, PricedProperties, LossFacts
  <2> QED BY <2>1, PortAssumption DEF PricedIn
<1> HIDE DEF next, J
<1>4. Reached({PricedBy(f, s)}, next, IlsIterations) \subseteq J
  BY <1>2, <1>3, ReachedWithin
<1>5. RSearches[f][up][s] \subseteq J
  BY <1>1, <1>4 DEF RSearches, next
<1> QED BY <1>5 DEF J

-----------------------------------------------------------------------------
(* Walks.                                                                  *)

(* A coordinate of the target, or a level of its range, keeps the region.  *)
LEMMA MixedWithin ==
  ASSUME NEW range, NEW s \in Within(range), NEW t \in Within(range), NEW i \in Coords
  PROVE  [s EXCEPT ![i] = t[i]] \in Within(range)
<1>1. /\ s \in [Coords -> Levels] /\ t \in [Coords -> Levels] /\ t[i] \in range[i]
      /\ \A j \in Coords : s[j] \in range[j]
  BY DEF Within
<1> QED BY <1>1 DEF Within

(* So it keeps the box.                                                    *)
LEMMA MixedInBox ==
  ASSUME NEW s \in Box, NEW t \in Box, NEW i \in Coords
  PROVE  [s EXCEPT ![i] = t[i]] \in Box
BY MixedWithin DEF Box

(* A leg moves on by one of the coordinates that are left.                 *)
LEMMA JuliaMovesByOne ==
  ASSUME NEW f, NEW x, NEW target, NEW y \in JuliaMoves(f, x, target)
  PROVE  \E i \in x.left :
           /\ y.at = [x.at EXCEPT ![i] = target[i]]
           /\ y.top = y.at \/ y.top = x.top
           /\ y = [at |-> y.at, top |-> y.top, left |-> x.left \ {i}]
<1> DEFINE moved(i) == [x.at EXCEPT ![i] = target[i]]
           next(i) == IF f[moved(i)] < f[x.top] THEN moved(i) ELSE x.top
<1>1. PICK i \in x.left :
        y = [at |-> moved(i), top |-> next(i), left |-> x.left \ {i}]
  BY DEF JuliaMoves
<1>2. y.at = moved(i) /\ y.top = next(i)
  BY <1>1
<1>3. next(i) = moved(i) \/ next(i) = x.top
  OBVIOUS
<1> QED BY <1>1, <1>2, <1>3

\* y is x moved on by coordinate i, which may be set to zero instead if its
\* move is not feasible.
RustMoved(f, x, target, y, i) ==
  /\ \/ y.at = [x.at EXCEPT ![i] = target[i]]
     \/ /\ y.at = [x.at EXCEPT ![i] = 0]
        /\ ~Finite(f[[x.at EXCEPT ![i] = target[i]]])
  /\ y.top = y.at \/ y.top = x.top
  /\ y = [at |-> y.at, top |-> y.top, left |-> x.left \ {i}]

(* That is how a leg of Rust and C++ moves on.                             *)
LEMMA RustMovesByOne ==
  ASSUME NEW f, NEW x, NEW target, NEW y \in RustMoves(f, x, target)
  PROVE  \E i \in x.left : RustMoved(f, x, target, y, i)
<1> DEFINE moved(i) == [x.at EXCEPT ![i] = target[i]]
           step(i) == IF Finite(f[moved(i)]) THEN moved(i) ELSE [x.at EXCEPT ![i] = 0]
           next(i) == IF f[moved(i)] < f[x.top] THEN step(i) ELSE x.top
<1>1. PICK i \in x.left :
        y = [at |-> step(i), top |-> next(i), left |-> x.left \ {i}]
  BY DEF RustMoves
<1>2. y.at = step(i) /\ y.top = next(i)
  BY <1>1
<1>3. next(i) = step(i) \/ next(i) = x.top
  OBVIOUS
<1>4. step(i) = moved(i) \/ (step(i) = [x.at EXCEPT ![i] = 0] /\ ~Finite(f[moved(i)]))
  OBVIOUS
<1> QED BY <1>1, <1>2, <1>3, <1>4 DEF RustMoved

(* A walk of Julia stays between its ends.                                 *)
LEMMA JuliaForwardInBox ==
  ASSUME price \in Prices, config \in Settings, NEW s \in Box, NEW t \in Box
  PROVE  JuliaForward(s, t) \subseteq Box
<1> DEFINE f == price
           next == [x \in Leg |-> JuliaMoves(f, x, t)]
           I == {x \in Leg : x.at \in Box /\ x.top \in Box}
           legs == Reached({Departure(s, t)}, next, Len(Bounds))
<1>1. ASSUME NEW x \in I PROVE next[x] \subseteq I
  <2>1. ASSUME NEW i \in x.left
        PROVE  [x.at EXCEPT ![i] = t[i]] \in Box /\ x.left \ {i} \in SUBSET Coords
    <3>1. i \in Coords /\ x.at \in Box /\ x.left \in SUBSET Coords
      BY DEF Leg
    <3> QED BY <3>1, MixedInBox
  <2>2. ASSUME NEW y \in JuliaMoves(f, x, t) PROVE y \in I
    <3>1. PICK i \in x.left :
            /\ y.at = [x.at EXCEPT ![i] = t[i]] /\ (y.top = y.at \/ y.top = x.top)
            /\ y = [at |-> y.at, top |-> y.top, left |-> x.left \ {i}]
      BY <2>2, JuliaMovesByOne
    <3>2. y.at \in Box /\ x.top \in Box
      BY <2>1, <3>1
    <3>3. y.top \in Box /\ Box \subseteq Solutions
      BY <3>1, <3>2, LevelFacts
    <3> QED BY <2>1, <3>1, <3>2, <3>3 DEF Leg
  <2> QED BY <2>2
<1>2. {Departure(s, t)} \subseteq I /\ Len(Bounds) \in Nat
  BY LevelFacts DEF Departure, Differing, Leg
<1> HIDE DEF next, I
<1>3. legs \subseteq I
  BY <1>1, <1>2, ReachedWithin
<1> HIDE DEF legs
<1>4. \A timed \in BOOLEAN : JuliaWalk(f, timed, s, t) \subseteq {x.top : x \in legs}
  BY DEF JuliaWalk, legs, next
<1>5. config.limited \in BOOLEAN
  BY PortAssumption DEF Setting
<1>6. JuliaForward(s, t) = JuliaWalk(f, config.limited, s, t)
  BY <1>5 DEF JuliaForward, JuliaWalks
<1> QED BY <1>3, <1>4, <1>5, <1>6 DEF I

(* So do both directions.                                                  *)
LEMMA JuliaRelinkedInBox ==
  ASSUME price \in Prices, config \in Settings, NEW s \in Box, NEW t \in Box
  PROVE  JuliaRelinked(s, t) \subseteq Box
<1>1. JuliaForward(s, t) \subseteq Box /\ JuliaForward(t, s) \subseteq Box
  BY JuliaForwardInBox
<1>2. config.strategy \in Strategies
  BY PortAssumption DEF Setting
<1> QED BY <1>1, <1>2 DEF JuliaRelinked, JuliaBothWays, Strategies

\* Nothing that is read for a point of Rust and C++ is infinite.
Feasible == \A s \in Wide : \A t \in Twins(s) : Finite(objective[t])

(* A walk of Rust and C++ writes no zeros if nothing it reads is infinite. *)
LEMMA RustDirectedWithin ==
  ASSUME objective \in Objectives, price \in Readings(objective), config \in Settings,
         NEW s \in Wide, NEW t \in Wide
  PROVE  /\ RustDirected(s, t) \subseteq Holed
         /\ Feasible => RustDirected(s, t) \subseteq Wide
<1> DEFINE f == price
           next == [x \in Leg |-> RustMoves(f, x, t)]
           I(R) == {x \in Leg : x.at \in R /\ x.top \in R}
           legs == Reached({Departure(s, t)}, next, Len(Bounds))
<1>0. /\ Wide \subseteq Holed /\ Holed \subseteq Solutions /\ Len(Bounds) \in Nat
      /\ Solutions = [Coords -> Levels] /\ 0 \in Levels
      /\ f \in Prices
  BY LevelFacts, ReadingFacts
<1>1. ASSUME NEW x \in Leg, NEW i \in x.left
      PROVE  /\ i \in Coords /\ x.left \ {i} \in SUBSET Coords
             /\ x.at \in Holed => [x.at EXCEPT ![i] = t[i]] \in Holed
             /\ x.at \in Holed => [x.at EXCEPT ![i] = 0] \in Holed
             /\ x.at \in Wide => [x.at EXCEPT ![i] = t[i]] \in Wide
  <2>1. i \in Coords /\ x.at \in [Coords -> Levels] /\ x.left \in SUBSET Coords
    BY <1>0 DEF Leg
  <2>2. x.at \in Holed => [x.at EXCEPT ![i] = t[i]] \in Holed
    <3>1. t \in Holed
      BY <1>0
    <3> QED BY <2>1, <3>1, MixedWithin DEF Holed
  <2>3. x.at \in Wide => [x.at EXCEPT ![i] = t[i]] \in Wide
    BY <2>1, MixedWithin DEF Wide
  <2>4. x.at \in Holed => [x.at EXCEPT ![i] = 0] \in Holed
    <3>1. SUFFICES ASSUME x.at \in Holed PROVE [x.at EXCEPT ![i] = 0] \in Holed
      OBVIOUS
    <3>2. \A j \in Coords : x.at[j] \in Reach[j] \cup {0}
      BY <3>1 DEF Holed, Within
    <3> QED BY <1>0, <2>1, <3>2 DEF Holed, Within
  <2> QED BY <2>1, <2>2, <2>3, <2>4
<1>2. ASSUME NEW x \in I(Holed) PROVE next[x] \subseteq I(Holed)
  <2>1. ASSUME NEW y \in RustMoves(f, x, t) PROVE y \in I(Holed)
    <3>1. PICK i \in x.left : RustMoved(f, x, t, y, i)
      BY <2>1, RustMovesByOne
    <3>2. y.at \in Holed /\ y.top \in Holed
      BY <1>1, <3>1 DEF RustMoved
    <3> QED BY <1>0, <1>1, <3>1, <3>2 DEF Leg, RustMoved
  <2> QED BY <2>1
<1>3. ASSUME Feasible, NEW x \in I(Wide) PROVE next[x] \subseteq I(Wide)
  <2>0. \A u \in Wide : Finite(f[u])
    BY <1>0, <1>3, ReadingFacts DEF Feasible
  <2>1. ASSUME NEW i \in x.left
        PROVE  [x.at EXCEPT ![i] = t[i]] \in Wide /\ Finite(f[[x.at EXCEPT ![i] = t[i]]])
    BY <1>1, <2>0
  <2>2. ASSUME NEW y \in RustMoves(f, x, t) PROVE y \in I(Wide)
    <3>1. PICK i \in x.left : RustMoved(f, x, t, y, i)
      BY <2>2, RustMovesByOne
    <3>2. y.at \in Wide /\ y.top \in Wide
      BY <2>1, <3>1 DEF RustMoved
    <3> QED BY <1>0, <1>1, <3>1, <3>2 DEF Leg, RustMoved
  <2> QED BY <2>2
<1>4. {Departure(s, t)} \subseteq I(Holed) /\ {Departure(s, t)} \subseteq I(Wide)
  BY <1>0 DEF Departure, Differing, Leg
<1> HIDE DEF next, I
<1>5. /\ legs \subseteq I(Holed)
      /\ Feasible => legs \subseteq I(Wide)
  BY <1>0, <1>2, <1>3, <1>4, ReachedWithin
<1> HIDE DEF legs
<1>6. \A timed \in BOOLEAN :
        RustWalk(f, timed, s, t) = {x.top : x \in {y \in legs : timed \/ y.left = {}}}
  BY DEF RustWalk, legs, next
<1>7. config.limited \in BOOLEAN
  BY PortAssumption DEF Setting
<1>8. RustDirected(s, t) = RustWalk(f, config.limited, s, t)
  BY <1>0, <1>7 DEF RustDirected, RustWalks
<1> QED BY <1>5, <1>6, <1>7, <1>8 DEF I

(* So do both directions.                                                  *)
LEMMA RustRelinkedWithin ==
  ASSUME objective \in Objectives, price \in Readings(objective), config \in Settings,
         NEW s \in Wide, NEW t \in Wide
  PROVE  /\ RustRelinked(s, t) \subseteq Holed
         /\ Feasible => RustRelinked(s, t) \subseteq Wide
<1>1. /\ RustDirected(s, t) \subseteq Holed /\ RustDirected(t, s) \subseteq Holed
      /\ Feasible =>
           RustDirected(s, t) \subseteq Wide /\ RustDirected(t, s) \subseteq Wide
  BY RustDirectedWithin
<1>2. config.strategy \in Strategies
  BY PortAssumption DEF Setting
<1> QED BY <1>1, <1>2 DEF RustRelinked, RustBothWays, Strategies

(* The straight lines of R do too.                                         *)
LEMMA RRelinkedInBox ==
  ASSUME config \in Settings, NEW s, NEW t
  PROVE  RRelinked(s, t) \subseteq Box
<1>1. config.strategy \in Strategies
  BY PortAssumption DEF Setting
<1>2. RForward(s, t) \subseteq Box /\ RForward(t, s) \subseteq Box
  BY DEF RForward, RBetween
<1> QED BY <1>1, <1>2 DEF RRelinked, RBothWays, Strategies

-----------------------------------------------------------------------------
(* Constructions.                                                          *)

(* The candidates of a batch are where they are taken from, and their      *)
(* costs are costs.                                                        *)
LEMMA BatchFacts ==
  ASSUME NEW f \in Prices, NEW guess, NEW points \in {Box, Wide},
         NEW b \in Batches(guess, points), NEW k \in Batch
  PROVE  b[k] \in points /\ f[b[k]] \in Costs /\ Lost(f[b[k]], FALSE) = f[b[k]]
<1>1. b[k] \in points /\ points \subseteq Solutions
  BY LevelFacts DEF Batches
<1> QED BY <1>1, PricedProperties DEF Lost

(* Losses of a batch are costs; the pick is worthy if its own is finite    *)
(* and near enough to the least one.                                       *)
LEMMA WorthyPick ==
  ASSUME NEW f, NEW b, NEW k, NEW alpha, NEW list, NEW up
  PROVE  LET losses == {Lost(f[b[j]], up) : j \in {i \in Batch : Finite(f[b[i]])}}
             low    == Least(losses)
             high   == CHOOSE v \in losses : \A w \in losses : w <= v
             mine   == Lost(f[b[k]], up)
         IN  /\ \/ losses = {}
                \/ Finite(mine) /\ AlphaUnit * (mine - low) <= alpha * (high - low)
                => "unworthy" \notin Pick(f, b, k, alpha, list, up)
             /\ "unworthy" \in Pick(f, b, k, alpha, list, up) =>
                  /\ (\E j \in Batch : ~Finite(f[b[j]])) =>
                        "blind" \in Pick(f, b, k, alpha, list, up)
                  /\ Cardinality(list) = 1 => "lone" \in Pick(f, b, k, alpha, list, up)
BY DEF Pick

(* Rust and C++ pick a worthy candidate, unless they meet an infeasible    *)
(* one.                                                                    *)
LEMMA RustPicks ==
  ASSUME NEW f \in Prices, NEW guess, NEW b \in Batches(guess, Wide), NEW alpha,
         NEW k \in RustList(f, b, alpha)
  PROVE  /\ k \in Batch
         /\ "unworthy" \in Pick(f, b, k, alpha, RustList(f, b, alpha), FALSE) =>
              "blind" \in Pick(f, b, k, alpha, RustList(f, b, alpha), FALSE)
<1> DEFINE costs == {f[b[j]] : j \in Batch}
           low == Least(costs)
           high == CHOOSE v \in costs : \A w \in costs : w <= v
           losses == {Lost(f[b[j]], FALSE) : j \in {i \in Batch : Finite(f[b[i]])}}
<1>1. 1 \in Batch
  BY PortAssumption
<1>2. k \in Batch
  <2>1. \/ RustList(f, b, alpha) = Batch \/ RustList(f, b, alpha) = {1}
        \/ \E P \in SUBSET Batch : RustList(f, b, alpha) = P
    BY DEF RustList
  <2> QED BY <1>1, <2>1
<1>3. CASE \E j \in Batch : ~Finite(f[b[j]])
  BY <1>2, <1>3, WorthyPick
<1>4. CASE \A j \in Batch : Finite(f[b[j]])
  <2>1. costs \subseteq Costs /\ costs # {}
    <3>1. \A j \in Batch : f[b[j]] \in Costs
      BY BatchFacts
    <3> QED BY <1>1, <3>1
  <2>2. high \in costs
    <3> HIDE DEF costs
    <3>1. \E v \in costs : \A w \in costs : w <= v
      BY <2>1, ExtremeCosts
    <3> QED BY <3>1
  <2>3. Finite(high)
    BY <1>4, <2>2
  <2>4. losses = costs
    <3>1. \A j \in Batch : Finite(f[b[j]]) /\ Lost(f[b[j]], FALSE) = f[b[j]]
      BY <1>4, BatchFacts
    <3>2. {i \in Batch : Finite(f[b[i]])} = Batch
      BY <3>1, Zenon
    <3>3. {Lost(f[b[j]], FALSE) : j \in Batch} = {f[b[j]] : j \in Batch}
      BY <3>1, Zenon
    <3> QED BY <3>2, <3>3, Zenon
  <2>5. AlphaUnit * (f[b[k]] - low) <= alpha * (high - low)
    BY <2>3 DEF RustList
  <2>6. Lost(f[b[k]], FALSE) = f[b[k]] /\ Finite(f[b[k]])
    BY <1>2, <1>4, BatchFacts
  <2> HIDE DEF costs, losses
  <2>7. LET l == Least(losses)
            h == CHOOSE v \in losses : \A w \in losses : w <= v
            mine == Lost(f[b[k]], FALSE)
        IN  Finite(mine) /\ AlphaUnit * (mine - l) <= alpha * (h - l)
    BY <2>4, <2>5, <2>6
  <2> QED BY <1>2, <2>7, WorthyPick DEF losses
<1> QED BY <1>3, <1>4

(* Julia picks a worthy candidate.                                         *)
LEMMA JuliaPicks ==
  ASSUME NEW f \in Prices, NEW guess, NEW b \in Batches(guess, Box), NEW alpha,
         NEW k \in JuliaList(f, b, alpha)
  PROVE  /\ k \in Batch
         /\ "unworthy" \notin Pick(f, b, k, alpha, JuliaList(f, b, alpha), FALSE)
<1> DEFINE valid == {j \in Batch : Finite(f[b[j]])}
           costs == {f[b[j]] : j \in valid}
           low == Least(costs)
           high == CHOOSE v \in costs : \A w \in costs : w <= v
           losses == {Lost(f[b[j]], FALSE) : j \in {i \in Batch : Finite(f[b[i]])}}
<1>1. 1 \in Batch
  BY PortAssumption
<1>2. CASE valid = {}
  <2>1. losses = {}
    BY <1>2
  <2>2. k \in Batch
    BY <1>1, <1>2 DEF JuliaList
  <2> QED BY <2>1, <2>2, WorthyPick
<1>3. CASE valid # {}
  <2>1. k \in valid /\ AlphaUnit * (f[b[k]] - low) <= alpha * (high - low)
    BY <1>3 DEF JuliaList
  <2>2. losses = costs
    <3>1. \A j \in Batch : Lost(f[b[j]], FALSE) = f[b[j]]
      BY BatchFacts
    <3>2. {Lost(f[b[j]], FALSE) : j \in valid} = {f[b[j]] : j \in valid}
      BY <3>1, Zenon
    <3> QED BY <3>2, Zenon
  <2>3. Lost(f[b[k]], FALSE) = f[b[k]] /\ Finite(f[b[k]])
    <3>1. k \in Batch /\ Finite(f[b[k]])
      BY <2>1
    <3> QED BY <3>1, BatchFacts
  <2> HIDE DEF costs, losses
  <2>4. LET l == Least(losses)
            h == CHOOSE v \in losses : \A w \in losses : w <= v
            mine == Lost(f[b[k]], FALSE)
        IN  Finite(mine) /\ AlphaUnit * (mine - l) <= alpha * (h - l)
    BY <2>1, <2>2, <2>3
  <2> QED BY <2>1, <2>4, WorthyPick DEF losses
<1> QED BY <1>2, <1>3

(* R does, unless the list has a single candidate.                         *)
LEMMA RPicks ==
  ASSUME NEW f \in Prices, NEW guess, NEW b \in Batches(guess, Box), NEW alpha,
         NEW up \in BOOLEAN, NEW k \in RSampled(RList(f, b, alpha, up))
  PROVE  /\ k \in Batch
         /\ "unworthy" \in Pick(f, b, k, alpha, RList(f, b, alpha, up), up) =>
              "lone" \in Pick(f, b, k, alpha, RList(f, b, alpha, up), up)
<1> DEFINE list == RList(f, b, alpha, up)
           losses == {Lost(f[b[j]], up) : j \in {i \in Batch : Finite(f[b[i]])}}
<1>1. k \in Batch /\ (k \in list \/ \E j \in list : list = {j})
  BY DEF RSampled
<1>2. CASE \E j \in list : list = {j}
  <2>1. Cardinality(list) = 1
    BY <1>2, FS_Singleton
  <2> HIDE DEF list
  <2> QED BY <1>1, <2>1, WorthyPick DEF list
<1>3. CASE k \in list
  <2>1. LET l == Least(losses)
            h == CHOOSE v \in losses : \A w \in losses : w <= v
            mine == Lost(f[b[k]], up)
        IN  Finite(f[b[k]]) /\ AlphaUnit * (mine - l) <= alpha * (h - l)
    BY <1>3 DEF RList
  <2>2. f[b[k]] \in Costs
    BY <1>1, BatchFacts
  <2>3. Finite(Lost(f[b[k]], up))
    BY <2>1, <2>2, EliteAssumption, LossFacts DEF Finite
  <2> QED BY <1>1, <2>1, <2>3, WorthyPick
<1> QED BY <1>1, <1>2, <1>3

\* What a construction of a port hands over: a candidate, with its
\* cost and its flaws, which may be those the port is known for.
Handed(c, f, points, excuse) ==
  /\ \E s \in points : c.entry = PricedBy(f, s)
  /\ "unworthy" \in c.flaws => excuse \in c.flaws

(* So it is in Rust and C++,                                               *)
LEMMA RustHandsOver ==
  ASSUME price \in Prices, NEW guess \in {<<>>} \cup WarmStarts,
         NEW c \in RustConstructions(guess)
  PROVE  Handed(c, price, Wide, "blind")
<1>1. PICK b \in Batches(guess, Wide), alpha \in Alphas : c \in RustChoices(price, b, alpha)
  BY DEF RustConstructions, RustConstructed
<1>2. PICK k \in RustList(price, b, alpha) :
        c = [entry |-> PricedBy(price, b[k]),
             flaws |-> Pick(price, b, k, alpha, RustList(price, b, alpha), FALSE)]
  BY <1>1 DEF RustChoices
<1>3. b[k] \in Wide
  BY RustPicks, BatchFacts
<1> QED BY <1>2, <1>3, RustPicks DEF Handed

(* in Julia,                                                               *)
LEMMA JuliaHandsOver ==
  ASSUME price \in Prices, guesses \in WarmStarts, NEW c \in JuliaConstructions
  PROVE  (\E s \in Box : c.entry = PricedBy(price, s)) /\ "unworthy" \notin c.flaws
<1>0. JuliaKept \in {<<>>} \cup WarmStarts
  BY DEF JuliaKept
<1>1. PICK b \in Batches(JuliaKept, Box), alpha \in Alphas :
        c \in JuliaChoices(price, b, alpha)
  BY <1>0 DEF JuliaConstructions, JuliaConstructed
<1>2. PICK k \in JuliaList(price, b, alpha) :
        c = [entry |-> PricedBy(price, b[k]),
             flaws |-> Pick(price, b, k, alpha, JuliaList(price, b, alpha), FALSE)]
  BY <1>1 DEF JuliaChoices
<1>3. b[k] \in Box
  BY JuliaPicks, BatchFacts
<1> QED BY <1>2, <1>3, JuliaPicks

(* and in R.                                                               *)
LEMMA RHandsOver ==
  ASSUME price \in Prices, config \in Settings, NEW c \in RConstructions
  PROVE  Handed(c, price, Box, "lone")
<1> DEFINE up == config.maximize
<1>0. up \in BOOLEAN
  BY PortAssumption DEF Setting
<1> HIDE DEF up
<1>1. PICK b \in Batches(<<>>, Box), alpha \in Alphas : c \in RChoices(price, b, alpha, up)
  BY <1>0 DEF RConstructions, RConstructed, up
<1>2.   \/ \E k \in RSampled(RList(price, b, alpha, up)) :
             c = [entry |-> PricedBy(price, b[k]),
                  flaws |-> Pick(price, b, k, alpha, RList(price, b, alpha, up), up)]
        \/ \E s \in Box : c = [entry |-> PricedBy(price, s), flaws |-> {}]
  BY <1>1 DEF RChoices
<1>3. CASE \E s \in Box : c = [entry |-> PricedBy(price, s), flaws |-> {}]
  BY <1>3 DEF Handed
<1>4. ASSUME NEW k \in RSampled(RList(price, b, alpha, up)),
             c = [entry |-> PricedBy(price, b[k]),
                  flaws |-> Pick(price, b, k, alpha, RList(price, b, alpha, up), up)]
      PROVE  Handed(c, price, Box, "lone")
  <2>1. b[k] \in Box
    BY <1>0, RPicks, BatchFacts
  <2> QED BY <1>0, <1>4, <2>1, RPicks DEF Handed
<1> QED BY <1>2, <1>3, <1>4

-----------------------------------------------------------------------------
(* The invariant of a run.                                                 *)

\* The stages of an iteration; those with a candidate, those after it was
\* recorded, and those after the monitor's turn.
Searched == {"vnd", "ils", "record"}
Recorded == {"monitor", "relink", "pairs", "restart", "stop", "next"}
Inside == Searched \cup Recorded
Watched == IF config.port = "r" THEN {"restart", "next"}
           ELSE {"relink", "pairs", "restart", "stop"}

At(S) == IF pc \in S THEN 1 ELSE 0

TypeInv ==
  /\ config \in Settings /\ objective \in Objectives /\ guesses \in WarmStarts
  /\ config.port # "rust" => guesses \in Seq(Box)
  /\ price \in Readings(objective)
  /\ pc \in {"start", "seed", "head", "done"} \cup Inside
  /\ seeded \in Nat
  /\ pc = "start" => best = Nothing
  /\ pc # "start" => best \in Entry
  /\ bestEver \in Costs \cup {-1} /\ (config.port # "r" => bestEver \in Costs)
  /\ items \in Seq(Entry) /\ Len(items) <= EliteSize
  /\ snapshot \in Seq(Entry)
  /\ pair \in Nat \X Nat /\ 1 <= pair[1] /\ pair[1] < pair[2]
  /\ late => config.limited
  /\ found \in Costs /\ gaveUp \in Costs /\ leaked \in BOOLEAN

ControlInv ==
  /\ spent \in 0..MaxIterations /\ (pc \in Inside => spent < MaxIterations)
  /\ pc \in {"start", "seed"} => spent = 0
  /\ ended \in {"running", "max_iterations", "time_limit", "early_stop"}
  /\ pc = "done" <=> ended # "running"
  /\ ended = "time_limit" => spent < MaxIterations
  /\ nit = IF config.port = "julia" THEN IF pc = "done" THEN spent ELSE 0
           ELSE IF pc \in Inside \/ (config.port = "r" /\ ended = "time_limit")
                THEN spent + 1 ELSE spent
  /\ lastGain \in Nat /\ lastGain <= spent + At(Recorded)
  /\ stagnation \in Nat /\ stagnation <= spent + At(Recorded)
  /\ noImprove \in Nat /\ noImprove <= spent + At(Watched)

\* The monitor has not seen the incumbent yet.
Unseen == bestEver = -1 \/ Better(best.cost, bestEver)

\* The turns the monitor has had.
Turns == spent + At(Watched)

\* What the monitor counts is the distance from the last improvement, or one
\* less, if it came after the monitor's turn; what it has seen is not better
\* than the incumbent.
CountInv ==
  pc # "done" /\ config.monitor =>
    /\ pc = "start" => bestEver = IF config.port = "r" THEN -1 ELSE Infinity
    /\ bestEver = -1 \/ ~Better(bestEver, best.cost)
    /\ Unseen => lastGain >= Turns
    /\ ~Unseen => noImprove + lastGain <= Turns
    /\ ~Deaf => Turns <= lastGain + noImprove + 1
    /\ pc \notin Watched \/ config.port = "r" => noImprove < config.stopAfter
    /\ config.port = "rust" => noImprove < MonitorThreshold \/ noImprove = 0

EndInv ==
  ended = "early_stop" =>
    /\ config.monitor /\ ~Deaf
    /\ \/ nit - lastGain >= config.stopAfter
       \/ lastGain = nit /\ config.port # "r"

\* Where a run searches, and the solutions it may hold: one of these, or what
\* a walk of Rust and C++ makes of them.
Room == IF config.port = "rust" THEN Wide ELSE Box

MayHold(s) ==
  /\ s \in Solutions
  /\ s \in Room \/ (config.port = "rust" /\ ~Feasible /\ s \in Holed)

Elites == Kept(pool) \cup Kept(items)

PointInv ==
  /\ IF pc \in Searched THEN \E s \in Room : cand = Priced(s) ELSE cand = Nothing
  /\ pc # "start" => MayHold(best.sol)
  /\ pc = "seed" => best.sol \in Room
  /\ \A e \in Elites \cup Kept(snapshot) : e.sol \in Room

CostInv ==
  pc # "start" /\ ~leaked => \A e \in {best} \cup Elites : Belongs(e)

\* The incumbent is as good as what the descents have found, but for what ILS
\* has given up and for what is still to be recorded.
FoundInv ==
  \/ Hopeless
  \/ Loss(best.cost) <= found
  \/ found = gaveUp /\ config.port # "r"
  \/ pc = "ils" /\ found = Loss(cand.cost)
  \/ pc = "record" /\ Loss(cand.cost) <= found

LossInv ==
  /\ found <= gaveUp
  /\ pc = "start" => found = Infinity /\ gaveUp = Infinity /\ pool = <<>> /\ items = <<>>
  /\ pc = "seed" /\ config.port = "rust" =>
       \A k \in DOMAIN guesses : best.cost <= price[guesses[k]]
  /\ pc = "ils" => found <= Loss(cand.cost)
  /\ pc # "start" => FoundInv
  /\ Hopeless \/ \A e \in Elites : Loss(best.cost) <= Loss(e.cost)

RunInv ==
  /\ TypeInv /\ ControlInv /\ CountInv /\ EndInv /\ PointInv /\ CostInv
  /\ LossInv /\ PickWorthy /\ PoolOK(pool)

-----------------------------------------------------------------------------
(* Stages and their results.                                               *)

(* The inputs of a run are what the assumptions say.                       *)
LEMMA InputFacts ==
  ASSUME TypeInv
  PROVE  /\ config \in Setting /\ config.maximize \in BOOLEAN /\ config.monitor \in BOOLEAN
         /\ config.stopAfter \in Nat \ {0}
         /\ config.maximize => config.port = "r"
         /\ price \in Prices /\ price \in [Solutions -> Costs]
         /\ Len(guesses) \in Nat /\ DOMAIN guesses = 1..Len(guesses)
         /\ \A k \in 1..Len(guesses) : guesses[k] \in Room
         /\ Room \subseteq Solutions /\ Box \subseteq Room
         /\ Room = IF config.port = "rust" THEN Wide ELSE Box
<1>1. config \in Settings /\ objective \in Objectives /\ guesses \in WarmStarts
  BY DEF TypeInv
<1>2. guesses \in Seq(Room)
  BY <1>1, PortAssumption DEF TypeInv, Room
<1>3. \A k \in 1..Len(guesses) : guesses[k] \in Room
  BY <1>2, ElementOfSeq
<1>4. Len(guesses) \in Nat /\ DOMAIN guesses = 1..Len(guesses)
  BY <1>2, LenProperties
<1>5. config \in Setting /\ config.stopAfter > 0 /\ (config.maximize => config.port = "r")
  BY <1>1, PortAssumption
<1>6. price \in Prices /\ price \in [Solutions -> Costs]
  BY <1>1, ReadingFacts, PriceFacts DEF TypeInv
<1>7. /\ config.maximize \in BOOLEAN /\ config.monitor \in BOOLEAN
      /\ config.stopAfter \in Nat
  BY <1>5 DEF Setting
<1> QED BY <1>3, <1>4, <1>5, <1>6, <1>7, LevelFacts DEF Room

(* A priced solution is an entry, and its cost belongs to it.              *)
LEMMA PricedFacts ==
  ASSUME TypeInv, NEW s \in Solutions
  PROVE  /\ Priced(s) \in Entry /\ Priced(s).sol = s
         /\ Priced(s).cost = price[s]
         /\ Priced(s) = PricedBy(price, s)
         /\ Belongs(Priced(s))
         /\ price[s] \in Costs
<1>1. price \in Prices /\ \E t \in Twins(s) : price[s] = objective[t]
  BY ReadingFacts DEF TypeInv
<1>2. Priced(s) = PricedBy(price, s)
  BY DEF Priced, PricedBy
<1> QED BY <1>1, <1>2, PricedProperties DEF Belongs

(* Descents of a run stay where they start, those of Julia in the box.     *)
LEMMA VndWithin ==
  ASSUME TypeInv
  PROVE  /\ \A I \in {Wide, Holed} : \A s \in I : RustVnd(s) \subseteq I
         /\ \A s \in Box : RVnd(s) \subseteq Box
         /\ \A s \in Solutions : JuliaVnd(s) \subseteq Box
<1>1. price \in Prices /\ config.maximize \in BOOLEAN
  BY InputFacts
<1>2. \A I \in {Wide, Holed} : \A s \in I : RustDescents[price][s] \subseteq I
  BY <1>1, RustDescentsWithin
<1>3. \A s \in Box : RDescents[price][config.maximize][s] \subseteq Box
  BY <1>1, RDescentsInBox
<1>4. \A s \in Solutions : JuliaDescents[price][s] \subseteq Box
  BY <1>1, JuliaDescentsInBox
<1> QED BY <1>2, <1>3, <1>4, ProjectedInBox DEF RustVnd, RVnd, JuliaVnd

(* So does ILS; only Julia's may return a cost that is not the solution's. *)
LEMMA IlsWithin ==
  ASSUME TypeInv
  PROVE  /\ \A s \in Wide : \A e \in RustIls(Priced(s)) : \E t \in Wide : e = Priced(t)
         /\ \A e \in Entry : e.sol \in Box =>
              \A h \in JuliaIls(e) : h \in Entry /\ h.sol \in Box
         /\ \A s \in Box : \A e \in RIls(Priced(s)) :
              /\ \E t \in Box : e = Priced(t)
              /\ Loss(e.cost) <= Loss(price[s])
<1>1. price \in Prices /\ config.maximize \in BOOLEAN
  BY InputFacts
<1>2. Box \subseteq Wide /\ Wide \subseteq Solutions
  BY LevelFacts
<1>3. \A s \in Wide : Priced(s).sol = s /\ PricedBy(price, s) = Priced(s)
  BY <1>2, PricedFacts
<1>4. ASSUME NEW s \in Wide, NEW e \in RustIls(Priced(s))
      PROVE  \E t \in Wide : e = Priced(t)
  <2>1. \A h \in RustSearches[price][s] : \E t \in Wide : h = Priced(t)
    BY <1>1, <1>3, RustSearchesWithin DEF PricedIn
  <2> QED BY <1>3, <1>4, <2>1 DEF RustIls
<1>5. ASSUME NEW e \in Entry, e.sol \in Box, NEW h \in JuliaIls(e)
      PROVE  h \in Entry /\ h.sol \in Box
  <2>1. \A g \in JuliaSearches[price][e] : g \in Entry /\ g.sol \in Box
    BY <1>1, <1>5, JuliaSearchesInBox
  <2> QED BY <1>5, <2>1 DEF JuliaIls
<1>6. ASSUME NEW s \in Box, NEW e \in RIls(Priced(s))
      PROVE  (\E t \in Box : e = Priced(t)) /\ Loss(e.cost) <= Loss(price[s])
  <2>1. e \in RSearches[price][config.maximize][s]
    BY <1>2, <1>3 DEF RIls
  <2>2. e \in PricedIn(price, Box) /\ Loss(e.cost) <= Loss(price[s])
    BY <1>1, <2>1, RSearchesWithin DEF Loss
  <2> QED BY <1>2, <1>3, <2>2 DEF PricedIn
<1> QED BY <1>4, <1>5, <1>6

(* Costs and losses of a run are numbers.                                  *)
LEMMA CostFacts ==
  /\ Infinity \in Nat /\ Infinity \in Costs
  /\ \A v \in Costs : v \in Nat /\ v \in Int /\ v <= Infinity
  /\ \A e \in Entry : e.cost \in Costs /\ e.sol \in Solutions
BY EliteAssumption DEF Costs, Entry

(* Without a maximization, "e.cost < best.cost" is is_improvement.         *)
LEMMA GainIsImprovement ==
  ASSUME TypeInv, config.port # "r", NEW v \in Costs, NEW w \in Costs
  PROVE  v < w <=> RImproves(v, w)
<1>1. ~config.maximize
  BY InputFacts
<1> QED BY <1>1, CostFacts DEF RImproves, Finite, Better, Beats

\* The actions with which a run starts, and those in which a solution faces
\* the incumbent or the pool.
Starts == RustStart \/ JuliaStart \/ RStart

Produces ==
  \/ RustSeed \/ RustRecord \/ RustRelink \/ RustRestart
  \/ JuliaSeed \/ JuliaRecord \/ JuliaRelink \/ JuliaRestart
  \/ RSeed \/ RRecord \/ RRelink \/ RRestart

\* What becomes of the elites when e comes by.
Elects(e) ==
  /\ Offer(e) \/ UNCHANGED pool
  /\ items' = RElites(items, e) \/ UNCHANGED items
  /\ e.sol \in Room \/ UNCHANGED elites

\* The date of an improvement.
Now == IF pc = "seed" THEN 0 ELSE spent + 1

\* e faces the incumbent.
Faces(e) ==
  /\ MayHold(e.sol)
  /\ Belongs(e) \/ leaked'
  /\ Challenge(e, RImproves(e.cost, best.cost), Now)
  /\ Elects(e)
  /\ Met(e) \/ UNCHANGED found
  /\ pc = "record" => e = cand
  /\ pc = "seed" => e.sol \in Room

\* Nobody faces anybody.
Peace == UNCHANGED <<incumbent, elites, found>> /\ pc # "record"

(* What a start of any port does.                                          *)
LEMMA Starting ==
  ASSUME TypeInv, Starts
  PROVE  \E e \in Entry :
           /\ e.sol \in Room /\ Belongs(e)
           /\ best' = e /\ Elects(e) /\ Met(e) /\ UNCHANGED lastGain
           /\ config.port = "rust" =>
                \A k \in DOMAIN guesses : e.cost <= price[guesses[k]]
           /\ pc' = "seed" /\ pc = "start"
<1>0. /\ \A s \in Room : /\ Priced(s) \in Entry /\ Priced(s).sol = s
                         /\ Priced(s).cost = price[s] /\ PricedBy(price, s) = Priced(s)
                         /\ Belongs(Priced(s))
      /\ \A k \in DOMAIN guesses : guesses[k] \in Room
      /\ guesses # <<>> => 1 \in DOMAIN guesses
      /\ price \in Prices /\ guesses \in WarmStarts /\ config \in Settings
      /\ Room = IF config.port = "rust" THEN Wide ELSE Box
  <2>1. guesses \in Seq(Wide)
    BY PortAssumption DEF TypeInv
  <2>2. guesses # <<>> => Len(guesses) # 0
    BY <2>1, EmptySeq
  <2> QED BY <2>2, InputFacts, PricedFacts DEF TypeInv
<1>1. CASE RustStart
  <2>1. CASE guesses # <<>>
    <3>1. PICK k \in DOMAIN guesses :
            /\ \A j \in DOMAIN guesses : price[guesses[k]] <= price[guesses[j]]
            /\ best' = Priced(guesses[k])
      BY <1>1, <2>1 DEF RustStart
    <3>2. Priced(guesses[k]).cost = price[guesses[k]]
      BY <1>0
    <3> QED BY <1>0, <1>1, <3>1, <3>2 DEF RustStart, elites, Elects
  <2>2. CASE guesses = <<>>
    <3>1. PICK c \in RustConstructions(<<>>) : best' = c.entry
      BY <1>1, <2>2 DEF RustStart
    <3>2. PICK s \in Wide : c.entry = PricedBy(price, s)
      BY <1>0, RustHandsOver DEF Handed
    <3>3. DOMAIN guesses = {} /\ s \in Room
      BY <1>0, <1>1, <2>2 DEF RustStart
    <3> QED BY <1>0, <1>1, <3>1, <3>2, <3>3 DEF RustStart, elites, Elects
  <2> QED BY <2>1, <2>2
<1>2. CASE JuliaStart
  <2>0. config.port = "julia" /\ Room = Box
    BY <1>0, <1>2 DEF JuliaStart
  <2>1. PICK s \in Box :
          best' = Priced(s) /\ Met(Priced(s)) /\ OfferIf(config.elitePool, Priced(s))
    BY <1>0, <1>2, <2>0 DEF JuliaStart
  <2> QED BY <1>0, <1>2, <2>0, <2>1 DEF JuliaStart, Elects, OfferIf
<1>3. CASE RStart
  <2>0. config.port = "r" /\ Room = Box
    BY <1>0, <1>3 DEF RStart
  <2>1. \E s \in Box : best' = Priced(s)
    <3>1. CASE guesses # <<>> /\ best' = Priced(guesses[1])
      BY <1>0, <2>0, <3>1
    <3>2. CASE \E c \in RConstructions : best' = c.entry
      BY <1>0, <2>0, <3>2, RHandsOver DEF Handed
    <3> QED BY <1>3, <3>1, <3>2 DEF RStart
  <2> QED BY <1>0, <1>3, <2>0, <2>1 DEF RStart, Elects, ROffer
<1> QED BY <1>1, <1>2, <1>3 DEF Starts

(* What a run may hold, with its price; so is a solution that a descent of *)
(* Rust makes of a walk's result.                                          *)
LEMMA Holdable ==
  ASSUME TypeInv
  PROVE  /\ \A s \in Room : MayHold(s) /\ s \in Solutions
         /\ \A s : MayHold(s) =>
              /\ Priced(s) \in Entry /\ Priced(s).sol = s
              /\ Belongs(Priced(s)) /\ Priced(s) = PricedBy(price, s)
              /\ Priced(s).cost = price[s] /\ price[s] \in Costs
         /\ config.port = "rust" =>
              \A s, t \in Wide : \A w \in RustRelinked(s, t) :
                \A u \in RustVnd(w) : MayHold(u)
<1>1. /\ \A s \in Room : MayHold(s) /\ s \in Solutions
      /\ \A s : MayHold(s) => s \in Solutions
  BY InputFacts DEF MayHold
<1>2. ASSUME NEW s \in Wide, NEW t \in Wide, NEW w \in RustRelinked(s, t),
             config.port = "rust", NEW u \in RustVnd(w)
      PROVE  MayHold(u)
  <2>1. /\ w \in Holed
        /\ Feasible => w \in Wide
    BY RustRelinkedWithin DEF TypeInv
  <2>2. u \in Holed /\ (w \in Wide => u \in Wide) /\ Holed \subseteq Solutions
    BY <2>1, VndWithin, LevelFacts
  <2> QED BY <1>2, <2>1, <2>2 DEF MayHold, Room
<1> QED BY <1>1, <1>2, PricedFacts

(* A member of a sequence of entries.                                      *)
LEMMA KeptFacts ==
  ASSUME NEW q \in Seq(Entry)
  PROVE  /\ Kept(q) \subseteq Entry
         /\ Len(q) \in Nat /\ DOMAIN q = 1..Len(q)
         /\ \A k \in 1..Len(q) : q[k] \in Kept(q) /\ q[k] \in Entry
<1>1. Len(q) \in Nat /\ DOMAIN q = 1..Len(q) /\ \A k \in 1..Len(q) : q[k] \in Entry
  BY LenProperties, ElementOfSeq
<1> QED BY <1>1 DEF Kept

(* In Rust and C++, an action after the start that may change the          *)
(* incumbent lets an entry face it or leaves everything as it is.          *)
LEMMA RustProduction ==
  ASSUME TypeInv, PointInv, CostInv, LossInv, PoolOK(pool),
         RustSeed \/ RustRecord \/ RustRelink \/ RustRestart
  PROVE  (\E e \in Entry : Faces(e)) \/ Peace
<1>0. /\ config.port = "rust" /\ config.port # "r" /\ pc # "start"
      /\ best \in Entry /\ pool \in Seq(Entry)
      /\ \A k \in 1..Len(guesses) : guesses[k] \in Room
      /\ Len(guesses) \in Nat /\ DOMAIN guesses = 1..Len(guesses)
      /\ Room = Wide
  BY InputFacts DEF TypeInv, RustSeed, RustRecord, RustRelink, RustRestart, PoolOK
<1>a. \A e \in Entry : e.cost < best.cost <=> RImproves(e.cost, best.cost)
  BY <1>0, GainIsImprovement, CostFacts
<1>b. best.cost \in Int /\ \A e \in Entry : e.cost \in Int
  BY <1>0, CostFacts
<1>1. CASE RustSeed
  <2>1. CASE config.elitePool /\ seeded <= Len(guesses) /\
             Offer(IF seeded = 0 THEN best ELSE Priced(guesses[seeded]))
    <3> DEFINE e == IF seeded = 0 THEN best ELSE Priced(guesses[seeded])
    <3>0. pc = "seed" /\ best.sol \in Room /\ UNCHANGED <<incumbent, items, history>>
      BY <1>1 DEF RustSeed, PointInv
    <3>1. /\ e \in Entry /\ e.sol \in Room
          /\ Belongs(e) \/ leaked
          /\ ~(e.cost < best.cost)
      <4>1. CASE seeded = 0
        <5>1. e = best
          BY <4>1
        <5>2. Belongs(best) \/ leaked
          BY <1>0 DEF CostInv
        <5>3. ~(best.cost < best.cost)
          BY <1>b
        <5> HIDE DEF e
        <5> QED BY <1>0, <3>0, <5>1, <5>2, <5>3
      <4>2. CASE seeded # 0
        <5>1. seeded \in 1..Len(guesses)
          BY <1>0, <2>1, <4>2 DEF TypeInv
        <5>2. guesses[seeded] \in Room /\ best.cost <= price[guesses[seeded]]
          BY <1>0, <3>0, <5>1 DEF LossInv
        <5>3. e = Priced(guesses[seeded])
          BY <4>2
        <5>4. /\ Priced(guesses[seeded]) \in Entry
              /\ Priced(guesses[seeded]).sol = guesses[seeded]
              /\ Belongs(Priced(guesses[seeded]))
              /\ Priced(guesses[seeded]).cost = price[guesses[seeded]]
          BY <5>2, Holdable
        <5>5. ~(price[guesses[seeded]] < best.cost)
          BY <1>b, <5>2, <5>4
        <5> HIDE DEF e
        <5> QED BY <5>2, <5>3, <5>4, <5>5
      <4> QED BY <4>1, <4>2
    <3> HIDE DEF e
    <3>2. MayHold(e.sol) /\ Offer(e) /\ ~RImproves(e.cost, best.cost)
      BY <1>a, <2>1, <3>1, Holdable DEF e
    <3> QED
      BY <3>0, <3>1, <3>2 DEF Faces, Elects, Challenge, history
  <2>2. CASE UNCHANGED pool
    BY <1>1, <2>2 DEF RustSeed, Peace, elites, history
  <2> QED BY <1>1, <2>1, <2>2 DEF RustSeed
<1>2. CASE RustRecord
  <2>1. PICK s \in Room : cand = Priced(s)
    BY <1>2 DEF RustRecord, PointInv, Searched
  <2>2. cand \in Entry /\ cand.sol \in Room /\ Belongs(cand) /\ MayHold(cand.sol)
    BY <2>1, Holdable
  <2>3. Challenge(cand, RImproves(cand.cost, best.cost), Now)
    BY <1>2, <1>a, <2>2 DEF RustRecord, Now, Challenge
  <2>4. Elects(cand)
    BY <1>2, <2>2 DEF RustRecord, Elects, OfferIf
  <2> QED BY <1>2, <2>2, <2>3, <2>4 DEF RustRecord, Faces, history
<1>3. CASE RustRelink
  <2>1. pair[1] \in 1..Len(pool) /\ pair[2] \in 1..Len(pool)
    BY <1>0, <1>3, LenProperties DEF RustRelink, RustPairs
  <2>2. pool[pair[1]].sol \in Room /\ pool[pair[2]].sol \in Room
    BY <1>0, <2>1, KeptFacts DEF PointInv, Elites
  <2>a. PICK w \in RustRelinked(pool[pair[1]].sol, pool[pair[2]].sol) :
          \E t \in RustVnd(w) :
            /\ Challenge(Priced(t), price[t] < best.cost, spent + 1)
            /\ Met(Priced(t))
    BY <1>3 DEF RustRelink
  <2>3. PICK t \in RustVnd(w) :
          /\ Challenge(Priced(t), price[t] < best.cost, spent + 1)
          /\ Met(Priced(t))
    BY <2>a
  <2>4. MayHold(t)
    BY <1>0, <2>2, <2>3, Holdable
  <2>5. /\ Priced(t) \in Entry /\ Priced(t).sol = t /\ Priced(t).cost = price[t]
        /\ Belongs(Priced(t))
    BY <2>4, Holdable
  <2>6. Challenge(Priced(t), RImproves(Priced(t).cost, best.cost), Now)
    BY <1>3, <1>a, <2>3, <2>5 DEF RustRelink, Now, Challenge
  <2>7. Elects(Priced(t))
    BY <1>3 DEF RustRelink, Elects, elites
  <2> QED BY <1>3, <2>3, <2>4, <2>5, <2>6, <2>7 DEF RustRelink, Faces
<1>4. CASE RustRestart
  <2>1. PICK s \in Wide :
          \E t \in RustVnd(s) : \E e \in RustIls(Priced(t)) :
            Challenge(e, e.cost < best.cost, spent + 1)
    BY <1>4 DEF RustRestart
  <2>a. PICK t \in RustVnd(s) :
          \E e \in RustIls(Priced(t)) : Challenge(e, e.cost < best.cost, spent + 1)
    BY <2>1
  <2>2. PICK e \in RustIls(Priced(t)) : Challenge(e, e.cost < best.cost, spent + 1)
    BY <2>a
  <2>3. t \in Wide
    BY <1>0, VndWithin
  <2>4. PICK u \in Room : e = Priced(u)
    BY <1>0, <2>3, IlsWithin
  <2>5. e \in Entry /\ e.sol \in Room /\ Belongs(e) /\ MayHold(e.sol)
    BY <2>4, Holdable
  <2>6. Challenge(e, RImproves(e.cost, best.cost), Now)
    BY <1>4, <1>a, <2>2, <2>5 DEF RustRestart, Now, Challenge
  <2>7. Elects(e) /\ UNCHANGED found
    BY <1>4 DEF RustRestart, Elects, elites, history
  <2> QED BY <1>4, <2>5, <2>6, <2>7 DEF RustRestart, Faces
<1> QED BY <1>1, <1>2, <1>3, <1>4

(* So it is in Julia,                                                      *)
LEMMA JuliaProduction ==
  ASSUME TypeInv, PointInv,
         JuliaSeed \/ JuliaRecord \/ JuliaRelink \/ JuliaRestart
  PROVE  (\E e \in Entry : Faces(e)) \/ Peace
<1>0. /\ config.port = "julia" /\ config.port # "r" /\ pc # "start"
      /\ best \in Entry /\ snapshot \in Seq(Entry)
      /\ \A k \in 1..Len(guesses) : guesses[k] \in Room
      /\ Len(guesses) \in Nat /\ Box \subseteq Solutions /\ Room = Box
  BY InputFacts, LevelFacts DEF TypeInv, JuliaSeed, JuliaRecord, JuliaRelink, JuliaRestart
<1>a. \A e \in Entry : e.cost < best.cost <=> RImproves(e.cost, best.cost)
  BY <1>0, GainIsImprovement, CostFacts
<1>1. CASE JuliaSeed
  <2>1. CASE seeded < Len(guesses)
    <3> DEFINE e == Priced(guesses[seeded + 1])
    <3>1. seeded + 1 \in 1..Len(guesses)
      BY <1>0, <2>1 DEF TypeInv
    <3>2. e \in Entry /\ e.sol \in Room /\ Belongs(e) /\ MayHold(e.sol)
      BY <1>0, <3>1, Holdable
    <3>3. /\ OfferIf(config.elitePool, e) /\ Challenge(e, e.cost < best.cost, 0)
          /\ pc = "seed" /\ UNCHANGED <<items, history>>
      BY <1>1, <2>1 DEF JuliaSeed
    <3> HIDE DEF e
    <3>4. Challenge(e, RImproves(e.cost, best.cost), Now)
      BY <1>a, <3>2, <3>3 DEF Now, Challenge
    <3> QED BY <3>2, <3>3, <3>4 DEF Faces, Elects, OfferIf, history
  <2>2. CASE UNCHANGED <<incumbent, pool>>
    BY <1>1, <2>2 DEF JuliaSeed, Peace, elites, history
  <2> QED BY <1>1, <2>1, <2>2 DEF JuliaSeed
<1>2. CASE JuliaRecord
  <2>1. PICK s \in Room : cand = Priced(s)
    BY <1>2 DEF JuliaRecord, PointInv, Searched
  <2>2. cand \in Entry /\ cand.sol \in Room /\ Belongs(cand) /\ MayHold(cand.sol)
    BY <2>1, Holdable
  <2>3. Challenge(cand, RImproves(cand.cost, best.cost), Now)
    BY <1>2, <1>a, <2>2 DEF JuliaRecord, Now, Challenge
  <2>4. Elects(cand)
    BY <1>2, <2>2 DEF JuliaRecord, Elects, OfferIf
  <2> QED BY <1>2, <2>2, <2>3, <2>4 DEF JuliaRecord, Faces, history
<1>3. CASE JuliaRelink
  <2>1. pair[1] \in 1..Len(snapshot) /\ pair[2] \in 1..Len(snapshot)
    <3>1. Len(snapshot) \in Nat
      BY <1>0, LenProperties
    <3>2. JuliaLast = IF 4 <= Len(snapshot) THEN 4 ELSE Len(snapshot)
      <4>1. 4 \in Int /\ Len(snapshot) \in Int
        BY <3>1
      <4> QED BY <4>1, LeastOfTwo DEF JuliaLast
    <3>3. JuliaLast \in Int /\ JuliaLast <= Len(snapshot)
      BY <3>1, <3>2
    <3>4. pair[2] <= JuliaLast
      BY <1>3 DEF JuliaRelink
    <3> QED BY <3>1, <3>3, <3>4 DEF TypeInv
  <2>2. snapshot[pair[1]].sol \in Room /\ snapshot[pair[2]].sol \in Room
    BY <1>0, <2>1, KeptFacts DEF PointInv
  <2>a. PICK w \in JuliaRelinked(snapshot[pair[1]].sol, snapshot[pair[2]].sol) :
          \E t \in JuliaVnd(w) :
            /\ Challenge(Priced(t), JuliaGain(Priced(t)), spent + 1)
            /\ Offer(Priced(t)) /\ Met(Priced(t))
    BY <1>3 DEF JuliaRelink
  <2>3. PICK t \in JuliaVnd(w) :
          /\ Challenge(Priced(t), JuliaGain(Priced(t)), spent + 1)
          /\ Offer(Priced(t)) /\ Met(Priced(t))
    BY <2>a
  <2>4. w \in Box
    BY <1>0, <2>2, InputFacts, JuliaRelinkedInBox DEF TypeInv
  <2>5. t \in Room
    BY <1>0, <2>3, <2>4, VndWithin
  <2> DEFINE e == Priced(t)
  <2>6. e \in Entry /\ e.sol \in Room /\ Belongs(e) /\ MayHold(e.sol)
    BY <2>5, Holdable
  <2>b. Challenge(e, JuliaGain(e), spent + 1) /\ Offer(e) /\ Met(e)
    BY <2>3
  <2> HIDE DEF e
  <2>7. Challenge(e, RImproves(e.cost, best.cost), Now)
    BY <1>3, <1>a, <2>b, <2>6 DEF JuliaRelink, Now, Challenge, JuliaGain
  <2>8. Elects(e)
    BY <1>3, <2>b, <2>6 DEF JuliaRelink, Elects
  <2> QED BY <1>3, <2>b, <2>6, <2>7, <2>8 DEF JuliaRelink, Faces
<1>4. CASE JuliaRestart
  <2>1. PICK s \in Box :
          \E t \in JuliaVnd(s) : \E e \in JuliaIls(PricedBy(objective, t)) :
            /\ Challenge(e, e.cost < best.cost, spent + 1)
            /\ OfferIf(config.elitePool, e)
            /\ leaked' = (leaked \/ ~Belongs(e))
    BY <1>4 DEF JuliaRestart
  <2>a. PICK t \in JuliaVnd(s) :
          \E e \in JuliaIls(PricedBy(objective, t)) :
            /\ Challenge(e, e.cost < best.cost, spent + 1)
            /\ OfferIf(config.elitePool, e)
            /\ leaked' = (leaked \/ ~Belongs(e))
    BY <2>1
  <2>2. PICK e \in JuliaIls(PricedBy(objective, t)) :
          /\ Challenge(e, e.cost < best.cost, spent + 1)
          /\ OfferIf(config.elitePool, e)
          /\ leaked' = (leaked \/ ~Belongs(e))
    BY <2>a
  <2>3. t \in Box
    BY <1>0, VndWithin
  <2>4. e \in Entry /\ e.sol \in Room /\ MayHold(e.sol)
    <3>1. objective \in Prices
      BY PriceFacts DEF TypeInv
    <3>2. PricedBy(objective, t) \in Entry /\ PricedBy(objective, t).sol \in Box
      BY <1>0, <2>3, <3>1, PricedProperties
    <3> QED BY <1>0, <3>2, IlsWithin, Holdable
  <2>5. Belongs(e) \/ leaked'
    BY <2>2
  <2>6. Challenge(e, RImproves(e.cost, best.cost), Now)
    BY <1>4, <1>a, <2>2, <2>4 DEF JuliaRestart, Now, Challenge
  <2>7. Elects(e) /\ UNCHANGED found
    BY <1>4, <2>2, <2>4 DEF JuliaRestart, Elects, OfferIf
  <2> QED BY <1>4, <2>4, <2>5, <2>6, <2>7 DEF JuliaRestart, Faces
<1> QED BY <1>1, <1>2, <1>3, <1>4

(* and in R.                                                               *)
LEMMA RProduction ==
  ASSUME TypeInv, PointInv, RSeed \/ RRecord \/ RRelink \/ RRestart
  PROVE  (\E e \in Entry : Faces(e)) \/ Peace
<1>0. /\ config.port = "r" /\ pc # "start" /\ config \in Settings
      /\ \A k \in 1..Len(guesses) : guesses[k] \in Room
      /\ Len(guesses) \in Nat /\ Box \subseteq Solutions /\ Room = Box
  BY InputFacts, LevelFacts DEF TypeInv, RSeed, RRecord, RRelink, RRestart
<1>1. CASE RSeed
  <2>1. CASE seeded < Len(guesses)
    <3> DEFINE e == Priced(guesses[seeded + 1])
    <3>1. seeded + 1 \in 1..Len(guesses)
      BY <1>0, <2>1 DEF TypeInv
    <3>2. e \in Entry /\ e.sol \in Room /\ Belongs(e) /\ MayHold(e.sol)
      BY <1>0, <3>1, Holdable
    <3>3. \/ /\ ROffer(e) /\ Challenge(e, RImproves(e.cost, best.cost), 0)
             /\ pc = "seed" /\ UNCHANGED <<pool, history>>
          \/ UNCHANGED <<incumbent, elites, found>> /\ pc = "seed"
      BY <1>1, <2>1 DEF RSeed, elites, history
    <3> HIDE DEF e
    <3> QED BY <3>2, <3>3 DEF Faces, Peace, Elects, ROffer, history, Now
  <2>2. CASE UNCHANGED <<incumbent, items>>
    BY <1>1, <2>2 DEF RSeed, Peace, elites, history
  <2> QED BY <1>1, <2>1, <2>2 DEF RSeed, TypeInv
<1>2. CASE RRecord
  <2>1. PICK s \in Room : cand = Priced(s)
    BY <1>2 DEF RRecord, PointInv, Searched
  <2>2. cand \in Entry /\ cand.sol \in Room /\ Belongs(cand) /\ MayHold(cand.sol)
    BY <2>1, Holdable
  <2>3. Challenge(cand, RImproves(cand.cost, best.cost), Now)
    BY <1>2 DEF RRecord, Now
  <2>4. Elects(cand)
    BY <1>2, <2>2 DEF RRecord, Elects, ROffer
  <2> QED BY <1>2, <2>2, <2>3, <2>4 DEF RRecord, Faces, history
<1>3. CASE RRelink
  <2>1. CASE \E u \in RRelinked(items[1].sol, items[2].sol) :
               LET gain == RImproves(price[u], best.cost)
               IN  /\ Challenge(Priced(u), gain, spent + 1)
                   /\ Met(Priced(u))
    <3>1. PICK u \in RRelinked(items[1].sol, items[2].sol) :
            /\ Challenge(Priced(u), RImproves(price[u], best.cost), spent + 1)
            /\ Met(Priced(u))
      BY <2>1
    <3>2. u \in Room
      BY <1>0, RRelinkedInBox
    <3>3. /\ Priced(u) \in Entry /\ MayHold(Priced(u).sol)
          /\ Belongs(Priced(u)) /\ Priced(u).cost = price[u]
      BY <3>2, Holdable
    <3>4. Challenge(Priced(u), RImproves(Priced(u).cost, best.cost), Now)
      BY <1>3, <3>1, <3>3 DEF RRelink, Now
    <3>5. Elects(Priced(u))
      BY <1>3 DEF RRelink, Elects, elites
    <3> QED BY <1>3, <3>1, <3>3, <3>4, <3>5 DEF RRelink, Faces
  <2>2. CASE UNCHANGED <<incumbent, stagnation, found>>
    BY <1>3, <2>2 DEF RRelink, Peace
  <2> QED BY <1>3, <2>1, <2>2 DEF RRelink
<1>4. CASE RRestart
  <2>1. PICK c \in RConstructions :
          Challenge(c.entry, RImproves(c.entry.cost, best.cost), spent + 1)
    BY <1>4 DEF RRestart
  <2>2. PICK s \in Room : c.entry = PricedBy(price, s)
    BY <1>0, InputFacts, RHandsOver DEF Handed
  <2>3. c.entry = Priced(s)
    BY <2>2 DEF Priced, PricedBy
  <2>4. /\ c.entry \in Entry /\ MayHold(c.entry.sol) /\ Belongs(c.entry)
    BY <2>3, Holdable
  <2>5. Challenge(c.entry, RImproves(c.entry.cost, best.cost), Now)
    BY <1>4, <2>1 DEF RRestart, Now
  <2>6. Elects(c.entry) /\ UNCHANGED found
    BY <1>4 DEF RRestart, Elects, elites
  <2> QED BY <1>4, <2>4, <2>5, <2>6 DEF RRestart, Faces
<1> QED BY <1>1, <1>2, <1>3, <1>4

(* Every action that may change the incumbent or the pool, after the       *)
(* start, lets an entry face them or leaves them as they are.              *)
LEMMA Production ==
  ASSUME TypeInv, PointInv, CostInv, LossInv, PoolOK(pool), Produces
  PROVE  (\E e \in Entry : Faces(e)) \/ Peace
BY RustProduction, JuliaProduction, RProduction DEF Produces

-----------------------------------------------------------------------------
(* The elites.                                                             *)

(* The first entries of a pool.                                            *)
LEMMA KeepTopProperties ==
  ASSUME NEW q \in Seq(Entry), NEW n \in Nat
  PROVE  /\ KeepTop(q, n) \in Seq(Entry)
         /\ Len(KeepTop(q, n)) = IF n <= Len(q) THEN n ELSE Len(q)
         /\ \A k \in 1..Len(KeepTop(q, n)) : k \in 1..Len(q) /\ KeepTop(q, n)[k] = q[k]
         /\ Kept(KeepTop(q, n)) \subseteq Kept(q)
<1> DEFINE l == Least({n, Len(q)})
<1>0. n \in Nat /\ Len(q) \in Nat
  BY KeptFacts
<1>1. DOMAIN q = 1..Len(q) /\ \A k \in 1..Len(q) : q[k] \in Entry
  BY KeptFacts
<1>2. l = (IF n <= Len(q) THEN n ELSE Len(q)) /\ l \in Nat /\ l <= Len(q)
  <2>1. n \in Int /\ Len(q) \in Int
    BY <1>0
  <2>2. l = IF n <= Len(q) THEN n ELSE Len(q)
    BY <2>1, LeastOfTwo
  <2> HIDE DEF l
  <2> QED BY <1>0, <2>2
<1>3. KeepTop(q, n) = [k \in 1..l |-> q[k]]
  BY DEF KeepTop
<1> HIDE DEF l
<1>4. ASSUME NEW k \in 1..l PROVE k \in 1..Len(q) /\ q[k] \in Entry
  <2>1. k \in 1..Len(q)
    BY <1>0, <1>2
  <2> QED BY <1>1, <2>1
<1>5. KeepTop(q, n) \in [1..l -> Entry]
  BY <1>3, <1>4
<1>6. KeepTop(q, n) \in Seq(Entry) /\ Len(KeepTop(q, n)) = l
  BY <1>2, <1>5, IsASeq, LenProperties
<1>7. DOMAIN KeepTop(q, n) = 1..l /\ \A k \in 1..l : KeepTop(q, n)[k] = q[k]
  BY <1>3
<1>8. Kept(KeepTop(q, n)) \subseteq Kept(q)
  BY <1>1, <1>4, <1>7 DEF Kept
<1> QED BY <1>2, <1>4, <1>6, <1>7, <1>8

(* What the monitor of Rust and C++ leaves of the pool.                    *)
LEMMA TopTwoInOrder ==
  ASSUME NEW p, PoolOK(p)
  PROVE  /\ PoolOK(KeepTop(p, 2)) /\ NoWorse(KeepTop(p, 2), p)
         /\ Kept(KeepTop(p, 2)) \subseteq Kept(p)
         /\ Len(KeepTop(p, 2)) < Len(p) => KeepTop(p, 2) = SubSeq(p, 1, 2)
<1> DEFINE t == KeepTop(p, 2)
<1>1. p \in Seq(Entry) /\ Len(p) \in Nat /\ \A k \in 1..Len(p) : p[k].cost \in Int
  BY KeptFacts, EntryProperties DEF PoolOK
<1>2. /\ t \in Seq(Entry) /\ Len(t) = IF 2 <= Len(p) THEN 2 ELSE Len(p)
      /\ \A k \in 1..Len(t) : k \in 1..Len(p) /\ t[k] = p[k]
      /\ Kept(t) \subseteq Kept(p)
  BY <1>1, KeepTopProperties
<1>3. Len(t) < Len(p) => t = SubSeq(p, 1, 2)
  <2> SUFFICES ASSUME Len(t) < Len(p) PROVE t = SubSeq(p, 1, 2)
    OBVIOUS
  <2>1. Len(p) > 2 /\ Len(t) = 2
    BY <1>1, <1>2
  <2>2. \A k \in 1..2 : p[k] \in Entry
    BY <1>1, <2>1, ElementOfSeq
  <2>3. /\ SubSeq(p, 1, 2) \in Seq(Entry) /\ Len(SubSeq(p, 1, 2)) = 2
        /\ \A k \in 1..2 : SubSeq(p, 1, 2)[k] = p[k]
    BY <2>2, SubSeqProperties
  <2> HIDE DEF t
  <2> QED BY <1>2, <2>1, <2>3, SeqEqual
<1> HIDE DEF t
<1>4. Len(t) <= EliteSize
  BY <1>1, <1>2, EliteAssumption DEF PoolOK
<1>5. Sorted(t) /\ Diverse(t)
  <2>1. \A k \in 1..Len(t) : k \in 1..Len(p) /\ t[k] = p[k]
    BY <1>2
  <2>2. Sorted(p) /\ Diverse(p)
    BY DEF PoolOK
  <2> QED BY <2>1, <2>2 DEF Sorted, Diverse
<1>6. NoWorse(t, p)
  <2>1. ASSUME NEW i \in 1..Len(p), i <= Len(t) PROVE t[i].cost <= p[i].cost
    <3>1. i \in 1..Len(t)
      BY <1>1, <1>2, <2>1
    <3> QED BY <1>1, <1>2, <3>1
  <2> QED BY <2>1 DEF NoWorse
<1> QED BY <1>2, <1>3, <1>4, <1>5, <1>6 DEF PoolOK, t

(* An entry that R adds is among the best of what was there before.        *)
LEMMA RElitesProperties ==
  ASSUME NEW q \in Seq(Entry), NEW e \in Entry
  PROVE  /\ RElites(q, e) \in Seq(Entry) /\ Len(RElites(q, e)) <= EliteSize
         /\ Kept(RElites(q, e)) \subseteq Kept(q) \cup {e}
<1> DEFINE A == {i \in DOMAIN q : ~Better(e.cost, q[i].cost)}
           r == InsertAfter(q, Cardinality(A), e)
<1>1. Len(q) \in Nat /\ DOMAIN q = 1..Len(q) /\ \A k \in 1..Len(q) : q[k] \in Kept(q)
  BY KeptFacts
<1>2. Cardinality(A) \in 0..Len(q)
  <2>1. IsFiniteSet(1..Len(q)) /\ Cardinality(1..Len(q)) = Len(q)
    BY <1>1, FS_Interval
  <2>2. A \subseteq 1..Len(q)
    BY <1>1
  <2> HIDE DEF A
  <2>3. IsFiniteSet(A) /\ Cardinality(A) <= Len(q)
    BY <2>1, <2>2, FS_Subset
  <2>4. Cardinality(A) \in Nat
    BY <2>3, FS_CardinalityType
  <2> QED BY <1>1, <2>3, <2>4
<1> HIDE DEF A
<1>3. /\ r \in Seq(Entry) /\ Len(r) = Len(q) + 1
      /\ \A i \in 1..Len(q) + 1 :
           r[i] = IF i <= Cardinality(A) THEN q[i]
                  ELSE IF i = Cardinality(A) + 1 THEN e ELSE q[i - 1]
  BY <1>2, InsertElements
<1>4. Kept(r) \subseteq Kept(q) \cup {e}
  <2>1. DOMAIN r = 1..Len(q) + 1
    BY <1>3, KeptFacts
  <2>2. ASSUME NEW i \in 1..Len(q) + 1 PROVE r[i] \in Kept(q) \cup {e}
    <3>1. CASE i <= Cardinality(A)
      <4>1. i \in 1..Len(q) /\ r[i] = q[i]
        BY <1>1, <1>2, <1>3, <3>1
      <4> QED BY <1>1, <4>1
    <3>2. CASE i = Cardinality(A) + 1
      BY <1>2, <1>3, <3>2
    <3>3. CASE i > Cardinality(A) + 1
      <4>1. i - 1 \in 1..Len(q) /\ r[i] = q[i - 1]
        BY <1>1, <1>2, <1>3, <3>3
      <4> QED BY <1>1, <4>1
    <3> QED BY <1>2, <3>1, <3>2, <3>3
  <2> HIDE DEF r
  <2> QED BY <2>1, <2>2 DEF Kept
<1> HIDE DEF r
<1>5. /\ KeepTop(r, EliteSize) \in Seq(Entry)
      /\ Len(KeepTop(r, EliteSize)) <= EliteSize
      /\ Kept(KeepTop(r, EliteSize)) \subseteq Kept(r)
  <2>1. EliteSize \in Nat /\ Len(r) \in Nat
    BY <1>3, EliteAssumption, LenProperties
  <2> QED BY <1>3, <2>1, KeepTopProperties
<1>6. RElites(q, e) = KeepTop(r, EliteSize)
  BY DEF RElites, A, r
<1> QED BY <1>4, <1>5, <1>6

\* The elites after a step: no rank is worse, and what is left of a pool that
\* shrinks is its best two.
InOrder ==
  /\ PoolOK(pool') /\ NoWorse(pool', pool)
  /\ Len(pool') < Len(pool) => pool' = SubSeq(pool, 1, 2)
  /\ items' \in Seq(Entry) /\ Len(items') <= EliteSize

(* When e comes by, the elites are what they were, with or without e.      *)
LEMMA Election ==
  ASSUME PoolOK(pool), items \in Seq(Entry), Len(items) <= EliteSize,
         NEW e \in Entry, Elects(e)
  PROVE  /\ InOrder
         /\ Elites' \subseteq Elites \cup {e}
         /\ e.sol \in Room \/ Elites' = Elites
<1>1. [PoolNext]_pool
  BY DEF Elects, PoolNext
<1>2. /\ PoolOK(pool') /\ NoWorse(pool', pool)
      /\ Len(pool') < Len(pool) => pool' = SubSeq(pool, 1, 2)
  BY <1>1, StepKeepsPoolOK
<1>3. Kept(pool') \subseteq Kept(pool) \cup {e}
  <2>1. CASE Offer(e)
    <3>1. DOMAIN pool = 1..Len(pool) /\ DOMAIN pool' = 1..Len(pool')
      BY <1>2, KeptFacts DEF PoolOK
    <3>2. \A i \in 1..Len(pool') : pool'[i] = e \/ \E j \in 1..Len(pool) : pool'[i] = pool[j]
      BY <2>1, AddElements DEF Offer
    <3> QED BY <3>1, <3>2 DEF Kept
  <2>2. CASE UNCHANGED pool
    BY <2>2
  <2> QED BY <2>1, <2>2 DEF Elects
<1>4. /\ items' \in Seq(Entry) /\ Len(items') <= EliteSize
      /\ Kept(items') \subseteq Kept(items) \cup {e}
  BY RElitesProperties DEF Elects
<1>5. e.sol \in Room \/ Elites' = Elites
  BY DEF Elects, elites, Elites, Kept
<1> QED BY <1>2, <1>3, <1>4, <1>5 DEF Elites, Kept, InOrder

-----------------------------------------------------------------------------
(* The steps of a run.                                                     *)

\* The actions that leave the incumbent alone and at most drop elites.
Trims == RustMonitor \/ JuliaMonitor

\* The actions that leave the incumbent and the elites alone.
RustPasses ==
  \/ RustExpired \/ RustExhausted \/ RustConstruct \/ RustDescend \/ RustSearch
  \/ RustRelinkEnds \/ RustCompletes \/ RustClock

JuliaPasses ==
  \/ JuliaEnds \/ JuliaConstruct \/ JuliaDescend \/ JuliaSearch \/ JuliaStartRelink
  \/ JuliaRelinkEnds \/ JuliaCompletes \/ JuliaClock

RPasses ==
  \/ RExpired \/ RExhausted \/ RConstruct \/ RDescend \/ RSearch \/ RMonitor
  \/ RCompletes \/ RClock

Passes == RustPasses \/ JuliaPasses \/ RPasses

(* A step of a run is one of these, and its inputs stay.                   *)
LEMMA Steps ==
  ASSUME [PortNext]_vars
  PROVE  /\ Starts \/ Produces \/ Trims \/ Passes \/ UNCHANGED vars
         /\ UNCHANGED inputs
<1>1. Starts \/ Produces \/ Trims \/ Passes \/ UNCHANGED vars
  BY DEF PortNext, RustNext, JuliaNext, RNext, Finished, Starts, Produces, Trims,
         Passes, RustPasses, JuliaPasses, RPasses
<1>2. Starts => UNCHANGED inputs
  BY DEF Starts, RustStart, JuliaStart, RStart
<1>3. Produces => UNCHANGED inputs
  BY DEF Produces, RustSeed, RustRecord, RustRelink, RustRestart, JuliaSeed,
         JuliaRecord, JuliaRelink, JuliaRestart, RSeed, RRecord, RRelink, RRestart
<1>4. Trims => UNCHANGED inputs
  BY DEF Trims, RustMonitor, JuliaMonitor
<1>5. RustPasses => UNCHANGED inputs
  BY DEF RustPasses, RustExpired, RustExhausted, RustConstruct, RustDescend, RustSearch,
         RustRelinkEnds, RustCompletes, RustClock
<1>6. JuliaPasses => UNCHANGED inputs
  BY DEF JuliaPasses, JuliaEnds, JuliaConstruct, JuliaDescend, JuliaSearch,
         JuliaStartRelink, JuliaRelinkEnds, JuliaCompletes, JuliaClock
<1>7. RPasses => UNCHANGED inputs
  BY DEF RPasses, RExpired, RExhausted, RConstruct, RDescend, RSearch, RMonitor,
         RCompletes, RClock
<1> QED BY <1>1, <1>2, <1>3, <1>4, <1>5, <1>6, <1>7 DEF Passes, vars

(* What is read changes between two iterations, or when the monitor clears *)
(* the cache; there is no candidate then.                                  *)
LEMMA PriceStep ==
  ASSUME TypeInv, [PortNext]_vars
  PROVE  /\ price' \in Readings(objective)
         /\ pc' \in Searched \cup {"seed"} => price' = price
<1>0. price \in Readings(objective)
  BY DEF TypeInv
<1>1. CASE Starts
  BY <1>0, <1>1 DEF Starts, RustStart, JuliaStart, RStart
<1>2. CASE Produces
  BY <1>0, <1>2 DEF Produces, RustSeed, RustRecord, RustRelink, RustRestart, JuliaSeed,
     JuliaRecord, JuliaRelink, JuliaRestart, RSeed, RRecord, RRelink, RRestart
<1>3. CASE Trims
  BY <1>0, <1>3 DEF Trims, RustMonitor, JuliaMonitor, Searched
<1>4. CASE RustPasses
  BY <1>0, <1>4 DEF RustPasses, RustExpired, RustExhausted, RustConstruct, RustDescend,
     RustSearch, RustRelinkEnds, RustCompletes, RustClock, Forgets, Searched
<1>5. CASE JuliaPasses
  BY <1>0, <1>5 DEF JuliaPasses, JuliaEnds, JuliaConstruct, JuliaDescend, JuliaSearch,
     JuliaStartRelink, JuliaRelinkEnds, JuliaCompletes, JuliaClock, Forgets, Searched
<1>6. CASE RPasses
  BY <1>0, <1>6 DEF RPasses, RExpired, RExhausted, RConstruct, RDescend, RSearch,
     RMonitor, RCompletes, RClock, Forgets, Searched
<1>7. CASE UNCHANGED vars
  BY <1>0, <1>7 DEF vars
<1> QED BY <1>1, <1>2, <1>3, <1>4, <1>5, <1>6, <1>7, Steps DEF Passes

\* Nothing happens to the incumbent, and the elites are at most trimmed.
Quiet ==
  UNCHANGED incumbent /\ InOrder /\ Elites' \subseteq Elites

(* What leaves the incumbent and the elites alone is quiet, and so is the  *)
(* monitor.                                                                *)
LEMMA QuietSteps ==
  ASSUME PoolOK(pool), items \in Seq(Entry), Len(items) <= EliteSize,
         Trims \/ Passes \/ UNCHANGED vars
  PROVE  Quiet
<1>0. pool \in Seq(Entry) /\ Len(pool) \in Nat
      /\ \A i \in 1..Len(pool) : pool[i].cost \in Int
  BY KeptFacts, EntryProperties DEF PoolOK
<1>1. ASSUME UNCHANGED <<incumbent, elites>> PROVE Quiet
  <2>1. pool' = pool /\ items' = items
    BY <1>1 DEF elites
  <2>2. Len(pool') = Len(pool) /\ NoWorse(pool', pool) /\ PoolOK(pool')
    BY <1>0, <2>1 DEF NoWorse
  <2>3. Elites' = Elites
    BY <2>1 DEF Elites, Kept
  <2> QED BY <1>0, <1>1, <2>1, <2>2, <2>3 DEF Quiet, InOrder
<1>2. ASSUME NEW q \in {KeepTop(pool, 2)} \cup RestartOutcomes(pool),
             pool' = q, Len(pool) > 2 \/ q = KeepTop(pool, 2),
             UNCHANGED <<incumbent, items>>
      PROVE  Quiet
  <2>1. /\ PoolOK(q) /\ NoWorse(q, pool)
        /\ Len(q) < Len(pool) => q = SubSeq(pool, 1, 2)
        /\ Kept(q) \subseteq Kept(pool)
    <3>1. CASE q = KeepTop(pool, 2)
      BY <3>1, TopTwoInOrder
    <3>2. CASE q \in RestartOutcomes(pool) /\ Len(pool) > 2
      <4>1. /\ PoolOK(q) /\ NoWorse(q, pool) /\ q = SubSeq(pool, 1, 2)
            /\ Len(q) = 2 /\ q[1] = pool[1] /\ q[2] = pool[2]
        BY <3>2, RestartKeepsBestTwo
      <4>2. DOMAIN q = 1..2 /\ DOMAIN pool = 1..Len(pool)
        BY <1>0, <4>1, KeptFacts DEF PoolOK
      <4>3. \A k \in 1..2 : k \in 1..Len(pool) /\ q[k] = pool[k]
        BY <1>0, <3>2, <4>1
      <4>4. Kept(q) \subseteq Kept(pool)
        BY <4>2, <4>3 DEF Kept
      <4> QED BY <4>1, <4>4
    <3> QED BY <1>2, <3>1, <3>2
  <2>2. Elites' \subseteq Elites
    BY <1>2, <2>1 DEF Elites, Kept
  <2> QED BY <1>2, <2>1, <2>2 DEF Quiet, InOrder
<1>3. CASE RustMonitor
  <2>1. (pool' = KeepTop(pool, 2) \/ UNCHANGED pool) /\ UNCHANGED <<incumbent, items>>
    BY <1>3 DEF RustMonitor
  <2> QED BY <1>1, <1>2, <2>1 DEF elites
<1>4. CASE JuliaMonitor
  <2>1. (PartialRestart \/ UNCHANGED pool) /\ UNCHANGED <<incumbent, items>>
    BY <1>4 DEF JuliaMonitor
  <2>2. CASE PartialRestart
    <3>1. pool' \in RestartOutcomes(pool) /\ Len(pool) > 2
      BY <2>2 DEF PartialRestart
    <3> QED BY <1>2, <2>1, <3>1
  <2> QED BY <1>1, <2>1, <2>2 DEF elites
<1>5. CASE RustPasses
  <2>1. UNCHANGED <<incumbent, elites>>
    BY <1>5 DEF RustPasses, RustExpired, RustExhausted, RustConstruct, RustDescend,
       RustSearch, RustRelinkEnds, RustCompletes, RustClock
  <2> QED BY <1>1, <2>1
<1>6. CASE JuliaPasses
  <2>1. UNCHANGED <<incumbent, elites>>
    BY <1>6 DEF JuliaPasses, JuliaEnds, JuliaConstruct, JuliaDescend, JuliaSearch,
       JuliaStartRelink, JuliaRelinkEnds, JuliaCompletes, JuliaClock
  <2> QED BY <1>1, <2>1
<1>7. CASE RPasses
  <2>1. UNCHANGED <<incumbent, elites>>
    BY <1>7 DEF RPasses, RExpired, RExhausted, RConstruct, RDescend, RSearch, RMonitor,
       RCompletes, RClock
  <2> QED BY <1>1, <2>1
<1>8. CASE UNCHANGED vars
  BY <1>1, <1>8 DEF vars
<1> QED BY <1>3, <1>4, <1>5, <1>6, <1>7, <1>8 DEF Trims, Passes

(* A challenge: the incumbent stays or is replaced by something strictly   *)
(* better; unless nothing is better than infinity, it is then as good as   *)
(* what it faced.                                                          *)
LEMMA ChallengeFacts ==
  ASSUME TypeInv, pc # "start", NEW e \in Entry, NEW k, UNCHANGED inputs,
         Challenge(e, RImproves(e.cost, best.cost), k)
  PROVE  /\ best' \in {best, e} /\ best' \in Entry
         /\ lastGain' \in {lastGain, k}
         /\ best' = best \/ (best' = e /\ Loss(e.cost) < Loss(best.cost) /\ ~Hopeless)
         /\ Hopeless => Hopeless'
         /\ ~Hopeless => /\ Loss(best'.cost) <= Loss(best.cost)
                         /\ Loss(best'.cost) <= Loss(e.cost)
                         /\ ~Hopeless'
<1>1. /\ config.maximize \in BOOLEAN /\ best.cost \in Costs /\ e.cost \in Costs
      /\ best \in Entry /\ Infinity \in Nat
  BY InputFacts, CostFacts DEF TypeInv
<1>2. config' = config
  BY DEF inputs
<1> DEFINE up == config.maximize
<1>3. /\ Lost(e.cost, up) \in Nat /\ Lost(best.cost, up) \in Nat
      /\ Finite(e.cost) /\ Beats(e.cost, best.cost, up) =>
           Lost(e.cost, up) < Lost(best.cost, up)
      /\ ~Beats(e.cost, best.cost, up) =>
           Lost(best.cost, up) <= Lost(e.cost, up) \/ (up /\ ~Finite(best.cost))
      /\ ~Finite(e.cost) => Lost(e.cost, up) = Infinity
      /\ Lost(best.cost, up) <= Infinity
  BY <1>1, LossFacts
<1>4. CASE RImproves(e.cost, best.cost) /\ best' = e /\ lastGain' = k
  <2>1. Finite(e.cost) /\ Beats(e.cost, best.cost, up)
    BY <1>4 DEF RImproves, Better
  <2>2. Loss(e.cost) < Loss(best.cost)
    BY <1>3, <2>1 DEF Loss
  <2>3. ~Hopeless
    <3>1. e.cost \in Int /\ best.cost \in Int /\ e.cost <= Infinity
      BY <1>1, CostFacts
    <3> QED BY <1>1, <2>1, <3>1 DEF Hopeless, Beats
  <2>4. ~Hopeless'
    BY <1>4, <2>1 DEF Hopeless, Finite
  <2>5. Loss(best'.cost) = Loss(e.cost) /\ Loss(e.cost) \in Nat /\ Loss(best.cost) \in Nat
    BY <1>3, <1>4 DEF Loss
  <2> QED BY <1>1, <1>4, <2>2, <2>3, <2>4, <2>5
<1>5. CASE ~RImproves(e.cost, best.cost) /\ UNCHANGED incumbent
  <2>1. best' = best /\ lastGain' = lastGain
    BY <1>5 DEF incumbent
  <2>2. Loss(best.cost) <= Loss(e.cost) \/ Hopeless
    <3>1. CASE ~Finite(e.cost)
      BY <1>3, <3>1 DEF Loss
    <3>2. CASE Finite(e.cost) /\ ~Beats(e.cost, best.cost, up)
      BY <1>3, <3>2 DEF Loss, Hopeless, Finite
    <3> QED BY <1>5, <3>1, <3>2 DEF RImproves, Better
  <2>3. Hopeless' = Hopeless
    BY <1>2, <2>1 DEF Hopeless
  <2>4. Loss(best.cost) \in Nat
    BY <1>3 DEF Loss
  <2> QED BY <1>1, <2>1, <2>2, <2>3, <2>4
<1> QED BY <1>4, <1>5 DEF Challenge

(* A start makes its entry the incumbent and the only elite, if there are  *)
(* elites.                                                                 *)
LEMMA StartResult ==
  ASSUME RunInv, Starts
  PROVE  \E e \in Entry :
           /\ e.sol \in Room /\ Belongs(e) /\ best' = e /\ Met(e)
           /\ UNCHANGED lastGain /\ pc = "start" /\ pc' = "seed"
           /\ config.port = "rust" =>
                \A k \in DOMAIN guesses : e.cost <= price[guesses[k]]
           /\ Elects(e)
           /\ InOrder
           /\ Elites' \subseteq {e}
<1>1. TypeInv /\ PoolOK(pool) /\ items \in Seq(Entry) /\ Len(items) <= EliteSize
  BY DEF RunInv, TypeInv
<1>2. PICK e \in Entry :
           /\ e.sol \in Room /\ Belongs(e)
           /\ best' = e /\ Elects(e) /\ Met(e) /\ UNCHANGED lastGain
           /\ config.port = "rust" =>
                \A k \in DOMAIN guesses : e.cost <= price[guesses[k]]
           /\ pc' = "seed" /\ pc = "start"
  BY <1>1, Starting
<1>3. Elites = {}
  <2>1. pool = <<>> /\ items = <<>>
    BY <1>2 DEF RunInv, LossInv
  <2> QED BY <2>1 DEF Elites, Kept
<1> QED BY <1>1, <1>2, <1>3, Election

(* A production lets an entry face the incumbent, or nothing happens.      *)
LEMMA ProductionResult ==
  ASSUME RunInv, Produces
  PROVE  /\ pc # "start"
         /\ \/ Quiet /\ UNCHANGED found /\ pc # "record"
            \/ \E e \in Entry :
                 /\ Faces(e)
                 /\ InOrder
                 /\ Elites' \subseteq Elites \cup {e}
                 /\ e.sol \in Room \/ Elites' = Elites
<1>1. /\ TypeInv /\ PointInv /\ CostInv /\ LossInv /\ PoolOK(pool)
      /\ items \in Seq(Entry) /\ Len(items) <= EliteSize
  BY DEF RunInv, TypeInv
<1>2. pc # "start"
  BY DEF Produces, RustSeed, RustRecord, RustRelink, RustRestart, JuliaSeed,
         JuliaRecord, JuliaRelink, JuliaRestart, RSeed, RRecord, RRelink, RRestart
<1>3. CASE Peace
  <2>1. pool' = pool /\ items' = items /\ UNCHANGED incumbent
    BY <1>3 DEF Peace, elites
  <2>2. [PoolNext]_pool
    BY <2>1
  <2>3. PoolOK(pool') /\ NoWorse(pool', pool)
        /\ (Len(pool') < Len(pool) => pool' = SubSeq(pool, 1, 2))
    BY <1>1, <2>2, StepKeepsPoolOK
  <2>4. Elites' = Elites
    BY <2>1 DEF Elites, Kept
  <2> QED BY <1>1, <1>2, <1>3, <2>1, <2>3, <2>4 DEF Peace, Quiet, InOrder
<1>4. ASSUME NEW e \in Entry, Faces(e)
      PROVE  /\ InOrder
             /\ Elites' \subseteq Elites \cup {e}
             /\ e.sol \in Room \/ Elites' = Elites
  BY <1>1, <1>4, Election DEF Faces
<1>5. (\E e \in Entry : Faces(e)) \/ Peace
  BY <1>1, Production
<1> QED BY <1>2, <1>3, <1>4, <1>5

-----------------------------------------------------------------------------
(* Types.                                                                  *)

(* What the control invariant says between two iterations and at the end.  *)
LEMMA Settled ==
  ASSUME config' = config, pc' \in {"head", "done"},
         spent' \in Nat, spent' <= MaxIterations,
         pc' = "done" <=> ended' # "running",
         ended' \in {"running", "max_iterations", "time_limit", "early_stop"},
         ended' = "time_limit" => spent' < MaxIterations,
         nit' = IF config.port = "julia" THEN IF pc' = "done" THEN spent' ELSE 0
                ELSE IF config.port = "r" /\ ended' = "time_limit" THEN spent' + 1 ELSE spent',
         lastGain' \in Nat, lastGain' <= spent', stagnation' \in Nat, stagnation' <= spent',
         noImprove' \in Nat, noImprove' <= spent'
  PROVE  ControlInv'
<1>1. pc' \notin Inside /\ pc' \notin Recorded /\ pc' \notin Watched'
      /\ pc' \notin {"start", "seed"}
  BY DEF Inside, Searched, Recorded, Watched
<1>2. At(Recorded)' = 0 /\ At(Watched)' = 0
  BY <1>1 DEF At, Recorded
<1>3. \A n \in Nat : n + 0 = n
  OBVIOUS
<1>4. spent' \in 0..MaxIterations
  BY PortAssumption
<1> QED BY <1>1, <1>2, <1>3, <1>4 DEF ControlInv

(* The stages follow one another as the control invariant says, and what   *)
(* has no arithmetic stays what it is.                                     *)
LEMMA StageStep ==
  ASSUME RunInv, PortNext
  PROVE  /\ ControlInv'
         /\ \/ pc' \in {"seed", "head", "done"} \cup Inside
            \/ UNCHANGED <<pc, best, elites, found, gaveUp>>
         /\ seeded' \in Nat /\ leaked' \in BOOLEAN
         /\ late' => config.limited
         /\ snapshot' \in {snapshot, pool, <<>>}
<1> USE DEF ControlInv, At, Inside, Searched, Recorded, Watched
<1>1. /\ pc \in {"start", "seed", "head", "done"} \cup Inside
      /\ seeded \in Nat /\ (late => config.limited) /\ leaked \in BOOLEAN
      /\ MaxIterations \in Nat \ {0} /\ spent \in Nat /\ ControlInv
      /\ config.port \in {"rust", "julia", "r"}
  BY PortAssumption, InputFacts DEF RunInv, TypeInv, Setting
<1>2. config' = config
  BY Steps DEF inputs
<1>3. CASE RustStart
  BY <1>1, <1>2, <1>3 DEF RustStart, flow, incumbent, history, monitor, relink, elites
<1>4. CASE JuliaStart
  BY <1>1, <1>2, <1>4 DEF JuliaStart, flow, incumbent, history, monitor, relink, elites
<1>5. CASE RStart
  BY <1>1, <1>2, <1>5 DEF RStart, flow, incumbent, history, monitor, relink, elites
<1>6. CASE RustSeed
  BY <1>1, <1>2, <1>6 DEF RustSeed, flow, incumbent, history, monitor, relink, elites
<1>7. CASE RustRecord
  BY <1>1, <1>2, <1>7 DEF RustRecord, flow, incumbent, history, monitor, relink, elites, Challenge
<1>8. CASE RustRelink
  BY <1>1, <1>2, <1>8 DEF RustRelink, flow, incumbent, history, monitor, relink, elites, Challenge
<1>9. CASE RustRestart
  BY <1>1, <1>2, <1>9 DEF RustRestart, flow, incumbent, history, monitor, relink, elites, Challenge
<1>10. CASE JuliaSeed
  BY <1>1, <1>2, <1>10 DEF JuliaSeed, flow, incumbent, history, monitor, relink, elites, Challenge
<1>11. CASE JuliaRecord
  BY <1>1, <1>2, <1>11 DEF JuliaRecord, flow, incumbent, history, monitor, relink, elites, Challenge
<1>12. CASE JuliaRelink
  BY <1>1, <1>2, <1>12 DEF JuliaRelink, flow, incumbent, history, monitor, relink, elites, Challenge
<1>13. CASE JuliaRestart
  BY <1>1, <1>2, <1>13 DEF JuliaRestart, flow, incumbent, history, monitor, relink, elites, Challenge
<1>14. CASE RSeed
  BY <1>1, <1>2, <1>14 DEF RSeed, flow, incumbent, history, monitor, relink, elites, Challenge
<1>15. CASE RRecord
  BY <1>1, <1>2, <1>15 DEF RRecord, flow, incumbent, history, monitor, relink, elites, Challenge
<1>16. CASE RRelink
  BY <1>1, <1>2, <1>16 DEF RRelink, flow, incumbent, history, monitor, relink, elites, Challenge
<1>17. CASE RRestart
  BY <1>1, <1>2, <1>17 DEF RRestart, flow, incumbent, history, monitor, relink, elites, Challenge
<1>18. CASE RustMonitor
  BY <1>1, <1>2, <1>18 DEF RustMonitor, flow, incumbent, history, monitor, relink, elites, Counted
<1>19. CASE JuliaMonitor
  BY <1>1, <1>2, <1>19 DEF JuliaMonitor, flow, incumbent, history, monitor, relink, elites, Counted
<1>20. CASE RustExpired
  BY <1>1, <1>2, <1>20 DEF RustExpired, flow, incumbent, history, monitor, relink, elites
<1>21. CASE RustExhausted
  BY <1>1, <1>2, <1>21 DEF RustExhausted, flow, incumbent, history, monitor, relink, elites
<1>22. CASE RustConstruct
  BY <1>1, <1>2, <1>22 DEF RustConstruct, flow, incumbent, history, monitor, relink, elites
<1>23. CASE RustDescend
  BY <1>1, <1>2, <1>23 DEF RustDescend, flow, incumbent, history, monitor, relink, elites
<1>24. CASE RustSearch
  BY <1>1, <1>2, <1>24 DEF RustSearch, flow, incumbent, history, monitor, relink, elites
<1>25. CASE RustRelinkEnds
  BY <1>1, <1>2, <1>25 DEF RustRelinkEnds, flow, incumbent, history, monitor, relink, elites
<1>26. CASE RustCompletes
  <2>1. /\ spent' = spent + 1 /\ pc = "stop" /\ config.port = "rust"
        /\ UNCHANGED <<seeded, nit, incumbent, stagnation, monitor, late, elites, relink,
                       history>>
        /\ \/ pc' = "done" /\ ended' = "early_stop"
           \/ pc' = "head" /\ UNCHANGED ended
    BY <1>26 DEF RustCompletes
  <2>2. spent' \in Nat /\ spent' <= MaxIterations /\ nit' = spent'
    BY <1>1, <2>1
  <2>3. /\ lastGain' \in Nat /\ lastGain' <= spent'
        /\ stagnation' \in Nat /\ stagnation' <= spent'
        /\ noImprove' \in Nat /\ noImprove' <= spent'
    BY <1>1, <2>1 DEF incumbent, monitor
  <2>4. ended = "running"
    BY <1>1, <2>1
  <2>5. ControlInv'
    BY <1>2, <2>1, <2>2, <2>3, <2>4, Settled
  <2> QED BY <1>1, <2>1, <2>5 DEF history, relink
<1>27. CASE RustClock
  BY <1>1, <1>2, <1>27 DEF RustClock, flow, incumbent, history, monitor, relink, elites
<1>28. CASE JuliaEnds
  <2>1. /\ pc = "head" /\ config.port = "julia" /\ nit' = spent /\ pc' = "done"
        /\ UNCHANGED <<seeded, spent, incumbent, stagnation, monitor, late, elites, relink,
                       history>>
        /\ \/ spent = MaxIterations /\ ended' = "max_iterations"
           \/ spent # MaxIterations /\ ended' = "time_limit"
    BY <1>28 DEF JuliaEnds
  <2>a. /\ spent' = spent /\ lastGain' = lastGain /\ stagnation' = stagnation
        /\ noImprove' = noImprove /\ spent \in Nat /\ spent <= MaxIterations
    BY <1>1, <2>1 DEF incumbent, monitor
  <2>b. At(Recorded) = 0 /\ At(Watched) = 0
    BY <2>1
  <2>2. /\ lastGain' \in Nat /\ lastGain' <= spent'
        /\ stagnation' \in Nat /\ stagnation' <= spent'
        /\ noImprove' \in Nat /\ noImprove' <= spent'
    <3>1. /\ lastGain \in Nat /\ lastGain <= spent + At(Recorded)
          /\ stagnation \in Nat /\ stagnation <= spent + At(Recorded)
          /\ noImprove \in Nat /\ noImprove <= spent + At(Watched)
      BY <1>1
    <3> HIDE DEF At, Recorded, Watched
    <3> QED BY <2>a, <2>b, <3>1
  <2>3. spent' \in Nat /\ spent' <= MaxIterations /\ (ended' = "time_limit" => spent' < MaxIterations)
    BY <1>1, <2>1, <2>a
  <2>4. ControlInv'
    BY <1>2, <2>1, <2>2, <2>3, Settled
  <2> QED BY <1>1, <2>1, <2>4 DEF history, relink
<1>29. CASE JuliaConstruct
  BY <1>1, <1>2, <1>29 DEF JuliaConstruct, flow, incumbent, history, monitor, relink, elites
<1>30. CASE JuliaDescend
  BY <1>1, <1>2, <1>30 DEF JuliaDescend, flow, incumbent, history, monitor, relink, elites
<1>31. CASE JuliaSearch
  BY <1>1, <1>2, <1>31 DEF JuliaSearch, flow, incumbent, history, monitor, relink, elites
<1>32. CASE JuliaStartRelink
  BY <1>1, <1>2, <1>32 DEF JuliaStartRelink, flow, incumbent, history, monitor, relink, elites
<1>33. CASE JuliaRelinkEnds
  BY <1>1, <1>2, <1>33 DEF JuliaRelinkEnds, flow, incumbent, history, monitor, relink, elites
<1>34. CASE JuliaCompletes
  <2>1. /\ spent' = spent + 1 /\ pc = "stop" /\ config.port = "julia"
        /\ UNCHANGED <<seeded, incumbent, stagnation, monitor, late, elites, relink,
                       history>>
        /\ \/ pc' = "done" /\ ended' = "early_stop" /\ nit' = spent + 1
           \/ pc' = "head" /\ UNCHANGED <<ended, nit>>
    BY <1>34 DEF JuliaCompletes
  <2>2. spent' \in Nat /\ spent' <= MaxIterations /\ ended = "running" /\ nit = 0
    BY <1>1, <2>1
  <2>3. /\ lastGain' \in Nat /\ lastGain' <= spent'
        /\ stagnation' \in Nat /\ stagnation' <= spent'
        /\ noImprove' \in Nat /\ noImprove' <= spent'
    BY <1>1, <2>1 DEF incumbent, monitor
  <2>4. ControlInv'
    BY <1>2, <2>1, <2>2, <2>3, Settled
  <2> QED BY <1>1, <2>1, <2>4 DEF history, relink
<1>35. CASE JuliaClock
  BY <1>1, <1>2, <1>35 DEF JuliaClock, flow, incumbent, history, monitor, relink, elites
<1>36. CASE RExpired
  BY <1>1, <1>2, <1>36 DEF RExpired, flow, incumbent, history, monitor, relink, elites
<1>37. CASE RExhausted
  BY <1>1, <1>2, <1>37 DEF RExhausted, flow, incumbent, history, monitor, relink, elites
<1>38. CASE RConstruct
  BY <1>1, <1>2, <1>38 DEF RConstruct, flow, incumbent, history, monitor, relink, elites
<1>39. CASE RDescend
  BY <1>1, <1>2, <1>39 DEF RDescend, flow, incumbent, history, monitor, relink, elites
<1>40. CASE RSearch
  BY <1>1, <1>2, <1>40 DEF RSearch, flow, incumbent, history, monitor, relink, elites
<1>41. CASE RMonitor
  <2>1. /\ pc = "monitor" /\ config.port = "r"
        /\ UNCHANGED <<seeded, nit, incumbent, stagnation, late, elites, relink, history>>
        /\ noImprove' \in {noImprove, 0, noImprove + 1}
        /\ \/ pc' = "done" /\ ended' = "early_stop" /\ spent' = spent + 1
           \/ pc' \in {"restart", "next"} /\ UNCHANGED <<ended, spent>>
    BY <1>41 DEF RMonitor, RCounted, monitor
  <2>2. spent + 1 \in Nat /\ spent + 1 <= MaxIterations /\ nit' = spent + 1
    BY <1>1, <2>1
  <2>3. noImprove' \in Nat /\ noImprove' <= spent + 1
    BY <1>1, <2>1
  <2>4. ControlInv'
    <3>1. CASE pc' = "done" /\ ended' = "early_stop" /\ spent' = spent + 1
      <4>1. /\ lastGain' \in Nat /\ lastGain' <= spent'
            /\ stagnation' \in Nat /\ stagnation' <= spent'
            /\ noImprove' \in Nat /\ noImprove' <= spent'
        BY <1>1, <2>1, <2>3, <3>1 DEF incumbent
      <4> QED BY <1>2, <2>1, <2>2, <3>1, <4>1, Settled
    <3>2. CASE pc' \in {"restart", "next"} /\ UNCHANGED <<ended, spent>>
      BY <1>1, <1>2, <2>1, <2>2, <2>3, <3>2 DEF incumbent
    <3> QED BY <2>1, <3>1, <3>2
  <2> QED BY <1>1, <2>1, <2>4 DEF history, relink
<1>42. CASE RCompletes
  BY <1>1, <1>2, <1>42 DEF RCompletes, flow, incumbent, history, monitor, relink, elites
<1>43. CASE RClock
  BY <1>1, <1>2, <1>43 DEF RClock, flow, incumbent, history, monitor, relink, elites
<1>44. CASE Finished
  BY <1>1, <1>2, <1>44 DEF Finished, vars, flow, incumbent, history, monitor, relink, elites
<1> QED BY <1>3, <1>4, <1>5, <1>6, <1>7, <1>8, <1>9, <1>10, <1>11, <1>12,
         <1>13, <1>14, <1>15, <1>16, <1>17, <1>18, <1>19, <1>20, <1>21, <1>22,
         <1>23, <1>24, <1>25, <1>26, <1>27, <1>28, <1>29, <1>30, <1>31, <1>32,
         <1>33, <1>34, <1>35, <1>36, <1>37, <1>38, <1>39, <1>40, <1>41, <1>42,
         <1>43, <1>44 DEF PortNext, RustNext, JuliaNext, RNext

(* The least loss of a result, and what has been given up for more.        *)
LEMMA MetProperties ==
  ASSUME TypeInv, NEW e \in Entry, UNCHANGED inputs
  PROVE  /\ Loss(e.cost) \in Costs /\ Loss(e.cost) \in Nat /\ Loss(e.cost) <= Infinity
         /\ Loss(e.cost)' = Loss(e.cost)
         /\ Met(e) => /\ found' \in Costs /\ found' <= found /\ found' <= Loss(e.cost)
                      /\ found' \in {found, Loss(e.cost)}
<1>1. e.cost \in Costs /\ config.maximize \in BOOLEAN /\ found \in Costs /\ found \in Int
  BY InputFacts, CostFacts DEF TypeInv
<1>2. Loss(e.cost) \in Costs /\ Loss(e.cost) \in Nat /\ Loss(e.cost) <= Infinity
  BY <1>1, LossFacts DEF Loss
<1>3. Loss(e.cost)' = Loss(e.cost)
  BY DEF Loss, inputs
<1>4. Loss(e.cost) \in Int
  BY <1>2
<1>5. Met(e) => found' = IF found <= Loss(e.cost) THEN found ELSE Loss(e.cost)
  BY <1>1, <1>4, LeastOfTwo DEF Met
<1> HIDE DEF Loss
<1> QED BY <1>1, <1>2, <1>3, <1>4, <1>5

(* The same of GiveUp.                                                     *)
LEMMA GiveUpProperties ==
  ASSUME TypeInv, NEW e \in Entry, NEW f \in Entry, UNCHANGED inputs, GiveUp(e, f)
  PROVE  /\ gaveUp' \in Costs
         /\ Loss(e.cost) < Loss(f.cost) => gaveUp' = IF gaveUp <= Loss(e.cost) THEN gaveUp ELSE Loss(e.cost)
         /\ ~(Loss(e.cost) < Loss(f.cost)) => gaveUp' = gaveUp
<1>1. gaveUp \in Costs /\ gaveUp \in Int
  BY CostFacts DEF TypeInv
<1>2. Loss(e.cost) \in Costs /\ Loss(e.cost) \in Int
  BY MetProperties
<1>3. Least({gaveUp, Loss(e.cost)}) = IF gaveUp <= Loss(e.cost) THEN gaveUp ELSE Loss(e.cost)
  BY <1>1, <1>2, LeastOfTwo
<1> QED BY <1>1, <1>2, <1>3 DEF GiveUp

(* A descent hands a point of the box to ILS, with its cost.               *)
LEMMA Descending ==
  ASSUME TypeInv, PointInv, RustDescend \/ JuliaDescend \/ RDescend
  PROVE  /\ \E s \in Room : cand' = Priced(s) /\ Met(Priced(s))
         /\ pc = "vnd" /\ pc' = "ils" /\ picked' = {}
         /\ UNCHANGED <<incumbent, elites, relink, monitor, gaveUp, leaked>>
<1>1. pc = "vnd"
  BY DEF RustDescend, JuliaDescend, RDescend
<1>2. PICK s \in Room : cand = Priced(s)
  BY <1>1 DEF PointInv, Searched
<1>3. cand.sol = s
  BY <1>2, Holdable
<1>4. /\ config.port = "rust" => RustVnd(s) \subseteq Room
      /\ config.port = "r" => RVnd(s) \subseteq Room
      /\ config.port = "julia" => JuliaVnd(s) \subseteq Room
  BY <1>2, InputFacts, VndWithin
<1>5. \E t \in Room : cand' = Priced(t)
  BY <1>3, <1>4 DEF RustDescend, JuliaDescend, RDescend
<1>6. Met(cand')
  BY DEF RustDescend, JuliaDescend, RDescend
<1> QED BY <1>1, <1>5, <1>6 DEF RustDescend, JuliaDescend, RDescend

(* ILS hands on a point of the box with its cost, in R none that is worse. *)
LEMMA Searching ==
  ASSUME TypeInv, PointInv, RustSearch \/ JuliaSearch \/ RSearch
  PROVE  /\ \E s, t \in Room :
              /\ cand = Priced(s) /\ cand' = Priced(t) /\ GiveUp(Priced(s), Priced(t))
              /\ config.port = "r" => Loss(Priced(t).cost) <= Loss(Priced(s).cost)
         /\ pc = "ils" /\ pc' = "record"
         /\ UNCHANGED <<incumbent, elites, relink, monitor, found, leaked, picked>>
<1>1. pc = "ils"
  BY DEF RustSearch, JuliaSearch, RSearch
<1>2. PICK s \in Room : cand = Priced(s)
  BY <1>1 DEF PointInv, Searched
<1>3. Priced(s).cost = price[s]
  BY Holdable
<1>4. \E t \in Room : /\ cand' = Priced(t)
                      /\ config.port = "r" => Loss(Priced(t).cost) <= Loss(Priced(s).cost)
  <2>1. CASE RustSearch
    <3>1. config.port = "rust" /\ config.port # "r" /\ Room = Wide
      BY <2>1, InputFacts DEF RustSearch
    <3> QED BY <1>2, <2>1, <3>1, IlsWithin DEF RustSearch
  <2>2. CASE JuliaSearch
    <3>1. config.port = "julia" /\ config.port # "r" /\ Room = Box
      BY <2>2, InputFacts DEF JuliaSearch
    <3>2. cand \in Entry /\ cand.sol \in Box
      BY <1>2, <3>1, Holdable
    <3>3. PICK e \in JuliaIls(cand) : cand' = Priced(e.sol)
      BY <2>2 DEF JuliaSearch, JuliaRepriced
    <3>4. e.sol \in Box
      BY <3>2, IlsWithin
    <3> QED BY <3>1, <3>3, <3>4
  <2>3. CASE RSearch
    <3>1. Room = Box
      BY <2>3, InputFacts DEF RSearch
    <3> QED BY <1>2, <1>3, <2>3, <3>1, IlsWithin DEF RSearch
  <2> QED BY <2>1, <2>2, <2>3
<1>5. GiveUp(cand, cand')
  BY DEF RustSearch, JuliaSearch, RSearch
<1>6. /\ pc' = "record"
      /\ UNCHANGED <<incumbent, elites, relink, monitor, found, leaked, picked>>
  BY DEF RustSearch, JuliaSearch, RSearch
<1>7. PICK t \in Room :
        /\ cand' = Priced(t)
        /\ config.port = "r" => Loss(Priced(t).cost) <= Loss(Priced(s).cost)
  BY <1>4
<1>8. GiveUp(Priced(s), Priced(t))
  BY <1>2, <1>5, <1>7
<1> QED BY <1>1, <1>2, <1>6, <1>7, <1>8

\* The flaws a port is excused for.
Excused(flaws) ==
  "unworthy" \in flaws =>
    \/ config.port = "rust" /\ "blind" \in flaws
    \/ config.port = "r" /\ "lone" \in flaws

(* A construction hands over a point of the box with its cost, picked as   *)
(* the port is known to pick.                                              *)
LEMMA Constructing ==
  ASSUME TypeInv, RustConstruct \/ JuliaConstruct \/ RConstruct
  PROVE  /\ \E s \in Room : cand' = Priced(s)
         /\ Excused(picked') /\ pc' = "vnd"
         /\ UNCHANGED <<incumbent, elites, relink, monitor, found, gaveUp, leaked>>
<1>1. /\ price \in Prices /\ config \in Settings /\ guesses \in WarmStarts
      /\ \A s : PricedBy(price, s) = Priced(s)
      /\ Room = IF config.port = "rust" THEN Wide ELSE Box
  BY InputFacts DEF TypeInv, Priced, PricedBy
<1>2. CASE RustConstruct
  <2>1. PICK c \in RustConstructions(IF spent = 0 THEN guesses ELSE <<>>) :
          cand' = c.entry /\ picked' = c.flaws
    BY <1>2 DEF RustConstruct
  <2>2. (IF spent = 0 THEN guesses ELSE <<>>) \in {<<>>} \cup WarmStarts
    BY <1>1
  <2>3. Handed(c, price, Wide, "blind")
    BY <1>1, <2>2, RustHandsOver
  <2> QED BY <1>1, <1>2, <2>1, <2>3 DEF Handed, Excused, RustConstruct
<1>3. CASE JuliaConstruct
  <2>1. PICK c \in JuliaConstructions : cand' = c.entry /\ picked' = c.flaws
    BY <1>3 DEF JuliaConstruct
  <2>2. (\E s \in Box : c.entry = PricedBy(price, s)) /\ "unworthy" \notin c.flaws
    BY <1>1, JuliaHandsOver
  <2> QED BY <1>1, <1>3, <2>1, <2>2 DEF Excused, JuliaConstruct
<1>4. CASE RConstruct
  <2>1. PICK c \in RConstructions : cand' = c.entry /\ picked' = c.flaws
    BY <1>4 DEF RConstruct
  <2>2. Handed(c, price, Box, "lone")
    BY <1>1, RHandsOver
  <2> QED BY <1>1, <1>4, <2>1, <2>2 DEF Handed, Excused, RConstruct
<1> QED BY <1>2, <1>3, <1>4

\* The passes in which no candidate comes or goes.
Idles ==
  \/ RustExpired \/ RustExhausted \/ RustRelinkEnds \/ RustCompletes \/ RustClock
  \/ JuliaEnds \/ JuliaStartRelink \/ JuliaRelinkEnds \/ JuliaCompletes \/ JuliaClock
  \/ RExpired \/ RExhausted \/ RMonitor \/ RCompletes \/ RClock

(* A pass constructs, descends, searches or idles; who idles leaves the    *)
(* candidate and the histories alone.                                      *)
LEMMA PassKinds ==
  ASSUME Passes
  PROVE  \/ RustConstruct \/ JuliaConstruct \/ RConstruct
         \/ RustDescend \/ JuliaDescend \/ RDescend
         \/ RustSearch \/ JuliaSearch \/ RSearch
         \/ /\ Idles /\ UNCHANGED <<cand, history>>
            /\ pc \notin Searched /\ pc' \notin Searched
         \/ UNCHANGED <<pc, incumbent, elites, cand, history>>
<1>1. CASE RustExpired \/ RustExhausted \/ RustRelinkEnds \/ RustCompletes
  BY <1>1 DEF Idles, Searched, RustExpired, RustExhausted, RustRelinkEnds, RustCompletes
<1>2. CASE JuliaEnds \/ JuliaStartRelink \/ JuliaRelinkEnds \/ JuliaCompletes
  BY <1>2 DEF Idles, Searched, JuliaEnds, JuliaStartRelink, JuliaRelinkEnds, JuliaCompletes
<1>3. CASE RExpired \/ RExhausted \/ RMonitor \/ RCompletes
  BY <1>3 DEF Idles, Searched, RExpired, RExhausted, RMonitor, RCompletes
<1>4. CASE RustClock \/ JuliaClock \/ RClock
  BY <1>4 DEF RustClock, JuliaClock, RClock, flow
<1> QED BY <1>1, <1>2, <1>3, <1>4 DEF Passes, RustPasses, JuliaPasses, RPasses

(* The histories of losses keep their types, and what has been given up is *)
(* no less than what has been found.                                       *)
LEMMA HistoryStep ==
  ASSUME RunInv, PortNext
  PROVE  found' \in Costs /\ gaveUp' \in Costs /\ found' <= gaveUp'
<1>1. /\ TypeInv /\ PointInv /\ found \in Costs /\ gaveUp \in Costs /\ found <= gaveUp
      /\ \A v \in Costs : v \in Int
      /\ pc = "ils" => found <= Loss(cand.cost)
  BY CostFacts DEF RunInv, TypeInv, LossInv
<1>2. UNCHANGED inputs
  BY Steps
<1>3. ASSUME UNCHANGED gaveUp, UNCHANGED found \/ \E e \in Entry : Met(e)
      PROVE  found' \in Costs /\ gaveUp' \in Costs /\ found' <= gaveUp'
  <2>1. CASE UNCHANGED found
    BY <1>1, <1>3, <2>1
  <2>2. ASSUME NEW e \in Entry, Met(e) PROVE found' \in Costs /\ found' <= found
    BY <1>1, <1>2, <2>2, MetProperties
  <2>3. CASE \E e \in Entry : Met(e)
    <3>1. found' \in Costs /\ found' <= found /\ found' \in Int
      BY <1>1, <2>2, <2>3
    <3> QED BY <1>1, <1>3, <3>1
  <2> QED BY <1>3, <2>1, <2>3
<1>4. CASE Starts
  <2>1. UNCHANGED gaveUp
    BY <1>4 DEF Starts, RustStart, JuliaStart, RStart
  <2> QED BY <1>3, <1>4, <2>1, StartResult
<1>5. CASE Produces
  <2>1. UNCHANGED gaveUp
    BY <1>5 DEF Produces, RustSeed, RustRecord, RustRelink, RustRestart, JuliaSeed,
           JuliaRecord, JuliaRelink, JuliaRestart, RSeed, RRecord, RRelink, RRestart,
           history
  <2>2. (\E e \in Entry : Faces(e)) \/ UNCHANGED found
    BY <1>5, ProductionResult
  <2> QED BY <1>3, <2>1, <2>2 DEF Faces
<1>6. CASE Trims \/ UNCHANGED vars
  BY <1>3, <1>6 DEF Trims, RustMonitor, JuliaMonitor, history, vars
<1>7. CASE Passes
  <2>1. CASE RustDescend \/ JuliaDescend \/ RDescend
    BY <1>1, <1>3, <2>1, Descending, Holdable
  <2>2. CASE RustSearch \/ JuliaSearch \/ RSearch
    <3>1. PICK s \in Room, t \in Room :
            cand = Priced(s) /\ GiveUp(Priced(s), Priced(t))
      BY <1>1, <2>2, Searching
    <3>2. pc = "ils" /\ UNCHANGED found
      BY <1>1, <2>2, Searching
    <3>3. Priced(s) \in Entry /\ Priced(t) \in Entry
      BY <1>1, Holdable
    <3> DEFINE l == Loss(Priced(s).cost)
    <3>4. /\ gaveUp' \in Costs
          /\ gaveUp' = gaveUp \/ gaveUp' = IF gaveUp <= l THEN gaveUp ELSE l
      BY <1>1, <1>2, <3>1, <3>3, GiveUpProperties
    <3>5. found <= l
      BY <1>1, <3>1, <3>2
    <3>6. gaveUp' = gaveUp \/ gaveUp' = l
      BY <3>4
    <3> HIDE DEF l
    <3> QED BY <1>1, <3>2, <3>4, <3>5, <3>6
  <2>3. CASE RustConstruct \/ JuliaConstruct \/ RConstruct
    BY <1>1, <1>3, <2>3, Constructing
  <2>4. CASE UNCHANGED history
    BY <1>3, <2>4 DEF history
  <2> QED BY <1>7, <2>1, <2>2, <2>3, <2>4, PassKinds
<1> QED BY <1>4, <1>5, <1>6, <1>7, Steps

(* The pair of elites to be relinked next is a pair, and what the monitor  *)
(* has seen is a cost.                                                     *)
LEMMA MemoryStep ==
  ASSUME RunInv, PortNext
  PROVE  /\ pair' \in Nat \X Nat /\ 1 <= pair'[1] /\ pair'[1] < pair'[2]
         /\ bestEver' \in Costs \cup {-1} /\ (config.port # "r" => bestEver' \in Costs)
<1>1. /\ pair \in Nat \X Nat /\ 1 <= pair[1] /\ pair[1] < pair[2]
      /\ bestEver \in Costs \cup {-1} /\ (config.port # "r" => bestEver \in Costs)
      /\ pc # "start" => best.cost \in Costs
  BY CostFacts DEF RunInv, TypeInv
<1>2. /\ <<1, 2>> \in Nat \X Nat /\ pair[1] \in Nat /\ pair[2] \in Nat
      /\ <<pair[1], pair[2] + 1>> \in Nat \X Nat
      /\ <<pair[1] + 1, pair[1] + 2>> \in Nat \X Nat
  BY <1>1
<1>3. pair' \in {pair, <<1, 2>>, <<pair[1], pair[2] + 1>>, <<pair[1] + 1, pair[1] + 2>>}
  <2>1. CASE RustRelink
    BY <2>1 DEF RustRelink, RustNextPair
  <2>2. CASE JuliaRelink
    BY <2>2 DEF JuliaRelink
  <2>3. CASE Starts
    BY <2>3 DEF Starts, RustStart, JuliaStart, RStart, relink
  <2>4. CASE Produces /\ ~RustRelink /\ ~JuliaRelink
    BY <2>4 DEF Produces, RustSeed, RustRecord, RustRestart, JuliaSeed,
       JuliaRecord, JuliaRestart, RSeed, RRecord, RRelink, RRestart, relink
  <2>5. CASE Trims \/ UNCHANGED vars
    BY <2>5 DEF Trims, RustMonitor, JuliaMonitor, relink, vars
  <2>6. CASE RustPasses
    BY <2>6 DEF RustPasses, RustExpired, RustExhausted, RustConstruct, RustDescend,
       RustSearch, RustRelinkEnds, RustCompletes, RustClock, relink
  <2>7. CASE JuliaPasses
    BY <2>7 DEF JuliaPasses, JuliaEnds, JuliaConstruct, JuliaDescend, JuliaSearch,
       JuliaStartRelink, JuliaRelinkEnds, JuliaCompletes, JuliaClock, relink
  <2>8. CASE RPasses
    BY <2>8 DEF RPasses, RExpired, RExhausted, RConstruct, RDescend, RSearch, RMonitor,
       RCompletes, RClock, relink
  <2> QED BY <2>1, <2>2, <2>3, <2>4, <2>5, <2>6, <2>7, <2>8, Steps DEF Passes
<1>4. \/ bestEver' = bestEver
      \/ pc # "start" /\ config.port # "r" /\ bestEver' = Least({bestEver, best.cost})
      \/ pc # "start" /\ config.port = "r" /\ bestEver' \in {bestEver, best.cost}
  <2>1. CASE RustMonitor \/ JuliaMonitor \/ RMonitor
    BY <2>1 DEF RustMonitor, JuliaMonitor, RMonitor, RLastBest, monitor
  <2>2. CASE Starts
    BY <2>2 DEF Starts, RustStart, JuliaStart, RStart, monitor
  <2>3. CASE Produces
    BY <2>3 DEF Produces, RustSeed, RustRecord, RustRelink, RustRestart, JuliaSeed,
       JuliaRecord, JuliaRelink, JuliaRestart, RSeed, RRecord, RRelink, RRestart, monitor
  <2>4. CASE RustPasses \/ UNCHANGED vars
    BY <2>4 DEF RustPasses, RustExpired, RustExhausted, RustConstruct, RustDescend,
       RustSearch, RustRelinkEnds, RustCompletes, RustClock, monitor, vars
  <2>5. CASE JuliaPasses
    BY <2>5 DEF JuliaPasses, JuliaEnds, JuliaConstruct, JuliaDescend, JuliaSearch,
       JuliaStartRelink, JuliaRelinkEnds, JuliaCompletes, JuliaClock, monitor
  <2>6. CASE RPasses /\ ~RMonitor
    BY <2>6 DEF RPasses, RExpired, RExhausted, RConstruct, RDescend, RSearch,
       RCompletes, RClock, monitor
  <2> QED BY <2>1, <2>2, <2>3, <2>4, <2>5, <2>6, Steps DEF Trims, Passes
<1>5. ASSUME pc # "start", config.port # "r" PROVE Least({bestEver, best.cost}) \in Costs
  <2>1. /\ bestEver \in Costs /\ best.cost \in Costs
        /\ bestEver \in Int /\ best.cost \in Int
    BY <1>1, <1>5, CostFacts
  <2>2. Least({bestEver, best.cost}) =
          IF bestEver <= best.cost THEN bestEver ELSE best.cost
    BY <2>1, LeastOfTwo
  <2> QED BY <2>1, <2>2
<1>6. bestEver' \in Costs \cup {-1} /\ (config.port # "r" => bestEver' \in Costs)
  BY <1>1, <1>4, <1>5
<1>7. 1 <= pair'[1] /\ pair'[1] < pair'[2]
  <2>1. CASE pair' = pair
    BY <1>1, <2>1
  <2>2. CASE pair' = <<1, 2>>
    BY <2>2
  <2>3. CASE pair' = <<pair[1], pair[2] + 1>>
    BY <1>1, <1>2, <2>3
  <2>4. CASE pair' = <<pair[1] + 1, pair[1] + 2>>
    BY <1>1, <1>2, <2>4
  <2> QED BY <1>3, <2>1, <2>2, <2>3, <2>4
<1> QED BY <1>1, <1>2, <1>3, <1>6, <1>7

(* The incumbent is an entry once the run has started, and the elites stay *)
(* in order.                                                               *)
LEMMA EntriesStep ==
  ASSUME RunInv, [PortNext]_vars
  PROVE  /\ InOrder
         /\ best' = best \/ best' \in Entry
         /\ best' = best \/ pc = "start" \/ best \in Entry
         /\ pc = "start" => pc' = "start" \/ best' \in Entry
<1>1. /\ TypeInv /\ PoolOK(pool) /\ items \in Seq(Entry) /\ Len(items) <= EliteSize
      /\ pc # "start" => best \in Entry
  BY DEF RunInv, TypeInv
<1>2. UNCHANGED inputs
  BY Steps
<1>3. CASE Starts
  BY <1>3, StartResult
<1>4. CASE Produces
  <2>1. CASE Quiet
    BY <1>1, <1>4, <2>1, ProductionResult DEF Quiet, incumbent
  <2>2. ASSUME NEW e \in Entry, Faces(e) PROVE best' \in Entry
    BY <1>1, <1>2, <1>4, <2>2, ProductionResult, ChallengeFacts DEF Faces
  <2> QED BY <1>1, <1>4, <2>1, <2>2, ProductionResult
<1>5. CASE Trims \/ Passes \/ UNCHANGED vars
  <2>1. Quiet
    BY <1>1, <1>5, QuietSteps
  <2>2. pc = "start" => pc' = "start"
    <3>1. CASE Trims \/ UNCHANGED vars
      BY <3>1 DEF Trims, RustMonitor, JuliaMonitor, vars, flow
    <3>2. CASE Passes
      <4>1. CASE Idles
        BY <4>1 DEF Idles, RustExpired, RustExhausted, RustRelinkEnds, RustCompletes,
           RustClock, JuliaEnds, JuliaStartRelink, JuliaRelinkEnds, JuliaCompletes,
           JuliaClock, RExpired, RExhausted, RMonitor, RCompletes, RClock, flow
      <4> QED
        BY <3>2, <4>1, PassKinds DEF RustConstruct, JuliaConstruct, RConstruct,
           RustDescend, JuliaDescend, RDescend, RustSearch, JuliaSearch, RSearch
    <3> QED BY <1>5, <3>1, <3>2
  <2> QED BY <1>1, <2>1, <2>2 DEF Quiet, incumbent
<1> QED BY <1>3, <1>4, <1>5, Steps

(* Every step keeps the types.                                             *)
LEMMA TypeStep ==
  ASSUME RunInv, PortNext
  PROVE  TypeInv'
<1>1. TypeInv /\ PoolOK(pool) /\ UNCHANGED inputs
  BY Steps DEF RunInv
<1>2. /\ pc' \in {"seed", "head", "done"} \cup Inside \/ UNCHANGED pc
      /\ seeded' \in Nat /\ leaked' \in BOOLEAN /\ (late' => config.limited)
      /\ snapshot' \in {snapshot, pool, <<>>}
      /\ pc' \in {"seed", "head", "done"} \cup Inside \/ UNCHANGED <<pc, best>>
  BY StageStep
<1>3. /\ items' \in Seq(Entry) /\ Len(items') <= EliteSize
      /\ best' = best \/ best' \in Entry
      /\ pc = "start" => pc' = "start" \/ best' \in Entry
  BY EntriesStep DEF InOrder
<1>4. /\ pc \in {"start", "seed", "head", "done"} \cup Inside
      /\ pc = "start" => best = Nothing
      /\ pc # "start" => best \in Entry
  BY <1>1 DEF TypeInv
<1>5. /\ pc' \in {"start", "seed", "head", "done"} \cup Inside
      /\ pc' = "start" => best' = Nothing
      /\ pc' # "start" => best' \in Entry
  BY <1>2, <1>3, <1>4 DEF Inside, Searched, Recorded
<1>6. snapshot' \in Seq(Entry)
  BY <1>1, <1>2, EmptySeq DEF TypeInv, PoolOK
<1>7. /\ config' \in Settings /\ objective' \in Objectives /\ guesses' \in WarmStarts
      /\ config' = config
  BY <1>1 DEF TypeInv, inputs
<1>8. Nothing' = Nothing /\ Inside' = Inside
  BY DEF Nothing, Inside
<1>9. /\ config'.port # "rust" => guesses' \in Seq(Box)
      /\ price' \in Readings(objective)'
  <2>1. Readings(objective)' = Readings(objective)
    BY <1>1 DEF Readings, inputs
  <2> QED BY <1>1, <2>1, PriceStep DEF TypeInv, inputs
<1> QED
  BY <1>2, <1>3, <1>5, <1>6, <1>7, <1>8, <1>9, MemoryStep, HistoryStep DEF TypeInv

-----------------------------------------------------------------------------
(* Counts.                                                                 *)

(* Better is a strict total order of the costs.                            *)
LEMMA BetterFacts ==
  ASSUME TypeInv, NEW a \in Costs, NEW b \in Costs, NEW c \in Costs
  PROVE  /\ ~Better(a, a)
         /\ Better(a, b) => ~Better(b, a)
         /\ Better(a, b) /\ ~Better(c, b) => Better(a, c)
         /\ ~Better(a, b) /\ ~Better(b, a) => a = b
         /\ config.port # "r" => (Better(a, b) <=> a < b)
<1>1. config.maximize \in BOOLEAN /\ (config.maximize => config.port = "r")
  BY InputFacts
<1>2. a \in Int /\ b \in Int /\ c \in Int
  BY CostFacts
<1> QED BY <1>1, <1>2 DEF Better, Beats

\* The actions in which the monitor has its turn.
Watches == RustMonitor \/ JuliaMonitor \/ RMonitor

(* But for these, no action changes what the monitor knows or the turns it *)
(* has had, and none goes on to the next iteration when it is time to stop.*)
LEMMA TurnsKept ==
  ASSUME RunInv, PortNext, ~Watches, pc' # "done"
  PROVE  /\ UNCHANGED monitor /\ Turns' = Turns /\ pc # "done"
         /\ config.monitor /\ (pc' \notin Watched' \/ config.port = "r") =>
              pc \notin Watched \/ config.port = "r" \/ noImprove < config.stopAfter
<1> USE DEF Turns, At, Watched
<1>1. /\ config.port \in {"rust", "julia", "r"} /\ config.stopAfter \in Nat
      /\ spent \in Nat /\ noImprove \in Nat
  BY InputFacts DEF RunInv, TypeInv, ControlInv, Setting
<1>2. config' = config
  BY Steps DEF inputs
<1>3. CASE Starts
  BY <1>1, <1>2, <1>3 DEF Starts, RustStart, JuliaStart, RStart, monitor
<1>4. CASE RustSeed \/ RustRecord \/ RustRelink \/ RustRestart
  BY <1>1, <1>2, <1>4 DEF RustSeed, RustRecord, RustRelink, RustRestart, monitor, flow
<1>5. CASE JuliaSeed \/ JuliaRecord \/ JuliaRelink \/ JuliaRestart
  BY <1>1, <1>2, <1>5 DEF JuliaSeed, JuliaRecord, JuliaRelink, JuliaRestart, monitor, flow
<1>6. CASE RSeed \/ RRecord \/ RRelink \/ RRestart
  BY <1>1, <1>2, <1>6 DEF RSeed, RRecord, RRelink, RRestart, monitor, flow
<1>7. CASE RustPasses
  BY <1>1, <1>2, <1>7 DEF RustPasses, RustExpired, RustExhausted, RustConstruct,
     RustDescend, RustSearch, RustRelinkEnds, RustCompletes, RustClock, RustEarlyStop,
     monitor, flow
<1>8. CASE JuliaPasses
  BY <1>1, <1>2, <1>8 DEF JuliaPasses, JuliaEnds, JuliaConstruct, JuliaDescend,
     JuliaSearch, JuliaStartRelink, JuliaRelinkEnds, JuliaCompletes, JuliaClock,
     JuliaEarlyStop, monitor, flow
<1>9. CASE RPasses /\ ~RMonitor
  BY <1>1, <1>2, <1>9 DEF RPasses, RExpired, RExhausted, RConstruct, RDescend, RSearch,
     RCompletes, RClock, monitor, flow
<1>10. CASE Finished
  BY <1>1, <1>2, <1>10 DEF Finished, vars, flow, monitor
<1> QED
  BY <1>3, <1>4, <1>5, <1>6, <1>7, <1>8, <1>9, <1>10
     DEF PortNext, RustNext, JuliaNext, RNext, Starts, RustPasses, JuliaPasses, RPasses, Watches

(* The incumbent stays, or it gets strictly better and the date of the     *)
(* improvement is no earlier than the monitor's last turn.                 *)
LEMMA Gains ==
  ASSUME RunInv, PortNext
  PROVE  \/ UNCHANGED incumbent
         \/ Starts /\ best' \in Entry /\ lastGain' = lastGain
         \/ /\ pc # "start" /\ Produces
            /\ best' \in Entry /\ best \in Entry /\ Better(best'.cost, best.cost)
            /\ lastGain' \in Nat /\ lastGain' >= Turns
<1>1. /\ TypeInv /\ PoolOK(pool) /\ items \in Seq(Entry) /\ Len(items) <= EliteSize
      /\ pc # "start" => best \in Entry
      /\ spent \in Nat /\ (pc = "seed" => spent = 0)
  BY DEF RunInv, TypeInv, ControlInv
<1>2. CASE Starts
  BY <1>2, StartResult
<1>3. CASE Produces
  <2>1. CASE Quiet
    BY <2>1 DEF Quiet
  <2>2. ASSUME NEW e \in Entry, Faces(e), ~UNCHANGED incumbent
        PROVE  /\ best' \in Entry /\ Better(best'.cost, best.cost)
               /\ lastGain' \in Nat /\ lastGain' >= Turns
    <3>1. best' = e /\ lastGain' = Now /\ RImproves(e.cost, best.cost)
      BY <2>2 DEF Faces, Challenge
    <3>2. Now \in Nat /\ Now >= Turns
      BY <1>1 DEF Now, Turns, At, Watched
    <3> QED BY <3>1, <3>2 DEF RImproves
  <2> QED BY <1>1, <1>3, <2>1, <2>2, ProductionResult
<1>4. CASE Trims \/ Passes \/ UNCHANGED vars
  BY <1>1, <1>4, QuietSteps DEF Quiet
<1> QED BY <1>2, <1>3, <1>4, Steps

\* What the monitor's turn makes of its count: it goes on, unless the monitor
\* has something new to see, and Rust and C++ forget it when it is enough.
Counts ==
  /\ bestEver' = best.cost
  /\ \/ noImprove' = (IF Unseen THEN 0 ELSE noImprove + 1)
     \/ /\ config.port = "rust" /\ noImprove' = 0
        /\ ~Unseen /\ noImprove + 1 >= MonitorThreshold
  /\ config.port = "r" => noImprove' < config.stopAfter
  /\ config.port = "rust" => noImprove' < MonitorThreshold \/ noImprove' = 0

(* A turn of the monitor counts so, and leaves the incumbent alone.        *)
LEMMA WatchResult ==
  ASSUME RunInv, Watches, config.monitor, pc' # "done"
  PROVE  /\ Counts /\ pc = "monitor" /\ UNCHANGED incumbent
         /\ Turns' = Turns + 1 /\ Turns = spent /\ pc' \in Watched
<1>1. /\ config.port \in {"rust", "julia", "r"} /\ config.stopAfter \in Nat
      /\ spent \in Nat /\ noImprove \in Nat
  BY InputFacts DEF RunInv, TypeInv, ControlInv, Setting
<1>2. pc = "monitor" /\ UNCHANGED incumbent /\ config' = config /\ best \in Entry
  BY DEF Watches, RustMonitor, JuliaMonitor, RMonitor, RunInv, TypeInv, inputs
<1>3. best.cost \in Costs /\ (bestEver = -1 \/ ~Better(bestEver, best.cost))
  BY <1>2, CostFacts DEF RunInv, CountInv
<1>4. CASE RustMonitor \/ JuliaMonitor
  <2>1. config.port # "r" /\ bestEver \in Costs /\ TypeInv
    BY <1>4 DEF RustMonitor, JuliaMonitor, RunInv, TypeInv
  <2>2. bestEver \in Int /\ best.cost \in Int /\ bestEver # -1 /\ best.cost \in Costs
    BY <1>2, <2>1, CostFacts DEF Costs
  <2>3. best.cost <= bestEver
    BY <1>3, <2>1, <2>2, BetterFacts
  <2>4. Unseen <=> best.cost < bestEver
    BY <2>1, <2>2, BetterFacts DEF Unseen
  <2>5. Counted = IF Unseen THEN 0 ELSE noImprove + 1
    BY <2>4 DEF Counted
  <2>6. Least({bestEver, best.cost}) = IF bestEver <= best.cost THEN bestEver ELSE best.cost
    BY <2>2, LeastOfTwo
  <2>7. Least({bestEver, best.cost}) = best.cost
    BY <2>2, <2>3, <2>6
  <2>8. pc' = "relink" /\ spent' = spent
    BY <1>4 DEF RustMonitor, JuliaMonitor
  <2>9. Turns' = Turns + 1 /\ Turns = spent /\ pc' \in Watched
    BY <1>1, <1>2, <2>1, <2>8 DEF Turns, At, Watched
  <2>10. CASE RustMonitor
    <3>1. /\ bestEver' = best.cost /\ config.port = "rust"
          /\ \/ Counted < MonitorThreshold /\ noImprove' = Counted
             \/ Counted >= MonitorThreshold /\ noImprove' = 0
      BY <2>7, <2>10 DEF RustMonitor
    <3>2. MonitorThreshold \in Nat
      BY PortAssumption
    <3>3. Counted >= MonitorThreshold => noImprove' = 0 /\ (Unseen \/ noImprove + 1 >= MonitorThreshold)
      BY <1>1, <2>5, <3>1, <3>2
    <3>4. \/ noImprove' = (IF Unseen THEN 0 ELSE noImprove + 1)
          \/ noImprove' = 0 /\ ~Unseen /\ noImprove + 1 >= MonitorThreshold
      BY <2>5, <3>1, <3>3
    <3>5. noImprove' < MonitorThreshold \/ noImprove' = 0
      BY <3>1
    <3> QED BY <1>2, <2>9, <3>1, <3>4, <3>5 DEF Counts
  <2>11. CASE JuliaMonitor
    BY <1>2, <2>5, <2>7, <2>9, <2>11 DEF Counts, JuliaMonitor
  <2> QED BY <1>4, <2>10, <2>11
<1>5. CASE RMonitor
  <2>1. config.port = "r" /\ TypeInv /\ bestEver \in Costs \cup {-1}
    BY <1>5 DEF RMonitor, RunInv, TypeInv
  <2>2. RCounted = IF Unseen THEN 0 ELSE noImprove + 1
    BY DEF RCounted, Unseen
  <2>3. RLastBest = best.cost
    <3>1. CASE Unseen
      BY <3>1 DEF RLastBest, Unseen
    <3>2. CASE ~Unseen
      <4>1. bestEver \in Costs /\ ~Better(best.cost, bestEver) /\ ~Better(bestEver, best.cost)
        BY <1>3, <2>1, <3>2 DEF Unseen
      <4>2. best.cost \in Costs
        BY <1>2, CostFacts
      <4>3. best.cost = bestEver
        BY <2>1, <4>1, <4>2, BetterFacts
      <4> QED BY <4>3 DEF RLastBest
    <3> QED BY <3>1, <3>2
  <2>4. /\ bestEver' = best.cost /\ noImprove' = (IF Unseen THEN 0 ELSE noImprove + 1)
        /\ noImprove' < config.stopAfter
        /\ pc' \in {"restart", "next"} /\ spent' = spent
    BY <1>5, <2>2, <2>3 DEF RMonitor
  <2>5. Turns' = Turns + 1 /\ Turns = spent /\ pc' \in Watched
    BY <1>1, <1>2, <2>1, <2>4 DEF Turns, At, Watched
  <2> QED BY <1>2, <2>1, <2>4, <2>5 DEF Counts
<1> QED BY <1>4, <1>5 DEF Watches

(* Every step keeps the counts.                                            *)
LEMMA CountStep ==
  ASSUME RunInv, PortNext
  PROVE  CountInv'
<1> SUFFICES ASSUME pc' # "done", config'.monitor PROVE CountInv'
  BY DEF CountInv
<1>0. /\ TypeInv /\ CountInv /\ ControlInv /\ ControlInv' /\ TypeInv'
      /\ config' = config /\ UNCHANGED inputs
  BY Steps, StageStep, TypeStep DEF RunInv, inputs
<1>1. /\ Turns \in Nat /\ lastGain \in Nat /\ noImprove \in Nat /\ spent \in Nat
      /\ Turns' \in Nat /\ lastGain' \in Nat /\ noImprove' \in Nat
      /\ config.stopAfter \in Nat \ {0} /\ MonitorThreshold \in Nat
      /\ lastGain <= spent + At(Recorded)
  <2>1. MaxIterations \in Nat /\ MonitorThreshold \in Nat /\ config.stopAfter \in Nat \ {0}
    BY <1>0, InputFacts, PortAssumption
  <2>2. /\ spent \in Nat /\ lastGain \in Nat /\ noImprove \in Nat
        /\ lastGain <= spent + At(Recorded)
    BY <1>0, <2>1 DEF ControlInv
  <2>3. spent' \in Nat /\ lastGain' \in Nat /\ noImprove' \in Nat
    BY <1>0, <2>1 DEF ControlInv
  <2>4. Turns \in Nat /\ Turns' \in Nat
    <3>1. At(Watched) \in {0, 1} /\ At(Watched)' \in {0, 1}
      BY DEF At
    <3>2. Turns = spent + At(Watched) /\ Turns' = spent' + At(Watched)'
      BY DEF Turns
    <3> QED BY <2>2, <2>3, <3>1, <3>2
  <2> QED BY <2>1, <2>2, <2>3, <2>4
<1>2. Deaf' = Deaf /\ config.monitor /\ (Deaf <=> config.port = "rust" /\ config.stopAfter >= MonitorThreshold)
  BY <1>0 DEF Deaf
<1>3. \A v, w : Better(v, w)' = Better(v, w)
  BY <1>0 DEF Better
<1>4. bestEver \in Costs \cup {-1} /\ (pc # "start" => best \in Entry /\ best.cost \in Costs)
  BY <1>0, CostFacts DEF TypeInv
<1>5. CASE Watches
  <2>1. /\ Counts /\ pc = "monitor" /\ UNCHANGED incumbent
        /\ Turns' = Turns + 1 /\ Turns = spent /\ pc' \in Watched
    BY <1>2, <1>5, WatchResult DEF RunInv
  <2>2. best' = best /\ lastGain' = lastGain /\ pc' \in Watched' /\ pc' # "start"
    BY <1>0, <2>1 DEF incumbent, Watched
  <2>3. ~Better(bestEver, best.cost)' /\ ~Unseen'
    <3>1. bestEver' = best.cost /\ best.cost \in Costs /\ best.cost # -1
      BY <1>4, <2>1, CostFacts DEF Counts
    <3>2. ~Better(best.cost, best.cost)
      BY <1>0, <3>1, BetterFacts
    <3> QED BY <1>0, <2>2, <3>1, <3>2 DEF Unseen, Better
  <2>4. /\ Unseen => lastGain >= Turns
        /\ ~Unseen => noImprove + lastGain <= Turns
        /\ ~Deaf => Turns <= lastGain + noImprove + 1
        /\ noImprove < config.stopAfter
    BY <1>2, <2>1 DEF RunInv, CountInv, Watched
  <2>5. lastGain <= Turns + 1
    BY <1>1, <2>1 DEF At
  <2>6. noImprove' + lastGain <= Turns + 1
    <3>1. CASE noImprove' = 0
      BY <1>1, <2>5, <3>1
    <3>2. CASE ~Unseen /\ noImprove' = noImprove + 1
      BY <1>1, <2>4, <3>2
    <3> QED BY <2>1, <3>1, <3>2 DEF Counts
  <2>7. ~Deaf => Turns + 1 <= lastGain + noImprove' + 1
    <3>1. CASE Unseen /\ noImprove' = 0
      BY <1>1, <2>4, <3>1
    <3>2. CASE ~Unseen /\ noImprove' = noImprove + 1
      BY <1>1, <2>4, <3>2
    <3>3. CASE config.port = "rust" /\ noImprove + 1 >= MonitorThreshold
      BY <1>1, <1>2, <2>4, <3>3
    <3> QED BY <2>1, <3>1, <3>2, <3>3 DEF Counts
  <2>8. /\ config.port = "r" => noImprove' < config.stopAfter
        /\ config.port = "rust" => noImprove' < MonitorThreshold \/ noImprove' = 0
    BY <2>1 DEF Counts
  <2>9. /\ ~Unseen' => noImprove' + lastGain' <= Turns'
        /\ ~Deaf' => Turns' <= lastGain' + noImprove' + 1
    BY <1>2, <2>1, <2>2, <2>6, <2>7
  <2> QED BY <1>0, <2>2, <2>3, <2>8, <2>9 DEF CountInv
<1>6. CASE ~Watches
  <2>1. /\ bestEver' = bestEver /\ noImprove' = noImprove /\ Turns' = Turns /\ pc # "done"
        /\ pc' \notin Watched' \/ config.port = "r" =>
             pc \notin Watched \/ config.port = "r" \/ noImprove < config.stopAfter
    BY <1>2, <1>6, TurnsKept DEF monitor
  <2>2. /\ bestEver = -1 \/ ~Better(bestEver, best.cost)
        /\ pc = "start" => bestEver = IF config.port = "r" THEN -1 ELSE Infinity
        /\ Unseen => lastGain >= Turns
        /\ ~Unseen => noImprove + lastGain <= Turns
        /\ ~Deaf => Turns <= lastGain + noImprove + 1
        /\ pc \notin Watched \/ config.port = "r" => noImprove < config.stopAfter
        /\ config.port = "rust" => noImprove < MonitorThreshold \/ noImprove = 0
    BY <1>2, <2>1 DEF RunInv, CountInv
  <2>3. /\ pc' \notin Watched' \/ config'.port = "r" => noImprove' < config'.stopAfter
        /\ config'.port = "rust" => noImprove' < MonitorThreshold \/ noImprove' = 0
    BY <1>0, <2>1, <2>2
  <2>4. CASE UNCHANGED incumbent
    <3>1. best' = best /\ lastGain' = lastGain /\ Unseen' = Unseen
      BY <1>0, <2>1, <2>4 DEF incumbent, Unseen, Better
    <3>2. pc' = "start" => pc = "start"
      BY StageStep DEF Inside, Searched, Recorded
    <3> QED BY <1>0, <1>2, <1>3, <2>1, <2>2, <2>3, <3>1, <3>2 DEF CountInv
  <2>5. CASE Starts /\ best' \in Entry /\ lastGain' = lastGain
    <3>1. pc = "start" /\ pc' = "seed" /\ spent = 0 /\ pc \notin Watched
      BY <1>0, <2>5, StartResult DEF ControlInv, Watched
    <3>2. Turns = 0 /\ lastGain = 0 /\ noImprove = 0
      BY <1>1, <3>1 DEF ControlInv, RunInv, At, Turns, Recorded
    <3>3. best'.cost \in Costs /\ best'.cost \in Int /\ best'.cost <= Infinity
          /\ Infinity \in Costs /\ Infinity \in Int
      BY <2>5, CostFacts
    <3>4. bestEver = -1 \/ ~Better(bestEver, best'.cost)
      BY <1>0, <2>2, <3>1, <3>3, BetterFacts
    <3> QED BY <1>0, <1>1, <1>3, <2>1, <2>3, <2>5, <3>1, <3>2, <3>4 DEF CountInv
  <2>6. CASE /\ best' \in Entry /\ best \in Entry /\ Better(best'.cost, best.cost)
             /\ lastGain' >= Turns /\ pc # "start"
    <3>1. best'.cost \in Costs /\ best.cost \in Costs
      BY <2>6, CostFacts
    <3>2. bestEver = -1 \/ (Better(best'.cost, bestEver) /\ ~Better(bestEver, best'.cost))
      BY <1>0, <1>4, <2>2, <2>6, <3>1, BetterFacts
    <3>3. Unseen'
      BY <1>0, <2>1, <3>2 DEF Unseen, Better
    <3>4. pc' # "start"
      BY <2>6, StageStep DEF Inside, Searched, Recorded
    <3>5. Turns' <= lastGain' + noImprove' + 1
      <4>1. Turns' <= lastGain'
        BY <2>1, <2>6
      <4>2. \A a, b, c \in Nat : a <= b => a <= b + c + 1
        OBVIOUS
      <4> QED BY <1>1, <4>1, <4>2
    <3> QED BY <1>0, <1>3, <2>1, <2>3, <2>6, <3>2, <3>3, <3>4, <3>5 DEF CountInv
  <2> QED BY <2>4, <2>5, <2>6, Gains
<1> QED BY <1>5, <1>6

(* An early stop: of Rust, C++ and Julia at the end of an iteration, of R  *)
(* in the monitor's turn; when the run has stopped, it has stopped.        *)
LEMMA EarlyStops ==
  ASSUME RunInv, PortNext, ended' = "early_stop"
  PROVE  \/ UNCHANGED vars
         \/ /\ config.monitor /\ UNCHANGED incumbent /\ nit' = spent + 1
            /\ \/ /\ pc = "stop" /\ config.port # "r"
                  /\ noImprove >= config.stopAfter
               \/ /\ pc = "monitor" /\ config.port = "r"
                  /\ RCounted >= config.stopAfter
<1>1. /\ pc = "done" <=> ended # "running"
      /\ pc \in Inside /\ config.port # "julia" => nit = spent + 1
  BY DEF RunInv, ControlInv
<1>2. pc # "done" => ended # "early_stop"
  BY <1>1
<1>3. CASE Starts
  BY <1>2, <1>3 DEF Starts, RustStart, JuliaStart, RStart
<1>4. CASE Produces
  BY <1>2, <1>4 DEF Produces, RustSeed, RustRecord, RustRelink, RustRestart, JuliaSeed,
     JuliaRecord, JuliaRelink, JuliaRestart, RSeed, RRecord, RRelink, RRestart, flow
<1>5. CASE Trims
  BY <1>2, <1>5 DEF Trims, RustMonitor, JuliaMonitor
<1>6. CASE RustPasses /\ ~RustCompletes
  BY <1>2, <1>6 DEF RustPasses, RustExpired, RustExhausted, RustConstruct, RustDescend,
     RustSearch, RustRelinkEnds, RustClock, flow
<1>7. CASE JuliaPasses /\ ~JuliaCompletes
  BY <1>2, <1>7 DEF JuliaPasses, JuliaEnds, JuliaConstruct, JuliaDescend, JuliaSearch,
     JuliaStartRelink, JuliaRelinkEnds, JuliaClock, flow
<1>8. CASE RPasses /\ ~RMonitor
  BY <1>2, <1>8 DEF RPasses, RExpired, RExhausted, RConstruct, RDescend, RSearch,
     RCompletes, RClock, flow
<1>9. CASE RustCompletes
  BY <1>1, <1>2, <1>9 DEF RustCompletes, RustEarlyStop, Inside, Recorded
<1>10. CASE JuliaCompletes
  BY <1>2, <1>10 DEF JuliaCompletes, JuliaEarlyStop
<1>11. CASE RMonitor
  BY <1>1, <1>2, <1>11 DEF RMonitor, Inside, Recorded
<1> QED
  BY <1>3, <1>4, <1>5, <1>6, <1>7, <1>8, <1>9, <1>10, <1>11, Steps DEF Passes

(* Every step keeps the truth about an early stop.                         *)
LEMMA EndStep ==
  ASSUME RunInv, PortNext
  PROVE  EndInv'
<1> SUFFICES ASSUME ended' = "early_stop" PROVE EndInv'
  BY DEF EndInv
<1>0. /\ config' = config /\ config.stopAfter \in Nat \ {0} /\ MonitorThreshold \in Nat
      /\ CountInv /\ EndInv /\ ControlInv
  BY Steps, InputFacts, PortAssumption DEF RunInv, inputs
<1>1. /\ spent \in Nat /\ lastGain \in Nat /\ noImprove \in Nat
      /\ lastGain <= spent + At(Recorded)
  BY <1>0, PortAssumption DEF ControlInv
<1>2. CASE UNCHANGED vars
  <2>1. UNCHANGED <<ended, nit, lastGain, config>>
    BY <1>2 DEF vars, flow, incumbent, inputs
  <2> QED BY <1>0, <2>1 DEF EndInv, Deaf
<1>3. CASE /\ config.monitor /\ UNCHANGED incumbent /\ nit' = spent + 1
           /\ pc = "stop" /\ config.port # "r" /\ noImprove >= config.stopAfter
  <2>1. /\ Unseen => lastGain >= spent + 1
        /\ ~Unseen => noImprove + lastGain <= spent + 1
        /\ config.port = "rust" => noImprove < MonitorThreshold \/ noImprove = 0
    BY <1>0, <1>3 DEF CountInv, Turns, At, Watched
  <2>2. lastGain <= spent + 1
    BY <1>1, <1>3 DEF At, Recorded
  <2>3. ~(config.port = "rust" /\ config.stopAfter >= MonitorThreshold)
    BY <1>0, <1>1, <1>3, <2>1
  <2>4. nit' - lastGain >= config.stopAfter \/ lastGain = nit'
    BY <1>0, <1>1, <1>3, <2>1, <2>2
  <2>5. lastGain' = lastGain
    BY <1>3 DEF incumbent
  <2> QED BY <1>0, <1>3, <2>3, <2>4, <2>5 DEF EndInv, Deaf
<1>4. CASE /\ config.monitor /\ UNCHANGED incumbent /\ nit' = spent + 1
           /\ pc = "monitor" /\ config.port = "r" /\ RCounted >= config.stopAfter
  <2>1. ~Unseen => noImprove + lastGain <= spent
    BY <1>0, <1>1, <1>4 DEF CountInv, Turns, At, Watched
  <2>2. ~Unseen /\ noImprove + 1 >= config.stopAfter
    <3>1. RCounted = IF Unseen THEN 0 ELSE noImprove + 1
      BY DEF RCounted, Unseen
    <3> QED BY <1>0, <1>4, <3>1
  <2>3. nit' - lastGain >= config.stopAfter
    BY <1>0, <1>1, <1>4, <2>1, <2>2
  <2>4. lastGain' = lastGain
    BY <1>4 DEF incumbent
  <2> QED BY <1>0, <1>4, <2>3, <2>4 DEF EndInv, Deaf
<1> QED BY <1>2, <1>3, <1>4, EarlyStops

-----------------------------------------------------------------------------
(* Points, costs and losses.                                               *)

(* A run that has not started can only start, which seeds it.              *)
LEMMA Seeding ==
  ASSUME [PortNext]_vars
  PROVE  /\ pc' = "seed" => Starts \/ pc = "seed"
         /\ pc = "start" => Starts \/ pc' = "start"
<1>1. CASE RustNext
  BY <1>1 DEF RustNext, Starts, RustSeed, RustExpired, RustExhausted, RustConstruct,
     RustDescend, RustSearch, RustRecord, RustMonitor, RustRelink, RustRelinkEnds,
     RustRestart, RustCompletes, RustClock, flow
<1>2. CASE JuliaNext
  BY <1>2 DEF JuliaNext, Starts, JuliaSeed, JuliaEnds, JuliaConstruct, JuliaDescend,
     JuliaSearch, JuliaRecord, JuliaMonitor, JuliaStartRelink, JuliaRelink,
     JuliaRelinkEnds, JuliaRestart, JuliaCompletes, JuliaClock, flow
<1>3. CASE RNext
  BY <1>3 DEF RNext, Starts, RSeed, RExpired, RExhausted, RConstruct, RDescend, RSearch,
     RRecord, RRelink, RMonitor, RRestart, RCompletes, RClock, flow
<1>4. CASE Finished \/ UNCHANGED vars
  BY <1>4 DEF Finished, vars, flow
<1> QED BY <1>1, <1>2, <1>3, <1>4 DEF PortNext

(* There is a candidate while it is searched for, a point of the box with  *)
(* its cost, and none before and after.                                    *)
LEMMA CandidateStep ==
  ASSUME RunInv, [PortNext]_vars
  PROVE  IF pc' \in Searched THEN \E s \in Room : cand' = Priced(s)
         ELSE cand' = Nothing
<1>0. pc' \in Searched => price' = price
  BY PriceStep DEF RunInv
<1>1. /\ TypeInv /\ PointInv
      /\ pc \notin Searched => cand = Nothing
      /\ pc \in Searched => \E s \in Room : cand = Priced(s)
  BY DEF RunInv, PointInv
<1>2. CASE Starts
  BY <1>1, <1>2 DEF Starts, RustStart, JuliaStart, RStart, Searched
<1>3. CASE RustRecord \/ JuliaRecord \/ RRecord
  BY <1>3 DEF RustRecord, JuliaRecord, RRecord, Searched
<1>4. CASE RustSeed \/ RustRelink \/ RustRestart
  BY <1>1, <1>4 DEF RustSeed, RustRelink, RustRestart, Searched, flow
<1>5. CASE JuliaSeed \/ JuliaRelink \/ JuliaRestart
  BY <1>1, <1>5 DEF JuliaSeed, JuliaRelink, JuliaRestart, Searched, flow
<1>6. CASE RSeed \/ RRelink \/ RRestart
  BY <1>1, <1>6 DEF RSeed, RRelink, RRestart, Searched
<1>7. CASE Trims \/ UNCHANGED vars
  BY <1>1, <1>7 DEF Trims, RustMonitor, JuliaMonitor, Searched, vars, flow
<1>8. CASE Passes
  <2>1. CASE RustConstruct \/ JuliaConstruct \/ RConstruct
    BY <1>1, <2>1, Constructing DEF Searched
  <2>2. CASE RustDescend \/ JuliaDescend \/ RDescend
    BY <1>1, <2>2, Descending DEF Searched
  <2>3. CASE RustSearch \/ JuliaSearch \/ RSearch
    BY <1>1, <2>3, Searching DEF Searched
  <2>4. CASE pc \notin Searched /\ pc' \notin Searched /\ UNCHANGED cand
    BY <1>1, <2>4
  <2>5. CASE UNCHANGED <<pc, cand>>
    BY <1>1, <2>5
  <2> QED BY <1>8, <2>1, <2>2, <2>3, <2>4, <2>5, PassKinds
<1> QED BY <1>2, <1>3, <1>4, <1>5, <1>6, <1>7, <1>8, Steps DEF Produces

(* Every step keeps the points a run holds where they belong.              *)
LEMMA PointStep ==
  ASSUME RunInv, PortNext
  PROVE  PointInv'
<1>0. /\ TypeInv /\ PointInv /\ PoolOK(pool) /\ items \in Seq(Entry)
      /\ Len(items) <= EliteSize /\ UNCHANGED inputs
  BY Steps DEF RunInv, TypeInv
<1>1. /\ Room' = Room /\ Searched' = Searched /\ Nothing' = Nothing
      /\ \A s : MayHold(s) => MayHold(s)'
      /\ pc' \in Searched => \A s : Priced(s)' = Priced(s)
  <2>1. /\ config' = config /\ objective' = objective
        /\ Room' = Room /\ Searched' = Searched /\ Nothing' = Nothing
    BY <1>0 DEF inputs, Room, Searched, Nothing
  <2>2. Feasible' = Feasible
    BY <2>1 DEF Feasible, Twins
  <2>3. pc' \in Searched => price' = price
    BY <1>0, PriceStep
  <2> QED BY <2>1, <2>2, <2>3 DEF Priced, MayHold
<1>2. IF pc' \in Searched THEN \E s \in Room : cand' = Priced(s) ELSE cand' = Nothing
  BY CandidateStep
<1>3. snapshot' \in {snapshot, pool, <<>>}
  BY StageStep
<1>4. \A e \in Kept(snapshot') : e.sol \in Room
  BY <1>0, <1>3 DEF PointInv, Elites, Kept
<1>5. ASSUME NEW e \in Entry, MayHold(e.sol), best' \in {best, e},
             Elites' \subseteq Elites \cup {e}, e.sol \in Room \/ Elites' = Elites,
             best' = e \/ pc # "start", pc' = "seed" => e.sol \in Room,
             best' = e \/ (pc' = "seed" => pc = "seed")
      PROVE  /\ MayHold(best'.sol) /\ (pc' = "seed" => best'.sol \in Room)
             /\ \A g \in Elites' : g.sol \in Room
  BY <1>0, <1>5 DEF PointInv
<1>6. /\ pc' # "start" => MayHold(best'.sol)
      /\ pc' = "seed" => best'.sol \in Room
      /\ \A g \in Elites' : g.sol \in Room
  <2>1. CASE Starts
    <3>1. PICK e \in Entry : /\ e.sol \in Room /\ best' = e
                             /\ Elites' \subseteq {e}
      BY <2>1, StartResult
    <3>2. MayHold(e.sol)
      BY <1>0, <3>1, Holdable
    <3> QED BY <1>5, <3>1, <3>2
  <2>2. CASE (Trims \/ Passes \/ UNCHANGED vars) /\ ~Starts
    <3>1. best' = best /\ Elites' \subseteq Elites
      BY <1>0, <2>2, QuietSteps DEF Quiet, incumbent
    <3>2. (pc = "start" => pc' = "start") /\ (pc' = "seed" => pc = "seed")
      BY <2>2, Seeding
    <3> QED BY <1>0, <3>1, <3>2 DEF PointInv
  <2>3. CASE Produces /\ ~Starts
    <3>1. pc # "start" /\ (pc' = "seed" => pc = "seed")
      BY <2>3, Seeding, ProductionResult
    <3>2. CASE Quiet
      BY <1>0, <3>1, <3>2 DEF PointInv, Quiet, incumbent
    <3>3. ASSUME NEW e \in Entry, Faces(e), Elites' \subseteq Elites \cup {e},
                 e.sol \in Room \/ Elites' = Elites
          PROVE  /\ MayHold(best'.sol) /\ (pc' = "seed" => best'.sol \in Room)
                 /\ \A g \in Elites' : g.sol \in Room
      <4>1. MayHold(e.sol) /\ best' \in {best, e} /\ (pc' = "seed" => e.sol \in Room)
        BY <3>1, <3>3 DEF Faces, Challenge, incumbent
      <4> QED BY <1>5, <3>1, <3>3, <4>1
    <3> QED BY <2>3, <3>2, <3>3, ProductionResult
  <2> QED BY <2>1, <2>2, <2>3, Steps
<1> QED BY <1>1, <1>2, <1>4, <1>6 DEF PointInv, Kept

(* A cost that was leaked stays leaked.                                    *)
LEMMA LeakStep ==
  ASSUME [PortNext]_vars, leaked
  PROVE  leaked'
<1>1. CASE Starts
  BY <1>1 DEF Starts, RustStart, JuliaStart, RStart
<1>2. CASE Produces
  BY <1>2 DEF Produces, RustSeed, RustRecord, RustRelink, RustRestart, JuliaSeed,
     JuliaRecord, JuliaRelink, JuliaRestart, RSeed, RRecord, RRelink, RRestart, history
<1>3. CASE Trims \/ UNCHANGED vars
  BY <1>3 DEF Trims, RustMonitor, JuliaMonitor, vars, history
<1>4. CASE RustPasses
  BY <1>4 DEF RustPasses, RustExpired, RustExhausted, RustConstruct, RustDescend,
     RustSearch, RustRelinkEnds, RustCompletes, RustClock, history
<1>5. CASE JuliaPasses
  BY <1>5 DEF JuliaPasses, JuliaEnds, JuliaConstruct, JuliaDescend, JuliaSearch,
     JuliaStartRelink, JuliaRelinkEnds, JuliaCompletes, JuliaClock, history
<1>6. CASE RPasses
  BY <1>6 DEF RPasses, RExpired, RExhausted, RConstruct, RDescend, RSearch, RMonitor,
     RCompletes, RClock, history
<1> QED BY <1>1, <1>2, <1>3, <1>4, <1>5, <1>6, Steps DEF Passes

(* Every step keeps true costs true.                                       *)
LEMMA CostStep ==
  ASSUME RunInv, [PortNext]_vars
  PROVE  CostInv'
<1> SUFFICES ASSUME pc' # "start", ~leaked'
             PROVE  \A g \in {best'} \cup Elites' : Belongs(g)
  <2>1. \A g : Belongs(g)' = Belongs(g)
    BY Steps DEF Belongs, Twins, inputs
  <2> QED BY <2>1 DEF CostInv
<1>0. /\ TypeInv /\ CostInv /\ PoolOK(pool) /\ items \in Seq(Entry)
      /\ Len(items) <= EliteSize /\ ~leaked
  BY LeakStep DEF RunInv, TypeInv
<1>1. pc # "start" => \A g \in {best} \cup Elites : Belongs(g)
  BY <1>0 DEF CostInv
<1>2. CASE Starts
  BY <1>2, StartResult
<1>3. CASE (Trims \/ Passes \/ UNCHANGED vars) /\ ~Starts
  <2>1. best' = best /\ Elites' \subseteq Elites
    BY <1>0, <1>3, QuietSteps DEF Quiet, incumbent
  <2>2. pc # "start"
    BY <1>3, Seeding
  <2> QED BY <1>1, <2>1, <2>2
<1>4. CASE Produces
  <2>1. CASE Quiet
    BY <1>1, <1>4, <2>1, ProductionResult DEF Quiet, incumbent
  <2>2. ASSUME NEW e \in Entry, Faces(e), Elites' \subseteq Elites \cup {e}
        PROVE  \A g \in {best'} \cup Elites' : Belongs(g)
    <3>1. Belongs(e) /\ best' \in {best, e}
      BY <2>2 DEF Faces, Challenge, incumbent
    <3> QED BY <1>1, <1>4, <2>2, <3>1, ProductionResult
  <2> QED BY <1>4, <2>1, <2>2, ProductionResult
<1> QED BY <1>2, <1>3, <1>4, Steps

(* Every step keeps the picks excusable.                                   *)
LEMMA PickStep ==
  ASSUME RunInv, [PortNext]_vars
  PROVE  PickWorthy'
<1>0. /\ TypeInv /\ Excused(picked) /\ Excused({})
      /\ price \in Prices /\ config \in Settings
  BY InputFacts DEF RunInv, TypeInv, PickWorthy, Excused
<1>1. Excused(picked') => PickWorthy'
  BY Steps DEF Excused, PickWorthy, inputs
<1>2. CASE RustStart
  <2>1. CASE UNCHANGED picked
    BY <1>0, <1>1, <2>1
  <2>2. ASSUME NEW c \in RustConstructions(<<>>), picked' = c.flaws PROVE PickWorthy'
    <3>1. Handed(c, price, Wide, "blind")
      BY <1>0, RustHandsOver
    <3> QED BY <1>1, <1>2, <2>2, <3>1 DEF Handed, Excused, RustStart
  <2> QED BY <1>2, <2>1, <2>2 DEF RustStart
<1>3. ASSUME NEW c \in RConstructions, picked' = c.flaws, config.port = "r" PROVE PickWorthy'
  <2>1. Handed(c, price, Box, "lone")
    BY <1>0, RHandsOver
  <2> QED BY <1>1, <1>3, <2>1 DEF Handed, Excused
<1>4. CASE RStart \/ RRestart
  <2>1. CASE UNCHANGED picked
    BY <1>0, <1>1, <2>1
  <2> QED BY <1>3, <1>4, <2>1 DEF RStart, RRestart
<1>5. CASE JuliaStart \/ Trims \/ UNCHANGED vars
  BY <1>0, <1>1, <1>5 DEF JuliaStart, Trims, RustMonitor, JuliaMonitor, vars, history
<1>6. CASE Produces /\ ~RRestart
  BY <1>0, <1>1, <1>6 DEF Produces, RustSeed, RustRecord, RustRelink, RustRestart,
     JuliaSeed, JuliaRecord, JuliaRelink, JuliaRestart, RSeed, RRecord, RRelink, history
<1>7. CASE Passes
  <2>1. CASE RustConstruct \/ JuliaConstruct \/ RConstruct
    BY <1>0, <1>1, <2>1, Constructing
  <2>2. CASE RustDescend \/ JuliaDescend \/ RDescend
    BY <1>0, <1>1, <2>2 DEF RustDescend, JuliaDescend, RDescend
  <2>3. CASE RustSearch \/ JuliaSearch \/ RSearch
    BY <1>0, <1>1, <2>3 DEF RustSearch, JuliaSearch, RSearch
  <2>4. CASE UNCHANGED history
    BY <1>0, <1>1, <2>4 DEF history
  <2> QED BY <1>7, <2>1, <2>2, <2>3, <2>4, PassKinds
<1> QED BY <1>2, <1>4, <1>5, <1>6, <1>7, Steps DEF Starts

(* ILS starts from what a descent has found.                               *)
LEMMA IlsStage ==
  ASSUME [PortNext]_vars, pc' = "ils"
  PROVE  \/ RustDescend \/ JuliaDescend \/ RDescend
         \/ UNCHANGED <<pc, cand, found>>
<1>1. CASE Starts
  BY <1>1 DEF Starts, RustStart, JuliaStart, RStart
<1>2. CASE Produces
  BY <1>2 DEF Produces, RustSeed, RustRecord, RustRelink, RustRestart, JuliaSeed,
     JuliaRecord, JuliaRelink, JuliaRestart, RSeed, RRecord, RRelink, RRestart, flow
<1>3. CASE Trims \/ UNCHANGED vars
  BY <1>3 DEF Trims, RustMonitor, JuliaMonitor, vars, flow, history
<1>4. CASE Passes
  <2>1. CASE RustConstruct \/ JuliaConstruct \/ RConstruct \/ RustSearch \/ JuliaSearch \/ RSearch
    BY <2>1 DEF RustConstruct, JuliaConstruct, RConstruct, RustSearch, JuliaSearch, RSearch
  <2>2. CASE pc' \notin Searched
    BY <2>2 DEF Searched
  <2>3. CASE UNCHANGED <<pc, cand, history>>
    BY <2>3 DEF history
  <2> QED BY <1>4, <2>1, <2>2, <2>3, PassKinds
<1> QED BY <1>1, <1>2, <1>3, <1>4, Steps

(* Only ILS gives anything up.                                             *)
LEMMA GivenUpKept ==
  ASSUME Starts \/ Produces \/ Trims \/ UNCHANGED vars
  PROVE  /\ UNCHANGED gaveUp
         /\ pc # "ils" \/ UNCHANGED vars
         /\ Trims => UNCHANGED found /\ pc # "record"
         /\ pc = "record" => UNCHANGED found
<1>1. CASE Starts
  BY <1>1 DEF Starts, RustStart, JuliaStart, RStart, Trims, RustMonitor, JuliaMonitor
<1>2. CASE RustSeed \/ RustRecord \/ RustRelink \/ RustRestart
  BY <1>2 DEF RustSeed, RustRecord, RustRelink, RustRestart, Trims, RustMonitor,
     JuliaMonitor, history
<1>3. CASE JuliaSeed \/ JuliaRecord \/ JuliaRelink \/ JuliaRestart
  BY <1>3 DEF JuliaSeed, JuliaRecord, JuliaRelink, JuliaRestart, Trims, RustMonitor,
     JuliaMonitor, history
<1>4. CASE RSeed \/ RRecord \/ RRelink \/ RRestart
  BY <1>4 DEF RSeed, RRecord, RRelink, RRestart, Trims, RustMonitor, JuliaMonitor, history
<1>5. CASE Trims
  BY <1>5 DEF Trims, RustMonitor, JuliaMonitor, history
<1>6. CASE UNCHANGED vars /\ ~Trims
  BY <1>6 DEF vars, history
<1> QED BY <1>1, <1>2, <1>3, <1>4, <1>5, <1>6 DEF Produces

(* Losses of a run, of the incumbent and of the elites, are numbers.       *)
LEMMA LossTypes ==
  ASSUME TypeInv, PoolOK(pool)
  PROVE  /\ Elites \subseteq Entry
         /\ \A e \in Entry : Loss(e.cost) \in Nat /\ Loss(e.cost) <= Infinity
         /\ pc # "start" => best \in Entry
         /\ found \in Nat /\ gaveUp \in Nat
<1>1. Elites \subseteq Entry
  BY KeptFacts DEF TypeInv, PoolOK, Elites
<1>2. \A e \in Entry : e.cost \in Costs
  BY CostFacts
<1>3. \A v \in Costs : Loss(v) \in Nat /\ Loss(v) <= Infinity
  BY InputFacts, LossFacts DEF Loss
<1> QED BY <1>1, <1>2, <1>3, CostFacts DEF TypeInv

(* What faces the incumbent takes its place or is no better.               *)
LEMMA LossOfFacing ==
  ASSUME RunInv, UNCHANGED inputs, pc \notin {"start", "ils"}, UNCHANGED gaveUp,
         NEW e \in Entry, Faces(e), Elites' \subseteq Elites \cup {e},
         pc = "record" => UNCHANGED found
  PROVE  /\ FoundInv'
         /\ Hopeless' \/ \A g \in Elites' : Loss(best'.cost) <= Loss(g.cost)
<1>0. /\ TypeInv /\ PoolOK(pool) /\ FoundInv
      /\ Hopeless \/ \A g \in Elites : Loss(best.cost) <= Loss(g.cost)
      /\ config' = config
  BY DEF RunInv, LossInv, inputs
<1>1. /\ Hopeless => Hopeless'
      /\ best' \in Entry /\ best \in Entry
      /\ ~Hopeless => /\ Loss(best'.cost) <= Loss(best.cost)
                      /\ Loss(best'.cost) <= Loss(e.cost)
  BY <1>0, ChallengeFacts DEF Faces, TypeInv
<1> SUFFICES ASSUME ~Hopeless, ~Hopeless'
             PROVE  FoundInv' /\ \A g \in Elites' : Loss(best'.cost) <= Loss(g.cost)
  BY <1>1 DEF FoundInv
<1>2. /\ Loss(best'.cost) \in Nat /\ Loss(best.cost) \in Nat /\ Loss(e.cost) \in Nat
      /\ Elites \subseteq Entry /\ found \in Nat
      /\ \A g \in Entry : Loss(g.cost) \in Nat
  BY <1>0, <1>1, LossTypes
<1>3. \A g \in Elites' : Loss(best'.cost) <= Loss(g.cost)
  <2>1. ASSUME NEW g \in Elites PROVE Loss(best'.cost) <= Loss(g.cost)
    <3>1. Loss(best.cost) <= Loss(g.cost) /\ Loss(g.cost) \in Nat
      BY <1>0, <1>2, <2>1
    <3> QED BY <1>1, <1>2, <3>1
  <2> QED BY <1>1, <2>1
<1>4. /\ found' = found \/ (found' = Loss(e.cost) /\ Loss(e.cost) <= found)
      /\ pc = "record" => e = cand
  BY <1>0, <1>2, MetProperties DEF Faces
<1>5. Loss(best.cost)' = Loss(best'.cost)
  BY <1>0 DEF Loss
<1>6. Loss(best'.cost) <= found' \/ (found' = gaveUp' /\ config.port # "r")
  <2>1. CASE found' = Loss(e.cost)
    BY <1>1, <2>1
  <2>2. CASE found' = found
    <3>1. CASE Loss(best.cost) <= found
      BY <1>1, <1>2, <2>2, <3>1
    <3>2. CASE pc = "record" /\ Loss(cand.cost) <= found
      <4>1. Loss(e.cost) <= found
        BY <1>4, <3>2
      <4> QED BY <1>1, <1>2, <2>2, <4>1
    <3> QED BY <1>0, <2>2, <3>1, <3>2 DEF FoundInv
  <2> QED BY <1>4, <2>1, <2>2
<1> QED BY <1>0, <1>3, <1>5, <1>6 DEF FoundInv

(* What a descent finds is its result or no better than what was found;    *)
(* ILS keeps that, or gives it up.                                         *)
LEMMA LossOfPassing ==
  ASSUME RunInv, Passes, UNCHANGED inputs, best' = best, pc # "start"
  PROVE  FoundInv'
<1>0. /\ TypeInv /\ PointInv /\ PoolOK(pool) /\ FoundInv /\ found <= gaveUp
      /\ config' = config /\ Loss(best.cost)' = Loss(best.cost) /\ Hopeless' = Hopeless
      /\ pc = "ils" => found <= Loss(cand.cost)
  BY DEF RunInv, LossInv, inputs, Loss, Hopeless
<1>1. found \in Nat /\ gaveUp \in Nat
  BY <1>0, LossTypes
<1>2. ASSUME pc \notin {"ils", "record"}, UNCHANGED <<found, gaveUp>> PROVE FoundInv'
  BY <1>0, <1>2 DEF FoundInv
<1>3. CASE RustConstruct \/ JuliaConstruct \/ RConstruct
  <2>1. pc = "head"
    BY <1>3 DEF RustConstruct, JuliaConstruct, RConstruct
  <2> QED BY <1>0, <1>2, <1>3, <2>1, Constructing
<1>4. CASE RustDescend \/ JuliaDescend \/ RDescend
  <2>1. PICK s \in Room : cand' = Priced(s) /\ Met(Priced(s))
    BY <1>0, <1>4, Descending
  <2>2. pc = "vnd" /\ pc' = "ils" /\ UNCHANGED gaveUp
    BY <1>0, <1>4, Descending
  <2>3. Priced(s) \in Entry
    BY <1>0, Holdable
  <2>4. found' \in {found, Loss(Priced(s).cost)}
    BY <1>0, <2>1, <2>3, MetProperties
  <2>5. Loss(cand.cost)' = Loss(Priced(s).cost)
    BY <1>0, <2>1 DEF Loss
  <2>6. CASE found' = found
    BY <1>2, <2>2, <2>6
  <2>7. CASE found' = Loss(Priced(s).cost)
    BY <2>2, <2>5, <2>7 DEF FoundInv
  <2> QED BY <2>4, <2>6, <2>7
<1>5. CASE RustSearch \/ JuliaSearch \/ RSearch
  <2>1. PICK s \in Room, t \in Room :
          /\ cand = Priced(s) /\ cand' = Priced(t) /\ GiveUp(Priced(s), Priced(t))
          /\ config.port = "r" => Loss(Priced(t).cost) <= Loss(Priced(s).cost)
    BY <1>0, <1>5, Searching
  <2>2. pc = "ils" /\ pc' = "record" /\ found' = found
    BY <1>0, <1>5, Searching
  <2> DEFINE l == Loss(Priced(s).cost)
             m == Loss(Priced(t).cost)
  <2>3. Priced(s) \in Entry /\ Priced(t) \in Entry
    BY <1>0, Holdable
  <2>4. /\ l \in Nat /\ m \in Nat /\ Loss(cand.cost) = l /\ Loss(cand.cost)' = m
        /\ l < m => gaveUp' = IF gaveUp <= l THEN gaveUp ELSE l
        /\ ~(l < m) => gaveUp' = gaveUp
    <3>1. l \in Nat /\ m \in Nat
      BY <1>0, <2>3, MetProperties
    <3>2. Loss(cand.cost) = l /\ Loss(cand.cost)' = m
      BY <1>0, <2>1 DEF Loss
    <3>3. /\ l < m => gaveUp' = IF gaveUp <= l THEN gaveUp ELSE l
          /\ ~(l < m) => gaveUp' = gaveUp
      BY <1>0, <2>1, <2>3, GiveUpProperties
    <3> QED BY <3>1, <3>2, <3>3
  <2>5. (config.port = "r" => m <= l) /\ found <= l
    BY <1>0, <2>1, <2>2
  <2> HIDE DEF l, m
  <2>6. CASE Hopeless
    BY <1>0, <2>6 DEF FoundInv
  <2>7. CASE Loss(best.cost) <= found
    BY <1>0, <2>2, <2>7 DEF FoundInv
  <2>8. CASE found = gaveUp /\ config.port # "r"
    <3>1. gaveUp' = gaveUp
      BY <1>1, <2>4, <2>5, <2>8
    <3> QED BY <1>0, <2>2, <2>8, <3>1 DEF FoundInv
  <2>9. CASE found = l
    <3>1. CASE l < m
      <4>1. gaveUp' = found
        BY <1>0, <1>1, <2>4, <2>9, <3>1
      <4>2. config.port # "r"
        BY <2>4, <2>5, <3>1
      <4> QED BY <1>0, <2>2, <4>1, <4>2 DEF FoundInv
    <3>2. CASE ~(l < m)
      <4>1. m <= found'
        BY <2>2, <2>4, <2>9, <3>2
      <4> QED BY <2>2, <2>4, <4>1 DEF FoundInv
    <3> QED BY <3>1, <3>2
  <2> QED BY <1>0, <2>2, <2>4, <2>6, <2>7, <2>8, <2>9 DEF FoundInv
<1>6. CASE /\ UNCHANGED <<cand, history>> /\ pc \notin Searched /\ pc' \notin Searched
  BY <1>2, <1>6 DEF history, Searched
<1>7. CASE UNCHANGED <<pc, incumbent, elites, cand, history>>
  <2>1. UNCHANGED <<pc, cand, found, gaveUp>> /\ Loss(cand.cost)' = Loss(cand.cost)
    BY <1>0, <1>7 DEF history, Loss
  <2> QED BY <1>0, <2>1 DEF FoundInv
<1> QED BY <1>3, <1>4, <1>5, <1>6, <1>7, PassKinds

(* Every step keeps what is said of losses.                                *)
LEMMA LossStep ==
  ASSUME RunInv, PortNext
  PROVE  LossInv'
<1>0. /\ TypeInv /\ PointInv /\ LossInv /\ PoolOK(pool) /\ items \in Seq(Entry)
      /\ Len(items) <= EliteSize /\ UNCHANGED inputs /\ config' = config
      /\ objective' = objective /\ guesses' = guesses
  BY Steps DEF RunInv, TypeInv, inputs
<1>1. found' <= gaveUp'
  BY HistoryStep
<1>2. pc' = "start" =>
        pc = "start" /\ found' = Infinity /\ gaveUp' = Infinity /\ pool' = <<>> /\ items' = <<>>
  BY <1>0, StageStep DEF LossInv, elites, Inside, Searched, Recorded
<1>a. pc' = "seed" => price' = price
  BY <1>0, PriceStep
<1>3. pc' = "seed" /\ config.port = "rust" =>
        \A k \in DOMAIN guesses : best'.cost <= price[guesses[k]]
  <2> SUFFICES ASSUME pc' = "seed", config.port = "rust", NEW k \in DOMAIN guesses
               PROVE  best'.cost <= price[guesses[k]]
    OBVIOUS
  <2>1. CASE Starts
    BY <2>1, StartResult
  <2>2. CASE pc = "seed" /\ ~Starts
    <3>1. best.cost <= price[guesses[k]]
      BY <1>0, <2>2 DEF LossInv
    <3>2. best' = best \/ (best' \in Entry /\ Better(best'.cost, best.cost))
      BY <2>2, Gains DEF incumbent
    <3>3. best.cost \in Costs /\ best.cost \in Int /\ price[guesses[k]] \in Int
      <4>1. best \in Entry /\ guesses[k] \in Room
        BY <1>0, <2>2, InputFacts DEF TypeInv
      <4>2. price[guesses[k]] \in Costs
        BY <1>0, <4>1, Holdable
      <4> QED BY <4>1, <4>2, CostFacts
    <3>4. ASSUME best' \in Entry, Better(best'.cost, best.cost)
          PROVE  best'.cost < best.cost /\ best'.cost \in Int
      BY <1>0, <3>3, <3>4, CostFacts, BetterFacts
    <3> QED BY <3>1, <3>2, <3>3, <3>4
  <2> QED BY <2>1, <2>2, Seeding
<1>4. pc' = "ils" => found' <= Loss(cand'.cost)
  <2> SUFFICES ASSUME pc' = "ils" PROVE found' <= Loss(cand'.cost)
    OBVIOUS
  <2>1. CASE RustDescend \/ JuliaDescend \/ RDescend
    <3>1. PICK s \in Room : cand' = Priced(s) /\ Met(Priced(s))
      BY <1>0, <2>1, Descending
    <3> QED BY <1>0, <3>1, MetProperties, Holdable
  <2>2. CASE UNCHANGED <<pc, cand, found>>
    BY <1>0, <2>2 DEF LossInv
  <2> QED BY <2>1, <2>2, IlsStage
<1>5. /\ pc' # "start" => FoundInv'
      /\ Hopeless' \/ \A g \in Elites' : Loss(best'.cost) <= Loss(g.cost)
  <2>1. CASE Starts
    <3>1. PICK e \in Entry : best' = e /\ Met(e) /\ Elites' \subseteq {e} /\ pc = "start"
      BY <2>1, StartResult
    <3>2. /\ Loss(e.cost) \in Nat /\ found = Infinity /\ Loss(e.cost) <= Infinity
          /\ found' \in {found, Loss(e.cost)}
      BY <1>0, <3>1, MetProperties DEF LossInv
    <3>3. Loss(best.cost)' = Loss(e.cost)
      BY <1>0, <3>1 DEF Loss
    <3> QED BY <3>1, <3>2, <3>3 DEF FoundInv
  <2>2. ASSUME Quiet, (pc' = "start") \/ pc # "start"
        PROVE  Hopeless' \/ \A g \in Elites' : Loss(best'.cost) <= Loss(g.cost)
    BY <1>0, <2>2 DEF Quiet, incumbent, Hopeless, LossInv
  <2>3. ASSUME best' = best, UNCHANGED <<found, gaveUp>>, pc \notin {"start", "ils", "record"}
        PROVE  FoundInv'
    BY <1>0, <2>3 DEF FoundInv, LossInv, Hopeless, Loss
  <2>4. CASE UNCHANGED vars
    <3>1. UNCHANGED <<config, pc, best, cand, found, gaveUp, pool, items>>
      BY <2>4 DEF vars, inputs, flow, incumbent, elites, history
    <3>2. FoundInv' = FoundInv /\ Hopeless' = Hopeless /\ Elites' = Elites
      BY <3>1 DEF FoundInv, Hopeless, Elites, Kept, Loss
    <3> QED BY <1>0, <3>1, <3>2 DEF LossInv
  <2>5. CASE Produces
    <3>1. /\ pc # "start" /\ (pc # "ils" \/ UNCHANGED vars)
          /\ UNCHANGED gaveUp /\ (pc = "record" => UNCHANGED found)
      BY <2>5, GivenUpKept, ProductionResult
    <3> SUFFICES ASSUME pc \notin {"start", "ils"}
                 PROVE  /\ FoundInv'
                        /\ Hopeless' \/ \A g \in Elites' : Loss(best'.cost) <= Loss(g.cost)
      BY <2>4, <3>1
    <3>2. CASE Quiet /\ UNCHANGED found /\ pc # "record"
      BY <2>2, <2>3, <3>1, <3>2 DEF Quiet, incumbent
    <3>3. ASSUME NEW e \in Entry, Faces(e), Elites' \subseteq Elites \cup {e}
          PROVE  /\ FoundInv'
                 /\ Hopeless' \/ \A g \in Elites' : Loss(best'.cost) <= Loss(g.cost)
      BY <1>0, <3>1, <3>3, LossOfFacing
    <3> QED BY <2>5, <3>2, <3>3, ProductionResult
  <2>6. CASE Trims
    <3>1. Quiet /\ best' = best /\ pc \notin {"start", "ils", "record"}
      BY <1>0, <2>6, QuietSteps DEF Quiet, incumbent, Trims, RustMonitor, JuliaMonitor
    <3> QED BY <2>2, <2>3, <2>6, <3>1, GivenUpKept
  <2>7. CASE Passes
    <3>1. Quiet /\ best' = best
      BY <1>0, <2>7, QuietSteps DEF Quiet, incumbent
    <3>2. pc' # "start" => pc # "start" \/ Starts
      BY Seeding
    <3> QED BY <1>0, <2>1, <2>2, <2>7, <3>1, <3>2, LossOfPassing
  <2> QED BY <2>1, <2>4, <2>5, <2>6, <2>7, Steps
<1>6. \A v : Loss(v)' = Loss(v)
  BY <1>0 DEF Loss
<1> QED BY <1>0, <1>a, <1>1, <1>2, <1>3, <1>4, <1>5, <1>6 DEF LossInv

-----------------------------------------------------------------------------
(* The invariant of a run holds.                                           *)

(* At the start,                                                           *)
LEMMA InitRunInv ==
  ASSUME PortInit
  PROVE  RunInv
<1>0. /\ config \in Settings /\ objective \in Objectives /\ guesses \in WarmStarts
      /\ config.maximize \in BOOLEAN
      /\ Infinity \in Costs /\ EliteSize \in Nat /\ MaxIterations \in Nat
      /\ <<>> \in Seq(Entry) /\ Len(<<>>) = 0 /\ Infinity \in Nat
  BY PortAssumption, EliteAssumption, EmptySeq DEF PortInit, Costs, Setting
<1>1. TypeInv
  <2>1. pair \in Nat \X Nat /\ 1 <= pair[1] /\ pair[1] < pair[2]
    BY DEF PortInit
  <2>2. /\ pc \in {"start", "seed", "head", "done"} \cup Inside /\ seeded \in Nat
        /\ best = Nothing /\ pc = "start" /\ late = FALSE
    BY DEF PortInit
  <2>3. /\ bestEver \in Costs \cup {-1} /\ (config.port # "r" => bestEver \in Costs)
        /\ found \in Costs /\ gaveUp \in Costs /\ leaked \in BOOLEAN
    BY <1>0 DEF PortInit
  <2>4. items \in Seq(Entry) /\ Len(items) <= EliteSize /\ snapshot \in Seq(Entry)
    BY <1>0 DEF PortInit
  <2>5. /\ config.port # "rust" => guesses \in Seq(Box)
        /\ price \in Readings(objective)
    BY DEF PortInit
  <2> QED BY <1>0, <2>1, <2>2, <2>3, <2>4, <2>5 DEF TypeInv
<1>2. ControlInv
  <2>1. At(Recorded) = 0 /\ At(Watched) = 0 /\ pc \notin Inside
    BY DEF PortInit, At, Inside, Searched, Recorded, Watched
  <2> QED BY <1>0, <2>1 DEF PortInit, ControlInv
<1>3. CountInv
  <2>1. Turns = 0 /\ pc \notin Watched
    BY DEF PortInit, Turns, At, Watched
  <2>2. best.cost = Infinity
    BY DEF PortInit, Nothing
  <2>3. bestEver = -1 \/ ~Better(bestEver, best.cost)
    BY <1>0, <1>1, <2>2, BetterFacts DEF PortInit
  <2>4. config.stopAfter \in Nat \ {0}
    BY <1>1, InputFacts
  <2> QED BY <2>1, <2>3, <2>4 DEF PortInit, CountInv
<1>4. EndInv
  BY DEF PortInit, EndInv
<1>5. Elites = {} /\ Kept(snapshot) = {}
  BY DEF PortInit, PoolInit, Elites, Kept
<1>6. PointInv
  BY <1>5 DEF PortInit, PointInv, Searched
<1>7. CostInv
  BY DEF PortInit, CostInv
<1>8. LossInv
  BY <1>0, <1>5 DEF PortInit, PoolInit, LossInv
<1>9. PickWorthy
  BY DEF PortInit, PickWorthy
<1>10. PoolOK(pool)
  BY InitPoolOK DEF PortInit
<1> QED BY <1>1, <1>2, <1>3, <1>4, <1>6, <1>7, <1>8, <1>9, <1>10 DEF RunInv

(* after every step,                                                       *)
LEMMA StepRunInv ==
  ASSUME RunInv, [PortNext]_vars
  PROVE  RunInv'
<1>1. CASE PortNext
  <2>1. PoolOK(pool')
    BY EntriesStep DEF InOrder
  <2> QED
    BY <1>1, <2>1, TypeStep, StageStep, CountStep, EndStep, PointStep, CostStep,
       LossStep, PickStep DEF RunInv
<1>2. CASE UNCHANGED vars
  <2>1. /\ UNCHANGED <<config, objective, guesses, price, seeded, pc, spent, nit, ended, best>>
        /\ UNCHANGED <<lastGain, stagnation, bestEver, noImprove, late, cand, pool>>
        /\ UNCHANGED <<items, snapshot, pair, found, gaveUp, leaked, picked>>
    BY <1>2 DEF vars, inputs, flow, incumbent, monitor, elites, relink, history
  <2>2. TypeInv' /\ ControlInv'
    BY <2>1 DEF RunInv, TypeInv, Readings, ControlInv, At, Inside, Searched, Recorded, Watched
  <2>3. CountInv' /\ EndInv'
    BY <2>1 DEF RunInv, CountInv, EndInv, Unseen, Turns, At, Watched, Deaf, Better
  <2>4. PointInv'
    BY <2>1 DEF RunInv, PointInv, Searched, Nothing, Priced, MayHold, Room, Feasible, Twins,
       Elites, Kept
  <2>5. CostInv' /\ PickWorthy' /\ PoolOK(pool')
    BY <2>1, CostStep, PickStep DEF RunInv
  <2>6. LossInv'
    BY <2>1 DEF RunInv, LossInv, FoundInv, Hopeless, Loss, Elites, Kept
  <2> QED BY <2>2, <2>3, <2>4, <2>5, <2>6 DEF RunInv
<1> QED BY <1>1, <1>2

(* and so always.                                                          *)
LEMMA RunInvAlways == PortSpec => []RunInv
<1> QED BY InitRunInv, StepRunInv, PTL DEF PortSpec

-----------------------------------------------------------------------------
(* What runs of the ports keep.                                            *)

(* The variables of a run of any port keep their types.                    *)
THEOREM PortTypeCorrect == PortSpec => []PortTypeOK
<1>1. RunInv => PortTypeOK
  <2> SUFFICES ASSUME RunInv PROVE PortTypeOK
    OBVIOUS
  <2>1. /\ TypeInv /\ ControlInv /\ PointInv /\ PoolOK(pool) /\ MaxIterations \in Nat
        /\ config \in Setting /\ Infinity \in Costs /\ Room \subseteq Solutions
    BY InputFacts, CostFacts, PortAssumption DEF RunInv
  <2>2. \A e \in Entry : e \in Points
    BY DEF Entry, Points
  <2>3. Nothing \in Points
    BY <2>1 DEF Nothing, Points
  <2>4. best \in Points
    BY <2>1, <2>2, <2>3 DEF TypeInv
  <2>5. cand \in Points
    BY <2>1, <2>2, <2>3, Holdable DEF PointInv
  <2>6. /\ spent \in 0..MaxIterations /\ nit \in 0..MaxIterations
        /\ stagnation \in 0..MaxIterations /\ noImprove \in 0..MaxIterations
    <3>1. spent \in 0..MaxIterations /\ (pc \in Inside => spent < MaxIterations)
      BY <2>1 DEF ControlInv
    <3>2. /\ nit \in {0, spent, spent + 1}
          /\ nit = spent + 1 => spent < MaxIterations
      BY <2>1, <3>1 DEF ControlInv
    <3>3. /\ stagnation \in Nat /\ stagnation <= spent + At(Recorded)
          /\ noImprove \in Nat /\ noImprove <= spent + At(Watched)
      BY <2>1 DEF ControlInv
    <3>4. /\ At(Recorded) = 0 \/ (At(Recorded) = 1 /\ spent < MaxIterations)
          /\ At(Watched) = 0 \/ (At(Watched) = 1 /\ spent < MaxIterations)
      BY <3>1 DEF At, Recorded, Watched, Inside
    <3> QED BY <2>1, <3>1, <3>2, <3>3, <3>4
  <2> QED BY <2>1, <2>4, <2>5, <2>6 DEF PortTypeOK, TypeInv, PoolTypeOK, PoolOK
<1> QED BY <1>1, RunInvAlways, PTL

(* The pool of Rust, C++ and Julia is sorted and diverse whatever the      *)
(* stages do with it: offer, keep the best two, restart.                   *)
THEOREM PortPoolInvariant == PortSpec => []PoolInv
<1>1. RunInv => PoolInv
  BY DEF RunInv, PoolOK, PoolInv
<1> QED BY <1>1, RunInvAlways, PTL

(* A run that may stop early and can is never further from its last        *)
(* improvement than the threshold between two iterations, and stops early  *)
(* for no other reason; it reports the iterations it completed.            *)
THEOREM RunsStopWhenStagnant == PortSpec => []StopsWhenStagnant
<1>1. RunInv => StopsWhenStagnant
  <2> SUFFICES ASSUME RunInv PROVE StopsWhenStagnant
    OBVIOUS
  <2>1. /\ ControlInv /\ CountInv /\ EndInv /\ TypeInv
        /\ config.stopAfter \in Nat /\ MaxIterations \in Nat
    BY InputFacts, PortAssumption DEF RunInv
  <2>2. spent \in Nat /\ lastGain \in Nat /\ noImprove \in Nat
    BY <2>1 DEF ControlInv
  <2>3. ASSUME pc = "head", config.monitor, ~Deaf
        PROVE  spent - lastGain <= config.stopAfter
    <3>1. pc \notin Watched /\ Turns = spent
      BY <2>2, <2>3 DEF Watched, Turns, At
    <3>2. noImprove < config.stopAfter /\ spent <= lastGain + noImprove + 1
      BY <2>1, <2>3, <3>1 DEF CountInv
    <3> QED BY <2>1, <2>2, <3>2
  <2>4. pc = "done" =>
          nit = spent + IF config.port = "r" /\ ended = "time_limit" THEN 1 ELSE 0
    BY <2>1, <2>2 DEF ControlInv, Inside, Searched, Recorded
  <2> QED BY <2>1, <2>3, <2>4 DEF StopsWhenStagnant, EndInv
<1> QED BY <1>1, RunInvAlways, PTL

(* Nothing a descent found is lost but for what ILS exchanges in Rust, C++ *)
(* and Julia, and no elite is better than the incumbent.                   *)
THEOREM RunsLoseNothing == PortSpec => []NothingLost
<1>1. RunInv => NothingLost
  BY DEF RunInv, LossInv, FoundInv, NothingLost, Elites
<1> QED BY <1>1, RunInvAlways, PTL

(* The incumbent and the elites are kept with their own costs or with one  *)
(* read for the same key, unless a restart of Julia let a pair of ILS in   *)
(* of which neither is true.                                               *)
THEOREM RunsKeepBelongingCosts == PortSpec => []CostsBelong
<1>1. RunInv => CostsBelong
  BY DEF RunInv, TypeInv, CostInv, CostsBelong, Elites
<1> QED BY <1>1, RunInvAlways, PTL

(* Whatever is searched, walked and projected, the runs of Julia and R     *)
(* stay within the bounds; those of Rust and C++ leave them by a rounded   *)
(* bound, and the incumbent by a zero if an infinite cost can be read.     *)
THEOREM RunsStayInBox == PortSpec => []StaysInBox
<1>1. RunInv => StaysInBox
  <2> SUFFICES ASSUME RunInv, NEW e \in {best} \cup Elites, NEW i \in Coords,
                      e # Nothing, e.sol[i] \notin Bounds[i]
               PROVE  /\ config.port = "rust"
                      /\ \/ i > Split /\ e.sol[i] \in Ends[i]
                         \/ e = best /\ e.sol[i] = 0 /\ ~Feasible
    BY DEF StaysInBox, Elites, Feasible
  <2>1. pc # "start" \/ e \in Elites
    BY DEF RunInv, TypeInv
  <2>2. e.sol \in Room \/ (e = best /\ config.port = "rust" /\ ~Feasible /\ e.sol \in Holed)
    BY <2>1 DEF RunInv, PointInv, MayHold
  <2>3. e.sol \notin Box
    BY DEF Box, Within
  <2>4. config.port = "rust" /\ (e.sol \in Wide \/ (e = best /\ ~Feasible /\ e.sol \in Holed))
    BY <2>2, <2>3 DEF Room
  <2>5. Reach[i] = Bounds[i] \cup Ends[i]
    BY DEF Reach
  <2>6. e.sol[i] \in Ends[i] => i > Split
    BY PortAssumption, LevelFacts
  <2>7. e.sol \in Wide => e.sol[i] \in Ends[i]
    BY <2>5 DEF Wide, Within
  <2>8. e.sol \in Holed => e.sol[i] \in Ends[i] \/ e.sol[i] = 0
    BY <2>5 DEF Holed, Within
  <2> QED BY <2>4, <2>6, <2>7, <2>8
<1> QED BY <1>1, RunInvAlways, PTL

(* A construction that has a finite candidate picks one within alpha of    *)
(* the best, but for an infeasible one that blinds Rust and C++, and for a *)
(* list of one that R samples from.                                        *)
THEOREM RunsPickWorthily == PortSpec => []PickWorthy
<1>1. RunInv => PickWorthy
  BY DEF RunInv
<1> QED BY <1>1, RunInvAlways, PTL

(* No stage of any port makes a rank of the pool worse.                    *)
THEOREM PortRanksOnlyImprove == PortSpec => RanksNeverWorsen
<1>1. RunInv /\ [PortNext]_vars =>
        [\A k \in 1..Len(pool) : k <= Len(pool') => pool'[k].cost <= pool[k].cost]_pool
  BY EntriesStep DEF InOrder, NoWorse
<1> QED BY <1>1, RunInvAlways, PTL DEF PortSpec, RanksNeverWorsen

(* The pool of a port shrinks to its best two or not at all.               *)
THEOREM PortShrinksToBestTwo == PortSpec => ShrinksToBestTwo
<1>1. RunInv /\ [PortNext]_vars =>
        [Len(pool') < Len(pool) => pool' = SubSeq(pool, 1, 2)]_pool
  BY EntriesStep DEF InOrder
<1> QED BY <1>1, RunInvAlways, PTL DEF PortSpec, ShrinksToBestTwo

\* An iteration is completed, in which the run may stop early.
Advances ==
  /\ ended = "running" /\ spent < MaxIterations /\ spent' = spent + 1
  /\ UNCHANGED ended \/ (config.monitor /\ ended' = "early_stop")

\* The run ends between two iterations.
Concludes ==
  /\ ended = "running" /\ UNCHANGED spent
  /\ \/ spent = MaxIterations /\ ended' = "max_iterations"
     \/ config.limited /\ spent < MaxIterations /\ ended' = "time_limit"

(* A step that has to do with the incumbent neither completes an iteration *)
(* nor ends the run; the others do one of these, or none.                  *)
LEMMA Progress ==
  ASSUME RunInv, [PortNext]_vars
  PROVE  /\ Starts \/ Produces => ended = "running" /\ UNCHANGED <<spent, ended>>
         /\ UNCHANGED <<spent, ended>> \/ Advances \/ Concludes
<1>0. /\ pc = "done" <=> ended # "running"
      /\ pc \in Inside => spent < MaxIterations
      /\ spent \in Nat /\ MaxIterations \in Nat /\ spent <= MaxIterations
      /\ late => config.limited
  BY PortAssumption DEF RunInv, ControlInv, TypeInv
<1>1. CASE Starts
  BY <1>0, <1>1 DEF Starts, RustStart, JuliaStart, RStart
<1>2. CASE RustSeed \/ RustRecord \/ RustRelink \/ RustRestart
  BY <1>0, <1>2 DEF RustSeed, RustRecord, RustRelink, RustRestart, flow
<1>3. CASE JuliaSeed \/ JuliaRecord \/ JuliaRelink \/ JuliaRestart
  BY <1>0, <1>3 DEF JuliaSeed, JuliaRecord, JuliaRelink, JuliaRestart, flow
<1>4. CASE RSeed \/ RRecord \/ RRelink \/ RRestart
  BY <1>0, <1>4 DEF RSeed, RRecord, RRelink, RRestart, flow
<1> SUFFICES ASSUME Trims \/ Passes \/ UNCHANGED vars, ~Starts, ~Produces
             PROVE  UNCHANGED <<spent, ended>> \/ Advances \/ Concludes
  BY <1>1, <1>2, <1>3, <1>4, Steps DEF Produces
<1>5. CASE Trims \/ UNCHANGED vars
  BY <1>5 DEF Trims, RustMonitor, JuliaMonitor, vars, flow
<1>6. CASE RustCompletes \/ JuliaCompletes \/ RCompletes
  BY <1>0, <1>6 DEF RustCompletes, JuliaCompletes, RCompletes, RustEarlyStop,
     JuliaEarlyStop, Advances, Inside, Recorded
<1>7. CASE RMonitor
  BY <1>0, <1>7 DEF RMonitor, Advances, Inside, Recorded
<1>8. CASE RustExpired \/ RustExhausted
  BY <1>0, <1>8 DEF RustExpired, RustExhausted, Concludes
<1>9. CASE JuliaEnds
  BY <1>0, <1>9 DEF JuliaEnds, Concludes
<1>10. CASE RExpired \/ RExhausted
  BY <1>0, <1>10 DEF RExpired, RExhausted, Concludes
<1>11. CASE RustPasses /\ ~RustCompletes /\ ~RustExpired /\ ~RustExhausted
  BY <1>11 DEF RustPasses, RustConstruct, RustDescend, RustSearch, RustRelinkEnds,
     RustClock, flow
<1>12. CASE JuliaPasses /\ ~JuliaCompletes /\ ~JuliaEnds
  BY <1>12 DEF JuliaPasses, JuliaConstruct, JuliaDescend, JuliaSearch, JuliaStartRelink,
     JuliaRelinkEnds, JuliaClock, flow
<1>13. CASE RPasses /\ ~RCompletes /\ ~RMonitor /\ ~RExpired /\ ~RExhausted
  BY <1>13 DEF RPasses, RConstruct, RDescend, RSearch, RClock, flow
<1> QED
  BY <1>5, <1>6, <1>7, <1>8, <1>9, <1>10, <1>11, <1>12, <1>13
     DEF Passes, RustPasses, JuliaPasses, RPasses

\* The incumbent as the abstract optimizer sees it.
Seen == IF best.cost = Infinity THEN NoSolution ELSE best.sol

(* A step leaves the incumbent as it is seen, or improves upon it.         *)
LEMMA Improvement ==
  ASSUME RunInv, [PortNext]_vars
  PROVE  \/ Seen' = Seen /\ Loss(best.cost)' = Loss(best.cost)
         \/ /\ Starts \/ Produces
            /\ Seen' \in Solutions
            /\ Loss(best.cost)' \in 0..Infinity
            /\ Loss(best.cost)' < Loss(best.cost)
<1>0. /\ TypeInv /\ UNCHANGED inputs /\ config.maximize \in BOOLEAN
      /\ \A v : Loss(v)' = Loss(v)
      /\ Infinity \in Nat /\ Infinity \in Costs /\ PoolOK(pool)
      /\ items \in Seq(Entry) /\ Len(items) <= EliteSize
  BY Steps, InputFacts, CostFacts DEF RunInv, TypeInv, Loss, inputs
<1>1. ASSUME UNCHANGED best PROVE Seen' = Seen /\ Loss(best.cost)' = Loss(best.cost)
  BY <1>0, <1>1 DEF Seen, Loss, inputs
<1>2. \A e \in Entry :
        /\ e.sol \in Solutions /\ Loss(e.cost) \in Nat /\ Loss(e.cost) <= Infinity
        /\ e.cost = Infinity <=> Loss(e.cost) = Infinity
  <2>1. ASSUME NEW v \in Costs
        PROVE  /\ Loss(v) \in Nat /\ Loss(v) <= Infinity
               /\ v = Infinity <=> Loss(v) = Infinity
    <3>1. /\ Loss(v) \in Nat /\ Loss(v) <= Infinity
          /\ ~Finite(v) => Loss(v) = Infinity
          /\ Finite(v) => Loss(v) < Infinity
      BY <1>0, LossFacts DEF Loss
    <3> QED BY <1>0, <3>1 DEF Finite
  <2> QED BY <2>1, CostFacts
<1>3. CASE Starts
  <2>1. PICK e \in Entry : best' = e /\ pc = "start"
    BY <1>3, StartResult
  <2>2. best.cost = Infinity /\ Loss(Infinity) = Infinity
    BY <1>0, <2>1, LossFacts DEF TypeInv, Nothing, Loss, Finite
  <2>3. Loss(best.cost)' = Loss(e.cost)
    BY <1>0, <2>1 DEF Loss, inputs
  <2>4. CASE e.cost = Infinity
    BY <1>2, <2>1, <2>2, <2>3, <2>4 DEF Seen
  <2>5. CASE e.cost # Infinity
    BY <1>0, <1>2, <1>3, <2>1, <2>2, <2>3, <2>5 DEF Seen
  <2> QED BY <2>4, <2>5
<1>4. CASE Produces
  <2>1. CASE Quiet
    BY <1>1, <2>1 DEF Quiet, incumbent
  <2>2. ASSUME NEW e \in Entry, Faces(e), best' # best
        PROVE  /\ Seen' \in Solutions
               /\ Loss(best.cost)' \in 0..Infinity
               /\ Loss(best.cost)' < Loss(best.cost)
    <3>1. best' = e /\ Loss(e.cost) < Loss(best.cost) /\ best \in Entry
      BY <1>0, <1>4, <2>2, ChallengeFacts, ProductionResult DEF Faces, TypeInv
    <3>2. Loss(best.cost)' = Loss(e.cost)
      BY <1>0, <3>1 DEF Loss, inputs
    <3>3. Loss(e.cost) # Infinity
      BY <1>0, <1>2, <3>1
    <3>4. Seen' = e.sol
      BY <1>2, <3>1, <3>3 DEF Seen
    <3> QED BY <1>0, <1>2, <3>1, <3>2, <3>4
  <2> QED BY <1>1, <1>4, <2>1, <2>2, ProductionResult
<1>5. CASE Trims \/ Passes \/ UNCHANGED vars
  BY <1>0, <1>1, <1>5, QuietSteps DEF Quiet, incumbent
<1> QED BY <1>3, <1>4, <1>5, Steps

(* A run of any port is a run of the abstract optimizer: its incumbent     *)
(* only improves, its iterations are counted one by one, and it ends for   *)
(* the reason it gives.                                                    *)
THEOREM RunsImplementIncumbent == PortSpec => PortsImplementIncumbent
<1>1. PortInit => Promise!Init
  <2> SUFFICES ASSUME PortInit PROVE Promise!Init
    OBVIOUS
  <2>1. RunInv
    BY InitRunInv
  <2>2. /\ config \in Setting /\ config.maximize \in BOOLEAN
        /\ best.cost = Infinity /\ Infinity \in Costs
    BY <2>1, InputFacts, CostFacts DEF PortInit, Nothing, RunInv
  <2>3. Loss(best.cost) = Infinity
    BY <2>2, LossFacts DEF Loss, Finite
  <2>4. config.monitor \in BOOLEAN /\ config.limited \in BOOLEAN
    BY <2>2 DEF Setting
  <2> QED BY <2>2, <2>3, <2>4 DEF Promise!Init, PortInit
<1>2. RunInv /\ [PortNext]_vars => [Promise!Next]_Promise!promise
  <2> SUFFICES ASSUME RunInv, [PortNext]_vars
               PROVE  [Promise!Next]_Promise!promise
    OBVIOUS
  <2>0. config' = config
    BY Steps DEF inputs
  <2>1. CASE /\ Starts \/ Produces
             /\ Seen' \in Solutions
             /\ Loss(best.cost)' \in 0..Infinity
             /\ Loss(best.cost)' < Loss(best.cost)
    BY <2>0, <2>1, Progress DEF Seen, Promise!Next, Promise!Improve
  <2>2. CASE Seen' = Seen /\ Loss(best.cost)' = Loss(best.cost)
    <3>1. CASE UNCHANGED <<spent, ended>>
      BY <2>0, <2>2, <3>1 DEF Seen, Promise!promise
    <3>2. CASE Advances
      BY <2>0, <2>2, <3>2 DEF Seen, Advances, Promise!Next, Promise!Spend
    <3>3. CASE Concludes
      BY <2>0, <2>2, <3>3 DEF Seen, Concludes, Promise!Next, Promise!Conclude
    <3> QED BY <3>1, <3>2, <3>3, Progress
  <2> QED BY <2>1, <2>2, Improvement
<1> QED
  BY <1>1, <1>2, RunInvAlways, PTL
     DEF PortSpec, PortsImplementIncumbent, Promise!IncumbentSpec

=============================================================================
