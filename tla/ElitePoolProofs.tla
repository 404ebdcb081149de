--------------------------- MODULE ElitePoolProofs ---------------------------
(***************************************************************************)
(* Proofs about the elite pool: what one call of add does to any sorted,   *)
(* diverse pool, and what follows for every sequence of calls.             *)
(***************************************************************************)
EXTENDS ElitePool, SequenceTheorems, TLAPS

(* What every pool satisfies between two operations.                       *)
PoolOK(p) ==
  /\ p \in Seq(Entry)
  /\ Len(p) <= EliteSize
  /\ Sorted(p)
  /\ Diverse(p)

(* q is at least as good as p, rank by rank.                               *)
NoWorse(q, p) == \A i \in 1..Len(p) : i <= Len(q) => q[i].cost <= p[i].cost

(* The cost of an entry is an integer, as the arithmetic below needs.      *)
LEMMA EntryProperties ==
  /\ Infinity \in Nat
  /\ \A x \in Entry : x.sol \in Solutions /\ x.cost \in Costs /\ x.cost \in Int
BY EliteAssumption DEF Entry, Costs

(* Dropping the last entry of a full pool leaves its other entries.        *)
LEMMA MakeRoomProperties ==
  ASSUME NEW p, PoolOK(p)
  PROVE  /\ MakeRoom(p) \in Seq(Entry)
         /\ Len(MakeRoom(p)) < EliteSize
         /\ Len(MakeRoom(p)) = IF Len(p) < EliteSize THEN Len(p) ELSE Len(p) - 1
         /\ \A i \in 1..Len(MakeRoom(p)) : MakeRoom(p)[i] = p[i]
<1>1. Len(p) \in Nat /\ EliteSize \in Nat \ {0}
  BY EliteAssumption, LenProperties DEF PoolOK
<1>2. CASE Len(p) < EliteSize
  BY <1>1, <1>2 DEF MakeRoom, PoolOK
<1>3. CASE Len(p) >= EliteSize
  <2>1. \A i \in 1..Len(p) - 1 : p[i] \in Entry
    BY <1>1, ElementOfSeq DEF PoolOK
  <2>2. /\ SubSeq(p, 1, Len(p) - 1) \in Seq(Entry)
        /\ Len(SubSeq(p, 1, Len(p) - 1))
             = IF 1 <= Len(p) - 1 THEN (Len(p) - 1) - 1 + 1 ELSE 0
        /\ \A i \in 1..(Len(p) - 1) - 1 + 1 :
             SubSeq(p, 1, Len(p) - 1)[i] = p[1 + i - 1]
    BY <1>1, <2>1, SubSeqProperties
  <2>3. MakeRoom(p) = SubSeq(p, 1, Len(p) - 1) /\ Len(p) = EliteSize
    BY <1>1, <1>3 DEF MakeRoom, PoolOK
  <2> QED
    BY <1>1, <2>2, <2>3
<1> QED
  BY <1>1, <1>2, <1>3

(* The elements of a pool with one entry inserted.                         *)
LEMMA InsertElements ==
  ASSUME NEW p \in Seq(Entry), NEW e \in Entry, NEW k \in 0..Len(p)
  PROVE  /\ InsertAfter(p, k, e) \in Seq(Entry)
         /\ Len(InsertAfter(p, k, e)) = Len(p) + 1
         /\ \A i \in 1..Len(p) + 1 :
              InsertAfter(p, k, e)[i] =
                IF i <= k THEN p[i] ELSE IF i = k + 1 THEN e ELSE p[i - 1]
<1>1. Len(p) \in Nat /\ \A i \in 1..Len(p) : p[i] \in Entry
  BY LenProperties, ElementOfSeq
<1>2. \A i \in 1..Len(p) + 1 :
        (IF i <= k THEN p[i] ELSE IF i = k + 1 THEN e ELSE p[i - 1]) \in Entry
  BY <1>1
<1> QED
  BY <1>1, <1>2 DEF InsertAfter

(* Inserting an entry where the order wants it keeps the order.            *)
LEMMA InsertSorted ==
  ASSUME NEW p \in Seq(Entry), Sorted(p), NEW e \in Entry, NEW k \in 0..Len(p),
         \A i \in 1..k : p[i].cost <= e.cost,
         \A i \in k+1..Len(p) : e.cost < p[i].cost
  PROVE  Sorted(InsertAfter(p, k, e))
<1> DEFINE n == Len(p)
           q == InsertAfter(p, k, e)
<1>1. /\ n \in Nat
      /\ \A i \in 1..n : p[i].cost \in Int
      /\ e.cost \in Int
  BY EntryProperties, LenProperties, ElementOfSeq
<1>2. /\ Len(q) = n + 1
      /\ \A i \in 1..n + 1 :
           q[i] = IF i <= k THEN p[i] ELSE IF i = k + 1 THEN e ELSE p[i - 1]
  BY InsertElements
<1>3. \A i, j \in 1..n : i < j => p[i].cost <= p[j].cost
  BY DEF Sorted
<1>4. /\ k \in 0..n
      /\ \A i \in 1..k : p[i].cost <= e.cost
      /\ \A i \in k+1..n : e.cost < p[i].cost
  OBVIOUS
<1> HIDE DEF n, q
<1>5. ASSUME NEW i \in 1..n + 1, NEW j \in 1..n + 1, i < j
      PROVE  q[i].cost <= q[j].cost
  <2>1. CASE j <= k
    BY <1>1, <1>2, <1>3, <1>4, <1>5, <2>1
  <2>2. CASE j = k + 1
    BY <1>1, <1>2, <1>4, <1>5, <2>2
  <2>3. CASE j > k + 1
    <3>1. j - 1 \in k+1..n /\ q[j] = p[j - 1]
      BY <1>1, <1>2, <1>4, <2>3
    <3>2. CASE i <= k
      <4>1. i \in 1..k /\ i \in 1..n /\ j - 1 \in 1..n /\ q[i] = p[i]
        BY <1>1, <1>2, <1>4, <3>1, <3>2
      <4>2. p[i].cost <= e.cost /\ e.cost < p[j - 1].cost
        BY <1>4, <3>1, <4>1
      <4>3. p[i].cost \in Int /\ e.cost \in Int /\ p[j - 1].cost \in Int
        BY <1>1, <4>1
      <4> QED
        BY <3>1, <4>1, <4>2, <4>3
    <3>3. CASE i = k + 1
      <4>1. j - 1 \in 1..n /\ q[i] = e
        BY <1>1, <1>2, <1>4, <3>1, <3>3
      <4>2. e.cost < p[j - 1].cost /\ e.cost \in Int /\ p[j - 1].cost \in Int
        BY <1>1, <1>4, <3>1, <4>1
      <4> QED
        BY <3>1, <4>1, <4>2
    <3>4. CASE i > k + 1
      <4>1. i - 1 \in 1..n /\ j - 1 \in 1..n /\ i - 1 < j - 1 /\ q[i] = p[i - 1]
        BY <1>1, <1>2, <1>4, <1>5, <3>1, <3>4
      <4> QED
        BY <1>3, <3>1, <4>1
    <3> QED
      BY <1>1, <1>4, <3>2, <3>3, <3>4
  <2> QED
    BY <1>1, <1>4, <2>1, <2>2, <2>3
<1> QED
  BY <1>2, <1>5 DEF Sorted, q

(* Inserting an entry that is close to no member keeps the diversity.      *)
LEMMA InsertDiverse ==
  ASSUME NEW p \in Seq(Entry), Diverse(p), NEW e \in Entry, NEW k \in 0..Len(p),
         \A i \in 1..Len(p) : <<e.sol, p[i].sol>> \notin Near
  PROVE  Diverse(InsertAfter(p, k, e))
<1> DEFINE n == Len(p)
           q == InsertAfter(p, k, e)
<1>1. n \in Nat /\ k \in 0..n /\ \A i \in 1..n : p[i] \in Entry
  BY LenProperties, ElementOfSeq
<1>2. /\ Len(q) = n + 1
      /\ \A i \in 1..n + 1 :
           q[i] = IF i <= k THEN p[i] ELSE IF i = k + 1 THEN e ELSE p[i - 1]
  BY InsertElements
<1>3. \A i \in 1..n : /\ <<e.sol, p[i].sol>> \notin Near
                      /\ <<p[i].sol, e.sol>> \notin Near
  BY <1>1, EliteAssumption DEF Entry
<1>4. \A i, j \in 1..n : i # j => <<p[i].sol, p[j].sol>> \notin Near
  BY DEF Diverse
<1> HIDE DEF n, q
<1> DEFINE before(x) == IF x <= k THEN x ELSE x - 1
<1>5. ASSUME NEW i \in 1..n + 1, i # k + 1
      PROVE  before(i) \in 1..n /\ q[i] = p[before(i)]
  BY <1>1, <1>2, <1>5
<1>6. q[k + 1] = e
  BY <1>1, <1>2
<1>7. ASSUME NEW i \in 1..n + 1, NEW j \in 1..n + 1, i # j
      PROVE  <<q[i].sol, q[j].sol>> \notin Near
  <2>1. CASE i = k + 1
    BY <1>3, <1>5, <1>6, <1>7, <2>1
  <2>2. CASE j = k + 1
    BY <1>3, <1>5, <1>6, <1>7, <2>2
  <2>3. CASE i # k + 1 /\ j # k + 1
    <3>1. before(i) # before(j)
      BY <1>1, <1>7, <2>3
    <3> HIDE DEF before
    <3> QED
      BY <1>4, <1>5, <2>3, <3>1
  <2> QED
    BY <2>1, <2>2, <2>3
<1> QED
  BY <1>2, <1>7 DEF Diverse, q

(* One call of add keeps the pool sorted, diverse and within its size, and *)
(* makes no rank worse: the newcomer is inserted into the pool without its *)
(* last entry only if it is cheaper than that entry.                       *)
LEMMA AddKeepsPoolOK ==
  ASSUME NEW p, PoolOK(p), NEW e \in Entry, NEW q \in AddOutcomes(p, e)
  PROVE  /\ PoolOK(q)
         /\ NoWorse(q, p)
         /\ Len(q) >= Len(p)
<1> DEFINE m == MakeRoom(p)
<1>1. /\ Len(p) \in Nat /\ EliteSize \in Nat \ {0}
      /\ \A i \in 1..Len(p) : p[i] \in Entry
  BY EliteAssumption, LenProperties, ElementOfSeq DEF PoolOK
<1>2. CASE Rejects(p, e)
  BY <1>1, <1>2, EntryProperties DEF AddOutcomes, NoWorse
<1>3. CASE ~Rejects(p, e)
  <2>1. PICK k \in 0..Len(m) :
          /\ q = InsertAfter(m, k, e)
          /\ \A i \in 1..k : m[i].cost <= e.cost
          /\ \A i \in k+1..Len(m) : e.cost < m[i].cost
    BY <1>3 DEF AddOutcomes, SortedInserts
  <2>2. /\ m \in Seq(Entry)
        /\ Len(m) \in Nat
        /\ Len(m) < EliteSize
        /\ Len(m) = IF Len(p) < EliteSize THEN Len(p) ELSE Len(p) - 1
        /\ \A i \in 1..Len(m) : m[i] = p[i]
    BY MakeRoomProperties, LenProperties
  <2> HIDE DEF m
  <2>3. /\ InsertAfter(m, k, e) \in Seq(Entry)
        /\ Len(InsertAfter(m, k, e)) = Len(m) + 1
        /\ \A i \in 1..Len(m) + 1 :
             InsertAfter(m, k, e)[i] =
               IF i <= k THEN m[i] ELSE IF i = k + 1 THEN e ELSE m[i - 1]
    BY <2>2, InsertElements
  <2>4. \A i \in 1..Len(m) : i \in 1..Len(p) /\ m[i] = p[i]
    BY <1>1, <2>2
  <2>5. Sorted(m) /\ Diverse(m)
    BY <2>4 DEF PoolOK, Sorted, Diverse
  <2>6. Sorted(q)
    BY <2>1, <2>2, <2>5, InsertSorted
  <2>7. \A i \in 1..Len(m) : <<e.sol, m[i].sol>> \notin Near
    BY <1>3, <2>4 DEF Rejects
  <2>8. Diverse(q)
    BY <2>1, <2>2, <2>5, <2>7, InsertDiverse
  <2>9. NoWorse(q, p)
    <3> SUFFICES ASSUME NEW i \in 1..Len(p), i <= Len(m) + 1
                 PROVE  q[i].cost <= p[i].cost
      BY <2>1, <2>3 DEF NoWorse
    <3>1. /\ i \in 1..Len(m) + 1
          /\ q[i] = IF i <= k THEN m[i] ELSE IF i = k + 1 THEN e ELSE m[i - 1]
          /\ p[i].cost \in Int /\ e.cost \in Int
      BY <1>1, <2>1, <2>2, <2>3, EntryProperties
    <3>2. CASE i <= k
      <4>1. i \in 1..Len(m)
        BY <2>1, <2>2, <3>2
      <4> QED
        BY <2>4, <3>1, <3>2, <4>1
    <3>3. CASE i = k + 1 /\ i <= Len(m)
      <4>1. i \in k+1..Len(m) /\ i \in 1..Len(m)
        BY <2>1, <2>2, <3>3
      <4>2. e.cost < m[i].cost /\ m[i] = p[i] /\ q[i] = e
        BY <2>1, <2>4, <3>1, <3>3, <4>1
      <4> QED
        BY <3>1, <4>2
    <3>4. CASE i = k + 1 /\ i > Len(m)
      \* The evicted rank: the pool was full, and e beats its last entry.
      <4>1. Len(p) >= EliteSize /\ i = Len(p) /\ q[i] = e
        BY <1>1, <2>1, <2>2, <3>1, <3>4
      <4>2. ~(e.cost >= p[Len(p)].cost)
        BY <1>3, <4>1 DEF Rejects
      <4> QED
        BY <3>1, <4>1, <4>2
    <3>5. CASE i > k + 1
      <4>1. i - 1 \in 1..Len(m) /\ q[i] = m[i - 1]
        BY <2>1, <2>2, <3>1, <3>5
      <4>2. i - 1 \in 1..Len(p) /\ i - 1 < i /\ m[i - 1] = p[i - 1]
        BY <1>1, <2>4, <4>1
      <4>3. p[i - 1].cost <= p[i].cost
        BY <4>2 DEF PoolOK, Sorted
      <4> QED
        BY <4>1, <4>2, <4>3
    <3> QED
      BY <2>1, <2>2, <3>1, <3>2, <3>3, <3>4, <3>5
  <2> QED
    BY <1>1, <2>1, <2>2, <2>3, <2>6, <2>8, <2>9 DEF PoolOK
<1> QED
  BY <1>2, <1>3

(* A partial restart of a pool of more than two entries leaves exactly its *)
(* two best: the first goes into the empty pool, and the second, which is  *)
(* far from it and no better, is put after it.                             *)
LEMMA RestartKeepsBestTwo ==
  ASSUME NEW p, PoolOK(p), Len(p) > 2, NEW q \in RestartOutcomes(p)
  PROVE  /\ q = SubSeq(p, 1, 2)
         /\ Len(q) = 2
         /\ q[1] = p[1] /\ q[2] = p[2]
         /\ PoolOK(q)
         /\ NoWorse(q, p)
<1>1. /\ Len(p) \in Nat /\ EliteSize \in Nat /\ EliteSize > 2
      /\ p[1] \in Entry /\ p[2] \in Entry
      /\ p[1].cost \in Int /\ p[2].cost \in Int
      /\ p[1].cost <= p[2].cost
      /\ <<p[2].sol, p[1].sol>> \notin Near
  <2>1. Len(p) \in Nat /\ EliteSize \in Nat /\ Len(p) <= EliteSize
    BY EliteAssumption, LenProperties DEF PoolOK
  <2>2. 1 \in 1..Len(p) /\ 2 \in 1..Len(p)
    BY <2>1
  <2>3. p[1] \in Entry /\ p[2] \in Entry
    BY <2>2, ElementOfSeq DEF PoolOK
  <2>4. p[1].cost <= p[2].cost /\ <<p[2].sol, p[1].sol>> \notin Near
    BY <2>2 DEF PoolOK, Sorted, Diverse
  <2> QED
    BY <2>1, <2>3, <2>4, EntryProperties
<1>2. PICK r \in AddOutcomes(<<>>, p[1]) : q \in AddOutcomes(r, p[2])
  BY DEF RestartOutcomes
<1>3. r \in Seq(Entry) /\ Len(r) = 1 /\ r[1] = p[1]
  <2>1. <<>> \in Seq(Entry) /\ Len(<<>>) = 0 /\ MakeRoom(<<>>) = <<>>
    BY <1>1, EmptySeq DEF MakeRoom
  <2>2. ~Rejects(<<>>, p[1])
    BY <1>1, <2>1 DEF Rejects
  <2>3. PICK k \in 0..Len(<<>>) : r = InsertAfter(<<>>, k, p[1])
    BY <1>2, <2>1, <2>2 DEF AddOutcomes, SortedInserts
  <2>4. k = 0
    BY <2>1, <2>3
  <2>5. 0 \in 0..Len(<<>>) /\ r = InsertAfter(<<>>, 0, p[1])
    BY <2>1, <2>3, <2>4
  <2>6. <<>> \in Seq(Entry) /\ p[1] \in Entry /\ 0 \in 0..Len(<<>>)
    BY <1>1, <2>1, <2>5
  <2>7. /\ InsertAfter(<<>>, 0, p[1]) \in Seq(Entry)
        /\ Len(InsertAfter(<<>>, 0, p[1])) = Len(<<>>) + 1
        /\ \A i \in 1..Len(<<>>) + 1 :
             InsertAfter(<<>>, 0, p[1])[i] =
               IF i <= 0 THEN <<>>[i] ELSE IF i = 0 + 1 THEN p[1] ELSE <<>>[i - 1]
    BY ONLY <2>6, InsertElements
  <2>8. 1 \in 1..Len(<<>>) + 1 /\ ~(1 <= 0) /\ 1 = 0 + 1
    BY <2>1
  <2>9. r[1] = p[1]
    BY <2>5, <2>7, <2>8
  <2> QED
    BY <2>1, <2>5, <2>7, <2>9
<1>4. q = InsertAfter(r, 1, p[2])
  <2>1. MakeRoom(r) = r
    BY <1>1, <1>3 DEF MakeRoom
  <2>2. ~Rejects(r, p[2])
    BY <1>1, <1>3 DEF Rejects
  <2>3. PICK k \in 0..1 : /\ q = InsertAfter(r, k, p[2])
                          /\ \A i \in k+1..1 : p[2].cost < r[i].cost
    BY <1>2, <1>3, <2>1, <2>2 DEF AddOutcomes, SortedInserts
  <2>4. k # 0
    <3> SUFFICES ASSUME k = 0 PROVE FALSE
      OBVIOUS
    <3>1. 1 \in k+1..1
      OBVIOUS
    <3>2. p[2].cost < p[1].cost
      BY <1>3, <2>3, <3>1
    <3> QED
      BY <1>1, <3>2
  <2> QED
    BY <2>3, <2>4
<1>5. q \in Seq(Entry) /\ Len(q) = 2 /\ q[1] = p[1] /\ q[2] = p[2]
  <2>1. r \in Seq(Entry) /\ p[2] \in Entry /\ 1 \in 0..Len(r)
    BY <1>1, <1>3
  <2>2. /\ InsertAfter(r, 1, p[2]) \in Seq(Entry)
        /\ Len(InsertAfter(r, 1, p[2])) = Len(r) + 1
        /\ \A i \in 1..Len(r) + 1 :
             InsertAfter(r, 1, p[2])[i] =
               IF i <= 1 THEN r[i] ELSE IF i = 1 + 1 THEN p[2] ELSE r[i - 1]
    BY ONLY <2>1, InsertElements
  <2>3. 1 \in 1..Len(r) + 1 /\ 2 \in 1..Len(r) + 1
    BY <1>3
  <2>4. q[1] = r[1] /\ q[2] = p[2]
    BY <1>4, <2>2, <2>3
  <2> QED
    BY <1>3, <1>4, <2>2, <2>4
<1>6. q = SubSeq(p, 1, 2)
  <2>1. /\ SubSeq(p, 1, 2) \in Seq(Entry)
        /\ Len(SubSeq(p, 1, 2)) = 2
        /\ SubSeq(p, 1, 2)[1] = p[1] /\ SubSeq(p, 1, 2)[2] = p[2]
    <3>1. \A i \in 1..2 : p[i] \in Entry
      BY <1>1
    <3> QED
      BY <1>1, <3>1, SubSeqProperties DEF PoolOK
  <2>2. \A i \in 1..Len(q) : q[i] = SubSeq(p, 1, 2)[i]
    BY <1>5, <2>1
  <2> QED
    BY <1>5, <2>1, <2>2, SeqEqual
<1>7. PoolOK(q)
  <2>1. Sorted(q)
    BY <1>1, <1>5 DEF Sorted
  <2>2. Diverse(q)
    BY <1>1, <1>5, EliteAssumption DEF Diverse, Entry
  <2> QED
    BY <1>1, <1>5, <2>1, <2>2 DEF PoolOK
<1>8. NoWorse(q, p)
  <2> SUFFICES ASSUME NEW i \in 1..Len(p), i <= Len(q)
               PROVE  q[i].cost <= p[i].cost
    BY DEF NoWorse
  <2>1. i = 1 \/ i = 2
    BY <1>1, <1>5
  <2> QED
    BY <1>1, <1>5, <2>1
<1> QED
  BY <1>5, <1>6, <1>7, <1>8

(* What a call of add leaves in the pool was there before or is new.       *)
LEMMA AddElements ==
  ASSUME NEW p, PoolOK(p), NEW e \in Entry, NEW q \in AddOutcomes(p, e),
         NEW i \in 1..Len(q)
  PROVE  q[i] = e \/ \E j \in 1..Len(p) : q[i] = p[j]
<1> DEFINE m == MakeRoom(p)
<1>1. CASE Rejects(p, e)
  BY <1>1 DEF AddOutcomes
<1>2. CASE ~Rejects(p, e)
  <2>1. PICK k \in 0..Len(m) : q = InsertAfter(m, k, e)
    BY <1>2 DEF AddOutcomes, SortedInserts
  <2>2. /\ m \in Seq(Entry) /\ Len(m) \in Nat /\ Len(p) \in Nat
        /\ Len(m) <= Len(p)
        /\ \A j \in 1..Len(m) : m[j] = p[j]
    BY MakeRoomProperties, LenProperties DEF PoolOK
  <2> HIDE DEF m
  <2>3. /\ Len(q) = Len(m) + 1
        /\ \A j \in 1..Len(m) + 1 :
             q[j] = IF j <= k THEN m[j] ELSE IF j = k + 1 THEN e ELSE m[j - 1]
    BY <2>1, <2>2, InsertElements
  <2>4. CASE i <= k
    BY <2>2, <2>3, <2>4
  <2>5. CASE i = k + 1
    BY <2>2, <2>3, <2>5
  <2>6. CASE i > k + 1
    <3>1. i - 1 \in 1..Len(m) /\ q[i] = m[i - 1] /\ i - 1 \in 1..Len(p)
      BY <2>2, <2>3, <2>6
    <3> QED
      BY <2>2, <3>1
  <2> QED
    BY <2>4, <2>5, <2>6
<1> QED
  BY <1>1, <1>2

-----------------------------------------------------------------------------

(* Every step from a pool in order leads to one, with no rank made worse   *)
(* and, if the pool shrinks, its two best entries left.                    *)
LEMMA StepKeepsPoolOK ==
  ASSUME PoolOK(pool), [PoolNext]_pool
  PROVE  /\ PoolOK(pool')
         /\ NoWorse(pool', pool)
         /\ Len(pool') < Len(pool) => pool' = SubSeq(pool, 1, 2)
<1>1. /\ Len(pool) \in Nat
      /\ \A i \in 1..Len(pool) : pool[i].cost \in Int
  BY EntryProperties, LenProperties, ElementOfSeq DEF PoolOK
<1>2. ASSUME NEW e \in Entry, Offer(e)
      PROVE  /\ PoolOK(pool') /\ NoWorse(pool', pool)
             /\ Len(pool') \in Nat /\ Len(pool') >= Len(pool)
  <2>1. pool' \in AddOutcomes(pool, e)
    BY <1>2 DEF Offer
  <2>2. PoolOK(pool') /\ NoWorse(pool', pool) /\ Len(pool') >= Len(pool)
    BY <2>1, AddKeepsPoolOK
  <2> QED
    BY <2>2, LenProperties DEF PoolOK
<1>3. CASE PartialRestart
  <2>1. pool' \in RestartOutcomes(pool) /\ Len(pool) > 2
    BY <1>3 DEF PartialRestart
  <2> QED
    BY <2>1, RestartKeepsBestTwo
<1>4. CASE UNCHANGED pool
  BY <1>1, <1>4 DEF NoWorse
<1> QED
  BY <1>1, <1>2, <1>3, <1>4 DEF PoolNext

(* The empty pool is in order.                                             *)
LEMMA InitPoolOK == PoolInit => PoolOK(pool)
BY EliteAssumption, EmptySeq DEF PoolInit, PoolOK, Sorted, Diverse

(* The pool is always in order: the inductive invariant.                   *)
LEMMA PoolAlwaysOK == PoolSpec => []PoolOK(pool)
<1>1. PoolInit => PoolOK(pool)
  BY InitPoolOK
<1>2. PoolOK(pool) /\ [PoolNext]_pool => PoolOK(pool)'
  <2> SUFFICES ASSUME PoolOK(pool), [PoolNext]_pool PROVE PoolOK(pool)'
    OBVIOUS
  <2>1. PoolOK(pool')
    BY StepKeepsPoolOK
  <2> QED
    BY <2>1 DEF PoolOK, Sorted, Diverse
<1> QED
  BY <1>1, <1>2, PTL DEF PoolSpec

(* The pool of ElitePool never holds anything but (solution, cost) pairs,  *)
(* and never more than max_size of them.                                   *)
THEOREM PoolTypeCorrect == PoolSpec => []PoolTypeOK
<1>1. PoolOK(pool) => PoolTypeOK
  BY DEF PoolOK, PoolTypeOK
<1> QED
  BY <1>1, PoolAlwaysOK, PTL

(* Between any two calls of ElitePool the pool is sorted by cost and no    *)
(* two members are within min_distance of each other, for every pool size  *)
(* and every (reflexive, symmetric, not necessarily transitive) distance.  *)
THEOREM PoolInvariant == PoolSpec => []PoolInv
<1>1. PoolOK(pool) => PoolInv
  BY DEF PoolOK, PoolInv
<1> QED
  BY <1>1, PoolAlwaysOK, PTL

(* No call of add and no partial restart makes the k-th best member worse, *)
(* for any rank k that remains.                                            *)
THEOREM RanksOnlyImprove == PoolSpec => RanksNeverWorsen
<1>1. PoolOK(pool) /\ [PoolNext]_pool =>
        [\A k \in 1..Len(pool) : k <= Len(pool') =>
           pool'[k].cost <= pool[k].cost]_pool
  BY StepKeepsPoolOK DEF NoWorse
<1> QED
  BY <1>1, PoolAlwaysOK, PTL DEF PoolSpec, RanksNeverWorsen

(* Whenever the pool gets smaller, the two best entries are what is left.  *)
THEOREM RestartLeavesBestTwo == PoolSpec => ShrinksToBestTwo
<1>1. PoolOK(pool) /\ [PoolNext]_pool =>
        [Len(pool') < Len(pool) => pool' = SubSeq(pool, 1, 2)]_pool
  BY StepKeepsPoolOK
<1> QED
  BY <1>1, PoolAlwaysOK, PTL DEF PoolSpec, ShrinksToBestTwo

=============================================================================
