---------------------------- MODULE CacheProofs ----------------------------
(***************************************************************************)
(* Proofs about the evaluation cache: what the operations on an ordered    *)
(* dictionary return, entry by entry; that the cache of one caller is an   *)
(* LRU cache, for every set of keys and costs and every maxsize; and what  *)
(* the missing lock can and cannot do to the cache that worker threads     *)
(* share, for any number of threads, any batch and any size.               *)
(***************************************************************************)
EXTENDS EvaluationCache, SharedCache, SequenceTheorems, FiniteSetTheorems, TLAPS

-----------------------------------------------------------------------------
(* The ordered dictionary.                                                 *)

(* What every OrderedDict is: entries of a type, one for a key.            *)
DictOf(K, C) ==
  { d \in Seq([key : K, cost : C]) :
      \A i, j \in 1..Len(d) : i # j => d[i].key # d[j].key }

(* A function on an initial segment is a sequence of that length.          *)
LEMMA FunctionIsSeq ==
  ASSUME NEW S, NEW n \in Nat, NEW f \in [1..n -> S]
  PROVE  f \in Seq(S) /\ Len(f) = n
<1>1. f \in Seq(S)
  BY SeqDef
<1>2. Len(f) \in Nat /\ DOMAIN f = 1..Len(f) /\ DOMAIN f = 1..n
  BY <1>1, LenProperties
<1>3. Len(f) \in 1..n \/ Len(f) = 0
  BY <1>2
<1>4. n \in 1..Len(f) \/ n = 0
  BY <1>2
<1> QED
  BY <1>1, <1>2, <1>3, <1>4

(* Where the entry of a key is, and what it is.                            *)
LEMMA PlaceProperties ==
  ASSUME NEW K, NEW C, NEW d \in DictOf(K, C), NEW p \in 1..Len(d)
  PROVE  /\ Place(d, d[p].key) = p
         /\ EntryOf(d, d[p].key) = d[p]
         /\ Present(d, d[p].key)
         /\ d[p].key \in K /\ d[p].cost \in C
<1>1. Place(d, d[p].key) = p
  BY DEF Place, DictOf
<1>2. d[p] \in [key : K, cost : C]
  BY ElementOfSeq DEF DictOf
<1> QED
  BY <1>1, <1>2 DEF EntryOf, Present

(* move_to_end permutes the entries: those behind the key's move up.       *)
LEMMA MoveToEndProperties ==
  ASSUME NEW K, NEW C, NEW d \in DictOf(K, C), NEW p \in 1..Len(d)
  PROVE  LET e == MoveToEnd(d, d[p].key)
         IN  /\ e \in DictOf(K, C)
             /\ Len(e) = Len(d)
             /\ \A i \in 1..Len(d) : e[i] = IF i < p THEN d[i]
                                           ELSE IF i < Len(d) THEN d[i + 1] ELSE d[p]
<1> DEFINE n == Len(d)
           e == MoveToEnd(d, d[p].key)
<1>1. /\ n \in Nat /\ p \in 1..n
      /\ \A i \in 1..n : d[i] \in [key : K, cost : C]
      /\ \A i, j \in 1..n : i # j => d[i].key # d[j].key
  BY LenProperties, ElementOfSeq DEF DictOf
<1>2. e = [i \in 1..n |-> IF i < p THEN d[i] ELSE IF i < n THEN d[i + 1] ELSE d[p]]
  BY PlaceProperties DEF MoveToEnd
<1> HIDE DEF n, e
<1>3. \A i \in 1..n : e[i] \in [key : K, cost : C]
  BY <1>1, <1>2
<1>4. e \in Seq([key : K, cost : C]) /\ Len(e) = n
  <2>1. e \in [1..n -> [key : K, cost : C]]
    BY <1>2, <1>3
  <2> QED
    BY <1>1, <2>1, FunctionIsSeq
<1>5. \A i, j \in 1..n : i < j => e[i].key # e[j].key
  BY <1>1, <1>2
<1>6. \A i, j \in 1..n : i # j => e[i].key # e[j].key
  BY <1>1, <1>5
<1> QED
  BY <1>2, <1>4, <1>6 DEF DictOf, n, e

(* Assigning to a key that is present changes its cost and nothing else.   *)
LEMMA AssignOldProperties ==
  ASSUME NEW K, NEW C, NEW d \in DictOf(K, C), NEW p \in 1..Len(d), NEW c \in C
  PROVE  LET e == Assign(d, d[p].key, c)
         IN  /\ e \in DictOf(K, C)
             /\ Len(e) = Len(d)
             /\ \A i \in 1..Len(d) : /\ e[i].key = d[i].key
                                    /\ e[i].cost = IF i = p THEN c ELSE d[i].cost
<1> DEFINE n == Len(d)
           e == Assign(d, d[p].key, c)
<1>1. /\ n \in Nat
      /\ \A i \in 1..n : d[i] \in [key : K, cost : C]
      /\ \A i, j \in 1..n : i # j => d[i].key # d[j].key
  BY LenProperties, ElementOfSeq DEF DictOf
<1>2. e = [i \in 1..n |-> IF d[i].key = d[p].key THEN [d[i] EXCEPT !.cost = c] ELSE d[i]]
  BY PlaceProperties DEF Assign
<1> HIDE DEF n, e
<1>3. p \in 1..n
  BY DEF n
<1>4. \A i \in 1..n : /\ e[i] \in [key : K, cost : C]
                      /\ e[i].key = d[i].key
                      /\ e[i].cost = IF i = p THEN c ELSE d[i].cost
  BY <1>1, <1>2, <1>3
<1>5. e \in Seq([key : K, cost : C]) /\ Len(e) = n
  <2>1. e \in [1..n -> [key : K, cost : C]]
    BY <1>2, <1>4
  <2> QED
    BY <1>1, <2>1, FunctionIsSeq
<1> QED
  BY <1>1, <1>4, <1>5 DEF DictOf, n, e

(* Assigning to a new key appends its entry.                               *)
LEMMA AssignNewProperties ==
  ASSUME NEW K, NEW C, NEW d \in DictOf(K, C), NEW k \in K, NEW c \in C,
         ~Present(d, k)
  PROVE  LET e == Assign(d, k, c)
         IN  /\ e \in DictOf(K, C)
             /\ Len(e) = Len(d) + 1
             /\ \A i \in 1..Len(d) : e[i] = d[i]
             /\ e[Len(d) + 1] = [key |-> k, cost |-> c]
<1> DEFINE n == Len(d)
           e == Assign(d, k, c)
<1>1. e = Append(d, [key |-> k, cost |-> c])
  BY DEF Assign
<1>2. d \in Seq([key : K, cost : C]) /\ [key |-> k, cost |-> c] \in [key : K, cost : C]
  BY DEF DictOf
<1>3. /\ e \in Seq([key : K, cost : C]) /\ Len(e) = n + 1 /\ n \in Nat
      /\ \A i \in 1..n : e[i] = d[i]
      /\ e[n + 1] = [key |-> k, cost |-> c]
  BY <1>1, <1>2, AppendProperties, LenProperties
<1>4. \A i \in 1..n : d[i].key # k
  BY DEF Present
<1>5. \A i, j \in 1..n : i # j => d[i].key # d[j].key
  BY DEF DictOf
<1> HIDE DEF n, e
<1>6. \A i, j \in 1..n + 1 : i # j => e[i].key # e[j].key
  BY <1>3, <1>4, <1>5
<1> QED
  BY <1>3, <1>6 DEF DictOf, n, e

(* popitem(last=False) drops the first entry.                              *)
LEMMA PopOldestProperties ==
  ASSUME NEW K, NEW C, NEW d \in DictOf(K, C), d # <<>>
  PROVE  /\ PopOldest(d) \in DictOf(K, C)
         /\ Len(d) \in Nat \ {0}
         /\ Len(PopOldest(d)) = Len(d) - 1
         /\ \A i \in 1..Len(d) - 1 : PopOldest(d)[i] = d[i + 1]
<1>1. d \in Seq([key : K, cost : C])
  BY DEF DictOf
<1>2. /\ Tail(d) \in Seq([key : K, cost : C]) /\ Len(d) \in Nat \ {0}
      /\ Len(Tail(d)) = Len(d) - 1
      /\ \A i \in 1..Len(Tail(d)) : Tail(d)[i] = d[i + 1]
  BY <1>1, HeadTailProperties, LenProperties, EmptySeq
<1>3. \A i, j \in 1..Len(d) : i # j => d[i].key # d[j].key
  BY DEF DictOf
<1>4. ASSUME NEW i \in 1..Len(Tail(d)), NEW j \in 1..Len(Tail(d)), i # j
      PROVE  Tail(d)[i].key # Tail(d)[j].key
  <2>1. /\ i + 1 \in 1..Len(d) /\ j + 1 \in 1..Len(d) /\ i + 1 # j + 1
        /\ Tail(d)[i] = d[i + 1] /\ Tail(d)[j] = d[j + 1]
    BY <1>2, <1>4
  <2> QED
    BY <1>3, <2>1
<1> QED
  BY <1>2, <1>4 DEF DictOf, PopOldest

-----------------------------------------------------------------------------
(* The cache of one caller.                                                *)

(* The history names each key once, and knows what was put for each.       *)
RecencyInv ==
  /\ \A i, j \in 1..Len(recency) : i # j => recency[i] # recency[j]
  /\ \A i \in 1..Len(recency) : recency[i] \in DOMAIN written

CacheInv == HoldsMostRecent /\ RecencyInv

(* The cache is a dictionary in the sense of DictOf.                       *)
LEMMA CacheIsDict ==
  CacheTypeOK <=>
    /\ cache \in DictOf(Keys, CacheCosts) /\ Len(cache) <= MaxSize
    /\ hits \in Nat /\ misses \in Nat /\ hits + misses <= MaxLookups
    /\ recency \in Seq(Keys)
    /\ DOMAIN written \subseteq Keys
BY DEF CacheTypeOK, DictOf, CacheEntry

(* A use of a key that the history does not name appends it.               *)
LEMMA FirstUse ==
  ASSUME NEW k \in Keys, recency \in Seq(Keys), RecencyInv, Use(k),
         \A i \in 1..Len(recency) : recency[i] # k
  PROVE  /\ recency' \in Seq(Keys)
         /\ Len(recency') = Len(recency) + 1
         /\ \A i \in 1..Len(recency) : recency'[i] = recency[i]
         /\ recency'[Len(recency) + 1] = k
         /\ \A i, j \in 1..Len(recency') : i # j => recency'[i] # recency'[j]
<1>1. recency' = Append(recency, k) /\ Len(recency) \in Nat
  BY LenProperties DEF Use
<1>2. /\ recency' \in Seq(Keys)
      /\ Len(recency') = Len(recency) + 1
      /\ \A i \in 1..Len(recency) : recency'[i] = recency[i]
      /\ recency'[Len(recency) + 1] = k
  BY <1>1, AppendProperties
<1> QED
  BY <1>1, <1>2 DEF RecencyInv

(* A use of a key that it names moves the key to the end.                  *)
LEMMA AnotherUse ==
  ASSUME NEW p \in 1..Len(recency), recency \in Seq(Keys), RecencyInv,
         Use(recency[p])
  PROVE  /\ recency' \in Seq(Keys)
         /\ Len(recency') = Len(recency)
         /\ \A i \in 1..Len(recency) :
              recency'[i] = IF i < p THEN recency[i]
                            ELSE IF i < Len(recency) THEN recency[i + 1]
                            ELSE recency[p]
         /\ \A i, j \in 1..Len(recency') : i # j => recency'[i] # recency'[j]
<1> DEFINE n == Len(recency)
<1>1. /\ n \in Nat /\ p \in 1..n
      /\ \A i \in 1..n : recency[i] \in Keys
      /\ \A i, j \in 1..n : i # j => recency[i] # recency[j]
  BY LenProperties, ElementOfSeq DEF RecencyInv
<1>2. recency' = [i \in 1..n |-> IF i < p THEN recency[i]
                                 ELSE IF i < n THEN recency[i + 1] ELSE recency[p]]
  BY <1>1 DEF Use
<1> HIDE DEF n
<1>3. \A i \in 1..n : recency'[i] \in Keys
  BY <1>1, <1>2
<1>4. recency' \in Seq(Keys) /\ Len(recency') = n
  <2>1. recency' \in [1..n -> Keys]
    BY <1>2, <1>3
  <2> QED
    BY <1>1, <2>1, FunctionIsSeq
<1>5. \A i, j \in 1..n : i < j => recency'[i] # recency'[j]
  BY <1>1, <1>2
<1>6. \A i, j \in 1..n : i # j => recency'[i] # recency'[j]
  BY <1>1, <1>5
<1> QED
  BY <1>2, <1>4, <1>6 DEF n

-----------------------------------------------------------------------------

(* The empty cache satisfies the invariant.                               *)
LEMMA CacheInvInit == CacheInit => CacheInv
<1> SUFFICES ASSUME CacheInit PROVE CacheInv
  OBVIOUS
<1>1. cache = <<>> /\ recency = <<>> /\ written = [k \in {} |-> 0] /\ hits = 0 /\ misses = 0
  BY DEF CacheInit
<1>2. cache \in Seq(CacheEntry) /\ recency \in Seq(Keys) /\ Len(cache) = 0 /\ Len(recency) = 0
  BY <1>1, EmptySeq
<1>3. CacheTypeOK
  BY <1>1, <1>2, CacheAssumption DEF CacheTypeOK
<1> QED
  BY <1>1, <1>2, <1>3, CacheAssumption DEF CacheInv, HoldsMostRecent, RecencyInv

(* What the invariant says, for the steps below: a cached key stands in the *)
(* history at the same distance from the end, and a key of the history that *)
(* is not cached lies before them all.                                     *)
LEMMA CacheInvFacts ==
  ASSUME CacheInv
  PROVE  /\ Len(cache) \in Nat /\ Len(recency) \in Nat /\ Len(recency) - Len(cache) \in Nat
         /\ MaxSize \in Nat \ {0}
         /\ cache \in DictOf(Keys, CacheCosts) /\ recency \in Seq(Keys)
         /\ \/ Len(cache) = Len(recency) /\ Len(recency) < MaxSize
            \/ Len(cache) = MaxSize
         /\ \A i \in 1..Len(cache) :
              /\ cache[i].key = recency[Len(recency) - Len(cache) + i]
              /\ Len(recency) - Len(cache) + i \in 1..Len(recency)
              /\ cache[i].key \in DOMAIN written
              /\ cache[i].cost = written[cache[i].key]
         /\ \A k \in Keys : ~Present(cache, k) =>
              \A i \in 1..Len(recency) : recency[i] = k => i <= Len(recency) - Len(cache)
<1> DEFINE n == Len(cache)
           m == Len(recency)
<1>1. cache \in DictOf(Keys, CacheCosts) /\ recency \in Seq(Keys) /\ n <= MaxSize
  BY CacheIsDict DEF CacheInv, HoldsMostRecent
<1>2. n \in Nat /\ m \in Nat
  BY <1>1, LenProperties DEF DictOf
<1>3. /\ n = IF m < MaxSize THEN m ELSE MaxSize
      /\ \A i \in 1..n : /\ cache[i].key = recency[m - n + i]
                        /\ cache[i].key \in DOMAIN written
                        /\ cache[i].cost = written[cache[i].key]
  BY DEF CacheInv, HoldsMostRecent
<1>4. MaxSize \in Nat \ {0}
  BY CacheAssumption
<1>5. ASSUME NEW k \in Keys, ~Present(cache, k), NEW i \in 1..m, recency[i] = k
      PROVE  i <= m - n
  <2>1. \A j \in 1..n : cache[j].key # k
    BY <1>5 DEF Present
  <2>2. ASSUME i > m - n PROVE FALSE
    <3>1. i - (m - n) \in 1..n /\ m - n + (i - (m - n)) = i
      BY <1>2, <1>5, <2>2
    <3>2. cache[i - (m - n)].key = k
      BY <1>3, <1>5, <3>1
    <3> QED
      BY <2>1, <3>1, <3>2
  <2> QED
    BY <1>2, <1>5, <2>2
<1> HIDE DEF n, m
<1>6. m - n \in Nat /\ ((n = m /\ m < MaxSize) \/ n = MaxSize)
  BY <1>2, <1>3, <1>4
<1>7. \A i \in 1..n : m - n + i \in 1..m
  BY <1>2, <1>6
<1> QED
  BY <1>1, <1>2, <1>3, <1>4, <1>5, <1>6, <1>7 DEF n, m

(* Refreshing an entry: cache and history move the same key to the end.    *)
LEMMA Refreshed ==
  ASSUME CacheInv, NEW p \in 1..Len(cache), Use(cache[p].key)
  PROVE  LET e == MoveToEnd(cache, cache[p].key)
             n == Len(cache)
         IN  /\ e \in DictOf(Keys, CacheCosts) /\ Len(e) = n
             /\ recency' \in Seq(Keys) /\ Len(recency') = Len(recency)
             /\ \A i, j \in 1..Len(recency') : i # j => recency'[i] # recency'[j]
             /\ \A i \in 1..Len(recency') : \E j \in 1..Len(recency) :
                  recency'[i] = recency[j]
             /\ \A i \in 1..n : /\ e[i].key = recency'[Len(recency') - n + i]
                               /\ e[i].key \in DOMAIN written
                               /\ e[i].cost = written[e[i].key]
             /\ e[n].key = cache[p].key
<1> DEFINE e == MoveToEnd(cache, cache[p].key)
           n == Len(cache)
           m == Len(recency)
           q == m - n + p
<1>1. /\ n \in Nat /\ m \in Nat /\ m - n \in Nat /\ p \in 1..n
      /\ cache \in DictOf(Keys, CacheCosts) /\ recency \in Seq(Keys)
      /\ q \in 1..m /\ cache[p].key = recency[q]
      /\ \A i \in 1..n : /\ cache[i].key = recency[m - n + i]
                        /\ cache[i].key \in DOMAIN written
                        /\ cache[i].cost = written[cache[i].key]
  BY CacheInvFacts
<1>2. /\ e \in DictOf(Keys, CacheCosts) /\ Len(e) = n
      /\ \A i \in 1..n : e[i] = IF i < p THEN cache[i]
                                ELSE IF i < n THEN cache[i + 1] ELSE cache[p]
  BY <1>1, MoveToEndProperties
<1>3. /\ recency' \in Seq(Keys) /\ Len(recency') = m
      /\ \A i \in 1..m : recency'[i] = IF i < q THEN recency[i]
                                       ELSE IF i < m THEN recency[i + 1] ELSE recency[q]
      /\ \A i, j \in 1..Len(recency') : i # j => recency'[i] # recency'[j]
  BY <1>1, AnotherUse DEF CacheInv
<1> HIDE DEF e, n, m
<1>4. ASSUME NEW i \in 1..m PROVE \E j \in 1..m : recency'[i] = recency[j]
  <2>0. m \in Nat /\ q \in 1..m
    BY <1>1
  <2>1. CASE i < q
    BY <1>3, <2>1
  <2>2. CASE i >= q /\ i < m
    <3>1. i + 1 \in 1..m /\ ~(i < q)
      BY <2>0, <2>2
    <3>2. recency'[i] = recency[i + 1]
      BY <1>3, <2>2, <3>1
    <3> QED
      BY <3>1, <3>2
  <2>3. CASE i >= q /\ i >= m
    <3>1. ~(i < q) /\ ~(i < m)
      BY <2>0, <2>3
    <3> QED
      BY <1>3, <2>0, <3>1
  <2> QED
    BY <1>1, <2>1, <2>2, <2>3
<1>5. ASSUME NEW i \in 1..n
      PROVE  /\ e[i].key = recency'[m - n + i]
             /\ e[i].key \in DOMAIN written
             /\ e[i].cost = written[e[i].key]
  <2>0. \A j \in 1..n : /\ cache[j].key = recency[m - n + j]
                        /\ cache[j].key \in DOMAIN written
                        /\ cache[j].cost = written[cache[j].key]
    BY <1>1
  <2>1. CASE i < p
    <3>1. m - n + i \in 1..m /\ m - n + i < q
      BY <1>1, <2>1
    <3>2. recency'[m - n + i] = recency[m - n + i]
      BY <1>3, <3>1
    <3>3. e[i] = cache[i]
      BY <1>2, <2>1
    <3> QED
      BY <2>0, <3>2, <3>3
  <2>2. CASE i >= p /\ i < n
    <3>1. m - n + i \in 1..m /\ ~(m - n + i < q) /\ m - n + i < m /\ i + 1 \in 1..n
          /\ (m - n + i) + 1 = m - n + (i + 1)
      BY <1>1, <2>2
    <3>2. recency'[m - n + i] = recency[(m - n + i) + 1]
      BY <1>3, <3>1
    <3>3. e[i] = cache[i + 1]
      BY <1>2, <2>2
    <3> QED
      BY <2>0, <3>1, <3>2, <3>3
  <2>3. CASE i = n
    <3>1. m - n + i = m /\ m \in 1..m /\ ~(m < q) /\ ~(m < m)
          /\ n \in 1..n /\ ~(n < p) /\ ~(n < n)
      <4>1. n \in Nat /\ m \in Nat /\ p \in 1..n /\ q \in 1..m
        BY <1>1
      <4> QED
        BY <2>3, <4>1
    <3>2. recency'[m] = recency[q]
      BY <1>3, <3>1
    <3>3. e[n] = cache[p]
      BY <1>2, <3>1
    <3>4. p \in 1..n /\ cache[p].key = recency[q]
      BY <1>1
    <3> QED
      BY <2>0, <2>3, <3>1, <3>2, <3>3, <3>4
  <2> QED
    BY <1>1, <2>1, <2>2, <2>3
<1>6. e[n].key = cache[p].key
  <2>1. n \in Nat /\ p \in 1..n
    BY <1>1
  <2>2. n \in 1..n /\ ~(n < p) /\ ~(n < n)
    BY <2>1
  <2> QED
    BY <1>2, <2>2
<1>7. /\ e \in DictOf(Keys, CacheCosts) /\ Len(e) = n
      /\ recency' \in Seq(Keys) /\ Len(recency') = m
  BY <1>2, <1>3
<1>8. \A i \in 1..Len(recency') : \E j \in 1..m : recency'[i] = recency[j]
  BY <1>4, <1>7
<1>9. \A i \in 1..n : /\ e[i].key = recency'[Len(recency') - n + i]
                      /\ e[i].key \in DOMAIN written
                      /\ e[i].cost = written[e[i].key]
  BY <1>5, <1>7
<1>10. \A i, j \in 1..Len(recency') : i # j => recency'[i] # recency'[j]
  BY <1>3
<1> QED
  BY <1>6, <1>7, <1>8, <1>9, <1>10 DEF e, n, m

-----------------------------------------------------------------------------

(* A hit refreshes the entry and keeps the invariant.                     *)
LEMMA GetHitKeeps ==
  ASSUME CacheInv, NEW k \in Keys, GetHit(k)
  PROVE  CacheInv'
<1>1. PICK p \in 1..Len(cache) : cache[p].key = k
  BY DEF GetHit, Present
<1>2. /\ Use(cache[p].key) /\ cache' = MoveToEnd(cache, cache[p].key)
      /\ written' = written /\ hits' = hits + 1 /\ misses' = misses
      /\ hits + misses < MaxLookups
  BY <1>1 DEF GetHit
<1>3. CacheTypeOK
  BY DEF CacheInv, HoldsMostRecent
<1>4. /\ cache' \in DictOf(Keys, CacheCosts) /\ Len(cache') = Len(cache)
      /\ recency' \in Seq(Keys) /\ Len(recency') = Len(recency)
      /\ \A i, j \in 1..Len(recency') : i # j => recency'[i] # recency'[j]
      /\ \A i \in 1..Len(recency') : \E j \in 1..Len(recency) :
           recency'[i] = recency[j]
      /\ \A i \in 1..Len(cache) :
           /\ cache'[i].key = recency'[Len(recency') - Len(cache) + i]
           /\ cache'[i].key \in DOMAIN written
           /\ cache'[i].cost = written[cache'[i].key]
  BY <1>2, Refreshed
<1>5. CacheTypeOK'
  <2>1. /\ cache' \in Seq(CacheEntry) /\ Len(cache') <= MaxSize
        /\ \A i, j \in 1..Len(cache') : i # j => cache'[i].key # cache'[j].key
    BY <1>3, <1>4 DEF CacheTypeOK, DictOf, CacheEntry
  <2>2. hits' \in Nat /\ misses' \in Nat /\ hits' + misses' <= MaxLookups
    BY <1>2, <1>3, CacheAssumption DEF CacheTypeOK
  <2>3. recency' \in Seq(Keys) /\ DOMAIN written' \subseteq Keys
    BY <1>2, <1>3, <1>4 DEF CacheTypeOK
  <2> QED
    BY <2>1, <2>2, <2>3 DEF CacheTypeOK
<1>6. RecencyInv'
  BY <1>2, <1>4 DEF CacheInv, RecencyInv
<1>7. HoldsMostRecent'
  BY <1>2, <1>4, <1>5 DEF CacheInv, HoldsMostRecent
<1> QED
  BY <1>6, <1>7 DEF CacheInv

(* A miss leaves the cache and its history alone.                         *)
LEMMA GetMissKeeps ==
  ASSUME CacheInv, NEW k \in Keys, GetMiss(k)
  PROVE  CacheInv'
<1>1. /\ cache' = cache /\ hits' = hits /\ recency' = recency /\ written' = written
      /\ misses' = misses + 1 /\ hits + misses < MaxLookups
  BY DEF GetMiss
<1>2. CacheTypeOK
  BY DEF CacheInv, HoldsMostRecent
<1>3. CacheTypeOK'
  BY <1>1, <1>2, CacheAssumption DEF CacheTypeOK
<1> QED
  BY <1>1, <1>3 DEF CacheInv, HoldsMostRecent, RecencyInv

(* Overwriting: the entry is refreshed and gets the cost put.              *)
LEMMA PutOldKeeps ==
  ASSUME CacheInv, NEW k \in Keys, NEW c \in CacheCosts, Put(k, c), Present(cache, k)
  PROVE  CacheInv'
<1> DEFINE e == MoveToEnd(cache, k)
           n == Len(cache)
<1>1. PICK p \in 1..n : cache[p].key = k
  BY DEF Present
<1>2. /\ Use(k) /\ cache' = Assign(e, k, c)
      /\ written' = [j \in DOMAIN written \cup {k} |-> IF j = k THEN c ELSE written[j]]
      /\ hits' = hits /\ misses' = misses
  BY DEF Put
<1>3. /\ e \in DictOf(Keys, CacheCosts) /\ Len(e) = n /\ n \in Nat /\ n \in 1..n
      /\ recency' \in Seq(Keys) /\ Len(recency') = Len(recency)
      /\ \A i, j \in 1..Len(recency') : i # j => recency'[i] # recency'[j]
      /\ \A i \in 1..Len(recency') : \E j \in 1..Len(recency) :
           recency'[i] = recency[j]
      /\ \A i \in 1..n : /\ e[i].key = recency'[Len(recency') - n + i]
                        /\ e[i].key \in DOMAIN written
                        /\ e[i].cost = written[e[i].key]
      /\ e[n].key = k
  <2>1. Use(cache[p].key) /\ e = MoveToEnd(cache, cache[p].key) /\ n \in Nat /\ p \in 1..n
    BY <1>1, <1>2, CacheInvFacts
  <2>2. n \in 1..n
    BY <2>1
  <2> HIDE DEF e
  <2> QED
    BY <1>1, <2>1, <2>2, Refreshed
<1> HIDE DEF e, n
<1>4. /\ cache' \in DictOf(Keys, CacheCosts) /\ Len(cache') = n
      /\ \A i \in 1..n : /\ cache'[i].key = e[i].key
                        /\ cache'[i].cost = IF i = n THEN c ELSE e[i].cost
  <2>1. cache' = Assign(e, e[n].key, c) /\ n \in 1..Len(e)
    BY <1>2, <1>3
  <2>2. LET f == Assign(e, e[n].key, c)
        IN  /\ f \in DictOf(Keys, CacheCosts) /\ Len(f) = Len(e)
            /\ \A i \in 1..Len(e) : /\ f[i].key = e[i].key
                                   /\ f[i].cost = IF i = n THEN c ELSE e[i].cost
    <3>1. e \in DictOf(Keys, CacheCosts) /\ n \in 1..Len(e) /\ c \in CacheCosts
      BY <1>3, <2>1
    <3> QED
      BY <3>1, AssignOldProperties
  <2> QED
    BY <1>3, <2>1, <2>2
<1>5. CacheTypeOK
  BY DEF CacheInv, HoldsMostRecent
<1>6. \A i \in 1..n : /\ cache'[i].key \in DOMAIN written'
                       /\ cache'[i].cost = written'[cache'[i].key]
  <2> SUFFICES ASSUME NEW i \in 1..n
               PROVE  /\ cache'[i].key \in DOMAIN written'
                      /\ cache'[i].cost = written'[cache'[i].key]
    OBVIOUS
  <2>1. CASE i = n
    BY <1>2, <1>3, <1>4, <2>1
  <2>2. CASE i # n
    <3>1. e[i].key # k
      BY <1>3, <2>2 DEF DictOf
    <3> QED
      BY <1>2, <1>3, <1>4, <2>2, <3>1
  <2> QED
    BY <2>1, <2>2
<1>7. CacheTypeOK'
  BY <1>2, <1>3, <1>4, <1>5 DEF CacheTypeOK, DictOf, CacheEntry, n
<1>8. RecencyInv'
  BY <1>2, <1>3 DEF CacheInv, RecencyInv
<1>9. HoldsMostRecent'
  BY <1>3, <1>4, <1>6, <1>7 DEF CacheInv, HoldsMostRecent, n
<1> QED
  BY <1>8, <1>9 DEF CacheInv

(* A new key: what precedes its entry is the cache, or what is left of it,  *)
(* in the order of the history.                                            *)
LEMMA PutNewKeeps ==
  ASSUME CacheInv, NEW k \in Keys, NEW c \in CacheCosts, Put(k, c), ~Present(cache, k)
  PROVE  CacheInv'
<1> DEFINE n == Len(cache)
           m == Len(recency)
           d == IF n >= MaxSize THEN PopOldest(cache) ELSE cache
<1>1. /\ Use(k) /\ cache' = Assign(d, k, c)
      /\ written' = [j \in DOMAIN written \cup {k} |-> IF j = k THEN c ELSE written[j]]
      /\ hits' = hits /\ misses' = misses
  BY DEF Put
<1>2. /\ n \in Nat /\ m \in Nat /\ m - n \in Nat /\ MaxSize \in Nat \ {0}
      /\ cache \in DictOf(Keys, CacheCosts) /\ recency \in Seq(Keys)
      /\ (n = m /\ m < MaxSize) \/ n = MaxSize
      /\ \A i \in 1..n : /\ cache[i].key = recency[m - n + i]
                        /\ m - n + i \in 1..m
                        /\ cache[i].key \in DOMAIN written
                        /\ cache[i].cost = written[cache[i].key]
      /\ \A i \in 1..m : recency[i] = k => i <= m - n
  BY CacheInvFacts
<1>3. \A i \in 1..n : cache[i].key # k
  BY DEF Present
<1>4. n = MaxSize => cache # <<>>
  BY <1>2, EmptySeq
<1>5. /\ d \in DictOf(Keys, CacheCosts)
      /\ Len(d) = IF n = MaxSize THEN n - 1 ELSE n
      /\ \A i \in 1..Len(d) : d[i] = cache[IF n = MaxSize THEN i + 1 ELSE i]
  <2>1. CASE n = MaxSize
    <3>1. d = PopOldest(cache)
      BY <1>2, <2>1
    <3>2. /\ PopOldest(cache) \in DictOf(Keys, CacheCosts)
          /\ Len(PopOldest(cache)) = n - 1
          /\ \A i \in 1..n - 1 : PopOldest(cache)[i] = cache[i + 1]
      <4>1. cache \in DictOf(Keys, CacheCosts) /\ cache # <<>>
        BY <1>2, <1>4, <2>1
      <4> QED
        BY <4>1, PopOldestProperties
    <3> HIDE DEF d, n
    <3> QED
      BY <2>1, <3>1, <3>2
  <2>2. CASE n # MaxSize
    <3>1. d = cache /\ Len(d) = n
      BY <1>2, <2>2
    <3> HIDE DEF d, n
    <3> QED
      BY <1>2, <2>2, <3>1
  <2> QED
    BY <2>1, <2>2
<1> HIDE DEF n, m, d
<1>6. Len(d) \in Nat /\ \A i \in 1..Len(d) : (IF n = MaxSize THEN i + 1 ELSE i) \in 1..n
  BY <1>2, <1>5
<1>7. ~Present(d, k)
  BY <1>3, <1>5, <1>6 DEF Present
<1>8. /\ cache' \in DictOf(Keys, CacheCosts) /\ Len(cache') = Len(d) + 1
      /\ \A i \in 1..Len(d) : cache'[i] = cache[IF n = MaxSize THEN i + 1 ELSE i]
      /\ cache'[Len(d) + 1] = [key |-> k, cost |-> c]
  BY <1>1, <1>5, <1>7, AssignNewProperties
\* The history, which may have forgotten the key's place.
<1>9. /\ recency' \in Seq(Keys) /\ Len(recency') \in {m, m + 1}
      /\ \A i, j \in 1..Len(recency') : i # j => recency'[i] # recency'[j]
      /\ Len(recency') = m => n = MaxSize
      /\ \A i \in 1..n : i > 1 \/ n # MaxSize =>
           recency'[Len(recency') - 1 - n + i] = recency[m - n + i]
      /\ recency'[Len(recency')] = k
      /\ \A i \in 1..Len(recency') : recency'[i] = k \/ \E j \in 1..m : recency'[i] = recency[j]
  <2>1. CASE \A i \in 1..m : recency[i] # k
    <3>1. /\ recency' \in Seq(Keys) /\ Len(recency') = m + 1
          /\ \A i \in 1..m : recency'[i] = recency[i]
          /\ recency'[m + 1] = k
          /\ \A i, j \in 1..Len(recency') : i # j => recency'[i] # recency'[j]
      BY <1>1, <1>2, <2>1, FirstUse DEF CacheInv, m
    <3>2. \A i \in 1..n : Len(recency') - 1 - n + i = m - n + i
      BY <1>2, <3>1
    <3>3. \A i \in 1..Len(recency') : i = m + 1 \/ i \in 1..m
      BY <1>2, <3>1
    <3> QED
      BY <1>2, <3>1, <3>2, <3>3
  <2>2. CASE \E i \in 1..m : recency[i] = k
    <3>1. PICK q \in 1..m : recency[q] = k
      BY <2>2
    <3>2. /\ recency' \in Seq(Keys) /\ Len(recency') = m
          /\ \A i \in 1..m : recency'[i] = IF i < q THEN recency[i]
                                           ELSE IF i < m THEN recency[i + 1] ELSE recency[q]
          /\ \A i, j \in 1..Len(recency') : i # j => recency'[i] # recency'[j]
      BY <1>1, <1>2, <3>1, AnotherUse DEF CacheInv, m
    <3>3. q <= m - n /\ n = MaxSize
      BY <1>2, <3>1
    <3>4. ASSUME NEW i \in 1..n, i > 1
          PROVE  recency'[m - 1 - n + i] = recency[m - n + i]
      <4>1. /\ m - 1 - n + i \in 1..m /\ ~(m - 1 - n + i < q) /\ m - 1 - n + i < m
            /\ (m - 1 - n + i) + 1 = m - n + i
        BY <1>2, <3>1, <3>3, <3>4
      <4> QED
        BY <3>2, <4>1
    <3>5. recency'[m] = k
      <4>1. m \in 1..m /\ ~(m < q)
        BY <1>2, <3>1
      <4> QED
        BY <3>1, <3>2, <4>1
    <3>6. ASSUME NEW i \in 1..m PROVE \E j \in 1..m : recency'[i] = recency[j]
      <4>1. CASE i < q
        BY <3>2, <4>1
      <4>2. CASE ~(i < q) /\ i < m
        <5>1. i + 1 \in 1..m
          BY <1>2, <4>2
        <5> QED
          BY <3>2, <4>2, <5>1
      <4>3. CASE ~(i < q) /\ ~(i < m)
        BY <3>2, <4>3
      <4> QED
        BY <4>1, <4>2, <4>3
    <3> QED
      BY <3>2, <3>3, <3>4, <3>5, <3>6
  <2> QED
    BY <2>1, <2>2
<1>10. Len(cache') = IF Len(recency') < MaxSize THEN Len(recency') ELSE MaxSize
  BY <1>2, <1>5, <1>8, <1>9
<1>11. ASSUME NEW i \in 1..Len(cache')
       PROVE  /\ cache'[i].key = recency'[Len(recency') - Len(cache') + i]
              /\ cache'[i].key \in DOMAIN written'
              /\ cache'[i].cost = written'[cache'[i].key]
  <2>1. CASE i = Len(d) + 1
    <3>1. Len(recency') - Len(cache') + i = Len(recency')
      BY <1>2, <1>6, <1>8, <1>9, <2>1
    <3> QED
      BY <1>1, <1>8, <1>9, <2>1, <3>1
  <2>2. CASE i # Len(d) + 1
    <3> DEFINE j == IF n = MaxSize THEN i + 1 ELSE i
    <3>1. i \in 1..Len(d)
      BY <1>6, <1>8, <2>2
    <3>2. /\ j \in 1..n /\ (j > 1 \/ n # MaxSize)
          /\ Len(recency') - Len(cache') + i = Len(recency') - 1 - n + j
      <4>1. Len(cache') = Len(d) + 1 /\ Len(recency') \in Nat
        BY <1>2, <1>8, <1>9
      <4>2. CASE n = MaxSize
        <5>1. j = i + 1 /\ i \in 1..n - 1 /\ Len(cache') = n /\ n \in Nat
          BY <1>2, <1>5, <3>1, <4>1, <4>2
        <5> HIDE DEF j
        <5> QED
          BY <4>1, <5>1
      <4>3. CASE n # MaxSize
        BY <1>2, <1>5, <3>1, <4>1, <4>3
      <4> QED
        BY <4>2, <4>3
    <3>3. cache'[i] = cache[j]
      BY <1>8, <3>1
    <3> HIDE DEF j
    <3>4. /\ cache[j].key # k
          /\ cache[j].key = recency[m - n + j]
          /\ recency'[Len(recency') - 1 - n + j] = recency[m - n + j]
      BY <1>2, <1>3, <1>9, <3>2
    <3> QED
      BY <1>1, <1>2, <3>2, <3>3, <3>4
  <2> QED
    BY <2>1, <2>2
<1>12. CacheTypeOK
  BY DEF CacheInv, HoldsMostRecent
<1>13. CacheTypeOK'
  <2>1. Len(cache') <= MaxSize
    BY <1>2, <1>9, <1>10
  <2> QED
    BY <1>1, <1>8, <1>9, <1>12, <2>1 DEF CacheTypeOK, DictOf, CacheEntry
<1>14. RecencyInv'
  BY <1>1, <1>9 DEF CacheInv, RecencyInv, m
<1>15. HoldsMostRecent'
  BY <1>10, <1>11, <1>13 DEF HoldsMostRecent
<1> QED
  BY <1>14, <1>15 DEF CacheInv

(* After a clear the cache is as at the start.                            *)
LEMMA ClearKeeps ==
  ASSUME CacheInv, Clear
  PROVE  CacheInv'
<1>1. /\ cache' = <<>> /\ recency' = <<>> /\ written' = [k \in {} |-> 0]
      /\ hits' = 0 /\ misses' = 0
  BY DEF Clear
<1>2. /\ cache' \in Seq(CacheEntry) /\ recency' \in Seq(Keys)
      /\ Len(cache') = 0 /\ Len(recency') = 0
  BY <1>1, EmptySeq
<1>3. CacheTypeOK'
  BY <1>1, <1>2, CacheAssumption DEF CacheTypeOK
<1> QED
  BY <1>1, <1>2, <1>3, CacheAssumption DEF CacheInv, HoldsMostRecent, RecencyInv

(* Used by one caller, the cache is an LRU cache: whatever is looked up,    *)
(* put and cleared in whatever order, it holds the keys used last with the *)
(* costs put last (cache.py:65-90).                                        *)
THEOREM AlwaysHoldsMostRecent == CacheSpec => []HoldsMostRecent
<1>1. CacheInit => CacheInv
  BY CacheInvInit
<1>2. CacheInv /\ [CacheNext]_cacheVars => CacheInv'
  <2> SUFFICES ASSUME CacheInv, [CacheNext]_cacheVars
               PROVE  CacheInv'
    OBVIOUS
  <2>1. ASSUME NEW k \in Keys, GetHit(k) PROVE CacheInv'
    BY <2>1, GetHitKeeps
  <2>2. ASSUME NEW k \in Keys, GetMiss(k) PROVE CacheInv'
    BY <2>2, GetMissKeeps
  <2>3. ASSUME NEW k \in Keys, NEW c \in CacheCosts, Put(k, c) PROVE CacheInv'
    BY <2>3, PutOldKeeps, PutNewKeeps
  <2>4. CASE Clear
    BY <2>4, ClearKeeps
  <2>5. CASE UNCHANGED cacheVars
    BY <2>5 DEF cacheVars, CacheInv, HoldsMostRecent, CacheTypeOK, RecencyInv
  <2> QED
    BY <2>1, <2>2, <2>3, <2>4, <2>5 DEF CacheNext
<1>3. CacheInv => HoldsMostRecent
  BY DEF CacheInv
<1> QED
  BY <1>1, <1>2, <1>3, PTL DEF CacheSpec

-----------------------------------------------------------------------------
(* The cache that threads share.                                           *)

Evaluating == {"lookup", "evaluate", "put", "compare"}

Points == Evaluating \cup {"idle", "read", "store"}

(* A candidate that no thread has taken, or whose thread may yet evict.    *)
Ahead == { i \in Candidates :
             \/ i >= next
             \/ \E w \in Workers : task[w] = i /\ at[w] \in Evaluating }

Unfinished == { i \in Candidates : results[i] = "none" }

KeysOf(S) == { batch[i].key : i \in S }

(* How many candidates of S have the key of another one of S.              *)
Spare(S) == Cardinality(S) - Cardinality(KeysOf(S))

(* The thread may store its key without evicting an entry for it first.    *)
Inserting(w) ==
  \/ at[w] = "store"
  \/ at[w] = "compare" /\ size[w] < maxSize
  \/ at[w] \in {"evaluate", "put", "compare"} /\ Present(items, Key(w))

Pending == { k \in Keys : \E w \in Workers : Inserting(w) /\ Key(w) = k }

(* A thread works on a candidate that has no outcome, one that is feasible  *)
(* by the time it is put.                                                  *)
TaskInv ==
  /\ \A w \in Workers : task[w] = 0 <=> at[w] = "idle"
  /\ \A w \in Workers : task[w] < next
  /\ \A w \in Workers : task[w] # 0 => results[task[w]] = "none"
  /\ \A i \in Candidates : i >= next => results[i] = "none"
  /\ \A w \in Workers : at[w] \in {"put", "compare", "store"} =>
                          batch[task[w]].cost = "new"

TypeInv == SharedTypeOK /\ TaskInv

(* Entries, entries to come and repeated keys, and how many there may be.  *)
Taken == Len(items) + Cardinality(Pending) + Spare(Unfinished)
Limit == maxSize + Cardinality(Workers) - 1 + Spare(Candidates)

(* Every entry too many has its thread, or its candidate of a repeated key. *)
SpaceInv == Spare(Unfinished) <= Spare(Candidates) /\ Taken <= Limit

(* The cache is full, or a thread has found it full and evicts or stores.  *)
HotAt(w) ==
  \/ at[w] = "compare" /\ size[w] >= maxSize
  \/ at[w] = "store" /\ ~Present(items, Key(w))

Hot == Len(items) >= maxSize \/ \E w \in Workers : HotAt(w)

HotInv == Hot => Len(items) - Cardinality(Ahead) >= maxSize - BatchSize

(* A candidate with this key is done, or its thread about to finish.       *)
Kept(k) ==
  \/ \E i \in Candidates : batch[i].key = k /\ results[i] \in {"old", "new"}
  \/ \E w \in Workers : Key(w) = k /\ at[w] \in {"read", "compare", "store"}

(* Fewer evictions are to come than there are entries before a kept one.   *)
PlaceInv ==
  \A k \in Keys : Kept(k) => \A p \in 1..Len(items) : items[p].key = k =>
    IF Hot THEN Cardinality(Ahead) < p
           ELSE Len(items) - p + Cardinality(Ahead) < maxSize

PresentInv ==
  /\ \A i \in Candidates :
       /\ results[i] # "KeyError"
       /\ results[i] \in {"old", "new"} => Present(items, batch[i].key)
  /\ \A w \in Workers : at[w] = "read" => Present(items, Key(w))

\* Only a cache with room for the batch keeps what it was given.
RoomInv == maxSize >= BatchSize => HotInv /\ PlaceInv /\ PresentInv

SharedInv == TypeInv /\ SpaceInv /\ RoomInv

Costs == {"old", "new"}

-----------------------------------------------------------------------------
(* Counting.                                                               *)

(* The image of a finite set under a function is finite and no larger.     *)
LEMMA ImageCardinality ==
  ASSUME NEW S, IsFiniteSet(S), NEW f
  PROVE  /\ IsFiniteSet({ f[x] : x \in S })
         /\ Cardinality({ f[x] : x \in S }) <= Cardinality(S)
<1> DEFINE T == { f[x] : x \in S }
           g == [x \in S |-> f[x]]
<1>1. g \in Surjection(S, T)
  BY DEF Surjection
<1> HIDE DEF T, g
<1>2. IsFiniteSet(T) /\ Cardinality(T) <= Cardinality(S)
  BY <1>1, FS_Surjection
<1> QED
  BY <1>2 DEF T

(* What the parameters and the types say of a state, once and for all.     *)
LEMMA Basics ==
  ASSUME SharedTypeOK
  PROVE  /\ BatchSize \in Nat /\ maxSize \in Nat /\ maxSize >= 1
         /\ IsFiniteSet(Candidates) /\ Cardinality(Candidates) = BatchSize
         /\ \A i \in Candidates : batch[i] \in Candidate /\ batch[i].key \in Keys
         /\ IsFiniteSet(Workers) /\ Cardinality(Workers) \in Nat \ {0}
         /\ items \in DictOf(Keys, Costs) /\ Len(items) \in Nat
<1>1. batch \in Seq(Candidate) /\ maxSize \in Nat \ {0}
  BY SharedAssumption DEF SharedTypeOK
<1>2. BatchSize \in Nat /\ \A i \in Candidates : batch[i] \in Candidate
  BY <1>1, LenProperties, ElementOfSeq DEF BatchSize, Candidates
<1>3. IsFiniteSet(Candidates) /\ Cardinality(Candidates) = BatchSize
  BY <1>2, FS_Interval DEF Candidates
<1>4. IsFiniteSet(Workers) /\ Cardinality(Workers) \in Nat \ {0}
  BY SharedAssumption, FS_CardinalityType, FS_EmptySet
<1>5. items \in DictOf(Keys, Costs)
  BY DEF SharedTypeOK, DictOf, DictEntry, Costs
<1>6. Len(items) \in Nat
  BY <1>5, LenProperties DEF DictOf
<1> QED
  BY <1>1, <1>2, <1>3, <1>4, <1>5, <1>6 DEF Candidate

(* A set of candidates is finite and has no more keys than members.        *)
LEMMA SpareProperties ==
  ASSUME SharedTypeOK, NEW S \in SUBSET Candidates
  PROVE  /\ IsFiniteSet(S) /\ Cardinality(S) \in Nat
         /\ IsFiniteSet(KeysOf(S)) /\ Cardinality(KeysOf(S)) \in Nat
         /\ Spare(S) \in Nat
<1>1. IsFiniteSet(S)
  BY Basics, FS_Subset
<1> DEFINE f == [i \in S |-> batch[i].key]
<1>2. KeysOf(S) = { f[i] : i \in S }
  BY DEF KeysOf
<1> HIDE DEF f
<1>3. IsFiniteSet(KeysOf(S)) /\ Cardinality(KeysOf(S)) <= Cardinality(S)
  BY <1>1, <1>2, ImageCardinality
<1>4. Cardinality(S) \in Nat /\ Cardinality(KeysOf(S)) \in Nat
  BY <1>1, <1>3, FS_CardinalityType
<1> QED
  BY <1>1, <1>3, <1>4 DEF Spare

(* Without a candidate a set has as many spare ones as before if no other   *)
(* has its key, and one less if another has.                               *)
LEMMA SpareRemove ==
  ASSUME SharedTypeOK, NEW S \in SUBSET Candidates, NEW i \in S
  PROVE  LET R == S \ {i}
         IN  Spare(R) = IF batch[i].key \in KeysOf(R) THEN Spare(S) - 1 ELSE Spare(S)
<1> DEFINE R == S \ {i}
<1>1. R \in SUBSET Candidates
  OBVIOUS
<1>2. /\ IsFiniteSet(S) /\ Cardinality(S) \in Nat /\ IsFiniteSet(KeysOf(R))
      /\ Cardinality(KeysOf(R)) \in Nat
  BY <1>1, SpareProperties
<1>3. Cardinality(R) = Cardinality(S) - 1
  BY <1>2, FS_RemoveElement
<1>4. KeysOf(S) = KeysOf(R) \cup {batch[i].key}
  BY DEF KeysOf
<1>5. Cardinality(KeysOf(S)) = IF batch[i].key \in KeysOf(R) THEN Cardinality(KeysOf(R))
                               ELSE Cardinality(KeysOf(R)) + 1
  BY <1>2, <1>4, FS_AddElement
<1> HIDE DEF R
<1>6. Spare(R) = IF batch[i].key \in KeysOf(R) THEN Spare(S) - 1 ELSE Spare(S)
  BY <1>2, <1>3, <1>5 DEF Spare
<1> QED
  BY <1>6 DEF R

(* There are no more pending keys than threads.                            *)
LEMMA PendingProperties ==
  ASSUME SharedTypeOK
  PROVE  /\ IsFiniteSet(Pending) /\ Cardinality(Pending) \in Nat
         /\ Cardinality(Pending) <= Cardinality(Workers)
<1> DEFINE f == [w \in Workers |-> Key(w)]
           T == { f[w] : w \in Workers }
<1>1. Pending \subseteq T
  BY DEF Pending
<1> HIDE DEF f
<1>2. IsFiniteSet(T) /\ Cardinality(T) <= Cardinality(Workers)
  BY Basics, ImageCardinality
<1> HIDE DEF T
<1>3. IsFiniteSet(Pending) /\ Cardinality(Pending) <= Cardinality(T)
  BY <1>1, <1>2, FS_Subset
<1>4. Cardinality(Pending) \in Nat /\ Cardinality(T) \in Nat
  BY <1>2, <1>3, FS_CardinalityType
<1> QED
  BY <1>2, <1>3, <1>4, Basics

(* At most as many candidates are ahead as the batch has.                  *)
LEMMA AheadProperties ==
  ASSUME SharedTypeOK
  PROVE  /\ IsFiniteSet(Ahead) /\ Cardinality(Ahead) \in Nat
         /\ Cardinality(Ahead) <= BatchSize
<1>1. Ahead \in SUBSET Candidates
  BY DEF Ahead
<1>2. IsFiniteSet(Ahead) /\ Cardinality(Ahead) <= BatchSize
  BY <1>1, Basics, FS_Subset
<1> QED
  BY <1>2, FS_CardinalityType

-----------------------------------------------------------------------------
(* The steps of a thread, apart from what they do to the cache: it goes on  *)
(* to another point of its candidate's evaluation, or has an outcome.      *)

Frame(w) ==
  /\ maxSize' = maxSize /\ batch' = batch /\ next' = next
  /\ size' \in [Workers -> Nat] /\ \A v \in Workers \ {w} : size'[v] = size[v]

Moves(w, point) ==
  /\ Frame(w) /\ Goto(w, point) /\ task' = task /\ results' = results

Returns(w, outcome) == Frame(w) /\ Return(w, outcome)

(* A thread that is not idle works on a candidate of the batch.            *)
LEMMA TaskProperties ==
  ASSUME TypeInv, NEW w \in Workers, at[w] # "idle"
  PROVE  /\ task[w] \in Candidates /\ task[w] < next
         /\ task[w] \in Unfinished
         /\ Key(w) \in Keys /\ Key(w) = batch[task[w]].key
         /\ \A v \in Workers \ {w} : task[v] # task[w]
<1>1. /\ task[w] \in 0..BatchSize /\ task[w] # 0 /\ task[w] < next
      /\ results[task[w]] = "none"
      /\ \A v \in Workers \ {w} : task[v] # task[w]
  BY DEF TypeInv, SharedTypeOK, TaskInv
<1>2. BatchSize \in Nat
  BY Basics DEF TypeInv
<1>3. task[w] \in Candidates
  BY <1>1, <1>2 DEF Candidates
<1> QED
  BY <1>1, <1>3, Basics DEF TypeInv, Unfinished, Key

(* Types are kept by a step that goes on to another point of a task,       *)
LEMMA MovesKeepsTypes ==
  ASSUME TypeInv, NEW w \in Workers, at[w] # "idle",
         NEW point \in Points \ {"idle"}, Moves(w, point),
         items' \in DictOf(Keys, Costs),
         point \in {"put", "compare", "store"} => batch[task[w]].cost = "new"
  PROVE  TypeInv'
<1>1. /\ maxSize' = maxSize /\ batch' = batch /\ next' = next /\ task' = task
      /\ results' = results /\ size' \in [Workers -> Nat]
      /\ at' = [at EXCEPT ![w] = point]
  BY DEF Moves, Frame, Goto
<1>2. at \in [Workers -> Points]
  BY DEF TypeInv, SharedTypeOK, Points, Evaluating
<1>3. at' \in [Workers -> Points]
  BY <1>1, <1>2
<1>4. SharedTypeOK'
  BY <1>1, <1>3 DEF TypeInv, SharedTypeOK, DictOf, Costs, DictEntry, Points, Evaluating,
    BatchSize, Candidates
<1>5. TaskInv'
  BY <1>1, <1>2, TaskProperties DEF TypeInv, TaskInv, BatchSize, Candidates
<1> QED
  BY <1>4, <1>5 DEF TypeInv

(* and by a step that ends a task.                                         *)
LEMMA ReturnsKeepsTypes ==
  ASSUME TypeInv, NEW w \in Workers, at[w] # "idle",
         NEW outcome \in Answers \cup {"KeyError"}, Returns(w, outcome),
         items' \in DictOf(Keys, Costs)
  PROVE  TypeInv'
<1>1. /\ maxSize' = maxSize /\ batch' = batch /\ next' = next
      /\ task' = [task EXCEPT ![w] = 0]
      /\ results' = [results EXCEPT ![task[w]] = outcome]
      /\ size' \in [Workers -> Nat]
      /\ at' = [at EXCEPT ![w] = "idle"]
  BY DEF Returns, Return, Frame, Goto
<1>2. /\ at \in [Workers -> Points] /\ task \in [Workers -> 0..BatchSize]
      /\ results \in [Candidates -> Answers \cup {"none", "KeyError"}]
      /\ next \in 1..BatchSize + 1 /\ BatchSize \in Nat
  BY Basics DEF TypeInv, SharedTypeOK, Points, Evaluating
<1>3. /\ at' \in [Workers -> Points] /\ task' \in [Workers -> 0..BatchSize]
      /\ results' \in [Candidates -> Answers \cup {"none", "KeyError"}]
  BY <1>1, <1>2, TaskProperties DEF Points
<1>4. \A u, v \in Workers : u # v /\ task'[u] = task'[v] => task'[u] = 0
  BY <1>1, <1>2 DEF TypeInv, SharedTypeOK
<1>5. SharedTypeOK'
  BY <1>1, <1>3, <1>4 DEF TypeInv, SharedTypeOK, DictOf, Costs, DictEntry, Points,
    Evaluating, BatchSize, Candidates
<1>6. TaskInv'
  <2>1. \A v \in Workers : v = w \/ (task'[v] = task[v] /\ at'[v] = at[v] /\ task[v] # task[w])
    BY <1>1, <1>2, TaskProperties
  <2>2. task'[w] = 0 /\ at'[w] = "idle" /\ next > 0
    BY <1>1, <1>2
  <2>3. \A i \in Candidates : i # task[w] => results'[i] = results[i]
    BY <1>1, <1>2
  <2>4. \A v \in Workers : task[v] # 0 => task[v] \in Candidates
    BY <1>2 DEF Candidates
  <2>5. \A v \in Workers : task'[v] # 0 => results'[task'[v]] = "none"
    BY <2>1, <2>2, <2>3, <2>4 DEF TypeInv, TaskInv
  <2>6. \A i \in Candidates : i >= next => results'[i] = "none"
    <3>1. \A i \in Candidates : i >= next => i # task[w]
      BY <1>2, TaskProperties DEF Candidates
    <3> QED
      BY <2>3, <3>1 DEF TypeInv, TaskInv
  <2>7. \A v \in Workers : task'[v] = 0 <=> at'[v] = "idle"
    BY <2>1, <2>2 DEF TypeInv, TaskInv
  <2>8. \A v \in Workers : task'[v] < next
    BY <2>1, <2>2 DEF TypeInv, TaskInv
  <2>9. \A v \in Workers : at'[v] \in {"put", "compare", "store"} =>
                             batch[task'[v]].cost = "new"
    BY <2>1, <2>2 DEF TypeInv, TaskInv
  <2> QED
    BY <1>1, <2>5, <2>6, <2>7, <2>8, <2>9 DEF TaskInv, Candidates, BatchSize
<1> QED
  BY <1>5, <1>6 DEF TypeInv

(* Who is ahead and unfinished after a move.                               *)
LEMMA MovesCounts ==
  ASSUME TypeInv, NEW w \in Workers, at[w] # "idle", NEW point, Moves(w, point),
         point \in Evaluating => at[w] \in Evaluating
  PROVE  /\ Spare(Unfinished)' = Spare(Unfinished)
         /\ Spare(Candidates)' = Spare(Candidates) /\ BatchSize' = BatchSize
         /\ Cardinality(Ahead') = IF at[w] \in Evaluating /\ point \notin Evaluating
                                  THEN Cardinality(Ahead) - 1 ELSE Cardinality(Ahead)
<1>1. /\ maxSize' = maxSize /\ batch' = batch /\ next' = next /\ task' = task
      /\ results' = results /\ at' = [at EXCEPT ![w] = point]
  BY DEF Moves, Frame, Goto
<1>2. at \in [Workers -> Points]
  BY DEF TypeInv, SharedTypeOK, Points, Evaluating
<1>3. BatchSize' = BatchSize /\ Candidates' = Candidates
  BY <1>1 DEF BatchSize, Candidates
<1>4. Unfinished' = Unfinished
  BY <1>1, <1>3 DEF Unfinished
<1>5. Spare(Unfinished)' = Spare(Unfinished) /\ Spare(Candidates)' = Spare(Candidates)
  BY <1>1, <1>3, <1>4 DEF Spare, KeysOf
<1>6. CASE at[w] \in Evaluating /\ point \notin Evaluating
  <2>1. task[w] \in Ahead
    BY <1>6, TaskProperties DEF Ahead
  <2>2. task[w] \notin Ahead'
    <3>1. ~(task[w] >= next)
      <4>1. task[w] \in Int /\ next \in Int /\ task[w] < next
        BY TaskProperties DEF TypeInv, SharedTypeOK, Candidates
      <4> QED
        BY <4>1
    <3>2. \A v \in Workers : task[v] = task[w] => v = w
      BY TaskProperties
    <3> QED
      BY <1>1, <1>2, <1>6, <3>1, <3>2 DEF Ahead
  <2>3. \A i \in Candidates : i # task[w] => (i \in Ahead <=> i \in Ahead')
    BY <1>1, <1>2, <1>3 DEF Ahead
  <2>4. Ahead \subseteq Candidates /\ Ahead' \subseteq Candidates
    BY <1>3 DEF Ahead
  <2>5. Ahead' = Ahead \ {task[w]}
    BY <2>1, <2>2, <2>3, <2>4
  <2> QED
    BY <1>3, <1>5, <1>6, <2>1, <2>5, AheadProperties, FS_RemoveElement DEF TypeInv
<1>7. CASE ~(at[w] \in Evaluating /\ point \notin Evaluating)
  <2>1. point \in Evaluating <=> at[w] \in Evaluating
    BY <1>7
  <2>2. \A v \in Workers : at'[v] \in Evaluating <=> at[v] \in Evaluating
    BY <1>1, <1>2, <2>1
  <2>3. Ahead' = Ahead
    BY <1>1, <1>3, <2>2 DEF Ahead
  <2> QED
    BY <1>3, <1>5, <1>7, <2>3
<1> QED
  BY <1>6, <1>7

(* And after a return: the candidate is neither any more.                  *)
LEMMA ReturnsCounts ==
  ASSUME TypeInv, NEW w \in Workers, at[w] # "idle", NEW outcome, outcome # "none",
         Returns(w, outcome)
  PROVE  /\ Unfinished' = Unfinished \ {task[w]}
         /\ Spare(Unfinished)' = IF Key(w) \in KeysOf(Unfinished \ {task[w]})
                                 THEN Spare(Unfinished) - 1 ELSE Spare(Unfinished)
         /\ Spare(Candidates)' = Spare(Candidates) /\ BatchSize' = BatchSize
         /\ Cardinality(Ahead') = IF at[w] \in Evaluating
                                  THEN Cardinality(Ahead) - 1 ELSE Cardinality(Ahead)
         /\ Cardinality(Ahead') < BatchSize
<1>1. /\ maxSize' = maxSize /\ batch' = batch /\ next' = next
      /\ task' = [task EXCEPT ![w] = 0]
      /\ results' = [results EXCEPT ![task[w]] = outcome]
      /\ at' = [at EXCEPT ![w] = "idle"]
  BY DEF Returns, Return, Frame, Goto
<1>2. /\ at \in [Workers -> Points] /\ task \in [Workers -> 0..BatchSize]
      /\ results \in [Candidates -> Answers \cup {"none", "KeyError"}]
  BY DEF TypeInv, SharedTypeOK, Points, Evaluating
<1>3. BatchSize' = BatchSize /\ Candidates' = Candidates
  BY <1>1 DEF BatchSize, Candidates
<1>4. Unfinished' = Unfinished \ {task[w]}
  BY <1>1, <1>2, <1>3, TaskProperties DEF Unfinished
<1>5. Spare(Unfinished)' = Spare(Unfinished \ {task[w]})
  BY <1>1, <1>4 DEF Spare, KeysOf
<1>6. Unfinished \in SUBSET Candidates /\ task[w] \in Unfinished /\ Key(w) = batch[task[w]].key
  BY TaskProperties DEF Unfinished
<1>7. Spare(Unfinished \ {task[w]}) = IF Key(w) \in KeysOf(Unfinished \ {task[w]})
                                      THEN Spare(Unfinished) - 1 ELSE Spare(Unfinished)
  BY <1>6, SpareRemove DEF TypeInv
<1>8. Spare(Candidates)' = Spare(Candidates)
  BY <1>1, <1>3 DEF Spare, KeysOf
<1>9. task[w] \notin Ahead'
  <2>1. ~(task[w] >= next)
    <3>1. task[w] \in Int /\ next \in Int /\ task[w] < next
      BY TaskProperties DEF TypeInv, SharedTypeOK, Candidates
    <3> QED
      BY <3>1
  <2>2. at'[w] \notin Evaluating
    BY <1>1, <1>2 DEF Evaluating
  <2>3. \A v \in Workers : v # w => task'[v] # task[w]
    BY <1>1, <1>2, TaskProperties
  <2> QED
    BY <1>1, <2>1, <2>2, <2>3 DEF Ahead
<1>10. \A i \in Candidates : i # task[w] => (i \in Ahead <=> i \in Ahead')
  <2>1. \A v \in Workers : v # w => task'[v] = task[v] /\ at'[v] = at[v]
    BY <1>1, <1>2
  <2>2. at'[w] \notin Evaluating
    BY <1>1, <1>2 DEF Evaluating
  <2> QED
    BY <1>1, <1>3, <2>1, <2>2 DEF Ahead
<1>11. Ahead' = Ahead \ {task[w]}
  <2>1. Ahead \subseteq Candidates /\ Ahead' \subseteq Candidates
    BY <1>3 DEF Ahead
  <2> QED
    BY <1>9, <1>10, <2>1
<1>12. task[w] \in Ahead <=> at[w] \in Evaluating
  <2>1. ~(task[w] >= next)
    <3>1. task[w] \in Int /\ next \in Int /\ task[w] < next
      BY TaskProperties DEF TypeInv, SharedTypeOK, Candidates
    <3> QED
      BY <3>1
  <2>2. \A v \in Workers : task[v] = task[w] => v = w
    BY TaskProperties
  <2> QED
    BY <2>1, <2>2, TaskProperties DEF Ahead
<1>13. Cardinality(Ahead') = IF at[w] \in Evaluating THEN Cardinality(Ahead) - 1
                             ELSE Cardinality(Ahead)
  BY <1>11, <1>12, AheadProperties, FS_RemoveElement DEF TypeInv
<1>14. Cardinality(Ahead') < BatchSize
  <2>1. Ahead' \in SUBSET (Candidates \ {task[w]})
    BY <1>3, <1>9 DEF Ahead
  <2>2. /\ IsFiniteSet(Candidates \ {task[w]})
        /\ Cardinality(Candidates \ {task[w]}) = BatchSize - 1
    BY Basics, TaskProperties, FS_RemoveElement DEF TypeInv
  <2>3. Cardinality(Ahead') <= BatchSize - 1 /\ IsFiniteSet(Ahead')
    BY <2>1, <2>2, FS_Subset
  <2> QED
    BY <2>3, Basics, FS_CardinalityType DEF TypeInv
<1> QED
  BY <1>3, <1>4, <1>5, <1>7, <1>8, <1>13, <1>14

-----------------------------------------------------------------------------
(* The space: entries, threads that may add one, and repeated keys.        *)

(* The numbers that the space is made of, as facts about any state.        *)
LEMMA SpaceNumbers ==
  SharedTypeOK => /\ Cardinality(Pending) \in Nat /\ IsFiniteSet(Pending)
                  /\ Cardinality(Pending) <= Cardinality(Workers)
                  /\ Spare(Unfinished) \in Nat /\ Spare(Candidates) \in Nat
                  /\ Len(items) \in Nat /\ maxSize \in Nat
                  /\ Cardinality(Workers) \in Nat
<1> SUFFICES ASSUME SharedTypeOK
             PROVE  /\ Cardinality(Pending) \in Nat /\ IsFiniteSet(Pending)
                    /\ Cardinality(Pending) <= Cardinality(Workers)
                    /\ Spare(Unfinished) \in Nat /\ Spare(Candidates) \in Nat
                    /\ Len(items) \in Nat /\ maxSize \in Nat
                    /\ Cardinality(Workers) \in Nat
  OBVIOUS
<1>1. Unfinished \in SUBSET Candidates /\ Candidates \in SUBSET Candidates
  BY DEF Unfinished
<1>2. Spare(Unfinished) \in Nat /\ Spare(Candidates) \in Nat
  BY <1>1, SpareProperties
<1> QED
  BY <1>2, Basics, PendingProperties

(* The numbers of SpaceInv are numbers after a step, too,                  *)
LEMMA SpaceNumbersLater ==
  ASSUME TypeInv'
  PROVE  /\ Cardinality(Pending') \in Nat /\ IsFiniteSet(Pending')
         /\ Cardinality(Pending') <= Cardinality(Workers)
         /\ Spare(Unfinished)' \in Nat /\ Spare(Candidates)' \in Nat
         /\ Len(items') \in Nat /\ maxSize' \in Nat
<1>1. (SharedTypeOK => /\ Cardinality(Pending) \in Nat /\ IsFiniteSet(Pending)
                       /\ Cardinality(Pending) <= Cardinality(Workers)
                       /\ Spare(Unfinished) \in Nat /\ Spare(Candidates) \in Nat
                       /\ Len(items) \in Nat /\ maxSize \in Nat
                       /\ Cardinality(Workers) \in Nat)'
  BY SpaceNumbers, PTL
<1>2. SharedTypeOK'
  BY DEF TypeInv
<1> QED
  BY <1>1, <1>2

(* A key becomes pending only when it appears in the cache or its thread    *)
(* gets so far.                                                            *)
LEMMA PendingStep ==
  ASSUME NEW w \in Workers, batch' = batch, maxSize' = maxSize,
         \A v \in Workers \ {w} :
           task'[v] = task[v] /\ at'[v] = at[v] /\ size'[v] = size[v],
         NEW k \in Pending', k \notin Pending
  PROVE  \/ Present(items', k) /\ ~Present(items, k)
         \/ Inserting(w)' /\ Key(w)' = k
<1>1. k \in Keys /\ \E v \in Workers : Inserting(v)' /\ Key(v)' = k
  BY DEF Pending
<1>2. PICK v \in Workers : Inserting(v)' /\ Key(v)' = k
  BY <1>1
<1>3. CASE v = w
  BY <1>2, <1>3
<1>4. CASE v # w
  <2>1. task'[v] = task[v] /\ at'[v] = at[v] /\ size'[v] = size[v]
    BY <1>4
  <2>2. Key(v) = k
    BY <1>2, <2>1 DEF Key
  <2>3. ~Inserting(v)
    BY <1>1, <2>2 DEF Pending
  <2> QED
    BY <1>2, <2>1, <2>2, <2>3 DEF Inserting, Key
<1> QED
  BY <1>3, <1>4

(* A step is of one thread.                                                *)
LEMMA OthersStay ==
  ASSUME TypeInv, NEW w \in Workers,
         (\E point : Moves(w, point)) \/ (\E outcome : Returns(w, outcome))
  PROVE  /\ batch' = batch /\ maxSize' = maxSize
         /\ \A v \in Workers \ {w} :
              task'[v] = task[v] /\ at'[v] = at[v] /\ size'[v] = size[v]
<1>1. task \in [Workers -> 0..BatchSize] /\ at \in [Workers -> Points]
  BY DEF TypeInv, SharedTypeOK, Points, Evaluating
<1>2. CASE \E point : Moves(w, point)
  BY <1>1, <1>2 DEF Moves, Goto, Frame
<1>3. CASE \E outcome : Returns(w, outcome)
  BY <1>1, <1>3 DEF Returns, Return, Goto, Frame
<1> QED
  BY <1>2, <1>3

(* and so are its sums.                                                    *)
LEMMA SpaceSums == SharedTypeOK => Taken \in Int /\ Limit \in Int
BY SpaceNumbers DEF Taken, Limit

(* SpaceInv is kept by a step in which what is taken does not grow.         *)
LEMMA SpaceKept ==
  ASSUME TypeInv, TypeInv', SpaceInv, maxSize' = maxSize,
         Spare(Candidates)' = Spare(Candidates),
         Spare(Unfinished)' <= Spare(Unfinished), Taken' <= Taken
  PROVE  SpaceInv'
<1>1. SharedTypeOK /\ SharedTypeOK'
  BY DEF TypeInv
<1>2. /\ Spare(Unfinished) \in Nat /\ Spare(Candidates) \in Nat
      /\ Spare(Unfinished)' \in Nat
  BY <1>1, SpaceNumbers, SpaceNumbersLater
<1>3. Taken \in Int /\ Limit \in Int
  BY <1>1, SpaceSums
<1>4. Taken' \in Int
  <2>1. (SharedTypeOK => Taken \in Int /\ Limit \in Int)'
    BY SpaceSums, PTL
  <2> QED
    BY <1>1, <2>1
<1>5. Spare(Unfinished) <= Spare(Candidates) /\ Taken <= Limit
  BY DEF SpaceInv
<1>6. Limit' = Limit
  BY DEF Limit
<1>7. Spare(Unfinished)' <= Spare(Candidates)
  BY <1>2, <1>5
<1>8. Taken' <= Limit
  BY <1>3, <1>4, <1>5
<1> QED
  BY <1>6, <1>7, <1>8 DEF SpaceInv

(* A step that adds neither an entry nor a pending key.                     *)
LEMMA SpaceShrinks ==
  ASSUME TypeInv, TypeInv', SpaceInv, maxSize' = maxSize,
         Spare(Candidates)' = Spare(Candidates),
         Spare(Unfinished)' <= Spare(Unfinished),
         Len(items') <= Len(items), Pending' \subseteq Pending
  PROVE  SpaceInv'
<1>1. Cardinality(Pending') <= Cardinality(Pending)
  BY SpaceNumbers, FS_Subset DEF TypeInv
<1>2. /\ Cardinality(Pending) \in Nat /\ Cardinality(Pending') \in Nat
      /\ Spare(Unfinished) \in Nat /\ Spare(Candidates) \in Nat
      /\ Spare(Unfinished)' \in Nat
      /\ Len(items) \in Nat /\ Len(items') \in Nat /\ maxSize \in Nat
      /\ Cardinality(Workers) \in Nat
  BY SpaceNumbers, SpaceNumbersLater DEF TypeInv
<1>3. Taken' <= Taken
  BY <1>1, <1>2 DEF Taken
<1> QED
  BY <1>3, SpaceKept

(* A step that neither adds an entry nor shows a new key, of a thread that  *)
(* inserts no more than it did.                                            *)
LEMMA QuietSpace ==
  ASSUME TypeInv, TypeInv', SpaceInv, NEW w \in Workers, at[w] # "idle",
         \/ \E point : Moves(w, point) /\ (point \in Evaluating => at[w] \in Evaluating)
         \/ \E outcome : Returns(w, outcome) /\ outcome # "none",
         Len(items') <= Len(items),
         \A k \in Keys : Present(items', k) => Present(items, k),
         Inserting(w)' => Inserting(w) /\ Key(w)' = Key(w)
  PROVE  SpaceInv'
<1>1. /\ batch' = batch /\ maxSize' = maxSize
      /\ \A v \in Workers \ {w} :
           task'[v] = task[v] /\ at'[v] = at[v] /\ size'[v] = size[v]
  BY OthersStay
<1>2. Pending' \subseteq Pending
  <2> SUFFICES ASSUME NEW k \in Pending', k \notin Pending PROVE FALSE
    OBVIOUS
  <2>1. k \in Keys
    BY DEF Pending
  <2>2. Inserting(w)' /\ Key(w)' = k
    BY <1>1, <2>1, PendingStep
  <2>3. Inserting(w) /\ Key(w) = k
    BY <2>2
  <2> QED
    BY <2>1, <2>3 DEF Pending
<1>3. Spare(Unfinished) \in Nat /\ Spare(Unfinished)' \in Nat
  BY SpaceNumbers, SpaceNumbersLater DEF TypeInv
<1>4. Spare(Candidates)' = Spare(Candidates) /\ Spare(Unfinished)' <= Spare(Unfinished)
  <2>1. CASE \E point : Moves(w, point) /\ (point \in Evaluating => at[w] \in Evaluating)
    BY <1>3, <2>1, MovesCounts
  <2>2. CASE \E outcome : Returns(w, outcome) /\ outcome # "none"
    <3>1. PICK outcome : Returns(w, outcome) /\ outcome # "none"
      BY <2>2
    <3>2. /\ Spare(Candidates)' = Spare(Candidates)
          /\ Spare(Unfinished)' = IF Key(w) \in KeysOf(Unfinished \ {task[w]})
                                  THEN Spare(Unfinished) - 1 ELSE Spare(Unfinished)
      BY <3>1, ReturnsCounts
    <3> QED
      BY <1>3, <3>2
  <2> QED
    BY <2>1, <2>2
<1> QED
  BY <1>1, <1>2, <1>4, SpaceShrinks

(* A store adds an entry, but then its thread is done: either the key is    *)
(* pending no more, or another unfinished candidate has it.                *)
LEMMA InsertSpace ==
  ASSUME TypeInv, TypeInv', SpaceInv, NEW w \in Workers, at[w] # "idle",
         Inserting(w), NEW outcome, outcome # "none", Returns(w, outcome),
         \A k \in Keys : Present(items', k) => Present(items, k) \/ k = Key(w),
         Len(items') <= Len(items) + 1
  PROVE  SpaceInv'
<1>1. /\ batch' = batch /\ maxSize' = maxSize
      /\ \A v \in Workers \ {w} :
           task'[v] = task[v] /\ at'[v] = at[v] /\ size'[v] = size[v]
  BY OthersStay
<1>2. at'[w] = "idle"
  BY DEF Returns, Return, Goto, TypeInv, SharedTypeOK
<1>3. ~Inserting(w)'
  BY <1>2 DEF Inserting
<1>4. Key(w) \in Pending
  BY TaskProperties DEF Pending
<1>5. Pending' \subseteq Pending
  <2> SUFFICES ASSUME NEW k \in Pending', k \notin Pending PROVE FALSE
    OBVIOUS
  <2>1. k \in Keys
    BY DEF Pending
  <2>2. k = Key(w)
    BY <1>1, <1>3, <2>1, PendingStep
  <2> QED
    BY <1>4, <2>2
<1>6. /\ Unfinished' = Unfinished \ {task[w]}
      /\ Spare(Unfinished)' = IF Key(w) \in KeysOf(Unfinished \ {task[w]})
                              THEN Spare(Unfinished) - 1 ELSE Spare(Unfinished)
      /\ Spare(Candidates)' = Spare(Candidates)
  BY ReturnsCounts
<1>7. Key(w) \in Pending' => Key(w) \in KeysOf(Unfinished \ {task[w]})
  <2> SUFFICES ASSUME Key(w) \in Pending'
               PROVE  Key(w) \in KeysOf(Unfinished \ {task[w]})
    OBVIOUS
  <2>1. PICK v \in Workers : Inserting(v)' /\ Key(v)' = Key(w)
    BY DEF Pending
  <2>2. v # w
    BY <1>3, <2>1
  <2>3. task'[v] = task[v] /\ at'[v] = at[v]
    BY <1>1, <2>2
  <2>4. at[v] # "idle"
    BY <2>1, <2>3 DEF Inserting
  <2>5. /\ task[v] \in Unfinished /\ Key(v) = batch[task[v]].key
        /\ task[v] # task[w]
    BY <2>2, <2>4, TaskProperties
  <2>6. Key(v) = Key(w)
    BY <1>1, <2>1, <2>3 DEF Key
  <2> QED
    BY <2>5, <2>6 DEF KeysOf
<1>8. /\ Cardinality(Pending) \in Nat /\ Cardinality(Pending') \in Nat
      /\ Spare(Unfinished) \in Nat /\ Spare(Candidates) \in Nat
      /\ Spare(Unfinished)' \in Nat
      /\ Len(items) \in Nat /\ Len(items') \in Nat /\ maxSize \in Nat
      /\ Cardinality(Workers) \in Nat
      /\ IsFiniteSet(Pending)
  BY SpaceNumbers, SpaceNumbersLater DEF TypeInv
<1>9. Cardinality(Pending') <= Cardinality(Pending)
  BY <1>5, <1>8, FS_Subset
<1>10. CASE Key(w) \in KeysOf(Unfinished \ {task[w]})
  <2>1. Spare(Unfinished)' = Spare(Unfinished) - 1
    BY <1>6, <1>10
  <2>2. Taken' <= Taken
    BY <1>8, <1>9, <2>1 DEF Taken
  <2>3. Spare(Unfinished)' <= Spare(Unfinished)
    BY <1>8, <2>1
  <2> QED
    BY <1>1, <1>6, <2>2, <2>3, SpaceKept
<1>11. CASE Key(w) \notin KeysOf(Unfinished \ {task[w]})
  <2>1. Pending' \in SUBSET (Pending \ {Key(w)})
    BY <1>5, <1>7, <1>11
  <2>2. IsFiniteSet(Pending \ {Key(w)}) /\ Cardinality(Pending \ {Key(w)}) = Cardinality(Pending) - 1
    BY <1>4, <1>8, FS_RemoveElement
  <2>3. Cardinality(Pending') <= Cardinality(Pending) - 1
    BY <2>1, <2>2, FS_Subset
  <2>4. Spare(Unfinished)' = Spare(Unfinished)
    BY <1>6, <1>11
  <2>5. Taken' <= Taken
    BY <1>8, <2>3, <2>4 DEF Taken
  <2>6. Spare(Unfinished)' <= Spare(Unfinished)
    BY <1>8, <2>4
  <2> QED
    BY <1>1, <1>6, <2>5, <2>6, SpaceKept
<1> QED
  BY <1>10, <1>11

(* An eviction makes room for the key that it makes pending.               *)
LEMMA PopSpace ==
  ASSUME TypeInv, TypeInv', SpaceInv, NEW w \in Workers, at[w] = "compare",
         Moves(w, "store"), Len(items') = Len(items) - 1,
         \A k \in Keys : Present(items', k) => Present(items, k)
  PROVE  SpaceInv'
<1>1. /\ batch' = batch /\ maxSize' = maxSize
      /\ \A v \in Workers \ {w} :
           task'[v] = task[v] /\ at'[v] = at[v] /\ size'[v] = size[v]
  BY OthersStay
<1>2. Key(w)' = Key(w)
  BY DEF Moves, Frame, Key
<1>3. Pending' \subseteq Pending \cup {Key(w)}
  <2> SUFFICES ASSUME NEW k \in Pending', k \notin Pending PROVE k = Key(w)
    OBVIOUS
  <2>1. k \in Keys
    BY DEF Pending
  <2> QED
    BY <1>1, <1>2, <2>1, PendingStep
<1>4. Spare(Unfinished)' = Spare(Unfinished) /\ Spare(Candidates)' = Spare(Candidates)
  BY MovesCounts DEF Evaluating
<1>5. /\ Cardinality(Pending) \in Nat /\ Cardinality(Pending') \in Nat
      /\ Spare(Unfinished) \in Nat /\ Spare(Candidates) \in Nat
      /\ Len(items) \in Nat /\ Len(items') \in Nat /\ maxSize \in Nat
      /\ Cardinality(Workers) \in Nat
      /\ IsFiniteSet(Pending)
  BY SpaceNumbers, SpaceNumbersLater DEF TypeInv
<1>6. Cardinality(Pending') <= Cardinality(Pending) + 1
  <2>1. /\ IsFiniteSet(Pending \cup {Key(w)})
        /\ Cardinality(Pending \cup {Key(w)}) <= Cardinality(Pending) + 1
    <3>1. /\ IsFiniteSet(Pending \cup {Key(w)})
          /\ Cardinality(Pending \cup {Key(w)})
               = IF Key(w) \in Pending THEN Cardinality(Pending) ELSE Cardinality(Pending) + 1
      BY <1>5, FS_AddElement
    <3> QED
      BY <1>5, <3>1
  <2>2. Cardinality(Pending') <= Cardinality(Pending \cup {Key(w)})
    BY <1>3, <2>1, FS_Subset
  <2>3. Cardinality(Pending \cup {Key(w)}) \in Nat
    BY <2>1, FS_CardinalityType
  <2> QED
    BY <1>5, <2>1, <2>2, <2>3
<1>7. Taken' <= Taken
  BY <1>4, <1>5, <1>6 DEF Taken
<1>8. Spare(Unfinished)' <= Spare(Unfinished)
  BY <1>4, <1>5
<1> QED
  BY <1>1, <1>4, <1>7, <1>8, SpaceKept

(* Threads that have read a length below maxsize: there is still room for   *)
(* all of them but one beyond it.                                          *)
LEMMA ReadLengthSpace ==
  ASSUME TypeInv, TypeInv', SpaceInv, NEW w \in Workers, at[w] = "put",
         Moves(w, "compare"), items' = items, size'[w] = Len(items),
         ~Present(items, Key(w))
  PROVE  SpaceInv'
<1>1. /\ batch' = batch /\ maxSize' = maxSize
      /\ \A v \in Workers \ {w} :
           task'[v] = task[v] /\ at'[v] = at[v] /\ size'[v] = size[v]
  BY OthersStay
<1>2. Key(w)' = Key(w) /\ at'[w] = "compare"
  BY DEF Moves, Frame, Key, Goto, TypeInv, SharedTypeOK
<1>3. Spare(Unfinished)' = Spare(Unfinished) /\ Spare(Candidates)' = Spare(Candidates)
  BY MovesCounts DEF Evaluating
<1>4. /\ Cardinality(Pending') \in Nat /\ Cardinality(Pending') <= Cardinality(Workers)
      /\ Spare(Unfinished) \in Nat /\ Spare(Candidates) \in Nat
      /\ Len(items) \in Nat /\ maxSize \in Nat /\ Cardinality(Workers) \in Nat
  BY SpaceNumbers, SpaceNumbersLater DEF TypeInv
<1>5. CASE Len(items) < maxSize
  <2>1. Taken' = Len(items) + Cardinality(Pending') + Spare(Unfinished)
    BY <1>3 DEF Taken
  <2>2. Limit' = maxSize + Cardinality(Workers) - 1 + Spare(Candidates)
    BY <1>1, <1>3 DEF Limit
  <2>3. Spare(Unfinished) <= Spare(Candidates)
    BY DEF SpaceInv
  <2>4. Taken' <= Limit'
    BY <1>4, <1>5, <2>1, <2>2, <2>3
  <2> QED
    BY <1>3, <2>3, <2>4 DEF SpaceInv
<1>6. CASE Len(items) >= maxSize
  <2>1. ~Inserting(w)'
    BY <1>1, <1>2, <1>4, <1>6 DEF Inserting
  <2> QED
    BY <1>4, <2>1, QuietSpace DEF Evaluating
<1> QED
  BY <1>4, <1>5, <1>6

-----------------------------------------------------------------------------
(* The room: kept entries and the evictions still to come.                 *)

(* A dictionary has the same keys after a move to the end.                 *)
LEMMA PresentAfterMove ==
  ASSUME NEW d \in DictOf(Keys, Costs), NEW q \in 1..Len(d), NEW k
  PROVE  Present(MoveToEnd(d, d[q].key), k) <=> Present(d, k)
<1> DEFINE n == Len(d)
           e == MoveToEnd(d, d[q].key)
<1>1. /\ Len(e) = n /\ n \in Nat /\ q \in 1..n
      /\ \A i \in 1..n : e[i] = IF i < q THEN d[i] ELSE IF i < n THEN d[i + 1] ELSE d[q]
  <2>1. n \in Nat
    BY LenProperties DEF DictOf
  <2>2. q \in 1..n
    OBVIOUS
  <2>3. LET f == MoveToEnd(d, d[q].key)
        IN  /\ f \in DictOf(Keys, Costs)
            /\ Len(f) = Len(d)
            /\ \A i \in 1..Len(d) : f[i] = IF i < q THEN d[i]
                                          ELSE IF i < Len(d) THEN d[i + 1] ELSE d[q]
    BY MoveToEndProperties
  <2> QED
    BY <2>1, <2>2, <2>3
<1> HIDE DEF n, e
<1>2. ASSUME NEW i \in 1..n PROVE \E j \in 1..n : e[j] = d[i]
  <2>1. CASE i < q
    BY <1>1, <2>1
  <2>2. CASE i = q
    <3>1. n \in 1..n /\ e[n] = d[q]
      BY <1>1
    <3> QED
      BY <2>2, <3>1
  <2>3. CASE i > q
    <3>1. i - 1 \in 1..n /\ ~(i - 1 < q) /\ i - 1 < n /\ (i - 1) + 1 = i
      BY <1>1, <2>3
    <3>2. e[i - 1] = d[i]
      BY <1>1, <3>1
    <3> QED
      BY <3>1, <3>2
  <2> QED
    BY <1>1, <2>1, <2>2, <2>3
<1>3. ASSUME NEW i \in 1..n PROVE \E j \in 1..n : e[i] = d[j]
  <2>1. CASE i < q
    BY <1>1, <2>1
  <2>2. CASE ~(i < q) /\ i < n
    <3>1. i + 1 \in 1..n /\ e[i] = d[i + 1]
      BY <1>1, <2>2
    <3> QED
      BY <3>1
  <2>3. CASE ~(i < q) /\ ~(i < n)
    BY <1>1, <2>3
  <2> QED
    BY <2>1, <2>2, <2>3
<1>4. Present(e, k) <=> Present(d, k)
  <2>1. Len(d) = n
    BY DEF n
  <2>2. Present(d, k) <=> \E i \in 1..n : d[i].key = k
    BY <2>1 DEF Present
  <2>3. Present(e, k) <=> \E i \in 1..n : e[i].key = k
    BY <1>1 DEF Present
  <2>4. ASSUME Present(d, k) PROVE Present(e, k)
    <3>1. PICK i \in 1..n : d[i].key = k
      BY <2>2, <2>4
    <3>2. PICK j \in 1..n : e[j] = d[i]
      BY <1>2
    <3> QED
      BY <2>3, <3>1, <3>2
  <2>5. ASSUME Present(e, k) PROVE Present(d, k)
    <3>1. PICK i \in 1..n : e[i].key = k
      BY <2>3, <2>5
    <3>2. PICK j \in 1..n : e[i] = d[j]
      BY <1>3
    <3> QED
      BY <2>2, <3>1, <3>2
  <2> QED
    BY <2>4, <2>5
<1> QED
  BY <1>4 DEF e

(* An assignment adds its key, at the end, and no other.                   *)
LEMMA PresentAfterAssign ==
  ASSUME NEW d \in DictOf(Keys, Costs), NEW j \in Keys, NEW c \in Costs, NEW k
  PROVE  /\ Assign(d, j, c) \in DictOf(Keys, Costs)
         /\ Present(Assign(d, j, c), k) <=> Present(d, k) \/ k = j
         /\ Len(Assign(d, j, c)) = IF Present(d, j) THEN Len(d) ELSE Len(d) + 1
         /\ \A i \in 1..Len(d) : Assign(d, j, c)[i].key = d[i].key
         /\ ~Present(d, j) => Assign(d, j, c)[Len(d) + 1].key = j
<1> DEFINE e == Assign(d, j, c)
<1>1. Len(d) \in Nat
  BY LenProperties DEF DictOf
<1>2. CASE Present(d, j)
  <2>1. PICK q \in 1..Len(d) : d[q].key = j
    BY <1>2 DEF Present
  <2>2. /\ e \in DictOf(Keys, Costs) /\ Len(e) = Len(d)
        /\ \A i \in 1..Len(d) : e[i].key = d[i].key
    <3>1. LET f == Assign(d, d[q].key, c)
          IN  /\ f \in DictOf(Keys, Costs) /\ Len(f) = Len(d)
              /\ \A i \in 1..Len(d) : /\ f[i].key = d[i].key
                                     /\ f[i].cost = IF i = q THEN c ELSE d[i].cost
      BY <2>1, AssignOldProperties
    <3> QED
      BY <2>1, <3>1
  <2> HIDE DEF e
  <2>3. Present(e, k) <=> Present(d, k)
    BY <2>2 DEF Present
  <2> QED
    BY <1>2, <2>2, <2>3 DEF e
<1>3. CASE ~Present(d, j)
  <2>1. /\ e \in DictOf(Keys, Costs) /\ Len(e) = Len(d) + 1
        /\ \A i \in 1..Len(d) : e[i] = d[i]
        /\ e[Len(d) + 1] = [key |-> j, cost |-> c]
    BY <1>3, AssignNewProperties
  <2> HIDE DEF e
  <2>2. Present(e, k) <=> Present(d, k) \/ k = j
    <3>1. \A i \in 1..Len(d) + 1 : i \in 1..Len(d) \/ i = Len(d) + 1
      BY <1>1
    <3>2. \A i \in 1..Len(d) : i \in 1..Len(d) + 1
      BY <1>1
    <3>3. Len(d) + 1 \in 1..Len(d) + 1
      BY <1>1
    <3> QED
      BY <2>1, <3>1, <3>2, <3>3 DEF Present
  <2> QED
    BY <1>3, <2>1, <2>2 DEF e
<1> QED
  BY <1>2, <1>3

(* The numbers of RoomInv are numbers.                                     *)
LEMMA RoomNumbers ==
  ASSUME TypeInv
  PROVE  /\ Cardinality(Ahead) \in Nat /\ Cardinality(Ahead) <= BatchSize
         /\ BatchSize \in Nat /\ maxSize \in Nat /\ maxSize >= 1
         /\ Len(items) \in Nat /\ items \in DictOf(Keys, Costs)
BY Basics, AheadProperties DEF TypeInv

(* Only the thread that steps changes what makes the cache hot.            *)
LEMMA HotStep ==
  ASSUME TypeInv, NEW w \in Workers,
         (\E point : Moves(w, point)) \/ (\E outcome : Returns(w, outcome))
  PROVE  /\ (\A k : Present(items, k) => Present(items', k))
              => (Hot' => Hot \/ Len(items') >= maxSize \/ HotAt(w)')
         /\ (\A k : Present(items, k) <=> Present(items', k))
              => (Hot => Hot' \/ Len(items) >= maxSize \/ HotAt(w))
<1>1. /\ batch' = batch /\ maxSize' = maxSize
      /\ \A v \in Workers \ {w} :
           task'[v] = task[v] /\ at'[v] = at[v] /\ size'[v] = size[v]
  BY OthersStay
<1>2. ASSUME \A k : Present(items, k) => Present(items', k), Hot',
             ~(Len(items') >= maxSize), ~HotAt(w)'
      PROVE  Hot
  <2>1. PICK v \in Workers : HotAt(v)'
    BY <1>1, <1>2 DEF Hot
  <2>2. v # w
    BY <1>2, <2>1
  <2>3. HotAt(v)
    BY <1>1, <1>2, <2>1, <2>2 DEF HotAt, Key
  <2> QED
    BY <2>3 DEF Hot
<1>3. ASSUME \A k : Present(items, k) <=> Present(items', k), Hot,
             ~(Len(items) >= maxSize), ~HotAt(w)
      PROVE  Hot'
  <2>1. PICK v \in Workers : HotAt(v)
    BY <1>3 DEF Hot
  <2>2. v # w
    BY <1>3, <2>1
  <2>3. HotAt(v)'
    BY <1>1, <1>3, <2>1, <2>2 DEF HotAt, Key
  <2> QED
    BY <2>3 DEF Hot
<1> QED
  BY <1>2, <1>3

(* And what is kept.                                                       *)
LEMMA KeptAfterMove ==
  ASSUME TypeInv, NEW w \in Workers, NEW point, Moves(w, point), NEW k, Kept(k)'
  PROVE  Kept(k) \/ (Key(w) = k /\ point \in {"read", "compare", "store"})
<1>1. /\ batch' = batch /\ results' = results /\ task' = task
      /\ at' = [at EXCEPT ![w] = point] /\ at \in [Workers -> Points]
  BY DEF Moves, Frame, Goto, TypeInv, SharedTypeOK, Points, Evaluating
<1>2. CASE \E i \in Candidates' : batch'[i].key = k /\ results'[i] \in {"old", "new"}
  BY <1>1, <1>2 DEF Kept, Candidates, BatchSize
<1>3. CASE \E v \in Workers : Key(v)' = k /\ at'[v] \in {"read", "compare", "store"}
  <2>1. PICK v \in Workers : Key(v)' = k /\ at'[v] \in {"read", "compare", "store"}
    BY <1>3
  <2>2. Key(v) = k
    BY <1>1, <2>1 DEF Key
  <2>3. CASE v = w
    BY <1>1, <2>1, <2>2, <2>3
  <2>4. CASE v # w
    BY <1>1, <2>1, <2>2, <2>4 DEF Kept
  <2> QED
    BY <2>3, <2>4
<1> QED
  BY <1>2, <1>3 DEF Kept

(* A key kept after a task was kept before it, or is the task's own.       *)
LEMMA KeptAfterReturn ==
  ASSUME TypeInv, NEW w \in Workers, at[w] # "idle", NEW outcome, Returns(w, outcome),
         NEW k, Kept(k)'
  PROVE  Kept(k) \/ (Key(w) = k /\ outcome \in {"old", "new"})
<1>1. /\ batch' = batch /\ results' = [results EXCEPT ![task[w]] = outcome]
      /\ task' = [task EXCEPT ![w] = 0]
      /\ at' = [at EXCEPT ![w] = "idle"] /\ at \in [Workers -> Points]
      /\ task \in [Workers -> 0..BatchSize]
      /\ results \in [Candidates -> Answers \cup {"none", "KeyError"}]
  BY DEF Returns, Return, Frame, Goto, TypeInv, SharedTypeOK, Points, Evaluating
<1>2. CASE \E i \in Candidates' : batch'[i].key = k /\ results'[i] \in {"old", "new"}
  <2>1. PICK i \in Candidates : batch[i].key = k /\ results'[i] \in {"old", "new"}
    BY <1>1, <1>2 DEF Candidates, BatchSize
  <2>2. CASE i = task[w]
    BY <1>1, <2>1, <2>2 DEF Key
  <2>3. CASE i # task[w]
    BY <1>1, <2>1, <2>3 DEF Kept
  <2> QED
    BY <2>2, <2>3
<1>3. CASE \E v \in Workers : Key(v)' = k /\ at'[v] \in {"read", "compare", "store"}
  <2>1. PICK v \in Workers : Key(v)' = k /\ at'[v] \in {"read", "compare", "store"}
    BY <1>3
  <2>2. v # w
    BY <1>1, <2>1
  <2>3. Key(v) = k /\ at[v] \in {"read", "compare", "store"}
    BY <1>1, <2>1, <2>2 DEF Key
  <2> QED
    BY <2>3 DEF Kept
<1> QED
  BY <1>2, <1>3 DEF Kept

(* The cache is not touched and nothing that is in it comes to be kept.     *)
LEMMA SameRoom ==
  ASSUME TypeInv, HotInv, PlaceInv, maxSize >= BatchSize,
         items' = items, maxSize' = maxSize, BatchSize' = BatchSize,
         Cardinality(Ahead') \in {Cardinality(Ahead), Cardinality(Ahead) - 1},
         Hot' <=> Hot,
         \A k \in Keys : Kept(k)' /\ Present(items, k) => Kept(k)
  PROVE  HotInv' /\ PlaceInv'
<1>1. HotInv'
  BY RoomNumbers DEF HotInv
<1>2. ASSUME NEW k \in Keys, Kept(k)', NEW p \in 1..Len(items), items[p].key = k
      PROVE  IF Hot' THEN Cardinality(Ahead') < p
                     ELSE Len(items) - p + Cardinality(Ahead') < maxSize
  <2>1. Kept(k)
    BY <1>2 DEF Present
  <2>2. IF Hot THEN Cardinality(Ahead) < p
               ELSE Len(items) - p + Cardinality(Ahead) < maxSize
    BY <1>2, <2>1 DEF PlaceInv
  <2>3. CASE Hot
    BY <2>2, <2>3, RoomNumbers
  <2>4. CASE ~Hot
    BY <2>2, <2>4, RoomNumbers
  <2> QED
    BY <2>3, <2>4
<1> QED
  BY <1>1, <1>2 DEF PlaceInv

(* A hit makes its entry the newest, and every other one a place older; its *)
(* thread will not evict any more.                                         *)
LEMMA RefreshRoom ==
  ASSUME TypeInv, HotInv, PlaceInv, maxSize >= BatchSize,
         NEW w \in Workers, NEW q \in 1..Len(items), items[q].key = Key(w),
         items' = MoveToEnd(items, Key(w)), maxSize' = maxSize, BatchSize' = BatchSize,
         Cardinality(Ahead') = Cardinality(Ahead) - 1, Hot' <=> Hot,
         \A k \in Keys : Kept(k)' => Kept(k) \/ k = Key(w)
  PROVE  HotInv' /\ PlaceInv'
<1> DEFINE n == Len(items)
           a == Cardinality(Ahead)
<1>1. /\ a \in Nat /\ a <= BatchSize /\ BatchSize \in Nat /\ maxSize \in Nat
      /\ n \in Nat /\ items \in DictOf(Keys, Costs) /\ q \in 1..n
  BY RoomNumbers
<1>2. /\ Len(items') = n
      /\ \A i \in 1..n : items'[i] = IF i < q THEN items[i]
                                     ELSE IF i < n THEN items[i + 1] ELSE items[q]
  BY <1>1, MoveToEndProperties
<1>3. HotInv'
  BY <1>1, <1>2 DEF HotInv
<1>4. ASSUME NEW k \in Keys, Kept(k)', NEW p \in 1..n, items'[p].key = k
      PROVE  IF Hot' THEN a - 1 < p ELSE n - p + (a - 1) < maxSize
  <2>1. CASE k = Key(w)
    <3>1. p = n
      <4>1. \A i, j \in 1..n : items[i].key = items[j].key => i = j
        BY <1>1 DEF DictOf
      <4>2. ASSUME p < q PROVE FALSE
        BY <1>1, <1>2, <1>4, <2>1, <4>1, <4>2
      <4>3. ASSUME p >= q, p < n PROVE FALSE
        <5>1. p + 1 \in 1..n /\ p + 1 # q /\ items'[p] = items[p + 1]
          BY <1>1, <1>2, <4>3
        <5> QED
          BY <1>4, <2>1, <4>1, <5>1
      <4> QED
        BY <1>1, <4>2, <4>3
    <3>2. CASE Hot
      <4>1. n - a >= maxSize - BatchSize
        BY <3>2 DEF HotInv
      <4> HIDE DEF n, a
      <4> QED
        BY <1>1, <3>1, <3>2, <4>1
    <3>3. CASE ~Hot
      <4> HIDE DEF n, a
      <4> QED
        BY <1>1, <3>1, <3>3
    <3> QED
      BY <3>2, <3>3
  <2>2. CASE k # Key(w)
    <3>1. Kept(k)
      BY <1>4, <2>2
    <3>2. PICK j \in {p, p + 1} : j \in 1..n /\ items[j].key = k
      <4>1. CASE p < q
        BY <1>2, <1>4, <4>1
      <4>2. CASE p >= q /\ p < n
        BY <1>1, <1>2, <1>4, <4>2
      <4>3. CASE p >= q /\ p >= n
        BY <1>1, <1>2, <1>4, <2>2, <4>3
      <4> QED
        BY <1>1, <4>1, <4>2, <4>3
    <3>3. IF Hot THEN a < j ELSE n - j + a < maxSize
      BY <3>1, <3>2 DEF PlaceInv
    <3> HIDE DEF n, a
    <3>4. j = p \/ j = p + 1
      BY <3>2
    <3>5. CASE Hot
      BY <1>1, <3>3, <3>4, <3>5
    <3>6. CASE ~Hot
      BY <1>1, <3>3, <3>4, <3>6
    <3> QED
      BY <3>5, <3>6
  <2> QED
    BY <2>1, <2>2
<1> QED
  BY <1>2, <1>3, <1>4 DEF PlaceInv

(* A store puts a new entry last, or keeps the places as they are.         *)
LEMMA InsertRoom ==
  ASSUME TypeInv, HotInv, PlaceInv, maxSize >= BatchSize,
         NEW w \in Workers, Key(w) \in Keys, items' = Assign(items, Key(w), "new"),
         maxSize' = maxSize, BatchSize' = BatchSize,
         \/ Cardinality(Ahead') = Cardinality(Ahead) - 1
         \/ Cardinality(Ahead') = Cardinality(Ahead) /\ (Hot \/ Present(items, Key(w))),
         Cardinality(Ahead') < BatchSize,
         Hot' => Hot \/ Len(items') >= maxSize,
         Present(items, Key(w)) => (Hot => Hot'),
         \A k \in Keys : Kept(k)' => Kept(k) \/ k = Key(w),
         Present(items, Key(w)) => Kept(Key(w))
  PROVE  HotInv' /\ PlaceInv'
<1> DEFINE n == Len(items)
           a == Cardinality(Ahead)
           b == Cardinality(Ahead')
           m == Len(items')
           old == Present(items, Key(w))
<1>1. /\ a \in Nat /\ a <= BatchSize /\ BatchSize \in Nat /\ maxSize \in Nat
      /\ n \in Nat /\ items \in DictOf(Keys, Costs)
      /\ b = a - 1 \/ b = a
      /\ b = a - 1 \/ Hot \/ old
      /\ b < BatchSize
  BY RoomNumbers
<1>2. "new" \in Costs
  BY DEF Costs
<1>3. /\ m = IF old THEN n ELSE n + 1
      /\ \A i \in 1..n : items'[i].key = items[i].key
      /\ ~old => items'[n + 1].key = Key(w)
  BY <1>1, <1>2, PresentAfterAssign
<1>4. Hot => n - a >= maxSize - BatchSize
  BY DEF HotInv
<1>5. (~Hot => n < maxSize) /\ (~Hot' => m < maxSize)
  <2>1. Len(items') \in Nat
    BY <1>1, <1>3
  <2> QED
    BY <1>1, <2>1 DEF Hot
<1>6. ASSUME NEW k \in Keys, Kept(k), NEW p \in 1..n, items[p].key = k
      PROVE  IF Hot THEN a < p ELSE n - p + a < maxSize
  BY <1>6 DEF PlaceInv
<1>7. old => \E p \in 1..n : items[p].key = Key(w)
  BY DEF Present
<1>8. ~old => \A p \in 1..n : items[p].key # Key(w)
  BY DEF Present
<1> HIDE DEF n, a, b, m, old
<1>9. HotInv'
  <2>1. ASSUME Hot' PROVE m - b >= maxSize - BatchSize
    <3>1. CASE Hot
      BY <1>1, <1>3, <1>4, <3>1
    <3>2. CASE ~Hot
      <4>1. m >= maxSize
        BY <2>1, <3>2 DEF m
      <4> QED
        BY <1>1, <1>3, <4>1
    <3> QED
      BY <3>1, <3>2
  <2> QED
    BY <2>1 DEF HotInv, m, b
<1>10. ASSUME NEW k \in Keys, Kept(k)', NEW p \in 1..m, items'[p].key = k
       PROVE  IF Hot' THEN b < p ELSE m - p + b < maxSize
  <2>1. CASE old
    <3>1. p \in 1..n /\ items[p].key = k /\ m = n
      BY <1>3, <1>10, <2>1
    <3>2. Kept(k)
      BY <1>10, <2>1 DEF old
    <3>3. Hot' <=> Hot
      <4>1. n >= maxSize => Hot
        BY DEF Hot, n
      <4> QED
        BY <2>1, <3>1, <4>1 DEF old, m
    <3>4. CASE Hot
      BY <1>1, <1>6, <3>1, <3>2, <3>3, <3>4
    <3>5. CASE ~Hot
      BY <1>1, <1>6, <3>1, <3>2, <3>3, <3>5
    <3> QED
      BY <3>4, <3>5
  <2>2. CASE ~old /\ p <= n
    <3>1. p \in 1..n /\ items[p].key = k /\ m = n + 1
      BY <1>1, <1>3, <1>10, <2>2
    <3>2. Kept(k)
      BY <1>8, <1>10, <2>2, <3>1
    <3>3. CASE Hot
      <4>1. a < p
        BY <1>6, <3>1, <3>2, <3>3
      <4>2. CASE Hot'
        BY <1>1, <3>1, <4>1, <4>2
      <4>3. CASE ~Hot'
        BY <1>1, <1>5, <3>1, <4>1, <4>3
      <4> QED
        BY <4>2, <4>3
    <3>4. CASE ~Hot
      <4>1. n - p + a < maxSize /\ b = a - 1 /\ n < maxSize
        BY <1>1, <1>5, <1>6, <2>2, <3>1, <3>2, <3>4
      <4>2. CASE Hot'
        <5>1. m >= maxSize
          BY <3>4, <4>2 DEF m
        <5> QED
          BY <1>1, <3>1, <4>1, <4>2, <5>1
      <4>3. CASE ~Hot'
        BY <1>1, <3>1, <4>1, <4>3
      <4> QED
        BY <4>2, <4>3
    <3> QED
      BY <3>3, <3>4
  <2>3. CASE ~old /\ p > n
    <3>1. m = n + 1 /\ p = n + 1
      BY <1>1, <1>3, <1>10, <2>3
    <3>2. CASE Hot' /\ Hot
      BY <1>1, <1>4, <3>1, <3>2
    <3>3. CASE Hot' /\ ~Hot
      <4>1. m >= maxSize
        BY <3>3 DEF m
      <4> QED
        BY <1>1, <3>1, <3>3, <4>1
    <3>4. CASE ~Hot'
      BY <1>1, <3>1, <3>4
    <3> QED
      BY <3>2, <3>3, <3>4
  <2> QED
    BY <1>1, <2>1, <2>2, <2>3
<1> QED
  BY <1>9, <1>10 DEF PlaceInv, m, b

(* Its thread's candidate is among those that may evict.                   *)
LEMMA AheadPositive ==
  ASSUME TypeInv, NEW w \in Workers, at[w] \in Evaluating
  PROVE  Cardinality(Ahead) >= 1
<1>1. task[w] \in Ahead
  BY TaskProperties DEF Ahead, Evaluating
<1>2. Cardinality(Ahead) # 0
  BY <1>1, AheadProperties, FS_EmptySet DEF TypeInv
<1> QED
  BY <1>2, RoomNumbers

(* An eviction takes every kept entry a place nearer to the end, and there  *)
(* is one eviction less to come.                                           *)
LEMMA PopRoom ==
  ASSUME TypeInv, HotInv, PlaceInv, maxSize >= BatchSize, Hot,
         items # <<>>, items' = PopOldest(items),
         maxSize' = maxSize, BatchSize' = BatchSize,
         Cardinality(Ahead) >= 1, Cardinality(Ahead') = Cardinality(Ahead) - 1,
         \A k \in Keys : Kept(k)' => Kept(k)
  PROVE  /\ HotInv' /\ PlaceInv'
         /\ \A k \in Keys : Kept(k) /\ Present(items, k) => Present(items', k)
<1> DEFINE n == Len(items)
           a == Cardinality(Ahead)
<1>1. /\ a \in Nat /\ a <= BatchSize /\ BatchSize \in Nat /\ maxSize \in Nat
      /\ n \in Nat \ {0} /\ items \in DictOf(Keys, Costs)
      /\ Len(items') = n - 1 /\ \A i \in 1..n - 1 : items'[i] = items[i + 1]
  BY RoomNumbers, PopOldestProperties
<1>2. a >= 1 /\ n - a >= maxSize - BatchSize
  BY DEF HotInv
<1>3. ASSUME NEW k \in Keys, Kept(k), NEW p \in 1..n, items[p].key = k
      PROVE  a < p
  BY <1>3 DEF PlaceInv
<1>4. ~Hot' => Len(items') < maxSize
  BY <1>1 DEF Hot
<1> HIDE DEF n, a
<1>5. HotInv'
  BY <1>1, <1>2 DEF HotInv, a, n
<1>6. ASSUME NEW k \in Keys, Kept(k)', NEW p \in 1..n - 1, items'[p].key = k
      PROVE  IF Hot' THEN a - 1 < p ELSE n - 1 - p + (a - 1) < maxSize
  <2>1. p + 1 \in 1..n /\ items[p + 1].key = k
    BY <1>1, <1>6
  <2>2. a < p + 1
    BY <1>3, <1>6, <2>1
  <2>3. CASE Hot'
    BY <1>1, <2>2, <2>3
  <2>4. CASE ~Hot'
    BY <1>1, <1>4, <2>2, <2>4
  <2> QED
    BY <2>3, <2>4
<1>7. PlaceInv'
  BY <1>1, <1>6 DEF PlaceInv, a
<1>8. ASSUME NEW k \in Keys, Kept(k), Present(items, k) PROVE Present(items', k)
  <2>1. PICK p \in 1..n : items[p].key = k
    BY <1>8 DEF Present, n
  <2>2. a < p
    BY <1>3, <1>8, <2>1
  <2>3. p - 1 \in 1..n - 1 /\ (p - 1) + 1 = p
    BY <1>1, <1>2, <2>1, <2>2
  <2>4. items'[p - 1] = items[p]
    BY <1>1, <2>3
  <2> QED
    BY <1>1, <2>1, <2>3, <2>4 DEF Present
<1> QED
  BY <1>5, <1>7, <1>8

(* What is kept stays present if the step leaves it and adds its own.      *)
LEMMA PresentMoves ==
  ASSUME TypeInv, PresentInv, NEW w \in Workers, NEW point, Moves(w, point),
         \A k \in Keys : Kept(k) /\ Present(items, k) => Present(items', k),
         point = "read" => at[w] # "idle" /\ Present(items', Key(w))
  PROVE  PresentInv'
<1>1. /\ batch' = batch /\ results' = results /\ task' = task
      /\ at' = [at EXCEPT ![w] = point] /\ at \in [Workers -> Points]
      /\ Candidates' = Candidates
  BY DEF Moves, Frame, Goto, TypeInv, SharedTypeOK, Points, Evaluating, Candidates, BatchSize
<1>2. ASSUME NEW i \in Candidates
      PROVE  /\ results[i] # "KeyError"
             /\ results[i] \in {"old", "new"} => Present(items', batch[i].key)
  <2>1. batch[i].key \in Keys
    BY Basics DEF TypeInv
  <2> QED
    BY <2>1 DEF PresentInv, Kept
<1>3. ASSUME NEW v \in Workers, at'[v] = "read" PROVE Present(items', Key(v))
  <2>1. CASE v = w
    BY <1>1, <1>3, <2>1
  <2>2. CASE v # w
    <3>1. at[v] = "read"
      BY <1>1, <1>3, <2>2
    <3>2. Key(v) \in Keys /\ Kept(Key(v)) /\ Present(items, Key(v))
      BY <3>1, TaskProperties DEF Kept, PresentInv
    <3> QED
      BY <3>2
  <2> QED
    BY <2>1, <2>2
<1> QED
  BY <1>1, <1>2, <1>3 DEF PresentInv, Key

(* A task ends without a result of the batch leaving the cache.            *)
LEMMA PresentReturns ==
  ASSUME TypeInv, PresentInv, NEW w \in Workers, at[w] # "idle",
         NEW outcome, Returns(w, outcome), outcome # "KeyError",
         \A k \in Keys : Kept(k) /\ Present(items, k) => Present(items', k),
         outcome \in {"old", "new"} => Present(items', Key(w))
  PROVE  PresentInv'
<1>1. /\ batch' = batch /\ results' = [results EXCEPT ![task[w]] = outcome]
      /\ task' = [task EXCEPT ![w] = 0] /\ task \in [Workers -> 0..BatchSize]
      /\ at' = [at EXCEPT ![w] = "idle"] /\ at \in [Workers -> Points]
      /\ results \in [Candidates -> Answers \cup {"none", "KeyError"}]
      /\ Candidates' = Candidates
  BY DEF Returns, Return, Frame, Goto, TypeInv, SharedTypeOK, Points, Evaluating,
    Candidates, BatchSize
<1>2. ASSUME NEW i \in Candidates
      PROVE  /\ results'[i] # "KeyError"
             /\ results'[i] \in {"old", "new"} => Present(items', batch[i].key)
  <2>1. batch[i].key \in Keys
    BY Basics DEF TypeInv
  <2>2. CASE i = task[w]
    BY <1>1, <2>2 DEF Key
  <2>3. CASE i # task[w]
    BY <1>1, <2>1, <2>3 DEF PresentInv, Kept
  <2> QED
    BY <2>2, <2>3
<1>3. ASSUME NEW v \in Workers, at'[v] = "read" PROVE Present(items', Key(v)')
  <2>1. v # w /\ at[v] = "read"
    BY <1>1, <1>3
  <2>2. Key(v) \in Keys /\ Kept(Key(v)) /\ Present(items, Key(v))
    BY <2>1, TaskProperties DEF Kept, PresentInv
  <2>3. Key(v)' = Key(v)
    BY <1>1, <2>1 DEF Key
  <2> QED
    BY <2>2, <2>3
<1> QED
  BY <1>1, <1>2, <1>3 DEF PresentInv, Key


-----------------------------------------------------------------------------
(* The steps.                                                              *)

(* A hit, of a lookup or of a put.                                         *)
LEMMA HitKeeps ==
  ASSUME SharedInv, NEW w \in Workers, NEW point,
         \/ at[w] = "lookup" /\ point = "read"
         \/ at[w] = "put" /\ point = "store",
         Moves(w, point), Present(items, Key(w)), items' = MoveToEnd(items, Key(w))
  PROVE  SharedInv'
<1>1. /\ TypeInv /\ SpaceInv /\ RoomInv
      /\ at[w] # "idle" /\ at[w] \in Evaluating /\ point \notin Evaluating
      /\ point \in Points \ {"idle"} /\ point \in {"read", "store"}
  BY DEF SharedInv, Points, Evaluating
<1>2. PICK q \in 1..Len(items) : items[q].key = Key(w)
  BY DEF Present
<1>3. items \in DictOf(Keys, Costs) /\ Len(items) \in Nat
  BY <1>1, RoomNumbers
<1>4. items' \in DictOf(Keys, Costs) /\ Len(items') = Len(items)
  <2>1. items' = MoveToEnd(items, items[q].key)
    BY <1>2
  <2> QED
    BY <1>3, <2>1, MoveToEndProperties
<1>5. \A k : Present(items', k) <=> Present(items, k)
  <2>1. items' = MoveToEnd(items, items[q].key)
    BY <1>2
  <2> QED
    BY <1>3, <2>1, PresentAfterMove
<1>6. point \in {"put", "compare", "store"} => batch[task[w]].cost = "new"
  BY <1>1 DEF TypeInv, TaskInv, Points, Evaluating
<1>7. TypeInv'
  BY <1>1, <1>4, <1>6, MovesKeepsTypes
<1>8. at'[w] = point /\ Key(w)' = Key(w) /\ maxSize' = maxSize
  BY <1>1 DEF Moves, Frame, Goto, Key, TypeInv, SharedTypeOK
<1>9. SpaceInv'
  <2>1. Inserting(w)' => Inserting(w)
    <3>1. CASE at[w] = "lookup" /\ point = "read"
      BY <1>8, <3>1 DEF Inserting
    <3>2. CASE at[w] = "put" /\ point = "store"
      BY <3>2 DEF Inserting
    <3> QED
      BY <3>1, <3>2
  <2>2. Len(items') <= Len(items)
    BY <1>3, <1>4
  <2> QED
    BY <1>1, <1>5, <1>7, <1>8, <2>1, <2>2, QuietSpace
<1>10. RoomInv'
  <2>1. BatchSize' = BatchSize /\ Cardinality(Ahead') = Cardinality(Ahead) - 1
    BY <1>1, MovesCounts
  <2> SUFFICES ASSUME maxSize >= BatchSize
               PROVE  HotInv' /\ PlaceInv' /\ PresentInv'
    BY <1>8, <2>1 DEF RoomInv
  <2>2. HotInv /\ PlaceInv /\ PresentInv
    BY <1>1 DEF RoomInv
  <2>3. ~HotAt(w) /\ ~HotAt(w)'
    BY <1>5, <1>8 DEF HotAt
  <2>4. Hot' <=> Hot
    <3>1. Len(items') >= maxSize => Hot
      BY <1>4 DEF Hot
    <3>2. Len(items) >= maxSize => Hot'
      BY <1>4, <1>8 DEF Hot
    <3> QED
      BY <1>1, <1>5, <2>3, <3>1, <3>2, HotStep
  <2>5. \A k \in Keys : Kept(k)' => Kept(k) \/ k = Key(w)
    BY <1>1, KeptAfterMove
  <2>6. HotInv' /\ PlaceInv'
    BY <1>1, <1>2, <1>8, <2>1, <2>2, <2>4, <2>5, RefreshRoom
  <2>7. PresentInv'
    BY <1>1, <1>5, <2>2, PresentMoves
  <2> QED
    BY <2>6, <2>7
<1> QED
  BY <1>7, <1>9, <1>10 DEF SharedInv

(* A step on the way to the store that leaves the cache alone.             *)
LEMMA MissKeeps ==
  ASSUME SharedInv, NEW w \in Workers, NEW point,
         \/ at[w] = "lookup" /\ point = "evaluate" /\ ~Present(items, Key(w))
         \/ at[w] = "evaluate" /\ point = "put" /\ batch[task[w]].cost = "new"
         \/ /\ at[w] = "put" /\ point = "compare" /\ ~Present(items, Key(w))
            /\ size'[w] = Len(items),
         Moves(w, point), items' = items
  PROVE  SharedInv'
<1>1. /\ TypeInv /\ SpaceInv /\ RoomInv
      /\ at[w] # "idle" /\ at[w] \in Evaluating /\ point \in Evaluating
      /\ point \in Points \ {"idle"}
  BY DEF SharedInv, Points, Evaluating
<1>2. items' \in DictOf(Keys, Costs) /\ Len(items) \in Nat
  BY <1>1, RoomNumbers
<1>3. point \in {"put", "compare", "store"} => batch[task[w]].cost = "new"
  BY <1>1 DEF TypeInv, TaskInv, Points, Evaluating
<1>4. TypeInv'
  BY <1>1, <1>2, <1>3, MovesKeepsTypes
<1>5. at'[w] = point /\ Key(w)' = Key(w) /\ maxSize' = maxSize
  BY <1>1 DEF Moves, Frame, Goto, Key, TypeInv, SharedTypeOK
<1>6. SpaceInv'
  <2>1. CASE at[w] = "lookup" /\ point = "evaluate" /\ ~Present(items, Key(w))
    <3>1. ~Inserting(w)'
      BY <1>5, <2>1 DEF Inserting
    <3> QED
      BY <1>1, <1>2, <1>4, <3>1, QuietSpace
  <2>2. CASE at[w] = "evaluate" /\ point = "put"
    <3>1. Inserting(w)' => Inserting(w)
      BY <1>5, <2>2 DEF Inserting
    <3> QED
      BY <1>1, <1>2, <1>4, <1>5, <3>1, QuietSpace
  <2>3. CASE at[w] = "put" /\ point = "compare"
    BY <1>1, <1>4, <2>3, ReadLengthSpace
  <2> QED
    BY <2>1, <2>2, <2>3
<1>7. RoomInv'
  <2>1. BatchSize' = BatchSize /\ Cardinality(Ahead') = Cardinality(Ahead)
    BY <1>1, MovesCounts
  <2> SUFFICES ASSUME maxSize >= BatchSize
               PROVE  HotInv' /\ PlaceInv' /\ PresentInv'
    BY <1>5, <2>1 DEF RoomInv
  <2>2. HotInv /\ PlaceInv /\ PresentInv
    BY <1>1 DEF RoomInv
  <2>3. ~HotAt(w)
    BY DEF HotAt
  <2>4. HotAt(w)' => Len(items) >= maxSize
    BY <1>5 DEF HotAt
  <2>5. Hot' <=> Hot
    <3>1. Len(items) >= maxSize => Hot /\ Hot'
      BY <1>5 DEF Hot
    <3> QED
      BY <1>1, <2>3, <2>4, <3>1, HotStep
  <2>6. \A k \in Keys : Kept(k)' /\ Present(items, k) => Kept(k)
    BY <1>1, KeptAfterMove
  <2>7. HotInv' /\ PlaceInv'
    BY <1>1, <1>5, <2>1, <2>2, <2>5, <2>6, SameRoom
  <2>8. point # "read"
    BY <1>1 DEF Evaluating
  <2>9. PresentInv'
    BY <1>1, <2>2, <2>8, PresentMoves
  <2> QED
    BY <2>7, <2>9
<1> QED
  BY <1>4, <1>6, <1>7 DEF SharedInv

(* An outcome that leaves the cache alone; an exception only where the      *)
(* cache is too small.                                                     *)
LEMMA OutcomeKeeps ==
  ASSUME SharedInv, NEW w \in Workers, at[w] # "idle",
         NEW outcome \in Answers \cup {"KeyError"},
         outcome = "KeyError" => maxSize < BatchSize,
         outcome # "KeyError" => at[w] \in {"read", "evaluate"},
         outcome \in {"old", "new"} => at[w] = "read" /\ Present(items, Key(w)),
         Returns(w, outcome), items' = items
  PROVE  SharedInv'
<1>1. TypeInv /\ SpaceInv /\ RoomInv /\ outcome # "none"
  BY DEF SharedInv, Answers
<1>2. /\ items' \in DictOf(Keys, Costs) /\ Len(items) \in Nat
      /\ BatchSize \in Nat /\ maxSize \in Nat
  BY <1>1, RoomNumbers
<1>3. TypeInv'
  BY <1>1, <1>2, ReturnsKeepsTypes
<1>4. at'[w] = "idle" /\ maxSize' = maxSize
  BY <1>1 DEF Returns, Return, Frame, Goto, TypeInv, SharedTypeOK
<1>5. SpaceInv'
  <2>1. ~Inserting(w)'
    BY <1>4 DEF Inserting
  <2> QED
    BY <1>1, <1>2, <1>3, <2>1, QuietSpace
<1>6. RoomInv'
  <2>1. /\ BatchSize' = BatchSize
        /\ Cardinality(Ahead') \in {Cardinality(Ahead), Cardinality(Ahead) - 1}
    BY <1>1, ReturnsCounts
  <2> SUFFICES ASSUME maxSize >= BatchSize
               PROVE  HotInv' /\ PlaceInv' /\ PresentInv'
    BY <1>4, <2>1 DEF RoomInv
  <2>2. HotInv /\ PlaceInv /\ PresentInv /\ outcome # "KeyError"
    BY <1>1, <1>2 DEF RoomInv
  <2>3. ~HotAt(w) /\ ~HotAt(w)'
    BY <1>4, <2>2 DEF HotAt
  <2>4. Hot' <=> Hot
    <3>1. Len(items) >= maxSize => Hot /\ Hot'
      BY <1>4 DEF Hot
    <3> QED
      BY <1>1, <2>3, <3>1, HotStep
  <2>5. \A k \in Keys : Kept(k)' /\ Present(items, k) => Kept(k)
    BY <1>1, KeptAfterReturn DEF Kept
  <2>6. HotInv' /\ PlaceInv'
    BY <1>1, <1>4, <2>1, <2>2, <2>4, <2>5, SameRoom
  <2>7. PresentInv'
    BY <1>1, <2>2, PresentReturns
  <2> QED
    BY <2>6, <2>7
<1> QED
  BY <1>3, <1>5, <1>6 DEF SharedInv

(* The store at the end of a put.                                          *)
LEMMA StoreKeeps ==
  ASSUME SharedInv, NEW w \in Workers,
         at[w] = "store" \/ (at[w] = "compare" /\ size[w] < maxSize),
         Insert(w), Frame(w)
  PROVE  SharedInv'
<1>1. TypeInv /\ SpaceInv /\ RoomInv /\ at[w] # "idle"
  BY DEF SharedInv
<1>2. /\ items \in DictOf(Keys, Costs) /\ Len(items) \in Nat
      /\ Key(w) \in Keys /\ maxSize \in Nat
  BY <1>1, RoomNumbers, TaskProperties
<1>3. items' = Assign(items, Key(w), "new") /\ Returns(w, "new")
  <2>1. batch[task[w]].cost = "new"
    BY <1>1 DEF TypeInv, TaskInv
  <2> QED
    BY <2>1 DEF Insert, Returns
<1>4. /\ items' \in DictOf(Keys, Costs)
      /\ Len(items') = IF Present(items, Key(w)) THEN Len(items) ELSE Len(items) + 1
      /\ \A k : Present(items', k) <=> Present(items, k) \/ k = Key(w)
  BY <1>2, <1>3, PresentAfterAssign DEF Costs
<1>5. TypeInv'
  BY <1>1, <1>3, <1>4, ReturnsKeepsTypes DEF Answers
<1>6. at'[w] = "idle" /\ maxSize' = maxSize
  BY <1>1, <1>3 DEF Returns, Return, Frame, Goto, TypeInv, SharedTypeOK
<1>7. SpaceInv'
  <2>1. Inserting(w) /\ Len(items') <= Len(items) + 1
    BY <1>2, <1>4 DEF Inserting
  <2> QED
    BY <1>1, <1>3, <1>4, <1>5, <2>1, InsertSpace
<1>8. RoomInv'
  <2>1. /\ BatchSize' = BatchSize /\ Cardinality(Ahead') < BatchSize
        /\ Cardinality(Ahead') = IF at[w] \in Evaluating
                                 THEN Cardinality(Ahead) - 1 ELSE Cardinality(Ahead)
    BY <1>1, <1>3, ReturnsCounts
  <2> SUFFICES ASSUME maxSize >= BatchSize
               PROVE  HotInv' /\ PlaceInv' /\ PresentInv'
    BY <1>6, <2>1 DEF RoomInv
  <2>2. HotInv /\ PlaceInv /\ PresentInv
    BY <1>1 DEF RoomInv
  <2>3. ~HotAt(w)' /\ (Present(items, Key(w)) => ~HotAt(w))
    <3>1. size[w] \in Nat
      BY <1>1 DEF TypeInv, SharedTypeOK
    <3> QED
      BY <1>2, <1>6, <3>1 DEF HotAt
  <2>4. \/ Cardinality(Ahead') = Cardinality(Ahead) - 1
        \/ Cardinality(Ahead') = Cardinality(Ahead) /\ (Hot \/ Present(items, Key(w)))
    <3>1. CASE at[w] = "store"
      <4>1. HotAt(w) \/ Present(items, Key(w))
        BY <3>1 DEF HotAt
      <4>2. HotAt(w) => Hot
        BY DEF Hot
      <4> QED
        BY <2>1, <3>1, <4>1, <4>2 DEF Evaluating
    <3>2. CASE at[w] = "compare"
      BY <2>1, <3>2 DEF Evaluating
    <3> QED
      BY <3>1, <3>2
  <2>5. Hot' => Hot \/ Len(items') >= maxSize
    BY <1>1, <1>3, <1>4, <2>3, HotStep
  <2>6. Present(items, Key(w)) => (Hot => Hot')
    <3> SUFFICES ASSUME Present(items, Key(w)), Hot PROVE Hot'
      OBVIOUS
    <3>1. \A k : Present(items, k) <=> Present(items', k)
      BY <1>4
    <3>2. Len(items) >= maxSize => Hot'
      BY <1>4, <1>6 DEF Hot
    <3> QED
      BY <1>1, <1>3, <2>3, <3>1, <3>2, HotStep
  <2>7. \A k \in Keys : Kept(k)' => Kept(k) \/ k = Key(w)
    BY <1>1, <1>3, KeptAfterReturn
  <2>8. Kept(Key(w))
    BY DEF Kept
  <2>9. HotInv' /\ PlaceInv'
    BY <1>1, <1>2, <1>3, <1>6, <2>1, <2>2, <2>4, <2>5, <2>6, <2>7, <2>8, InsertRoom
  <2>10. PresentInv'
    BY <1>1, <1>3, <1>4, <2>2, PresentReturns
  <2> QED
    BY <2>9, <2>10
<1> QED
  BY <1>5, <1>7, <1>8 DEF SharedInv

(* The eviction.                                                           *)
LEMMA EvictionKeeps ==
  ASSUME SharedInv, NEW w \in Workers, at[w] = "compare", size[w] >= maxSize,
         items # <<>>, items' = PopOldest(items), Moves(w, "store")
  PROVE  SharedInv'
<1>1. TypeInv /\ SpaceInv /\ RoomInv /\ at[w] # "idle" /\ at[w] \in Evaluating
  BY DEF SharedInv, Evaluating
<1>2. /\ items \in DictOf(Keys, Costs) /\ Len(items) \in Nat
      /\ items' \in DictOf(Keys, Costs) /\ Len(items') = Len(items) - 1
      /\ \A i \in 1..Len(items) - 1 : items'[i] = items[i + 1]
  BY <1>1, RoomNumbers, PopOldestProperties
<1>3. \A k : Present(items', k) => Present(items, k)
  <2> SUFFICES ASSUME NEW k, Present(items', k) PROVE Present(items, k)
    OBVIOUS
  <2>1. PICK i \in 1..Len(items) - 1 : items'[i].key = k
    BY <1>2 DEF Present
  <2>2. i + 1 \in 1..Len(items) /\ items[i + 1].key = k
    BY <1>2, <2>1
  <2> QED
    BY <2>2 DEF Present
<1>4. TypeInv'
  <2>1. batch[task[w]].cost = "new" /\ "store" \in Points \ {"idle"}
    BY <1>1 DEF TypeInv, TaskInv, Points
  <2> QED
    BY <1>1, <1>2, <2>1, MovesKeepsTypes
<1>5. SpaceInv'
  BY <1>1, <1>2, <1>3, <1>4, PopSpace
<1>6. RoomInv'
  <2>1. BatchSize' = BatchSize /\ Cardinality(Ahead') = Cardinality(Ahead) - 1
    BY <1>1, MovesCounts DEF Evaluating
  <2>2. maxSize' = maxSize
    BY DEF Moves, Frame
  <2> SUFFICES ASSUME maxSize >= BatchSize
               PROVE  HotInv' /\ PlaceInv' /\ PresentInv'
    BY <2>1, <2>2 DEF RoomInv
  <2>3. HotInv /\ PlaceInv /\ PresentInv
    BY <1>1 DEF RoomInv
  <2>4. Hot
    BY DEF Hot, HotAt
  <2>5. \A k \in Keys : Kept(k)' => Kept(k)
    BY <1>1, KeptAfterMove DEF Kept
  <2>6. Cardinality(Ahead) >= 1
    BY <1>1, AheadPositive
  <2>7. /\ HotInv' /\ PlaceInv'
        /\ \A k \in Keys : Kept(k) /\ Present(items, k) => Present(items', k)
    BY <1>1, <2>1, <2>2, <2>3, <2>4, <2>5, <2>6, PopRoom
  <2>8. PresentInv'
    BY <1>1, <2>3, <2>7, PresentMoves
  <2> QED
    BY <2>7, <2>8
<1> QED
  BY <1>4, <1>5, <1>6 DEF SharedInv

-----------------------------------------------------------------------------

(* One lemma per action: a thread takes the next candidate,                *)
LEMMA TakeKeeps ==
  ASSUME SharedInv, NEW w \in Workers, Take(w)
  PROVE  SharedInv'
<1>1. /\ at[w] = "idle" /\ next <= BatchSize
      /\ task' = [task EXCEPT ![w] = next] /\ next' = next + 1
      /\ at' = [at EXCEPT ![w] = "lookup"]
      /\ maxSize' = maxSize /\ batch' = batch /\ items' = items /\ size' = size
      /\ results' = results
  BY DEF Take, Goto
<1>2. /\ TypeInv /\ SpaceInv /\ RoomInv
      /\ at \in [Workers -> Points] /\ task \in [Workers -> 0..BatchSize]
      /\ next \in 1..BatchSize + 1 /\ BatchSize \in Nat /\ task[w] = 0
      /\ BatchSize' = BatchSize /\ Candidates' = Candidates
  BY <1>1, Basics DEF SharedInv, TypeInv, SharedTypeOK, TaskInv, Points, Evaluating,
    BatchSize, Candidates
<1>3. \A v \in Workers : task[v] < next
  BY <1>2 DEF TypeInv, TaskInv
<1>4. next \in Candidates /\ results[next] = "none"
  BY <1>1, <1>2 DEF Candidates, TypeInv, TaskInv
<1>5. \A v \in Workers : v = w \/ (task'[v] = task[v] /\ at'[v] = at[v])
  BY <1>1, <1>2
<1>6. task'[w] = next /\ at'[w] = "lookup"
  BY <1>1, <1>2
<1>7. SharedTypeOK'
  <2>1. task' \in [Workers -> 0..BatchSize] /\ at' \in [Workers -> Points]
    BY <1>1, <1>2 DEF Points, Evaluating
  <2>2. \A u, v \in Workers : u # v /\ task'[u] = task'[v] => task'[u] = 0
    <3> SUFFICES ASSUME NEW u \in Workers, NEW v \in Workers, u # v, task'[u] = task'[v]
                 PROVE  task'[u] = 0
      OBVIOUS
    <3>1. CASE u # w /\ v # w
      BY <1>2, <1>5, <3>1 DEF TypeInv, SharedTypeOK
    <3>2. CASE u = w \/ v = w
      <4>1. \E z \in Workers : task[z] = next
        BY <1>5, <1>6, <3>2
      <4>2. PICK z \in Workers : task[z] = next
        BY <4>1
      <4>3. task[z] \in Int /\ next \in Int /\ task[z] < next
        BY <1>2, <1>3
      <4> QED
        BY <4>2, <4>3
    <3> QED
      BY <3>1, <3>2
  <2>3. next' \in 1..BatchSize + 1
    BY <1>1, <1>2
  <2> QED
    BY <1>1, <1>2, <2>1, <2>2, <2>3 DEF TypeInv, SharedTypeOK, Points, Evaluating
<1>8. TaskInv'
  <2>1. \A v \in Workers : task'[v] = 0 <=> at'[v] = "idle"
    BY <1>2, <1>5, <1>6 DEF TypeInv, TaskInv
  <2>2. \A v \in Workers : task'[v] < next'
    BY <1>1, <1>2, <1>3, <1>5, <1>6
  <2>3. \A v \in Workers : task'[v] # 0 => results'[task'[v]] = "none"
    BY <1>1, <1>2, <1>4, <1>5, <1>6 DEF TypeInv, TaskInv
  <2>4. \A i \in Candidates : i >= next' => results'[i] = "none"
    <3>1. \A i \in Candidates : i >= next' => i >= next
      BY <1>1, <1>2 DEF Candidates
    <3> QED
      BY <1>1, <1>2, <3>1 DEF TypeInv, TaskInv
  <2>5. \A v \in Workers : at'[v] \in {"put", "compare", "store"} =>
                             batch'[task'[v]].cost = "new"
    BY <1>1, <1>2, <1>5, <1>6 DEF TypeInv, TaskInv
  <2> QED
    BY <1>2, <2>1, <2>2, <2>3, <2>4, <2>5 DEF TaskInv
<1>9. TypeInv'
  BY <1>7, <1>8 DEF TypeInv
<1>10. SpaceInv'
  <2>1. Unfinished' = Unfinished
    BY <1>1, <1>2 DEF Unfinished
  <2>2. Spare(Unfinished)' = Spare(Unfinished) /\ Spare(Candidates)' = Spare(Candidates)
    BY <1>1, <1>2, <2>1 DEF Spare, KeysOf
  <2>3. Pending' \subseteq Pending
    <3> SUFFICES ASSUME NEW k \in Pending' PROVE k \in Pending
      OBVIOUS
    <3>1. k \in Keys /\ \E v \in Workers : Inserting(v)' /\ Key(v)' = k
      BY DEF Pending
    <3>2. PICK v \in Workers : Inserting(v)' /\ Key(v)' = k
      BY <3>1
    <3>3. v # w
      BY <1>6, <3>2 DEF Inserting
    <3>4. Inserting(v) /\ Key(v) = k
      BY <1>1, <1>5, <3>2, <3>3 DEF Inserting, Key
    <3> QED
      BY <3>1, <3>4 DEF Pending
  <2>4. Spare(Unfinished) \in Nat /\ Len(items) \in Nat
    BY <1>2, SpaceNumbers DEF TypeInv
  <2> QED
    BY <1>1, <1>2, <1>9, <2>2, <2>3, <2>4, SpaceShrinks
<1>11. RoomInv'
  <2> SUFFICES ASSUME maxSize >= BatchSize
               PROVE  HotInv' /\ PlaceInv' /\ PresentInv'
    BY <1>1, <1>2 DEF RoomInv
  <2>1. HotInv /\ PlaceInv /\ PresentInv
    BY <1>2 DEF RoomInv
  <2>2. Ahead' = Ahead
    <3> SUFFICES ASSUME NEW i \in Candidates PROVE i \in Ahead' <=> i \in Ahead
      BY <1>2 DEF Ahead
    <3>1. CASE i = next
      BY <1>2, <1>5, <1>6, <3>1 DEF Ahead, Evaluating, Candidates
    <3>2. CASE i # next
      <4>1. i >= next' <=> i >= next
        BY <1>1, <1>2, <3>2 DEF Candidates
      <4>2. \A v \in Workers : (task'[v] = i /\ at'[v] \in Evaluating)
                                 <=> (task[v] = i /\ at[v] \in Evaluating)
        <5>1. at[w] \notin Evaluating
          BY <1>1 DEF Evaluating
        <5> QED
          BY <1>5, <1>6, <3>2, <5>1
      <4> QED
        BY <1>2, <4>1, <4>2 DEF Ahead
    <3> QED
      BY <3>1, <3>2
  <2>3. Hot' <=> Hot
    <3>1. ~HotAt(w) /\ ~HotAt(w)'
      BY <1>1, <1>6 DEF HotAt
    <3>2. \A v \in Workers : v # w => (HotAt(v)' <=> HotAt(v))
      BY <1>1, <1>5 DEF HotAt, Key
    <3> QED
      BY <1>1, <3>1, <3>2 DEF Hot
  <2>4. \A k : Kept(k)' => Kept(k)
    <3> SUFFICES ASSUME NEW k, Kept(k)' PROVE Kept(k)
      OBVIOUS
    <3>1. CASE \E i \in Candidates' : batch'[i].key = k /\ results'[i] \in {"old", "new"}
      BY <1>1, <1>2, <3>1 DEF Kept
    <3>2. CASE \E v \in Workers : Key(v)' = k /\ at'[v] \in {"read", "compare", "store"}
      <4>1. PICK v \in Workers : Key(v)' = k /\ at'[v] \in {"read", "compare", "store"}
        BY <3>2
      <4>2. v # w
        BY <1>6, <4>1
      <4>3. Key(v) = k /\ at[v] \in {"read", "compare", "store"}
        BY <1>1, <1>5, <4>1, <4>2 DEF Key
      <4> QED
        BY <4>3 DEF Kept
    <3> QED
      BY <3>1, <3>2 DEF Kept
  <2>5. HotInv' /\ PlaceInv'
    BY <1>1, <1>2, <2>1, <2>2, <2>3, <2>4, SameRoom
  <2>6. PresentInv'
    <3>1. ASSUME NEW v \in Workers, at'[v] = "read" PROVE Present(items', Key(v)')
      <4>1. v # w
        BY <1>6, <3>1
      <4>2. Key(v)' = Key(v) /\ at[v] = "read"
        BY <1>1, <1>5, <3>1, <4>1 DEF Key
      <4> QED
        BY <1>1, <2>1, <4>2 DEF PresentInv
    <3> QED
      BY <1>1, <1>2, <2>1, <3>1 DEF PresentInv
  <2> QED
    BY <2>5, <2>6
<1> QED
  BY <1>9, <1>10, <1>11 DEF SharedInv

(* looks its key up,                                                       *)
LEMMA LookupKeeps ==
  ASSUME SharedInv, NEW w \in Workers, Lookup(w)
  PROVE  SharedInv'
<1>1. at[w] = "lookup" /\ size \in [Workers -> Nat]
  BY DEF Lookup, SharedInv, TypeInv, SharedTypeOK
<1>2. CASE Present(items, Key(w))
  <2>1. Moves(w, "read") /\ items' = MoveToEnd(items, Key(w))
    BY <1>1, <1>2 DEF Lookup, Moves, Frame
  <2> QED
    BY <1>1, <1>2, <2>1, HitKeeps
<1>3. CASE ~Present(items, Key(w))
  <2>1. Moves(w, "evaluate") /\ items' = items
    BY <1>1, <1>3 DEF Lookup, Moves, Frame
  <2> QED
    BY <1>1, <1>3, <2>1, MissKeeps
<1> QED
  BY <1>2, <1>3

(* reads the entry it has moved to the end,                                *)
LEMMA ReadKeeps ==
  ASSUME SharedInv, NEW w \in Workers, Read(w)
  PROVE  SharedInv'
<1>1. /\ at[w] = "read" /\ size \in [Workers -> Nat] /\ TypeInv /\ RoomInv
      /\ items' = items /\ items \in DictOf(Keys, Costs)
      /\ BatchSize \in Nat /\ maxSize \in Nat
  BY RoomNumbers DEF Read, SharedInv, TypeInv, SharedTypeOK
<1> DEFINE outcome == IF Present(items, Key(w)) THEN EntryOf(items, Key(w)).cost
                      ELSE "KeyError"
<1>2. Returns(w, outcome)
  BY <1>1 DEF Read, Returns, Frame
<1>3. CASE Present(items, Key(w))
  <2>1. PICK q \in 1..Len(items) : items[q].key = Key(w)
    BY <1>3 DEF Present
  <2>2. EntryOf(items, Key(w)) = items[q] /\ items[q].cost \in Costs
    BY <1>1, <2>1, PlaceProperties
  <2>3. outcome \in {"old", "new"}
    BY <1>3, <2>2 DEF Costs
  <2> HIDE DEF outcome
  <2> QED
    BY <1>1, <1>2, <1>3, <2>3, OutcomeKeeps DEF Answers
<1>4. CASE ~Present(items, Key(w))
  <2>1. maxSize < BatchSize
    BY <1>1, <1>4 DEF RoomInv, PresentInv
  <2>2. outcome = "KeyError"
    BY <1>4
  <2> HIDE DEF outcome
  <2> QED
    BY <1>1, <1>2, <2>1, <2>2, OutcomeKeeps
<1> QED
  BY <1>3, <1>4

(* evaluates the objective,                                                *)
LEMMA EvaluateKeeps ==
  ASSUME SharedInv, NEW w \in Workers, Evaluate(w)
  PROVE  SharedInv'
<1>1. at[w] = "evaluate" /\ size \in [Workers -> Nat] /\ TypeInv /\ items' = items
  BY DEF Evaluate, SharedInv, TypeInv, SharedTypeOK
<1>2. batch[task[w]].cost \in {"new", "infinity"}
  BY <1>1, TaskProperties, Basics DEF TypeInv, Candidate
<1>3. CASE batch[task[w]].cost = "infinity"
  <2>1. Returns(w, "infinity")
    BY <1>1, <1>3 DEF Evaluate, Returns, Frame
  <2> QED
    BY <1>1, <2>1, OutcomeKeeps DEF Answers
<1>4. CASE batch[task[w]].cost # "infinity"
  <2>1. Moves(w, "put")
    BY <1>1, <1>4 DEF Evaluate, Moves, Frame
  <2> QED
    BY <1>1, <1>2, <1>4, <2>1, MissKeeps
<1> QED
  BY <1>3, <1>4

(* looks the key up again to put it,                                       *)
LEMMA PutLookupKeeps ==
  ASSUME SharedInv, NEW w \in Workers, PutLookup(w)
  PROVE  SharedInv'
<1>1. /\ at[w] = "put" /\ size \in [Workers -> Nat] /\ Len(items) \in Nat
  BY RoomNumbers DEF PutLookup, SharedInv, TypeInv, SharedTypeOK
<1>2. CASE Present(items, Key(w))
  <2>1. Moves(w, "store") /\ items' = MoveToEnd(items, Key(w))
    BY <1>1, <1>2 DEF PutLookup, Moves, Frame
  <2> QED
    BY <1>1, <1>2, <2>1, HitKeeps
<1>3. CASE ~Present(items, Key(w))
  <2>1. items' = items /\ size' = [size EXCEPT ![w] = Len(items)]
    BY <1>3 DEF PutLookup
  <2>2. size' \in [Workers -> Nat] /\ size'[w] = Len(items)
        /\ \A v \in Workers \ {w} : size'[v] = size[v]
    BY <1>1, <2>1
  <2>3. Moves(w, "compare")
    BY <1>3, <2>2 DEF PutLookup, Moves, Frame
  <2> QED
    BY <1>1, <1>3, <2>1, <2>2, <2>3, MissKeeps
<1> QED
  BY <1>2, <1>3

(* compares the length with maxsize and evicts if it is not below,         *)
LEMMA CompareKeeps ==
  ASSUME SharedInv, NEW w \in Workers, Compare(w)
  PROVE  SharedInv'
<1>1. /\ at[w] = "compare" /\ size \in [Workers -> Nat] /\ TypeInv /\ RoomInv
      /\ BatchSize \in Nat /\ maxSize \in Nat /\ size[w] \in Nat
      /\ size' = [size EXCEPT ![w] = 0]
      /\ maxSize' = maxSize /\ batch' = batch /\ next' = next
  BY RoomNumbers DEF Compare, SharedInv, TypeInv, SharedTypeOK
<1>2. Frame(w)
  BY <1>1 DEF Frame
<1>3. CASE size[w] < maxSize /\ Insert(w)
  BY <1>1, <1>2, <1>3, StoreKeeps
<1>4. CASE /\ size[w] >= maxSize /\ items # <<>>
           /\ items' = PopOldest(items)
           /\ Goto(w, "store")
           /\ UNCHANGED <<task, results>>
  <2>1. Moves(w, "store")
    BY <1>2, <1>4 DEF Moves
  <2> QED
    BY <1>1, <1>4, <2>1, EvictionKeeps
<1>5. CASE /\ size[w] >= maxSize /\ items = <<>>
           /\ Return(w, "KeyError")
           /\ UNCHANGED items
  <2>1. maxSize < BatchSize
    <3>1. Cardinality(Ahead) >= 1 /\ Cardinality(Ahead) \in Nat
      BY <1>1, AheadPositive, RoomNumbers DEF Evaluating
    <3>2. Hot
      BY <1>1, <1>5 DEF Hot, HotAt
    <3>3. Len(items) = 0
      BY <1>5
    <3>4. maxSize >= BatchSize => 0 - Cardinality(Ahead) >= maxSize - BatchSize
      BY <1>1, <3>2, <3>3 DEF RoomInv, HotInv
    <3> QED
      BY <1>1, <3>1, <3>4
  <2>2. Returns(w, "KeyError")
    BY <1>2, <1>5 DEF Returns
  <2> QED
    BY <1>1, <1>5, <2>1, <2>2, OutcomeKeeps
<1> QED
  BY <1>3, <1>4, <1>5 DEF Compare

(* and stores the cost.                                                    *)
LEMMA StoreStepKeeps ==
  ASSUME SharedInv, NEW w \in Workers, Store(w)
  PROVE  SharedInv'
<1>1. at[w] = "store" /\ Insert(w) /\ size \in [Workers -> Nat]
  BY DEF Store, SharedInv, TypeInv, SharedTypeOK
<1>2. Frame(w)
  BY <1>1 DEF Store, Frame
<1> QED
  BY <1>1, <1>2, StoreKeeps

(* or finds the queue cancelled: a call has raised, the cache is too small. *)
LEMMA CancelKeeps ==
  ASSUME SharedInv, Cancel
  PROVE  SharedInv'
<1>1. /\ maxSize' = maxSize /\ batch' = batch /\ items' = items /\ task' = task
      /\ at' = at /\ size' = size /\ results' = results
      /\ next' = BatchSize + 1 /\ next <= BatchSize
      /\ \E i \in Candidates : results[i] = "KeyError"
  BY DEF Cancel
<1>2. Candidates' = Candidates /\ BatchSize' = BatchSize /\ BatchSize \in Nat
  BY <1>1, Basics DEF Candidates, BatchSize, SharedInv, TypeInv
<1>3. TypeInv'
  <2>1. SharedTypeOK'
    BY <1>1, <1>2 DEF SharedInv, TypeInv, SharedTypeOK
  <2>2. \A w \in Workers : task[w] < BatchSize + 1
    BY <1>2 DEF SharedInv, TypeInv, SharedTypeOK
  <2>3. \A i \in Candidates : ~(i >= BatchSize + 1)
    BY <1>2 DEF Candidates
  <2> QED
    BY <1>1, <1>2, <2>1, <2>2, <2>3 DEF SharedInv, TypeInv, TaskInv
<1>4. SpaceInv'
  <2>1. Unfinished' = Unfinished /\ Pending' = Pending
    BY <1>1, <1>2 DEF Unfinished, Pending, Inserting, Key
  <2>2. Spare(Unfinished)' = Spare(Unfinished) /\ Spare(Candidates)' = Spare(Candidates)
    BY <1>1, <1>2, <2>1 DEF Spare, KeysOf
  <2> QED
    BY <1>1, <2>1, <2>2 DEF SharedInv, SpaceInv, Taken, Limit
<1>5. RoomInv'
  BY <1>1, <1>2 DEF SharedInv, RoomInv, PresentInv
<1> QED
  BY <1>3, <1>4, <1>5 DEF SharedInv

(* The invariant holds of a batch before any thread starts,                *)
LEMMA SharedInvInit == SharedInit => SharedInv
<1> SUFFICES ASSUME SharedInit PROVE SharedInv
  OBVIOUS
<1>1. /\ maxSize \in Sizes /\ maxSize \in Nat \ {0}
      /\ batch \in Batches /\ batch \in Seq(Candidate) /\ BatchSize \in Nat
      /\ next = 1
      /\ task = [w \in Workers |-> 0]
      /\ at = [w \in Workers |-> "idle"]
      /\ size = [w \in Workers |-> 0]
      /\ results = [i \in Candidates |-> "none"]
  BY SharedAssumption, LenProperties DEF SharedInit, BatchSize
<1>2. items \in DictOf(Keys, Costs) /\ Len(items) \in Nat /\ Len(items) <= maxSize
  <2>1. PICK n \in 0..maxSize :
          items \in { d \in [1..n -> [key : Keys, cost : {"old"}]] :
                        \A i, j \in 1..n : i # j => d[i].key # d[j].key }
    BY DEF SharedInit
  <2>2. n \in Nat /\ n <= maxSize /\ items \in [1..n -> [key : Keys, cost : Costs]]
    BY <1>1, <2>1 DEF Costs
  <2>3. items \in Seq([key : Keys, cost : Costs]) /\ Len(items) = n
    BY <2>2, FunctionIsSeq
  <2> QED
    BY <2>1, <2>2, <2>3 DEF DictOf
<1>3. SharedTypeOK
  <2>1. at \in [Workers -> Points]
    BY <1>1 DEF Points
  <2>2. next \in 1..BatchSize + 1
    BY <1>1
  <2>3. task \in [Workers -> 0..BatchSize] /\ \A v, w \in Workers : task[v] = 0
    BY <1>1
  <2>4. size \in [Workers -> Nat]
    BY <1>1
  <2>5. results \in [Candidates -> Answers \cup {"none", "KeyError"}]
    BY <1>1
  <2> QED
    BY <1>1, <1>2, <2>1, <2>2, <2>3, <2>4, <2>5
      DEF SharedTypeOK, DictOf, Costs, DictEntry, Points, Evaluating
<1>4. TaskInv
  BY <1>1 DEF TaskInv
<1>5. SpaceInv
  <2>1. Unfinished = Candidates
    BY <1>1 DEF Unfinished
  <2>2. Pending = {}
    BY <1>1 DEF Pending, Inserting
  <2>3. Cardinality(Pending) = 0
    BY <2>2, FS_EmptySet
  <2>4. Spare(Candidates) \in Nat /\ Cardinality(Workers) \in Nat \ {0}
    BY <1>3, SpaceNumbers, Basics
  <2> QED
    BY <1>1, <1>2, <2>1, <2>3, <2>4 DEF SpaceInv, Taken, Limit
<1>6. RoomInv
  <2>1. Ahead = Candidates
    BY <1>1 DEF Ahead, Candidates
  <2>2. Cardinality(Ahead) = BatchSize
    BY <1>3, <2>1, Basics
  <2>3. Hot => Len(items) >= maxSize
    BY <1>1 DEF Hot, HotAt
  <2>4. HotInv
    BY <1>1, <1>2, <2>2, <2>3 DEF HotInv
  <2>5. PlaceInv
    BY <1>1 DEF PlaceInv, Kept
  <2>6. PresentInv
    BY <1>1 DEF PresentInv
  <2> QED
    BY <2>4, <2>5, <2>6 DEF RoomInv
<1> QED
  BY <1>3, <1>4, <1>5, <1>6 DEF SharedInv, TypeInv

(* and every step keeps it.                                                *)
LEMMA SharedInvStep == SharedInv /\ [SharedNext]_sharedVars => SharedInv'
<1> SUFFICES ASSUME SharedInv, [SharedNext]_sharedVars PROVE SharedInv'
  OBVIOUS
<1>1. ASSUME NEW w \in Workers, Step(w) PROVE SharedInv'
  BY <1>1, TakeKeeps, LookupKeeps, ReadKeeps, EvaluateKeeps, PutLookupKeeps,
    CompareKeeps, StoreStepKeeps DEF Step
<1>2. CASE UNCHANGED sharedVars
  <2>1. /\ maxSize' = maxSize /\ batch' = batch /\ items' = items /\ next' = next
        /\ task' = task /\ at' = at /\ size' = size /\ results' = results
    BY <1>2 DEF sharedVars
  <2>2. Candidates' = Candidates /\ BatchSize' = BatchSize
    BY <2>1 DEF Candidates, BatchSize
  <2>3. TypeInv'
    BY <2>1, <2>2 DEF SharedInv, TypeInv, SharedTypeOK, TaskInv
  <2>4. SpaceInv'
    <3>1. Unfinished' = Unfinished /\ Pending' = Pending
      BY <2>1, <2>2 DEF Unfinished, Pending, Inserting, Key
    <3>2. Spare(Unfinished)' = Spare(Unfinished) /\ Spare(Candidates)' = Spare(Candidates)
      BY <2>1, <2>2, <3>1 DEF Spare, KeysOf
    <3> QED
      BY <2>1, <3>1, <3>2 DEF SharedInv, SpaceInv, Taken, Limit
  <2>5. RoomInv'
    <3>1. Ahead' = Ahead /\ (Hot' <=> Hot) /\ \A k : Kept(k)' <=> Kept(k)
      BY <2>1, <2>2 DEF Ahead, Hot, HotAt, Kept, Key
    <3>2. (HotInv => HotInv') /\ (PlaceInv => PlaceInv')
      BY <2>1, <2>2, <3>1 DEF HotInv, PlaceInv
    <3>3. PresentInv => PresentInv'
      BY <2>1, <2>2 DEF PresentInv, Key
    <3> QED
      BY <2>1, <2>2, <3>2, <3>3 DEF SharedInv, RoomInv
  <2> QED
    BY <2>3, <2>4, <2>5 DEF SharedInv
<1> QED
  BY <1>1, <1>2, CancelKeeps DEF SharedNext, Idle

(* Any number of threads may share the cache without a lock: the dictionary *)
(* stays whole, no candidate is evaluated twice at a time, a cache with     *)
(* room for the batch loses nothing and raises nothing, and a smaller one   *)
(* holds at most an entry too many for each thread but one and for each     *)
(* candidate that repeats a key (cache.py:62-83, evaluation.py:116-121).    *)
THEOREM HarmAlwaysBounded == SharedSpec => []HarmBounded
<1>1. SharedInv => HarmBounded
  <2> SUFFICES ASSUME SharedInv PROVE HarmBounded
    OBVIOUS
  <2>1. TypeInv /\ SpaceInv /\ RoomInv /\ SharedTypeOK
    BY DEF SharedInv, TypeInv
  <2>2. RoomIsEnough
    BY <2>1 DEF RoomInv, PresentInv, RoomIsEnough
  <2>3. OvershootBounded
    <3>1. Repeated = Spare(Candidates)
      BY <2>1, Basics DEF Repeated, Spare, KeysOf
    <3>2. /\ Cardinality(Pending) \in Nat /\ Spare(Unfinished) \in Nat
          /\ Spare(Candidates) \in Nat /\ Len(items) \in Nat /\ maxSize \in Nat
          /\ Cardinality(Workers) \in Nat
      BY <2>1, SpaceNumbers
    <3> QED
      BY <2>1, <3>1, <3>2 DEF SpaceInv, Taken, Limit, OvershootBounded
  <2> QED
    BY <2>1, <2>2, <2>3 DEF HarmBounded
<1> QED
  BY <1>1, SharedInvInit, SharedInvStep, PTL DEF SharedSpec

=============================================================================
