--------------------------- MODULE EvaluationCache ---------------------------
(***************************************************************************)
(* The LRU cache of core/cache.py, used by one caller at a time: an        *)
(* OrderedDict from keys to costs, here the sequence of its entries, the   *)
(* least recently used first.  The key of a solution is the hash of its    *)
(* rounded coordinates; the callers below are solutions already reduced to *)
(* their keys, and the hash is taken to be injective.                      *)
(***************************************************************************)
EXTENDS OrderedDict, Naturals

CONSTANTS
  CacheCosts,   \* the costs an objective may have
  MaxSize,      \* maxsize
  MaxLookups    \* the bound on the statistics, for model checking

ASSUME CacheAssumption ==
  /\ MaxSize \in Nat \ {0}
  /\ MaxLookups \in Nat

VARIABLES
  cache,     \* the entries, the least recently used first
  hits, misses,
  recency,   \* history: every key used since the last clear, in the order of
             \* its last use
  written    \* history: the last cost put for each key

cacheVars == <<cache, hits, misses, recency, written>>

CacheEntry == [key : Keys, cost : CacheCosts]

-----------------------------------------------------------------------------

CacheInit ==
  /\ cache = <<>>
  /\ hits = 0 /\ misses = 0
  /\ recency = <<>> /\ written = [k \in {} |-> 0]

\* The key k is used: it becomes the most recent one, and if it was used before,
\* those used since close up.
Use(k) ==
  LET n == Len(recency)
  IN  \/ /\ \A i \in 1..n : recency[i] # k
         /\ recency' = Append(recency, k)
      \/ \E p \in 1..n :
           /\ recency[p] = k
           /\ recency' = [i \in 1..n |-> IF i < p THEN recency[i]
                                         ELSE IF i < n THEN recency[i + 1] ELSE k]

GetHit(k) ==
  /\ Present(cache, k)
  /\ hits + misses < MaxLookups
  /\ hits' = hits + 1
  /\ cache' = MoveToEnd(cache, k)
  /\ Use(k)
  /\ UNCHANGED <<misses, written>>

GetMiss(k) ==
  /\ ~Present(cache, k)
  /\ hits + misses < MaxLookups
  /\ misses' = misses + 1
  /\ UNCHANGED <<cache, hits, recency, written>>

\* A key already there is refreshed and overwritten; a new one pushes out the
\* least recently used entry if the cache is full.
Put(k, c) ==
  /\ \/ /\ Present(cache, k)
        /\ cache' = Assign(MoveToEnd(cache, k), k, c)
     \/ /\ ~Present(cache, k)
        /\ cache' =
             Assign(IF Len(cache) >= MaxSize THEN PopOldest(cache) ELSE cache, k, c)
  /\ Use(k)
  /\ written' = [j \in DOMAIN written \cup {k} |-> IF j = k THEN c ELSE written[j]]
  /\ UNCHANGED <<hits, misses>>

Clear ==
  /\ cache' = <<>>
  /\ hits' = 0 /\ misses' = 0
  /\ recency' = <<>> /\ written' = [k \in {} |-> 0]

CacheNext ==
  \/ \E k \in Keys : GetHit(k) \/ GetMiss(k)
  \/ \E k \in Keys, c \in CacheCosts : Put(k, c)
  \/ Clear

CacheSpec == CacheInit /\ [][CacheNext]_cacheVars

-----------------------------------------------------------------------------

(* The cache is a sequence of at most MaxSize entries, one for a key: what  *)
(* an OrderedDict and the eviction of put owe each other.  The statistics   *)
(* count the lookups.                                                       *)
CacheTypeOK ==
  /\ cache \in Seq(CacheEntry)
  /\ Len(cache) <= MaxSize
  /\ \A i, j \in 1..Len(cache) : i # j => cache[i].key # cache[j].key
  /\ hits \in Nat /\ misses \in Nat /\ hits + misses <= MaxLookups
  /\ recency \in Seq(Keys)
  /\ DOMAIN written \subseteq Keys

(* The cache holds exactly the keys used last, in the order of their last   *)
(* use, as many as fit, each with the cost put last for it: what is evicted *)
(* is always the least recently used entry, a hit and an overwriting put    *)
(* both count as uses, and a lookup returns what was put last, whatever was *)
(* evicted, refreshed and put again in between; and the types are kept.     *)
HoldsMostRecent ==
  LET n == Len(cache)
      dropped == Len(recency) - n
  IN  /\ CacheTypeOK
      /\ n = IF Len(recency) < MaxSize THEN Len(recency) ELSE MaxSize
      /\ \A i \in 1..n : /\ cache[i].key = recency[dropped + i]
                        /\ cache[i].key \in DOMAIN written
                        /\ cache[i].cost = written[cache[i].key]

=============================================================================
