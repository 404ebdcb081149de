----------------------------- MODULE SharedCache -----------------------------
(***************************************************************************)
(* One batch of candidates of the construction phase, evaluated by worker  *)
(* threads that share the evaluation cache, which has no lock.             *)
(*                                                                         *)
(* CPython may hand the interpreter to another thread after any call, so a *)
(* method of the cache is not atomic: each action below runs from one call *)
(* on the dictionary (move_to_end, len, popitem) or of the objective to    *)
(* the next.  "key in d", "d[key]" and "d[key] = cost" are not calls and   *)
(* go with what precedes or follows them.  The statistics are left out.    *)
(***************************************************************************)
EXTENDS OrderedDict, FiniteSets, Integers

CONSTANTS
  Workers,     \* the threads of the pool
  Batches,     \* the batches: sequences of candidates
  Sizes        \* the values of cache_size

\* What an evaluation may answer: a cost an earlier phase has put into the
\* cache, one computed for a candidate of this batch, or infinity.
Answers == {"old", "new", "infinity"}

\* A candidate is reduced to its key and to what the objective answers.
Candidate == [key : Keys, cost : {"new", "infinity"}]

ASSUME SharedAssumption ==
  /\ Workers # {} /\ IsFiniteSet(Workers)
  /\ Batches \subseteq Seq(Candidate)
  /\ Sizes \subseteq Nat \ {0}

DictEntry == [key : Keys, cost : {"old", "new"}]

VARIABLES
  maxSize,   \* the cache's maxsize
  batch,     \* the candidates to evaluate
  items,     \* the entries of the cache, the least recently used first
  next,      \* the first candidate still queued
  task,      \* the candidate each thread works on
  at,        \* the point of _evaluate_with_cache each thread is at
  size,      \* the length of the dictionary each thread has read
  results    \* the outcome of each candidate

sharedVars == <<maxSize, batch, items, next, task, at, size, results>>

BatchSize == Len(batch)

Candidates == 1..BatchSize

-----------------------------------------------------------------------------

\* What the sequential phases before the batch can have left in the cache.
SharedInit ==
  /\ maxSize \in Sizes
  /\ batch \in Batches
  /\ \E n \in 0..maxSize :
       items \in { d \in [1..n -> [key : Keys, cost : {"old"}]] :
                     \A i, j \in 1..n : i # j => d[i].key # d[j].key }
  /\ next = 1
  /\ task = [w \in Workers |-> 0]
  /\ at = [w \in Workers |-> "idle"]
  /\ size = [w \in Workers |-> 0]
  /\ results = [i \in Candidates |-> "none"]

Key(w) == batch[task[w]].key

Goto(w, point) == at' = [at EXCEPT ![w] = point]

\* _evaluate_with_cache returns, or raises, for the thread's candidate.
Return(w, outcome) ==
  /\ results' = [results EXCEPT ![task[w]] = outcome]
  /\ task' = [task EXCEPT ![w] = 0]
  /\ Goto(w, "idle")

-----------------------------------------------------------------------------

\* executor.map queues the candidates in order.
Take(w) ==
  /\ at[w] = "idle" /\ next <= BatchSize
  /\ task' = [task EXCEPT ![w] = next]
  /\ next' = next + 1
  /\ Goto(w, "lookup")
  /\ UNCHANGED <<maxSize, batch, items, size, results>>

\* cache.get up to the return of move_to_end, or of the method on a miss.
Lookup(w) ==
  /\ at[w] = "lookup"
  /\ \/ /\ Present(items, Key(w))
        /\ items' = MoveToEnd(items, Key(w))
        /\ Goto(w, "read")
     \/ /\ ~Present(items, Key(w))
        /\ Goto(w, "evaluate")
        /\ UNCHANGED items
  /\ UNCHANGED <<maxSize, batch, next, task, size, results>>

\* "return float(self.cache[key])": a KeyError if the entry is gone.
Read(w) ==
  /\ at[w] = "read"
  /\ Return(w, IF Present(items, Key(w)) THEN EntryOf(items, Key(w)).cost
                                         ELSE "KeyError")
  /\ UNCHANGED <<maxSize, batch, items, next, size>>

\* Mutant: an infeasible candidate is looked up and evaluated again.
EvaluateAgain(w) ==
  /\ at[w] = "evaluate"
  /\ \/ batch[task[w]].cost = "infinity" /\ Goto(w, "lookup")
     \/ batch[task[w]].cost # "infinity" /\ Goto(w, "put")
  /\ UNCHANGED <<maxSize, batch, items, next, task, size, results>>

\* The objective; an infeasible candidate is not put into the cache.
Evaluate(w) ==
  /\ at[w] = "evaluate"
  /\ \/ batch[task[w]].cost = "infinity" /\ Return(w, "infinity")
     \/ /\ batch[task[w]].cost # "infinity"
        /\ Goto(w, "put")
        /\ UNCHANGED <<task, results>>
  /\ UNCHANGED <<maxSize, batch, items, next, size>>

\* cache.put up to the return of move_to_end, or of len.
PutLookup(w) ==
  /\ at[w] = "put"
  /\ \/ /\ Present(items, Key(w))
        /\ items' = MoveToEnd(items, Key(w))
        /\ Goto(w, "store")
        /\ UNCHANGED size
     \/ /\ ~Present(items, Key(w))
        /\ size' = [size EXCEPT ![w] = Len(items)]
        /\ Goto(w, "compare")
        /\ UNCHANGED items
  /\ UNCHANGED <<maxSize, batch, next, task, results>>

Insert(w) ==
  /\ items' = Assign(items, Key(w), batch[task[w]].cost)
  /\ Return(w, batch[task[w]].cost)

\* Mutant: the eviction is left to whoever finds more than maxSize entries.
CompareTooLate(w) ==
  /\ at[w] = "compare"
  /\ \/ size[w] <= maxSize /\ Insert(w)
     \/ /\ size[w] > maxSize /\ items # <<>>
        /\ items' = PopOldest(items)
        /\ Goto(w, "store")
        /\ UNCHANGED <<task, results>>
  /\ size' = [size EXCEPT ![w] = 0]
  /\ UNCHANGED <<maxSize, batch, next>>

\* The length read is compared; popitem raises KeyError on an empty dict.
Compare(w) ==
  /\ at[w] = "compare"
  /\ \/ size[w] < maxSize /\ Insert(w)
     \/ /\ size[w] >= maxSize /\ items # <<>>
        /\ items' = PopOldest(items)
        /\ Goto(w, "store")
        /\ UNCHANGED <<task, results>>
     \/ /\ size[w] >= maxSize /\ items = <<>>
        /\ Return(w, "KeyError")
        /\ UNCHANGED items
  /\ size' = [size EXCEPT ![w] = 0]
  /\ UNCHANGED <<maxSize, batch, next>>

\* "self.cache[key] = cost", after move_to_end or popitem.
Store(w) ==
  /\ at[w] = "store"
  /\ Insert(w)
  /\ UNCHANGED <<maxSize, batch, next, size>>

\* list(executor.map(...)) takes the outcomes in the order of the candidates;
\* the first that raises is raised again, and what is still queued cancelled.
Cancel ==
  /\ next <= BatchSize
  /\ \E i \in Candidates : /\ results[i] = "KeyError"
                            /\ \A j \in 1..i - 1 : results[j] # "none"
  /\ next' = BatchSize + 1
  /\ UNCHANGED <<maxSize, batch, items, task, at, size, results>>

Step(w) ==
  \/ Take(w) \/ Lookup(w) \/ Read(w) \/ Evaluate(w)
  \/ PutLookup(w) \/ Compare(w) \/ Store(w)

BatchDone == next > BatchSize /\ \A w \in Workers : at[w] = "idle"

Idle == BatchDone /\ UNCHANGED sharedVars

SharedNext == (\E w \in Workers : Step(w)) \/ Cancel \/ Idle

\* The interpreter lets every thread that can run do so; whether the queue is
\* cancelled before the threads have emptied it is left open.
SharedSpec ==
  /\ SharedInit
  /\ [][SharedNext]_sharedVars
  /\ \A w \in Workers : WF_sharedVars(Step(w))

-----------------------------------------------------------------------------

(* The dictionary keeps one entry per key, the threads are somewhere in the *)
(* evaluation of a candidate each has to itself.                            *)
SharedTypeOK ==
  /\ maxSize \in Sizes /\ batch \in Batches
  /\ items \in Seq(DictEntry)
  /\ \A i, j \in 1..Len(items) : i # j => items[i].key # items[j].key
  /\ next \in 1..BatchSize + 1
  /\ task \in [Workers -> 0..BatchSize]
  /\ \A v, w \in Workers : v # w /\ task[v] = task[w] => task[v] = 0
  /\ at \in [Workers -> {"idle", "lookup", "read", "evaluate", "put",
                         "compare", "store"}]
  /\ size \in [Workers -> Nat]
  /\ results \in [Candidates -> Answers \cup {"none", "KeyError"}]

\* No thread raises KeyError, and what the batch found out stays: the finite
\* cost of every candidate that is done is in the cache.  An entry just looked
\* up is the newest; to lose it every older one must go first, and each of the
\* other candidates evicts one entry at most.
RoomIsEnough ==
  maxSize >= BatchSize => \A i \in Candidates :
    /\ results[i] # "KeyError"
    /\ results[i] \in {"old", "new"} => Present(items, batch[i].key)

\* Threads that find the last place free at the same time add an entry for each
\* of them but one.  A candidate whose key another one has too may add one more:
\* its put found the key present and evicts nothing, although the entry is gone
\* again by the time it is stored.
Repeated == BatchSize - Cardinality({batch[i].key : i \in Candidates})
OvershootBounded ==
  Len(items) <= maxSize + Cardinality(Workers) - 1 + Repeated

(* The missing lock does no harm while the cache has room for the batch,    *)
(* and never more than a few entries too many; the dictionary itself stays  *)
(* whole, and no candidate is evaluated by two threads (cache.py:62-83).    *)
HarmBounded == SharedTypeOK /\ RoomIsEnough /\ OvershootBounded

(* Whatever the threads do to each other's entries, the batch comes to an   *)
(* end, and a candidate is left without an outcome only behind one whose    *)
(* call has raised, so that a batch in which none raises is complete        *)
(* (evaluation.py:116-121).                                                 *)
BatchCompletes ==
  <>(BatchDone /\ \A i \in Candidates :
       results[i] # "none" \/ \E j \in 1..i - 1 : results[j] = "KeyError")

=============================================================================
