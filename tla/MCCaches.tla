------------------------------ MODULE MCCaches -------------------------------
(* The evaluation cache in its two uses: in a behaviour either one caller   *)
(* has the cache to itself, with two entries for five keys, or two threads  *)
(* evaluate a batch over a cache of one entry, or of three.                 *)
(*                                                                         *)
(* The keys are interchangeable: of the batches of three those suffice that *)
(* use them in their order.  The batch of six is the least in which a       *)
(* repeated key adds its entry to that of the race on the length.           *)
EXTENDS EvaluationCache, SharedCache

Named(keys) == [i \in DOMAIN keys |-> [key |-> keys[i], cost |-> "new"]]

MCBatches ==
  {<<>>}
  \cup { b \in [1..3 -> Candidate] : /\ b[1].key = 1 /\ b[2].key \in {1, 2}
                                    /\ b[3].key <= b[2].key + 1 }
  \cup {Named(<<1, 2, 3, 3, 4, 5>>)}

VARIABLE callers   \* the callers of the cache: "one" or "threads"

cachesVars == <<callers, cacheVars, sharedVars>>

CachesInit ==
  \/ callers = "one" /\ CacheInit /\ SharedInit /\ batch = <<>> /\ items = <<>> /\ maxSize = 1
  \/ callers = "threads" /\ SharedInit /\ batch # <<>> /\ CacheInit

CachesNext ==
  \/ callers = "one" /\ CacheNext /\ UNCHANGED <<callers, sharedVars>>
  \/ callers = "threads" /\ SharedNext /\ UNCHANGED <<callers, cacheVars>>

\* The fairness of SharedSpec.
ThreadSteps(w) == callers = "threads" /\ Step(w) /\ UNCHANGED <<callers, cacheVars>>

CachesSpec ==
  /\ CachesInit /\ [][CachesNext]_cachesVars
  /\ \A w \in Workers : WF_cachesVars(ThreadSteps(w))
==============================================================================
