----------------------------- MODULE Construction -----------------------------
(***************************************************************************)
(* The construction phase (core/engine): one seed candidate from the       *)
(* initial guess, heuristic and random candidates beside it, all of them   *)
(* evaluated as a batch - one by one, by a process pool, by a second one,  *)
(* or by threads - and one chosen from the restricted candidate list.      *)
(*                                                                         *)
(* A number is an integer count of 1/Unit: bounds need not be integers.    *)
(* Continuous samples are the multiples of 1/Unit in the box.              *)
(*                                                                         *)
(* One cache serves all iterations of a run, and looks a solution up by a  *)
(* rounded copy: a construction may find what another solution, evaluated  *)
(* anywhere before, has left.                                              *)
(***************************************************************************)
EXTENDS Integers, FiniteSets, Sequences, FiniteSetsExt

CONSTANTS
  Calls,         \* the calls: [n, half, lower, upper, guess, request, workers, caching]
  Unit,          \* the denominator of the numbers
  Grain,         \* what three decimals keep of a number, in units
  Cost(_),       \* what the objective returns for a solution
  Earlier(_),    \* the solutions a run may have evaluated before the call
  Infinity,      \* the cost of an infeasible candidate
  DefaultPool,   \* the candidates of a call that does not say, 10 in the code
  MinPool,       \* the fewest candidates, 5 in the code
  Iterations,    \* max_iterations
  Alphas         \* the schedules: [adaptive, alpha, min, max], in percent

Call == [n : Nat, half : Nat, lower : Seq(Int), upper : Seq(Int), guess : Seq(Int),
         request : Nat, workers : Nat, caching : BOOLEAN]
Unpriced == Infinity + 1    \* no cost

\* Where a number of a candidate is: in the box, or rounded out of it.
Reach(c) == UNION { (c.lower[v] - Unit)..(c.upper[v] + Unit) : v \in 1..c.n }

ASSUME ConstructionAssumption ==
  /\ Calls \subseteq Call /\ {Unit, Grain} \subseteq Nat \ {0} /\ Infinity \in Int
  /\ \A c \in Calls : \A s \in [1..c.n -> Reach(c)] : Cost(s) \in Int /\ Cost(s) <= Infinity
  /\ \A c \in Calls : /\ c.half <= c.n /\ Len(c.lower) = c.n /\ Len(c.upper) = c.n
                      /\ Len(c.guess) \in {0, c.n}       \* 0: no guess
                      /\ \A v \in 1..c.n : c.lower[v] < c.upper[v]
                      /\ \A v \in 1..c.half : (c.lower[v] + c.upper[v]) % 2 = 0
  /\ \A c \in Calls : Earlier(c) \subseteq [1..c.n -> Reach(c)]
  /\ {DefaultPool, MinPool, Iterations} \subseteq Nat \ {0}
  /\ \A a \in Alphas : /\ 0 <= a.alpha /\ a.alpha <= 100
                       /\ 0 <= a.min /\ a.min <= a.max /\ a.max <= 100

VARIABLES
  call,          \* the arguments
  stage,
  pool, costs,   \* candidates and costs
  running,       \* candidates a thread has not found in the cache
  cached,        \* the evaluation cache: costs, by rounded solutions
  inherited,     \* history: what it held at first
  nfev,          \* the objective's counter, in this process
  calls,         \* history: calls of the objective in any process
  wasted,        \* history: those made by a process pool that failed
  alpha, chosen

constructionVars ==
  <<call, alpha, inherited, stage, pool, costs, running, cached, nfev, calls, wasted, chosen>>
inputs == <<call, inherited, alpha>>    \* alpha is computed before, and read only in the end

-----------------------------------------------------------------------------
(* Candidates.                                                             *)

Vars == 1..call.n
Integral == (call.half + 1)..call.n
Partner(v) == v - call.half         \* the continuous variable an integer follows

\* np.rint(a / b): to the nearest integer, halves to even.
Rint(a, b) ==
  LET q == a \div b   r == a % b
  IN  IF 2 * r < b \/ (2 * r = b /\ q % 2 = 0) THEN q ELSE q + 1
Between(v, lo, hi) == IF v < lo THEN lo ELSE IF v > hi THEN hi ELSE v

\* The integers of a variable's bounds: Lo(v)..Hi(v), perhaps none.
\* Mutant: both bounds are rounded up.
HiUp(v) == -((-call.upper[v]) \div Unit)
Lo(v) == -((-call.lower[v]) \div Unit)
Hi(v) == call.upper[v] \div Unit
Middle(v) == Unit * Rint(call.lower[v] + call.upper[v], 2 * Unit)
Span(v) == call.upper[v] - call.lower[v]

Sampled(v) == call.lower[v]..(call.upper[v] - 1)
AroundMiddle(v) ==
  { x \in call.lower[v]..call.upper[v] :
      LET d == 2 * x - (call.lower[v] + call.upper[v])
      IN  /\ 100 * d <= 30 * Span(v) /\ -(30 * Span(v)) <= 100 * d }

RoundTail(s) == [v \in Vars |-> IF v \in Integral THEN Unit * Rint(s[v], Unit) ELSE s[v]]

\* The integer as far up its bounds as its partner is up its own.
Proportional(s, v) ==
  LET c == Partner(v)
      num == Lo(v) * Span(c) + (s[c] - call.lower[c]) * (Hi(v) - Lo(v))
  IN  Unit * Between(Rint(num, Span(c)), Lo(v), Hi(v))

\* Mutant: the last continuous variable is taken for no partner.
NoPartnerAtEnd == \E v \in Integral : Hi(v) > Lo(v) /\ Partner(v) >= call.half
\* An integer with a choice and no partner: the index is out of range.
NoPartner == \E v \in Integral : Hi(v) > Lo(v) /\ Partner(v) > call.half

Vectors(values(_)) == { s \in [Vars -> UNION {values(v) : v \in Vars}] :
                          \A v \in Vars : s[v] \in values(v) }
Heuristics ==
  LET continuous == Vectors(LAMBDA v : IF v \in Integral THEN {0} ELSE AroundMiddle(v))
  IN  { [v \in Vars |-> IF v \notin Integral THEN s[v]
                        ELSE IF Hi(v) > Lo(v) THEN Proportional(s, v)
                        ELSE IF Hi(v) = Lo(v) THEN Unit * Hi(v) ELSE Middle(v)]
        : s \in continuous }
Randoms ==
  Vectors(LAMBDA v : IF v \notin Integral THEN Sampled(v)
                     ELSE IF Hi(v) >= Lo(v) THEN {Unit * i : i \in Lo(v)..Hi(v)}
                     ELSE {Middle(v)})

\* max(num_candidates_per_step or 10, 5), the seed among them.
PoolSize == Max({IF call.request = 0 THEN DefaultPool ELSE call.request, MinPool})
Seeds == IF call.guess = <<>> THEN 0 ELSE 1
HeuristicSize == Max({1, (PoolSize - Seeds) \div 2})

\* _hash_solution: the solutions the cache takes for the same have one key.
Key(s) == [v \in Vars |-> Rint(s[v], IF v \in Integral THEN Unit ELSE Grain)]
Evaluated == Earlier(call) \cup {pool[i] : i \in DOMAIN pool}
Twins(s) == IF call.caching THEN {t \in Evaluated : Key(t) = Key(s)} ELSE {s}

StrictlyInside(s) == \A v \in Vars : call.lower[v] < s[v] /\ s[v] < call.upper[v]

-----------------------------------------------------------------------------

ConstructionInit ==
  /\ call \in Calls
  /\ alpha = 0
  /\ stage = "validate"
  /\ pool = <<>> /\ costs = <<>> /\ running = {}
  /\ \E known \in SUBSET {s \in Earlier(call) : call.caching /\ Cost(s) # Infinity} :
       cached \in { f \in [{Key(s) : s \in known} -> {Cost(s) : s \in known}] :
                     \A k \in DOMAIN f : \E s \in known : Key(s) = k /\ Cost(s) = f[k] }
  /\ inherited = DOMAIN cached
  /\ nfev = 0 /\ calls = 0 /\ wasted = 0
  /\ chosen = <<>>

Goto(s) == stage' = s

\* _validate_bounds_and_initial.
Validate ==
  /\ stage = "validate"
  /\ Goto(IF call.guess # <<>> /\ ~StrictlyInside(call.guess) THEN "rejected" ELSE "seed")
  /\ UNCHANGED <<inputs, pool, costs, running, cached, nfev, calls, wasted, chosen>>

\* n calls of the objective in this process.
Called(n) == nfev' = nfev + n /\ calls' = calls + n

Held(s) == call.caching /\ Key(s) \in DOMAIN cached
Read(s) == IF Held(s) THEN cached[Key(s)] ELSE Cost(s)

\* A finite cost is stored; a full cache drops an entry for it (which one is
\* the subject of EvaluationCache).
Put(s) ==
  IF call.caching /\ Cost(s) # Infinity
  THEN \E dropped \in SUBSET DOMAIN cached :
         /\ Cardinality(dropped) <= 1 /\ (Key(s) \in DOMAIN cached => dropped = {})
         /\ cached' = [k \in (DOMAIN cached \ dropped) \cup {Key(s)} |->
                         IF k = Key(s) THEN Cost(s) ELSE cached[k]]
  ELSE UNCHANGED cached

\* _evaluate_with_cache, after n calls that do not ask the cache.
Evaluate(s, n) ==
  IF Held(s) THEN Called(n) /\ UNCHANGED cached ELSE Called(n + 1) /\ Put(s)

\* The guess, or a random point if its cost is infinite, its tail rounded, is
\* evaluated again, now through the cache.
Seed ==
  /\ stage = "seed" /\ call.guess # <<>>
  /\ \E raw \in IF Cost(call.guess) # Infinity THEN {call.guess} ELSE Vectors(Sampled) :
       LET seed == RoundTail(raw)
       IN  pool' = <<seed>> /\ costs' = <<Read(seed)>> /\ Evaluate(seed, 1)
  /\ Goto("heuristic")
  /\ UNCHANGED <<inputs, running, wasted, chosen>>

NoSeed ==
  /\ stage = "seed" /\ call.guess = <<>>
  /\ Goto("heuristic")
  /\ UNCHANGED <<inputs, pool, costs, running, cached, nfev, calls, wasted, chosen>>

Add(candidates, size, then) ==
  /\ \E s \in candidates : pool' = Append(pool, s)
  /\ costs' = Append(costs, Unpriced)
  /\ Goto(IF Len(pool) + 1 >= size THEN then ELSE stage)
  /\ UNCHANGED <<inputs, running, cached, nfev, calls, wasted, chosen>>

AddHeuristic ==
  /\ stage = "heuristic" /\ ~NoPartner
  /\ Add(Heuristics, Seeds + HeuristicSize,
         IF Seeds + HeuristicSize >= PoolSize THEN "batch" ELSE "random")

\* solution[cont_idx] or span[cont_idx]: IndexError.
FailHeuristic ==
  /\ stage = "heuristic" /\ NoPartner
  /\ Goto("IndexError")
  /\ UNCHANGED <<inputs, pool, costs, running, cached, nfev, calls, wasted, chosen>>

AddRandom == stage = "random" /\ Add(Randoms, PoolSize, "batch")
-----------------------------------------------------------------------------
(* The batch: every candidate but the seed.                                *)

Batch == (Seeds + 1)..Len(pool)
InBatch == stage \in {"sequential", "threads"}
Waiting == {i \in Batch : costs[i] = Unpriced /\ i \notin running}
Sequentially == call.workers <= 1 \/ Cardinality(Batch) <= 1

\* Mutant: worker processes are used whether there is a cache or not.
StartPools ==
  /\ stage = "batch"
  /\ Goto(IF Sequentially THEN "sequential" ELSE "processes")
  /\ UNCHANGED <<inputs, pool, costs, running, cached, nfev, calls, wasted, chosen>>

StartBatch ==
  /\ stage = "batch"
  /\ Goto(IF Sequentially THEN "sequential" ELSE IF call.caching THEN "threads" ELSE "processes")
  /\ UNCHANGED <<inputs, pool, costs, running, cached, nfev, calls, wasted, chosen>>

EvaluateNext ==
  /\ stage = "sequential" /\ Waiting # {}
  /\ LET i == Min(Waiting)
     IN  costs' = [costs EXCEPT ![i] = Read(pool[i])] /\ Evaluate(pool[i], 0)
  /\ UNCHANGED <<inputs, stage, pool, running, wasted, chosen>>

\* A pool that ends with one of the four exceptions caught: what its workers
\* did is lost.
PoolFails(next) ==
  \E done \in 0..Cardinality(Batch) :
    /\ calls' = calls + done /\ wasted' = wasted + done
    /\ Goto(next)
    /\ UNCHANGED <<costs, nfev>>

\* Workers of another process count in a counter of their own.
PoolAnswers ==
  /\ costs' = [i \in DOMAIN costs |-> IF i \in Batch THEN Cost(pool[i]) ELSE costs[i]]
  /\ calls' = calls + Cardinality(Batch)
  /\ Goto("choose")
  /\ UNCHANGED <<nfev, wasted>>

\* BrokenProcessPool and the like are not caught.
PoolBreaks ==
  \E done \in 0..Cardinality(Batch) :
    /\ calls' = calls + done /\ wasted' = wasted + done
    /\ Goto("BrokenProcessPool")
    /\ UNCHANGED <<costs, nfev>>

ProcessPool(next) ==
  /\ PoolAnswers \/ PoolFails(next) \/ PoolBreaks
  /\ UNCHANGED <<inputs, pool, running, cached, chosen>>

StandardPool == stage = "processes" /\ ProcessPool("cloudpickle")
CloudpicklePool == stage = "cloudpickle" /\ ProcessPool("threads")

\* A worker thread takes the next candidate and looks it up.
StartThread ==
  /\ stage = "threads" /\ Waiting # {} /\ Cardinality(running) < call.workers
  /\ LET i == Min(Waiting)
     IN  IF Held(pool[i]) THEN costs' = [costs EXCEPT ![i] = Read(pool[i])] /\ UNCHANGED running
                          ELSE running' = running \cup {i} /\ UNCHANGED costs
  /\ UNCHANGED <<inputs, stage, pool, cached, nfev, calls, wasted, chosen>>

\* Mutant: results are kept in the order in which the threads finish.
FinishAsCompleted(i) ==
  /\ stage = "threads" /\ i \in running
  /\ LET place == Min({j \in Batch : costs[j] = Unpriced})
     IN  costs' = [costs EXCEPT ![place] = Cost(pool[i])]
  /\ running' = running \ {i}
  /\ Called(1) /\ Put(pool[i])
  /\ UNCHANGED <<inputs, stage, pool, wasted, chosen>>

FinishThread(i) ==
  /\ stage = "threads" /\ i \in running
  /\ costs' = [costs EXCEPT ![i] = Cost(pool[i])]
  /\ running' = running \ {i}
  /\ Called(1) /\ Put(pool[i])
  /\ UNCHANGED <<inputs, stage, pool, wasted, chosen>>

EndBatch ==
  /\ InBatch /\ Waiting = {} /\ running = {}
  /\ Goto("choose")
  /\ UNCHANGED <<inputs, pool, costs, running, cached, nfev, calls, wasted, chosen>>

-----------------------------------------------------------------------------
(* _select_from_rcl.                                                       *)

Feasible == {i \in DOMAIN costs : costs[i] # Infinity}

\* get_current_alpha: constant, or growing with the iteration.
CurrentAlphas ==
  { IF a.adaptive THEN a.min + ((a.max - a.min) * i) \div Max({1, Iterations - 1})
                  ELSE a.alpha : a \in Alphas, i \in 0..(Iterations - 1) }

\* Mutant: the threshold is taken from the greatest cost.
ListFromWorst(a) ==
  LET lo == Min({costs[i] : i \in Feasible})   hi == Max({costs[i] : i \in Feasible})
  IN  { i \in Feasible : 100 * costs[i] <= 100 * hi - a * (hi - lo) }
RestrictedList(a) ==
  LET lo == Min({costs[i] : i \in Feasible})   hi == Max({costs[i] : i \in Feasible})
  IN  { i \in Feasible : 100 * costs[i] <= 100 * lo + a * (hi - lo) }

Choose ==
  /\ stage = "choose"
  /\ alpha' \in CurrentAlphas
  /\ \/ Feasible # {} /\ \E i \in RestrictedList(alpha') : chosen' = pool[i]
     \/ Feasible = {} /\ chosen' = pool[1]
  /\ Goto("done")
  /\ UNCHANGED <<call, inherited, pool, costs, running, cached, nfev, calls, wasted>>

Step ==
  \/ Validate \/ Seed \/ NoSeed \/ AddHeuristic \/ FailHeuristic \/ AddRandom
  \/ StartBatch \/ EvaluateNext \/ StandardPool \/ CloudpicklePool
  \/ StartThread \/ (\E i \in Batch : FinishThread(i)) \/ EndBatch \/ Choose

Ended == stage \in {"done", "rejected", "IndexError", "BrokenProcessPool"}

ConstructionNext == Step \/ (Ended /\ UNCHANGED constructionVars)

ConstructionSpec == ConstructionInit /\ [][ConstructionNext]_constructionVars

-----------------------------------------------------------------------------

(* Every candidate has a place for its cost, the pool has the size asked    *)
(* for, and no more threads work than n_workers, all of them on the batch.  *)
ConstructionTypeOK ==
  /\ Len(costs) = Len(pool) /\ Len(pool) <= Max({PoolSize, Seeds + 1})
  /\ \A i \in 1..Len(pool) : DOMAIN pool[i] = Vars
  /\ running \subseteq Batch
  /\ Cardinality(running) <= call.workers
  /\ stage \in {"done", "choose"} => Len(pool) = Max({PoolSize, Seeds + 1})

(* A cost belongs to the candidate at its place, or to a solution the cache *)
(* takes for the same and that was evaluated before; without a cache, to    *)
(* the candidate.  Whoever evaluated it: the seed's two evaluations, a pool *)
(* that failed half-way and threads that overtake each other or overwrite   *)
(* an entry do not move costs (cache.py:44-79, evaluation.py:19-30, 84-121).*)
CostsMatch ==
  \A i \in 1..Len(pool) :
    /\ costs[i] # Unpriced => \E t \in Twins(pool[i]) : costs[i] = Cost(t)
    /\ stage \in {"choose", "done"} => costs[i] # Unpriced

(* Integer variables get integers, in every candidate and for any bounds.   *)
(* Built candidates stay in the box as soon as every integer variable has   *)
(* an integer between its bounds; the rounded seed only if those bounds are *)
(* integers; and the batch has its size (candidates.py:26-106).             *)
CandidatesFit ==
  /\ ConstructionTypeOK
  /\ \A i \in 1..Len(pool) :
       /\ \A v \in Integral : pool[i][v] % Unit = 0
       /\ /\ \A v \in Integral : Lo(v) <= Hi(v)
          /\ i = 1 /\ Seeds = 1 => \A v \in Integral :
               call.lower[v] % Unit = 0 /\ call.upper[v] % Unit = 0
          => \A v \in Vars : call.lower[v] <= pool[i][v] /\ pool[i][v] <= call.upper[v]

(* The solution returned was read as feasible if any candidate was, and,    *)
(* with alpha zero, as at least as cheap as every other, the seed included; *)
(* without a cache it is (rcl.py:18-39).                                   *)
ChosenWorthy ==
  stage = "done" =>
    /\ \E i \in DOMAIN pool :
         /\ chosen = pool[i]
         /\ (\E j \in DOMAIN pool : costs[j] # Infinity) => costs[i] # Infinity
         /\ alpha = 0 => \A j \in DOMAIN pool : costs[i] <= costs[j]
    /\ ~call.caching =>
         /\ (\E i \in DOMAIN pool : Cost(pool[i]) # Infinity) => Cost(chosen) # Infinity
         /\ alpha = 0 => \A i \in DOMAIN pool : Cost(chosen) <= Cost(pool[i])

(* nfev misses exactly what worker processes evaluate.  Each candidate      *)
(* costs one call, a guess one more, a pool that failed what it wasted;     *)
(* with a cache never more than that, whatever it has dropped meanwhile,    *)
(* and never less than one call for a guess and one for each group of twins *)
(* the cache knew nothing of (evaluation.py:19-30, 92-121).                *)
CallsAccounted ==
  LET most == Len(pool) + Seeds + wasted
      news == {Key(pool[i]) : i \in DOMAIN pool} \ inherited
  IN  /\ nfev <= calls
      /\ call.caching \/ Sequentially => nfev = calls /\ wasted = 0
      /\ stage = "done" =>
           /\ calls <= most
           /\ ~call.caching => calls = most
           /\ call.caching => calls >= Seeds + Cardinality(news)

(* A construction fails only where the integer part is longer than the      *)
(* continuous one, or in a process pool that breaks.                        *)
FailsOnlyOnSplit ==
  /\ stage = "IndexError" => call.n > 2 * call.half
  /\ stage = "BrokenProcessPool" => call.workers > 1 /\ ~call.caching
  /\ stage = "rejected" => call.guess # <<>>

(* "integer_split: ... 0 for fully integer problems" (config.py): such a    *)
(* problem is constructed.                                                  *)
IntegerProblemsWork == call.half = 0 => stage # "IndexError"

===============================================================================
