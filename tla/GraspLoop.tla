------------------------------ MODULE GraspLoop ------------------------------
(***************************************************************************)
(* One run of the optimizer: warm starts, then GRASP iterations of         *)
(* construction, descent (VND), iterated local search (ILS), bookkeeping   *)
(* of the incumbent, the elite pool and the convergence monitor, path      *)
(* relinking, reactive restart and the stopping tests (core/engine/).      *)
(*                                                                         *)
(* Each action makes at most one call on the elite pool, so that the run   *)
(* is an execution of ElitePool and of Incumbent.  The searches are        *)
(* abstracted to what they may return: a descent returns its start or a    *)
(* solution it read as cheaper.  What a read returns is not what the       *)
(* objective returns: evaluations go through a cache keyed by the rounded  *)
(* solution, so the cost read for a solution is the objective of some      *)
(* member of its bucket (Bucket[s] = {s} is a run without the cache).      *)
(* A solution is an element of Solutions; those of Box respect the bounds. *)
(***************************************************************************)
EXTENDS ElitePool, Integers

CONSTANTS
  Box,                  \* the solutions within the bounds
  NoSolution,           \* the zero vector the incumbent starts from
  Bucket,               \* Bucket[s]: the solutions that share a key with s
  Objectives,           \* the objective functions of the instance
  WarmStarts,           \* the sequences of initial guesses of the instance
  MaxIterations,        \* max_iterations
  EarlyStopThreshold,   \* early_stop_threshold
  RelinkFrequency,      \* path_relink_frequency
  Configs               \* the other choices of a configuration

Strategies == {"bidirectional", "forward", "backward", "randomized"}

Config == [ strategy    : Strategies,   \* path_relink_strategy
            elitePool   : BOOLEAN,      \* use_elite_pool
            monitor     : BOOLEAN,      \* use_convergence_monitor
            timeLimited : BOOLEAN,      \* time_limit > 0
            mayRaise    : BOOLEAN ]     \* the objective may raise what its
                                        \* wrapper lets through

ASSUME GraspAssumption ==
  /\ Box \subseteq Solutions /\ Box # {}
  /\ NoSolution \notin Solutions
  /\ Bucket \in [Solutions -> SUBSET Solutions]
  /\ \A s \in Solutions : s \in Bucket[s]
  /\ Objectives \subseteq [Solutions -> Costs]
  /\ WarmStarts \subseteq Seq(Box)
  /\ MaxIterations \in Nat \ {0}
  /\ EarlyStopThreshold \in Nat \ {0}
  /\ RelinkFrequency \in Nat \ {0}
  /\ Configs \subseteq Config

VARIABLES
  config,        \* the configuration, an input of the run
  objective,     \* the user's function, as the core sees it
  guesses,       \* the warm starts still to be evaluated
  pc,            \* the stage the run is in
  iteration,     \* the loop variable, counted from 0
  nit,           \* actual_nit, the iterations completed
  termination,   \* "running", then the reason the run ended
  best,          \* best_solution
  bestCost,      \* best_cost
  stagnation,    \* iterations since the incumbent improved, with resets
  bestEver,      \* the monitor's best_ever
  noImprove,     \* the monitor's no_improve_count
  expired,       \* the deadline has passed
  work,          \* the iteration's candidate, and
  workCost,      \* the cost the iteration has for it
  snapshot,      \* the elites path relinking started from, and
  pair,          \* the pair of them to be relinked next
  lastGain       \* history: the iteration (from 1; 0 for a warm start) in
                 \* which the incumbent last improved

inputs == <<config, objective>>
incumbent == <<best, bestCost, lastGain>>
monitor == <<bestEver, noImprove>>
relink == <<snapshot, pair>>
candidate == <<work, workCost>>
control == <<pc, iteration, nit, termination>>
vars == <<inputs, guesses, control, incumbent, stagnation, monitor, expired,
          candidate, relink, pool>>

-----------------------------------------------------------------------------
(* What evaluations and searches may return.                               *)

Readings(s) == {objective[t] : t \in Bucket[s]}

\* _evaluate_solution_with_cache also turns an exception into infinity.
Evaluations(s) ==
  Readings(s) \cup {c \in {Infinity} : config.mayRaise}

\* s, or a solution of region that was read as cheaper than s.
Descents(s, region) ==
  {s} \cup { t \in region :
               \E after \in Readings(t), before \in Readings(s) : after < before }

\* Relinking from s towards t mixes coordinates of the two, so it stays in
\* the box if both are in it; the descent that refines the best point of the
\* path is given no bounds.
Relinked(s, t) ==
  LET path == IF {s, t} \subseteq Box THEN Box ELSE Solutions
  IN  UNION { Descents(x, Solutions) : x \in Descents(s, path) }

RelinkResults(s, t) ==
  CASE config.strategy = "forward"  -> Relinked(s, t)
    [] config.strategy = "backward" -> Relinked(t, s)
    [] OTHER                       -> Relinked(s, t) \cup Relinked(t, s)

-----------------------------------------------------------------------------
(* Bookkeeping shared by the stages.                                       *)

\* Mutants: warm starts do not become the incumbent; ties replace it.
ChallengeAfterWarmStart(s, c, k) ==
  \/ /\ c < bestCost /\ k > 0
     /\ best' = s /\ bestCost' = c /\ lastGain' = k
  \/ /\ c >= bestCost \/ k = 0
     /\ UNCHANGED incumbent
ChallengeWithTies(s, c, k) ==
  \/ /\ c <= bestCost
     /\ best' = s /\ bestCost' = c /\ lastGain' = k
  \/ /\ c > bestCost
     /\ UNCHANGED incumbent

\* "if cost < best_cost: best_cost, best_solution = ..."; k is the iteration
\* the candidate came from.
Challenge(s, c, k) ==
  \/ /\ c < bestCost
     /\ best' = s /\ bestCost' = c /\ lastGain' = k
  \/ /\ c >= bestCost
     /\ UNCHANGED incumbent

\* Mutant: the solution is appended, whatever the pool holds.
AppendElite(s, c) == pool' = Append(pool, [sol |-> s, cost |-> c])

\* "if use_elite_pool: elite_pool.add(...)".
OfferElite(s, c) ==
  \/ config.elitePool /\ Offer([sol |-> s, cost |-> c])
  \/ ~config.elitePool /\ UNCHANGED pool

GraspInit ==
  /\ config \in Configs
  /\ objective \in Objectives
  /\ guesses \in WarmStarts
  /\ pc = "warm" /\ iteration = 0 /\ nit = 0 /\ termination = "running"
  /\ best = NoSolution /\ bestCost = Infinity /\ lastGain = 0
  /\ stagnation = 0
  /\ bestEver = Infinity /\ noImprove = 0
  /\ expired = FALSE
  /\ work = NoSolution /\ workCost = Infinity
  /\ snapshot = <<>> /\ pair = <<1, 2>>
  /\ PoolInit

-----------------------------------------------------------------------------
(* _maybe_apply_warm_start: the raw objective, not the cache.              *)

WarmStart ==
  /\ pc = "warm" /\ guesses # <<>>
  /\ LET s == Head(guesses)
     IN  /\ OfferElite(s, objective[s])
         /\ Challenge(s, objective[s], 0)
  /\ guesses' = Tail(guesses)
  /\ UNCHANGED <<inputs, control, stagnation, monitor, expired, candidate,
                 relink>>

StartLoop ==
  /\ pc = "warm" /\ guesses = <<>>
  /\ pc' = "head"
  /\ UNCHANGED <<inputs, guesses, iteration, nit, termination, incumbent,
                 stagnation, monitor, expired, candidate, relink, pool>>

-----------------------------------------------------------------------------
(* The head of the loop in _run_grasp_loop.                                *)

Exhausted ==
  /\ pc = "head" /\ iteration = MaxIterations
  /\ pc' = "done" /\ termination' = "max_iterations"
  /\ UNCHANGED <<inputs, guesses, iteration, nit, incumbent, stagnation,
                 monitor, expired, candidate, relink, pool>>

TimeOut ==
  /\ pc = "head" /\ iteration < MaxIterations /\ expired
  /\ pc' = "done" /\ termination' = "time_limit"
  /\ UNCHANGED <<inputs, guesses, iteration, nit, incumbent, stagnation,
                 monitor, expired, candidate, relink, pool>>

\* Mutant: the range of iterations includes MaxIterations.
ConstructOnceMore ==
  /\ pc = "head" /\ iteration <= MaxIterations /\ ~expired
  /\ work' \in Box
  /\ pc' = "vnd"
  /\ UNCHANGED <<inputs, guesses, iteration, nit, termination, incumbent,
                 stagnation, monitor, expired, workCost, relink, pool>>

\* construct_grasp samples candidates in the box and draws one of them.
Construct ==
  /\ pc = "head" /\ iteration < MaxIterations /\ ~expired
  /\ work' \in Box
  /\ pc' = "vnd"
  /\ UNCHANGED <<inputs, guesses, iteration, nit, termination, incumbent,
                 stagnation, monitor, expired, workCost, relink, pool>>

-----------------------------------------------------------------------------
(* _run_iteration_step.                                                    *)

\* The descent, and the evaluation of what it returns.
Vnd ==
  /\ pc = "vnd"
  /\ work' \in IF expired THEN {work} ELSE Descents(work, Box)
  /\ workCost' \in Evaluations(work')
  /\ pc' = "ils"
  /\ UNCHANGED <<inputs, guesses, iteration, nit, termination, incumbent,
                 stagnation, monitor, expired, relink, pool>>

\* The perturbed solutions are judged by the raw objective against the cost
\* at hand, the result is evaluated through the cache again.
Ils ==
  /\ pc = "ils"
  /\ \/ work' = work
     \/ ~expired /\ work' \in {t \in Box : objective[t] < workCost}
  /\ workCost' \in Evaluations(work')
  /\ pc' = "record"
  /\ UNCHANGED <<inputs, guesses, iteration, nit, termination, incumbent,
                 stagnation, monitor, expired, relink, pool>>

\* The callback, then the incumbent and the elite pool.
Record ==
  /\ pc = "record"
  /\ Challenge(work, workCost, iteration + 1)
  /\ stagnation' = IF workCost < bestCost THEN 0 ELSE stagnation + 1
  /\ OfferElite(work, workCost)
  /\ work' = NoSolution /\ workCost' = Infinity
  /\ pc' = "monitor"
  /\ UNCHANGED <<inputs, guesses, iteration, nit, termination, monitor,
                 expired, relink>>

\* Mutant: an improvement does not reset the count.
CountWithoutReset == IF bestCost < bestEver THEN noImprove ELSE noImprove + 1

\* ConvergenceMonitor.update: the count after seeing the incumbent's cost.
NoImproveAfterUpdate == IF bestCost < bestEver THEN 0 ELSE noImprove + 1

ShouldRestart == NoImproveAfterUpdate >= EarlyStopThreshold

\* Mutant: without a monitor the stagnation counter is left alone.
UnmonitoredKeepsCount ==
  /\ pc = "monitor" /\ ~config.monitor
  /\ pc' = "relink"
  /\ UNCHANGED <<inputs, guesses, iteration, nit, termination, incumbent,
                 stagnation, monitor, expired, candidate, relink, pool>>

\* _handle_convergence_monitor: without a monitor it answers 0, and any
\* answer but -1 overwrites the stagnation counter.
Unmonitored ==
  /\ pc = "monitor" /\ ~config.monitor
  /\ stagnation' = 0
  /\ pc' = "relink"
  /\ UNCHANGED <<inputs, guesses, iteration, nit, termination, incumbent,
                 monitor, expired, candidate, relink, pool>>

Monitor ==
  /\ pc = "monitor" /\ config.monitor
  /\ noImprove' = NoImproveAfterUpdate
  /\ bestEver' = IF bestCost < bestEver THEN bestCost ELSE bestEver
  /\ \/ ~ShouldRestart /\ UNCHANGED <<stagnation, pool>>
     \/ /\ ShouldRestart
        /\ stagnation' = 0
        /\ \/ PartialRestart
           \/ Len(pool) <= 2 /\ UNCHANGED pool
  /\ pc' = "relink"
  /\ UNCHANGED <<inputs, guesses, iteration, nit, termination, incumbent,
                 expired, candidate, relink>>

-----------------------------------------------------------------------------
(* do_path_relinking: the pairs <<i, j>>, i < j, of the four best elites of *)
(* a copy of the pool, i ascending and j ascending within it.              *)

RelinkTurn ==
  config.elitePool /\ iteration > 0 /\ iteration % RelinkFrequency = 0

RelinkDue == RelinkTurn /\ Len(pool) >= 2

LastPartner == IF Len(snapshot) < 4 THEN Len(snapshot) ELSE 4

\* Mutant: the inner loop does not advance.
SamePair == pair

NextPair ==
  IF pair[2] < LastPartner THEN <<pair[1], pair[2] + 1>>
                           ELSE <<pair[1] + 1, pair[1] + 2>>

\* Both range() loops are over once the pair's second index leaves the copy.
PairsLeft == pair[2] <= LastPartner

StartRelink ==
  /\ pc = "relink" /\ RelinkDue
  /\ snapshot' = pool /\ pair' = <<1, 2>>
  /\ pc' = "pairs"
  /\ UNCHANGED <<inputs, guesses, iteration, nit, termination, incumbent,
                 stagnation, monitor, expired, candidate, pool>>

RelinkPair ==
  /\ pc = "pairs" /\ PairsLeft /\ ~expired
  /\ \E s \in RelinkResults(snapshot[pair[1]].sol, snapshot[pair[2]].sol) :
       \E c \in Readings(s) :
         /\ Challenge(s, c, iteration + 1)
         /\ stagnation' = IF c < bestCost THEN 0 ELSE stagnation
         /\ Offer([sol |-> s, cost |-> c])
  /\ pair' = NextPair
  /\ UNCHANGED <<inputs, guesses, control, monitor, expired, candidate,
                 snapshot>>

Patience == MaxIterations \div 4

\* The end of an iteration's body: a reactive restart if the search stagnates.
EndStage == pc' = IF stagnation > Patience THEN "restart" ELSE "stop"

SkipRelink ==
  /\ pc = "relink" /\ ~RelinkDue
  /\ EndStage
  /\ UNCHANGED <<inputs, guesses, iteration, nit, termination, incumbent,
                 stagnation, monitor, expired, candidate, relink, pool>>

\* No pair is left, or the deadline breaks every inner loop that remains.
EndRelink ==
  /\ pc = "pairs" /\ (~PairsLeft \/ expired)
  /\ snapshot' = <<>> /\ pair' = <<1, 2>>
  /\ EndStage
  /\ UNCHANGED <<inputs, guesses, iteration, nit, termination, incumbent,
                 stagnation, monitor, expired, candidate, pool>>

\* _reactive_restart: some solution of the box, at its raw cost.
ReactiveRestart ==
  /\ pc = "restart"
  /\ \E s \in Box : /\ Challenge(s, objective[s], iteration + 1)
                    /\ OfferElite(s, objective[s])
  /\ stagnation' = 0
  /\ pc' = "stop"
  /\ UNCHANGED <<inputs, guesses, iteration, nit, termination, monitor,
                 expired, candidate, relink>>

-----------------------------------------------------------------------------
(* The foot of the loop, and the environment.                              *)

EarlyStopDue == config.monitor /\ noImprove >= EarlyStopThreshold

CompleteIteration ==
  /\ pc = "stop"
  /\ nit' = iteration + 1
  /\ \/ /\ EarlyStopDue
        /\ pc' = "done" /\ termination' = "early_stop"
        /\ UNCHANGED iteration
     \/ /\ ~EarlyStopDue
        /\ pc' = "head" /\ iteration' = iteration + 1
        /\ UNCHANGED termination
  /\ UNCHANGED <<inputs, guesses, incumbent, stagnation, monitor, expired,
                 candidate, relink, pool>>

\* The deadline is set after the warm starts.
DeadlinePasses ==
  /\ config.timeLimited /\ ~expired
  /\ pc \notin {"warm", "done"}
  /\ expired' = TRUE
  /\ UNCHANGED <<inputs, guesses, control, incumbent, stagnation, monitor,
                 candidate, relink, pool>>

\* An exception other than ValueError, RuntimeError and FloatingPointError
\* leaves the objective's wrapper.  The stages that call it directly do not
\* catch it: the caller of givp gets the exception, not the incumbent.
ObjectiveRaises ==
  /\ config.mayRaise
  /\ \/ pc = "warm" /\ guesses # <<>>
     \/ pc \in {"vnd", "ils", "restart"}
     \/ pc = "pairs" /\ PairsLeft /\ ~expired
  /\ pc' = "done" /\ termination' = "raised"
  /\ UNCHANGED <<inputs, guesses, iteration, nit, incumbent, stagnation,
                 monitor, expired, candidate, relink, pool>>

Run ==
  \/ WarmStart \/ StartLoop
  \/ Exhausted \/ TimeOut \/ Construct
  \/ Vnd \/ Ils \/ Record
  \/ Unmonitored \/ Monitor
  \/ StartRelink \/ RelinkPair \/ SkipRelink \/ EndRelink
  \/ ReactiveRestart \/ CompleteIteration

Finished == pc = "done" /\ UNCHANGED vars

GraspNext == Run \/ DeadlinePasses \/ ObjectiveRaises \/ Finished

\* The run is one thread: it keeps going as long as it has a step to take.
GraspSpec == GraspInit /\ [][GraspNext]_vars /\ WF_vars(Run)

-----------------------------------------------------------------------------
(* Properties.                                                             *)

Stages == {"warm", "head", "vnd", "ils", "record", "monitor", "relink",
           "pairs", "restart", "stop", "done"}
Reasons == {"max_iterations", "time_limit", "early_stop", "raised"}

(* The variables of a run keep their types, and its counters their bounds.  *)
GraspTypeOK ==
  /\ config \in Config
  /\ objective \in [Solutions -> Costs]
  /\ guesses \in Seq(Box)
  /\ pc \in Stages
  /\ iteration \in 0..MaxIterations
  /\ nit \in 0..MaxIterations
  /\ termination \in Reasons \cup {"running"}
  /\ best \in Solutions \cup {NoSolution}
  /\ bestCost \in Costs
  /\ lastGain \in 0..MaxIterations
  /\ stagnation \in 0..MaxIterations
  /\ bestEver \in Costs
  /\ noImprove \in 0..MaxIterations
  /\ expired \in BOOLEAN
  /\ work \in Solutions \cup {NoSolution}
  /\ workCost \in Costs
  /\ snapshot \in Seq(Entry)
  /\ pair \in (1..4) \X (1..5)
  /\ PoolTypeOK

(* The incumbent is at least as good as every member of the elite pool and  *)
(* as everything the monitor has seen, at every step: whatever stage a      *)
(* solution comes from (warm start, iteration, relinking, restart), it is   *)
(* compared with the incumbent when it is offered to the pool.              *)
IncumbentDominates ==
  /\ \A k \in 1..Len(pool) : bestCost <= pool[k].cost
  /\ bestCost <= bestEver

(* A run that stops early has not improved its incumbent in its last        *)
(* EarlyStopThreshold iterations, but for path relinking in the very last   *)
(* one: the monitor counts iterations by what it saw between two updates,   *)
(* so a gain it has not seen yet (relinking and the reactive restart come   *)
(* after the update) must reach the next update and reset the count.        *)
EarlyStopEarned ==
  termination = "early_stop" =>
    \/ nit - lastGain >= EarlyStopThreshold
    \/ lastGain = nit /\ RelinkTurn

(* The code's reading of "stagnation": a reactive restart happens only      *)
(* after more than a quarter of the budget of iterations without a gain of  *)
(* any stage, although four places reset or keep the counter.               *)
RestartEarned ==
  pc = "restart" =>
    /\ iteration + 1 - lastGain > Patience
    /\ config.monitor

(* Whatever the deadline, the monitor and the pool do, the loop ends and    *)
(* gives a reason.                                                          *)
Terminates == <>(termination \in Reasons)

\* What a run promises its caller, whatever its stages do.
Promise == INSTANCE Incumbent WITH spent <- nit, verdict <- termination,
  stoppable <- config.monitor, limited <- config.timeLimited

(* A run is an anytime optimizer: its incumbent changes only for a strictly *)
(* better cost, the two move together, completed iterations are counted one *)
(* by one up to the budget, the reason it gives is the reason it stopped,   *)
(* and nothing changes afterwards.                                          *)
ImplementsIncumbent == Promise!IncumbentSpec

(* Seen through its pool, a run is a sequence of additions and partial      *)
(* restarts.                                                                *)
ImplementsPool == PoolSpec

(* "The result vector lies inside the bounds" (tests/test_properties.py).   *)
ResultInBounds ==
  termination \in Reasons => best \in Box \cup {NoSolution}

(* "fun: Objective value at x" (result.py): the cost returned is the        *)
(* objective of the solution returned.                                      *)
CostIsObjective ==
  termination \in Reasons /\ best \in Solutions => bestCost = objective[best]

=============================================================================
