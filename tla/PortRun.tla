------------------------------- MODULE PortRun -------------------------------
(***************************************************************************)
(* What the runs of the ports (Rust with C++, Julia, R) have in common:    *)
(* their variables, their solutions and the moves of their searches.  The  *)
(* stages are those of GraspLoop, but each port orders, guards and resets  *)
(* them in its own way: RustRun, JuliaRun and RRun have its actions.       *)
(*                                                                         *)
(* A solution is a vector of levels, since what tells the ports' searches  *)
(* apart is which coordinates they move, mix or overwrite.  A coordinate   *)
(* is within its bounds, at an end an integer bound has been rounded to, or *)
(* at the level 0, a literal zero of the code that the bounds of the       *)
(* instance exclude.  Costs are those of ElitePool; in Rust, C++ and Julia *)
(* a wrapper changes the sign of a maximization, in R the comparisons turn *)
(* round (maximize).  Guesses are as a run has normalized them.            *)
(*                                                                         *)
(* Costs are read through a cache that looks a solution up by a rounded    *)
(* copy of it: what a run reads is the cost of some solution with the same *)
(* key, and the same for all of them, until the cache forgets it.          *)
(***************************************************************************)
EXTENDS ElitePool, Integers, FiniteSets

CONSTANTS
  Bounds,            \* the levels within the bounds, per coordinate
  Ends,              \* the levels outside that an end of a bound rounds to
  Split,             \* the coordinates up to this one are continuous
  Rounded,           \* what the key of the cache keeps of a solution
  Representatives,   \* which solution of each key a cache has the cost of
  NoSolution,        \* the incumbent of a run that has not started
  Objectives,        \* the objective functions of the instance
  WarmStarts,        \* the sequences of initial guesses of the instance
  Settings,          \* the ports and configurations of the instance
  MaxIterations,     \* max_iterations
  MonitorThreshold,  \* the 50 of the monitor in Rust and C++
  RestartFloor,      \* the 5 of R's stagnation test
  RelinkFrequency,   \* path_relink_frequency
  IlsIterations,     \* ils_iterations
  Kicks,             \* what ILS moves in Rust: strength, at most n / 5
  Drops,             \* the most accepted moves of a descent
  Batch,             \* the places of a batch of candidates, 1..n
  Alphas, AlphaUnit  \* the values of alpha, in units of 1 / AlphaUnit

Coords == 1..Len(Bounds)
Reach == [i \in Coords |-> Bounds[i] \cup Ends[i]]
Levels == {0} \cup UNION {Reach[i] : i \in Coords}
Within(range) == {s \in [Coords -> Levels] : \A i \in Coords : s[i] \in range[i]}

\* The points within the bounds; those a clamped point is rounded to.
Box == Within(Bounds)
Wide == Within(Reach)
Strategies == {"bidirectional", "forward", "backward", "randomized"}

Setting == [ port      : {"rust", "julia", "r"},
             elitePool : BOOLEAN,      \* use_elite_pool
             cached    : BOOLEAN,      \* use_cache
             monitor   : BOOLEAN,      \* use_convergence_monitor
             limited   : BOOLEAN,      \* time_limit > 0
             maximize  : BOOLEAN,      \* direction, where it is not a sign
             strategy  : Strategies,   \* path_relink_strategy
             stopAfter : Nat ]         \* early_stop_threshold

ASSUME PortAssumption ==
  /\ Solutions = [Coords -> Levels] /\ NoSolution \notin Solutions
  /\ Bounds \in Seq(SUBSET (Nat \ {0})) /\ \A i \in Coords : Bounds[i] # {}
  /\ Ends \in Seq(SUBSET (Nat \ {0})) /\ Len(Ends) = Len(Bounds)
  /\ Split \in Nat /\ \A i \in Coords : i <= Split => Ends[i] = {}
  /\ Objectives \subseteq [Solutions -> Costs]
  /\ Representatives \subseteq [Solutions -> Solutions]
  /\ \A r \in Representatives, s \in Solutions : Rounded[r[s]] = Rounded[s]
  /\ WarmStarts \subseteq Seq(Wide)
  /\ Settings \subseteq Setting
  /\ \A c \in Settings : c.stopAfter > 0 /\ (c.maximize => c.port = "r")
  /\ MaxIterations \in Nat \ {0} /\ RelinkFrequency \in Nat \ {0}
  /\ MonitorThreshold \in Nat /\ IlsIterations \in Nat /\ Drops \in Nat
  /\ Kicks \in Nat
  /\ Batch \subseteq Nat \ {0} /\ 1 \in Batch

VARIABLES
  config, objective,   \* the inputs of the run, and
  guesses,             \* its initial guesses
  price,               \* what a reading of a cost gives
  seeded,              \* how many entries have been considered as seeds
  pc,                  \* the stage the run is in
  spent,               \* the iterations completed, also the loop variable
  nit,                 \* the iterations the run will report
  ended,               \* "running", then why the loop ended
  best,                \* best_solution and best_cost
  stagnation,          \* iterations since the incumbent improved, with resets
  bestEver, noImprove, \* the convergence monitor
  late,                \* the deadline has passed
  cand,                \* the iteration's candidate and its cost
  items,               \* the elite pool of R
  snapshot, pair,      \* the elites being relinked, the pair to be next
  lastGain,            \* history: the iteration of the last improvement
  found,               \* history: the least loss of a descent's result
  gaveUp,              \* history: the least loss ILS has exchanged for more
  leaked,              \* history: a solution was given another one's cost
  picked               \* history: what is wrong with the last pick, if any

inputs == <<config, objective, guesses>>
flow == <<pc, spent, nit, ended>>
incumbent == <<best, lastGain>>
monitor == <<bestEver, noImprove>>
elites == <<pool, items>>
relink == <<snapshot, pair>>
history == <<found, gaveUp, leaked, picked>>
vars == <<inputs, price, seeded, flow, incumbent, stagnation, monitor, late, cand,
          elites, relink, history>>

-----------------------------------------------------------------------------
(* Values, and the points searches move to.                                *)

\* What evaluate_with_cache may read; the keys all have one representative.
Readings(f) ==
  IF config.cached THEN {[s \in Solutions |-> f[r[s]]] : r \in Representatives}
                   ELSE {f}

\* What it reads in some run.
Prices == Objectives \cup
  {[s \in Solutions |-> f[r[s]]] : f \in Objectives, r \in Representatives}

\* The solutions a reading may confuse with s.
Twins(s) ==
  {t \in Solutions : t = s \/ (config.cached /\ Rounded[t] = Rounded[s])}

Priced(s) == [sol |-> s, cost |-> price[s]]
PricedBy(f, s) == [sol |-> s, cost |-> f[s]]
Nothing == [sol |-> NoSolution, cost |-> Infinity]
Finite(v) == v # Infinity

\* is_improvement of R, up for a maximization; elsewhere the wrapper has
\* changed the sign.
Beats(v, w, up) == IF up THEN v > w ELSE v < w
Better(v, w) == Beats(v, w, config.maximize)

\* The cost is the solution's own, or that of one with the same key.
Belongs(e) == \E t \in Twins(e.sol) : e.cost = objective[t]

\* What is lost by a value, on one scale for both directions.
Lost(v, up) == IF up /\ Finite(v) THEN Infinity - 1 - v ELSE v
Loss(v) == Lost(v, config.maximize)

\* Mutant: a moved coordinate is not clamped.
MovedUnclamped(s, k, range) ==
  {t \in Solutions : Cardinality({i \in Coords : t[i] # s[i]}) <= k}

\* The points got from s by moving at most k coordinates, each of them to a
\* value that is clamped to its bounds, and rounded before or after.
Moved(s, k, range) ==
  {t \in Solutions : LET moved == {i \in Coords : t[i] # s[i]}
                     IN  /\ Cardinality(moved) <= k
                         /\ \A i \in moved : t[i] \in range[i]}

\* What is reached from the first by at most limit steps; next[x] is what one
\* step makes of x.
Reached(first, next, limit) ==
  LET after[n \in 0..limit] ==
        IF n = 0 THEN first
        ELSE UNION {{x} \cup next[x] : x \in after[n - 1]}
  IN  after[limit]

\* What a descent on f from s through the given neighbourhoods may return:
\* every accepted move is finite and strictly better, and the descent may
\* stop, out of luck, sweeps or time, after any of them.
Descended(f, s, neighbours, up) ==
  Reached({s}, [t \in Solutions |->
                  {u \in neighbours[t] : Finite(f[u]) /\ Beats(f[u], f[t], up)}],
          Drops)

\* Where a walk is between two points: at a point, the best one it has seen,
\* and the coordinates in which it still differs from the target.
Leg == [at : Solutions, top : Solutions, left : SUBSET Coords]
Differing(s, t) == {i \in Coords : s[i] # t[i]}
Departure(s, t) == [at |-> s, top |-> s, left |-> Differing(s, t)]

-----------------------------------------------------------------------------
(* Batches of candidates, and what is wrong with a pick.                   *)

\* A batch cut short by the deadline picks as one that repeats its first
\* candidate; guess is a sequence of at most one point.
Batches(guess, points) ==
  {b \in [Batch -> points] : guess # <<>> => b[1] = guess[1]}

Least(S) == CHOOSE v \in S : \A w \in S : v <= w

\* A pick is unworthy if a finite candidate was there and the pick is not
\* within alpha of the best of the finite ones; list is the restricted list
\* the pick was to be taken from.
Pick(f, b, k, alpha, list, up) ==
  LET losses == {Lost(f[b[j]], up) : j \in {i \in Batch : Finite(f[b[i]])}}
      low    == Least(losses)
      high   == CHOOSE v \in losses : \A w \in losses : w <= v
      mine   == Lost(f[b[k]], up)
  IN  IF \/ losses = {}
         \/ Finite(mine) /\ AlphaUnit * (mine - low) <= alpha * (high - low)
      THEN {}
      ELSE {"unworthy"} \cup
           {x \in {"blind"} : \E j \in Batch : ~Finite(f[b[j]])} \cup
           {x \in {"lone"} : Cardinality(list) = 1}

-----------------------------------------------------------------------------
(* Bookkeeping.                                                            *)

\* Mutant: an equal cost replaces the incumbent.
ChallengeWithTies(e, gain, k) ==
  \/ /\ gain \/ (best # Nothing /\ e.cost = best.cost /\ e # best)
     /\ best' = e /\ lastGain' = k
  \/ ~gain /\ UNCHANGED incumbent

\* "if cost < best_cost", in whatever form the port has it (gain); k is the
\* iteration e came from.
Challenge(e, gain, k) ==
  \/ gain /\ best' = e /\ lastGain' = k
  \/ ~gain /\ UNCHANGED incumbent

\* Mutant: a gain does not reset the count.
CountKept == IF best.cost < bestEver THEN noImprove ELSE noImprove + 1

\* ConvergenceMonitor.update of Rust, C++ and Julia.
Counted == IF best.cost < bestEver THEN 0 ELSE noImprove + 1

OfferIf(use, e) ==
  \/ use /\ Offer(e)
  \/ ~use /\ UNCHANGED pool

KeepTop(p, n) == [k \in 1..Least({n, Len(p)}) |-> p[k]]

Met(e) == found' = Least({found, Loss(e.cost)})

GiveUp(e, f) ==
  gaveUp' = IF Loss(e.cost) < Loss(f.cost) THEN Least({gaveUp, Loss(e.cost)})
                                           ELSE gaveUp

\* Between two iterations: what the cache had to drop is priced again.
Forgets == price' \in Readings(objective)

Patience == MaxIterations \div 4

PortInit ==
  /\ config \in Settings /\ objective \in Objectives
  /\ guesses \in WarmStarts /\ seeded = 0
  /\ config.port # "rust" => guesses \in Seq(Box)
  /\ price \in Readings(objective)
  /\ pc = "start" /\ spent = 0 /\ nit = 0 /\ ended = "running"
  /\ best = Nothing /\ lastGain = 0 /\ stagnation = 0
  /\ bestEver = (IF config.port = "r" THEN -1 ELSE Infinity) /\ noImprove = 0
  /\ late = FALSE /\ cand = Nothing
  /\ items = <<>> /\ snapshot = <<>> /\ pair = <<1, 2>>
  /\ found = Infinity /\ gaveUp = Infinity /\ leaked = FALSE /\ picked = {}
  /\ PoolInit

=============================================================================
