------------------------------- MODULE Search --------------------------------
(***************************************************************************)
(* The searches that call a descent: iterated local search (core/ils.py),  *)
(* which perturbs, descends and accepts, and path relinking (core/pr.py,   *)
(* core/engine/relinking.py), which walks from one elite to another one    *)
(* coordinate at a time and refines the best point met.  A task is one     *)
(* call of one of them, or of a descent alone; the deadline may pass at    *)
(* any moment and is read only where the code reads it.                    *)
(***************************************************************************)
EXTENDS Descent

CONSTANTS
  Tasks,                 \* the calls of the instance: <<name, shape, mode>>
  IlsIterations,         \* ils_iterations
  PerturbationStrength,  \* perturbation_strength
  MaxRelink,             \* max_pr_vars, 25 in the code
  RelinkStride           \* a walk looks at the clock every 5 variables

Relinks == {"forward", "backward", "randomized", "bidirectional", "best"}

ASSUME SearchAssumption ==
  /\ Tasks \subseteq ({"vnd", "ils"} \cup Relinks) \X Shapes \X Mode
  /\ {IlsIterations, MaxRelink, RelinkStride} \subseteq Nat \ {0}
  /\ PerturbationStrength \in Nat

VARIABLES
  task,            \* what was called
  step,            \* "loop", "walk", "descent" or "over"
  origins,         \* walk: what it was given, source and target
  ilsIter,         \* ils_iter
  cur, curCost,    \* ILS: the accepted solution
  best, bestCost,  \* what would be returned
  leg,             \* walk: which direction, and what the first one found
  path,            \* walk: the current point,
  left,            \* the coordinates still to be moved
  untried, move,   \* "best": those not examined yet; the best move, 0 if none
  looked,          \* walk: steps since the loop began
  cheapest         \* history: the cheapest price a descent ended with

ils == <<ilsIter, cur, curCost>>
incumbent == <<best, bestCost>>
walk == <<leg, path, left, untried, move, looked>>
vars == <<vndVars, task, step, origins, ils, incumbent, walk, cheapest>>

-----------------------------------------------------------------------------
(* Iterated local search.                                                  *)

\* int(strength * (1 + progress)), progress = ilsIter / max(1, iterations - 1)
LastIteration == IF IlsIterations > 1 THEN IlsIterations - 1 ELSE 1
Strength == PerturbationStrength + (PerturbationStrength * ilsIter) \div LastIteration

\* max(1, round(strength / 2)); Python rounds a half to the even neighbour.
IntegerStride(strength) ==
  LET h == strength \div 2
  IN  Max({1, IF strength % 2 = 1 /\ h % 2 = 1 THEN h + 1 ELSE h})

Perturbations(s, strength) ==
  LET amount == Min({Max({strength, shape.n \div 5}), shape.n})
  IN  UNION { { t \in Space : \A v \in Vars :
                  CASE v \notin K -> t[v] = s[v]
                    [] v \in K \cap Integral -> t[v] \in Reach(s[v], IntegerStride(strength))
                    [] OTHER -> mode.bounded => t[v] \in Lower..Upper } :
              K \in kSubset(amount, Vars) }

IlsPerturb ==
  /\ task = "ils" /\ step = "loop"
  /\ ilsIter < IlsIterations /\ ~expired
  /\ \E t \in Perturbations(cur, Strength) : Begin(t)
  /\ step' = "descent" /\ late' = Counted(TRUE, 1)
  /\ UNCHANGED <<given, expired, task, origins, ils, incumbent, walk, cheapest>>

\* A worse result is accepted with probability temperature / 4.  The result
\* is not looked up: its cost is computed.
Temperature == LastIteration - ilsIter
TrueCost(s) == Cost(objective, s)

IlsAccept ==
  /\ task = "ils" /\ step = "descent" /\ stage = "done"
  /\ \/ /\ TrueCost(sol) < curCost \/ Temperature > 0
        /\ cur' = sol /\ curCost' = TrueCost(sol)
     \/ /\ TrueCost(sol) >= curCost
        /\ UNCHANGED <<cur, curCost>>
  /\ IF curCost' < bestCost THEN best' = cur' /\ bestCost' = curCost'
                            ELSE UNCHANGED incumbent
  /\ ilsIter' = ilsIter + 1 /\ step' = "loop" /\ late' = Counted(FALSE, 1)
  /\ cheapest' = Min({cheapest, TrueCost(sol)})
  /\ UNCHANGED <<given, working, found, stage, nbh, todo, count, rounds, expired,
                 task, origins, walk>>

IlsEnd ==
  /\ task = "ils" /\ step = "loop"
  /\ ilsIter >= IlsIterations \/ expired
  /\ step' = "over"
  /\ UNCHANGED <<vndVars, task, origins, ils, incumbent, walk, cheapest>>

-----------------------------------------------------------------------------
(* Path relinking.                                                         *)

Source == IF leg.reversed THEN origins[2] ELSE origins[1]
Target == IF leg.reversed THEN origins[1] ELSE origins[2]
Gap(s, t, v) == IF s[v] < t[v] THEN t[v] - s[v] ELSE s[v] - t[v]

Differing(s, t) == {v \in Vars : s[v] # t[v]}

\* The coordinates of a walk: those that differ, and of more than MaxRelink
\* of them, the MaxRelink that differ most.
Differences(s, t) ==
  LET diff == Differing(s, t)
  IN  IF Cardinality(diff) <= MaxRelink THEN {diff}
      ELSE { K \in kSubset(MaxRelink, diff) :
               \A v \in K, w \in diff \ K : Gap(s, t, v) >= Gap(s, t, w) }

BeginWalk(s, t) ==
  /\ path' = s /\ best' = s /\ bestCost' = Price(s)
  /\ left' \in Differences(s, t)
  /\ untried' = left' /\ move' = 0 /\ looked' = 0
  /\ step' = "walk"

WalkLooks == looked % RelinkStride = 0
WalkClock == WalkLooks /\ expired

\* _path_relinking_forward: move, price, remember the best point.
WalkStep(v) ==
  /\ step = "walk" /\ task # "best"
  /\ v \in left /\ ~WalkClock
  /\ path' = [path EXCEPT ![v] = Target[v]]
  /\ left' = left \ {v} /\ looked' = looked + 1 /\ late' = Counted(WalkLooks, 1)
  /\ IF Price(path') < bestCost THEN best' = path' /\ bestCost' = Price(path')
                                ELSE UNCHANGED incumbent
  /\ UNCHANGED <<given, working, found, stage, nbh, todo, count, rounds, expired,
                 task, step, origins, ils, leg, untried, move, cheapest>>

\* _find_best_move: each move is priced and taken back; bestBen holds
\* best_move_benefit.
ExamineMove(v) ==
  /\ step = "walk" /\ task = "best"
  /\ v \in untried /\ ~WalkClock
  /\ LET t == [path EXCEPT ![v] = Target[v]]
         bar == IF move = 0 THEN bestCost ELSE Price([path EXCEPT ![move] = Target[move]])
     IN  move' = IF Price(t) < bar THEN v ELSE move
  /\ untried' = untried \ {v} /\ looked' = looked + 1 /\ late' = Counted(WalkLooks, 1)
  /\ UNCHANGED <<given, working, found, stage, nbh, todo, count, rounds, expired,
                 task, step, origins, ils, incumbent, leg, path, left, cheapest>>

\* The best move is made, unless none improves; the clock is read before the
\* next one is looked for.
MakeMove ==
  /\ step = "walk" /\ task = "best"
  /\ untried = {} \/ WalkClock
  /\ move # 0
  /\ path' = [path EXCEPT ![move] = Target[move]]
  /\ best' = path' /\ bestCost' = Price(path')
  /\ left' = left \ {move} /\ untried' = left' /\ move' = 0 /\ looked' = 0
  /\ UNCHANGED <<vndVars, task, step, origins, ils, leg, cheapest>>

WalkOver == IF task = "best" THEN (untried = {} \/ WalkClock) /\ move = 0
                             ELSE left = {} \/ WalkClock

\* bidirectional_path_relinking: the way back is walked unless the deadline
\* has passed.
TurnBack ==
  /\ step = "walk" /\ WalkOver
  /\ task = "bidirectional" /\ ~leg.reversed /\ ~expired
  /\ leg' = [reversed |-> TRUE, sol |-> best, cost |-> bestCost]
  /\ BeginWalk(origins[2], origins[1])
  /\ late' = Counted(TRUE, 1)
  /\ UNCHANGED <<given, working, found, stage, nbh, todo, count, rounds, expired,
                 task, origins, ils, cheapest>>

\* Mutant: the second leg's result, whatever the first one found.
LastLeg == best

\* The best of the two legs, the first one on a tie.
Winner ==
  IF task = "bidirectional" /\ leg.reversed /\ leg.cost <= bestCost
  THEN leg.sol ELSE best

\* _apply_path_relinking_to_pair refines the winner with a descent that is
\* given no bounds (path_relinking called with "best" does not).  The ends
\* are not used again.
EndWalk ==
  /\ step = "walk" /\ WalkOver
  /\ ~(task = "bidirectional" /\ ~leg.reversed /\ ~expired)
  /\ best' = Winner /\ bestCost' = Price(Winner)
  /\ IF task = "best" THEN step' = "over" /\ UNCHANGED vndVars
     ELSE /\ Begin(Winner) /\ step' = "descent" /\ late' = Counted(FALSE, 1)
          /\ UNCHANGED <<given, expired>>
  /\ origins' = <<>> /\ path' = <<>> /\ leg' = [leg EXCEPT !.sol = <<>>]
  /\ UNCHANGED <<task, ils, left, untried, move, looked, cheapest>>

\* A descent alone, and the one after a walk, return what they end with: the
\* caller prices it.
TakeDescent ==
  /\ task # "ils" /\ step = "descent" /\ stage = "done"
  /\ best' = sol /\ bestCost' = Price(sol)
  /\ cheapest' = Price(sol)
  /\ step' = "over" /\ late' = Counted(FALSE, 1)
  /\ UNCHANGED <<given, working, found, stage, nbh, todo, count, rounds, expired,
                 task, origins, ils, walk>>

-----------------------------------------------------------------------------

Given == IF mode.bounded THEN Box ELSE Space
SearchInit ==
  /\ \E call \in Tasks : task = call[1] /\ shape = call[2] /\ mode = call[3]
  /\ objective \in Objectives /\ cache \in Caches
  /\ origins \in IF task \in Relinks THEN Given \X Given ELSE {<<>>}
  /\ leg \in [reversed : BOOLEAN, sol : {<<>>}, cost : {0}]
  /\ task # "randomized" => leg.reversed = (task = "backward")
  /\ sol \in IF task \in Relinks THEN {Source} ELSE Given
  /\ bestSol = sol /\ cur = sol /\ best = sol
  /\ benefit = Price(sol)
  /\ bestBen = benefit /\ curCost = benefit /\ bestCost = benefit /\ cheapest = benefit
  /\ stage = IF task = "vnd" THEN "round" ELSE "idle"
  /\ nbh = "flip" /\ todo = {} /\ count = 0 /\ iteration = 0 /\ idle = 0
  /\ expired = FALSE /\ ilsIter = 0
  /\ late = IF task = "ils" \/ mode.adaptive THEN 0 ELSE 1
  /\ path = IF task \in Relinks THEN Source ELSE <<>>
  /\ left \in IF task \in Relinks THEN Differences(Source, Target) ELSE {{}}
  /\ untried = left /\ move = 0 /\ looked = 0
  /\ step = CASE task = "vnd" -> "descent" [] task = "ils" -> "loop" [] OTHER -> "walk"

Descend ==
  /\ step = "descent" /\ DescentNext
  /\ UNCHANGED <<task, step, origins, ils, incumbent, walk, cheapest>>
Expire ==
  /\ step # "over" /\ stage # "failed" /\ DeadlinePasses
  /\ UNCHANGED <<task, step, origins, ils, incumbent, walk, cheapest>>

Work == \/ Descend \/ IlsPerturb \/ IlsAccept \/ IlsEnd
        \/ \E v \in Vars : WalkStep(v) \/ ExamineMove(v)
        \/ MakeMove \/ TurnBack \/ EndWalk \/ TakeDescent
Next == Work \/ Expire
SearchSpec == SearchInit /\ [][Next]_vars
FairSearch == SearchSpec /\ WF_vars(Work)

-----------------------------------------------------------------------------
(* Properties.                                                             *)

Over == step = "over"

WholeWalk == /\ task \in Relinks /\ left = {}
             /\ Cardinality(Differing(Source, Target)) <= MaxRelink
WalkReturns ==
  step = "walk" /\ step' # "walk" =>
    /\ bestCost' = Price(best')
    /\ bestCost' <= Price(IF task = "bidirectional" THEN origins[1] ELSE Source)
    /\ WholeWalk /\ task # "best" =>
         bestCost' <= Price(Target) /\ bestCost' <= Price(Source)
DescentReturns ==
  step = "descent" /\ step' = "over" =>
    bestCost' = Price(best') /\ bestCost' <= bestCost
IlsReturns ==
  step = "loop" /\ step' = "over" =>
    /\ bestCost' \in {TrueCost(best'), Price(best')}
    /\ bestCost' <= cheapest /\ bestCost' <= curCost

(* As costs are read, no search returns anything dearer than it was given:  *)
(* a walk ends no dearer than its source, and than its target too if it     *)
(* moved every coordinate, or went both ways, in time; a descent no dearer  *)
(* than it began; ILS, which knows the true cost of its descents but not of *)
(* its start, no dearer than any of these, although it may walk on from     *)
(* worse ones (pr.py, ils.py, vnd/standard.py).  A reading through the      *)
(* cache may be the cost of another vector with the same key, so what is    *)
(* returned may truly be dearer.                                            *)
NeverWorse == [][WalkReturns /\ DescentReturns /\ IlsReturns]_vars

\* Whenever the deadline passes, a search with one makes few more prices: a
\* stride of integers, each of up to three levels, and that of the result; or
\* a stride of a walk, and those of the point found before and after its
\* descent (vnd/flip.py, vnd/moves.py, pr.py, ils.py).
LateSearchBounded ==
  late <= Max({3 * DeadlineStride + 1, RelinkStride + 2})

\* Every search ends.
Terminates == <>(Over \/ stage = "failed")
==============================================================================
