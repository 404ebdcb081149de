------------------------------ MODULE Incumbent ------------------------------
(***************************************************************************)
(* What a run of the optimizer promises, whatever its stages do: an        *)
(* incumbent that only improves, a budget of iterations, and a verdict     *)
(* that says truthfully why the run ended, after which nothing changes.    *)
(***************************************************************************)
EXTENDS Naturals

CONSTANTS
  Solutions,       \* the decision vectors
  NoSolution,      \* what the incumbent is before anything was found
  Infinity,        \* the cost of an infeasible solution
  MaxIterations    \* the budget

VARIABLES
  best, bestCost,  \* the incumbent
  spent,           \* the iterations completed
  verdict,         \* why the run ended, or that it is running
  stoppable,       \* whether the run may stop early
  limited          \* whether its time is limited

promise == <<best, bestCost, spent, verdict, stoppable, limited>>

Init ==
  /\ best = NoSolution /\ bestCost = Infinity
  /\ spent = 0 /\ verdict = "running"
  /\ stoppable \in BOOLEAN /\ limited \in BOOLEAN

(* A strictly cheaper solution replaces the incumbent.                      *)
Improve ==
  /\ verdict = "running"
  /\ best' \in Solutions
  /\ bestCost' \in 0..Infinity /\ bestCost' < bestCost
  /\ UNCHANGED <<spent, verdict, stoppable, limited>>

(* An iteration is completed; the run may find it stagnates and stop.       *)
Spend ==
  /\ verdict = "running"
  /\ spent < MaxIterations
  /\ spent' = spent + 1
  /\ \/ UNCHANGED verdict
     \/ stoppable /\ verdict' = "early_stop"
  /\ UNCHANGED <<best, bestCost, stoppable, limited>>

(* The run ends between two iterations or, if it fails, anywhere.           *)
Conclude ==
  /\ verdict = "running"
  /\ \/ spent = MaxIterations /\ verdict' = "max_iterations"
     \/ limited /\ spent < MaxIterations /\ verdict' = "time_limit"
     \/ verdict' = "raised"
  /\ UNCHANGED <<best, bestCost, spent, stoppable, limited>>

Next == Improve \/ Spend \/ Conclude

IncumbentSpec == Init /\ [][Next]_promise

=============================================================================
