------------------------------- MODULE Ports -------------------------------
(***************************************************************************)
(* The ports side by side: which of what a run promises they keep, and     *)
(* where each of them breaks it.                                           *)
(***************************************************************************)
EXTENDS RustRun, JuliaRun, RRun

Finished == pc = "done" /\ UNCHANGED vars

PortNext == RustNext \/ JuliaNext \/ RNext \/ Finished

PortSpec == PortInit /\ [][PortNext]_vars

-----------------------------------------------------------------------------

Points == [sol : Solutions \cup {NoSolution}, cost : Costs]

(* The variables of a run keep their types, whichever the port is.          *)
PortTypeOK ==
  /\ config \in Setting /\ guesses \in WarmStarts /\ objective \in Objectives
  /\ price \in Readings(objective)
  /\ spent \in 0..MaxIterations /\ nit \in 0..MaxIterations
  /\ best \in Points /\ cand \in Points
  /\ stagnation \in 0..MaxIterations /\ noImprove \in 0..MaxIterations
  /\ bestEver \in Costs \cup {-1}
  /\ items \in Seq(Entry) /\ Len(items) <= EliteSize
  /\ snapshot \in Seq(Entry)
  /\ PoolTypeOK

(* Whatever its stages are, a run of any port is a run of the abstract      *)
(* optimizer: the incumbent changes only for a strictly better value, in    *)
(* the direction of the user, the iterations are counted one by one, and    *)
(* the loop ends for the reason it gives.                                   *)
Promise == INSTANCE Incumbent WITH
  best <- IF best.cost = Infinity THEN NoSolution ELSE best.sol,
  bestCost <- Loss(best.cost), verdict <- ended,
  stoppable <- config.monitor, limited <- config.limited

PortsImplementIncumbent == Promise!IncumbentSpec

(* With 50 or more for early_stop_threshold, and 80 is the default, Rust    *)
(* and C++ never stop early: the count is forgotten before it is enough.    *)
Deaf == config.port = "rust" /\ config.stopAfter >= MonitorThreshold

(* A run that may stop early and can is never further from its last         *)
(* improvement than the threshold, it stops early only at that distance,    *)
(* or at an improvement the monitor has not seen, of the relinking or of    *)
(* the restart that come after it; and it reports as many iterations as it  *)
(* completed, in R one more if the time limit prevents it.                  *)
StopsWhenStagnant ==
  /\ pc = "head" /\ config.monitor /\ ~Deaf => spent - lastGain <= config.stopAfter
  /\ ended = "early_stop" =>
       /\ config.monitor /\ ~Deaf
       /\ \/ nit - lastGain >= config.stopAfter
          \/ lastGain = nit /\ config.port # "r"
  /\ pc = "done" =>
       nit = spent + IF config.port = "r" /\ ended = "time_limit" THEN 1 ELSE 0

(* A maximization in R whose first evaluation failed: infinity is never     *)
(* improved upon, and the run reports that it found nothing.                *)
Hopeless == config.maximize /\ best.cost = Infinity

Kept(q) == {q[k] : k \in DOMAIN q}

(* Nothing the searches found is lost: between two iterations and at the    *)
(* end the incumbent is as good as every result of a descent and as every   *)
(* member of the pool.  What ILS exchanges for something worse, which Rust, *)
(* C++ and Julia do and R does not, is the only thing they may lose.        *)
NothingLost ==
  pc \in {"head", "done"} /\ ~Hopeless =>
    /\ Loss(best.cost) <= found \/ (found = gaveUp /\ config.port # "r")
    /\ \A e \in Kept(pool) \cup Kept(items) : Loss(best.cost) <= Loss(e.cost)

(* The cost that is kept with a solution, in the incumbent and in the pool, *)
(* is its own or, with the cache on, that of a solution with the same key,  *)
(* although ILS in Julia returns pairs of which it is neither: they get     *)
(* past the restart alone, where nothing prices them again.                 *)
CostsBelong ==
  best # Nothing /\ ~leaked =>
    \A e \in {best} \cup Kept(pool) \cup Kept(items) : Belongs(e)

(* Walks and searches of Julia and R stay within the bounds.  Rust and C++  *)
(* leave them in two ways: by an integer coordinate that is clamped to a    *)
(* bound which is no integer and then rounded outwards, and by the literal  *)
(* zero of the greedy walk, which only the incumbent can get, and only if   *)
(* what is read for a point of the search is infinite.                      *)
StaysInBox ==
  \A e \in {best} \cup Kept(pool) \cup Kept(items), i \in Coords :
    e # Nothing /\ e.sol[i] \notin Bounds[i] =>
      /\ config.port = "rust"
      /\ \/ i > Split /\ e.sol[i] \in Ends[i]
         \/ /\ e = best /\ e.sol[i] = 0
            /\ \E s \in Wide : \E t \in Twins(s) : ~Finite(objective[t])

(* If a batch of candidates has a finite one, the construction picks one    *)
(* within alpha of the best, unless Rust or C++ meet an infeasible one in   *)
(* the batch, or the list R samples from has a single index.                *)
PickWorthy ==
  "unworthy" \in picked =>
    \/ config.port = "rust" /\ "blind" \in picked
    \/ config.port = "r" /\ "lone" \in picked

=============================================================================
