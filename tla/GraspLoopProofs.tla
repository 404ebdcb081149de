--------------------------- MODULE GraspLoopProofs ---------------------------
(***************************************************************************)
(* Proofs about a run of the optimizer, for every box, distance, cache     *)
(* key, objective, configuration, budget and threshold.                    *)
(*                                                                         *)
(* The invariant of a run has a part for the data the stages hand over,    *)
(* one for the control, one for the pool and the incumbent, and one for    *)
(* the counters; a lemma shows that a step keeps each of them.             *)
(***************************************************************************)
EXTENDS GraspLoop, ElitePoolProofs

\* The stages before, and after, the iteration's candidate is recorded.
Before == {"warm", "head", "vnd", "ils", "record"}
After == {"monitor", "relink", "pairs", "restart", "stop"}
\* Those after the monitor's turn.
Counted == {"relink", "pairs", "restart", "stop"}

DataInv ==
  /\ config \in Config
  /\ objective \in [Solutions -> Costs]
  /\ guesses \in Seq(Box)
  /\ best \in Solutions \cup {NoSolution}
  /\ bestCost \in Costs /\ bestEver \in Costs /\ workCost \in Costs
  /\ expired \in BOOLEAN
  /\ expired => config.timeLimited
  /\ work \in Solutions \cup {NoSolution}
  /\ pc \in {"vnd", "ils", "record"} => work \in Solutions
  /\ snapshot \in Seq(Entry)
  /\ pair \in (1..4) \X (1..5) /\ pair[1] < pair[2]

ControlInv ==
  /\ pc \in Stages
  /\ iteration \in 0..MaxIterations /\ nit \in 0..MaxIterations
  /\ termination \in Reasons \cup {"running"}
  /\ pc # "done" => termination = "running" /\ nit = iteration
  /\ pc = "done" => termination # "running"
  /\ pc \in {"vnd", "ils", "record"} \cup After => iteration < MaxIterations
  /\ pc = "warm" => iteration = 0
  /\ pc = "pairs" => RelinkTurn

\* A gain the monitor has not been told of.
Unseen == bestCost < bestEver

\* How the counters bound the iterations since the last gain, stage by stage.
CountInv ==
  /\ lastGain \in 0..MaxIterations
  /\ stagnation \in 0..MaxIterations
  /\ noImprove \in 0..MaxIterations
  /\ pc \in Before => stagnation + lastGain <= iteration
  /\ pc \in After => stagnation + lastGain <= iteration + 1
  /\ pc \in Counted /\ ~config.monitor => stagnation = 0
  /\ pc = "restart" => stagnation > Patience
  /\ pc \in Before \cup {"monitor"} =>
       noImprove <= iteration /\ (Unseen \/ noImprove + lastGain <= iteration)
  /\ pc \in Counted =>
       /\ noImprove <= iteration + 1
       /\ Unseen \/ noImprove + lastGain <= iteration + 1
  /\ pc = "head" => ~EarlyStopDue
  /\ pc \in {"relink", "pairs", "restart"} /\ EarlyStopDue => stagnation = 0
  /\ pc = "relink" /\ config.monitor => ~Unseen
  /\ pc \in Counted /\ config.monitor /\ Unseen =>
       lastGain = iteration + 1 /\ (RelinkTurn \/ noImprove < EarlyStopThreshold)

GraspInv ==
  /\ DataInv /\ ControlInv /\ PoolOK(pool) /\ IncumbentDominates
  /\ CountInv /\ EarlyStopEarned

-----------------------------------------------------------------------------

(* What the constants are, as the arithmetic below needs it.               *)
LEMMA ConstantFacts ==
  /\ Infinity \in Nat
  /\ \A x \in Costs : x \in Int
  /\ MaxIterations \in Nat \ {0} /\ EarlyStopThreshold \in Nat \ {0}
  /\ Patience \in Nat
  /\ Box \subseteq Solutions
<1>1. Infinity \in Nat /\ \A x \in Costs : x \in Int
  BY EliteAssumption DEF Costs
<1>2. MaxIterations \in Nat \ {0}
  BY GraspAssumption
<1>3. Patience \in Nat
  BY <1>2 DEF Patience
<1> QED
  BY <1>1, <1>2, <1>3, GraspAssumption

(* A reading is a cost, and the searches return solutions.                 *)
LEMMA ReadingsAreCosts ==
  ASSUME objective \in [Solutions -> Costs], NEW s \in Solutions
  PROVE  Readings(s) \subseteq Costs /\ Evaluations(s) \subseteq Costs
<1>1. Bucket[s] \subseteq Solutions /\ Infinity \in Costs
  BY GraspAssumption, EliteAssumption DEF Costs
<1> QED
  BY <1>1 DEF Readings, Evaluations

(* Relinking two solutions, whichever way, returns solutions.              *)
LEMMA RelinkResultsAreSolutions ==
  ASSUME NEW s \in Solutions, NEW t \in Solutions
  PROVE  RelinkResults(s, t) \subseteq Solutions
<1>1. \A x \in Solutions, y \in Solutions : Relinked(x, y) \subseteq Solutions
  BY ConstantFacts DEF Relinked, Descents
<1> QED
  BY <1>1 DEF RelinkResults

(* A challenge leaves an incumbent at least as good as before and as the   *)
(* challenger, and dates it if it changed.                                 *)
LEMMA ChallengeFacts ==
  ASSUME NEW s \in Solutions, NEW c \in Costs, NEW k,
         best \in Solutions \cup {NoSolution}, bestCost \in Costs,
         Challenge(s, c, k)
  PROVE  /\ best' \in Solutions \cup {NoSolution} /\ bestCost' \in Costs
         /\ bestCost' <= bestCost /\ bestCost' <= c
         /\ \/ /\ best' \in Solutions
               /\ bestCost' = c /\ c < bestCost /\ lastGain' = k
            \/ UNCHANGED <<best, bestCost, lastGain>> /\ c >= bestCost
BY ConstantFacts DEF Challenge, incumbent

\* The stages that produce a solution for the incumbent and the pool.
Produces == WarmStart \/ Record \/ RelinkPair \/ ReactiveRestart

(* Whatever such a stage offers to the pool has challenged the incumbent.  *)
LEMMA Production ==
  ASSUME DataInv, Produces
  PROVE  \E e \in Entry :
           /\ Challenge(e.sol, e.cost, IF pc = "warm" THEN 0 ELSE iteration + 1)
           /\ Offer(e) \/ UNCHANGED pool
<1> DEFINE Goal(s, c) ==
      /\ Challenge(s, c, IF pc = "warm" THEN 0 ELSE iteration + 1)
      /\ Offer([sol |-> s, cost |-> c]) \/ UNCHANGED pool
<1>1. SUFFICES \E s \in Solutions, c \in Costs : Goal(s, c)
  <2>1. PICK s \in Solutions, c \in Costs : Goal(s, c)
    BY <1>1
  <2> DEFINE e == [sol |-> s, cost |-> c]
  <2>2. e \in Entry /\ e.sol = s /\ e.cost = c
    BY DEF Entry
  <2> QED
    BY <2>1, <2>2
<1>2. CASE WarmStart
  <2>1. Head(guesses) \in Box
    BY <1>2, HeadTailProperties DEF WarmStart, DataInv
  <2>2. Head(guesses) \in Solutions /\ objective[Head(guesses)] \in Costs
    BY <2>1, ConstantFacts DEF DataInv
  <2> QED
    BY <1>2, <2>2 DEF WarmStart, OfferElite
<1>3. CASE Record
  BY <1>3 DEF Record, OfferElite, DataInv
<1>4. CASE RelinkPair
  <2>1. PICK s \in RelinkResults(snapshot[pair[1]].sol, snapshot[pair[2]].sol) :
          \E c \in Readings(s) :
            /\ Challenge(s, c, iteration + 1)
            /\ Offer([sol |-> s, cost |-> c])
    BY <1>4 DEF RelinkPair
  <2>2. pair[1] \in 1..Len(snapshot) /\ pair[2] \in 1..Len(snapshot)
    BY <1>4, LenProperties DEF RelinkPair, PairsLeft, LastPartner, DataInv
  <2>3. snapshot[pair[1]] \in Entry /\ snapshot[pair[2]] \in Entry
    BY <2>2, ElementOfSeq DEF DataInv
  <2>4. s \in Solutions
    BY <2>1, <2>3, RelinkResultsAreSolutions DEF Entry
  <2>5. Readings(s) \subseteq Costs
    BY <2>4, ReadingsAreCosts DEF DataInv
  <2>6. pc # "warm"
    BY <1>4 DEF RelinkPair
  <2> QED
    BY <2>1, <2>4, <2>5, <2>6
<1>5. CASE ReactiveRestart
  <2>1. PICK s \in Box : /\ Challenge(s, objective[s], iteration + 1)
                         /\ OfferElite(s, objective[s])
    BY <1>5 DEF ReactiveRestart
  <2>2. s \in Solutions /\ objective[s] \in Costs /\ pc # "warm"
    BY <1>5, <2>1, ConstantFacts DEF DataInv, ReactiveRestart
  <2> QED
    BY <2>1, <2>2 DEF OfferElite
<1> QED
  BY <1>2, <1>3, <1>4, <1>5 DEF Produces

-----------------------------------------------------------------------------

(* Seen through the pool, a step is an addition, a partial restart or      *)
(* nothing; it leaves a pool in order that the incumbent dominates.        *)
LEMMA PoolStep ==
  ASSUME DataInv, PoolOK(pool), IncumbentDominates, [GraspNext]_vars
  PROVE  [PoolNext]_pool /\ PoolOK(pool') /\ IncumbentDominates'
<1>1. /\ bestCost \in Int /\ bestEver \in Int
      /\ Len(pool) \in Nat
      /\ \A i \in 1..Len(pool) : pool[i].cost \in Int /\ bestCost <= pool[i].cost
      /\ bestCost <= bestEver
  BY ConstantFacts, EntryProperties, LenProperties, ElementOfSeq
     DEF DataInv, PoolOK, IncumbentDominates
<1>2. [PoolNext]_pool => PoolOK(pool')
  BY StepKeepsPoolOK
<1>3. CASE Produces
  <2>1. PICK e \in Entry :
          /\ Challenge(e.sol, e.cost, IF pc = "warm" THEN 0 ELSE iteration + 1)
          /\ Offer(e) \/ UNCHANGED pool
    BY <1>3, Production
  <2>2. [PoolNext]_pool
    BY <2>1 DEF PoolNext
  <2>3. bestCost' <= bestCost /\ bestCost' <= e.cost /\ bestCost' \in Int
        /\ e.cost \in Int
    BY <2>1, ChallengeFacts, ConstantFacts, EntryProperties DEF DataInv
  <2>4. ASSUME NEW i \in 1..Len(pool') PROVE bestCost' <= pool'[i].cost
    <3>1. CASE Offer(e)
      <4>1. pool'[i] = e \/ \E j \in 1..Len(pool) : pool'[i] = pool[j]
        BY <3>1, AddElements DEF Offer
      <4> QED
        BY <1>1, <2>3, <4>1
    <3>2. CASE UNCHANGED pool
      BY <1>1, <2>3, <2>4, <3>2
    <3> QED
      BY <2>1, <3>1, <3>2
  <2>5. UNCHANGED bestEver
    BY <1>3 DEF Produces, WarmStart, Record, RelinkPair, ReactiveRestart, monitor
  <2> QED
    BY <1>1, <1>2, <2>2, <2>3, <2>4, <2>5 DEF IncumbentDominates
<1>4. CASE Monitor
  <2>1. UNCHANGED bestCost /\ bestEver' = IF bestCost < bestEver THEN bestCost ELSE bestEver
    BY <1>4 DEF Monitor, incumbent
  <2>2. PartialRestart \/ UNCHANGED pool
    BY <1>4 DEF Monitor
  <2>3. ASSUME NEW i \in 1..Len(pool') PROVE bestCost <= pool'[i].cost
    <3>1. CASE PartialRestart
      <4>1. /\ Len(pool) > 2 /\ Len(pool') = 2
            /\ pool'[1] = pool[1] /\ pool'[2] = pool[2]
        BY <3>1, RestartKeepsBestTwo DEF PartialRestart
      <4>2. i \in {1, 2} /\ 1 \in 1..Len(pool) /\ 2 \in 1..Len(pool)
        BY <1>1, <2>3, <4>1
      <4> QED
        BY <1>1, <4>1, <4>2
    <3>2. CASE UNCHANGED pool
      BY <1>1, <2>3, <3>2
    <3> QED
      BY <2>2, <3>1, <3>2
  <2>4. [PoolNext]_pool
    BY <2>2 DEF PoolNext
  <2> QED
    BY <1>1, <1>2, <2>1, <2>3, <2>4 DEF IncumbentDominates
<1>5. CASE UNCHANGED <<pool, bestCost, bestEver>>
  BY <1>1, <1>2, <1>5 DEF IncumbentDominates
<1>6. Produces \/ Monitor \/ UNCHANGED <<pool, bestCost, bestEver>>
  BY DEF GraspNext, Run, Produces, vars, incumbent, monitor, Finished,
         StartLoop, Exhausted, TimeOut, Construct, Vnd, Ils, Unmonitored,
         StartRelink, SkipRelink, EndRelink, CompleteIteration,
         DeadlinePasses, ObjectiveRaises
<1> QED
  BY <1>3, <1>4, <1>5, <1>6

-----------------------------------------------------------------------------

(* A step keeps the control part: stages, loop counter, verdict.           *)
LEMMA ControlStep ==
  ASSUME ControlInv, [GraspNext]_vars
  PROVE  ControlInv'
<1>1. MaxIterations \in Nat /\ iteration \in Int
  BY ConstantFacts DEF ControlInv
<1>2. UNCHANGED <<config, iteration>> => (RelinkTurn' <=> RelinkTurn)
  BY DEF RelinkTurn
<1>3. ASSUME UNCHANGED <<config, iteration, nit, termination>>,
             pc \in Stages \ {"head", "done"},
             pc' \in Stages \ {"warm", "done"},
             pc' # "head" => pc # "warm",
             pc' = "pairs" => RelinkTurn
      PROVE  ControlInv'
  BY <1>1, <1>2, <1>3 DEF ControlInv, Stages, After
<1>4. CASE WarmStart
  BY <1>1, <1>4 DEF WarmStart, ControlInv, inputs, control, After
<1>5. CASE StartLoop
  BY <1>3, <1>5 DEF StartLoop, inputs, Stages
<1>6. CASE Exhausted \/ TimeOut
  BY <1>1, <1>6 DEF Exhausted, TimeOut, ControlInv, Stages, Reasons, After
<1>7. CASE Construct
  BY <1>1, <1>7 DEF Construct, ControlInv, Stages, After
<1>8. CASE Vnd \/ Ils
  BY <1>3, <1>8 DEF Vnd, Ils, inputs, Stages
<1>9. CASE Record
  BY <1>3, <1>9 DEF Record, inputs, Stages
<1>10. CASE Unmonitored \/ Monitor
  BY <1>3, <1>10 DEF Unmonitored, Monitor, inputs, Stages
<1>11. CASE StartRelink
  BY <1>3, <1>11 DEF StartRelink, RelinkDue, inputs, Stages
<1>12. CASE RelinkPair
  BY <1>3, <1>12 DEF RelinkPair, ControlInv, inputs, control, Stages
<1>13. CASE SkipRelink \/ EndRelink
  BY <1>3, <1>13 DEF SkipRelink, EndRelink, EndStage, inputs, Stages
<1>14. CASE ReactiveRestart
  BY <1>3, <1>14 DEF ReactiveRestart, inputs, Stages
<1>15. CASE CompleteIteration
  <2>1. /\ iteration < MaxIterations /\ iteration \in 0..MaxIterations
        /\ termination = "running" /\ nit' = iteration + 1
    BY <1>15 DEF CompleteIteration, ControlInv, After
  <2>2. nit' \in 0..MaxIterations
    BY <1>1, <2>1
  <2>3. \/ pc' = "done" /\ termination' = "early_stop" /\ UNCHANGED iteration
        \/ pc' = "head" /\ UNCHANGED termination /\ iteration' = nit'
    BY <1>15 DEF CompleteIteration
  <2> QED
    BY <2>1, <2>2, <2>3 DEF ControlInv, Stages, Reasons, After
<1>16. CASE DeadlinePasses
  BY <1>1, <1>2, <1>16 DEF DeadlinePasses, ControlInv, inputs, control
<1>17. CASE ObjectiveRaises
  BY <1>1, <1>17 DEF ObjectiveRaises, ControlInv, Stages, Reasons, After
<1>18. CASE UNCHANGED vars
  BY <1>2, <1>18 DEF vars, inputs, control, ControlInv
<1> QED
  BY <1>4, <1>5, <1>6, <1>7, <1>8, <1>9, <1>10, <1>11, <1>12, <1>13, <1>14,
     <1>15, <1>16, <1>17, <1>18 DEF GraspNext, Run, Finished

(* A step keeps the data part: what the stages hand over has its type.     *)
LEMMA DataStep ==
  ASSUME DataInv, ControlInv, PoolOK(pool), [GraspNext]_vars
  PROVE  DataInv'
<1> USE DEF inputs, incumbent, control, candidate, relink, monitor
<1>1. UNCHANGED inputs
  BY DEF GraspNext, Run, vars, Finished, WarmStart, StartLoop, Exhausted,
         TimeOut, Construct, Vnd, Ils, Record, Unmonitored, Monitor,
         StartRelink, RelinkPair, SkipRelink, EndRelink, ReactiveRestart,
         CompleteIteration, DeadlinePasses, ObjectiveRaises
<1>2. ASSUME Produces
      PROVE  best' \in Solutions \cup {NoSolution} /\ bestCost' \in Costs
  <2>1. PICK e \in Entry :
          Challenge(e.sol, e.cost, IF pc = "warm" THEN 0 ELSE iteration + 1)
    BY <1>2, Production
  <2> QED
    BY <2>1, ChallengeFacts, EntryProperties DEF DataInv
<1>3. CASE WarmStart
  <2>1. Tail(guesses) \in Seq(Box)
    BY <1>3, HeadTailProperties DEF WarmStart, DataInv
  <2> QED
    BY <1>1, <1>2, <1>3, <2>1 DEF Produces, WarmStart, DataInv
<1>4. CASE Construct
  BY <1>1, <1>4, ConstantFacts DEF Construct, DataInv
<1>5. CASE Vnd
  <2>1. work \in Solutions
    BY <1>5 DEF Vnd, DataInv
  <2>2. work' \in Solutions
    BY <1>5, <2>1, ConstantFacts DEF Vnd, Descents
  <2>3. workCost' \in Costs
    BY <1>5, <2>2, ReadingsAreCosts DEF Vnd, DataInv
  <2> QED
    BY <1>1, <1>5, <2>2, <2>3 DEF Vnd, DataInv
<1>6. CASE Ils
  <2>1. work' \in Solutions
    BY <1>6, ConstantFacts DEF Ils, DataInv
  <2>2. workCost' \in Costs
    BY <1>6, <2>1, ReadingsAreCosts DEF Ils, DataInv
  <2> QED
    BY <1>1, <1>6, <2>1, <2>2 DEF Ils, DataInv
<1>7. CASE Record
  <2>1. Infinity \in Costs
    BY ConstantFacts DEF Costs
  <2> QED
    BY <1>1, <1>2, <1>7, <2>1 DEF Produces, Record, DataInv
<1>8. CASE Monitor
  BY <1>1, <1>8 DEF Monitor, DataInv
<1>9. CASE StartRelink
  BY <1>1, <1>9 DEF StartRelink, PoolOK, DataInv
<1>10. CASE RelinkPair
  <2>1. pair[1] \in 1..4 /\ pair[2] \in 1..4 /\ pair[1] < pair[2]
    BY <1>10, LenProperties DEF RelinkPair, PairsLeft, LastPartner, DataInv
  <2>2. LastPartner \in Int /\ LastPartner <= 4
    BY LenProperties DEF LastPartner, DataInv
  <2>3. NextPair \in (1..4) \X (1..5) /\ NextPair[1] < NextPair[2]
    <3> DEFINE i == pair[1]
               j == pair[2]
    <3>1. i \in 1..4 /\ j \in 1..4 /\ i < j
      BY <2>1
    <3>2. NextPair = IF j < LastPartner THEN <<i, j + 1>> ELSE <<i + 1, i + 2>>
      BY DEF NextPair
    <3> HIDE DEF i, j
    <3> QED
      BY <2>2, <3>1, <3>2
  <2> QED
    BY <1>1, <1>2, <1>10, <2>3 DEF Produces, RelinkPair, DataInv
<1>11. CASE EndRelink
  BY <1>1, <1>11, EmptySeq DEF EndRelink, EndStage, DataInv
<1>12. CASE ReactiveRestart
  BY <1>1, <1>2, <1>12 DEF Produces, ReactiveRestart, DataInv
<1>13. CASE StartLoop \/ Exhausted \/ TimeOut \/ ObjectiveRaises
  <2>1. /\ pc' \in {"head", "done"}
        /\ UNCHANGED <<guesses, incumbent, monitor, expired, candidate, relink>>
    BY <1>13 DEF StartLoop, Exhausted, TimeOut, ObjectiveRaises
  <2> QED
    BY <1>1, <2>1 DEF DataInv
<1>14. CASE Unmonitored \/ SkipRelink \/ CompleteIteration
  BY <1>1, <1>14 DEF Unmonitored, SkipRelink, EndStage, CompleteIteration, DataInv
<1>15. CASE DeadlinePasses
  <2>1. /\ expired' = TRUE /\ config.timeLimited
        /\ UNCHANGED <<guesses, control, incumbent, monitor, candidate, relink>>
    BY <1>15 DEF DeadlinePasses
  <2> QED
    BY <1>1, <2>1 DEF DataInv
<1>16. CASE UNCHANGED vars
  BY <1>1, <1>16 DEF vars, DataInv
<1> QED
  BY <1>3, <1>4, <1>5, <1>6, <1>7, <1>8, <1>9, <1>10, <1>11, <1>12, <1>13,
     <1>14, <1>15, <1>16 DEF GraspNext, Run, Finished

-----------------------------------------------------------------------------

(* A step keeps the bounds that tie the counters to the last gain.         *)
LEMMA CountStep ==
  ASSUME DataInv, ControlInv, IncumbentDominates, CountInv, [GraspNext]_vars
  PROVE  CountInv'
<1> USE DEF Before, After, Counted, Unseen, EarlyStopDue
<1>1. /\ MaxIterations \in Int /\ EarlyStopThreshold \in Int /\ Patience \in Int
      /\ 0 < MaxIterations /\ 0 < EarlyStopThreshold /\ 0 <= Patience
      /\ bestCost \in Int /\ bestEver \in Int /\ workCost \in Int
      /\ bestCost <= bestEver
      /\ iteration \in 0..MaxIterations
      /\ lastGain \in 0..MaxIterations /\ stagnation \in 0..MaxIterations
      /\ noImprove \in 0..MaxIterations
  BY ConstantFacts DEF DataInv, ControlInv, CountInv, IncumbentDominates
<1>2. UNCHANGED <<config, iteration>> => (RelinkTurn' <=> RelinkTurn)
  BY DEF RelinkTurn
<1>3. CASE WarmStart
  <2>1. /\ pc = "warm" /\ pc' = "warm" /\ iteration = 0
        /\ UNCHANGED <<config, iteration, stagnation, noImprove, bestEver>>
    BY <1>3 DEF WarmStart, ControlInv, control, inputs, monitor
  <2>2. lastGain' \in {0, lastGain}
    BY <1>3 DEF WarmStart, Challenge, incumbent
  <2>3. stagnation = 0 /\ lastGain = 0 /\ noImprove = 0
    BY <1>1, <2>1 DEF CountInv
  <2> QED
    BY <1>1, <2>1, <2>2, <2>3 DEF CountInv
<1>4. CASE StartLoop
  BY <1>1, <1>4 DEF StartLoop, ControlInv, CountInv, incumbent, inputs, monitor
<1>5. CASE Exhausted \/ TimeOut \/ ObjectiveRaises
  BY <1>1, <1>5 DEF Exhausted, TimeOut, ObjectiveRaises, CountInv, incumbent,
     inputs, monitor
<1>6. CASE Construct \/ Vnd \/ Ils
  BY <1>1, <1>6 DEF Construct, Vnd, Ils, CountInv, incumbent, inputs, monitor
<1>7. CASE Record
  <2>1. /\ pc = "record" /\ pc' = "monitor" /\ iteration < MaxIterations
        /\ UNCHANGED <<config, iteration, noImprove, bestEver>>
    BY <1>7 DEF Record, ControlInv, inputs, monitor
  <2>2. \/ /\ bestCost' = workCost /\ workCost < bestCost
           /\ lastGain' = iteration + 1 /\ stagnation' = 0
        \/ /\ UNCHANGED <<bestCost, lastGain>>
           /\ stagnation' = stagnation + 1
    BY <1>1, <1>7 DEF Record, Challenge, incumbent
  <2> QED
    BY <1>1, <2>1, <2>2 DEF CountInv
<1>8. CASE Unmonitored
  <2>1. iteration < MaxIterations
    BY <1>8 DEF Unmonitored, ControlInv
  <2> QED
    BY <1>1, <1>8, <2>1 DEF Unmonitored, CountInv, incumbent, inputs, monitor
<1>9. CASE Monitor
  <2>1. /\ pc = "monitor" /\ pc' = "relink" /\ iteration < MaxIterations
        /\ UNCHANGED <<config, iteration, bestCost, lastGain>>
    BY <1>9 DEF Monitor, ControlInv, inputs, incumbent
  <2>2. /\ noImprove' = IF bestCost < bestEver THEN 0 ELSE noImprove + 1
        /\ bestEver' = IF bestCost < bestEver THEN bestCost ELSE bestEver
        /\ \/ noImprove' < EarlyStopThreshold /\ UNCHANGED stagnation
           \/ stagnation' = 0
    BY <1>1, <1>9 DEF Monitor, ShouldRestart, NoImproveAfterUpdate
  <2>3. config.monitor
    BY <1>9 DEF Monitor
  <2>4. /\ stagnation + lastGain <= iteration + 1
        /\ noImprove <= iteration
        /\ bestCost < bestEver \/ noImprove + lastGain <= iteration
    BY <2>1 DEF CountInv
  <2>5. /\ noImprove' <= iteration + 1 /\ ~(bestCost' < bestEver')
        /\ noImprove' + lastGain' <= iteration + 1
        /\ noImprove' \in 0..MaxIterations
    BY <1>1, <2>1, <2>2, <2>4
  <2>6. /\ stagnation' \in 0..MaxIterations
        /\ stagnation' + lastGain' <= iteration + 1
        /\ noImprove' >= EarlyStopThreshold => stagnation' = 0
    BY <1>1, <2>1, <2>2, <2>4, <2>5
  <2> QED
    BY <1>1, <2>1, <2>3, <2>5, <2>6 DEF CountInv
<1>10. CASE StartRelink
  BY <1>1, <1>2, <1>10 DEF StartRelink, CountInv, incumbent, inputs, monitor
<1>11. CASE RelinkPair
  <2>1. /\ pc = "pairs" /\ pc' = "pairs" /\ iteration < MaxIterations
        /\ RelinkTurn /\ RelinkTurn'
        /\ UNCHANGED <<config, iteration, noImprove, bestEver>>
    BY <1>2, <1>11 DEF RelinkPair, ControlInv, inputs, control, monitor
  <2>2. PICK s \in RelinkResults(snapshot[pair[1]].sol, snapshot[pair[2]].sol) :
          \E c \in Readings(s) :
            /\ Challenge(s, c, iteration + 1)
            /\ stagnation' = IF c < bestCost THEN 0 ELSE stagnation
            /\ Offer([sol |-> s, cost |-> c])
    BY <1>11 DEF RelinkPair
  <2>3. PICK c \in Readings(s) :
          /\ Challenge(s, c, iteration + 1)
          /\ stagnation' = IF c < bestCost THEN 0 ELSE stagnation
    BY <2>2
  <2>4. \/ bestCost' < bestEver /\ lastGain' = iteration + 1 /\ stagnation' = 0
        \/ UNCHANGED <<bestCost, lastGain>> /\ stagnation' \in {0, stagnation}
    <3>1. CASE /\ c < bestCost /\ bestCost' = c
               /\ lastGain' = iteration + 1 /\ stagnation' = 0
      <4>1. Infinity \in Nat /\ c \in Int
        <5>1. Readings(s) \subseteq Costs
          <6>1. snapshot[pair[1]] \in Entry /\ snapshot[pair[2]] \in Entry
            <7>1. pair[1] \in 1..Len(snapshot) /\ pair[2] \in 1..Len(snapshot)
              BY <1>11, LenProperties DEF RelinkPair, PairsLeft, LastPartner, DataInv
            <7> QED
              BY <7>1, ElementOfSeq DEF DataInv
          <6>2. s \in Solutions
            BY <2>2, <6>1, RelinkResultsAreSolutions DEF Entry
          <6> QED
            BY <6>2, ReadingsAreCosts DEF DataInv
        <5> QED
          BY <5>1, ConstantFacts
      <4> QED
        BY <1>1, <3>1, <4>1
    <3>2. CASE UNCHANGED <<bestCost, lastGain>> /\ stagnation' \in {0, stagnation}
      BY <3>2
    <3> QED
      BY <2>3, <3>1, <3>2 DEF Challenge, incumbent
  <2> QED
    BY <1>1, <2>1, <2>4 DEF CountInv
<1>12. CASE SkipRelink \/ EndRelink
  <2>1. /\ pc \in {"relink", "pairs"}
        /\ pc' = IF stagnation > Patience THEN "restart" ELSE "stop"
        /\ UNCHANGED <<config, iteration, stagnation, noImprove, bestCost,
                       bestEver, lastGain>>
    BY <1>12 DEF SkipRelink, EndRelink, EndStage, inputs, incumbent, monitor
  <2> QED
    BY <1>1, <1>2, <2>1 DEF CountInv
<1>13. CASE ReactiveRestart
  <2>1. /\ pc = "restart" /\ pc' = "stop" /\ iteration < MaxIterations
        /\ stagnation' = 0
        /\ UNCHANGED <<config, iteration, noImprove, bestEver>>
    BY <1>13 DEF ReactiveRestart, ControlInv, inputs, monitor
  <2>2. PICK s \in Box : Challenge(s, objective[s], iteration + 1)
    BY <1>13 DEF ReactiveRestart
  <2>3. objective[s] \in Int
    BY ConstantFacts DEF DataInv
  <2>4. \/ bestCost' < bestEver /\ lastGain' = iteration + 1
        \/ UNCHANGED <<bestCost, lastGain>>
    BY <1>1, <2>2, <2>3 DEF Challenge, incumbent
  <2>5. stagnation > 0 /\ ~EarlyStopDue
    BY <1>1, <2>1 DEF CountInv
  <2> QED
    BY <1>1, <1>2, <2>1, <2>4, <2>5 DEF CountInv
<1>14. CASE CompleteIteration
  <2>1. /\ pc = "stop" /\ iteration < MaxIterations
        /\ UNCHANGED <<config, stagnation, noImprove, bestCost, bestEver, lastGain>>
    BY <1>14 DEF CompleteIteration, ControlInv, inputs, incumbent, monitor
  <2>2. \/ pc' = "done"
        \/ pc' = "head" /\ iteration' = iteration + 1 /\ ~EarlyStopDue
    BY <1>14 DEF CompleteIteration
  <2> QED
    BY <1>1, <2>1, <2>2 DEF CountInv
<1>15. CASE DeadlinePasses
  BY <1>1, <1>2, <1>15 DEF DeadlinePasses, CountInv, incumbent, inputs, monitor,
     control
<1>16. CASE UNCHANGED vars
  BY <1>1, <1>2, <1>16 DEF vars, CountInv, incumbent, inputs, monitor, control
<1> QED
  BY <1>3, <1>4, <1>5, <1>6, <1>7, <1>8, <1>9, <1>10, <1>11, <1>12, <1>13,
     <1>14, <1>15, <1>16 DEF GraspNext, Run, Finished

(* An early stop is earned: at the foot of the loop the count is at least  *)
(* the threshold, and it bounds the iterations since the last gain unless  *)
(* path relinking made one after the monitor's turn.                       *)
LEMMA EarlyStopStep ==
  ASSUME ControlInv, CountInv, EarlyStopEarned, [GraspNext]_vars
  PROVE  EarlyStopEarned'
<1>1. SUFFICES ASSUME termination' = "early_stop"
               PROVE  \/ nit' - lastGain' >= EarlyStopThreshold
                      \/ lastGain' = nit' /\ RelinkTurn'
  BY DEF EarlyStopEarned
<1>2. UNCHANGED <<config, iteration>> => (RelinkTurn' <=> RelinkTurn)
  BY DEF RelinkTurn
<1>3. \/ CompleteIteration
      \/ UNCHANGED <<config, iteration, nit, termination, lastGain>>
  BY <1>1 DEF GraspNext, Run, vars, Finished, inputs, control, incumbent,
     WarmStart, StartLoop, Exhausted, TimeOut, Construct, Vnd, Ils, Record,
     Unmonitored, Monitor, StartRelink, RelinkPair, SkipRelink, EndRelink,
     ReactiveRestart, DeadlinePasses, ObjectiveRaises, EarlyStopEarned,
     ControlInv
<1>4. CASE UNCHANGED <<config, iteration, nit, termination, lastGain>>
  BY <1>1, <1>2, <1>4 DEF EarlyStopEarned
<1>5. CASE CompleteIteration
  <2>1. /\ pc = "stop" /\ termination = "running" /\ nit' = iteration + 1
        /\ UNCHANGED <<config, lastGain>>
    BY <1>5 DEF CompleteIteration, ControlInv, inputs, incumbent
  <2>2. EarlyStopDue /\ UNCHANGED iteration
    BY <1>1, <1>5, <2>1 DEF CompleteIteration
  <2>3. \/ Unseen /\ lastGain = iteration + 1 /\ RelinkTurn
        \/ noImprove + lastGain <= iteration + 1
    BY <2>1, <2>2, ConstantFacts DEF CountInv, EarlyStopDue, Counted
  <2>4. /\ iteration \in Int /\ lastGain \in Int /\ noImprove \in Int
        /\ EarlyStopThreshold \in Int /\ noImprove >= EarlyStopThreshold
    BY <2>2, ConstantFacts DEF ControlInv, CountInv, EarlyStopDue
  <2> QED
    BY <1>2, <2>1, <2>2, <2>3, <2>4
<1> QED
  BY <1>3, <1>4, <1>5

-----------------------------------------------------------------------------

(* The inductive invariant holds before the first step,                    *)
LEMMA InitGraspInv == GraspInit => GraspInv
<1> SUFFICES ASSUME GraspInit PROVE GraspInv
  OBVIOUS
<1>1. PoolOK(pool) /\ pool = <<>>
  BY InitPoolOK DEF GraspInit, PoolInit
<1>2. DataInv
  <2>1. config \in Config /\ objective \in [Solutions -> Costs]
        /\ guesses \in Seq(Box) /\ Infinity \in Costs
    BY GraspAssumption, EliteAssumption DEF GraspInit, Costs
  <2>2. snapshot \in Seq(Entry)
    BY EmptySeq DEF GraspInit
  <2>3. pair = <<1, 2>> /\ pair \in (1..4) \X (1..5) /\ pair[1] < pair[2]
    BY DEF GraspInit
  <2> QED
    BY <2>1, <2>2, <2>3 DEF GraspInit, DataInv
<1>3. ControlInv
  BY ConstantFacts DEF GraspInit, ControlInv, Stages, Reasons, After
<1>4. CountInv
  BY ConstantFacts DEF GraspInit, CountInv, Before, After, Counted, Unseen,
     EarlyStopDue
<1>5. IncumbentDominates /\ EarlyStopEarned
  BY <1>1, ConstantFacts, EmptySeq DEF GraspInit, IncumbentDominates, EarlyStopEarned
<1> QED
  BY <1>1, <1>2, <1>3, <1>4, <1>5 DEF GraspInv

(* is kept by every step,                                                  *)
LEMMA StepGraspInv == GraspInv /\ [GraspNext]_vars => GraspInv'
<1> SUFFICES ASSUME GraspInv, [GraspNext]_vars PROVE GraspInv'
  OBVIOUS
<1>1. /\ DataInv /\ ControlInv /\ PoolOK(pool) /\ IncumbentDominates
      /\ CountInv /\ EarlyStopEarned
  BY DEF GraspInv
<1>2. DataInv' /\ ControlInv'
  BY <1>1, DataStep, ControlStep
<1>3. PoolOK(pool') /\ IncumbentDominates'
  BY <1>1, PoolStep
<1>4. PoolOK(pool)'
  BY <1>3 DEF PoolOK, Sorted, Diverse
<1>5. CountInv' /\ EarlyStopEarned'
  BY <1>1, CountStep, EarlyStopStep
<1> QED
  BY <1>2, <1>3, <1>4, <1>5 DEF GraspInv

(* and so holds throughout a run.                                          *)
LEMMA GraspInvAlways == GraspSpec => []GraspInv
BY InitGraspInv, StepGraspInv, PTL DEF GraspSpec

(* Every variable of a run keeps its type: the counters never exceed the   *)
(* budget, relinking never leaves the four best elites it copied.          *)
THEOREM GraspTypeCorrect == GraspSpec => []GraspTypeOK
<1>1. GraspInv => GraspTypeOK
  BY DEF GraspInv, DataInv, ControlInv, CountInv, PoolOK, GraspTypeOK, PoolTypeOK
<1> QED
  BY <1>1, GraspInvAlways, PTL

(* No stage lets the pool hold anything better than the incumbent, and the *)
(* monitor has never seen anything better either.                          *)
THEOREM IncumbentDominatesAlways == GraspSpec => []IncumbentDominates
<1>1. GraspInv => IncumbentDominates
  BY DEF GraspInv
<1> QED
  BY <1>1, GraspInvAlways, PTL

(* A run stops early only after EarlyStopThreshold iterations without a    *)
(* gain, or in an iteration whose relinking made one.                      *)
THEOREM EarlyStopAlwaysEarned == GraspSpec => []EarlyStopEarned
<1>1. GraspInv => EarlyStopEarned
  BY DEF GraspInv
<1> QED
  BY <1>1, GraspInvAlways, PTL

(* A reactive restart needs a monitor, and more than a quarter of the      *)
(* budget without a gain of any stage.                                     *)
THEOREM RestartAlwaysEarned == GraspSpec => []RestartEarned
<1>1. GraspInv => RestartEarned
  <2> SUFFICES ASSUME GraspInv, pc = "restart"
               PROVE  iteration + 1 - lastGain > Patience /\ config.monitor
    BY DEF RestartEarned
  <2>1. /\ stagnation \in Int /\ lastGain \in Int /\ iteration \in Int
        /\ Patience \in Nat
        /\ stagnation > Patience /\ stagnation + lastGain <= iteration + 1
        /\ ~config.monitor => stagnation = 0
    BY ConstantFacts DEF GraspInv, ControlInv, CountInv, After, Counted
  <2> QED
    BY <2>1
<1> QED
  BY <1>1, GraspInvAlways, PTL

(* Seen through its pool, every run is an execution of ElitePool.          *)
THEOREM RunImplementsPool == GraspSpec => ImplementsPool
<1>1. GraspInit => PoolInit
  BY DEF GraspInit
<1>2. GraspInv /\ [GraspNext]_vars => [PoolNext]_pool
  BY PoolStep DEF GraspInv
<1> QED
  BY <1>1, <1>2, GraspInvAlways, PTL DEF GraspSpec, PoolSpec, ImplementsPool

(* Every run is an anytime optimizer: an execution of Incumbent.           *)
THEOREM RunImplementsIncumbent == GraspSpec => ImplementsIncumbent
<1>1. GraspInit => Promise!Init
  BY GraspAssumption DEF GraspInit, Promise!Init, Config
<1>2. GraspInv /\ [GraspNext]_vars => [Promise!Next]_Promise!promise
  <2> SUFFICES ASSUME GraspInv, [GraspNext]_vars
               PROVE  [Promise!Next]_Promise!promise
    OBVIOUS
  <2>1. /\ DataInv /\ ControlInv /\ bestCost \in Int
        /\ MaxIterations \in Nat /\ iteration \in Int
    BY ConstantFacts DEF GraspInv, DataInv, ControlInv
  <2>2. CASE Produces
    <3>1. PICK e \in Entry :
            Challenge(e.sol, e.cost, IF pc = "warm" THEN 0 ELSE iteration + 1)
      BY <2>1, <2>2, Production
    <3>2. termination = "running" /\ UNCHANGED <<config, nit, termination>>
      BY <2>1, <2>2 DEF Produces, WarmStart, Record, RelinkPair,
         ReactiveRestart, ControlInv, inputs, control
    <3>3. \/ best' \in Solutions /\ bestCost' \in 0..Infinity /\ bestCost' < bestCost
          \/ UNCHANGED <<best, bestCost>>
      BY <2>1, <3>1, EntryProperties DEF Challenge, incumbent, Costs
    <3> QED
      BY <3>2, <3>3 DEF Promise!Next, Promise!Improve, Promise!promise
  <2>3. CASE CompleteIteration
    <3>1. /\ termination = "running" /\ nit = iteration /\ iteration < MaxIterations
          /\ UNCHANGED <<best, bestCost, config>>
      BY <2>1, <2>3 DEF CompleteIteration, ControlInv, inputs, incumbent, After
    <3>2. /\ nit' = nit + 1
          /\ \/ UNCHANGED termination
             \/ config.monitor /\ termination' = "early_stop"
      BY <2>3, <3>1 DEF CompleteIteration, EarlyStopDue
    <3> QED
      BY <3>1, <3>2 DEF Promise!Next, Promise!Spend
  <2>4. CASE Exhausted \/ ObjectiveRaises
    <3>1. /\ termination = "running" /\ nit = iteration
          /\ UNCHANGED <<best, bestCost, nit, config>>
      BY <2>1, <2>4 DEF Exhausted, ObjectiveRaises, ControlInv, inputs, incumbent
    <3> QED
      BY <2>4, <3>1 DEF Exhausted, ObjectiveRaises, Promise!Next, Promise!Conclude
  <2>5. CASE TimeOut
    <3>1. /\ termination = "running" /\ nit = iteration
          /\ UNCHANGED <<best, bestCost, nit, config>>
      BY <2>1, <2>5 DEF TimeOut, ControlInv, inputs, incumbent
    <3>2. config.timeLimited
      BY <2>1, <2>5 DEF DataInv, TimeOut
    <3> QED
      BY <2>5, <3>1, <3>2 DEF TimeOut, Promise!Next, Promise!Conclude
  <2>6. CASE UNCHANGED <<best, bestCost, nit, termination, config>>
    BY <2>6 DEF Promise!promise
  <2> QED
    BY <2>2, <2>3, <2>4, <2>5, <2>6 DEF GraspNext, Run, Produces, vars,
       inputs, incumbent, control, Finished, StartLoop, Construct, Vnd, Ils,
       Unmonitored, Monitor, StartRelink, SkipRelink, EndRelink, DeadlinePasses
<1> QED
  BY <1>1, <1>2, GraspInvAlways, PTL
     DEF GraspSpec, ImplementsIncumbent, Promise!IncumbentSpec

=============================================================================
