----------------------------- MODULE SearchProofs -----------------------------
(***************************************************************************)
(* Proofs about the searches, for every layout, mode, objective, deadline  *)
(* and bound: the vector a descent edits in place is what it is priced as. *)
(*                                                                         *)
(* A move is worth keeping if it is strictly cheaper than the best of its  *)
(* neighbourhood, which is at most the price of the vector; so a round     *)
(* without a gain leaves the vector as it was, whatever was tried in it.   *)
(***************************************************************************)
EXTENDS Search, FiniteSetTheorems, TLAPS

\* What the searches hand on are vectors of the layout.
VectorInv ==
  /\ shape \in Shapes /\ objective \in Objectives /\ cache \in Caches
  /\ sol \in Space /\ bestSol \in Space /\ cur \in Space
  /\ benefit \in Int /\ bestBen \in Int
  /\ nbh \in Neighbourhoods /\ (stage = "attempts" => nbh # "flip")
  /\ step = "walk" =>
       /\ path \in Space /\ best \in Space /\ origins \in Space \X Space
       /\ task = "bidirectional" /\ leg.reversed => leg.sol \in Space

\* A neighbourhood that found nothing has left the vector as it was.
UntouchedInv ==
  stage \in {"integers", "continuous", "return"} /\ bestBen = benefit =>
    Price(sol) = benefit

SearchInv == VectorInv /\ UntouchedInv /\ WorkingVectorIntact

-----------------------------------------------------------------------------
(* Moves and prices.                                                       *)

\* A price is an integer.
LEMMA PriceIsInt ==
  ASSUME shape \in Shapes, objective \in Objectives, cache \in Caches, NEW s \in Space
  PROVE  Price(s) \in Int /\ TrueCost(s) \in Int
<1>1. Space = Vectors(shape)
  BY DEF Space, Vars, Vectors
<1>2. Held(cache, shape, s) \in Vectors(shape)
  BY <1>1, DescentAssumption
<1> QED BY <1>1, <1>2, DescentAssumption DEF Price, TrueCost

\* What a search is given is a vector of the layout.
LEMMA BoxInSpace == Given \subseteq Space
BY DescentAssumption DEF Given, Box, Space

\* A flip of a continuous variable writes a value.
LEMMA ContinuousMovesAreValues == \A v : ContinuousMoves(v) \subseteq Values
BY DescentAssumption DEF ContinuousMoves, Reach

\* An attempt draws from perturbations of the vector.
LEMMA AttemptsWithin ==
  ASSUME NEW S, NEW s, \A cs, is : Perturbed(s, cs, is) \subseteq S,
         NEW n \in Neighbourhoods \ {"flip"}
  PROVE  AttemptMoves(s, n) \subseteq S
<1>1. \A cs, is : Perturbed(s, cs, is) \subseteq S
  OBVIOUS
<1>2. \A cs, d : Shifted(s, cs, d) \subseteq S
  BY <1>1 DEF Shifted
<1>3. GroupMoves(s) \subseteq S
  BY <1>2 DEF GroupMoves
<1>4. BlockMoves(s) \subseteq S
  BY <1>2 DEF BlockMoves
<1>5. CASE n = "swap"
  <2> DEFINE P(c) == Perturbed(s, {c}, {c + shape.half} \cap Integral)
             C == {c \in Continuous : c + shape.half <= shape.n}
  <2>1. AttemptMoves(s, n) = UNION {P(c) : c \in C}
    BY <1>5 DEF AttemptMoves
  <2>2. \A c : P(c) \subseteq S
    BY <1>1
  <2> HIDE DEF P, C
  <2> QED BY <2>1, <2>2
<1>6. CASE n = "group"
  BY <1>3, <1>6 DEF AttemptMoves
<1>7. CASE n = "block"
  BY <1>4, <1>7 DEF AttemptMoves
<1>8. CASE n = "multiflip"
  <2> DEFINE P(K) == Perturbed(s, K \cap Continuous, K \cap Integral)
             C == kSubset(IF FlipLimit < shape.n THEN FlipLimit ELSE shape.n, Vars)
  <2>1. AttemptMoves(s, n) = UNION {P(K) : K \in C}
    BY <1>8 DEF AttemptMoves
  <2>2. \A K : P(K) \subseteq S
    BY <1>1
  <2> HIDE DEF P, C
  <2> QED BY <2>1, <2>2
<1> QED BY <1>5, <1>6, <1>7, <1>8 DEF Neighbourhoods

\* What an attempt draws is a vector of the layout.
LEMMA AttemptsAreVectors ==
  ASSUME NEW s, NEW n \in Neighbourhoods \ {"flip"}
  PROVE  AttemptMoves(s, n) \subseteq Space
<1>1. \A cs, is : Perturbed(s, cs, is) \subseteq Space
  BY DEF Perturbed
<1> QED BY <1>1, AttemptsWithin

\* The least of a set that has one is in it.
LEMMA MinIsMember ==
  ASSUME NEW S, \E x \in S : \A y \in S : x <= y
  PROVE  Min(S) \in S
BY DEF Min

\* Of three neighbouring levels, one is the least that improves.
LEMMA LeastImproves ==
  ASSUME NEW i \in Vars, sol \in Space, Improving(i) # {}
  PROVE  Min(Improving(i)) \in Improving(i)
<1> DEFINE S == Improving(i)
           a == sol[i]
<1>1. a \in Int
  BY DescentAssumption DEF Space
<1>2. \A v \in S : v \in Int /\ (v = a - 1 \/ v = a \/ v = a + 1)
  BY <1>1 DEF Improving
<1>3. \E x \in S : \A y \in S : x <= y
  <2>1. CASE a - 1 \in S
    BY <1>1, <1>2, <2>1
  <2>2. CASE a - 1 \notin S /\ a \in S
    BY <1>1, <1>2, <2>2
  <2>3. CASE a - 1 \notin S /\ a \notin S
    BY <1>1, <1>2, <2>3
  <2> QED BY <2>1, <2>2, <2>3
<1> QED BY <1>3, MinIsMember

-----------------------------------------------------------------------------
(* A descent.                                                              *)

\* A step of a descent keeps the vector intact.
LEMMA DescentStep ==
  ASSUME SearchInv, step = "descent", DescentNext,
         UNCHANGED <<task, step, origins, ils, incumbent, walk, cheapest>>
  PROVE  SearchInv'
<1> USE DEF SearchInv
<1>1. /\ shape' = shape /\ objective' = objective /\ cache' = cache /\ mode' = mode
      /\ cur' = cur /\ step' = "descent"
  BY DEF DescentNext, given, ils, EndRounds, StartRound, GiveUp, FailRound, Enter, Improve,
         TryNext, SweepInteger, SweepContinuous, EndIntegers, EndContinuous, EndAttempts,
         Attempt, FailAttempt
<1>2. Space' = Space /\ \A s : Price(s)' = Price(s)
  BY <1>1 DEF Space, Vars, Price
<1>3. CASE EndRounds \/ StartRound \/ GiveUp
  <2>1. UNCHANGED <<working, found>>
    BY <1>3 DEF EndRounds, StartRound, GiveUp, FailRound
  <2>2. /\ stage \in {"round", "enter"} /\ stage' \in {"round", "enter", "done"}
        /\ nbh' \in Neighbourhoods
    BY <1>3 DEF EndRounds, StartRound, GiveUp, FailRound, VectorInv, Neighbourhoods
  <2> QED BY <1>1, <1>2, <2>1, <2>2
          DEF VectorInv, UntouchedInv, WorkingVectorIntact, working, found
<1>4. CASE Enter
  <2>1. /\ bestSol' = sol /\ bestBen' = benefit /\ sol' = sol /\ benefit' = benefit
        /\ nbh' = nbh /\ Price(sol) = benefit
        /\ stage' \in {"integers", "return", "attempts"}
        /\ nbh = "flip" => stage' # "attempts"
    BY <1>4 DEF Enter, working, WorkingVectorIntact
  <2> QED BY <1>1, <1>2, <2>1 DEF VectorInv, UntouchedInv, WorkingVectorIntact
<1>5. CASE Improve
  <2>1. /\ sol' = bestSol /\ benefit' = bestBen /\ UNCHANGED found /\ nbh' = nbh
        /\ stage' = "round" /\ Price(bestSol) = bestBen
    BY <1>5 DEF Improve, WorkingVectorIntact
  <2> QED BY <1>1, <1>2, <2>1 DEF VectorInv, UntouchedInv, WorkingVectorIntact, found
<1>6. CASE TryNext
  <2>1. /\ UNCHANGED <<working, found>> /\ stage' \in {"round", "enter"}
        /\ nbh' \in Neighbourhoods
    BY <1>6 DEF TryNext, FailRound, VectorInv, Following, Neighbourhoods
  <2>2. bestBen = benefit
    BY <1>6 DEF TryNext, VectorInv, WorkingVectorIntact
  <2>3. Price(sol) = benefit
    BY <1>6, <2>2 DEF TryNext, UntouchedInv
  <2> QED BY <1>1, <1>2, <2>1, <2>3
          DEF VectorInv, UntouchedInv, WorkingVectorIntact, working, found
<1>7. ASSUME NEW i \in Vars, SweepInteger(i) PROVE SearchInv'
  <2>1. stage = "integers" /\ stage' \in {"integers", "continuous"} /\ benefit' = benefit
        /\ nbh' = nbh
    BY <1>7 DEF SweepInteger, ToContinuous
  <2>2. CASE Improving(i) # {} /\ bestSol' = sol' /\ bestBen' = Price(sol')
             /\ sol' = [sol EXCEPT ![i] = Min(Improving(i))]
    <3>1. Min(Improving(i)) \in Improving(i)
      BY <2>2, LeastImproves DEF VectorInv
    <3>2. Min(Improving(i)) \in Values /\ Price(sol') < bestBen
      BY <2>2, <3>1 DEF Improving
    <3>3. sol' \in Space
      BY <2>2, <3>2 DEF VectorInv, Space
    <3>4. Price(sol') \in Int
      BY <3>3, PriceIsInt DEF VectorInv
    <3>5. bestBen' < benefit /\ bestBen' \in Int
      BY <2>1, <2>2, <3>2, <3>4 DEF VectorInv, WorkingVectorIntact
    <3> QED BY <1>1, <1>2, <2>1, <2>2, <3>3, <3>5
            DEF VectorInv, UntouchedInv, WorkingVectorIntact
  <2>3. CASE UNCHANGED <<sol, found>>
    BY <1>1, <1>2, <2>1, <2>3 DEF VectorInv, UntouchedInv, WorkingVectorIntact, found
  <2>4. \/ /\ Improving(i) # {} /\ bestSol' = sol' /\ bestBen' = Price(sol')
           /\ sol' = [sol EXCEPT ![i] = Min(Improving(i))]
        \/ UNCHANGED <<sol, found>>
    BY <1>7 DEF SweepInteger
  <2> QED BY <1>2, <2>2, <2>3, <2>4
<1>8. ASSUME NEW i \in Vars, SweepContinuous(i) PROVE SearchInv'
  <2>1. /\ stage = "continuous" /\ stage' \in {"continuous", "return"}
        /\ benefit' = benefit /\ nbh' = nbh
    BY <1>8 DEF SweepContinuous
  <2>2. PICK v \in ContinuousMoves(sol[i]) :
          LET t == [sol EXCEPT ![i] = v] IN
          \/ /\ Price(t) < bestBen /\ bestSol' = t /\ bestBen' = Price(t)
             /\ sol' = t \/ sol' = sol
          \/ UNCHANGED <<sol, found>>
    BY <1>8 DEF SweepContinuous
  <2> DEFINE t == [sol EXCEPT ![i] = v]
  <2>3. t \in Space
    BY ContinuousMovesAreValues DEF VectorInv, Space
  <2>4. Price(t) \in Int
    BY <2>3, PriceIsInt DEF VectorInv
  <2>5. \/ /\ Price(t) < bestBen /\ bestSol' = t /\ bestBen' = Price(t)
           /\ sol' = t \/ sol' = sol
        \/ UNCHANGED <<sol, found>>
    BY <2>2
  <2> HIDE DEF t
  <2>6. CASE /\ Price(t) < bestBen /\ bestSol' = t /\ bestBen' = Price(t)
             /\ sol' = t \/ sol' = sol
    <3>1. bestBen' < benefit
      BY <2>1, <2>4, <2>6 DEF VectorInv, WorkingVectorIntact
    <3> QED BY <1>1, <1>2, <2>1, <2>3, <2>4, <2>6, <3>1
            DEF VectorInv, UntouchedInv, WorkingVectorIntact
  <2>7. CASE UNCHANGED <<sol, found>>
    BY <1>1, <1>2, <2>1, <2>7 DEF VectorInv, UntouchedInv, WorkingVectorIntact, found
  <2> QED BY <2>5, <2>6, <2>7
<1>9. CASE EndIntegers \/ EndContinuous \/ EndAttempts
  <2>1. /\ UNCHANGED <<working, found>> /\ nbh' = nbh
        /\ stage \in {"integers", "continuous", "attempts"}
        /\ stage' \in {"continuous", "return"}
    BY <1>9 DEF EndIntegers, EndContinuous, EndAttempts, ToContinuous
  <2> QED BY <1>1, <1>2, <2>1
          DEF VectorInv, UntouchedInv, WorkingVectorIntact, working, found
<1>10. CASE Attempt
  <2>1. stage = "attempts" /\ benefit' = benefit /\ nbh' = nbh
    BY <1>10 DEF Attempt
  <2>2. PICK t \in AttemptMoves(sol, nbh) :
          \/ /\ Price(t) < bestBen /\ bestSol' = t /\ bestBen' = Price(t)
             /\ \/ sol' = t /\ stage' = "return"
                \/ UNCHANGED <<sol, stage>>
          \/ UNCHANGED <<sol, found, stage>>
    BY <1>10 DEF Attempt
  <2>3. t \in Space
    BY <2>1, AttemptsAreVectors DEF VectorInv
  <2>4. Price(t) \in Int
    BY <2>3, PriceIsInt DEF VectorInv
  <2>5. CASE /\ Price(t) < bestBen /\ bestSol' = t /\ bestBen' = Price(t)
             /\ \/ sol' = t /\ stage' = "return"
                \/ UNCHANGED <<sol, stage>>
    <3>1. bestBen' < benefit
      BY <2>1, <2>4, <2>5 DEF VectorInv, WorkingVectorIntact
    <3> QED BY <1>1, <1>2, <2>1, <2>3, <2>4, <2>5, <3>1
            DEF VectorInv, UntouchedInv, WorkingVectorIntact
  <2>6. CASE UNCHANGED <<sol, found, stage>>
    BY <1>1, <1>2, <2>1, <2>6 DEF VectorInv, UntouchedInv, WorkingVectorIntact, found
  <2> QED BY <2>2, <2>5, <2>6
<1>11. CASE FailAttempt
  BY <1>1, <1>2, <1>11
  DEF FailAttempt, VectorInv, UntouchedInv, WorkingVectorIntact, working, found
<1> QED BY <1>3, <1>4, <1>5, <1>6, <1>7, <1>8, <1>9, <1>10, <1>11 DEF DescentNext

-----------------------------------------------------------------------------
(* The searches around it.                                                 *)

\* Where no vector, price or stage of the descent changes, only what a walk
\* and ILS hand on is left to show.
LEMMA SameDescent ==
  ASSUME SearchInv, UNCHANGED <<given, working, found, stage, nbh>>, cur' \in Space,
         step' = "walk" =>
           /\ path' \in Space /\ best' \in Space /\ origins' \in Space \X Space
           /\ task' = "bidirectional" /\ leg'.reversed => leg'.sol \in Space
  PROVE  SearchInv'
<1>1. Space' = Space /\ \A s : Price(s)' = Price(s)
  BY DEF Space, Vars, Price, given
<1> QED BY <1>1
        DEF SearchInv, VectorInv, UntouchedInv, WorkingVectorIntact, given, working, found

\* A descent begins on a vector at its own price.
LEMMA BeginsIntact ==
  ASSUME SearchInv, NEW s \in Space, Begin(s), UNCHANGED given, cur' \in Space,
         step' = "descent"
  PROVE  SearchInv'
<1>1. Space' = Space /\ \A t : Price(t)' = Price(t)
  BY DEF Space, Vars, Price, given
<1>2. Price(s) \in Int
  BY PriceIsInt DEF SearchInv, VectorInv
<1>3. /\ sol' = s /\ benefit' = Price(s) /\ bestSol' = s /\ bestBen' = Price(s)
      /\ stage' = "round" /\ nbh' = "flip"
  BY DEF Begin
<1> QED BY <1>1, <1>2, <1>3
        DEF SearchInv, VectorInv, UntouchedInv, WorkingVectorIntact, given, Neighbourhoods

\* A point of a walk moved in one coordinate is a vector.
LEMMA MovedIsVector ==
  ASSUME NEW s \in Space, NEW t \in Space, NEW v
  PROVE  [s EXCEPT ![v] = t[v]] \in Space
BY DEF Space

\* Every step of a search keeps the vector intact.
LEMMA SearchStep ==
  ASSUME SearchInv, [Next]_vars
  PROVE  SearchInv'
<1>0. cur \in Space /\ sol \in Space
  BY DEF SearchInv, VectorInv
<1>1. CASE Descend
  BY <1>1, DescentStep DEF Descend
<1>2. CASE IlsPerturb
  <2>1. PICK t \in Perturbations(cur, Strength) : Begin(t)
    BY <1>2 DEF IlsPerturb
  <2>2. t \in Space
    BY DEF Perturbations
  <2> QED BY <1>0, <1>2, <2>1, <2>2, BeginsIntact DEF IlsPerturb, ils
<1>3. CASE IlsAccept \/ IlsEnd \/ TakeDescent
  <2>1. cur' \in Space /\ step' # "walk" /\ UNCHANGED <<given, working, found, stage, nbh>>
    BY <1>0, <1>3 DEF IlsAccept, IlsEnd, TakeDescent, ils, vndVars
  <2> QED BY <2>1, SameDescent
<1>4. CASE \E v \in Vars : WalkStep(v) \/ ExamineMove(v)
  <2>1. PICK v \in Vars : WalkStep(v) \/ ExamineMove(v)
    BY <1>4
  <2>2. /\ step = "walk" /\ UNCHANGED <<given, working, found, stage, nbh, cur>>
        /\ UNCHANGED <<task, origins, leg>>
    BY <2>1 DEF WalkStep, ExamineMove, ils
  <2>3. path \in Space /\ best \in Space /\ Target \in Space
    BY <2>2 DEF SearchInv, VectorInv, Target
  <2>4. path' \in Space /\ best' \in Space
    BY <2>1, <2>3, MovedIsVector DEF WalkStep, ExamineMove, incumbent
  <2> QED BY <1>0, <2>2, <2>4, SameDescent DEF SearchInv, VectorInv
<1>5. CASE MakeMove
  <2>1. /\ step = "walk" /\ UNCHANGED <<vndVars, cur, task, origins, leg>>
        /\ path' = [path EXCEPT ![move] = Target[move]] /\ best' = path'
    BY <1>5 DEF MakeMove, ils
  <2>2. path \in Space /\ Target \in Space
    BY <2>1 DEF SearchInv, VectorInv, Target
  <2>3. path' \in Space
    BY <2>1, <2>2, MovedIsVector
  <2> QED BY <1>0, <2>1, <2>3, SameDescent DEF SearchInv, VectorInv, vndVars
<1>6. CASE TurnBack
  <2>1. /\ step = "walk" /\ UNCHANGED <<cur, task, origins>>
        /\ leg' = [reversed |-> TRUE, sol |-> best, cost |-> bestCost]
        /\ path' = origins[2] /\ best' = origins[2]
    BY <1>6 DEF TurnBack, BeginWalk, ils
  <2>2. origins \in Space \X Space /\ best \in Space
    BY <2>1 DEF SearchInv, VectorInv
  <2>3. UNCHANGED <<given, working, found, stage, nbh>>
    BY <1>6 DEF TurnBack
  <2> QED BY <1>0, <2>1, <2>2, <2>3, SameDescent
<1>7. CASE EndWalk
  <2>1. Winner \in Space
    BY <1>7 DEF EndWalk, Winner, SearchInv, VectorInv
  <2>2. CASE task = "best"
    <3>1. UNCHANGED <<vndVars, cur>> /\ step' = "over"
      BY <1>7, <2>2 DEF EndWalk, ils
    <3> QED BY <1>0, <3>1, SameDescent DEF vndVars
  <2>3. CASE task # "best"
    <3>1. Begin(Winner) /\ step' = "descent" /\ UNCHANGED <<given, cur>>
      BY <1>7, <2>3 DEF EndWalk, ils
    <3> QED BY <1>0, <2>1, <3>1, BeginsIntact
  <2> QED BY <2>2, <2>3
<1>8. CASE Expire
  <2>1. UNCHANGED <<given, working, found, stage, nbh, cur, step, task, origins, leg, path, best>>
    BY <1>8 DEF Expire, DeadlinePasses, ils, incumbent, walk
  <2> QED BY <1>0, <2>1, SameDescent DEF SearchInv, VectorInv
<1>9. CASE UNCHANGED vars
  <2>1. UNCHANGED <<given, working, found, stage, nbh, cur, step, task, origins, leg, path, best>>
    BY <1>9 DEF vars, vndVars, ils, incumbent, walk
  <2> QED BY <1>0, <2>1, SameDescent DEF SearchInv, VectorInv
<1> QED BY <1>1, <1>2, <1>3, <1>4, <1>5, <1>6, <1>7, <1>8, <1>9 DEF Next, Work

\* A search begins on a vector at its own price.
LEMMA SearchBegins == SearchInit => SearchInv
<1> SUFFICES ASSUME SearchInit PROVE SearchInv
  OBVIOUS
<1>1. shape \in Shapes /\ objective \in Objectives /\ cache \in Caches
  BY SearchAssumption DEF SearchInit
<1>2. task \in Relinks => origins \in Space \X Space
  BY BoxInSpace DEF SearchInit
<1>3. sol \in Space
  BY <1>2, BoxInSpace DEF SearchInit, Source
<1>4. Price(sol) \in Int
  BY <1>1, <1>3, PriceIsInt
<1>5. /\ bestSol = sol /\ cur = sol /\ best = sol /\ benefit = Price(sol)
      /\ bestBen = benefit /\ stage \in {"round", "idle"} /\ nbh \in Neighbourhoods
  BY DEF SearchInit, Neighbourhoods
<1>6. step = "walk" => task \in Relinks /\ path \in Space
                       /\ ~(task = "bidirectional" /\ leg.reversed)
  BY <1>2, SearchAssumption DEF SearchInit, Source, Relinks
<1> QED BY <1>1, <1>2, <1>3, <1>4, <1>5, <1>6
        DEF SearchInv, VectorInv, UntouchedInv, WorkingVectorIntact

(* Whatever the layout, the mode and the objective, and whenever the        *)
(* deadline passes, no rejected move is left in the vector a descent edits  *)
(* in place (core/vnd/, core/ils.py, core/pr.py).                           *)
THEOREM WorkingVectorAlwaysIntact == SearchSpec => []WorkingVectorIntact
<1>1. SearchInv /\ [Next]_vars => SearchInv'
  BY SearchStep
<1>2. SearchInv => WorkingVectorIntact
  BY DEF SearchInv
<1> QED BY SearchBegins, <1>1, <1>2, PTL DEF SearchSpec

-----------------------------------------------------------------------------
(* What is returned.                                                       *)

\* A walk has its best so far; its current point is a mixture of the ends.
WalkInv ==
  /\ bestCost <= Price(path) /\ bestCost <= Price(Source)
  /\ task = "bidirectional" /\ leg.reversed =>
       leg.cost = Price(leg.sol) /\ leg.cost <= Price(origins[1])
  /\ task # "best" /\ Cardinality(Differing(Source, Target)) <= MaxRelink =>
       \A v \in Vars \ left : path[v] = Target[v]
  /\ task = "best" /\ move # 0 =>
       Price([path EXCEPT ![move] = Target[move]]) < bestCost

CostInv ==
  /\ best \in Space /\ bestCost \in {TrueCost(best), Price(best)}
  /\ task # "ils" => bestCost = Price(best)
  /\ step = "walk" => task \in Relinks /\ WalkInv
  /\ task # "ils" /\ step = "descent" => benefit <= bestCost
  /\ task = "ils" =>
       /\ curCost \in Int /\ cheapest \in Int
       /\ bestCost <= curCost /\ bestCost <= cheapest

\* The instance, and so every price, stays.
LEMMA SamePrices ==
  ASSUME UNCHANGED given
  PROVE  Space' = Space /\ \A s : Price(s)' = Price(s) /\ TrueCost(s)' = TrueCost(s)
BY DEF Space, Vars, Price, TrueCost, given

\* The ends of a walk are vectors.
LEMMA EndsAreVectors ==
  ASSUME SearchInv, step = "walk"
  PROVE  /\ Source \in Space /\ Target \in Space
         /\ origins[1] \in Space /\ origins[2] \in Space
BY DEF SearchInv, VectorInv, Source, Target

\* Where every coordinate is the target's, the point is the target.
LEMMA ArrivedAtTarget ==
  ASSUME NEW s \in Space, NEW t \in Space, \A v \in Vars : s[v] = t[v]
  PROVE  s = t
BY DEF Space

\* Where few coordinates differ, a difference of two points is all of it.
LEMMA WholeDifference ==
  ASSUME NEW s, NEW t, NEW K \in Differences(s, t),
         Cardinality(Differing(s, t)) <= MaxRelink
  PROVE  \A v \in Vars \ K : s[v] = t[v]
<1>1. K = Differing(s, t)
  BY DEF Differences
<1> QED BY <1>1 DEF Differing

\* The cheaper of two costs is one of them.
LEMMA CheaperOfTwo ==
  ASSUME NEW a \in Int, NEW b \in Int
  PROVE  Min({a, b}) \in Int /\ (Min({a, b}) = a \/ Min({a, b}) = b)
<1>1. \E x \in {a, b} : \A y \in {a, b} : x <= y
  OBVIOUS
<1>2. Min({a, b}) \in {a, b}
  BY <1>1, MinIsMember
<1> QED BY <1>2

\* A search has found nothing better before it begins.
LEMMA CostBegins == SearchInit => CostInv
<1> SUFFICES ASSUME SearchInit PROVE CostInv
  OBVIOUS
<1>0. SearchInv
  BY SearchBegins
<1>1. /\ best = sol /\ bestCost = Price(sol) /\ benefit = bestCost /\ curCost = bestCost
      /\ cheapest = bestCost
  BY DEF SearchInit
<1>2. Price(sol) \in Int /\ sol \in Space
  BY <1>0, PriceIsInt DEF SearchInv, VectorInv
<1>3. ASSUME step = "walk" PROVE task \in Relinks /\ WalkInv
  <2>1. task \in Relinks /\ path = Source /\ sol = Source /\ move = 0
    BY <1>3, SearchAssumption DEF SearchInit, Relinks
  <2>2. left \in Differences(Source, Target)
    BY <2>1 DEF SearchInit
  <2>3. ~(task = "bidirectional" /\ leg.reversed)
    BY DEF SearchInit
  <2>4. Cardinality(Differing(Source, Target)) <= MaxRelink =>
          \A v \in Vars \ left : path[v] = Target[v]
    BY <2>1, <2>2, WholeDifference
  <2> QED BY <1>1, <1>2, <2>1, <2>3, <2>4 DEF WalkInv
<1> QED BY <1>1, <1>2, <1>3 DEF CostInv

\* Only an improvement changes current_benefit within a descent.
LEMMA DescentNeverWorse ==
  ASSUME SearchInv, DescentNext
  PROVE  benefit' <= benefit
<1>1. CASE Improve
  BY <1>1 DEF Improve, SearchInv, VectorInv
<1>2. benefit' = benefit \/ Improve
  BY DEF DescentNext, working, EndRounds, StartRound, GiveUp, FailRound, Enter,
         TryNext, SweepInteger, SweepContinuous, EndIntegers, EndContinuous, EndAttempts,
         Attempt, FailAttempt
<1> QED BY <1>1, <1>2 DEF SearchInv, VectorInv

\* Every step keeps what a search knows of its best so far.
LEMMA CostStep ==
  ASSUME SearchInv, CostInv, [Next]_vars
  PROVE  CostInv'
<1>0. SearchInv'
  BY SearchStep
<1>1. /\ bestCost \in Int /\ Price(sol) \in Int /\ TrueCost(sol) \in Int
      /\ benefit \in Int /\ sol \in Space /\ cur \in Space /\ benefit' \in Int
  BY <1>0, PriceIsInt DEF CostInv, SearchInv, VectorInv
<1>2. CASE Descend
  <2>1. /\ UNCHANGED <<task, step, origins, ils, incumbent, walk, cheapest, given>>
        /\ step = "descent"
    BY <1>2 DEF Descend, DescentNext, given, EndRounds, StartRound, GiveUp, FailRound, Enter,
         Improve, TryNext, SweepInteger, SweepContinuous, EndIntegers, EndContinuous,
         EndAttempts, Attempt, FailAttempt
  <2>2. benefit' <= benefit
    BY <1>2, DescentNeverWorse DEF Descend
  <2> QED BY <1>1, <2>1, <2>2, SamePrices DEF CostInv, ils, incumbent
<1>3. CASE IlsPerturb
  <2>1. task = "ils" /\ step' = "descent"
        /\ UNCHANGED <<given, task, ils, incumbent, cheapest>>
    BY <1>3 DEF IlsPerturb
  <2> QED BY <2>1, SamePrices DEF CostInv, ils, incumbent
<1>4. CASE IlsAccept
  <2>1. /\ task = "ils" /\ task' = "ils" /\ step' = "loop" /\ UNCHANGED given
        /\ cheapest' = Min({cheapest, TrueCost(sol)})
    BY <1>4 DEF IlsAccept
  <2>2. \/ cur' = sol /\ curCost' = TrueCost(sol)
        \/ TrueCost(sol) >= curCost /\ cur' = cur /\ curCost' = curCost
    BY <1>4 DEF IlsAccept
  <2>3. \/ curCost' < bestCost /\ best' = cur' /\ bestCost' = curCost'
        \/ ~(curCost' < bestCost) /\ best' = best /\ bestCost' = bestCost
    BY <1>4 DEF IlsAccept, incumbent
  <2>4. curCost \in Int /\ cheapest \in Int /\ bestCost <= curCost /\ bestCost <= cheapest
    BY <2>1 DEF CostInv
  <2>5. cheapest' \in Int /\ (cheapest' = cheapest \/ cheapest' = TrueCost(sol))
    BY <1>1, <2>1, <2>4, CheaperOfTwo
  <2>6. curCost' \in Int /\ bestCost' <= curCost' /\ bestCost' <= cheapest'
    BY <1>1, <2>2, <2>3, <2>4, <2>5
  <2>7. curCost' < bestCost => cur' = sol /\ curCost' = TrueCost(sol)
    BY <1>1, <2>2, <2>4
  <2>8. best' \in Space /\ bestCost' \in {TrueCost(best'), Price(best')}
    BY <1>1, <2>3, <2>7 DEF CostInv
  <2> QED BY <2>1, <2>5, <2>6, <2>8, SamePrices DEF CostInv
<1>5. CASE IlsEnd
  BY <1>5, SamePrices DEF IlsEnd, CostInv, ils, incumbent, vndVars
<1>6. CASE \E v \in Vars : WalkStep(v)
  <2>1. PICK v \in Vars : WalkStep(v)
    BY <1>6
  <2>2. /\ step = "walk" /\ task # "best"
        /\ path' = [path EXCEPT ![v] = Target[v]] /\ left' = left \ {v}
        /\ UNCHANGED <<given, benefit, task, step, origins, ils, leg, move, cheapest>>
        /\ \/ Price(path') < bestCost /\ best' = path' /\ bestCost' = Price(path')
           \/ ~(Price(path') < bestCost) /\ best' = best /\ bestCost' = bestCost
    BY <2>1 DEF WalkStep, working, incumbent
  <2>3. path \in Space /\ path' \in Space
    BY <1>0, <2>2, SamePrices DEF SearchInv, VectorInv
  <2>4. Price(path') \in Int /\ Price(Source) \in Int
    BY <2>2, <2>3, PriceIsInt, EndsAreVectors DEF SearchInv, VectorInv
  <2>5. bestCost' \in Int /\ bestCost' <= bestCost /\ bestCost' <= Price(path')
    BY <1>1, <2>2, <2>4
  <2>6. best' \in Space /\ bestCost' = Price(best')
    BY <2>2, <2>3 DEF CostInv, Relinks
  <2>7. Source' = Source /\ Target' = Target /\ Vars' = Vars
    BY <2>2 DEF Source, Target, Vars, given
  <2>8. Differing(Source, Target)' = Differing(Source, Target)
    BY <2>7 DEF Differing
  <2>9. \A w \in Vars \ left' : path[w] = Target[w] \/ w = v => path'[w] = Target[w]
    BY <2>2, <2>3 DEF Space
  <2>10. WalkInv'
    BY <1>1, <2>2, <2>4, <2>5, <2>7, <2>8, <2>9, SamePrices DEF CostInv, WalkInv
  <2> QED BY <1>1, <2>2, <2>6, <2>10, SamePrices DEF CostInv, Relinks, ils
<1>7. CASE \E v \in Vars : ExamineMove(v)
  <2>1. PICK v \in Vars : ExamineMove(v)
    BY <1>7
  <2> DEFINE moved(w) == Price([path EXCEPT ![w] = Target[w]])
  <2>2. /\ step = "walk" /\ task = "best"
        /\ move' = IF moved(v) < (IF move = 0 THEN bestCost ELSE moved(move)) THEN v ELSE move
        /\ UNCHANGED <<given, benefit, task, step, origins, ils, incumbent, leg, path, left,
                       cheapest>>
    BY <2>1 DEF ExamineMove, working
  <2>3. path \in Space /\ Target \in Space
    BY <2>2, EndsAreVectors DEF SearchInv, VectorInv
  <2>4. \A w : moved(w) \in Int
    BY <2>3, MovedIsVector, PriceIsInt DEF SearchInv, VectorInv
  <2>5. move # 0 => moved(move) < bestCost
    BY <2>2 DEF CostInv, WalkInv
  <2> HIDE DEF moved
  <2>6. move' # 0 => moved(move') < bestCost
    BY <1>1, <2>2, <2>4, <2>5
  <2>7. Source' = Source /\ Target' = Target /\ Vars' = Vars
    BY <2>2 DEF Source, Target, Vars, given
  <2>8. Price([path EXCEPT ![move] = Target[move]])' = moved(move')
    BY <2>2, <2>7 DEF moved, Price, given
  <2>9. /\ bestCost' = bestCost /\ task' = task /\ leg' = leg /\ origins' = origins
        /\ Price(path)' = Price(path) /\ Price(Source)' = Price(Source)
    BY <2>2, <2>7 DEF Price, given, incumbent
  <2>10. (task # "best" \/ move = 0 \/ Price([path EXCEPT ![move] = Target[move]]) < bestCost)'
    BY <2>6, <2>8, <2>9
  <2>11. WalkInv'
    BY <2>2, <2>9, <2>10 DEF CostInv, WalkInv
  <2> QED BY <2>2, <2>11, SamePrices DEF CostInv, ils, incumbent
<1>8. CASE MakeMove
  <2>1. /\ step = "walk" /\ task = "best" /\ move # 0 /\ move' = 0
        /\ path' = [path EXCEPT ![move] = Target[move]]
        /\ best' = path' /\ bestCost' = Price(path')
        /\ UNCHANGED <<given, benefit, task, step, origins, ils, leg, cheapest>>
    BY <1>8 DEF MakeMove, vndVars, working
  <2>2. path' \in Space
    BY <1>0, <2>1, SamePrices DEF SearchInv, VectorInv
  <2>3. Price(path') \in Int /\ Price(Source) \in Int
    BY <2>1, <2>2, PriceIsInt, EndsAreVectors DEF SearchInv, VectorInv
  <2>4. bestCost' < bestCost /\ bestCost <= Price(Source)
    BY <2>1 DEF CostInv, WalkInv
  <2>5. bestCost' <= Price(Source) /\ bestCost' <= Price(path')
    BY <1>1, <2>1, <2>3, <2>4
  <2>6. Source' = Source
    BY <2>1 DEF Source
  <2>7. WalkInv'
    BY <2>1, <2>5, <2>6, SamePrices DEF WalkInv
  <2> QED BY <2>1, <2>2, <2>7, SamePrices DEF CostInv, ils
<1>9. CASE TurnBack
  <2>1. /\ step = "walk" /\ step' = "walk" /\ task = "bidirectional" /\ ~leg.reversed
        /\ leg' = [reversed |-> TRUE, sol |-> best, cost |-> bestCost]
        /\ path' = origins[2] /\ best' = origins[2] /\ bestCost' = Price(origins[2])
        /\ left' \in Differences(origins[2], origins[1])
        /\ UNCHANGED <<given, benefit, task, origins, ils, cheapest>>
    BY <1>9 DEF TurnBack, BeginWalk, working
  <2>2. Source = origins[1] /\ Source' = origins[2] /\ Target' = origins[1] /\ Vars' = Vars
    BY <2>1 DEF Source, Target, Vars, given
  <2>3. bestCost <= Price(origins[1]) /\ bestCost = Price(best)
    BY <2>1, <2>2 DEF CostInv, WalkInv
  <2>4. origins[2] \in Space /\ Price(origins[2]) \in Int
    BY <2>1, EndsAreVectors, PriceIsInt DEF SearchInv, VectorInv
  <2>5. Differing(Source, Target)' = Differing(origins[2], origins[1])
    BY <2>2 DEF Differing
  <2>6. Cardinality(Differing(origins[2], origins[1])) <= MaxRelink =>
          \A v \in Vars \ left' : origins[2][v] = origins[1][v]
    BY <2>1, WholeDifference
  <2>7. WalkInv'
    BY <2>1, <2>2, <2>3, <2>4, <2>5, <2>6, SamePrices DEF WalkInv
  <2> QED BY <2>1, <2>4, <2>7, SamePrices DEF CostInv, ils, Relinks
<1>10. CASE EndWalk
  <2>1. /\ step = "walk" /\ step' # "walk" /\ best' = Winner /\ bestCost' = Price(Winner)
        /\ UNCHANGED <<given, task, ils, cheapest>>
        /\ step' = "descent" => benefit' = Price(Winner)
    BY <1>10 DEF EndWalk, Begin, vndVars
  <2>2. Winner \in Space
    BY <2>1 DEF CostInv, Winner, SearchInv, VectorInv
  <2>3. task \in Relinks
    BY <2>1 DEF CostInv
  <2>4. Price(Winner) \in Int
    BY <2>2, PriceIsInt DEF SearchInv, VectorInv
  <2> QED BY <2>1, <2>2, <2>3, <2>4, SamePrices DEF CostInv, Relinks
<1>11. CASE TakeDescent
  <2>1. /\ best' = sol /\ bestCost' = Price(sol) /\ step' = "over" /\ task # "ils"
        /\ UNCHANGED <<given, task>>
    BY <1>11 DEF TakeDescent
  <2> QED BY <1>1, <2>1, SamePrices DEF CostInv
<1>12. CASE Expire \/ UNCHANGED vars
  <2>1. UNCHANGED <<given, benefit, task, step, origins, ils, incumbent, walk, cheapest>>
    BY <1>12 DEF Expire, DeadlinePasses, vars, vndVars, working
  <2>2. Source' = Source /\ Target' = Target /\ Vars' = Vars
    BY <2>1 DEF Source, Target, Vars, given, walk
  <2>3. Differing(Source, Target)' = Differing(Source, Target)
    BY <2>2 DEF Differing
  <2>4. WalkInv => WalkInv'
    BY <2>1, <2>2, <2>3, SamePrices DEF WalkInv, walk, incumbent
  <2> QED BY <2>1, <2>4, SamePrices DEF CostInv, ils, incumbent
<1> QED BY <1>2, <1>3, <1>4, <1>5, <1>6, <1>7, <1>8, <1>9, <1>10, <1>11, <1>12 DEF Next, Work

\* From that, what a search returns is no worse.
LEMMA ReturnsNoWorse ==
  ASSUME SearchInv, CostInv, Next
  PROVE  WalkReturns /\ DescentReturns /\ IlsReturns
<1>1. SearchInv'
  BY SearchStep
<1>2. ASSUME step = "walk", step' # "walk" PROVE WalkReturns
  <2>1. EndWalk
    BY <1>2 DEF Next, Work, Descend, IlsPerturb, IlsAccept, IlsEnd, WalkStep, ExamineMove,
                MakeMove, TurnBack, BeginWalk, TakeDescent, Expire
  <2>2. best' = Winner /\ bestCost' = Price(Winner) /\ WalkOver
    BY <2>1 DEF EndWalk
  <2>3. WalkInv /\ bestCost = Price(best) /\ best \in Space /\ path \in Space
    BY <1>2 DEF CostInv, Relinks, SearchInv, VectorInv
  <2>4. /\ Price(best) \in Int /\ Price(Source) \in Int /\ Price(Target) \in Int
        /\ Price(path) \in Int /\ Price(origins[1]) \in Int
    BY <1>2, <2>3, EndsAreVectors, PriceIsInt DEF SearchInv, VectorInv
  <2>5. task = "bidirectional" /\ leg.reversed => leg.sol \in Space /\ Price(leg.sol) \in Int
    BY <1>2, PriceIsInt DEF SearchInv, VectorInv
  <2>6. Price(Winner) <= Price(best)
    BY <2>3, <2>4, <2>5 DEF Winner, WalkInv
  <2>7. Price(Winner) <= Price(Source)
    BY <2>3, <2>4, <2>5, <2>6 DEF Winner, WalkInv
  <2>8. task = "bidirectional" => Price(Winner) <= Price(origins[1])
    BY <2>3, <2>4, <2>5, <2>6, <2>7 DEF Winner, WalkInv, Source
  <2>9. ASSUME WholeWalk, task # "best" PROVE Price(Winner) <= Price(Target)
    <3>1. \A v \in Vars : path[v] = Target[v]
      BY <2>3, <2>9 DEF WholeWalk, WalkInv
    <3>2. path = Target
      BY <1>2, <2>3, <3>1, ArrivedAtTarget, EndsAreVectors
    <3>3. bestCost <= Price(Target)
      BY <2>3, <3>2 DEF WalkInv
    <3> QED BY <2>3, <2>4, <2>5, <2>6, <3>3 DEF Winner
  <2> QED BY <2>2, <2>7, <2>8, <2>9 DEF WalkReturns
<1>3. ASSUME step = "descent", step' = "over" PROVE DescentReturns
  <2>1. TakeDescent
    BY <1>3 DEF Next, Work, Descend, IlsPerturb, IlsAccept, IlsEnd, WalkStep, ExamineMove,
                MakeMove, TurnBack, BeginWalk, EndWalk, Expire
  <2>2. best' = sol /\ bestCost' = Price(sol) /\ stage = "done" /\ task # "ils"
    BY <2>1 DEF TakeDescent
  <2>3. Price(sol) = benefit
    BY <2>2 DEF SearchInv, WorkingVectorIntact
  <2> QED BY <1>3, <2>2, <2>3 DEF CostInv, DescentReturns
<1>4. ASSUME step = "loop", step' = "over" PROVE IlsReturns
  <2>1. IlsEnd
    BY <1>4 DEF Next, Work, Descend, IlsPerturb, IlsAccept, WalkStep, ExamineMove,
                MakeMove, TurnBack, BeginWalk, EndWalk, TakeDescent, Expire
  <2>2. task = "ils" /\ best' = best /\ bestCost' = bestCost
    BY <2>1 DEF IlsEnd, incumbent
  <2> QED BY <2>2 DEF CostInv, IlsReturns
<1> QED BY <1>2, <1>3, <1>4 DEF WalkReturns, DescentReturns, IlsReturns

(* No search returns anything dearer than it was given, for every layout,   *)
(* objective and deadline: neither a walk, with its ends, nor a descent,    *)
(* nor ILS, which may accept worse solutions on its way (core/pr.py,        *)
(* core/vnd/, core/ils.py).                                                 *)
THEOREM NoSearchReturnsWorse == SearchSpec => NeverWorse
<1>1. SearchInv /\ CostInv /\ [Next]_vars => SearchInv' /\ CostInv'
  BY SearchStep, CostStep
<1>2. SearchInv /\ CostInv /\ [Next]_vars =>
        [WalkReturns /\ DescentReturns /\ IlsReturns]_vars
  BY ReturnsNoWorse
<1> QED BY SearchBegins, CostBegins, <1>1, <1>2, PTL DEF SearchSpec, NeverWorse

-----------------------------------------------------------------------------
(* The deadline.                                                           *)

Bound == Max({3 * DeadlineStride + 1, RelinkStride + 2})

\* A sweep has priced at most three levels for each variable since it looked
\* at the clock, a walk one point for each coordinate.
ClockInv ==
  /\ mode \in Mode /\ expired \in BOOLEAN /\ late \in Nat
  /\ mode.adaptive => late = 0
  /\ late <= Bound
  /\ step = "descent" => late < Bound
  /\ step = "descent" /\ stage \in {"integers", "continuous"} =>
       /\ count \in Nat /\ late <= 3 * DeadlineStride
       /\ ~Looks => late <= 3 * (count % DeadlineStride)
  /\ step = "walk" =>
       /\ looked \in Nat /\ late <= RelinkStride
       /\ ~WalkLooks => late <= looked % RelinkStride

\* The bound is above what a sweep and a walk count.
LEMMA BoundIsGreatest ==
  /\ Bound \in Nat /\ 3 * DeadlineStride < Bound /\ RelinkStride + 1 < Bound
  /\ DeadlineStride \in Nat \ {0} /\ RelinkStride \in Nat \ {0}
<1> DEFINE S == {3 * DeadlineStride + 1, RelinkStride + 2}
<1>1. DeadlineStride \in Nat \ {0} /\ RelinkStride \in Nat \ {0}
  BY DescentAssumption, SearchAssumption
<1>2. \E x \in S : \A y \in S : x >= y
  BY <1>1
<1>3. Bound \in S /\ \A y \in S : Bound >= y
  BY <1>2 DEF Bound, Max
<1> QED BY <1>1, <1>3

\* The remainder of the next number.
LEMMA NextRemainder ==
  ASSUME NEW d \in Nat \ {0}, NEW n \in Nat
  PROVE  /\ n % d \in 0..(d - 1)
         /\ (n + 1) % d = 0 \/ (n + 1) % d = (n % d) + 1
OBVIOUS

\* A loop that looks at the clock every d steps, and makes up to w prices in
\* each, has made at most w for each step since it last looked.
LEMMA CountWithinStride ==
  ASSUME NEW d \in Nat \ {0}, NEW n \in Nat, NEW w \in {1, 3}, NEW k \in 0..w,
         NEW l \in Nat, n % d # 0 => l <= w * (n % d),
         NEW m \in Nat, m <= k + (IF n % d = 0 THEN 0 ELSE l)
  PROVE  m <= w * d /\ ((n + 1) % d # 0 => m <= w * ((n + 1) % d))
<1> DEFINE a == n % d
           b == (n + 1) % d
<1>1. a \in 0..(d - 1) /\ b \in 0..(d - 1)
  OBVIOUS
<1>2. b = 0 \/ b = a + 1
  BY NextRemainder
<1>3. (a # 0 => l <= w * a) /\ m <= k + (IF a = 0 THEN 0 ELSE l)
  OBVIOUS
<1> HIDE DEF a, b
<1>4. w = 1 => m <= w * d /\ (b # 0 => m <= w * b)
  BY <1>1, <1>2, <1>3
<1>5. w = 3 => m <= w * d /\ (b # 0 => m <= w * b)
  BY <1>1, <1>2, <1>3
<1>6. m <= w * d /\ (b # 0 => m <= w * b)
  BY <1>4, <1>5
<1> QED BY <1>6 DEF a, b

\* At most three levels of an integer variable are tried.
LEMMA TriedAtMostThree ==
  ASSUME SearchInv, NEW i \in Vars
  PROVE  Cardinality(Tried(i)) \in 0..3
<1> DEFINE a == sol[i]
           S == (a - 1)..(a + 1)
<1>1. a \in Int
  BY DescentAssumption DEF SearchInv, VectorInv, Space
<1>2. Tried(i) \subseteq S
  BY DEF Tried
<1> HIDE DEF a
<1>3. a - 1 \in Int /\ a + 1 \in Int /\ ~(a - 1 > a + 1) /\ (a + 1) - (a - 1) + 1 = 3
  BY <1>1
<1>4. IsFiniteSet(S) /\ Cardinality(S) = 3
  BY <1>3, FS_Interval
<1>5. IsFiniteSet(Tried(i)) /\ Cardinality(Tried(i)) <= Cardinality(S)
  BY <1>2, <1>4, FS_Subset
<1>6. Cardinality(Tried(i)) \in Nat
  BY <1>5, FS_CardinalityType
<1> QED BY <1>4, <1>5, <1>6

\* A search begins with the price of what it is given.
LEMMA ClockBegins == SearchInit => ClockInv
<1> SUFFICES ASSUME SearchInit PROVE ClockInv
  OBVIOUS
<1>1. mode \in Mode
  BY SearchAssumption DEF SearchInit
<1>2. /\ expired = FALSE /\ late \in {0, 1} /\ (mode.adaptive => late = 0)
      /\ count = 0 /\ looked = 0 /\ stage \in {"round", "idle"}
  BY DEF SearchInit
<1>3. \A d \in Nat \ {0} : 0 % d = 0
  OBVIOUS
<1>4. WalkLooks
  BY <1>2, <1>3, SearchAssumption DEF WalkLooks
<1>5. late \in Nat /\ late <= 1
  BY <1>2
<1>6. late < Bound /\ late <= Bound /\ late <= RelinkStride
  BY <1>5, BoundIsGreatest
<1>7. expired \in BOOLEAN /\ stage \notin {"integers", "continuous"}
  BY <1>2
<1> QED BY <1>1, <1>2, <1>4, <1>5, <1>6, <1>7 DEF ClockInv

\* A step outside the sweeps and walks, or at their beginning.
LEMMA ClockKept ==
  ASSUME ClockInv, UNCHANGED mode, expired' \in BOOLEAN, late' \in Nat,
         mode.adaptive => late' = 0, late' <= Bound,
         step' = "descent" => late' < Bound,
         step' = "descent" /\ stage' \in {"integers", "continuous"} =>
           \/ count' = 0 /\ late' <= 3 * DeadlineStride
           \/ step = "descent" /\ stage = stage' /\ count' = count /\ late' = late,
         step' = "walk" =>
           \/ looked' = 0 /\ late' <= RelinkStride
           \/ step = "walk" /\ looked' = looked /\ late' = late
  PROVE  ClockInv'
<1>1. \A d \in Nat \ {0} : 0 % d = 0
  OBVIOUS
<1>2. 0 % RelinkStride = 0 /\ 0 % DeadlineStride = 0
  BY <1>1, BoundIsGreatest
<1>4. looked' = 0 => WalkLooks'
  BY <1>2 DEF WalkLooks
<1>5. count' = 0 => Looks'
  BY <1>2 DEF Looks
<1>6. looked' = looked => WalkLooks' = WalkLooks
  BY DEF WalkLooks
<1>7. count' = count => Looks' = Looks
  BY DEF Looks
<1> QED BY <1>4, <1>5, <1>6, <1>7 DEF ClockInv, Bound

\* Every step keeps the count of prices since the last look at the clock.
LEMMA ClockStep ==
  ASSUME SearchInv, ClockInv, [Next]_vars
  PROVE  ClockInv'
<1>0. /\ mode \in Mode /\ expired \in BOOLEAN /\ late \in Nat /\ late <= Bound
      /\ mode.adaptive => late = 0
  BY DEF ClockInv
<1>1. CASE Descend
  <2>0. /\ step = "descent" /\ step' = "descent" /\ mode' = mode /\ expired' = expired
        /\ late < Bound
    BY <1>1 DEF Descend, DescentNext, given, EndRounds, StartRound, GiveUp, FailRound, Enter,
         Improve, TryNext, SweepInteger, SweepContinuous, EndIntegers, EndContinuous,
         EndAttempts, Attempt, FailAttempt, ClockInv
  <2>1. ASSUME NEW k \in 0..3, stage \in {"integers", "continuous"}, late' = Counted(Looks, k),
               \/ stage' = stage /\ count' = count + 1
               \/ stage' = "continuous" /\ count' = 0
               \/ stage' = "return"
        PROVE  ClockInv'
    <3>1. /\ count \in Nat /\ late <= 3 * DeadlineStride
          /\ ~Looks => late <= 3 * (count % DeadlineStride)
      BY <2>0, <2>1 DEF ClockInv
    <3>2. /\ late' \in Nat /\ (mode.adaptive => late' = 0)
          /\ late' <= k + (IF count % DeadlineStride = 0 THEN 0 ELSE late)
      BY <1>0, <2>1 DEF Counted, Looks
    <3>3. /\ late' <= 3 * DeadlineStride
          /\ (count + 1) % DeadlineStride # 0 => late' <= 3 * ((count + 1) % DeadlineStride)
      BY <1>0, <3>1, <3>2, BoundIsGreatest, CountWithinStride DEF Looks
    <3>5. late' < Bound
      BY <3>2, <3>3, BoundIsGreatest
    <3>6. CASE stage' = stage /\ count' = count + 1
      BY <1>0, <2>0, <2>1, <3>1, <3>2, <3>3, <3>5, <3>6, BoundIsGreatest DEF ClockInv, Looks, Bound
    <3>7. CASE stage' = "return" \/ count' = 0
      BY <1>0, <2>0, <2>1, <3>2, <3>3, <3>5, <3>7, BoundIsGreatest, ClockKept
    <3> QED BY <2>1, <3>6, <3>7
  <2>2. ASSUME NEW i \in Vars, SweepInteger(i) \/ SweepContinuous(i) PROVE ClockInv'
    <3>1. Cardinality(Tried(i)) \in 0..3
      BY TriedAtMostThree
    <3>2. \/ late' = Counted(Looks, Cardinality(Tried(i)))
          \/ late' = Counted(Looks, 1)
      BY <2>2 DEF SweepInteger, SweepContinuous
    <3>3. /\ stage \in {"integers", "continuous"}
          /\ \/ stage' = stage /\ count' = count + 1
             \/ stage' = "continuous" /\ count' = 0
             \/ stage' = "return"
      BY <2>2 DEF SweepInteger, SweepContinuous, ToContinuous
    <3> QED BY <2>1, <3>1, <3>2, <3>3
  <2>3. CASE Attempt
    <3>1. stage' \notin {"integers", "continuous"} /\ late' = Counted(TRUE, 1)
      BY <2>3 DEF Attempt
    <3>2. late' \in Nat /\ (mode.adaptive => late' = 0) /\ late' <= 1
      BY <1>0, <3>1 DEF Counted
    <3>3. late' <= Bound /\ late' < Bound
      BY <3>2, BoundIsGreatest
    <3> QED BY <1>0, <2>0, <3>1, <3>2, <3>3, ClockKept
  <2>4. CASE StartRound \/ Enter
    <3>1. late' = Counted(TRUE, 0) /\ (stage' \in {"integers", "continuous"} => count' = 0)
      BY <2>4 DEF StartRound, Enter
    <3>2. late' = 0
      BY <1>0, <3>1 DEF Counted
    <3>3. late' \in Nat /\ late' <= Bound /\ late' < Bound /\ late' <= 3 * DeadlineStride
      BY <3>2, BoundIsGreatest
    <3> QED BY <1>0, <2>0, <3>1, <3>2, <3>3, ClockKept
  <2>5. CASE \/ EndRounds \/ GiveUp \/ Improve \/ TryNext \/ EndIntegers \/ EndContinuous
             \/ EndAttempts \/ FailAttempt
    <3>1. late' = late
      BY <2>5 DEF EndRounds, GiveUp, FailRound, Improve, TryNext, EndIntegers, EndContinuous,
           EndAttempts, FailAttempt
    <3>2. stage' \in {"integers", "continuous"} => count' = 0 /\ stage = "integers"
      BY <2>5 DEF EndRounds, GiveUp, FailRound, Improve, TryNext, EndIntegers, EndContinuous,
           EndAttempts, FailAttempt, ToContinuous
    <3>3. stage = "integers" => late <= 3 * DeadlineStride
      BY <2>0 DEF ClockInv
    <3> QED BY <1>0, <2>0, <3>1, <3>2, <3>3, ClockKept
  <2> QED BY <1>1, <2>2, <2>3, <2>4, <2>5 DEF Descend, DescentNext
<1>2. CASE \E v \in Vars : WalkStep(v) \/ ExamineMove(v)
  <2>1. /\ step = "walk" /\ step' = "walk" /\ mode' = mode /\ expired' = expired
        /\ late' = Counted(WalkLooks, 1) /\ looked' = looked + 1
    BY <1>2 DEF WalkStep, ExamineMove, given
  <2>2. /\ looked \in Nat /\ late <= RelinkStride
        /\ ~WalkLooks => late <= looked % RelinkStride
    BY <2>1 DEF ClockInv
  <2>3. /\ late' \in Nat /\ (mode.adaptive => late' = 0)
        /\ late' <= 1 + (IF WalkLooks THEN 0 ELSE late)
    BY <1>0, <2>1 DEF WalkLooks, Counted
  <2>4. 1 \in 0..1 /\ (looked % RelinkStride # 0 => late <= 1 * (looked % RelinkStride))
    BY <1>0, <2>2, BoundIsGreatest, NextRemainder DEF WalkLooks
  <2>5. /\ late' <= 1 * RelinkStride
        /\ (looked + 1) % RelinkStride # 0 => late' <= 1 * ((looked + 1) % RelinkStride)
    BY <1>0, <2>2, <2>3, <2>4, BoundIsGreatest, CountWithinStride DEF WalkLooks
  <2>6. /\ late' <= RelinkStride /\ late' < Bound
        /\ (looked + 1) % RelinkStride # 0 => late' <= (looked + 1) % RelinkStride
    BY <2>2, <2>3, <2>5, BoundIsGreatest, NextRemainder
  <2> QED BY <1>0, <2>1, <2>2, <2>3, <2>6, BoundIsGreatest DEF ClockInv, WalkLooks, Bound
<1>3. CASE IlsPerturb \/ TurnBack
  <2>1. /\ mode' = mode /\ expired' = expired /\ late' = Counted(TRUE, 1)
        /\ step' = "descent" => stage' = "round"
        /\ step' = "walk" => looked' = 0
    BY <1>3 DEF IlsPerturb, TurnBack, BeginWalk, Begin, given
  <2>2. late' \in Nat /\ (mode.adaptive => late' = 0) /\ late' <= 1
    BY <1>0, <2>1 DEF Counted
  <2>3. late' <= Bound /\ late' < Bound /\ late' <= RelinkStride
    BY <2>2, BoundIsGreatest
  <2> QED BY <1>0, <2>1, <2>2, <2>3, ClockKept
<1>4. CASE IlsAccept \/ TakeDescent \/ (EndWalk /\ task # "best")
  <2>1. /\ mode' = mode /\ expired' = expired /\ late' = Counted(FALSE, 1)
        /\ (step' = "descent" => stage' = "round" /\ step = "walk")
        /\ step' # "walk" /\ step \in {"descent", "walk"}
    BY <1>4 DEF IlsAccept, TakeDescent, EndWalk, Begin, given
  <2>2. late' \in Nat /\ (mode.adaptive => late' = 0) /\ late' <= 1 + late
    BY <1>0, <2>1 DEF Counted
  <2>3. (step = "descent" => late < Bound) /\ (step = "walk" => late <= RelinkStride)
    BY DEF ClockInv
  <2>4. late' <= Bound /\ (step' = "descent" => late' < Bound)
    <3>1. late \in Nat /\ late' \in Nat /\ late' <= 1 + late
      BY <1>0, <2>2
    <3>2. late < Bound => late' <= Bound
      BY <3>1, BoundIsGreatest
    <3>3. late <= RelinkStride => late' < Bound /\ late' <= Bound
      BY <3>1, BoundIsGreatest
    <3> QED BY <2>1, <2>3, <3>2, <3>3
  <2> QED BY <1>0, <2>1, <2>2, <2>4, ClockKept
<1>5. CASE IlsEnd \/ MakeMove \/ (EndWalk /\ task = "best")
  <2>1. /\ mode' = mode /\ expired' = expired /\ late' = late /\ step' # "descent"
        /\ step' = "walk" => looked' = 0 /\ step = "walk"
    BY <1>5 DEF IlsEnd, MakeMove, EndWalk, vndVars, given
  <2>2. step = "walk" => late <= RelinkStride
    BY DEF ClockInv
  <2> QED BY <1>0, <2>1, <2>2, ClockKept
<1>6. CASE Expire \/ UNCHANGED vars
  <2>1. UNCHANGED <<mode, late, stage, count, step, looked>>
    BY <1>6 DEF Expire, DeadlinePasses, vars, vndVars, given, walk
  <2>2. expired' \in BOOLEAN
    BY <1>0, <1>6 DEF Expire, DeadlinePasses, vars, vndVars
  <2>3. step = "descent" => late < Bound
    BY DEF ClockInv
  <2> QED BY <1>0, <2>1, <2>2, <2>3, ClockKept
<1> QED BY <1>1, <1>2, <1>3, <1>4, <1>5, <1>6 DEF Next, Work

(* Whenever the deadline passes, a search makes at most as many prices more *)
(* as three for each variable of a stride, and the result's, or one for     *)
(* each coordinate of a walk's stride, and two (vnd/flip.py, vnd/moves.py,  *)
(* core/pr.py, core/ils.py).                                                *)
THEOREM LateSearchAlwaysBounded == SearchSpec => []LateSearchBounded
<1>1. SearchInv /\ ClockInv /\ [Next]_vars => SearchInv' /\ ClockInv'
  BY SearchStep, ClockStep
<1>2. ClockInv => LateSearchBounded
  BY DEF ClockInv, LateSearchBounded, Bound
<1> QED BY SearchBegins, ClockBegins, <1>1, <1>2, PTL DEF SearchSpec

-----------------------------------------------------------------------------
(* The rounds and the box.                                                 *)

\* Rounds and sweeps end.
RoundInv ==
  /\ mode \in Mode /\ stage \in Stages /\ todo \subseteq Vars
  /\ count \in 0..(shape.n + MaxAttempts)
  /\ stage = "attempts" => count <= MaxAttempts
  /\ stage \in {"integers", "continuous"} => count + Cardinality(todo) <= shape.n
  /\ iteration \in 0..MaxIterations /\ idle \in 0..NoImproveLimit
  /\ stage \in {"enter", "integers", "continuous", "attempts", "return"} =>
       idle < NoImproveLimit

\* The variables of a layout and its integer ones.
LEMMA Layout ==
  ASSUME shape \in Shapes
  PROVE  /\ shape.n \in Nat /\ shape.half \in Nat /\ shape.half <= shape.n
         /\ IsFiniteSet(Vars) /\ Integral \subseteq Vars /\ Continuous \subseteq Vars
         /\ Cardinality(Integral) <= shape.n /\ Cardinality(Continuous) <= shape.n
<1>1. shape.n \in Nat /\ shape.half \in Nat /\ shape.half <= shape.n /\ 1 <= shape.n
  BY DescentAssumption DEF Shape
<1>2. IsFiniteSet(Vars) /\ Cardinality(Vars) = shape.n
  BY <1>1, FS_Interval DEF Vars
<1>3. Integral \subseteq Vars /\ Continuous \subseteq Vars
  BY <1>1 DEF Integral, Continuous, Vars
<1> QED BY <1>1, <1>2, <1>3, FS_Subset

\* A sweep that has a variable left has one step left for it.
LEMMA SweepShrinks ==
  ASSUME shape \in Shapes, todo \subseteq Vars, NEW i \in todo, count \in Nat,
         count + Cardinality(todo) <= shape.n
  PROVE  count + 1 + Cardinality(todo \ {i}) <= shape.n /\ count + 1 <= shape.n
<1>1. IsFiniteSet(todo)
  BY Layout, FS_Subset
<1>2. Cardinality(todo \ {i}) = Cardinality(todo) - 1 /\ IsFiniteSet(todo \ {i})
  BY <1>1, FS_RemoveElement
<1>3. Cardinality(todo \ {i}) \in Nat /\ Cardinality(todo) \in Nat
  BY <1>1, <1>2, FS_CardinalityType
<1>4. shape.n \in Nat
  BY Layout
<1> QED BY <1>2, <1>3, <1>4

\* A search begins with its sweeps before it.
LEMMA RoundBegins == SearchInit => RoundInv
<1> SUFFICES ASSUME SearchInit PROVE RoundInv
  OBVIOUS
<1>1. mode \in Mode /\ shape \in Shapes
  BY SearchAssumption DEF SearchInit
<1>2. shape.n \in Nat /\ MaxAttempts \in Nat /\ NoImproveLimit \in Nat /\ MaxIterations \in Nat
  BY <1>1, Layout, DescentAssumption
<1>3. /\ stage \in {"round", "idle"} /\ todo = {} /\ count = 0 /\ iteration = 0 /\ idle = 0
  BY DEF SearchInit
<1>4. /\ count \in 0..(shape.n + MaxAttempts) /\ iteration \in 0..MaxIterations
      /\ idle \in 0..NoImproveLimit
  BY <1>2, <1>3
<1>5. todo \subseteq Vars /\ stage \in Stages
  BY <1>3 DEF Stages
<1> QED BY <1>1, <1>3, <1>4, <1>5 DEF RoundInv

\* Where a descent begins.
LEMMA RoundRestarts ==
  ASSUME RoundInv, shape \in Shapes, NEW s, Begin(s), UNCHANGED given
  PROVE  RoundInv'
<1>1. shape.n \in Nat /\ MaxAttempts \in Nat /\ NoImproveLimit \in Nat /\ MaxIterations \in Nat
  BY Layout, DescentAssumption
<1>2. stage' = "round" /\ todo' = {} /\ count' = 0 /\ iteration' = 0 /\ idle' = 0
  BY DEF Begin
<1>3. shape' = shape /\ mode' = mode
  BY DEF given
<1> QED BY <1>1, <1>2, <1>3 DEF RoundInv, Stages

\* A step that leaves stage and counters alone keeps them within their bounds.
LEMMA RoundKept ==
  ASSUME RoundInv, UNCHANGED <<given, stage, todo, count, rounds>>
  PROVE  RoundInv'
<1>1. Vars' = Vars /\ shape' = shape /\ mode' = mode
  BY DEF Vars, given
<1> QED BY <1>1 DEF RoundInv, rounds

\* Every step keeps the counters within their bounds.
LEMMA RoundStep ==
  ASSUME SearchInv, RoundInv, [Next]_vars
  PROVE  RoundInv'
<1>0. /\ shape \in Shapes
      /\ shape.n \in Nat /\ MaxAttempts \in Nat \ {0} /\ NoImproveLimit \in Nat \ {0}
      /\ MaxIterations \in Nat
  BY Layout, DescentAssumption DEF SearchInv, VectorInv
<1>1. CASE Descend
  <2>0. /\ shape' = shape /\ mode' = mode /\ Vars' = Vars
    BY <1>1 DEF Descend, DescentNext, given, EndRounds, StartRound, GiveUp, FailRound, Enter,
         Improve, TryNext, SweepInteger, SweepContinuous, EndIntegers, EndContinuous,
         EndAttempts, Attempt, FailAttempt, Vars
  <2>1. CASE EndRounds \/ StartRound
    <3>1. /\ stage = "round" /\ UNCHANGED <<todo, count, idle>>
          /\ \/ stage' = "done" /\ iteration' = iteration
             \/ /\ stage' = "enter" /\ iteration' = iteration + 1
                /\ iteration < MaxIterations /\ idle < NoImproveLimit
      BY <2>1 DEF EndRounds, StartRound, rounds
    <3> QED BY <1>0, <2>0, <3>1 DEF RoundInv, Stages
  <2>2. CASE GiveUp \/ TryNext
    <3>1. /\ stage \in {"enter", "return"} /\ UNCHANGED <<todo, count, iteration>>
          /\ \/ stage' = "round" /\ idle' = idle + 1
             \/ stage' = "enter" /\ idle' = idle
      BY <2>2 DEF GiveUp, TryNext, FailRound, rounds
    <3> QED BY <1>0, <2>0, <3>1 DEF RoundInv, Stages
  <2>3. CASE Enter
    <3>1. /\ stage = "enter" /\ stage' \in {"integers", "return", "attempts"} /\ count' = 0
          /\ stage' = "integers" => todo' = Integral
          /\ todo' \in {Integral, {}} /\ UNCHANGED <<iteration, idle>>
      BY <2>3 DEF Enter, rounds
    <3>2. Integral \subseteq Vars /\ Cardinality(Integral) <= shape.n
      BY <1>0, Layout
    <3>3. Cardinality(Integral) \in Nat
      BY <1>0, Layout, FS_Subset, FS_CardinalityType
    <3> QED BY <1>0, <2>0, <3>1, <3>2, <3>3 DEF RoundInv, Stages
  <2>4. CASE Improve
    <3>1. /\ stage' = "round" /\ idle' = 0 /\ UNCHANGED <<todo, count, iteration>>
      BY <2>4 DEF Improve
    <3> QED BY <1>0, <2>0, <3>1 DEF RoundInv, Stages
  <2>5. ASSUME NEW i \in Vars, SweepInteger(i) \/ SweepContinuous(i) PROVE RoundInv'
    <3>1. /\ stage \in {"integers", "continuous"} /\ i \in todo
          /\ UNCHANGED <<iteration, idle>>
          /\ \/ stage' = stage /\ todo' = todo \ {i} /\ count' = count + 1
             \/ stage' = "continuous" /\ todo' = Continuous /\ count' = 0
             \/ stage' = "return" /\ todo' = todo /\ count' = count
      BY <2>5 DEF SweepInteger, SweepContinuous, ToContinuous, rounds
    <3>2. count \in Nat /\ count + Cardinality(todo) <= shape.n /\ todo \subseteq Vars
          /\ idle < NoImproveLimit
      BY <1>0, <3>1 DEF RoundInv
    <3>3. count + 1 + Cardinality(todo \ {i}) <= shape.n /\ count + 1 <= shape.n
      BY <1>0, <3>1, <3>2, SweepShrinks
    <3>4. Continuous \subseteq Vars /\ Cardinality(Continuous) <= shape.n
      BY <1>0, Layout
    <3>5. Cardinality(Continuous) \in Nat
      BY <1>0, Layout, FS_Subset, FS_CardinalityType
    <3>6. CASE stage' = stage /\ todo' = todo \ {i} /\ count' = count + 1
      BY <1>0, <2>0, <3>1, <3>2, <3>3, <3>6 DEF RoundInv
    <3>7. CASE stage' = "continuous" /\ todo' = Continuous /\ count' = 0
      BY <1>0, <2>0, <3>1, <3>2, <3>4, <3>5, <3>7 DEF RoundInv, Stages
    <3>8. CASE stage' = "return" /\ todo' = todo /\ count' = count
      BY <1>0, <2>0, <3>1, <3>2, <3>8 DEF RoundInv, Stages
    <3> QED BY <3>1, <3>6, <3>7, <3>8
  <2>6. CASE EndIntegers \/ EndContinuous \/ EndAttempts \/ FailAttempt
    <3>1. /\ stage \in {"integers", "continuous", "attempts"} /\ UNCHANGED <<iteration, idle>>
          /\ \/ stage' = "continuous" /\ todo' = Continuous /\ count' = 0
             \/ stage' \in {"return", "failed"} /\ todo' = todo /\ count' = count
      BY <2>6 DEF EndIntegers, EndContinuous, EndAttempts, FailAttempt, ToContinuous, rounds
    <3>2. Continuous \subseteq Vars /\ Cardinality(Continuous) <= shape.n
      BY <1>0, Layout
    <3>3. Cardinality(Continuous) \in Nat
      BY <1>0, Layout, FS_Subset, FS_CardinalityType
    <3> QED BY <1>0, <2>0, <3>1, <3>2, <3>3 DEF RoundInv, Stages
  <2>7. CASE Attempt
    <3>1. /\ stage = "attempts" /\ stage' \in {"attempts", "return"}
          /\ count < MaxAttempts /\ count' = count + 1 /\ UNCHANGED <<todo, iteration, idle>>
      BY <2>7 DEF Attempt, rounds
    <3>2. count \in Nat /\ idle < NoImproveLimit
      BY <1>0, <3>1 DEF RoundInv
    <3>3. count' \in 0..(shape.n + MaxAttempts) /\ count' <= MaxAttempts
      BY <1>0, <3>1, <3>2
    <3> QED BY <1>0, <2>0, <3>1, <3>2, <3>3 DEF RoundInv, Stages
  <2> QED BY <1>1, <2>1, <2>2, <2>3, <2>4, <2>5, <2>6, <2>7 DEF Descend, DescentNext
<1>2. CASE IlsPerturb
  <2>1. PICK t : Begin(t)
    BY <1>2 DEF IlsPerturb
  <2> QED BY <1>0, <1>2, <2>1, RoundRestarts DEF IlsPerturb
<1>3. CASE EndWalk /\ task # "best"
  <2>1. Begin(Winner) /\ UNCHANGED given
    BY <1>3 DEF EndWalk
  <2> QED BY <1>0, <2>1, RoundRestarts
<1>4. CASE \/ IlsAccept \/ IlsEnd \/ MakeMove \/ TurnBack \/ TakeDescent \/ UNCHANGED vars
           \/ (EndWalk /\ task = "best")
  <2>1. UNCHANGED <<given, stage, todo, count, rounds>>
    BY <1>4 DEF IlsAccept, IlsEnd, MakeMove, TurnBack, EndWalk, TakeDescent, vars, vndVars
  <2> QED BY <2>1, RoundKept
<1>5. CASE Expire \/ \E v \in Vars : WalkStep(v) \/ ExamineMove(v)
  <2>1. UNCHANGED <<given, stage, todo, count, rounds>>
    BY <1>5 DEF Expire, DeadlinePasses, WalkStep, ExamineMove
  <2> QED BY <2>1, RoundKept
<1> QED BY <1>1, <1>2, <1>3, <1>4, <1>5 DEF Next, Work

\* What a search with bounds handles stays in the box.
BoxInv ==
  /\ ilsIter \in Nat
  /\ {sol, bestSol, cur} \subseteq Given
  /\ step = "walk" =>
       /\ {path, best} \subseteq Given /\ origins \in Given \X Given
       /\ task = "bidirectional" /\ leg.reversed => leg.sol \in Given

\* A point given has levels, in the box when the search is bounded.
LEMMA GivenPoints ==
  ASSUME NEW s
  PROVE  s \in Given <=> s \in Space /\ (mode.bounded => \A v \in Vars : s[v] \in Lower..Upper)
<1>1. Lower..Upper \subseteq Values
  BY DescentAssumption
<1>2. CASE mode.bounded
  BY <1>1, <1>2 DEF Given, Box, Space
<1>3. CASE ~mode.bounded
  BY <1>3 DEF Given
<1> QED BY <1>2, <1>3

\* A clipped level is between the bounds.
LEMMA ClipStaysInside == ASSUME NEW v \in Int PROVE Clip(v) \in Lower..Upper
<1>1. Lower \in Int /\ Upper \in Int /\ Lower <= Upper
  BY DescentAssumption
<1> QED BY <1>1 DEF Clip

\* A flip of a bounded search stays between the bounds.
LEMMA MovesStayInside ==
  ASSUME mode.bounded, NEW v \in Int
  PROVE  /\ ContinuousMoves(v) \subseteq Lower..Upper
         /\ \A n \in Int : Reach(v, n) \subseteq Lower..Upper
<1>1. ASSUME NEW n \in Int PROVE Reach(v, n) \subseteq Lower..Upper
  <2>1. \A d \in (-n)..n : v + d \in Int
    OBVIOUS
  <2> QED BY <2>1, ClipStaysInside DEF Reach
<1> QED BY <1>1 DEF ContinuousMoves

\* Moving one coordinate to a level allowed leaves a point allowed.
LEMMA MovedStaysGiven ==
  ASSUME NEW s \in Given, NEW v, NEW w \in Values, mode.bounded => w \in Lower..Upper
  PROVE  [s EXCEPT ![v] = w] \in Given
BY GivenPoints DEF Space

\* Moving several coordinates does so too.
LEMMA PerturbedStaysGiven ==
  ASSUME NEW s \in Given, NEW cs, NEW is
  PROVE  Perturbed(s, cs, is) \subseteq Given
<1> SUFFICES ASSUME NEW t \in Perturbed(s, cs, is) PROVE t \in Given
  OBVIOUS
<1>1. t \in Space
  BY DEF Perturbed
<1>2. ASSUME mode.bounded, NEW v \in Vars PROVE t[v] \in Lower..Upper
  <2>1. s[v] \in Lower..Upper /\ s[v] \in Int
    BY <1>2, GivenPoints, DescentAssumption DEF Space
  <2>2. (CASE v \in cs -> t[v] \in ContinuousMoves(s[v])
           [] v \in is -> t[v] \in Reach(s[v], 1)
           [] OTHER -> t[v] = s[v])
    BY <1>2 DEF Perturbed
  <2>3. \/ t[v] \in ContinuousMoves(s[v])
        \/ t[v] \in Reach(s[v], 1)
        \/ t[v] = s[v]
    BY <2>2
  <2> QED BY <1>2, <2>1, <2>3, MovesStayInside
<1> QED BY <1>1, <1>2, GivenPoints

\* So does what an attempt draws.
LEMMA AttemptsStayGiven ==
  ASSUME NEW s \in Given, NEW n \in Neighbourhoods \ {"flip"}
  PROVE  AttemptMoves(s, n) \subseteq Given
<1>1. \A cs, is : Perturbed(s, cs, is) \subseteq Given
  BY PerturbedStaysGiven
<1> QED BY <1>1, AttemptsWithin

\* The greater of two numbers is one of them.
LEMMA GreaterOfTwo ==
  ASSUME NEW a \in Int, NEW b \in Int
  PROVE  Max({a, b}) \in {a, b}
<1>1. \E x \in {a, b} : \A y \in {a, b} : x >= y
  OBVIOUS
<1> QED BY <1>1 DEF Max

\* The integer stride of a perturbation is an integer.
LEMMA StrideIsInt == ilsIter \in Nat => IntegerStride(Strength) \in Int
<1> SUFFICES ASSUME ilsIter \in Nat PROVE IntegerStride(Strength) \in Int
  OBVIOUS
<1> DEFINE h == Strength \div 2
           x == IF Strength % 2 = 1 /\ h % 2 = 1 THEN h + 1 ELSE h
<1>1. LastIteration \in Nat \ {0} /\ PerturbationStrength \in Nat
  BY SearchAssumption DEF LastIteration
<1>2. PerturbationStrength * ilsIter \in Nat
  BY <1>1
<1>3. Strength \in Int
  BY <1>1, <1>2 DEF Strength
<1>4. x \in Int
  BY <1>3
<1>5. IntegerStride(Strength) = Max({1, x})
  BY DEF IntegerStride
<1> HIDE DEF x
<1>6. IntegerStride(Strength) \in {1, x}
  BY <1>4, <1>5, GreaterOfTwo
<1> QED BY <1>4, <1>6

\* A perturbation of ILS stays in the box.
LEMMA PerturbationsStayGiven ==
  ASSUME NEW s \in Given, NEW n, IntegerStride(n) \in Int
  PROVE  Perturbations(s, n) \subseteq Given
<1> SUFFICES ASSUME NEW t \in Perturbations(s, n) PROVE t \in Given
  OBVIOUS
<1>1. PICK K \in kSubset(Min({Max({n, shape.n \div 5}), shape.n}), Vars) :
        /\ t \in Space
        /\ \A v \in Vars :
             CASE v \notin K -> t[v] = s[v]
               [] v \in K \cap Integral -> t[v] \in Reach(s[v], IntegerStride(n))
               [] OTHER -> mode.bounded => t[v] \in Lower..Upper
  BY DEF Perturbations
<1>2. ASSUME mode.bounded, NEW v \in Vars PROVE t[v] \in Lower..Upper
  <2>1. s[v] \in Lower..Upper /\ s[v] \in Int
    BY <1>2, GivenPoints, DescentAssumption DEF Space
  <2>2. (CASE v \notin K -> t[v] = s[v]
           [] v \in K \cap Integral -> t[v] \in Reach(s[v], IntegerStride(n))
           [] OTHER -> (mode.bounded => t[v] \in Lower..Upper))
    BY <1>1, <1>2
  <2>3. \/ t[v] = s[v]
        \/ t[v] \in Reach(s[v], IntegerStride(n))
        \/ mode.bounded => t[v] \in Lower..Upper
    BY <2>2
  <2> QED BY <1>2, <2>1, <2>3, MovesStayInside
<1> QED BY <1>1, <1>2, GivenPoints

\* A search begins in the box.
LEMMA BoxBegins == SearchInit => BoxInv
<1> SUFFICES ASSUME SearchInit PROVE BoxInv
  OBVIOUS
<1>1. /\ ilsIter = 0 /\ bestSol = sol /\ cur = sol /\ best = sol
      /\ task \in Relinks => origins \in Given \X Given /\ sol = Source /\ path = Source
      /\ task \notin Relinks => sol \in Given
      /\ ~(task = "bidirectional" /\ leg.reversed)
  BY DEF SearchInit
<1>2. sol \in Given
  BY <1>1 DEF Source
<1>3. step = "walk" => task \in Relinks
  BY SearchAssumption DEF SearchInit, Relinks
<1> QED BY <1>1, <1>2, <1>3 DEF BoxInv

\* Each of the vectors a step assigns is one of those given, or moved inside.
LEMMA BoxStep ==
  ASSUME SearchInv, BoxInv, [Next]_vars
  PROVE  BoxInv'
<1>0. /\ sol \in Given /\ bestSol \in Given /\ cur \in Given /\ ilsIter \in Nat
      /\ nbh \in Neighbourhoods /\ (stage = "attempts" => nbh # "flip")
  BY DEF BoxInv, SearchInv, VectorInv
<1>1. Given' = Given
  <2>1. mode' = mode /\ shape' = shape
    BY DEF Next, Work, Descend, DescentNext, given, EndRounds, StartRound, GiveUp, FailRound,
           Enter, Improve, TryNext, SweepInteger, SweepContinuous, EndIntegers, EndContinuous,
           EndAttempts, Attempt, FailAttempt, IlsPerturb, IlsAccept, IlsEnd, WalkStep,
           ExamineMove, MakeMove, TurnBack, EndWalk, TakeDescent, Expire, DeadlinePasses,
           vars, vndVars
  <2> QED BY <2>1 DEF Given, Box, Space, Vars
<1>2. CASE Descend
  <2>0. step' = "descent" /\ cur' = cur /\ ilsIter' = ilsIter
    BY <1>2 DEF Descend, ils
  <2>1. sol' \in Given /\ bestSol' \in Given
    <3>1. CASE EndRounds \/ StartRound \/ GiveUp \/ Enter \/ Improve \/ TryNext \/ EndIntegers
               \/ EndContinuous \/ EndAttempts \/ FailAttempt
      <4>1. sol' \in {sol, bestSol} /\ bestSol' \in {sol, bestSol}
        BY <3>1 DEF EndRounds, StartRound, GiveUp, FailRound, Enter, Improve, TryNext,
             EndIntegers, EndContinuous, EndAttempts, FailAttempt, working, found
      <4> QED BY <1>0, <4>1
    <3>2. ASSUME NEW i \in Vars, SweepInteger(i) PROVE sol' \in Given /\ bestSol' \in Given
      <4>1. CASE Improving(i) # {} /\ sol' = [sol EXCEPT ![i] = Min(Improving(i))] /\ bestSol' = sol'
        <5>1. Min(Improving(i)) \in Improving(i)
          BY <4>1, LeastImproves DEF SearchInv, VectorInv
        <5>2. /\ Min(Improving(i)) \in Values
              /\ mode.bounded => Min(Improving(i)) \in Lower..Upper
          BY <5>1 DEF Improving
        <5> QED BY <1>0, <4>1, <5>2, MovedStaysGiven
      <4>2. CASE UNCHANGED <<sol, found>>
        BY <1>0, <4>2 DEF found
      <4> QED BY <3>2, <4>1, <4>2 DEF SweepInteger
    <3>3. ASSUME NEW i \in Vars, SweepContinuous(i) PROVE sol' \in Given /\ bestSol' \in Given
      <4>1. PICK v \in ContinuousMoves(sol[i]) :
              LET t == [sol EXCEPT ![i] = v]
              IN  sol' \in {sol, t} /\ bestSol' \in {bestSol, t}
        BY <3>3 DEF SweepContinuous, found
      <4>2. sol[i] \in Int
        BY DescentAssumption DEF SearchInv, VectorInv, Space
      <4>3. v \in Values /\ (mode.bounded => v \in Lower..Upper)
        BY <4>2, ContinuousMovesAreValues, MovesStayInside
      <4>4. [sol EXCEPT ![i] = v] \in Given
        BY <1>0, <4>3, MovedStaysGiven
      <4> QED BY <1>0, <4>1, <4>4
    <3>4. CASE Attempt
      <4>1. stage = "attempts"
        BY <3>4 DEF Attempt
      <4>2. PICK t \in AttemptMoves(sol, nbh) : sol' \in {sol, t} /\ bestSol' \in {bestSol, t}
        BY <3>4 DEF Attempt, found
      <4>3. t \in Given
        BY <1>0, <4>1, <4>2, AttemptsStayGiven
      <4> QED BY <1>0, <4>2, <4>3
    <3> QED BY <1>2, <3>1, <3>2, <3>3, <3>4 DEF Descend, DescentNext
  <2> QED BY <1>0, <1>1, <2>0, <2>1 DEF BoxInv
<1>3. CASE IlsPerturb
  <2>1. PICK t \in Perturbations(cur, Strength) : Begin(t)
    BY <1>3 DEF IlsPerturb
  <2>2. t \in Given
    BY <1>0, <2>1, StrideIsInt, PerturbationsStayGiven
  <2>3. sol' = t /\ bestSol' = t /\ cur' = cur /\ ilsIter' = ilsIter /\ step' = "descent"
    BY <1>3, <2>1 DEF IlsPerturb, Begin, ils
  <2> QED BY <1>0, <1>1, <2>2, <2>3 DEF BoxInv
<1>4. CASE IlsAccept \/ IlsEnd \/ TakeDescent
  <2>1. /\ step' # "walk" /\ sol' = sol /\ bestSol' = bestSol /\ cur' \in {cur, sol}
        /\ ilsIter' \in {ilsIter, ilsIter + 1}
    BY <1>4 DEF IlsAccept, IlsEnd, TakeDescent, vndVars, working, found, ils
  <2> QED BY <1>0, <1>1, <2>1 DEF BoxInv
<1>5. CASE (\E v \in Vars : WalkStep(v) \/ ExamineMove(v)) \/ MakeMove
  <2>1. /\ step = "walk" /\ UNCHANGED <<sol, bestSol, cur, ilsIter, origins, leg, task>>
        /\ \E v : path' \in {path, [path EXCEPT ![v] = Target[v]]}
        /\ best' \in {best, path'}
    BY <1>5 DEF WalkStep, ExamineMove, MakeMove, vndVars, working, found, ils, incumbent
  <2>2. /\ path \in Given /\ best \in Given /\ origins \in Given \X Given
        /\ task = "bidirectional" /\ leg.reversed => leg.sol \in Given
    BY <2>1 DEF BoxInv
  <2>3. Target \in Given
    BY <2>2 DEF Target
  <2>4. \A v : [path EXCEPT ![v] = Target[v]] \in Given
    BY <2>2, <2>3, GivenPoints DEF Space
  <2> QED BY <1>0, <1>1, <2>1, <2>2, <2>4 DEF BoxInv
<1>6. CASE TurnBack
  <2>1. /\ step = "walk" /\ UNCHANGED <<sol, bestSol, cur, ilsIter, origins, task>>
        /\ leg' = [reversed |-> TRUE, sol |-> best, cost |-> bestCost]
        /\ path' = origins[2] /\ best' = origins[2]
    BY <1>6 DEF TurnBack, BeginWalk, ils, vndVars, working, found
  <2>2. best \in Given /\ origins \in Given \X Given
    BY <2>1 DEF BoxInv
  <2> QED BY <1>0, <1>1, <2>1, <2>2 DEF BoxInv
<1>7. CASE EndWalk
  <2>1. Winner \in Given
    BY <1>7 DEF EndWalk, Winner, BoxInv
  <2>2. /\ step' # "walk" /\ cur' = cur /\ ilsIter' = ilsIter
        /\ sol' \in {sol, Winner} /\ bestSol' \in {bestSol, Winner}
    BY <1>7 DEF EndWalk, Begin, ils, vndVars, working, found
  <2> QED BY <1>0, <1>1, <2>1, <2>2 DEF BoxInv
<1>8. CASE Expire \/ UNCHANGED vars
  <2>1. UNCHANGED <<sol, bestSol, cur, ilsIter, step, origins, leg, task, path, best>>
    BY <1>8 DEF Expire, DeadlinePasses, vars, vndVars, working, found, ils, incumbent, walk
  <2> QED BY <1>1, <2>1 DEF BoxInv
<1> QED BY <1>2, <1>3, <1>4, <1>5, <1>6, <1>7, <1>8 DEF Next, Work

\* No step of the integer i, in either direction, is cheaper.
NoStep(i) ==
  \A d \in {-1, 1} : LET t == [sol EXCEPT ![i] = sol[i] + d]
                     IN  t \in Given => Price(t) >= Price(sol)

Settled == \A i \in Integral : NoStep(i)

\* A round without a gain has examined every integer step of the vector it
\* began with: the vector it ends with.
Examined == \/ stage \in {"continuous", "return", "attempts"}
            \/ stage = "enter" /\ nbh # "flip"
OptimumInv ==
  /\ stage \in {"round", "enter", "done"} => bestBen = benefit
  /\ ~mode.adaptive /\ ~expired /\ bestBen = benefit =>
       /\ idle > 0 \/ Examined => Settled
       /\ stage = "integers" => \A i \in Integral \ todo : NoStep(i)

\* Where vector and instance stay, so do the steps known not to improve.
LEMMA StepsKept ==
  ASSUME UNCHANGED <<given, sol>>
  PROVE  Integral' = Integral /\ Settled' = Settled /\ \A i : NoStep(i)' = NoStep(i)
<1>1. \A i : NoStep(i)' = NoStep(i)
  BY DEF NoStep, Given, Box, Space, Vars, Price, given
<1>2. Integral' = Integral
  BY DEF Integral, given
<1> QED BY <1>1, <1>2 DEF Settled

\* An integer whose neighbours do not improve has no cheaper step.
LEMMA NothingImproves ==
  ASSUME SearchInv, NEW i \in Vars, Improving(i) = {}, bestBen = Price(sol)
  PROVE  NoStep(i)
<1>0. /\ sol \in Space /\ shape \in Shapes /\ objective \in Objectives /\ cache \in Caches
      /\ sol[i] \in Int
  BY DescentAssumption DEF SearchInv, VectorInv, Space
<1> SUFFICES ASSUME NEW d \in {-1, 1}, [sol EXCEPT ![i] = sol[i] + d] \in Given
             PROVE  Price([sol EXCEPT ![i] = sol[i] + d]) >= Price(sol)
  BY DEF NoStep
<1> DEFINE v == sol[i] + d
           t == [sol EXCEPT ![i] = v]
<1>1. t \in Space /\ (mode.bounded => t[i] \in Lower..Upper)
  BY GivenPoints
<1>2. t[i] = v
  BY <1>0 DEF Space
<1>3. v \in Values /\ (mode.bounded => v \in Lower..Upper)
  BY <1>1, <1>2 DEF Space
<1>4. v \in (sol[i] - 1)..(sol[i] + 1)
  BY <1>0
<1>5. ~(Price(t) < bestBen)
  <2> HIDE DEF v
  <2> QED BY <1>3, <1>4 DEF Improving
<1>6. Price(t) \in Int /\ Price(sol) \in Int
  BY <1>0, <1>1, PriceIsInt
<1> HIDE DEF t
<1>7. Price(t) >= Price(sol)
  BY <1>5, <1>6
<1> QED BY <1>7 DEF t

\* Before the first round nothing is claimed to be settled.
LEMMA OptimumBegins == SearchInit => OptimumInv
BY DEF SearchInit, OptimumInv, Examined

\* What is left of the invariant where the vector stays and nothing is gained.
LEMMA OptimumKept ==
  ASSUME OptimumInv, UNCHANGED <<given, sol, benefit, bestBen>>,
         stage' \in {"round", "enter", "done"} => bestBen = benefit,
         ~mode.adaptive /\ ~expired' /\ bestBen = benefit =>
           /\ ~expired
           /\ idle' > 0 \/ Examined' => idle > 0 \/ Examined \/ Settled
           /\ stage' = "integers" => \/ stage = "integers" /\ todo' = todo
                                     \/ \A i \in Integral \ todo' : NoStep(i)
  PROVE  OptimumInv'
<1>1. Integral' = Integral /\ Settled' = Settled /\ \A i : NoStep(i)' = NoStep(i)
  BY StepsKept DEF given
<1>2. mode' = mode
  BY DEF given
<1> QED BY <1>1, <1>2 DEF OptimumInv

\* Every step keeps what the last round has shown of the integer steps.
LEMMA OptimumStep ==
  ASSUME SearchInv, OptimumInv, [Next]_vars
  PROVE  OptimumInv'
<1>0. /\ benefit \in Int /\ bestBen \in Int /\ sol \in Space
      /\ shape \in Shapes /\ objective \in Objectives /\ cache \in Caches
  BY DEF SearchInv, VectorInv
<1>1. ASSUME Descend PROVE OptimumInv'
  <2>0. UNCHANGED given /\ expired' = expired
    BY <1>1 DEF Descend, DescentNext, EndRounds, StartRound, GiveUp, FailRound, Enter,
         Improve, TryNext, SweepInteger, SweepContinuous, EndIntegers, EndContinuous,
         EndAttempts, Attempt, FailAttempt
  <2>1. CASE EndRounds
    <3>1. /\ stage = "round" /\ stage' = "done" /\ idle' = idle
          /\ UNCHANGED <<sol, benefit, bestBen>>
      BY <2>1 DEF EndRounds, working, found, rounds
    <3> QED BY <2>0, <3>1, OptimumKept DEF OptimumInv, Examined
  <2>2. CASE StartRound
    <3>1. /\ stage = "round" /\ stage' = "enter" /\ idle' = idle
          /\ UNCHANGED <<sol, benefit, bestBen>> /\ (~mode.adaptive => nbh' = "flip")
      BY <2>2 DEF StartRound, working, found
    <3> QED BY <2>0, <3>1, OptimumKept DEF OptimumInv, Examined
  <2>3. CASE GiveUp
    <3>1. /\ stage = "enter" /\ stage' = "round" /\ UNCHANGED <<sol, benefit, bestBen>>
          /\ ~mode.adaptive /\ ~expired => nbh = "multiflip"
      BY <2>3 DEF GiveUp, FailRound, OutOfTime, working, found
    <3> QED BY <2>0, <3>1, OptimumKept DEF OptimumInv, Examined
  <2>4. CASE TryNext
    <3>1. /\ stage = "return" /\ stage' \in {"round", "enter"}
          /\ UNCHANGED <<sol, benefit, bestBen>> /\ bestBen >= benefit
      BY <2>4 DEF TryNext, FailRound, working, found
    <3>2. bestBen = benefit
      BY <1>0, <3>1 DEF SearchInv, WorkingVectorIntact
    <3> QED BY <2>0, <3>1, <3>2, OptimumKept DEF Examined
  <2>5. CASE Enter
    <3>1. /\ stage = "enter" /\ sol' = sol /\ benefit' = benefit /\ bestBen' = benefit
          /\ idle' = idle /\ nbh' = nbh
      BY <2>5 DEF Enter, working, rounds
    <3>3. \/ stage' = "integers" /\ todo' = Integral
          \/ stage' \in {"return", "attempts"} /\ nbh # "flip"
      BY <2>5, Zenon DEF Enter, Inapplicable
    <3>2. bestBen = benefit
      BY <3>1 DEF OptimumInv
    <3> QED BY <2>0, <3>1, <3>2, <3>3, OptimumKept DEF Examined
  <2>6. CASE Improve
    <3>1. stage' = "round" /\ idle' = 0 /\ benefit' = bestBen /\ bestBen' = bestBen
      BY <2>6 DEF Improve, found
    <3> QED BY <3>1 DEF OptimumInv, Examined
  <2>7. ASSUME stage' \in {"integers", "continuous", "return", "attempts"},
               benefit' = benefit, bestBen' \in Int, bestBen' < benefit
        PROVE  OptimumInv'
    BY <1>0, <2>7 DEF OptimumInv
  <2>8. ASSUME NEW i \in Vars, SweepInteger(i) PROVE OptimumInv'
    <3>1. /\ stage = "integers" /\ benefit' = benefit /\ idle' = idle
          /\ stage' \in {"integers", "continuous"}
      BY <2>8 DEF SweepInteger, ToContinuous, rounds
    <3>2. CASE Improving(i) # {} /\ bestBen' = Price(sol')
               /\ sol' = [sol EXCEPT ![i] = Min(Improving(i))]
      <4>1. Min(Improving(i)) \in Improving(i)
        BY <1>0, <3>2, LeastImproves
      <4>2. Price(sol') < bestBen /\ sol' \in Space
        BY <1>0, <3>2, <4>1 DEF Improving, Space
      <4>3. Price(sol') \in Int
        BY <1>0, <4>2, PriceIsInt
      <4>4. bestBen' \in Int /\ bestBen' < benefit
        BY <1>0, <3>1, <3>2, <4>2, <4>3 DEF SearchInv, WorkingVectorIntact
      <4> QED BY <2>7, <3>1, <4>4
    <3>3. CASE /\ Improving(i) = {} /\ UNCHANGED <<sol, found>>
               /\ stage' = stage /\ todo' = todo \ {i}
      <4>1. bestBen = benefit => NoStep(i)
        BY <3>1, <3>3, NothingImproves DEF SearchInv, UntouchedInv
      <4>2. ~mode.adaptive /\ ~expired /\ bestBen = benefit =>
              \A j \in Integral \ todo' : NoStep(j)
        BY <3>1, <3>3, <4>1 DEF OptimumInv
      <4> QED BY <2>0, <3>1, <3>3, <4>2, OptimumKept DEF Examined, found
    <3> QED BY <2>8, <3>2, <3>3 DEF SweepInteger
  <2>9. ASSUME NEW i \in Vars, SweepContinuous(i) PROVE OptimumInv'
    <3>1. /\ stage = "continuous" /\ benefit' = benefit /\ idle' = idle
          /\ stage' \in {"continuous", "return"}
      BY <2>9 DEF SweepContinuous, rounds
    <3>2. PICK v \in ContinuousMoves(sol[i]) :
            \/ /\ Price([sol EXCEPT ![i] = v]) < bestBen
               /\ bestBen' = Price([sol EXCEPT ![i] = v])
            \/ UNCHANGED <<sol, found, stage>>
      BY <2>9 DEF SweepContinuous
    <3> DEFINE t == [sol EXCEPT ![i] = v]
    <3>3. t \in Space
      BY <1>0, ContinuousMovesAreValues DEF Space
    <3>4. Price(t) \in Int
      BY <1>0, <3>3, PriceIsInt
    <3>5. (Price(t) < bestBen /\ bestBen' = Price(t)) \/ UNCHANGED <<sol, found, stage>>
      BY <3>2
    <3> HIDE DEF t
    <3>6. CASE Price(t) < bestBen /\ bestBen' = Price(t)
      <4>1. bestBen' \in Int /\ bestBen' < benefit
        BY <1>0, <3>1, <3>4, <3>6 DEF SearchInv, WorkingVectorIntact
      <4> QED BY <2>7, <3>1, <4>1
    <3>7. CASE UNCHANGED <<sol, found, stage>>
      BY <2>0, <3>1, <3>7, OptimumKept DEF Examined, found
    <3> QED BY <3>5, <3>6, <3>7
  <2>10. CASE EndIntegers
    <3>1. /\ stage = "integers" /\ stage' = "continuous" /\ idle' = idle
          /\ UNCHANGED <<sol, benefit, bestBen>>
          /\ ~mode.adaptive /\ ~expired => todo = {}
      BY <2>10 DEF EndIntegers, ClockDue, OutOfTime, ToContinuous, working, found, rounds
    <3>2. ~mode.adaptive /\ ~expired /\ bestBen = benefit => Settled
      BY <3>1 DEF OptimumInv, Settled
    <3> QED BY <2>0, <3>1, <3>2, OptimumKept
  <2>11. CASE EndContinuous \/ EndAttempts \/ FailAttempt
    <3>1. /\ stage \in {"continuous", "attempts"} /\ stage' \in {"return", "failed"}
          /\ idle' = idle /\ UNCHANGED <<sol, benefit, bestBen>>
      BY <2>11 DEF EndContinuous, EndAttempts, FailAttempt, working, found, rounds
    <3> QED BY <2>0, <3>1, OptimumKept DEF Examined
  <2>12. CASE Attempt
    <3>1. /\ stage = "attempts" /\ benefit' = benefit /\ idle' = idle
          /\ stage' \in {"attempts", "return"}
      BY <2>12 DEF Attempt, rounds
    <3>2. PICK t \in AttemptMoves(sol, nbh) :
            \/ Price(t) < bestBen /\ bestBen' = Price(t)
            \/ UNCHANGED <<sol, found, stage>>
      BY <2>12 DEF Attempt
    <3>3. t \in Space
      BY <3>1, AttemptsAreVectors DEF SearchInv, VectorInv
    <3>4. Price(t) \in Int
      BY <1>0, <3>3, PriceIsInt
    <3>5. CASE Price(t) < bestBen /\ bestBen' = Price(t)
      <4>1. bestBen' \in Int /\ bestBen' < benefit
        BY <1>0, <3>1, <3>4, <3>5 DEF SearchInv, WorkingVectorIntact
      <4> QED BY <2>7, <3>1, <4>1
    <3>6. CASE UNCHANGED <<sol, found, stage>>
      BY <2>0, <3>1, <3>6, OptimumKept DEF Examined, found
    <3> QED BY <3>2, <3>5, <3>6
  <2> QED BY <1>1, <2>1, <2>2, <2>3, <2>4, <2>5, <2>6, <2>8, <2>9, <2>10, <2>11, <2>12
          DEF Descend, DescentNext
<1>2. ASSUME NEW s, Begin(s) PROVE OptimumInv'
  BY <1>2 DEF Begin, OptimumInv, Examined
<1>3. CASE IlsPerturb \/ (EndWalk /\ task # "best")
  BY <1>2, <1>3 DEF IlsPerturb, EndWalk
<1>4. CASE \/ IlsAccept \/ IlsEnd \/ MakeMove \/ TurnBack \/ TakeDescent \/ UNCHANGED vars
           \/ (EndWalk /\ task = "best") \/ \E v \in Vars : WalkStep(v) \/ ExamineMove(v)
  <2>1. UNCHANGED <<given, sol, benefit, bestBen, stage, nbh, todo, idle, expired>>
    BY <1>4 DEF IlsAccept, IlsEnd, MakeMove, TurnBack, TakeDescent, EndWalk, WalkStep,
         ExamineMove, vars, vndVars, working, found, rounds
  <2> QED BY <2>1, OptimumKept DEF OptimumInv, Examined
<1>5. CASE Expire
  <2>1. UNCHANGED <<given, sol, benefit, bestBen, stage, nbh, todo, idle>> /\ expired'
    BY <1>5 DEF Expire, DeadlinePasses, working, found, rounds
  <2> QED BY <2>1, OptimumKept DEF OptimumInv
<1> QED BY <1>1, <1>3, <1>4, <1>5 DEF Next, Work

(* For every layout, objective and order of the sweeps, a descent that      *)
(* stops because rounds no longer improve, in time, is an optimum of every  *)
(* single integer step; and no move of a bounded one leaves the box         *)
(* (vnd/flip.py, vnd/standard.py).                                          *)
THEOREM AlwaysIntegerOptimum == SearchSpec => []IntegerOptimum
<1>1. ASSUME SearchInv, RoundInv, ClockInv, BoxInv PROVE DescentTypeOK
  <2>1. shape \in Shapes /\ objective \in Objectives /\ benefit \in Int /\ bestBen \in Int
        /\ nbh \in Neighbourhoods /\ cache \in Caches
    BY <1>1 DEF SearchInv, VectorInv
  <2>2. {sol, bestSol} \subseteq IF mode.bounded THEN Box ELSE Space
    BY <1>1 DEF BoxInv, Given
  <2> QED BY <1>1, <2>1, <2>2 DEF RoundInv, ClockInv, DescentTypeOK
<1>2. ASSUME SearchInv, OptimumInv, stage = "done", ~mode.adaptive, ~expired,
             idle >= NoImproveLimit, idle \in Nat, NEW t \in Given, IntegerStep(sol, t)
      PROVE  Price(t) >= Price(sol)
  <2>1. idle > 0
    BY <1>2, DescentAssumption
  <2>2. Settled
    BY <1>2, <2>1 DEF OptimumInv
  <2>3. PICK i \in Integral, d \in {-1, 1} : t = [sol EXCEPT ![i] = sol[i] + d]
    BY <1>2 DEF IntegerStep
  <2> QED BY <1>2, <2>2, <2>3 DEF Settled, NoStep
<1>3. SearchInv /\ RoundInv /\ ClockInv /\ BoxInv /\ OptimumInv => IntegerOptimum
  BY <1>1, <1>2 DEF IntegerOptimum, RoundInv, Given
<1>4. SearchInv /\ RoundInv /\ ClockInv /\ BoxInv /\ OptimumInv /\ [Next]_vars =>
        SearchInv' /\ RoundInv' /\ ClockInv' /\ BoxInv' /\ OptimumInv'
  BY SearchStep, RoundStep, ClockStep, BoxStep, OptimumStep
<1>5. SearchInit => SearchInv /\ RoundInv /\ ClockInv /\ BoxInv /\ OptimumInv
  BY SearchBegins, RoundBegins, ClockBegins, BoxBegins, OptimumBegins
<1> QED BY <1>3, <1>4, <1>5, PTL DEF SearchSpec
===============================================================================
