------------------------------ MODULE ApiProofs -------------------------------
(***************************************************************************)
(* Proofs about the public face, for any solutions, values, sessions and   *)
(* number of runs: what a run reports, and what an estimator keeps.        *)
(***************************************************************************)
EXTENDS Api, TLAPS

Reasons == {"converged", "time_limit", "early_stop", "no_feasible", "max_iterations",
            "unknown"}
Result == [x : Solutions \cup {Zeros}, fun : Int, success : BOOLEAN, direction : Directions,
           termination : Reasons, meta : Reasons, warm : SUBSET Solutions]

\* The incumbent of a call costs what a twin of it costs, and is as good as
\* every warm start offered to it.
IncumbentInv ==
  /\ best.cost \in Int /\ best.cost <= Infinity
  /\ best.cost = Infinity => best.x = Zeros
  /\ best.cost # Infinity =>
       /\ best.x \in Solutions
       /\ \E t \in Twins(best.x) : func[t] \in Values /\ best.cost = Signed(func[t])
  /\ offered \subseteq Solutions
  /\ \A s \in offered : func[s] \in Values => best.cost <= Signed(func[s])

CallInv ==
  /\ func \in [Solutions -> Outcomes] /\ session \in Sessions
  /\ direction \in Directions
  /\ stage = "warm" => \A i \in 1..Len(warm) : warm[i] \in Solutions
  /\ stage = "warm" => warm \in Seq(Solutions)
  /\ stage = "warm" => IncumbentInv
  /\ history \in Seq(Result)

ResultInv == CallInv /\ ResultFaithful

-----------------------------------------------------------------------------
(* Signs and reasons.                                                      *)

\* An infinite cost is not one of the finite ones.
LEMMA Finite ==
  /\ Infinity \in Nat /\ Values \subseteq Int
  /\ \A v \in Values : -Infinity < v /\ v < Infinity
BY ApiAssumption

\* A value the user can see is finite.
LEMMA FiniteValue ==
  ASSUME NEW v, v \in Values
  PROVE  v \in Int /\ Infinity \in Int /\ -Infinity < v /\ v < Infinity
<1>1. v \in Int /\ Infinity \in Int
  BY Finite
<1>2. -Infinity < v /\ v < Infinity
  BY Finite
<1> QED BY <1>1, <1>2

\* The sign turned twice is the sign.
LEMMA SignsTurn ==
  ASSUME direction \in Directions, NEW c \in Int
  PROVE  Signed(c) \in Int /\ Signed(Signed(c)) = c
BY DEF Signed, Directions

\* What the core is told is the cost in the wrapped sign.
LEMMA WrappedIsCost ==
  ASSUME direction \in Directions, NEW s \in Solutions
  PROVE  /\ Wrapped(s) \in Int /\ Wrapped(s) <= Infinity
         /\ func[s] \in Values => Wrapped(s) = Signed(func[s]) /\ Wrapped(s) < Infinity
         /\ func[s] \notin Values => Wrapped(s) = Infinity
<1>1. CASE func[s] \in Values
  <2>1. /\ func[s] \in Int /\ Infinity \in Int
        /\ -Infinity < func[s] /\ func[s] < Infinity
    BY <1>1, FiniteValue
  <2>2. Signed(func[s]) = func[s] \/ Signed(func[s]) = -func[s]
    BY DEF Signed
  <2>3. Signed(func[s]) \in Int /\ Signed(func[s]) < Infinity
    BY <2>1, <2>2
  <2>4. Wrapped(s) = Signed(func[s])
    BY <1>1 DEF Wrapped
  <2> QED BY <1>1, <2>1, <2>3, <2>4
<1>2. CASE func[s] \notin Values
  BY <1>2, Finite DEF Wrapped
<1> QED BY <1>1, <1>2

\* Every message of the core has a reason.
LEMMA ReasonOfMessage ==
  ASSUME NEW m \in Messages
  PROVE  FromMessage(m) \in Reasons \ {"unknown"}
<1>1. CASE m = "max_iterations"
  BY <1>1 DEF FromMessage, Words, Reasons
<1>2. CASE m = "time_limit"
  BY <1>2 DEF FromMessage, Words, Reasons
<1>3. CASE m = "early_stop"
  BY <1>3 DEF FromMessage, Words, Reasons
<1> QED BY <1>1, <1>2, <1>3 DEF Messages

\* A run that found nothing has no reason of its own.
LEMMA ReasonOfNothing == FromMessage("no finite solution found") = "unknown"
BY DEF FromMessage, Words

-----------------------------------------------------------------------------
(* A call.                                                                 *)

\* A solution and its twins are solutions.
LEMMA TwinsAreSolutions ==
  ASSUME NEW s \in Solutions
  PROVE  Twins(s) \subseteq Solutions /\ s \in Twins(s)
BY DEF Twins

\* An offer at the cost of a twin keeps the incumbent, whose cost never rises;
\* an offered warm start, whose cost is its own, costs no less.
LEMMA OfferKeeps ==
  ASSUME CallInv, IncumbentInv, NEW s \in Solutions, NEW t \in Twins(s), Offer(s, t),
         \/ offered' = offered
         \/ s = t /\ offered' = offered \cup {s}
  PROVE  IncumbentInv'
<1>1. /\ func' = func /\ session' = session /\ direction' = direction
      /\ best' = IF Wrapped(t) < best.cost THEN [x |-> s, cost |-> Wrapped(t)] ELSE best
  BY DEF Offer, inputs
<1>a. t \in Solutions
  BY TwinsAreSolutions
<1>2. /\ Wrapped(t) \in Int /\ Wrapped(t) <= Infinity
      /\ func[t] \in Values => Wrapped(t) = Signed(func[t]) /\ Wrapped(t) < Infinity
      /\ func[t] \notin Values => Wrapped(t) = Infinity
  BY <1>a, WrappedIsCost DEF CallInv
<1>3. \A c : Signed(c)' = Signed(c)
  BY <1>1 DEF Signed
<1>b. \A u : Twins(u)' = Twins(u)
  BY <1>1 DEF Twins
<1>4. \A u \in Solutions : func[u] \in Values => Signed(func[u]) \in Int
  BY Finite, SignsTurn DEF CallInv
<1>5. Infinity \in Int
  BY Finite
<1>6. best.cost \in Int /\ best.cost <= Infinity
  BY DEF IncumbentInv
<1>7. /\ best'.cost \in Int /\ best'.cost <= Infinity /\ best'.cost <= best.cost
      /\ best'.cost <= Wrapped(t)
  BY <1>1, <1>2, <1>5, <1>6
<1>8. /\ best'.cost = Infinity => best'.x = Zeros
      /\ best'.cost # Infinity =>
           /\ best'.x \in Solutions
           /\ \E u \in Twins(best'.x) : func[u] \in Values /\ best'.cost = Signed(func[u])
  <2>1. CASE Wrapped(t) < best.cost
    <3>1. best'.x = s /\ best'.cost = Wrapped(t) /\ func[t] \in Values
      BY <1>1, <1>2, <1>5, <1>6, <2>1
    <3> QED BY <1>2, <1>5, <3>1
  <2>2. CASE ~(Wrapped(t) < best.cost)
    <3>1. best' = best
      BY <1>1, <2>2
    <3> QED BY <3>1 DEF IncumbentInv
  <2> QED BY <2>1, <2>2
<1>9. /\ offered' \subseteq Solutions
      /\ \A u \in offered' : func[u] \in Values => best'.cost <= Signed(func[u])
  <2>1. offered \subseteq Solutions
        /\ \A u \in offered : func[u] \in Values => best.cost <= Signed(func[u])
    BY DEF IncumbentInv
  <2>2. ASSUME NEW u \in offered, func[u] \in Values PROVE best'.cost <= Signed(func[u])
    <3>1. Signed(func[u]) \in Int /\ best.cost <= Signed(func[u])
      BY <1>4, <2>1, <2>2
    <3> QED BY <1>6, <1>7, <3>1
  <2>3. CASE offered' = offered
    BY <2>1, <2>2, <2>3
  <2>4. CASE s = t /\ offered' = offered \cup {s}
    BY <1>2, <1>7, <2>1, <2>2, <2>4
  <2> QED BY <2>3, <2>4
<1> HIDE DEF Twins
<1> QED BY <1>1, <1>3, <1>b, <1>7, <1>8, <1>9 DEF IncumbentInv

Faithful(r) ==
  /\ r.success => /\ r.x \in Solutions /\ \E t \in Twins(r.x) : r.fun = func[t]
                  /\ r.termination = r.meta /\ r.meta # "unknown"
  /\ ~r.success => r.x = Zeros
  /\ r.success <=> r.fun \notin {-Infinity, Infinity}
  /\ \A s \in r.warm : func[s] \in Values =>
       r.success /\ (IF r.direction = "maximize" THEN r.fun >= func[s] ELSE r.fun <= func[s])

\* A faithful history is one of faithful results.
LEMMA FaithfulHistory == ResultFaithful <=> \A i \in 1..Len(history) : Faithful(history[i])
BY DEF ResultFaithful, Faithful

\* What a call returns is faithful.
LEMMA ResultIsFaithful ==
  ASSUME CallInv, IncumbentInv, NEW m \in Messages
  PROVE  ResultOf(m) \in Result /\ Faithful(ResultOf(m))
<1> DEFINE r == ResultOf(m)
           success == best.cost # Infinity
<1>1. r = [x |-> best.x, fun |-> Signed(best.cost), success |-> success,
           direction |-> direction,
           termination |-> FromMessage(IF success THEN m ELSE "no finite solution found"),
           meta |-> FromMessage(m), warm |-> offered]
  BY DEF ResultOf
<1>2. FromMessage(m) \in Reasons \ {"unknown"}
  BY ReasonOfMessage
<1> HIDE DEF r
<1>3. /\ r.x = best.x /\ r.fun = Signed(best.cost) /\ r.success = success
      /\ r.direction = direction /\ r.warm = offered /\ r.meta = FromMessage(m)
      /\ success => r.termination = r.meta
      /\ ~success => r.termination = "unknown"
  BY <1>1, ReasonOfNothing
<1>4. direction \in Directions /\ Infinity \in Int /\ best.cost \in Int
  BY Finite DEF CallInv, IncumbentInv
<1>5. r \in Result
  <2>1. r.fun \in Int
    BY <1>3, <1>4, SignsTurn
  <2>2. r.x \in Solutions \cup {Zeros}
    BY <1>3 DEF IncumbentInv
  <2>3. r.termination \in Reasons /\ r.meta \in Reasons
    BY <1>2, <1>3 DEF Reasons
  <2>4. r.warm \in SUBSET Solutions /\ r.success \in BOOLEAN
    BY <1>3 DEF IncumbentInv
  <2>5. r = [x |-> r.x, fun |-> r.fun, success |-> r.success, direction |-> r.direction,
             termination |-> r.termination, meta |-> r.meta, warm |-> r.warm]
    BY <1>1
  <2> QED BY <1>3, <1>4, <2>1, <2>2, <2>3, <2>4, <2>5 DEF Result
<1>6. ASSUME success
      PROVE  /\ r.x \in Solutions /\ \E t \in Twins(r.x) : r.fun = func[t]
             /\ r.fun \notin {-Infinity, Infinity}
  <2>1. /\ best.x \in Solutions
        /\ \E t \in Twins(best.x) : func[t] \in Values /\ best.cost = Signed(func[t])
    BY <1>6 DEF IncumbentInv
  <2>2. PICK t \in Twins(best.x) : func[t] \in Values /\ best.cost = Signed(func[t])
    BY <2>1
  <2>3. func[t] \in Int /\ func[t] \notin {-Infinity, Infinity}
    BY <2>2, FiniteValue
  <2>4. Signed(best.cost) = func[t]
    BY <1>4, <2>2, <2>3, SignsTurn
  <2> HIDE DEF Twins
  <2> QED BY <1>3, <2>1, <2>2, <2>3, <2>4
<1>7. ~success => r.x = Zeros /\ r.fun \in {-Infinity, Infinity}
  BY <1>3, <1>4 DEF IncumbentInv, Signed
<1>8. ASSUME NEW s \in r.warm, func[s] \in Values
      PROVE  success /\ (IF r.direction = "maximize" THEN r.fun >= func[s]
                                                   ELSE r.fun <= func[s])
  <2>1. s \in Solutions /\ best.cost <= Signed(func[s]) /\ func[s] \in Int
    BY <1>3, <1>8, Finite DEF IncumbentInv
  <2>2. Wrapped(s) = Signed(func[s]) /\ Wrapped(s) < Infinity /\ Wrapped(s) \in Int
    BY <1>4, <1>8, <2>1, WrappedIsCost
  <2>3. success
    BY <1>4, <2>1, <2>2
  <2>4. IF direction = "maximize" THEN Signed(best.cost) >= func[s]
                                  ELSE Signed(best.cost) <= func[s]
    BY <1>4, <2>1 DEF Signed
  <2> QED BY <1>3, <2>3, <2>4
<1>9. Faithful(r)
  BY <1>2, <1>3, <1>6, <1>7, <1>8, ReasonOfNothing DEF Faithful
<1> QED BY <1>5, <1>9 DEF r

\* Guesses that pass the validation are solutions.
LEMMA ValidGuesses ==
  ASSUME session \in Sessions, GuessesValid
  PROVE  Guesses \in Seq(Solutions)
<1>1. Args \in Arguments
  BY ApiAssumption DEF Args
<1>2. Args.single \in Solutions \cup {"None", "outside"}
      /\ Args.many \in Seq(Solutions \cup {"outside"})
  BY <1>1 DEF Arguments
<1>3. Guesses \in Seq(Solutions \cup {"outside"})
  <2>1. CASE Args.single = "None"
    BY <1>2, <2>1 DEF Guesses
  <2>2. CASE Args.single # "None"
    <3>1. <<Args.single>> \in Seq(Solutions \cup {"outside"})
      BY <1>2, <2>2
    <3> QED BY <1>2, <2>2, <3>1 DEF Guesses
  <2> QED BY <2>1, <2>2
<1>4. \A i \in 1..Len(Guesses) : Guesses[i] \in Solutions
  BY <1>3 DEF GuessesValid
<1> QED BY <1>3, <1>4

\* What is resolved is a direction.
LEMMA ResolvedIsDirection ==
  ASSUME NEW m, NEW d, Resolve(m, d) # "error"
  PROVE  Resolve(m, d) \in Directions
BY DEF Resolve, Named, Directions

\* A call has a direction.
LEMMA CallDirectionIsDirection ==
  CallDirection # "error" => CallDirection \in Directions
BY ResolvedIsDirection DEF CallDirection, Directions

\* Init establishes the invariant of the calls.
LEMMA CallInvInit == ApiInit => ResultInv
<1> SUFFICES ASSUME ApiInit PROVE ResultInv
  OBVIOUS
<1>1. stage # "warm" /\ history = <<>>
  BY DEF ApiInit
<1>2. CallInv
  BY <1>1 DEF ApiInit, CallInv, Directions
<1> QED BY <1>1, <1>2 DEF ResultInv, ResultFaithful

\* The actions that leave the calls' variables alone, and end no result.
LEMMA OutsideKeeps ==
  ASSUME ResultInv, UNCHANGED <<inputs, direction, core, history>>,
         stage' = "warm" => stage = "warm"
  PROVE  ResultInv'
<1>1. /\ func' = func /\ session' = session /\ direction' = direction
      /\ warm' = warm /\ offered' = offered /\ best' = best /\ history' = history
  BY DEF inputs, core
<1>2. IncumbentInv <=> IncumbentInv'
  BY <1>1 DEF IncumbentInv, Signed, Twins
<1>3. ResultFaithful' <=> ResultFaithful
  BY <1>1 DEF ResultFaithful, Twins
<1> QED BY <1>1, <1>2, <1>3 DEF ResultInv, CallInv

\* Every step keeps it.
LEMMA ResultInvStep == ResultInv /\ [ApiNext]_apiVars => ResultInv'
<1> SUFFICES ASSUME ResultInv, [ApiNext]_apiVars PROVE ResultInv'
  OBVIOUS
<1>0. CallInv /\ ResultFaithful
  BY DEF ResultInv
<1>1. CASE CliUsage
  BY <1>1, OutsideKeeps DEF CliUsage, Exit
<1>2. CASE CliFails
  BY <1>2, OutsideKeeps DEF CliFails, Exit
<1>3. CASE CliCalls
  BY <1>3, OutsideKeeps DEF CliCalls
<1>4. CASE Reject
  BY <1>4, OutsideKeeps DEF Reject, Raise, Exit
<1>5. CASE Call
  <2>1. /\ func' = func /\ session' = session /\ history' = history
        /\ direction' \in Directions /\ warm' \in Seq(Solutions) /\ offered' = {}
        /\ best' = [x |-> Zeros, cost |-> Infinity]
    BY <1>0, <1>5, CallDirectionIsDirection, ValidGuesses DEF Call, inputs, CallInv
  <2>2. IncumbentInv'
    BY <2>1, Finite DEF IncumbentInv
  <2>3. ResultFaithful'
    BY <1>0, <2>1 DEF ResultFaithful, Twins
  <2> QED BY <1>0, <2>1, <2>2, <2>3 DEF ResultInv, CallInv
<1>6. ASSUME NEW s \in Solutions, NEW t \in Twins(s), Offer(s, t), stage = "warm",
             warm' \in Seq(Solutions), stage' = stage,
             \/ offered' = offered
             \/ s = t /\ offered' = offered \cup {s}
      PROVE  ResultInv'
  <2>1. /\ func' = func /\ session' = session /\ history' = history
        /\ direction' = direction
    BY <1>6 DEF Offer, inputs
  <2>2. IncumbentInv'
    BY <1>0, <1>6, OfferKeeps DEF CallInv
  <2>3. ResultFaithful'
    BY <1>0, <2>1 DEF ResultFaithful, Twins
  <2> QED BY <1>0, <1>6, <2>1, <2>2, <2>3 DEF ResultInv, CallInv
<1>7. CASE WarmStart
  <2>1. warm \in Seq(Solutions) /\ warm # <<>> /\ stage = "warm"
    BY <1>0, <1>7 DEF WarmStart, CallInv
  <2>2. Head(warm) \in Solutions /\ Tail(warm) \in Seq(Solutions)
    BY <2>1
  <2>3. Offer(Head(warm), Head(warm)) /\ Head(warm) \in Twins(Head(warm))
    BY <1>7, <2>2, TwinsAreSolutions DEF WarmStart
  <2>4. warm' = Tail(warm) /\ stage' = stage /\ offered' = offered \cup {Head(warm)}
    BY <1>7 DEF WarmStart
  <2> QED BY <1>6, <2>1, <2>2, <2>3, <2>4
<1>8. CASE Fatal
  BY <1>8, OutsideKeeps DEF Fatal, Raise, Exit
<1>9. ASSUME NEW s \in Solutions, Search(s) PROVE ResultInv'
  <2>1. PICK t \in Twins(s) : Offer(s, t)
    BY <1>9 DEF Search
  <2> QED BY <1>0, <1>6, <1>9, <2>1 DEF Search, CallInv
<1>10. CASE Return
  <2>1. PICK m \in Messages : history' = Append(history, ResultOf(m))
    BY <1>10 DEF Return
  <2>2. /\ func' = func /\ session' = session /\ direction' = direction
        /\ stage = "warm" /\ stage' # "warm"
    BY <1>10 DEF Return, inputs, Exit
  <2>3. ResultOf(m) \in Result /\ Faithful(ResultOf(m))
    BY <1>0, <2>2, ResultIsFaithful DEF CallInv
  <2>4. history \in Seq(Result)
    BY <1>0 DEF CallInv
  <2>5. history' \in Seq(Result)
    BY <2>1, <2>3, <2>4
  <2>6. ASSUME NEW i \in 1..Len(history') PROVE Faithful(history'[i])
    <3>1. history'[i] = IF i = Len(history) + 1 THEN ResultOf(m) ELSE history[i]
      BY <2>1, <2>4
    <3>2. i \in 1..Len(history) \/ i = Len(history) + 1
      BY <2>1, <2>4
    <3> QED BY <1>0, <2>3, <3>1, <3>2, FaithfulHistory
  <2>7. ResultFaithful'
    BY <2>2, <2>6 DEF ResultFaithful, Faithful, Twins
  <2> QED BY <1>0, <2>2, <2>5, <2>7 DEF ResultInv, CallInv
<1>11. CASE Create
  BY <1>11, OutsideKeeps DEF Create
<1>12. CASE Run
  BY <1>12, OutsideKeeps DEF Run
<1>13. CASE SetMinimize
  BY <1>13, OutsideKeeps DEF SetMinimize
<1>14. CASE UNCHANGED apiVars
  BY <1>14, OutsideKeeps DEF apiVars, inputs, core
<1> QED
  BY <1>1, <1>2, <1>3, <1>4, <1>5, <1>7, <1>8, <1>9, <1>10, <1>11, <1>12, <1>13, <1>14
  DEF ApiNext

(* Whatever the objective, the direction, the warm starts and the sequence  *)
(* of runs, each result is in the user's sign the objective at its solution *)
(* or, with the cache on, at one with the same key, is at least as good as  *)
(* the warm starts, and names its own reason.                               *)
THEOREM ResultAlwaysFaithful == ApiSpec => []ResultFaithful
<1>1. ResultInv => ResultFaithful
  BY DEF ResultInv
<1> QED BY <1>1, CallInvInit, ResultInvStep, PTL DEF ApiSpec

-----------------------------------------------------------------------------
(* The estimator.                                                          *)

Better(a, b) == IF owner.direction = "maximize" THEN a > b ELSE a < b

HoldsBest ==
  /\ history = <<>> <=> owner.x = "None"
  /\ \A i \in 1..Len(history) : ~Better(history[i].fun, owner.fun)
  /\ history # <<>> =>
       \E i \in 1..Len(history) :
         /\ history[i].fun = owner.fun /\ history[i].x = owner.x
         /\ \A j \in 1..(i - 1) : Better(owner.fun, history[j].fun)
  /\ \A i \in 1..Len(history) : history[i].direction = owner.direction

\* The direction of the estimator is that of its runs until it is set.
OwnerType == [minimize : BOOLEAN, direction : Directions, fun : Int, set : BOOLEAN,
              x : Solutions \cup {Zeros, "None"}]
OwnerInv ==
  /\ owner \in OwnerType
  /\ session.door = "estimator" /\ ~owner.set =>
       /\ HoldsBest
       /\ stage \in {"create", "refused"} => history = <<>>
       /\ stage \notin {"create", "refused"} =>
            (owner.minimize <=> owner.direction = "minimize")
       /\ stage = "warm" => direction = owner.direction
       /\ stage # "arguments"

EstimatorInv == ResultInv /\ OwnerInv

\* The estimator's best, said of its owner.
LEMMA HoldsBestIsEstimatorBest ==
  (session.door = "estimator" /\ ~owner.set => HoldsBest) => EstimatorBest
BY DEF HoldsBest, EstimatorBest, Better

\* An estimator begins without a best.
LEMMA OwnerInvInit == ApiInit => OwnerInv
<1> SUFFICES ASSUME ApiInit PROVE OwnerInv
  OBVIOUS
<1>1. history = <<>> /\ owner.x = "None" /\ owner \in OwnerType
  BY Finite DEF ApiInit, OwnerType, Directions
<1>2. HoldsBest
  BY <1>1 DEF HoldsBest
<1>3. session.door = "estimator" => stage = "create"
  BY DEF ApiInit
<1> QED BY <1>1, <1>2, <1>3 DEF OwnerInv

\* A step that leaves history and owner alone keeps the best.
LEMMA OwnerKept ==
  ASSUME OwnerInv, UNCHANGED <<session, history, owner>>
  PROVE  owner' \in OwnerType /\ (HoldsBest' <=> HoldsBest)
BY DEF OwnerInv, HoldsBest, Better

\* Every step keeps the estimator's best.
LEMMA OwnerInvStep == EstimatorInv /\ [ApiNext]_apiVars => OwnerInv'
<1> SUFFICES ASSUME EstimatorInv, [ApiNext]_apiVars PROVE OwnerInv'
  OBVIOUS
<1>0. CallInv /\ OwnerInv
  BY DEF EstimatorInv, ResultInv
<1>1. CASE CliUsage
  BY <1>0, <1>1, OwnerKept DEF CliUsage, Exit, OwnerInv, inputs
<1>2. CASE CliFails
  BY <1>0, <1>2, OwnerKept DEF CliFails, Exit, OwnerInv, inputs
<1>3. CASE CliCalls
  BY <1>0, <1>3, OwnerKept DEF CliCalls, OwnerInv, inputs
<1>4. CASE Reject
  <2>1. stage' \notin {"create", "refused", "warm", "arguments"}
    BY <1>4 DEF Reject, Raise, Exit
  <2> QED BY <1>0, <1>4, <2>1, OwnerKept DEF Reject, OwnerInv, inputs
<1>5. CASE Call
  <2>1. session.door = "estimator" =>
          direction' = IF owner.minimize THEN "minimize" ELSE "maximize"
    BY <1>5 DEF Call, CallDirection
  <2>2. owner.direction \in {"minimize", "maximize"}
    BY <1>0 DEF OwnerInv, OwnerType, Directions
  <2> QED BY <1>0, <1>5, <2>1, <2>2, OwnerKept DEF Call, OwnerInv, inputs
<1>6. CASE WarmStart
  BY <1>0, <1>6, OwnerKept DEF WarmStart, Offer, OwnerInv, inputs
<1>7. CASE Fatal
  <2>1. stage' \notin {"create", "refused", "warm", "arguments"} /\ stage = "warm"
    BY <1>7 DEF Fatal, Raise, Exit
  <2> QED BY <1>0, <1>7, <2>1, OwnerKept DEF Fatal, OwnerInv, inputs
<1>8. ASSUME NEW s \in Solutions, Search(s) PROVE OwnerInv'
  BY <1>0, <1>8, OwnerKept DEF Search, Offer, OwnerInv, inputs
<1>9. CASE Return
  <2>1. PICK m \in Messages : history' = Append(history, ResultOf(m)) /\ Keep(ResultOf(m))
    BY <1>9 DEF Return
  <2> DEFINE r == ResultOf(m)
             n == Len(history)
  <2>2. stage = "warm" /\ session' = session
        /\ stage' \notin {"create", "refused", "warm", "arguments"}
    BY <1>9 DEF Return, inputs, Exit
  <2>3. r \in Result /\ r.direction = direction
    BY <1>0, <2>2, ResultIsFaithful DEF CallInv, ResultOf
  <2>4. history \in Seq(Result) /\ owner \in OwnerType
    BY <1>0 DEF CallInv, OwnerInv
  <2>5. history' = Append(history, r) /\ Keep(r)
    BY <2>1
  <2> HIDE DEF r
  <2>6. r.fun \in Int /\ owner.fun \in Int /\ r.x \in Solutions \cup {Zeros}
    BY <2>3, <2>4 DEF Result, OwnerType
  <2>7. r.x # "None"
    BY <2>6, ApiAssumption DEF Zeros
  <2>8. owner' = owner \/ owner' = [owner EXCEPT !.x = r.x, !.fun = r.fun]
    BY <2>5 DEF Keep
  <2>9. /\ owner' \in OwnerType /\ owner'.set = owner.set
        /\ owner'.direction = owner.direction /\ owner'.minimize = owner.minimize
    BY <2>4, <2>6, <2>8 DEF OwnerType
  <2>10. ASSUME session.door = "estimator", ~owner.set PROVE HoldsBest'
    <3>1. HoldsBest /\ direction = owner.direction
      BY <1>0, <2>2, <2>10 DEF OwnerInv
    <3>2. /\ Len(history') = n + 1 /\ n \in Nat /\ history'[n + 1] = r
          /\ \A i \in 1..n : history'[i] = history[i] /\ history[i].fun \in Int
      <4>1. Len(history') = n + 1 /\ n \in Nat /\ history'[n + 1] = r
        BY <2>4, <2>5
      <4>2. \A i \in 1..n : history'[i] = history[i] /\ history[i] \in Result
        BY <2>4, <2>5
      <4> QED BY <4>1, <4>2 DEF Result
    <3>3. \A i \in 1..(n + 1) : i \in 1..n \/ i = n + 1
      BY <3>2
    <3>4. history = <<>> <=> n = 0
      BY <2>4
    <3> HIDE DEF n
    <3>5. \A i \in 1..Len(history') : history'[i].direction = owner'.direction
      <4>1. \A i \in 1..n : history[i].direction = owner.direction
        BY <3>1 DEF HoldsBest, n
      <4> QED BY <2>3, <2>9, <3>1, <3>2, <3>3, <4>1
    <3>6. CASE owner.x = "None" \/ IsBetter(r.fun)
      <4>1. owner'.x = r.x /\ owner'.fun = r.fun
        BY <2>4, <2>5, <2>10, <3>6 DEF Keep, OwnerType
      <4>2. \A i \in 1..n : Better(r.fun, history[i].fun)
        <5> SUFFICES ASSUME NEW i \in 1..n PROVE Better(r.fun, history[i].fun)
          OBVIOUS
        <5>1. owner.x # "None"
          BY <3>1, <3>2, <3>4 DEF HoldsBest
        <5>2. Better(r.fun, owner.fun)
          BY <3>6, <5>1 DEF IsBetter, Better
        <5>3. ~Better(history[i].fun, owner.fun)
          BY <3>1 DEF HoldsBest, n
        <5> QED BY <2>6, <3>2, <5>2, <5>3 DEF Better
      <4>4. \A i \in 1..(n + 1) : ~Better(history[i].fun, owner.fun)'
        <5> SUFFICES ASSUME NEW i \in 1..(n + 1) PROVE ~Better(history[i].fun, owner.fun)'
          OBVIOUS
        <5>1. CASE i = n + 1
          BY <2>6, <2>9, <3>2, <4>1, <5>1 DEF Better
        <5>2. CASE i \in 1..n
          BY <2>6, <2>9, <3>2, <4>1, <4>2, <5>2 DEF Better
        <5> QED BY <3>3, <5>1, <5>2
      <4>5. \A j \in 1..n : Better(owner.fun, history[j].fun)'
        BY <2>9, <3>2, <4>1, <4>2 DEF Better
      <4>6. n + 1 \in 1..(n + 1) /\ (n + 1) - 1 = n
        BY <3>2
      <4>7. \E i \in 1..(n + 1) :
              /\ history'[i].fun = owner'.fun /\ history'[i].x = owner'.x
              /\ \A j \in 1..(i - 1) : Better(owner.fun, history[j].fun)'
        BY <3>2, <4>1, <4>5, <4>6
      <4>8. history' # <<>> /\ owner'.x # "None"
        BY <2>5, <2>7, <3>2, <4>1
      <4> QED BY <3>2, <3>5, <4>4, <4>7, <4>8 DEF HoldsBest
    <3>7. CASE ~(owner.x = "None" \/ IsBetter(r.fun))
      <4>1. owner' = owner
        BY <2>5, <3>7 DEF Keep
      <4>2. \A i \in 1..(n + 1) : ~Better(history[i].fun, owner.fun)'
        <5> SUFFICES ASSUME NEW i \in 1..(n + 1) PROVE ~Better(history[i].fun, owner.fun)'
          OBVIOUS
        <5>1. CASE i = n + 1
          BY <3>2, <3>7, <4>1, <5>1 DEF Better, IsBetter
        <5>2. CASE i \in 1..n
          BY <3>1, <3>2, <4>1, <5>2 DEF Better, HoldsBest, n
        <5> QED BY <3>3, <5>1, <5>2
      <4>3. history # <<>> /\ owner'.x # "None" /\ history' # <<>>
        BY <2>5, <3>1, <3>2, <3>7, <4>1 DEF HoldsBest
      <4>4. PICK i \in 1..n :
              /\ history[i].fun = owner.fun /\ history[i].x = owner.x
              /\ \A j \in 1..(i - 1) : Better(owner.fun, history[j].fun)
        BY <3>1, <4>3 DEF HoldsBest, n
      <4>5. \A j \in 1..(i - 1) : j \in 1..n
        BY <3>2
      <4>6. \A j \in 1..(i - 1) : Better(owner.fun, history[j].fun)'
        BY <3>2, <4>1, <4>4, <4>5 DEF Better
      <4>7. i \in 1..(n + 1) /\ history'[i].fun = owner'.fun /\ history'[i].x = owner'.x
        BY <3>2, <4>1, <4>4
      <4> QED BY <3>2, <3>5, <4>2, <4>3, <4>6, <4>7 DEF HoldsBest
    <3> QED BY <3>6, <3>7
  <2> QED BY <1>0, <2>2, <2>9, <2>10 DEF OwnerInv
<1>10. CASE Create
  <2>1. stage = "create" /\ session' = session /\ history' = history
        /\ stage' \in {"ready", "refused"}
    BY <1>10 DEF Create, inputs
  <2>2. CASE stage' = "refused"
    <3>1. owner' = owner
      BY <1>10, <2>2 DEF Create
    <3> QED BY <1>0, <2>1, <2>2, <3>1, OwnerKept DEF OwnerInv
  <2>3. CASE stage' = "ready"
    <3> DEFINE d == Resolve(Args.minimize, Args.direction)
    <3>1. d # "error" /\ d \in Directions
      BY <1>10, <2>3, ResolvedIsDirection DEF Create
    <3>2. owner' = [owner EXCEPT !.minimize = (d = "minimize"), !.direction = d,
                                 !.fun = IF d = "maximize" THEN -Infinity ELSE Infinity]
      BY <1>10, <2>3, <3>1 DEF Create
    <3> HIDE DEF d
    <3>3. /\ owner' \in OwnerType /\ owner'.x = owner.x /\ owner'.set = owner.set
          /\ owner'.minimize <=> owner'.direction = "minimize"
      <4> DEFINE w == IF d = "maximize" THEN -Infinity ELSE Infinity
      <4>1. w \in Int /\ owner \in OwnerType
        BY <1>0, Finite DEF OwnerInv
      <4>2. owner' = [owner EXCEPT !.minimize = (d = "minimize"), !.direction = d, !.fun = w]
        BY <3>2
      <4> HIDE DEF w
      <4>3. /\ owner' \in OwnerType /\ owner'.x = owner.x /\ owner'.set = owner.set
            /\ owner'.direction = d
        BY <3>1, <4>1, <4>2 DEF OwnerType
      <4>4. owner'.minimize = (d = "minimize")
        BY <4>1, <4>2 DEF OwnerType
      <4> QED BY <4>3, <4>4
    <3>4. ASSUME session.door = "estimator", ~owner.set PROVE HoldsBest'
      <4>1. history = <<>> /\ owner.x = "None"
        BY <1>0, <2>1, <3>4 DEF OwnerInv, HoldsBest
      <4> QED BY <2>1, <3>3, <4>1 DEF HoldsBest
    <3> QED BY <2>1, <2>3, <3>3, <3>4 DEF OwnerInv
  <2> QED BY <2>1, <2>2, <2>3
<1>11. CASE Run
  BY <1>0, <1>11, OwnerKept DEF Run, OwnerInv, inputs
<1>12. CASE SetMinimize
  <2>1. owner' \in OwnerType /\ owner'.set
    BY <1>0, <1>12 DEF SetMinimize, OwnerInv, OwnerType
  <2> QED BY <2>1 DEF OwnerInv
<1>13. CASE UNCHANGED apiVars
  BY <1>0, <1>13, OwnerKept DEF apiVars, OwnerInv, inputs
<1> QED
  BY <1>1, <1>2, <1>3, <1>4, <1>5, <1>6, <1>7, <1>8, <1>9, <1>10, <1>11, <1>12, <1>13
  DEF ApiNext

(* Over any sequence of runs the estimator holds the best of its history,   *)
(* unless minimize was set after its creation.                              *)
THEOREM EstimatorAlwaysBest == ApiSpec => []EstimatorBest
<1>1. ApiInit => EstimatorInv
  BY CallInvInit, OwnerInvInit DEF EstimatorInv
<1>2. EstimatorInv /\ [ApiNext]_apiVars => EstimatorInv'
  BY ResultInvStep, OwnerInvStep DEF EstimatorInv
<1>3. EstimatorInv => EstimatorBest
  BY HoldsBestIsEstimatorBest DEF EstimatorInv, OwnerInv
<1> QED BY <1>1, <1>2, <1>3, PTL DEF ApiSpec

-----------------------------------------------------------------------------
(* The command line, and the types.                                        *)

Stages == {"arguments", "create", "ready", "call", "warm",
           "returned", "raised", "refused", "exited"}

\* Warm starts are offered once each, and only an estimator runs twice.
RunInv ==
  /\ stage \in Stages /\ direction \in Directions
  /\ warm \in Seq(Solutions) /\ offered \subseteq Solutions
  /\ \A i, j \in 1..Len(warm) : warm[i] = warm[j] => i = j
  /\ stage = "warm" => \A i \in 1..Len(warm) : warm[i] \notin offered
  /\ exit \in {-1, 0, 1, 2} /\ Len(history) <= MaxRuns
  /\ stage \in {"call", "warm"} =>
       IF session.door = "estimator" THEN Len(history) < MaxRuns ELSE history = <<>>
  /\ stage = "arguments" => session.door = "cli"

\* The keys a usage error is about.
KeyMissing == \E k \in {"func", "bounds"} :
                session.flags[k] = "absent" /\ session.json[k] = "absent"
\* The direction the command line asks for.
Wanted == LET flag == session.flags["direction"]
              json == session.json["direction"]
          IN  IF flag \in Directions THEN flag
              ELSE IF json \in Directions THEN json ELSE "minimize"

CliInv ==
  session.door = "cli" =>
    /\ stage \in {"arguments", "call", "warm", "exited"}
    /\ stage = "arguments" => offered = {} /\ history = <<>>
    /\ stage \in {"call", "warm"} => CliReady
    /\ stage = "warm" => direction = Resolve("None", CliDirection)
    /\ stage # "exited" => exit = -1
    /\ exit = 0 <=> history # <<>>
    /\ exit = 2 => /\ offered = {}
                   /\ session.wellFormed /\ session.flags["direction"] # "bad" => KeyMissing
    /\ exit = 0 => history[1].direction = Wanted

DoorInv == ResultInv /\ RunInv /\ CliInv

\* The directions a command line can pass on.
LEMMA ResolvedAlone ==
  /\ Resolve("None", "minimize") = "minimize"
  /\ Resolve("None", "maximize") = "maximize"
  /\ Resolve("None", "None") = "minimize"
  /\ Resolve("None", "bogus") = "error"
<1>1. Resolve("None", "minimize") = "minimize"
  BY DEF Resolve, Directions
<1>2. Resolve("None", "maximize") = "maximize"
  BY DEF Resolve, Directions
<1>3. Resolve("None", "None") = "minimize"
  BY DEF Resolve, Directions, Named
<1>4. Resolve("None", "bogus") = "error"
  BY DEF Resolve, Directions, Named
<1> QED BY <1>1, <1>2, <1>3, <1>4

\* A call resolves the direction of the flag, without one that of --json.
LEMMA FlagDecides ==
  ASSUME session \in Sessions, CliReady, Resolve("None", CliDirection) # "error"
  PROVE  Resolve("None", CliDirection) = Wanted
<1> DEFINE flag == session.flags["direction"]
           json == session.json["direction"]
           said == IF flag # "absent" THEN flag ELSE json
<1>1. session.flags \in Flags /\ session.json \in Json
  BY ApiAssumption
<1>2. flag \in {"absent", "given", "bad"} \cup Directions
  BY <1>1 DEF Flags, Said, CliKeys
<1>3. json \in Said
  BY <1>1 DEF Json, CliKeys
<1>4. /\ said \in Directions => CliDirection = said
      /\ said = "absent" => CliDirection = "minimize"
      /\ said = "null" => CliDirection = "None"
      /\ said \in {"given", "other", "bad"} => CliDirection = "bogus"
  BY DEF CliDirection, Merged, Directions
<1>5. Wanted = IF flag \in Directions THEN flag
               ELSE IF json \in Directions THEN json ELSE "minimize"
  BY DEF Wanted
<1> HIDE DEF flag, json
<1>6. CASE flag \in Directions
  BY <1>4, <1>5, <1>6, ResolvedAlone DEF Directions
<1>7. CASE flag = "absent"
  BY <1>3, <1>4, <1>5, <1>7, ResolvedAlone DEF Directions, Said
<1>8. CASE flag \in {"given", "bad"}
  BY <1>4, <1>8, ResolvedAlone DEF Directions
<1> QED BY <1>2, <1>6, <1>7, <1>8

\* Init establishes them.
LEMMA DoorInvInit == ApiInit => DoorInv
<1> SUFFICES ASSUME ApiInit PROVE DoorInv
  OBVIOUS
<1>1. /\ stage \in Stages /\ direction = "minimize" /\ warm = <<>> /\ offered = {}
      /\ exit = -1 /\ history = <<>>
      /\ session.door = "cli" => stage = "arguments"
  BY DEF ApiInit, Stages
<1>2. MaxRuns \in Nat \ {0}
  BY ApiAssumption
<1>3. RunInv
  <2>1. Len(<<>>) = 0 /\ warm \in Seq(Solutions) /\ Len(warm) = 0
    BY <1>1
  <2>2. Len(history) <= MaxRuns /\ Len(history) < MaxRuns
    BY <1>1, <1>2, <2>1
  <2>3. stage = "arguments" => session.door = "cli"
    BY DEF ApiInit
  <2> QED BY <1>1, <2>1, <2>2, <2>3 DEF RunInv, Directions
<1>4. CliInv
  BY <1>1 DEF CliInv
<1> QED BY <1>3, <1>4, CallInvInit DEF DoorInv

\* The actions that neither offer nor return.
LEMMA RunKept ==
  ASSUME RunInv, UNCHANGED <<inputs, direction, core, history>>,
         stage' \in Stages, exit' \in {exit, 0, 1, 2},
         stage' \in {"call", "warm"} =>
           IF session.door = "estimator" THEN Len(history) < MaxRuns ELSE history = <<>>,
         stage' = "warm" => stage = "warm",
         stage' = "arguments" => stage = "arguments"
  PROVE  RunInv'
<1>1. /\ session' = session /\ direction' = direction /\ warm' = warm
      /\ offered' = offered /\ history' = history
  BY DEF inputs, core
<1>2. stage' = "warm" => \A i \in 1..Len(warm) : warm[i] \notin offered
  BY DEF RunInv
<1> QED BY <1>1, <1>2 DEF RunInv

\* Every step keeps what the doors know of a run.
LEMMA RunInvStep == DoorInv /\ [ApiNext]_apiVars => RunInv'
<1> SUFFICES ASSUME DoorInv, [ApiNext]_apiVars PROVE RunInv'
  OBVIOUS
<1>0. RunInv /\ CliInv /\ CallInv
  BY DEF DoorInv, ResultInv
<1>1. CASE CliUsage
  BY <1>0, <1>1, RunKept DEF CliUsage, Exit, Stages
<1>2. CASE CliFails
  BY <1>0, <1>2, RunKept DEF CliFails, Exit, Stages
<1>3. CASE CliCalls
  <2>1. session.door = "cli" /\ history = <<>>
    BY <1>0, <1>3 DEF CliCalls, CliInv, RunInv
  <2> QED BY <1>0, <1>3, <2>1, RunKept DEF CliCalls, Stages
<1>4. CASE Reject
  BY <1>0, <1>4, RunKept DEF Reject, Raise, Exit, Stages
<1>5. CASE Call
  <2>1. /\ session' = session /\ history' = history /\ exit' = exit
        /\ stage = "call" /\ stage' = "warm" /\ offered' = {} /\ warm' = Guesses
        /\ direction' \in Directions /\ GuessesValid
    BY <1>5, CallDirectionIsDirection DEF Call, inputs
  <2>2. Guesses \in Seq(Solutions)
    BY <1>0, <2>1, ValidGuesses DEF CallInv
  <2>3. \A i, j \in 1..Len(Guesses) : Guesses[i] = Guesses[j] => i = j
    BY <2>1 DEF GuessesValid
  <2> QED BY <1>0, <2>1, <2>2, <2>3 DEF RunInv, Stages
<1>6. CASE WarmStart
  <2>1. /\ warm \in Seq(Solutions) /\ warm # <<>> /\ stage = "warm" /\ stage' = stage
        /\ \A i, j \in 1..Len(warm) : warm[i] = warm[j] => i = j
        /\ \A i \in 1..Len(warm) : warm[i] \notin offered
    BY <1>0, <1>6 DEF WarmStart, RunInv
  <2>2. /\ session' = session /\ history' = history /\ exit' = exit /\ direction' = direction
        /\ warm' = Tail(warm) /\ offered' = offered \cup {Head(warm)}
    BY <1>6 DEF WarmStart, Offer, inputs
  <2>3. /\ Head(warm) = warm[1] /\ Head(warm) \in Solutions
        /\ Len(warm') = Len(warm) - 1 /\ Len(warm) \in Nat \ {0}
        /\ \A i \in 1..Len(warm') : warm'[i] = warm[i + 1] /\ i + 1 \in 1..Len(warm)
        /\ warm' \in Seq(Solutions)
    BY <2>1, <2>2
  <2>4. \A i, j \in 1..Len(warm') : warm'[i] = warm'[j] => i = j
    BY <2>1, <2>3
  <2>5. \A i \in 1..Len(warm') : warm'[i] \notin offered'
    BY <2>1, <2>2, <2>3
  <2>6. offered' \subseteq Solutions
    BY <1>0, <2>2, <2>3 DEF RunInv
  <2> QED BY <1>0, <2>1, <2>2, <2>3, <2>4, <2>5, <2>6 DEF RunInv
<1>7. CASE Fatal
  BY <1>0, <1>7, RunKept DEF Fatal, Raise, Exit, Stages
<1>8. ASSUME NEW s \in Solutions, Search(s) PROVE RunInv'
  <2>1. /\ stage = "warm" /\ warm = <<>> /\ warm' = warm /\ stage' = stage
        /\ session' = session /\ history' = history /\ exit' = exit /\ direction' = direction
        /\ offered' = offered
    BY <1>8 DEF Search, Offer, inputs
  <2> QED BY <1>0, <2>1 DEF RunInv
<1>9. CASE Return
  <2>1. PICK m \in Messages : history' = Append(history, ResultOf(m))
    BY <1>9 DEF Return
  <2>2. /\ stage = "warm" /\ warm' = warm /\ offered' = offered /\ session' = session
        /\ direction' = direction /\ stage' \in {"returned", "exited"}
        /\ exit' = exit \/ exit' = 0
    BY <1>9 DEF Return, Exit, inputs, core
  <2>3. history \in Seq(Result) /\ MaxRuns \in Nat \ {0}
    BY <1>0, ApiAssumption DEF CallInv
  <2>4. Len(history) < MaxRuns
    BY <1>0, <2>2, <2>3 DEF RunInv
  <2>5. Len(history') <= MaxRuns
    BY <2>1, <2>3, <2>4
  <2> QED BY <1>0, <2>2, <2>5 DEF RunInv, Stages
<1>10. CASE Create
  BY <1>0, <1>10, RunKept DEF Create, Stages, RunInv
<1>11. CASE Run
  BY <1>0, <1>11, RunKept DEF Run, Stages, RunInv
<1>12. CASE SetMinimize
  BY <1>0, <1>12, RunKept DEF SetMinimize, Stages, RunInv
<1>13. CASE UNCHANGED apiVars
  BY <1>0, <1>13 DEF apiVars, inputs, RunInv
<1> QED
  BY <1>1, <1>2, <1>3, <1>4, <1>5, <1>6, <1>7, <1>8, <1>9, <1>10, <1>11, <1>12, <1>13
  DEF ApiNext

\* The inputs are never assigned.
LEMMA SessionKept == [ApiNext]_apiVars => session' = session
<1> SUFFICES ASSUME [ApiNext]_apiVars PROVE session' = session
  OBVIOUS
<1>1. CASE CliUsage \/ CliFails \/ CliCalls \/ Reject \/ Call
  BY <1>1 DEF CliUsage, CliFails, CliCalls, Reject, Call, inputs
<1>2. CASE WarmStart \/ (\E s \in Solutions : Search(s))
  BY <1>2 DEF WarmStart, Search, Offer, inputs
<1>3. CASE Fatal \/ Return
  BY <1>3 DEF Fatal, Return, inputs
<1>4. CASE Create \/ Run \/ SetMinimize
  BY <1>4 DEF Create, Run, SetMinimize, inputs
<1>5. CASE UNCHANGED apiVars
  BY <1>5 DEF apiVars
<1> QED BY <1>1, <1>2, <1>3, <1>4, <1>5 DEF ApiNext

\* Every step keeps what the command line knows of its exit.
LEMMA CliInvStep == DoorInv /\ [ApiNext]_apiVars => CliInv'
<1> SUFFICES ASSUME DoorInv, [ApiNext]_apiVars, session.door = "cli", session' = session
             PROVE CliInv'
  BY SessionKept DEF CliInv
<1>0. RunInv /\ CliInv /\ CallInv
  BY DEF DoorInv, ResultInv
<1> DEFINE Missing == KeyMissing
           Ready == CliReady
           Resolved == Resolve("None", CliDirection)
<1>a. Ready' = Ready /\ Missing' = Missing /\ Wanted' = Wanted /\ Resolved' = Resolved
  BY DEF CliReady, Merged, CliDirection, KeyMissing, Wanted
<1>b. CliInv' <=>
        /\ stage' \in {"arguments", "call", "warm", "exited"}
        /\ stage' = "arguments" => offered' = {} /\ history' = <<>>
        /\ stage' \in {"call", "warm"} => Ready
        /\ stage' = "warm" => direction' = Resolved
        /\ stage' # "exited" => exit' = -1
        /\ exit' = 0 <=> history' # <<>>
        /\ exit' = 2 => /\ offered' = {}
                        /\ session.wellFormed /\ session.flags["direction"] # "bad" => Missing
        /\ exit' = 0 => history'[1].direction = Wanted
  BY <1>a DEF CliInv
<1>c. /\ stage \in {"arguments", "call", "warm", "exited"}
      /\ stage = "arguments" => offered = {} /\ history = <<>>
      /\ stage \in {"call", "warm"} => Ready
      /\ stage = "warm" => direction = Resolved
      /\ stage # "exited" => exit = -1
      /\ exit = 0 <=> history # <<>>
      /\ exit = 2 => /\ offered = {}
                     /\ session.wellFormed /\ session.flags["direction"] # "bad" => Missing
      /\ exit = 0 => history[1].direction = Wanted
  BY <1>0 DEF CliInv
<1> HIDE DEF Missing, Ready, Resolved
<1>1. CASE CliUsage
  <2>1. session.wellFormed /\ session.flags["direction"] # "bad" => Missing
    BY <1>1 DEF CliUsage, Missing, KeyMissing, Merged
  <2>2. /\ stage = "arguments" /\ stage' = "exited" /\ exit' = 2
        /\ offered' = offered /\ history' = history
    BY <1>1 DEF CliUsage, Exit, core
  <2> QED BY <1>b, <1>c, <2>1, <2>2
<1>2. CASE CliFails
  <2>1. /\ stage = "arguments" /\ stage' = "exited" /\ exit' = 1 /\ history' = history
    BY <1>2 DEF CliFails, Exit
  <2> QED BY <1>b, <1>c, <2>1
<1>3. CASE CliCalls
  <2>1. /\ stage = "arguments" /\ stage' = "call" /\ exit' = exit /\ history' = history
        /\ Ready
    BY <1>3 DEF CliCalls, Ready
  <2> QED BY <1>b, <1>c, <2>1
<1>4. CASE Reject
  <2>1. stage = "call" /\ stage' = "exited" /\ exit' = 1 /\ history' = history
    BY <1>4 DEF Reject, Raise, Exit
  <2> QED BY <1>b, <1>c, <2>1
<1>5. CASE Call
  <2>1. /\ stage = "call" /\ stage' = "warm" /\ exit' = exit /\ history' = history
        /\ direction' = Resolved
    BY <1>5 DEF Call, CallDirection, Resolved
  <2> QED BY <1>b, <1>c, <2>1
<1>6. CASE WarmStart
  <2>1. /\ stage = "warm" /\ stage' = stage /\ exit' = exit /\ history' = history
        /\ direction' = direction
    BY <1>6 DEF WarmStart, Offer
  <2> QED BY <1>b, <1>c, <2>1
<1>7. CASE Fatal
  <2>1. stage = "warm" /\ stage' = "exited" /\ exit' = 1 /\ history' = history
    BY <1>7 DEF Fatal, Raise, Exit
  <2> QED BY <1>b, <1>c, <2>1
<1>8. ASSUME NEW s \in Solutions, Search(s) PROVE CliInv'
  <2>1. /\ stage = "warm" /\ stage' = stage /\ exit' = exit /\ history' = history
        /\ direction' = direction
    BY <1>8 DEF Search, Offer
  <2> QED BY <1>b, <1>c, <2>1
<1>9. CASE Return
  <2>1. PICK m \in Messages : history' = Append(history, ResultOf(m))
    BY <1>9 DEF Return
  <2>2. stage = "warm" /\ stage' = "exited" /\ exit' = 0
    BY <1>9 DEF Return, Exit
  <2>3. history = <<>> /\ history' = <<ResultOf(m)>>
    BY <1>c, <2>1, <2>2
  <2>4. history' # <<>> /\ history'[1].direction = direction
    BY <2>3 DEF ResultOf
  <2>5. Resolved # "error" /\ Resolved = direction
    BY <1>0, <1>c, <2>2 DEF RunInv, Directions
  <2>6. Resolved = Wanted
    BY <1>0, <1>c, <2>2, <2>5, FlagDecides DEF Resolved, Ready, CallInv
  <2> QED BY <1>b, <1>c, <2>2, <2>4, <2>5, <2>6
<1>10. CASE Create
  BY <1>c, <1>10 DEF Create
<1>11. CASE Run
  BY <1>11 DEF Run
<1>12. CASE SetMinimize
  BY <1>12 DEF SetMinimize
<1>13. CASE UNCHANGED apiVars
  <2>1. /\ stage' = stage /\ offered' = offered /\ history' = history /\ exit' = exit
        /\ direction' = direction
    BY <1>13 DEF apiVars
  <2> QED BY <1>b, <1>c, <2>1
<1> QED
  BY <1>1, <1>2, <1>3, <1>4, <1>5, <1>6, <1>7, <1>8, <1>9, <1>10, <1>11, <1>12, <1>13
  DEF ApiNext

(* Whatever the session, a command line ends with status 0 only with a      *)
(* result and with 2 only for bad usage, its result has the direction of    *)
(* the flag, or else that of --json, and the warm starts offered through    *)
(* any door are different.                                                  *)
THEOREM CliAlwaysFaithful == ApiSpec => []CliFaithful
<1>1. RunInv => ApiTypeOK
  BY DEF RunInv, ApiTypeOK, Stages
<1>2. CliInv /\ RunInv => CliFaithful
  BY <1>1 DEF CliInv, CliFaithful, KeyMissing, Wanted
<1>3. DoorInv /\ [ApiNext]_apiVars => DoorInv'
  BY ResultInvStep, RunInvStep, CliInvStep DEF DoorInv
<1>4. DoorInv => CliFaithful
  BY <1>2 DEF DoorInv
<1> QED BY <1>3, <1>4, DoorInvInit, PTL DEF ApiSpec

===============================================================================
