-------------------------------- MODULE RRun --------------------------------
(***************************************************************************)
(* A run of the R port.  Its own: values keep the user's direction, so     *)
(* that a failed evaluation, infinity, is the best value there is when     *)
(* maximizing; the elite pool has no distance test; the monitor's first    *)
(* update only looks; the deadline is read at the head of the loop alone,  *)
(* after the iteration has been counted.                                   *)
(***************************************************************************)
EXTENDS PortRun

-----------------------------------------------------------------------------
(* Searches.                                                               *)

\* "is.finite(value) && is_improvement(value, best_value, direction)".
RImproves(v, w) == Finite(v) /\ Better(v, w)

\* vnd_search moves one coordinate at a time.
RNeighbours == [s \in Solutions |-> Moved(s, 1, Bounds)]

RDescents ==
  [f \in Prices |-> [up \in BOOLEAN |-> [s \in Solutions |->
     Descended(f, s, RNeighbours, up)]]]

RVnd(s) == RDescents[price][config.maximize][s]

\* perturbation_strength variables are moved, here all of them.
RPerturbed(s) == Moved(s, Len(Bounds), Bounds)

RTried(f, up, h) ==
  {t \in UNION {RDescents[f][up][q] : q \in RPerturbed(h.sol)} :
     Finite(f[t]) /\ Beats(f[t], h.cost, up)}

RSearches ==
  [f \in Prices |-> [up \in BOOLEAN |-> [s \in Solutions |->
     Reached({PricedBy(f, s)},
             [h \in Entry |-> {PricedBy(f, t) : t \in RTried(f, up, h)}],
             IlsIterations)]]]

RIls(e) == RSearches[price][config.maximize][e.sol]

\* The points between s and t, coordinate by coordinate.
RBetween(s, t) ==
  {u \in Box : \A i \in Coords : u[i] \in (s[i]..t[i]) \cup (t[i]..s[i])}

\* path_relink_forward: the straight line from s to t, both ends included.
RForward(s, t) ==
  {u \in RBetween(s, t) :
     /\ u = s \/ RImproves(price[u], price[s])
     /\ ~RImproves(price[t], price[u])}

\* The way back only if it ends better.
RBothWays(s, t) ==
  {u \in RForward(s, t) :
     \E v \in RForward(t, s) : ~RImproves(price[v], price[u])}
  \cup {v \in RForward(t, s) :
          \E u \in RForward(s, t) : RImproves(price[v], price[u])}

RRelinked(s, t) ==
  CASE config.strategy = "bidirectional" -> RBothWays(s, t)
    [] config.strategy = "forward"       -> RForward(s, t)
    [] config.strategy = "backward"      -> RForward(t, s)
    [] config.strategy = "randomized"    -> RForward(s, t) \cup RForward(t, s)

-----------------------------------------------------------------------------
(* Construction.                                                           *)

\* The restricted list among the finite candidates, in either direction.
RList(f, b, alpha, up) ==
  LET finite == {k \in Batch : Finite(f[b[k]])}
      losses == {Lost(f[b[k]], up) : k \in finite}
      low    == Least(losses)
      high   == CHOOSE v \in losses : \A w \in losses : w <= v
  IN  {k \in finite :
         AlphaUnit * (Lost(f[b[k]], up) - low) <= alpha * (high - low)}

\* "sample(finite_idx[rcl_rel], 1L)": sample of a single number k draws from
\* 1:k, and not from the vector that holds only k.
RSampled(list) ==
  {j \in Batch : \/ j \in list
                 \/ \E k \in list : list = {k} /\ j <= k}

\* Another random candidate if no candidate is finite.
RChoices(f, b, alpha, up) ==
  LET list == RList(f, b, alpha, up)
  IN  {[entry |-> PricedBy(f, b[k]), flaws |-> Pick(f, b, k, alpha, list, up)] :
         k \in RSampled(list)}
      \cup {[entry |-> PricedBy(f, s), flaws |-> {}] : s \in {u \in Box : list = {}}}

RConstructed ==
  [f \in Prices |-> [up \in BOOLEAN |->
     UNION {UNION {RChoices(f, b, alpha, up) : alpha \in Alphas} : b \in Batches(<<>>, Box)}]]

RConstructions == RConstructed[price][config.maximize]

-----------------------------------------------------------------------------
(* The elite pool of R: no distance test, the worst is cut off.            *)

RElites(q, e) ==
  LET ahead == Cardinality({i \in DOMAIN q : ~Better(e.cost, q[i].cost)})
  IN  KeepTop(InsertAfter(q, ahead, e), EliteSize)

\* "if (!is.null(elite) && is.finite(value))".
ROffer(e) ==
  items' = IF config.elitePool /\ Finite(e.cost) THEN RElites(items, e) ELSE items

-----------------------------------------------------------------------------
(* The stages.                                                             *)

\* The first guess is the incumbent whatever its value is.
RStart ==
  /\ pc = "start" /\ config.port = "r"
  /\ \/ guesses # <<>> /\ best' = Priced(guesses[1]) /\ UNCHANGED picked
     \/ /\ guesses = <<>>
        /\ \E c \in RConstructions : best' = c.entry /\ picked' = c.flaws
  /\ ROffer(best') /\ Met(best')
  /\ seeded' = 1 /\ pc' = "seed"
  /\ UNCHANGED <<inputs, price, spent, nit, ended, lastGain, stagnation, monitor,
                 late, cand, pool, relink, gaveUp, leaked>>

RSeed ==
  /\ pc = "seed" /\ config.port = "r"
  /\ \/ /\ seeded < Len(guesses)
        /\ LET e == Priced(guesses[seeded + 1])
           IN  /\ ROffer(e)
               /\ Challenge(e, RImproves(e.cost, best.cost), 0)
        /\ seeded' = seeded + 1 /\ UNCHANGED pc
     \/ /\ seeded >= Len(guesses)
        /\ pc' = "head" /\ seeded' = 0 /\ UNCHANGED <<incumbent, items>>
  /\ UNCHANGED <<inputs, price, spent, nit, ended, stagnation, monitor, late, cand,
                 pool, relink, history>>

\* "state$nit <- iter" comes before the test of the clock.
RExpired ==
  /\ pc = "head" /\ config.port = "r" /\ spent < MaxIterations /\ late
  /\ nit' = spent + 1
  /\ pc' = "done" /\ ended' = "time_limit"
  /\ UNCHANGED <<inputs, price, seeded, spent, incumbent, stagnation, monitor, late,
                 cand, elites, relink, history>>

RExhausted ==
  /\ pc = "head" /\ config.port = "r" /\ spent = MaxIterations
  /\ pc' = "done" /\ ended' = "max_iterations"
  /\ UNCHANGED <<inputs, price, seeded, spent, nit, incumbent, stagnation, monitor,
                 late, cand, elites, relink, history>>

RConstruct ==
  /\ pc = "head" /\ config.port = "r" /\ spent < MaxIterations /\ ~late
  /\ nit' = spent + 1
  /\ \E c \in RConstructions : cand' = c.entry /\ picked' = c.flaws
  /\ pc' = "vnd"
  /\ UNCHANGED <<inputs, price, seeded, spent, ended, incumbent, stagnation, monitor,
                 late, elites, relink, found, gaveUp, leaked>>

RDescend ==
  /\ pc = "vnd" /\ config.port = "r"
  /\ \E t \in RVnd(cand.sol) : cand' = Priced(t)
  /\ Met(cand') /\ picked' = {}
  /\ pc' = "ils"
  /\ UNCHANGED <<inputs, price, seeded, spent, nit, ended, incumbent, stagnation,
                 monitor, late, elites, relink, gaveUp, leaked>>

RSearch ==
  /\ pc = "ils" /\ config.port = "r"
  /\ cand' \in RIls(cand)
  /\ GiveUp(cand, cand')
  /\ pc' = "record"
  /\ UNCHANGED <<inputs, price, seeded, spent, nit, ended, incumbent, stagnation,
                 monitor, late, elites, relink, found, leaked, picked>>

RRecord ==
  /\ pc = "record" /\ config.port = "r"
  /\ LET gain == RImproves(cand.cost, best.cost)
     IN  /\ Challenge(cand, gain, spent + 1)
         /\ stagnation' = IF gain THEN 0 ELSE stagnation + 1
  /\ ROffer(cand)
  /\ cand' = Nothing
  /\ pc' = "relink"
  /\ UNCHANGED <<inputs, price, seeded, spent, nit, ended, monitor, late, pool,
                 relink, history>>

\* iter counts from 1.
RRelinkDue ==
  config.elitePool /\ Len(items) >= 2 /\ (spent + 1) % RelinkFrequency = 0

\* The best two only; the result does not enter the pool.
RRelink ==
  /\ pc = "relink" /\ config.port = "r"
  /\ \/ /\ RRelinkDue
        /\ \E u \in RRelinked(items[1].sol, items[2].sol) :
             LET gain == RImproves(price[u], best.cost)
             IN  /\ Challenge(Priced(u), gain, spent + 1)
                 /\ stagnation' = IF gain THEN 0 ELSE stagnation
                 /\ Met(Priced(u))
     \/ ~RRelinkDue /\ UNCHANGED <<incumbent, stagnation, found>>
  /\ pc' = "monitor"
  /\ UNCHANGED <<inputs, price, seeded, spent, nit, ended, monitor, late, cand,
                 elites, relink, gaveUp, leaked, picked>>

\* convergence_update: the first call only looks, whatever it sees.
RCounted ==
  IF bestEver = -1 \/ Better(best.cost, bestEver) THEN 0 ELSE noImprove + 1

RLastBest ==
  IF bestEver = -1 \/ Better(best.cost, bestEver) THEN best.cost ELSE bestEver

RRestartDue ==
  stagnation > IF Patience < RestartFloor THEN RestartFloor ELSE Patience

\* The monitor, and the early stop that skips the rest of the body.
RMonitor ==
  /\ pc = "monitor" /\ config.port = "r"
  /\ \/ ~config.monitor /\ UNCHANGED monitor
     \/ config.monitor /\ bestEver' = RLastBest /\ noImprove' = RCounted
  /\ \/ /\ config.monitor /\ RCounted >= config.stopAfter
        /\ pc' = "done" /\ ended' = "early_stop" /\ spent' = spent + 1
     \/ /\ ~config.monitor \/ RCounted < config.stopAfter
        /\ pc' = IF RRestartDue THEN "restart" ELSE "next"
        /\ UNCHANGED <<ended, spent>>
  /\ UNCHANGED <<inputs, price, seeded, nit, incumbent, stagnation, late, cand,
                 elites, relink, history>>

\* A construction only, which neither descends nor enters the pool.
RRestart ==
  /\ pc = "restart" /\ config.port = "r"
  /\ \E c \in RConstructions :
       /\ Challenge(c.entry, RImproves(c.entry.cost, best.cost), spent + 1)
       /\ picked' = c.flaws
  /\ stagnation' = 0
  /\ pc' = "next"
  /\ UNCHANGED <<inputs, price, seeded, spent, nit, ended, monitor, late, cand, elites,
                 relink, found, gaveUp, leaked>>

RCompletes ==
  /\ pc = "next" /\ config.port = "r"
  /\ spent' = spent + 1
  /\ pc' = "head" /\ Forgets
  /\ UNCHANGED <<inputs, seeded, nit, ended, incumbent, stagnation, monitor,
                 late, cand, elites, relink, history>>

\* The clock starts after the warm starts.
RClock ==
  /\ config.port = "r" /\ config.limited /\ ~late
  /\ pc \notin {"start", "seed", "done"}
  /\ late' = TRUE
  /\ UNCHANGED <<inputs, price, seeded, flow, incumbent, stagnation, monitor, cand,
                 elites, relink, history>>

RNext ==
  \/ RStart \/ RSeed \/ RExpired \/ RExhausted \/ RConstruct \/ RDescend
  \/ RSearch \/ RRecord \/ RRelink \/ RMonitor \/ RRestart
  \/ RCompletes \/ RClock

=============================================================================
