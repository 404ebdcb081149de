------------------------------- MODULE RustRun -------------------------------
(***************************************************************************)
(* A run of the Rust port, and of the C++ port with one worker, which is   *)
(* a translation of it statement by statement.  Its own: the monitor asks  *)
(* for a restart after a fixed number of iterations and then forgets its   *)
(* count; ILS replaces what it knows by what it accepts; a walk overwrites *)
(* a coordinate by zero when no move is feasible; relinking and the        *)
(* restart speak to the incumbent alone.  A coordinate is clamped first    *)
(* and rounded afterwards, which an integer bound that is none lets out.   *)
(***************************************************************************)
EXTENDS PortRun

-----------------------------------------------------------------------------
(* Searches.                                                               *)

RustFlips(s) == Moved(s, 1, Reach)
RustSwaps(s) == Moved(s, 2, Reach)
RustMultiflips(s) == Moved(s, 3, Reach)
RustNeighbours ==
  [s \in Solutions |-> RustFlips(s) \cup RustSwaps(s) \cup RustMultiflips(s)]

\* What a descent, a search or a walk may return depends on the prices it
\* reads alone: it is a table, which TLC evaluates once.
RustDescents ==
  [f \in Prices |-> [s \in Solutions |-> Descended(f, s, RustNeighbours, FALSE)]]

RustVnd(s) == IF late THEN {s} ELSE RustDescents[price][s]

\* A strictly better candidate, or one that is less than a quarter worse.
RustAccepts(h, p) ==
  \/ p.cost < h.cost
  \/ Finite(p.cost) /\ 4 * p.cost < 5 * h.cost

RustPerturbed(s) == Moved(s, Kicks, Reach)

\* What is accepted is kept with its cost, better or not.
RustTried ==
  [f \in Prices |-> [s \in Solutions |->
     {PricedBy(f, t) : t \in UNION {RustDescents[f][q] : q \in RustPerturbed(s)}}]]

RustSearches ==
  [f \in Prices |-> [s \in Solutions |->
     Reached({PricedBy(f, s)},
             [h \in Entry |-> {p \in RustTried[f][h.sol] : RustAccepts(h, p)}],
             IlsIterations)]]

RustIls(e) == IF late THEN {e} ELSE RustSearches[price][e.sol]

\* The greedy walk to target: of the moves that remain, a cheapest one; if
\* none has a finite cost, the first one is taken with best_move_val still 0.
\* The clock is looked at before every move.
RustMoves(f, x, target) ==
  LET moved(i) == [x.at EXCEPT ![i] = target[i]]
      step(i)  == IF Finite(f[moved(i)]) THEN moved(i) ELSE [x.at EXCEPT ![i] = 0]
      next(i)  == IF f[moved(i)] < f[x.top] THEN step(i) ELSE x.top
  IN  {[at |-> step(i), top |-> next(i), left |-> x.left \ {i}] :
         i \in {j \in x.left : \A k \in x.left : f[moved(j)] <= f[moved(k)]}}

RustWalk(f, timed, s, t) ==
  LET legs == Reached({Departure(s, t)}, [x \in Leg |-> RustMoves(f, x, t)], Len(Bounds))
  IN  {x.top : x \in {y \in legs : timed \/ y.left = {}}}

RustWalks ==
  [f \in Prices |-> [timed \in BOOLEAN |-> [s \in Wide |-> [t \in Wide |->
     RustWalk(f, timed, s, t)]]]]

RustDirected(s, t) == RustWalks[price][config.limited][s][t]

RustBothWays(s, t) ==
  {x \in RustDirected(s, t) :
     \E y \in RustDirected(t, s) : price[x] <= price[y]}
  \cup {y \in RustDirected(t, s) :
          \E x \in RustDirected(s, t) : price[y] < price[x]}

RustRelinked(s, t) ==
  CASE config.strategy = "bidirectional" -> RustBothWays(s, t)
    [] config.strategy = "forward"       -> RustDirected(s, t)
    [] config.strategy = "backward"      -> RustDirected(t, s)
    [] config.strategy = "randomized"    -> RustDirected(s, t) \cup RustDirected(t, s)

-----------------------------------------------------------------------------
(* Construction.                                                           *)

\* select_from_rcl: alpha * (max - min) is infinite or no number when an
\* infeasible candidate is in the batch, and no index passes a comparison
\* with the latter: then the first candidate is taken.
RustList(f, b, alpha) ==
  LET costs == {f[b[k]] : k \in Batch}
      low   == Least(costs)
      high  == CHOOSE v \in costs : \A w \in costs : w <= v
  IN  CASE Finite(high) ->
             {k \in Batch : AlphaUnit * (f[b[k]] - low) <= alpha * (high - low)}
        [] ~Finite(high) /\ Finite(low) /\ alpha > 0 -> Batch
        [] OTHER -> {1}

RustChoices(f, b, alpha) ==
  {[entry |-> PricedBy(f, b[k]),
    flaws |-> Pick(f, b, k, alpha, RustList(f, b, alpha), FALSE)] :
     k \in RustList(f, b, alpha)}

\* construct_grasp; the guess, if any, is the first candidate.
RustConstructed ==
  [f \in Prices |-> [guess \in {<<>>} \cup WarmStarts |->
     UNION {UNION {RustChoices(f, b, alpha) : alpha \in Alphas} : b \in Batches(guess, Wide)}]]

RustConstructions(guess) == RustConstructed[price][guess]

-----------------------------------------------------------------------------
(* The stages.                                                             *)

\* The cheapest guess, the first of equals, or a construction.
RustStart ==
  /\ pc = "start" /\ config.port = "rust"
  /\ \/ /\ guesses # <<>>
        /\ \E k \in DOMAIN guesses :
             /\ \A j \in DOMAIN guesses :
                  /\ price[guesses[k]] <= price[guesses[j]]
                  /\ j < k => price[guesses[k]] < price[guesses[j]]
             /\ best' = Priced(guesses[k])
        /\ UNCHANGED picked
     \/ /\ guesses = <<>>
        /\ \E c \in RustConstructions(<<>>) :
             best' = c.entry /\ picked' = c.flaws
  /\ Met(best')
  /\ pc' = "seed"
  /\ UNCHANGED <<inputs, price, seeded, spent, nit, ended, lastGain, stagnation,
                 monitor, late, cand, elites, relink, gaveUp, leaked>>

\* maybe_seed_elite_pool: the incumbent, then every guess.
RustSeed ==
  /\ pc = "seed" /\ config.port = "rust"
  /\ \/ /\ config.elitePool /\ seeded <= Len(guesses)
        /\ Offer(IF seeded = 0 THEN best ELSE Priced(guesses[seeded]))
        /\ seeded' = seeded + 1 /\ UNCHANGED pc
     \/ /\ ~config.elitePool \/ seeded > Len(guesses)
        /\ pc' = "head" /\ seeded' = 0 /\ UNCHANGED <<pool>>
  /\ UNCHANGED <<inputs, price, spent, nit, ended, incumbent, stagnation, monitor,
                 late, cand, items, relink, history>>

RustExpired ==
  /\ pc = "head" /\ config.port = "rust" /\ spent < MaxIterations /\ late
  /\ pc' = "done" /\ ended' = "time_limit"
  /\ UNCHANGED <<inputs, price, seeded, spent, nit, incumbent, stagnation, monitor,
                 late, cand, elites, relink, history>>

RustExhausted ==
  /\ pc = "head" /\ config.port = "rust" /\ spent = MaxIterations
  /\ pc' = "done" /\ ended' = "max_iterations"
  /\ UNCHANGED <<inputs, price, seeded, spent, nit, incumbent, stagnation, monitor,
                 late, cand, elites, relink, history>>

RustConstruct ==
  /\ pc = "head" /\ config.port = "rust" /\ spent < MaxIterations /\ ~late
  /\ nit' = spent + 1
  /\ \E c \in RustConstructions(IF spent = 0 THEN guesses ELSE <<>>) :
       cand' = c.entry /\ picked' = c.flaws
  /\ pc' = "vnd"
  /\ UNCHANGED <<inputs, price, seeded, spent, ended, incumbent, stagnation, monitor,
                 late, elites, relink, found, gaveUp, leaked>>

RustDescend ==
  /\ pc = "vnd" /\ config.port = "rust"
  /\ \E t \in RustVnd(cand.sol) : cand' = Priced(t)
  /\ Met(cand') /\ picked' = {}
  /\ pc' = "ils"
  /\ UNCHANGED <<inputs, price, seeded, spent, nit, ended, incumbent, stagnation,
                 monitor, late, elites, relink, gaveUp, leaked>>

RustSearch ==
  /\ pc = "ils" /\ config.port = "rust"
  /\ cand' \in RustIls(cand)
  /\ GiveUp(cand, cand')
  /\ pc' = "record"
  /\ UNCHANGED <<inputs, price, seeded, spent, nit, ended, incumbent, stagnation,
                 monitor, late, elites, relink, found, leaked, picked>>

\* update_best and the elite pool.
RustRecord ==
  /\ pc = "record" /\ config.port = "rust"
  /\ Challenge(cand, cand.cost < best.cost, spent + 1)
  /\ stagnation' = IF cand.cost < best.cost THEN 0 ELSE stagnation + 1
  /\ OfferIf(config.elitePool, cand)
  /\ cand' = Nothing
  /\ pc' = "monitor"
  /\ UNCHANGED <<inputs, price, seeded, spent, nit, ended, monitor, late, items,
                 relink, history>>

\* update_convergence_state: keep_top(2), the count starts again, and the
\* cache is cleared.
RustMonitor ==
  /\ pc = "monitor" /\ config.port = "rust"
  /\ \/ ~config.monitor /\ UNCHANGED <<monitor, stagnation, pool, price>>
     \/ /\ config.monitor
        /\ bestEver' = Least({bestEver, best.cost})
        /\ \/ /\ Counted < MonitorThreshold
              /\ noImprove' = Counted /\ UNCHANGED <<stagnation, pool, price>>
           \/ /\ Counted >= MonitorThreshold
              /\ noImprove' = 0 /\ stagnation' = 0
              /\ pool' = KeepTop(pool, 2) /\ price' \in Readings(objective)
  /\ pc' = "relink"
  /\ UNCHANGED <<inputs, seeded, spent, nit, ended, incumbent, late, cand,
                 items, relink, history>>

RustRelinkDue ==
  config.elitePool /\ spent > 0 /\ spent % RelinkFrequency = 0 /\ Len(pool) >= 2

\* i < min(3, len) and i < j < min(len, i + 4), counted from 0.
RustPairs ==
  {q \in (1..3) \X (2..Len(pool)) : q[1] < q[2] /\ q[2] <= q[1] + 3}

RustNextPair ==
  IF <<pair[1], pair[2] + 1>> \in RustPairs THEN <<pair[1], pair[2] + 1>>
                                            ELSE <<pair[1] + 1, pair[1] + 2>>

\* do_path_relinking, one pair: the pool is read and not written.
RustRelink ==
  /\ pc = "relink" /\ config.port = "rust"
  /\ RustRelinkDue /\ pair \in RustPairs /\ ~late
  /\ \E w \in RustRelinked(pool[pair[1]].sol, pool[pair[2]].sol) :
       \E t \in RustVnd(w) :
         /\ Challenge(Priced(t), price[t] < best.cost, spent + 1)
         /\ Met(Priced(t))
  /\ pair' = RustNextPair
  /\ UNCHANGED <<inputs, price, seeded, flow, stagnation, monitor, late, cand, elites,
                 snapshot, gaveUp, leaked, picked>>

RustRelinkEnds ==
  /\ pc = "relink" /\ config.port = "rust"
  /\ ~RustRelinkDue \/ pair \notin RustPairs \/ late
  /\ pair' = <<1, 2>>
  /\ pc' = IF stagnation > Patience THEN "restart" ELSE "stop"
  /\ UNCHANGED <<inputs, price, seeded, spent, nit, ended, incumbent, stagnation,
                 monitor, late, cand, elites, snapshot, history>>

\* maybe_restart_from_stagnation: not offered to the pool.
RustRestart ==
  /\ pc = "restart" /\ config.port = "rust"
  /\ \E s \in Wide :
       \E t \in RustVnd(s) :
         \E e \in RustIls(Priced(t)) :
           Challenge(e, e.cost < best.cost, spent + 1)
  /\ stagnation' = 0
  /\ pc' = "stop"
  /\ UNCHANGED <<inputs, price, seeded, spent, nit, ended, monitor, late, cand,
                 elites, relink, history>>

\* The signal is the count the monitor returned, which is still its count.
RustEarlyStop == config.monitor /\ noImprove >= config.stopAfter

RustCompletes ==
  /\ pc = "stop" /\ config.port = "rust"
  /\ spent' = spent + 1
  /\ \/ RustEarlyStop /\ pc' = "done" /\ ended' = "early_stop" /\ UNCHANGED price
     \/ ~RustEarlyStop /\ pc' = "head" /\ Forgets /\ UNCHANGED ended
  /\ UNCHANGED <<inputs, seeded, nit, incumbent, stagnation, monitor, late,
                 cand, elites, relink, history>>

\* The deadline is set before the first evaluation.
RustClock ==
  /\ config.port = "rust" /\ config.limited /\ ~late /\ pc # "done"
  /\ late' = TRUE
  /\ UNCHANGED <<inputs, price, seeded, flow, incumbent, stagnation, monitor, cand,
                 elites, relink, history>>

RustNext ==
  \/ RustStart \/ RustSeed \/ RustExpired \/ RustExhausted \/ RustConstruct
  \/ RustDescend \/ RustSearch \/ RustRecord \/ RustMonitor
  \/ RustRelink \/ RustRelinkEnds \/ RustRestart \/ RustCompletes \/ RustClock

=============================================================================
