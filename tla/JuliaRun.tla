------------------------------ MODULE JuliaRun ------------------------------
(***************************************************************************)
(* A run of the Julia port.  Its own: an initial candidate is priced and   *)
(* pooled before anything else and seeds every construction; ILS may       *)
(* return another solution than the one it has the cost of, which the      *)
(* iteration prices again and the restart does not; relinking walks a copy *)
(* of the pool, writes to the pool and resets the stagnation counter.      *)
(***************************************************************************)
EXTENDS PortRun

-----------------------------------------------------------------------------
(* Searches.                                                               *)

\* project_to_bounds!: every coordinate at the nearest level of its bounds.
JuliaProjected(s) ==
  LET away(u, v) == IF u < v THEN v - u ELSE u - v
  IN  [i \in Coords |->
         CHOOSE v \in Bounds[i] :
           \A u \in Bounds[i] : away(s[i], v) <= away(s[i], u)]

JuliaFlips(s) == Moved(s, 1, Bounds)

\* One continuous and one integer variable, if there are both.
JuliaSwaps(s) ==
  {t \in Moved(s, 2, Bounds) :
     /\ Split \in 1..(Len(Bounds) - 1)
     /\ \A part \in {1..Split, Coords \ (1..Split)} :
          Cardinality({i \in part : t[i] # s[i]}) <= 1}

JuliaMultiflips(s) == Moved(s, 3, Bounds)
JuliaNeighbours ==
  [s \in Solutions |-> JuliaFlips(s) \cup JuliaSwaps(s) \cup JuliaMultiflips(s)]

JuliaDescents ==
  [f \in Prices |-> [s \in Solutions |->
     Descended(f, JuliaProjected(s), JuliaNeighbours, FALSE)]]

\* The start is projected even if the deadline has passed.
JuliaVnd(s) ==
  IF late THEN {JuliaProjected(s)} ELSE JuliaDescents[price][s]

\* perturbation_strength variables are moved, here all of them.
JuliaPerturbed(s) == Moved(s, Len(Bounds), Bounds)

\* A better solution comes with its cost; one that is less than a quarter
\* worse comes without: the cost stays.
JuliaAccepted(h, p) ==
  {e \in {p} : p.cost < h.cost} \cup
  {[h EXCEPT !.sol = x.sol] : x \in {y \in {p} : h.cost <= p.cost /\ Finite(p.cost)
                                                /\ 4 * p.cost < 5 * h.cost}}

JuliaTried ==
  [f \in Prices |-> [s \in Solutions |->
     {PricedBy(f, t) : t \in UNION {JuliaDescents[f][q] : q \in JuliaPerturbed(s)}}]]

JuliaSearches ==
  [f \in Prices |-> [e \in Entry |->
     Reached({e},
             [h \in Entry |-> UNION {JuliaAccepted(h, p) : p \in JuliaTried[f][h.sol]}],
             IlsIterations)]]

JuliaIls(e) == IF late THEN {e} ELSE JuliaSearches[price][e]

\* path_relinking_forward: the differing coordinates in any order.
JuliaMoves(f, x, target) ==
  LET moved(i) == [x.at EXCEPT ![i] = target[i]]
      next(i)  == IF f[moved(i)] < f[x.top] THEN moved(i) ELSE x.top
  IN  {[at |-> moved(i), top |-> next(i), left |-> x.left \ {i}] : i \in x.left}

\* It looks at the clock before every fifth move.
JuliaHalts(timed, x, moves) ==
  x.left = {} \/ (timed /\ (moves - Cardinality(x.left)) % 5 = 4)

JuliaWalk(f, timed, s, t) ==
  LET legs  == Reached({Departure(s, t)}, [x \in Leg |-> JuliaMoves(f, x, t)], Len(Bounds))
      moves == Cardinality(Differing(s, t))
  IN  {x.top : x \in {y \in legs : JuliaHalts(timed, y, moves)}}

JuliaWalks ==
  [f \in Prices |-> [timed \in BOOLEAN |-> [s \in Box |-> [t \in Box |->
     JuliaWalk(f, timed, s, t)]]]]

JuliaForward(s, t) == JuliaWalks[price][config.limited][s][t]

\* The way back is left out if the deadline has passed.
JuliaBothWays(s, t) ==
  {x \in JuliaForward(s, t) :
     config.limited \/ \E y \in JuliaForward(t, s) : price[x] <= price[y]}
  \cup {y \in JuliaForward(t, s) :
          ~late /\ \E x \in JuliaForward(s, t) : price[y] < price[x]}

JuliaRelinked(s, t) ==
  CASE config.strategy = "bidirectional" -> JuliaBothWays(s, t)
    [] config.strategy = "forward"       -> JuliaForward(s, t)
    [] config.strategy = "backward"      -> JuliaForward(t, s)
    [] config.strategy = "randomized"    -> JuliaForward(s, t) \cup JuliaForward(t, s)

-----------------------------------------------------------------------------
(* Construction.                                                           *)

\* Mutant: infeasible candidates are compared like the others.
JuliaListUnmasked(f, b, alpha) ==
  LET costs == {f[b[k]] : k \in Batch}
      low   == Least(costs)
      high  == CHOOSE v \in costs : \A w \in costs : w <= v
  IN  {k \in Batch : AlphaUnit * (f[b[k]] - low) <= alpha * (high - low)}

\* select_from_rcl among the finite ones; argmin, the first, if none is.
JuliaList(f, b, alpha) ==
  LET valid == {k \in Batch : Finite(f[b[k]])}
      costs == {f[b[k]] : k \in valid}
      low   == Least(costs)
      high  == CHOOSE v \in costs : \A w \in costs : w <= v
  IN  IF valid = {} THEN {1}
      ELSE {k \in valid : AlphaUnit * (f[b[k]] - low) <= alpha * (high - low)}

JuliaChoices(f, b, alpha) ==
  {[entry |-> PricedBy(f, b[k]),
    flaws |-> Pick(f, b, k, alpha, JuliaList(f, b, alpha), FALSE)] :
     k \in JuliaList(f, b, alpha)}

\* A guess that is infeasible, priced past the cache, is replaced by a random
\* candidate.
JuliaKept ==
  IF guesses # <<>> /\ Finite(objective[guesses[1]]) THEN guesses ELSE <<>>

JuliaConstructed ==
  [f \in Prices |-> [guess \in {<<>>} \cup WarmStarts |->
     UNION {UNION {JuliaChoices(f, b, alpha) : alpha \in Alphas} :
              b \in Batches(guess, Box)}]]

JuliaConstructions == JuliaConstructed[price][JuliaKept]

JuliaConstruct ==
  /\ pc = "head" /\ config.port = "julia" /\ spent < MaxIterations /\ ~late
  /\ \E c \in JuliaConstructions : cand' = c.entry /\ picked' = c.flaws
  /\ pc' = "vnd"
  /\ UNCHANGED <<inputs, price, seeded, spent, nit, ended, incumbent, stagnation,
                 monitor, late, elites, relink, found, gaveUp, leaked>>

-----------------------------------------------------------------------------
(* The other stages.                                                       *)

\* The first guess or a random vector, priced and pooled.
JuliaStart ==
  /\ pc = "start" /\ config.port = "julia"
  /\ \E s \in IF guesses = <<>> THEN Box ELSE {guesses[1]} :
       /\ best' = Priced(s) /\ Met(Priced(s))
       /\ OfferIf(config.elitePool, Priced(s))
  /\ pc' = "seed"
  /\ UNCHANGED <<inputs, price, seeded, spent, nit, ended, lastGain, stagnation,
                 monitor, late, cand, items, relink, gaveUp, leaked, picked>>

JuliaSeed ==
  /\ pc = "seed" /\ config.port = "julia"
  /\ \/ /\ seeded < Len(guesses)
        /\ LET e == Priced(guesses[seeded + 1])
           IN  /\ OfferIf(config.elitePool, e)
               /\ Challenge(e, e.cost < best.cost, 0)
        /\ seeded' = seeded + 1 /\ UNCHANGED pc
     \/ /\ seeded = Len(guesses)
        /\ pc' = "head" /\ seeded' = 0 /\ UNCHANGED <<incumbent, pool>>
  /\ UNCHANGED <<inputs, price, spent, nit, ended, stagnation, monitor, late, cand,
                 items, relink, history>>

\* The head of the loop: the iterations completed, or all of them.
JuliaEnds ==
  /\ pc = "head" /\ config.port = "julia" /\ (late \/ spent = MaxIterations)
  /\ nit' = spent
  /\ pc' = "done"
  /\ ended' = IF spent = MaxIterations THEN "max_iterations" ELSE "time_limit"
  /\ UNCHANGED <<inputs, price, seeded, spent, incumbent, stagnation, monitor, late,
                 cand, elites, relink, history>>

JuliaDescend ==
  /\ pc = "vnd" /\ config.port = "julia"
  /\ \E t \in JuliaVnd(cand.sol) : cand' = Priced(t)
  /\ Met(cand') /\ picked' = {}
  /\ pc' = "ils"
  /\ UNCHANGED <<inputs, price, seeded, spent, nit, ended, incumbent, stagnation,
                 monitor, late, elites, relink, gaveUp, leaked>>

\* Mutant: the cost ILS returns is believed.
JuliaBelieved(e) == e

\* "cost = evaluate_with_cache_impl(sol, ...)" after ILS.
JuliaRepriced(e) == Priced(e.sol)

JuliaSearch ==
  /\ pc = "ils" /\ config.port = "julia"
  /\ \E e \in JuliaIls(cand) : cand' = JuliaRepriced(e)
  /\ GiveUp(cand, cand')
  /\ pc' = "record"
  /\ UNCHANGED <<inputs, price, seeded, spent, nit, ended, incumbent, stagnation,
                 monitor, late, elites, relink, found, leaked, picked>>

JuliaRecord ==
  /\ pc = "record" /\ config.port = "julia"
  /\ Challenge(cand, cand.cost < best.cost, spent + 1)
  /\ stagnation' = IF cand.cost < best.cost THEN 0 ELSE stagnation + 1
  /\ OfferIf(config.elitePool, cand)
  /\ cand' = Nothing
  /\ pc' = "monitor"
  /\ UNCHANGED <<inputs, price, seeded, spent, nit, ended, monitor, late, items,
                 relink, history>>

\* The threshold is early_stop_threshold, and the count goes on.
JuliaMonitor ==
  /\ pc = "monitor" /\ config.port = "julia"
  /\ \/ ~config.monitor /\ UNCHANGED <<monitor, stagnation, pool>>
     \/ /\ config.monitor
        /\ bestEver' = Least({bestEver, best.cost}) /\ noImprove' = Counted
        /\ \/ Counted < config.stopAfter /\ UNCHANGED <<stagnation, pool>>
           \/ /\ Counted >= config.stopAfter
              /\ stagnation' = 0
              /\ \/ PartialRestart
                 \/ Len(pool) <= 2 /\ UNCHANGED pool
  /\ pc' = "relink"
  /\ UNCHANGED <<inputs, price, seeded, spent, nit, ended, incumbent, late, cand,
                 items, relink, history>>

JuliaRelinkDue ==
  config.elitePool /\ spent > 0 /\ spent % RelinkFrequency = 0 /\ Len(pool) >= 2

JuliaStartRelink ==
  /\ pc = "relink" /\ config.port = "julia" /\ JuliaRelinkDue
  /\ snapshot' = pool /\ pair' = <<1, 2>>
  /\ pc' = "pairs"
  /\ UNCHANGED <<inputs, price, seeded, spent, nit, ended, incumbent, stagnation,
                 monitor, late, cand, elites, history>>

JuliaLast == Least({4, Len(snapshot)})

\* Mutant: the result of a walk goes to the pool alone.
JuliaPoolsOnly(e) == FALSE

JuliaGain(e) == e.cost < best.cost

\* One pair: the incumbent, the stagnation counter and the pool.
JuliaRelink ==
  /\ pc = "pairs" /\ config.port = "julia" /\ pair[2] <= JuliaLast /\ ~late
  /\ \E w \in JuliaRelinked(snapshot[pair[1]].sol, snapshot[pair[2]].sol) :
       \E t \in JuliaVnd(w) :
         /\ Challenge(Priced(t), JuliaGain(Priced(t)), spent + 1)
         /\ stagnation' = IF JuliaGain(Priced(t)) THEN 0 ELSE stagnation
         /\ Offer(Priced(t)) /\ Met(Priced(t))
  /\ pair' = IF pair[2] < JuliaLast THEN <<pair[1], pair[2] + 1>>
                                    ELSE <<pair[1] + 1, pair[1] + 2>>
  /\ UNCHANGED <<inputs, price, seeded, flow, monitor, late, cand, items, snapshot,
                 gaveUp, leaked, picked>>

JuliaRelinkEnds ==
  /\ \/ pc = "relink" /\ ~JuliaRelinkDue
     \/ pc = "pairs" /\ (pair[2] > JuliaLast \/ late)
  /\ config.port = "julia"
  /\ snapshot' = <<>> /\ pair' = <<1, 2>>
  /\ pc' = IF stagnation > Patience THEN "restart" ELSE "stop"
  /\ UNCHANGED <<inputs, price, seeded, spent, nit, ended, incumbent, stagnation,
                 monitor, late, cand, elites, history>>

\* A random vector through VND and ILS; what ILS starts from is priced past
\* the cache, and nothing prices its result again.
JuliaRestart ==
  /\ pc = "restart" /\ config.port = "julia"
  /\ \E s \in Box :
       \E t \in JuliaVnd(s) :
         \E e \in JuliaIls(PricedBy(objective, t)) :
           /\ Challenge(e, e.cost < best.cost, spent + 1)
           /\ OfferIf(config.elitePool, e)
           /\ leaked' = (leaked \/ ~Belongs(e))
  /\ stagnation' = 0
  /\ pc' = "stop"
  /\ UNCHANGED <<inputs, price, seeded, spent, nit, ended, monitor, late, cand, items,
                 relink, found, gaveUp, picked>>

JuliaEarlyStop == config.monitor /\ noImprove >= config.stopAfter

JuliaCompletes ==
  /\ pc = "stop" /\ config.port = "julia"
  /\ spent' = spent + 1
  /\ \/ /\ JuliaEarlyStop
        /\ pc' = "done" /\ ended' = "early_stop" /\ nit' = spent + 1
        /\ UNCHANGED price
     \/ ~JuliaEarlyStop /\ pc' = "head" /\ Forgets /\ UNCHANGED <<ended, nit>>
  /\ UNCHANGED <<inputs, seeded, incumbent, stagnation, monitor, late, cand,
                 elites, relink, history>>

\* The deadline is set after the initial candidate.
JuliaClock ==
  /\ config.port = "julia" /\ config.limited /\ ~late
  /\ pc \notin {"start", "done"}
  /\ late' = TRUE
  /\ UNCHANGED <<inputs, price, seeded, flow, incumbent, stagnation, monitor, cand,
                 elites, relink, history>>

JuliaNext ==
  \/ JuliaStart \/ JuliaSeed \/ JuliaEnds \/ JuliaConstruct \/ JuliaDescend
  \/ JuliaSearch \/ JuliaRecord \/ JuliaMonitor \/ JuliaStartRelink
  \/ JuliaRelink \/ JuliaRelinkEnds \/ JuliaRestart \/ JuliaCompletes
  \/ JuliaClock

=============================================================================
