------------------------------- MODULE Descent -------------------------------
(***************************************************************************)
(* Variable neighbourhood descent (core/vnd/).  A descent edits ONE vector *)
(* in place: every neighbourhood writes a move into it, prices it, and     *)
(* either keeps the vector or puts the old values back.  What is kept, in  *)
(* which mode, and what is put back, is the subject of this module.        *)
(*                                                                         *)
(* Variables 1..half are continuous, half+1..n are integers.  A continuous *)
(* variable takes the levels of Values as its grid, and a perturbation of  *)
(* it reaches any level of its box (the next levels when there are no      *)
(* bounds); integer moves are those of the code.                           *)
(*                                                                         *)
(* A move is priced by a reading (vnd/cache.py): through the cache, which  *)
(* looks a vector up by a rounded copy, it is the cost of some vector with *)
(* the same copy.  It stays the same one while a call lasts.               *)
(***************************************************************************)
EXTENDS Integers, FiniteSets, FiniteSetsExt

CONSTANTS
  Shapes,            \* the layouts [n, half, group] of the instance
  Values,            \* the levels the model explores
  Lower, Upper,      \* the bounds of every variable
  Objectives,        \* names of the objective functions
  Cost(_, _),        \* Cost(o, s): what objective o returns for s
  Digits,            \* what three decimals keep of a level
  Caches,            \* names of the contents a cache may have
  Held(_, _, _),     \* Held(c, sh, s): the vector whose cost c gives for s
  MaxIterations,     \* max_iter
  NoImproveLimit,    \* no_improve_limit, 5 in the code
  FlipLimit,         \* no_improve_flip_limit, 3 in the code
  MaxAttempts,       \* max_attempts, 50 or 30 in the code
  MinBlock,          \* the shortest block, 3 in the code
  MaxBlock,          \* the longest one, 6 in the code
  DeadlineStride     \* a sweep looks at the clock every 8 variables

Shape == [n : Nat, half : Nat, group : Nat]    \* group = 0: no group_size
Vectors(sh) == [1..sh.n -> Values]

\* _hash_solution: continuous levels are rounded, integers are whole already.
Key(sh, s) == [v \in 1..sh.n |-> IF v <= sh.half THEN Digits[s[v]] ELSE s[v]]

Mode == [bounded : BOOLEAN, first : BOOLEAN, adaptive : BOOLEAN, limited : BOOLEAN]

ASSUME DescentAssumption ==
  /\ Shapes \subseteq Shape
  /\ \A sh \in Shapes : 1 <= sh.n /\ sh.half <= sh.n
  /\ Values \subseteq Int /\ {Lower, Upper} \subseteq Values
  /\ Lower <= Upper /\ Lower..Upper \subseteq Values
  /\ {NoImproveLimit, FlipLimit, MaxAttempts, DeadlineStride} \subseteq Nat \ {0}
  /\ \A sh \in Shapes, o \in Objectives :
       \A s \in Vectors(sh) : Cost(o, s) \in Int
  /\ \A sh \in Shapes, c \in Caches :
       /\ \A s \in Vectors(sh) :
            Held(c, sh, s) \in Vectors(sh) /\ Key(sh, Held(c, sh, s)) = Key(sh, s)
       /\ \/ \A s \in Vectors(sh) : Held(c, sh, s) = s    \* use_cache is off
          \/ \A s, t \in Vectors(sh) :
               Key(sh, s) = Key(sh, t) => Held(c, sh, s) = Held(c, sh, t)
  /\ MaxIterations \in Nat
  /\ MinBlock \in Nat \ {0} /\ MaxBlock \in Nat

Neighbourhoods == {"flip", "swap", "group", "block", "multiflip"}
Stages == {"idle", "round", "enter", "integers", "continuous", "attempts",
           "return", "done", "failed"}

VARIABLES
  shape, mode, objective,   \* the inputs of the call
  cache,                    \* and what its cache holds
  sol, benefit,             \* the working vector and current_benefit
  bestSol, bestBen,         \* the neighbourhood's best_solution, best_benefit
  stage, nbh,               \* the neighbourhood, and where it has got to
  todo, count,              \* variables left in a sweep; steps or attempts made
  iteration, idle,          \* rounds made; rounds in a row without improvement
  expired,                  \* the deadline has passed
  late                      \* history: prices since the clock was seen to run

given == <<shape, mode, objective, cache>>
working == <<sol, benefit>>
found == <<bestSol, bestBen>>
rounds == <<iteration, idle>>
vndVars == <<given, working, found, stage, nbh, todo, count, rounds, expired, late>>

-----------------------------------------------------------------------------
(* Layout and moves.                                                       *)

Vars == 1..shape.n
Continuous == 1..shape.half                    \* indices < _get_half
Integral == (shape.half + 1)..shape.n          \* indices >= _get_half
Space == [Vars -> Values]
Box == [Vars -> Lower..Upper]
Price(s) == Cost(objective, Held(cache, shape, s))

\* The count of prices that may turn out late, after k more of them and,
\* before those, a look at the clock.  An adaptive descent never looks.
Counted(looks, k) == IF mode.adaptive THEN 0 ELSE k + (IF looks THEN 0 ELSE late)

Clip(v) == IF v < Lower THEN Lower ELSE IF v > Upper THEN Upper ELSE v
Reach(v, step) == IF mode.bounded
                  THEN {Clip(v + d) : d \in (-step)..step}
                  ELSE {v + d : d \in (-step)..step} \cap Values
ContinuousMoves(v) == IF mode.bounded THEN Lower..Upper ELSE Reach(v, 1)

\* The vectors that differ from s by a move of the continuous variables cs
\* and of the integer variables is.
Perturbed(s, cs, is) ==
  { t \in Space : \A v \in Vars :
      CASE v \in cs -> t[v] \in ContinuousMoves(s[v])
        [] v \in is -> t[v] \in Reach(s[v], 1)
        [] OTHER -> t[v] = s[v] }

\* _group_layout: groups of `group` steps fill the continuous part exactly,
\* both parts are there, and there are bounds.
HasLayout ==
  /\ shape.half \in 1..(shape.n - 1)
  /\ shape.group \in 1..shape.half
  /\ shape.half % shape.group = 0
  /\ mode.bounded
Group(g) == (g * shape.group + 1)..((g + 1) * shape.group)
Groups == 0..((shape.half \div shape.group) - 1)
Partners(cs) == {c + shape.half : c \in cs}

\* The moves of the continuous variables cs whose partners all step by d,
\* the sign of the common delta.
Shifted(s, cs, d) ==
  { t \in Perturbed(s, cs, Partners(cs)) :
      \A i \in Partners(cs) : t[i] = Clip(s[i] + d) }
GroupMoves(s) == UNION { Shifted(s, Group(g), d) :
                         g \in {g \in Groups : Partners(Group(g)) \subseteq Vars},
                         d \in {-1, 0, 1} }

\* A block is a run of steps, the same in all groups; its continuous
\* variables move the same way too.
Runs ==
  { r \in (1..shape.group) \X (1..shape.group) : r[2] - r[1] + 1 \in MinBlock..MaxBlock }
Blocks ==
  { {g * shape.group + k : g \in Groups, k \in r[1]..r[2]} : r \in Runs }
BlockMoves(s) ==
  UNION { { t \in Shifted(s, cs, d) : \A c \in cs :
              (t[c] - s[c]) * d >= 0 /\ (d = 0 => t[c] = s[c]) } :
          cs \in Blocks, d \in {-1, 0, 1} }

\* The neighbourhood returns at once: half is not inside the vector, or there
\* is no layout.
Inapplicable(n) ==
  \/ n = "swap" /\ shape.half \notin 1..(shape.n - 1)
  \/ n \in {"group", "block"} /\ ~HasLayout

\* An attempt may index past the vector (the partner of a continuous variable
\* is half further) or draw a block size from an empty range.
AttemptFails(n) ==
  \/ n = "swap" /\ \E c \in Continuous : c + shape.half > shape.n
  \/ n = "group" /\ \E g \in Groups : ~(Partners(Group(g)) \subseteq Vars)
  \/ n = "block" /\ \/ shape.group < MinBlock
                    \/ \E c \in Continuous : c + shape.half > shape.n
AttemptMoves(s, n) ==
  CASE n = "swap" -> UNION { Perturbed(s, {c}, {c + shape.half} \cap Integral) :
                             c \in {c \in Continuous : c + shape.half <= shape.n} }
    [] n = "group" -> GroupMoves(s)
    [] n = "block" -> IF AttemptFails("block") THEN {} ELSE BlockMoves(s)
    [] n = "multiflip" ->
         UNION { Perturbed(s, K \cap Continuous, K \cap Integral) :
                 K \in kSubset(IF FlipLimit < shape.n THEN FlipLimit ELSE shape.n, Vars) }

-----------------------------------------------------------------------------
(* The rounds.                                                             *)

\* local_search_vnd(solution): price the start, no rounds made.
Begin(s) ==
  /\ sol' = s /\ benefit' = Price(s)
  /\ bestSol' = s /\ bestBen' = Price(s)
  /\ stage' = "round" /\ nbh' = "flip" /\ todo' = {} /\ count' = 0
  /\ iteration' = 0 /\ idle' = 0

\* The standard descent reads the clock; the adaptive one does not.
OutOfTime == expired /\ ~mode.adaptive

EndRounds ==
  /\ stage = "round"
  /\ \/ iteration >= MaxIterations \/ idle >= NoImproveLimit
     \/ OutOfTime
  /\ stage' = "done"
  /\ UNCHANGED <<given, working, found, nbh, todo, count, rounds, expired, late>>

\* A round tries flip first, or the neighbourhood the roulette picks.
StartRound ==
  /\ stage = "round"
  /\ iteration < MaxIterations /\ idle < NoImproveLimit /\ ~OutOfTime
  /\ iteration' = iteration + 1
  /\ nbh' \in IF mode.adaptive THEN Neighbourhoods ELSE {"flip"}
  /\ stage' = "enter" /\ late' = Counted(TRUE, 0)
  /\ UNCHANGED <<given, working, found, todo, count, idle, expired>>

\* The round is over without improvement.
FailRound ==
  /\ idle' = idle + 1 /\ stage' = "round"
  /\ UNCHANGED <<given, working, found, nbh, todo, count, iteration, expired, late>>

MultiflipDue == mode.adaptive \/ iteration % FlipLimit = 0
GiveUp ==
  /\ stage = "enter"
  /\ OutOfTime \/ (nbh = "multiflip" /\ ~MultiflipDue)
  /\ FailRound

\* The neighbourhood copies the vector as its best and begins.
Enter ==
  /\ stage = "enter"
  /\ ~OutOfTime /\ (nbh = "multiflip" => MultiflipDue)
  /\ bestSol' = sol /\ bestBen' = benefit
  /\ stage' = CASE nbh = "flip" -> "integers"
                [] Inapplicable(nbh) -> "return"
                [] OTHER -> "attempts"
  /\ todo' = IF nbh = "flip" THEN Integral ELSE {}
  /\ count' = 0 /\ late' = Counted(TRUE, 0)
  /\ UNCHANGED <<given, working, nbh, rounds, expired>>

\* "if benefit < current_benefit": the move becomes the working vector.
\* Otherwise the next neighbourhood of the fixed order is tried.
Following(n) == CASE n = "flip" -> "swap" [] n = "swap" -> "group"
                  [] n = "group" -> "block" [] OTHER -> "multiflip"
Improve ==
  /\ stage = "return"
  /\ bestBen < benefit
  /\ sol' = bestSol /\ benefit' = bestBen
  /\ idle' = 0 /\ stage' = "round"
  /\ UNCHANGED <<given, found, nbh, todo, count, iteration, expired, late>>
\* Mutant: a round that fails begins again.
TryForever ==
  /\ stage = "return"
  /\ bestBen >= benefit
  /\ nbh' = Following(nbh) /\ stage' = "enter"
  /\ UNCHANGED <<given, working, found, todo, count, rounds, expired, late>>
TryNext ==
  /\ stage = "return"
  /\ bestBen >= benefit
  /\ IF mode.adaptive \/ nbh = "multiflip"
     THEN FailRound
     ELSE /\ nbh' = Following(nbh) /\ stage' = "enter"
          /\ UNCHANGED <<given, working, found, todo, count, rounds, expired, late>>

-----------------------------------------------------------------------------
(* The sweeps of the flip neighbourhood.                                   *)

\* Mutant: a sweep does not look at the clock.
NeverLooks == FALSE
Looks == count % DeadlineStride = 0
ClockDue == Looks /\ OutOfTime
ToContinuous == stage' = "continuous" /\ todo' = Continuous /\ count' = 0

\* _try_integer_moves_module: the first of base-1, base, base+1 that is
\* cheaper than the best stays in the vector; otherwise the old value is back.
\* Mutant: only upward steps are tried.
ImprovingUp(i) == { v \in Values \cap sol[i]..(sol[i] + 1) :
                      /\ mode.bounded => v \in Lower..Upper
                      /\ Price([sol EXCEPT ![i] = v]) < bestBen }
Improving(i) == { v \in Values \cap (sol[i] - 1)..(sol[i] + 1) :
                    /\ mode.bounded => v \in Lower..Upper
                    /\ Price([sol EXCEPT ![i] = v]) < bestBen }
\* Of the three levels, those within the bounds are priced up to that one.
Tried(i) == { v \in (sol[i] - 1)..(sol[i] + 1) :
                /\ mode.bounded => v \in Lower..Upper
                /\ \A w \in Improving(i) : v <= w }
SweepInteger(i) ==
  /\ stage = "integers" /\ i \in todo /\ ~ClockDue
  /\ late' = Counted(Looks, Cardinality(Tried(i)))
  /\ \/ /\ Improving(i) # {}
        /\ sol' = [sol EXCEPT ![i] = Min(Improving(i))]
        /\ bestSol' = sol' /\ bestBen' = Price(sol')
        /\ IF mode.first THEN ToContinuous
           ELSE stage' = stage /\ todo' = todo \ {i} /\ count' = count + 1
     \/ /\ Improving(i) = {}
        /\ stage' = stage /\ todo' = todo \ {i} /\ count' = count + 1
        /\ UNCHANGED <<sol, found>>
  /\ UNCHANGED <<given, benefit, nbh, rounds, expired>>
EndIntegers ==
  /\ stage = "integers"
  /\ todo = {} \/ ClockDue
  /\ ToContinuous
  /\ UNCHANGED <<given, working, found, nbh, rounds, expired, late>>

\* _search_continuous_flip_module: the old value is put back after every
\* step, unless the first improvement returns.
SweepContinuous(i) ==
  /\ stage = "continuous" /\ i \in todo /\ ~ClockDue
  /\ late' = Counted(Looks, 1)
  /\ \E v \in ContinuousMoves(sol[i]) :
       LET t == [sol EXCEPT ![i] = v] IN
       \/ /\ Price(t) < bestBen
          /\ bestSol' = t /\ bestBen' = Price(t)
          /\ IF mode.first
             THEN sol' = t /\ stage' = "return" /\ UNCHANGED <<todo, count>>
             ELSE /\ todo' = todo \ {i} /\ count' = count + 1
                  /\ UNCHANGED <<sol, stage>>
       \/ /\ Price(t) >= bestBen
          /\ todo' = todo \ {i} /\ count' = count + 1
          /\ UNCHANGED <<sol, found, stage>>
  /\ UNCHANGED <<given, benefit, nbh, rounds, expired>>
EndContinuous ==
  /\ stage = "continuous"
  /\ todo = {} \/ ClockDue
  /\ stage' = "return"
  /\ UNCHANGED <<given, working, found, nbh, todo, count, rounds, expired, late>>

-----------------------------------------------------------------------------
(* The neighbourhoods that make attempts.                                  *)

EndAttempts ==
  /\ stage = "attempts"
  /\ count >= MaxAttempts \/ OutOfTime
  /\ stage' = "return"
  /\ UNCHANGED <<given, working, found, nbh, todo, count, rounds, expired, late>>

\* A cheaper move is copied; the old values are put back, unless the first
\* improvement returns (multiflip always makes all its attempts).
\* Mutant: a move that is not cheaper stays in the vector.
AttemptAndKeep ==
  /\ stage = "attempts"
  /\ count < MaxAttempts /\ ~OutOfTime
  /\ count' = count + 1 /\ late' = Counted(TRUE, 1)
  /\ \E t \in AttemptMoves(sol, nbh) :
       /\ Price(t) >= bestBen
       /\ sol' = t
  /\ UNCHANGED <<given, found, stage, benefit, nbh, todo, rounds, expired>>
Attempt ==
  /\ stage = "attempts"
  /\ count < MaxAttempts /\ ~OutOfTime
  /\ count' = count + 1 /\ late' = Counted(TRUE, 1)
  /\ \E t \in AttemptMoves(sol, nbh) :
       \/ /\ Price(t) < bestBen
          /\ bestSol' = t /\ bestBen' = Price(t)
          /\ IF mode.first /\ nbh # "multiflip"
             THEN sol' = t /\ stage' = "return"
             ELSE UNCHANGED <<sol, stage>>
       \/ /\ Price(t) >= bestBen
          /\ UNCHANGED <<sol, found, stage>>
  /\ UNCHANGED <<given, benefit, nbh, todo, rounds, expired>>
FailAttempt ==
  /\ stage = "attempts"
  /\ count < MaxAttempts /\ ~OutOfTime
  /\ AttemptFails(nbh)
  /\ stage' = "failed"
  /\ UNCHANGED <<given, working, found, nbh, todo, count, rounds, expired, late>>

DeadlinePasses ==
  /\ mode.limited /\ ~expired
  /\ expired' = TRUE
  /\ UNCHANGED <<given, working, found, stage, nbh, todo, count, rounds, late>>

DescentNext ==
  \/ EndRounds \/ StartRound \/ GiveUp \/ Enter \/ Improve \/ TryNext
  \/ \E i \in Vars : SweepInteger(i) \/ SweepContinuous(i)
  \/ EndIntegers \/ EndContinuous \/ EndAttempts \/ Attempt \/ FailAttempt

-----------------------------------------------------------------------------
(* What a descent promises.                                                *)

DescentTypeOK ==
  /\ shape \in Shapes /\ mode \in Mode /\ objective \in Objectives /\ cache \in Caches
  /\ {sol, bestSol} \subseteq IF mode.bounded THEN Box ELSE Space
  /\ {benefit, bestBen} \subseteq Int
  /\ stage \in Stages /\ nbh \in Neighbourhoods
  /\ todo \subseteq Vars /\ count \in 0..(shape.n + MaxAttempts)
  /\ iteration \in 0..MaxIterations /\ idle \in 0..NoImproveLimit
  /\ expired \in BOOLEAN /\ late \in Nat

\* Whenever a neighbourhood begins, makes an attempt or gives up, the vector
\* edited in place is the solution current_benefit prices: no rejected move
\* of an earlier neighbourhood is left in it.  The neighbourhood's best is a
\* solution that was priced as such, so a sweep that accepts several moves
\* reports the cost of what it returns.
WorkingVectorIntact ==
  /\ stage \in {"round", "enter", "attempts", "done"} => Price(sol) = benefit
  /\ stage \in {"integers", "continuous", "attempts", "return"} =>
       Price(bestSol) = bestBen /\ bestBen <= benefit

\* A descent that stopped because rounds no longer improve is an optimum of
\* every single integer step, whatever the order of its sweeps; and no move
\* of a bounded descent leaves the box.
IntegerStep(s, t) == \E i \in Integral : \E d \in {-1, 1} :
  t = [s EXCEPT ![i] = s[i] + d]
IntegerOptimum ==
  /\ DescentTypeOK
  /\ stage = "done" /\ ~mode.adaptive /\ ~expired /\ idle >= NoImproveLimit =>
       \A t \in IF mode.bounded THEN Box ELSE Space :
         IntegerStep(sol, t) => Price(t) >= Price(sol)

\* A descent works for every layout: docs/python.md:96 and docs/examples.md:68
\* show it used with more continuous variables than integers.
LayoutsWork == stage # "failed"
==============================================================================
