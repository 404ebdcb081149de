--------------------------------- MODULE Api ----------------------------------
(***************************************************************************)
(* The public face of the optimizer: the function givp (api/functional.py),*)
(* the estimator that calls it again and again (api/estimator.py) and the  *)
(* command line (cli/).  A call resolves the direction, normalizes bounds  *)
(* and warm starts, hands a wrapped objective to the core, and translates  *)
(* what the core returns.                                                  *)
(*                                                                         *)
(* Of the core only its incumbent is left: GraspLoop implements Incumbent, *)
(* the solutions offered to it are any, the warm starts first.  A warm     *)
(* start is evaluated; what the search offers may be read from the cache,  *)
(* whose key is the rounded solution, and then costs what a solution with  *)
(* the same key costs (Construction and EvaluationCache have the cache).   *)
(***************************************************************************)
EXTENDS Integers, Sequences, FiniteSets

CONSTANTS
  Solutions,     \* solutions inside the bounds
  Values,        \* the finite values of an objective
  Infinity,      \* above every value, in either sign
  Key(_),        \* what the cache keeps of a solution
  Sessions,      \* the sessions: [door, args, flags, json, ...], see below
  MaxRuns        \* the bound on the runs of an estimator

\* func may also raise: what wrapped makes infinite, with a value that is not
\* finite, and what it lets through.
NoValue == Infinity + 1
Crash == Infinity + 2
Outcomes == Values \cup {NoValue, Crash}
Directions == {"minimize", "maximize"}
Messages == {"max_iterations", "time_limit", "early_stop"}
Doors == {"givp", "estimator", "cli"}
CliKeys == {"func", "bounds", "direction", "config"}

\* minimize and direction as passed, the warm starts, and the bounds.
Arguments == [minimize : {"None", "True", "False"}, direction : Directions \cup {"None", "bogus"},
              single : Solutions \cup {"None", "outside"}, many : Seq(Solutions \cup {"outside"}),
              given : BOOLEAN, bounds : {"good", "length", "order"}]
\* What the command line says of a key, as a flag and in --json: a direction,
\* something the key accepts, or something of another JSON type.
Said == {"absent", "null", "given", "other", "bad"} \cup Directions
Flags == [CliKeys -> Said \ {"null", "other"}]
Json == [CliKeys -> Said]

ASSUME ApiAssumption ==
  /\ Values \subseteq Int /\ Infinity \in Nat
  /\ \A v \in Values : -Infinity < v /\ v < Infinity
  /\ Sessions \subseteq [door : Doors, args : Arguments, flags : Flags, json : Json,
                         wellFormed : BOOLEAN, cached : BOOLEAN]
  /\ MaxRuns \in Nat \ {0}
  /\ Solutions \cap {"None", "outside", "zeros"} = {}

VARIABLES
  session, func,     \* the inputs, and the objective
  stage,
  direction,         \* the direction of the call
  warm, offered,     \* warm starts to offer to the incumbent, and offered
  best,              \* the core's incumbent: [x, cost], cost in the core's sign
  history,           \* the results of the runs
  owner,             \* the estimator: [minimize, direction, x, fun, set]
  exit               \* the exit status of the command line

apiVars ==
  <<session, func, stage, direction, warm, offered, best, history, owner, exit>>
inputs == <<session, func>>
core == <<warm, offered, best>>

Args == session.args
Zeros == "zeros"               \* np.zeros(num_vars), the first best_solution

-----------------------------------------------------------------------------
(* Direction and sign.                                                     *)

Named(minimize) == IF minimize = "True" THEN "minimize" ELSE "maximize"

\* _resolve_direction; "error" stands for its ValueErrors.
Resolve(minimize, d) ==
  CASE d = "None" /\ minimize = "None" -> "minimize"
    [] d = "None" /\ minimize # "None" -> Named(minimize)
    [] d = "bogus" -> "error"
    [] d \in Directions /\ minimize = "None" -> d
    [] OTHER -> IF d = Named(minimize) THEN d ELSE "error"

\* Mutant: the sign is not restored.
SignKept(c) == c
\* The sign flip of wrapped and, the same, of the result.
Signed(c) == IF direction = "maximize" THEN -c ELSE c

\* wrapped(x), but for the exceptions it lets through.
Wrapped(s) == IF func[s] \in Values THEN Signed(func[s]) ELSE Infinity

\* The solutions whose cost a solution may be told: with a cache also those
\* with its key, of which the cache keeps the finite costs.
Twins(s) == {s} \cup {t \in Solutions : session.cached /\ Key(t) = Key(s) /\ func[t] \in Values}

\* TerminationReason.from_message, by the words a message contains.
Words(message) == CASE message = "max_iterations" -> {"iteration", "max"}
                    [] message = "time_limit" -> {"time"}
                    [] message = "early_stop" -> {"early"}
                    [] OTHER -> {}      \* "no finite solution found"
FromMessage(message) ==
  LET w == Words(message)
  IN  IF "converge" \in w THEN "converged"
      ELSE IF "time" \in w THEN "time_limit"
      ELSE IF w \cap {"early", "threshold"} # {} THEN "early_stop"
      ELSE IF w \cap {"feasible", "no solution"} # {} THEN "no_feasible"
      ELSE IF w \cap {"iteration", "max"} # {} THEN "max_iterations"
      ELSE "unknown"

-----------------------------------------------------------------------------
(* The command line: flags over JSON.                                      *)

\* Mutant: a direction defaults before --json is read.
EarlyDefault(k) == IF session.flags[k] # "absent" THEN session.flags[k]
                   ELSE IF k = "direction" THEN "minimize" ELSE session.json[k]
\* The value of a key after _resolve_args; the JSON object may be absent.
Merged(k) == IF session.flags[k] # "absent" THEN session.flags[k] ELSE session.json[k]

\* args.get has a default for a missing direction, but not for a null.
CliDirection == CASE Merged("direction") \in Directions -> Merged("direction")
                  [] Merged("direction") = "absent" -> "minimize"
                  [] Merged("direction") = "null" -> "None"
                  [] OTHER -> "bogus"

Exit(code) == stage' = "exited" /\ exit' = code

\* argparse refuses a direction that is none of its choices, _resolve_args a
\* JSON text that is no object, and _cmd_run a missing key.
CliUsage ==
  /\ stage = "arguments"
  /\ \/ session.flags["direction"] = "bad"
     \/ ~session.wellFormed
     \/ \E k \in {"func", "bounds"} : Merged(k) = "absent"
  /\ Exit(2)
  /\ UNCHANGED <<inputs, direction, core, history, owner>>

CliReady ==
  /\ session.flags["direction"] # "bad" /\ session.wellFormed
  /\ \A k \in {"func", "bounds"} : Merged(k) # "absent"

\* No such file or function; no list of pairs; no object in a string, or
\* unknown fields (what is neither a string nor an object is the default).
FunctionLoads == Merged("func") = "given"
BoundsParse == Merged("bounds") = "given"
ConfigParses == Merged("config") # "bad"

CliFails ==
  /\ stage = "arguments" /\ CliReady
  /\ ~(FunctionLoads /\ BoundsParse /\ ConfigParses)
  /\ Exit(1)
  /\ UNCHANGED <<inputs, direction, core, history, owner>>

CliCalls ==
  /\ stage = "arguments" /\ CliReady
  /\ FunctionLoads /\ BoundsParse /\ ConfigParses
  /\ stage' = "call"
  /\ UNCHANGED <<inputs, direction, core, history, owner, exit>>

-----------------------------------------------------------------------------
(* The function.                                                           *)

ApiInit ==
  /\ session \in Sessions
  /\ func \in [Solutions -> Outcomes]
  /\ stage = CASE session.door = "cli" -> "arguments"
               [] session.door = "estimator" -> "create"
               [] OTHER -> "call"
  /\ direction = "minimize"
  /\ warm = <<>> /\ offered = {} /\ best = [x |-> Zeros, cost |-> Infinity]
  /\ history = <<>>
  /\ owner = [minimize |-> TRUE, direction |-> "minimize", x |-> "None", fun |-> Infinity,
              set |-> FALSE]
  /\ exit = -1

\* An exception leaves givp: the command line prints it, an estimator and a
\* caller get it, and may go on.
Raise == IF session.door = "cli" THEN Exit(1)
         ELSE stage' = "raised" /\ UNCHANGED exit

\* The direction a call of each door resolves.
CallDirection ==
  CASE session.door = "cli" -> Resolve("None", CliDirection)
    [] session.door = "estimator" -> IF owner.minimize THEN "minimize" ELSE "maximize"
    [] OTHER -> Resolve(Args.minimize, Args.direction)

Guesses == (IF Args.single = "None" THEN <<>> ELSE <<Args.single>>)
           \o (IF Args.given THEN Args.many ELSE <<>>)

\* Strictly inside the bounds, all different, and not an empty list.
GuessesValid ==
  /\ \A i \in 1..Len(Guesses) : Guesses[i] # "outside"
  /\ \A i, j \in 1..Len(Guesses) : Guesses[i] = Guesses[j] => i = j
  /\ Args.given => Args.many # <<>>

LengthMatches == Args.bounds # "length"
InOrder == Args.bounds # "order"

\* The direction, the bounds' length, the warm starts, and in the core the
\* bounds' order are checked in turn; nothing was evaluated before.
Reject ==
  /\ stage = "call"
  /\ ~(CallDirection # "error" /\ LengthMatches /\ GuessesValid /\ InOrder)
  /\ Raise
  /\ UNCHANGED <<inputs, direction, core, history, owner>>

Call ==
  /\ stage = "call"
  /\ CallDirection # "error" /\ LengthMatches /\ GuessesValid /\ InOrder
  /\ direction' = CallDirection
  /\ warm' = Guesses /\ offered' = {}
  /\ best' = [x |-> Zeros, cost |-> Infinity]
  /\ stage' = "warm"
  /\ UNCHANGED <<inputs, history, owner, exit>>

\* The core is told that s costs what t costs.
Offer(s, t) ==
  /\ best' = IF Wrapped(t) < best.cost THEN [x |-> s, cost |-> Wrapped(t)] ELSE best
  /\ UNCHANGED <<inputs, direction, history, owner, exit>>

\* _maybe_apply_warm_start: cost_fn is called, without the cache.
WarmStart ==
  /\ stage = "warm" /\ warm # <<>> /\ func[Head(warm)] # Crash
  /\ Offer(Head(warm), Head(warm))
  /\ warm' = Tail(warm) /\ offered' = offered \cup {Head(warm)}
  /\ UNCHANGED stage

\* An exception wrapped does not translate: it always leaves the warm start,
\* and the search when no cached evaluation catches it.
Fatal ==
  /\ \/ stage = "warm" /\ warm # <<>> /\ func[Head(warm)] = Crash
     \/ stage = "warm" /\ warm = <<>> /\ \E s \in Solutions : func[s] = Crash
  /\ Raise
  /\ UNCHANGED <<inputs, direction, core, history, owner>>

Search(s) ==
  /\ stage = "warm" /\ warm = <<>>
  /\ \E t \in Twins(s) : Offer(s, t)
  /\ UNCHANGED <<stage, warm, offered>>

\* What givp makes of the core's answer.
ResultOf(message) ==
  LET success == best.cost # Infinity
  IN  [x |-> best.x, fun |-> Signed(best.cost), success |-> success, direction |-> direction,
       termination |-> FromMessage(IF success THEN message ELSE "no finite solution found"),
       meta |-> FromMessage(message), warm |-> offered]

\* Mutant: smaller is better in either direction.
AlwaysSmaller(fun) == fun < owner.fun
IsBetter(fun) == IF owner.direction = "maximize" THEN fun > owner.fun ELSE fun < owner.fun

\* The estimator keeps its best.
Keep(result) ==
  IF session.door = "estimator" /\ (owner.x = "None" \/ IsBetter(result.fun))
  THEN owner' = [owner EXCEPT !.x = result.x, !.fun = result.fun]
  ELSE UNCHANGED owner

Return ==
  /\ stage = "warm" /\ warm = <<>>
  /\ \E message \in Messages :
       /\ history' = Append(history, ResultOf(message))
       /\ Keep(ResultOf(message))
  /\ IF session.door = "cli" THEN Exit(0) ELSE stage' = "returned" /\ UNCHANGED exit
  /\ UNCHANGED <<inputs, direction, core>>

-----------------------------------------------------------------------------
(* The estimator.                                                          *)

Create ==
  /\ stage = "create"
  /\ LET d == Resolve(Args.minimize, Args.direction)
     IN  IF d = "error" THEN stage' = "refused" /\ UNCHANGED owner
         ELSE /\ stage' = "ready"
              /\ owner' = [owner EXCEPT !.minimize = (d = "minimize"), !.direction = d,
                                        !.fun = IF d = "maximize" THEN -Infinity ELSE Infinity]
  /\ UNCHANGED <<inputs, direction, core, history, exit>>

\* run() or fit().
Run ==
  /\ session.door = "estimator" /\ Len(history) < MaxRuns
  /\ stage \in {"ready", "returned", "raised"}
  /\ stage' = "call"
  /\ UNCHANGED <<inputs, direction, core, history, owner, exit>>

\* BaseEstimator.set_params sets the attribute and nothing else.
SetMinimize ==
  /\ session.door = "estimator" /\ stage \in {"ready", "returned"}
  /\ ~owner.set
  /\ owner' = [owner EXCEPT !.minimize = ~owner.minimize, !.set = TRUE]
  /\ UNCHANGED <<inputs, stage, direction, core, history, exit>>

ApiNext ==
  \/ CliUsage \/ CliFails \/ CliCalls
  \/ Reject \/ Call \/ WarmStart \/ Fatal \/ (\E s \in Solutions : Search(s)) \/ Return
  \/ Create \/ Run \/ SetMinimize

ApiSpec == ApiInit /\ [][ApiNext]_apiVars

-----------------------------------------------------------------------------

(* Results have their types; the warm starts of a call are different        *)
(* solutions inside the bounds.                                             *)
ApiTypeOK ==
  /\ stage \in {"arguments", "create", "ready", "call", "warm",
                "returned", "raised", "refused", "exited"}
  /\ direction \in Directions
  /\ \A i, j \in 1..Len(warm) : warm[i] = warm[j] => i = j
  /\ warm \in Seq(Solutions) /\ offered \subseteq Solutions
  /\ \A i \in 1..Len(warm) : warm[i] \notin offered \/ stage # "warm"
  /\ exit \in {-1, 0, 1, 2} /\ Len(history) <= MaxRuns

(* In the user's sign, a result is as good as every feasible warm start; it *)
(* is a success if and only if its value is finite, and then to_dict() and  *)
(* meta name the same reason, and the value is the objective at its         *)
(* solution - with the cache on, at a solution the cache takes for the      *)
(* same.  Without success it is the core's first point (functional.py:69-88,*)
(* result.py:48-62, evaluation.py:19-30).                                   *)
ResultFaithful ==
  \A i \in 1..Len(history) :
    LET r == history[i]
        better(a, b) == IF r.direction = "maximize" THEN a >= b ELSE a <= b
    IN  /\ r.success => /\ r.x \in Solutions /\ \E t \in Twins(r.x) : r.fun = func[t]
                        /\ r.termination = r.meta /\ r.meta # "unknown"
        /\ ~r.success => r.x = Zeros
        /\ r.success <=> r.fun \notin {-Infinity, Infinity}
        /\ \A s \in r.warm : func[s] \in Values => r.success /\ better(r.fun, func[s])

(* What the guide says of the reason "no_feasible": no feasible solution    *)
(* was found (quickstart.md:140).  Of an objective that is finite nowhere   *)
(* the message says "finite", a word from_message does not know             *)
(* (functional.py:79, result.py:58).                                        *)
NoFeasibleNamed ==
  (\A s \in Solutions : func[s] \notin Values) =>
    \A i \in 1..Len(history) : history[i].termination = "no_feasible"

(* Over any sequence of runs, failed ones and ones without a solution among *)
(* them, the estimator holds the best of its history and the first solution *)
(* with that value - as long as nobody sets its minimize parameter, which   *)
(* turns the runs but not the comparison (estimator.py:41-78).              *)
EstimatorBest ==
  session.door = "estimator" /\ ~owner.set =>
    LET better(a, b) == IF owner.direction = "maximize" THEN a > b ELSE a < b
        funs == {history[i].fun : i \in 1..Len(history)}
    IN  /\ history = <<>> <=> owner.x = "None"
        /\ \A f \in funs : ~better(f, owner.fun)
        /\ history # <<>> =>
             \E i \in 1..Len(history) :
               /\ history[i].fun = owner.fun /\ history[i].x = owner.x
               /\ \A j \in 1..(i - 1) : better(owner.fun, history[j].fun)
        /\ \A i \in 1..Len(history) : history[i].direction = owner.direction

(* Status 0 comes with a result and no other status does; 2 only for bad    *)
(* usage, before anything is evaluated.  A flag decides the direction of    *)
(* the result whatever --json says, without it --json does, and without     *)
(* both it is minimize (commands.py:25-68, parsing.py:46-71).  The types    *)
(* are kept, and no warm start is offered twice.                            *)
CliFaithful ==
  /\ ApiTypeOK
  /\ session.door = "cli" =>
       /\ exit = 0 <=> history # <<>>
       /\ exit = 2 => /\ offered = {}
                      /\ session.wellFormed /\ session.flags["direction"] # "bad" =>
                           \E k \in {"func", "bounds"} :
                             session.flags[k] = "absent" /\ session.json[k] = "absent"
       /\ exit = 0 =>
            LET flag == session.flags["direction"]
                json == session.json["direction"]
            IN  /\ flag \in Directions => history[1].direction = flag
                /\ flag \notin Directions /\ json \in Directions => history[1].direction = json
                /\ {flag, json} \cap Directions = {} => history[1].direction = "minimize"

===============================================================================
