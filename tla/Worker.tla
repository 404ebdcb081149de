-------------------------------- MODULE Worker --------------------------------
(***************************************************************************)
(* The users of the cascade: the worker that serves batches of power       *)
(* schedules, one JSON text per line (interop.py), and the objective of an *)
(* optimization, which asks for turbine flows (runner.py).  A batch is     *)
(* evaluated case by case and answered as a whole.                         *)
(***************************************************************************)
EXTENDS Cascade

\* A line: blank, no JSON, JSON too deep for the parser or with an integer of
\* too many digits for it, against the protocol, with an integer too large for
\* a float, or a batch of so many cases, which overflows if its numbers, all
\* finite, do so in the curves.
LineKinds == {"blank", "garbage", "deep", "invalid", "huge", "batch"}
CONSTANT Streams   \* the streams of lines

ASSUME WorkerAssumption ==
  Streams \subseteq Seq([kind : LineKinds, cases : Nat \ {0}, overflows : BOOLEAN])

VARIABLES
  lines,      \* the input stream
  position,   \* the lines read
  responses,  \* the responses written: [code, cases]
  results,    \* the cases of the batch evaluated so far
  stage

workerVars == <<cascadeVars, lines, position, responses, results, stage>>

Line == lines[position]
Respond(code, cases) == responses' = Append(responses, [code |-> code, cases |-> cases])

WorkerInit ==
  /\ CascadeInit
  /\ lines \in Streams /\ position = 0 /\ responses = <<>> /\ results = <<>>
  /\ stage \in {"idle", "objective"}

-----------------------------------------------------------------------------
(* run_worker                                                              *)

More(kind) == stage = "idle" /\ position < Len(lines) /\ lines[position + 1].kind = kind

SkipBlank ==
  /\ More("blank") /\ position' = position + 1
  /\ UNCHANGED <<cascadeVars, lines, responses, results, stage>>

RefuseJson ==
  /\ More("garbage") /\ position' = position + 1
  /\ Respond("invalid_json", <<>>)
  /\ UNCHANGED <<cascadeVars, lines, results, stage>>

\* A RecursionError is a RuntimeError, and the digits are a ValueError.
RefuseDeep ==
  /\ More("deep") /\ position' = position + 1
  /\ Respond("evaluation_error", <<>>)
  /\ UNCHANGED <<cascadeVars, lines, results, stage>>

\* parse_batch_request: the version, the list of requests, their shapes and
\* numbers, and case_ids that are all different, before any evaluation.
RefuseRequest ==
  /\ More("invalid") /\ position' = position + 1
  /\ Respond("invalid_request", <<>>)
  /\ UNCHANGED <<cascadeVars, lines, results, stage>>

\* np.asarray raises an OverflowError, which is none of the exceptions caught:
\* the worker ends.
DieParsing ==
  /\ More("huge") /\ position' = position + 1
  /\ stage' = "dead"
  /\ UNCHANGED <<cascadeVars, lines, responses, results>>

\* Mutant: the results of a failed batch are kept.
StartKeeping ==
  /\ More("batch") /\ position' = position + 1
  /\ stage' = "evaluating" /\ UNCHANGED results
  /\ Fresh("power")
  /\ UNCHANGED <<lines, responses>>
\* evaluate_batch
StartBatch ==
  /\ More("batch") /\ position' = position + 1
  /\ stage' = "evaluating" /\ results' = <<>>
  /\ Fresh("power")
  /\ UNCHANGED <<lines, responses>>

Step ==
  /\ stage \in {"evaluating", "simulating"} /\ Simulate
  /\ UNCHANGED <<lines, position, responses, results, stage>>

\* The first case that fails answers for the batch.
FailCase ==
  /\ stage = "evaluating" /\ InvalidTarget
  /\ Respond("evaluation_error", <<>>)
  /\ stage' = "idle"
  /\ UNCHANGED <<cascadeVars, lines, position, results>>

\* An OverflowError again, or a result that is not finite, which json.dumps
\* refuses outside of the try.
Overflow ==
  /\ stage = "evaluating" /\ Line.overflows
  /\ stage' = "dead"
  /\ UNCHANGED <<cascadeVars, lines, position, responses, results>>

FinishCase ==
  /\ stage = "evaluating" /\ Simulated /\ ~Line.overflows
  /\ LET done == Append(results, Len(results) + 1)
     IN  /\ results' = done
         /\ IF Len(done) < Line.cases
            THEN Fresh("power") /\ UNCHANGED <<responses, stage>>
            ELSE Respond("results", done) /\ stage' = "idle" /\ UNCHANGED cascadeVars
  /\ UNCHANGED <<lines, position>>

Close ==
  /\ stage = "idle" /\ position = Len(lines)
  /\ stage' = "closed"
  /\ UNCHANGED <<cascadeVars, lines, position, responses, results>>

-----------------------------------------------------------------------------
(* optimize_scenario's objective.                                          *)

EvaluateObjective ==
  /\ stage = "objective"
  /\ Fresh("flow") /\ stage' = "simulating"
  /\ UNCHANGED <<lines, position, responses, results>>

ReturnObjective ==
  /\ stage = "simulating" /\ Simulated
  /\ stage' = "closed"
  /\ UNCHANGED <<cascadeVars, lines, position, responses, results>>

WorkerNext ==
  \/ SkipBlank \/ RefuseJson \/ RefuseDeep \/ RefuseRequest \/ DieParsing \/ StartBatch
  \/ Step \/ FailCase \/ Overflow \/ FinishCase \/ Close
  \/ EvaluateObjective \/ ReturnObjective

WorkerSpec == WorkerInit /\ [][WorkerNext]_workerVars

-----------------------------------------------------------------------------

\* The lines up to a position that ask for a response: those not blank.
Asking(p) == {q \in 1..p : lines[q].kind # "blank"}
Pending == stage \in {"evaluating", "dead"}

\* A response to a line, and to no other kind of line.
Answers(response, line) ==
  \/ line.kind = "garbage" /\ response.code = "invalid_json"
  \/ line.kind = "invalid" /\ response.code = "invalid_request"
  \/ line.kind = "deep" /\ response.code = "evaluation_error"
  \/ /\ line.kind = "batch"
     /\ \/ response.code = "evaluation_error" /\ response.cases = <<>>
        \/ response.code = "results" /\ response.cases = [c \in 1..line.cases |-> c]

(* Every line read that is not blank has one response, in the order of the  *)
(* lines, and only its own: all cases of a batch in order or one error, no  *)
(* matter which lines and failures came before.  The last line read may     *)
(* lack one: while it is evaluated, and if the worker died of it            *)
(* (interop.py:82-89, 179-187).                                             *)
AnswersInOrder ==
  LET last == IF Pending THEN position - 1 ELSE position
  IN  /\ Len(responses) = Cardinality(Asking(last))
      /\ \A p \in Asking(last) : Answers(responses[Cardinality(Asking(p))], lines[p])
      /\ Pending => Line.kind \in {"batch", "huge"}

===============================================================================
