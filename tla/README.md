# Verification of givp

givp minimizes (or maximizes) a black-box function over a box with a
GRASP-ILS-VND metaheuristic and path relinking (PR). It exists as a Python
package and as four ports (Rust, Julia, C++, R). The Python package,
`src/python/src/givp/`, is the reference: paths below are relative to it unless
they start with `src/`.

The optimizer is stochastic and numeric, but what makes a run correct is its
bookkeeping: an incumbent, an elite pool, a convergence monitor, a stagnation
counter, a deadline and a cache are updated one after the other by a dozen
functions, each with a comparison and an early return of its own. The
specifications keep that control and reduce the numbers to what it tells apart:
which solution is cheaper, too close, out of bounds, or has the same cache key.
Around the optimizer the repository has a command line, a worked example (a
hydropower cascade with a worker process) and benchmark artifacts kept in files;
they are modelled too, because each has an order of steps a test hardly reaches.

## Inventory

| Part | State it keeps | Operations | Talks to |
|---|---|---|---|
| Elite pool, `core/elite.py` | list of (solution, cost), sorted, `max_size`, `min_distance` | `add`, `clear`, `get_all`, `get_best`, `size` | warm start, iteration, relinking, restart, monitor |
| GRASP loop, `core/engine/runner.py`, `iteration.py`, `state.py` | incumbent, stagnation, iteration, deadline, termination | warm start, iteration, reactive restart, early stop | every search, the pool, the monitor, the callback |
| Convergence monitor, `core/convergence.py` | `best_ever`, `no_improve_count` | `update` | told the incumbent's cost once per iteration, asks for a restart |
| Path relinking, `core/engine/relinking.py`, `core/pr.py` | a copy of the pool, two loop indices, the walk's point | `do_path_relinking` and the walks | evaluates through the cache, refines by VND, adds to the pool it has copied |
| Evaluation cache, `core/cache.py` | `OrderedDict` from key to cost, hits, misses | `get`, `put`, `clear` | every evaluation of construction, VND and relinking |
| Batch evaluation, `core/engine/evaluation.py` | a process or thread pool per batch | process pool, cloudpickle pool, threads | threads share the cache without a lock |
| Construction, `core/engine/construction.py`, `candidates.py`, `rcl.py` | the batch and its costs | seed, sample, evaluate, select from the restricted list | batch evaluation |
| VND, `core/vnd/` | one vector edited in place, sensitivities | flip, swap, multi-flip, group, block; adaptive and standard order | evaluates through the cache |
| ILS, `core/ils.py` | current and best solution of the call | perturb, descend, accept | evaluates without the cache |
| API, `api/`, `config.py`, `result.py` | evaluation counter, best run of the estimator | `givp`, `GIVPOptimizer.run`, `to_dict` | wraps the objective, interprets the termination message |
| Command line, `cli/` | none | parse, load, merge, run, print | API |
| Hydropower cascade, `examples/synthetic_hydropower/model/` | volumes, water on its way, unit states | simulate by flow or by power | worker, objective of the example |
| Worker, `examples/synthetic_hydropower/interop.py`, `runner.py` | position in a stream, the batch | parse a line, evaluate its cases, respond | cascade |
| Benchmark artifacts, `examples/synthetic_hydropower/benchmark/` | files and manifests of checksums | save, promote, write frames | file system |
| Ports, `src/rust`, `src/cpp`, `src/julia`, `src/r` | those of the optimizer | the same stages, in an order, with guards and with resets of their own | - |
| Helpers, `core/helpers.py` | ContextVars: seed, integer split, group size | `_expired`, `_safe_evaluate`, `_get_half`, `_new_rng` | everybody |

What each must guarantee:

- **Elite pool**: sorted and diverse after any sequence of calls; no rank ever
  gets worse; the partial restart loses nothing but what it drops.
- **GRASP loop**: the incumbent only improves and dominates everything offered
  to the pool; early stop and restart are earned by iterations without a gain;
  the iterations reported, the reason given and the way out agree; the run ends.
- **Relinking**: terminates over a pool that changes under it; what it returns is
  a legal result (it is not, see the findings).
- **Cache**: least recently used out first, last cost put is the cost got; among
  threads, no exception and no lost result as long as a batch has room.
- **Batch evaluation, construction**: one outcome per candidate at its place,
  every evaluation accounted for, candidates in the box, a worthy choice.
- **VND, ILS, walks**: the vector edited in place is always what it is priced as;
  the result is in the box, when bounds are given, and no worse than the start.
- **API, command line**: the value reported is the objective's at the solution
  reported, in the user's direction; reason, exit status and history agree.
- **Cascade, worker**: water is neither made nor lost, what is reported of a
  period is so, and every line has its own answer, in order.
- **Artifacts**: what a manifest vouches for is whole and of one run.
- **Ports**: each run is one of the same abstract optimizer, and keeps what it
  found at the cost it has, within the bounds.

The behaviours that are hard, each with its line in `PROJECT.json`, `hazards`:

- *Stale state.* The monitor counts before relinking of the same iteration runs
  and the early stop is tested after it. Relinking walks a copy of a pool it
  modifies. A cached cost may be another solution's. Every neighbourhood edits
  the vector of the descent in place.
- *Ordering.* Six comparisons with the incumbent in five functions, four places
  that reset or keep the stagnation counter; futures that finish in any order;
  water that arrives a travel time later.
- *Timeout.* The deadline may pass between any two steps; it ends loops at four
  levels, and is read only once in several steps of the innermost.
- *Partial failure.* An exception of the objective is translated, caught as
  infinity, or aborts the run, depending on the stage; a process pool that fails
  half-way is replaced by another; one bad case fails a batch.
- *Crash.* A process that saves or promotes artifacts may be killed between two
  files.
- *Interleaving.* With `n_workers > 1` and the cache on, threads share an
  `OrderedDict` whose check-then-act sequences are not locked.

## Modules

| Module | Models | State and actions against the code |
|---|---|---|
| `ElitePool` | `core/elite.py`, and the monitor's partial restart of `engine/state.py` | `pool` is `self.pool`; `Offer(e)` is `add` with distance test, eviction and stable sort; `PartialRestart` is "copy two, clear, add them again" |
| `Incumbent` | no code: the abstract specification of a run | `Improve`, `Spend`, `Conclude` |
| `GraspLoop` | `runner.py`, `iteration.py`, `state.py`, `relinking.py`, `convergence.py` | extends `ElitePool`; one action per stage, `pc` names the stage |
| `OrderedDict` | what the cache uses of `collections.OrderedDict` (external) | operators on sequences of entries, the oldest first |
| `EvaluationCache` | `core/cache.py`, one caller | `cache`, `hits`, `misses`; `GetHit`, `GetMiss`, `Put`, `Clear`; `recency`, `written` are history |
| `SharedCache` | the thread branch of `evaluation.py` over `core/cache.py` | `items` is the cache's dictionary, and per thread the point it is at in `_evaluate_with_cache`; an action runs from one call on the dictionary to the next |
| `Construction` | `construction.py`, `candidates.py`, `rcl.py`, `evaluation.py`, `validation.py` | the arguments of a call and what the run's cache holds (`cached`), then `pool`, `costs`; stages validate, seed, build, evaluate (in turn, process pools, threads), choose |
| `Descent` | `core/vnd/` | `sol` is the one vector; an action is one trial of a move with its write, its price and its undo |
| `Search` | `core/ils.py`, `core/pr.py`, the refinement of `relinking.py` | extends `Descent`: a task is a call of a search; ILS and the walks run descents as the code does |
| `Api` | `api/`, `result.py`, `cli/` | a session through one of three doors; validation, warm starts, the core as offers to an incumbent, the result, the estimator's history |
| `Cascade` | `model/simulator.py`, `transition.py`, `dispatch.py`, `curves.py` | `volume`, `series` per plant; one action per plant and period |
| `Worker` | `interop.py`, `runner.py` | extends `Cascade`: reads a stream of lines, responds |
| `Artifacts` | `benchmark/results.py`, `promotion.py`, `storage.py`, `deterministic/persistence.py` | the content of each file; one action per file written, `Kill` and `Edit` between any two |
| `PortRun` | what the ports share | variables, bounds, moves, batches, comparison, offers |
| `RustRun` | `src/rust/src`: `impl_core.rs`, `grasp.rs`, `vnd.rs`, `ils.rs`, `pr.rs`, `convergence.rs`; and the C++ port with one worker | one action per stage, as `GraspLoop` |
| `JuliaRun` | `src/julia/src`: `impl.jl`, `grasp.jl`, `vnd.jl`, `ils.jl`, `pr.jl` | the same |
| `RRun` | `src/r/R`: `impl.R`, `grasp.R`, `vnd.R`, `ils.R`, `pr.R`, `elite.R`, `convergence.R`, `helpers.R` | the same |
| `Ports` | the three together | the properties a run of any port is held to |
| `ElitePoolProofs`, `GraspLoopProofs`, `CacheProofs`, `ConstructionProofs`, `SearchProofs`, `ApiProofs`, `HydropowerProofs`, `PortsProofs` | - | the theorems: of the pool, the loop, the two caches, the construction, the searches, the API and command line, the example (cascade, worker and artifacts), the ports |
| `MCGraspLoop`, `MCCaches`, `MCConstruction`, `MCSearch`, `MCApi`, `MCHydropower`, `MCPorts` | - | the instances for TLC; `MCCaches` and `MCHydropower` hold two that share no state |

How they fit together. `GraspLoop` touches the pool through `Offer` and
`PartialRestart` only, so that a run *is* an execution of `ElitePool`
(`ImplementsPool`), and, with `nit` for the iterations and `termination` for the
verdict, one of `Incumbent` (`ImplementsIncumbent`). `Ports` maps its runs to
the same `Incumbent` (`PortsImplementIncumbent`) and extends the same
`ElitePool`. `Api` takes from the core what `Incumbent` promises. `Search` and
`Construction` are the inside of stages that `GraspLoop` abstracts to what they
may return: `NeverWorse` and `CandidatesFit` are what makes that abstraction
sound, except where relinking leaves the box, which `GraspLoop` has too.

The stages of `GraspLoop`, in the order of the code: `warm`
(`_maybe_apply_warm_start`, one guess per step) → `head` (exhausted, out of time,
or construct) → `vnd` → `ils` → `record` (incumbent and pool) → `monitor` →
`relink`/`pairs` (`do_path_relinking`, one pair per step) → `restart`
(`_reactive_restart`, if due) → `stop` (`actual_nit`, early stop) → `head` … →
`done`. The ports have the same stages with other guards.

Abstractions:

- **Solutions** are model values in `GraspLoop` and `Api`, and vectors of levels
  where coordinates are moved (`Construction`, `Search`, the ports). `Near` is
  `distance < min_distance`, symmetric, reflexive and *not* transitive; `Bucket[s]`
  the solutions with the cache key of `s`.
- **Costs** are `0..Infinity`. In Python, Rust, C++ and Julia a wrapper changes the
  sign of a maximization, so one direction is enough below the API; R compares in
  the user's direction, and so does `RRun`. NaN is not modelled.
- **The cache's key** is a solution rounded: `Bucket` in `GraspLoop`, `Key` in
  `Construction`, `Descent` and `Api`, `Rounded` in the ports (in R's, too, where
  it keeps twelve significant digits). Where a cost is read through the cache it is
  the cost of *some* solution with that key, so it may be another's, and every
  property about costs says which of the two it speaks of. A construction has the
  cache itself, which holds whatever earlier iterations of the run (`Earlier`) may
  have left in it, and may drop entries at any time. A search has its readings
  (`Held`, in the ports `price`): one answer for a key while a call, in the ports
  an iteration, lasts; an entry evicted and evaluated again in between is not
  modelled. How the cache itself works is the subject of `EvaluationCache` and
  `SharedCache`.
- **Guesses** of the ports are normalized, and whole numbers in integer
  coordinates; bounds of integer coordinates need not be, but have an integer
  between them.
- **A search** in `GraspLoop` returns what its acceptance rule allows, costs being
  read through the cache. In the ports it returns what its moves and its
  acceptance can reach within `Drops` accepted moves; the results are tables, which
  TLC evaluates once (`MCPorts` has them evaluated before the run begins).
- **Random choices** are nondeterministic, so no seed can contradict the model.
- **The clock** is an action enabled whenever a deadline is set (in `Search` it is
  seen only where the code reads it).
- **A raising objective** is one that raises something other than the exceptions
  the wrapper translates; `_safe_evaluate` makes it infinite, a direct call
  propagates it.
- **Threads** in `SharedCache`: CPython hands the interpreter over after calls, so
  an action runs from one call on the dictionary, or of the objective, to the
  next. A build without the GIL is not modelled. In `Construction` a thread's
  evaluation is one step and what matters is which finishes first.
- **Quantities of the cascade** are integers, its curves any functions, and its
  numerical searches a choice among what they may find. `POWER_TOLERANCE_MW` is
  modelled (`Tolerance`); the 1e-8 of `np.isclose` on flows is not.
- **A line of the worker** is blank, malformed, refused, too deeply nested or long a
  number for the parser (answered as an `evaluation_error`, since `RecursionError`
  is a `RuntimeError`, and `ValueError` is caught: `interop.py:186`), a batch, a
  batch whose curves overflow, or one with a number beyond the floats (`huge`).
  A line that is not UTF-8 is not modelled.
- **A file** is the run that wrote it and the configuration it tells; a checksum is
  its content; replacing a file is one step, copying one in place is two.

## Runs

Seven runs pass; five end in the violation that `findings` describes.

| Run | Question | Properties | Bounds |
|---|---|---|---|
| `grasp_loop` | Is a run's bookkeeping consistent? | `GraspTypeOK`, `IncumbentDominates`, `EarlyStopEarned`, `RestartEarned`, `ImplementsIncumbent`, `ImplementsPool`, `Terminates` | 4 solutions (`a`, `b` near and of one key, `z` out of the box), all 81 objectives with 3 costs, 3 lists of warm starts, 4 configurations, 5 iterations, threshold 3, relinking every second |
| `ports` | Do the ports keep the same promises, and where not? | `PortTypeOK`, `PoolInv`, `RanksNeverWorsen`, `ShrinksToBestTwo`, `PortsImplementIncumbent`, `StopsWhenStagnant`, `NothingLost`, `CostsBelong`, `StaysInBox`, `PickWorthy` | a box of 2 x 3 levels, one level a bound rounds to and the literal 0, two solutions to a key, 2 objectives, 10 settings over the ports, 4 iterations, pool of 3 |
| `search` | Do descents, ILS and walks handle vector, price and clock rightly? | `WorkingVectorIntact`, `IntegerOptimum`, `LateSearchBounded`, `NeverWorse`, `Terminates` | 7 layouts of two to four variables with 3 levels, 2 in the box, of which a key confuses two; no cache or one in use; every mode, every strategy (1.6 million states) |
| `construction` | Is a batch built, priced and chosen from rightly? | `CostsMatch`, `CandidatesFit`, `ChosenWorthy`, `CallsAccounted`, `FailsOnlyOnSplit` | one to three variables, bounds in quarters, with guesses and without, 1 or 2 workers, a cache filled by any part of what was evaluated earlier (0.6 million states) |
| `caches` | Is it an LRU cache, and what does the missing lock cost? | `HoldsMostRecent`, `HarmBounded`, `BatchCompletes` | one caller: 5 keys, room for 2, 2 costs, 2 lookups between clears. 2 threads: every batch of 3 up to the names of its keys, one of 6 with a repeated key, room for 1 or 3, every initial content |
| `api` | Is what is reported the truth? | `ResultFaithful`, `EstimatorBest`, `CliFaithful` | 2 solutions with one key, 3 values and two ways of having none, with the cache and without, up to 2 runs |
| `hydropower` | Does the example keep its books, and is what is kept whole and of one run? | `WaterConserved`, `RecordsHonest`, `AnswersInOrder`, `PromotedIsWhole`, `VerifiedIsOneRun` | 3 periods, travel time 2, two inflows, four requests, streams of up to four lines; 3 runs saved, 2 configurations |
| `grasp_bounds` | violation | `ResultInBounds` | 4 iterations, relinking in each |
| `grasp_stale_cost` | violation | `CostIsObjective` | the same, two solutions with one key |
| `construction_split` | violation | `IntegerProblemsWork` | as `construction` |
| `search_layout` | violation | `LayoutsWork` | as `search` |
| `api_no_feasible` | violation | `NoFeasibleNamed` | as `api` |

There is one type invariant for the loop and one for the ports; elsewhere the
types are conjuncts of a property that needs them (`HoldsMostRecent`,
`HarmBounded`, `CandidatesFit`, `RecordsHonest`, `CliFaithful`,
`IntegerOptimum`). `caches` and `hydropower` check two instances in one run that
have no variable in common: a variable of the instance (`callers`, `half`) says
which of them a behaviour is about, and the other stands still. Deadlock is checked
except in `search`, `api`, `hydropower` and the violations of the first two, where a
call, a session or a stream is over.

Why the bounds are enough:

- `grasp_loop`: five iterations with a threshold of three and a quarter of the
  budget of one contain a gain, stagnation up to either threshold, a reset by each
  of the four stages that reset, relinking over a pool that grew, and exhaustion,
  early stop and timeout in every position. The configurations switch the pool, the
  monitor, the deadline and a raising objective, each with a strategy of its own.
- `ports`: `MonitorThreshold` 2 and `RestartFloor` 1 stand for the 50 of Rust and
  C++ and the 5 of R; with `early_stop_threshold` 1 and 2 both sides of the
  comparison occur. One objective has an infeasible wall between a good and a very
  good corner, the other a slope so gentle that a worse solution is within the 25 %
  ILS accepts (costs are not negative there, as the factor 1.25 supposes). The
  integer coordinate has an upper bound that is no integer and rounds to a level
  outside; the key confuses the two levels of the continuous one, and the cache has
  either of them.
  Every exception a property allows was seen to occur.
- `search`: `MinBlock` 2, `MaxBlock` 3, `DeadlineStride` 2, `RelinkStride` 2,
  `MaxRelink` 2, `MaxAttempts` 2 stand for 3, 6, 8, 5, 25, and 50 or 30, so that
  layouts of four variables are on both sides of each.
  Two levels of a continuous variable have one key, and a cache in use has the cost
  of the one that is not asked for.
- `construction`: `DefaultPool` 4, `MinPool` 3, `Iterations` 2 stand for 10, 5 and
  the budget; quarters give bounds that are not integers and an interval without
  an integer. The earlier solutions are a guess and a twin of a candidate with another
  cost, and the cache holds any of them.
- `hydropower`: a travel time of two in three periods has water that arrives,
  water still on its way at the end, and periods before the first arrival. The level
  control spills more than the excess, as the quadratic emergency spill may. A line
  the worker dies of has lines behind it.
- `caches`: `MaxLookups` only bounds the statistics; `Clear` makes room
  for more and `Put` refreshes without bound.
  Two results suffice to mix files; the third is the retry after a kill.

What the passing runs show, where it is not plain from the name:

- `EarlyStopEarned`: the only gain an early stop may ignore is one of relinking in
  the very last iteration. `RestartEarned`: without a monitor the reactive restart
  never happens, the handler's 0 overwrites the counter (`state.py:83`).
- `HarmBounded`: with room for the batch no interleaving raises a `KeyError` or
  loses a result; the race on the length costs one entry per further thread. A
  candidate whose key another one has may cost one more, since its `put` found the
  key, evicts nothing, and stores it after another thread has evicted it.
- `BatchCompletes`: an exception of one call cancels what is still queued
  (`list(executor.map(...))`); only candidates behind it remain without an outcome.
- `NeverWorse`: as a search has *read* costs it never returns anything dearer than it
  was given. ILS knows its start by the cost that was read for it and prices what its
  descents return by the objective itself: it returns nothing dearer than any of these.
- `LateSearchBounded`: after the deadline a search makes at most three prices for
  each integer of one stride and one for its result, or a stride of a walk and the
  prices of the point found before and after its descent: 25 in the code.
- `CostsMatch`, `ChosenWorthy`, `ResultFaithful`, `CostsBelong`: costs are those of
  the solution or, with the cache on, of one with the same rounded key, never of a
  third; choices are right as costs were read. `CostIsObjective` is the stronger
  promise of `result.py:72`, which `grasp_stale_cost` refutes.
- `CallsAccounted`: `nfev` misses exactly the calls made in worker processes. With a
  cache the number of calls depends on what it still holds, and lies between one for
  each key it had not been given and one for each candidate.
- `NothingLost`, `CostsBelong`, `StaysInBox`, `PickWorthy`, `StopsWhenStagnant`:
  what the ports get wrong, they get wrong in the named port and at the named
  place only; everywhere else the promise of the reference holds. `StaysInBox` names
  two places of Rust and C++: the integer coordinate that is clamped and then
  rounded (`vnd.rs:31`, `ils.rs:34`, `grasp.rs:96`, `impl_core.rs:147`), and the
  literal zero of the greedy walk. `NothingLost` speaks of the descents and walks of
  the iterations; descents inside a restart of Rust and Julia are not counted.
- `AnswersInOrder`: one line - the last one read - may lack an answer, because the
  worker is still at it or has died of it.
- `PromotedIsWhole`: that what is promoted is of *one* run is claimed only of results
  whose save was not broken off; see the disagreements.

Findings of the violation runs:

- `grasp_bounds`: the result may lie outside the bounds; relinking refines by a
  descent that is given none (`engine/relinking.py:46`).
- `grasp_stale_cost`: `fun` may not be the objective at `x`; the cache key rounds.
- `construction_split`: a fully integer problem (`integer_split=0`) ends in an
  `IndexError` (`candidates.py:80`).
- `search_layout`: a descent over 12 continuous and 8 integer variables, the layout
  of `src/docs/python.md:98`, ends in an `IndexError` (`vnd/pair.py:33`), and one with
  a `group_size` below 3 in a `ValueError` (`vnd/structured.py:77`).
- `api_no_feasible`: where no solution has a finite value the reason is reported as
  `unknown`, never as the `no_feasible` of `src/docs/quickstart.md:140`
  (`api/functional.py:79`, `result.py:58`).

Disagreements met while modelling that have no run of their own:

- Python. `GIVPConfig(direction=...)` is overwritten by the call
  (`api/functional.py:41`, `src/docs/python.md:79`). The convergence monitor is to
  enable "diversification/restart heuristics" (`config.py:51`) and to "force a heavy
  perturbation" (`src/docs/algorithm.md:72`), but the partial restart has the
  threshold of the early stop (`state.py:26`, `:75`, `:103`): it comes in the
  iteration after which the run ends. A warm start near an earlier one is not
  inserted into the pool (`core/elite.py:59`, `src/docs/examples.md:289`).
  `set_params(minimize=...)` turns an estimator's runs and not its comparison.
  Worker threads do not inherit the ContextVar of the integer split, so their keys
  round at the middle of the vector. An infinite `fun` is printed as `Infinity`,
  which is no JSON. Bounds that cannot be parsed and an unusable configuration end
  the command line with status 1, where `src/docs/cli.md:231` and `test_cli.py:291`
  say 2; a `config` in `--json` that is neither a string nor an object is ignored
  (`commands.py:20`).
- The hydropower example. The worker, which serves until the input stream closes
  (`interop.py:83`), dies of an overflow of `np.asarray` or in the curves, and of a
  result that is not finite (`interop.py:88`, `:118`). A volume may become negative:
  the emergency spill is quadratic in the excess and not limited by what there is
  (`dispatch.py:87`). Promotion is to "reject a partial run" (`test_artifacts.py:149`)
  and results of another configuration (`:121`), but a save that was killed leaves new
  tables beside the manifest of an older run, and is promoted, since only the presence
  of the files and the configuration are looked at (`results.py:43`). A promotion
  that was killed or refused cannot be repeated, its directory is there
  (`promotion.py:46`). The balance of the example's command line is not written
  atomically (`examples/synthetic_hydropower/cli.py:57`). The suite manifest may
  vouch for a file a killed copy has truncated (`deterministic/persistence.py:112`).
- Rust and C++. ILS exchanges the best it has for something up to a quarter worse
  (`ils.rs:98`, `ils.hpp:97`). A walk writes 0.0 into a coordinate when no move is
  feasible (`pr.rs:36`, `pr.hpp:50`). An infeasible candidate in a batch makes the
  threshold of the restricted list infinite or no number (`grasp.rs:73`,
  `grasp.hpp:54`). The monitor's own threshold of 50 resets the count the early stop
  compares, so that with the default of 80 no run stops early
  (`src/rust/src/impl_core.rs:274`; the parameters are said to be aligned, and
  `StopsWhenStagnant` has the exception, `Deaf`). Gains of relinking
  neither enter the pool nor reset the stagnation. C++ with several workers returns
  an empty candidate of infinite cost if all of them found nothing
  (`impl_core.hpp:255`).
- Julia. ILS keeps the old cost with the new solution (`ils.jl:83`); the restart
  does not price the pair again (`impl.jl:347`), so that a wrong cost may enter
  incumbent and pool. Guesses must be strictly inside the bounds. The first random
  vector is not rounded (`impl.jl:141`).
- R. A maximization whose first evaluation fails ends with "no feasible solution
  found" (`helpers.R:60`, `impl.R:42`). `sample` of a single index samples from 1 up
  to it (`grasp.R:88`). An iteration the time limit prevents is counted
  (`impl.R:87`). The pool has no distance test.
- The caches of Rust, C++ and Julia are first in, first out, though documented as LRU.

## Fairness

`GraspSpec` has `WF_vars(Run)`: the loop is one thread that keeps going while it
has a step to take. `FairSearch` has weak fairness of a search's own steps for the
same reason. Nothing is assumed of the deadline (it may never pass), of the
objective (it may never raise) or of luck. `SharedSpec` has weak fairness for each
thread: the interpreter's switch interval lets every runnable thread run, and the
objective is assumed to return. The other modules state no liveness and no
fairness: their processes may be killed, or their input may end, at any step.

## Proofs

Every theorem holds for all values of the constants that satisfy the named
assumptions of its module.

### Pool and loop

`ElitePoolProofs` (`EliteAssumption`: a symmetric reflexive `Near`,
`EliteSize >= 1`, any `Infinity`): `PoolTypeCorrect`, `PoolInvariant`,
`RanksOnlyImprove`, `RestartLeavesBestTwo`. The inductive invariant is `PoolOK`,
the type and `PoolInv` as a predicate of a pool. The type alone would be inductive,
but sortedness and diversity need it and each other: an insertion into a sorted
sequence is sorted (`InsertAfter`), an eviction takes the last entry and keeps
both; and that a partial restart brings back *both* of its entries needs diversity
(else the second would be refused) and sortedness (else they would come back in
other ranks). The rank theorem follows insertion by insertion: ranks before the
place are left alone, a rank after it goes to an entry that was one rank better or
to the newcomer, which is cheaper.

`GraspLoopProofs` (`GraspAssumption` besides): `GraspTypeCorrect`,
`IncumbentDominatesAlways`, `EarlyStopAlwaysEarned`, `RestartAlwaysEarned`,
`RunImplementsPool`, `RunImplementsIncumbent`. The
inductive invariant `GraspInv` has four parts besides the order of the pool, each
kept by a lemma with a case per action:

- `DataInv`: what one stage hands to the next is a solution with a cost, and the
  pair of indices stays within the four best elites of the copy;
- `ControlInv`: until the run is done it has no verdict, and `nit` equals the loop
  variable, which is below the budget inside the body;
- `IncumbentDominates`, by `Production`: whatever a stage offers to the pool has
  just challenged the incumbent;
- `CountInv`: the counters bound the iterations since the last gain, differently
  before and after the candidate is recorded. `EarlyStopEarned` needs the bound on
  `noImprove`, which needs the notion of a gain the monitor has not been told of
  (`Unseen`), which needs `bestCost <= bestEver`, half of `IncumbentDominates`; and
  that an unseen gain at the foot of the loop is one of relinking needs that a due
  early stop and a restart exclude each other.

### Construction

`ConstructionProofs` (`ConstructionAssumption`: any calls, unit, pool sizes and
alpha schedules, any earlier solutions; the objective has a cost, at most `Infinity`,
for every vector no further from the box than the rounding of an integer can take it,
which is `Reach`):
`CostsAlwaysMatch`, `CandidatesAlwaysFit`, `ChosenAlwaysWorthy`,
`CallsAlwaysAccounted`, `FailsOnlyEverOnSplit`. None of the five is inductive:

- `ShapeInv` says how long the pool is at each stage, that the costs are as many,
  and that threads are at work on candidates of the batch and in their stage only;
- `MemoryInv` says that the cache holds, under each key, the cost of a solution with
  that key which was evaluated before, in this construction or earlier in the run; so
  that what is read for a candidate is the cost of one of its twins (`ReadingFacts`);
- `CostInv` adds to `CostsMatch` what makes it survive the stages: the seed is
  priced at once, and a candidate that is still at work, or that no stage has come
  to, is not - so that a result is written once, at its own place, and a pool of
  processes that fails half-way leaves no cost behind;
- `FitInv` is the box per candidate. It rests on what `rint` does to a number
  (`RintIsNear`: an integer less than one away, none closer) and on the monotony of
  proportions (`ProportionalFits`);
- `TallyInv` counts the calls against the candidates priced so far and the
  keys seen, `PooledInv` says where calls may have been missed. The lower bound of
  `CallsAccounted` needs that every key in the cache was inherited or belongs to a
  candidate already priced: a candidate whose key is new cost a call, whoever made
  it, and whatever was dropped since.

`ChosenWorthy` then follows at the one step that chooses: the restricted list with
alpha zero is the set of the cheapest, which is not empty because a finite set of
integers has a least element (`FiniteSetsHaveLeast`).

### Searches

`SearchProofs` (`DescentAssumption`, `SearchAssumption`: any layouts, bounds among
the levels, objectives, contents of the cache, strides): `WorkingVectorAlwaysIntact`,
`NoSearchReturnsWorse`, `LateSearchAlwaysBounded`, `AlwaysIntegerOptimum`. `WorkingVectorIntact` is not inductive alone: a round that
found nothing must have left the vector as it was (`UntouchedInv`), for which what
is handed on must be vectors of the layout (`VectorInv`). `NeverWorse` needs what
each search knows of its best so far (`CostInv`) and, for the walks, that the best
point is a point of the walk at its own price and no dearer than the source
(`WalkInv`). `ClockInv` bounds what was priced late by the steps a loop has made
since it last read the clock, its counter modulo its stride, three prices for a step
of a sweep; it holds between two readings because a step whose counter is a multiple
of the stride reads the clock first.
`IntegerOptimum` needs three invariants: the sweeps and rounds within their bounds
(`RoundInv`), what a bounded search handles in the box (`BoxInv`: every vector a
descent, ILS or a walk keeps, the unfinished half of a bidirectional walk
included), and `OptimumInv`, which carries "no cheaper step" from one integer to
the next through a sweep, from the sweep through the rest of a round that gains
nothing, and through the idle rounds after it. A gain anywhere refutes
`bestBen = benefit` and with it the claim.

### API and command line

`ApiProofs` (`ApiAssumption`): `ResultAlwaysFaithful`, `EstimatorAlwaysBest`,
`CliAlwaysFaithful`. The first rests on `CallInv`, of which `IncumbentInv` says that
the incumbent is as good as all that was offered, in the wrapped sign, and that its
cost is that of one of its twins under the cache's key; the second
adds `OwnerInv`, that the estimator's best is the first of the best results of its
history. The third needs `RunInv` - the warm starts still to be offered are
different from each other and from those offered, and a door that calls the core
once has no history while it does - and `CliInv`, which keeps the direction of the
call with the flag until the result is printed.

### Hydropower

`HydropowerProofs`, artifacts (`ArtifactsAssumption`): `PromotedAlwaysWhole`,
`VerifiedAlwaysOneRun`. The invariant says how far the one job at work has got:
which results a save has written (`SaveInv`), which files a promotion has copied
(`PromoteInv`), which frames are already those of the run (`FramesInv`), and that
what either manifest matches is of one run (`OneRun`), although a kill may stop
the job anywhere.

Cascade (`CascadeAssumption`): `RecordsAlwaysHonest`, `PeriodsAlwaysBalance` and
`WaterAlwaysConserved`, each under two hypotheses about the data of the example,
which the code does not check: `CurvesAreNumbers`, that the curves have values for
every volume and release, and `TailwaterRises`, that the level control never spills a
negative amount and the tailwater does not fall as the release grows. The polynomials
of `base.json` and `dispatch.py:76-88` have both properties. Nothing is assumed of
how much the control spills: it may spill more than there is, and no theorem says a
volume is never negative. In each period the volume changes by inflow and arrival
less release, the release is turbined or spilled, and what arrives is what plant 0
released `Travel` periods before; the third theorem adds this up. `Totals` is a
recursive function, so the sum over the periods is an induction over data; it is done
within one state, by the least period at which the sum would fail (`PlantConserves`
for what a plant holds, `ReleasesArrive` for what arrives, `TotalsExist` for the
function itself). Durations and early switches
(`Timed`) are a relation between a record and all the records since the last
switch; `TimedStays` and `TimedGrows` carry it over an appended record.

Worker: `AnswersAlwaysInOrder`. `AnswersInv` says up to which line the worker has
answered (`AnsweredUpTo`: as many responses as lines that ask, each at the rank of
its line) and what it holds of a batch (`ProtocolInv`: the results so far are those
of the first cases). One line more adds one to a rank or leaves it alone
(`AskingFacts`). It needs neither hypothesis about the curves: a worker that has died
of a line has answered all before it.

### Caches

`CacheProofs`, first what the operators of `OrderedDict` do to a dictionary, which
both theorems use. One caller (`CacheAssumption`): `AlwaysHoldsMostRecent`. The entries
are the end of the history of uses, in its order; this is kept only because no key
occurs twice in the history and every key of it has a cost on record
(`RecencyInv`), so that a use takes the same key out of both and an eviction the
entry used longest ago.

Many threads (`SharedAssumption`: any finite set of threads, any batches,
any sizes): `HarmAlwaysBounded`. Besides the types and what each thread knows at
the point it is at (`TaskInv`), the invariant has two parts. `SpaceInv` bounds the
entries too many: it counts, with the entries, the keys some thread is about to
insert (`Pending`) and the unfinished candidates that repeat the key of another
(`Spare`). `RoomInv` says why room for the batch is enough: fewer evictions are
still to come than there are entries before one that a finished candidate, or one
that has gone past its lookup, relies on (`PlaceInv`), for which a full cache must
be known to be full of older entries (`HotInv`).

### Ports

`PortsProofs` (`PortAssumption`, `EliteAssumption`: any box, any finite or infinite
set of objectives, warm starts and settings, any budget, thresholds, number of
accepted moves, batch and alphas, any contents of the cache): `PortTypeCorrect`, `PortPoolInvariant`,
`PortRanksOnlyImprove`, `PortShrinksToBestTwo`, `RunsStopWhenStagnant`,
`RunsLoseNothing`, `RunsKeepBelongingCosts`, `RunsStayInBox`, `RunsPickWorthily` and
`RunsImplementIncumbent`.

*What the searches return.* Descents, ILS and walks are all `Reached(first, next,
limit)`, a recursive function of the number of steps. Induction is by a least
counterexample (`LeastNatural`): the function exists (`AfterExists`), and a set
that holds the first elements and that no step leaves is not left
(`ReachedWithin`). Everything the theorems need of a search is such a set: the
box, the solutions no dearer than the start, the pairs of a solution with a
cost that belongs to it (which ILS in Julia leaves and the proof names).

*What a step does.* The 41 actions of the three ports fall into four classes (`Steps`):
those that start a run, those in which a solution faces the incumbent and the pool
(`Produces`), those that trim the pool (`Trims`) and those that touch neither
(`Passes`). Each of the second class is described by one formula, `Faces`: what may
face the incumbent, that it does so before it is offered, and what becomes of the
elites. The lemmas about the incumbent, the losses, the costs and the pool are
then proved once for `Faces` and not once for each port.

*The invariant.* `RunInv` has a part for each reason a property holds; the run
`ports` was used to check all of it before it was proved:

- `TypeInv`, `ControlInv`: what the stages hand on; until the run is done it has no
  verdict, and `nit` is the loop variable, one ahead of it inside the body, never in
  Julia before the end.
- `CountInv`, behind `StopsWhenStagnant`: the monitor's count and the date of the
  last gain add up to the turns the monitor has had, or to one more if a gain came
  after its turn. This needs the gain the monitor has not been told of (`Unseen`)
  and that what it has seen is no better than the incumbent. For Rust and C++ it
  holds only as long as the threshold is below the one at which the count is
  forgotten (`Deaf`). `EndInv` keeps the conclusion once the run is over.
- `PointInv` (box), `CostInv` (costs), `PickWorthy`: the named exception of a port
  is part of the statement, and the lemma about that port's step shows that nothing
  else leads there.
- `LossInv`: what has been found and not yet recorded is the candidate
  (`FoundInv`), or was given up by ILS; the elites are no better than the incumbent
  because whatever is offered has faced it.
- `PoolOK`, from `ElitePoolProofs`.

For `RunsImplementIncumbent` each class of steps maps to an action of `Incumbent`
or a stutter: the start and whatever beats the incumbent to `Improve`, the completion
of an iteration to `Spend`, the end of the loop to `Conclude` (`Improvement`,
`Progress`).

### Only model-checked

Liveness (`Terminates` of the loop and of a search, `BatchCompletes` of the shared
cache): fairness and `ENABLED` are out of the prover's reach. Every other property
of a passing run is a theorem.

## Not modelled

- The several-worker iteration of C++, the eviction of the ports' caches, their
  validation and experiment runners, and the callback's arguments.
- Numbers: floating point, distances, hashing (taken to be injective on rounded
  vectors), NaN, the sensitivities that order the flips.
- Vector encodings, frames, seeds, scenarios and clients of the hydropower example:
  functions of their arguments without state.
- Logging, printing, experiments, benchmarks, notebooks, documentation and CI: no
  state the optimizer depends on.

## Plan

Written, checked and proved, in this order: `ElitePool`, `Incumbent`, `GraspLoop`,
`OrderedDict`, `EvaluationCache`, `SharedCache`, `Construction`, `Descent`,
`Search`, `Api`, `Cascade`, `Worker`, `Artifacts`, the ports. What would come next:

1. The caches of the ports under the properties of `EvaluationCache`.
2. Several workers in C++.
