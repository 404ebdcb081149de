------------------------------- MODULE Cascade --------------------------------
(***************************************************************************)
(* The two-plant hydropower cascade of the synthetic example               *)
(* (examples/synthetic_hydropower/model): what plant 0 releases reaches    *)
(* plant 1 a travel time later.  In every period and for each plant in     *)
(* turn a dispatch is asked for the hour's hydraulic transition: by a      *)
(* turbine flow to apply (simulate_cascade) or by a power to deliver       *)
(* (simulate_power_schedule).                                              *)
(*                                                                         *)
(* Quantities are integers, volumes in flow units of a period.  The curves *)
(* are any functions, and nothing keeps the level control from spilling    *)
(* more than a reservoir holds: a volume may be negative.  What            *)
(* the numerical searches find is a choice among what they may find: a     *)
(* flow that meets the power, or none.                                     *)
(***************************************************************************)
EXTENDS Integers, Sequences, FiniteSets

CONSTANTS
  Config,          \* of each plant: [initial, maxLevel, minPower, maxPower,
                   \* minFlow, maxFlow, sanitary]
  Level(_, _),     \* upstream level of a plant at a volume
  Tailwater(_, _), \* downstream level of a plant at a defluence
  Control(_, _),   \* spill of a plant for an excess over its maximum level
  Periods,
  Travel,          \* travel_time_steps
  MinDuration,     \* minimum_state_duration_hours
  Tolerance,       \* POWER_TOLERANCE_MW
  Inflows,         \* incremental inflows
  Requests         \* turbine flows or powers asked for

Plants == {0, 1}

ASSUME CascadeAssumption ==
  /\ Config \in [Plants -> [initial : Nat, maxLevel : Int, minPower : Nat, maxPower : Nat,
                            minFlow : Nat, maxFlow : Nat, sanitary : Nat]]
  /\ Periods \in Nat \ {0} /\ Travel \in Nat \ {0} /\ MinDuration \in Nat
  /\ Tolerance \in Nat /\ Inflows \subseteq Nat /\ Requests \subseteq Int

\* What theorems take from the curves (curves.py, dispatch.py:76-88), and those
\* of base.json have: they are numbers, no control spill is negative, and the
\* tailwater rises with the defluence.
CurvesAreNumbers ==
  \A p \in Plants : \A x \in Int :
    Level(p, x) \in Int /\ Tailwater(p, x) \in Int /\ Control(p, x) \in Int
TailwaterRises ==
  \A p \in Plants : \A x \in Nat :
    Control(p, x) >= 0 /\ \A y \in 0..x : Tailwater(p, y) <= Tailwater(p, x)

VARIABLES
  mode,      \* "flow", "power" or "none": what a request asks for
  plant,     \* the plant whose turn it is
  volume,    \* volume[p]: the volumes at the ends of the periods, initial first
  series     \* series[p]: what was recorded of each period

cascadeVars == <<mode, plant, volume, series>>

-----------------------------------------------------------------------------
(* One transition.                                                         *)

Least(a, b) == IF a < b THEN a ELSE b
Most(a, b) == IF a < b THEN b ELSE a

\* power_from_flow: the head over the tailwater, efficiency in the unit.
NetHead(p, level, defluence) == Most(0, level - Tailwater(p, defluence))
Power(p, level, flow, spill) == NetHead(p, level, flow + spill) * flow

\* project_operating_flow: off, or between the minimum and the maximum.
Project(p, request) ==
  LET bounded == Least(Most(request, 0), Config[p].maxFlow)
  IN  IF bounded = 0 \/ bounded >= Config[p].minFlow THEN bounded
      ELSE IF 2 * bounded < Config[p].minFlow THEN 0
      ELSE Config[p].minFlow

Near(power, target) == power - target \in -Tolerance..Tolerance
Effective(p, power) ==
  power \in (Config[p].minPower - Tolerance)..(Config[p].maxPower + Tolerance)

\* enforce_power_limits: the flow itself if its power is effective, or what
\* six steps towards the violated bound find: an effective flow, or none.
EnforcePowerLimits(p, level, request, spill, available) ==
  LET candidate == Project(p, request)
      most == Least(Config[p].maxFlow, available)
      first == Least(candidate, most)
  IN  IF candidate = 0 \/ most = 0 THEN {0}
      ELSE IF Effective(p, Power(p, level, first, spill)) THEN {first}
      ELSE {0} \cup {f \in 0..most : Effective(p, Power(p, level, f, spill))}

\* _bounded_turbine_flow: every flow it may answer.
BoundedTurbineFlow(p, level, request, spill, available, enforce) ==
  IF enforce THEN EnforcePowerLimits(p, level, request, spill, available)
  ELSE {Most(0, Least(request, Least(Config[p].maxFlow, available)))}

\* level_control_spill
LevelControlSpill(p, level) ==
  IF level <= Config[p].maxLevel THEN 0 ELSE Control(p, level - Config[p].maxLevel)

\* What a turbine flow and the spills make of a volume.
Outcome(p, v, inflow, turbine, fixed, control) ==
  [turbine |-> turbine, spill |-> fixed + control, control |-> control,
   defluent |-> turbine + fixed + control,
   volume |-> v + inflow - (turbine + fixed + control),
   head |-> NetHead(p, Level(p, v), turbine + fixed + control),
   power |-> Power(p, Level(p, v), turbine, fixed + control)]

\* hydraulic_transition: if the flow leaves the level above its maximum, the
\* fixed spill is added and the flow chosen again, then the level controlled.
Transitions(p, v, inflow, request, enforce) ==
  LET level == Level(p, v)
      available == Most(0, v + inflow)
      fixed == Config[p].sanitary + Most(0, inflow - Config[p].maxFlow)
      after(flow) == Level(p, v + inflow - flow)
  IN  UNION { IF after(flow) <= Config[p].maxLevel
              THEN {Outcome(p, v, inflow, flow, 0, 0)}
              ELSE { Outcome(p, v, inflow, again, fixed,
                             LevelControlSpill(p, after(again + fixed))) :
                     again \in BoundedTurbineFlow(p, level, request, fixed,
                                                  Most(0, available - fixed), enforce) } :
              flow \in BoundedTurbineFlow(p, level, request, 0, available, enforce) }

\* _raw_transition: without the operating range there is one.
Raw(p, v, inflow, request) == CHOOSE x \in Transitions(p, v, inflow, request, FALSE) : TRUE

-----------------------------------------------------------------------------
(* Dispatch by power.                                                      *)

ValidTarget(p, target) ==
  Near(target, 0) \/ target \in Config[p].minPower..Config[p].maxPower

LimitingStatus(p, maximum) ==
  IF maximum.head <= 0 THEN "head_limited"
  ELSE IF maximum.turbine < Config[p].maxFlow THEN "water_limited"
  ELSE "turbine_capacity_limited"

\* Mutant: a plant below its minimum power keeps running.
KeepRunning(p, v, inflow, maximum) == maximum
\* A maximum below the minimum power turns the plant off.
Limited(p, v, inflow, maximum) ==
  IF maximum.power < Config[p].minPower - Tolerance THEN Raw(p, v, inflow, 0) ELSE maximum

\* _bisect_power_flow and _search_coupled_transition look for a flow up to the
\* maximum's that meets the target; where the spill makes the power jump they
\* may miss it, or there may be none.
Meeting(p, v, inflow, target, maximum) ==
  {x \in {Raw(p, v, inflow, f) : f \in 0..maximum.turbine} : Near(x.power, target)}

\* solve_power_transition, for a valid target.
Solutions(p, v, inflow, target) ==
  LET maximum == Raw(p, v, inflow, Config[p].maxFlow)
      limited == LimitingStatus(p, maximum)
  IN  CASE Near(target, 0) -> {<<Raw(p, v, inflow, 0), "off">>}
        [] ~Near(target, 0) /\ maximum.power < target - Tolerance ->
             {<<Limited(p, v, inflow, maximum), limited>>}
        [] OTHER -> {<<maximum, limited>>}
                    \cup {<<x, "met">> : x \in Meeting(p, v, inflow, target, maximum)}

\* What the dispatch of a mode may answer.
Dispatch(p, v, inflow, request) ==
  IF mode = "flow"
  THEN {<<x, "flow_dispatch">> : x \in Transitions(p, v, inflow, request, TRUE)}
  ELSE Solutions(p, v, inflow, request)

-----------------------------------------------------------------------------
(* The simulation.                                                         *)

\* The period whose turn it is, 1 for the first.
Period == Len(series[plant]) + 1
Storage(p) == volume[p][Len(volume[p])]

\* Mutant: the release of A arrives a period early.
ArrivalEarly(p) ==
  IF p = 1 /\ Period > Travel - 1 THEN series[0][Period - Travel + 1].defluent ELSE 0
\* What A released travel_time_steps ago reaches B.
Arrival(p) == IF p = 1 /\ Period > Travel THEN series[0][Period - Travel].defluent ELSE 0

\* _next_unit_state: the periods the unit has been on or off, and by how many
\* it was switched too early.
NextUnitState(p, on) ==
  LET previous == series[p][Period - 1]
  IN  CASE Period = 1 -> [duration |-> 1, early |-> 0]
        [] Period > 1 /\ on = previous.on -> [duration |-> previous.duration + 1, early |-> 0]
        [] OTHER -> [duration |-> 1, early |-> Most(0, MinDuration - previous.duration)]

\* _SimulationArrays.record
Record(p, inflow, arrival, request, x, status) ==
  LET on == x.turbine > 0
      unit == NextUnitState(p, on)
  IN  /\ volume' = [volume EXCEPT ![p] = Append(@, x.volume)]
      /\ series' = [series EXCEPT ![p] = Append(@,
           [inflow |-> inflow, arrival |-> arrival, request |-> request, status |-> status,
            turbine |-> x.turbine, spill |-> x.spill, control |-> x.control,
            defluent |-> x.defluent, power |-> x.power,
            deficit |-> IF mode = "power" THEN Most(0, request - x.power) ELSE 0,
            on |-> on, duration |-> unit.duration, early |-> unit.early])]

Fresh(m) ==
  /\ mode' = m /\ plant' = 0
  /\ volume' = [p \in Plants |-> <<Config[p].initial>>]
  /\ series' = [p \in Plants |-> <<>>]

CascadeInit ==
  /\ mode = "none" /\ plant = 0
  /\ volume = [p \in Plants |-> <<Config[p].initial>>]
  /\ series = [p \in Plants |-> <<>>]

Simulating == mode # "none" /\ Period <= Periods
Simulated == mode # "none" /\ Period > Periods

\* One plant in one period.
Simulate ==
  /\ Simulating
  /\ \E inflow \in Inflows, request \in Requests :
       /\ IF mode = "power" THEN ValidTarget(plant, request)
          ELSE request \in 0..Config[plant].maxFlow
       /\ \E d \in Dispatch(plant, Storage(plant), inflow + Arrival(plant), request) :
            Record(plant, inflow, Arrival(plant), request, d[1], d[2])
  /\ plant' = 1 - plant
  /\ UNCHANGED mode

\* _validate_target_power: a power between zero and the minimum, or above the
\* maximum, is met in the middle of a simulation.
InvalidTarget ==
  /\ Simulating /\ mode = "power"
  /\ \E request \in Requests : ~ValidTarget(plant, request)

-----------------------------------------------------------------------------

(* Each plant has one record per period behind it and one volume more; the  *)
(* turbine never takes more than its capacity nor more than there is, and   *)
(* no release is negative (transition.py:51-114).                           *)
CascadeTypeOK ==
  /\ mode \in {"none", "flow", "power"} /\ plant \in Plants
  /\ \A p \in Plants :
       /\ Len(volume[p]) = Len(series[p]) + 1 /\ Len(series[p]) <= Periods
       /\ \A i \in 1..Len(series[p]) :
            LET r == series[p][i]
            IN  /\ r.turbine \in 0..Config[p].maxFlow
                /\ r.turbine <= Most(0, volume[p][i] + r.inflow + r.arrival)
                /\ r.spill >= r.control /\ r.control >= 0
  /\ Len(series[0]) = Len(series[1]) + plant

\* total[n] is the total of the first n numbers of a sequence.
Totals(s) == LET total[n \in 0..Len(s)] == IF n = 0 THEN 0 ELSE total[n - 1] + s[n]
             IN  total
Released(p) == Totals([i \in 1..Len(series[p]) |-> series[p][i].defluent])
Received(p) == Totals([i \in 1..Len(series[p]) |-> series[p][i].inflow])
\* What plant 0 has released and plant 1 has not received.
OnItsWay == Released(0)[Len(series[0])] - Released(0)[Most(0, Len(series[1]) - Travel)]

(* No water is lost or made: what the reservoirs hold, what has left plant  *)
(* 1 and what is on its way between the plants is what they held at first   *)
(* and what has flowed in (simulator.py:98-116, transition.py:93-97).       *)
WaterConserved ==
  Storage(0) + Storage(1) + OnItsWay + Released(1)[Len(series[1])]
    = Config[0].initial + Config[1].initial
      + Received(0)[Len(series[0])] + Received(1)[Len(series[1])]

\* What a record of a plant tells of the power.
Delivered(p, r) ==
  /\ r.status = "met" => Near(r.power, r.request)
  /\ r.status = "off" => Near(r.request, 0) /\ r.turbine = 0
  /\ r.deficit > Tolerance => r.status \in {"head_limited", "water_limited", "turbine_capacity_limited"}
  /\ mode = "power" /\ r.on => r.power >= Config[p].minPower - Tolerance
  /\ mode = "flow" /\ r.on => r.power <= Config[p].maxPower + Tolerance
  /\ mode = "flow" /\ r.on /\ r.control = 0 => Effective(p, r.power)

\* What the i-th of a plant's records tells of the unit's switches.
Timed(records, i) ==
  LET r == records[i]
      before == records[i - r.duration]
  IN  /\ r.duration \in 1..i
      /\ \A j \in (i - r.duration + 1)..i : records[j].on = r.on
      /\ r.duration < i =>
           /\ before.on # r.on
           /\ r.duration = 1 => r.early = Most(0, MinDuration - before.duration)
      /\ r.duration > 1 \/ i = 1 => r.early = 0

(* What is reported of a period is so, within the tolerance for powers.  A  *)
(* power is "met", a deficit has a limiting status, and a running plant     *)
(* delivers at least its minimum - when flows are asked for, unless the     *)
(* level control spilled after the flow was chosen, and then never above    *)
(* the maximum.  Durations count the periods since the last switch and an   *)
(* early switch is charged what was missing (dispatch.py:27-73,             *)
(* transition.py:118-182, simulator.py:238-252).  There is one record per   *)
(* period simulated.                                                        *)
RecordsHonest ==
  /\ CascadeTypeOK
  /\ \A p \in Plants : \A i \in 1..Len(series[p]) :
       Delivered(p, series[p][i]) /\ Timed(series[p], i)

===============================================================================
