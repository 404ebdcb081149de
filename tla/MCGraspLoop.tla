----------------------------- MODULE MCGraspLoop -----------------------------
(* Small runs for TLC: a, b and c in the box, z outside it; a and b are too *)
(* close for the pool to hold both.                                         *)
EXTENDS GraspLoop

CONSTANTS a, b, c, z

MCSolutions == {a, b, c, z}
MCBox == {a, b, c}

MCNear == {<<s, s>> : s \in MCSolutions} \cup {<<a, b>>, <<b, a>>}
AllFar == {<<s, s>> : s \in MCSolutions}

\* Without a cache, or with keys that tell the solutions apart.
ExactBucket == [s \in MCSolutions |-> {s}]
\* a and b round to the same key.
SharedBucket ==
  [s \in MCSolutions |-> IF s \in {a, b} THEN {a, b} ELSE {s}]

EveryObjective == [MCSolutions -> Costs]

Obj(x, y, v, w) ==
  [s \in MCSolutions |-> CASE s = a -> x [] s = b -> y [] s = c -> v [] s = z -> w]

\* A slope, one with the best solution out of bounds, and one where only c is
\* feasible.
MCObjectives == {Obj(2, 1, 0, 2), Obj(1, 2, 2, 0), Obj(3, 3, 1, 3)}

Conf(strategy, elites, mon, limit, raises) ==
  [ strategy |-> strategy, elitePool |-> elites, monitor |-> mon,
    timeLimited |-> limit, mayRaise |-> raises ]

Plain == {Conf("bidirectional", TRUE, TRUE, FALSE, FALSE)}

EveryStage == { Conf("forward", TRUE, TRUE, TRUE, FALSE),
                Conf("backward", TRUE, FALSE, FALSE, TRUE),
                Conf("randomized", FALSE, TRUE, FALSE, TRUE),
                Conf("bidirectional", FALSE, FALSE, TRUE, FALSE) }

NoWarmStart == {<<>>}
MCWarmStarts == {<<>>, <<a, b>>, <<c>>}

=============================================================================
