------------------------------ MODULE MCPorts ------------------------------
(* Small runs of the ports for TLC: one continuous coordinate with two      *)
(* levels, and one integer coordinate with three levels and an upper bound  *)
(* that is rounded to a fourth.                                             *)
EXTENDS Ports

MCBounds == <<1..2, 1..3>>
MCEnds == <<{}, {4}>>
MCSolutions == [1..2 -> 0..4]

\* Neighbours along the second coordinate are too close for one pool.
MCNear ==
  {q \in MCSolutions \X MCSolutions :
     q[1][1] = q[2][1] /\ q[1][2] - q[2][2] \in -1..1}

\* The two levels of the first coordinate are the same to a cache, which has
\* priced either of them first where their costs differ most.
MCRounded ==
  [s \in MCSolutions |-> IF s[1] = 2 THEN [s EXCEPT ![1] = 1] ELSE s]
MCRepresentatives ==
  {[s \in MCSolutions |->
      IF s[1] \in 1..2 THEN [s EXCEPT ![1] = IF s[2] = 3 THEN first ELSE 1] ELSE s] :
     first \in 1..2}

Table(rows, outside) ==
  [s \in MCSolutions |-> IF s \in Wide THEN rows[s[1]][s[2]] ELSE outside]

\* A failing wall between a good and a very good corner; a gentle slope, where
\* a worse solution is less than a quarter worse; nothing feasible but one.
MCObjectives == { Table(<< <<5, 7, 6, 6>>, <<7, 7, 2, 5>> >>, 1),
                  Table(<< <<6, 5, 6, 6>>, <<5, 6, 2, 3>> >>, 7) }

MCWarmStarts == { <<>>, << <<1, 2>>, <<2, 1>> >> }

Set(p, uses, rounds, stops, timed, up, way, after) ==
  [ port |-> p, elitePool |-> uses, cached |-> rounds, monitor |-> stops,
    limited |-> timed, maximize |-> up, strategy |-> way, stopAfter |-> after ]

\* Every strategy, with and without the pool, the cache, the monitor and the
\* deadline, thresholds that stop a run and one that Rust never reaches.
MCSettings ==
  { Set("rust",  TRUE,  TRUE,  TRUE,  FALSE, FALSE, "bidirectional", 1),
    Set("rust",  TRUE,  FALSE, TRUE,  TRUE,  FALSE, "randomized",    1),
    Set("rust",  FALSE, FALSE, TRUE,  FALSE, FALSE, "forward",       2),
    Set("rust",  FALSE, TRUE,  FALSE, TRUE,  FALSE, "forward",       1),
    Set("julia", TRUE,  FALSE, TRUE,  FALSE, FALSE, "backward",      2),
    Set("julia", TRUE,  TRUE,  TRUE,  TRUE,  FALSE, "bidirectional", 1),
    Set("julia", FALSE, FALSE, FALSE, FALSE, FALSE, "forward",       1),
    Set("r",     TRUE,  FALSE, TRUE,  FALSE, FALSE, "bidirectional", 2),
    Set("r",     TRUE,  FALSE, TRUE,  TRUE,  TRUE,  "randomized",    1),
    Set("r",     FALSE, TRUE,  FALSE, FALSE, TRUE,  "forward",       1) }

\* The tables of the ports are what their names say; TLC has evaluated every
\* entry of them when it has looked, and looks them up from then on.
Outcomes == SUBSET Solutions
Findings == SUBSET Entry
Choices == SUBSET [entry : Entry, flaws : SUBSET {"unworthy", "blind", "lone"}]

ASSUME Tables ==
  /\ {RustNeighbours, JuliaNeighbours, RNeighbours} \subseteq [Solutions -> Outcomes]
  /\ RustDescents \in [Prices -> [Solutions -> Outcomes]]
  /\ JuliaDescents \in [Prices -> [Solutions -> Outcomes]]
  /\ RDescents \in [Prices -> [BOOLEAN -> [Solutions -> Outcomes]]]
  /\ RustTried \in [Prices -> [Solutions -> Findings]]
  /\ JuliaTried \in [Prices -> [Solutions -> Findings]]
  /\ RustSearches \in [Prices -> [Solutions -> Findings]]
  /\ JuliaSearches \in [Prices -> [Entry -> Findings]]
  /\ RSearches \in [Prices -> [BOOLEAN -> [Solutions -> Findings]]]
  /\ RustWalks \in [Prices -> [BOOLEAN -> [Wide -> [Wide -> Outcomes]]]]
  /\ JuliaWalks \in [Prices -> [BOOLEAN -> [Box -> [Box -> Outcomes]]]]
  /\ RustConstructed \in [Prices -> [{<<>>} \cup WarmStarts -> Choices]]
  /\ JuliaConstructed \in [Prices -> [{<<>>} \cup WarmStarts -> Choices]]
  /\ RConstructed \in [Prices -> [BOOLEAN -> Choices]]

=============================================================================
