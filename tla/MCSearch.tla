------------------------------ MODULE MCSearch -------------------------------
(* A small instance of Search: layouts of two to four variables, each with  *)
(* the calls for which it is the interesting one.                           *)
EXTENDS Search

MCShapes ==
  LET Sh(n, half, group) == [n |-> n, half |-> half, group |-> group]
  IN  { Sh(3, 0, 0), Sh(2, 1, 0), Sh(2, 1, 1), Sh(2, 0, 0), Sh(2, 2, 0), Sh(3, 2, 2), Sh(4, 2, 2) }
MCValues == 0..2

\* Three decimals do not tell the levels 1 and 2 of a continuous variable
\* apart; a cache in use has the cost of the latter.
MCDigits == [v \in MCValues |-> IF v = 2 THEN 1 ELSE v]
MCHeld(c, sh, s) ==
  [v \in 1..sh.n |-> IF c = "in use" /\ v <= sh.half /\ s[v] = 1 THEN 2 ELSE s[v]]

Call(bounded, first, adaptive, limited) ==
  [bounded |-> bounded, first |-> first, adaptive |-> adaptive, limited |-> limited]
Engine(bounded) == Call(bounded, TRUE, FALSE, TRUE)
Adaptive == {Call(b, f, TRUE, FALSE) : b, f \in BOOLEAN}
Full == Call(TRUE, FALSE, FALSE, FALSE)      \* best improvement, no deadline
MCTasks ==
  LET two == [n |-> 2, half |-> 1, group |-> 0]
      three == [n |-> 3, half |-> 2, group |-> 2]
      four == [n |-> 4, half |-> 2, group |-> 2]
  IN  ({"vnd"} \X {two} \X (Adaptive \cup {m \in Mode : ~m.adaptive}))
      \cup ({"vnd"} \X (MCShapes \ {two, four}) \X {Engine(TRUE), Full})
      \cup {<<"vnd", four, Call(TRUE, TRUE, FALSE, FALSE)>>,
            <<"vnd", [n |-> 3, half |-> 0, group |-> 0], Call(FALSE, FALSE, FALSE, TRUE)>>,
            <<"ils", two, Engine(TRUE)>>,
            <<"ils", [n |-> 2, half |-> 2, group |-> 0], Engine(TRUE)>>}
      \cup (Relinks \X {two} \X {Engine(FALSE)})
      \cup ({"bidirectional", "best"} \X {three} \X {Engine(FALSE)})

\* A sum that couples neighbours, and a deceptive one with ties.
MCCost(o, s) ==
  LET n == Cardinality(DOMAIN s)
  IN  IF o = "coupled" THEN 3 * s[1] * s[n] - 2 * s[1] - s[n]
      ELSE (s[1] + 2 * s[n]) % 4
==============================================================================
