--------------------------- MODULE MCConstruction ----------------------------
(* A small instance of Construction: quarter units, one to three variables. *)
EXTENDS Construction

C(half, lower, upper, guess, request, workers, caching) ==
  [n |-> Len(lower), half |-> half, lower |-> lower, upper |-> upper, guess |-> guess,
   request |-> request, workers |-> workers, caching |-> caching]

\* Bounds of the integer variable: -1..1, 1/4..7/4, -3/2..1/2, and 1/4..3/4,
\* which holds no integer; guesses inside, on a bound, and none.
Boxes == { <<<<0, -4>>, <<4, 4>>>>, <<<<0, 1>>, <<4, 7>>>>, <<<<0, -6>>, <<4, 2>>>>,
           <<<<0, 1>>, <<4, 3>>>> }
Layouts ==
  { C(1, b[1], b[2], g, r, 1, FALSE) :
      b \in Boxes, g \in {<<>>, <<1, 2>>, <<2, 2>>, <<1, -3>>, <<1, 6>>, <<0, 2>>}, r \in {0, 1} }
Splits ==
  { C(0, <<-4>>, <<4>>, <<0>>, 1, 1, FALSE), C(0, <<1>>, <<3>>, <<2>>, 1, 1, FALSE),
    C(1, <<0>>, <<8>>, <<>>, 1, 1, FALSE), C(1, <<0, 0>>, <<8, 12>>, <<>>, 1, 1, FALSE),
    C(1, <<0, 0, 0>>, <<4, 4, 4>>, <<>>, 1, 1, FALSE),
    C(1, <<0, 1, 1>>, <<4, 4, 5>>, <<>>, 1, 1, FALSE) }
Batches ==
  { C(1, <<0, -4>>, <<4, 4>>, g, r, w, c) :
      g \in {<<>>, <<1, 2>>, <<2, 2>>}, r \in {0, 3}, w \in {1, 2}, c \in {FALSE} }
  \cup
  { C(1, <<0, -4>>, <<4, 4>>, g, 3, w, TRUE) : g \in {<<>>, <<1, 2>>, <<2, 2>>}, w \in {1, 2} }
MCCalls == Layouts \cup Splits \cup Batches

MCSchedules ==
  { [adaptive |-> FALSE, alpha |-> 50, min |-> 0, max |-> 0],
    [adaptive |-> TRUE, alpha |-> 0, min |-> 0, max |-> 100] }

\* What an earlier iteration has evaluated: the guess among them, and twins of
\* candidates that cost something else.
MCEarlier(c) ==
  IF ~c.caching THEN {} ELSE {<<1, 0>>, <<3, -4>>}

\* Infeasible at some points, so that guesses and their roundings differ.
MCCost(s) ==
  LET n == Len(s)
  IN  IF (s[1] + s[n]) % 4 = 0 THEN Infinity ELSE (2 * s[1] + s[n] * s[n]) % 7
==============================================================================
