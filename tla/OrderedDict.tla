----------------------------- MODULE OrderedDict -----------------------------
(***************************************************************************)
(* The operations of collections.OrderedDict that the evaluation cache     *)
(* uses.  A dictionary is the sequence of its [key, cost] entries in their *)
(* order, the end last; no key occurs twice in it.  EvaluationCache and     *)
(* SharedCache are the two ways the run uses its one dictionary.           *)
(***************************************************************************)
EXTENDS Naturals, Sequences

CONSTANT
  Keys       \* the hashes of the rounded solutions

Present(d, k) == \E i \in 1..Len(d) : d[i].key = k

\* Where the entry of a key that is present stands.
Place(d, k) == CHOOSE i \in 1..Len(d) : d[i].key = k

EntryOf(d, k) == d[Place(d, k)]

\* Mutant: a first-in first-out queue, which a use does not reorder.
MoveNowhere(d, k) == d

\* The entries behind it close up and it becomes the last.
MoveToEnd(d, k) ==
  [i \in 1..Len(d) |-> IF i < Place(d, k) THEN d[i]
                       ELSE IF i < Len(d) THEN d[i + 1] ELSE EntryOf(d, k)]

\* d[k] = c: an old key keeps its place, a new one goes to the end.
Assign(d, k, c) ==
  IF Present(d, k)
  THEN [i \in 1..Len(d) |-> IF d[i].key = k THEN [d[i] EXCEPT !.cost = c] ELSE d[i]]
  ELSE Append(d, [key |-> k, cost |-> c])

\* popitem(last=False) of a dictionary that is not empty.
PopOldest(d) == Tail(d)

=============================================================================
