------------------------------ MODULE ElitePool ------------------------------
(***************************************************************************)
(* The elite pool of core/elite.py: at most EliteSize (solution, cost)     *)
(* pairs, kept in ascending order of cost, no two of them close together.  *)
(*                                                                         *)
(* A solution is an opaque value; the normalised distance test             *)
(* "distance < min_distance" is the constant relation Near.  A cost is a   *)
(* number of 0..Infinity, Infinity standing for float("inf"), the cost of  *)
(* an infeasible solution.  The caller passes the cost with the solution,  *)
(* so the pool never evaluates anything itself.                            *)
(***************************************************************************)
EXTENDS Naturals, Sequences

CONSTANTS
  Solutions,   \* the decision vectors of the instance
  Near,        \* the pairs of solutions closer than min_distance
  EliteSize,   \* max_size
  Infinity     \* the cost of an infeasible solution

ASSUME EliteAssumption ==
  /\ EliteSize \in Nat \ {0}
  /\ Infinity \in Nat
  /\ Near \subseteq Solutions \X Solutions
  \* The distance is |a - b| averaged over the coordinates: a symmetric
  \* relation, and a solution is at distance 0 < 0.05 of itself.
  /\ \A s \in Solutions : <<s, s>> \in Near
  /\ \A s, t \in Solutions : <<s, t>> \in Near => <<t, s>> \in Near

VARIABLE pool

Costs == 0..Infinity
Entry == [sol : Solutions, cost : Costs]

-----------------------------------------------------------------------------

(* p with e put after its k-th entry.                                       *)
InsertAfter(p, k, e) ==
  [ i \in 1..Len(p) + 1 |->
      IF i <= k THEN p[i] ELSE IF i = k + 1 THEN e ELSE p[i - 1] ]

(* The pools "append, then sort by cost" can leave: list.sort is stable,    *)
(* so the new entry comes after every entry of the same cost.               *)
SortedInserts(p, e) ==
  { InsertAfter(p, k, e) :
      k \in { m \in 0..Len(p) :
                /\ \A i \in 1..m : p[i].cost <= e.cost
                /\ \A i \in m+1..Len(p) : e.cost < p[i].cost } }

\* Mutants: only the best member is compared with the newcomer; a newcomer
\* is never compared with the worst member of a full pool.
RejectsNearBest(p, e) ==
  \/ p # <<>> /\ <<e.sol, p[1].sol>> \in Near
  \/ Len(p) >= EliteSize /\ e.cost >= p[Len(p)].cost
RejectsNearOnly(p, e) == \E i \in 1..Len(p) : <<e.sol, p[i].sol>> \in Near

(* add returns False: too close to a member, however good the newcomer is,  *)
(* or no better than the worst member of a full pool.                       *)
Rejects(p, e) ==
  \/ \E i \in 1..Len(p) : <<e.sol, p[i].sol>> \in Near
  \/ Len(p) >= EliteSize /\ e.cost >= p[Len(p)].cost

\* Mutant: a pool of EliteSize entries still has room.
MakeRoomTooLate(p) == IF Len(p) <= EliteSize THEN p ELSE SubSeq(p, 1, Len(p) - 1)

(* A full pool gives up its last entry for the newcomer.                    *)
MakeRoom(p) == IF Len(p) < EliteSize THEN p ELSE SubSeq(p, 1, Len(p) - 1)

(* ElitePool.add: the set of pools a call can leave (it has one element).   *)
AddOutcomes(p, e) ==
  IF Rejects(p, e) THEN {p} ELSE SortedInserts(MakeRoom(p), e)

\* Mutant: only the best entry is added again.
RestartWithOne(p) == AddOutcomes(<<>>, p[1])

(* The convergence monitor's partial restart: copy the two best entries,    *)
(* clear the pool and add them again, one after the other.                  *)
RestartOutcomes(p) ==
  UNION { AddOutcomes(q, p[2]) : q \in AddOutcomes(<<>>, p[1]) }

-----------------------------------------------------------------------------

PoolInit == pool = <<>>

Offer(e) == pool' \in AddOutcomes(pool, e)

PartialRestart ==
  /\ Len(pool) > 2
  /\ pool' \in RestartOutcomes(pool)

PoolNext ==
  \/ \E e \in Entry : Offer(e)
  \/ PartialRestart

PoolSpec == PoolInit /\ [][PoolNext]_pool

-----------------------------------------------------------------------------

Sorted(p) == \A i, j \in 1..Len(p) : i < j => p[i].cost <= p[j].cost

Diverse(p) ==
  \A i, j \in 1..Len(p) : i # j => <<p[i].sol, p[j].sol>> \notin Near

(* The pool is a sequence of at most EliteSize entries.                     *)
PoolTypeOK == pool \in Seq(Entry) /\ Len(pool) <= EliteSize

(* After any sequence of additions and restarts the pool is in ascending    *)
(* order of cost and no two members are within min_distance of each other   *)
(* (the "guaranteeing a minimum relative distance between them" of the      *)
(* class comment, and the "sorted by ascending cost" of its attribute):     *)
(* add tests the distance against the members before it evicts one, and     *)
(* get_best, the replacement of pool[-1] and the monitor's [:2] rely on the *)
(* order.                                                                   *)
PoolInv == Sorted(pool) /\ Diverse(pool)

(* No operation makes the k-th best member worse, for any rank k that       *)
(* still exists afterwards: an insertion only moves entries to later ranks, *)
(* an eviction is paid for by a strictly better newcomer, and a partial     *)
(* restart, which clears the pool and offers two entries to add again,      *)
(* brings back both of them in their places.                                *)
RanksNeverWorsen ==
  [][\A k \in 1..Len(pool) : k <= Len(pool') =>
       pool'[k].cost <= pool[k].cost]_pool

(* The pool shrinks only in a partial restart, and then to exactly its two  *)
(* best members: neither is refused when it is added again.                 *)
ShrinksToBestTwo ==
  [][Len(pool') < Len(pool) => pool' = SubSeq(pool, 1, 2)]_pool

=============================================================================
