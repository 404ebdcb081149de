---------------------------- MODULE MCHydropower -----------------------------
(* Small instances of the two halves of the hydropower example, which share *)
(* no state: in a behaviour either the worker and the simulations of an     *)
(* objective run, or the files of the benchmark are worked on.              *)
(*                                                                         *)
(* The cascade has three periods, a travel time of two, and plants so small *)
(* that every status and every spill occurs; the level control spills more  *)
(* than the excess.  A line the worker dies of has lines behind it.         *)
EXTENDS Worker, Artifacts

MCConfig ==
  [p \in Plants |-> [initial |-> 5, maxLevel |-> 6, minPower |-> 9 - 3 * p,
                     maxPower |-> 15, minFlow |-> 2, maxFlow |-> 3, sanitary |-> p]]
MCLevel(p, v) == v + 2 * p
MCTailwater(p, d) == d \div 2
MCControl(p, e) == e * e
Batch(n) == [kind |-> "batch", cases |-> n, overflows |-> FALSE]
Small(k) == [kind |-> k, cases |-> 1, overflows |-> FALSE]
Overflowing == [Batch(1) EXCEPT !.overflows = TRUE]
MCStreams == {<<>>,
              <<Batch(2), Small("blank"), Batch(1)>>,
              <<Small("garbage"), Overflowing, Small("invalid")>>,
              <<Small("invalid"), Small("deep"), Small("huge"), Small("blank")>>}

VARIABLE half   \* the half at work: "worker" or "files"

hydropowerVars == <<half, workerVars, artifactsVars>>

HydropowerInit ==
  \/ /\ half = "worker" /\ WorkerInit
     /\ ArtifactsInit /\ config = "c" /\ snapshot = Missing
  \/ /\ half = "files" /\ ArtifactsInit
     /\ WorkerInit /\ stage = "idle" /\ lines = <<>>

HydropowerNext ==
  \/ half = "worker" /\ WorkerNext /\ UNCHANGED <<half, artifactsVars>>
  \/ half = "files" /\ ArtifactsNext /\ UNCHANGED <<half, workerVars>>

HydropowerSpec == HydropowerInit /\ [][HydropowerNext]_hydropowerVars
==============================================================================
