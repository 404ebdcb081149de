------------------------------ MODULE Artifacts -------------------------------
(***************************************************************************)
(* The files of the hydropower benchmark: what an optimization saves to    *)
(* the output directory, its promotion to a reference version, and the     *)
(* deterministic protocol saved straight into the version with manifests   *)
(* of checksums (examples/synthetic_hydropower/benchmark).                 *)
(*                                                                         *)
(* One process at a time works on the files and may be killed between any  *)
(* two steps; somebody may edit the configuration meanwhile.  A file is    *)
(* written to a temporary one that replaces it, and copied in place.  The  *)
(* content of a file is the run that wrote it and the configuration it     *)
(* tells; a checksum is the content.                                       *)
(***************************************************************************)
EXTENDS Integers, Sequences, FiniteSets

CONSTANTS
  Configurations,
  MaxRuns         \* the bound on the runs that are saved

ASSUME ArtifactsAssumption == MaxRuns \in Nat /\ "none" \notin Configurations

Results == <<"summary", "series", "manifest">>
Frames == <<"inflows", "schedules", "balance", "totals">>
Members(seq) == {seq[i] : i \in 1..Len(seq)}
Promoted == Members(Results)
Framed == Members(Frames)

Missing == [run |-> 0, config |-> "none"]
Cut == [run |-> -1, config |-> "none"]     \* a copy that was not finished
Whole(content) == content \notin {Missing, Cut}

VARIABLES
  config,     \* the configuration file
  output,     \* the output directory: the content of each result
  snapshot,   \* the version's copy of the configuration
  exists,     \* the version's directory of the optimization protocol exists
  version,    \* the version's content of each result and frame
  protocol,   \* the deterministic manifest: checksums of the frames and snapshot
  suite,      \* the version's manifest: checksums of all its files
  job,        \* the process at work: [kind, run, loaded, step]
  runs,
  clean, promotedClean   \* no save of the results was cut, nor the configuration
                         \* edited behind it; the same of the promoted ones

files == <<config, output, snapshot, exists, version, protocol, suite>>
ghosts == <<clean, promotedClean>>
artifactsVars == <<files, job, runs, ghosts>>

Idle == [kind |-> "none", run |-> 0, loaded |-> "none", step |-> 0]
Working(kind, step) == job.kind = kind /\ job.step = step
GoTo(step) == job' = [job EXCEPT !.step = step]
Stop == job' = Idle

\* Mutant: the shared inputs are not listed.
UnlistedInputs(names) == [f \in {g \in names \ {"inflows"} : version[g] # Missing} |-> version[f]]
\* What a manifest tells of the files there are.
Checksums(names) == [f \in {g \in names : version[g] # Missing} |-> version[f]]
NoManifest == [files |-> <<>>, snapshot |-> Missing]

ArtifactsInit ==
  /\ config \in Configurations
  /\ output = [f \in Promoted |-> Missing]
  /\ snapshot \in {Missing} \cup {[run |-> 0, config |-> c] : c \in Configurations}
  /\ exists = FALSE
  /\ version = [f \in Promoted \cup Framed |-> Missing]
  /\ protocol = NoManifest
  /\ suite = NoManifest
  /\ job = Idle /\ runs = 0
  /\ clean = FALSE /\ promotedClean = FALSE

Start(kind) ==
  /\ job = Idle /\ runs < MaxRuns
  /\ runs' = runs + 1
  /\ job' = [kind |-> kind, run |-> runs + 1, loaded |-> config, step |-> 1]

-----------------------------------------------------------------------------
(* save_benchmark_results                                                  *)

\* Scenarios without a seed are refused before anything is written.
StartSave == Start("save") /\ UNCHANGED <<files, ghosts>>
RefuseSave == Working("save", 1) /\ Stop /\ UNCHANGED <<files, runs, ghosts>>

\* _write_csv_atomic and _write_json_atomic: the manifest tells the
\* configuration the file holds by now.
SaveResult ==
  /\ job.kind = "save"
  /\ LET f == Results[job.step]
     IN  /\ output' = [output EXCEPT ![f] =
              [run |-> job.run, config |-> IF f = "manifest" THEN config ELSE job.loaded]]
         /\ IF f = "manifest"
            THEN Stop /\ clean' = (config = job.loaded)
            ELSE GoTo(job.step + 1) /\ clean' = FALSE
  /\ UNCHANGED <<config, snapshot, exists, version, protocol, suite, runs, promotedClean>>

-----------------------------------------------------------------------------
(* promote_benchmark_version                                               *)

\* The manifest is there and tells the configuration of now, the version has
\* no such protocol yet, and no result is missing.
MayPromote == /\ output["manifest"].config = config
              /\ ~exists
              /\ \A f \in Promoted : output[f] # Missing

\* The checks, then the directories.
StartPromotion ==
  /\ job = Idle /\ MayPromote
  /\ exists' = TRUE
  /\ job' = [kind |-> "promote", run |-> 0, loaded |-> config, step |-> 0]
  /\ UNCHANGED <<config, output, snapshot, version, protocol, suite, runs, ghosts>>

\* A snapshot that is there must match; the error comes after the directories
\* were made.
CheckSnapshot ==
  /\ Working("promote", 0) /\ snapshot # Missing
  /\ IF snapshot.config = job.loaded THEN GoTo(2) ELSE Stop
  /\ UNCHANGED <<files, runs, ghosts>>

CopySnapshot ==
  /\ \/ /\ Working("promote", 0) /\ snapshot = Missing
        /\ snapshot' = Cut /\ GoTo(1)
     \/ /\ Working("promote", 1)
        /\ snapshot' = [run |-> 0, config |-> config] /\ GoTo(2)
  /\ UNCHANGED <<config, output, exists, version, protocol, suite, runs, ghosts>>

\* Mutant: the manifest is copied first.
ManifestFirst == <<"manifest", "summary", "series">>[job.step - 1]
\* OPTIMIZATION_RESULT_FILENAMES, the manifest last.
Copied == Results[job.step - 1]

CopyResult ==
  /\ job.kind = "promote" /\ job.step > 1
  /\ IF version[Copied] # Cut
     THEN /\ version' = [version EXCEPT ![Copied] = Cut] /\ GoTo(job.step)
          /\ UNCHANGED promotedClean
     ELSE /\ version' = [version EXCEPT ![Copied] = output[Copied]]
          /\ IF job.step <= Len(Results) THEN GoTo(job.step + 1) ELSE Stop
          /\ promotedClean' = (clean /\ snapshot.config = job.loaded)
  /\ UNCHANGED <<config, output, snapshot, exists, protocol, suite, runs, clean>>

-----------------------------------------------------------------------------
(* save_deterministic_benchmark                                            *)

StartFrames == Start("frames") /\ UNCHANGED <<files, ghosts>>

\* _write_canonical_csv
WriteFrame ==
  /\ job.kind = "frames" /\ job.step \in 1..Len(Frames)
  /\ version' = [version EXCEPT ![Frames[job.step]] =
                   [run |-> job.run, config |-> "none"]]
  /\ GoTo(job.step + 1)
  /\ UNCHANGED <<config, output, snapshot, exists, protocol, suite, runs, ghosts>>

\* The checksums are of what is on the disk; without a snapshot there is none.
WriteProtocol ==
  /\ Working("frames", Len(Frames) + 1)
  /\ IF snapshot = Missing THEN Stop /\ UNCHANGED protocol
     ELSE /\ protocol' = [files |-> Checksums(Framed), snapshot |-> snapshot]
          /\ GoTo(Len(Frames) + 2)
  /\ UNCHANGED <<config, output, snapshot, exists, version, suite, runs, ghosts>>

\* _write_suite_manifest
WriteSuite ==
  /\ Working("frames", Len(Frames) + 2)
  /\ suite' = [files |-> Checksums(DOMAIN version), snapshot |-> snapshot]
  /\ Stop
  /\ UNCHANGED <<config, output, snapshot, exists, version, protocol, runs, ghosts>>

-----------------------------------------------------------------------------
(* The world.                                                              *)

Kill ==
  /\ job # Idle /\ Stop
  /\ UNCHANGED <<files, runs, ghosts>>

Edit ==
  /\ config' \in Configurations \ {config}
  /\ UNCHANGED <<output, snapshot, exists, version, protocol, suite, job, runs, ghosts>>

ArtifactsNext ==
  \/ StartSave \/ RefuseSave \/ SaveResult
  \/ StartPromotion \/ CheckSnapshot \/ CopySnapshot \/ CopyResult
  \/ StartFrames \/ WriteFrame \/ WriteProtocol \/ WriteSuite
  \/ Kill \/ Edit

ArtifactsSpec == ArtifactsInit /\ [][ArtifactsNext]_artifactsVars

-----------------------------------------------------------------------------

(* Wherever a process was killed, a version with its optimization manifest  *)
(* has all the rest whole - and of one run with the configuration it keeps, *)
(* if the results promoted had been saved without a break or an edit, and   *)
(* nothing was edited during the promotion (promotion.py:14-59,             *)
(* results.py:25-62).                                                       *)
PromotedIsWhole ==
  Whole(version["manifest"]) =>
    /\ \A f \in Promoted : Whole(version[f])
    /\ Whole(snapshot)
    /\ promotedClean => \A f \in Promoted : /\ version[f].run = version["manifest"].run
                                            /\ version[f].config = snapshot.config

Matches(manifest) ==
  /\ manifest # NoManifest /\ manifest.snapshot = snapshot
  /\ \A f \in DOMAIN manifest.files : version[f] = manifest.files[f]

(* Frames that match the checksums of either manifest are of one run,       *)
(* whichever runs were killed between them (persistence.py:29-132).         *)
VerifiedIsOneRun ==
  Matches(protocol) \/ Matches(suite) =>
    \A f, g \in Framed : Whole(version[f]) /\ version[f].run = version[g].run

===============================================================================
