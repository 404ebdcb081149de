--------------------------- MODULE HydropowerProofs ---------------------------
(***************************************************************************)
(* Proofs about the hydropower example: the artifacts of its benchmark, for *)
(* any configurations, any number of runs, and kills and edits at every     *)
(* moment; the simulation of its cascade, for any plants, inflows and       *)
(* requests, and any curves that are numbers with a rising tailwater; and   *)
(* the worker, for any streams of lines.                                    *)
(***************************************************************************)
EXTENDS Artifacts, Worker, FiniteSetTheorems, SequenceTheorems, WellFoundedInduction, TLAPS

-----------------------------------------------------------------------------
(* The artifacts.  A step is taken by one job, so the inductive invariant  *)
(* tells how far the job at work has got: what a save and a promotion have *)
(* written, and which frames are already those of the run.                 *)

Content == [run : Int, config : Configurations \cup {"none"}]
Saved == [run : Nat, config : Configurations \cup {"none"}]

TypeInv ==
  /\ config \in Configurations
  /\ output \in [Promoted -> Saved]
  /\ snapshot \in Content
  /\ exists \in BOOLEAN
  /\ version \in [Promoted \cup Framed -> Content]
  /\ clean \in BOOLEAN /\ promotedClean \in BOOLEAN
  /\ runs \in Nat
  /\ job \in [kind : {"none", "save", "promote", "frames"}, run : Nat,
              loaded : Configurations \cup {"none"}, step : Nat]

\* How far a save has got, and what a save without a break leaves.
SaveInv ==
  /\ job.kind = "save" =>
       /\ job.step \in 1..3 /\ job.run > 0 /\ job.loaded \in Configurations
       /\ job.step > 1 => output["summary"] = [run |-> job.run, config |-> job.loaded]
       /\ job.step > 2 => output["series"] = [run |-> job.run, config |-> job.loaded]
  /\ clean => \A f \in Promoted : output[f] = output["manifest"]

\* A promotion copies what was there when it began.
Copies(f) == version[f] = output[f] /\ output[f] # Missing

PromoteInv ==
  /\ ~exists => \A f \in Promoted : version[f] = Missing
  /\ job.kind = "promote" =>
       /\ exists /\ job.step \in {0, 1, 2, 3, 4} /\ job.loaded \in Configurations
       /\ \A f \in Promoted : output[f] # Missing
       /\ output["manifest"].config = job.loaded
       /\ ~Whole(version["manifest"])
       /\ job.step > 1 => Whole(snapshot)
       /\ job.step > 2 => Copies("summary")
       /\ job.step > 3 => Copies("series")

\* The frames the job at work has written.
Written(f) == version[f] = [run |-> job.run, config |-> "none"]
FramesInv ==
  job.kind = "frames" =>
    /\ job.run > 0 /\ job.step \in 1..6
    /\ job.step > 1 => Written("inflows")
    /\ job.step > 2 => Written("schedules")
    /\ job.step > 3 => Written("balance")
    /\ job.step > 4 => Written("totals")

\* A manifest lists the frames of one run.
OneRun(manifest) ==
  manifest = NoManifest
  \/ /\ Framed \subseteq DOMAIN manifest.files
     /\ \E r \in Nat \ {0} : \A f \in Framed :
          manifest.files[f] = [run |-> r, config |-> "none"]

ArtifactsInv ==
  /\ TypeInv /\ SaveInv /\ PromoteInv /\ FramesInv
  /\ PromotedIsWhole
  /\ OneRun(protocol) /\ OneRun(suite)

\* The names of the artifacts, one by one.
LEMMA Names ==
  /\ Results[1] = "summary" /\ Results[2] = "series" /\ Results[3] = "manifest"
  /\ Len(Results) = 3
  /\ Frames[1] = "inflows" /\ Frames[2] = "schedules" /\ Frames[3] = "balance"
  /\ Frames[4] = "totals" /\ Len(Frames) = 4
  /\ Promoted = {"summary", "series", "manifest"}
  /\ Framed = {"inflows", "schedules", "balance", "totals"}
<1>1. /\ Results[1] = "summary" /\ Results[2] = "series" /\ Results[3] = "manifest"
      /\ Len(Results) = 3
  BY DEF Results
<1>2. /\ Frames[1] = "inflows" /\ Frames[2] = "schedules" /\ Frames[3] = "balance"
      /\ Frames[4] = "totals" /\ Len(Frames) = 4
  BY DEF Frames
<1>3. Promoted = {Results[1], Results[2], Results[3]}
  <2>1. 1..3 = {1, 2, 3}
    OBVIOUS
  <2> QED BY <1>1, <2>1 DEF Promoted, Members
<1>4. Framed = {Frames[1], Frames[2], Frames[3], Frames[4]}
  <2>1. 1..4 = {1, 2, 3, 4}
    OBVIOUS
  <2> QED BY <1>2, <2>1 DEF Framed, Members
<1> QED BY <1>1, <1>2, <1>3, <1>4

\* Nothing is written at first.
LEMMA InitArtifacts == ArtifactsInit => ArtifactsInv
<1> SUFFICES ASSUME ArtifactsInit PROVE ArtifactsInv
  OBVIOUS
<1>1. TypeInv
  <2>1. Missing \in Saved /\ Missing \in Content
    BY DEF Missing, Saved, Content
  <2>2. output \in [Promoted -> Saved]
    BY <2>1 DEF ArtifactsInit
  <2>3. version \in [Promoted \cup Framed -> Content]
    BY <2>1 DEF ArtifactsInit
  <2>4. snapshot \in Content
    BY <2>1 DEF ArtifactsInit, Content
  <2> QED BY <2>2, <2>3, <2>4 DEF ArtifactsInit, TypeInv, Idle
<1>2. SaveInv /\ PromoteInv /\ FramesInv
  BY Names DEF ArtifactsInit, SaveInv, PromoteInv, FramesInv, Idle
<1>3. PromotedIsWhole
  BY Names DEF ArtifactsInit, PromotedIsWhole, Whole
<1>4. OneRun(protocol) /\ OneRun(suite)
  BY DEF ArtifactsInit, OneRun
<1> QED BY <1>1, <1>2, <1>3, <1>4 DEF ArtifactsInv

\* Every step keeps the types.
LEMMA TypeStep ==
  ASSUME TypeInv, SaveInv, PromoteInv, FramesInv, [ArtifactsNext]_artifactsVars
  PROVE  TypeInv'
<1> USE Names DEF TypeInv
<1>1. CASE StartSave \/ StartFrames
  BY <1>1 DEF StartSave, StartFrames, Start, files, ghosts
<1>2. CASE RefuseSave \/ Kill \/ CheckSnapshot
  BY <1>2 DEF RefuseSave, Kill, CheckSnapshot, Stop, GoTo, Idle, Working, files, ghosts
<1>3. CASE SaveResult
  <2>1. job.kind = "save" /\ job.step \in 1..3
    BY <1>3 DEF SaveResult, SaveInv
  <2>2. Results[job.step] \in Promoted
    BY <2>1
  <2>3. output' \in [Promoted -> Saved]
    BY <1>3, <2>2 DEF SaveResult, Saved
  <2>4. job' \in [kind : {"none", "save", "promote", "frames"}, run : Nat,
                  loaded : Configurations \cup {"none"}, step : Nat]
    BY <1>3 DEF SaveResult, GoTo, Stop, Idle
  <2>5. clean' \in BOOLEAN
    BY <1>3 DEF SaveResult
  <2> QED BY <1>3, <2>3, <2>4, <2>5 DEF SaveResult
<1>4. CASE StartPromotion
  BY <1>4 DEF StartPromotion, ghosts
<1>5. CASE CopySnapshot
  <2>1. Cut \in Content /\ [run |-> 0, config |-> config] \in Content
    BY DEF Cut, Content
  <2> QED BY <1>5, <2>1 DEF CopySnapshot, GoTo, ghosts
<1>6. CASE CopyResult
  <2>1. job.step \in {2, 3, 4}
    BY <1>6 DEF CopyResult, PromoteInv
  <2>2. Copied \in Promoted
    BY <2>1 DEF Copied
  <2>3. Cut \in Content /\ output[Copied] \in Content
    BY <2>2 DEF Cut, Content, Saved
  <2>4. version' \in [Promoted \cup Framed -> Content]
    BY <1>6, <2>3 DEF CopyResult
  <2>5. job' \in [kind : {"none", "save", "promote", "frames"}, run : Nat,
                  loaded : Configurations \cup {"none"}, step : Nat]
    BY <1>6 DEF CopyResult, GoTo, Stop, Idle
  <2>6. promotedClean' \in BOOLEAN
    BY <1>6 DEF CopyResult
  <2> QED BY <1>6, <2>4, <2>5, <2>6 DEF CopyResult
<1>7. CASE WriteFrame
  <2>1. version' \in [Promoted \cup Framed -> Content]
    BY <1>7 DEF WriteFrame, Content
  <2> QED BY <1>7, <2>1 DEF WriteFrame, GoTo, ghosts
<1>8. CASE WriteProtocol \/ WriteSuite
  BY <1>8 DEF WriteProtocol, WriteSuite, GoTo, Stop, Idle, ghosts
<1>9. CASE Edit
  BY <1>9 DEF Edit, ghosts
<1>10. CASE UNCHANGED artifactsVars
  BY <1>10 DEF artifactsVars, files, ghosts
<1> QED BY <1>1, <1>2, <1>3, <1>4, <1>5, <1>6, <1>7, <1>8, <1>9, <1>10 DEF ArtifactsNext

\* Every step keeps what a save knows of the results it has written.
LEMMA SaveStep ==
  ASSUME TypeInv, SaveInv, [ArtifactsNext]_artifactsVars
  PROVE  SaveInv'
<1> USE Names DEF SaveInv
<1>1. CASE StartSave \/ StartFrames
  BY <1>1 DEF StartSave, StartFrames, Start, files, ghosts, TypeInv
<1>2. CASE RefuseSave \/ Kill \/ CheckSnapshot
  BY <1>2 DEF RefuseSave, Kill, CheckSnapshot, Stop, GoTo, Idle, Working, files, ghosts,
              TypeInv
<1>3. CASE SaveResult
  <2>0. job.kind = "save" /\ job.step \in 1..3 /\ DOMAIN output = Promoted
    BY <1>3 DEF SaveResult, TypeInv
  <2>1. CASE job.step = 1
    BY <1>3, <2>0, <2>1 DEF SaveResult, GoTo, TypeInv
  <2>2. CASE job.step = 2
    BY <1>3, <2>0, <2>2 DEF SaveResult, GoTo, TypeInv
  <2>3. CASE job.step = 3
    <3>1. job'.kind = "none"
      BY <1>3, <2>3 DEF SaveResult, Stop, Idle
    <3>2. /\ output'["manifest"] = [run |-> job.run, config |-> config]
          /\ output'["summary"] = [run |-> job.run, config |-> job.loaded]
          /\ output'["series"] = [run |-> job.run, config |-> job.loaded]
          /\ clean' = (config = job.loaded)
      BY <1>3, <2>0, <2>3 DEF SaveResult, TypeInv
    <3> QED BY <3>1, <3>2
  <2> QED BY <2>0, <2>1, <2>2, <2>3
<1>4. CASE StartPromotion \/ CopySnapshot \/ CopyResult
  BY <1>4 DEF StartPromotion, CopySnapshot, CopyResult, Working, GoTo, Stop, Idle, ghosts,
              TypeInv
<1>5. CASE WriteFrame \/ WriteProtocol \/ WriteSuite
  BY <1>5 DEF WriteFrame, WriteProtocol, WriteSuite, Working, GoTo, Stop, Idle, ghosts,
              TypeInv
<1>6. CASE Edit
  BY <1>6 DEF Edit, ghosts
<1>7. CASE UNCHANGED artifactsVars
  BY <1>7 DEF artifactsVars, files, ghosts
<1> QED BY <1>1, <1>2, <1>3, <1>4, <1>5, <1>6, <1>7 DEF ArtifactsNext

\* Every step keeps what a protocol run knows of its frames.
LEMMA FramesStep ==
  ASSUME TypeInv, PromoteInv, FramesInv, [ArtifactsNext]_artifactsVars
  PROVE  FramesInv'
<1> USE Names DEF FramesInv, Written
<1>1. CASE StartSave \/ StartFrames
  BY <1>1 DEF StartSave, StartFrames, Start, files, ghosts, TypeInv
<1>2. CASE RefuseSave \/ Kill \/ CheckSnapshot \/ SaveResult
  BY <1>2 DEF RefuseSave, Kill, CheckSnapshot, SaveResult, Stop, GoTo, Idle, Working, files,
              ghosts, TypeInv
<1>3. CASE StartPromotion \/ CopySnapshot \/ CopyResult
  BY <1>3 DEF StartPromotion, CopySnapshot, CopyResult, Working, GoTo, Stop, Idle, ghosts,
              TypeInv
<1>4. CASE WriteFrame
  <2>0. /\ job.kind = "frames" /\ job.step \in 1..4
        /\ DOMAIN version = Promoted \cup Framed
        /\ job'.kind = "frames" /\ job'.step = job.step + 1 /\ job'.run = job.run
        /\ version' = [version EXCEPT ![Frames[job.step]] =
                        [run |-> job.run, config |-> "none"]]
    BY <1>4 DEF WriteFrame, GoTo, TypeInv
  <2>1. CASE job.step = 1
    BY <2>0, <2>1
  <2>2. CASE job.step = 2
    BY <2>0, <2>2
  <2>3. CASE job.step = 3
    BY <2>0, <2>3
  <2>4. CASE job.step = 4
    BY <2>0, <2>4
  <2> QED BY <2>0, <2>1, <2>2, <2>3, <2>4
<1>5. CASE WriteProtocol \/ WriteSuite
  BY <1>5 DEF WriteProtocol, WriteSuite, Working, GoTo, Stop, Idle, ghosts, TypeInv
<1>6. CASE Edit
  BY <1>6 DEF Edit, ghosts
<1>7. CASE UNCHANGED artifactsVars
  BY <1>7 DEF artifactsVars, files, ghosts
<1> QED BY <1>1, <1>2, <1>3, <1>4, <1>5, <1>6, <1>7 DEF ArtifactsNext

\* Every step keeps what a promotion knows of the files it has copied.
LEMMA PromoteStep ==
  ASSUME TypeInv, SaveInv, PromoteInv, FramesInv, [ArtifactsNext]_artifactsVars
  PROVE  PromoteInv'
<1> USE Names DEF PromoteInv, Copies
<1>1. CASE StartSave \/ StartFrames
  BY <1>1 DEF StartSave, StartFrames, Start, files, ghosts, TypeInv
<1>2. CASE RefuseSave \/ Kill
  BY <1>2 DEF RefuseSave, Kill, Stop, Idle, files, ghosts, TypeInv
<1>3. CASE SaveResult
  <2>1. job.kind = "save" /\ job'.kind # "promote"
    BY <1>3 DEF SaveResult, GoTo, Stop, Idle, TypeInv
  <2> QED BY <1>3, <2>1 DEF SaveResult
<1>4. CASE StartPromotion
  <2>1. /\ ~exists /\ exists' = TRUE /\ version' = version /\ output' = output
        /\ job'.step = 0 /\ job'.loaded = config /\ config \in Configurations
        /\ output["manifest"].config = config
        /\ \A f \in Promoted : output[f] # Missing
    BY <1>4 DEF StartPromotion, MayPromote, TypeInv
  <2> QED BY <2>1 DEF Whole
<1>5. CASE CheckSnapshot
  <2>1. Whole(snapshot) \/ job' = Idle
    BY <1>5, ArtifactsAssumption
    DEF CheckSnapshot, Working, Stop, Whole, Cut, Missing, TypeInv
  <2> QED BY <1>5, <2>1 DEF CheckSnapshot, Working, GoTo, Stop, Idle, files, ghosts, TypeInv, Whole
<1>6. CASE CopySnapshot
  <2>1. job'.step = 1 \/ (job'.step = 2 /\ Whole(snapshot'))
    BY <1>6, ArtifactsAssumption DEF CopySnapshot, GoTo, TypeInv, Whole, Cut, Missing
  <2> QED BY <1>6, <2>1 DEF CopySnapshot, Working, GoTo, TypeInv, Whole
<1>7. CASE CopyResult
  <2>0. /\ job.kind = "promote" /\ job.step \in {2, 3, 4}
        /\ DOMAIN version = Promoted \cup Framed
        /\ output' = output /\ snapshot' = snapshot /\ exists' = exists
        /\ job'.kind # "promote"
           \/ job' = [job EXCEPT !.step = job.step]
           \/ job' = [job EXCEPT !.step = job.step + 1]
    BY <1>7 DEF CopyResult, GoTo, Stop, Idle, TypeInv
  <2>1. CASE version[Copied] # Cut
    <3>1. /\ version' = [version EXCEPT ![Copied] = Cut]
          /\ job' = [job EXCEPT !.step = job.step]
      BY <1>7, <2>1 DEF CopyResult, GoTo
    <3>2. Copied = Results[job.step - 1]
      BY DEF Copied
    <3>3. ~Whole(Cut)
      BY DEF Whole
    <3>4. CASE job.step = 2
      BY <2>0, <3>1, <3>2, <3>4 DEF TypeInv
    <3>5. CASE job.step = 3
      BY <2>0, <3>1, <3>2, <3>5 DEF TypeInv
    <3>6. CASE job.step = 4
      BY <2>0, <3>1, <3>2, <3>3, <3>6 DEF TypeInv
    <3> QED BY <2>0, <3>4, <3>5, <3>6
  <2>2. CASE version[Copied] = Cut
    <3>1. /\ version' = [version EXCEPT ![Copied] = output[Copied]]
          /\ job.step \in {2, 3} => job' = [job EXCEPT !.step = job.step + 1]
          /\ job.step = 4 => job'.kind = "none"
      BY <1>7, <2>2 DEF CopyResult, GoTo, Stop, Idle
    <3>2. Copied = Results[job.step - 1]
      BY DEF Copied
    <3>3. CASE job.step = 2
      BY <2>0, <3>1, <3>2, <3>3 DEF TypeInv
    <3>4. CASE job.step = 3
      BY <2>0, <3>1, <3>2, <3>4 DEF TypeInv
    <3>5. CASE job.step = 4
      BY <2>0, <3>1, <3>2, <3>5 DEF TypeInv
    <3> QED BY <2>0, <3>3, <3>4, <3>5
  <2> QED BY <2>1, <2>2
<1>8. CASE WriteFrame
  <2>1. /\ job.kind = "frames" /\ job'.kind = "frames"
        /\ Frames[job.step] \in Framed
    BY <1>8 DEF WriteFrame, GoTo, TypeInv
  <2>2. \A f \in Promoted : version'[f] = version[f]
    BY <1>8, <2>1 DEF WriteFrame, TypeInv
  <2> QED BY <1>8, <2>1, <2>2 DEF WriteFrame
<1>9. CASE WriteProtocol \/ WriteSuite
  BY <1>9 DEF WriteProtocol, WriteSuite, Working, GoTo, Stop, Idle, ghosts, TypeInv
<1>10. CASE Edit
  BY <1>10 DEF Edit, ghosts
<1>11. CASE UNCHANGED artifactsVars
  BY <1>11 DEF artifactsVars, files, ghosts
<1> QED BY <1>1, <1>2, <1>3, <1>4, <1>5, <1>6, <1>7, <1>8, <1>9, <1>10, <1>11
        DEF ArtifactsNext

\* What was promoted stays whole.
LEMMA WholeStep ==
  ASSUME TypeInv, SaveInv, PromoteInv, FramesInv, PromotedIsWhole,
         [ArtifactsNext]_artifactsVars
  PROVE  PromotedIsWhole'
<1> USE Names
<1>1. CASE StartSave \/ StartFrames \/ RefuseSave \/ Kill \/ CheckSnapshot
  BY <1>1 DEF StartSave, StartFrames, Start, RefuseSave, Kill, CheckSnapshot, files, ghosts,
              PromotedIsWhole
<1>2. CASE SaveResult \/ StartPromotion \/ WriteProtocol \/ WriteSuite \/ Edit
  BY <1>2 DEF SaveResult, StartPromotion, WriteProtocol, WriteSuite, Edit, ghosts,
              PromotedIsWhole
<1>3. CASE CopySnapshot
  BY <1>3 DEF CopySnapshot, Working, PromoteInv, PromotedIsWhole
<1>4. CASE CopyResult
  <2>0. /\ job.kind = "promote" /\ job.step \in {2, 3, 4}
        /\ DOMAIN version = Promoted \cup Framed
        /\ snapshot' = snapshot /\ Copied = Results[job.step - 1]
    BY <1>4 DEF CopyResult, Copied, PromoteInv, TypeInv
  <2>1. CASE version[Copied] # Cut
    <3>1. version' = [version EXCEPT ![Copied] = Cut]
      BY <1>4, <2>1 DEF CopyResult
    <3>2. ~Whole(Cut) /\ ~Whole(version["manifest"])
      BY <2>0 DEF Whole, PromoteInv
    <3>3. ~Whole(version'["manifest"])
      BY <2>0, <3>1, <3>2
    <3> QED BY <3>3 DEF PromotedIsWhole
  <2>2. CASE version[Copied] = Cut /\ job.step \in {2, 3}
    <3>1. version' = [version EXCEPT ![Copied] = output[Copied]]
      BY <1>4, <2>2 DEF CopyResult
    <3>2. version'["manifest"] = version["manifest"]
      BY <2>0, <2>2, <3>1
    <3>3. ~Whole(version'["manifest"])
      BY <2>0, <3>2 DEF PromoteInv
    <3> QED BY <3>3 DEF PromotedIsWhole
  <2>3. CASE version[Copied] = Cut /\ job.step = 4
    <3>1. /\ version' = [version EXCEPT !["manifest"] = output["manifest"]]
          /\ promotedClean' = (clean /\ snapshot.config = job.loaded)
      BY <1>4, <2>0, <2>3 DEF CopyResult
    <3>2. \A f \in Promoted : version'[f] = output[f] /\ output[f] # Missing
      BY <2>0, <2>3, <3>1 DEF PromoteInv, Copies
    <3>3. \A f \in Promoted : output[f].run # -1
      BY DEF TypeInv, Saved
    <3>4. \A f \in Promoted : Whole(version'[f])
      BY <3>2, <3>3 DEF Whole, Cut
    <3>5. Whole(snapshot)
      BY <2>0, <2>3 DEF PromoteInv
    <3>6. ASSUME promotedClean', NEW f \in Promoted
          PROVE  /\ version'[f].run = version'["manifest"].run
                 /\ version'[f].config = snapshot.config
      <4>1. output[f] = output["manifest"] /\ snapshot.config = job.loaded
        BY <3>1, <3>6 DEF SaveInv
      <4>2. output["manifest"].config = job.loaded
        BY <2>0 DEF PromoteInv
      <4> QED BY <3>2, <4>1, <4>2
    <3> QED BY <2>0, <3>4, <3>5, <3>6 DEF PromotedIsWhole, Whole
  <2> QED BY <2>0, <2>1, <2>2, <2>3
<1>5. CASE WriteFrame
  <2>1. Frames[job.step] \in Framed
    BY <1>5 DEF WriteFrame, TypeInv
  <2>2. \A f \in Promoted : version'[f] = version[f]
    BY <1>5, <2>1 DEF WriteFrame, TypeInv
  <2> QED BY <1>5, <2>2 DEF WriteFrame, PromotedIsWhole, Whole, ghosts
<1>6. CASE UNCHANGED artifactsVars
  BY <1>6 DEF artifactsVars, files, ghosts, PromotedIsWhole
<1> QED BY <1>1, <1>2, <1>3, <1>4, <1>5, <1>6 DEF ArtifactsNext

\* What a manifest matches stays of one run.
LEMMA ManifestStep ==
  ASSUME TypeInv, FramesInv, OneRun(protocol), OneRun(suite), [ArtifactsNext]_artifactsVars
  PROVE  OneRun(protocol)' /\ OneRun(suite)'
<1>1. ASSUME NEW names, Framed \subseteq names, job.kind = "frames", job.step > 4
      PROVE  /\ Framed \subseteq DOMAIN Checksums(names)
             /\ \E r \in Nat \ {0} : \A f \in Framed :
                  Checksums(names)[f] = [run |-> r, config |-> "none"]
  <2>1. job.run \in Nat \ {0}
    BY <1>1 DEF FramesInv, TypeInv
  <2>2. \A f \in Framed : version[f] = [run |-> job.run, config |-> "none"]
    BY <1>1, Names DEF FramesInv, Written, TypeInv
  <2>3. \A f \in Framed : version[f] # Missing
    BY <2>1, <2>2 DEF Missing
  <2> QED BY <1>1, <2>1, <2>2, <2>3 DEF Checksums
<1>2. CASE WriteProtocol
  <2>1. job.kind = "frames" /\ job.step = 5 /\ suite' = suite
    BY <1>2, Names DEF WriteProtocol, Working
  <2>2. protocol' = protocol \/ protocol' = [files |-> Checksums(Framed), snapshot |-> snapshot]
    BY <1>2 DEF WriteProtocol
  <2> QED BY <1>1, <2>1, <2>2 DEF OneRun
<1>3. CASE WriteSuite
  <2>1. /\ job.kind = "frames" /\ job.step = 6 /\ protocol' = protocol
        /\ suite' = [files |-> Checksums(DOMAIN version), snapshot |-> snapshot]
    BY <1>3, Names DEF WriteSuite, Working
  <2>2. Framed \subseteq DOMAIN version
    BY DEF TypeInv
  <2> QED BY <1>1, <2>1, <2>2 DEF OneRun
<1>4. CASE protocol' = protocol /\ suite' = suite
  BY <1>4 DEF OneRun
<1>5. WriteProtocol \/ WriteSuite \/ (protocol' = protocol /\ suite' = suite)
  BY DEF ArtifactsNext, artifactsVars, StartSave, RefuseSave, SaveResult, StartPromotion,
         CheckSnapshot, CopySnapshot, CopyResult, StartFrames, WriteFrame, Kill, Edit, files
<1> QED BY <1>2, <1>3, <1>4, <1>5

\* The invariant of the artifacts.
LEMMA ArtifactsInductive == ArtifactsSpec => []ArtifactsInv
<1>1. ArtifactsInv /\ [ArtifactsNext]_artifactsVars => ArtifactsInv'
  BY TypeStep, SaveStep, PromoteStep, FramesStep, WholeStep, ManifestStep DEF ArtifactsInv
<1> QED BY InitArtifacts, <1>1, PTL DEF ArtifactsSpec

(* However many processes are killed, at whatever moment, a version with    *)
(* its manifest has all the rest whole, of one run and configuration after  *)
(* an unbroken save and promotion (promotion.py:14-59).                     *)
THEOREM PromotedAlwaysWhole == ArtifactsSpec => []PromotedIsWhole
<1>1. ArtifactsInv => PromotedIsWhole
  BY DEF ArtifactsInv
<1> QED BY ArtifactsInductive, <1>1, PTL

(* Frames that match the checksums of a manifest are of one run             *)
(* (persistence.py:29-132).                                                 *)
THEOREM VerifiedAlwaysOneRun == ArtifactsSpec => []VerifiedIsOneRun
<1>1. ASSUME NEW m, OneRun(m), Matches(m)
      PROVE  \A f, g \in Framed : Whole(version[f]) /\ version[f].run = version[g].run
  <2>1. PICK r \in Nat \ {0} : \A f \in Framed :
          f \in DOMAIN m.files /\ m.files[f] = [run |-> r, config |-> "none"]
    BY <1>1 DEF OneRun, Matches
  <2>2. \A f \in Framed : version[f] = [run |-> r, config |-> "none"]
    BY <1>1, <2>1 DEF Matches
  <2> QED BY <2>1, <2>2 DEF Whole, Missing, Cut
<1>2. ArtifactsInv => VerifiedIsOneRun
  BY <1>1 DEF ArtifactsInv, VerifiedIsOneRun
<1> QED BY ArtifactsInductive, <1>2, PTL
-----------------------------------------------------------------------------
(* The cascade, whatever its curves, if they are numbers, spill nothing     *)
(* negative and have a tailwater that rises.  The inductive invariant       *)
(* relates each record to the volumes and to the records before it.         *)

Limits == {"head_limited", "water_limited", "turbine_capacity_limited"}
Entry ==
  [inflow : Nat, arrival : Nat, request : Int,
   status : Limits \cup {"met", "off", "flow_dispatch"},
   turbine : Nat, spill : Nat, control : Nat, defluent : Nat, power : Int, deficit : Int,
   on : BOOLEAN, duration : Nat, early : Nat]

SimulationInv ==
  /\ mode \in {"none", "flow", "power"} /\ plant \in Plants
  /\ volume \in [Plants -> Seq(Int)] /\ series \in [Plants -> Seq(Entry)]
  /\ \A p \in Plants : Len(volume[p]) = Len(series[p]) + 1 /\ Len(series[p]) <= Periods
  /\ Len(series[0]) = Len(series[1]) + plant

\* A record that is so, whatever the rest.
Sound(p, r) ==
  r.turbine <= Config[p].maxFlow /\ r.spill >= r.control /\ Delivered(p, r)

\* What arrives at a plant in its i-th period.
ArrivalAt(p, i) == IF p = 1 /\ i > Travel THEN series[0][i - Travel].defluent ELSE 0

\* The water of a plant's i-th period is accounted for, and the turbine took
\* no more than there was.
Balanced(p, i) ==
  LET r == series[p][i]
  IN  /\ volume[p][i + 1] = volume[p][i] + r.inflow + r.arrival - r.defluent
      /\ r.defluent = r.turbine + r.spill
      /\ r.arrival = ArrivalAt(p, i)
      /\ r.turbine <= Most(0, volume[p][i] + r.inflow + r.arrival)

EveryPeriodBalances == \A p \in Plants : \A i \in 1..Len(series[p]) : Balanced(p, i)

HonestInv ==
  \A p \in Plants : \A i \in 1..Len(series[p]) :
    Sound(p, series[p][i]) /\ Timed(series[p], i)

\* A plant begins with what its configuration says.
StartsFull == \A p \in Plants : volume[p][1] = Config[p].initial

CascadeInv == SimulationInv /\ StartsFull /\ EveryPeriodBalances /\ HonestInv

(* The lesser and the greater of two integers.                             *)
LEMMA LeastMost ==
  ASSUME NEW a \in Int, NEW b \in Int
  PROVE  /\ Least(a, b) \in {a, b} /\ Least(a, b) <= a /\ Least(a, b) <= b
         /\ Most(a, b) \in {a, b} /\ Most(a, b) >= a /\ Most(a, b) >= b
BY DEF Least, Most

(* Products of natural numbers ascend.                                     *)
LEMMA ProductsAscend ==
  ASSUME NEW a \in Nat, NEW b \in Nat, NEW c \in Nat, a <= b
  PROVE  a * c \in Nat /\ b * c \in Nat /\ a * c <= b * c
OBVIOUS

(* The parameters, one by one.                                             *)
LEMMA PlantFacts ==
  ASSUME NEW p \in Plants
  PROVE  /\ p \in {0, 1} /\ Tolerance \in Nat
         /\ Config[p].initial \in Nat /\ Config[p].maxLevel \in Int
         /\ Config[p].minPower \in Nat /\ Config[p].maxPower \in Nat
         /\ Config[p].minFlow \in Nat /\ Config[p].maxFlow \in Nat
         /\ Config[p].sanitary \in Nat
BY CascadeAssumption DEF Plants

(* Heads and powers are natural numbers, and no more spill makes more power. *)
LEMMA PowerFacts ==
  ASSUME CurvesAreNumbers, TailwaterRises,
         NEW p \in Plants, NEW level \in Int, NEW flow \in Nat, NEW spill \in Nat
  PROVE  /\ NetHead(p, level, flow + spill) \in Nat
         /\ Power(p, level, flow, spill) \in Nat
         /\ flow = 0 => Power(p, level, flow, spill) = 0
         /\ \A more \in Nat : spill <= more =>
              Power(p, level, flow, more) <= Power(p, level, flow, spill)
<1>1. ASSUME NEW s \in Nat
      PROVE  /\ Tailwater(p, flow + s) \in Int /\ NetHead(p, level, flow + s) \in Nat
  <2>1. Tailwater(p, flow + s) \in Int
    BY <1>1 DEF CurvesAreNumbers
  <2> QED BY <2>1 DEF NetHead, Most
<1>2. ASSUME NEW more \in Nat, spill <= more
      PROVE  Power(p, level, flow, more) <= Power(p, level, flow, spill)
  <2>1. Tailwater(p, flow + spill) <= Tailwater(p, flow + more)
    <3>1. flow + more \in Nat /\ flow + spill \in 0..(flow + more)
      BY <1>2
    <3> QED BY <3>1 DEF TailwaterRises
  <2>2. NetHead(p, level, flow + more) <= NetHead(p, level, flow + spill)
    BY <1>1, <1>2, <2>1 DEF NetHead, Most
  <2>3. NetHead(p, level, flow + more) \in Nat /\ NetHead(p, level, flow + spill) \in Nat
    BY <1>1, <1>2
  <2> QED BY <2>2, <2>3, ProductsAscend DEF Power
<1>3. NetHead(p, level, flow + spill) \in Nat
  BY <1>1
<1>4. NetHead(p, level, flow + spill) * flow \in Nat
  BY <1>3, ProductsAscend
<1>5. flow = 0 => NetHead(p, level, flow + spill) * flow = 0
  BY <1>3
<1> QED BY <1>2, <1>3, <1>4, <1>5 DEF Power

(* The flow a request is turned into: within the turbine and the water, and *)
(* when the operating range is enforced none or an effective one.           *)
LEMMA FlowFacts ==
  ASSUME NEW p \in Plants, NEW level \in Int, NEW request \in Int, NEW spill \in Nat,
         NEW available \in Nat, NEW enforce \in BOOLEAN,
         NEW flow \in BoundedTurbineFlow(p, level, request, spill, available, enforce)
  PROVE  /\ flow \in Nat /\ flow <= Config[p].maxFlow /\ flow <= available
         /\ enforce => flow = 0 \/ Effective(p, Power(p, level, flow, spill))
         /\ ~enforce => flow <= Most(0, request)
<1>1. Config[p].maxFlow \in Nat /\ Config[p].minFlow \in Nat
  BY PlantFacts
<1> DEFINE most == Least(Config[p].maxFlow, available)
           candidate == Project(p, request)
<1>2. most \in Nat /\ most <= Config[p].maxFlow /\ most <= available
  BY <1>1 DEF Least
<1>3. CASE enforce
  <2>1. flow \in EnforcePowerLimits(p, level, request, spill, available)
    BY <1>3 DEF BoundedTurbineFlow
  <2>2. candidate \in Nat
    BY <1>1 DEF Project, Least, Most
  <2>3. \/ flow = 0
        \/ flow = Least(candidate, most) /\ Effective(p, Power(p, level, flow, spill))
        \/ flow \in 0..most /\ Effective(p, Power(p, level, flow, spill))
    BY <2>1 DEF EnforcePowerLimits
  <2>4. flow \in Nat /\ flow <= most
    BY <1>2, <2>2, <2>3, LeastMost
  <2> QED BY <1>1, <1>2, <1>3, <2>3, <2>4
<1>4. CASE ~enforce
  <2>1. flow = Most(0, Least(request, most))
    BY <1>4 DEF BoundedTurbineFlow
  <2> QED BY <1>1, <1>2, <1>4, <2>1 DEF Least, Most
<1> QED BY <1>3, <1>4

(* A transition, with the flow chosen first and, above the maximum level,  *)
(* the one chosen again.                                                   *)
FixedSpill(p, inflow) == Config[p].sanitary + Most(0, inflow - Config[p].maxFlow)
FirstFlows(p, v, inflow, request, enforce) ==
  BoundedTurbineFlow(p, Level(p, v), request, 0, Most(0, v + inflow), enforce)
NextFlows(p, v, inflow, request, enforce) ==
  BoundedTurbineFlow(p, Level(p, v), request, FixedSpill(p, inflow),
                     Most(0, Most(0, v + inflow) - FixedSpill(p, inflow)), enforce)
Controlled(p, v, inflow, flow) ==
  Outcome(p, v, inflow, flow, FixedSpill(p, inflow),
          LevelControlSpill(p, Level(p, v + inflow - (flow + FixedSpill(p, inflow)))))

\* A transition is an outcome of one of these flows.
LEMMA TransitionCases ==
  ASSUME NEW p, NEW v, NEW inflow, NEW request, NEW enforce, NEW x
  PROVE  x \in Transitions(p, v, inflow, request, enforce) <=>
           \E flow \in FirstFlows(p, v, inflow, request, enforce) :
             \/ /\ Level(p, v + inflow - flow) <= Config[p].maxLevel
                /\ x = Outcome(p, v, inflow, flow, 0, 0)
             \/ /\ ~(Level(p, v + inflow - flow) <= Config[p].maxLevel)
                /\ \E again \in NextFlows(p, v, inflow, request, enforce) :
                     x = Controlled(p, v, inflow, again)
BY ZenonT(60) DEF Transitions, FirstFlows, NextFlows, FixedSpill, Controlled

(* Without the operating range a request has one flow.                     *)
LEMMA RawIsTransition ==
  ASSUME NEW p, NEW v, NEW inflow, NEW request
  PROVE  Raw(p, v, inflow, request) \in Transitions(p, v, inflow, request, FALSE)
<1>1. /\ \E flow : flow \in FirstFlows(p, v, inflow, request, FALSE)
      /\ \E flow : flow \in NextFlows(p, v, inflow, request, FALSE)
  BY DEF FirstFlows, NextFlows, BoundedTurbineFlow
<1>2. \E x : x \in Transitions(p, v, inflow, request, FALSE)
  BY <1>1, TransitionCases
<1> QED BY <1>2, Zenon DEF Raw

\* What a transition may make of a reservoir's water and of the turbine.
Sluiced(p, v, inflow, x) ==
  /\ x.turbine \in Nat /\ x.turbine <= Config[p].maxFlow /\ x.turbine <= Most(0, v + inflow)
  /\ x.spill \in Nat /\ x.control \in Nat /\ x.spill >= x.control
  /\ x.defluent = x.turbine + x.spill
  /\ x.volume = v + inflow - x.defluent /\ x.power \in Nat
  /\ x.turbine = 0 => x.power = 0

\* What the operating range makes of the power.
InRange(p, x) ==
  x.turbine > 0 => /\ x.power <= Config[p].maxPower + Tolerance
                   /\ x.control = 0 => Effective(p, x.power)

(* The outcome of a flow that is within its limits before the control.     *)
LEMMA OutcomeFacts ==
  ASSUME CurvesAreNumbers, TailwaterRises,
         NEW p \in Plants, NEW v \in Int, NEW inflow \in Nat,
         NEW f \in Nat, f <= Config[p].maxFlow, f <= Most(0, v + inflow),
         NEW s \in Nat, NEW c \in Nat
  PROVE  /\ Sluiced(p, v, inflow, Outcome(p, v, inflow, f, s, c))
         /\ Outcome(p, v, inflow, f, s, c).turbine = f
         /\ f = 0 \/ Effective(p, Power(p, Level(p, v), f, s)) =>
              InRange(p, Outcome(p, v, inflow, f, s, c))
<1> DEFINE x == Outcome(p, v, inflow, f, s, c)
           level == Level(p, v)
<1>1. /\ x.turbine = f /\ x.spill = s + c /\ x.control = c /\ x.defluent = f + s + c
      /\ x.volume = v + inflow - (f + s + c) /\ x.power = Power(p, level, f, s + c)
  BY DEF Outcome
<1>2. level \in Int
  BY DEF CurvesAreNumbers
<1> HIDE DEF x, level
<1>3. /\ Power(p, level, f, s) \in Nat /\ Power(p, level, f, s + c) \in Nat
      /\ Power(p, level, f, s + c) <= Power(p, level, f, s)
      /\ f = 0 => Power(p, level, f, s + c) = 0
  <2>1. s + c \in Nat /\ s <= s + c
    OBVIOUS
  <2> QED BY <1>2, <2>1, PowerFacts
<1>4. f + s + c = f + (s + c) /\ s + c \in Nat /\ s + c >= c
  OBVIOUS
<1>5. Sluiced(p, v, inflow, x)
  BY <1>1, <1>3, <1>4 DEF Sluiced
<1>6. ASSUME f = 0 \/ Effective(p, Power(p, level, f, s)) PROVE InRange(p, x)
  <2>1. SUFFICES ASSUME f > 0
                 PROVE  /\ x.power <= Config[p].maxPower + Tolerance
                        /\ c = 0 => Effective(p, x.power)
    BY <1>1 DEF InRange
  <2>2. Effective(p, Power(p, level, f, s))
    BY <1>6, <2>1
  <2>3. Power(p, level, f, s) <= Config[p].maxPower + Tolerance
    BY <1>3, <2>2, PlantFacts DEF Effective
  <2>4. x.power <= Config[p].maxPower + Tolerance
    BY <1>1, <1>3, <2>3, PlantFacts
  <2>5. c = 0 => s + c = s
    OBVIOUS
  <2> QED BY <1>1, <2>2, <2>4, <2>5
<1> QED BY <1>1, <1>5, <1>6 DEF x, level

(* What a transition makes of a reservoir's water and of the turbine.      *)
LEMMA TransitionFacts ==
  ASSUME CurvesAreNumbers, TailwaterRises,
         NEW p \in Plants, NEW v \in Int, NEW inflow \in Nat,
         NEW request \in Int, NEW enforce \in BOOLEAN,
         NEW x \in Transitions(p, v, inflow, request, enforce)
  PROVE  /\ Sluiced(p, v, inflow, x)
         /\ ~enforce => x.turbine <= Most(0, request)
         /\ enforce => InRange(p, x)
<1> DEFINE level == Level(p, v)
           fixed == FixedSpill(p, inflow)
           available == Most(0, v + inflow)
           left == Most(0, available - fixed)
           spilt(f) == LevelControlSpill(p, Level(p, v + inflow - (f + fixed)))
<1>1. level \in Int /\ available \in Nat
  BY DEF CurvesAreNumbers, Most
<1>2. fixed \in Nat
  <2>1. Config[p].sanitary \in Nat /\ Config[p].maxFlow \in Nat
    BY PlantFacts
  <2>2. Most(0, inflow - Config[p].maxFlow) \in Nat
    BY <2>1 DEF Most
  <2> QED BY <2>1, <2>2 DEF FixedSpill
<1>3. left \in Nat /\ left <= available
  <2> HIDE DEF fixed, available
  <2> QED BY <1>1, <1>2 DEF Most
<1>4. ASSUME NEW f \in Nat PROVE spilt(f) \in Nat
  <2>1. v + inflow - (f + fixed) \in Int
    BY <1>2, <1>4
  <2>2. PICK l \in Int : l = Level(p, v + inflow - (f + fixed))
    BY <2>1 DEF CurvesAreNumbers
  <2>3. Config[p].maxLevel \in Int
    BY PlantFacts
  <2>4. CASE l <= Config[p].maxLevel
    BY <2>2, <2>4 DEF LevelControlSpill
  <2>5. CASE ~(l <= Config[p].maxLevel)
    <3>1. l - Config[p].maxLevel \in Nat /\ l - Config[p].maxLevel \in Int
      BY <2>3, <2>5
    <3>2. Control(p, l - Config[p].maxLevel) \in Int /\ Control(p, l - Config[p].maxLevel) >= 0
      BY <3>1 DEF CurvesAreNumbers, TailwaterRises
    <3>3. LevelControlSpill(p, l) = Control(p, l - Config[p].maxLevel)
      BY <2>5 DEF LevelControlSpill
    <3> QED BY <2>2, <3>2, <3>3
  <2> QED BY <2>4, <2>5
<1>5. PICK flow \in FirstFlows(p, v, inflow, request, enforce) :
        \/ x = Outcome(p, v, inflow, flow, 0, 0)
        \/ \E again \in NextFlows(p, v, inflow, request, enforce) :
             x = Controlled(p, v, inflow, again)
  BY TransitionCases
<1>6. CASE x = Outcome(p, v, inflow, flow, 0, 0)
  <2>1. flow \in BoundedTurbineFlow(p, level, request, 0, available, enforce)
    BY <1>5 DEF FirstFlows
  <2> HIDE DEF level, available
  <2>2. /\ flow \in Nat /\ flow <= Config[p].maxFlow /\ flow <= available
        /\ enforce => flow = 0 \/ Effective(p, Power(p, level, flow, 0))
        /\ ~enforce => flow <= Most(0, request)
    BY <1>1, <2>1, FlowFacts
  <2>3. 0 \in Nat
    OBVIOUS
  <2> QED BY <1>6, <2>2, <2>3, OutcomeFacts DEF level, available
<1>7. ASSUME NEW again \in NextFlows(p, v, inflow, request, enforce),
             x = Controlled(p, v, inflow, again)
      PROVE  /\ Sluiced(p, v, inflow, x)
             /\ ~enforce => x.turbine <= Most(0, request)
             /\ enforce => InRange(p, x)
  <2>1. again \in BoundedTurbineFlow(p, level, request, fixed, left, enforce)
    BY <1>7 DEF NextFlows
  <2>2. x = Outcome(p, v, inflow, again, fixed, spilt(again))
    BY <1>7 DEF Controlled
  <2> HIDE DEF level, left, fixed
  <2>3. /\ again \in Nat /\ again <= Config[p].maxFlow /\ again <= left
        /\ enforce => again = 0 \/ Effective(p, Power(p, level, again, fixed))
        /\ ~enforce => again <= Most(0, request)
    BY <1>1, <1>2, <1>3, <2>1, FlowFacts
  <2>4. PICK c \in Nat : c = spilt(again)
    BY <1>4, <2>3
  <2>5. again <= available
    <3> HIDE DEF available
    <3> QED BY <1>1, <1>3, <2>3, PlantFacts
  <2> HIDE DEF spilt
  <2>6. x = Outcome(p, v, inflow, again, fixed, c)
    BY <2>2, <2>4
  <2> QED BY <1>2, <2>3, <2>4, <2>5, <2>6, OutcomeFacts DEF level
<1> QED BY <1>5, <1>6, <1>7

(* The transition to a request; to none the turbine is off.                *)
LEMMA RawFacts ==
  ASSUME CurvesAreNumbers, TailwaterRises,
         NEW p \in Plants, NEW v \in Int, NEW inflow \in Nat
  PROVE  /\ \A q \in Int : Sluiced(p, v, inflow, Raw(p, v, inflow, q))
         /\ Sluiced(p, v, inflow, Raw(p, v, inflow, 0))
         /\ Raw(p, v, inflow, 0).turbine = 0
<1>1. ASSUME NEW q \in Int
      PROVE  /\ Sluiced(p, v, inflow, Raw(p, v, inflow, q))
             /\ Raw(p, v, inflow, q).turbine <= Most(0, q)
  <2>1. Raw(p, v, inflow, q) \in Transitions(p, v, inflow, q, FALSE)
    BY RawIsTransition
  <2> QED BY <2>1, TransitionFacts
<1>2. 0 \in Int /\ Most(0, 0) = 0
  BY DEF Most
<1>3. /\ Sluiced(p, v, inflow, Raw(p, v, inflow, 0))
      /\ Raw(p, v, inflow, 0).turbine <= Most(0, 0)
  BY <1>1, <1>2, Zenon
<1>4. Raw(p, v, inflow, 0).turbine \in Nat
  BY <1>3 DEF Sluiced
<1> QED BY <1>1, <1>2, <1>3, <1>4

(* What a dispatch answers: a transition, with a status that tells why.    *)
LEMMA DispatchFacts ==
  ASSUME CurvesAreNumbers, TailwaterRises, mode \in {"flow", "power"},
         NEW p \in Plants, NEW v \in Int, NEW inflow \in Nat,
         NEW request \in Int, mode = "power" => ValidTarget(p, request),
         NEW d \in Dispatch(p, v, inflow, request)
  PROVE  /\ Sluiced(p, v, inflow, d[1])
         /\ mode = "flow" => d[2] = "flow_dispatch" /\ InRange(p, d[1])
         /\ mode = "power" =>
              \/ d[2] = "off" /\ Near(request, 0) /\ d[1].turbine = 0 /\ d[1].power = 0
              \/ d[2] = "met" /\ Near(d[1].power, request) /\ request >= Config[p].minPower
              \/ /\ d[2] \in Limits
                 /\ d[1].turbine = 0 \/ d[1].power >= Config[p].minPower - Tolerance
<1> DEFINE maximum == Raw(p, v, inflow, Config[p].maxFlow)
           limited == LimitingStatus(p, maximum)
<1>1. /\ Config[p].minPower \in Nat /\ Config[p].maxPower \in Nat /\ Config[p].maxFlow \in Int
      /\ Tolerance \in Nat
  BY PlantFacts
<1>2. CASE mode = "flow"
  <2>1. PICK y \in Transitions(p, v, inflow, request, TRUE) : d = <<y, "flow_dispatch">>
    BY <1>2, Zenon DEF Dispatch
  <2>2. d[1] = y /\ d[2] = "flow_dispatch"
    BY <2>1
  <2>3. Sluiced(p, v, inflow, y) /\ InRange(p, y)
    BY TransitionFacts
  <2> QED BY <1>2, <2>2, <2>3
<1>3. CASE mode = "power"
  <2>1. d \in Solutions(p, v, inflow, request)
    BY <1>3 DEF Dispatch
  <2>2. limited \in Limits
    BY DEF LimitingStatus, Limits
  <2>3. ASSUME NEW q \in Int PROVE Sluiced(p, v, inflow, Raw(p, v, inflow, q))
    BY RawFacts
  <2> DEFINE off == Raw(p, v, inflow, 0)
  <2>4. Sluiced(p, v, inflow, off) /\ off.turbine = 0 /\ off.power = 0
    BY RawFacts DEF Sluiced
  <2> HIDE DEF off
  <2> HIDE DEF maximum, limited
  <2>5. /\ Sluiced(p, v, inflow, maximum)
        /\ maximum.power \in Nat /\ maximum.turbine \in Nat
    BY <1>1, <2>3 DEF maximum, Sluiced
  <2>6. CASE Near(request, 0)
    <3>1. d = <<off, "off">>
      BY <2>1, <2>6 DEF Solutions, off
    <3>2. d[1] = off /\ d[2] = "off"
      BY <3>1
    <3> QED BY <1>3, <2>4, <2>6, <3>2
  <2>7. CASE ~Near(request, 0) /\ maximum.power < request - Tolerance
    <3>1. d = <<Limited(p, v, inflow, maximum), limited>>
      BY <2>1, <2>7 DEF Solutions, maximum, limited
    <3>2. CASE maximum.power < Config[p].minPower - Tolerance
      <4>1. Limited(p, v, inflow, maximum) = off
        BY <3>2 DEF Limited, off
      <4>2. d[1] = off /\ d[2] \in Limits
        BY <2>2, <3>1, <4>1
      <4> QED BY <1>3, <2>4, <4>2
    <3>3. CASE ~(maximum.power < Config[p].minPower - Tolerance)
      <4>1. /\ Limited(p, v, inflow, maximum) = maximum
            /\ maximum.power >= Config[p].minPower - Tolerance
        BY <1>1, <2>5, <3>3 DEF Limited
      <4> QED BY <1>1, <1>3, <2>2, <2>5, <3>1, <4>1
    <3> QED BY <3>2, <3>3
  <2>8. CASE ~Near(request, 0) /\ ~(maximum.power < request - Tolerance)
    <3>1. request >= Config[p].minPower /\ maximum.power >= Config[p].minPower - Tolerance
      BY <1>1, <1>3, <2>5, <2>8 DEF ValidTarget
    <3>2. \/ d = <<maximum, limited>>
          \/ \E y \in Meeting(p, v, inflow, request, maximum) : d = <<y, "met">>
      BY <2>1, <2>8 DEF Solutions, maximum, limited
    <3>3. CASE d = <<maximum, limited>>
      BY <1>1, <1>3, <2>2, <2>5, <3>1, <3>3
    <3>4. ASSUME NEW y \in Meeting(p, v, inflow, request, maximum), d = <<y, "met">>
          PROVE  d[2] = "met" /\ Near(d[1].power, request) /\ Sluiced(p, v, inflow, d[1])
      <4>1. PICK f \in 0..maximum.turbine : y = Raw(p, v, inflow, f) /\ Near(y.power, request)
        BY DEF Meeting
      <4>2. f \in Int
        BY <2>5, <4>1
      <4> QED BY <2>3, <3>4, <4>1, <4>2
    <3> QED BY <1>3, <3>1, <3>2, <3>3, <3>4
  <2> QED BY <2>6, <2>7, <2>8
<1> QED BY <1>2, <1>3

(* What a plant holds and what has arrived at it, in the period at hand.    *)
LEMMA StorageFacts ==
  ASSUME SimulationInv, Simulating, NEW inflow \in Inflows
  PROVE  /\ Len(series[plant]) \in Nat /\ Len(series[plant]) < Periods
         /\ Period = Len(series[plant]) + 1
         /\ Storage(plant) = volume[plant][Len(series[plant]) + 1] /\ Storage(plant) \in Int
         /\ inflow \in Nat /\ Arrival(plant) \in Nat
         /\ Arrival(plant) = ArrivalAt(plant, Len(series[plant]) + 1)
<1> DEFINE n == Len(series[plant])
<1>1. /\ plant \in {0, 1} /\ plant \in Plants
      /\ volume[plant] \in Seq(Int) /\ series[plant] \in Seq(Entry)
      /\ series[0] \in Seq(Entry) /\ series[1] \in Seq(Entry)
      /\ Len(volume[plant]) = n + 1 /\ Len(series[0]) = Len(series[1]) + plant
  BY DEF SimulationInv, Plants
<1>2. n \in Nat /\ n < Periods /\ Period = n + 1
  <2>1. n \in Nat
    BY <1>1
  <2> QED BY <1>1, <2>1, CascadeAssumption DEF Simulating, Period
<1> HIDE DEF n
<1>3. n + 1 \in 1..Len(volume[plant])
  BY <1>1, <1>2
<1>4. Storage(plant) = volume[plant][n + 1] /\ Storage(plant) \in Int
  BY <1>1, <1>3, ElementOfSeq DEF Storage
<1>6. inflow \in Nat
  BY CascadeAssumption
<1>7. Arrival(plant) \in Nat /\ Arrival(plant) = ArrivalAt(plant, n + 1)
  <2>1. CASE plant = 1 /\ n + 1 > Travel
    <3>1. Travel \in Nat \ {0}
      BY CascadeAssumption
    <3>2. (n + 1) - Travel \in 1..Len(series[0])
      BY <1>1, <1>2, <2>1, <3>1 DEF n
    <3>3. series[0][(n + 1) - Travel].defluent \in Nat
      <4>1. series[0][(n + 1) - Travel] \in Entry
        BY <1>1, <3>2, ElementOfSeq
      <4> QED BY <4>1 DEF Entry
    <3>4. Arrival(plant) = series[0][(n + 1) - Travel].defluent
      BY <1>2, <2>1 DEF Arrival
    <3>5. ArrivalAt(plant, n + 1) = series[0][(n + 1) - Travel].defluent
      BY <2>1 DEF ArrivalAt
    <3> QED BY <3>3, <3>4, <3>5
  <2>2. CASE ~(plant = 1 /\ n + 1 > Travel)
    BY <1>2, <2>2 DEF Arrival, ArrivalAt
  <2> QED BY <2>1, <2>2
<1> QED BY <1>2, <1>4, <1>6, <1>7 DEF n

\* How a record of a unit follows the one before.
Follows(records, r) ==
  LET n == Len(records)
      before == records[n]
  IN  \/ n = 0 /\ r.duration = 1 /\ r.early = 0
      \/ n > 0 /\ r.on = before.on /\ r.duration = before.duration + 1 /\ r.early = 0
      \/ /\ n > 0 /\ r.on # before.on
         /\ r.duration = 1 /\ r.early = Most(0, MinDuration - before.duration)

(* A step of the simulation appends a record that is so, and a volume.     *)
LEMMA Recorded ==
  ASSUME CurvesAreNumbers, TailwaterRises, SimulationInv, Simulate
  PROVE  /\ mode' = mode /\ mode \in {"flow", "power"} /\ plant' = 1 - plant
         /\ Len(series[plant]) < Periods
         /\ \E r \in Entry, w \in Int :
              /\ volume' = [volume EXCEPT ![plant] = Append(@, w)]
              /\ series' = [series EXCEPT ![plant] = Append(@, r)]
              /\ w = Storage(plant) + r.inflow + r.arrival - r.defluent
              /\ r.defluent = r.turbine + r.spill
              /\ r.turbine <= Most(0, Storage(plant) + r.inflow + r.arrival)
              /\ r.arrival = ArrivalAt(plant, Len(series[plant]) + 1)
              /\ Sound(plant, r) /\ Follows(series[plant], r)
<1>1. /\ plant \in Plants /\ mode' = mode /\ mode \in {"flow", "power"} /\ plant' = 1 - plant
      /\ Simulating
  BY DEF Simulate, Simulating, SimulationInv
<1>0. PICK inflow \in Inflows, request \in Requests :
        /\ mode = "power" => ValidTarget(plant, request)
        /\ \E d \in Dispatch(plant, Storage(plant), inflow + Arrival(plant), request) :
             Record(plant, inflow, Arrival(plant), request, d[1], d[2])
  BY Zenon DEF Simulate
<1>2. PICK d \in Dispatch(plant, Storage(plant), inflow + Arrival(plant), request) :
        Record(plant, inflow, Arrival(plant), request, d[1], d[2])
  BY <1>0
<1> DEFINE x == d[1]
           status == d[2]
           n == Len(series[plant])
           on == x.turbine > 0
           unit == NextUnitState(plant, on)
           r == [inflow |-> inflow, arrival |-> Arrival(plant), request |-> request,
                 status |-> status,
                 turbine |-> x.turbine, spill |-> x.spill, control |-> x.control,
                 defluent |-> x.defluent, power |-> x.power,
                 deficit |-> IF mode = "power" THEN Most(0, request - x.power) ELSE 0,
                 on |-> on, duration |-> unit.duration, early |-> unit.early]
<1>3. /\ n \in Nat /\ n < Periods /\ Period = n + 1
      /\ Storage(plant) = volume[plant][n + 1] /\ Storage(plant) \in Int
      /\ inflow \in Nat /\ Arrival(plant) \in Nat
      /\ Arrival(plant) = ArrivalAt(plant, n + 1)
  BY <1>1, StorageFacts
<1>4. request \in Int /\ inflow + Arrival(plant) \in Nat
  <2>1. Requests \subseteq Int
    BY CascadeAssumption
  <2> QED BY <1>3, <2>1
<1>5. /\ Sluiced(plant, Storage(plant), inflow + Arrival(plant), x)
      /\ mode = "flow" => status = "flow_dispatch" /\ InRange(plant, x)
      /\ mode = "power" =>
           \/ status = "off" /\ Near(request, 0) /\ x.turbine = 0 /\ x.power = 0
           \/ status = "met" /\ Near(x.power, request) /\ request >= Config[plant].minPower
           \/ /\ status \in Limits
              /\ x.turbine = 0 \/ x.power >= Config[plant].minPower - Tolerance
  BY <1>1, <1>0, <1>3, <1>4, DispatchFacts
<1>6. /\ volume' = [volume EXCEPT ![plant] = Append(@, x.volume)]
      /\ series' = [series EXCEPT ![plant] = Append(@, r)]
  BY <1>2 DEF Record
<1>7. /\ unit.duration \in Nat /\ unit.early \in Nat
      /\ \/ n = 0 /\ unit.duration = 1 /\ unit.early = 0
         \/ /\ n > 0 /\ on = series[plant][n].on
            /\ unit.duration = series[plant][n].duration + 1 /\ unit.early = 0
         \/ /\ n > 0 /\ on # series[plant][n].on
            /\ unit.duration = 1
            /\ unit.early = Most(0, MinDuration - series[plant][n].duration)
  <2>1. CASE n = 0
    <3>1. unit = [duration |-> 1, early |-> 0]
      BY <1>3, <2>1 DEF NextUnitState
    <3> QED BY <2>1, <3>1
  <2>2. CASE n > 0
    <3>1. series[plant] \in Seq(Entry) /\ n \in 1..Len(series[plant])
      BY <1>1, <1>3, <2>2 DEF SimulationInv
    <3>2. series[plant][n] \in Entry
      BY <3>1, ElementOfSeq
    <3>3. series[plant][n].duration \in Nat /\ MinDuration \in Nat
      BY <3>2, CascadeAssumption DEF Entry
    <3>4. Period - 1 = n /\ Period > 1
      BY <1>3, <2>2
    <3>5. unit = IF on = series[plant][n].on
                 THEN [duration |-> series[plant][n].duration + 1, early |-> 0]
                 ELSE [duration |-> 1, early |-> Most(0, MinDuration - series[plant][n].duration)]
      BY <3>4 DEF NextUnitState
    <3>6. Most(0, MinDuration - series[plant][n].duration) \in Nat
      BY <3>3 DEF Most
    <3> QED BY <2>2, <3>3, <3>5, <3>6
  <2> QED BY <1>3, <2>1, <2>2
<1>8. Config[plant].minPower \in Nat /\ Tolerance \in Nat
  BY <1>1, PlantFacts
<1> DEFINE deficit == IF mode = "power" THEN Most(0, request - x.power) ELSE 0
<1>9. /\ deficit \in Int
      /\ deficit > Tolerance => mode = "power" /\ request - x.power > Tolerance
  BY <1>4, <1>5, <1>8 DEF Most, Sluiced
<1>11. on \in BOOLEAN /\ status \in Limits \cup {"met", "off", "flow_dispatch"}
  BY <1>1, <1>5
<1> HIDE DEF x, status, n, on, unit, deficit
<1>10. /\ x.volume \in Int
       /\ x.volume = Storage(plant) + inflow + Arrival(plant) - x.defluent
       /\ x.defluent \in Nat
       /\ x.turbine <= Most(0, Storage(plant) + inflow + Arrival(plant))
  <2>1. /\ x.turbine \in Nat /\ x.spill \in Nat /\ x.defluent = x.turbine + x.spill
        /\ x.turbine <= Most(0, Storage(plant) + (inflow + Arrival(plant)))
        /\ x.volume = Storage(plant) + (inflow + Arrival(plant)) - x.defluent
    BY <1>5 DEF Sluiced
  <2>2. Storage(plant) + (inflow + Arrival(plant)) = Storage(plant) + inflow + Arrival(plant)
    BY <1>3
  <2> QED BY <1>3, <2>1, <2>2
<1>12. r \in Entry
  BY <1>3, <1>4, <1>5, <1>7, <1>9, <1>10, <1>11 DEF Entry, Sluiced, deficit
<1>13. Sound(plant, r)
  <2>1. /\ r.status = status /\ r.power = x.power /\ r.request = request
        /\ r.turbine = x.turbine /\ r.on = on /\ r.deficit = deficit
        /\ r.spill = x.spill /\ r.control = x.control
    BY DEF deficit
  <2>2. Delivered(plant, r)
    <3>1. on <=> x.turbine > 0
      BY DEF on
    <3>2. x.turbine \in Nat /\ x.power \in Nat /\ (x.turbine > 0 <=> x.turbine # 0)
      BY <1>5 DEF Sluiced
    <3>3. CASE mode = "flow"
      <4>1. status = "flow_dispatch" /\ ~(deficit > Tolerance)
        BY <1>5, <1>9, <3>3
      <4>2. on => /\ x.power <= Config[plant].maxPower + Tolerance
                  /\ x.control = 0 => Effective(plant, x.power)
        BY <1>5, <3>1, <3>3 DEF InRange
      <4> QED BY <2>1, <3>3, <4>1, <4>2 DEF Delivered
    <3>4. CASE mode = "power"
      <4>1. CASE status = "off" /\ Near(request, 0) /\ x.turbine = 0 /\ x.power = 0
        <5>1. ~(deficit > Tolerance)
          BY <1>4, <1>8, <1>9, <4>1 DEF Near
        <5> QED BY <2>1, <3>1, <3>4, <4>1, <5>1 DEF Delivered
      <4>2. CASE status = "met" /\ Near(x.power, request) /\ request >= Config[plant].minPower
        <5>1. ~(deficit > Tolerance)
          BY <1>4, <1>8, <1>9, <3>2, <4>2 DEF Near
        <5>2. x.power >= Config[plant].minPower - Tolerance
          BY <1>4, <1>8, <3>2, <4>2 DEF Near
        <5> QED BY <2>1, <3>4, <4>2, <5>1, <5>2 DEF Delivered
      <4>3. CASE /\ status \in Limits
                 /\ x.turbine = 0 \/ x.power >= Config[plant].minPower - Tolerance
        BY <2>1, <3>1, <3>2, <3>4, <4>3 DEF Delivered, Limits
      <4> QED BY <1>5, <3>4, <4>1, <4>2, <4>3
    <3> QED BY <1>1, <3>3, <3>4
  <2> QED BY <1>5, <2>1, <2>2 DEF Sound, Sluiced
<1>14. Follows(series[plant], r)
  BY <1>7 DEF Follows, n
<1>15. r.inflow = inflow /\ r.arrival = Arrival(plant) /\ r.defluent = x.defluent
       /\ r.turbine = x.turbine /\ r.spill = x.spill
  OBVIOUS
<1> HIDE DEF r
<1>16. /\ x.volume = Storage(plant) + r.inflow + r.arrival - r.defluent
       /\ r.defluent = r.turbine + r.spill
       /\ r.arrival = ArrivalAt(plant, n + 1)
  BY <1>3, <1>5, <1>10, <1>15 DEF Sluiced
<1>17. r.turbine <= Most(0, Storage(plant) + r.inflow + r.arrival)
  BY <1>10, <1>15
<1> QED BY <1>1, <1>3, <1>6, <1>10, <1>12, <1>13, <1>14, <1>16, <1>17 DEF n

(* What a longer series tells of the periods it had before is the same.    *)
LEMMA TimedStays ==
  ASSUME NEW s \in Seq(Entry), NEW r \in Entry, NEW i \in 1..Len(s), Timed(s, i)
  PROVE  Timed(Append(s, r), i)
<1> DEFINE t == Append(s, r)
           d == s[i].duration
<1>1. Len(s) \in Nat /\ \A j \in 1..Len(s) : t[j] = s[j]
  BY AppendProperties
<1>2. d \in 1..i /\ t[i] = s[i]
  BY <1>1 DEF Timed
<1>3. \A j \in (i - d + 1)..i : j \in 1..Len(s)
  BY <1>1, <1>2
<1>4. d < i => i - d \in 1..Len(s)
  BY <1>1, <1>2
<1> HIDE DEF t
<1>5. d < i => t[i - d] = s[i - d]
  BY <1>1, <1>4
<1>6. \A j \in (i - d + 1)..i : t[j] = s[j]
  BY <1>1, <1>3
<1>7. Timed(t, i)
  BY <1>2, <1>5, <1>6 DEF Timed
<1> QED BY <1>7 DEF t

(* A record that follows the one before tells of the switches as they are. *)
LEMMA TimedGrows ==
  ASSUME NEW s \in Seq(Entry), NEW r \in Entry, Follows(s, r),
         \A i \in 1..Len(s) : Timed(s, i)
  PROVE  Timed(Append(s, r), Len(s) + 1)
<1> DEFINE t == Append(s, r)
           n == Len(s)
<1>1. n \in Nat /\ (\A j \in 1..n : t[j] = s[j]) /\ t[n + 1] = r
  BY AppendProperties
<1> SUFFICES Timed(t, n + 1)
  OBVIOUS
<1>6. n > 0 => n \in 1..n /\ Timed(s, n)
  BY <1>1
<1>7. Follows(s, r)
  OBVIOUS
<1> HIDE DEF t, n
<1>2. CASE n = 0 /\ r.duration = 1 /\ r.early = 0
  BY <1>1, <1>2 DEF Timed
<1>3. CASE n > 0 /\ r.on = s[n].on /\ r.duration = s[n].duration + 1 /\ r.early = 0
  <2> DEFINE d == s[n].duration
  <2>1. n \in 1..n /\ Timed(s, n)
    BY <1>3, <1>6
  <2>2. /\ d \in 1..n /\ \A j \in (n - d + 1)..n : s[j].on = s[n].on
        /\ d < n => s[n - d].on # s[n].on
    BY <2>1 DEF Timed
  <2> HIDE DEF d
  <2>0. r.duration = d + 1
    BY <1>3 DEF d
  <2>3. r.duration = d + 1 /\ r.duration \in 1..(n + 1) /\ r.duration > 1
        /\ (n + 1) - r.duration + 1 = n - d + 1 /\ (n + 1) - r.duration = n - d
    BY <1>1, <2>0, <2>2
  <2>4. \A j \in (n - d + 1)..(n + 1) : t[j].on = r.on
    <3>1. ASSUME NEW j \in (n - d + 1)..n PROVE t[j].on = r.on
      <4>1. j \in 1..n
        BY <1>1, <2>2
      <4> QED BY <1>1, <1>3, <2>2, <4>1
    <3>2. \A j \in (n - d + 1)..(n + 1) : j \in (n - d + 1)..n \/ j = n + 1
      BY <1>1, <2>2
    <3> QED BY <1>1, <3>1, <3>2
  <2>5. d < n => t[n - d].on # r.on
    <3>1. d < n => n - d \in 1..n
      BY <1>1, <2>2
    <3> QED BY <1>1, <1>3, <2>2, <3>1
  <2>6. r.duration < n + 1 => d < n
    BY <1>1, <2>2, <2>3
  <2> QED BY <1>1, <1>3, <2>3, <2>4, <2>5, <2>6 DEF Timed
<1>4. CASE /\ n > 0 /\ r.on # s[n].on
           /\ r.duration = 1 /\ r.early = Most(0, MinDuration - s[n].duration)
  <2>1. /\ (n + 1) - r.duration = n /\ t[n] = s[n] /\ r.duration \in 1..(n + 1)
        /\ (n + 1) - r.duration + 1 = n + 1 /\ n + 1 # 1
    BY <1>1, <1>4
  <2>2. \A j \in (n + 1)..(n + 1) : t[j].on = r.on
    BY <1>1
  <2> QED BY <1>1, <1>4, <2>1, <2>2 DEF Timed
<1> QED BY <1>2, <1>3, <1>4, <1>7 DEF Follows, n

(* A step of the simulation keeps the invariant.                           *)
LEMMA SimulateKeeps ==
  ASSUME CurvesAreNumbers, TailwaterRises, CascadeInv, Simulate
  PROVE  CascadeInv'
<1> DEFINE p == plant
           n == Len(series[plant])
<1>1. /\ SimulationInv /\ StartsFull /\ EveryPeriodBalances /\ HonestInv
      /\ plant \in Plants /\ plant \in {0, 1}
  BY DEF CascadeInv, SimulationInv, Plants
<1>2. mode' = mode /\ mode \in {"flow", "power"} /\ plant' = 1 - plant /\ n < Periods
  BY <1>1, Recorded
<1>3. PICK r \in Entry, w \in Int :
        /\ volume' = [volume EXCEPT ![plant] = Append(@, w)]
        /\ series' = [series EXCEPT ![plant] = Append(@, r)]
        /\ w = Storage(plant) + r.inflow + r.arrival - r.defluent
        /\ r.defluent = r.turbine + r.spill
        /\ r.turbine <= Most(0, Storage(plant) + r.inflow + r.arrival)
        /\ r.arrival = ArrivalAt(plant, Len(series[plant]) + 1)
        /\ Sound(plant, r) /\ Follows(series[plant], r)
  BY <1>1, Recorded
<1>4. /\ volume \in [Plants -> Seq(Int)] /\ series \in [Plants -> Seq(Entry)]
      /\ \A q \in Plants : /\ Len(volume[q]) = Len(series[q]) + 1
                           /\ Len(series[q]) <= Periods /\ Len(series[q]) \in Nat
      /\ Len(series[0]) = Len(series[1]) + plant
  <2>1. /\ volume \in [Plants -> Seq(Int)] /\ series \in [Plants -> Seq(Entry)]
        /\ \A q \in Plants : Len(volume[q]) = Len(series[q]) + 1 /\ Len(series[q]) <= Periods
        /\ Len(series[0]) = Len(series[1]) + plant
    BY <1>1 DEF SimulationInv
  <2>2. ASSUME NEW q \in Plants PROVE Len(series[q]) \in Nat
    <3>1. series[q] \in Seq(Entry)
      BY <2>1
    <3> QED BY <3>1, LenProperties
  <2> QED BY <2>1, <2>2
<1>5. /\ series' \in [Plants -> Seq(Entry)] /\ volume' \in [Plants -> Seq(Int)]
      /\ series'[plant] = Append(series[plant], r) /\ volume'[plant] = Append(volume[plant], w)
      /\ \A q \in Plants : q # plant => series'[q] = series[q] /\ volume'[q] = volume[q]
  <2>1. series[plant] \in Seq(Entry) /\ volume[plant] \in Seq(Int)
    BY <1>1, <1>4
  <2>2. Append(series[plant], r) \in Seq(Entry) /\ Append(volume[plant], w) \in Seq(Int)
    BY <2>1, AppendProperties
  <2> QED BY <1>1, <1>3, <1>4, <2>2
<1>6. /\ Len(series'[plant]) = n + 1 /\ series'[plant][n + 1] = r
      /\ \A i \in 1..n : series'[plant][i] = series[plant][i]
      /\ Len(volume'[plant]) = n + 2 /\ volume'[plant][n + 2] = w
      /\ \A i \in 1..(n + 1) : volume'[plant][i] = volume[plant][i]
      /\ n \in Nat
  <2>1. /\ series[plant] \in Seq(Entry) /\ volume[plant] \in Seq(Int)
        /\ n \in Nat /\ Len(volume[plant]) = n + 1 /\ (n + 1) + 1 = n + 2
    BY <1>1, <1>4
  <2>2. /\ Len(series'[plant]) = n + 1 /\ series'[plant][n + 1] = r
        /\ \A i \in 1..n : series'[plant][i] = series[plant][i]
    BY <1>5, <2>1, AppendProperties
  <2>3. /\ Len(volume'[plant]) = (n + 1) + 1 /\ volume'[plant][(n + 1) + 1] = w
        /\ \A i \in 1..(n + 1) : volume'[plant][i] = volume[plant][i]
    BY <1>5, <2>1, AppendProperties
  <2> QED BY <2>1, <2>2, <2>3
<1>7. /\ \A q \in Plants : \A i \in 1..Len(series'[q]) :
           \/ i \in 1..Len(series[q]) /\ series'[q][i] = series[q][i]
           \/ q = plant /\ i = n + 1 /\ series'[q][i] = r
      /\ \A q \in Plants : \A i \in 1..Len(series[q]) : series'[q][i] = series[q][i]
      /\ \A q \in Plants : \A i \in 1..Len(volume'[q]) :
           \/ i \in 1..Len(volume[q]) /\ volume'[q][i] = volume[q][i]
           \/ q = plant /\ i = n + 2 /\ volume'[q][i] = w
      /\ \A q \in Plants : \A i \in 1..(Len(series[q]) + 1) : volume'[q][i] = volume[q][i]
  <2>1. \A i \in 1..(n + 1) : i \in 1..n \/ i = n + 1
    BY <1>6
  <2>2. \A i \in 1..(n + 2) : i \in 1..(n + 1) \/ i = n + 2
    BY <1>6
  <2>3. \A q \in Plants : q = plant => Len(series[q]) = n /\ Len(volume[q]) = n + 1
    BY <1>4
  <2> HIDE DEF n
  <2> QED BY <1>4, <1>5, <1>6, <2>1, <2>2, <2>3
<1> HIDE DEF n
<1>8. SimulationInv'
  <2>1. mode' \in {"none", "flow", "power"} /\ plant' \in Plants
    BY <1>1, <1>2 DEF Plants
  <2>2. ASSUME NEW q \in Plants
        PROVE  Len(volume'[q]) = Len(series'[q]) + 1 /\ Len(series'[q]) <= Periods
    <3>1. CASE q = plant
      <4>1. n < Periods /\ Periods \in Nat
        BY <1>2, CascadeAssumption DEF n
      <4> QED BY <1>6, <3>1, <4>1
    <3>2. CASE q # plant
      BY <1>4, <1>5, <3>2
    <3> QED BY <3>1, <3>2
  <2>3. Len(series'[0]) = Len(series'[1]) + plant'
    <3>1. CASE plant = 0
      BY <1>2, <1>4, <1>5, <1>6, <3>1 DEF n, Plants
    <3>2. CASE plant = 1
      BY <1>2, <1>4, <1>5, <1>6, <3>2 DEF n, Plants
    <3> QED BY <1>1, <3>1, <3>2
  <2> QED BY <1>5, <2>1, <2>2, <2>3 DEF SimulationInv
<1>10. EveryPeriodBalances'
  <2>1. ASSUME NEW q \in Plants, NEW i \in 1..(Len(series[q]) + 1), q = 1 => i <= Len(series[0])
        PROVE  ArrivalAt(q, i)' = ArrivalAt(q, i)
    <3>1. CASE q = 1 /\ i > Travel
      <4>1. Travel \in Nat \ {0} /\ 0 \in Plants
        BY CascadeAssumption DEF Plants
      <4>2. i - Travel \in 1..Len(series[0])
        BY <1>4, <2>1, <3>1, <4>1
      <4> QED BY <1>7, <4>1, <4>2 DEF ArrivalAt
    <3>2. CASE ~(q = 1 /\ i > Travel)
      BY <3>2 DEF ArrivalAt
    <3> QED BY <3>1, <3>2
  <2>2. ASSUME NEW q \in Plants, NEW i \in 1..Len(series'[q]) PROVE Balanced(q, i)'
    <3>1. CASE i \in 1..Len(series[q]) /\ series'[q][i] = series[q][i]
      <4>1. Balanced(q, i)
        BY <1>1, <3>1 DEF EveryPeriodBalances
      <4>2. i \in 1..(Len(series[q]) + 1) /\ i + 1 \in 1..(Len(series[q]) + 1)
        BY <1>4, <3>1
      <4>3. q = 1 => i <= Len(series[0])
        BY <1>1, <1>4, <3>1
      <4>4. volume'[q][i] = volume[q][i] /\ volume'[q][i + 1] = volume[q][i + 1]
        BY <1>7, <4>2
      <4> QED BY <2>1, <3>1, <4>1, <4>2, <4>3, <4>4 DEF Balanced
    <3>2. CASE q = plant /\ i = n + 1 /\ series'[q][i] = r
      <4>1. i \in 1..(Len(series[q]) + 1) /\ (q = 1 => i <= Len(series[0]))
        BY <1>1, <1>4, <1>6, <3>2 DEF n
      <4>2. ArrivalAt(q, i)' = ArrivalAt(q, i) /\ r.arrival = ArrivalAt(q, i)
        BY <1>3, <2>1, <3>2, <4>1 DEF n
      <4>3. Storage(plant) = volume[plant][n + 1]
        BY <1>1, <1>4 DEF Storage, n
      <4>4. volume'[q][i + 1] = w /\ volume'[q][i] = Storage(plant)
        <5>1. i + 1 = n + 2 /\ i \in 1..(n + 1)
          BY <1>6, <3>2
        <5> QED BY <1>6, <3>2, <4>3, <5>1
      <4> QED BY <1>3, <3>2, <4>2, <4>4 DEF Balanced
    <3> QED BY <1>7, <3>1, <3>2
  <2> QED BY <2>2 DEF EveryPeriodBalances
<1>11. HonestInv'
  <2>1. ASSUME NEW q \in Plants, NEW e PROVE Sound(q, e)' <=> Sound(q, e)
    BY <1>2 DEF Sound, Delivered
  <2>2. ASSUME NEW q \in Plants, NEW i \in 1..Len(series'[q])
        PROVE  Sound(q, series'[q][i]) /\ Timed(series'[q], i)
    <3>1. CASE i \in 1..Len(series[q]) /\ series'[q][i] = series[q][i]
      <4>1. Sound(q, series[q][i]) /\ Timed(series[q], i)
        BY <1>1, <3>1 DEF HonestInv
      <4>2. Timed(series'[q], i)
        <5>1. CASE q = plant
          BY <1>4, <1>5, <3>1, <4>1, <5>1, TimedStays
        <5>2. CASE q # plant
          BY <1>5, <4>1, <5>2
        <5> QED BY <5>1, <5>2
      <4> QED BY <3>1, <4>1, <4>2
    <3>2. CASE q = plant /\ i = n + 1 /\ series'[q][i] = r
      <4>1. \A j \in 1..Len(series[plant]) : Timed(series[plant], j)
        BY <1>1 DEF HonestInv
      <4>2. Timed(Append(series[plant], r), n + 1)
        BY <1>1, <1>3, <1>4, <4>1, TimedGrows DEF n
      <4> QED BY <1>3, <1>5, <3>2, <4>2
    <3> QED BY <1>7, <3>1, <3>2
  <2> QED BY <2>1, <2>2 DEF HonestInv, Timed
<1>12. StartsFull'
  <2>1. \A q \in Plants : 1 \in 1..(Len(series[q]) + 1)
    BY <1>4
  <2> QED BY <1>1, <1>7, <2>1 DEF StartsFull
<1> QED BY <1>8, <1>10, <1>11, <1>12 DEF CascadeInv

(* Fresh reservoirs hold what they hold at first, and nothing is recorded.  *)
AtFirst ==
  /\ mode \in {"none", "flow", "power"} /\ plant = 0
  /\ volume = [q \in Plants |-> <<Config[q].initial>>] /\ series = [q \in Plants |-> <<>>]

\* A cascade before its first period satisfies the invariant.
LEMMA FreshCascade == AtFirst => CascadeInv
<1> SUFFICES ASSUME AtFirst PROVE CascadeInv
  OBVIOUS
<1>1. 0 \in Plants /\ 1 \in Plants /\ Periods \in Nat
  BY CascadeAssumption DEF Plants
<1>2. ASSUME NEW q \in Plants
      PROVE  /\ volume[q] = <<Config[q].initial>> /\ series[q] = <<>>
             /\ Config[q].initial \in Nat
  BY PlantFacts DEF AtFirst
<1>3. ASSUME NEW q \in Plants
      PROVE  /\ volume[q] \in Seq(Int) /\ Len(volume[q]) = 1 /\ volume[q][1] = Config[q].initial
             /\ series[q] \in Seq(Entry) /\ Len(series[q]) = 0
  <2>1. ASSUME NEW c \in Nat PROVE <<c>> \in Seq(Int) /\ Len(<<c>>) = 1 /\ <<c>>[1] = c
    OBVIOUS
  <2>2. <<>> \in Seq(Entry) /\ Len(<<>>) = 0
    BY EmptySeq
  <2> QED BY <1>2, <2>1, <2>2
<1>4. SimulationInv
  BY <1>1, <1>3 DEF SimulationInv, AtFirst
<1>6. StartsFull /\ EveryPeriodBalances /\ HonestInv
  BY <1>3 DEF StartsFull, EveryPeriodBalances, HonestInv
<1> QED BY <1>4, <1>6 DEF CascadeInv

\* So does one made fresh by a step.
LEMMA FreshNext == (AtFirst => CascadeInv)'
BY FreshCascade, PTL

(* The steps of the worker that are not of the simulation leave the cascade *)
(* as it is or make it fresh.                                              *)
LEMMA WorkerStep ==
  ASSUME CurvesAreNumbers, TailwaterRises, CascadeInv, [WorkerNext]_workerVars
  PROVE  CascadeInv'
<1>1. CASE Step
  BY <1>1, SimulateKeeps DEF Step
<1>2. ASSUME NEW m \in {"flow", "power"}, Fresh(m) PROVE CascadeInv'
  <2>1. AtFirst'
    BY <1>2 DEF Fresh, AtFirst
  <2> QED BY <2>1, FreshNext
<1>3. CASE UNCHANGED cascadeVars
  <2>1. mode' = mode /\ plant' = plant /\ volume' = volume /\ series' = series
    BY <1>3 DEF cascadeVars
  <2>2. SimulationInv' /\ StartsFull'
    BY <2>1 DEF CascadeInv, SimulationInv, StartsFull
  <2>3. ASSUME NEW p, NEW i PROVE Balanced(p, i)' <=> Balanced(p, i)
    BY <2>1 DEF Balanced, ArrivalAt
  <2>4. EveryPeriodBalances'
    BY <2>1, <2>3 DEF CascadeInv, EveryPeriodBalances
  <2>5. ASSUME NEW p, NEW e PROVE Sound(p, e)' <=> Sound(p, e)
    BY <2>1 DEF Sound, Delivered
  <2>6. HonestInv'
    BY <2>1, <2>5 DEF CascadeInv, HonestInv, Timed
  <2> QED BY <2>2, <2>4, <2>6 DEF CascadeInv
<1>4. Step \/ Fresh("power") \/ Fresh("flow") \/ UNCHANGED cascadeVars
  BY DEF WorkerNext, workerVars, SkipBlank, RefuseJson, RefuseDeep, RefuseRequest, DieParsing,
         StartBatch, FailCase, Overflow, FinishCase, Close, EvaluateObjective, ReturnObjective
<1> QED BY <1>1, <1>2, <1>3, <1>4

(* What the invariant says of the records.                                 *)
LEMMA InvariantIsHonest == CascadeInv => RecordsHonest
<1> SUFFICES ASSUME CascadeInv PROVE RecordsHonest
  OBVIOUS
<1>1. SimulationInv /\ HonestInv
  BY DEF CascadeInv
<1>2. CascadeTypeOK
  <2>1. ASSUME NEW p \in Plants, NEW i \in 1..Len(series[p])
        PROVE  /\ series[p][i].turbine \in 0..Config[p].maxFlow
               /\ series[p][i].turbine
                    <= Most(0, volume[p][i] + series[p][i].inflow + series[p][i].arrival)
               /\ series[p][i].spill >= series[p][i].control /\ series[p][i].control >= 0
    <3>1. series[p] \in Seq(Entry)
      BY <1>1 DEF SimulationInv
    <3>2. series[p][i] \in Entry
      BY <3>1, ElementOfSeq
    <3>3. Sound(p, series[p][i]) /\ Balanced(p, i)
      BY <1>1 DEF HonestInv, CascadeInv, EveryPeriodBalances
    <3>4. Config[p].maxFlow \in Nat
      BY PlantFacts
    <3> QED BY <3>2, <3>3, <3>4 DEF Entry, Sound, Balanced
  <2> QED BY <1>1, <2>1 DEF CascadeTypeOK, SimulationInv
<1> QED BY <1>1, <1>2 DEF RecordsHonest, HonestInv, Sound

(* Whatever is asked of the cascade, by flow or by power, and whatever the  *)
(* searches find: what is reported of a period is so, and no turbine        *)
(* exceeds its capacity or the water there is (simulator.py:90-252,         *)
(* transition.py:51-182, dispatch.py:27-88).  The curves may be any, as     *)
(* long as they are numbers, no control spill is negative and the tailwater *)
(* rises.                                                                   *)
THEOREM RecordsAlwaysHonest ==
  ASSUME CurvesAreNumbers, TailwaterRises
  PROVE  WorkerSpec => []RecordsHonest
<1>1. WorkerInit => CascadeInv
  BY FreshCascade DEF WorkerInit, CascadeInit, AtFirst
<1>2. CascadeInv /\ [WorkerNext]_workerVars => CascadeInv'
  BY WorkerStep
<1> QED BY <1>1, <1>2, InvariantIsHonest, PTL DEF WorkerSpec

(* In every period, of either plant, the storage changes by what flows in   *)
(* and arrives less what is released, the release is what the turbine took  *)
(* and what was spilled, the turbine took no more than there was, and what  *)
(* arrives at plant 1 is what plant 0 released the travel time before       *)
(* (simulator.py:98-116, transition.py:93-114).                             *)
THEOREM PeriodsAlwaysBalance ==
  ASSUME CurvesAreNumbers, TailwaterRises
  PROVE  WorkerSpec => []EveryPeriodBalances
<1>1. WorkerInit => CascadeInv
  BY FreshCascade DEF WorkerInit, CascadeInit, AtFirst
<1>2. CascadeInv /\ [WorkerNext]_workerVars => CascadeInv'
  BY WorkerStep
<1>3. CascadeInv => EveryPeriodBalances
  BY DEF CascadeInv
<1> QED BY <1>1, <1>2, <1>3, PTL DEF WorkerSpec

-----------------------------------------------------------------------------
(* Conservation.  Each period balances, so by a least counterexample the   *)
(* totals over the periods do.                                             *)

(* A set of natural numbers has a least one.                               *)
LEMMA LeastNatural ==
  ASSUME NEW S, S \subseteq Nat, S # {}
  PROVE  \E x \in S : \A y \in S : x <= y
<1>1. PICK x \in S : \A y \in S : ~(<<y, x>> \in OpToRel(<, Nat))
  BY NatLessThanWellFounded, WFMin
<1>2. ASSUME NEW y \in Nat, NEW z \in Nat, y < z PROVE <<y, z>> \in OpToRel(<, Nat)
  <2>1. <<y, z>> \in Nat \X Nat /\ <<y, z>>[1] < <<y, z>>[2]
    BY <1>2
  <2> QED BY <2>1, Zenon DEF OpToRel
<1>3. ASSUME NEW y \in S, y < x PROVE FALSE
  <2>1. <<y, x>> \in OpToRel(<, Nat)
    BY <1>2, <1>3, x \in S, Zenon
  <2> QED BY <1>1, <2>1, Zenon
<1> QED BY <1>3

\* total[n] is the total of the first n numbers of s, for n up to m.
TotalsUpTo(s, m, total) ==
  total = [n \in 0..m |-> IF n = 0 THEN 0 ELSE total[n - 1] + s[n]]

(* The recursive function of Totals exists: it is extended from one number *)
(* to the next.                                                            *)
LEMMA TotalsExist ==
  ASSUME NEW s
  PROVE  \A m \in Nat : \E total : TotalsUpTo(s, m, total)
<1> DEFINE Bad == {m \in Nat : ~ \E total : TotalsUpTo(s, m, total)}
<1> SUFFICES ASSUME Bad # {} PROVE FALSE
  OBVIOUS
<1>1. PICK m \in Bad : \A k \in Bad : m <= k
  <2>1. Bad \subseteq Nat
    OBVIOUS
  <2> HIDE DEF Bad
  <2> QED BY <2>1, LeastNatural
<1>2. m # 0
  <2> DEFINE f == [n \in 0..0 |-> 0]
  <2>1. TotalsUpTo(s, 0, f)
    BY DEF TotalsUpTo
  <2> QED BY <1>1, <2>1
<1>3. m \in Nat /\ m - 1 \in Nat
  BY <1>1, <1>2
<1>4. PICK f : TotalsUpTo(s, m - 1, f)
  BY <1>1, <1>3
<1> DEFINE g == [n \in 0..m |-> IF n < m THEN f[n] ELSE f[m - 1] + s[m]]
<1>5. ASSUME NEW n \in 0..m PROVE g[n] = IF n = 0 THEN 0 ELSE g[n - 1] + s[n]
  <2>1. CASE n = m
    <3>1. n - 1 \in 0..m /\ n - 1 < m /\ ~(n < m)
      BY <1>2, <1>3, <2>1
    <3>2. g[n - 1] = f[n - 1] /\ g[n] = f[m - 1] + s[m]
      BY <3>1
    <3> QED BY <1>2, <2>1, <3>2
  <2>2. CASE n < m /\ n # 0
    <3>1. n \in 0..(m - 1) /\ n - 1 \in 0..m /\ n - 1 < m
      BY <1>3, <2>2
    <3>2. g[n] = f[n] /\ g[n - 1] = f[n - 1]
      BY <2>2, <3>1
    <3>3. f[n] = f[n - 1] + s[n]
      BY <1>4, <2>2, <3>1 DEF TotalsUpTo
    <3> QED BY <2>2, <3>2, <3>3
  <2>3. CASE n = 0 /\ n < m
    <3>1. 0 \in 0..(m - 1)
      BY <1>3, <2>3
    <3>2. f[0] = 0
      BY <1>4, <3>1 DEF TotalsUpTo
    <3> QED BY <2>3, <3>2
  <2> QED BY <1>3, <2>1, <2>2, <2>3
<1>6. TotalsUpTo(s, m, g)
  <2> DEFINE h == [n \in 0..m |-> IF n = 0 THEN 0 ELSE g[n - 1] + s[n]]
  <2>1. \A n \in 0..m : g[n] = h[n]
    BY <1>5
  <2> HIDE DEF g
  <2>2. g = [n \in 0..m |-> g[n]]
    BY DEF g
  <2>3. g = h
    BY <2>1, <2>2
  <2> QED BY <2>3 DEF TotalsUpTo
<1> QED BY <1>1, <1>6

(* The totals of a sequence of integers begin with zero and grow by its    *)
(* numbers, one by one.                                                    *)
LEMMA TotalsFacts ==
  ASSUME NEW s, Len(s) \in Nat, \A i \in 1..Len(s) : s[i] \in Int
  PROVE  /\ Totals(s)[0] = 0
         /\ \A n \in 1..Len(s) : Totals(s)[n] = Totals(s)[n - 1] + s[n]
         /\ \A n \in 0..Len(s) : Totals(s)[n] \in Int
<1> DEFINE t == CHOOSE total : TotalsUpTo(s, Len(s), total)
<1>1. TotalsUpTo(s, Len(s), t)
  BY TotalsExist
<1>2. Totals(s) = t
  BY DEF Totals, TotalsUpTo
<1> HIDE DEF t
<1>3. \A n \in 0..Len(s) : t[n] = IF n = 0 THEN 0 ELSE t[n - 1] + s[n]
  <2> DEFINE h == [n \in 0..Len(s) |-> IF n = 0 THEN 0 ELSE t[n - 1] + s[n]]
  <2>1. t = h
    BY <1>1 DEF TotalsUpTo
  <2>2. \A n \in 0..Len(s) : h[n] = IF n = 0 THEN 0 ELSE t[n - 1] + s[n]
    OBVIOUS
  <2> QED BY <2>1, <2>2
<1>4. 0 \in 0..Len(s)
  OBVIOUS
<1>5. t[0] = 0
  BY <1>3, <1>4
<1>6. ASSUME NEW n \in 1..Len(s) PROVE t[n] = t[n - 1] + s[n]
  <2>1. n \in 0..Len(s) /\ n # 0
    BY <1>6
  <2> QED BY <1>3, <2>1
<1>7. \A n \in 0..Len(s) : t[n] \in Int
  <2> DEFINE Bad == {n \in 0..Len(s) : t[n] \notin Int}
  <2> SUFFICES ASSUME Bad # {} PROVE FALSE
    OBVIOUS
  <2>1. PICK n \in Bad : \A k \in Bad : n <= k
    <3>1. Bad \subseteq Nat
      OBVIOUS
    <3> HIDE DEF Bad
    <3> QED BY <3>1, LeastNatural
  <2>2. n \in 0..Len(s) /\ t[n] \notin Int
    BY <2>1
  <2>3. n # 0
    BY <1>5, <2>2
  <2>4. n \in 1..Len(s) /\ n - 1 \in 0..Len(s) /\ n - 1 < n
    BY <2>2, <2>3
  <2>5. t[n - 1] \in Int
    BY <2>1, <2>4
  <2>6. t[n] \in Int
    BY <1>6, <2>4, <2>5
  <2> QED BY <2>2, <2>6
<1> QED BY <1>2, <1>5, <1>6, <1>7

\* What has arrived at a plant.
Arrived(p) == Totals([i \in 1..Len(series[p]) |-> series[p][i].arrival])

(* The totals of a plant begin with zero and grow by its records.          *)
LEMMA PlantTotals ==
  ASSUME CascadeInv, NEW p \in Plants
  PROVE  /\ Len(series[p]) \in Nat
         /\ Received(p)[0] = 0 /\ Arrived(p)[0] = 0 /\ Released(p)[0] = 0
         /\ \A n \in 1..Len(series[p]) :
              /\ Received(p)[n] = Received(p)[n - 1] + series[p][n].inflow
              /\ Arrived(p)[n] = Arrived(p)[n - 1] + series[p][n].arrival
              /\ Released(p)[n] = Released(p)[n - 1] + series[p][n].defluent
              /\ series[p][n].inflow \in Nat /\ series[p][n].arrival \in Nat
              /\ series[p][n].defluent \in Nat
         /\ \A n \in 0..Len(series[p]) :
              Received(p)[n] \in Int /\ Arrived(p)[n] \in Int /\ Released(p)[n] \in Int
<1> DEFINE m == Len(series[p])
           inflows == [i \in 1..m |-> series[p][i].inflow]
           arrivals == [i \in 1..m |-> series[p][i].arrival]
           defluents == [i \in 1..m |-> series[p][i].defluent]
<1>1. series[p] \in Seq(Entry) /\ m \in Nat
  BY DEF CascadeInv, SimulationInv
<1>2. ASSUME NEW i \in 1..m
      PROVE  series[p][i].inflow \in Nat /\ series[p][i].arrival \in Nat
             /\ series[p][i].defluent \in Nat
  <2>1. series[p][i] \in Entry
    BY <1>1, ElementOfSeq
  <2> QED BY <2>1 DEF Entry
<1> HIDE DEF m
<1>3. Len(inflows) = m /\ Len(arrivals) = m /\ Len(defluents) = m
  BY <1>1
<1>4. /\ Received(p) = Totals(inflows) /\ Arrived(p) = Totals(arrivals)
      /\ Released(p) = Totals(defluents)
  BY DEF Received, Arrived, Released, m
<1>5. \A i \in 1..m : /\ inflows[i] = series[p][i].inflow
                      /\ arrivals[i] = series[p][i].arrival
                      /\ defluents[i] = series[p][i].defluent
                      /\ inflows[i] \in Int /\ arrivals[i] \in Int /\ defluents[i] \in Int
  BY <1>2
<1> HIDE DEF inflows, arrivals, defluents
<1>6. /\ Totals(inflows)[0] = 0
      /\ \A n \in 1..m : Totals(inflows)[n] = Totals(inflows)[n - 1] + inflows[n]
      /\ \A n \in 0..m : Totals(inflows)[n] \in Int
  BY <1>1, <1>3, <1>5, TotalsFacts
<1>7. /\ Totals(arrivals)[0] = 0
      /\ \A n \in 1..m : Totals(arrivals)[n] = Totals(arrivals)[n - 1] + arrivals[n]
      /\ \A n \in 0..m : Totals(arrivals)[n] \in Int
  BY <1>1, <1>3, <1>5, TotalsFacts
<1>8. /\ Totals(defluents)[0] = 0
      /\ \A n \in 1..m : Totals(defluents)[n] = Totals(defluents)[n - 1] + defluents[n]
      /\ \A n \in 0..m : Totals(defluents)[n] \in Int
  BY <1>1, <1>3, <1>5, TotalsFacts
<1> QED BY <1>1, <1>2, <1>4, <1>5, <1>6, <1>7, <1>8 DEF m

(* A plant holds what it held at first and what has come in, less what it  *)
(* has released.                                                           *)
LEMMA PlantConserves ==
  ASSUME CascadeInv, NEW p \in Plants, NEW n \in 0..Len(series[p])
  PROVE  volume[p][n + 1] = Config[p].initial + Received(p)[n] + Arrived(p)[n] - Released(p)[n]
<1> DEFINE Conserved(k) ==
             volume[p][k + 1] = Config[p].initial + Received(p)[k] + Arrived(p)[k] - Released(p)[k]
           Bad == {k \in 0..Len(series[p]) : ~Conserved(k)}
<1> SUFFICES ASSUME Bad # {} PROVE FALSE
  OBVIOUS
<1>1. PICK k \in Bad : \A j \in Bad : k <= j
  <2>1. Bad \subseteq Nat
    OBVIOUS
  <2> HIDE DEF Bad
  <2> QED BY <2>1, LeastNatural
<1>2. k \in 0..Len(series[p]) /\ ~Conserved(k) /\ \A j \in 0..Len(series[p]) : j < k => Conserved(j)
  BY <1>1
<1>3. Config[p].initial \in Nat /\ Len(series[p]) \in Nat
  BY PlantFacts, PlantTotals
<1>4. k # 0
  <2>1. volume[p][0 + 1] = Config[p].initial
    BY DEF CascadeInv, StartsFull
  <2>2. Received(p)[0] = 0 /\ Arrived(p)[0] = 0 /\ Released(p)[0] = 0
    BY PlantTotals
  <2>3. Conserved(0)
    BY <1>3, <2>1, <2>2
  <2> QED BY <1>2, <2>3
<1>5. k \in 1..Len(series[p]) /\ k - 1 \in 0..Len(series[p]) /\ k - 1 < k /\ (k - 1) + 1 = k
  BY <1>2, <1>3, <1>4
<1>6. volume[p][k] = Config[p].initial + Received(p)[k - 1] + Arrived(p)[k - 1] - Released(p)[k - 1]
  <2>1. Conserved(k - 1)
    BY <1>2, <1>5
  <2> QED BY <1>5, <2>1
<1>7. volume[p][k + 1] = volume[p][k] + series[p][k].inflow + series[p][k].arrival
                           - series[p][k].defluent
  BY <1>5 DEF CascadeInv, EveryPeriodBalances, Balanced
<1>8. /\ Received(p)[k] = Received(p)[k - 1] + series[p][k].inflow
      /\ Arrived(p)[k] = Arrived(p)[k - 1] + series[p][k].arrival
      /\ Released(p)[k] = Released(p)[k - 1] + series[p][k].defluent
      /\ series[p][k].inflow \in Nat /\ series[p][k].arrival \in Nat
      /\ series[p][k].defluent \in Nat
  BY <1>5, PlantTotals
<1>9. Received(p)[k - 1] \in Int /\ Arrived(p)[k - 1] \in Int /\ Released(p)[k - 1] \in Int
  BY <1>5, PlantTotals
<1> HIDE DEF Bad
<1>10. Conserved(k)
  <2> DEFINE c == Config[p].initial
             x == Received(p)[k - 1]
             y == Arrived(p)[k - 1]
             z == Released(p)[k - 1]
             i == series[p][k].inflow
             j == series[p][k].arrival
             d == series[p][k].defluent
  <2>1. c \in Nat /\ i \in Nat /\ j \in Nat /\ d \in Nat
    BY <1>3, <1>8, Zenon
  <2>2. x \in Int /\ y \in Int /\ z \in Int
    BY <1>9, Zenon
  <2>3. volume[p][k + 1] = (c + x + y - z) + i + j - d
    BY <1>6, <1>7, Zenon
  <2>4. Received(p)[k] = x + i /\ Arrived(p)[k] = y + j /\ Released(p)[k] = z + d
    BY <1>8, Zenon
  <2> HIDE DEF c, x, y, z, i, j, d
  <2>5. (c + x + y - z) + i + j - d = c + (x + i) + (y + j) - (z + d)
    BY <2>1, <2>2
  <2> QED BY <2>3, <2>4, <2>5, Zenon DEF c
<1> HIDE DEF Conserved
<1> QED BY <1>2, <1>10

(* Nothing arrives at plant 0, and at plant 1 what plant 0 had released the *)
(* travel time before.                                                     *)
LEMMA ReleasesArrive ==
  ASSUME CascadeInv
  PROVE  /\ \A n \in 0..Len(series[0]) : Arrived(0)[n] = 0
         /\ \A n \in 0..Len(series[1]) : Arrived(1)[n] = Released(0)[Most(0, n - Travel)]
<1>1. /\ 0 \in Plants /\ 1 \in Plants /\ Travel \in Nat \ {0}
      /\ Len(series[0]) \in Nat /\ Len(series[1]) \in Nat /\ Len(series[1]) <= Len(series[0])
  <2>1. 0 \in Plants /\ 1 \in Plants /\ Travel \in Nat \ {0} /\ plant \in {0, 1}
    BY CascadeAssumption DEF CascadeInv, SimulationInv, Plants
  <2>2. Len(series[0]) \in Nat /\ Len(series[1]) \in Nat
    BY <2>1, PlantTotals
  <2> QED BY <2>1, <2>2 DEF CascadeInv, SimulationInv
<1> DEFINE Due(p, n) == IF p = 0 THEN 0 ELSE Released(0)[Most(0, n - Travel)]
<1>2. ASSUME NEW p \in Plants, NEW n \in 1..Len(series[p]), Arrived(p)[n - 1] = Due(p, n - 1)
      PROVE  Arrived(p)[n] = Due(p, n)
  <2>1. /\ Arrived(p)[n] = Arrived(p)[n - 1] + series[p][n].arrival
        /\ series[p][n].arrival = ArrivalAt(p, n)
    BY PlantTotals DEF CascadeInv, EveryPeriodBalances, Balanced
  <2>2. CASE p = 0
    BY <1>2, <2>1, <2>2 DEF ArrivalAt
  <2>3. CASE p = 1 /\ n > Travel
    <3>1. /\ n \in Nat /\ n - Travel \in 1..Len(series[0])
          /\ Most(0, n - Travel) = n - Travel
          /\ Most(0, (n - 1) - Travel) = (n - Travel) - 1
      BY <1>1, <2>3 DEF Most
    <3>2. Released(0)[n - Travel] = Released(0)[(n - Travel) - 1] + series[0][n - Travel].defluent
      BY <1>1, <3>1, PlantTotals
    <3> QED BY <1>2, <2>1, <2>3, <3>1, <3>2 DEF ArrivalAt
  <2>4. CASE p = 1 /\ ~(n > Travel)
    <3>1. Most(0, n - Travel) = 0 /\ Most(0, (n - 1) - Travel) = 0
      BY <1>1, <2>4 DEF Most
    <3>2. Released(0)[0] = 0
      BY <1>1, PlantTotals
    <3> QED BY <1>2, <2>1, <2>4, <3>1, <3>2 DEF ArrivalAt
  <2> QED BY <2>2, <2>3, <2>4 DEF Plants
<1>3. ASSUME NEW p \in Plants PROVE \A n \in 0..Len(series[p]) : Arrived(p)[n] = Due(p, n)
  <2> DEFINE Bad == {n \in 0..Len(series[p]) : Arrived(p)[n] # Due(p, n)}
  <2> SUFFICES ASSUME Bad # {} PROVE FALSE
    OBVIOUS
  <2>1. PICK n \in Bad : \A j \in Bad : n <= j
    <3>1. Bad \subseteq Nat
      OBVIOUS
    <3> HIDE DEF Bad
    <3> QED BY <3>1, LeastNatural
  <2>2. /\ n \in 0..Len(series[p]) /\ Arrived(p)[n] # Due(p, n)
        /\ \A j \in 0..Len(series[p]) : j < n => Arrived(p)[j] = Due(p, j)
    BY <2>1
  <2>3. n # 0
    <3>1. Most(0, 0 - Travel) = 0
      BY <1>1 DEF Most
    <3>2. Arrived(p)[0] = 0 /\ Released(0)[0] = 0
      BY <1>1, PlantTotals
    <3>3. Arrived(p)[0] = Due(p, 0)
      BY <3>1, <3>2
    <3> QED BY <2>2, <3>3
  <2> HIDE DEF Due
  <2>4. n \in 1..Len(series[p]) /\ n - 1 \in 0..Len(series[p]) /\ n - 1 < n
    BY <2>2, <2>3
  <2>5. Arrived(p)[n] = Due(p, n)
    BY <1>2, <2>2, <2>4
  <2> QED BY <2>2, <2>5
<1>4. (\A n : Due(0, n) = 0) /\ \A n : Due(1, n) = Released(0)[Most(0, n - Travel)]
  OBVIOUS
<1> HIDE DEF Due
<1> QED BY <1>1, <1>3, <1>4

\* What the invariant says of all the water.
LEMMA InvariantConserves == CascadeInv => WaterConserved
<1> SUFFICES ASSUME CascadeInv PROVE WaterConserved
  OBVIOUS
<1> DEFINE a == Len(series[0])
           b == Len(series[1])
<1>1. /\ 0 \in Plants /\ 1 \in Plants /\ Travel \in Nat \ {0}
      /\ Config[0].initial \in Nat /\ Config[1].initial \in Nat
  BY CascadeAssumption, PlantFacts DEF Plants
<1>2. /\ a \in Nat /\ b \in Nat /\ b <= a
      /\ Storage(0) = volume[0][a + 1] /\ Storage(1) = volume[1][b + 1]
  <2>1. a \in Nat /\ b \in Nat
    BY <1>1, PlantTotals
  <2>2. plant \in {0, 1} /\ a = b + plant
    BY DEF CascadeInv, SimulationInv, Plants
  <2>3. Len(volume[0]) = a + 1 /\ Len(volume[1]) = b + 1
    BY <1>1 DEF CascadeInv, SimulationInv
  <2> QED BY <2>1, <2>2, <2>3 DEF Storage
<1>3. a \in 0..Len(series[0]) /\ b \in 0..Len(series[1]) /\ Most(0, b - Travel) \in 0..a
  BY <1>1, <1>2 DEF Most
<1>4. Storage(0) = Config[0].initial + Received(0)[a] + Arrived(0)[a] - Released(0)[a]
  BY <1>1, <1>2, <1>3, PlantConserves
<1>5. Storage(1) = Config[1].initial + Received(1)[b] + Arrived(1)[b] - Released(1)[b]
  BY <1>1, <1>2, <1>3, PlantConserves
<1>6. Arrived(0)[a] = 0 /\ Arrived(1)[b] = Released(0)[Most(0, b - Travel)]
  BY <1>3, ReleasesArrive
<1>7. /\ Received(0)[a] \in Int /\ Received(1)[b] \in Int
      /\ Released(0)[a] \in Int /\ Released(1)[b] \in Int
      /\ Released(0)[Most(0, b - Travel)] \in Int
  BY <1>1, <1>3, PlantTotals
<1>8. OnItsWay = Released(0)[a] - Released(0)[Most(0, b - Travel)]
  BY DEF OnItsWay
<1>9. Storage(0) + Storage(1) + OnItsWay + Released(1)[b]
        = Config[0].initial + Config[1].initial + Received(0)[a] + Received(1)[b]
  <2> HIDE DEF a, b
  <2> QED BY <1>1, <1>4, <1>5, <1>6, <1>7, <1>8
<1> QED BY <1>9 DEF WaterConserved

(* Whatever is asked of the cascade, by flow or by power, and whatever the  *)
(* searches find, no water is lost or made between the reservoirs, the way  *)
(* between them and what has flowed in and out (simulator.py:98-116,        *)
(* transition.py:93-97).                                                    *)
THEOREM WaterAlwaysConserved ==
  ASSUME CurvesAreNumbers, TailwaterRises
  PROVE  WorkerSpec => []WaterConserved
<1>1. WorkerInit => CascadeInv
  BY FreshCascade DEF WorkerInit, CascadeInit, AtFirst
<1>2. CascadeInv /\ [WorkerNext]_workerVars => CascadeInv'
  BY WorkerStep
<1> QED BY <1>1, <1>2, InvariantConserves, PTL DEF WorkerSpec

-----------------------------------------------------------------------------
(* The worker.  The inductive invariant tells where in the protocol the    *)
(* worker is: which line it has read, how much of a batch it has evaluated *)
(* and up to which line it has answered.                                   *)

LineType == [kind : LineKinds, cases : Nat \ {0}, overflows : BOOLEAN]
Response ==
  [code : {"invalid_json", "invalid_request", "evaluation_error", "results"}, cases : Seq(Nat)]

\* The lines up to one are answered, each by its own response.
AnsweredUpTo(last) ==
  /\ Len(responses) = Cardinality(Asking(last))
  /\ \A p \in Asking(last) : Answers(responses[Cardinality(Asking(p))], lines[p])

ProtocolInv ==
  /\ lines \in Seq(LineType) /\ position \in 0..Len(lines)
  /\ responses \in Seq(Response)
  /\ results \in Seq(Nat) /\ results = [c \in 1..Len(results) |-> c]
  /\ stage \in {"idle", "evaluating", "dead", "closed", "objective", "simulating"}
  /\ Pending => position > 0 /\ Line.kind \in {"batch", "huge"}
  /\ stage = "evaluating" => Line.kind = "batch" /\ Len(results) < Line.cases
  /\ stage \in {"objective", "simulating"} => position = 0
  /\ stage = "simulating" => mode = "flow"
  /\ stage = "closed" => position = Len(lines) \/ mode = "flow"

LastAnswered == IF Pending THEN position - 1 ELSE position
AnswersInv == ProtocolInv /\ AnsweredUpTo(LastAnswered)

(* The lines that ask, one line more at a time.                            *)
LEMMA AskingFacts ==
  ASSUME NEW p \in Nat
  PROVE  /\ IsFiniteSet(Asking(p)) /\ Cardinality(Asking(p)) \in Nat
         /\ Asking(p) \subseteq 1..p
         /\ \A q \in Asking(p) : Cardinality(Asking(q)) \in 1..Cardinality(Asking(p))
         /\ lines[p + 1].kind = "blank" => Asking(p + 1) = Asking(p)
         /\ lines[p + 1].kind # "blank" =>
              /\ Asking(p + 1) = Asking(p) \cup {p + 1}
              /\ Cardinality(Asking(p + 1)) = Cardinality(Asking(p)) + 1
<1>1. ASSUME NEW q \in Nat
      PROVE  /\ IsFiniteSet(Asking(q)) /\ Cardinality(Asking(q)) \in Nat
             /\ Asking(q) \subseteq 1..q
  <2>1. IsFiniteSet(1..q)
    BY <1>1, FS_Interval
  <2>2. Asking(q) \subseteq 1..q
    BY DEF Asking
  <2>3. IsFiniteSet(Asking(q))
    BY <2>1, <2>2, FS_Subset
  <2> QED BY <2>2, <2>3, FS_CardinalityType
<1>2. ASSUME NEW q \in Asking(p) PROVE Cardinality(Asking(q)) \in 1..Cardinality(Asking(p))
  <2>1. q \in 1..p /\ q \in Nat
    BY <1>1
  <2>2. Asking(q) \subseteq Asking(p)
    BY <2>1 DEF Asking
  <2>3. q \in Asking(q)
    BY <1>2, <2>1 DEF Asking
  <2>4. Cardinality(Asking(q)) <= Cardinality(Asking(p))
    BY <1>1, <2>2, FS_Subset
  <2>5. Cardinality(Asking(q)) # 0
    BY <1>1, <2>1, <2>3, FS_EmptySet
  <2> QED BY <1>1, <2>1, <2>4, <2>5
<1>3. \A q \in 1..(p + 1) : q \in 1..p \/ q = p + 1
  OBVIOUS
<1>4. p + 1 \notin 1..p /\ p + 1 \in 1..(p + 1) /\ 1..p \subseteq 1..(p + 1)
  OBVIOUS
<1>5. lines[p + 1].kind = "blank" => Asking(p + 1) = Asking(p)
  BY <1>3, <1>4 DEF Asking
<1>6. lines[p + 1].kind # "blank" => Asking(p + 1) = Asking(p) \cup {p + 1}
  BY <1>3, <1>4 DEF Asking
<1>7. lines[p + 1].kind # "blank" => Cardinality(Asking(p + 1)) = Cardinality(Asking(p)) + 1
  <2>1. p + 1 \notin Asking(p)
    BY <1>4 DEF Asking
  <2> QED BY <1>1, <1>6, <2>1, FS_AddElement
<1> QED BY <1>1, <1>2, <1>5, <1>6, <1>7

(* A response to the next line leaves the earlier responses theirs.        *)
LEMMA AnswerNext ==
  ASSUME responses \in Seq(Response), NEW last \in Nat, AnsweredUpTo(last),
         lines' = lines, lines[last + 1].kind # "blank",
         NEW r \in Response, Answers(r, lines[last + 1]), responses' = Append(responses, r)
  PROVE  AnsweredUpTo(last + 1)' /\ responses' \in Seq(Response)
<1> DEFINE n == Cardinality(Asking(last))
<1>1. Len(responses) = n /\ n \in Nat
  BY AskingFacts DEF AnsweredUpTo
<1>2. /\ Len(responses') = n + 1 /\ responses'[n + 1] = r
      /\ \A i \in 1..n : responses'[i] = responses[i]
      /\ responses' \in Seq(Response)
  BY <1>1, AppendProperties
<1>3. \A q : Asking(q)' = Asking(q)
  BY DEF Asking
<1>4. /\ Asking(last + 1) = Asking(last) \cup {last + 1}
      /\ Cardinality(Asking(last + 1)) = n + 1
  BY AskingFacts
<1>5. ASSUME NEW p \in Asking(last + 1)
      PROVE  Answers(responses'[Cardinality(Asking(p))], lines[p])
  <2>1. CASE p \in Asking(last)
    <3>1. Cardinality(Asking(p)) \in 1..n
      BY <2>1, AskingFacts
    <3> QED BY <1>2, <2>1, <3>1 DEF AnsweredUpTo
  <2>2. CASE p = last + 1
    BY <1>2, <1>4, <2>2
  <2> QED BY <1>4, <2>1, <2>2
<1> QED BY <1>2, <1>3, <1>4, <1>5 DEF AnsweredUpTo

(* A blank line asks for nothing.                                          *)
LEMMA SkipNext ==
  ASSUME NEW last \in Nat, AnsweredUpTo(last), lines' = lines, responses' = responses,
         lines[last + 1].kind = "blank"
  PROVE  AnsweredUpTo(last + 1)'
<1>1. \A q : Asking(q)' = Asking(q)
  BY DEF Asking
<1>2. Asking(last + 1) = Asking(last)
  BY AskingFacts
<1> QED BY <1>1, <1>2 DEF AnsweredUpTo

\* Where no response is added, the answers are the same.
LEMMA SameAnswers ==
  ASSUME NEW last, AnsweredUpTo(last), lines' = lines, responses' = responses
  PROVE  AnsweredUpTo(last)'
BY DEF AnsweredUpTo, Asking

(* The last line answered and the line that comes next.                    *)
LEMMA NextLine ==
  ASSUME ProtocolInv
  PROVE  /\ position \in Nat
         /\ ~Pending => LastAnswered = position
         /\ Pending => position \in 1..Len(lines) /\ position - 1 \in Nat
                       /\ LastAnswered = position - 1 /\ (position - 1) + 1 = position
         /\ position < Len(lines) => lines[position + 1] \in LineType
         /\ position > 0 => lines[position] \in LineType
<1>1. lines \in Seq(LineType) /\ position \in 0..Len(lines) /\ Len(lines) \in Nat
  BY DEF ProtocolInv
<1>2. position \in Nat /\ (Pending => position \in 1..Len(lines))
  BY <1>1 DEF ProtocolInv
<1>3. position < Len(lines) => position + 1 \in 1..Len(lines)
  BY <1>1
<1>4. position > 0 => position \in 1..Len(lines)
  BY <1>1
<1> QED BY <1>1, <1>2, <1>3, <1>4, ElementOfSeq DEF LastAnswered

(* A line that is not a batch is answered at once.                         *)
LEMMA RefuseKeeps ==
  ASSUME AnswersInv, NEW kind \in {"garbage", "deep", "invalid"}, More(kind),
         position' = position + 1, lines' = lines, results' = results, stage' = stage,
         NEW code \in {"invalid_json", "evaluation_error", "invalid_request"},
         Respond(code, <<>>),
         \/ kind = "garbage" /\ code = "invalid_json"
         \/ kind = "deep" /\ code = "evaluation_error"
         \/ kind = "invalid" /\ code = "invalid_request"
  PROVE  AnswersInv'
<1>1. ProtocolInv /\ AnsweredUpTo(LastAnswered)
  BY DEF AnswersInv
<1>2. stage = "idle" /\ position < Len(lines) /\ lines[position + 1].kind = kind
  BY DEF More
<1>3. ~Pending /\ ~Pending' /\ LastAnswered = position /\ LastAnswered' = position'
  BY <1>2 DEF Pending, LastAnswered
<1>4. position \in Nat
  BY <1>1, NextLine
<1>5. [code |-> code, cases |-> <<>>] \in Response
  BY EmptySeq DEF Response
<1>6. Answers([code |-> code, cases |-> <<>>], lines[position + 1])
  BY <1>2 DEF Answers
<1>7. AnsweredUpTo(position)' /\ responses' \in Seq(Response)
  <2>1. PICK last \in Nat : last = position
    BY <1>4
  <2>2. /\ responses \in Seq(Response) /\ AnsweredUpTo(last)
        /\ lines[last + 1].kind # "blank"
        /\ Answers([code |-> code, cases |-> <<>>], lines[last + 1])
        /\ responses' = Append(responses, [code |-> code, cases |-> <<>>])
    BY <1>1, <1>2, <1>3, <1>6, <2>1 DEF Respond, ProtocolInv
  <2>3. AnsweredUpTo(last + 1)' /\ responses' \in Seq(Response)
    BY <1>5, <2>2, AnswerNext
  <2>4. position' = last + 1
    BY <2>1
  <2> QED BY <2>3, <2>4
<1>8. position' \in 0..Len(lines)
  BY <1>1, <1>2 DEF ProtocolInv
<1>9. ProtocolInv'
  BY <1>1, <1>2, <1>3, <1>7, <1>8 DEF ProtocolInv, Pending
<1> QED BY <1>3, <1>7, <1>9 DEF AnswersInv

(* The batch that is pending is answered.                                  *)
LEMMA BatchAnswered ==
  ASSUME AnswersInv, stage = "evaluating", stage' = "idle",
         position' = position, lines' = lines,
         results' \in Seq(Nat), results' = [c \in 1..Len(results') |-> c],
         NEW r \in Response, Answers(r, Line), responses' = Append(responses, r)
  PROVE  AnswersInv'
<1>1. ProtocolInv /\ AnsweredUpTo(LastAnswered)
  BY DEF AnswersInv
<1>2. Pending /\ ~Pending' /\ LastAnswered' = position'
  BY DEF Pending, LastAnswered
<1>3. /\ LastAnswered = position - 1 /\ position - 1 \in Nat /\ (position - 1) + 1 = position
      /\ lines[position].kind = "batch"
  BY <1>1, <1>2, NextLine DEF ProtocolInv, Line
<1>4. responses \in Seq(Response)
  BY <1>1 DEF ProtocolInv
<1>5. AnsweredUpTo(position)' /\ responses' \in Seq(Response)
  <2>0. PICK last \in Nat : last = position - 1
    BY <1>3
  <2>1. /\ last + 1 = position /\ AnsweredUpTo(last)
        /\ lines[last + 1].kind # "blank" /\ Answers(r, lines[last + 1])
    BY <1>1, <1>3, <2>0 DEF Line
  <2>2. AnsweredUpTo(last + 1)' /\ responses' \in Seq(Response)
    BY <1>4, <2>1, AnswerNext
  <2>3. position' = last + 1
    BY <2>1
  <2> QED BY <2>2, <2>3
<1>6. ProtocolInv'
  BY <1>1, <1>2, <1>5 DEF ProtocolInv, Pending
<1> QED BY <1>2, <1>5, <1>6 DEF AnswersInv


(* A step of the worker keeps the invariant.                               *)
LEMMA AnswersStep ==
  ASSUME AnswersInv, [WorkerNext]_workerVars
  PROVE  AnswersInv'
<1>1. ProtocolInv /\ AnsweredUpTo(LastAnswered) /\ position \in Nat
  BY NextLine DEF AnswersInv
<1>2. <<>> \in Seq(Nat) /\ Len(<<>>) = 0 /\ <<>> = [c \in 1..0 |-> c]
  BY EmptySeq
<1>3. ASSUME position' = position, lines' = lines, responses' = responses,
             Pending' <=> Pending, ProtocolInv'
      PROVE  AnswersInv'
  <2>1. LastAnswered' = LastAnswered
    BY <1>3 DEF LastAnswered
  <2>2. PICK last : last = LastAnswered
    OBVIOUS
  <2>3. AnsweredUpTo(last)'
    BY <1>1, <1>3, <2>2, SameAnswers
  <2> QED BY <1>3, <2>1, <2>2, <2>3 DEF AnswersInv
<1>4. CASE SkipBlank
  <2>1. /\ stage = "idle" /\ stage' = stage /\ position < Len(lines) /\ mode' = mode
        /\ lines[position + 1].kind = "blank" /\ position' = position + 1
        /\ lines' = lines /\ responses' = responses /\ results' = results
    BY <1>4 DEF SkipBlank, More, cascadeVars
  <2>2. ~Pending /\ ~Pending' /\ LastAnswered = position /\ LastAnswered' = position'
    BY <2>1 DEF Pending, LastAnswered
  <2>3. PICK last \in Nat : last = position
    BY <1>1
  <2>4. AnsweredUpTo(last + 1)'
    BY <1>1, <2>1, <2>2, <2>3, SkipNext
  <2>5. position' \in 0..Len(lines)
    BY <1>1, <2>1 DEF ProtocolInv
  <2>6. ProtocolInv'
    BY <1>1, <2>1, <2>2, <2>5 DEF ProtocolInv
  <2> QED BY <2>1, <2>2, <2>3, <2>4, <2>6 DEF AnswersInv
<1>5. CASE RefuseJson
  BY <1>5, RefuseKeeps DEF RefuseJson
<1>6. CASE RefuseRequest
  BY <1>6, RefuseKeeps DEF RefuseRequest
<1>16. CASE RefuseDeep
  BY <1>16, RefuseKeeps DEF RefuseDeep
<1>17. CASE DieParsing
  <2>1. /\ stage = "idle" /\ stage' = "dead" /\ position < Len(lines)
        /\ lines[position + 1].kind = "huge" /\ position' = position + 1
        /\ lines' = lines /\ responses' = responses /\ results' = results
    BY <1>17 DEF DieParsing, More
  <2>2. position' \in 0..Len(lines) /\ position' > 0 /\ (position + 1) - 1 = position
    BY <1>1, <2>1 DEF ProtocolInv
  <2>3. ~Pending /\ Pending' /\ LastAnswered = position /\ LastAnswered' = position
    BY <2>1, <2>2 DEF Pending, LastAnswered
  <2>4. PICK last : last = position
    OBVIOUS
  <2>5. AnsweredUpTo(last)'
    BY <1>1, <2>1, <2>3, <2>4, SameAnswers
  <2>6. Line' = lines[position + 1]
    BY <2>1 DEF Line
  <2>7. ProtocolInv'
    BY <1>1, <2>1, <2>2, <2>3, <2>6 DEF ProtocolInv
  <2> QED BY <2>3, <2>4, <2>5, <2>7 DEF AnswersInv
<1>7. CASE StartBatch
  <2>1. /\ stage = "idle" /\ stage' = "evaluating" /\ position < Len(lines)
        /\ lines[position + 1].kind = "batch" /\ position' = position + 1
        /\ lines' = lines /\ responses' = responses /\ results' = <<>>
    BY <1>7 DEF StartBatch, More
  <2>2. position' \in 0..Len(lines) /\ position' > 0 /\ (position + 1) - 1 = position
    BY <1>1, <2>1 DEF ProtocolInv
  <2>3. ~Pending /\ Pending' /\ LastAnswered = position /\ LastAnswered' = position
    BY <2>1, <2>2 DEF Pending, LastAnswered
  <2>4. PICK last : last = position
    OBVIOUS
  <2>5. AnsweredUpTo(last)'
    BY <1>1, <2>1, <2>3, <2>4, SameAnswers
  <2>6. lines[position + 1].cases \in Nat \ {0}
    BY <1>1, <2>1, NextLine DEF LineType
  <2>7. Line' = lines[position + 1]
    BY <2>1 DEF Line
  <2>8. 0 < Line'.cases
    BY <2>6, <2>7
  <2>9. ProtocolInv'
    BY <1>1, <1>2, <2>1, <2>2, <2>3, <2>7, <2>8 DEF ProtocolInv
  <2> QED BY <2>3, <2>4, <2>5, <2>9 DEF AnswersInv
<1>8. CASE Step
  <2>1. /\ stage' = stage /\ position' = position /\ mode' = mode
        /\ lines' = lines /\ responses' = responses /\ results' = results
    BY <1>8 DEF Step, Simulate
  <2>2. ProtocolInv'
    BY <1>1, <2>1 DEF ProtocolInv, Pending, Line
  <2> QED BY <1>3, <2>1, <2>2 DEF Pending
<1>9. CASE FailCase
  <2>1. /\ stage = "evaluating" /\ stage' = "idle" /\ position' = position
        /\ lines' = lines /\ results' = results
        /\ responses' = Append(responses, [code |-> "evaluation_error", cases |-> <<>>])
    BY <1>9 DEF FailCase, Respond
  <2>2. [code |-> "evaluation_error", cases |-> <<>>] \in Response
    BY <1>2 DEF Response
  <2>3. Line.kind = "batch"
    BY <1>1, <2>1 DEF ProtocolInv, Pending
  <2>4. Answers([code |-> "evaluation_error", cases |-> <<>>], Line)
    BY <2>3 DEF Answers
  <2>5. results' \in Seq(Nat) /\ results' = [c \in 1..Len(results') |-> c]
    BY <1>1, <2>1 DEF ProtocolInv
  <2> QED BY <2>1, <2>2, <2>4, <2>5, BatchAnswered
<1>10. CASE Overflow
  <2>1. /\ stage = "evaluating" /\ stage' = "dead" /\ position' = position
        /\ lines' = lines /\ responses' = responses /\ results' = results
    BY <1>10 DEF Overflow
  <2>2. Pending /\ Pending' /\ Line' = Line
    BY <2>1 DEF Pending, Line
  <2>3. ProtocolInv'
    BY <1>1, <2>1, <2>2 DEF ProtocolInv
  <2> QED BY <1>3, <2>1, <2>2, <2>3
<1>11. CASE FinishCase
  <2> DEFINE done == Append(results, Len(results) + 1)
  <2>1. /\ stage = "evaluating" /\ position' = position /\ lines' = lines
        /\ results' = done
    BY <1>11 DEF FinishCase
  <2>2. /\ results \in Seq(Nat) /\ Len(results) \in Nat
        /\ results = [c \in 1..Len(results) |-> c]
        /\ Line.kind = "batch" /\ Len(results) < Line.cases /\ position > 0
    BY <1>1, <2>1 DEF ProtocolInv, Pending
  <2>3. Line.cases \in Nat
    BY <1>1, <2>2, NextLine DEF LineType, Line
  <2>4. /\ done \in Seq(Nat) /\ Len(done) = Len(results) + 1
        /\ \A c \in 1..Len(results) : done[c] = c
        /\ done[Len(results) + 1] = Len(results) + 1
    BY <2>2, AppendProperties
  <2>5. done = [c \in 1..Len(done) |-> c]
    <3>1. DOMAIN done = 1..Len(done)
      BY <2>4
    <3>2. \A c \in 1..Len(done) : c \in 1..Len(results) \/ c = Len(results) + 1
      BY <2>2, <2>4
    <3>3. \A c \in 1..Len(done) : done[c] = c
      BY <2>4, <3>2
    <3> QED BY <2>4, <3>1, <3>3
  <2> HIDE DEF done
  <2>6. CASE Len(done) < Line.cases
    <3>1. responses' = responses /\ stage' = stage
      BY <1>11, <2>6 DEF FinishCase, done
    <3>2. Line' = Line /\ Pending' = Pending
      BY <2>1, <3>1 DEF Line, Pending
    <3>3. ProtocolInv'
      BY <1>1, <2>1, <2>4, <2>5, <2>6, <3>1, <3>2 DEF ProtocolInv
    <3> QED BY <1>3, <2>1, <3>1, <3>2, <3>3
  <2>7. CASE ~(Len(done) < Line.cases)
    <3>1. /\ stage' = "idle"
          /\ responses' = Append(responses, [code |-> "results", cases |-> done])
      BY <1>11, <2>7 DEF FinishCase, done, Respond
    <3>2. Len(done) = Line.cases
      BY <2>2, <2>3, <2>4, <2>7
    <3>3. [code |-> "results", cases |-> done] \in Response
      BY <2>4 DEF Response
    <3>4. Answers([code |-> "results", cases |-> done], Line)
      BY <2>1, <2>2, <2>5, <3>2 DEF Answers
    <3> QED BY <2>1, <2>4, <2>5, <3>1, <3>3, <3>4, BatchAnswered
  <2> QED BY <2>6, <2>7
<1>12. CASE Close
  <2>1. /\ stage = "idle" /\ stage' = "closed" /\ position' = position /\ position = Len(lines)
        /\ lines' = lines /\ responses' = responses /\ results' = results
    BY <1>12 DEF Close
  <2>2. ~Pending /\ ~Pending'
    BY <2>1 DEF Pending
  <2>3. ProtocolInv'
    BY <1>1, <2>1, <2>2 DEF ProtocolInv
  <2> QED BY <1>3, <2>1, <2>2, <2>3
<1>13. CASE EvaluateObjective
  <2>1. /\ stage = "objective" /\ stage' = "simulating" /\ position' = position
        /\ mode' = "flow"
        /\ lines' = lines /\ responses' = responses /\ results' = results
    BY <1>13 DEF EvaluateObjective, Fresh
  <2>2. ~Pending /\ ~Pending'
    BY <2>1 DEF Pending
  <2>3. ProtocolInv'
    BY <1>1, <2>1, <2>2 DEF ProtocolInv
  <2> QED BY <1>3, <2>1, <2>2, <2>3
<1>14. CASE ReturnObjective
  <2>1. /\ stage = "simulating" /\ stage' = "closed" /\ position' = position /\ mode' = mode
        /\ lines' = lines /\ responses' = responses /\ results' = results
    BY <1>14 DEF ReturnObjective, cascadeVars
  <2>2. ~Pending /\ ~Pending'
    BY <2>1 DEF Pending
  <2>3. ProtocolInv'
    BY <1>1, <2>1, <2>2 DEF ProtocolInv
  <2> QED BY <1>3, <2>1, <2>2, <2>3
<1>15. CASE UNCHANGED workerVars
  <2>1. /\ stage' = stage /\ position' = position /\ mode' = mode
        /\ lines' = lines /\ responses' = responses /\ results' = results
    BY <1>15 DEF workerVars, cascadeVars
  <2>2. ProtocolInv'
    BY <1>1, <2>1 DEF ProtocolInv, Pending, Line
  <2> QED BY <1>3, <2>1, <2>2 DEF Pending
<1> QED BY <1>4, <1>5, <1>6, <1>7, <1>8, <1>9, <1>10, <1>11, <1>12, <1>13, <1>14, <1>15,
           <1>16, <1>17 DEF WorkerNext

(* Before the first line nothing is answered.                              *)
LEMMA AnswersBegin == WorkerInit => AnswersInv
<1> SUFFICES ASSUME WorkerInit PROVE AnswersInv
  OBVIOUS
<1>1. /\ lines \in Streams /\ position = 0 /\ responses = <<>> /\ results = <<>>
      /\ stage \in {"idle", "objective"}
  BY DEF WorkerInit
<1>2. lines \in Seq(LineType) /\ Len(lines) \in Nat
  <2>1. lines \in Seq(LineType)
    BY <1>1, WorkerAssumption, Zenon DEF LineType
  <2> QED BY <2>1, LenProperties
<1>3. <<>> \in Seq(Nat) /\ <<>> \in Seq(Response) /\ Len(<<>>) = 0 /\ <<>> = [c \in 1..0 |-> c]
  BY EmptySeq
<1>4. ~Pending
  BY <1>1 DEF Pending
<1>5. ProtocolInv
  BY <1>1, <1>2, <1>3, <1>4 DEF ProtocolInv
<1>6. Asking(0) = {} /\ Cardinality(Asking(0)) = 0
  BY FS_EmptySet DEF Asking
<1>7. AnsweredUpTo(LastAnswered)
  BY <1>1, <1>3, <1>4, <1>6 DEF AnsweredUpTo, LastAnswered
<1> QED BY <1>5, <1>7 DEF AnswersInv

(* Whatever lines come, in whatever order, whichever batches fail and       *)
(* whatever the curves: every line read that is not blank has one response, *)
(* in order and its own, but for the last one while it is evaluated or if   *)
(* the worker died of it (interop.py:82-89, 179-187).                       *)
THEOREM AnswersAlwaysInOrder == WorkerSpec => []AnswersInOrder
<1>1. AnswersInv /\ [WorkerNext]_workerVars => AnswersInv'
  BY AnswersStep
<1>2. AnswersInv => AnswersInOrder
  BY DEF AnswersInv, AnswersInOrder, ProtocolInv, AnsweredUpTo, LastAnswered
<1> QED BY AnswersBegin, <1>1, <1>2, PTL DEF WorkerSpec

===============================================================================
