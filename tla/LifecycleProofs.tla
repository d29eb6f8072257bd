-------------------------- MODULE LifecycleProofs --------------------------
(***************************************************************************)
(* Proofs about Lifecycle, for any readers, Snapshots and bounds.          *)
(*                                                                         *)
(* FilesInPlace is not inductive: whether a step may retire a file depends *)
(* on what the store, the reader, the job and the Snapshots hold.  IInv    *)
(* adds how memory relates to CURRENT by mode (Memory), what a job has     *)
(* written when (Making) and may still retire (Replacing), that pins count *)
(* the Snapshots exactly (PinsExact), that a Manifest a Snapshot copies is *)
(* not overwritten (Copying, Published), and which file each step of a job *)
(* accounts for (Accounted).  There is one lemma per action.               *)
(***************************************************************************)
EXTENDS Lifecycle, FiniteSetTheorems, TLAPS

File == Kinds \X (1..(2 * MaxGenerations))
Manifest == [gen : 1..MaxGenerations, files : SUBSET File]
Steps == {"none", "segment", "artifacts", "manifest", "current", "install",
          "retire", "retire_artifacts", "collect"}
Job == [op : {"none", "checkpoint", "compact"}, step : Steps,
        next : Manifest \cup {None}, inputs : SUBSET File]
Snap == [state : {"idle", "copying"}, of : Manifest \cup {None}, copied : SUBSET File]

\* The files of the jobs begun so far.
Known == {f \in File : f[2] <= jobs}

\* The Manifest CURRENT names.
Named == IF pointer = 0 THEN None ELSE manifests[pointer]

Typed ==
    /\ live \subseteq Known /\ trash \subseteq Known /\ pending \subseteq Known
    /\ manifests \in [1..MaxGenerations -> Manifest \cup {None}]
    /\ \A g \in 1..MaxGenerations : manifests[g] # None => manifests[g].gen = g
    /\ pointer \in 0..MaxGenerations
    /\ saved \subseteq Manifest
    /\ mode \in {"up", "fatal", "down"}
    /\ current \in Manifest \cup {None} /\ view \in Manifest \cup {None}
    /\ job \in Job /\ Files(job.next) \subseteq Known /\ job.inputs \subseteq Known
    /\ jobs \in 0..(2 * MaxGenerations)
    /\ pins \in [File -> Nat]
    /\ snap \in [Snapshots -> Snap]
    /\ faults \in Nat /\ crashes \in Nat /\ env \in Environment

\* What the process has in memory of the disk, by mode.
Memory ==
    /\ mode = "up" => current = Named /\ pointer = Generation(current)
    /\ mode = "up" /\ job.step # "install" => view = current
    /\ mode # "up" => job = NoJob
    /\ mode = "down" => pending = {}

\* What is to be retired is used by neither the store nor the reader.
PendingUnused == pending \cap (Files(Named) \cup Files(view)) = {}

\* While a job makes the next generation.
Making ==
    Publishing =>
        /\ job.next \in Manifest
        /\ job.next.gen = pointer + 1
        /\ pending \cap job.next.files = {}
        /\ job.inputs \cap job.next.files = {}
        /\ Segments(current) \subseteq job.inputs \cup job.next.files
        /\ job.op \in {"checkpoint", "compact"} /\ (job.op = "checkpoint" => job.inputs = {})
        /\ job.step # "segment" => Segments(job.next) \subseteq live
        /\ job.step \in {"manifest", "current"} => Artifacts(job.next) \subseteq live
        /\ job.step = "current" => manifests[job.next.gen] = job.next

\* After the next generation is published.
Replacing ==
    /\ job.step \in {"install", "retire"} => job.inputs \cap Files(current) = {}
    /\ job.step = "install" =>
        /\ Segments(view) \subseteq job.inputs \cup Files(current)
        /\ job.op \in {"checkpoint", "compact"} /\ (job.op = "checkpoint" => job.inputs = {})

\* The Snapshots that copy a file.
Holders(f) == {s \in Snapshots : f \in Files(snap[s].of)}

PinsExact == pins = [f \in File |-> Cardinality(Holders(f))]

\* A Snapshot copies a generation that was published and is not overwritten.
Copying ==
    \A s \in Snapshots :
        LET m == snap[s].of IN
        /\ snap[s].state = "copying" <=> m # None
        /\ m # None => m.gen <= pointer /\ manifests[m.gen] = m /\ m.files \subseteq live

Published ==
    \A saving \in saved : saving.gen <= pointer /\ Verify(saving)

\* The files a job accounts for, by step.
JobFiles ==
    IF job.step \in {"artifacts", "manifest", "current"} THEN Files(job.next)
    ELSE IF job.step = "install" THEN Files(view)
    ELSE IF job.step = "retire" THEN job.inputs \cup Artifacts(job.next)
    ELSE IF job.step = "retire_artifacts" THEN Artifacts(job.next)
    ELSE {}

\* With no failure every file is accounted for, and what is pending is pinned.
Accounted ==
    faults = 0 /\ crashes = 0 =>
        /\ mode = "down" => live = {}
        /\ mode = "up" => live \subseteq Files(current) \cup pending \cup JobFiles
        /\ \A f \in pending : pins[f] > 0

IInv ==
    /\ Typed /\ Memory /\ FilesInPlace /\ PendingUnused /\ Making /\ Replacing
    /\ PinsExact /\ Copying /\ Published /\ Accounted

-----------------------------------------------------------------------------
(* Manifests and pins.                                                     *)

\* Most leaves are sets and records: Zenon, unless a leaf asks for SMT.
USE Zenon

\* A Manifest is not None, so that Files and Generation read its fields.
LEMMA ManifestFields ==
    /\ None \notin Manifest
    /\ Files(None) = {} /\ Generation(None) = 0
    /\ \A m \in Manifest : /\ Files(m) = m.files /\ m.files \subseteq File
                           /\ Generation(m) = m.gen /\ m.gen \in 1..MaxGenerations
    /\ \A m : Segments(m) \subseteq Files(m) /\ Artifacts(m) \subseteq Files(m)
    /\ \A m : Files(m) = Segments(m) \cup Artifacts(m)
    /\ \A m, n : Artifacts(m) \cap Segments(n) = {}
<1>1. None \notin Manifest
  <2>1. Manifest \subseteq [gen : Nat, files : SUBSET (Kinds \X Nat)]
    BY SMT, LifecycleAssumption DEF Manifest, File
  <2> QED BY <2>1, LifecycleAssumption
<1>2. \A m \in Manifest : /\ Files(m) = m.files /\ m.files \subseteq File
                          /\ Generation(m) = m.gen /\ m.gen \in 1..MaxGenerations
  BY <1>1 DEF Files, Generation, Manifest
<1> QED BY <1>1, <1>2 DEF Files, Generation, Segments, Artifacts, OfKind

\* The number of pins of a file is a natural number, zero exactly when no
\* Snapshot copies the file, and at most the number of Snapshots.
LEMMA PinCount ==
    ASSUME Typed, PinsExact
    PROVE  \A f \in File : /\ pins[f] \in 0..Cardinality(Snapshots)
                           /\ pins[f] = 0 <=> Holders(f) = {}
<1> TAKE f \in File
<1>1. Holders(f) \in SUBSET Snapshots BY DEF Holders
<1>2. IsFiniteSet(Snapshots) BY LifecycleAssumption
<1>3. /\ IsFiniteSet(Holders(f))
      /\ Cardinality(Holders(f)) <= Cardinality(Snapshots)
  BY <1>1, <1>2, FS_Subset
<1>4. pins[f] = Cardinality(Holders(f)) BY DEF PinsExact
<1>5. Cardinality(Snapshots) \in Nat /\ Cardinality(Holders(f)) \in Nat
  BY <1>2, <1>3, FS_CardinalityType
<1>6. Cardinality(Holders(f)) = 0 <=> Holders(f) = {} BY <1>3, FS_EmptySet
<1> QED BY SMT, <1>3, <1>4, <1>5, <1>6

\* The invariant holds of an empty directory.
LEMMA InvariantInit == Init => IInv
<1> SUFFICES ASSUME Init PROVE IInv OBVIOUS
<1> USE ManifestFields
<1>1. Typed
  <2>1. pins \in [File -> Nat] BY DEF Init, NoPins, File
  <2>2. job \in Job BY DEF Init, NoJob, Job, Steps
  <2>3. snap \in [Snapshots -> Snap] BY DEF Init, NoSnapshot, Snap
  <2> QED BY SMT, <2>1, <2>2, <2>3, LifecycleAssumption DEF Init, Typed, NoJob
<1>2. Memory /\ FilesInPlace /\ PendingUnused /\ Making /\ Replacing
  BY DEF Init, Memory, Named, FilesInPlace, PendingUnused, Making, Replacing, NoJob, Publishing
<1>3. PinsExact
  <2>1. \A f \in File : Holders(f) = {} BY DEF Init, Holders, NoSnapshot
  <2> QED BY <2>1, FS_EmptySet DEF Init, NoPins, PinsExact, File
<1>4. Copying /\ Published /\ Accounted
  BY DEF Init, Copying, Published, Accounted, NoSnapshot
<1> QED BY <1>1, <1>2, <1>3, <1>4 DEF IInv

-----------------------------------------------------------------------------
(* The steps.                                                              *)

\* Reads change nothing the invariant is about.
LEMMA ReadStep ==
    ASSUME IInv, UNCHANGED <<diskVars, mode, current, view, jobVars, pins, pending, snap, countVars>>
    PROVE  IInv'
<1> USE DEF diskVars, jobVars, countVars
<1>1. Typed' BY DEF IInv, Typed, Known
<1>2. Memory' BY DEF IInv, Memory, Named
<1>3. FilesInPlace' BY DEF IInv, FilesInPlace
<1>4. PendingUnused' BY DEF IInv, PendingUnused, Named
<1>5. Making' BY DEF IInv, Making, Publishing
<1>6. Replacing' BY DEF IInv, Replacing
<1>7. PinsExact' BY DEF IInv, PinsExact, Holders
<1>8. Copying' BY DEF IInv, Copying
<1>9. Published' BY DEF IInv, Published, Verify
<1>10. Accounted' BY DEF IInv, Accounted, JobFiles
<1> QED BY <1>1, <1>2, <1>3, <1>4, <1>5, <1>6, <1>7, <1>8, <1>9, <1>10 DEF IInv

\* A job begins with a Manifest of files that exist nowhere yet and of the
\* Segments it keeps.
LEMMA BeginStep ==
    ASSUME IInv, NEW op \in {"checkpoint", "compact"}, NEW inputs \in SUBSET Segments(current),
           op = "checkpoint" => inputs = {},
           Begin(op, inputs), UNCHANGED view
    PROVE  IInv'
<1> USE ManifestFields DEF diskVars, countVars
<1>1. Typed BY DEF IInv
<1>2. /\ mode = "up" /\ job = NoJob /\ job.step = "none"
      /\ view = current /\ current = Named /\ pointer = Generation(current)
  BY DEF IInv, Memory, Begin, NoJob
<1>3. PICK next : next = NextManifest(inputs) OBVIOUS
<1>4. PICK new : new = {<<kind, jobs + 1>> : kind \in Kinds} OBVIOUS
<1>5. /\ new \subseteq File /\ new \cap Known = {}
      /\ jobs + 1 \in 0..(2 * MaxGenerations)
  BY SMT, <1>1, <1>4, LifecycleAssumption DEF Begin, Typed, Known, File
<1>6. /\ Files(current) \subseteq live /\ Files(current) \subseteq File
  BY <1>1, <1>2 DEF IInv, FilesInPlace, Typed
<1>7. /\ next.gen = pointer + 1
      /\ next.files = (Segments(current) \ inputs) \cup new
      /\ next \in Manifest
  <2>1. next.gen = pointer + 1 /\ next.files = (Segments(current) \ inputs) \cup new
    BY <1>2, <1>3, <1>4 DEF NextManifest
  <2>2. pointer + 1 \in 1..MaxGenerations
    BY SMT, <1>1, <1>2, LifecycleAssumption DEF Begin, Typed
  <2>3. (Segments(current) \ inputs) \cup new \in SUBSET File BY <1>5, <1>6
  <2> QED BY <1>2, <1>3, <1>4, <2>1, <2>2, <2>3 DEF NextManifest, Manifest
<1>8. job' = [op |-> op, step |-> "segment", next |-> next, inputs |-> inputs]
  BY <1>3 DEF Begin
<1>9. Typed'
  <2>1. job' \in Job BY <1>6, <1>7, <1>8 DEF Job, Steps
  <2>2. Known \subseteq Known' BY SMT, <1>1 DEF Typed, Known, Begin, File
  <2>3. new \subseteq Known' BY SMT, <1>4, <1>5 DEF Known, Begin
  <2>4. Files(job'.next) \subseteq Known' /\ job'.inputs \subseteq Known'
    BY <1>1, <1>6, <1>7, <1>8, <2>2, <2>3 DEF Typed
  <2> QED BY <1>1, <1>5, <2>1, <2>2, <2>4 DEF Typed, Begin
<1>10. Memory' BY <1>2, <1>8 DEF Begin, Memory, Named
<1>11. FilesInPlace' /\ PendingUnused'
  BY DEF IInv, FilesInPlace, PendingUnused, Named, Begin
<1>12. Making'
  <2>1. pending \cap next.files = {}
    BY <1>1, <1>2, <1>5, <1>7 DEF IInv, PendingUnused, Typed
  <2>2. inputs \cap next.files = {}
    BY <1>1, <1>5, <1>6, <1>7 DEF Typed
  <2> QED BY SMT, <1>7, <1>8, <2>1, <2>2 DEF Making, Publishing, Begin
<1>13. Replacing' BY <1>8 DEF Replacing
<1>14. PinsExact' /\ Copying' /\ Published'
  BY SMT DEF IInv, PinsExact, Holders, Copying, Published, Verify, Begin
<1>15. Accounted'
  BY <1>2, <1>8 DEF IInv, Accounted, JobFiles, Begin
<1> QED BY <1>9, <1>10, <1>11, <1>12, <1>13, <1>14, <1>15 DEF IInv

\* The Segment and the artifacts are written before the Manifest, where no
\* other Manifest is kept.
LEMMA WriteStep ==
    ASSUME IInv, WriteSegment \/ BuildReferences \/ WriteManifest
    PROVE  IInv'
<1> USE ManifestFields DEF countVars, readVars
<1>1. Typed BY DEF IInv
<1>2. /\ mode = "up" /\ current = Named /\ pointer = Generation(current) /\ view = current
      /\ Publishing /\ job \in Job
      /\ job.next \in Manifest /\ job.next.gen = pointer + 1
  BY <1>1 DEF IInv, Memory, WriteSegment, BuildReferences, WriteManifest, Advance, Making, Publishing, Typed
<1>3. PICK to \in {"artifacts", "manifest", "current"} :
        /\ job' = [job EXCEPT !.step = to]
        /\ to = "artifacts" <=> job.step = "segment"
        /\ to = "manifest" <=> job.step = "artifacts"
        /\ to = "current" <=> job.step = "manifest"
  BY DEF WriteSegment, BuildReferences, WriteManifest, Advance
<1>4. /\ job'.step = to /\ job'.next = job.next /\ job'.inputs = job.inputs /\ job'.op = job.op
      /\ job' \in Job
  BY <1>2, <1>3 DEF Job, Steps
<1>5. /\ live \subseteq live' /\ live' \subseteq live \cup job.next.files
      /\ to = "artifacts" => Segments(job.next) \subseteq live \cup Files(current) \cup live'
      /\ to = "manifest" => Artifacts(job.next) \subseteq live'
      /\ to = "current" => live' = live
  BY SMT, <1>2, <1>3 DEF WriteSegment, BuildReferences, WriteManifest, Advance, Segments, OfKind
<1>6. /\ \A g \in 1..MaxGenerations : g # pointer + 1 => manifests'[g] = manifests[g]
      /\ to = "current" => manifests'[pointer + 1] = job.next
      /\ manifests' \in [1..MaxGenerations -> Manifest \cup {None}]
      /\ \A g \in 1..MaxGenerations : manifests'[g] # None => manifests'[g].gen = g
  <2>1. /\ manifests \in [1..MaxGenerations -> Manifest \cup {None}]
        /\ \A g \in 1..MaxGenerations : manifests[g] # None => manifests[g].gen = g
    BY <1>1 DEF Typed
  <2>2. pointer + 1 \in 1..MaxGenerations BY SMT, <1>2
  <2>3. IF to = "current" THEN manifests' = [manifests EXCEPT ![pointer + 1] = job.next]
                          ELSE manifests' = manifests
    BY <1>2, <1>3 DEF WriteSegment, BuildReferences, WriteManifest, Advance
  <2>4. CASE to = "current"
    <3>1. manifests' \in [1..MaxGenerations -> Manifest \cup {None}]
      BY <1>2, <2>1, <2>2, <2>3, <2>4
    <3>2. \A g \in 1..MaxGenerations : manifests'[g] = IF g = pointer + 1 THEN job.next ELSE manifests[g]
      BY <2>1, <2>3, <2>4
    <3> QED BY <1>2, <2>1, <2>2, <3>1, <3>2
  <2> QED BY <2>1, <2>3, <2>4
<1>7. UNCHANGED <<trash, pointer, saved, mode, current, view, jobs, pins, pending, snap, faults, crashes, env>>
  BY DEF WriteSegment, BuildReferences, WriteManifest, Advance
<1>8. Named' = Named /\ pointer \in 0..MaxGenerations /\ pointer # pointer + 1
  BY SMT, <1>1, <1>6, <1>7 DEF Named, Typed
<1>9. Typed' BY <1>1, <1>2, <1>4, <1>5, <1>6, <1>7 DEF Typed, Known
<1>10. Memory' BY <1>2, <1>4, <1>7, <1>8 DEF Memory
<1>11. FilesInPlace' BY <1>5, <1>7, <1>8 DEF IInv, FilesInPlace, Named
<1>12. PendingUnused' BY <1>7, <1>8 DEF IInv, PendingUnused
<1>13. Making'
  <2>1. Making BY DEF IInv
  <2>2. Files(current) \subseteq live BY <1>2, <1>8 DEF IInv, FilesInPlace
  <2>3. Segments(job.next) \subseteq live'
    BY <1>2, <1>3, <1>5, <2>1, <2>2 DEF Making, Publishing
  <2>4. to \in {"manifest", "current"} => Artifacts(job.next) \subseteq live'
    BY <1>2, <1>3, <1>5, <2>1 DEF Making, Publishing
  <2> QED BY <1>2, <1>4, <1>6, <1>7, <2>1, <2>3, <2>4 DEF Making
<1>14. Replacing' BY <1>4 DEF Replacing
<1>15. PinsExact' BY <1>7 DEF IInv, PinsExact, Holders
<1>16. Copying'
  BY SMT, <1>1, <1>5, <1>6, <1>7, <1>8 DEF IInv, Copying, Typed, Snap
<1>17. Published'
  BY SMT, <1>1, <1>6, <1>7, <1>8 DEF IInv, Published, Verify, Typed
<1>18. Accounted'
  BY <1>2, <1>3, <1>4, <1>5, <1>7 DEF IInv, Accounted, JobFiles
<1> QED BY <1>9, <1>10, <1>11, <1>12, <1>13, <1>14, <1>15, <1>16, <1>17, <1>18 DEF IInv

\* CURRENT names the next generation, whose files are all in place.
LEMMA PublishStep ==
    ASSUME IInv, PublishCurrent
    PROVE  IInv'
<1> USE ManifestFields DEF countVars, readVars
<1>1. Typed BY DEF IInv
<1>2. /\ mode = "up" /\ current = Named /\ pointer = Generation(current) /\ view = current
      /\ Publishing /\ job.step = "current" /\ job \in Job
  BY <1>1 DEF IInv, Memory, PublishCurrent, Advance, Publishing, Typed
<1>3. /\ job.next \in Manifest /\ job.next.gen = pointer + 1
      /\ job.next.files \subseteq live
      /\ manifests[job.next.gen] = job.next
  BY <1>2 DEF IInv, Making
<1>4. /\ job' = [job EXCEPT !.step = "install"]
      /\ pointer' = pointer + 1 /\ current' = job.next
      /\ UNCHANGED <<live, trash, manifests, saved, mode, view, jobs, pins, pending, snap, faults, crashes, env>>
  BY <1>3 DEF PublishCurrent, Advance
<1>5. /\ job'.step = "install" /\ job'.next = job.next /\ job'.inputs = job.inputs /\ job'.op = job.op
      /\ job' \in Job
  BY <1>2, <1>4 DEF Job, Steps
<1>6. pointer \in 0..MaxGenerations /\ pointer + 1 \in 1..MaxGenerations /\ pointer + 1 # 0
  BY SMT, <1>1, <1>3 DEF Typed
<1>7. Named' = job.next BY <1>3, <1>4, <1>6 DEF Named
<1>8. Typed' BY SMT, <1>1, <1>3, <1>4, <1>5, <1>6 DEF Typed, Known
<1>9. Memory' BY <1>2, <1>3, <1>4, <1>5, <1>7 DEF Memory
<1>10. FilesInPlace'
  BY <1>3, <1>4, <1>6 DEF IInv, FilesInPlace
<1>11. PendingUnused'
  BY SMT, <1>2, <1>3, <1>4, <1>7 DEF IInv, PendingUnused, Making
<1>12. Making' BY <1>5 DEF Making, Publishing
<1>13. Replacing'
  <2>1. job.op \in {"checkpoint", "compact"} BY <1>2 DEF IInv, Making
  <2> QED BY <1>2, <1>3, <1>4, <1>5, <2>1 DEF IInv, Making, Replacing
<1>14. PinsExact' BY SMT, <1>4 DEF IInv, PinsExact, Holders
<1>15. Copying' BY SMT, <1>1, <1>4, <1>6 DEF IInv, Copying, Typed, Snap, Manifest
<1>16. Published' BY SMT, <1>1, <1>4, <1>6 DEF IInv, Published, Verify, Typed, Manifest
<1>17. Accounted' BY <1>2, <1>3, <1>4, <1>5 DEF IInv, Accounted, JobFiles
<1> QED BY <1>8, <1>9, <1>10, <1>11, <1>12, <1>13, <1>14, <1>15, <1>16, <1>17 DEF IInv

\* The reader takes the new generation; the job keeps the old one.
LEMMA InstallStep ==
    ASSUME IInv, InstallView
    PROVE  IInv'
<1> USE ManifestFields DEF countVars, diskVars
<1>1. Typed BY DEF IInv
<1>2. /\ mode = "up" /\ current = Named /\ pointer = Generation(current)
      /\ job.step = "install" /\ job \in Job
  BY <1>1 DEF IInv, Memory, InstallView, Typed
<1>3. /\ job' = [job EXCEPT !.step = AfterInstall, !.next = view]
      /\ view' = current
      /\ UNCHANGED <<live, trash, manifests, pointer, saved, mode, current, jobs, pins, pending, snap, faults, crashes, env>>
  BY DEF InstallView
<1>4. /\ job'.step = AfterInstall /\ job'.next = view /\ job'.inputs = job.inputs /\ job'.op = job.op
      /\ AfterInstall \in {"retire", "retire_artifacts"}
      /\ job' \in Job
  BY <1>1, <1>2, <1>3 DEF Job, Steps, AfterInstall, Typed
<1>5. Named' = Named BY <1>3 DEF Named
<1>6. Typed'
  <2>1. Files(view) \subseteq Known BY <1>1 DEF IInv, FilesInPlace, Typed
  <2> QED BY <1>1, <1>3, <1>4, <2>1 DEF Typed, Known
<1>7. Memory' BY <1>2, <1>3, <1>4, <1>5 DEF Memory
<1>8. FilesInPlace' /\ PendingUnused'
  BY <1>2, <1>3, <1>5 DEF IInv, FilesInPlace, PendingUnused, Named
<1>9. Making' /\ Replacing'
  BY <1>2, <1>3, <1>4 DEF IInv, Making, Replacing, Publishing
<1>10. PinsExact' BY SMT, <1>3 DEF IInv, PinsExact, Holders
<1>11. Copying' /\ Published' BY <1>3 DEF IInv, Copying, Published, Verify
<1>12. Accounted'
  <2>1. Segments(view) \subseteq job.inputs \cup Files(current) /\ (job.op = "checkpoint" => job.inputs = {})
        /\ job.op \in {"checkpoint", "compact"}
    BY <1>2 DEF IInv, Replacing
  <2>2. Files(view) \subseteq Files(current) \cup JobFiles'
    BY <1>4, <2>1 DEF JobFiles, AfterInstall
  <2>3. faults = 0 /\ crashes = 0 => live \subseteq Files(current) \cup pending \cup Files(view)
    BY <1>2 DEF IInv, Accounted, JobFiles
  <2>4. mode' = "up" BY <1>2, <1>3
  <2> QED BY <1>3, <2>2, <2>3, <2>4 DEF IInv, Accounted
<1> QED BY <1>6, <1>7, <1>8, <1>9, <1>10, <1>11, <1>12 DEF IInv

\* A step of a job retires ids, of which the files in free leave their
\* directories: no Snapshot copies those, and the current generation, which
\* the reader uses too by then, has none of the ids.
LEMMA RetireStep ==
    ASSUME IInv, mode = "up", job.step \in {"retire", "retire_artifacts", "collect"},
           NEW ids \in SUBSET Known, NEW free \in SUBSET ids,
           ids \cap Files(current) = {},
           \A f \in free : pins[f] = 0,
           live' = live \ free, pending' \subseteq pending \cup ids,
           trash' \subseteq trash \cup live,
           job' \in {[job EXCEPT !.step = "retire_artifacts"], [job EXCEPT !.step = "collect"], NoJob},
           faults' \in Nat, crashes' = crashes, Accounted',
           UNCHANGED <<manifests, pointer, saved, mode, current, view, jobs, pins, snap, env>>
    PROVE  IInv'
<1> USE ManifestFields
<1>1. Typed BY DEF IInv
<1>2. current = Named /\ view = current /\ Named' = Named
  BY DEF IInv, Memory, Named
<1>3. /\ job' \in Job /\ job'.step \in {"retire_artifacts", "collect", "none"}
      /\ Files(job'.next) \subseteq Known /\ job'.inputs \subseteq Known
  <2>1. NoJob \in Job /\ NoJob.step = "none" /\ NoJob.next = None /\ NoJob.inputs = {}
    BY DEF NoJob, Job, Steps
  <2>2. \A x \in {"retire_artifacts", "collect"} :
            /\ [job EXCEPT !.step = x] \in Job /\ [job EXCEPT !.step = x].step = x
            /\ [job EXCEPT !.step = x].next = job.next /\ [job EXCEPT !.step = x].inputs = job.inputs
    BY <1>1 DEF Typed, Job, Steps
  <2> QED BY <1>1, <2>1, <2>2 DEF Typed
<1>4. Typed' BY <1>1, <1>3 DEF Typed, Known
<1>5. Memory' BY <1>2, <1>3 DEF IInv, Memory
<1>6. FilesInPlace' BY <1>2 DEF IInv, FilesInPlace, Named
<1>7. PendingUnused' BY <1>2 DEF IInv, PendingUnused
<1>8. Making' /\ Replacing' BY <1>3 DEF Making, Replacing, Publishing
<1>9. PinsExact' BY SMT DEF IInv, PinsExact, Holders
<1>10. Copying'
  <2>1. \A s \in Snapshots : free \cap Files(snap[s].of) = {}
    <3>1. \A f \in free : f \in File /\ Holders(f) = {}
      BY <1>1, PinCount DEF IInv, Known
    <3> QED BY <3>1 DEF Holders
  <2> QED BY SMT, <1>1, <2>1 DEF IInv, Copying, Typed, Snap
<1>11. Published' BY DEF IInv, Published, Verify
<1> QED BY <1>4, <1>5, <1>6, <1>7, <1>8, <1>9, <1>10, <1>11 DEF IInv

\* The steps that retire: the inputs of a compaction, the artifacts of the
\* replaced generation, and what was pending.
LEMMA RetireSteps ==
    ASSUME IInv, Retire \/ RetireArtifacts \/ CollectTrash
    PROVE  IInv'
<1> USE ManifestFields DEF countVars, readVars
<1>1. Typed BY DEF IInv
<1>2. /\ mode = "up" /\ job.step \in {"retire", "retire_artifacts", "collect"}
      /\ UNCHANGED <<manifests, pointer, saved, mode, current, view, jobs, pins, snap, faults, crashes, env>>
      /\ view = current /\ current = Named
      /\ pending \cap Files(current) = {} /\ faults' \in Nat
  <2>1. faults \in Nat BY <1>1 DEF Typed
  <2> QED BY <2>1 DEF IInv, Memory, PendingUnused, Retire, RetireArtifacts, CollectTrash, Advance
<1>3. CASE Retire
  <2> DEFINE free == {f \in job.inputs : pins[f] = 0}
  <2>1. /\ job.step = "retire" /\ job' = [job EXCEPT !.step = "retire_artifacts"]
        /\ live' = live \ free /\ trash' = trash \cup (live \cap free)
        /\ pending' = (pending \cup job.inputs) \ free
    BY <1>3 DEF Retire, Advance, RetireLocked
  <2>2. job.inputs \cap Files(current) = {} /\ job.inputs \subseteq Known
    BY <1>1, <2>1 DEF IInv, Replacing, Typed
  <2>3. Accounted'
    <3>1. JobFiles = job.inputs \cup Artifacts(job.next) /\ JobFiles' = Artifacts(job.next)
      BY <1>1, <2>1 DEF JobFiles, Typed, Job
    <3>2. \A f \in job.inputs : pins[f] \in Nat
      BY <1>1, <2>2 DEF Typed, Known
    <3> QED BY SMT, <1>2, <2>1, <3>1, <3>2 DEF IInv, Accounted
  <2>4. free \subseteq job.inputs /\ \A f \in free : pins[f] = 0 OBVIOUS
  <2> HIDE DEF free
  <2> QED BY <1>2, <2>1, <2>2, <2>3, <2>4, RetireStep
<1>4. CASE RetireArtifacts
  <2> DEFINE ids == ReplacedArtifacts(job.next, current)
             free == {f \in ids : pins[f] = 0}
  <2>1. /\ job.step = "retire_artifacts" /\ job' = [job EXCEPT !.step = "collect"]
        /\ live' = live \ free /\ trash' = trash \cup (live \cap free)
        /\ pending' = (pending \cup ids) \ free
    BY <1>4 DEF RetireArtifacts, Advance, RetireLocked
  <2>2. ids \cap Files(current) = {} /\ ids \subseteq Known
    BY <1>1 DEF Typed, ReplacedArtifacts
  <2>3. Accounted'
    <3>1. JobFiles = Artifacts(job.next) /\ JobFiles' = {} /\ Artifacts(job.next) \subseteq ids \cup Files(current)
      BY <1>1, <2>1 DEF JobFiles, Typed, Job, ReplacedArtifacts
    <3>2. \A f \in ids : pins[f] \in Nat
      BY <1>1, <2>2 DEF Typed, Known
    <3> HIDE DEF ids
    <3> QED BY SMT, <1>2, <2>1, <3>1, <3>2 DEF IInv, Accounted
  <2>4. free \subseteq ids /\ \A f \in free : pins[f] = 0 OBVIOUS
  <2> HIDE DEF free, ids
  <2> QED BY <1>2, <2>1, <2>2, <2>3, <2>4, RetireStep
<1>5. CASE CollectTrash
  <2> DEFINE free == {f \in pending : pins[f] = 0}
  <2>1. /\ job.step = "collect" /\ job' = NoJob
        /\ live' = live \ free /\ trash' = {}
        /\ pending' = (pending \cup pending) \ free
    BY <1>5 DEF CollectTrash, Advance
  <2>2. Accounted'
    <3>1. JobFiles = {} /\ JobFiles' = {}
      BY <1>1, <2>1 DEF JobFiles, NoJob
    <3>2. \A f \in pending : pins[f] \in Nat
      BY <1>1 DEF Typed, Known
    <3> QED BY <1>2, <2>1, <3>1, <3>2 DEF IInv, Accounted
  <2>3. free \subseteq pending /\ (\A f \in free : pins[f] = 0) /\ pending \subseteq Known
    BY <1>1 DEF Typed
  <2> HIDE DEF free
  <2> QED BY <1>2, <2>1, <2>2, <2>3, RetireStep
<1> QED BY <1>3, <1>4, <1>5

\* A file that could not be retired stays pending, and the job ends.
LEMMA FailRetireStep ==
    ASSUME IInv, FailRetire
    PROVE  IInv'
<1> USE ManifestFields DEF readVars
<1>1. Typed BY DEF IInv
<1>2. /\ mode = "up" /\ job.step \in {"retire", "retire_artifacts", "collect"}
      /\ job' = NoJob
      /\ UNCHANGED <<manifests, pointer, saved, mode, current, view, jobs, pins, snap, crashes, env>>
      /\ view = current /\ current = Named
      /\ faults' \in Nat /\ faults' # 0
  BY SMT, <1>1 DEF IInv, Memory, FailRetire, Typed
<1>3. Retired \subseteq Known /\ Retired \cap Files(current) = {}
  <2>1. \/ job.step = "retire" /\ Retired = job.inputs
        \/ job.step = "retire_artifacts" /\ Retired = ReplacedArtifacts(job.next, current)
        \/ Retired \subseteq pending
    BY <1>2 DEF Retired
  <2>2. job.step = "retire" => job.inputs \cap Files(current) = {} BY DEF IInv, Replacing
  <2>3. pending \cap Files(current) = {} BY <1>2 DEF IInv, PendingUnused
  <2> QED BY <1>1, <2>1, <2>2, <2>3 DEF Typed, ReplacedArtifacts
<1>4. PICK free \in SUBSET Retired :
        /\ \A g \in free : pins[g] = 0
        /\ live' = live \ free /\ trash' \subseteq trash \cup live
        /\ pending' \subseteq pending \cup Retired
  <2> DEFINE unpinned == {g \in Retired : pins[g] = 0}
  <2>f. PICK f \in unpinned : \E kept \in {{}, {f}} :
          /\ live' = live \ (unpinned \ kept)
          /\ trash' = IF job.step = "collect" THEN {} ELSE trash \cup (live \cap (unpinned \ kept))
          /\ pending' = (pending \cup Retired) \ (unpinned \ {f})
    BY Zenon DEF FailRetire
  <2>1. PICK kept \in {{}, {f}} :
          /\ live' = live \ (unpinned \ kept)
          /\ trash' = IF job.step = "collect" THEN {} ELSE trash \cup (live \cap (unpinned \ kept))
          /\ pending' = (pending \cup Retired) \ (unpinned \ {f})
    BY <2>f, Zenon
  <2>2. unpinned \ kept \in SUBSET Retired /\ \A g \in unpinned \ kept : pins[g] = 0
    OBVIOUS
  <2>3. trash' \subseteq trash \cup live /\ pending' \subseteq pending \cup Retired
    BY <2>1
  <2> HIDE DEF unpinned
  <2> QED BY <2>1, <2>2, <2>3
<1>5. Accounted' BY <1>2 DEF Accounted
<1> QED BY <1>2, <1>3, <1>4, <1>5, RetireStep

\* What is pending and not pinned is retired, and the job ends.
LEMMA FailCollectStep ==
    ASSUME IInv, FailCollect
    PROVE  IInv'
<1> USE ManifestFields DEF readVars
<1>1. Typed BY DEF IInv
<1>2. /\ mode = "up" /\ job.step \in {"retire", "retire_artifacts", "collect"}
      /\ job' = NoJob
      /\ UNCHANGED <<manifests, pointer, saved, mode, current, view, jobs, pins, snap, crashes, env>>
      /\ view = current /\ current = Named
      /\ faults' \in Nat /\ faults' # 0
  BY SMT, <1>1 DEF IInv, Memory, FailCollect, Typed
<1>3. Retired \subseteq pending /\ \A g \in Retired : pins[g] = 0
  BY DEF FailCollect, Retired
<1>4. pending \subseteq Known /\ pending \cap Files(current) = {}
  BY <1>1, <1>2 DEF IInv, PendingUnused, Typed
<1>5. live' = live \ Retired /\ trash' \subseteq trash \cup live /\ pending' \subseteq pending \cup pending
  BY DEF FailCollect
<1>6. Accounted' BY <1>2 DEF Accounted
<1> QED BY <1>2, <1>3, <1>4, <1>5, <1>6, RetireStep

\* A failed publication stops the engine, with CURRENT naming the old
\* generation or the new one: the files of both are in place.
LEMMA FailPublishStep ==
    ASSUME IInv, FailPublish
    PROVE  IInv'
<1> USE ManifestFields DEF readVars
<1>1. Typed BY DEF IInv
<1>2. /\ mode = "up" /\ current = Named /\ pointer = Generation(current)
      /\ job' = NoJob /\ mode' = "fatal" /\ faults' \in Nat /\ faults' # 0
      /\ UNCHANGED <<live, trash, manifests, saved, current, view, jobs, pins, pending, snap, crashes, env>>
  BY SMT, <1>1 DEF IInv, Memory, FailPublish, Typed
<1>3. /\ NoJob \in Job /\ NoJob.step = "none" /\ NoJob.next = None /\ NoJob.inputs = {}
  BY DEF NoJob, Job, Steps
<1>4. \/ pointer' = pointer
      \/ /\ pointer' = pointer + 1 /\ pointer' \in 1..MaxGenerations
         /\ manifests[pointer'] = job.next /\ job.next \in Manifest
         /\ job.next.files \subseteq live /\ pending \cap job.next.files = {}
  BY DEF IInv, Making, Publishing, FailPublish
<1>5. pointer \in Nat /\ pointer' \in Nat /\ pointer <= pointer' /\ pointer' \in 0..MaxGenerations
  BY SMT, <1>1, <1>4 DEF Typed
<1>6. Typed' BY <1>1, <1>2, <1>3, <1>5 DEF Typed, Known
<1>7. Memory' BY <1>2 DEF Memory
<1>8. FilesInPlace' BY <1>2, <1>4, <1>5 DEF IInv, FilesInPlace
<1>9. PendingUnused' BY SMT, <1>2, <1>4, <1>5 DEF IInv, PendingUnused, Named
<1>10. Making' /\ Replacing' BY <1>2, <1>3 DEF Making, Replacing, Publishing
<1>11. PinsExact' BY SMT, <1>2 DEF IInv, PinsExact, Holders
<1>12. Copying' BY SMT, <1>1, <1>2, <1>5 DEF IInv, Copying, Typed, Snap, Manifest
<1>13. Published' BY SMT, <1>1, <1>2, <1>5 DEF IInv, Published, Verify, Typed, Manifest
<1>14. Accounted' BY <1>2 DEF Accounted
<1> QED BY <1>6, <1>7, <1>8, <1>9, <1>10, <1>11, <1>12, <1>13, <1>14 DEF IInv

\* The parts of the invariant that a step of a Snapshot leaves alone when it
\* removes only pending files, none of them while a job publishes.
LEMMA SnapshotFrame ==
    ASSUME IInv, NEW free \in SUBSET pending,
           live' = live \ free, pending' = pending \ free, trash' \subseteq trash \cup live,
           free = {} \/ ~Publishing,
           saved' \subseteq Manifest, pins' \in [File -> Nat], snap' \in [Snapshots -> Snap],
           faults' \in Nat,
           UNCHANGED <<manifests, pointer, mode, current, view, jobVars, crashes, env>>
    PROVE  Typed' /\ Memory' /\ FilesInPlace' /\ PendingUnused' /\ Making' /\ Replacing'
<1> USE DEF jobVars
<1>1. Typed BY DEF IInv
<1>2. Named' = Named BY DEF Named
<1>3. Typed' BY <1>1 DEF Typed, Known
<1>4. Memory' BY <1>2 DEF IInv, Memory
<1>5. FilesInPlace' BY <1>2 DEF IInv, FilesInPlace, PendingUnused, Named
<1>6. PendingUnused' BY <1>2 DEF IInv, PendingUnused
<1>7. Making' BY DEF IInv, Making, Publishing
<1>8. Replacing' BY DEF IInv, Replacing
<1> QED BY <1>3, <1>4, <1>5, <1>6, <1>7, <1>8

\* A Snapshot pins the current generation.
LEMMA BeginSnapshotStep ==
    ASSUME IInv, NEW s \in Snapshots, BeginSnapshot(s)
    PROVE  IInv'
<1> USE ManifestFields
<1>1. Typed BY DEF IInv
<1>2. /\ mode = "up" /\ job = NoJob /\ snap[s].state = "idle"
      /\ current # None /\ current \in Manifest /\ current = Named /\ view = current
      /\ pointer = Generation(current) /\ pointer \in 1..MaxGenerations
      /\ UNCHANGED <<live, trash, manifests, pointer, saved, mode, current, view, jobVars, pending, faults, crashes, env>>
  <2>1. /\ mode = "up" /\ job = NoJob /\ snap[s].state = "idle" /\ current # None
        /\ UNCHANGED <<live, trash, manifests, pointer, saved, mode, current, view, jobVars, pending, faults, crashes, env>>
    BY DEF BeginSnapshot, diskVars, countVars
  <2>2. current \in Manifest BY <1>1, <2>1 DEF Typed
  <2>3. job.step # "install" BY <2>1 DEF NoJob
  <2> QED BY <2>1, <2>2, <2>3 DEF IInv, Memory
<1>3. PICK x : x = [state |-> "copying", of |-> current, copied |-> {}] OBVIOUS
<1>4. /\ x \in Snap /\ x.of = current /\ x.state = "copying"
      /\ snap' = [snap EXCEPT ![s] = x]
      /\ snap' \in [Snapshots -> Snap] /\ snap'[s] = x
      /\ \A t \in Snapshots \ {s} : snap'[t] = snap[t]
  <2>1. x \in Snap /\ x.of = current /\ x.state = "copying" BY <1>2, <1>3 DEF Snap
  <2>2. snap' = [snap EXCEPT ![s] = x] BY <1>3 DEF BeginSnapshot
  <2> QED BY <1>1, <2>1, <2>2 DEF Typed
<1>5. pins' = [f \in File |-> pins[f] + IF f \in Files(current) THEN 1 ELSE 0] /\ pins' \in [File -> Nat]
  BY SMT, <1>1 DEF BeginSnapshot, Pinned, Typed
<1>6. snap[s].of = None BY <1>2 DEF IInv, Copying
<1>7. Typed' /\ Memory' /\ FilesInPlace' /\ PendingUnused' /\ Making' /\ Replacing'
  <2>1. live' = live \ {} /\ pending' = pending \ {} /\ trash' \subseteq trash \cup live BY <1>2
  <2> QED BY <1>1, <1>2, <1>4, <1>5, <2>1, SnapshotFrame DEF Typed
<1>8. PinsExact'
  <2> SUFFICES ASSUME NEW f \in File
               PROVE  pins'[f] = Cardinality(Holders(f)')
    BY <1>5 DEF PinsExact
  <2>1. Holders(f)' = IF f \in Files(current) THEN Holders(f) \cup {s} ELSE Holders(f)
    BY <1>4, <1>6 DEF Holders
  <2>2. s \notin Holders(f) BY <1>6 DEF Holders
  <2>3. IsFiniteSet(Holders(f))
    <3>1. Holders(f) \in SUBSET Snapshots BY DEF Holders
    <3> QED BY <3>1, FS_Subset, LifecycleAssumption
  <2>4. Cardinality(Holders(f) \cup {s}) = Cardinality(Holders(f)) + 1
    BY <2>2, <2>3, FS_AddElement
  <2>5. pins[f] = Cardinality(Holders(f)) /\ pins[f] \in Nat BY <1>1 DEF IInv, PinsExact, Typed
  <2> QED BY SMT, <1>5, <2>1, <2>4, <2>5
<1>9. Copying'
  <2>1. /\ current.gen <= pointer /\ manifests[current.gen] = current /\ current.files \subseteq live
    BY SMT, <1>2 DEF IInv, FilesInPlace, Named
  <2> QED BY <1>2, <1>4, <2>1 DEF IInv, Copying
<1>10. Published' BY <1>2 DEF IInv, Published, Verify
<1>11. Accounted'
  <2>1. JobFiles' = JobFiles BY <1>2 DEF JobFiles, jobVars
  <2>2. \A f \in pending : pins[f] > 0 => pins'[f] > 0
    BY SMT, <1>1, <1>5 DEF Typed, Known
  <2> QED BY <1>2, <2>1, <2>2 DEF IInv, Accounted
<1> QED BY <1>7, <1>8, <1>9, <1>10, <1>11 DEF IInv

\* A copied file is in its place.
LEMMA CopyStep ==
    ASSUME IInv, NEW s \in Snapshots, NEW f, CopyFile(s, f)
    PROVE  IInv'
<1> USE ManifestFields
<1>1. Typed BY DEF IInv
<1>2. UNCHANGED <<live, trash, manifests, pointer, saved, mode, current, view, jobVars, pins, pending, faults, crashes, env>>
  BY DEF CopyFile, diskVars, countVars
<1>3. f \in File BY <1>1 DEF CopyFile, Typed, Known
<1>4. /\ snap' \in [Snapshots -> Snap]
      /\ \A t \in Snapshots : snap'[t].of = snap[t].of /\ snap'[t].state = snap[t].state
  <2>1. snap' = [snap EXCEPT ![s] = [snap[s] EXCEPT !.copied = @ \cup {f}]]
    BY DEF CopyFile
  <2>2. \A x \in Snap : LET y == [x EXCEPT !.copied = @ \cup {f}]
                        IN  y \in Snap /\ y.of = x.of /\ y.state = x.state
    BY <1>3 DEF Snap
  <2>3. snap \in [Snapshots -> Snap] /\ snap[s] \in Snap BY <1>1 DEF Typed
  <2> QED BY <2>1, <2>2, <2>3
<1>5. Typed' /\ Memory' /\ FilesInPlace' /\ PendingUnused' /\ Making' /\ Replacing'
  <2>1. live' = live \ {} /\ pending' = pending \ {} /\ trash' \subseteq trash \cup live BY <1>2
  <2> QED BY <1>1, <1>2, <1>4, <2>1, SnapshotFrame DEF Typed
<1>6. PinsExact'
  <2>1. \A g \in File : Holders(g)' = Holders(g) BY <1>4 DEF Holders
  <2> QED BY <1>2, <2>1 DEF IInv, PinsExact
<1>7. Copying' BY <1>2, <1>4 DEF IInv, Copying
<1>8. Published' BY <1>2 DEF IInv, Published, Verify
<1>9. Accounted' BY <1>2 DEF IInv, Accounted, JobFiles, jobVars
<1> QED BY <1>5, <1>6, <1>7, <1>8, <1>9 DEF IInv

\* A Snapshot releases its pins, and what only it pinned is retired.
LEMMA ReleaseStep ==
    ASSUME IInv, NEW s \in Snapshots, Release(s), saved' \subseteq Manifest, Published',
           faults' \in Nat, faults' = 0 => faults = 0, UNCHANGED <<crashes, env>>
    PROVE  IInv'
<1> USE ManifestFields
<1>1. Typed BY DEF IInv
<1> DEFINE free == {f \in pending : pins'[f] = 0 /\ f \in Files(snap[s].of)}
<1>2. /\ ~Publishing
      /\ pins' = [f \in File |-> pins[f] - IF f \in Files(snap[s].of) THEN 1 ELSE 0]
      /\ live' = live \ free /\ trash' \subseteq trash \cup live /\ pending' = pending \ free
      /\ snap' = [snap EXCEPT ![s] = NoSnapshot]
      /\ UNCHANGED <<manifests, pointer, mode, current, view, jobVars>>
  BY <1>1 DEF Release, Pinned, Typed
<1>3. /\ snap' \in [Snapshots -> Snap]
      /\ snap'[s].of = None /\ snap'[s].state = "idle"
      /\ \A t \in Snapshots \ {s} : snap'[t] = snap[t]
  <2>1. NoSnapshot \in Snap /\ NoSnapshot.of = None /\ NoSnapshot.state = "idle"
    BY DEF NoSnapshot, Snap
  <2> QED BY <1>1, <1>2, <2>1 DEF Typed
<1>4. \A f \in File : /\ pins'[f] = Cardinality(Holders(f)') /\ pins'[f] \in Nat
                      /\ pins'[f] = 0 => Holders(f)' = {}
                      /\ f \notin Files(snap[s].of) => pins'[f] = pins[f]
  <2> SUFFICES ASSUME NEW f \in File
               PROVE  /\ pins'[f] = Cardinality(Holders(f)') /\ pins'[f] \in Nat
                      /\ pins'[f] = 0 => Holders(f)' = {}
                      /\ f \notin Files(snap[s].of) => pins'[f] = pins[f]
    OBVIOUS
  <2>1. Holders(f)' = Holders(f) \ {s} BY <1>3 DEF Holders
  <2>2. s \in Holders(f) <=> f \in Files(snap[s].of) BY DEF Holders
  <2>3. IsFiniteSet(Holders(f))
    <3>1. Holders(f) \in SUBSET Snapshots BY DEF Holders
    <3> QED BY <3>1, FS_Subset, LifecycleAssumption
  <2>4. /\ IsFiniteSet(Holders(f) \ {s})
        /\ Cardinality(Holders(f) \ {s}) =
               IF s \in Holders(f) THEN Cardinality(Holders(f)) - 1 ELSE Cardinality(Holders(f))
    BY <2>3, FS_RemoveElement
  <2>5. pins[f] = Cardinality(Holders(f)) /\ pins[f] \in Nat BY <1>1 DEF IInv, PinsExact, Typed
  <2>6. pins'[f] = pins[f] - IF f \in Files(snap[s].of) THEN 1 ELSE 0 BY <1>2
  <2>7. pins'[f] = Cardinality(Holders(f)') BY SMT, <2>1, <2>2, <2>4, <2>5, <2>6
  <2>8. Cardinality(Holders(f)') \in Nat BY <2>1, <2>4, FS_CardinalityType
  <2>9. Cardinality(Holders(f)') = 0 => Holders(f)' = {} BY <2>1, <2>4, FS_EmptySet
  <2>10. f \notin Files(snap[s].of) => pins'[f] = pins[f] BY SMT, <2>5, <2>6
  <2> QED BY <2>7, <2>8, <2>9, <2>10
<1>5. pins' \in [File -> Nat] BY <1>2, <1>4
<1>6. Typed' /\ Memory' /\ FilesInPlace' /\ PendingUnused' /\ Making' /\ Replacing'
  <2>1. free \subseteq pending OBVIOUS
  <2> HIDE DEF free
  <2> QED BY <1>2, <1>3, <1>5, <2>1, SnapshotFrame
<1>7. PinsExact' BY <1>2, <1>4 DEF PinsExact
<1>8. Copying'
  <2>1. \A t \in Snapshots : free \cap Files(snap'[t].of) = {}
    <3>1. \A f \in free : f \in File /\ Holders(f)' = {} BY <1>1, <1>4 DEF Typed, Known
    <3> HIDE DEF free
    <3> QED BY <3>1 DEF Holders
  <2> HIDE DEF free
  <2>2. \A t \in Snapshots : snap'[t].of # None => snap'[t] = snap[t] BY <1>3
  <2> QED BY <1>2, <1>3, <2>1, <2>2 DEF IInv, Copying, Files
<1>9. Accounted'
  <2>1. JobFiles' = JobFiles BY <1>2 DEF JobFiles, jobVars
  <2>2. \A f \in pending : pins[f] > 0 /\ f \notin free => pins'[f] > 0
    BY SMT, <1>1, <1>4 DEF Typed, Known
  <2> HIDE DEF free
  <2> QED BY <1>2, <2>1, <2>2 DEF IInv, Accounted
<1> QED BY <1>6, <1>7, <1>8, <1>9 DEF IInv

\* A Snapshot is published whole, or given up.
LEMMA EndSnapshotStep ==
    ASSUME IInv, NEW s \in Snapshots, PublishSnapshot(s) \/ AbandonSnapshot(s)
    PROVE  IInv'
<1> USE ManifestFields
<1>1. Typed BY DEF IInv
<1>2. Release(s) /\ snap[s].state = "copying" /\ UNCHANGED <<manifests, pointer, crashes, env>>
  BY DEF PublishSnapshot, AbandonSnapshot, Release, countVars
<1>3. PICK m : m = snap[s].of OBVIOUS
<1>4. m \in Manifest /\ m.gen <= pointer /\ manifests[m.gen] = m
  BY <1>1, <1>2, <1>3 DEF IInv, Copying, Typed, Snap
<1>5. CASE PublishSnapshot(s)
  <2>1. saved' = saved \cup {[gen |-> m.gen, files |-> m.files]} /\ faults' = faults
    BY <1>3, <1>4, <1>5 DEF PublishSnapshot, countVars
  <2>2. saved' \subseteq Manifest BY <1>1, <1>4, <2>1 DEF Typed, Manifest
  <2>3. Published' BY SMT, <1>2, <1>4, <2>1 DEF IInv, Published, Verify
  <2> QED BY <1>1, <1>2, <2>1, <2>2, <2>3, ReleaseStep DEF Typed
<1>6. CASE AbandonSnapshot(s)
  <2>1. saved' = saved /\ faults' = faults + 1 BY <1>6 DEF AbandonSnapshot
  <2>2. Published' BY <1>2, <2>1 DEF IInv, Published, Verify
  <2> QED BY SMT, <1>1, <1>2, <2>1, <2>2, ReleaseStep DEF Typed
<1> QED BY <1>5, <1>6

\* A crash keeps the disk only.
LEMMA CrashStep ==
    ASSUME IInv, Crash
    PROVE  IInv'
<1> USE ManifestFields
<1>1. Typed BY DEF IInv
<1>2. /\ mode' = "down" /\ current' = None /\ view' = None /\ job' = NoJob
      /\ pins' = NoPins /\ pending' = {} /\ snap' = [s \in Snapshots |-> NoSnapshot]
      /\ crashes' \in Nat /\ crashes' # 0
      /\ UNCHANGED <<live, trash, manifests, pointer, saved, jobs, faults, env>>
  BY SMT, <1>1 DEF Crash, diskVars, Typed
<1>3. /\ NoJob \in Job /\ NoJob.step = "none" /\ NoJob.next = None /\ NoJob.inputs = {}
      /\ NoSnapshot \in Snap /\ NoSnapshot.of = None /\ NoSnapshot.state = "idle"
  BY DEF NoJob, Job, Steps, NoSnapshot, Snap
<1>4. Typed'
  <2>1. NoPins \in [File -> Nat] BY DEF NoPins, File
  <2> QED BY <1>1, <1>2, <1>3, <2>1 DEF Typed, Known
<1>5. Memory' /\ PendingUnused' BY <1>2 DEF Memory, PendingUnused
<1>6. FilesInPlace' BY <1>2 DEF IInv, FilesInPlace
<1>7. Making' /\ Replacing' BY <1>2, <1>3 DEF Making, Replacing, Publishing
<1>8. PinsExact'
  <2>1. \A f \in File : Holders(f)' = {} BY <1>2, <1>3 DEF Holders
  <2> QED BY <1>2, <2>1, FS_EmptySet DEF PinsExact, NoPins, File
<1>9. Copying' BY <1>2, <1>3 DEF Copying
<1>10. Published' BY <1>2 DEF IInv, Published, Verify
<1>11. Accounted' BY <1>2 DEF Accounted
<1> QED BY <1>4, <1>5, <1>6, <1>7, <1>8, <1>9, <1>10, <1>11 DEF IInv

\* A restart takes the generation CURRENT names.
LEMMA OpenStep ==
    ASSUME IInv, Open
    PROVE  IInv'
<1> USE ManifestFields
<1>1. Typed BY DEF IInv
<1>2. /\ mode = "down" /\ mode' = "up" /\ current' = Named /\ view' = Named
      /\ job = NoJob /\ job.step = "none" /\ pending = {}
      /\ UNCHANGED <<live, trash, manifests, pointer, saved, job, jobs, pins, pending, snap, faults, crashes, env>>
  <2>1. NoJob.step = "none" BY SMT DEF NoJob
  <2> QED BY <2>1 DEF IInv, Memory, Open, Named, diskVars, jobVars, countVars
<1>3. Named \in Manifest \cup {None} /\ Named' = Named BY SMT, <1>1, <1>2 DEF Named, Typed
<1>4. Typed' BY <1>1, <1>2, <1>3 DEF Typed, Known
<1>5. Memory'
  <2>1. pointer = Generation(Named)
    BY SMT, <1>1 DEF Named, Typed, IInv, FilesInPlace
  <2> QED BY <1>2, <1>3, <2>1 DEF Memory
<1>6. FilesInPlace' /\ PendingUnused'
  BY <1>2, <1>3 DEF IInv, FilesInPlace, PendingUnused, Named
<1>7. Making' /\ Replacing' BY <1>2 DEF Making, Replacing, Publishing
<1>8. PinsExact' BY <1>2 DEF IInv, PinsExact, Holders
<1>9. Copying' /\ Published' BY <1>2 DEF IInv, Copying, Published, Verify
<1>10. Accounted' BY <1>2 DEF IInv, Accounted, JobFiles
<1> QED BY <1>4, <1>5, <1>6, <1>7, <1>8, <1>9, <1>10 DEF IInv

\* Every step keeps the invariant.
LEMMA InvariantStep ==
    ASSUME IInv, [Next]_vars
    PROVE  IInv'
<1>1. env.readers \subseteq Readers /\ env.snapshots \subseteq Snapshots
  BY LifecycleAssumption DEF IInv, Typed
<1>2. CASE UNCHANGED vars
  BY <1>2, ReadStep DEF vars
<1>3. CASE \E r \in env.readers : EndRead(r) \/ \E f \in Segments(view) : StartRead(r, f)
  BY <1>3, ReadStep DEF EndRead, StartRead
<1>4. CASE BeginCheckpoint
  <2>1. {} \in SUBSET Segments(current) OBVIOUS
  <2> QED BY <1>4, <2>1, BeginStep DEF BeginCheckpoint
<1>5. CASE \E inputs \in SUBSET Segments(current) : BeginCompact(inputs)
  <2>1. PICK inputs \in SUBSET Segments(current) : BeginCompact(inputs) BY <1>5
  <2> QED BY <2>1, BeginStep DEF BeginCompact
<1>6. CASE JobStep
  BY <1>6, WriteStep, PublishStep, InstallStep, RetireSteps DEF JobStep
<1>7. CASE FailPublish \/ FailRetire \/ FailCollect
  BY <1>7, FailPublishStep, FailRetireStep, FailCollectStep
<1>8. CASE \E s \in env.snapshots : BeginSnapshot(s) \/ SnapshotStep(s) \/ AbandonSnapshot(s)
  <2>1. PICK s \in Snapshots : BeginSnapshot(s) \/ SnapshotStep(s) \/ AbandonSnapshot(s)
    BY <1>1, <1>8
  <2> QED BY <2>1, BeginSnapshotStep, CopyStep, EndSnapshotStep DEF SnapshotStep
<1>9. CASE Crash \/ Open
  BY <1>9, CrashStep, OpenStep
<1> QED BY <1>2, <1>3, <1>4, <1>5, <1>6, <1>7, <1>8, <1>9 DEF Next

-----------------------------------------------------------------------------
(* What the files are worth.                                               *)

\* The inductive invariant holds at every step of jobs, Snapshots and reads,
\* through failures, crashes and restarts.
THEOREM LifecycleInvariant == Spec => []IInv
<1>1. IInv /\ [Next]_vars => IInv' BY InvariantStep
<1> QED BY InvariantInit, <1>1, PTL DEF Spec

\* Whatever step of a Checkpoint or a Compact the process dies or fails at,
\* every file of the generation CURRENT names, and of the one the reader
\* uses, is in its place.
THEOREM CurrentInPlace == Spec => []FilesInPlace
<1>1. IInv => FilesInPlace BY DEF IInv
<1> QED BY LifecycleInvariant, <1>1, PTL

\* A Snapshot finds every file it has still to copy, and a published one is
\* a generation as a whole, for any number of Snapshots and of jobs that
\* retire their generations.
THEOREM SnapshotsAreWhole == Spec => []SnapshotsWhole
<1>1. IInv => SnapshotsWhole
  <2> SUFFICES ASSUME IInv PROVE SnapshotsWhole OBVIOUS
  <2>1. \A s \in Snapshots : Files(snap[s].of) \subseteq live
    BY DEF IInv, Copying, Files
  <2> QED BY <2>1 DEF IInv, Published, SnapshotsWhole
<1> QED BY LifecycleInvariant, <1>1, PTL

\* Without failures nothing is left between jobs of replaced generations but
\* what a Snapshot pins.
THEOREM NoFileLeaks == Spec => []NothingLeaks
<1>1. IInv => NothingLeaks
  <2> SUFFICES ASSUME IInv, mode = "up", job = NoJob, faults = 0, crashes = 0
               PROVE  live \subseteq Files(current) \cup {f \in DOMAIN pins : pins[f] > 0}
    BY DEF NothingLeaks
  <2>1. JobFiles = {} BY SMT DEF JobFiles, NoJob
  <2>2. live \subseteq Files(current) \cup pending /\ \A f \in pending : pins[f] > 0
    BY <2>1 DEF IInv, Accounted
  <2>3. pending \subseteq DOMAIN pins BY SMT DEF IInv, Typed, Known
  <2> QED BY <2>2, <2>3
<1> QED BY LifecycleInvariant, <1>1, PTL

\* A file leaves its directory only when neither CURRENT nor the reader nor a
\* Snapshot refers to it, whichever action retires it.
THEOREM FilesLeaveUnused == Spec => LeavesUnused
<1>1. IInv /\ [Next]_vars =>
        [\A f \in live \ live' :
            pins'[f] = 0 /\ f \notin Files(view') /\ (pointer' # 0 => f \notin Files(manifests[pointer']))]_vars
  <2> SUFFICES ASSUME IInv, Next, IInv', NEW f \in live \ live'
               PROVE  pins'[f] = 0 /\ f \notin Files(view') /\ (pointer' # 0 => f \notin Files(manifests[pointer']))
    BY InvariantStep
  <2>1. UNCHANGED manifests /\ pins'[f] = 0
    <3>1. CASE \E s \in env.snapshots : SnapshotStep(s) \/ AbandonSnapshot(s)
      <4>1. PICK s \in env.snapshots : SnapshotStep(s) \/ AbandonSnapshot(s) BY <3>1
      <4>2. Release(s) BY <4>1 DEF SnapshotStep, PublishSnapshot, AbandonSnapshot, CopyFile, diskVars
      <4> QED BY <4>2 DEF Release
    <3>2. CASE Retire \/ RetireArtifacts
      BY <3>2 DEF Retire, RetireArtifacts, RetireLocked
    <3>3. CASE CollectTrash
      BY <3>3 DEF CollectTrash
    <3>4. CASE FailRetire \/ FailCollect
      <4>1. FailCollect => \A g \in Retired : pins[g] = 0
        BY DEF FailCollect, Retired
      <4> QED BY <3>4, <4>1 DEF FailRetire, FailCollect
    <3>5. CASE WriteSegment \/ BuildReferences
      BY <3>5 DEF WriteSegment, BuildReferences
    <3>6. \/ live' = live \/ Retire \/ RetireArtifacts \/ CollectTrash \/ FailRetire \/ FailCollect
          \/ WriteSegment \/ BuildReferences
          \/ \E s \in env.snapshots : SnapshotStep(s) \/ AbandonSnapshot(s)
      BY DEF Next, JobStep, EndRead, StartRead, BeginCheckpoint, BeginCompact, Begin, WriteManifest,
             PublishCurrent, InstallView, FailPublish, BeginSnapshot, Crash, Open, diskVars
    <3> QED BY <3>1, <3>2, <3>3, <3>4, <3>5, <3>6
  <2>2. FilesInPlace' BY DEF IInv
  <2> QED BY <2>1, <2>2 DEF FilesInPlace
<1> QED BY LifecycleInvariant, <1>1, PTL DEF Spec, LeavesUnused
=============================================================================
