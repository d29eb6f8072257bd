----------------------------- MODULE Lifecycle -----------------------------
(***************************************************************************)
(* The immutable files of a data directory while Checkpoint and Compact    *)
(* replace them: publication of a Manifest and of CURRENT                  *)
(* (storage/manifest), pins, retirement and trash (storage/lifecycle), the *)
(* open handles of the reader (storage/segment), and online Snapshots that *)
(* copy a pinned generation (storage/snapshot).                            *)
(*                                                                         *)
(* A file is its kind and the number of the job that wrote it.  The kinds  *)
(* are a Segment, an index (an artifact the Manifest names: Tail Catalog,  *)
(* Registry Snapshot, Locator Snapshot) and a pack (named by the Locator   *)
(* Snapshot only).  A Manifest is its generation and its files.            *)
(*                                                                         *)
(* Maintenance is serialised by maintenanceMu: one job at a time, with one *)
(* action per step that a crash or another thread can separate.            *)
(***************************************************************************)
EXTENDS Naturals, Sequences, FiniteSets

CONSTANTS
    Readers,        \* threads that read
    Snapshots,      \* online Snapshots
    Capacity,       \* idle handles the cache keeps
    MaxGenerations, \* bound on the Manifests published
    Environment,    \* threads and bounds on failed operations and deaths
    None            \* no file, no Manifest

Kinds == {"segment", "index", "pack"}

ASSUME LifecycleAssumption ==
    /\ Capacity \in Nat \ {0} /\ MaxGenerations \in Nat
    /\ IsFiniteSet(Snapshots)
    /\ None \notin [gen : Nat, files : SUBSET (Kinds \X Nat)]
    /\ \A e \in Environment : /\ e.readers \subseteq Readers /\ e.snapshots \subseteq Snapshots
                              /\ e.faults \in Nat /\ e.crashes \in Nat

VARIABLES
    live,       \* files in their directories
    trash,      \* files in the trash directory
    manifests,  \* Manifest files, by generation
    pointer,    \* generation CURRENT names, 0 for none
    saved,      \* published Snapshots: the files of each
    mode,       \* up, fatal, down
    current,    \* Manifest of the store, None before the first
    view,       \* Manifest of the reader
    job,        \* maintenance: operation, step, Manifest it makes, inputs
    pins,       \* for each file the number of pins
    pending,    \* files to be retired
    snap,       \* for each Snapshot idle or copying, its Manifest and the copied files
    reading,    \* for each reader the Segment it reads
    handles,    \* open handles, most recently used first
    jobs,       \* jobs begun
    faults,     \* failed operations
    crashes,    \* process deaths
    env         \* member of Environment

diskVars == <<live, trash, manifests, pointer, saved>>
jobVars == <<job, jobs>>
readVars == <<reading, handles>>
countVars == <<faults, crashes, env>>
vars == <<diskVars, mode, current, view, jobVars, pins, pending, snap, readVars, countVars>>

Files(m) == IF m = None THEN {} ELSE m.files
OfKind(files, kind) == {f \in files : f[1] = kind}
Segments(m) == OfKind(Files(m), "segment")
Artifacts(m) == Files(m) \ Segments(m)
Generation(m) == IF m = None THEN 0 ELSE m.gen

NoJob == [op |-> "none", step |-> "none", next |-> None, inputs |-> {}]
NoSnapshot == [state |-> "idle", of |-> None, copied |-> {}]
NoPins == [f \in Kinds \X (1..(2 * MaxGenerations)) |-> 0]

Serving == mode \in {"up", "fatal"}

\* The manager's lock is held while a Segment and its Manifest are published.
Publishing == job.step \in {"segment", "artifacts", "manifest", "current"}

-----------------------------------------------------------------------------
(* Handles of the reader.                                                  *)

Users(using, f) == {r \in Readers : using[r] = f}

\* Close idle handles, the least recently used first, down to the capacity:
\* an idle handle is kept when enough others behind it are closed.
Evict(open, using) ==
    LET idle == {i \in 1..Len(open) : Users(using, open[i]) = {}}
        closed == {i \in idle : Cardinality({j \in idle : j > i}) + Capacity < Len(open)}
    IN  SelectSeq(open, LAMBDA f : \A i \in closed : open[i] # f)

\* The files with an open handle.
Opened == {handles[i] : i \in 1..Len(handles)}

\* Acquire: a cached handle or a newly opened file.
StartRead(r, f) ==
    /\ Serving /\ reading[r] = None
    /\ f \in Segments(view)
    /\ f \in Opened \/ f \in live
    /\ reading' = [reading EXCEPT ![r] = f]
    /\ handles' = Evict(<<f>> \o SelectSeq(handles, LAMBDA g : g # f), reading')
    /\ UNCHANGED <<diskVars, mode, current, view, jobVars, pins, pending, snap, countVars>>

EndRead(r) ==
    /\ reading[r] # None
    /\ reading' = [reading EXCEPT ![r] = None]
    /\ handles' = Evict(handles, reading')
    /\ UNCHANGED <<diskVars, mode, current, view, jobVars, pins, pending, snap, countVars>>

\* A reader holds viewMu for the whole read: the view changes between reads.
NoReaders == \A r \in Readers : reading[r] = None

-----------------------------------------------------------------------------
(* Retirement.                                                             *)

\* Mutant: a pinned file is skipped and forgotten.
RetireUnpinned(ids) ==
    LET free == {f \in ids : pins[f] = 0} IN
    /\ live' = live \ free /\ trash' = trash \cup (live \cap free)
    /\ pending' = pending \ free

\* Files to retire wait in pending while they are pinned, the others are
\* renamed into the trash.
RetireLocked(ids) ==
    LET free == {f \in ids : pins[f] = 0} IN
    /\ live' = live \ free /\ trash' = trash \cup (live \cap free)
    /\ pending' = (pending \cup ids) \ free

\* What a replaced generation leaves: its artifacts and the packs of the
\* Locator that was open.
ReplacedArtifacts(old, new) == Artifacts(old) \ Artifacts(new)

-----------------------------------------------------------------------------
(* Checkpoint and Compact.                                                 *)

NextManifest(inputs) ==
    [gen |-> Generation(current) + 1,
     files |-> (Segments(current) \ inputs) \cup {<<kind, jobs + 1>> : kind \in Kinds}]

Begin(op, inputs) ==
    /\ mode = "up" /\ job = NoJob
    /\ Generation(current) < MaxGenerations /\ jobs < 2 * MaxGenerations
    /\ job' = [op |-> op, step |-> "segment", next |-> NextManifest(inputs), inputs |-> inputs]
    /\ jobs' = jobs + 1
    /\ UNCHANGED <<diskVars, mode, current, pins, pending, snap, countVars>>

\* The MemTable is frozen and the reader replaced by one with no handles.
BeginCheckpoint ==
    /\ Begin("checkpoint", {})
    /\ NoReaders /\ handles' = <<>>
    /\ UNCHANGED <<view, reading>>

BeginCompact(inputs) ==
    /\ Cardinality(inputs) >= 2
    /\ Begin("compact", inputs)
    /\ UNCHANGED <<view, readVars>>

Advance(from, to) ==
    /\ mode = "up" /\ job.step = from
    /\ job' = IF to = "none" THEN NoJob ELSE [job EXCEPT !.step = to]
    /\ UNCHANGED <<mode, jobs, snap, countVars>>

WriteSegment ==
    /\ Advance("segment", "artifacts")
    /\ live' = live \cup OfKind(job.next.files \ Files(current), "segment")
    /\ UNCHANGED <<trash, manifests, pointer, saved, current, view, pins, pending, readVars>>

BuildReferences ==
    /\ Advance("artifacts", "manifest")
    /\ live' = live \cup Artifacts(job.next)
    /\ UNCHANGED <<trash, manifests, pointer, saved, current, view, pins, pending, readVars>>

WriteManifest ==
    /\ Advance("manifest", "current")
    /\ manifests' = [manifests EXCEPT ![job.next.gen] = job.next]
    /\ UNCHANGED <<live, trash, pointer, saved, current, view, pins, pending, readVars>>

PublishCurrent ==
    /\ Advance("current", "install")
    /\ pointer' = job.next.gen /\ current' = job.next
    /\ UNCHANGED <<live, trash, manifests, saved, view, pins, pending, readVars>>

AfterInstall == IF job.op = "compact" THEN "retire" ELSE "retire_artifacts"

\* Mutant: the inputs are retired while the reader still uses them.
InstallViewLate ==
    /\ mode = "up" /\ job.step = "install"
    /\ job' = [job EXCEPT !.step = AfterInstall, !.next = view]
    /\ UNCHANGED <<diskVars, mode, current, view, jobs, pins, pending, snap, readVars, countVars>>

\* The job keeps the view it replaces, whose artifacts it retires.
InstallView ==
    /\ mode = "up" /\ job.step = "install" /\ NoReaders
    /\ job' = [job EXCEPT !.step = AfterInstall, !.next = view]
    /\ view' = current /\ handles' = <<>>
    /\ UNCHANGED <<diskVars, mode, current, jobs, pins, pending, snap, reading, countVars>>

Retire ==
    /\ Advance("retire", "retire_artifacts")
    /\ RetireLocked(job.inputs)
    /\ UNCHANGED <<manifests, pointer, saved, current, view, pins, readVars>>

RetireArtifacts ==
    /\ Advance("retire_artifacts", "collect")
    /\ RetireLocked(ReplacedArtifacts(job.next, current))
    /\ UNCHANGED <<manifests, pointer, saved, current, view, pins, readVars>>

\* Retry what is pending, then empty the trash.
CollectTrash ==
    LET free == {f \in pending : pins[f] = 0} IN
    /\ Advance("collect", "none")
    /\ live' = live \ free /\ trash' = {}
    /\ pending' = pending \ free
    /\ UNCHANGED <<manifests, pointer, saved, current, view, pins, readVars>>

\* Until the view is installed a failure stops the engine; CURRENT may have
\* been replaced by then.
FailPublish ==
    /\ mode = "up" /\ job.step \in {"segment", "artifacts", "manifest", "current", "install"}
    /\ faults < env.faults /\ faults' = faults + 1
    /\ job' = NoJob /\ mode' = "fatal"
    /\ pointer' \in {pointer} \cup (IF job.step = "current" THEN {job.next.gen} ELSE {})
    /\ UNCHANGED <<live, trash, manifests, saved, current, view, jobs, pins, pending, snap, readVars, crashes, env>>

\* What the step of a job retires.
Retired ==
    CASE job.step = "retire" -> job.inputs
      [] job.step = "retire_artifacts" -> ReplacedArtifacts(job.next, current)
      [] OTHER -> {f \in pending : pins[f] = 0}

\* A file f that cannot be renamed, or whose directories cannot be synced
\* then, stays pending.  The others are retired, the trash is emptied all the
\* same by CollectTrash, and the job ends without its later steps.
FailRetire ==
    /\ mode = "up" /\ job.step \in {"retire", "retire_artifacts", "collect"}
    /\ faults < env.faults /\ faults' = faults + 1
    /\ job' = NoJob
    /\ \E f \in {g \in Retired : pins[g] = 0} : \E kept \in {{}, {f}} :
        LET free == {g \in Retired : pins[g] = 0} IN
        /\ live' = live \ (free \ kept)
        /\ trash' = IF job.step = "collect" THEN {} ELSE trash \cup (live \cap (free \ kept))
        /\ pending' = (pending \cup Retired) \ (free \ {f})
    /\ UNCHANGED <<manifests, pointer, saved, mode, current, view, jobs, pins, snap, readVars, crashes, env>>

\* CollectTrash retires what is pending and removes only some of the trash.
FailCollect ==
    /\ mode = "up" /\ job.step = "collect"
    /\ faults < env.faults /\ faults' = faults + 1
    /\ job' = NoJob
    /\ live' = live \ Retired /\ pending' = pending \ Retired
    /\ trash' \in SUBSET (trash \cup (live \cap Retired))
    /\ UNCHANGED <<manifests, pointer, saved, mode, current, view, jobs, pins, snap, readVars, crashes, env>>

-----------------------------------------------------------------------------
(* Online Snapshots.                                                       *)

\* Mutant: only what the Manifest names is pinned.
ReferencedOnly(m) == OfKind(Files(m), "segment") \cup OfKind(Files(m), "index")

\* Segments, artifacts and the packs of the open Locator.
Pinned(m) == Files(m)

\* CheckpointAndPin: under maintenanceMu, after the checkpoint.
BeginSnapshot(s) ==
    /\ mode = "up" /\ job = NoJob
    /\ snap[s].state = "idle" /\ current # None
    /\ snap' = [snap EXCEPT ![s] = [state |-> "copying", of |-> current, copied |-> {}]]
    /\ pins' = [f \in DOMAIN pins |-> pins[f] + IF f \in Pinned(current) THEN 1 ELSE 0]
    /\ UNCHANGED <<diskVars, mode, current, view, jobVars, pending, readVars, countVars>>

\* Artifacts, with the packs, before the Segments in their order.
CopiedBefore(g, f) ==
    \/ g[1] = "index" /\ f[1] # "index"
    \/ g[1] = "pack" /\ f[1] = "segment"
    \/ g[1] = "segment" /\ f[1] = "segment" /\ g[2] < f[2]

\* The next file is verified where it lies and copied.
CopyFile(s, f) ==
    /\ Serving /\ snap[s].state = "copying"
    /\ f \in Files(snap[s].of) \ snap[s].copied
    /\ \A g \in Files(snap[s].of) \ snap[s].copied : ~CopiedBefore(g, f)
    /\ f \in live
    /\ snap' = [snap EXCEPT ![s].copied = @ \cup {f}]
    /\ UNCHANGED <<diskVars, mode, current, view, jobVars, pins, pending, readVars, countVars>>

\* Mutant: what waited for the pin is left to the next job.
ReleaseOnly(s) ==
    /\ ~Publishing
    /\ pins' = [f \in DOMAIN pins |-> pins[f] - IF f \in Pinned(snap[s].of) THEN 1 ELSE 0]
    /\ snap' = [snap EXCEPT ![s] = NoSnapshot]
    /\ UNCHANGED <<live, trash, pending, manifests, pointer, mode, current, view, jobVars, readVars>>

\* Unpin the generation; what waited for the last pin is retired at once.
Release(s) ==
    LET after == [f \in DOMAIN pins |-> pins[f] - IF f \in Pinned(snap[s].of) THEN 1 ELSE 0]
        free == {f \in pending : after[f] = 0 /\ f \in Pinned(snap[s].of)}
    IN  /\ ~Publishing
        /\ pins' = after
        /\ live' = live \ free /\ trash' = trash \cup (live \cap free)
        /\ pending' = pending \ free
        /\ snap' = [snap EXCEPT ![s] = NoSnapshot]
        /\ UNCHANGED <<manifests, pointer, mode, current, view, jobVars, readVars>>

\* The Snapshot Manifest is written and the directory renamed into place.
PublishSnapshot(s) ==
    /\ Serving /\ snap[s].state = "copying"
    /\ Files(snap[s].of) = snap[s].copied
    /\ saved' = saved \cup {[gen |-> snap[s].of.gen, files |-> snap[s].copied]}
    /\ Release(s)
    /\ UNCHANGED countVars

\* A Snapshot holds its Manifest and every file this names, the packs of the
\* Locator included.
Verify(saving) == manifests[saving.gen] # None /\ Files(manifests[saving.gen]) \subseteq saving.files

\* The copy fails and its staging directory is removed.
AbandonSnapshot(s) ==
    /\ Serving /\ snap[s].state = "copying" /\ faults < env.faults
    /\ faults' = faults + 1
    /\ Release(s)
    /\ UNCHANGED <<saved, crashes, env>>

-----------------------------------------------------------------------------
(* Process death and restart.                                              *)

Crash ==
    /\ mode # "down" /\ crashes < env.crashes
    /\ crashes' = crashes + 1
    /\ mode' = "down" /\ current' = None /\ view' = None /\ job' = NoJob
    /\ pins' = NoPins /\ pending' = {}
    /\ snap' = [s \in Snapshots |-> NoSnapshot]
    /\ reading' = [r \in Readers |-> None] /\ handles' = <<>>
    /\ UNCHANGED <<diskVars, jobs, faults, env>>

Open ==
    /\ mode = "down"
    /\ pointer # 0 => manifests[pointer] # None /\ Segments(manifests[pointer]) \subseteq live
    /\ current' = IF pointer = 0 THEN None ELSE manifests[pointer]
    /\ view' = current'
    /\ mode' = "up"
    /\ UNCHANGED <<diskVars, jobVars, pins, pending, snap, readVars, countVars>>

Init ==
    /\ live = {} /\ trash = {} /\ pointer = 0 /\ saved = {}
    /\ manifests = [g \in 1..MaxGenerations |-> None]
    /\ mode = "down" /\ current = None /\ view = None
    /\ job = NoJob /\ jobs = 0 /\ pins = NoPins /\ pending = {}
    /\ snap = [s \in Snapshots |-> NoSnapshot]
    /\ reading = [r \in Readers |-> None] /\ handles = <<>>
    /\ faults = 0 /\ crashes = 0 /\ env \in Environment

JobStep ==
    \/ WriteSegment \/ BuildReferences \/ WriteManifest \/ PublishCurrent
    \/ InstallView \/ Retire \/ RetireArtifacts \/ CollectTrash

SnapshotStep(s) == PublishSnapshot(s) \/ \E f \in Files(snap[s].of) : CopyFile(s, f)

Next ==
    \/ \E r \in env.readers : EndRead(r) \/ \E f \in Segments(view) : StartRead(r, f)
    \/ BeginCheckpoint \/ \E inputs \in SUBSET Segments(current) : BeginCompact(inputs)
    \/ JobStep \/ FailPublish \/ FailRetire \/ FailCollect
    \/ \E s \in env.snapshots : BeginSnapshot(s) \/ SnapshotStep(s) \/ AbandonSnapshot(s)
    \/ Crash \/ Open

Spec == Init /\ [][Next]_vars

\* Jobs, Snapshots and reads go on when they can.  A writer waiting for
\* viewMu keeps new readers out, so that the view is installed in the end.
Fairness ==
    /\ WF_vars(JobStep) /\ SF_vars(InstallView) /\ WF_vars(Open)
    /\ \A s \in Snapshots : SF_vars(SnapshotStep(s))
    /\ \A r \in Readers : WF_vars(EndRead(r))

FairSpec == Spec /\ Fairness

-----------------------------------------------------------------------------
(* Properties.                                                             *)

\* The types of the variables.
TypeOK ==
    /\ live \cup trash \cup pending \subseteq DOMAIN pins
    /\ pointer \in 0..MaxGenerations
    /\ mode \in {"up", "fatal", "down"}
    /\ \A f \in DOMAIN pins : pins[f] \in 0..Cardinality(Snapshots)
    /\ \A r \in Readers : reading[r] \in {None} \cup Segments(view)

\* Every file of the generation CURRENT names and of the one the reader uses
\* is in its place, at every step of a job and after every crash.
FilesInPlace ==
    /\ pointer # 0 => manifests[pointer] # None /\ Files(manifests[pointer]) \subseteq live
    /\ Files(view) \subseteq live

\* A Snapshot finds every file it has still to copy, although compactions
\* and checkpoints retire its generation meanwhile, and a published one is
\* the generation as a whole.
SnapshotsWhole ==
    /\ \A s \in Snapshots : Files(snap[s].of) \ snap[s].copied \subseteq live
    /\ \A saving \in saved : Verify(saving)

\* A handle in use is open, and only handles in use exceed the capacity.
HandlesBounded ==
    /\ \A r \in Readers : reading[r] # None => reading[r] \in Opened
    /\ Len(handles) > Capacity => \A f \in Opened : Users(reading, f) # {}

\* Between jobs nothing is left of replaced generations but what a Snapshot
\* pins, unless an operation failed or the process died.
NothingLeaks ==
    mode = "up" /\ job = NoJob /\ faults = 0 /\ crashes = 0 =>
        live \subseteq Files(current) \cup {f \in DOMAIN pins : pins[f] > 0}

\* A file leaves its directory only when nothing refers to it: not CURRENT,
\* not the reader, not a Snapshot.
LeavesUnused ==
    [][\A f \in live \ live' :
        pins'[f] = 0 /\ f \notin Files(view') /\ (pointer' # 0 => f \notin Files(manifests[pointer']))]_vars

\* What waits for a Snapshot to unpin it is retired in the end, while the
\* process lives and no operation fails.
PendingRetired == pending # {} ~> pending = {} \/ mode # "up" \/ faults > 0
=============================================================================
