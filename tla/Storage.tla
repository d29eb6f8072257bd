------------------------------- MODULE Storage -------------------------------
(***************************************************************************)
(* One node's storage: the WAL files and WAL-CURRENT (storage/wal), the    *)
(* Manifest, the active and the frozen MemTable and the reader's view of   *)
(* them (storage/engine), start-up recovery (storage/recovery) and the     *)
(* collection of old WAL files.                                            *)
(*                                                                         *)
(* Writing an append, rotating the WAL and checkpointing are cut at every  *)
(* point where a crash leaves another disk: the process may die, with or   *)
(* without the loss of unsynced data, between any two of the steps.        *)
(* Appends run beside a checkpoint from the moment the MemTables have been *)
(* switched.  The group committer is reduced to one request at a time      *)
(* (module Committer models the groups).                                   *)
(*                                                                         *)
(* Positions count from 1, so the entry ID of the code is a position less  *)
(* one.  An entry is its place in its batch, the incarnation of the engine *)
(* that wrote it, which tells apart two entries written at one position,   *)
(* and the incarnation of the entry before it, for the chained CRC.        *)
(***************************************************************************)
EXTENDS Naturals, Sequences, SequencesExt, FiniteSets

CONSTANTS
    BatchSizes,   \* record counts of append requests
    Environment,  \* whether unsynced data can be lost (power), whether clients
                  \* retry requests that got no answer (retries)
    MaxEntries,   \* bound on the log
    MaxFiles,     \* bound on the WAL files at one time
    MaxOpens      \* bound on the incarnations of the engine

ASSUME BatchAssumption == BatchSizes \subseteq Nat \ {0}

VARIABLES
    env,       \* the environment of this behaviour
    files,     \* WAL files: first position less one, entries, synced, tail
    pointer,   \* WAL-CURRENT, 0 when there is none
    manifest,  \* entries in the published Segments
    mode,      \* down, creating, opening, up, failed (to open), fatal
    opens,     \* incarnation of the engine
    active,    \* MemTable
    frozen,    \* MemTable being flushed
    base,      \* entries in the Segments the reader knows
    job,       \* append in progress
    made,      \* WAL file created and not yet current, 0 when there is none
    ckpt,      \* where the rotation or checkpoint in progress is
    acked      \* history: the log up to the last acknowledged append

vars == <<env, files, pointer, manifest, mode, opens, active, frozen, base, job, made, ckpt, acked>>
diskVars == <<files, pointer, manifest>>
memVars == <<active, frozen, base>>

NoJob == [stage |-> "none", batch |-> <<>>, left |-> <<>>]

Init ==
    /\ env \in Environment
    /\ files = <<>> /\ pointer = 0 /\ manifest = <<>>
    /\ mode = "down" /\ opens = 0
    /\ active = <<>> /\ frozen = <<>> /\ base = 0
    /\ job = NoJob /\ made = 0 /\ ckpt = "none" /\ acked = <<>>

\* What a read of the whole stream returns.
View == SubSeq(manifest, 1, base) \o frozen \o active

Current == files[pointer]

LastOf(f) == f.first + Len(f.entries)

NewFile(first) == [first |-> first, entries |-> <<>>, synced |-> 0, tail |-> "clean"]

NextId == CHOOSE i \in 1..(MaxFiles + 1) :
    i \notin DOMAIN files /\ \A j \in 1..(i - 1) : j \in DOMAIN files

WithFile(id, f) == [i \in DOMAIN files \cup {id} |-> IF i = id THEN f ELSE files[i]]

Without(id) == [i \in DOMAIN files \ {id} |-> files[i]]

ValAt(log, i) == IF i = 0 THEN 0 ELSE log[i].val

-----------------------------------------------------------------------------
(* Recovery.                                                               *)

Sealed(f) == f.tail = "footer"

Others == DOMAIN files \ {pointer}

\* The entries of f after position first.
Beyond(f, first) ==
    IF first > f.first THEN SubSeq(f.entries, first - f.first + 1, Len(f.entries))
    ELSE f.entries

\* Sealed files between the Manifest and the active file, in order.
Candidates ==
    LET first == Len(manifest) IN
    SetToSortSeq({i \in Others : LastOf(files[i]) > first /\ files[i].first < Current.first},
                 LAMBDA i, j : files[i].first < files[j].first)

\* One candidate: skipped when there is nothing new in it or the active file
\* has been reached; refused after a gap or when its CRC chain is another.
Walk(w, i) ==
    LET f == files[i] IN
    IF ~w.ok \/ w.next = Current.first \/ LastOf(f) <= w.next THEN w
    ELSE IF f.first > w.next \/ (f.first = w.next /\ f.entries[1].prev # w.val)
    THEN [w EXCEPT !.ok = FALSE]
    ELSE [ok |-> TRUE, next |-> LastOf(f), val |-> f.entries[Len(f.entries)].val,
          log |-> w.log \o Beyond(f, Len(manifest))]

AtManifest ==
    [ok |-> TRUE, next |-> Len(manifest), val |-> ValAt(manifest, Len(manifest)), log |-> <<>>]

\* How far recovery gets before it opens the active file: no error of a
\* sealed scan and a chain that ends where the active file begins, or, when
\* the active file begins before the Manifest's end, its sealed predecessor.
Before ==
    LET first == Len(manifest)
        predecessor == {i \in Others : Sealed(files[i]) /\ LastOf(files[i]) = Current.first}
        walked == FoldLeft(Walk, AtManifest, Candidates)
    IN  IF Current.first = 0 THEN [AtManifest EXCEPT !.val = 0]
        ELSE IF Current.first > first
        THEN IF \E i \in Others : ~Sealed(files[i])
             THEN [AtManifest EXCEPT !.ok = FALSE]
             ELSE [walked EXCEPT !.ok = @ /\ walked.next = Current.first]
        ELSE IF Current.first < first
        THEN IF predecessor = {} THEN [AtManifest EXCEPT !.ok = FALSE]
             ELSE LET f == files[CHOOSE i \in predecessor : TRUE]
                  IN  [AtManifest EXCEPT !.val = f.entries[Len(f.entries)].val]
        ELSE AtManifest

Replay == Before.log \o Beyond(Current, Len(manifest))

\* Every batch starts at its first entry and is complete.
WholeBatches(log) ==
    \A i \in 1..Len(log) :
        /\ log[i].index > 0 => i > 1 /\ log[i - 1].index = log[i].index - 1
        /\ log[i].index + 1 < log[i].count => i < Len(log)

\* A replayed file that holds the Manifest's last entry agrees with it.
CheckpointMatches(f) ==
    LET k == Len(manifest) - f.first IN
    f.first < Len(manifest) /\ k <= Len(f.entries)
        => f.entries[k].val = manifest[Len(manifest)].val

Opens ==
    /\ Before.ok
    /\ \A i \in Range(Candidates) \cup {pointer} : CheckpointMatches(files[i])
    /\ Current.entries # <<>> => Current.entries[1].prev = Before.val
    /\ WholeBatches(Replay)

\* Bytes after the last whole entry, a seal footer included, are cut off; the
\* file is synced only then.
Truncated(f) ==
    IF f.tail = "clean" THEN f ELSE [f EXCEPT !.tail = "clean", !.synced = Len(f.entries)]

\* Open on a directory that has a WAL.  In a new Term the WAL is then rotated.
Open(newTerm) ==
    /\ mode = "down" /\ pointer # 0
    /\ opens < MaxOpens
    /\ opens' = opens + 1
    /\ files' = IF Before.ok THEN [files EXCEPT ![pointer] = Truncated(@)] ELSE files
    /\ IF Opens
       THEN /\ mode' = IF newTerm THEN "opening" ELSE "up"
            /\ ckpt' = IF newTerm THEN "rotate" ELSE "none"
            /\ active' = Replay
            /\ base' = Len(manifest)
       ELSE /\ mode' = "failed"
            /\ UNCHANGED <<ckpt, active, base>>
    /\ UNCHANGED <<env, pointer, manifest, frozen, job, made, acked>>

\* Open on an empty directory: CreateAfter writes a file ...
CreateFirst ==
    /\ mode = "down" /\ pointer = 0
    /\ opens < MaxOpens /\ Cardinality(DOMAIN files) < MaxFiles
    /\ opens' = opens + 1
    /\ files' = WithFile(NextId, NewFile(Len(manifest)))
    /\ made' = NextId
    /\ mode' = "creating"
    /\ UNCHANGED <<env, pointer, manifest, memVars, job, ckpt, acked>>

\* ... and publishes WAL-CURRENT.
PublishFirst ==
    /\ mode = "creating"
    /\ pointer' = made
    /\ made' = 0
    /\ mode' = "up"
    /\ UNCHANGED <<env, files, manifest, opens, memVars, job, ckpt, acked>>

-----------------------------------------------------------------------------
(* Appends.                                                                *)

\* The engine's lock is free: no rotation is under way.
Unlocked == mode = "up" /\ ckpt \in {"none", "flush", "published"}

Batch(k) ==
    [i \in 1..k |-> [index |-> i - 1, count |-> k, val |-> opens,
                     prev |-> IF i > 1 THEN opens ELSE ValAt(View, Len(View))]]

StartAppend(k) ==
    /\ Unlocked /\ job = NoJob
    /\ Len(View) + k <= MaxEntries
    /\ job' = [stage |-> "write", batch |-> Batch(k), left |-> Batch(k)]
    /\ UNCHANGED <<env, diskVars, mode, opens, memVars, made, ckpt, acked>>

\* The committer works on, even when a checkpoint has failed.
Committing == mode \in {"up", "fatal"}

\* Log.Append writes the entries one by one.
WriteEntry ==
    /\ Committing /\ job.stage = "write" /\ job.left # <<>>
    /\ files' = [files EXCEPT ![pointer].entries = Append(@, Head(job.left))]
    /\ job' = [job EXCEPT !.left = Tail(@)]
    /\ UNCHANGED <<env, pointer, manifest, mode, opens, memVars, made, ckpt, acked>>

SyncWAL ==
    /\ Committing /\ job.stage = "write" /\ job.left = <<>>
    /\ files' = [files EXCEPT ![pointer].synced = Len(Current.entries)]
    /\ job' = [job EXCEPT !.stage = "synced"]
    /\ UNCHANGED <<env, pointer, manifest, mode, opens, memVars, made, ckpt, acked>>

ApplyBatch ==
    /\ Committing /\ job.stage = "synced"
    /\ active' = active \o job.batch
    /\ job' = [job EXCEPT !.stage = "applied"]
    /\ UNCHANGED <<env, diskVars, mode, opens, frozen, base, made, ckpt, acked>>

AnswerAppend ==
    /\ Committing /\ job.stage = "applied"
    /\ acked' = View
    /\ job' = NoJob
    /\ UNCHANGED <<env, diskVars, mode, opens, memVars, made, ckpt>>

\* A write or an fsync fails: part of an entry may have been written, and the
\* engine takes no more work.
FailAppend ==
    /\ Committing /\ job.stage = "write"
    /\ files' = IF job.left = <<>> THEN files ELSE [files EXCEPT ![pointer].tail = "torn"]
    /\ mode' = "fatal"
    /\ job' = [NoJob EXCEPT !.stage = "failed"]
    /\ UNCHANGED <<env, pointer, manifest, opens, memVars, made, ckpt, acked>>

\* A client that got no answer asks again; its record is found and the
\* request answered (deduplicate).
RetryAppend ==
    /\ env.retries
    /\ Unlocked /\ job = NoJob
    /\ acked # View
    /\ acked' = View
    /\ UNCHANGED <<env, diskVars, mode, opens, memVars, job, made, ckpt>>

-----------------------------------------------------------------------------
(* Rotation of the WAL and checkpoints.                                    *)

\* The committer has drained; the MemTable is frozen and a new one seeded.
BeginCheckpoint ==
    /\ mode = "up" /\ ckpt = "none" /\ job = NoJob
    /\ active # <<>>
    /\ frozen' = active
    /\ active' = <<>>
    /\ ckpt' = "rotate"
    /\ UNCHANGED <<env, diskVars, mode, opens, base, job, made, acked>>

Rotating == mode \in {"up", "opening"}

\* Rotate: sync and seal the active file, unless it is empty; ...
SealActive ==
    /\ Rotating /\ ckpt = "rotate"
    /\ files' = IF Current.entries = <<>> THEN files
                ELSE [files EXCEPT ![pointer].synced = Len(Current.entries),
                                   ![pointer].tail = "footer"]
    /\ ckpt' = "sealed"
    /\ UNCHANGED <<env, pointer, manifest, mode, opens, memVars, job, made, acked>>

\* ... write the next file; ...
CreateNext ==
    /\ Rotating /\ ckpt = "sealed"
    /\ Cardinality(DOMAIN files) < MaxFiles
    /\ files' = WithFile(NextId, NewFile(LastOf(Current)))
    /\ made' = NextId
    /\ ckpt' = "created"
    /\ UNCHANGED <<env, pointer, manifest, mode, opens, memVars, job, acked>>

\* ... publish WAL-CURRENT; remember an empty old file in made; ...
PublishCurrent ==
    /\ Rotating /\ ckpt = "created"
    /\ pointer' = made
    /\ made' = IF Current.entries = <<>> THEN pointer ELSE 0
    /\ ckpt' = "switched"
    /\ UNCHANGED <<env, files, manifest, mode, opens, memVars, job, acked>>

\* ... and remove it, if that works.  A checkpoint goes on outside the lock, with a reader
\* over both MemTables; a rotation for a new Term is done.
FinishRotate ==
    /\ Rotating /\ ckpt = "switched"
    /\ \/ files' = Without(made)
       \/ made # 0 /\ files' = files
    /\ made' = 0
    /\ mode' = "up"
    /\ ckpt' = IF mode = "opening" THEN "none" ELSE "flush"
    /\ UNCHANGED <<env, pointer, manifest, opens, memVars, job, acked>>

\* PublishFlushWithArtifacts: the Segments and the Manifest that names them.
PublishManifest ==
    /\ mode = "up" /\ ckpt = "flush"
    /\ manifest' = manifest \o frozen
    /\ ckpt' = "published"
    /\ UNCHANGED <<env, files, pointer, mode, opens, memVars, job, made, acked>>

\* Mutant: the frozen MemTable goes and the reader keeps its old Segments.
InstallViewStale ==
    /\ mode = "up" /\ ckpt = "published" /\ job = NoJob
    /\ frozen' = <<>>
    /\ ckpt' = "none"
    /\ UNCHANGED <<env, diskVars, mode, opens, active, base, job, made, acked>>

\* The committer has drained again and the final reader is installed.
InstallView ==
    /\ mode = "up" /\ ckpt = "published" /\ job = NoJob
    /\ base' = Len(manifest)
    /\ frozen' = <<>>
    /\ ckpt' = "none"
    /\ UNCHANGED <<env, diskVars, mode, opens, active, job, made, acked>>

\* A step of the rotation or of the checkpoint fails.  The new WAL file is
\* removed again as long as it is not current.
FailCheckpoint ==
    /\ Rotating /\ ckpt \in {"rotate", "sealed", "created", "flush", "published"}
    /\ files' = IF ckpt = "created" THEN Without(made) ELSE files
    /\ mode' = IF mode = "opening" THEN "failed" ELSE "fatal"
    /\ ckpt' = "none" /\ made' = 0
    /\ UNCHANGED <<env, pointer, manifest, opens, memVars, job, acked>>

\* Mutant: what the Manifest covers is not asked.
CollectWALUncovered(i) ==
    /\ mode = "up" /\ ckpt = "none" /\ job = NoJob
    /\ i \in Others /\ Sealed(files[i])
    /\ files' = Without(i)
    /\ UNCHANGED <<env, pointer, manifest, mode, opens, memVars, job, made, ckpt, acked>>

\* History.Collect: the oldest file of the history, when the Manifest and a
\* verified Snapshot cover it.
CollectWAL(i) ==
    /\ mode = "up" /\ ckpt = "none" /\ job = NoJob
    /\ i \in Others /\ Sealed(files[i]) /\ LastOf(files[i]) <= Len(manifest)
    /\ \A j \in Others : Sealed(files[j]) => files[i].first <= files[j].first
    /\ files' = Without(i)
    /\ UNCHANGED <<env, pointer, manifest, mode, opens, memVars, job, made, ckpt, acked>>

-----------------------------------------------------------------------------
(* Crashes.                                                                *)

Forget ==
    /\ mode' = "down"
    /\ active' = <<>> /\ frozen' = <<>> /\ base' = 0
    /\ job' = NoJob /\ made' = 0 /\ ckpt' = "none"

Crash ==
    /\ mode # "down"
    /\ Forget
    /\ UNCHANGED <<env, diskVars, opens, acked>>

\* Of the active file at least the synced entries survive, and perhaps part
\* of the next one; every other file was synced before it was sealed.
PowerLoss ==
    /\ env.power
    /\ pointer # 0 /\ Current.synced < Len(Current.entries)
    /\ \E k \in Current.synced..(Len(Current.entries) - 1), tail \in {"clean", "torn"} :
          files' = [files EXCEPT ![pointer].entries = SubSeq(@, 1, k), ![pointer].tail = tail]
    /\ Forget
    /\ UNCHANGED <<env, pointer, manifest, opens, acked>>

Rotation == SealActive \/ CreateNext \/ PublishCurrent \/ FinishRotate

Next ==
    \/ \E newTerm \in BOOLEAN : Open(newTerm)
    \/ CreateFirst \/ PublishFirst
    \/ \E k \in BatchSizes : StartAppend(k)
    \/ WriteEntry \/ SyncWAL \/ ApplyBatch \/ AnswerAppend \/ FailAppend \/ RetryAppend
    \/ BeginCheckpoint \/ Rotation \/ PublishManifest \/ InstallView \/ FailCheckpoint
    \/ \E i \in DOMAIN files : CollectWAL(i)
    \/ Crash \/ PowerLoss

Spec == Init /\ [][Next]_vars

-----------------------------------------------------------------------------
(* Properties.                                                             *)

Entry == [index : Nat, count : BatchSizes, val : 1..MaxOpens, prev : 0..MaxOpens]

\* The shape of the disk and of the engine.
TypeOK ==
    /\ \A i \in DOMAIN files :
          /\ i \in 1..MaxFiles
          /\ files[i].entries \in Seq(Entry)
          /\ files[i].synced \in 0..Len(files[i].entries)
          /\ files[i].tail \in {"clean", "torn", "footer"}
    /\ pointer \in DOMAIN files \cup {0}
    /\ manifest \in Seq(Entry) /\ active \in Seq(Entry) /\ frozen \in Seq(Entry)
    /\ base \in 0..Len(manifest)
    /\ made \in DOMAIN files \cup {0}
    /\ acked \in Seq(Entry)

Reads == mode \in {"up", "fatal"}

\* An acknowledged append can be read whenever the engine is open: through
\* the MemTable switch, while Segments are built, after the view is replaced
\* and after every restart (engine/store.go:701).  What readers see beyond it
\* is whole batches too (commit.go, ApplyBatch).
AckedReadable == Reads => IsPrefix(acked, View) /\ WholeBatches(View)

\* No two WAL files hold an entry at the same position: History.Refresh
\* (wal/history.go:155) refuses a directory with two predecessors of a file.
FilesDisjoint ==
    \A i, j \in DOMAIN files :
        i # j /\ files[i].entries # <<>> /\ files[j].entries # <<>>
            => LastOf(files[i]) <= files[j].first \/ LastOf(files[j]) <= files[i].first

\* A WAL file that is not current and was never sealed.
Orphan == \E i \in Others : ~Sealed(files[i])

\* The log ends inside a batch.
PartialTail == ~WholeBatches(Replay)

\* Recovery accepts whatever a crash leaves behind, but for the two cases
\* below: the sealed files always lead from the Manifest to the active file.
RecoveryAccepts == mode = "down" /\ pointer # 0 => Opens \/ Orphan \/ PartialTail

\* Stated in Rotate (wal/log.go:365): recovery ignores a header-only orphan.
OrphanIgnored == mode = "down" /\ pointer # 0 /\ Orphan => Opens

\* Stated in recovery-protocol.md:169: a batch of which the WAL holds only a
\* prefix is truncated.
BatchPrefixTruncated == mode = "down" /\ pointer # 0 /\ PartialTail => Opens
=============================================================================
