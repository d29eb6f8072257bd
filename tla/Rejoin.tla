------------------------------- MODULE Rejoin -------------------------------
(***************************************************************************)
(* A Strict Primary that collects its WAL behind online Snapshots, and a   *)
(* Standby that joins it: by catching up from the WAL, or by installing a  *)
(* Snapshot (storage/retention, storage/snapshot/install.go, node/ha.go,   *)
(* cmd/streamd-tool collect-wal), with a crash of either node between any  *)
(* two publications.                                                       *)
(***************************************************************************)
EXTENDS Recovery

CONSTANTS
    MaxEntries,     \* bound on the entries of the log
    Environment     \* initial directories; bounds on Terms, Snapshots, crashes, renewals

\* The Primary's log: the value of every entry it ever holds.
Theirs == [n \in 1..MaxEntries |-> "a"]

VARIABLES
    env,        \* member of Environment
    wal,        \* Primary: WAL files, oldest first, the last one active
    segmented,  \* Primary: entries its Manifest covers
    packages,   \* Primary: Snapshot packages
    states,     \* Primary: Replication State on disk
    loaded,     \* Primary: state in memory
    phase,      \* Primary: what its process does
    task,       \* Primary: recovery task, a plan
    through,    \* Primary: last entry of the catch-up
    job,        \* Primary: step of checkpoint or retention
    tool,       \* collect-wal: step and Snapshot
    unpublished,\* history: what collect-wal deleted is missing from the state
    update,     \* process -> state update in progress: state and file written
    log,        \* Standby: segments, first entry of the WAL, WAL, stale files
    standby,    \* Standby: Replication State on disk
    up,         \* Standby: running
    journal,    \* Standby: Snapshot whose installation is journalled
    stage,      \* Standby: Snapshots with a staging directory
    artifacts,  \* Standby: files of the Snapshot in place: none, torn, whole
    install,    \* Standby: step of the installation
    created,    \* Snapshots created
    renewals,   \* renewals of the lease
    crashes     \* deaths of a process

primaryDisk == <<wal, segmented, packages, states>>
primaryMemory == <<loaded, phase, task, through, job>>
primaryVars == <<primaryDisk, primaryMemory>>
standbyVars == <<log, standby, up, journal, stage, artifacts, install>>
toolVars == <<tool, unpublished>>
countVars == <<env, created, renewals, crashes>>
vars == <<primaryVars, toolVars, update, standbyVars, countVars>>

NoJob == [step |-> "none", snapshot |-> None]
Owners == {"primary", "renewal", "tool", "standby"}
NoUpdate == [state |-> None, written |-> FALSE]

Committed == Bounds(wal).next
Connected == log.first <= Len(log.segments)
Ours == IF Connected THEN SubSeq(log.segments, 1, log.first) \o log.wal ELSE <<>>

-----------------------------------------------------------------------------
(* Publication of a Replication State.  The lease renewal of a Primary has *)
(* a goroutine of its own and shares the Store, and so its mutex, with the *)
(* rest of the process.  The tool and the Standby have a Store each.       *)

Publishable(from, header) == Valid(header) /\ ValidTransition(from, header)

Settled(owner) == update[owner] = NoUpdate
Sharing(owner) == IF owner \in {"primary", "renewal"} THEN {"primary", "renewal"} ELSE {owner}
Files(owner) == IF owner = "standby" THEN standby.files ELSE states.files

BeginUpdate(owner, from, header) ==
    /\ \A other \in Sharing(owner) : Settled(other)
    /\ Publishable(from, header)
    /\ update' = [update EXCEPT ![owner] =
           [state |-> NextState(from, header, <<owner, Cardinality(Files(owner))>>), written |-> FALSE]]

WriteState(owner) ==
    /\ update[owner] # NoUpdate /\ ~update[owner].written
    /\ update' = [update EXCEPT ![owner].written = TRUE]
    /\ IF owner = "standby"
       THEN standby' = WriteStateFile(standby, update[owner].state) /\ UNCHANGED states
       ELSE states' = WriteStateFile(states, update[owner].state) /\ UNCHANGED standby
    /\ UNCHANGED <<wal, segmented, packages, primaryMemory, toolVars, log, up, journal, stage, artifacts, install, countVars>>

\* The state names a Snapshot for the part of the WAL that is gone.
Covered(header) == wal[1].first > 0 => header.anchor \in packages /\ AnchorAt(header) >= wal[1].first

\* A running Primary publishes over the state of the tool, which it never read.
Overwrites(owner) ==
    LET current == Loaded(states) IN
    current # None /\ current.id[1] = "tool" /\ update[owner].state.previous # current.id

WriteCurrent(owner) ==
    /\ update[owner].written
    /\ update' = [update EXCEPT ![owner] = NoUpdate]
    /\ IF owner = "standby"
       THEN standby' = WritePointer(standby, update[owner].state) /\ UNCHANGED states
       ELSE states' = WritePointer(states, update[owner].state) /\ UNCHANGED standby
    /\ loaded' = IF owner \in {"primary", "renewal"} THEN update[owner].state ELSE loaded
    /\ unpublished' = IF owner = "standby" THEN unpublished
                      ELSE ~Covered(update[owner].state.header) /\ (unpublished \/ Overwrites(owner))
    /\ UNCHANGED <<wal, segmented, packages, phase, task, through, job, tool, log, up, journal, stage, artifacts, install, countVars>>

-----------------------------------------------------------------------------
(* Starting a Primary: promotion, then catch-up of the Standby.            *)

\* Promote makes what the WAL holds the committed log of a new Term.
Promote ==
    /\ phase = "down" /\ tool = NoJob
    /\ StateHeader(Loaded(states)).term < env.terms
    /\ LET old == StateHeader(Loaded(states)) IN
       BeginUpdate("primary", Loaded(states), [old EXCEPT !.term = @ + 1, !.committed = Committed])
    /\ phase' = "promoting"
    /\ UNCHANGED <<primaryDisk, loaded, task, through, job, toolVars, standbyVars, countVars>>

\* Promote returns and unlocks the directory.
Promoted ==
    /\ phase = "promoting" /\ Settled("primary")
    /\ phase' = "promoted" /\ loaded' = None
    /\ UNCHANGED <<primaryDisk, task, through, job, toolVars, update, standbyVars, countVars>>

\* The process reads the state once, and keeps it up to date itself.
OpenStates ==
    /\ phase = "promoted"
    /\ loaded' = Loaded(states) /\ phase' = "starting"
    /\ UNCHANGED <<primaryDisk, task, through, job, toolVars, update, standbyVars, countVars>>

\* Every renewal saves the lease, with the rest of the state in memory.
Renew ==
    /\ phase \in {"starting", "planned", "copying", "joined", "blocked", "failed", "open"}
    /\ renewals < env.renewals /\ renewals' = renewals + 1
    /\ BeginUpdate("renewal", loaded, loaded.header)
    /\ UNCHANGED <<primaryVars, toolVars, standbyVars, env, created, crashes>>

Hello == [term |-> StateHeader(Loaded(standby)).term, log |-> Ours,
          installed |-> StateHeader(Loaded(standby)).anchor]

\* catchUpStandby up to the plan.
CatchUp ==
    /\ phase = "starting" /\ up
    /\ \E plan \in {PlanReplication(loaded.header, wal, packages, Hello, Theirs)} :
        /\ phase' = CASE plan.mode = "invalid" -> "failed"
                      [] plan.mode # "incremental" -> "blocked"
                      [] Len(Ours) + 1 > loaded.header.committed -> "joined"
                      [] OTHER -> "planned"
        /\ task' = IF phase' = "blocked" THEN plan ELSE None
        /\ through' = IF phase' = "planned" THEN loaded.header.committed ELSE 0
    /\ UNCHANGED <<primaryDisk, loaded, job, toolVars, update, standbyVars, countVars>>

\* The range is located and pinned in a second History.
PinRange ==
    /\ phase = "planned"
    /\ LET found == Locate(wal, Len(Ours) + 1) IN
       /\ phase' = CASE found = "retained" -> "copying"
                     [] found = "collected" -> "blocked"
                     [] OTHER -> "failed"
       /\ task' = IF phase' = "blocked" THEN [mode |-> "incremental", offer |-> None] ELSE None
    /\ through' = IF phase' = "copying" THEN through ELSE 0
    /\ UNCHANGED <<primaryDisk, loaded, job, toolVars, update, standbyVars, countVars>>

\* One group of the transfer. A pin is known to the History of this process
\* only: a file the tool deleted is an error.
CopyEntries(n) ==
    LET from == Len(Ours) + 1 IN
    /\ phase = "copying" /\ up /\ n \in from..through
    /\ Retained(wal, from, n)
    /\ log' = [log EXCEPT !.wal = @ \o SubSeq(Theirs, from, n)]
    /\ phase' = IF n = through THEN "joined" ELSE "copying"
    /\ UNCHANGED <<primaryDisk, loaded, task, through, job, toolVars, update, standby, up, journal, stage, artifacts, install, countVars>>

CopyFails ==
    /\ phase = "copying" /\ up /\ ~Retained(wal, Len(Ours) + 1, Len(Ours) + 1)
    /\ phase' = "failed"
    /\ UNCHANGED <<primaryDisk, loaded, task, through, job, toolVars, update, standbyVars, countVars>>

\* A call finds no Standby or takes too long: the attempt is repeated.
Retry ==
    /\ phase \in {"copying", "joined"}
    /\ phase' = "starting" /\ through' = 0
    /\ UNCHANGED <<primaryDisk, loaded, task, job, toolVars, update, standbyVars, countVars>>

-----------------------------------------------------------------------------
(* An open Primary.                                                        *)

Rotated == IF Last(wal).last > Last(wal).first THEN Append(wal, File(Committed, Committed)) ELSE wal

\* The Standby has answered.  The engine takes the lock of the directory,
\* and begins a WAL file for its Term.
OpenEngine ==
    /\ phase = "joined" /\ up
    /\ phase' = IF tool = NoJob THEN "open" ELSE "failed"
    /\ wal' = IF tool = NoJob THEN Rotated ELSE wal
    /\ through' = 0
    /\ UNCHANGED <<segmented, packages, states, loaded, task, job, toolVars, update, standbyVars, countVars>>

\* An entry is committed when the Standby holds it too. A checkpoint keeps
\* the engine locked from its state to the freeze.
AppendEntry ==
    /\ phase = "open" /\ up /\ Committed < env.entries
    /\ Len(Ours) = Committed /\ job.step \notin {"rotate", "snapshot"} /\ Settled("standby")
    /\ wal' = [wal EXCEPT ![Len(wal)].last = @ + 1]
    /\ log' = [log EXCEPT !.wal = Append(@, Theirs[Committed + 1])]
    /\ UNCHANGED <<segmented, packages, states, primaryMemory, toolVars, update, standby, up, journal, stage, artifacts, install, countVars>>

Checkpointed ==
    [loaded.header EXCEPT !.committed = Committed,
        !.earliest = IF Bounds(wal).present THEN Bounds(wal).earliest ELSE Bounds(wal).next]

\* CheckpointReplicated, alone or as the first part of retention.  When the
\* state store refuses the update, it fails and changes nothing.
Checkpoint(retain) ==
    /\ phase = "open" /\ job = NoJob /\ Committed > 0
    /\ retain => created < env.snapshots
    /\ retain \/ segmented < Committed
    /\ BeginUpdate("primary", loaded, Checkpointed)
    /\ job' = [step |-> IF retain THEN "snapshot" ELSE "rotate", snapshot |-> None]
    /\ UNCHANGED <<primaryDisk, loaded, phase, task, through, toolVars, standbyVars, countVars>>

FinishCheckpoint ==
    /\ job.step = "rotate" /\ Settled("primary")
    /\ wal' = Rotated /\ segmented' = Committed
    /\ job' = NoJob
    /\ UNCHANGED <<packages, states, loaded, phase, task, through, toolVars, update, standbyVars, countVars>>

CreateSnapshot ==
    /\ job.step = "snapshot" /\ Settled("primary")
    /\ wal' = Rotated /\ segmented' = Committed
    /\ LET new == [id |-> created + 1, at |-> Committed] IN
       /\ packages' = packages \cup {new}
       /\ job' = [step |-> "anchor", snapshot |-> new]
    /\ created' = created + 1
    /\ UNCHANGED <<states, loaded, phase, task, through, toolVars, update, standbyVars, env, renewals, crashes>>

\* Mutant: WAL is deleted before the Snapshot is the recovery anchor.
AnchorLater ==
    /\ job.step = "anchor"
    /\ job' = [job EXCEPT !.step = "collect"]
    /\ UNCHANGED <<primaryDisk, loaded, phase, task, through, toolVars, update, standbyVars, countVars>>

Anchor ==
    /\ job.step = "anchor"
    /\ BeginUpdate("primary", loaded, [loaded.header EXCEPT !.anchor = job.snapshot])
    /\ job' = [job EXCEPT !.step = "collect"]
    /\ UNCHANGED <<primaryDisk, loaded, phase, task, through, toolVars, standbyVars, countVars>>

Smaller(a, b) == IF a < b THEN a ELSE b

\* One file at a time, oldest first.
CollectWAL ==
    /\ job.step = "collect" /\ Settled("primary")
    /\ IF Collectable(wal, Smaller(segmented, job.snapshot.at))
       THEN wal' = Tail(wal) /\ UNCHANGED job
       ELSE job' = [job EXCEPT !.step = "boundary"] /\ UNCHANGED wal
    /\ UNCHANGED <<segmented, packages, states, loaded, phase, task, through, toolVars, update, standbyVars, countVars>>

PublishBoundary ==
    /\ job.step = "boundary"
    /\ BeginUpdate("primary", loaded, [loaded.header EXCEPT !.earliest = wal[1].first])
    /\ job' = [job EXCEPT !.step = "prune"]
    /\ UNCHANGED <<primaryDisk, loaded, phase, task, through, toolVars, standbyVars, countVars>>

Pruned(keep) == {keep}

\* Older packages are removed, unless the WAL is above its budget: then the
\* job ends with the error before.
Prune ==
    /\ job.step = "prune" /\ Settled("primary")
    /\ packages' \in {packages, Pruned(job.snapshot)}
    /\ job' = NoJob
    /\ UNCHANGED <<wal, segmented, states, loaded, phase, task, through, toolVars, update, standbyVars, countVars>>

Halted == phase' = "down" /\ loaded' = None /\ task' = None /\ through' = 0

\* An open Primary publishes its state, if that is valid, before it closes.
Close ==
    /\ phase = "open" /\ job = NoJob
    /\ phase' = "closing"
    /\ \/ BeginUpdate("primary", loaded, Checkpointed)
       \/ ~Publishable(loaded, Checkpointed) /\ UNCHANGED update
    /\ UNCHANGED <<primaryDisk, loaded, task, through, job, toolVars, standbyVars, countVars>>

\* Renewal is stopped.  A lease given back is saved with the state in memory,
\* by a closing Primary with the directory locked, by a blocked one without.
Release ==
    /\ Settled("primary") /\ Settled("renewal")
    /\ \/ phase = "closing" /\ phase' = "releasing"
       \/ phase = "blocked" /\ phase' = "leaving"
    /\ BeginUpdate("primary", loaded, loaded.header) \/ UNCHANGED update
    /\ UNCHANGED <<primaryDisk, loaded, task, through, job, toolVars, standbyVars, countVars>>

\* The process ends: released, or before it had anything to release.
Stop ==
    /\ phase \in {"releasing", "leaving", "promoted", "starting", "planned", "copying", "joined", "failed"}
    /\ Settled("primary") /\ Settled("renewal")
    /\ Halted
    /\ UNCHANGED <<primaryDisk, job, toolVars, update, standbyVars, countVars>>

CrashPrimary ==
    /\ phase # "down" /\ crashes < env.crashes
    /\ crashes' = crashes + 1
    /\ Halted /\ job' = NoJob
    /\ update' = [update EXCEPT !["primary"] = NoUpdate, !["renewal"] = NoUpdate]
    /\ UNCHANGED <<primaryDisk, toolVars, standbyVars, env, created, renewals>>

-----------------------------------------------------------------------------
(* streamd-tool collect-wal, on a directory no process has locked: the     *)
(* files are deleted first, then anchor and boundary are published.        *)

Unlocked == phase \in {"down", "promoted", "starting", "planned", "copying", "joined", "blocked", "leaving", "failed"}

BeginTool(package) ==
    /\ env.tool /\ Unlocked /\ tool = NoJob
    /\ Generation(Loaded(states)) < env.generations
    /\ segmented > 0 /\ package.at <= StateHeader(Loaded(states)).committed
    /\ tool' = [step |-> "collect", snapshot |-> package]
    /\ UNCHANGED <<primaryVars, unpublished, update, standbyVars, countVars>>

CollectOffline ==
    /\ tool.step = "collect"
    /\ IF Collectable(wal, Smaller(segmented, tool.snapshot.at))
       THEN wal' = Tail(wal) /\ unpublished' = TRUE /\ UNCHANGED tool
       ELSE tool' = [tool EXCEPT !.step = "publish"] /\ UNCHANGED <<wal, unpublished>>
    /\ UNCHANGED <<segmented, packages, states, primaryMemory, update, standbyVars, countVars>>

\* The boundary, and the Snapshot unless the anchor is later.
Retention(old) ==
    [old EXCEPT !.earliest = wal[1].first,
                !.anchor = IF tool.snapshot.at >= AnchorAt(old) THEN tool.snapshot ELSE @]

PublishOffline ==
    /\ tool.step = "publish"
    /\ \E from \in {Loaded(states)} : LET header == Retention(StateHeader(from)) IN
       \/ BeginUpdate("tool", from, header)
       \/ ~Publishable(from, header) /\ UNCHANGED update
    /\ tool' = [tool EXCEPT !.step = "done"]
    /\ UNCHANGED <<primaryVars, unpublished, standbyVars, countVars>>

EndTool ==
    /\ tool.step = "done" /\ Settled("tool")
    /\ tool' = NoJob
    /\ UNCHANGED <<primaryVars, unpublished, update, standbyVars, countVars>>

CrashTool ==
    /\ tool # NoJob /\ crashes < env.crashes
    /\ crashes' = crashes + 1
    /\ tool' = NoJob /\ update' = [update EXCEPT !["tool"] = NoUpdate]
    /\ UNCHANGED <<primaryVars, unpublished, standbyVars, env, created, renewals>>

-----------------------------------------------------------------------------
(* The Standby.                                                            *)

Idle == ~up /\ install.step = "none"
Term == StateHeader(Loaded(states)).term

\* OpenStandby: after a pending installation, in the Term of the Primary.
Boot ==
    /\ Idle /\ journal = None
    /\ ~log.stale /\ Connected
    /\ phase \notin {"down", "promoting"}
    /\ LET old == StateHeader(Loaded(standby)) IN
       IF old.term < Term
       THEN /\ BeginUpdate("standby", Loaded(standby), [old EXCEPT !.term = Term])
            /\ install' = [step |-> "opening", snapshot |-> None] /\ UNCHANGED up
       ELSE up' = TRUE /\ UNCHANGED <<update, install>>
    /\ UNCHANGED <<primaryVars, toolVars, log, standby, journal, stage, artifacts, countVars>>

Booted ==
    /\ install.step = "opening" /\ Settled("standby")
    /\ up' = TRUE /\ install' = NoJob
    /\ UNCHANGED <<primaryVars, toolVars, update, log, standby, journal, stage, artifacts, countVars>>

\* The Standby's own checkpoint; its WAL is kept.
CheckpointDue ==
    /\ phase = "open" /\ Len(Ours) = Committed
    /\ StateHeader(Loaded(standby)).committed < Committed

CheckpointStandby ==
    /\ up /\ install = NoJob /\ CheckpointDue
    /\ BeginUpdate("standby", Loaded(standby), [StateHeader(Loaded(standby)) EXCEPT !.committed = Committed])
    /\ install' = [step |-> "checkpoint", snapshot |-> None]
    /\ UNCHANGED <<primaryVars, toolVars, log, standby, up, journal, stage, artifacts, countVars>>

\* The Manifest covers what the saved state calls committed.
FlushStandby ==
    /\ install.step = "checkpoint" /\ Settled("standby")
    /\ log' = [log EXCEPT !.segments = SubSeq(Ours, 1, StateHeader(Loaded(standby)).committed)]
    /\ install' = NoJob
    /\ UNCHANGED <<primaryVars, toolVars, update, standby, up, journal, stage, artifacts, countVars>>

\* A process dies; a copy into the directory may be cut short.
CrashStandby ==
    /\ up \/ install.step # "none"
    /\ crashes < env.crashes /\ crashes' = crashes + 1
    /\ up' = FALSE /\ install' = NoJob
    /\ update' = [update EXCEPT !["standby"] = NoUpdate]
    /\ artifacts' \in {artifacts} \cup (IF env.torn /\ install.step = "artifacts" /\ artifacts = "none" THEN {"torn"} ELSE {})
    /\ UNCHANGED <<primaryVars, toolVars, log, standby, journal, stage, env, created, renewals>>

\* Close checkpoints first.
StopStandby ==
    /\ up /\ install = NoJob /\ ~CheckpointDue /\ up' = FALSE
    /\ UNCHANGED <<primaryVars, toolVars, update, log, standby, journal, stage, artifacts, install, countVars>>

Empty == [segments |-> <<>>, first |-> 0, wal |-> <<>>, stale |-> FALSE]

\* A new disk.
ReplaceStandby ==
    /\ env.replace /\ Idle /\ journal = None /\ Loaded(standby) # None
    /\ log' = Empty /\ standby' = NoStates /\ stage' = {} /\ artifacts' = "none"
    /\ UNCHANGED <<primaryVars, toolVars, update, up, journal, install, countVars>>

-----------------------------------------------------------------------------
(* Installation of a Snapshot.                                             *)

At(step) == install.step = step
To(step) == install' = [install EXCEPT !.step = step]

Acceptable(package) ==
    /\ StateHeader(Loaded(standby)).term <= Term
    /\ StateHeader(Loaded(standby)).committed <= package.at
    /\ package \notin stage

Install(package) ==
    /\ Idle /\ journal = None /\ phase = "blocked"
    /\ Generation(Loaded(standby)) < env.generations
    /\ Acceptable(package)
    /\ stage' = stage \cup {package}
    /\ install' = [step |-> "stage", snapshot |-> package]
    /\ UNCHANGED <<primaryVars, toolVars, update, log, standby, up, journal, artifacts, countVars>>

\* Mutant: no journal, so that a restart forgets the installation.
NoJournal ==
    /\ At("stage") /\ To("artifacts")
    /\ UNCHANGED <<primaryVars, toolVars, update, log, standby, up, journal, stage, artifacts, countVars>>

WriteJournal ==
    /\ At("stage") /\ To("artifacts")
    /\ journal' = [package |-> install.snapshot, term |-> Term]
    /\ UNCHANGED <<primaryVars, toolVars, update, log, standby, up, stage, artifacts, countVars>>

Resume ==
    /\ Idle /\ journal # None
    /\ artifacts # "torn"
    /\ install' = [step |-> "artifacts", snapshot |-> journal.package]
    /\ UNCHANGED <<primaryVars, toolVars, update, log, standby, up, journal, stage, artifacts, countVars>>

PublishArtifacts ==
    /\ At("artifacts") /\ To("wal")
    /\ artifacts' = "whole"
    /\ UNCHANGED <<primaryVars, toolVars, update, log, standby, up, journal, stage, countVars>>

CreateAfter ==
    /\ At("wal") /\ To("clean")
    /\ log' = [log EXCEPT !.first = install.snapshot.at, !.wal = <<>>, !.stale = TRUE]
    /\ UNCHANGED <<primaryVars, toolVars, update, standby, up, journal, stage, artifacts, countVars>>

RemoveReplacedWALFiles ==
    /\ At("clean") /\ To("current")
    /\ log' = [log EXCEPT !.stale = FALSE]
    /\ UNCHANGED <<primaryVars, toolVars, update, standby, up, journal, stage, artifacts, countVars>>

SwitchCurrent ==
    /\ At("current") /\ To("state")
    /\ log' = [log EXCEPT !.segments = SubSeq(Theirs, 1, install.snapshot.at)]
    /\ UNCHANGED <<primaryVars, toolVars, update, standby, up, journal, stage, artifacts, countVars>>

\* Mutant: the state does not name the installed Snapshot.
PublishUnanchored ==
    /\ At("state") /\ To("journal")
    /\ BeginUpdate("standby", Loaded(standby), Header(journal.term, install.snapshot.at, install.snapshot.at, None))
    /\ UNCHANGED <<primaryVars, toolVars, log, standby, up, journal, stage, artifacts, countVars>>

PublishState ==
    /\ At("state") /\ To("journal")
    /\ BeginUpdate("standby", Loaded(standby),
           Header(journal.term, install.snapshot.at, install.snapshot.at, install.snapshot))
    /\ UNCHANGED <<primaryVars, toolVars, log, standby, up, journal, stage, artifacts, countVars>>

RemoveJournal ==
    /\ At("journal") /\ Settled("standby") /\ To("cleanup")
    /\ journal' = None /\ artifacts' = "none"
    /\ UNCHANGED <<primaryVars, toolVars, update, log, standby, up, stage, countVars>>

RemoveStage ==
    /\ At("cleanup")
    /\ install' = NoJob /\ stage' = stage \ {install.snapshot}
    /\ UNCHANGED <<primaryVars, toolVars, update, log, standby, up, journal, artifacts, countVars>>

-----------------------------------------------------------------------------

Published(header) ==
    LET first == NextState(None, header, <<"init", 0>>) IN [files |-> {Link(first)}, pointer |-> first]

Init ==
    /\ env \in Environment
    /\ wal = env.files /\ segmented = env.segmented /\ packages = env.packages
    /\ states = Published(Header(1, env.committed, AnchorAt([anchor |-> env.anchor]), env.anchor))
    /\ loaded = None
    /\ phase = "down" /\ task = None /\ through = 0 /\ job = NoJob
    /\ tool = NoJob /\ unpublished = FALSE /\ update = [o \in Owners |-> NoUpdate]
    /\ log = [Empty EXCEPT !.wal = env.log]
    /\ standby = (IF env.log = <<>> THEN NoStates ELSE Published(Header(1, env.committed, 0, None)))
    /\ up = FALSE /\ journal = None /\ stage = {} /\ artifacts = "none" /\ install = NoJob
    /\ created = Cardinality(packages) /\ renewals = 0 /\ crashes = 0

StartStep ==
    \/ Promote \/ Promoted \/ OpenStates \/ CatchUp \/ PinRange \/ Retry \/ CopyFails
    \/ (\E n \in 1..MaxEntries : CopyEntries(n)) \/ OpenEngine
JobStep == FinishCheckpoint \/ CreateSnapshot \/ Anchor \/ CollectWAL \/ PublishBoundary \/ Prune
UpdateStep(owner) == WriteState(owner) \/ WriteCurrent(owner)
ToolStep == CollectOffline \/ PublishOffline \/ EndTool
InstallStep ==
    \/ WriteJournal \/ Resume \/ PublishArtifacts \/ CreateAfter \/ RemoveReplacedWALFiles
    \/ SwitchCurrent \/ PublishState \/ RemoveJournal \/ RemoveStage
StandbyStep == Boot \/ Booted \/ FlushStandby

Next ==
    \/ StartStep \/ JobStep \/ ToolStep \/ InstallStep \/ StandbyStep
    \/ AppendEntry \/ \E retain \in BOOLEAN : Checkpoint(retain)
    \/ \E owner \in Owners : UpdateStep(owner)
    \/ Renew \/ Close \/ Release \/ Stop \/ CrashPrimary
    \/ \E package \in packages : BeginTool(package) \/ Install(package)
    \/ CrashTool \/ CheckpointStandby \/ CrashStandby \/ StopStandby \/ ReplaceStandby

Spec == Init /\ [][Next]_vars

\* Both processes run what they began; nobody has to start a Snapshot, to
\* stop a process or to use the tool.
Fairness ==
    /\ (\A owner \in Owners : WF_vars(UpdateStep(owner))) /\ WF_vars(StartStep) /\ WF_vars(JobStep)
    /\ WF_vars(ToolStep) /\ WF_vars(InstallStep) /\ WF_vars(StandbyStep)

FairSpec == Spec /\ Fairness

-----------------------------------------------------------------------------
(* Properties.                                                             *)

\* The types of the variables.
TypeOK ==
    /\ phase \in {"down", "promoting", "promoted", "starting", "planned", "copying", "joined", "open",
                  "closing", "releasing", "blocked", "leaving", "failed"}
    /\ wal # <<>> /\ Committed \in 0..MaxEntries /\ segmented \in 0..Committed
    /\ \A i \in 1..(Len(wal) - 1) : wal[i].last = wal[i + 1].first
    /\ artifacts \in {"none", "torn", "whole"}
    /\ Len(Ours) \in 0..MaxEntries

\* Whatever part of the WAL is gone, a package that covers it is on disk, at
\* every crash point, and the state names one.  It need not name one in two
\* cases only: collect-wal has deleted and not published yet, for it deletes
\* first; or a Primary that was running beside it has published the state it
\* had in memory over the tool's.  The state that a current one continues is
\* found, whatever interrupted publications left behind.
RecoverySource ==
    /\ wal[1].first > 0 => \E package \in packages : package.at >= wal[1].first
    /\ unpublished \/ Covered(StateHeader(Loaded(states)))
    /\ \A store \in {states, standby} :
        Generation(Loaded(store)) > 0 => Cardinality(Previous(store)) = 1

\* A directory without a pending installation is one generation: no file of
\* the replaced WAL, no gap between Segments and WAL, and every entry the
\* state calls committed is there and is the Primary's.
InstallWhole ==
    journal = None =>
        /\ ~log.stale /\ Connected
        /\ LET committed == StateHeader(Loaded(standby)).committed IN
           /\ committed <= Len(Ours)
           /\ \A n \in 1..committed : Ours[n] = Theirs[n]

\* collect-wal is at work, has changed the state since this process read it,
\* or what it deleted is missing from the state.
Disturbed == tool # NoJob \/ loaded # Loaded(states) \/ unpublished

\* The Snapshot a recovery task names is there and the Standby may install it,
\* or has its staging directory.  It may be older than what the Standby has
\* committed, and is then refused, after a diverged log or collect-wal.
OfferSound(plan) ==
    plan.offer # None =>
        /\ plan.offer \in packages
        /\ \/ plan.offer \in stage \/ Acceptable(plan.offer)
           \/ /\ plan.mode = "diverged" \/ Disturbed
              /\ StateHeader(Loaded(standby)).committed > plan.offer.at

\* Why a start fails: collect-wal, or the Standby is empty and the WAL was
\* emptied by a process that died before it published the new boundary.
FailsOnly ==
    Disturbed \/ (Ours = <<>> /\ ~Bounds(wal).present /\ loaded.header.earliest < wal[1].first)

\* What a start ends in is right: an open Primary has a Standby with the same
\* log behind it, a new recovery task offers what OfferSound says, and a start
\* fails for the reasons of FailsOnly.
StartSound ==
    /\ [](phase = "open" /\ up => IsPrefix(Ours, Theirs) /\ Len(Ours) <= Committed)
    /\ [][phase' = "blocked" /\ phase # "blocked" => OfferSound(task')]_vars
    /\ [][phase' = "failed" /\ phase # "failed" => FailsOnly]_vars

\* What Store.Update refuses, seen on disk: Term, commit position, anchor and
\* boundary of the published state never move back.
NothingRegresses ==
    [][ValidTransition(Loaded(states), StateHeader(Loaded(states')))]_vars

\* A starting Primary either joins the Standby or asks for a Snapshot.
NeverFails == phase # "failed"

\* A journalled installation completes, unless a crash cut a copy short, and
\* retention ends: the state store refuses none of its publications.
WorkCompletes ==
    /\ journal # None ~> journal = None \/ artifacts = "torn"
    /\ job # NoJob ~> job = NoJob
=============================================================================
