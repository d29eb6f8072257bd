# streamd in TLA+

A verification development for streamd, a replicated append-only stream store in
Go. The modules are translated from the code under `src/`; `PROJECT.json` maps each
definition to the lines it models, lists the runs, the theorems, the hazards and the
places where the code and what is written about it disagree.

## The system

A streamd process keeps streams of records in one data directory. It runs alone
(*Single*) or as one of a pair in *Strict* replication, where the *Primary* answers an
append only when its *Standby* has made it durable too. An operator chooses the role
at start; etcd holds the leader key, whose revision is the Primary's *Term*.

| Part | Source | What it keeps, who changes it |
|---|---|---|
| Coordinator | `internal/coordinator/etcd` | leader key and lease in etcd: Acquire, Renew, Release |
| Leadership controller | `internal/leadership` | role, Term, deadline: Acquire, Renew, ObserveHigherTerm, Release; `CanWrite` guards every append and commit |
| Group committer | `internal/storage/commit` | a bounded queue and one goroutine that writes, syncs, replicates, commits and applies groups |
| Engine | `internal/storage/engine` | append gates per stream, entry IDs, MemTable, reader, Manifest; checkpoint, compaction, notifications |
| WAL | `internal/storage/wal` | files of entries with chained CRCs, `WAL-CURRENT`, seals; history, pins and collection |
| Recovery | `internal/storage/recovery` | Manifest, sealed and active WAL files into a MemTable |
| Segments, Manifest, lifecycle | `internal/storage/{segment,manifest,lifecycle}` | immutable files, the published set, pins and trash |
| Projections | `internal/storage/{tail,locator,registry,projection}` | indexes, rebuilt from the facts when missing |
| Replication State | `internal/storage/replicationstate` | durable Term, role, leader and watermarks |
| Receiver and StandbyStore | `internal/replication/{receiver,standby}.go` | a Standby's watermarks, WAL and tables: Append, Barrier, AdvanceCommit, Checkpoint |
| Primary, catch-up, planner, promotion | `internal/replication`, `internal/node/ha.go` | the order in which a node with a lease becomes a serving Primary |
| Snapshots, retention | `internal/storage/{snapshot,retention}` | copies for a new Standby, their installation, and the WAL they allow to delete |
| Service | `internal/service` | gRPC: limits, Append and Subscribe, answers, drain |
| Node | `internal/node` | start and shutdown, the maintenance loop that pauses writes, checkpoints and retains |

`PROJECT.json` has the full list, with the reason for every part that is not modelled.

What is concurrent: client calls, the committer goroutine, lease renewal, maintenance
and the RPC handlers of a Standby, within a process; two processes and etcd between
them. What is durable: WAL files, `WAL-CURRENT`, Segments and Manifest, Replication
State. Everything else is lost in a crash. A process may die alone (files keep what
was written) or with its machine (files keep what was synced).

## Modules

| Module | Models | State |
|---|---|---|
| `Leadership` | etcd, coordinator and controller of several nodes, time | etcd's key, leases and transactions under way; per node a session and a controller; the clock |
| `LeadershipProofs` | proofs about `Leadership` | |
| `Committer` | engine append path and group committer | calls, gates, queue, group under way, WAL, tables, watermarks |
| `CommitterOrder`, `CommitterProofs` | proofs about `Committer`: locks, order and watermarks; sequences and answers | |
| `StandbyOps` | what a Standby's handlers do, as operators on a disk and a receiver | none |
| `Standby` | one Standby with any senders | disk, receiver |
| `StandbyProofs` | proofs about `Standby` | |
| `StreamLog` | abstract specification: what clients of a stream see | the log, requests tried, requests acknowledged |
| `StrictHA` | two nodes: lease as a guard, promotion, catch-up, appends, the Standby of `StandbyOps` | per node a disk, a receiver and a process; late messages; what clients saw |
| `StrictHASteps`, `StrictHAProofs` | proofs about `StrictHA`: the invariant and its steps; the properties and that it implements `StreamLog` | |
| `Storage` | WAL files, rotation, checkpoint, reader, recovery, WAL collection of one node | files, pointer, Manifest, MemTables, append and checkpoint under way |
| `Projections` | Segment directories, Locator pages and chains, Tail Catalog, Registry Snapshot, their builders and lookups | none |
| `Catalog` | names, tails, reads and times of one engine while Checkpoint and Compact replace its projections | log, Manifest, damage, MemTables, reader's view, Registry |
| `Lifecycle` | immutable files: publication, pins, retirement, trash, handles, online Snapshots | directories, `CURRENT`, pins, pending list, job, readers, Snapshots |
| `LifecycleProofs` | proofs about `Lifecycle` | |
| `Recovery` | Replication State files, bounds of the retained WAL, the planner, as operators | none |
| `Rejoin` | a Primary that collects WAL behind Snapshots, and a Standby that catches up or installs one | both directories, starting process, retention job, `collect-wal`, installation journal |
| `Maintenance` | the maintenance loop and its controller | controller, flags, backlog |
| `Service` | Append and Subscribe handlers, notifications, rate limit, shutdown; extends `Maintenance` | calls, notifications, streams, bucket, phase of the node |
| `ServiceProofs` | proofs about `Service` and `Maintenance` | |
| `MC...` | instances for TLC | |

How the modules fit together:

- `Leadership` shows that at most one node passes `CanWrite`, as long as its timing
  assumption holds. `StrictHA` uses that as its guard and checks that writing *while* or
  *after* losing the lease does no harm.
- `Committer` shows, and `CommitterOrder` proves for any instance, that one group at a time
  goes through write, sync, replicate, commit, apply in order. `StrictHA` and `Storage`
  therefore take one request at a time through these stages, and `Service` takes the commit
  of a group as one step and the exclusiveness of a stream's gate as given.
- `StandbyOps` is shared: `Standby` runs the handlers against arbitrary senders, with a
  checkpoint in two halves; `StrictHA` runs the same operators against a real Primary
  and is proved to implement `StreamLog`.
- `Storage` has the WAL as files; the replication modules and `Catalog` have it as one
  sequence, which is what `Storage` shows recovery to produce.
- `Storage`, `Catalog` and `Lifecycle` look at the same checkpoint from three sides:
  which records are in which layer, what the projections say about them, and which
  files exist. Each has the job in the same steps, with the data the other two need
  left out.
- `Rejoin` starts where the catch-up of `StrictHA` ends: the WAL the Standby needs may be
  gone. Its plans are the operators of `Recovery`.
- `Service` extends `Maintenance`, so that appends, the backlog they create and the flag
  that refuses them are one system.

### How code becomes state and actions

*Leadership.* A coordinator call is a send, an application by etcd and an answer, each a
step, so that an answer may be lost and a transaction applied late. A node's deadline is
computed from the time of the answer, as in `coordinator.go`.

*Committer.* One action per point where the code blocks, locks or sends: acquiring a
gate, locking the engine, sending to the queue, collecting, and each stage of
`process`. Errors of write, fsync and replication are alternatives of the stage. A write
that fails may leave any prefix of the group in the WAL. Of the MemTable the model keeps
what validation reads, the next sequence of each stream (`tail`).

*Standby.* The handlers hold the receiver's lock, so a handler is one action with an
alternative for each early return. Positions are prefix lengths; equality of CRCs at a
position is equality of the prefixes, because every CRC covers the previous one. A checkpoint
that fails may have saved the Replication State and rotated the WAL (`HalfFrozen`).

*StrictHA.* An RPC is one step of the caller with three outcomes: answered; handled and
the answer lost; given up and handled later or never. Every state of the process that
survives a blocking call is a `role` or a `stage`. Which faults a behaviour may contain is
its environment `env`, chosen at the start: loss of unsynced data (`power`), nodes replaced
by empty ones (`loss`), or neither. The operator replaces a node only when no earlier
replacement is still to be caught up: `fresh` holds a replaced node until a leader begins
to serve and that node has the leader's whole log and counts it as durable.

*Storage.* An action ends wherever a crash would leave a different disk: after each
written entry, the seal, the new file, the pointer, the removal, the Manifest.

*Catalog.* Reads, tails and name lookups are operators on the state, evaluated in every
state by the invariants; appends and the steps of the two maintenance operations are
actions. All frames have one length, so byte offsets run with sequence numbers. A
projection file is readable or not; a damaged one is noticed where the code verifies it.

*Lifecycle.* A file is its kind and the job that wrote it. The Manifest file and the switch
of `CURRENT` are two steps. Taking a pin, retiring and trashing are one step each,
because the manager's mutex is held throughout. A retirement that fails leaves its file
pending, moved or not, and a collection that fails leaves some of the trash.

*Rejoin.* A Replication State update is two steps, file and pointer, owned by the process
that makes it. The copy of a Snapshot into place may be torn by a crash. Appends are
excluded while a checkpoint is between its state update and its freeze, as the engine's
lock does. A starting Primary reads the state once and publishes from that copy (`loaded`),
with every lease renewal and with the release of a blocked one. It has no lock of
its directory until it opens the engine, so `collect-wal` may run beside it, with a
History and pins of its own; `unpublished` holds while what the tool deleted is missing from
the state.

*Service.* One action per critical section of `notifyMu`, per blocking select and per call into
the engine. Time does not appear: heartbeats, deadlines, the slow-consumer timer and the
shutdown timeout may fire whenever they are armed. In `Maintenance` ages are counted in
checks and stop at the interval they are compared with.

## Runs

| Run | Properties | Bounds |
|---|---|---|
| `leadership` | `WriteExclusion`: at most one node may commit. `FencedBeforeGrant`: the key changes hands only when nobody else may commit. `PromotionRaisesTerm` | 2 nodes, TTL 3, margin and call timeout 1, 5 ticks: a lease expires and is granted to the other node |
| `committer` | `SuccessIsDurable`, `SequencesContinuous`, `RejectedNeverWritten`, `ValidatedStaysValid`: what was validated under the gate is still true when written. `BarrierDrains`, `FailedStaysFailed` | 2 rivals on one stream (one a batch, one retried) and a request on another stream, queue of 2; errors, cancellation, Barrier, Close |
| `committer_live` | `AppendReturnsEventually`, with its gate reopened; `CloseEnds` | a batch and its successor, two attempts each |
| `standby` | `ManifestCovered`, `WholeBatches`, `OneLeaderPerTerm`, `CommitAnnounced`, `LogOnlyGrows` | 3 Terms, 2 leaders, two logs that diverge after one entry, one with a batch of two; crashes, power loss, checkpoints |
| `strictha` | `NoFork`, `AckedServed`; `OneLog`: the pair implements `StreamLog` for its clients | 3 requests of which 2 are rivals, chunks of 1; nodes replaced over 2 Terms with a late message, or power lost over 2 Terms with a late message or 3 Terms without |
| `storage` | `AckedReadable`: acknowledged records are readable at every moment and batches are whole. `RecoveryAccepts`: recovery accepts what crashes leave, but for the one layout it names | 3 entries in batches of 1 and 2, 4 files, 4 incarnations; loss of power, or clients that retry |
| `catalog` | `ReadsMatchLog`: reads and time lookups give what is in the log, in every state. `TailsMatchLog`, `NamesMatchLog`, `LocatorFindsAll` | 2 names, 3 generations; 4 entries and an unreadable projection, or 3 entries and an unreadable frame |
| `catalog_swap` (violation) | `MaintenanceSurvives` | 3 names, 4 entries, no damage |
| `lifecycle` | `FilesInPlace`, `SnapshotsWhole`, `NothingLeaks`; `PendingRetired`: what waits for a pin goes in the end | 3 jobs, one handle; 2 readers, 2 Snapshots, or one of each, with a failed operation and a crash in some of the 4 mixes |
| `rejoin` | `RecoverySource`: whatever WAL is gone, a Snapshot covers it. `InstallWhole`; `StartSound`: what a start of the Primary ends in is right, and it fails for named reasons only; `WorkCompletes`: installation and retention end | 3 entries, 8 environments: a Standby that lags, is replaced, is new, has diverged, has diverged after entries it committed, has joined; the offline tool with one package, and with two. A crash in all but one, a lease renewal in three |
| `rejoin_beside` (violation) | `NothingRegresses`: Term, commit position, anchor and boundary of the published state never move back | the offline tool beside a Primary, one lease renewal |
| `service` | `NoLostWakeup`, `CountsExact` (waiters, subscriptions, tokens), `AnswersTrue`, `CriticalUntilRecovered`; `CaughtUp`, `ShutdownCompletes`, `MaintenanceKeepsUp` | 6 environments: 2 subscribers of one stream; calls that fail and are cancelled; 2 queued appends; 2 subscribers for 1 place; appends beside maintenance; 3 appends against the rate limit |

Most instances have a second configuration, `MC<Module>More.cfg`, with their type invariant and
further invariants that the ones above build on: `WatermarkOrder` and `NothingAfterShutdown`
(`Committer`); `OneServing`, `AckedOnBoth` and `AgreesWithPublic` (`StrictHA`); `FilesDisjoint` (`Storage`);
`ManifestIsPrefix` (`Catalog`); `HandlesBounded` and `LeavesUnused` (`Lifecycle`). All of them hold.
They are run like the others: `tlc -config MCCatalogMore.cfg MCCatalog`. Those of `Leadership`
(`TypeOK`, `WriterOwnsKey`) and `Standby` (`TypeOK`, `WatermarkOrder`, `TermOnDisk`) have no
configuration, because they are proved.

Why the bounds are enough: four incarnations let a crash hit the repair of an
interrupted step twice; two Terms give an old and a new leader, the third a leader
that returns; two rivals for one sequence make a lost append and its replacement
differ; a batch of two is the smallest that can be cut; a chunk of one makes every
catch-up of two entries take two calls. Three generations are a checkpoint, another and
their compaction, or a checkpoint between whose steps names are created; pages and
blocks of one entry make every stream with two extents a chain. One handle and two
readers force an eviction. In `rejoin` a Snapshot that exists at the start and one made
later give an old and a new recovery source. In `service` two subscribers share a
notification, and one leaves it while the other stays.

Symmetry is used for the nodes of `leadership` and `strictha`, whose temporal
properties are of the form Init and [][A]_vars only. Deadlock checking is off
everywhere: processes may be down or stopped for good, and the bounds on Terms,
incarnations and entries run out.

### Fairness

Go's scheduler runs every goroutine that can run, which justifies weak fairness for
the steps of each of them. Clients, cancellations, timers, crashes and errors have
no fairness.

- `Committer`: weak for every call, the release of a gate, Barrier, Close and the
  committer goroutine.
- `Lifecycle`: weak for the steps of a job, opening and the end of a read; strong for
  installing a view, because a waiting writer of `viewMu` keeps new readers out, and
  for the steps of a Snapshot.
- `Rejoin`: weak for state updates, start, retention job, tool, installation and Standby.
- `Service`: weak for each subscriber, the appends with the committer, the shutdown and
  the maintenance loop. Strong for the end of that loop, whose `select` picks at random
  among what is ready, and for the *successful* outcome of a sample, a checkpoint, a
  measurement and a collection: `MaintenanceKeepsUp` claims nothing for a disk on which
  one of them fails every time. `CaughtUp` and `ShutdownCompletes` use no timer: the heartbeat
  and the shutdown timeout are allowed to never fire.

### Where the code and its texts disagree

Two disagreements are runs, with the lines in `findings` of `PROJECT.json`:

- `catalog_swap`: the names created during a checkpoint or a compaction are carried over to
  the new Registry in the order of a Go map (`registry/registry.go:237-247`), and the
  Registry refuses one that comes after a later one, which stops the engine;
  `docs/current-architecture-audit.md:577` says they are kept.
- `rejoin_beside`: a Primary that starts, copies WAL or is blocked on a recovery task does not
  hold the lock of its directory (`replication/promotion.go` releases it, the engine takes it
  again), so `collect-wal` runs beside it. The next lease renewal or release publishes the
  state that the Primary read before (`leadership/controller.go:136`) and moves boundary and
  anchor back; `docs/current-architecture-audit.md:382` and `505` say that the lock excludes this.

Others have a configuration of their own with which TLC shows the counterexample:

- `MCStorageBatch.cfg`: recovery refuses a WAL that ends inside a batch
  (`recovery/recovery.go:274`); `docs/recovery-protocol.md:169` says the batch is truncated.
- `MCStorageOrphan.cfg`: a header-only WAL file left by a crash makes a later recovery
  fail; the comment in `Rotate` says recovery ignores it.
- `MCStrictHARefused.cfg`: a first Primary that dies before it saved a commit position can
  never be promoted again.
- `MCCommitterGuard.cfg`: an append rejected by the write guard has already used its entry
  ID, so the next append breaks the WAL's sequence and the committer fails.
- `MCStrictHALoss.cfg`: a restarted Standby counts its whole WAL as durable and answers a
  Barrier without an fsync; the loss of the Primary and of power then loses an
  acknowledged append.
- `MCLeadershipTiming.cfg`: the accepted configurations include ones whose safety margin
  does not cover a slow answer (TTL 5, timeout 3).
- `MCCatalogFacts.cfg`: `visitFacts` declares `readErr` a second time inside its loop
  (`registry/facts.go:77`), so an unreadable frame of the Registry Stream ends the scan
  without an error, and a Stream ID is given twice. The comment of `RebuildMappings` calls
  it the correctness fallback. For that reason `NamesMatchLog` speaks of states without an
  unreadable frame.
- `MCRejoinBoundary.cfg`: a crash after the WAL was emptied and before the new boundary is
  published (`retention/online.go:51`) makes the start with an empty Standby fail; the comment
  at `online.go:22` calls every such crash point recoverable. Beside a `collect-wal` that
  disturbs it, `StartSound` names this as the only reason for a start to fail.

The cause of `MCStrictHALoss.cfg` also exists on one node: opening a WAL syncs it only when
something was truncated (`wal/log.go:110`), so after a process crash a retried append is
answered from entries that are only in the page cache. For that reason `storage` lets
power fail or clients retry, not both, and `AckedOnBoth` speaks of behaviours without
loss of power. A Standby without a saved commit position replays its whole WAL
(`standby.go:103`), so its tables may reach beyond its commit position until the next
leader commits.

The remaining ones are visible where a property names an exception:

- An append that is given up and whose group is applied and then fails is not signalled by
  `finishAppend`, and a subscriber finds its record at the next heartbeat;
  `docs/current-architecture-audit.md:262-263` says that Subscribe is notified when the
  append completes. `NoLostWakeup` and `CaughtUp` name the exception (`silent`).
- A failed disk sample raises the store's flag and not the controller's, so the next good
  sample clears it without hysteresis; `docs/operations.md:161` says that it is handled as
  Critical. `CriticalUntilRecovered` speaks of samples that were taken.
- A file torn in the middle of its copy stays in place and makes every resumption of the
  installation fail; `snapshot/install.go:146` says that `ResumeInstall` completes the
  intent, and `docs/operations.md:465-466` that a normal start does. `WorkCompletes` exempts it,
  and `InstallWhole` speaks of directories without a pending installation.
- Offline collection deletes WAL before it publishes boundary and anchor, where
  `docs/operations.md:405-406` speaks of one atomic advance. `RecoverySource` names the time in
  between (`unpublished`).

Further behaviour that the models have because the code has it, and of which the texts
say nothing:

- The trigger `enteredHigh` is used up even when its checkpoint fails, and retention is
  skipped in a check whose checkpoint failed.
- A recovery task after a diverged log may offer a Snapshot older than the Standby's
  committed position, which the installation refuses.
- A crash between the staging directory and the journal makes a retry of the installation
  fail because the directory exists.
- An online retention under pressure skips the pruning of old Snapshots; a compaction whose
  retirement of Segments fails skips that of its other artifacts.

## Proofs

Six sets of proofs, all about every value of the constants.

`LeadershipProofs` proves `TypeOK`, `WriterOwnsKey`, `WriteExclusion`,
`FencedBeforeGrant` and `PromotionRaisesTerm`. The assumptions are those of `Leadership`
(`TimingAssumption`: what `config.go` validates; `NodeAssumption`, `LeaseAssumption`) and, for
all but the first, that the call timeout is within the safety margin: the theorems have
it as their hypothesis, and `MCLeadershipTiming.cfg` shows that it is needed. The argument:
etcd dates a lease no earlier than the call that asked for it (`DeadlineAfterCall`), so a
node's own deadline is late by at most the timeout of a call (`DeadlineSkew`); a lease in
use disappears only by expiring (`GoneMeansExpired`); while it lives, the key is this
session's (`LiveLeaseHoldsKey`). A node that passes `CanWrite` is ahead of its deadline by
the margin, hence its lease is live, hence the key is its own. `LInv` joins these facts
for all nodes; `WriterOwnsKey` alone is not inductive because it says nothing of calls
under way.

`StandbyProofs` proves the properties of the `standby` run, and `TypeOK`, `WatermarkOrder` and
`TermOnDisk`. The assumptions are that there is a Term, that "no leader" is not a leader, and the shapes of
entries and logs. The invariant `IInv` adds three facts to the properties: the synced part
of the WAL is within the WAL; what a running checkpoint froze is within the saved commit
position and the synced WAL, so publishing it is safe however long it takes; and a
pending commit position is committed already or was announced in the receiver's own
Term. The proof has one lemma per operator of `StandbyOps` (`Adopted`, `Extended`, `Synced`,
`Advanced`, `Frozen`, `Started`), each saying that the operator keeps the disk's and the
receiver's part of the invariant, one lemma per action composed of them, and
`StepKeeps`, which also carries the three action properties.

`CommitterOrder` and `CommitterProofs` prove the safety properties of the `committer` run and
of `MCCommitterMore.cfg`: `SuccessIsDurable`, `RejectedNeverWritten`, `SequencesContinuous`,
`ValidatedStaysValid`, `WatermarkOrder`, `BarrierDrains`, `NothingAfterShutdown` and the action
property `FailedStaysFailed`, for any requests and streams, any batch sizes, expected
sequences and retries, and any capacity of queue and group. The assumptions are
`RequestAssumption` (a batch has a record), `OptionAssumption` (the positive capacities that
`NewWithOptions` ensures) and `NameAssumption` (requests, streams and the lock's other holders
have different names). The invariant has two layers.

- `OrderInv` is about control. `Locks`: who is past a gate or inside the mutex owns it.
  `Pipeline`: entry IDs grow from the group through the carried item to the end of the
  queue. `Controls`: a barrier or a shutdown is the last item in the committer.
  `Tickets`: a batch in flight belongs to one waiting call, or to one gate whose caller has
  gone, and no completed ticket is in flight. `Marks`: what the watermarks are at each stage
  of a group, and that the group is the end of the WAL. None is inductive alone: IDs grow
  because they are given out under the mutex, and tickets are unique because IDs grow.
- `CommitInv` adds the data. `Sequenced`: what was validated still continues its stream.
  `Answers`: what a caller was told, or will be told by a completion that already
  exists, is true of the log. The properties alone are not inductive, because they speak of
  returned calls and not of completions nobody has read yet. The step from order to data
  is `StreamAlone`: at most one batch of a stream is in flight, because the gate stays closed
  when its caller gives up, and the registry's batches are sent and awaited under the mutex.
  Hence the tail a batch was validated against is its stream's tail when it is written
  and when it is applied.

TLC checked `CommitInv` as an invariant of both instances of `MCCommitter` before it was proved.
That every entry ID of a group without gap belongs to one of its batches would be an
induction over the group; it is an invariant of its own instead (`Filled`), which a member
keeps when it joins.

`StrictHASteps` and `StrictHAProofs` prove the properties of the `strictha` run and of `MCStrictHAMore.cfg`, but for
its type invariant: `NoFork`, `AckedServed`, `OneServing`, `AckedOnBoth`, `AgreesWithPublic`, and that the
pair implements `StreamLog` (`OneLog`), for any requests, Terms, late messages and chunk size.
The assumptions are `PairAssumption` (two nodes) and `AppendAssumption` (expected sequences are
numbers, a chunk has an entry). All theorems but `StrictNoFork` have `OneKindOfFault` as their hypothesis: no behaviour contains
both a loss of power and a node lost for good. `MCStrictHALoss.cfg` shows that it is needed.
`NoFork` itself speaks of behaviours without lost nodes. The argument has three parts.

- *Terms order the leaders* (`Terms`). A receiver refuses messages older than the Term it
  knows of, so there is a least Term (`Floor`) below which nothing can change a log any more,
  and only messages from there on (`Live`) matter. Of two nodes with a lease granted, the
  one that already calls its peer has the older Term.
- *A leader knows the other log* (`Leader`, `Server`). Catch-up establishes that the peer's
  log is its own, and each stage of an append adds what the answers tell: that the logs
  agree, that the peer has everything and counts it as durable. These facts survive what
  the peer receives meanwhile, because once it was contacted that comes from this leader.
- *What readers have seen is kept* (`Keepers`, `Recorded`, `Unforked`). When power can fail, one
  node has synced everything public; otherwise each node has it that is not a replacement to
  be caught up. Every log, and every log still under way in a message, agrees with what is
  public and has at most one entry more. Without lost nodes all of them agree everywhere,
  because a node sends only what it has synced or counts as committed (`Vouches`).

The properties alone say nothing of messages under way and of a leader in the middle of
catching up. Most actions change no log except by a message; for them the invariant is
carried over once, from what such a step leaves (`Steady`, `SteadyStep`). Crash, power loss
and replacement share `LossStep`; writing and publishing an entry have their own lemmas. TLC
checked each conjunct as an invariant of `MCStrictHA` before it was proved. The refinement needs no
further invariant: only `CommitEntry` and `Serve` make entries public, and `NextInv` says which.

`LifecycleProofs` proves `FilesInPlace`, `SnapshotsWhole`, `NothingLeaks` and the action property
`LeavesUnused`, for any readers and Snapshots and any number of generations. The assumption is
`LifecycleAssumption` (at least one handle, finitely many Snapshots, numbers for the budgets of
failures and crashes). Whether a file may be trashed depends on everything that holds it,
so `IInv` says how memory relates to `CURRENT` in each mode (`Memory`), what a job has written at
each step (`Making`) and may still retire (`Replacing`), that the pins are exactly the
Snapshots' (`PinsExact`), that a Manifest which is being copied is not overwritten (`Copying`,
`Published`), and, as long as nothing failed, which step accounts for each file that no
generation uses (`Accounted`). `PinsExact` is what makes a release safe beside another Snapshot
of the same generation.

`ServiceProofs` proves the safety properties of the
`service` run: `TypeOK`, `NoLostWakeup`,
`AnswersTrue`, `CountsExact` and `CriticalUntilRecovered`, for any number of subscribers,
appends and streams, any subscription limit, rate and burst, and any disk thresholds
that the configuration accepts. The assumptions are `ServiceAssumption` (finitely many
subscribers, positive rate, burst and limit, an append not yet in its stream) and
`MaintenanceAssumption`. The invariant `SInv` is built from four groups of facts:

- *Notifications* (`NotesInv`). A call holds a notification exactly while it waits or
  leaves; the waiters of a notification are its holders; what the map holds is open,
  held, and held for its own stream only; and a call on an open notification finds that
  same notification in the map, which is what makes the next signal reach it. The last
  fact is the one that `NoLostWakeup` lacks: without it a release by one waiter could
  delete the entry another one sleeps on. That a fresh notification is free is a
  pigeonhole argument over the waiting calls (`FreshFree`).
- *Appends* (`WritesInv`): a record is in its stream exactly when its future says it was
  applied, at every stage of the call and after its caller has given up.
- *Counters*: `subs` is the number of calls between their admission and their release,
  and the bucket, refilled lazily on a write, is the one refilled as time passes.
- *Maintenance* (`ControllerKnows`): while a critical sample has no recovered one after it,
  the controller and the store's flag are both critical. `CriticalUntilRecovered` alone is not
  inductive, because the flag is set from the controller at the next sample.

`SStep` has a case per kind of step: a Subscribe call, an append, and the node with time
and maintenance. Steps that touch neither the map nor the holders are handled once, by
`NotesQuiet` and `WakeupQuiet`.

Only model-checked: everything about `Storage` and `Catalog`, whose recovery and lookups fold
over files and entries, so that what they compute is an induction over data; everything
about `Rejoin`; `StrictHA`'s own `TypeOK`, beside the types that its invariant has; `HandlesBounded`;
and liveness (`AppendReturnsEventually`, `CloseEnds`, `PendingRetired`,
`WorkCompletes`, `CaughtUp`, `ShutdownCompletes`, `MaintenanceKeepsUp`), which is out of the prover's reach,
as is ENABLED.

## What is not modelled

- Byte formats and checksums: a CRC that covers its predecessor is taken as equality of
  prefixes, a damaged file as unreadable. Their layouts are out of a model checker's reach.
- Generated code, metrics and diagnostics, access control, command-line tools other than
  `collect-wal`, the offline scrub. They do not change the state the properties are about.
- `replication/rejoin.go`, a pure decision, and `Acquire` and `ObserveHigherTerm` of the leadership
  controller: nothing but tests calls them.
- The refresh of the WAL history beside a running rotation (`wal/history.go`), which is
  one step in `Rejoin` and `Storage`; and the liveness of a catch-up whose Standby holds
  more than one chunk (`primary.go:70`), whose safety `StrictHA` checks.
- The Standby's compaction, a copy of the engine's, which `Lifecycle` and `Catalog` model.
- The persistence of a leader's Term as a component of its own: it is a field of the
  states of `Recovery` and `StandbyOps`.
- Connection set-up, certificates, message limits and the administration runtime.
- Loss of power in `Catalog`, `Lifecycle` and `Rejoin`: these have process crashes only, since
  every publication they step through is synced before the next; `Storage` and `Standby`
  lose unsynced data.
- The byte rate of the write limiter: a write may be refused whenever the limit is on
  (`AllowWrite`); the request rate is counted. The error of an unpin that a released
  catch-up ignores.
