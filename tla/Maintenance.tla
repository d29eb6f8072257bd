---------------------------- MODULE Maintenance ----------------------------
(***************************************************************************)
(* The maintenance loop of a node (node/maintenance.go): each check        *)
(* samples the disk, pauses or admits writes, checkpoints when a threshold *)
(* is crossed, and makes a Snapshot and collects WAL when retention is due. *)
(*                                                                         *)
(* The controller's times are kept as ages counted in checks, and stop at  *)
(* the interval they are compared with.  Bytes of the MemTable and of the  *)
(* active WAL are one counter, unflushed; bytes of all WAL files are       *)
(* another, retained.  What a checkpoint and a retention pass do to the    *)
(* files is in modules Storage, Lifecycle and Rejoin.                      *)
(***************************************************************************)
EXTENDS Integers

CONSTANTS
    HighPercent,        \* disk_high_percent
    CriticalPercent,    \* disk_critical_percent
    MinimumAvailable,   \* minimum_available_bytes
    MaximumInterval,    \* checkpoint interval, in checks
    SnapshotInterval,   \* Snapshot interval, in checks
    RetryChecks,        \* checks before retention is tried again
    FlushLimit,         \* memtable_bytes and active_wal_bytes
    MaxRetained,        \* max_retained_wal_bytes
    Disks               \* what a sample may return

ASSUME MaintenanceAssumption ==
    /\ {HighPercent, CriticalPercent} \subseteq 1..99 /\ HighPercent < CriticalPercent
    /\ {MaximumInterval, SnapshotInterval, RetryChecks, FlushLimit} \subseteq Nat \ {0}
    /\ MinimumAvailable \in Nat /\ MaxRetained \in Nat
    /\ Disks \subseteq [capacity : Nat, available : Nat]

VARIABLES
    loop,               \* check, checkpoint, measure, retain, wait, done
    controller,         \* maintenanceController
    capacityCritical,   \* flag of the store that refuses writes
    unflushed,          \* records since the last checkpoint
    retained,           \* records in WAL files
    endangered          \* history: a critical sample, and no recovered one since

maintenanceVars == <<loop, controller, capacityCritical, unflushed, retained, endangered>>

Lower(a, b) == IF a < b THEN a ELSE b

UsedPercent(disk) ==
    IF disk.capacity > 0 /\ disk.available < disk.capacity
    THEN ((disk.capacity - disk.available) * 100) \div disk.capacity
    ELSE 0

CriticalNow(disk) == UsedPercent(disk) >= CriticalPercent \/ disk.available <= MinimumAvailable

Recovered(disk) == UsedPercent(disk) < HighPercent /\ disk.available > 2 * MinimumAvailable

\* Mutant: writes are admitted as soon as the disk is no longer critical.
NoHysteresis(disk) == CriticalNow(disk)

Critical(disk) == IF controller.critical THEN ~Recovered(disk) ELSE CriticalNow(disk)

High(disk) == Critical(disk) \/ ~Recovered(disk)

CheckpointDue(disk) ==
    \/ controller.sinceCheckpoint >= MaximumInterval
    \/ unflushed >= FlushLimit
    \/ High(disk) /\ ~controller.high

\* Mutant: only a disk above High starts retention, whatever WAL is retained.
RetentionOnHigh == controller.retryIn = 0 /\ controller.high

RetentionDue ==
    /\ controller.retryIn = 0
    /\ controller.high \/ controller.sinceSnapshot >= SnapshotInterval \/ retained > MaxRetained

InitMaintenance(ready) ==
    /\ loop = IF ready THEN "check" ELSE "wait"
    /\ controller = [critical |-> FALSE, high |-> FALSE, sinceCheckpoint |-> 0, sinceSnapshot |-> 0, retryIn |-> 0]
    /\ capacityCritical = FALSE /\ endangered = FALSE
    /\ unflushed = 0 /\ retained = 0

Check(disk) ==
    /\ loop = "check"
    /\ controller' = [controller EXCEPT !.critical = Critical(disk), !.high = High(disk)]
    /\ capacityCritical' = Critical(disk)
    /\ endangered' = (CriticalNow(disk) \/ (endangered /\ ~Recovered(disk)))
    /\ loop' = IF CheckpointDue(disk) THEN "checkpoint" ELSE "measure"
    /\ UNCHANGED <<unflushed, retained>>

\* The flag is raised, the controller is not told.
SampleFails ==
    /\ loop = "check"
    /\ capacityCritical' = TRUE /\ loop' = "wait"
    /\ UNCHANGED <<controller, unflushed, retained, endangered>>

\* The checkpoint, and the compaction after it whose error is only logged.
Checkpointed ==
    /\ loop = "checkpoint"
    /\ unflushed' = 0
    /\ controller' = [controller EXCEPT !.sinceCheckpoint = 0]
    /\ loop' = "measure"
    /\ UNCHANGED <<capacityCritical, retained, endangered>>

\* Retention waits for a later check.
CheckpointFails ==
    /\ loop = "checkpoint"
    /\ loop' = "wait"
    /\ UNCHANGED <<controller, capacityCritical, unflushed, retained, endangered>>

Measure ==
    /\ loop = "measure"
    /\ IF RetentionDue
       THEN loop' = "retain" /\ controller' = [controller EXCEPT !.retryIn = RetryChecks]
       ELSE loop' = "wait" /\ UNCHANGED controller
    /\ UNCHANGED <<capacityCritical, unflushed, retained, endangered>>

MeasureFails ==
    /\ loop = "measure"
    /\ loop' = "wait"
    /\ UNCHANGED <<controller, capacityCritical, unflushed, retained, endangered>>

\* createSnapshotAndCollectWAL checkpoints, copies the files and collects.
Collected ==
    /\ loop = "retain"
    /\ unflushed' = 0 /\ retained' = 0
    /\ controller' = [controller EXCEPT !.sinceSnapshot = 0]
    /\ loop' = "wait"
    /\ UNCHANGED <<capacityCritical, endangered>>

\* It fails before its checkpoint or after it; lastSnapshot stays.
RetentionFails ==
    /\ loop = "retain"
    /\ unflushed' \in {0, unflushed}
    /\ loop' = "wait"
    /\ UNCHANGED <<controller, capacityCritical, retained, endangered>>

\* A check that took long loses ticks.
Tick(elapsed) ==
    /\ loop = "wait"
    /\ controller' = [controller EXCEPT !.sinceCheckpoint = Lower(MaximumInterval, @ + elapsed),
                                        !.sinceSnapshot = Lower(SnapshotInterval, @ + elapsed),
                                        !.retryIn = IF @ < elapsed THEN 0 ELSE @ - elapsed]
    /\ loop' = "check"
    /\ UNCHANGED <<capacityCritical, unflushed, retained, endangered>>

EndMaintenance ==
    /\ loop = "wait"
    /\ loop' = "done"
    /\ UNCHANGED <<controller, capacityCritical, unflushed, retained, endangered>>

MaintenanceTypeOK ==
    /\ loop \in {"check", "checkpoint", "measure", "retain", "wait", "done"}
    /\ controller \in [critical : BOOLEAN, high : BOOLEAN, sinceCheckpoint : 0..MaximumInterval,
                       sinceSnapshot : 0..SnapshotInterval, retryIn : 0..RetryChecks]
    /\ capacityCritical \in BOOLEAN /\ endangered \in BOOLEAN
    /\ unflushed \in Nat /\ retained \in Nat

\* Writes stay paused from the first critical sample until a sample shows the
\* disk below High and with twice the minimum available, whatever samples fail
\* in between (maintenanceController.evaluate, runEngineMaintenance).  A failed
\* sample alone pauses them only until the next one: the controller does not
\* hear of it.
CriticalUntilRecovered == endangered => capacityCritical
=============================================================================
