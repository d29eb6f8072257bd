------------------------------- MODULE Standby -------------------------------
(***************************************************************************)
(* One Standby: a StandbyStore and its Receiver, receiving messages from   *)
(* leaders of any Term in any order, duplicated, delayed or lost, while    *)
(* the process checkpoints, fails, crashes, loses power and is reopened.   *)
(* The handlers run under the Receiver's lock, so each is one step; a      *)
(* checkpoint freezes under that lock and publishes outside it.            *)
(***************************************************************************)
EXTENDS StandbyOps

CONSTANTS
    Leader,      \* the nodes that may lead
    NoLeader,    \* no leader is saved
    MaxTerm,     \* Terms are 1..MaxTerm
    Entry,       \* the entries of the logs
    SenderLog,   \* the log prefixes a sender may hold
    MaxPosition  \* the highest position a message names

ASSUME TermAssumption == MaxTerm \in Nat \ {0}

ASSUME LeaderAssumption == NoLeader \notin Leader

ASSUME EntryAssumption ==
    \A e \in Entry : e.term \in 1..MaxTerm /\ e.index \in Nat /\ e.count \in Nat

ASSUME LogAssumption == SenderLog \subseteq Seq(Entry) /\ MaxPosition \in Nat

VARIABLES
    disk,       \* what survives the process
    rcv,        \* the receiver of the running process
    up,         \* whether the process serves
    announced   \* history: the highest position announced in each Term

vars == <<disk, rcv, up, announced>>

Term == 1..MaxTerm

Down == [term |-> 0, leader |-> NoLeader, durable |-> 0, committed |-> 0,
         applied |-> 0, pending |-> 0, table |-> 0, frozen |-> 0,
         flushing |-> "no", fatal |-> FALSE]

Init ==
    /\ disk = [log |-> <<>>, synced |-> 0, flushed |-> 0,
               saved |-> [term |-> 0, role |-> "none", leader |-> NoLeader,
                          committed |-> 0]]
    /\ rcv = Down
    /\ up = FALSE
    /\ announced = [t \in Term |-> 0]

-----------------------------------------------------------------------------
(* Opening and stopping.                                                   *)

\* The disk after a failure in the part of a checkpoint under the receiver's
\* lock: the state is saved or not, the WAL is rotated or not.
HalfFrozen(d, s) == {d, SaveState(d, s), FreezeDisk(d, s)}

\* OpenStandby under the Term and leader the coordinator names.
OpenStandby(t, leader) ==
    LET s == Opened(disk, t, leader) IN
    /\ ~up
    /\ MayFollow(disk, t, leader)
    /\ Recovers(disk)
    /\ \/ /\ NeedsCheckpoint(disk, t)
          /\ disk' = FreezeDisk(disk, s)
          /\ up' = ~CannotFreeze(s)
          /\ rcv' = IF CannotFreeze(s) THEN Down ELSE FreezeState(s, "open")
       \/ /\ NeedsCheckpoint(disk, t)
          /\ disk' \in HalfFrozen(disk, s)
          /\ up' = FALSE /\ rcv' = Down
       \/ /\ ~NeedsCheckpoint(disk, t)
          /\ up' = TRUE /\ rcv' = s /\ UNCHANGED disk
    /\ UNCHANGED announced

\* The process dies; what it wrote is still in the operating system's cache.
Crash ==
    /\ up
    /\ up' = FALSE
    /\ rcv' = Down
    /\ UNCHANGED <<disk, announced>>

\* The machine dies; of what no fsync covers, a prefix survives.
PowerLoss ==
    /\ \E k \in disk.synced..Len(disk.log) :
          disk' = [disk EXCEPT !.log = SubSeq(@, 1, k), !.synced = k]
    /\ up' = FALSE
    /\ rcv' = Down
    /\ UNCHANGED announced

-----------------------------------------------------------------------------
(* The handlers.                                                           *)

Serving == up /\ rcv.flushing # "open"

Receives(m) == Serving /\ ~Refuses(rcv, m)

\* Receiver.Append: accepted, refused for its content or for capacity, or
\* failed after writing some or all of the entries.
HandleAppend(m) ==
    LET d == AdoptOnDisk(disk, rcv, m)
        s == Adopt(rcv, m)
    IN
    /\ Receives(m)
    /\ \/ /\ AppendAccepted(d, m)
          /\ disk' = AppendLog(d, m)
          /\ rcv' = s
       \/ /\ ~AppendAccepted(d, m) \/ Len(m.log) > Len(d.log)
          /\ disk' = d
          /\ rcv' = s
       \/ /\ AppendAccepted(d, m) /\ Len(m.log) > Len(d.log)
          /\ \E k \in Len(d.log)..Len(m.log) :
                disk' = [d EXCEPT !.log = SubSeq(m.log, 1, k)]
          /\ rcv' = [s EXCEPT !.fatal = TRUE]
    /\ UNCHANGED <<up, announced>>

\* Receiver.Barrier.
HandleBarrier(m) ==
    LET d == AdoptOnDisk(disk, rcv, m)
        s == Adopt(rcv, m)
    IN
    /\ Receives(m)
    /\ \/ /\ BarrierAccepted(d, m.through)
          /\ disk' = BarrierDisk(s, d, m.through)
          /\ rcv' = BarrierState(s, d, m.through)
       \/ /\ ~BarrierAccepted(d, m.through)
          /\ disk' = d
          /\ rcv' = s
       \/ /\ BarrierAccepted(d, m.through) /\ NeedsSync(s, m.through)
          /\ disk' = d
          /\ rcv' = [s EXCEPT !.fatal = TRUE]
    /\ UNCHANGED <<up, announced>>

\* Receiver.AdvanceCommit.
HandleAdvance(m) ==
    LET d == AdoptOnDisk(disk, rcv, m)
        s == Adopt(rcv, m)
    IN
    /\ Receives(m)
    /\ disk' = d
    /\ rcv' = AdvanceState(s, d, m.through)
    /\ announced' = [announced EXCEPT ![m.term] =
                        IF m.through > @ THEN m.through ELSE @]
    /\ UNCHANGED up

-----------------------------------------------------------------------------
(* Checkpoints.                                                            *)

Checkpoint ==
    /\ up
    /\ rcv.flushing = "no"
    /\ ~rcv.fatal
    /\ \/ disk' = FreezeDisk(disk, rcv) /\ rcv' = FreezeState(rcv, "live")
       \/ disk' \in HalfFrozen(disk, rcv) /\ rcv' = [rcv EXCEPT !.fatal = TRUE]
    /\ UNCHANGED <<up, announced>>

\* The Segments are built and the Manifest is published, or the build fails.
PublishCheckpoint ==
    /\ up
    /\ rcv.flushing # "no"
    /\ \/ /\ disk' = [disk EXCEPT !.flushed = rcv.frozen]
          /\ rcv' = [rcv EXCEPT !.flushing = "no"]
          /\ UNCHANGED up
       \/ /\ rcv.flushing = "live"
          /\ rcv' = [rcv EXCEPT !.flushing = "no", !.fatal = TRUE]
          /\ UNCHANGED <<disk, up>>
       \/ /\ rcv.flushing = "open"
          /\ rcv' = Down
          /\ up' = FALSE
          /\ UNCHANGED disk
    /\ UNCHANGED announced

AppendMessage ==
    {[term |-> t, leader |-> l, log |-> g, from |-> i] :
        t \in Term, l \in Leader, g \in SenderLog, i \in 1..MaxPosition}

PositionMessage ==
    {[term |-> t, leader |-> l, through |-> i] :
        t \in Term, l \in Leader, i \in 1..MaxPosition}

Next ==
    \/ \E t \in Term, l \in Leader : OpenStandby(t, l)
    \/ Crash
    \/ PowerLoss
    \/ \E m \in AppendMessage : HandleAppend(m)
    \/ \E m \in PositionMessage : HandleBarrier(m) \/ HandleAdvance(m)
    \/ Checkpoint
    \/ PublishCheckpoint

Spec == Init /\ [][Next]_vars

-----------------------------------------------------------------------------
(* Properties.                                                             *)

\* The shapes of the disk and of the receiver.
TypeOK ==
    /\ disk \in [log : Seq(Entry), synced : Nat, flushed : Nat,
                 saved : [term : 0..MaxTerm, role : {"none", "standby"},
                          leader : Leader \cup {NoLeader}, committed : Nat]]
    /\ rcv \in [term : 0..MaxTerm, leader : Leader \cup {NoLeader}, durable : Nat,
                committed : Nat, applied : Nat, pending : Nat, table : Nat,
                frozen : Nat, flushing : {"no", "open", "live"}, fatal : BOOLEAN]
    /\ up \in BOOLEAN
    /\ announced \in [Term -> Nat]

\* The order the protocol promises of the receiver's watermarks, and what a
\* live receiver has applied is what it has committed (receiver.go:260).
WatermarkOrder ==
    up => /\ rcv.applied <= rcv.committed
          /\ rcv.committed <= rcv.durable
          /\ rcv.durable <= Len(disk.log)
          /\ disk.saved.committed <= rcv.committed
          /\ ~rcv.fatal => rcv.applied = rcv.committed

\* What the Manifest covers was committed when it was published, and that
\* commit is on disk: otherwise recovery refuses the directory
\* (recovery.go:89).  It is also in the synced part of the WAL.
ManifestCovered ==
    /\ disk.flushed <= disk.saved.committed
    /\ disk.flushed <= disk.synced

\* A commit never splits an Append batch, in memory or on disk
\* (receiver.go:278): a standby reopened on it replays whole batches.
WholeBatches ==
    /\ up /\ rcv.committed > 0 => EndsBatch(disk.log[rcv.committed])
    /\ disk.saved.committed \in 1..Len(disk.log)
          => EndsBatch(disk.log[disk.saved.committed])

\* A receiver works in the Term and for the leader that are on disk, so no
\* restart can make it listen to an older Term (receiver.go:344).
TermOnDisk ==
    up => disk.saved.term = rcv.term /\ disk.saved.leader = rcv.leader

\* Across crashes the saved Term never falls, and a Term keeps its leader.
OneLeaderPerTerm ==
    [][ /\ disk'.saved.term >= disk.saved.term
        /\ disk'.saved.term = disk.saved.term
              => disk'.saved.leader = disk.saved.leader ]_vars

\* The commit position rises only to a position announced in the receiver's
\* current Term: what an earlier leader announced and never made durable here
\* is not committed by a later leader's Barrier (receiver.go:349).
CommitAnnounced ==
    [][ up /\ up' /\ rcv'.committed > rcv.committed
          => rcv'.committed <= announced'[rcv'.term] ]_vars

\* A running standby never rewrites an entry it holds, whatever it is sent
\* (receiver.go:192, 202).
LogOnlyGrows ==
    [][ up /\ up' => /\ Len(disk.log) <= Len(disk'.log)
                    /\ SubSeq(disk'.log, 1, Len(disk.log)) = disk.log ]_vars
=============================================================================
