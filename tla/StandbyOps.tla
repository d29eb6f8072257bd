----------------------------- MODULE StandbyOps -----------------------------
(***************************************************************************)
(* What the handlers of a Standby do, as operators: Receiver.Append,       *)
(* Barrier and AdvanceCommit (replication/receiver.go), and opening and    *)
(* checkpointing the StandbyStore around it (replication/standby.go).      *)
(*                                                                         *)
(* A disk d is what survives the process:                                  *)
(*   d.log     the entries written to the WAL                              *)
(*   d.synced  how many of them an fsync covers                            *)
(*   d.saved   the Replication State; saved.term = 0 when there is none    *)
(*   d.flushed the position the Manifest's Segments cover                  *)
(* A receiver s is what the process holds: ReceiverState, the positions    *)
(* its tables (table) and its frozen tables and Segments (frozen) reach,   *)
(* whether a checkpoint is between its freeze and its publication          *)
(* (flushing: "open" inside OpenStandby, "live" later, else "no"), and     *)
(* whether it has failed.  Positions are lengths of log prefixes, so 0 is  *)
(* the invalid Position.                                                   *)
(*                                                                         *)
(* An entry is [term, index, count, val]: index and count place it in its  *)
(* Append batch.  An entry's CRC covers the CRC of the entry before it, so *)
(* "the CRCs at position i agree" is modelled as "the logs agree through   *)
(* i": the checksum is taken to be collision free.                         *)
(*                                                                         *)
(* A message m has term, leader and, for Append, the sender's log through  *)
(* the last entry sent (m.log) and the position of the first one (m.from). *)
(***************************************************************************)
EXTENDS Integers, Sequences

Least(a, b) == IF a <= b THEN a ELSE b

EndsBatch(e) == e.index + 1 = e.count

\* acceptSender refuses: the receiver failed, the Term is old, or another node
\* claims the current Term.
Refuses(s, m) ==
    \/ s.fatal
    \/ m.term < s.term
    \/ m.term = s.term /\ m.leader # s.leader

\* Mutant: the positions an older leader announced are kept.
AdoptKeepingPending(s, m) ==
    IF m.term > s.term
    THEN [s EXCEPT !.term = m.term, !.leader = m.leader]
    ELSE s

\* acceptSender in a newer Term: what was not committed is no longer promised.
Adopt(s, m) ==
    IF m.term > s.term
    THEN [s EXCEPT !.term = m.term, !.leader = m.leader, !.pending = s.committed]
    ELSE s

\* observeTerm: the newer Term is on disk before anything else happens.
AdoptOnDisk(d, s, m) ==
    IF m.term > s.term
    THEN [d EXCEPT !.saved.term = m.term, !.saved.role = "standby",
                   !.saved.leader = m.leader]
    ELSE d

\* The entries of an Append message are decoded and compared with each other.
WellFormed(m) ==
    /\ m.from \in 1..Len(m.log)
    /\ \A i \in m.from..Len(m.log) :
          /\ m.log[i].term <= m.term
          /\ i > m.from => m.log[i].term >= m.log[i - 1].term

\* Mutant: the overlap with the local log is not compared.
ConnectsAtTail(d, m) == m.from <= Len(d.log) + 1

\* No gap before the first entry, and no entry that differs where both logs
\* have one; the position before the first entry is compared at the tail.
Connects(d, m) ==
    LET common == Least(Len(d.log), Len(m.log)) IN
    /\ m.from <= Len(d.log) + 1
    /\ SubSeq(d.log, 1, common) = SubSeq(m.log, 1, common)

AppendAccepted(d, m) == WellFormed(m) /\ Connects(d, m)

\* Only the part beyond the local tail is written.
AppendLog(d, m) ==
    IF Len(m.log) > Len(d.log) THEN [d EXCEPT !.log = m.log] ELSE d

\* advanceCommitted: the target, and whether anything is to be done.
Target(s) == Least(s.pending, s.durable)

Advances(s) == Target(s) > s.committed

\* Mutant: a commit may end anywhere in a batch.
SplitsBatchNever(s, d) == FALSE

SplitsBatch(s, d) == Advances(s) /\ ~EndsBatch(d.log[Target(s)])

\* ApplyBatch accepts exactly the entries that follow what the MemTable holds.
AdvanceCommitted(s, d) ==
    IF ~Advances(s) \/ SplitsBatch(s, d) THEN s
    ELSE IF s.applied >= Target(s) THEN [s EXCEPT !.committed = Target(s)]
    ELSE IF s.table = s.applied
    THEN [s EXCEPT !.committed = Target(s), !.applied = Target(s), !.table = Target(s)]
    ELSE [s EXCEPT !.committed = Target(s), !.fatal = TRUE]

\* Barrier: an fsync when the position is not durable yet, then the commit
\* that was waiting for it.
BarrierAccepted(d, through) == through <= Len(d.log)

NeedsSync(s, through) == through > s.durable

BarrierState(s, d, through) ==
    IF NeedsSync(s, through)
    THEN AdvanceCommitted([s EXCEPT !.durable = Len(d.log)], d) ELSE s

BarrierDisk(s, d, through) ==
    IF NeedsSync(s, through) THEN [d EXCEPT !.synced = Len(d.log)] ELSE d

\* The Barrier answers with an error when the commit behind it does.
BarrierAnswers(s, d, through) ==
    NeedsSync(s, through) =>
        LET t == [s EXCEPT !.durable = Len(d.log)]
        IN  ~SplitsBatch(t, d) /\ ~AdvanceCommitted(t, d).fatal

\* AdvanceCommit: the announced position only ever rises within a Term.
Announce(s, through) ==
    IF through > s.pending THEN [s EXCEPT !.pending = through] ELSE s

AdvanceState(s, d, through) == AdvanceCommitted(Announce(s, through), d)

AdvanceAnswers(s, d, through) ==
    LET t == Announce(s, through)
    IN  ~SplitsBatch(t, d) /\ ~AdvanceCommitted(t, d).fatal

\* Recovery replays the WAL through the saved committed position, or all of it
\* when no committed position was ever saved.
Replayed(d) == IF d.saved.committed > 0 THEN d.saved.committed ELSE Len(d.log)

\* Recovery fails on a batch cut short or a Manifest ahead of the committed
\* position, NewReceiver on a log shorter than that position.
Recovers(d) ==
    /\ Replayed(d) \in d.flushed..Len(d.log)
    /\ Replayed(d) > d.flushed => EndsBatch(d.log[Replayed(d)])

\* Mutant: any Term the coordinator names is followed.
MayFollowAny(d, t, leader) == d.saved.role # "primary"

\* OpenStandby's checks on the Term and leader it is asked to follow.
MayFollow(d, t, leader) ==
    /\ d.saved.term <= t
    /\ d.saved.role = "primary" => d.saved.term < t
    /\ d.saved.term = t => d.saved.leader = leader

\* The receiver OpenStandby builds: the whole recovered log counts as durable.
Opened(d, t, leader) ==
    [term |-> t, leader |-> leader, durable |-> Len(d.log),
     committed |-> d.saved.committed, applied |-> d.saved.committed,
     pending |-> 0, table |-> Replayed(d), frozen |-> d.flushed,
     flushing |-> "no", fatal |-> FALSE]

NeedsCheckpoint(d, t) == d.saved.term < t

\* checkpointState.
SaveState(d, s) ==
    [d EXCEPT !.saved = [term |-> s.term, role |-> "standby", leader |-> s.leader,
                         committed |-> s.committed]]

HasRecords(s) == s.table > s.frozen

\* checkpointLocked refuses to freeze records that are not exactly the
\* committed ones.
CannotFreeze(s) == HasRecords(s) /\ (s.applied = 0 \/ s.applied # s.committed)

\* The part of checkpointLocked under the receiver's lock: save the state,
\* freeze the MemTable, and rotate the WAL, which syncs it.
FreezeState(s, when) ==
    IF CannotFreeze(s) THEN [s EXCEPT !.fatal = TRUE]
    ELSE IF HasRecords(s) THEN [s EXCEPT !.frozen = s.applied, !.flushing = when]
    ELSE s

\* Mutant: a checkpoint that flushes does not save the watermarks.
FreezeDiskUnsaved(d, s) ==
    IF HasRecords(s) /\ ~CannotFreeze(s)
    THEN [d EXCEPT !.synced = Len(d.log), !.saved.term = s.term,
                   !.saved.role = "standby", !.saved.leader = s.leader]
    ELSE SaveState(d, s)

FreezeDisk(d, s) ==
    IF HasRecords(s) /\ ~CannotFreeze(s)
    THEN [SaveState(d, s) EXCEPT !.synced = Len(d.log)]
    ELSE SaveState(d, s)
=============================================================================
