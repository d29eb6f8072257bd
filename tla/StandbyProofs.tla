---------------------------- MODULE StandbyProofs ----------------------------
(***************************************************************************)
(* Proofs about Standby, for any Terms, leaders, logs and positions.       *)
(*                                                                         *)
(* The inductive invariant IInv says of the disk alone what recovery needs *)
(* (DiskInv) and, while the process is up, how the receiver relates to the *)
(* disk and to what leaders announced (ReceiverInv).  A handler is a       *)
(* composition of the operators of StandbyOps, so there is one lemma per   *)
(* operator that both parts are kept, and the handlers follow.             *)
(***************************************************************************)
EXTENDS Standby, SequenceTheorems, TLAPS

SavedState ==
    [term : 0..MaxTerm, role : {"none", "standby"},
     leader : Leader \cup {NoLeader}, committed : Nat]

Disk == [log : Seq(Entry), synced : Nat, flushed : Nat, saved : SavedState]

Receiver ==
    [term : 0..MaxTerm, leader : Leader \cup {NoLeader}, durable : Nat,
     committed : Nat, applied : Nat, pending : Nat, table : Nat,
     frozen : Nat, flushing : {"no", "open", "live"}, fatal : BOOLEAN]

\* What holds of the disk of a standby that is up or down.
DiskInv(d) ==
    /\ d \in Disk
    /\ d.synced <= Len(d.log)
    /\ d.flushed <= d.saved.committed
    /\ d.flushed <= d.synced
    /\ d.saved.committed \in 1..Len(d.log) => EndsBatch(d.log[d.saved.committed])

\* The receiver works for the leader on disk.
Follows(s, d) ==
    /\ s.term \in Term
    /\ d.saved.term = s.term
    /\ d.saved.leader = s.leader

\* Its watermarks are ordered and end with whole batches.
Ordered(s, d) ==
    /\ s.applied <= s.committed
    /\ s.committed <= s.durable
    /\ s.durable <= Len(d.log)
    /\ d.saved.committed <= s.committed
    /\ ~s.fatal => s.applied = s.committed
    /\ s.committed > 0 => EndsBatch(d.log[s.committed])

\* What is being flushed may be published; what is pending was announced.
Promised(s, d, a) ==
    /\ s.flushing # "no" => s.frozen <= d.saved.committed /\ s.frozen <= d.synced
    /\ s.pending <= s.committed \/ s.pending <= a[s.term]

ReceiverInv(s, d, a) ==
    s \in Receiver /\ Follows(s, d) /\ Ordered(s, d) /\ Promised(s, d, a)

IInv ==
    /\ DiskInv(disk)
    /\ rcv \in Receiver
    /\ up \in BOOLEAN
    /\ announced \in [Term -> Nat]
    /\ up => ReceiverInv(rcv, disk, announced)

Announced == [Term -> Nat]

-----------------------------------------------------------------------------
(* Logs.                                                                   *)

\* h holds everything g holds, at the same place.
Prefixes(g, h) == Len(g) <= Len(h) /\ \A i \in 1..Len(g) : h[i] = g[i]

\* The first k entries of a log.
LEMMA Cut ==
    ASSUME NEW g \in Seq(Entry), NEW k \in 0..Len(g)
    PROVE  /\ SubSeq(g, 1, k) \in Seq(Entry)
           /\ Len(SubSeq(g, 1, k)) = k
           /\ \A i \in 1..k : SubSeq(g, 1, k)[i] = g[i]
<1>1. \A i \in 1..k : g[i] \in Entry
  OBVIOUS
<1>2. /\ SubSeq(g, 1, k) \in Seq(Entry)
      /\ Len(SubSeq(g, 1, k)) = IF 1 <= k THEN k - 1 + 1 ELSE 0
      /\ \A i \in 1..(k - 1 + 1) : SubSeq(g, 1, k)[i] = g[1 + i - 1]
  BY <1>1, SubSeqProperties
<1> QED
  BY <1>2

\* A log that holds everything g holds starts with g.
LEMMA PrefixIsCut ==
    ASSUME NEW g \in Seq(Entry), NEW h \in Seq(Entry), Prefixes(g, h)
    PROVE  SubSeq(h, 1, Len(g)) = g
<1>1. Len(g) \in 0..Len(h)
  BY DEF Prefixes
<1>2. /\ SubSeq(h, 1, Len(g)) \in Seq(Entry)
      /\ Len(SubSeq(h, 1, Len(g))) = Len(g)
      /\ \A i \in 1..Len(g) : SubSeq(h, 1, Len(g))[i] = h[i]
  BY <1>1, Cut
<1> QED
  BY <1>2, SeqEqual DEF Prefixes

\* An accepted Append writes a log that holds everything the old one held.
LEMMA Connected ==
    ASSUME NEW d \in Disk, NEW m, m.log \in Seq(Entry), Connects(d, m),
           NEW k \in Len(d.log)..Len(m.log)
    PROVE  /\ SubSeq(m.log, 1, k) \in Seq(Entry)
           /\ Len(SubSeq(m.log, 1, k)) = k
           /\ Prefixes(d.log, SubSeq(m.log, 1, k))
<1>1. d.log \in Seq(Entry) /\ Len(d.log) \in Nat /\ Len(m.log) \in Nat
  BY DEF Disk
<1>2. k \in 0..Len(m.log) /\ Len(d.log) \in 0..Len(m.log) /\ Len(d.log) <= k
  BY <1>1
<1>3. Least(Len(d.log), Len(m.log)) = Len(d.log)
  BY <1>2 DEF Least
<1>4. SubSeq(d.log, 1, Len(d.log)) = SubSeq(m.log, 1, Len(d.log))
  BY <1>3 DEF Connects
<1>5. SubSeq(d.log, 1, Len(d.log)) = d.log
  BY <1>1, SubSeqFull
<1>6. \A i \in 1..Len(d.log) : d.log[i] = m.log[i]
  BY <1>1, <1>2, <1>4, <1>5, Cut
<1>7. /\ SubSeq(m.log, 1, k) \in Seq(Entry)
      /\ Len(SubSeq(m.log, 1, k)) = k
      /\ \A i \in 1..k : SubSeq(m.log, 1, k)[i] = m.log[i]
  BY <1>2, Cut
<1> QED
  BY <1>1, <1>2, <1>6, <1>7 DEF Prefixes

-----------------------------------------------------------------------------
(* One lemma per operator.                                                 *)

\* A message that is not refused: the Term and leader on disk are the ones
\* the receiver works for, and nothing else has moved on disk.
LEMMA Adopted ==
    ASSUME NEW d, NEW s, NEW a \in Announced, NEW m,
           DiskInv(d), ReceiverInv(s, d, a),
           m.term \in Term, m.leader \in Leader, ~Refuses(s, m)
    PROVE  /\ DiskInv(AdoptOnDisk(d, s, m))
           /\ ReceiverInv(Adopt(s, m), AdoptOnDisk(d, s, m), a)
           /\ AdoptOnDisk(d, s, m).log = d.log
           /\ AdoptOnDisk(d, s, m).saved.term >= d.saved.term
           /\ AdoptOnDisk(d, s, m).saved.term = d.saved.term
                => AdoptOnDisk(d, s, m).saved.leader = d.saved.leader
           /\ Adopt(s, m).term = m.term
           /\ Adopt(s, m).committed = s.committed
           /\ ~Adopt(s, m).fatal
<1> DEFINE e == AdoptOnDisk(d, s, m)
           r == Adopt(s, m)
<1>t. MaxTerm \in Nat /\ m.term \in 1..MaxTerm /\ s.term \in 1..MaxTerm
  BY TermAssumption DEF ReceiverInv, Follows, Term
<1>0. /\ d \in Disk /\ d.saved \in SavedState
      /\ s \in Receiver
      /\ ~s.fatal /\ m.term >= s.term /\ (m.term = s.term => m.leader = s.leader)
  BY SMTT(30), <1>t DEF DiskInv, ReceiverInv, Refuses, Disk, Receiver
<1>1. CASE m.term = s.term
  <2>1. e = d /\ r = s
    BY <1>1, <1>t DEF AdoptOnDisk, Adopt
  <2> QED
    BY <2>1, <1>0, <1>1, <1>t DEF Disk, SavedState
<1>2. CASE m.term > s.term
  <2>1. e = [d EXCEPT !.saved.term = m.term, !.saved.role = "standby",
                      !.saved.leader = m.leader]
    BY <1>2 DEF AdoptOnDisk
  <2>r. r = [s EXCEPT !.term = m.term, !.leader = m.leader, !.pending = s.committed]
    BY <1>2 DEF Adopt
  <2>m. m.term \in 0..MaxTerm /\ m.leader \in Leader \cup {NoLeader}
    BY <1>t
  <2>2. /\ e \in Disk /\ e.log = d.log /\ e.synced = d.synced /\ e.flushed = d.flushed
        /\ e.saved.term = m.term /\ e.saved.leader = m.leader
        /\ e.saved.committed = d.saved.committed
    <3>1. /\ e.log = d.log /\ e.synced = d.synced /\ e.flushed = d.flushed
          /\ e.saved = [d.saved EXCEPT !.term = m.term, !.role = "standby",
                                       !.leader = m.leader]
          /\ DOMAIN e = DOMAIN d
      BY <2>1, <1>0 DEF Disk
    <3>2. /\ e.saved \in SavedState
          /\ e.saved.term = m.term /\ e.saved.leader = m.leader
          /\ e.saved.committed = d.saved.committed
      BY ZenonT(30), <3>1, <2>m, <1>0 DEF SavedState
    <3>3. e = [d EXCEPT !.saved = e.saved]
      BY ZenonT(30), <2>1, <3>1, <1>0 DEF Disk
    <3>4. e \in Disk
      BY <3>2, <3>3, <1>0 DEF Disk
    <3> QED
      BY <3>1, <3>2, <3>4
  <2>3. /\ r \in Receiver /\ r.term = m.term /\ r.leader = m.leader
        /\ r.durable = s.durable /\ r.committed = s.committed /\ r.applied = s.applied
        /\ r.pending = s.committed /\ r.frozen = s.frozen /\ r.flushing = s.flushing
        /\ r.fatal = s.fatal
    BY ZenonT(30), <2>r, <2>m, <1>0 DEF Receiver
  <2>4. DiskInv(e)
    BY <2>2 DEF DiskInv
  <2>5. Follows(r, e)
    BY <2>2, <2>3 DEF Follows
  <2>6. Ordered(r, e)
    BY <2>2, <2>3 DEF ReceiverInv, Ordered
  <2>7. Promised(r, e, a)
    <3>1. r.pending <= r.committed
      BY <2>3 DEF Receiver
    <3> QED
      BY <3>1, <2>2, <2>3 DEF ReceiverInv, Promised
  <2>8. e.saved.term > d.saved.term /\ d.saved.term \in 0..MaxTerm
    BY <2>2, <1>2, <1>0, <1>t DEF ReceiverInv, Follows, SavedState
  <2> QED
    BY <2>2, <2>3, <2>4, <2>5, <2>6, <2>7, <2>8, <1>0, <1>t DEF ReceiverInv
<1> QED
  BY <1>0, <1>1, <1>2, <1>t

\* Entries are added to the log.
LEMMA Extended ==
    ASSUME NEW d, NEW s, NEW a \in Announced, NEW g \in Seq(Entry),
           DiskInv(d), ReceiverInv(s, d, a), Prefixes(d.log, g)
    PROVE  /\ DiskInv([d EXCEPT !.log = g])
           /\ ReceiverInv(s, [d EXCEPT !.log = g], a)
<1> DEFINE e == [d EXCEPT !.log = g]
<1>1. /\ d \in Disk /\ s \in Receiver
      /\ d.log \in Seq(Entry) /\ Len(d.log) \in Nat /\ Len(g) \in Nat
      /\ d.saved.committed \in Nat /\ s.committed \in Nat /\ s.durable \in Nat
      /\ d.synced \in Nat /\ d.flushed \in Nat
  BY SMTT(30) DEF DiskInv, ReceiverInv, Disk, SavedState, Receiver
<1>2. /\ e \in Disk /\ e.log = g /\ e.synced = d.synced /\ e.flushed = d.flushed
      /\ e.saved = d.saved
  BY <1>1 DEF Disk
<1>3. /\ s.committed <= Len(d.log) /\ d.saved.committed <= s.committed
      /\ Len(d.log) <= Len(g) /\ \A i \in 1..Len(d.log) : g[i] = d.log[i]
      /\ d.synced <= Len(d.log)
  BY <1>1 DEF ReceiverInv, Ordered, Prefixes, DiskInv
<1>4. DiskInv(e)
  <2>1. e.saved.committed \in 1..Len(e.log) => EndsBatch(e.log[e.saved.committed])
    BY <1>1, <1>2, <1>3 DEF DiskInv
  <2> QED
    BY <2>1, <1>1, <1>2, <1>3 DEF DiskInv
<1>5. Follows(s, e)
  BY <1>2 DEF ReceiverInv, Follows
<1>6. Ordered(s, e)
  <2>1. s.committed > 0 => EndsBatch(e.log[s.committed])
    BY <1>1, <1>2, <1>3 DEF ReceiverInv, Ordered
  <2> QED
    BY <2>1, <1>1, <1>2, <1>3 DEF ReceiverInv, Ordered
<1>7. Promised(s, e, a)
  BY <1>2 DEF ReceiverInv, Promised
<1> QED
  BY <1>1, <1>4, <1>5, <1>6, <1>7 DEF ReceiverInv

\* The receiver fails.
LEMMA Failed ==
    ASSUME NEW d, NEW s, NEW a, ReceiverInv(s, d, a)
    PROVE  ReceiverInv([s EXCEPT !.fatal = TRUE], d, a)
<1> DEFINE r == [s EXCEPT !.fatal = TRUE]
<1>1. s \in Receiver
  BY DEF ReceiverInv
<1>2. /\ r \in Receiver /\ r.term = s.term /\ r.leader = s.leader
      /\ r.durable = s.durable /\ r.committed = s.committed /\ r.applied = s.applied
      /\ r.pending = s.pending /\ r.frozen = s.frozen /\ r.flushing = s.flushing
      /\ r.fatal
  BY ZenonT(30), <1>1 DEF Receiver
<1>3. Follows(r, d)
  BY <1>2 DEF ReceiverInv, Follows
<1>4. Ordered(r, d)
  BY <1>2 DEF ReceiverInv, Ordered
<1>5. Promised(r, d, a)
  BY <1>2 DEF ReceiverInv, Promised
<1> QED
  BY <1>2, <1>3, <1>4, <1>5 DEF ReceiverInv

\* The log is synced and becomes durable.
LEMMA Synced ==
    ASSUME NEW d, NEW s, NEW a \in Announced, DiskInv(d), ReceiverInv(s, d, a)
    PROVE  /\ DiskInv([d EXCEPT !.synced = Len(d.log)])
           /\ ReceiverInv([s EXCEPT !.durable = Len(d.log)],
                          [d EXCEPT !.synced = Len(d.log)], a)
<1> DEFINE e == [d EXCEPT !.synced = Len(d.log)]
           r == [s EXCEPT !.durable = Len(d.log)]
<1>1. /\ d \in Disk /\ s \in Receiver /\ Len(d.log) \in Nat
      /\ d.synced \in Nat /\ d.flushed \in Nat /\ s.durable \in Nat
      /\ s.committed \in Nat /\ s.frozen \in Nat /\ d.saved.committed \in Nat
  BY DEF DiskInv, ReceiverInv, Disk, SavedState, Receiver
<1>2. /\ e \in Disk /\ e.log = d.log /\ e.synced = Len(d.log)
      /\ e.flushed = d.flushed /\ e.saved = d.saved
  BY <1>1 DEF Disk
<1>3. /\ r \in Receiver /\ r.term = s.term /\ r.leader = s.leader
      /\ r.durable = Len(d.log) /\ r.committed = s.committed /\ r.applied = s.applied
      /\ r.pending = s.pending /\ r.frozen = s.frozen /\ r.flushing = s.flushing
      /\ r.fatal = s.fatal
  BY SMTT(30), <1>1 DEF Receiver
<1>4. DiskInv(e)
  BY <1>1, <1>2 DEF DiskInv
<1>5. Follows(r, e)
  BY <1>2, <1>3 DEF ReceiverInv, Follows
<1>6. Ordered(r, e)
  BY <1>1, <1>2, <1>3 DEF ReceiverInv, Ordered
<1>7. Promised(r, e, a)
  BY <1>1, <1>2, <1>3 DEF ReceiverInv, Promised, DiskInv
<1> QED
  BY <1>3, <1>4, <1>5, <1>6, <1>7 DEF ReceiverInv

\* The commit position advances, only to what was announced in this Term.
LEMMA Advanced ==
    ASSUME NEW d, NEW s, NEW a \in Announced,
           DiskInv(d), ReceiverInv(s, d, a), ~s.fatal
    PROVE  /\ ReceiverInv(AdvanceCommitted(s, d), d, a)
           /\ AdvanceCommitted(s, d).term = s.term
           /\ AdvanceCommitted(s, d).committed > s.committed
                => AdvanceCommitted(s, d).committed <= a[s.term]
<1> DEFINE r == AdvanceCommitted(s, d)
           t == Target(s)
<1>1. /\ s \in Receiver /\ s.pending \in Nat /\ s.durable \in Nat
      /\ s.committed \in Nat /\ s.applied \in Nat /\ Len(d.log) \in Nat
      /\ s.applied = s.committed /\ s.committed <= s.durable /\ s.durable <= Len(d.log)
      /\ d.saved.committed \in Nat /\ d.saved.committed <= s.committed
  BY DEF DiskInv, ReceiverInv, Ordered, Disk, SavedState, Receiver
<1>2. t \in Nat /\ t <= s.pending /\ t <= s.durable
  BY <1>1 DEF Target, Least
<1>a. s.term \in Term /\ a[s.term] \in Nat
  BY DEF ReceiverInv, Follows, Announced
<1>3. CASE ~Advances(s) \/ SplitsBatch(s, d)
  <2>1. r = s
    BY <1>3 DEF AdvanceCommitted
  <2> QED
    BY <2>1, <1>1
<1>4. CASE Advances(s) /\ ~SplitsBatch(s, d)
  <2>1. t > s.committed /\ EndsBatch(d.log[t])
    BY <1>4 DEF SplitsBatch, Advances
  <2>2. s.pending <= a[s.term] /\ t <= a[s.term]
    BY <2>1, <1>1, <1>2, <1>a DEF ReceiverInv, Promised
  <2>3. \/ r = [s EXCEPT !.committed = t, !.applied = t, !.table = t]
        \/ r = [s EXCEPT !.committed = t, !.fatal = TRUE]
    <3>1. ~(s.applied >= t)
      BY <2>1, <1>1, <1>2
    <3> QED
      BY <3>1, <1>4 DEF AdvanceCommitted
  <2>4. /\ r \in Receiver /\ r.term = s.term /\ r.leader = s.leader
        /\ r.durable = s.durable /\ r.committed = t /\ r.pending = s.pending
        /\ r.frozen = s.frozen /\ r.flushing = s.flushing
        /\ r.applied = t \/ (r.fatal /\ r.applied = s.applied)
    BY ZenonT(30), <2>3, <1>1, <1>2 DEF Receiver
  <2>5. Follows(r, d)
    BY <2>4 DEF ReceiverInv, Follows
  <2>6. Ordered(r, d)
    BY <2>1, <2>4, <1>1, <1>2 DEF Ordered
  <2>7. Promised(r, d, a)
    BY <2>2, <2>4 DEF ReceiverInv, Promised
  <2> QED
    BY <2>2, <2>4, <2>5, <2>6, <2>7 DEF ReceiverInv
<1> QED
  BY <1>3, <1>4

\* A leader announces a commit position in the receiver's Term.
LEMMA AnnouncedMore ==
    ASSUME NEW d, NEW s, NEW a \in Announced, NEW p \in Nat, NEW b \in Announced,
           ReceiverInv(s, d, a), b[s.term] >= p, b[s.term] >= a[s.term]
    PROVE  /\ ReceiverInv(Announce(s, p), d, b)
           /\ Announce(s, p).term = s.term
           /\ Announce(s, p).committed = s.committed
           /\ Announce(s, p).fatal = s.fatal
<1> DEFINE r == Announce(s, p)
<1>1. /\ s \in Receiver /\ s.pending \in Nat /\ s.committed \in Nat
      /\ s.term \in Term /\ a[s.term] \in Nat
  BY DEF ReceiverInv, Receiver, Follows, Announced
<1>2. b[s.term] \in Nat /\ b[s.term] >= p /\ b[s.term] >= a[s.term]
  BY <1>1 DEF Announced
<1>3. r = s \/ (p > s.pending /\ r = [s EXCEPT !.pending = p])
  BY DEF Announce
<1>4. /\ r \in Receiver /\ r.term = s.term /\ r.leader = s.leader
      /\ r.durable = s.durable /\ r.committed = s.committed /\ r.applied = s.applied
      /\ r.frozen = s.frozen /\ r.flushing = s.flushing /\ r.fatal = s.fatal
      /\ r.pending = s.pending \/ r.pending = p
  BY <1>1, <1>3 DEF Receiver
<1>5. Follows(r, d)
  BY <1>4 DEF ReceiverInv, Follows
<1>6. Ordered(r, d)
  BY <1>4 DEF ReceiverInv, Ordered
<1>7. Promised(r, d, b)
  <2>1. r.pending <= r.committed \/ r.pending <= b[r.term]
    BY <1>1, <1>2, <1>4 DEF ReceiverInv, Promised
  <2> QED
    BY <2>1, <1>4 DEF ReceiverInv, Promised
<1> QED
  BY <1>2, <1>4, <1>5, <1>6, <1>7 DEF ReceiverInv

\* A checkpoint saves the state, and freezes and syncs when there are records.
LEMMA Frozen ==
    ASSUME NEW d, NEW s, NEW a \in Announced, NEW when \in {"open", "live"},
           DiskInv(d), s \in Receiver, s.term \in Term,
           Ordered(s, d), Promised(s, d, a), s.flushing = "no"
    PROVE  /\ DiskInv(FreezeDisk(d, s))
           /\ ReceiverInv(FreezeState(s, when), FreezeDisk(d, s), a)
           /\ FreezeDisk(d, s).log = d.log
           /\ FreezeDisk(d, s).saved.term = s.term
           /\ FreezeDisk(d, s).saved.leader = s.leader
           /\ FreezeState(s, when).committed = s.committed
<1> DEFINE e == FreezeDisk(d, s)
           r == FreezeState(s, when)
           v == [term |-> s.term, role |-> "standby", leader |-> s.leader,
                 committed |-> s.committed]
<1>1. /\ d \in Disk /\ Len(d.log) \in Nat /\ d.synced \in Nat /\ d.flushed \in Nat
      /\ d.saved.committed \in Nat /\ s.committed \in Nat /\ s.applied \in Nat
      /\ s.durable \in Nat /\ s.frozen \in Nat
  BY SMTT(30) DEF DiskInv, Disk, SavedState, Receiver
<1>2. /\ d.synced <= Len(d.log) /\ d.flushed <= d.saved.committed
      /\ d.flushed <= d.synced /\ d.saved.committed <= s.committed
      /\ s.committed <= Len(d.log)
  BY <1>1 DEF DiskInv, Ordered
<1>v. v \in SavedState
  BY DEF SavedState, Receiver
<1>3. /\ e \in Disk /\ e.log = d.log /\ e.flushed = d.flushed /\ e.saved = v
      /\ e.synced = d.synced \/ e.synced = Len(d.log)
      /\ HasRecords(s) /\ ~CannotFreeze(s) => e.synced = Len(d.log)
  <2>1. CASE HasRecords(s) /\ ~CannotFreeze(s)
    <3>1. e = [[d EXCEPT !.saved = v] EXCEPT !.synced = Len(d.log)]
      BY <2>1 DEF FreezeDisk, SaveState
    <3> HIDE DEF v, e
    <3> QED
      BY ZenonT(30), <3>1, <1>1, <1>v DEF Disk
  <2>2. CASE ~(HasRecords(s) /\ ~CannotFreeze(s))
    <3>1. e = [d EXCEPT !.saved = v]
      BY <2>2 DEF FreezeDisk, SaveState
    <3> HIDE DEF v, e
    <3> QED
      BY SMTT(30), <2>2, <3>1, <1>1, <1>v DEF Disk
  <2> QED
    BY <2>1, <2>2
<1>4. /\ e.saved.term = s.term /\ e.saved.leader = s.leader
      /\ e.saved.committed = s.committed
  BY <1>3
<1>5. \/ CannotFreeze(s) /\ r = [s EXCEPT !.fatal = TRUE]
      \/ /\ ~CannotFreeze(s) /\ HasRecords(s)
         /\ r = [s EXCEPT !.frozen = s.applied, !.flushing = when]
      \/ ~CannotFreeze(s) /\ r = s
  BY DEF FreezeState
<1>6. /\ r \in Receiver /\ r.term = s.term /\ r.leader = s.leader
      /\ r.durable = s.durable /\ r.committed = s.committed /\ r.applied = s.applied
      /\ r.pending = s.pending
      /\ r.fatal \/ r.fatal = s.fatal
      /\ \/ r.flushing = "no"
         \/ r.frozen = s.applied /\ HasRecords(s) /\ ~CannotFreeze(s)
  BY ZenonT(30), <1>1, <1>5 DEF Receiver
<1> HIDE DEF e, r, v
<1>7. DiskInv(e)
  BY <1>1, <1>2, <1>3, <1>4 DEF DiskInv, Ordered
<1>8. Follows(r, e)
  BY <1>4, <1>6 DEF Follows
<1>9. Ordered(r, e)
  BY <1>1, <1>2, <1>3, <1>4, <1>6 DEF Ordered
<1>10. Promised(r, e, a)
  <2>1. r.frozen = s.applied /\ HasRecords(s) /\ ~CannotFreeze(s)
          => r.frozen <= e.saved.committed /\ r.frozen <= e.synced
    BY <1>1, <1>2, <1>3, <1>4 DEF Ordered
  <2> QED
    BY <2>1, <1>6 DEF Promised
<1> QED
  BY <1>3, <1>4, <1>6, <1>7, <1>8, <1>9, <1>10 DEF ReceiverInv, e, r

\* A checkpoint that fails while it holds the receiver's lock.
LEMMA Halfway ==
    ASSUME NEW d, NEW s, NEW a \in Announced, NEW e \in HalfFrozen(d, s),
           DiskInv(d), s \in Receiver, s.term \in Term,
           Ordered(s, d), Promised(s, d, a), s.flushing = "no"
    PROVE  /\ DiskInv(e) /\ e.log = d.log
           /\ \/ e.saved = d.saved
              \/ e.saved.term = s.term /\ e.saved.leader = s.leader
           /\ Follows(s, d) => ReceiverInv(s, e, a)
<1>1. CASE e = d
  BY <1>1 DEF ReceiverInv
<1>2. CASE e # d
  <2> DEFINE v == [term |-> s.term, role |-> "standby", leader |-> s.leader,
                   committed |-> s.committed]
  <2>1. /\ d \in Disk /\ Len(d.log) \in Nat /\ d.synced \in Nat /\ d.flushed \in Nat
        /\ d.saved.committed \in Nat /\ s.committed \in Nat /\ v \in SavedState
    BY SMTT(30) DEF DiskInv, Disk, SavedState, Receiver
  <2>2. /\ d.synced <= Len(d.log) /\ d.flushed <= d.saved.committed
        /\ d.flushed <= d.synced /\ d.saved.committed <= s.committed
        /\ s.committed <= Len(d.log)
    BY <2>1 DEF DiskInv, Ordered, Receiver
  <2>3. \/ e = [d EXCEPT !.saved = v]
        \/ e = [[d EXCEPT !.saved = v] EXCEPT !.synced = Len(d.log)]
    BY <1>2 DEF HalfFrozen, SaveState, FreezeDisk
  <2>4. v.term = s.term /\ v.leader = s.leader /\ v.committed = s.committed
    OBVIOUS
  <2> HIDE DEF v
  <2>5. /\ e \in Disk /\ e.log = d.log /\ e.flushed = d.flushed /\ e.saved = v
        /\ e.synced = d.synced \/ e.synced = Len(d.log)
    BY ZenonT(30), <2>1, <2>3 DEF Disk
  <2>6. DiskInv(e)
    BY <2>1, <2>2, <2>4, <2>5 DEF DiskInv, Ordered
  <2>7. Follows(s, e) /\ Promised(s, e, a)
    BY <2>4, <2>5 DEF Follows, Promised
  <2>8. Ordered(s, e)
    BY <2>1, <2>2, <2>4, <2>5 DEF Ordered
  <2>9. ReceiverInv(s, e, a)
    BY <2>7, <2>8 DEF ReceiverInv
  <2> QED
    BY <2>4, <2>5, <2>6, <2>9
<1> QED
  BY <1>1, <1>2

\* The receiver built by OpenStandby from a disk that recovery accepts.
LEMMA Started ==
    ASSUME NEW d, NEW t \in Term, NEW leader \in Leader, NEW a \in Announced,
           DiskInv(d), Recovers(d)
    PROVE  /\ Opened(d, t, leader) \in Receiver
           /\ Ordered(Opened(d, t, leader), d)
           /\ Promised(Opened(d, t, leader), d, a)
<1> DEFINE s == Opened(d, t, leader)
<1>1. /\ d \in Disk /\ Len(d.log) \in Nat /\ d.flushed \in Nat
      /\ d.saved.committed \in Nat /\ t \in 0..MaxTerm
  BY TermAssumption DEF DiskInv, Disk, SavedState, Term
<1>2. d.saved.committed <= Len(d.log) /\ Replayed(d) \in Nat
  BY <1>1 DEF Recovers, Replayed
<1>3. /\ s.durable = Len(d.log) /\ s.committed = d.saved.committed
      /\ s.applied = d.saved.committed /\ s.pending = 0 /\ s.flushing = "no"
      /\ ~s.fatal
  BY DEF Opened
<1>4. s \in Receiver
  BY <1>1, <1>2 DEF Receiver, Opened
<1> HIDE DEF s
<1>5. Ordered(s, d)
  BY <1>1, <1>2, <1>3 DEF Ordered, DiskInv
<1>6. Promised(s, d, a)
  BY <1>1, <1>3 DEF Promised
<1> QED
  BY <1>4, <1>5, <1>6 DEF s

-----------------------------------------------------------------------------
(* The actions.                                                            *)

\* What OneLeaderPerTerm, CommitAnnounced and LogOnlyGrows say of one step.
LeaderKept ==
    /\ disk'.saved.term >= disk.saved.term
    /\ disk'.saved.term = disk.saved.term => disk'.saved.leader = disk.saved.leader

CommitsAnnounced ==
    up /\ up' /\ rcv'.committed > rcv.committed
        => rcv'.committed <= announced'[rcv'.term]

LogGrows == up /\ up' => Prefixes(disk.log, disk'.log)

Kept == IInv' /\ LeaderKept /\ CommitsAnnounced /\ LogGrows

\* IInv after a step, field by field.
LEMMA NextIInv ==
    ASSUME DiskInv(disk'), rcv' \in Receiver, up' \in BOOLEAN,
           announced' \in Announced, up' => ReceiverInv(rcv', disk', announced')
    PROVE  IInv'
  BY DEF IInv, Announced, DiskInv, ReceiverInv, Follows, Ordered, Promised,
         Receiver, Disk, SavedState, EndsBatch, Term

\* The facts about the current state that every step starts from.
LEMMA Before ==
    ASSUME IInv
    PROVE  /\ DiskInv(disk) /\ announced \in Announced /\ rcv \in Receiver
           /\ up \in BOOLEAN
           /\ up => ReceiverInv(rcv, disk, announced)
           /\ disk \in Disk /\ disk.saved \in SavedState
           /\ disk.saved.term \in Nat /\ rcv.committed \in Nat
           /\ disk.log \in Seq(Entry) /\ Len(disk.log) \in Nat
  BY SMTT(30), TermAssumption DEF IInv, DiskInv, Announced, Disk, SavedState, Receiver

\* No receiver runs.
LEMMA DownIsReceiver == Down \in Receiver
  BY TermAssumption DEF Down, Receiver

\* Every log starts with itself.
LEMMA SelfPrefix == ASSUME NEW g \in Seq(Entry) PROVE Prefixes(g, g)
  BY DEF Prefixes

LEMMA OpenKeeps ==
    ASSUME IInv, NEW t \in Term, NEW l \in Leader, OpenStandby(t, l)
    PROVE  Kept
<1> DEFINE s == Opened(disk, t, l)
<1>1. /\ ~up /\ MayFollow(disk, t, l) /\ Recovers(disk)
      /\ announced' = announced /\ announced \in Announced
  BY Before DEF OpenStandby
<1>2. s \in Receiver /\ Ordered(s, disk) /\ Promised(s, disk, announced)
  BY <1>1, Before, Started
<1>3. s.term = t /\ s.leader = l /\ s.flushing = "no"
  BY DEF Opened
<1>4. t \in Nat /\ disk.saved.term <= t
      /\ (disk.saved.term = t => disk.saved.leader = l)
  BY <1>1 DEF MayFollow, Term
<1>o. \/ /\ NeedsCheckpoint(disk, t)
         /\ disk' = FreezeDisk(disk, s)
         /\ up' = ~CannotFreeze(s)
         /\ rcv' = IF CannotFreeze(s) THEN Down ELSE FreezeState(s, "open")
      \/ /\ NeedsCheckpoint(disk, t)
         /\ disk' \in HalfFrozen(disk, s) /\ up' = FALSE /\ rcv' = Down
      \/ ~NeedsCheckpoint(disk, t) /\ disk' = disk /\ up' = TRUE /\ rcv' = s
  BY DEF OpenStandby
<1>5. CASE /\ NeedsCheckpoint(disk, t)
           /\ disk' = FreezeDisk(disk, s)
           /\ up' = ~CannotFreeze(s)
           /\ rcv' = IF CannotFreeze(s) THEN Down ELSE FreezeState(s, "open")
  <2>1. /\ disk' = FreezeDisk(disk, s)
        /\ up' = ~CannotFreeze(s)
        /\ rcv' = IF CannotFreeze(s) THEN Down ELSE FreezeState(s, "open")
    BY <1>5
  <2> HIDE DEF s
  <2>2. /\ DiskInv(disk')
        /\ ReceiverInv(FreezeState(s, "open"), disk', announced)
        /\ disk'.saved.term = t
    BY <2>1, <1>1, <1>2, <1>3, Before, Frozen
  <2>3. up' \in BOOLEAN
    BY <2>1 DEF CannotFreeze
  <2>4. rcv' \in Receiver /\ (up' => ReceiverInv(rcv', disk', announced'))
    BY ZenonT(30), <2>1, <2>2, <1>1, DownIsReceiver DEF ReceiverInv
  <2>5. IInv'
    BY <2>2, <2>3, <2>4, <1>1, NextIInv
  <2>6. LeaderKept
    BY <2>2, <1>4, <1>5, Before DEF NeedsCheckpoint, LeaderKept
  <2> QED
    BY <2>5, <2>6, <1>1 DEF Kept, CommitsAnnounced, LogGrows
<1>7. CASE /\ NeedsCheckpoint(disk, t)
           /\ disk' \in HalfFrozen(disk, s) /\ up' = FALSE /\ rcv' = Down
  <2>h. s \in Receiver /\ s.term \in Term /\ Ordered(s, disk) /\ Promised(s, disk, announced)
        /\ s.flushing = "no" /\ announced \in Announced /\ DiskInv(disk)
    BY <1>1, <1>2, <1>3, Before
  <2> HIDE DEF s
  <2>1. /\ DiskInv(disk')
        /\ disk'.saved = disk.saved \/ (disk'.saved.term = t /\ disk'.saved.leader = l)
    <3>1. disk' \in HalfFrozen(disk, s)
      BY <1>7
    <3>2. \A e \in HalfFrozen(disk, s) :
            /\ DiskInv(e)
            /\ e.saved = disk.saved \/ (e.saved.term = s.term /\ e.saved.leader = s.leader)
      BY <2>h, Halfway
    <3> QED
      BY <3>1, <3>2, <1>3
  <2>2. IInv'
    BY ZenonT(30), <2>1, <1>1, <1>7, DownIsReceiver, NextIInv
  <2>3. LeaderKept
    BY <2>1, <1>4, <1>7, Before DEF NeedsCheckpoint, LeaderKept
  <2> QED
    BY <2>2, <2>3, <1>7 DEF Kept, CommitsAnnounced, LogGrows
<1>6. CASE ~NeedsCheckpoint(disk, t) /\ disk' = disk /\ up' = TRUE /\ rcv' = s
  <2>1. disk' = disk /\ up' = TRUE /\ rcv' = s
    BY <1>6
  <2>2. disk.saved.term = t /\ disk.saved.leader = l
    BY <1>4, <1>6, Before DEF NeedsCheckpoint
  <2> HIDE DEF s
  <2>3. ReceiverInv(rcv', disk', announced')
    BY <2>1, <2>2, <1>1, <1>2, <1>3 DEF ReceiverInv, Follows
  <2>4. IInv'
    BY <2>1, <2>3, <1>1, <1>2, Before, NextIInv
  <2> QED
    BY <2>1, <2>4, <1>1, Before DEF Kept, LeaderKept, CommitsAnnounced, LogGrows
<1> QED
  BY <1>o, <1>5, <1>6, <1>7

LEMMA CrashKeeps ==
    ASSUME IInv, Crash
    PROVE  Kept
<1>1. disk' = disk /\ announced' = announced /\ up' = FALSE /\ rcv' = Down
  BY DEF Crash
<1>2. IInv'
  BY ZenonT(30), <1>1, Before, DownIsReceiver, NextIInv
<1> QED
  BY <1>1, <1>2, Before DEF Kept, LeaderKept, CommitsAnnounced, LogGrows

LEMMA PowerLossKeeps ==
    ASSUME IInv, PowerLoss
    PROVE  Kept
<1>1. announced' = announced /\ up' = FALSE /\ rcv' = Down
  BY DEF PowerLoss
<1>2. PICK k \in disk.synced..Len(disk.log) :
         disk' = [disk EXCEPT !.log = SubSeq(disk.log, 1, k), !.synced = k]
  BY ZenonT(30) DEF PowerLoss
<1>3. /\ disk.synced \in Nat /\ disk.flushed \in Nat /\ disk.saved.committed \in Nat
      /\ disk.flushed <= disk.synced /\ disk.flushed <= disk.saved.committed
  BY Before DEF DiskInv, Disk, SavedState
<1>4. k \in 0..Len(disk.log) /\ k \in Nat /\ disk.synced <= k
  BY <1>2, <1>3, Before
<1>5. /\ SubSeq(disk.log, 1, k) \in Seq(Entry) /\ Len(SubSeq(disk.log, 1, k)) = k
      /\ \A i \in 1..k : SubSeq(disk.log, 1, k)[i] = disk.log[i]
  BY <1>4, Before, Cut
<1>6. /\ disk' \in Disk /\ disk'.log = SubSeq(disk.log, 1, k) /\ disk'.synced = k
      /\ disk'.flushed = disk.flushed /\ disk'.saved = disk.saved
  BY ZenonT(30), <1>2, <1>4, <1>5, Before DEF Disk
<1>7. DiskInv(disk')
  <2>1. disk.saved.committed \in 1..k => EndsBatch(disk'.log[disk.saved.committed])
    BY <1>3, <1>4, <1>5, <1>6, Before DEF DiskInv
  <2> QED
    BY <2>1, <1>3, <1>4, <1>5, <1>6 DEF DiskInv
<1>8. IInv'
  BY ZenonT(30), <1>1, <1>7, Before, DownIsReceiver, NextIInv
<1> QED
  BY <1>1, <1>6, <1>8, Before DEF Kept, LeaderKept, CommitsAnnounced, LogGrows

\* A message a handler does not refuse, and the state after acceptSender.
LEMMA Received ==
    ASSUME IInv, NEW m, m.term \in Term, m.leader \in Leader, Receives(m)
    PROVE  /\ up
           /\ DiskInv(AdoptOnDisk(disk, rcv, m))
           /\ ReceiverInv(Adopt(rcv, m), AdoptOnDisk(disk, rcv, m), announced)
           /\ AdoptOnDisk(disk, rcv, m).log = disk.log
           /\ AdoptOnDisk(disk, rcv, m).saved.term >= disk.saved.term
           /\ AdoptOnDisk(disk, rcv, m).saved.term = disk.saved.term
                => AdoptOnDisk(disk, rcv, m).saved.leader = disk.saved.leader
           /\ Adopt(rcv, m).term = m.term
           /\ Adopt(rcv, m).committed = rcv.committed
           /\ ~Adopt(rcv, m).fatal
  BY Before, Adopted DEF Receives, Serving

LEMMA AppendKeeps ==
    ASSUME IInv, NEW m \in AppendMessage, HandleAppend(m)
    PROVE  Kept
<1> DEFINE d == AdoptOnDisk(disk, rcv, m)
           s == Adopt(rcv, m)
<1>1. m.term \in Term /\ m.leader \in Leader /\ m.log \in Seq(Entry)
  BY LogAssumption DEF AppendMessage
<1>2. Receives(m) /\ up' = up /\ announced' = announced
  BY DEF HandleAppend
<1>3. /\ up /\ DiskInv(d) /\ ReceiverInv(s, d, announced) /\ d.log = disk.log
      /\ d.saved.term >= disk.saved.term
      /\ d.saved.term = disk.saved.term => d.saved.leader = disk.saved.leader
      /\ s.committed = rcv.committed
  BY <1>1, <1>2, Received
<1>4. \/ /\ AppendAccepted(d, m)
         /\ disk' = AppendLog(d, m)
         /\ rcv' = s
      \/ disk' = d /\ rcv' = s
      \/ /\ AppendAccepted(d, m)
         /\ \E k \in Len(d.log)..Len(m.log) :
               disk' = [d EXCEPT !.log = SubSeq(m.log, 1, k)]
         /\ rcv' = [s EXCEPT !.fatal = TRUE]
  BY DEF HandleAppend
<1> HIDE DEF d, s
<1>5. /\ d \in Disk /\ Len(d.log) \in Nat /\ Len(m.log) \in Nat /\ s \in Receiver
  BY <1>1, <1>3 DEF DiskInv, ReceiverInv, Disk
\* Whatever was written, the log is a cut of the sender's or the old one.
<1>6. \/ disk' = d
      \/ /\ Connects(d, m)
         /\ \E k \in Len(d.log)..Len(m.log) : disk' = [d EXCEPT !.log = SubSeq(m.log, 1, k)]
  <2>1. CASE AppendAccepted(d, m) /\ disk' = AppendLog(d, m)
    <3>1. SubSeq(m.log, 1, Len(m.log)) = m.log
      BY <1>1, SubSeqFull
    <3>2. CASE Len(m.log) > Len(d.log)
      <4>1. disk' = [d EXCEPT !.log = SubSeq(m.log, 1, Len(m.log))]
        BY <2>1, <3>1, <3>2 DEF AppendLog
      <4>2. Len(m.log) \in Len(d.log)..Len(m.log)
        BY <3>2, <1>5
      <4> QED
        BY ZenonT(30), <4>1, <4>2, <2>1 DEF AppendAccepted
    <3>3. CASE ~(Len(m.log) > Len(d.log))
      BY <2>1, <3>3 DEF AppendLog
    <3> QED
      BY <3>2, <3>3
  <2>2. CASE /\ AppendAccepted(d, m)
             /\ \E k \in Len(d.log)..Len(m.log) :
                   disk' = [d EXCEPT !.log = SubSeq(m.log, 1, k)]
    BY ZenonT(30), <2>2 DEF AppendAccepted
  <2> QED
    BY <2>1, <2>2, <1>4
<1>7. /\ DiskInv(disk') /\ ReceiverInv(s, disk', announced) /\ disk'.saved = d.saved
      /\ Prefixes(disk.log, disk'.log)
  <2>1. CASE disk' = d
    BY <2>1, <1>3, SelfPrefix, Before
  <2>2. CASE /\ Connects(d, m)
             /\ \E k \in Len(d.log)..Len(m.log) :
                   disk' = [d EXCEPT !.log = SubSeq(m.log, 1, k)]
    <3>1. PICK k \in Len(d.log)..Len(m.log) : disk' = [d EXCEPT !.log = SubSeq(m.log, 1, k)]
      BY ZenonT(30), <2>2
    <3>2. SubSeq(m.log, 1, k) \in Seq(Entry) /\ Prefixes(d.log, SubSeq(m.log, 1, k))
      BY <2>2, <1>1, <1>5, Connected
    <3>3. DiskInv(disk') /\ ReceiverInv(s, disk', announced)
      BY ZenonT(30), <3>1, <3>2, <1>3, Before, Extended
    <3>4. disk'.log = SubSeq(m.log, 1, k) /\ disk'.saved = d.saved
      BY <3>1, <1>5 DEF Disk
    <3> QED
      BY <3>2, <3>3, <3>4, <1>3
  <2> QED
    BY <2>1, <2>2, <1>6
<1>8. ReceiverInv(rcv', disk', announced) /\ rcv'.committed = rcv.committed
  <2>1. CASE rcv' = s
    BY <2>1, <1>3, <1>7
  <2>2. CASE rcv' = [s EXCEPT !.fatal = TRUE]
    <3>1. ReceiverInv(rcv', disk', announced)
      BY <2>2, <1>7, Failed
    <3>2. rcv'.committed = s.committed
      BY <2>2, <1>5 DEF Receiver
    <3> QED
      BY <3>1, <3>2, <1>3
  <2> QED
    BY <2>1, <2>2, <1>4
<1>9. IInv'
  BY <1>2, <1>7, <1>8, Before, NextIInv DEF ReceiverInv
<1> QED
  BY <1>3, <1>7, <1>8, <1>9, Before DEF Kept, LeaderKept, CommitsAnnounced, LogGrows

LEMMA BarrierKeeps ==
    ASSUME IInv, NEW m \in PositionMessage, HandleBarrier(m)
    PROVE  Kept
<1> DEFINE d == AdoptOnDisk(disk, rcv, m)
           s == Adopt(rcv, m)
           t == [s EXCEPT !.durable = Len(d.log)]
           e == [d EXCEPT !.synced = Len(d.log)]
<1>1. m.term \in Term /\ m.leader \in Leader
  BY DEF PositionMessage
<1>2. Receives(m) /\ up' = up /\ announced' = announced
  BY SMTT(30) DEF HandleBarrier
<1>3. /\ up /\ DiskInv(d) /\ ReceiverInv(s, d, announced) /\ d.log = disk.log
      /\ d.saved.term >= disk.saved.term
      /\ d.saved.term = disk.saved.term => d.saved.leader = disk.saved.leader
      /\ s.committed = rcv.committed
      /\ ~s.fatal
  BY <1>1, <1>2, Received
<1>4. \/ disk' = e /\ rcv' = AdvanceCommitted(t, d)
      \/ disk' = d /\ rcv' = s
      \/ disk' = d /\ rcv' = [s EXCEPT !.fatal = TRUE]
  BY DEF HandleBarrier, BarrierDisk, BarrierState
<1> HIDE DEF d, s
<1>5. d \in Disk /\ s \in Receiver /\ s.committed \in Nat
  BY <1>3 DEF DiskInv, ReceiverInv, Receiver
<1>6. CASE disk' = e /\ rcv' = AdvanceCommitted(t, d)
  <2>1. DiskInv(e) /\ ReceiverInv(t, e, announced)
    BY <1>3, Before, Synced
  <2>2. /\ e.log = d.log /\ e.saved = d.saved /\ t.committed = s.committed
        /\ ~t.fatal
    BY <1>3, <1>5 DEF Disk, Receiver
  <2>3. AdvanceCommitted(t, d) = AdvanceCommitted(t, e)
    BY <2>2 DEF AdvanceCommitted, SplitsBatch
  <2> HIDE DEF t, e
  <2>4. /\ ReceiverInv(rcv', e, announced)
        /\ rcv'.term = t.term
        /\ rcv'.committed > t.committed => rcv'.committed <= announced[t.term]
    BY SMTT(30), <2>1, <2>2, <2>3, <1>6, Before, Advanced
  <2>5. IInv'
    BY <2>1, <2>4, <1>2, <1>6, Before, NextIInv DEF ReceiverInv
  <2>6. LeaderKept
    BY <2>2, <1>3, <1>6 DEF LeaderKept
  <2>7. CommitsAnnounced
    BY <2>2, <2>4, <1>2, <1>3 DEF CommitsAnnounced
  <2>8. LogGrows
    BY <2>2, <1>3, <1>6, SelfPrefix, Before DEF LogGrows
  <2> QED
    BY <2>5, <2>6, <2>7, <2>8 DEF Kept
<1>7. CASE disk' = d /\ (rcv' = s \/ rcv' = [s EXCEPT !.fatal = TRUE])
  <2>1. ReceiverInv(rcv', d, announced) /\ rcv'.committed = s.committed
    BY <1>3, <1>5, <1>7, Failed DEF Receiver
  <2>2. IInv'
    BY <2>1, <1>2, <1>3, <1>7, Before, NextIInv DEF ReceiverInv
  <2>3. LogGrows
    BY <1>3, <1>7, SelfPrefix, Before DEF LogGrows
  <2> QED
    BY <2>1, <2>2, <2>3, <1>3, <1>5, <1>7 DEF Kept, LeaderKept, CommitsAnnounced
<1> QED
  BY <1>4, <1>6, <1>7

LEMMA AdvanceKeeps ==
    ASSUME IInv, NEW m \in PositionMessage, HandleAdvance(m)
    PROVE  Kept
<1> DEFINE d == AdoptOnDisk(disk, rcv, m)
           s == Adopt(rcv, m)
           t == Announce(s, m.through)
<1>1. m.term \in Term /\ m.leader \in Leader /\ m.through \in Nat
  BY LogAssumption DEF PositionMessage
<1>2. Receives(m) /\ up' = up
  BY SMTT(30) DEF HandleAdvance
<1>3. /\ up /\ DiskInv(d) /\ ReceiverInv(s, d, announced) /\ d.log = disk.log
      /\ d.saved.term >= disk.saved.term
      /\ d.saved.term = disk.saved.term => d.saved.leader = disk.saved.leader
      /\ s.term = m.term
      /\ s.committed = rcv.committed
      /\ ~s.fatal
  BY SMTT(30), <1>1, <1>2, Received
<1>4. /\ disk' = d
      /\ rcv' = AdvanceCommitted(t, d)
      /\ announced' = [announced EXCEPT ![s.term] =
                          IF m.through > @ THEN m.through ELSE @]
  BY <1>3 DEF HandleAdvance, AdvanceState
<1> HIDE DEF d, s
<1>5. /\ announced' \in Announced /\ ReceiverInv(t, d, announced')
      /\ t.term = s.term /\ t.committed = s.committed /\ ~t.fatal
  <2>1. announced \in Announced /\ s.term \in Term
    BY <1>1, <1>3, Before
  <2>2. /\ announced' \in Announced
        /\ announced'[s.term] >= m.through
        /\ announced'[s.term] >= announced[s.term]
    BY SMTT(30), <2>1, <1>1, <1>4 DEF Announced
  <2> QED
    BY SMTT(30), <2>1, <2>2, <1>1, <1>3, AnnouncedMore
<1> HIDE DEF t
<1>6. /\ ReceiverInv(rcv', d, announced')
      /\ rcv'.term = t.term
      /\ rcv'.committed > t.committed => rcv'.committed <= announced'[t.term]
  BY ZenonT(30), <1>3, <1>4, <1>5, Advanced
<1>7. IInv'
  BY <1>2, <1>3, <1>4, <1>5, <1>6, Before, NextIInv DEF ReceiverInv
<1>8. CommitsAnnounced
  BY <1>3, <1>5, <1>6 DEF CommitsAnnounced
<1>9. LogGrows
  BY <1>3, <1>4, SelfPrefix, Before DEF LogGrows
<1> QED
  BY <1>3, <1>4, <1>7, <1>8, <1>9 DEF Kept, LeaderKept

LEMMA CheckpointKeeps ==
    ASSUME IInv, Checkpoint
    PROVE  Kept
<1>1. /\ up /\ up' = up /\ announced' = announced /\ rcv.flushing = "no"
      /\ \/ disk' = FreezeDisk(disk, rcv) /\ rcv' = FreezeState(rcv, "live")
         \/ disk' \in HalfFrozen(disk, rcv) /\ rcv' = [rcv EXCEPT !.fatal = TRUE]
  BY DEF Checkpoint
<1>2. ReceiverInv(rcv, disk, announced)
  BY <1>1, Before
<1>f. /\ rcv \in Receiver /\ rcv.term \in Term /\ Ordered(rcv, disk)
      /\ Promised(rcv, disk, announced) /\ DiskInv(disk) /\ announced \in Announced
  BY <1>2, Before DEF ReceiverInv, Follows
<1>3. /\ DiskInv(disk') /\ ReceiverInv(rcv', disk', announced)
      /\ disk'.log = disk.log /\ disk'.saved.term = rcv.term
      /\ disk'.saved.leader = rcv.leader /\ rcv'.committed = rcv.committed
  <2>1. CASE disk' = FreezeDisk(disk, rcv) /\ rcv' = FreezeState(rcv, "live")
    BY <2>1, <1>1, <1>f, Frozen
  <2>2. CASE disk' \in HalfFrozen(disk, rcv) /\ rcv' = [rcv EXCEPT !.fatal = TRUE]
    <3>1. Follows(rcv, disk)
      BY <1>2 DEF ReceiverInv
    <3>2. rcv'.committed = rcv.committed
      BY <2>2, <1>f DEF Receiver
    <3>3. /\ DiskInv(disk') /\ ReceiverInv(rcv, disk', announced) /\ disk'.log = disk.log
          /\ disk'.saved = disk.saved \/ (disk'.saved.term = rcv.term /\ disk'.saved.leader = rcv.leader)
      BY <2>2, <3>1, <1>1, <1>f, Halfway
    <3>4. ReceiverInv(rcv', disk', announced)
      BY <2>2, <3>3, Failed
    <3> QED
      BY <3>1, <3>2, <3>3, <3>4 DEF Follows
  <2> QED
    BY <1>1, <2>1, <2>2
<1>4. IInv'
  BY <1>1, <1>3, Before, NextIInv DEF ReceiverInv
<1>5. LeaderKept
  BY <1>2, <1>3, Before DEF ReceiverInv, Follows, LeaderKept
<1>6. LogGrows
  BY <1>3, SelfPrefix, Before DEF LogGrows
<1> QED
  BY <1>3, <1>4, <1>5, <1>6, Before DEF Kept, CommitsAnnounced

LEMMA PublishKeeps ==
    ASSUME IInv, PublishCheckpoint
    PROVE  Kept
<1>1. /\ up /\ rcv.flushing # "no" /\ announced' = announced
  BY DEF PublishCheckpoint
<1>2. ReceiverInv(rcv, disk, announced)
  BY <1>1, Before
<1>3. CASE /\ disk' = [disk EXCEPT !.flushed = rcv.frozen]
           /\ rcv' = [rcv EXCEPT !.flushing = "no"]
           /\ up' = up
  <2>1. /\ rcv.frozen \in Nat /\ rcv.frozen <= disk.saved.committed
        /\ rcv.frozen <= disk.synced
    BY <1>1, <1>2, Before DEF ReceiverInv, Promised, Receiver
  <2>2. /\ disk' \in Disk /\ disk'.log = disk.log /\ disk'.synced = disk.synced
        /\ disk'.saved = disk.saved /\ disk'.flushed = rcv.frozen
    BY <2>1, <1>3, Before DEF Disk
  <2>3. /\ rcv' \in Receiver /\ rcv'.term = rcv.term /\ rcv'.leader = rcv.leader
        /\ rcv'.durable = rcv.durable /\ rcv'.committed = rcv.committed
        /\ rcv'.applied = rcv.applied /\ rcv'.pending = rcv.pending
        /\ rcv'.flushing = "no" /\ rcv'.fatal = rcv.fatal
    BY SMTT(30), <1>3, Before DEF Receiver
  <2>4. DiskInv(disk')
    BY <2>1, <2>2, Before DEF DiskInv
  <2>5. Follows(rcv', disk')
    BY <2>2, <2>3, <1>2 DEF ReceiverInv, Follows
  <2>6. Ordered(rcv', disk')
    BY <2>2, <2>3, <1>2 DEF ReceiverInv, Ordered
  <2>7. Promised(rcv', disk', announced)
    BY <2>2, <2>3, <1>2 DEF ReceiverInv, Promised
  <2>8. IInv'
    BY <2>3, <2>4, <2>5, <2>6, <2>7, <1>1, <1>3, Before, NextIInv DEF ReceiverInv
  <2>9. LogGrows
    BY <2>2, SelfPrefix, Before DEF LogGrows
  <2> QED
    BY <2>2, <2>3, <2>8, <2>9, Before DEF Kept, LeaderKept, CommitsAnnounced
<1>4. CASE rcv' = [rcv EXCEPT !.flushing = "no", !.fatal = TRUE] /\ UNCHANGED <<disk, up>>
  <2>1. /\ rcv' \in Receiver /\ rcv'.term = rcv.term /\ rcv'.leader = rcv.leader
        /\ rcv'.durable = rcv.durable /\ rcv'.committed = rcv.committed
        /\ rcv'.applied = rcv.applied /\ rcv'.pending = rcv.pending
        /\ rcv'.flushing = "no" /\ rcv'.fatal
    BY ZenonT(30), <1>4, Before DEF Receiver
  <2>2. Follows(rcv', disk')
    BY <2>1, <1>2, <1>4 DEF ReceiverInv, Follows
  <2>3. Ordered(rcv', disk')
    BY <2>1, <1>2, <1>4 DEF ReceiverInv, Ordered
  <2>4. Promised(rcv', disk', announced)
    BY <2>1, <1>2, <1>4 DEF ReceiverInv, Promised
  <2>5. IInv'
    BY <2>1, <2>2, <2>3, <2>4, <1>1, <1>4, Before, NextIInv DEF ReceiverInv
  <2>6. LogGrows
    BY <1>4, SelfPrefix, Before DEF LogGrows
  <2> QED
    BY <2>1, <2>5, <2>6, <1>4, Before DEF Kept, LeaderKept, CommitsAnnounced
<1>5. CASE rcv' = Down /\ up' = FALSE /\ disk' = disk
  <2>1. IInv'
    BY ZenonT(30), <1>1, <1>5, Before, DownIsReceiver, NextIInv
  <2> QED
    BY <2>1, <1>5, Before DEF Kept, LeaderKept, CommitsAnnounced, LogGrows
<1> QED
  BY ZenonT(30), <1>3, <1>4, <1>5 DEF PublishCheckpoint

-----------------------------------------------------------------------------
(* The theorems.                                                           *)

\* The empty directory satisfies the invariant.
LEMMA InitIInv == Init => IInv
<1> SUFFICES ASSUME Init PROVE IInv
  OBVIOUS
<1>1. disk.saved \in SavedState /\ <<>> \in Seq(Entry)
  BY TermAssumption DEF Init, SavedState
<1>2. DiskInv(disk)
  BY <1>1 DEF Init, DiskInv, Disk
<1> QED
  BY ZenonT(30), <1>2, DownIsReceiver DEF Init, IInv

\* Every step keeps the invariant and does what the action properties say.
LEMMA StepKeeps == IInv /\ [Next]_vars => Kept
<1> SUFFICES ASSUME IInv, [Next]_vars PROVE Kept
  OBVIOUS
<1>1. CASE UNCHANGED vars
  <2>1. disk' = disk /\ rcv' = rcv /\ up' = up /\ announced' = announced
    BY <1>1 DEF vars
  <2>2. IInv'
    BY <2>1, Before, NextIInv
  <2>3. LogGrows
    BY <2>1, SelfPrefix, Before DEF LogGrows
  <2> QED
    BY <2>1, <2>2, <2>3, Before DEF Kept, LeaderKept, CommitsAnnounced
<1> QED
  BY <1>1, OpenKeeps, CrashKeeps, PowerLossKeeps, AppendKeeps, BarrierKeeps,
     AdvanceKeeps, CheckpointKeeps, PublishKeeps DEF Next

\* IInv is an invariant of the standby.
LEMMA Invariance == Spec => []IInv
<1>1. IInv /\ [Next]_vars => IInv'
  BY StepKeeps DEF Kept
<1> QED
  BY <1>1, InitIInv, PTL DEF Spec

\* The disk and the receiver keep their shapes (receiver.go, standby.go).
THEOREM TypeCorrect == Spec => []TypeOK
<1>1. IInv => TypeOK
  BY DEF IInv, TypeOK, DiskInv, Disk, SavedState, Receiver
<1> QED
  BY <1>1, Invariance, PTL

\* The receiver's watermarks are ordered, and applied equals committed unless
\* it has failed (receiver.go:260).
THEOREM WatermarksOrdered == Spec => []WatermarkOrder
<1>1. IInv => WatermarkOrder
  BY DEF IInv, WatermarkOrder, ReceiverInv, Ordered
<1> QED
  BY <1>1, Invariance, PTL

\* The Manifest never gets ahead of the saved commit position or of the synced
\* WAL, so recovery never refuses a directory for it (standby.go:440).
THEOREM ManifestBehindCommit == Spec => []ManifestCovered
<1>1. IInv => ManifestCovered
  BY DEF IInv, ManifestCovered, DiskInv
<1> QED
  BY <1>1, Invariance, PTL

\* Commit positions, in memory and on disk, end whole batches (receiver.go:278).
THEOREM BatchesNeverSplit == Spec => []WholeBatches
<1>1. IInv => WholeBatches
  BY DEF IInv, WholeBatches, DiskInv, ReceiverInv, Ordered
<1> QED
  BY <1>1, Invariance, PTL

\* The Term and leader a receiver follows are on its disk (receiver.go:344).
THEOREM TermDurable == Spec => []TermOnDisk
<1>1. IInv => TermOnDisk
  BY DEF IInv, TermOnDisk, ReceiverInv, Follows
<1> QED
  BY <1>1, Invariance, PTL

\* The saved Term never falls and a Term keeps its leader, through crashes and
\* power losses (standby.go:71, receiver.go:344).
THEOREM LeaderUnique == Spec => OneLeaderPerTerm
<1>1. IInv /\ [Next]_vars =>
        [ /\ disk'.saved.term >= disk.saved.term
          /\ disk'.saved.term = disk.saved.term
                => disk'.saved.leader = disk.saved.leader ]_vars
  BY StepKeeps DEF Kept, LeaderKept
<1> QED
  BY <1>1, Invariance, PTL DEF Spec, OneLeaderPerTerm

\* A commit position announced in an older Term is never used (receiver.go:349).
THEOREM CommitsWereAnnounced == Spec => CommitAnnounced
<1>1. IInv /\ [Next]_vars =>
        [ up /\ up' /\ rcv'.committed > rcv.committed
            => rcv'.committed <= announced'[rcv'.term] ]_vars
  BY StepKeeps DEF Kept, CommitsAnnounced
<1> QED
  BY <1>1, Invariance, PTL DEF Spec, CommitAnnounced

\* No message makes a running standby rewrite an entry (receiver.go:192).
THEOREM LogNeverRewritten == Spec => LogOnlyGrows
<1>1. IInv /\ [Next]_vars =>
        [ up /\ up' => /\ Len(disk.log) <= Len(disk'.log)
                       /\ SubSeq(disk'.log, 1, Len(disk.log)) = disk.log ]_vars
  <2> SUFFICES ASSUME IInv, [Next]_vars, up, up'
               PROVE  /\ Len(disk.log) <= Len(disk'.log)
                      /\ SubSeq(disk'.log, 1, Len(disk.log)) = disk.log
    OBVIOUS
  <2>1. Prefixes(disk.log, disk'.log) /\ IInv'
    BY StepKeeps DEF Kept, LogGrows
  <2>2. disk.log \in Seq(Entry) /\ disk'.log \in Seq(Entry)
    BY <2>1 DEF IInv, DiskInv, Disk
  <2> QED
    BY <2>1, <2>2, PrefixIsCut DEF Prefixes
<1> QED
  BY <1>1, Invariance, PTL DEF Spec, LogOnlyGrows
=============================================================================
