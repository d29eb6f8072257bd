--------------------------- MODULE StrictHAProofs ---------------------------
(***************************************************************************)
(* What module StrictHA promises, for any requests, any number of Terms    *)
(* and late messages and any chunk size.                                   *)
(*                                                                         *)
(* Module StrictHASteps has the invariant and the steps that change a log  *)
(* by a message only.  The others are a loss of power or of a node         *)
(* (LossStep), a write (WriteEntryStep) and a publication (PublishStep).   *)
(***************************************************************************)
EXTENDS StrictHASteps

USE Zenon

-----------------------------------------------------------------------------
(* What a node loses.                                                      *)

\* A leader that has not begun to call relies on its own log only.
LEMMA PassiveLeader ==
    ASSUME NEW m \in Node, Leader(m), ~Active(m), proc'[m] = proc[m],
           disk'[m].log = disk[m].log,
           disk'[m].saved.committed = disk[m].saved.committed
    PROVE  Leader(m)' /\ ~Serving(m)'
BY DEF Leader, Active, Matched, Serving

\* A node stops and loses part of its log: a power loss takes what was not
\* synced, a replacement everything.
LEMMA LossStep ==
    ASSUME StrictInv, NEW n \in Node, NEW e \in DiskType,
           disk' = [disk EXCEPT ![n] = e], Stopped(n),
           UNCHANGED <<env, lease, late, public, tried, acked>>,
           Prefix(e.log, disk[n].log), e.synced <= Len(e.log),
           \/ /\ env.power /\ fresh' = fresh
              /\ e.synced >= disk[n].synced /\ e.saved = disk[n].saved
           \/ env.loss /\ ~env.power /\ fresh = {} /\ fresh' = {n}
    PROVE  StrictInv'
<1> DEFINE x == Peer(n)
<1>1. Types /\ Terms /\ Disks /\ Leaders /\ Keepers /\ Recorded /\ Unforked
  BY DEF StrictInv
<1>2. x \in Node /\ x # n /\ Peer(x) = n /\ \A y \in Node : y = n \/ y = x
  BY Pair
<1> HIDE DEF x
<1>3. /\ disk' \in [Node -> DiskType] /\ disk'[n] = e /\ disk'[x] = disk[x]
      /\ rcv' \in [Node -> ReceiverType] /\ rcv'[x] = rcv[x]
  BY <1>1, <1>2, DownFacts DEF Types, Stopped
<1>4. /\ proc' \in [Node -> ProcessType] /\ proc'[n] = Down /\ proc'[x] = proc[x]
  BY <1>1, <1>2, DownFacts, NextProc DEF Stopped
<1>5. Types'
  BY <1>1, <1>3, <1>4 DEF Types
<1>6. /\ ~Follows(n)' /\ ~Leads(n)' /\ proc'[n].role # "opening"
      /\ Leader(n)' /\ ~Serving(n)' /\ ~Active(n)'
  BY <1>4, DownFacts, IdleLeader DEF Follows, Leads
<1>7. lease'.term >= lease.term
  BY <1>1, SameDisk
<1>8. Floor(n)' = lease.term /\ Floor(n)' >= Floor(n) /\ Floor(x)' = Floor(x)
  BY <1>1, <1>3, <1>4, <1>5, <1>6, <1>7, FloorUp DEF Floor, Follows
<1>9. Steady(x) /\ Still(x)
  BY <1>1, <1>2, <1>3, <1>4, <1>5, <1>7, Untouched
<1>10. (Follows(x)' <=> Follows(x)) /\ (Leads(x)' <=> Leads(x)) /\ (Active(x)' <=> Active(x))
  BY <1>4 DEF Follows, Leads, Active
<1>11. /\ disk[n].log \in Seq(WalEntry) /\ disk[x].log \in Seq(WalEntry)
       /\ Len(disk[n].log) \in Nat /\ Len(disk[x].log) \in Nat /\ Len(e.log) \in Nat
       /\ disk[n].synced \in Nat /\ e.synced \in Nat /\ e.log \in Seq(WalEntry)
  BY <1>1, <1>2, Fields, SMT DEF DiskType
<1>12. NoNewLogs
  <2>1. ASSUME NEW M \in late, M.term >= Floor(M.to)' PROVE M \in Live
    <3>1. M.to \in Node /\ M.term \in Nat
      BY <1>1 DEF Types, MessageType
    <3>2. Floor(M.to)' >= Floor(M.to) /\ Floor(M.to)' \in Nat /\ Floor(M.to) \in Nat
      BY <1>1, <1>2, <1>5, <1>8, <1>9, <3>1, Fields, FieldsNext DEF Steady
    <3>3. M.term >= Floor(M.to)
      BY <2>1, <3>1, <3>2, SMT
    <3>4. QED
      BY <3>3 DEF Live
  <2>2. ASSUME NEW L \in Logs' PROVE \E K \in Logs : Prefix(L, K)
    <3>1. CASE L = e.log
      BY <3>1 DEF Logs
    <3>2. CASE L \in Logs
      <4>1. Prefix(L, L)
        BY <1>1, <3>2, LogsTyped, PrefixFacts
      <4>2. QED
        BY <3>2, <4>1
    <3>3. L = e.log \/ L \in Logs
      BY <1>2, <1>3, <2>1, <2>2 DEF Logs, Live
    <3>4. QED
      BY <3>1, <3>2, <3>3
  <2>3. QED
    BY <2>2 DEF NoNewLogs
<1>13. Recorded'
  BY <1>1, <1>5, <1>12, RecordedKept
<1>14. Disks'
  BY <1>1, <1>2, <1>3, <1>4, <1>6, <1>10 DEF Disks
<1>15. Terms'
  <2>1. \A y \in Node : /\ proc'[y].term <= lease'.term
                        /\ Follows(y)' => rcv'[y].term <= lease'.term
    <3>1. Down.term <= lease.term
      BY <1>1, DownFacts, Fields, SMT
    <3>2. QED
      BY <1>1, <1>2, <1>3, <1>4, <1>6, <1>10, <3>1 DEF Terms
  <2>2. Prefix(disk[x].log, disk[x].log)
    BY <1>11, PrefixFacts
  <2>3. \A y \in Node : /\ Leads(y)' => /\ Leads(y) /\ proc'[y].term = proc[y].term
                                        /\ Prefix(disk[y].log, disk'[y].log)
                        /\ Active(y)' => Active(y)
    BY <1>2, <1>3, <1>4, <1>6, <1>10, <2>2
  <2>4. QED
    BY <1>1, <1>5, <1>7, <2>1, <2>3, TermsKept
<1>16. Keepers'
  <2>1. CASE env.power /\ fresh' = fresh /\ e.synced >= disk[n].synced
    <3>1. PICK k \in Node : Keeper(k, disk[k].synced)
      BY <1>1, <2>1 DEF Keepers
    <3>2. Keeper(k, disk[k].synced)'
      <4>1. CASE k = n
        <5>1. disk[n].synced >= Len(public) /\ Len(public) \in Nat
          BY <1>1, <3>1, <4>1, Fields DEF Keeper
        <5>2. e.synced >= Len(public)
          BY <1>11, <2>1, <5>1, SMT
        <5>3. QED
          BY <1>3, <1>6, <4>1, <5>2 DEF Keeper
      <4>2. CASE k = x
        BY <1>3, <1>10, <3>1, <4>2 DEF Keeper
      <4>3. QED
        BY <1>2, <4>1, <4>2
    <3>3. QED
      BY <1>1, <2>1, <3>2 DEF Keepers
  <2>2. CASE ~env.power /\ fresh = {} /\ fresh' = {n}
    <3>1. Keeper(x, Len(disk[x].log))
      BY <1>1, <1>2, <2>2 DEF Keepers
    <3>2. Keeper(x, Len(disk[x].log))'
      BY <1>3, <1>10, <3>1 DEF Keeper
    <3>3. QED
      BY <1>2, <2>2, <3>2 DEF Keepers
  <2>3. QED
    BY <2>1, <2>2
<1>17. Unforked'
  <2>1. SUFFICES ASSUME ~env.loss PROVE Unforked'
    BY DEF Unforked
  <2>2. /\ e.synced >= disk[n].synced /\ e.saved = disk[n].saved
    BY <2>1
  <2>3. ASSUME NEW y \in Node, NEW k \in Nat, Vouches(disk[y], k)
        PROVE  Vouches(disk'[y], k)
    <3>1. CASE y = n
      <4>1. disk'[n] = e /\ disk[n].synced <= e.synced
        BY <1>3, <1>11, <2>2, OrderFacts
      <4>2. k <= disk[n].synced => k <= e.synced
        BY <1>11, <2>3, <4>1, OrderUp
      <4>3. QED
        BY <2>2, <2>3, <3>1, <4>1, <4>2 DEF Vouches
    <3>2. CASE y = x
      BY <1>3, <2>3, <3>2
    <3>3. QED
      BY <1>2, <3>1, <3>2
  <2>4. (\A L, K \in Logs : Comparable(L, K))'
    BY <1>1, <1>5, <1>12, <2>1, ComparableKept DEF Unforked
  <2>5. \A M \in late' : Vouches(disk'[M.leader], Len(M.log))
    <3>1. \A M \in late : M.leader \in Node /\ Len(M.log) \in Nat
      BY <1>1, SMT DEF Types, MessageType
    <3>2. QED
      BY <1>1, <2>1, <2>3, <3>1 DEF Unforked
  <2>6. \A y \in Node : Follows(y)' =>
              \/ Len(disk'[y].log) <= rcv'[y].durable
              \/ Vouches(disk'[Peer(y)], Len(disk'[y].log))
    <3>1. SUFFICES ASSUME Follows(x)
                   PROVE  \/ Len(disk[x].log) <= rcv[x].durable
                          \/ Vouches(disk'[n], Len(disk[x].log))
      BY <1>2, <1>3, <1>6, <1>10
    <3>2. \/ Len(disk[x].log) <= rcv[x].durable
          \/ Vouches(disk[n], Len(disk[x].log))
      BY <1>1, <1>2, <2>1, <3>1 DEF Unforked
    <3>3. QED
      BY <1>11, <2>3, <3>2
  <2>7. QED
    BY <2>4, <2>5, <2>6 DEF Unforked
<1>18. Leader(x)' /\ (Serving(x)' => Server(x)')
  <2>1. CASE ~Active(x)
    BY <1>1, <1>2, <1>3, <1>4, <2>1, PassiveLeader DEF Leaders
  <2>2. CASE Active(x)
    <3>1. Leader(x) /\ (Serving(x) => Server(x))
      BY <1>1, <1>2 DEF Leaders
    <3>2. Contacted(x)'
      <4>1. proc[x].term <= lease.term
        BY <1>1, <1>2 DEF Terms
      <4>2. Floor(n)' >= proc'[x].term
        <5>1. proc[x].term \in Nat /\ lease.term \in Nat
          BY <1>1, <1>2, Fields
        <5>2. QED
          BY <1>4, <1>8, <4>1, <5>1
      <4>3. QED
        BY <1>2, <4>2 DEF Contacted
    <3>3. Copied(x)'
      BY <1>2 DEF Copied
    <3>4. Ahead(x) => Ahead(x)'
      <4>1. Len(e.log) <= Len(disk[n].log)
        BY DEF Prefix
      <4>2. ASSUME Len(disk[n].log) <= Len(disk[x].log)
            PROVE  Len(e.log) <= Len(disk[x].log)
        BY <1>11, <4>1, <4>2, OrderUp
      <4>3. QED
        BY <1>2, <1>3, <4>2 DEF Ahead
    <3>5. Comparable(disk[x].log, disk[n].log) => Comparable(disk[x].log, e.log)
      BY <1>11, ComparablePrefix
    <3>6. ChunkEnd(x)' = ChunkEnd(x)
      BY <1>3, <1>4 DEF ChunkEnd
    <3>7. Leader(x)'
      BY <1>2, <1>3, <1>4, <3>1, <3>2, <3>3, <3>4, <3>5, <3>6 DEF Leader, Matched
    <3>8. ASSUME Serving(x) PROVE Server(x)'
      BY <1>2, <1>3, <1>4, <3>1, <3>2, <3>3, <3>4, <3>5, <3>8 DEF Server
    <3>9. QED
      BY <1>4, <3>7, <3>8 DEF Serving
  <2>3. QED
    BY <2>1, <2>2
<1>19. Leaders'
  BY <1>2, <1>6, <1>18 DEF Leaders
<1>20. QED
  BY <1>5, <1>13, <1>14, <1>15, <1>16, <1>17, <1>19 DEF StrictInv

\* A loss of power.
LEMMA PowerLossStep ==
    ASSUME StrictInv, NEW n \in Node, PowerLoss(n)
    PROVE  StrictInv'
<1>1. Types
  BY DEF StrictInv
<1>2. PICK k \in disk[n].synced..(Len(disk[n].log) - 1) :
         disk' = [disk EXCEPT ![n].log = SubSeq(@, 1, k), ![n].synced = k]
  BY DEF PowerLoss
<1> DEFINE cut == SubSeq(disk[n].log, 1, k)
           e == [disk[n] EXCEPT !.log = cut, !.synced = k]
<1>3. /\ disk[n] \in DiskType /\ disk[n].synced \in Nat /\ Len(disk[n].log) \in Nat
      /\ disk[n].log \in Seq(WalEntry)
  BY <1>1, Fields
<1>4. k \in Nat /\ k >= disk[n].synced /\ k \in 0..Len(disk[n].log) /\ k <= k
  BY <1>3, SMT
<1>5. cut \in Seq(WalEntry) /\ Len(cut) = k /\ Prefix(cut, disk[n].log)
  BY <1>3, <1>4, CutLog
<1>6. disk' = [disk EXCEPT ![n] = e]
  BY <1>1, <1>2 DEF Types
<1> HIDE DEF cut
<1>7. /\ e \in DiskType /\ e.log = cut /\ e.synced = k /\ e.saved = disk[n].saved
  BY <1>3, <1>4, <1>5 DEF DiskType
<1> HIDE DEF e
<1>8. /\ env.power /\ Stopped(n) /\ fresh' = fresh
      /\ UNCHANGED <<env, lease, late, public, tried, acked>>
  BY DEF PowerLoss, clientVars
<1>9. QED
  BY <1>4, <1>5, <1>6, <1>7, <1>8, LossStep

\* A node is replaced, in a run in which nothing that was written is lost else.
LEMMA ReplaceStep ==
    ASSUME StrictInv, NEW n \in Node, Replace(n), ~(env.power /\ env.loss)
    PROVE  StrictInv'
<1>1. Types
  BY DEF StrictInv
<1>2. /\ env.loss /\ ~env.power /\ fresh = {} /\ fresh' = {n} /\ Stopped(n)
      /\ disk' = [disk EXCEPT ![n] = EmptyDisk]
      /\ UNCHANGED <<env, lease, late, public, tried, acked>>
  BY DEF Replace, clientVars
<1>3. Len(disk[n].log) \in Nat
  BY <1>1, Fields
<1>4. Prefix(EmptyDisk.log, disk[n].log) /\ EmptyDisk.synced <= Len(EmptyDisk.log)
  BY <1>3, DownFacts, SMT DEF Prefix
<1>5. QED
  BY <1>2, <1>4, DownFacts, LossStep

-----------------------------------------------------------------------------
(* An entry is written, and becomes public.                                *)

\* Of two nodes only one calls: the Term of the other would be the later one.
LEMMA OneActive ==
    ASSUME StrictInv, NEW n \in Node, Active(n)
    PROVE  Peer(n) \in Node /\ ~Active(Peer(n))
<1>1. Types /\ Terms
  BY DEF StrictInv
<1>2. Peer(n) \in Node /\ Peer(n) # n
  BY Pair
<1>3. proc[n].term \in Nat /\ proc[Peer(n)].term \in Nat
  BY <1>1, <1>2, Fields
<1>4. SUFFICES ASSUME Active(Peer(n)) PROVE FALSE
  BY <1>2
<1>5. Leads(n) /\ Leads(Peer(n))
  BY <1>4 DEF Active, Leads
<1>6. proc[n].term < proc[Peer(n)].term /\ proc[Peer(n)].term < proc[n].term
  BY <1>1, <1>2, <1>4, <1>5 DEF Terms
<1>7. QED
  BY <1>3, <1>6, SMT

\* A message that can still be handled while n leads is one of n's own.
LEMMA LiveFromLeader ==
    ASSUME StrictInv, NEW n \in Node, Leads(n), NEW M \in Live
    PROVE  M \in late /\ M.to = Peer(n) /\ M.leader = n
<1>1. Types /\ Terms
  BY DEF StrictInv
<1>2. M \in late /\ M.term >= Floor(M.to)
  BY DEF Live
<1>3. M.to \in Node /\ M.term \in Nat /\ M.leader = Peer(M.to)
  BY <1>1, <1>2 DEF Types, MessageType
<1>4. M.to # n
  <2>1. SUFFICES ASSUME M.to = n PROVE FALSE
    OBVIOUS
  <2>2. M.term < proc[n].term /\ proc[n].term <= lease.term /\ M.term >= lease.term
    BY <1>1, <1>2, <2>1 DEF Terms, Floor, Follows, Leads
  <2>3. proc[n].term \in Nat /\ lease.term \in Nat
    BY <1>1, Fields
  <2>4. QED
    BY <1>3, <2>2, <2>3, SMT
<1>5. M.to = Peer(n) /\ Peer(Peer(n)) = n
  BY <1>3, <1>4, Pair
<1>6. QED
  BY <1>2, <1>3, <1>5

\* The log of a node that has reached the other one is the log of everyone.
LEMMA AllAgree ==
    ASSUME StrictInv, NEW n \in Node, Leads(n),
           Contacted(n) \/ Len(disk[n].log) = 0,
           Comparable(disk[n].log, disk[Peer(n)].log)
    PROVE  \A L \in Logs : Comparable(disk[n].log, L)
<1>1. Types /\ Terms
  BY DEF StrictInv
<1>2. disk[n].log \in Seq(WalEntry) /\ \A y \in Node : y = n \/ y = Peer(n)
  BY <1>1, Fields, Pair
<1>3. ASSUME NEW M \in Live PROVE Comparable(disk[n].log, M.log)
  <2>1. CASE Len(disk[n].log) = 0
    BY <2>1, SMT DEF Comparable
  <2>2. CASE Contacted(n)
    <3>1. M \in late /\ M.to = Peer(n) /\ M.leader = n
      BY LiveFromLeader
    <3>2. M.term >= Floor(Peer(n)) /\ Floor(Peer(n)) >= proc[n].term
      BY <2>2, <3>1 DEF Live, Contacted
    <3>3. M.term <= proc[n].term
      BY <1>1, <3>1 DEF Terms
    <3>4. /\ M.term \in Nat /\ M.log \in Seq(WalEntry) /\ proc[n].term \in Nat
          /\ Floor(Peer(n)) \in Nat
      BY <1>1, <3>1, Fields, Pair DEF Types, MessageType
    <3>5. M.term = proc[n].term
      BY <3>2, <3>3, <3>4, SMT
    <3>6. Prefix(M.log, disk[n].log)
      BY <1>1, <3>1, <3>5 DEF Terms
    <3>7. QED
      BY <1>2, <3>4, <3>6, PrefixFacts
  <2>3. QED
    BY <2>1, <2>2
<1>4. Comparable(disk[n].log, disk[n].log)
  BY <1>2, PrefixRefl
<1>5. QED
  BY <1>2, <1>3, <1>4 DEF Logs

\* The group committer writes the next entry to its log.
LEMMA WriteEntryStep ==
    ASSUME StrictInv, NEW n \in Node, NEW r \in Request, WriteEntry(n, r)
    PROVE  StrictInv'
<1>1. Types /\ Terms /\ Disks /\ Leaders /\ Keepers /\ Recorded /\ Unforked
  BY DEF StrictInv
<1> DEFINE x == Peer(n)
           log == disk[n].log
           entry == [term |-> proc[n].term, index |-> 0, count |-> 1, val |-> r]
           new == Append(log, entry)
           p == [proc[n] EXCEPT !.stage = "written", !.req = r]
           e == [disk[n] EXCEPT !.log = new]
<1>2. x \in Node /\ x # n /\ Peer(x) = n /\ \A y \in Node : y = n \/ y = x
  BY Pair
<1>3. /\ proc[n].role = "serving" /\ proc[n].stage = "none" /\ ~proc[n].fatal
      /\ Expected[r] = proc[n].applied /\ tried' = tried \cup {r}
      /\ UNCHANGED <<env, rcv, lease, late, fresh, public, acked>>
  BY DEF WriteEntry, Serving
<1>4. disk' = [disk EXCEPT ![n] = e] /\ proc' = [proc EXCEPT ![n] = p]
  BY <1>1 DEF WriteEntry, Types
<1>5. /\ proc[n] \in ProcessType /\ disk[n] \in DiskType /\ proc[n].term \in Nat
      /\ log \in Seq(WalEntry) /\ Len(log) \in Nat /\ disk[n].synced \in Nat
      /\ proc[n].applied \in Nat /\ Len(public) \in Nat /\ disk[n].saved.committed \in Nat
      /\ Len(disk[x].log) \in Nat /\ disk[x].log \in Seq(WalEntry)
  BY <1>1, <1>2, Fields
<1>6. entry \in WalEntry /\ entry.val = r
  BY <1>5 DEF WalEntry
<1> HIDE DEF entry
<1>7. /\ new \in Seq(WalEntry) /\ Len(new) = Len(log) + 1 /\ new[Len(log) + 1] = entry
      /\ \A i \in 1..Len(log) : new[i] = log[i]
  BY <1>5, <1>6, SMT
<1> HIDE DEF new
<1>8. /\ e \in DiskType /\ e.log = new /\ e.synced = disk[n].synced /\ e.saved = disk[n].saved
  BY <1>5, <1>7 DEF DiskType
<1>9. /\ p \in ProcessType /\ p.role = "serving" /\ p.term = proc[n].term
      /\ p.applied = proc[n].applied /\ p.stage = "written" /\ p.req = r
  BY <1>3, <1>5 DEF ProcessType
<1> HIDE DEF e, p, x
<1>10. /\ disk' \in [Node -> DiskType] /\ disk'[n] = e /\ disk'[x] = disk[x]
  BY <1>1, <1>2, <1>4, <1>8 DEF Types
<1>11. /\ proc' \in [Node -> ProcessType] /\ proc'[n] = p /\ proc'[x] = proc[x]
  BY <1>1, <1>2, <1>4, <1>9, NextProc
<1>12. Types'
  BY <1>1, <1>3, <1>10, <1>11 DEF Types
<1>13. Active(n) /\ Leads(n) /\ ~Follows(n) /\ ~Follows(n)'
  BY <1>3, <1>9, <1>11 DEF Active, Leads, Follows
<1>14. (Follows(x)' <=> Follows(x)) /\ (Leads(x)' <=> Leads(x)) /\ (Active(x)' <=> Active(x))
  BY <1>11 DEF Follows, Leads, Active
<1>15. /\ proc[n].applied = Len(public) /\ Len(log) = Len(public)
       /\ disk[n].synced >= Len(public) /\ disk[n].saved.committed <= Len(public) /\ Ahead(n)
  BY <1>1, <1>3 DEF Leaders, Server, Serving
<1>16. Floor(n)' = Floor(n) /\ Floor(x)' = Floor(x)
  BY <1>3, <1>9, <1>11 DEF Floor, Follows
<1>17. Live' = Live
  <2>1. \A M \in late : Floor(M.to)' = Floor(M.to)
    BY <1>1, <1>2, <1>16 DEF Types, MessageType
  <2>2. QED
    BY <1>3, <2>1 DEF Live
<1>18. \A L \in Logs' : L = new \/ L \in Logs
  BY <1>2, <1>8, <1>10, <1>17 DEF Logs
<1>19. log \in Logs /\ \A L \in Logs : L \in Seq(WalEntry) /\ Len(L) \in Nat
  BY <1>1, LogsTyped DEF Logs
<1>20. /\ Prefix(log, new) /\ Len(new) \in Nat /\ Len(log) <= Len(new)
       /\ Len(new) >= Len(public) /\ Len(new) <= Len(public) + 1
  <2>1. Len(log) \in Nat /\ Len(public) = Len(log) /\ Len(new) = Len(log) + 1
    BY <1>5, <1>7, <1>15
  <2>2. /\ Len(new) \in Nat /\ Len(log) <= Len(new)
        /\ Len(new) >= Len(public) /\ Len(new) <= Len(public) + 1
    BY <2>1, SMT
  <2>3. QED
    BY <1>7, <2>2 DEF Prefix
<1>21. Disks'
  <2>1. disk[n].synced <= Len(log)
    BY <1>1 DEF Disks
  <2>2. disk[n].synced <= Len(new)
    BY <1>5, <1>20, <2>1, OrderUp
  <2>3. QED
    BY <1>1, <1>2, <1>3, <1>8, <1>10, <1>13, <1>14, <2>2 DEF Disks
<1>22. Terms'
  <2>1. lease'.term >= lease.term
    BY <1>1, <1>3, SameDisk
  <2>2. \A y \in Node : /\ proc'[y].term <= lease'.term
                        /\ Follows(y)' => rcv'[y].term <= lease'.term
    BY <1>1, <1>2, <1>3, <1>9, <1>11, <1>13, <1>14 DEF Terms
  <2>3. Prefix(disk[x].log, disk[x].log)
    BY <1>5, PrefixRefl
  <2>4. \A y \in Node : /\ Leads(y)' => /\ Leads(y) /\ proc'[y].term = proc[y].term
                                        /\ Prefix(disk[y].log, disk'[y].log)
                        /\ Active(y)' => Active(y)
    BY <1>2, <1>8, <1>9, <1>10, <1>11, <1>13, <1>14, <1>20, <2>3
  <2>5. QED
    BY <1>1, <1>3, <1>12, <2>1, <2>2, <2>4, TermsKept
<1>23. Keepers'
  <2>1. ASSUME NEW k \in Node, Keeper(k, disk[k].synced) PROVE Keeper(k, disk[k].synced)'
    BY <1>2, <1>3, <1>8, <1>10, <1>13, <1>14, <2>1 DEF Keeper
  <2>2. ASSUME NEW k \in Node, Keeper(k, Len(disk[k].log))
        PROVE  Keeper(k, Len(disk[k].log))'
    <3>1. CASE k = n
      BY <1>3, <1>8, <1>10, <1>13, <1>20, <3>1 DEF Keeper
    <3>2. CASE k = x
      BY <1>3, <1>10, <1>14, <2>2, <3>2 DEF Keeper
    <3>3. QED
      BY <1>2, <3>1, <3>2
  <2>3. CASE env.power
    BY <1>1, <1>3, <2>1, <2>3 DEF Keepers
  <2>4. CASE ~env.power
    BY <1>1, <1>3, <2>2, <2>4 DEF Keepers
  <2>5. QED
    BY <2>3, <2>4
<1>24. Recorded'
  <2>1. ASSUME NEW L \in Logs'
        PROVE  /\ Len(L) <= Len(public) + 1
               /\ \A i \in 1..Len(L) : /\ L[i].val \in tried'
                                       /\ Expected[L[i].val] = i - 1
                                       /\ i <= Len(public) => L[i].val = public[i]
    <3>1. CASE L \in Logs
      BY <1>1, <1>3, <3>1 DEF Recorded
    <3>2. CASE L = new
      <4>1. Len(new) <= Len(public) + 1
        BY <1>20
      <4>2. ASSUME NEW i \in 1..Len(new)
            PROVE  /\ new[i].val \in tried'
                   /\ Expected[new[i].val] = i - 1
                   /\ i <= Len(public) => new[i].val = public[i]
        <5>1. CASE i \in 1..Len(log)
          <6>1. new[i] = log[i] /\ tried \subseteq tried'
            BY <1>3, <1>7, <5>1
          <6>2. /\ log[i].val \in tried /\ Expected[log[i].val] = i - 1
                /\ i <= Len(public) => log[i].val = public[i]
            BY <1>1, <1>19, <5>1 DEF Recorded
          <6>3. QED
            BY <6>1, <6>2
        <5>2. CASE i = Len(log) + 1
          <6>1. new[i].val = r /\ r \in tried'
            BY <1>3, <1>6, <1>7, <5>2
          <6>2. Expected[r] = i - 1 /\ ~(i <= Len(public))
            <7>1. /\ Expected[r] = Len(log) /\ Len(public) = Len(log) /\ Len(log) \in Nat
                  /\ i = Len(log) + 1
              BY <1>3, <1>5, <1>15, <5>2
            <7>2. QED
              BY <7>1, SMT
          <6>3. QED
            BY <6>1, <6>2
        <5>3. Len(log) \in Nat /\ i \in 1..(Len(log) + 1)
          BY <1>5, <1>7, <4>2
        <5>4. i \in 1..Len(log) \/ i = Len(log) + 1
          BY <5>3, SMT
        <5>5. QED
          BY <5>1, <5>2, <5>4
      <4>3. QED
        BY <3>2, <4>1, <4>2
    <3>3. QED
      BY <1>18, <2>1, <3>1, <3>2
  <2>2. ASSUME NEW L \in Logs', NEW i \in 1..Len(public), i <= Len(L)
        PROVE  \E K \in Logs : i <= Len(K) /\ L[i] = K[i]
    <3>1. CASE L = new
      <4>1. i \in 1..Len(log) /\ i <= Len(log)
        BY <1>5, <1>15, SMT
      <4>2. new[i] = log[i]
        BY <1>7, <4>1
      <4>3. QED
        BY <1>19, <3>1, <4>1, <4>2
    <3>2. CASE L \in Logs
      BY <2>2, <3>2
    <3>3. QED
      BY <1>18, <2>2, <3>1, <3>2
  <2>3. ASSUME NEW L \in Logs', NEW K \in Logs', NEW i \in 1..Len(public),
               i <= Len(L), i <= Len(K)
        PROVE  L[i] = K[i]
    <3>1. PICK A \in Logs : i <= Len(A) /\ L[i] = A[i]
      BY <2>2, <2>3
    <3>2. PICK B \in Logs : i <= Len(B) /\ K[i] = B[i]
      BY <2>2, <2>3
    <3>3. A[i] = B[i]
      BY <1>1, <3>1, <3>2 DEF Recorded
    <3>4. QED
      BY <3>1, <3>2, <3>3
  <2>4. \A a \in acked' : Expected[a] < Len(public) /\ public[Expected[a] + 1] = a
    BY <1>1, <1>3 DEF Recorded
  <2>5. public' = public
    BY <1>3
  <2>6. QED
    BY <2>1, <2>3, <2>4, <2>5 DEF Recorded
<1>25. Unforked'
  <2>1. SUFFICES ASSUME ~env.loss
                 PROVE  /\ (\A L, K \in Logs : Comparable(L, K))'
                        /\ \A M \in late' : Vouches(disk'[M.leader], Len(M.log))
                        /\ \A y \in Node : Follows(y)' =>
                              \/ Len(disk'[y].log) <= rcv'[y].durable
                              \/ Vouches(disk'[Peer(y)], Len(disk'[y].log))
    BY <1>3 DEF Unforked
  <2>2. ASSUME NEW y \in Node, NEW k, Vouches(disk[y], k) PROVE Vouches(disk'[y], k)
    BY <1>2, <1>8, <1>10, <2>2 DEF Vouches
  <2>3. ASSUME NEW L \in Logs PROVE Len(L) <= Len(log) \/ L = log
    <3>1. CASE L = disk[x].log
      BY <1>15, <2>1, <3>1 DEF Ahead, x
    <3>2. ASSUME NEW M \in Live, L = M.log PROVE Len(L) <= Len(log)
      <4>1. Vouches(disk[n], Len(L))
        <5>1. M \in late /\ M.leader = n
          BY <1>13, LiveFromLeader
        <5>2. QED
          BY <1>1, <2>1, <3>2, <5>1 DEF Unforked
      <4>2. Len(L) \in Nat /\ disk[n].synced <= Len(log)
        BY <1>1, <1>19 DEF Disks
      <4>3. disk[n].saved.committed <= Len(log)
        BY <1>15
      <4>4. QED
        BY <1>5, <4>1, <4>2, <4>3, OrderUp DEF Vouches
    <3>3. QED
      BY <1>2, <2>3, <3>1, <3>2 DEF Logs
  <2>4. ASSUME NEW L \in Logs PROVE Comparable(L, new)
    <3>1. CASE L = log
      BY <1>5, <1>7, <1>20, <3>1, PrefixFacts
    <3>2. CASE Len(L) <= Len(log)
      <4>1. L \in Seq(WalEntry) /\ Comparable(L, log)
        BY <1>1, <1>19, <2>1 DEF Unforked
      <4>2. Prefix(L, log)
        BY <1>5, <3>2, <4>1, ComparableShorter
      <4>3. Prefix(L, new)
        BY <1>5, <1>7, <1>20, <4>1, <4>2, PrefixTrans
      <4>4. QED
        BY <1>7, <4>1, <4>3, PrefixFacts
    <3>3. QED
      BY <2>3, <3>1, <3>2
  <2>5. Comparable(new, new) /\ \A L \in Logs : Comparable(new, L)
    BY <1>7, <1>19, <2>4, PrefixFacts
  <2>6. ASSUME NEW L \in Logs', NEW K \in Logs' PROVE Comparable(L, K)
    BY <1>1, <1>18, <2>1, <2>4, <2>5, <2>6 DEF Unforked
  <2>7. \A M \in late' : Vouches(disk'[M.leader], Len(M.log))
    BY <1>1, <1>3, <2>1, <2>2 DEF Unforked, Types, MessageType
  <2>8. \A y \in Node : Follows(y)' =>
              \/ Len(disk'[y].log) <= rcv'[y].durable
              \/ Vouches(disk'[Peer(y)], Len(disk'[y].log))
    <3>1. SUFFICES ASSUME Follows(x)
                   PROVE  \/ Len(disk[x].log) <= rcv[x].durable
                          \/ Vouches(disk'[n], Len(disk[x].log))
      BY <1>2, <1>3, <1>10, <1>13, <1>14
    <3>2. QED
      BY <1>1, <1>2, <2>1, <2>2, <3>1 DEF Unforked
  <2>9. QED
    BY <2>6, <2>7, <2>8
<1>26. Server(n)'
  <2>1. /\ Len(new) = proc[n].applied + 1 /\ r = new[Len(new)].val
        /\ disk[n].synced >= proc[n].applied /\ disk[n].saved.committed <= proc[n].applied
    BY <1>5, <1>6, <1>7, <1>15
  <2>2. Ahead(n)'
    <3>1. ASSUME Len(disk[x].log) <= Len(log) PROVE Len(disk[x].log) <= Len(new)
      BY <1>5, <1>20, <3>1, OrderUp
    <3>2. QED
      BY <1>3, <1>8, <1>10, <1>15, <3>1 DEF Ahead, x
  <2>3. QED
    BY <1>3, <1>8, <1>9, <1>10, <1>11, <1>15, <2>1, <2>2 DEF Server
<1>27. Leaders'
  <2>1. Leader(n)' /\ Serving(n)'
    BY <1>9, <1>11, ServingLeader
  <2>2. ~Active(x) /\ Leader(x)
    BY <1>1, <1>2, <1>13, OneActive DEF Leaders, x
  <2>3. Leader(x)' /\ ~Serving(x)'
    BY <1>2, <1>10, <1>11, <2>2, PassiveLeader
  <2>4. QED
    BY <1>2, <1>26, <2>1, <2>3 DEF Leaders
<1>28. QED
  BY <1>12, <1>21, <1>22, <1>23, <1>24, <1>25, <1>27 DEF StrictInv

\* What a log shows to readers.
LEMMA RequestsFacts ==
    ASSUME NEW L \in Seq(WalEntry)
    PROVE  /\ Requests(L) \in Seq(Request) /\ Len(Requests(L)) = Len(L)
           /\ \A i \in 1..Len(L) : Requests(L)[i] = L[i].val
<1>1. Len(L) \in Nat /\ \A i \in 1..Len(L) : L[i].val \in Request
  <2>1. Len(L) \in Nat /\ \A i \in 1..Len(L) : L[i] \in WalEntry
    BY SMT
  <2>2. \A w \in WalEntry : w.val \in Request
    BY DEF WalEntry
  <2>3. QED
    BY <2>1, <2>2
<1>2. QED
  BY <1>1, SMT DEF Requests

\* A sequence number below both of two lengths is an index into the longer.
LEMMA WithinBoth ==
    ASSUME NEW e \in Nat, NEW a \in Nat, NEW b \in Nat, e < a, b >= a
    PROVE  e < b /\ e + 1 \in 1..b /\ e + 1 <= a
BY SMT

\* A length at most one above another is that length or the next.
LEMMA SameOrNext ==
    ASSUME NEW a \in Nat, NEW b \in Nat, a >= b, a <= b + 1
    PROVE  a = b \/ a = b + 1
BY SMT

\* Sequences with the same entries are the same sequence.
LEMMA SameEntriesSame ==
    ASSUME NEW S, NEW s \in Seq(S), NEW t \in Seq(S), Len(t) = Len(s),
           \A i \in 1..Len(s) : t[i] = s[i]
    PROVE  t = s
BY SMT

\* A sequence with one entry more is the shorter one with that entry appended.
LEMMA OneEntryMore ==
    ASSUME NEW S, NEW s \in Seq(S), NEW t \in Seq(S), Len(t) = Len(s) + 1,
           \A i \in 1..Len(s) : t[i] = s[i]
    PROVE  t = Append(s, t[Len(s) + 1])
BY SMT

\* Logs with the same first k entries have the same first stretch of length k.
LEMMA SameStretch ==
    ASSUME NEW L \in Seq(WalEntry), NEW K \in Seq(WalEntry), NEW k \in Nat,
           k <= Len(L), k <= Len(K), \A i \in 1..k : L[i] = K[i]
    PROVE  SubSeq(L, 1, k) = SubSeq(K, 1, k)
BY SubSeqEntries

\* The log of a node everyone agrees with becomes what readers see: one request
\* more at most, and nothing that was there changes.
LEMMA PublishedLog ==
    ASSUME StrictInv, NEW n \in Node,
           \A L \in Logs : Comparable(disk[n].log, L),
           Len(disk[n].log) >= Len(public), public' = Requests(disk[n].log),
           Logs' = Logs, UNCHANGED <<tried, acked>>
    PROVE  /\ Recorded'
           /\ public' \in Seq(Request) /\ Len(public') = Len(disk[n].log)
           /\ \/ public' = public
              \/ \E r \in Request : r \in tried /\ Expected[r] = Len(public)
                                    /\ public' = Append(public, r)
<1> DEFINE log == disk[n].log
<1>1. Types /\ Recorded
  BY DEF StrictInv
<1>2. /\ log \in Seq(WalEntry) /\ Len(log) \in Nat /\ Len(public) \in Nat
      /\ public \in Seq(Request) /\ log \in Logs
  BY <1>1, Fields DEF Types, Logs
<1>3. /\ Len(log) <= Len(public) + 1
      /\ \A i \in 1..Len(log) : /\ log[i].val \in tried /\ Expected[log[i].val] = i - 1
                                /\ i <= Len(public) => log[i].val = public[i]
  BY <1>1, <1>2 DEF Recorded
<1>4. /\ public' \in Seq(Request) /\ Len(public') = Len(log)
      /\ \A i \in 1..Len(log) : public'[i] = log[i].val
  BY <1>2, RequestsFacts
<1>5. \A L \in Logs : \A i \in 1..Len(log) : i <= Len(L) => log[i] = L[i]
  BY DEF Comparable
<1>6. \A L \in Logs : L \in Seq(WalEntry) /\ Len(L) \in Nat
  BY <1>1, LogsTyped
<1>7. Len(log) >= Len(public)
  OBVIOUS
<1> HIDE DEF log
<1>8. Recorded'
  <2>1. ASSUME NEW L \in Logs
        PROVE  /\ Len(L) <= Len(public') + 1
               /\ \A i \in 1..Len(L) : /\ L[i].val \in tried /\ Expected[L[i].val] = i - 1
                                       /\ i <= Len(public') => L[i].val = public'[i]
    <3>1. /\ Len(L) <= Len(public) + 1 /\ Len(L) \in Nat
          /\ \A i \in 1..Len(L) : L[i].val \in tried /\ Expected[L[i].val] = i - 1
      BY <1>1, <1>6 DEF Recorded
    <3>2. Len(L) <= Len(public') + 1
      BY <1>2, <1>4, <1>7, <3>1, SMT
    <3>3. ASSUME NEW i \in 1..Len(L), i <= Len(public') PROVE L[i].val = public'[i]
      <4>1. i \in 1..Len(log) /\ i <= Len(L)
        BY <1>2, <1>4, <3>1, <3>3, SMT
      <4>2. log[i] = L[i] /\ public'[i] = log[i].val
        BY <1>4, <1>5, <4>1
      <4>3. QED
        BY <4>2
    <3>4. QED
      BY <3>1, <3>2, <3>3
  <2>2. ASSUME NEW L \in Logs, NEW K \in Logs, NEW i \in 1..Len(public'),
               i <= Len(L), i <= Len(K)
        PROVE  L[i] = K[i]
    <3>1. log[i] = L[i] /\ log[i] = K[i]
      BY <1>4, <1>5, <2>2
    <3>2. QED
      BY <3>1
  <2>3. ASSUME NEW r \in acked PROVE Expected[r] < Len(public') /\ public'[Expected[r] + 1] = r
    <3>1. Expected[r] < Len(public) /\ public[Expected[r] + 1] = r /\ Expected[r] \in Nat
      BY <1>1, AppendAssumption DEF Recorded, Types
    <3>2. /\ Expected[r] + 1 \in 1..Len(log) /\ Expected[r] + 1 <= Len(public)
          /\ Expected[r] < Len(public')
      BY <1>2, <1>4, <1>7, <3>1, WithinBoth
    <3>3. public'[Expected[r] + 1] = log[Expected[r] + 1].val
          /\ log[Expected[r] + 1].val = public[Expected[r] + 1]
      BY <1>3, <1>4, <3>2
    <3>4. QED
      BY <3>1, <3>2, <3>3
  <2>4. Logs' = Logs /\ tried' = tried /\ acked' = acked
    OBVIOUS
  <2>5. QED
    BY <2>1, <2>2, <2>3, <2>4 DEF Recorded
<1>9. \/ public' = public
      \/ \E r \in Request : r \in tried /\ Expected[r] = Len(public)
                            /\ public' = Append(public, r)
  <2>1. CASE Len(log) = Len(public)
    <3>1. ASSUME NEW i \in 1..Len(public) PROVE public'[i] = public[i]
      <4>1. i \in 1..Len(log) /\ i <= Len(public)
        BY <1>2, <2>1, SMT
      <4>2. QED
        BY <1>3, <1>4, <4>1
    <3>2. QED
      BY <1>2, <1>4, <2>1, <3>1, SameEntriesSame
  <2>2. CASE Len(log) = Len(public) + 1
    <3> DEFINE r == log[Len(log)].val
    <3>1. Len(log) \in 1..Len(log)
      BY <1>2, <2>2, SMT
    <3>2. /\ r \in tried /\ Expected[r] = Len(log) - 1 /\ public'[Len(log)] = r
      BY <1>3, <1>4, <3>1
    <3>3. r \in Request /\ Expected[r] = Len(public)
      <4>1. r \in Request
        BY <1>1, <3>2 DEF Types
      <4>2. Expected[r] = Len(public)
        BY <1>2, <2>2, <3>2, SMT
      <4>3. QED
        BY <4>1, <4>2
    <3> HIDE DEF r
    <3>4. ASSUME NEW i \in 1..Len(public) PROVE public'[i] = public[i]
      <4>1. i \in 1..Len(log) /\ i <= Len(public)
        BY <1>2, <2>2, SMT
      <4>2. QED
        BY <1>3, <1>4, <4>1
    <3>5. public' = Append(public, r)
      <4>1. /\ public \in Seq(Request) /\ public' \in Seq(Request) /\ r \in Request
            /\ Len(public') = Len(public) + 1 /\ public'[Len(public) + 1] = r
        BY <1>2, <1>4, <2>2, <3>2, <3>3
      <4>2. public' = Append(public, public'[Len(public) + 1])
        BY <3>4, <4>1, OneEntryMore
      <4>3. QED
        BY <4>1, <4>2
    <3>6. QED
      BY <3>2, <3>3, <3>5
  <2>3. QED
    BY <1>2, <1>3, <1>7, <2>1, <2>2, SameOrNext
<1>10. QED
  BY <1>4, <1>8, <1>9 DEF log

\* Node n makes its log public.
LEMMA PublishStep ==
    ASSUME StrictInv, NEW n \in Node, Active(n), NEW p \in ProcessType, NEW e \in DiskType,
           proc' = [proc EXCEPT ![n] = p], disk' = [disk EXCEPT ![n] = e],
           p.role = "serving", p.term = proc[n].term,
           e.log = disk[n].log, e.synced = Len(disk[n].log), e.saved = disk[n].saved,
           Contacted(n) \/ Len(disk[n].log) = 0,
           Comparable(disk[n].log, disk[Peer(n)].log), Copied(n),
           Len(disk[n].log) >= Len(public), public' = Requests(disk[n].log),
           UNCHANGED <<env, rcv, lease, late, tried, acked>>,
           fresh' \subseteq fresh, fresh' # Node,
           Peer(n) \in fresh \ fresh' =>
               /\ Len(disk[Peer(n)].log) >= Len(disk[n].log)
               /\ rcv[Peer(n)].durable >= Len(disk[n].log),
           Server(n)'
    PROVE  /\ StrictInv'
           /\ \/ public' = public
              \/ \E r \in Request : r \in tried /\ Expected[r] = Len(public)
                                    /\ public' = Append(public, r)
<1> DEFINE x == Peer(n)
<1>1. Types /\ Terms /\ Disks /\ Leaders /\ Unforked
  BY DEF StrictInv
<1>2. x \in Node /\ x # n /\ Peer(x) = n /\ \A y \in Node : y = n \/ y = x
  BY Pair
<1>3. Leads(n) /\ ~Active(x) /\ proc[n].role \notin {"standby", "opening"}
  BY OneActive DEF Active, Leads
<1> HIDE DEF x
<1>4. /\ disk' \in [Node -> DiskType] /\ disk'[n] = e /\ disk'[x] = disk[x]
  BY <1>1, <1>2 DEF Types
<1>5. /\ proc' \in [Node -> ProcessType] /\ proc'[n] = p /\ proc'[x] = proc[x]
  BY <1>1, <1>2, NextProc
<1>6. /\ (Follows(x)' <=> Follows(x)) /\ (Leads(x)' <=> Leads(x)) /\ (Active(x)' <=> Active(x))
      /\ ~Follows(n)'
  BY <1>5 DEF Follows, Leads, Active
<1>7. Floor(n)' = Floor(n) /\ Floor(x)' = Floor(x)
  BY <1>3, <1>5, SMT DEF Floor, Follows
<1>8. Live' = Live
  <2>1. \A M \in late : Floor(M.to)' = Floor(M.to)
    BY <1>1, <1>2, <1>7 DEF Types, MessageType
  <2>2. QED
    BY <2>1 DEF Live
<1>9. Logs' = Logs
  <2>1. \A y \in Node : disk'[y].log = disk[y].log
    BY <1>2, <1>4
  <2>2. QED
    BY <1>8, <2>1 DEF Logs
<1>10. \A L \in Logs : Comparable(disk[n].log, L)
  BY <1>3, AllAgree
<1>11. /\ Recorded' /\ public' \in Seq(Request) /\ Len(public') = Len(disk[n].log)
       /\ \/ public' = public
          \/ \E r \in Request : r \in tried /\ Expected[r] = Len(public)
                                /\ public' = Append(public, r)
  BY <1>9, <1>10, PublishedLog
<1>12. Types'
  BY <1>1, <1>4, <1>5, <1>11 DEF Types
<1>13. /\ Len(disk[n].log) \in Nat /\ disk[n].synced \in Nat
       /\ disk[n].synced <= Len(disk[n].log) /\ disk[n].log \in Seq(WalEntry)
       /\ disk[x].log \in Seq(WalEntry)
       /\ disk[n].saved.committed >= disk[n].saved.committed
       /\ lease.term >= lease.term /\ Floor(n) \in Nat
  BY <1>1, <1>2, Fields, SameDisk
<1>14. Len(disk[n].log) >= disk[n].synced /\ Len(disk[n].log) <= Len(disk[n].log)
       /\ Floor(n) >= Floor(n)
  BY <1>13, SMT
<1>15. \A y \in Node : Steady(y)
  <2>1. Steady(n)
    BY <1>4, <1>6, <1>7, <1>13, <1>14 DEF Steady
  <2>2. Steady(x)
    BY <1>1, <1>2, <1>4, <1>5, <1>12, <1>13, Untouched
  <2>3. QED
    BY <1>2, <2>1, <2>2
<1>16. Unforked'
  BY <1>1, <1>12, <1>15, SteadyLogs, UnforkedKept
<1>17. Disks'
  BY <1>1, <1>2, <1>4, <1>6, <1>14 DEF Disks
<1>18. Terms'
  <2>1. \A y \in Node : /\ proc'[y].term <= lease'.term
                        /\ Follows(y)' => rcv'[y].term <= lease'.term
    BY <1>1, <1>2, <1>5, <1>6 DEF Terms
  <2>2. Prefix(disk[x].log, disk[x].log) /\ Prefix(disk[n].log, disk[n].log)
    BY <1>13, PrefixFacts
  <2>3. \A y \in Node : /\ Leads(y)' => /\ Leads(y) /\ proc'[y].term = proc[y].term
                                        /\ Prefix(disk[y].log, disk'[y].log)
                        /\ Active(y)' => Active(y)
    BY <1>2, <1>3, <1>4, <1>5, <1>6, <2>2
  <2>4. QED
    BY <1>1, <1>12, <1>13, <2>1, <2>3, TermsKept
<1>19. Keepers'
  <2>1. Keeper(n, disk[n].synced)' /\ Keeper(n, Len(disk[n].log))'
    BY <1>4, <1>6, <1>11, <1>14 DEF Keeper
  <2>2. ASSUME ~env.power, x \notin fresh' PROVE Keeper(x, Len(disk[x].log))'
    <3>1. /\ Len(disk[x].log) >= Len(disk[n].log)
          /\ Follows(x) => rcv[x].durable >= Len(disk[n].log)
      BY <2>2 DEF Copied, x
    <3>2. QED
      BY <1>4, <1>6, <1>11, <3>1 DEF Keeper
  <2>3. QED
    BY <1>2, <2>1, <2>2 DEF Keepers
<1>20. Leaders'
  <2>1. Leader(n)' /\ Serving(n)'
    BY <1>5, ServingLeader
  <2>2. Leader(x)' /\ ~Serving(x)'
    BY <1>1, <1>2, <1>3, <1>4, <1>5, PassiveLeader DEF Leaders
  <2>3. QED
    BY <1>2, <2>1, <2>2 DEF Leaders
<1>21. QED
  BY <1>11, <1>12, <1>16, <1>17, <1>18, <1>19, <1>20 DEF StrictInv

\* OpenReplicated: the node serves what it has caught the other up with.
LEMMA ServeStep ==
    ASSUME StrictInv, NEW n \in Node, Serve(n)
    PROVE  /\ StrictInv'
           /\ \/ public' = public
              \/ \E r \in Request : r \in tried /\ Expected[r] = Len(public)
                                    /\ public' = Append(public, r)
<1> DEFINE x == Peer(n)
           log == disk[n].log
           e == [disk[n] EXCEPT !.synced = Len(log)]
           p == [proc[n] EXCEPT !.role = "serving", !.applied = Len(log)]
<1>1. Types /\ Leader(n)
  BY DEF StrictInv, Leaders
<1>2. /\ proc[n].role = "ready" /\ public' = Requests(log)
      /\ fresh' = {m \in fresh \ {n} : \/ Len(disk[m].log) < Len(log)
                                       \/ rcv[m].durable < Len(log)}
      /\ UNCHANGED <<env, rcv, lease, late, tried, acked>>
  BY DEF Serve
<1>3. proc' = [proc EXCEPT ![n] = p] /\ disk' = [disk EXCEPT ![n] = e]
  BY <1>1 DEF Serve, Types
<1>4. /\ proc[n] \in ProcessType /\ disk[n] \in DiskType /\ Len(log) \in Nat
      /\ log \in Seq(WalEntry) /\ x \in Node /\ Len(disk[x].log) \in Nat
      /\ rcv[x].durable \in Nat /\ x # n
  BY <1>1, Fields, Pair
<1>5. /\ p \in ProcessType /\ p.role = "serving" /\ p.term = proc[n].term
      /\ p.applied = Len(log) /\ p.stage = "none"
  BY <1>2, <1>4 DEF ProcessType
<1>6. /\ e \in DiskType /\ e.log = log /\ e.synced = Len(log) /\ e.saved = disk[n].saved
  BY <1>4 DEF DiskType
<1> HIDE DEF e, p
<1>7. /\ Len(log) = disk[n].saved.committed /\ Len(log) >= Len(public)
      /\ Comparable(log, disk[x].log) /\ Copied(n) /\ Ahead(n)
      /\ Contacted(n) \/ Len(log) = 0
  BY <1>1, <1>2 DEF Leader, Matched
<1>8. disk'[n] = e /\ disk'[x] = disk[x] /\ proc'[n] = p
  BY <1>1, <1>3, <1>4 DEF Types
<1>9. Server(n)'
  <2>1. Ahead(n)'
    BY <1>2, <1>6, <1>7, <1>8 DEF Ahead
  <2>2. Len(public') = Len(log) /\ Len(log) >= Len(log) /\ Len(log) <= Len(log)
    BY <1>2, <1>4, RequestsFacts, SMT
  <2>3. QED
    BY <1>5, <1>6, <1>7, <1>8, <2>1, <2>2 DEF Server
<1>10. fresh' \subseteq fresh /\ fresh' # Node
  BY <1>2
<1>11. ASSUME x \in fresh \ fresh'
       PROVE  Len(disk[x].log) >= Len(log) /\ rcv[x].durable >= Len(log)
  <2>1. ~(Len(disk[x].log) < Len(log)) /\ ~(rcv[x].durable < Len(log))
    BY <1>2, <1>4, <1>11
  <2>2. QED
    BY <1>4, <2>1, SMT
<1>12. Active(n)
  BY <1>2 DEF Active
<1>13. QED
  BY <1>2, <1>3, <1>5, <1>6, <1>7, <1>9, <1>10, <1>11, <1>12, PublishStep

\* The group committer commits the entry both nodes have.
LEMMA CommitEntryStep ==
    ASSUME StrictInv, NEW n \in Node, CommitEntry(n)
    PROVE  /\ StrictInv'
           /\ \/ public' = public
              \/ \E r \in Request : r \in tried /\ Expected[r] = Len(public)
                                    /\ public' = Append(public, r)
<1> DEFINE x == Peer(n)
           log == disk[n].log
           p == [proc[n] EXCEPT !.stage = "committed", !.applied = Len(log)]
<1>1. Types /\ Leaders /\ Keepers
  BY DEF StrictInv
<1>2. /\ Serving(n) /\ proc[n].role = "serving" /\ proc[n].stage = "replicated"
      /\ public' = Requests(log)
      /\ UNCHANGED <<env, disk, rcv, lease, late, fresh, tried, acked>>
  BY DEF CommitEntry, Serving
<1>3. proc' = [proc EXCEPT ![n] = p] /\ disk' = [disk EXCEPT ![n] = disk[n]]
  BY <1>1, <1>2 DEF CommitEntry, Types
<1>4. /\ proc[n] \in ProcessType /\ disk[n] \in DiskType /\ Len(log) \in Nat
      /\ log \in Seq(WalEntry) /\ Len(public) \in Nat /\ disk[n].saved.committed \in Nat
  BY <1>1, Fields
<1>5. /\ p \in ProcessType /\ p.role = "serving" /\ p.term = proc[n].term
      /\ p.applied = Len(log) /\ p.stage = "committed" /\ p.req = proc[n].req
  BY <1>2, <1>4 DEF ProcessType
<1> HIDE DEF p
<1>6. /\ proc[n].applied = Len(public) /\ Len(log) = proc[n].applied + 1
      /\ proc[n].req = log[Len(log)].val /\ disk[n].synced = Len(log)
      /\ disk[n].saved.committed <= proc[n].applied
      /\ Contacted(n) /\ Comparable(log, disk[x].log) /\ Copied(n) /\ Ahead(n)
  BY <1>1, <1>2 DEF Leaders, Server
<1>7. /\ Len(log) >= Len(public) /\ Len(log) > 0 /\ Len(log) >= Len(log)
      /\ disk[n].saved.committed <= Len(log)
  BY <1>4, <1>6, SMT
<1>8. proc'[n] = p
  BY <1>1, <1>3, <1>5, NextProc
<1>9. Server(n)'
  <2>1. Ahead(n)' /\ Len(public') = Len(log)
    BY <1>2, <1>4, <1>6, RequestsFacts DEF Ahead
  <2>2. QED
    BY <1>2, <1>5, <1>6, <1>7, <1>8, <2>1 DEF Server
<1>10. fresh' \subseteq fresh /\ fresh' # Node /\ fresh \ fresh' = {}
  BY <1>1, <1>2 DEF Keepers
<1>11. Active(n)
  BY <1>2 DEF Active
<1>12. QED
  BY <1>2, <1>3, <1>4, <1>5, <1>6, <1>7, <1>9, <1>10, <1>11, PublishStep

-----------------------------------------------------------------------------
(* The theorems.                                                           *)

\* Every behaviour stays in one environment; the invariant holds in all but
\* those that both lose unsynced data and lose a node for good.
Checked ==
    /\ env \in Environment
    /\ ~(env.power /\ env.loss) => StrictInv

\* No environment has both kinds of fault.  MCStrictHALoss shows a lost request
\* in one that has.
OneKindOfFault == \A e \in Environment : ~(e.power /\ e.loss)

\* Both nodes start empty and down.
LEMMA InitInv == Init => StrictInv
<1> SUFFICES ASSUME Init PROVE StrictInv
  OBVIOUS
<1>1. /\ \A n \in Node : disk[n] = EmptyDisk /\ rcv[n] = NoReceiver /\ proc[n] = Down
      /\ lease = [holder |-> NoNode, term |-> 0] /\ late = {} /\ fresh = {}
      /\ public = <<>> /\ tried = {} /\ acked = {}
      /\ lease.term = 0
  BY DEF Init
<1>2. Types
  <2>1. /\ disk \in [Node -> DiskType] /\ rcv \in [Node -> ReceiverType]
        /\ proc \in [Node -> ProcessType]
    BY DownFacts DEF Init
  <2>2. public \in Seq(Request)
    BY <1>1, SMT
  <2>3. QED
    BY <1>1, <2>1, <2>2 DEF Types
<1>3. \A n \in Node : ~Follows(n) /\ ~Leads(n) /\ ~Active(n) /\ ~Serving(n) /\ ~Matched(n)
  BY <1>1, DownFacts DEF Follows, Leads, Active, Serving, Matched
<1>4. \A n \in Node : Len(disk[n].log) = 0 /\ disk[n].synced = 0 /\ disk[n].log = <<>>
  BY <1>1, DownFacts
<1>5. Len(public) = 0
  BY <1>1, DownFacts
<1>6. Terms
  <2>1. \A n \in Node : proc[n].term <= lease.term
    BY <1>1, DownFacts, SMT
  <2>2. QED
    BY <1>1, <1>3, <2>1 DEF Terms
<1>7. Disks
  <2>1. 0 <= 0
    BY SMT
  <2>2. QED
    BY <1>3, <1>4, <2>1 DEF Disks
<1>8. Leaders
  BY <1>1, <1>3, DownFacts DEF Leaders, Leader, Matched
<1>9. Keepers
  <2>1. \A k \in Node : Keeper(k, disk[k].synced) /\ Keeper(k, Len(disk[k].log))
    <3>1. 0 >= 0
      BY SMT
    <3>2. QED
      BY <1>3, <1>4, <1>5, <3>1 DEF Keeper
  <2>2. QED
    BY <1>1, <2>1, PairAssumption DEF Keepers
<1>10. \A L \in Logs : L = <<>> /\ Len(L) = 0
  BY <1>1, <1>4, DownFacts DEF Logs, Live
<1>11. Recorded
  <2>1. \A L \in Logs : Len(L) <= Len(public) + 1 /\ 1..Len(L) = {}
    BY <1>5, <1>10, SMT
  <2>2. 1..Len(public) = {}
    BY <1>5, SMT
  <2>3. QED
    BY <1>1, <2>1, <2>2 DEF Recorded
<1>12. Unforked
  <2>1. \A L \in Logs : 1..Len(L) = {}
    BY <1>10, SMT
  <2>2. QED
    BY <1>1, <1>3, <2>1 DEF Unforked, Comparable
<1>13. QED
  BY <1>2, <1>6, <1>7, <1>8, <1>9, <1>11, <1>12 DEF StrictInv

\* A step of the history: readers see one request more, or it is acknowledged.
Shown ==
    \/ UNCHANGED <<public, tried, acked>>
    \/ \E r \in Request : tried' = tried \cup {r} /\ UNCHANGED <<public, acked>>
    \/ /\ \E r \in Request : /\ r \in tried /\ Expected[r] = Len(public)
                             /\ public' = Append(public, r)
       /\ UNCHANGED <<tried, acked>>
    \/ \E r \in Request : /\ Expected[r] < Len(public) /\ public[Expected[r] + 1] = r
                          /\ acked' = acked \cup {r}
                          /\ UNCHANGED <<public, tried>>

\* Every step keeps the invariant, and shows the clients one log.
LEMMA NextInv ==
    ASSUME StrictInv, ~(env.power /\ env.loss), [Next]_vars
    PROVE  StrictInv' /\ Shown
<1>1. CASE LoseLease
  <2>1. PICK n \in Node : TRUE
    BY PairAssumption
  <2>2. QED
    BY <1>1, <2>1, LoseLeaseStep DEF LoseLease, clientVars, Shown
<1>2. ASSUME NEW msg \in late, ArriveLate(msg) PROVE StrictInv' /\ Shown
  BY <1>2, ArriveLateStep DEF ArriveLate, clientVars, Shown
<1>3. ASSUME NEW n \in Node, ProcessStep(n) PROVE StrictInv' /\ Shown
  <2>1. CASE StartPrimary(n)
    BY <2>1, StartPrimaryStep DEF StartPrimary, clientVars, Shown
  <2>2. CASE StartStandby(n)
    BY <2>2, StartStandbyStep DEF StartStandby, clientVars, Shown
  <2>3. CASE OpenStandby(n)
    BY <2>3, OpenStandbyStep DEF OpenStandby, clientVars, Shown
  <2>4. CASE Crash(n)
    BY <2>4, CrashStep DEF Crash, clientVars, Shown
  <2>5. CASE PowerLoss(n)
    BY <2>5, PowerLossStep DEF PowerLoss, clientVars, Shown
  <2>6. CASE Replace(n)
    BY <2>6, ReplaceStep DEF Replace, clientVars, Shown
  <2>7. QED
    BY <1>3, <2>1, <2>2, <2>3, <2>4, <2>5, <2>6 DEF ProcessStep
<1>4. ASSUME NEW n \in Node, PrimaryStep(n) PROVE StrictInv' /\ Shown
  <2>1. CASE Promote(n)
    BY <2>1, PromoteStep DEF Promote, clientVars, Shown
  <2>2. CASE CatchUpPlan(n)
    BY <2>2, CatchUpPlanStep DEF CatchUpPlan, clientVars, Shown
  <2>3. CASE CatchUpAppend(n)
    BY <2>3, CatchUpAppendStep DEF CatchUpAppend, clientVars, Shown
  <2>4. CASE CatchUpBarrier(n)
    BY <2>4, CatchUpBarrierStep DEF CatchUpBarrier, clientVars, Shown
  <2>5. CASE CatchUpAdvance(n)
    BY <2>5, CatchUpAdvanceStep DEF CatchUpAdvance, clientVars, Shown
  <2>6. CASE Serve(n)
    <3>1. UNCHANGED <<tried, acked>>
      BY <2>6 DEF Serve
    <3>2. QED
      BY <2>6, <3>1, ServeStep DEF Shown
  <2>7. ASSUME NEW r \in Request, Deduplicate(n, r) PROVE StrictInv' /\ Shown
    <3>1. acked' = acked \cup {r} /\ UNCHANGED <<public, tried>>
      BY <2>7 DEF Deduplicate
    <3>2. QED
      BY <2>7, <3>1, DeduplicateStep DEF Shown
  <2>8. ASSUME NEW r \in Request, WriteEntry(n, r) PROVE StrictInv' /\ Shown
    <3>1. tried' = tried \cup {r} /\ UNCHANGED <<public, acked>>
      BY <2>8 DEF WriteEntry
    <3>2. QED
      BY <2>8, <3>1, WriteEntryStep DEF Shown
  <2>9. CASE FailAppend(n)
    BY <2>9, FailAppendStep DEF FailAppend, clientVars, Shown
  <2>10. CASE SyncEntry(n)
    BY <2>10, SyncEntryStep DEF SyncEntry, clientVars, Shown
  <2>11. CASE ReplicateAppend(n)
    BY <2>11, ReplicateAppendStep DEF ReplicateAppend, clientVars, Shown
  <2>12. CASE ReplicateBarrier(n)
    BY <2>12, ReplicateBarrierStep DEF ReplicateBarrier, clientVars, Shown
  <2>13. CASE CommitEntry(n)
    <3>1. UNCHANGED <<tried, acked>>
      BY <2>13 DEF CommitEntry
    <3>2. QED
      BY <2>13, <3>1, CommitEntryStep DEF Shown
  <2>14. CASE AnswerAppend(n)
    <3>1. acked' = acked \cup {proc[n].req} /\ UNCHANGED <<public, tried>>
      BY <2>14 DEF AnswerAppend
    <3>2. QED
      BY <2>14, <3>1, AnswerAppendStep DEF Shown
  <2>15. CASE CheckpointPrimary(n)
    BY <2>15, CheckpointPrimaryStep DEF CheckpointPrimary, clientVars, Shown
  <2>16. CASE CheckpointStandby(n)
    BY <2>16, CheckpointStandbyStep DEF CheckpointStandby, clientVars, Shown
  <2>17. QED
    BY <1>4, <2>1, <2>2, <2>3, <2>4, <2>5, <2>6, <2>7, <2>8, <2>9, <2>10, <2>11, <2>12,
       <2>13, <2>14, <2>15, <2>16 DEF PrimaryStep
<1>5. CASE UNCHANGED vars
  <2>1. /\ UNCHANGED <<env, disk, rcv, proc, lease, late, fresh, public, tried, acked>>
    BY <1>5 DEF vars
  <2>2. Types /\ Terms /\ Disks
    BY DEF StrictInv
  <2>3. Types'
    BY <2>1, <2>2 DEF Types
  <2>4. Terms' /\ Disks'
    BY <2>1, <2>2 DEF Terms, Disks, Follows, Leads, Active
  <2>5. lease'.term >= lease.term
    BY <2>1, <2>2, PairAssumption, SameDisk
  <2>6. Calm
    BY <2>1, <2>2, <2>5, CalmFrame DEF clientVars
  <2>7. \A n \in Node : Steady(n) /\ Still(n)
    BY <2>1, <2>2, <2>3, <2>5, Untouched
  <2>8. StrictInv'
    BY <2>3, <2>4, <2>6, <2>7, SteadyStep
  <2>9. QED
    BY <2>1, <2>8 DEF Shown
<1>6. QED
  BY <1>1, <1>2, <1>3, <1>4, <1>5 DEF Next

\* The environment of a behaviour does not change.
LEMMA EnvKept == [Next]_vars => env' = env
<1> SUFFICES ASSUME [Next]_vars PROVE env' = env
  OBVIOUS
<1>1. ASSUME NEW n \in Node, ProcessStep(n) PROVE env' = env
  BY <1>1 DEF ProcessStep, StartPrimary, StartStandby, OpenStandby, Crash, PowerLoss, Replace
<1>2. ASSUME NEW n \in Node, PrimaryStep(n) PROVE env' = env
  <2>1. CASE \/ Promote(n) \/ CatchUpPlan(n) \/ CatchUpAppend(n) \/ CatchUpBarrier(n)
             \/ CatchUpAdvance(n) \/ Serve(n)
    BY <2>1 DEF Promote, CatchUpPlan, CatchUpAppend, CatchUpBarrier, CatchUpAdvance, Serve
  <2>2. CASE \E r \in Request : Deduplicate(n, r) \/ WriteEntry(n, r)
    BY <2>2 DEF Deduplicate, WriteEntry
  <2>3. CASE \/ FailAppend(n) \/ SyncEntry(n) \/ ReplicateAppend(n) \/ ReplicateBarrier(n)
    BY <2>3 DEF FailAppend, SyncEntry, ReplicateAppend, ReplicateBarrier
  <2>4. CASE \/ CommitEntry(n) \/ AnswerAppend(n)
             \/ CheckpointPrimary(n) \/ CheckpointStandby(n)
    BY <2>4 DEF CommitEntry, AnswerAppend, CheckpointPrimary, CheckpointStandby
  <2>5. QED
    BY <1>2, <2>1, <2>2, <2>3, <2>4 DEF PrimaryStep
<1>3. ASSUME NEW msg \in late, ArriveLate(msg) PROVE env' = env
  BY <1>3 DEF ArriveLate
<1>4. QED
  BY <1>1, <1>2, <1>3 DEF Next, LoseLease, vars

\* The invariant holds throughout.
LEMMA AlwaysChecked == Spec => []Checked
<1>1. Init => Checked
  BY InitInv DEF Init, Checked
<1>2. Checked /\ [Next]_vars => Checked'
  BY NextInv, EnvKept DEF Checked
<1>3. QED
  BY <1>1, <1>2, PTL DEF Spec

\* As long as no node is lost for good the two logs never disagree about an
\* entry, whatever the processes, the messages and the power do: catch-up never
\* has anything to discard (planner.go:126, receiver.go).
THEOREM StrictNoFork == Spec => []NoFork
<1>1. Checked => NoFork
  <2> SUFFICES ASSUME Checked, ~env.loss, NEW m \in Node, NEW n \in Node
               PROVE  LET k == Least(Len(disk[m].log), Len(disk[n].log))
                      IN  SubSeq(disk[m].log, 1, k) = SubSeq(disk[n].log, 1, k)
    BY DEF NoFork
  <2> DEFINE k == Least(Len(disk[m].log), Len(disk[n].log))
  <2>1. Types /\ Unforked
    BY DEF Checked, StrictInv
  <2>2. /\ disk[m].log \in Seq(WalEntry) /\ disk[n].log \in Seq(WalEntry)
        /\ Len(disk[m].log) \in Nat /\ Len(disk[n].log) \in Nat
    BY <2>1, Fields
  <2>3. k \in Nat /\ k <= Len(disk[m].log) /\ k <= Len(disk[n].log)
    BY <2>2, SMT DEF Least
  <2>4. Comparable(disk[m].log, disk[n].log)
    BY <2>1 DEF Unforked, Logs
  <2> HIDE DEF k
  <2>5. \A i \in 1..k : disk[m].log[i] = disk[n].log[i]
    <3>1. \A i \in 1..k : i \in 1..Len(disk[m].log) /\ i <= Len(disk[n].log)
      BY <2>2, <2>3, SMT
    <3>2. QED
      BY <2>4, <3>1 DEF Comparable
  <2>6. SubSeq(disk[m].log, 1, k) = SubSeq(disk[n].log, 1, k)
    BY <2>2, <2>3, <2>5, SameStretch
  <2>7. QED
    BY <2>6 DEF k
<1>2. QED
  BY <1>1, AlwaysChecked, PTL

\* A node that answers clients has every acknowledged request at its sequence,
\* through failover and catch-up.
THEOREM StrictAckedServed == ASSUME OneKindOfFault PROVE Spec => []AckedServed
<1>1. Checked => AckedServed
  <2> SUFFICES ASSUME Checked, NEW n \in Node, Serving(n), NEW r \in acked
               PROVE  /\ Expected[r] < proc[n].applied
                      /\ disk[n].log[Expected[r] + 1].val = r
    BY DEF AckedServed
  <2>1. Types /\ Server(n) /\ Recorded
    BY DEF Checked, OneKindOfFault, StrictInv, Leaders
  <2>2. proc[n].applied = Len(public) /\ Len(disk[n].log) \in {Len(public), Len(public) + 1}
    BY <2>1 DEF Server
  <2>3. Expected[r] < Len(public) /\ public[Expected[r] + 1] = r /\ Expected[r] \in Nat
    BY <2>1, AppendAssumption DEF Recorded, Types
  <2>4. Len(public) \in Nat
    BY <2>1, Fields
  <2>5. Expected[r] + 1 \in 1..Len(disk[n].log) /\ Expected[r] + 1 <= Len(public)
    <3>1. Len(disk[n].log) \in Nat /\ Len(disk[n].log) >= Len(public)
      BY <2>1, <2>2, <2>4, Fields, OrderFacts, OrderNext
    <3>2. QED
      BY <2>3, <2>4, <3>1, WithinBoth
  <2>6. disk[n].log[Expected[r] + 1].val = public[Expected[r] + 1]
    BY <2>1, <2>5 DEF Recorded, Logs
  <2>7. QED
    BY <2>2, <2>3, <2>6
<1>2. QED
  BY <1>1, AlwaysChecked, PTL

\* At most one node serves: a Primary that lost its lease unnoticed is the
\* Standby of the next one before that serves (ha.go:154).
THEOREM StrictOneServing == ASSUME OneKindOfFault PROVE Spec => []OneServing
<1>1. Checked => OneServing
  <2> SUFFICES ASSUME Checked, NEW m \in Node, NEW n \in Node, Serving(m), Serving(n), m # n
               PROVE  FALSE
    BY DEF OneServing
  <2>1. StrictInv
    BY DEF Checked, OneKindOfFault
  <2>2. Active(m) /\ Active(n)
    BY DEF Active, Serving
  <2>3. n = Peer(m)
    BY Pair
  <2>4. QED
    BY <2>1, <2>2, <2>3, OneActive
<1>2. QED
  BY <1>1, AlwaysChecked, PTL

\* Whatever is lost, no log holds anything else where readers have seen an
\* entry, and an acknowledged request is on both nodes unless one of them is a
\* replacement still to be caught up (replication-protocol.md, section 4).
THEOREM StrictDurable ==
    ASSUME OneKindOfFault
    PROVE  Spec => [](AgreesWithPublic /\ AckedOnBoth)
<1>1. Checked => AgreesWithPublic
  <2> SUFFICES ASSUME Checked, NEW n \in Node,
                      NEW i \in 1..Least(Len(disk[n].log), Len(public))
               PROVE  disk[n].log[i].val = public[i]
    BY DEF AgreesWithPublic
  <2>1. Types /\ Recorded
    BY DEF Checked, OneKindOfFault, StrictInv
  <2>2. Len(disk[n].log) \in Nat /\ Len(public) \in Nat
    BY <2>1, Fields
  <2>3. i \in 1..Len(disk[n].log) /\ i <= Len(public)
    BY <2>2, SMT DEF Least
  <2>4. QED
    BY <2>1, <2>3 DEF Recorded, Logs
<1>2. Checked => AckedOnBoth
  <2> SUFFICES ASSUME Checked, ~env.power, NEW n \in Node \ fresh, NEW r \in acked
               PROVE  /\ Expected[r] < Len(disk[n].log)
                      /\ disk[n].log[Expected[r] + 1].val = r
    BY DEF AckedOnBoth
  <2>1. Types /\ Recorded /\ Keepers
    BY DEF Checked, OneKindOfFault, StrictInv
  <2>2. Len(disk[n].log) >= Len(public)
    BY <2>1 DEF Keepers, Keeper
  <2>3. Expected[r] < Len(public) /\ public[Expected[r] + 1] = r /\ Expected[r] \in Nat
    BY <2>1, AppendAssumption DEF Recorded, Types
  <2>4. Len(disk[n].log) \in Nat /\ Len(public) \in Nat
    BY <2>1, Fields
  <2>5. /\ Expected[r] < Len(disk[n].log) /\ Expected[r] + 1 \in 1..Len(disk[n].log)
        /\ Expected[r] + 1 <= Len(public)
    BY <2>2, <2>3, <2>4, WithinBoth
  <2>6. disk[n].log[Expected[r] + 1].val = public[Expected[r] + 1]
    <3>1. disk[n].log \in Logs
      BY DEF Logs
    <3>2. QED
      BY <2>1, <2>5, <3>1 DEF Recorded
  <2>7. QED
    BY <2>3, <2>5, <2>6
<1>3. QED
  BY <1>1, <1>2, AlwaysChecked, PTL

\* Seen by its clients the pair is one log that only grows, in which a request
\* appears at most at the sequence it expects and stays once acknowledged:
\* the pair implements module StreamLog.
THEOREM StrictIsOneLog == ASSUME OneKindOfFault PROVE Spec => OneLog
<1>1. Init => Abstract!Init
  BY DEF Init, Abstract!Init
<1>2. Checked /\ [Next]_vars => [Abstract!Next]_(Abstract!vars)
  <2> SUFFICES ASSUME Checked, [Next]_vars PROVE [Abstract!Next]_(Abstract!vars)
    OBVIOUS
  <2>1. Shown
    BY NextInv DEF Checked, OneKindOfFault
  <2>2. QED
    BY <2>1 DEF Shown, Abstract!Next, Abstract!Try, Abstract!Publish, Abstract!Ack,
       Abstract!vars
<1>3. QED
  BY <1>1, <1>2, AlwaysChecked, PTL DEF Spec, OneLog, Abstract!Spec
=============================================================================
