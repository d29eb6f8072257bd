--------------------------- MODULE StrictHASteps ---------------------------
(***************************************************************************)
(* The inductive invariant of module StrictHA, and the steps that lose and *)
(* add nothing: every step but a loss, a write and a publication.          *)
(*                                                                         *)
(* Terms order the leaders: a message of an old Term is refused once its   *)
(* receiver knows of a newer one (Floor), so only some messages can still  *)
(* change a log (Live).  A leader establishes facts about the other node's *)
(* log by catch-up and by the answers to its calls (Leader, Server), and   *)
(* these survive whatever the other node receives meanwhile, since it      *)
(* comes from the leader itself.  What readers have seen is kept by enough *)
(* nodes (Keepers) and is the same wherever it is (Recorded); without a    *)
(* lost node the logs, and those still under way, never fork (Unforked),   *)
(* because a node sends only what it has synced or counts as committed     *)
(* (Vouches).                                                              *)
(*                                                                         *)
(* The steps of this module change no log except by a message (Steady,     *)
(* SteadyStep).                                                            *)
(***************************************************************************)
EXTENDS StrictHA, TLAPS

-----------------------------------------------------------------------------
(* Types.                                                                  *)

WalEntry == [term : Nat, index : Nat, count : Nat, val : Request]

SavedType ==
    [term : Nat, role : {"none", "standby", "primary"},
     leader : Node \cup {NoNode}, committed : Nat]

DiskType == [log : Seq(WalEntry), synced : Nat, flushed : Nat, saved : SavedType]

ReceiverType ==
    [term : Nat, leader : Node \cup {NoNode}, durable : Nat, committed : Nat,
     applied : Nat, pending : Nat, table : Nat, frozen : Nat,
     flushing : {"no", "open", "live"}, fatal : BOOLEAN]

\* Only a node that serves is at work on a request.
ProcessType ==
    {p \in [role : {"down", "granted", "opening", "standby", "plan", "append", "barrier",
                    "advance", "ready", "serving", "blocked", "refused"},
            term : Nat, sent : Nat, applied : Nat,
            stage : {"none", "written", "synced", "sent", "replicated", "committed"},
            req : Request \cup {NoNode}, fatal : BOOLEAN] :
        p.role # "serving" => p.stage = "none"}

MessageType ==
    [kind : {"append", "barrier", "advance"}, to : Node, term : Nat, leader : Node,
     from : Nat, through : Nat, log : Seq(WalEntry)]

\* The state and the messages are records of these, and a message goes from
\* one node to the other.
Types ==
    /\ disk \in [Node -> DiskType]
    /\ rcv \in [Node -> ReceiverType]
    /\ proc \in [Node -> ProcessType]
    /\ lease \in [holder : Node \cup {NoNode}, term : Nat]
    /\ late \subseteq MessageType
    /\ \A M \in late : M.leader = Peer(M.to)
    /\ fresh \subseteq Node
    /\ public \in Seq(Request)
    /\ tried \subseteq Request
    /\ acked \subseteq Request

-----------------------------------------------------------------------------
(* The inductive invariant.                                                *)

\* Log L is the beginning of log K.
Prefix(L, K) == Len(L) <= Len(K) /\ \A i \in 1..Len(L) : L[i] = K[i]

\* The logs agree wherever both have an entry.
Comparable(L, K) ==
    \A i \in 1..Len(L) : i <= Len(K) => L[i] = K[i]

\* The node has been granted a Term and its process still runs on it.
Leads(n) ==
    proc[n].role \in {"granted", "plan", "append", "barrier", "advance", "ready",
                      "serving", "blocked", "refused"}

\* It may have called, or call, the other node.
Active(n) == proc[n].role \in {"append", "barrier", "advance", "ready", "serving"}

\* Catch-up has found, or made, the other log equal to its own.
Matched(n) == proc[n].role \in {"advance", "ready"}

Follows(n) == proc[n].role = "standby"

\* The least Term a message to n must have to be handled, now or later.
Floor(n) ==
    IF Follows(n) THEN rcv[n].term
    ELSE IF proc[n].role = "opening" THEN proc[n].term
    ELSE lease.term

\* The late messages that could still be handled.
Live == {M \in late : M.term >= Floor(M.to)}

\* Everything a node's log holds or may come to hold through a message.
Logs == {disk[n].log : n \in Node} \cup {M.log : M \in Live}

\* Terms only grow; of two leaders the one that does not call yet has the later
\* Term, messages to a leader are of older Terms, and a message of the leader's
\* own Term holds the beginning of its log.
Terms ==
    /\ \A n \in Node : proc[n].term <= lease.term
    /\ \A n \in Node : Follows(n) => rcv[n].term <= lease.term
    /\ \A M \in late : M.term <= lease.term
    /\ \A m, n \in Node : Active(m) /\ Leads(n) /\ m # n => proc[m].term < proc[n].term
    /\ \A M \in late : Leads(M.to) => M.term < proc[M.to].term
    /\ \A M \in late : Leads(M.leader) => M.term <= proc[M.leader].term
    /\ \A M \in late : Leads(M.leader) /\ M.term = proc[M.leader].term
                          => Prefix(M.log, disk[M.leader].log)

\* What is synced, or what a Standby counts as durable, has been written, and a
\* Standby knows of every position it has saved as committed.
Disks ==
    \A n \in Node :
        /\ disk[n].synced <= Len(disk[n].log)
        /\ Follows(n) => /\ rcv[n].durable <= Len(disk[n].log)
                         /\ disk[n].saved.committed <= rcv[n].committed

\* The other node accepts no message older than m's Term any more.
Contacted(m) == Floor(Peer(m)) >= proc[m].term

\* As long as no node is lost for good the other node has nothing that m lacks.
Ahead(m) == ~env.loss => Len(disk[Peer(m)].log) <= Len(disk[m].log)

\* The other node has all of m's log, unless it was replaced meanwhile.
Copied(m) ==
    ~env.power /\ Peer(m) \notin fresh =>
        /\ Len(disk[Peer(m)].log) >= Len(disk[m].log)
        /\ Follows(Peer(m)) => rcv[Peer(m)].durable >= Len(disk[m].log)

\* What a node knows while it catches the other up: all its log is committed
\* and holds what is public, and once the logs match they stay so.
Leader(m) ==
    LET log == disk[m].log
        other == disk[Peer(m)].log
        committed == disk[m].saved.committed
    IN
    /\ proc[m].role \in {"plan", "append", "barrier", "advance", "ready"} =>
          Len(log) <= committed
    /\ proc[m].role \in {"append", "barrier", "advance", "ready"} =>
          Len(log) >= Len(public)
    /\ proc[m].role = "barrier" => ChunkEnd(m) <= Len(log)
    /\ Matched(m) =>
          /\ Len(log) = committed
          /\ Comparable(log, other)
          /\ Contacted(m) \/ Prefix(log, other)
          /\ Copied(m)
          /\ Ahead(m)
    /\ proc[m].role = "ready" => Contacted(m) \/ Len(log) = 0

\* What a serving node knows: it has applied exactly what is public, at most one
\* entry is in progress, and how far that has got on both nodes.
Server(m) ==
    LET p == proc[m]
        log == disk[m].log
    IN
    /\ p.applied = Len(public)
    /\ Len(log) \in {p.applied, p.applied + 1}
    /\ disk[m].synced >= p.applied
    /\ disk[m].saved.committed <= p.applied
    /\ p.stage = "none" /\ ~p.fatal => Len(log) = p.applied
    /\ p.stage = "committed" => /\ Len(log) = p.applied
                                /\ Len(log) > 0
                                /\ p.req = log[Len(log)].val
    /\ p.stage \in {"written", "synced", "sent", "replicated"} =>
          Len(log) = p.applied + 1 /\ p.req = log[Len(log)].val
    /\ p.stage \in {"synced", "sent", "replicated"} => disk[m].synced = Len(log)
    /\ p.stage \in {"sent", "replicated"} =>
          Contacted(m) /\ Comparable(log, disk[Peer(m)].log)
    /\ p.stage = "replicated" => Copied(m)
    /\ Ahead(m)

\* Both hold for every node in such a role.
Leaders == \A m \in Node : Leader(m) /\ (Serving(m) => Server(m))

\* Node k, whose log is good for reach entries, keeps everything public.
Keeper(k, reach) ==
    /\ reach >= Len(public)
    /\ Follows(k) => rcv[k].durable >= Len(public)

\* When power can fail one node has synced everything public; otherwise both
\* have it, except a replacement still to be caught up.
Keepers ==
    /\ fresh # Node
    /\ IF env.power THEN \E k \in Node : Keeper(k, disk[k].synced)
       ELSE \A k \in Node \ fresh : Keeper(k, Len(disk[k].log))

\* As far as it goes every log is what readers have seen, with at most one entry
\* beyond it and each entry at the sequence its request expects; what is
\* acknowledged is public.
Recorded ==
    /\ \A L \in Logs :
          /\ Len(L) <= Len(public) + 1
          /\ \A i \in 1..Len(L) : /\ L[i].val \in tried
                                  /\ Expected[L[i].val] = i - 1
                                  /\ i <= Len(public) => L[i].val = public[i]
    /\ \A L, K \in Logs : \A i \in 1..Len(public) :
          i <= Len(L) /\ i <= Len(K) => L[i] = K[i]
    /\ \A r \in acked : Expected[r] < Len(public) /\ public[Expected[r] + 1] = r

\* The first k entries of disk d outlast a loss of power, or its node counts
\* them as committed.
Vouches(d, k) == k <= d.synced \/ k <= d.saved.committed

\* As long as no node is lost for good all logs agree, a message holds no more
\* than its sender vouches for, and neither does a Standby's unsynced log.
Unforked ==
    ~env.loss =>
        /\ \A L, K \in Logs : Comparable(L, K)
        /\ \A M \in late : Vouches(disk[M.leader], Len(M.log))
        /\ \A n \in Node : Follows(n) =>
              \/ Len(disk[n].log) <= rcv[n].durable
              \/ Vouches(disk[Peer(n)], Len(disk[n].log))

\* The inductive invariant.
StrictInv == Types /\ Terms /\ Disks /\ Leaders /\ Keepers /\ Recorded /\ Unforked

USE Zenon

-----------------------------------------------------------------------------
(* The order of positions and of Terms.                                    *)

\* The order is reflexive, and the two signs say the same.
LEMMA OrderFacts ==
    ASSUME NEW a \in Nat, NEW b \in Nat
    PROVE  a <= a /\ a >= a /\ (a <= b <=> b >= a)
BY SMT

\* The order is transitive.
LEMMA OrderTrans ==
    ASSUME NEW a \in Nat, NEW b \in Nat, NEW c \in Nat, a >= b, b >= c
    PROVE  a >= c
BY SMT

\* The same with the other sign.
LEMMA OrderUp ==
    ASSUME NEW a \in Nat, NEW b \in Nat, NEW c \in Nat, a <= b, b <= c
    PROVE  a <= c
BY SMT

\* Of two positions one is not beyond the other, and both only if they are equal.
LEMMA OrderTotal ==
    ASSUME NEW a \in Nat, NEW b \in Nat
    PROVE  /\ ~(a > b) => a <= b
           /\ ~(a < b) => b <= a
           /\ a <= b /\ b <= a => a = b
BY SMT

\* The end of a log that is complete or has one entry more.
LEMMA OrderNext ==
    ASSUME NEW a \in Nat, NEW b \in Nat, NEW c \in {b, b + 1}, a <= b
    PROVE  a <= c
BY SMT

-----------------------------------------------------------------------------
(* Nodes and sequences.                                                    *)

\* There are two nodes, each the other's peer.
LEMMA Pair ==
    ASSUME NEW n \in Node
    PROVE  /\ Peer(n) \in Node
           /\ Peer(n) # n
           /\ Peer(Peer(n)) = n
           /\ \A m \in Node : m = n \/ m = Peer(n)
<1>1. PICK m \in Node : Node = {n, m} /\ n # m
  BY PairAssumption
<1>2. \E x \in Node : x # n
  BY <1>1
<1>3. Peer(n) \in Node /\ Peer(n) # n
  BY <1>2 DEF Peer
<1>4. Peer(n) = m
  BY <1>1, <1>3
<1>5. \E x \in Node : x # m
  BY <1>1
<1>6. Peer(m) \in Node /\ Peer(m) # m
  BY <1>5 DEF Peer
<1>7. QED
  BY <1>1, <1>3, <1>4, <1>6

\* Equal SubSeqs are equal entries.
LEMMA SubSeqEntries ==
    ASSUME NEW S, NEW L \in Seq(S), NEW K \in Seq(S), NEW k \in Nat,
           k <= Len(L), k <= Len(K)
    PROVE  SubSeq(L, 1, k) = SubSeq(K, 1, k) <=> \A i \in 1..k : L[i] = K[i]
<1>1. \A i \in 1..k : SubSeq(L, 1, k)[i] = L[i] /\ SubSeq(K, 1, k)[i] = K[i]
  BY SMT
<1>2. ASSUME \A i \in 1..k : L[i] = K[i] PROVE SubSeq(L, 1, k) = SubSeq(K, 1, k)
  <2>1. SubSeq(L, 1, k) = [i \in 1..k |-> L[i]] /\ SubSeq(K, 1, k) = [i \in 1..k |-> K[i]]
    BY SMT
  <2>2. QED
    BY <1>2, <2>1
<1>3. QED
  BY <1>1, <1>2

\* A prefix of a log is a log.
LEMMA CutLog ==
    ASSUME NEW S, NEW L \in Seq(S), NEW k \in 0..Len(L)
    PROVE  /\ SubSeq(L, 1, k) \in Seq(S)
           /\ Len(SubSeq(L, 1, k)) = k
           /\ Prefix(SubSeq(L, 1, k), L)
BY SMT DEF Prefix

\* Prefixes compose, and agree with whatever the whole agrees with.
LEMMA PrefixFacts ==
    ASSUME NEW S, NEW L \in Seq(S), NEW K \in Seq(S), NEW J \in Seq(S)
    PROVE  /\ Prefix(L, L) /\ Comparable(L, L)
           /\ Prefix(L, K) /\ Prefix(K, J) => Prefix(L, J)
           /\ Prefix(L, K) => Comparable(L, K) /\ Comparable(K, L)
           /\ Prefix(L, K) /\ Comparable(K, J) => Comparable(L, J)
           /\ Comparable(L, K) => Comparable(K, L)
           /\ Comparable(L, K) /\ Len(L) <= Len(K) => Prefix(L, K)
           /\ Prefix(L, J) /\ Prefix(K, J) => Comparable(L, K)
<1>1. Len(L) \in Nat /\ Len(K) \in Nat /\ Len(J) \in Nat
  BY SMT
<1>2. QED
  BY <1>1, SMT DEF Prefix, Comparable

\* The same of logs, one fact each.
LEMMA PrefixRefl ==
    ASSUME NEW L \in Seq(WalEntry)
    PROVE  Prefix(L, L) /\ Comparable(L, L)
BY PrefixFacts

\* A prefix of a prefix is a prefix.
LEMMA PrefixTrans ==
    ASSUME NEW L \in Seq(WalEntry), NEW K \in Seq(WalEntry), NEW J \in Seq(WalEntry),
           Prefix(L, K), Prefix(K, J)
    PROVE  Prefix(L, J)
BY PrefixFacts

\* A log and its prefix do not fork.
LEMMA PrefixComparable ==
    ASSUME NEW L \in Seq(WalEntry), NEW K \in Seq(WalEntry), Prefix(L, K)
    PROVE  Comparable(L, K) /\ Comparable(K, L)
BY PrefixFacts, SMT

\* What does not fork from a log does not fork from its prefix.
LEMMA ComparablePrefix ==
    ASSUME NEW L \in Seq(WalEntry), NEW K \in Seq(WalEntry), NEW J \in Seq(WalEntry),
           Prefix(L, K), Comparable(J, K)
    PROVE  Comparable(J, L)
BY PrefixFacts, SMT

\* The shorter of two logs that do not fork is a prefix.
LEMMA ComparableShorter ==
    ASSUME NEW L \in Seq(WalEntry), NEW K \in Seq(WalEntry), Comparable(L, K),
           Len(L) <= Len(K)
    PROVE  Prefix(L, K)
BY PrefixFacts, SMT

\* Logs with the same beginning agree there.
LEMMA SameEntries ==
    ASSUME NEW L \in Seq(WalEntry), NEW K \in Seq(WalEntry), NEW k \in Nat,
           k <= Len(L), k <= Len(K), SubSeq(L, 1, k) = SubSeq(K, 1, k)
    PROVE  \A i \in 1..k : L[i] = K[i]
BY SubSeqEntries

-----------------------------------------------------------------------------
(* What a handler does to the node it runs on.                             *)

\* Adopting a newer Term touches nothing but Term, role and leader.
LEMMA Adopted ==
    ASSUME NEW d \in DiskType, NEW s \in ReceiverType, NEW M \in MessageType,
           M.term >= s.term
    PROVE  LET e == AdoptOnDisk(d, s, M)
               t == Adopt(s, M)
           IN  /\ e \in DiskType /\ t \in ReceiverType
               /\ e.log = d.log /\ e.synced = d.synced
               /\ e.saved.committed = d.saved.committed
               /\ t.term = M.term
               /\ t.durable = s.durable /\ t.committed = s.committed
<1>1. CASE M.term > s.term
  <2>1. AdoptOnDisk(d, s, M) = [d EXCEPT !.saved.term = M.term, !.saved.role = "standby",
                                         !.saved.leader = M.leader]
    BY <1>1 DEF AdoptOnDisk
  <2>2. Adopt(s, M) = [s EXCEPT !.term = M.term, !.leader = M.leader,
                                !.pending = s.committed]
    BY <1>1 DEF Adopt
  <2>3. M.term \in Nat /\ M.leader \in Node
    BY DEF MessageType
  <2> DEFINE v == [d.saved EXCEPT !.term = M.term, !.role = "standby",
                                  !.leader = M.leader]
  <2>4. /\ AdoptOnDisk(d, s, M) = [d EXCEPT !.saved = v]
        /\ v \in SavedType /\ v.committed = d.saved.committed
    BY <2>1, <2>3 DEF DiskType, SavedType
  <2> HIDE DEF v
  <2>5. /\ AdoptOnDisk(d, s, M) \in DiskType
        /\ AdoptOnDisk(d, s, M).log = d.log
        /\ AdoptOnDisk(d, s, M).synced = d.synced
        /\ AdoptOnDisk(d, s, M).saved.committed = d.saved.committed
    BY <2>3, <2>4 DEF DiskType
  <2>6. QED
    BY <2>2, <2>3, <2>5 DEF ReceiverType
<1>2. CASE ~(M.term > s.term)
  <2>1. AdoptOnDisk(d, s, M) = d /\ Adopt(s, M) = s
    BY <1>2 DEF AdoptOnDisk, Adopt
  <2>2. M.term = s.term
    BY <1>2, SMT DEF MessageType, ReceiverType
  <2>3. QED
    BY <2>1, <2>2
<1>3. QED
  BY <1>1, <1>2

\* Applying what is announced and durable only raises the commit position.
LEMMA Committed ==
    ASSUME NEW d \in DiskType, NEW s \in ReceiverType
    PROVE  LET t == AdvanceCommitted(s, d)
           IN  /\ t \in ReceiverType
               /\ t.term = s.term /\ t.durable = s.durable
               /\ t.committed >= s.committed
<1>1. Target(s) \in Nat
  BY DEF Target, Least, ReceiverType
<1> DEFINE t == AdvanceCommitted(s, d)
           u == [s EXCEPT !.committed = Target(s)]
<1>2. \/ t = s
      \/ Target(s) > s.committed /\ t = u
      \/ Target(s) > s.committed /\ t = [s EXCEPT !.committed = Target(s),
                                           !.applied = Target(s), !.table = Target(s)]
      \/ Target(s) > s.committed /\ t = [s EXCEPT !.committed = Target(s), !.fatal = TRUE]
  BY DEF AdvanceCommitted, Advances
<1>3. s.committed \in Nat
  BY DEF ReceiverType
<1>4. s.committed >= s.committed /\ (Target(s) > s.committed => Target(s) >= s.committed)
  BY <1>1, <1>3, SMT
<1> HIDE DEF t
<1>5. t \in ReceiverType
  BY <1>1, <1>2 DEF ReceiverType
<1>6. t.term = s.term /\ t.durable = s.durable
  BY <1>2 DEF ReceiverType
<1>7. t.committed >= s.committed
  BY <1>2, <1>4 DEF ReceiverType
<1>8. QED
  BY <1>5, <1>6, <1>7 DEF t

\* Receiver.Append writes the sender's log or nothing.
LEMMA Appended ==
    ASSUME NEW d \in DiskType, NEW M \in MessageType, AppendAccepted(d, M)
    PROVE  LET e == AppendLog(d, M)
           IN  /\ e \in DiskType
               /\ e.synced = d.synced /\ e.saved = d.saved
               /\ Prefix(M.log, e.log)
               /\ \/ e.log = d.log
                  \/ e.log = M.log /\ Prefix(d.log, M.log)
<1> DEFINE common == Least(Len(d.log), Len(M.log))
<1>1. d.log \in Seq(WalEntry) /\ M.log \in Seq(WalEntry)
  BY DEF DiskType, MessageType
<1>2. common \in Nat /\ common <= Len(d.log) /\ common <= Len(M.log)
  BY <1>1, SMT DEF Least
<1>3. SubSeq(d.log, 1, common) = SubSeq(M.log, 1, common)
  BY DEF AppendAccepted, Connects
<1> HIDE DEF common
<1>4. \A i \in 1..common : d.log[i] = M.log[i]
  BY <1>1, <1>2, <1>3, SubSeqEntries, SMT
<1>5. CASE Len(M.log) > Len(d.log)
  <2>1. AppendLog(d, M) = [d EXCEPT !.log = M.log]
    BY <1>5 DEF AppendLog
  <2>2. common = Len(d.log)
    BY <1>1, <1>5, SMT DEF common, Least
  <2>3. Prefix(d.log, M.log)
    BY <1>1, <1>4, <1>5, <2>2, SMT DEF Prefix
  <2>4. QED
    BY <1>1, <2>1, <2>3, PrefixFacts DEF DiskType
<1>6. CASE ~(Len(M.log) > Len(d.log))
  <2>1. AppendLog(d, M) = d
    BY <1>6 DEF AppendLog
  <2>2. common = Len(M.log)
    BY <1>1, <1>6, SMT DEF common, Least
  <2>3. Prefix(M.log, d.log)
    BY <1>1, <1>4, <1>6, <2>2, SMT DEF Prefix
  <2>4. QED
    BY <2>1, <2>3
<1>7. QED
  BY <1>5, <1>6

\* What any handler may have done when it ends: the log is as before or, for an
\* Append that is accepted, the sender's; positions only rise; an answer without
\* error comes from a Standby in the sender's Term.
Outcome(n, M, h) ==
    /\ h.disk \in DiskType /\ h.rcv \in ReceiverType
    /\ \/ h.disk = disk[n] /\ h.rcv = rcv[n] /\ ~h.ok
       \/ /\ Follows(n) /\ M.term >= rcv[n].term
          /\ h.rcv.term = M.term
          /\ h.disk.saved.committed = disk[n].saved.committed
          /\ h.rcv.committed >= rcv[n].committed
          /\ \/ h.disk.log = disk[n].log
             \/ h.disk.log = M.log /\ Prefix(disk[n].log, M.log)
          /\ h.ok /\ M.kind = "append" => Prefix(M.log, h.disk.log)
          /\ h.ok /\ M.kind = "barrier" => M.through <= Len(h.disk.log)
          /\ \/ h.disk.synced = disk[n].synced /\ h.rcv.durable = rcv[n].durable
             \/ h.disk.synced = Len(h.disk.log) /\ h.rcv.durable = Len(h.disk.log)

\* Every handler has such an outcome.
LEMMA HandledOutcome ==
    ASSUME Types, NEW n \in Node, NEW M \in MessageType
    PROVE  Outcome(n, M, Handled(n, M))
<1> DEFINE h == Handled(n, M)
           d == AdoptOnDisk(disk[n], rcv[n], M)
           s == Adopt(rcv[n], M)
<1>1. disk[n] \in DiskType /\ rcv[n] \in ReceiverType
  BY DEF Types
<1>2. CASE proc[n].role # "standby" \/ Refuses(rcv[n], M)
  <2>1. h = Refused(n)
    BY <1>2 DEF Handled
  <2>2. QED
    BY <1>1, <2>1, SMT DEF Refused, Outcome
<1>3. CASE proc[n].role = "standby" /\ ~Refuses(rcv[n], M)
  <2>1. Follows(n) /\ M.term >= rcv[n].term
    BY <1>1, <1>3, SMT DEF Follows, Refuses, MessageType, ReceiverType
  <2>2. /\ d \in DiskType /\ s \in ReceiverType
        /\ d.log = disk[n].log /\ d.synced = disk[n].synced
        /\ d.saved.committed = disk[n].saved.committed
        /\ s.term = M.term
        /\ s.durable = rcv[n].durable /\ s.committed = rcv[n].committed
    BY <1>1, <2>1, Adopted
  <2> HIDE DEF d, s
  <2>3. CASE M.kind = "append"
    <3>1. CASE AppendAccepted(d, M)
      <4>1. h = [disk |-> AppendLog(d, M), rcv |-> s, ok |-> TRUE]
        BY <1>3, <2>3, <3>1 DEF Handled, d, s
      <4>2. QED
        BY <2>1, <2>2, <2>3, <3>1, <4>1, Appended, SMT DEF Outcome, ReceiverType
    <3>2. CASE ~AppendAccepted(d, M)
      <4>1. h = [disk |-> d, rcv |-> s, ok |-> FALSE]
        BY <1>3, <2>3, <3>2 DEF Handled, d, s
      <4>2. QED
        BY <2>1, <2>2, <4>1, SMT DEF Outcome, ReceiverType
    <3>3. QED
      BY <3>1, <3>2
  <2>4. CASE M.kind = "barrier"
    <3> DEFINE t == [s EXCEPT !.durable = Len(d.log)]
    <3>1. Len(d.log) \in Nat
      BY <2>2, SMT DEF DiskType
    <3>2. CASE BarrierAccepted(d, M.through)
      <4>1. h = [disk |-> BarrierDisk(s, d, M.through),
                 rcv |-> BarrierState(s, d, M.through),
                 ok |-> BarrierAnswers(s, d, M.through)]
        BY <1>3, <2>4, <3>2 DEF Handled, d, s
      <4>2. CASE NeedsSync(s, M.through)
        <5>1. t \in ReceiverType /\ t.term = s.term /\ t.durable = Len(d.log)
              /\ t.committed = s.committed
          BY <2>2, <3>1 DEF ReceiverType
        <5>2. /\ AdvanceCommitted(t, d) \in ReceiverType
              /\ AdvanceCommitted(t, d).term = t.term
              /\ AdvanceCommitted(t, d).durable = t.durable
              /\ AdvanceCommitted(t, d).committed >= t.committed
          BY <2>2, <5>1, Committed
        <5>3. h.disk = [d EXCEPT !.synced = Len(d.log)] /\ h.rcv = AdvanceCommitted(t, d)
          BY <4>1, <4>2, SMT DEF BarrierDisk, BarrierState
        <5> HIDE DEF t
        <5>4. QED
          BY <2>1, <2>2, <2>4, <3>1, <3>2, <5>1, <5>2, <5>3, SMT
             DEF Outcome, BarrierAccepted, DiskType
      <4>3. CASE ~NeedsSync(s, M.through)
        <5>1. h.disk = d /\ h.rcv = s
          BY <4>1, <4>3, SMT DEF BarrierDisk, BarrierState
        <5>2. QED
          BY <2>1, <2>2, <2>4, <3>2, <5>1, SMT DEF Outcome, BarrierAccepted, ReceiverType
      <4>4. QED
        BY <4>2, <4>3
    <3>3. CASE ~BarrierAccepted(d, M.through)
      <4>1. h = [disk |-> d, rcv |-> s, ok |-> FALSE]
        BY <1>3, <2>4, <3>3 DEF Handled, d, s
      <4>2. QED
        BY <2>1, <2>2, <4>1, SMT DEF Outcome, ReceiverType
    <3>4. QED
      BY <3>2, <3>3
  <2>5. CASE M.kind = "advance"
    <3> DEFINE t == Announce(s, M.through)
    <3>1. t \in ReceiverType /\ t.term = s.term /\ t.durable = s.durable
          /\ t.committed = s.committed
      BY <2>2 DEF Announce, ReceiverType, MessageType
    <3>2. h = [disk |-> d, rcv |-> AdvanceCommitted(t, d),
               ok |-> AdvanceAnswers(s, d, M.through)]
      BY <1>3, <2>5 DEF Handled, d, s, AdvanceState
    <3> HIDE DEF t
    <3>3. /\ AdvanceCommitted(t, d) \in ReceiverType
          /\ AdvanceCommitted(t, d).term = t.term
          /\ AdvanceCommitted(t, d).durable = t.durable
          /\ AdvanceCommitted(t, d).committed >= t.committed
      BY <2>2, <3>1, Committed
    <3>4. h.disk = d /\ h.rcv = AdvanceCommitted(t, d)
      BY <3>2, SMT
    <3> HIDE DEF h
    <3>5. h.rcv.committed >= rcv[n].committed
      BY <2>2, <3>1, <3>3, <3>4
    <3>6. /\ h.disk \in DiskType /\ h.rcv \in ReceiverType
          /\ h.rcv.term = M.term /\ h.disk.log = disk[n].log
          /\ h.disk.saved.committed = disk[n].saved.committed
          /\ h.disk.synced = disk[n].synced /\ h.rcv.durable = rcv[n].durable
          /\ M.kind # "append" /\ M.kind # "barrier"
      BY <2>2, <2>5, <3>1, <3>3, <3>4
    <3>7. QED
      BY <2>1, <3>5, <3>6 DEF Outcome, h
  <2>6. QED
    BY <2>3, <2>4, <2>5 DEF MessageType
<1>4. QED
  BY <1>2, <1>3

-----------------------------------------------------------------------------
(* How the logs around change, and what that leaves true.                  *)

\* A message its leader has just sent.
Sent(M) ==
    /\ Active(M.leader)
    /\ M.term = proc[M.leader].term
    /\ Prefix(M.log, disk[M.leader].log)
    /\ Vouches(disk[M.leader], Len(M.log))

\* Node n has just handled an Append that extends its log.
Received(n) ==
    \E M \in MessageType :
        /\ M.to = n /\ M.leader = Peer(n)
        /\ M \in late \/ Sent(M)
        /\ M.term >= Floor(n)
        /\ Prefix(disk[n].log, M.log)
        /\ disk'[n].log = M.log

\* What most steps do to a node at most: nothing on its disk moves back.
Steady(n) ==
    /\ disk'[n].log = disk[n].log \/ Received(n)
    /\ disk'[n].synced >= disk[n].synced
    /\ disk'[n].saved.committed >= disk[n].saved.committed
    /\ Follows(n)' => \/ Follows(n) /\ rcv'[n].durable >= rcv[n].durable
                      \/ rcv'[n].durable = Len(disk'[n].log)
    /\ Floor(n)' >= Floor(n)

\* Every log, and every log on its way, is part of one that was there before.
NoNewLogs == \A L \in Logs' : \E K \in Logs : Prefix(L, K)

\* The fields of the state the proofs calculate with.
LEMMA Fields ==
    ASSUME Types, NEW n \in Node
    PROVE  /\ disk[n] \in DiskType /\ rcv[n] \in ReceiverType /\ proc[n] \in ProcessType
           /\ disk[n].log \in Seq(WalEntry) /\ Len(disk[n].log) \in Nat
           /\ disk[n].synced \in Nat /\ disk[n].saved.committed \in Nat
           /\ rcv[n].term \in Nat /\ rcv[n].durable \in Nat /\ rcv[n].committed \in Nat
           /\ proc[n].term \in Nat /\ proc[n].applied \in Nat /\ proc[n].sent \in Nat
           /\ lease.term \in Nat /\ Len(public) \in Nat /\ Floor(n) \in Nat
<1>1. disk[n] \in DiskType /\ rcv[n] \in ReceiverType /\ proc[n] \in ProcessType
  BY DEF Types
<1>2. /\ disk[n].log \in Seq(WalEntry) /\ disk[n].synced \in Nat
      /\ disk[n].saved \in SavedType
  BY <1>1 DEF DiskType
<1>3. disk[n].saved.committed \in Nat /\ Len(disk[n].log) \in Nat
  BY <1>2, SMT DEF SavedType
<1>4. rcv[n].term \in Nat /\ rcv[n].durable \in Nat /\ rcv[n].committed \in Nat
  BY <1>1 DEF ReceiverType
<1>5. proc[n].term \in Nat /\ proc[n].applied \in Nat /\ proc[n].sent \in Nat
  BY <1>1 DEF ProcessType
<1>6. lease.term \in Nat /\ public \in Seq(Request)
  BY DEF Types
<1>7. QED
  BY <1>1, <1>2, <1>3, <1>4, <1>5, <1>6, SMT DEF Floor

\* The same of the next state.
LEMMA FieldsNext ==
    ASSUME Types', NEW n \in Node
    PROVE  /\ disk'[n] \in DiskType /\ rcv'[n] \in ReceiverType /\ proc'[n] \in ProcessType
           /\ disk'[n].log \in Seq(WalEntry) /\ Len(disk'[n].log) \in Nat
           /\ disk'[n].synced \in Nat /\ disk'[n].saved.committed \in Nat
           /\ rcv'[n].term \in Nat /\ rcv'[n].durable \in Nat /\ rcv'[n].committed \in Nat
           /\ proc'[n].term \in Nat /\ proc'[n].applied \in Nat /\ proc'[n].sent \in Nat
           /\ lease'.term \in Nat /\ Len(public') \in Nat /\ Floor(n)' \in Nat
<1>1. disk'[n] \in DiskType /\ rcv'[n] \in ReceiverType /\ proc'[n] \in ProcessType
  BY DEF Types
<1>2. /\ disk'[n].log \in Seq(WalEntry) /\ disk'[n].synced \in Nat
      /\ disk'[n].saved \in SavedType
  BY <1>1 DEF DiskType
<1>3. disk'[n].saved.committed \in Nat /\ Len(disk'[n].log) \in Nat
  BY <1>2, SMT DEF SavedType
<1>4. rcv'[n].term \in Nat /\ rcv'[n].durable \in Nat /\ rcv'[n].committed \in Nat
  BY <1>1 DEF ReceiverType
<1>5. proc'[n].term \in Nat /\ proc'[n].applied \in Nat /\ proc'[n].sent \in Nat
  BY <1>1 DEF ProcessType
<1>6. lease'.term \in Nat /\ public' \in Seq(Request)
  BY DEF Types
<1>7. QED
  BY <1>1, <1>2, <1>3, <1>4, <1>5, <1>6, SMT DEF Floor

\* Logs are logs.
LEMMA LogsTyped ==
    ASSUME Types
    PROVE  \A L \in Logs : L \in Seq(WalEntry) /\ Len(L) \in Nat
<1>1. \A n \in Node : disk[n].log \in Seq(WalEntry)
  BY Fields
<1>2. \A M \in late : M.log \in Seq(WalEntry)
  BY DEF Types, MessageType
<1>3. \A L \in Logs : L \in Seq(WalEntry)
  BY <1>1, <1>2 DEF Logs, Live
<1>4. QED
  BY <1>3, SMT

\* The same of the next state.
LEMMA LogsTypedNext ==
    ASSUME Types'
    PROVE  \A L \in Logs' : L \in Seq(WalEntry) /\ Len(L) \in Nat
<1>1. \A n \in Node : disk'[n].log \in Seq(WalEntry)
  BY FieldsNext
<1>2. \A M \in late' : M.log \in Seq(WalEntry)
  BY DEF Types, MessageType
<1>3. \A L \in Logs' : L \in Seq(WalEntry)
  BY <1>1, <1>2 DEF Logs, Live
<1>4. QED
  BY <1>3, SMT

\* No node is behind the last Term granted by more than its own.
LEMMA FloorBound ==
    ASSUME Types, Terms, NEW n \in Node
    PROVE  Floor(n) <= lease.term
<1>1. lease.term <= lease.term
  BY Fields, SMT
<1>2. QED
  BY <1>1 DEF Floor, Terms

\* Steady steps bring no new logs.
LEMMA SteadyLogs ==
    ASSUME Types, Types', \A n \in Node : Steady(n),
           \A M \in late' : M \in late \/ Sent(M)
    PROVE  NoNewLogs
<1> SUFFICES ASSUME NEW L \in Logs'
             PROVE  \E K \in Logs : Prefix(L, K)
  BY DEF NoNewLogs
<1>1. L \in Seq(WalEntry) /\ Prefix(L, L)
  BY LogsTypedNext, PrefixFacts
<1>2. ASSUME NEW M \in MessageType, M \in late, M.to \in Node, M.term >= Floor(M.to)
      PROVE  \E K \in Logs : Prefix(M.log, K)
  <2>1. M.log \in Logs
    BY <1>2 DEF Logs, Live
  <2>2. QED
    BY <2>1, PrefixFacts DEF MessageType
<1>3. ASSUME NEW M \in MessageType, Sent(M)
      PROVE  \E K \in Logs : Prefix(M.log, K)
  BY <1>3 DEF Sent, Logs, MessageType
<1>4. CASE \E n \in Node : L = disk'[n].log
  <2>1. PICK n \in Node : L = disk'[n].log
    BY <1>4
  <2>2. CASE disk'[n].log = disk[n].log
    BY <1>1, <2>1, <2>2 DEF Logs
  <2>3. CASE Received(n)
    <3>1. PICK M \in MessageType : /\ M.to = n /\ (M \in late \/ Sent(M))
                                   /\ M.term >= Floor(n) /\ disk'[n].log = M.log
      BY <2>3 DEF Received
    <3>2. QED
      BY <1>2, <1>3, <2>1, <3>1
  <2>4. QED
    BY <2>2, <2>3 DEF Steady
<1>5. CASE \E M \in Live' : L = M.log
  <2>1. PICK M \in late' : M.term >= Floor(M.to)' /\ L = M.log
    BY <1>5 DEF Live
  <2>2. M \in MessageType /\ M.to \in Node /\ M.term \in Nat
    BY DEF Types, MessageType
  <2>3. M.term >= Floor(M.to)
    BY <2>1, <2>2, Fields, FieldsNext, SMT DEF Steady
  <2>4. QED
    BY <1>2, <1>3, <2>1, <2>2, <2>3
<1>6. QED
  BY <1>4, <1>5 DEF Logs

\* Without new logs what is recorded stays recorded.
LEMMA RecordedKept ==
    ASSUME Types, Types', Recorded, NoNewLogs, public' = public, tried \subseteq tried',
           \A r \in acked' : \/ r \in acked
                             \/ Expected[r] < Len(public) /\ public[Expected[r] + 1] = r
    PROVE  Recorded'
<1>1. \A L \in Logs : L \in Seq(WalEntry) /\ Len(L) \in Nat
  BY LogsTyped
<1>2. \A L \in Logs' : L \in Seq(WalEntry) /\ Len(L) \in Nat
  BY LogsTypedNext
<1>3. Len(public) \in Nat
  BY SMT DEF Types
<1>4. ASSUME NEW L \in Logs'
      PROVE  /\ Len(L) <= Len(public) + 1
             /\ \A i \in 1..Len(L) : /\ L[i].val \in tried'
                                     /\ Expected[L[i].val] = i - 1
                                     /\ i <= Len(public) => L[i].val = public[i]
  <2>1. PICK K \in Logs : Prefix(L, K)
    BY DEF NoNewLogs
  <2>2. Len(L) <= Len(K) /\ \A i \in 1..Len(L) : L[i] = K[i]
    BY <2>1 DEF Prefix
  <2>3. /\ Len(K) <= Len(public) + 1
        /\ \A i \in 1..Len(K) : /\ K[i].val \in tried
                                /\ Expected[K[i].val] = i - 1
                                /\ i <= Len(public) => K[i].val = public[i]
    BY DEF Recorded
  <2>4. \A i \in 1..Len(L) : i \in 1..Len(K)
    BY <1>1, <1>2, <2>2, SMT
  <2>5. Len(L) <= Len(public) + 1
    BY <1>1, <1>2, <1>3, <2>2, <2>3, SMT
  <2>6. QED
    BY <2>2, <2>3, <2>4, <2>5
<1>5. ASSUME NEW L \in Logs', NEW K \in Logs', NEW i \in 1..Len(public),
             i <= Len(L), i <= Len(K)
      PROVE  L[i] = K[i]
  <2>1. PICK A \in Logs : Prefix(L, A)
    BY DEF NoNewLogs
  <2>2. PICK B \in Logs : Prefix(K, B)
    BY DEF NoNewLogs
  <2>3. i <= Len(A) /\ i <= Len(B) /\ L[i] = A[i] /\ K[i] = B[i]
    BY <1>1, <1>2, <1>3, <1>5, <2>1, <2>2, SMT DEF Prefix
  <2>4. A[i] = B[i]
    BY <2>3 DEF Recorded
  <2>5. QED
    BY <2>3, <2>4
<1>6. \A r \in acked' : Expected[r] < Len(public) /\ public[Expected[r] + 1] = r
  BY DEF Recorded
<1>7. QED
  BY <1>4, <1>5, <1>6, SMT DEF Recorded

\* Without new logs no two logs come to disagree.
LEMMA ComparableKept ==
    ASSUME Types, Types', NoNewLogs, \A L, K \in Logs : Comparable(L, K)
    PROVE  (\A L, K \in Logs : Comparable(L, K))'
<1> SUFFICES ASSUME NEW L \in Logs', NEW K \in Logs'
             PROVE  Comparable(L, K)
  BY DEF Comparable
<1>1. PICK A \in Logs : Prefix(L, A)
  BY DEF NoNewLogs
<1>2. PICK B \in Logs : Prefix(K, B)
  BY DEF NoNewLogs
<1>3. /\ L \in Seq(WalEntry) /\ K \in Seq(WalEntry)
      /\ A \in Seq(WalEntry) /\ B \in Seq(WalEntry)
  BY LogsTyped, LogsTypedNext
<1>4. Comparable(A, B)
  OBVIOUS
<1>5. Comparable(L, B)
  BY <1>1, <1>3, <1>4, PrefixFacts
<1>6. Comparable(K, L)
  BY <1>2, <1>3, <1>5, PrefixFacts
<1>7. QED
  BY <1>3, <1>6, PrefixFacts

\* Terms stay in order when nobody new leads and every message is old or its
\* leader's.
LEMMA TermsKept ==
    ASSUME Types, Types', Terms, lease'.term >= lease.term,
           \A n \in Node : /\ proc'[n].term <= lease'.term
                           /\ Follows(n)' => rcv'[n].term <= lease'.term,
           \A n \in Node : Leads(n)' => /\ Leads(n)
                                        /\ proc'[n].term = proc[n].term
                                        /\ Prefix(disk[n].log, disk'[n].log),
           \A n \in Node : Active(n)' => Active(n) \/ ~Leads(Peer(n))',
           \A M \in late' : M \in late \/ Sent(M)
    PROVE  Terms'
<1>1. \A M \in late' : /\ M \in MessageType /\ M.to \in Node /\ M.leader \in Node
                       /\ M.leader = Peer(M.to) /\ M.term \in Nat
                       /\ M.log \in Seq(WalEntry)
  BY DEF Types, MessageType
<1>2. \A M \in late' : /\ M.to # M.leader /\ Peer(M.leader) = M.to
  BY <1>1, Pair
<1>3. ASSUME NEW M \in late' PROVE M.term <= lease'.term
  <2>1. M.term <= lease.term
    BY <1>1 DEF Terms, Sent
  <2>2. QED
    BY <1>1, <2>1, Fields, FieldsNext, SMT
<1>4. ASSUME NEW m \in Node, NEW n \in Node, Active(m)', Leads(n)', m # n
      PROVE  proc'[m].term < proc'[n].term
  <2>1. n = Peer(m)
    BY <1>4, Pair
  <2>2. Active(m) /\ Leads(n)
    BY <1>4, <2>1
  <2>3. Leads(m)'
    BY <1>4 DEF Leads, Active
  <2>4. QED
    BY <1>4, <2>2, <2>3 DEF Terms
<1>5. ASSUME NEW M \in late', Leads(M.to)' PROVE M.term < proc'[M.to].term
  <2>1. Leads(M.to) /\ proc'[M.to].term = proc[M.to].term
    BY <1>1, <1>5
  <2>2. QED
    BY <1>1, <1>2, <2>1 DEF Terms, Sent
<1>6. ASSUME NEW M \in late', Leads(M.leader)'
      PROVE  M.term <= proc'[M.leader].term
  <2>1. Leads(M.leader) /\ proc'[M.leader].term = proc[M.leader].term
    BY <1>1, <1>6
  <2>2. CASE M \in late
    BY <2>1, <2>2 DEF Terms
  <2>3. CASE Sent(M)
    BY <1>1, <2>1, <2>3, SMT DEF Sent
  <2>4. QED
    BY <2>2, <2>3
<1>7. ASSUME NEW M \in late', Leads(M.leader)', M.term = proc'[M.leader].term
      PROVE  Prefix(M.log, disk'[M.leader].log)
  <2>1. /\ Leads(M.leader) /\ proc'[M.leader].term = proc[M.leader].term
        /\ Prefix(disk[M.leader].log, disk'[M.leader].log)
    BY <1>1, <1>7
  <2>2. Prefix(M.log, disk[M.leader].log)
    BY <1>7, <2>1 DEF Terms, Sent
  <2>3. QED
    <3>1. disk[M.leader].log \in Seq(WalEntry) /\ disk'[M.leader].log \in Seq(WalEntry)
      BY <1>1, Fields, FieldsNext
    <3>2. QED
      BY <1>1, <2>1, <2>2, <3>1, PrefixTrans
<1>8. QED
  BY <1>3, <1>4, <1>5, <1>6, <1>7 DEF Terms

\* Whoever keeps what readers have seen goes on keeping it.
LEMMA KeepersKept ==
    ASSUME Types, Types', Disks, Keepers, \A n \in Node : Steady(n), env' = env,
           fresh' = fresh, public' = public
    PROVE  Keepers'
<1>1. ASSUME NEW n \in Node
      PROVE  /\ Len(disk'[n].log) >= Len(disk[n].log)
             /\ disk'[n].synced >= disk[n].synced
             /\ Follows(n)' => \/ Follows(n) /\ rcv'[n].durable >= rcv[n].durable
                               \/ rcv'[n].durable >= Len(disk'[n].log)
  <2>1. CASE disk'[n].log = disk[n].log
    BY <2>1, Fields, FieldsNext, SMT DEF Steady
  <2>2. CASE Received(n)
    <3>1. PICK M \in MessageType : Prefix(disk[n].log, M.log) /\ disk'[n].log = M.log
      BY <2>2 DEF Received
    <3>2. Len(disk'[n].log) >= Len(disk[n].log)
      BY <3>1, Fields, FieldsNext DEF Prefix
    <3>3. QED
      BY <3>2, Fields, FieldsNext, SMT DEF Steady
  <2>3. QED
    BY <2>1, <2>2 DEF Steady
<1>2. ASSUME NEW n \in Node, Keeper(n, Len(disk[n].log))
      PROVE  Keeper(n, Len(disk[n].log))'
  <2>1. /\ Len(disk[n].log) \in Nat /\ Len(disk'[n].log) \in Nat /\ Len(public) \in Nat
        /\ rcv[n].durable \in Nat /\ rcv'[n].durable \in Nat
    BY Fields, FieldsNext
  <2>2. Len(disk[n].log) >= Len(public) /\ (Follows(n) => rcv[n].durable >= Len(public))
    BY <1>2 DEF Keeper
  <2>3. Len(disk'[n].log) >= Len(public)
    BY <1>1, <2>1, <2>2, OrderTrans
  <2>4. ASSUME Follows(n)' PROVE rcv'[n].durable >= Len(public)
    <3>1. CASE Follows(n) /\ rcv'[n].durable >= rcv[n].durable
      BY <2>1, <2>2, <3>1, OrderTrans
    <3>2. CASE rcv'[n].durable >= Len(disk'[n].log)
      BY <2>1, <2>3, <3>2, OrderTrans
    <3>3. QED
      BY <1>1, <2>4, <3>1, <3>2
  <2>5. QED
    BY <2>3, <2>4 DEF Keeper
<1>3. ASSUME NEW n \in Node, Keeper(n, disk[n].synced)
      PROVE  Keeper(n, disk[n].synced)'
  <2>1. disk[n].synced <= Len(disk[n].log)
    BY DEF Disks
  <2>2. disk[n].synced >= Len(public) /\ (Follows(n) => rcv[n].durable >= Len(public))
    BY <1>3 DEF Keeper
  <2>3. /\ Len(disk[n].log) \in Nat /\ Len(disk'[n].log) \in Nat /\ Len(public) \in Nat
        /\ disk[n].synced \in Nat /\ disk'[n].synced \in Nat
        /\ rcv[n].durable \in Nat /\ rcv'[n].durable \in Nat
    BY Fields, FieldsNext
  <2>4. disk'[n].synced >= Len(public)
    BY <1>1, <2>2, <2>3, OrderTrans
  <2>5. Len(disk'[n].log) >= Len(public)
    <3>1. Len(disk[n].log) >= disk[n].synced
      BY <2>1, <2>3, OrderFacts
    <3>2. Len(disk[n].log) >= Len(public)
      BY <2>2, <2>3, <3>1, OrderTrans
    <3>3. QED
      BY <1>1, <2>3, <3>2, OrderTrans
  <2>6. ASSUME Follows(n)' PROVE rcv'[n].durable >= Len(public)
    <3>1. CASE Follows(n) /\ rcv'[n].durable >= rcv[n].durable
      BY <2>2, <2>3, <3>1, OrderTrans
    <3>2. CASE rcv'[n].durable >= Len(disk'[n].log)
      BY <2>3, <2>5, <3>2, OrderTrans
    <3>3. QED
      BY <1>1, <2>6, <3>1, <3>2
  <2>7. QED
    BY <2>4, <2>6 DEF Keeper
<1>4. QED
  BY <1>2, <1>3 DEF Keepers

\* The node itself is as before.
Still(m) ==
    /\ proc'[m] = proc[m]
    /\ disk'[m].log = disk[m].log
    /\ disk'[m].synced = disk[m].synced
    /\ disk'[m].saved.committed = disk[m].saved.committed

\* What m has established about the other node's log survives what the other
\* node receives: it was sent by m in m's present Term, or nobody has told the
\* other node of that Term and then it only adds to what is there.
LEMMA OtherLog ==
    ASSUME Types, Types', Terms, NEW m \in Node, Leads(m), Steady(Peer(m)),
           proc'[m].term = proc[m].term, disk'[m].log = disk[m].log
    PROVE  /\ Contacted(m) => Contacted(m)'
           /\ Contacted(m) /\ Comparable(disk[m].log, disk[Peer(m)].log) =>
                 Comparable(disk[m].log, disk[Peer(m)].log)'
           /\ Prefix(disk[m].log, disk[Peer(m)].log) =>
                 Prefix(disk[m].log, disk[Peer(m)].log)'
<1> DEFINE n == Peer(m)
<1>1. n \in Node /\ n # m /\ Peer(n) = m
  BY Pair
<1>2. /\ disk[m].log \in Seq(WalEntry) /\ disk[n].log \in Seq(WalEntry)
      /\ disk'[n].log \in Seq(WalEntry)
  BY <1>1, Fields, FieldsNext
<1>3. Contacted(m) => Contacted(m)'
  BY <1>1, Fields, FieldsNext, SMT DEF Contacted, Steady
<1> HIDE DEF n
<1>4. CASE disk'[n].log = disk[n].log
  BY <1>3, <1>4 DEF n
<1>5. CASE Received(n)
  <2>1. PICK M \in MessageType :
          /\ M.to = n /\ M.leader = Peer(n) /\ (M \in late \/ Sent(M))
          /\ M.term >= Floor(n) /\ Prefix(disk[n].log, M.log) /\ disk'[n].log = M.log
    BY <1>5 DEF Received
  <2>2. M.leader = m /\ M.log \in Seq(WalEntry) /\ M.term \in Nat
    BY <1>1, <2>1 DEF MessageType
  <2>3. Prefix(disk[m].log, disk[n].log) => Prefix(disk[m].log, disk'[n].log)
    BY <1>2, <2>1, <2>2, PrefixTrans
  <2>4. ASSUME Contacted(m) PROVE Prefix(M.log, disk[m].log)
    <3>1. M.term <= proc[m].term
      <4>1. CASE M \in late
        BY <2>2, <4>1 DEF Terms
      <4>2. CASE Sent(M)
        BY <2>2, <4>2, SMT DEF Sent
      <4>3. QED
        BY <2>1, <4>1, <4>2
    <3>2. M.term = proc[m].term
      BY <1>1, <2>1, <2>2, <2>4, <3>1, Fields, SMT DEF Contacted, n
    <3>3. QED
      BY <2>1, <2>2, <3>2 DEF Terms, Sent
  <2>5. Contacted(m) => Comparable(disk[m].log, disk'[n].log)
    BY <1>2, <2>1, <2>2, <2>4, PrefixFacts
  <2>6. QED
    BY <1>3, <2>3, <2>5 DEF n
<1>6. QED
  BY <1>4, <1>5 DEF Steady, n

\* A steady step of the other node leaves it no shorter, and durable as far.
LEMMA OtherCopied ==
    ASSUME Types, Types', NEW m \in Node, Steady(Peer(m)), env' = env, fresh' = fresh,
           disk'[m].log = disk[m].log, Copied(m)
    PROVE  Copied(m)'
<1> DEFINE n == Peer(m)
<1>1. n \in Node
  BY Pair
<1> SUFFICES ASSUME ~env.power, n \notin fresh
             PROVE  /\ Len(disk'[n].log) >= Len(disk[m].log)
                    /\ Follows(n)' => rcv'[n].durable >= Len(disk[m].log)
  BY DEF Copied
<1>2. /\ Len(disk[n].log) >= Len(disk[m].log)
      /\ Follows(n) => rcv[n].durable >= Len(disk[m].log)
  BY DEF Copied
<1> HIDE DEF n
<1>3. Len(disk'[n].log) >= Len(disk[n].log)
  <2>1. CASE disk'[n].log = disk[n].log
    BY <1>1, <2>1, Fields, SMT
  <2>2. CASE Received(n)
    <3>1. PICK M \in MessageType : Prefix(disk[n].log, M.log) /\ disk'[n].log = M.log
      BY <2>2 DEF Received
    <3>2. QED
      BY <1>1, <3>1, Fields, FieldsNext DEF Prefix
  <2>3. QED
    BY <2>1, <2>2 DEF Steady, n
<1>4. Len(disk'[n].log) >= Len(disk[m].log)
  <2>1. Len(disk[m].log) \in Nat /\ Len(disk[n].log) \in Nat /\ Len(disk'[n].log) \in Nat
    BY <1>1, Fields, FieldsNext
  <2>2. QED
    BY <1>2, <1>3, <2>1, OrderTrans
<1>5. ASSUME Follows(n)' PROVE rcv'[n].durable >= Len(disk[m].log)
  <2>1. CASE Follows(n) /\ rcv'[n].durable >= rcv[n].durable
    <3>1. Len(disk[m].log) \in Nat /\ rcv[n].durable \in Nat /\ rcv'[n].durable \in Nat
      BY <1>1, Fields, FieldsNext
    <3>2. QED
      BY <1>2, <2>1, <3>1, OrderTrans
  <2>2. CASE rcv'[n].durable = Len(disk'[n].log)
    BY <1>4, <2>2
  <2>3. QED
    BY <1>5, <2>1, <2>2 DEF Steady, n
<1>6. QED
  BY <1>4, <1>5

\* Nobody comes to be ahead of a node that has matched the logs or serves.
LEMMA OtherBehind ==
    ASSUME Types, Types', Unforked, NEW m \in Node, Steady(Peer(m)), env' = env,
           disk'[m].log = disk[m].log, Ahead(m),
           disk[m].synced <= Len(disk[m].log),
           disk[m].saved.committed <= Len(disk[m].log)
    PROVE  Ahead(m)'
<1> DEFINE n == Peer(m)
<1>1. n \in Node /\ Peer(n) = m
  BY Pair
<1> SUFFICES ASSUME ~env.loss
             PROVE  Len(disk'[n].log) <= Len(disk[m].log)
  BY DEF Ahead
<1> HIDE DEF n
<1>2. CASE disk'[n].log = disk[n].log
  BY <1>2 DEF Ahead, n
<1>3. CASE Received(n)
  <2>1. PICK M \in MessageType : /\ M.leader = Peer(n) /\ (M \in late \/ Sent(M))
                                 /\ disk'[n].log = M.log
    BY <1>3 DEF Received
  <2>2. Vouches(disk[m], Len(M.log))
    BY <1>1, <2>1 DEF Unforked, Sent
  <2>3. /\ Len(disk'[n].log) \in Nat /\ Len(disk[m].log) \in Nat
        /\ disk[m].synced \in Nat /\ disk[m].saved.committed \in Nat
    BY <1>1, Fields, FieldsNext
  <2>4. Len(disk'[n].log) <= disk[m].synced \/ Len(disk'[n].log) <= disk[m].saved.committed
    BY <2>1, <2>2 DEF Vouches
  <2>5. QED
    BY <2>3, <2>4, OrderUp
<1>4. QED
  BY <1>2, <1>3 DEF Steady, n

\* A node that does nothing keeps its facts while the other makes a steady step.
LEMMA StillLeader ==
    ASSUME Types, Types', Terms, Disks, Leaders, Unforked, NEW m \in Node, Still(m),
           Steady(Peer(m)), env' = env, fresh' = fresh, public' = public
    PROVE  Leader(m)' /\ (Serving(m)' => Server(m)')
<1>1. Leader(m) /\ (Serving(m) => Server(m))
  BY DEF Leaders
<1>2. disk[m].synced <= Len(disk[m].log)
  BY DEF Disks
<1>3. Peer(m) \in Node /\ Peer(m) # m
  BY Pair
<1>4. ASSUME Matched(m) \/ Serving(m)
      PROVE  /\ Contacted(m) => Contacted(m)'
             /\ Contacted(m) /\ Comparable(disk[m].log, disk[Peer(m)].log) =>
                   Comparable(disk[m].log, disk[Peer(m)].log)'
             /\ Prefix(disk[m].log, disk[Peer(m)].log) =>
                   Prefix(disk[m].log, disk[Peer(m)].log)'
             /\ Copied(m) => Copied(m)'
             /\ Ahead(m)'
  <2>1. Leads(m)
    BY <1>4 DEF Matched, Serving, Leads
  <2>2. disk[m].saved.committed <= Len(disk[m].log)
    <3>1. /\ disk[m].saved.committed \in Nat /\ Len(disk[m].log) \in Nat
          /\ proc[m].applied \in Nat
      BY Fields
    <3>2. CASE Matched(m)
      <4>1. Len(disk[m].log) = disk[m].saved.committed
        BY <1>1, <3>2 DEF Leader
      <4>2. QED
        BY <3>1, <4>1, OrderFacts
    <3>3. CASE Serving(m)
      <4>1. /\ disk[m].saved.committed <= proc[m].applied
            /\ Len(disk[m].log) \in {proc[m].applied, proc[m].applied + 1}
        BY <1>1, <3>3 DEF Server
      <4>2. QED
        BY <3>1, <4>1, OrderNext
    <3>4. QED
      BY <1>4, <3>2, <3>3
  <2>3. Ahead(m)
    BY <1>1, <1>4 DEF Leader, Server
  <2>4. QED
    BY <1>2, <2>1, <2>2, <2>3, OtherLog, OtherCopied, OtherBehind DEF Still
<1>5. ASSUME Matched(m)
      PROVE  /\ Comparable(disk[m].log, disk[Peer(m)].log)'
             /\ Contacted(m)' \/ Prefix(disk[m].log, disk[Peer(m)].log)'
             /\ Copied(m)' /\ Ahead(m)'
  <2>1. /\ Comparable(disk[m].log, disk[Peer(m)].log)
        /\ Contacted(m) \/ Prefix(disk[m].log, disk[Peer(m)].log)
        /\ Copied(m)
    BY <1>1, <1>5 DEF Leader
  <2>2. Prefix(disk[m].log, disk[Peer(m)].log)' =>
           Comparable(disk[m].log, disk[Peer(m)].log)'
    <3>1. disk'[m].log \in Seq(WalEntry) /\ disk'[Peer(m)].log \in Seq(WalEntry)
      BY <1>3, FieldsNext
    <3>2. QED
      BY <3>1, PrefixComparable
  <2>3. QED
    BY <1>4, <1>5, <2>1, <2>2
<1>6. Leader(m)'
  <2>1. ChunkEnd(m)' = ChunkEnd(m)
    BY DEF ChunkEnd, Still
  <2>2. Matched(m)' => Matched(m)
    BY DEF Matched, Still
  <2>3. proc[m].role = "ready" => (Contacted(m)' \/ Len(disk[m].log) = 0)
    BY <1>1, <1>4 DEF Leader, Matched
  <2>4. QED
    BY <1>1, <1>5, <2>1, <2>2, <2>3 DEF Leader, Still
<1>7. ASSUME Serving(m)' PROVE Server(m)'
  <2>1. Serving(m) /\ Server(m)
    BY <1>1, <1>7 DEF Serving, Still
  <2>2. QED
    BY <1>4, <2>1 DEF Server, Still
<1>8. QED
  BY <1>6, <1>7

-----------------------------------------------------------------------------
(* Steps in which nothing on a disk moves back and readers see nothing new. *)

\* What the clients and the environment notice of such a step.
Calm ==
    /\ env' = env /\ fresh' = fresh /\ public' = public /\ tried \subseteq tried'
    /\ \A r \in acked' : \/ r \in acked
                         \/ Expected[r] < Len(public) /\ public[Expected[r] + 1] = r
    /\ lease'.term >= lease.term
    /\ \A M \in late' : M \in late \/ Sent(M)

\* The logs stay without a fork.
LEMMA UnforkedKept ==
    ASSUME Types, Types', Unforked, NoNewLogs, \A n \in Node : Steady(n), env' = env,
           \A M \in late' : M \in late \/ Sent(M)
    PROVE  Unforked'
<1> SUFFICES ASSUME ~env.loss
             PROVE  /\ (\A L, K \in Logs : Comparable(L, K))'
                    /\ \A M \in late' : Vouches(disk'[M.leader], Len(M.log))
                    /\ \A n \in Node : Follows(n)' =>
                          \/ Len(disk'[n].log) <= rcv'[n].durable
                          \/ Vouches(disk'[Peer(n)], Len(disk'[n].log))
  BY DEF Unforked
<1>1. (\A L, K \in Logs : Comparable(L, K))'
  BY ComparableKept DEF Unforked
<1>2. ASSUME NEW n \in Node, NEW k \in Nat, Vouches(disk[n], k)
      PROVE  Vouches(disk'[n], k)
  <2>1. /\ disk[n].synced \in Nat /\ disk'[n].synced \in Nat
        /\ disk[n].saved.committed \in Nat /\ disk'[n].saved.committed \in Nat
    BY Fields, FieldsNext
  <2>2. /\ disk[n].synced <= disk'[n].synced
        /\ disk[n].saved.committed <= disk'[n].saved.committed
    BY <2>1, OrderFacts DEF Steady
  <2>3. CASE k <= disk[n].synced
    BY <2>1, <2>2, <2>3, OrderUp DEF Vouches
  <2>4. CASE k <= disk[n].saved.committed
    BY <2>1, <2>2, <2>4, OrderUp DEF Vouches
  <2>5. QED
    BY <1>2, <2>3, <2>4 DEF Vouches
<1>3. ASSUME NEW M \in late' PROVE Vouches(disk'[M.leader], Len(M.log))
  <2>1. M.leader \in Node /\ Len(M.log) \in Nat
    BY SMT DEF Types, MessageType
  <2>2. QED
    BY <1>2, <2>1 DEF Unforked, Sent
<1>4. ASSUME NEW n \in Node, Follows(n)'
      PROVE  \/ Len(disk'[n].log) <= rcv'[n].durable
             \/ Vouches(disk'[Peer(n)], Len(disk'[n].log))
  <2>1. Peer(n) \in Node /\ Len(disk'[n].log) \in Nat
    BY Pair, FieldsNext
  <2>2. CASE rcv'[n].durable = Len(disk'[n].log)
    BY <2>1, <2>2, SMT
  <2>3. CASE Received(n)
    <3>1. PICK M \in MessageType : /\ M.leader = Peer(n) /\ (M \in late \/ Sent(M))
                                   /\ disk'[n].log = M.log
      BY <2>3 DEF Received
    <3>2. QED
      BY <1>2, <2>1, <3>1 DEF Unforked, Sent
  <2>4. CASE /\ disk'[n].log = disk[n].log
             /\ Follows(n) /\ rcv'[n].durable >= rcv[n].durable
    <3>1. CASE Len(disk[n].log) <= rcv[n].durable
      BY <2>4, <3>1, Fields, FieldsNext, SMT
    <3>2. CASE Vouches(disk[Peer(n)], Len(disk[n].log))
      BY <1>2, <2>1, <2>4, <3>2
    <3>3. QED
      BY <2>4, <3>1, <3>2 DEF Unforked
  <2>5. QED
    BY <1>4, <2>2, <2>3, <2>4 DEF Steady
<1>5. QED
  BY <1>1, <1>3, <1>4

\* A calm step of steady nodes keeps the invariant, if it keeps the order of
\* Terms, what receivers claim, and the facts about the node that acts.
LEMMA SteadyStep ==
    ASSUME StrictInv, Types', Terms', Disks', Calm, \A n \in Node : Steady(n),
           \A m \in Node : Still(m) \/ (Leader(m)' /\ (Serving(m)' => Server(m)'))
    PROVE  StrictInv'
<1>1. Types /\ Terms /\ Disks /\ Leaders /\ Keepers /\ Recorded /\ Unforked
  BY DEF StrictInv
<1>2. /\ env' = env /\ fresh' = fresh /\ public' = public
      /\ \A M \in late' : M \in late \/ Sent(M)
  BY DEF Calm
<1>3. NoNewLogs
  BY <1>1, <1>2, SteadyLogs
<1>4. Recorded'
  BY <1>1, <1>3, RecordedKept DEF Calm
<1>5. Keepers'
  BY <1>1, <1>2, KeepersKept
<1>6. Unforked'
  BY <1>1, <1>2, <1>3, UnforkedKept
<1>7. ASSUME NEW m \in Node
      PROVE  Leader(m)' /\ (Serving(m)' => Server(m)')
  <2>1. Steady(Peer(m))
    BY Pair
  <2>2. QED
    BY <1>1, <1>2, <2>1, StillLeader
<1>8. Leaders'
  BY <1>7 DEF Leaders
<1>9. QED
  BY <1>4, <1>5, <1>6, <1>8 DEF StrictInv

\* A node stays above the Terms it has refused.
LEMMA FloorUp ==
    ASSUME Types, Types', Terms, lease'.term >= lease.term, NEW n \in Node,
           \/ /\ proc'[n].role = proc[n].role /\ proc'[n].term = proc[n].term
              /\ rcv'[n].term >= rcv[n].term
           \/ ~Follows(n)' /\ proc'[n].role # "opening"
           \/ Follows(n)' /\ rcv'[n].term >= Floor(n)
           \/ proc'[n].role = "opening" /\ proc'[n].term >= Floor(n)
    PROVE  Floor(n)' >= Floor(n)
<1>1. Floor(n) <= lease.term
  BY FloorBound
<1>2. /\ lease.term \in Nat /\ lease'.term \in Nat /\ Floor(n) \in Nat
      /\ proc[n].term \in Nat /\ rcv[n].term \in Nat /\ rcv'[n].term \in Nat
  BY Fields, FieldsNext
<1>3. CASE /\ proc'[n].role = proc[n].role /\ proc'[n].term = proc[n].term
           /\ rcv'[n].term >= rcv[n].term
  BY <1>1, <1>2, <1>3, SMT DEF Floor, Follows
<1>4. CASE ~Follows(n)' /\ proc'[n].role # "opening"
  <2>1. Floor(n)' = lease'.term
    BY <1>4 DEF Floor
  <2>2. QED
    BY <1>1, <1>2, <2>1, SMT
<1>5. CASE Follows(n)' /\ rcv'[n].term >= Floor(n)
  BY <1>5 DEF Floor
<1>6. CASE proc'[n].role = "opening" /\ proc'[n].term >= Floor(n)
  BY <1>6 DEF Floor, Follows
<1>7. QED
  BY <1>3, <1>4, <1>5, <1>6

\* A node nothing happens to is steady and still.
LEMMA Untouched ==
    ASSUME Types, Types', Terms, lease'.term >= lease.term, NEW n \in Node,
           disk'[n] = disk[n], rcv'[n] = rcv[n], proc'[n] = proc[n]
    PROVE  Steady(n) /\ Still(n)
<1>1. rcv[n].term >= rcv[n].term /\ rcv[n].durable >= rcv[n].durable
      /\ disk[n].synced >= disk[n].synced
      /\ disk[n].saved.committed >= disk[n].saved.committed
  BY Fields, OrderFacts
<1>2. Floor(n)' >= Floor(n)
  BY <1>1, FloorUp
<1>3. Follows(n)' => Follows(n)
  BY DEF Follows
<1>4. QED
  BY <1>1, <1>2, <1>3 DEF Steady, Still

\* The step of one node that writes no entry and sends nothing.
LEMMA OneNodeStep ==
    ASSUME StrictInv, Types', Terms', Calm, NEW n \in Node,
           \A x \in Node : x # n =>
               disk'[x] = disk[x] /\ rcv'[x] = rcv[x] /\ proc'[x] = proc[x],
           disk'[n].log = disk[n].log,
           disk'[n].synced >= disk[n].synced, disk'[n].synced <= Len(disk[n].log),
           disk'[n].saved.committed >= disk[n].saved.committed,
           Follows(n)' =>
               /\ \/ Follows(n) /\ rcv'[n].durable >= rcv[n].durable
                  \/ rcv'[n].durable = Len(disk[n].log)
               /\ rcv'[n].durable <= Len(disk[n].log)
               /\ disk'[n].saved.committed <= rcv'[n].committed,
           Floor(n)' >= Floor(n),
           Still(n) \/ (Leader(n)' /\ (Serving(n)' => Server(n)'))
    PROVE  StrictInv'
<1>1. Types /\ Terms /\ Disks
  BY DEF StrictInv
<1>2. ASSUME NEW x \in Node, x # n PROVE Steady(x) /\ Still(x)
  BY <1>1, <1>2, Untouched DEF Calm
<1>3. Steady(n)
  BY DEF Steady
<1>4. Disks'
  <2>1. ASSUME NEW x \in Node, x # n
        PROVE  /\ disk'[x].synced <= Len(disk'[x].log)
               /\ Follows(x)' => /\ rcv'[x].durable <= Len(disk'[x].log)
                                 /\ disk'[x].saved.committed <= rcv'[x].committed
    BY <1>1, <2>1 DEF Disks, Follows
  <2>2. QED
    BY <2>1 DEF Disks
<1>5. QED
  BY <1>2, <1>3, <1>4, SteadyStep

-----------------------------------------------------------------------------
(* Processes and leases.                                                   *)

\* No process.
LEMMA DownFacts ==
    /\ Down \in ProcessType
    /\ Down.role = "down" /\ Down.term = 0
    /\ NoReceiver \in ReceiverType /\ NoReceiver.term = 0
    /\ EmptyDisk \in DiskType
    /\ EmptyDisk.log = <<>> /\ Len(<<>>) = 0 /\ EmptyDisk.synced = 0
    /\ EmptyDisk.saved.committed = 0
<1>1. Down \in ProcessType /\ Down.role = "down" /\ Down.term = 0
  BY DEF Down, ProcessType
<1>2. /\ EmptyDisk \in DiskType
      /\ EmptyDisk.log = <<>> /\ Len(<<>>) = 0 /\ EmptyDisk.synced = 0
      /\ EmptyDisk.saved.committed = 0 /\ EmptyDisk.flushed = 0
  BY SMT DEF EmptyDisk, DiskType, SavedType
<1>3. Replayed(EmptyDisk) = 0
  BY <1>2 DEF Replayed
<1>4. NoReceiver \in ReceiverType /\ NoReceiver.term = 0
  BY <1>2, <1>3, SMT DEF NoReceiver, Opened, ReceiverType
<1>5. QED
  BY <1>1, <1>2, <1>4

\* A process in none of a leader's later roles has nothing to show.
LEMMA IdleLeader ==
    ASSUME NEW n \in Node,
           proc'[n].role \in {"down", "granted", "opening", "standby", "blocked", "refused"}
    PROVE  Leader(n)' /\ ~Serving(n)' /\ ~Active(n)'
BY DEF Leader, Serving, Active, Matched

\* The next process of a node, as a function of the old one.
LEMMA NextProc ==
    ASSUME Types, NEW n \in Node, NEW p \in ProcessType,
           proc' = [proc EXCEPT ![n] = p]
    PROVE  /\ proc' \in [Node -> ProcessType]
           /\ proc'[n] = p
           /\ \A x \in Node : x # n => proc'[x] = proc[x]
BY DEF Types

\* A role is changed and nothing else.
LEMMA NextRole ==
    ASSUME Types, NEW n \in Node, NEW role, role \in {"down", "granted", "opening", "standby",
             "plan", "append", "barrier", "advance", "ready", "serving", "blocked", "refused"},
           proc[n].role # "serving", Goto(n, role)
    PROVE  /\ proc' \in [Node -> ProcessType]
           /\ proc'[n] = [proc[n] EXCEPT !.role = role]
           /\ proc'[n].role = role
           /\ proc'[n].term = proc[n].term
           /\ \A x \in Node : x # n => proc'[x] = proc[x]
<1>1. proc[n] \in ProcessType /\ proc \in [Node -> ProcessType]
  BY DEF Types
<1>2. proc' = [proc EXCEPT ![n] = [proc[n] EXCEPT !.role = role]]
  BY <1>1 DEF Goto
<1>3. /\ [proc[n] EXCEPT !.role = role] \in ProcessType
      /\ [proc[n] EXCEPT !.role = role].role = role
      /\ [proc[n] EXCEPT !.role = role].term = proc[n].term
  BY <1>1 DEF ProcessType
<1>4. QED
  BY <1>2, <1>3, NextProc

\* When nothing is acknowledged, tried, shown, sent or lost a step is calm.
LEMMA CalmFrame ==
    ASSUME Types, UNCHANGED <<env, late, fresh, clientVars>>, lease'.term >= lease.term
    PROVE  Calm
BY DEF Calm, clientVars

\* The key goes to a node that was down.
LEMMA StartPrimaryStep ==
    ASSUME StrictInv, NEW n \in Node, StartPrimary(n)
    PROVE  StrictInv'
<1>1. Types /\ Terms /\ Disks
  BY DEF StrictInv
<1> DEFINE p == [Down EXCEPT !.role = "granted", !.term = lease.term + 1]
<1>2. lease.term \in Nat /\ lease.term + 1 \in Nat
  BY <1>1, Fields, SMT
<1>3. p \in ProcessType /\ p.role = "granted" /\ p.term = lease.term + 1
  BY <1>2, DownFacts DEF Down, ProcessType
<1>4. /\ proc[n].role = "down" /\ proc' = [proc EXCEPT ![n] = p]
      /\ lease' = [holder |-> n, term |-> lease.term + 1]
      /\ UNCHANGED <<env, disk, rcv, late, fresh, public, tried, acked>>
  BY DEF StartPrimary, clientVars
<1> HIDE DEF p
<1>5. /\ proc' \in [Node -> ProcessType] /\ proc'[n] = p
      /\ \A x \in Node : x # n => proc'[x] = proc[x]
  BY <1>1, <1>3, <1>4, NextProc
<1>6. lease'.term = lease.term + 1 /\ lease' \in [holder : Node \cup {NoNode}, term : Nat]
  BY <1>2, <1>4
<1>7. Types'
  BY <1>1, <1>4, <1>5, <1>6 DEF Types
<1>8. lease'.term >= lease.term /\ Calm
  BY <1>1, <1>2, <1>4, <1>6, CalmFrame, SMT DEF clientVars
<1>9. ~Follows(n)' /\ proc'[n].role # "opening" /\ Leader(n)' /\ ~Serving(n)' /\ ~Active(n)'
  BY <1>3, <1>5, IdleLeader DEF Follows
<1>10. Terms'
  <2>1. \A x \in Node : proc'[x].term <= lease'.term
    <3>1. \A x \in Node : proc[x].term <= lease.term /\ proc[x].term \in Nat
      BY <1>1, Fields DEF Terms
    <3>2. \A x \in Node : proc'[x].term = lease.term + 1 \/ proc'[x].term = proc[x].term
      BY <1>3, <1>5
    <3>3. QED
      BY <1>2, <1>6, <3>1, <3>2, SMT
  <2>2. \A x \in Node : Follows(x)' => rcv'[x].term <= lease'.term
    <3>1. \A x \in Node : Follows(x)' => x # n /\ Follows(x) /\ rcv'[x] = rcv[x]
      BY <1>4, <1>5, <1>9 DEF Follows
    <3>2. QED
      BY <1>1, <1>2, <1>6, <3>1, Fields, SMT DEF Terms
  <2>3. \A M \in late' : /\ M \in late /\ M.term \in Nat /\ M.term <= lease.term
                         /\ M.to \in Node /\ M.leader \in Node
    BY <1>1, <1>4 DEF Terms, Types, MessageType
  <2>4. \A M \in late' : M.term <= lease'.term /\ M.term < lease'.term
    BY <1>2, <1>6, <2>3, SMT
  <2>5. ASSUME NEW x \in Node, NEW y \in Node, Active(x)', Leads(y)', x # y
        PROVE  proc'[x].term < proc'[y].term
    <3>1. x # n /\ Active(x) /\ proc'[x] = proc[x]
      BY <1>5, <1>9, <2>5 DEF Active
    <3>2. CASE y = n
      <4>1. proc[x].term <= lease.term /\ proc[x].term \in Nat
        BY <1>1, Fields DEF Terms
      <4>2. proc'[y].term = lease.term + 1
        BY <1>3, <1>5, <3>2
      <4>3. QED
        BY <1>2, <3>1, <4>1, <4>2, SMT
    <3>3. CASE y # n
      <4>1. proc'[y] = proc[y] /\ Leads(y)
        BY <1>5, <2>5, <3>3 DEF Leads
      <4>2. QED
        BY <1>1, <2>5, <3>1, <4>1 DEF Terms
    <3>4. QED
      BY <3>2, <3>3
  <2>6. ASSUME NEW M \in late', NEW x \in Node, Leads(x)'
        PROVE  \/ x = n /\ proc'[x].term = lease'.term
               \/ x # n /\ proc'[x] = proc[x] /\ Leads(x) /\ disk'[x] = disk[x]
    BY <1>3, <1>4, <1>5, <1>6, <2>6 DEF Leads
  <2>7. ASSUME NEW M \in late', Leads(M.to)' PROVE M.term < proc'[M.to].term
    BY <1>1, <2>3, <2>4, <2>6, <2>7 DEF Terms
  <2>8. ASSUME NEW M \in late', Leads(M.leader)'
        PROVE  M.term <= proc'[M.leader].term
    BY <1>1, <2>3, <2>4, <2>6, <2>8 DEF Terms
  <2>9. ASSUME NEW M \in late', Leads(M.leader)', M.term = proc'[M.leader].term
        PROVE  Prefix(M.log, disk'[M.leader].log)
    <3>1. M.leader # n
      BY <1>2, <1>6, <2>3, <2>4, <2>6, <2>9, SMT
    <3>2. QED
      BY <1>1, <2>3, <2>6, <2>9, <3>1 DEF Terms
  <2>10. QED
    BY <2>1, <2>2, <2>4, <2>5, <2>7, <2>8, <2>9 DEF Terms
<1>11. Floor(n)' >= Floor(n)
  BY <1>1, <1>7, <1>8, <1>9, FloorUp
<1>12. /\ disk[n].synced >= disk[n].synced /\ disk[n].synced <= Len(disk[n].log)
       /\ disk[n].saved.committed >= disk[n].saved.committed
  BY <1>1, Fields, SMT DEF Disks
<1>13. QED
  BY <1>4, <1>5, <1>7, <1>8, <1>9, <1>10, <1>11, <1>12, OneNodeStep

\* As OneNodeStep, for a node that does not begin to lead.
LEMMA QuietStep ==
    ASSUME StrictInv, Types', Calm, late' \subseteq late, NEW n \in Node,
           \A x \in Node : x # n =>
               disk'[x] = disk[x] /\ rcv'[x] = rcv[x] /\ proc'[x] = proc[x],
           disk'[n].log = disk[n].log,
           disk'[n].synced >= disk[n].synced, disk'[n].synced <= Len(disk[n].log),
           disk'[n].saved.committed >= disk[n].saved.committed,
           Follows(n)' =>
               /\ \/ Follows(n) /\ rcv'[n].durable >= rcv[n].durable
                  \/ rcv'[n].durable = Len(disk[n].log)
               /\ rcv'[n].durable <= Len(disk[n].log)
               /\ disk'[n].saved.committed <= rcv'[n].committed
               /\ rcv'[n].term <= lease'.term,
           proc'[n].term <= lease'.term,
           Leads(n)' => Leads(n) /\ proc'[n].term = proc[n].term,
           Active(n)' => Active(n) \/ ~Leads(Peer(n)),
           Floor(n)' >= Floor(n),
           Still(n) \/ (Leader(n)' /\ (Serving(n)' => Server(n)'))
    PROVE  StrictInv'
<1>1. Types /\ Terms /\ Disks
  BY DEF StrictInv
<1>2. lease'.term >= lease.term
  BY DEF Calm
<1>3. ASSUME NEW x \in Node, x # n
      PROVE  /\ proc'[x].term <= lease'.term
             /\ Follows(x)' => rcv'[x].term <= lease'.term
             /\ Leads(x)' <=> Leads(x)
             /\ Active(x)' <=> Active(x)
             /\ proc'[x].term = proc[x].term
             /\ disk'[x].log = disk[x].log
  <2>1. disk'[x] = disk[x] /\ rcv'[x] = rcv[x] /\ proc'[x] = proc[x]
    BY <1>3
  <2>2. (Follows(x)' <=> Follows(x)) /\ (Leads(x)' <=> Leads(x)) /\ (Active(x)' <=> Active(x))
    BY <2>1 DEF Follows, Leads, Active
  <2>3. proc[x].term <= lease.term /\ (Follows(x) => rcv[x].term <= lease.term)
    BY <1>1 DEF Terms
  <2>4. proc[x].term <= lease'.term /\ (Follows(x) => rcv[x].term <= lease'.term)
    <3>1. /\ proc[x].term \in Nat /\ rcv[x].term \in Nat
          /\ lease.term \in Nat /\ lease'.term \in Nat
      BY <1>1, Fields, FieldsNext
    <3>2. QED
      BY <1>2, <2>3, <3>1, SMT
  <2>5. QED
    BY <2>1, <2>2, <2>4
<1>4. \A x \in Node : Prefix(disk[x].log, disk'[x].log)
  <2>1. \A x \in Node : disk'[x].log = disk[x].log /\ disk[x].log \in Seq(WalEntry)
    BY <1>1, <1>3, Fields
  <2>2. QED
    BY <2>1, PrefixRefl
<1>5. \A x \in Node : /\ proc'[x].term <= lease'.term
                      /\ Follows(x)' => rcv'[x].term <= lease'.term
  BY <1>3
<1>6. \A x \in Node : Leads(x)' => Leads(x) /\ proc'[x].term = proc[x].term
                                   /\ Prefix(disk[x].log, disk'[x].log)
  BY <1>3, <1>4
<1>7. \A x \in Node : Active(x)' => Active(x) \/ ~Leads(Peer(x))'
  BY <1>3, Pair
<1>8. Terms'
  BY <1>1, <1>2, <1>5, <1>6, <1>7, TermsKept
<1>9. QED
  BY <1>8, OneNodeStep

\* The facts about a disk nothing happens to that QuietStep asks for.
LEMMA SameDisk ==
    ASSUME Types, Disks, NEW n \in Node
    PROVE  /\ disk[n].synced >= disk[n].synced /\ disk[n].synced <= Len(disk[n].log)
           /\ disk[n].saved.committed >= disk[n].saved.committed
           /\ rcv[n].durable >= rcv[n].durable /\ rcv[n].term >= rcv[n].term
           /\ lease.term >= lease.term
<1>1. /\ disk[n].synced \in Nat /\ disk[n].saved.committed \in Nat
      /\ rcv[n].durable \in Nat /\ rcv[n].term \in Nat /\ lease.term \in Nat
  BY Fields
<1>2. disk[n].synced <= Len(disk[n].log)
  BY DEF Disks
<1>3. QED
  BY <1>1, <1>2, OrderFacts

\* The key expires.
LEMMA LoseLeaseStep ==
    ASSUME StrictInv, LoseLease, NEW n \in Node
    PROVE  StrictInv'
<1>1. Types /\ Terms /\ Disks
  BY DEF StrictInv
<1>2. lease \in [holder : Node \cup {NoNode}, term : Nat] /\ lease.term \in Nat
  BY <1>1 DEF Types
<1>3. /\ lease' = [lease EXCEPT !.holder = NoNode]
      /\ UNCHANGED <<env, disk, rcv, proc, late, fresh, public, tried, acked>>
  BY DEF LoseLease, clientVars
<1>4. lease'.term = lease.term /\ lease' \in [holder : Node \cup {NoNode}, term : Nat]
  BY <1>2, <1>3
<1>5. Types'
  BY <1>1, <1>3, <1>4 DEF Types
<1>6. lease'.term >= lease.term /\ Calm
  BY <1>1, <1>3, <1>4, CalmFrame, SameDisk DEF clientVars
<1>7. Steady(n) /\ Still(n)
  BY <1>1, <1>3, <1>5, <1>6, Untouched
<1>8. Follows(n)' => /\ Follows(n) /\ rcv[n].durable <= Len(disk[n].log)
                     /\ disk[n].saved.committed <= rcv[n].committed
                     /\ rcv[n].term <= lease.term
  BY <1>1, <1>3 DEF Follows, Disks, Terms
<1>9. proc[n].term <= lease.term /\ (Leads(n)' => Leads(n)) /\ (Active(n)' => Active(n))
  BY <1>1, <1>3 DEF Terms, Leads, Active
<1>10. Floor(n)' >= Floor(n)
  BY <1>7 DEF Steady
<1>11. QED
  BY <1>1, <1>3, <1>4, <1>5, <1>6, <1>7, <1>8, <1>9, <1>10, SameDisk, QuietStep

\* A node that was down looks up whom to follow.
LEMMA StartStandbyStep ==
    ASSUME StrictInv, NEW n \in Node, StartStandby(n)
    PROVE  StrictInv'
<1>1. Types /\ Terms /\ Disks
  BY DEF StrictInv
<1> DEFINE p == [Down EXCEPT !.role = "opening", !.term = lease.term]
<1>2. lease.term \in Nat /\ lease.term >= lease.term /\ lease.term <= lease.term
  BY <1>1, Fields, SMT
<1>3. p \in ProcessType /\ p.role = "opening" /\ p.term = lease.term
  BY <1>2, DownFacts DEF Down, ProcessType
<1>4. /\ proc[n].role = "down" /\ proc' = [proc EXCEPT ![n] = p]
      /\ UNCHANGED <<env, disk, rcv, lease, late, fresh, public, tried, acked>>
  BY DEF StartStandby, clientVars
<1> HIDE DEF p
<1>5. /\ proc' \in [Node -> ProcessType] /\ proc'[n] = p
      /\ \A x \in Node : x # n => proc'[x] = proc[x]
  BY <1>1, <1>3, <1>4, NextProc
<1>6. Types'
  BY <1>1, <1>4, <1>5 DEF Types
<1>7. lease'.term >= lease.term /\ Calm
  BY <1>1, <1>2, <1>4, CalmFrame DEF clientVars
<1>8. /\ ~Follows(n)' /\ Leader(n)' /\ ~Serving(n)' /\ ~Active(n)' /\ ~Leads(n)'
  BY <1>3, <1>5, IdleLeader DEF Follows, Leads
<1>9. proc'[n].term >= Floor(n) /\ proc'[n].term <= lease'.term
  <2>1. Floor(n) = lease.term
    BY <1>4 DEF Floor, Follows
  <2>2. QED
    BY <1>2, <1>3, <1>4, <1>5, <2>1
<1>10. Floor(n)' >= Floor(n)
  BY <1>1, <1>3, <1>5, <1>6, <1>7, <1>9, FloorUp
<1>11. QED
  BY <1>1, <1>4, <1>5, <1>6, <1>7, <1>8, <1>9, <1>10, SameDisk, QuietStep

\* A node without a process keeps its disk.
LEMMA CrashStep ==
    ASSUME StrictInv, NEW n \in Node, Crash(n)
    PROVE  StrictInv'
<1>1. Types /\ Terms /\ Disks
  BY DEF StrictInv
<1>2. /\ proc' = [proc EXCEPT ![n] = Down] /\ rcv' = [rcv EXCEPT ![n] = NoReceiver]
      /\ UNCHANGED <<env, disk, lease, late, fresh, public, tried, acked>>
  BY DEF Crash, Stopped, clientVars
<1>3. /\ proc' \in [Node -> ProcessType] /\ proc'[n] = Down
      /\ \A x \in Node : x # n => proc'[x] = proc[x]
  BY <1>1, <1>2, DownFacts, NextProc
<1>4. rcv' \in [Node -> ReceiverType] /\ \A x \in Node : x # n => rcv'[x] = rcv[x]
  BY <1>1, <1>2, DownFacts DEF Types
<1>5. Types'
  BY <1>1, <1>2, <1>3, <1>4 DEF Types
<1>6. lease'.term >= lease.term /\ Calm
  BY <1>1, <1>2, CalmFrame, SameDisk DEF clientVars
<1>7. /\ ~Follows(n)' /\ Leader(n)' /\ ~Serving(n)' /\ ~Active(n)' /\ ~Leads(n)'
      /\ proc'[n].role # "opening"
  BY <1>3, DownFacts, IdleLeader DEF Follows, Leads
<1>8. proc'[n].term <= lease'.term
  BY <1>1, <1>2, <1>3, DownFacts, Fields, SMT
<1>9. Floor(n)' >= Floor(n)
  BY <1>1, <1>5, <1>6, <1>7, FloorUp
<1>10. QED
  BY <1>1, <1>2, <1>3, <1>4, <1>5, <1>6, <1>7, <1>8, <1>9, SameDisk, QuietStep

-----------------------------------------------------------------------------
(* Steps of a leader that nobody else notices.                             *)

\* A serving process is past what Leader says of the earlier roles.
LEMMA ServingLeader ==
    ASSUME NEW n \in Node, proc'[n].role = "serving"
    PROVE  Leader(n)' /\ Serving(n)'
BY DEF Leader, Serving, Matched

\* A Term is promoted and the whole log counts as committed.
LEMMA PromoteStep ==
    ASSUME StrictInv, NEW n \in Node, Promote(n)
    PROVE  StrictInv'
<1>1. Types /\ Terms /\ Disks
  BY DEF StrictInv
<1> DEFINE d == disk[n]
           c == IF Len(d.log) > d.saved.committed THEN Len(d.log) ELSE d.saved.committed
<1>2. /\ proc[n].role = "granted"
      /\ UNCHANGED <<env, rcv, lease, late, fresh, public, tried, acked>>
  BY DEF Promote, clientVars
<1>3. lease'.term >= lease.term /\ Calm
  BY <1>1, <1>2, CalmFrame, SameDisk DEF clientVars
<1>4. /\ d.log \in Seq(WalEntry) /\ Len(d.log) \in Nat /\ d.saved.committed \in Nat
      /\ c \in Nat /\ c >= Len(d.log) /\ c >= d.saved.committed
  BY <1>1, Fields, SMT
<1>5. Leads(n) /\ proc[n].term <= lease.term /\ ~Follows(n)
  BY <1>1, <1>2 DEF Leads, Terms, Follows
<1>6. CASE Goto(n, "refused") /\ UNCHANGED disk
  <2>1. /\ proc' \in [Node -> ProcessType] /\ proc'[n].role = "refused"
        /\ proc'[n].term = proc[n].term
        /\ \A x \in Node : x # n => proc'[x] = proc[x]
    BY <1>1, <1>2, <1>6, NextRole
  <2>2. Types'
    BY <1>1, <1>2, <1>6, <2>1 DEF Types
  <2>3. /\ Leader(n)' /\ ~Serving(n)' /\ ~Active(n)' /\ ~Follows(n)'
        /\ proc'[n].role # "opening"
    BY <2>1, IdleLeader DEF Follows
  <2>4. Floor(n)' >= Floor(n)
    BY <1>1, <1>3, <2>2, <2>3, FloorUp
  <2>5. QED
    BY <1>1, <1>2, <1>3, <1>5, <1>6, <2>1, <2>2, <2>3, <2>4, SameDisk, QuietStep
<1>7. CASE /\ disk' = [disk EXCEPT ![n].saved =
                  [term |-> proc[n].term, role |-> "primary", leader |-> n, committed |-> c]]
           /\ Goto(n, "plan")
  <2> HIDE DEF c
  <2>1. /\ proc' \in [Node -> ProcessType] /\ proc'[n].role = "plan"
        /\ proc'[n].term = proc[n].term
        /\ \A x \in Node : x # n => proc'[x] = proc[x]
    BY <1>1, <1>2, <1>7, NextRole
  <2> DEFINE v == [term |-> proc[n].term, role |-> "primary", leader |-> n, committed |-> c]
  <2>2. v \in SavedType /\ v.committed = c
    BY <1>1, <1>4, Fields DEF SavedType
  <2> HIDE DEF v
  <2>3. /\ disk' \in [Node -> DiskType]
        /\ disk'[n].log = d.log /\ disk'[n].synced = d.synced
        /\ disk'[n].saved.committed = c
        /\ \A x \in Node : x # n => disk'[x] = disk[x]
    <3>1. disk' = [disk EXCEPT ![n] = [disk[n] EXCEPT !.saved = v]]
      BY <1>1, <1>7 DEF v, Types
    <3>2. /\ [disk[n] EXCEPT !.saved = v] \in DiskType
          /\ [disk[n] EXCEPT !.saved = v].log = d.log
          /\ [disk[n] EXCEPT !.saved = v].synced = d.synced
          /\ [disk[n] EXCEPT !.saved = v].saved = v
      BY <1>1, <2>2, Fields DEF DiskType
    <3>3. QED
      BY <1>1, <2>2, <3>1, <3>2 DEF Types
  <2>4. Types'
    BY <1>1, <1>2, <2>1, <2>3 DEF Types
  <2>5. Leader(n)' /\ ~Serving(n)' /\ ~Active(n)'
    <3>1. Len(disk'[n].log) <= disk'[n].saved.committed
      BY <1>4, <2>3
    <3>2. QED
      BY <2>1, <3>1 DEF Leader, Matched, Serving, Active
  <2>6. ~Follows(n)' /\ proc'[n].role # "opening"
    BY <2>1 DEF Follows
  <2>7. Floor(n)' >= Floor(n)
    BY <1>1, <1>3, <2>4, <2>6, FloorUp
  <2>8. QED
    BY <1>1, <1>2, <1>3, <1>4, <1>5, <2>1, <2>3, <2>4, <2>5, <2>6, <2>7, SameDisk,
       QuietStep
<1>8. QED
  BY <1>6, <1>7 DEF Promote

\* A leader whose Standby is durable no further than it has got everything that
\* readers have seen.
LEMMA HasPublic ==
    ASSUME StrictInv, NEW n \in Node, Follows(Peer(n)),
           rcv[Peer(n)].durable <= Len(disk[n].log)
    PROVE  Len(disk[n].log) >= Len(public)
<1>1. Types /\ Disks /\ Keepers
  BY DEF StrictInv
<1>2. PICK k \in Node : /\ Len(disk[k].log) >= Len(public)
                        /\ Follows(k) => rcv[k].durable >= Len(public)
  <2>1. CASE env.power
    <3>1. PICK k \in Node : Keeper(k, disk[k].synced)
      BY <1>1, <2>1 DEF Keepers
    <3>2. disk[k].synced >= Len(public) /\ (Follows(k) => rcv[k].durable >= Len(public))
      BY <3>1 DEF Keeper
    <3>3. /\ disk[k].synced \in Nat /\ Len(disk[k].log) \in Nat /\ Len(public) \in Nat
          /\ disk[k].synced <= Len(disk[k].log)
      BY <1>1, Fields DEF Disks
    <3>4. Len(disk[k].log) >= disk[k].synced
      BY <3>3, OrderFacts
    <3>5. Len(disk[k].log) >= Len(public)
      BY <3>2, <3>3, <3>4, OrderTrans
    <3>6. QED
      BY <3>2, <3>5
  <2>2. CASE ~env.power
    <3>1. PICK k \in Node \ fresh : TRUE
      BY <1>1 DEF Keepers, Types
    <3>2. Keeper(k, Len(disk[k].log))
      BY <1>1, <2>2 DEF Keepers
    <3>3. QED
      BY <3>2 DEF Keeper
  <2>3. QED
    BY <2>1, <2>2
<1>3. k = n \/ k = Peer(n)
  BY Pair
<1>4. CASE k = n
  BY <1>2, <1>4
<1>5. CASE k = Peer(n)
  <2>1. /\ Len(disk[n].log) \in Nat /\ rcv[k].durable \in Nat /\ Len(public) \in Nat
    BY <1>1, Fields
  <2>2. Len(disk[n].log) >= rcv[k].durable /\ rcv[k].durable >= Len(public)
    BY <1>2, <1>5, <2>1, OrderFacts
  <2>3. QED
    BY <2>1, <2>2, OrderTrans
<1>6. QED
  BY <1>3, <1>4, <1>5

\* The planner lets a leader go on only over a Standby whose durable log is part
\* of its own.
LEMMA CatchUpPlanStep ==
    ASSUME StrictInv, NEW n \in Node, CatchUpPlan(n)
    PROVE  StrictInv'
<1>1. Types /\ Terms /\ Disks /\ Leaders /\ Unforked
  BY DEF StrictInv
<1> DEFINE x == Peer(n)
           durable == rcv[x].durable
           last == disk[n].saved.committed
           log == disk[n].log
           other == disk[x].log
<1>2. /\ proc[n].role = "plan" /\ proc[x].role = "standby"
      /\ UNCHANGED <<env, disk, rcv, lease, late, fresh, public, tried, acked>>
  BY DEF CatchUpPlan, clientVars
<1>3. x \in Node /\ x # n /\ Peer(x) = n
  BY Pair
<1>4. lease'.term >= lease.term /\ Calm
  BY <1>1, <1>2, CalmFrame, SameDisk DEF clientVars
<1>5. Leads(n) /\ proc[n].term <= lease.term /\ ~Leads(x) /\ Follows(x)
  BY <1>1, <1>2 DEF Leads, Terms, Follows
<1>6. ASSUME proc' \in [Node -> ProcessType],
             \A y \in Node : y # n => proc'[y] = proc[y],
             proc'[n].term = proc[n].term, proc'[n].role # "opening", ~Follows(n)',
             Leader(n)', ~Serving(n)'
      PROVE  StrictInv'
  <2>1. Types'
    BY <1>1, <1>2, <1>6 DEF Types
  <2>2. Floor(n)' >= Floor(n)
    BY <1>1, <1>4, <1>6, <2>1, FloorUp
  <2>3. QED
    BY <1>1, <1>2, <1>4, <1>5, <1>6, <2>1, <2>2, SameDisk, QuietStep
<1>7. CASE Goto(n, "blocked")
  <2>1. /\ proc' \in [Node -> ProcessType] /\ proc'[n].role = "blocked"
        /\ proc'[n].term = proc[n].term
        /\ \A y \in Node : y # n => proc'[y] = proc[y]
    BY <1>1, <1>2, <1>7, NextRole
  <2>2. Leader(n)' /\ ~Serving(n)' /\ ~Follows(n)' /\ proc'[n].role # "opening"
    BY <2>1, IdleLeader DEF Follows
  <2>3. QED
    BY <1>6, <2>1, <2>2
<1>8. CASE ~PlanDiverged(n)
  <2>1. /\ log \in Seq(WalEntry) /\ other \in Seq(WalEntry)
        /\ Len(log) \in Nat /\ Len(other) \in Nat /\ durable \in Nat /\ last \in Nat
        /\ disk[n].synced \in Nat /\ Len(public) \in Nat
    BY <1>1, <1>3, Fields
  <2>2. /\ durable <= last /\ durable <= Len(log)
        /\ SubSeq(other, 1, durable) = SubSeq(log, 1, durable)
    BY <1>8, <2>1, OrderTotal DEF PlanDiverged
  <2>3. durable <= Len(other)
    BY <1>1, <1>3, <1>5 DEF Disks
  <2>4. \A i \in 1..durable : other[i] = log[i]
    BY <2>1, <2>2, <2>3, SubSeqEntries, SMT
  <2>5. Len(log) >= Len(public)
    BY <1>5, <2>2, HasPublic
  <2>6. Len(log) <= last
    BY <1>1, <1>2 DEF Leaders, Leader
  <2>7. CASE durable < last
    <3> DEFINE p == [proc[n] EXCEPT !.role = "append", !.sent = durable]
    <3>1. /\ p \in ProcessType /\ p.role = "append" /\ p.term = proc[n].term
      BY <1>1, <1>2, <2>1, Fields DEF ProcessType
    <3>2. proc' = [proc EXCEPT ![n] = p]
      BY <1>1, <1>8, <2>7 DEF CatchUpPlan, Types
    <3> HIDE DEF p
    <3>3. /\ proc' \in [Node -> ProcessType] /\ proc'[n] = p
          /\ \A y \in Node : y # n => proc'[y] = proc[y]
      BY <1>1, <3>1, <3>2, NextProc
    <3>4. Leader(n)' /\ ~Serving(n)' /\ ~Follows(n)' /\ proc'[n].role # "opening"
      BY <1>2, <2>5, <2>6, <3>1, <3>3 DEF Leader, Matched, Serving, Follows
    <3>5. QED
      BY <1>6, <3>1, <3>3, <3>4
  <2>8. CASE ~(durable < last)
    <3> DEFINE role == IF last = 0 THEN "ready" ELSE "advance"
    <3>1. role \in {"ready", "advance"} /\ (role = "ready" => last = 0)
      OBVIOUS
    <3>2. Goto(n, role)
      BY <1>8, <2>8 DEF CatchUpPlan
    <3> HIDE DEF role
    <3>3. /\ proc' \in [Node -> ProcessType] /\ proc'[n].role = role
          /\ proc'[n].term = proc[n].term
          /\ \A y \in Node : y # n => proc'[y] = proc[y]
      BY <1>1, <1>2, <3>1, <3>2, NextRole
    <3>4. Len(log) = last /\ durable = Len(log)
      <4>1. last <= durable
        BY <2>1, <2>8, OrderTotal
      <4>2. durable = last
        BY <2>1, <2>2, <4>1, OrderTotal
      <4>3. Len(log) = last
        BY <2>1, <2>2, <2>6, <4>2, OrderTotal
      <4>4. QED
        BY <4>2, <4>3
    <3>5. Prefix(log, other) /\ Len(other) >= Len(log) /\ durable >= Len(log)
      BY <2>1, <2>3, <2>4, <3>4, SMT DEF Prefix
    <3>6. Comparable(log, other)
      BY <2>1, <3>5, PrefixComparable
    <3>7. Copied(n)'
      BY <1>2, <3>5 DEF Copied
    <3>8. Ahead(n)'
      <4>1. ASSUME ~env.loss PROVE Len(other) <= Len(log)
        <5>1. Len(other) <= durable \/ Vouches(disk[n], Len(other))
          BY <1>1, <1>3, <1>5, <4>1 DEF Unforked
        <5>2. disk[n].synced <= Len(log)
          BY <1>1 DEF Disks
        <5>3. QED
          BY <2>1, <3>4, <5>1, <5>2, SMT DEF Vouches
      <4>2. QED
        BY <1>2, <4>1 DEF Ahead
    <3>9. Leader(n)' /\ ~Serving(n)' /\ ~Follows(n)' /\ proc'[n].role # "opening"
      <4>1. Len(log) = last /\ Len(log) <= last /\ (proc'[n].role = "ready" => Len(log) = 0)
        BY <2>6, <3>1, <3>3, <3>4
      <4>2. proc'[n].role = "ready" \/ proc'[n].role = "advance"
        BY <3>1, <3>3
      <4>3. proc'[n].role # "barrier" /\ proc'[n].role # "serving"
            /\ proc'[n].role # "standby" /\ proc'[n].role # "opening"
        BY <4>2
      <4>4. QED
        BY <1>2, <2>5, <3>5, <3>6, <3>7, <3>8, <4>1, <4>3
           DEF Leader, Matched, Serving, Follows
    <3>10. QED
      BY <1>6, <3>3, <3>9
  <2>9. QED
    BY <2>7, <2>8
<1>9. QED
  BY <1>7, <1>8 DEF CatchUpPlan

\* A serving leader that only moves on within its request: the common part.
LEMMA ServingQuiet ==
    ASSUME StrictInv, NEW n \in Node, proc[n].role = "serving",
           NEW p \in ProcessType, proc' = [proc EXCEPT ![n] = p],
           p.role = "serving", p.term = proc[n].term,
           disk' \in [Node -> DiskType], \A x \in Node : x # n => disk'[x] = disk[x],
           disk'[n].log = disk[n].log,
           disk'[n].synced >= disk[n].synced, disk'[n].synced <= Len(disk[n].log),
           disk'[n].saved.committed >= disk[n].saved.committed,
           UNCHANGED <<env, rcv, lease, late, fresh, public, tried, acked>>,
           Server(n)'
    PROVE  StrictInv'
<1>1. Types /\ Terms /\ Disks
  BY DEF StrictInv
<1>2. /\ proc' \in [Node -> ProcessType] /\ proc'[n] = p
      /\ \A x \in Node : x # n => proc'[x] = proc[x]
  BY <1>1, NextProc
<1>3. Types'
  BY <1>1, <1>2 DEF Types
<1>4. lease'.term >= lease.term /\ Calm
  BY <1>1, CalmFrame, SameDisk DEF clientVars
<1>5. /\ Leads(n) /\ Active(n) /\ proc[n].term <= lease.term
      /\ ~Follows(n)' /\ proc'[n].role # "opening"
  BY <1>1, <1>2 DEF Leads, Active, Terms, Follows
<1>6. Floor(n)' >= Floor(n)
  BY <1>1, <1>3, <1>4, <1>5, FloorUp
<1>7. Leader(n)'
  BY <1>2, ServingLeader
<1>8. QED
  BY <1>1, <1>2, <1>3, <1>4, <1>5, <1>6, <1>7, SameDisk, QuietStep

\* The request fails: its record stays in the log, and no other follows it.
LEMMA FailAppendStep ==
    ASSUME StrictInv, NEW n \in Node, FailAppend(n)
    PROVE  StrictInv'
<1>1. Types /\ Disks /\ Leaders
  BY DEF StrictInv
<1> DEFINE p == [proc[n] EXCEPT !.stage = "none", !.req = NoNode, !.fatal = TRUE]
<1>2. /\ p \in ProcessType /\ p.role = proc[n].role /\ p.term = proc[n].term
      /\ p.applied = proc[n].applied /\ p.stage = "none" /\ p.fatal
  BY <1>1, Fields DEF ProcessType
<1>3. /\ proc[n].role = "serving" /\ proc' = [proc EXCEPT ![n] = p]
      /\ UNCHANGED <<env, disk, rcv, lease, late, fresh, public, tried, acked>>
  BY DEF FailAppend, Failed, Serving, clientVars
<1> HIDE DEF p
<1>4. Server(n)
  BY <1>1, <1>3 DEF Leaders, Serving
<1>5. proc'[n] = p
  BY <1>1, <1>2, <1>3, NextProc
<1>6. Server(n)'
  BY <1>2, <1>3, <1>4, <1>5 DEF Server, Ahead
<1>7. disk \in [Node -> DiskType]
  BY <1>1 DEF Types
<1>8. QED
  BY <1>1, <1>2, <1>3, <1>6, <1>7, SameDisk, ServingQuiet

\* The fsync of the log before it is replicated.
LEMMA SyncEntryStep ==
    ASSUME StrictInv, NEW n \in Node, SyncEntry(n)
    PROVE  StrictInv'
<1>0. proc[n].role = "serving"
  BY DEF SyncEntry, Serving
<1>1. Types /\ Disks /\ Leaders
  BY DEF StrictInv
<1> DEFINE p == [proc[n] EXCEPT !.stage = "synced"]
           e == [disk[n] EXCEPT !.synced = Len(disk[n].log)]
<1>2. /\ p \in ProcessType /\ p.role = proc[n].role /\ p.term = proc[n].term
      /\ p.applied = proc[n].applied /\ p.stage = "synced" /\ p.req = proc[n].req
  BY <1>0, <1>1, Fields DEF ProcessType
<1>3. /\ e \in DiskType /\ e.log = disk[n].log /\ e.synced = Len(disk[n].log)
      /\ e.saved = disk[n].saved
  BY <1>1, Fields DEF DiskType
<1>4. /\ proc[n].role = "serving" /\ proc[n].stage = "written"
      /\ UNCHANGED <<env, rcv, lease, late, fresh, public, tried, acked>>
  BY DEF SyncEntry, Serving, clientVars
<1>5. proc' = [proc EXCEPT ![n] = p] /\ disk' = [disk EXCEPT ![n] = e]
  BY <1>1 DEF SyncEntry, Types
<1> HIDE DEF p, e
<1>6. /\ disk' \in [Node -> DiskType] /\ disk'[n] = e
      /\ \A x \in Node : x # n => disk'[x] = disk[x]
  BY <1>1, <1>3, <1>5 DEF Types
<1>7. Server(n)
  BY <1>1, <1>4 DEF Leaders, Serving
<1>8. proc'[n] = p
  BY <1>1, <1>2, <1>5, NextProc
<1>9. /\ Len(disk[n].log) \in Nat /\ disk[n].synced \in Nat
      /\ disk[n].synced <= Len(disk[n].log) /\ proc[n].applied \in Nat
      /\ disk[n].saved.committed >= disk[n].saved.committed
  BY <1>1, Fields, SameDisk
<1>10. /\ Len(disk[n].log) >= proc[n].applied /\ Len(disk[n].log) >= disk[n].synced
       /\ Len(disk[n].log) <= Len(disk[n].log)
  BY <1>7, <1>9, SMT DEF Server
<1>11. Peer(n) \in Node /\ Peer(n) # n
  BY Pair
<1>12. Ahead(n)'
  BY <1>3, <1>4, <1>6, <1>7, <1>11 DEF Server, Ahead
<1>13. /\ Len(disk[n].log) = proc[n].applied + 1
       /\ proc[n].req = disk[n].log[Len(disk[n].log)].val
       /\ proc[n].applied = Len(public)
       /\ disk[n].saved.committed <= proc[n].applied
  BY <1>4, <1>7 DEF Server
<1>14. Server(n)'
  BY <1>2, <1>3, <1>4, <1>6, <1>8, <1>10, <1>12, <1>13 DEF Server
<1>15. QED
  BY <1>2, <1>3, <1>4, <1>5, <1>6, <1>9, <1>10, <1>14, ServingQuiet

\* A Primary's checkpoint saves how far it has committed.
LEMMA CheckpointPrimaryStep ==
    ASSUME StrictInv, NEW n \in Node, CheckpointPrimary(n)
    PROVE  StrictInv'
<1>1. Types /\ Disks /\ Leaders
  BY DEF StrictInv
<1> DEFINE v == [disk[n].saved EXCEPT !.committed = proc[n].applied]
           e == [disk[n] EXCEPT !.saved = v]
<1>2. v \in SavedType /\ v.committed = proc[n].applied
  BY <1>1, Fields DEF DiskType, SavedType
<1>3. /\ proc[n].role = "serving" /\ proc[n].stage = "none" /\ ~proc[n].fatal
      /\ disk[n].saved.committed < proc[n].applied
      /\ UNCHANGED <<env, rcv, proc, lease, late, fresh, public, tried, acked>>
  BY DEF CheckpointPrimary, Serving, clientVars
<1>4. disk' = [disk EXCEPT ![n] = e]
  BY <1>1 DEF CheckpointPrimary, Types
<1> HIDE DEF v
<1>5. /\ e \in DiskType /\ e.log = disk[n].log /\ e.synced = disk[n].synced
      /\ e.saved = v
  BY <1>1, <1>2, Fields DEF DiskType
<1> HIDE DEF e
<1>6. /\ disk' \in [Node -> DiskType] /\ disk'[n] = e
      /\ \A x \in Node : x # n => disk'[x] = disk[x]
  BY <1>1, <1>4, <1>5 DEF Types
<1>7. Server(n)
  BY <1>1, <1>3 DEF Leaders, Serving
<1>8. proc[n] \in ProcessType /\ proc' = [proc EXCEPT ![n] = proc[n]]
  BY <1>1, <1>3 DEF Types
<1>9. /\ disk[n].saved.committed \in Nat /\ proc[n].applied \in Nat
      /\ disk[n].synced >= disk[n].synced /\ disk[n].synced <= Len(disk[n].log)
  BY <1>1, Fields, SameDisk
<1>10. v.committed >= disk[n].saved.committed /\ v.committed <= proc[n].applied
  BY <1>2, <1>3, <1>9, SMT
<1>11. Peer(n) \in Node /\ Peer(n) # n
  BY Pair
<1>12. Ahead(n)'
  BY <1>3, <1>5, <1>6, <1>7, <1>11 DEF Server, Ahead
<1>13. Server(n)'
  BY <1>3, <1>5, <1>6, <1>7, <1>10, <1>12 DEF Server
<1>14. QED
  BY <1>3, <1>5, <1>6, <1>8, <1>9, <1>10, <1>13, ServingQuiet

\* A request answered from its own record is one that readers have seen.
LEMMA DeduplicateStep ==
    ASSUME StrictInv, NEW n \in Node, NEW r \in Request, Deduplicate(n, r)
    PROVE  StrictInv' /\ Expected[r] < Len(public) /\ public[Expected[r] + 1] = r
<1>1. Types /\ Terms /\ Disks /\ Leaders /\ Recorded
  BY DEF StrictInv
<1>2. /\ Serving(n) /\ Expected[r] < proc[n].applied
      /\ disk[n].log[Expected[r] + 1].val = r
      /\ acked' = acked \cup {r}
      /\ UNCHANGED <<env, disk, rcv, proc, lease, late, fresh, public, tried>>
  BY DEF Deduplicate
<1>3. proc[n].applied = Len(public) /\ Len(disk[n].log) \in {proc[n].applied, proc[n].applied + 1}
  BY <1>1, <1>2 DEF Leaders, Server
<1>4. /\ Expected[r] \in Nat /\ Len(public) \in Nat /\ Expected[r] < Len(public)
      /\ Len(disk[n].log) \in {Len(public), Len(public) + 1}
  BY <1>1, <1>2, <1>3, AppendAssumption, Fields
<1>5. /\ Expected[r] < Len(public)
      /\ Expected[r] + 1 \in 1..Len(disk[n].log) /\ Expected[r] + 1 <= Len(public)
  BY <1>4, SMT
<1>6. disk[n].log \in Logs
  BY DEF Logs
<1>7. public[Expected[r] + 1] = r
  BY <1>1, <1>2, <1>5, <1>6 DEF Recorded
<1>8. lease'.term >= lease.term
  BY <1>1, <1>2, SameDisk
<1>9. Calm
  BY <1>2, <1>5, <1>7, <1>8 DEF Calm
<1>10. Types'
  BY <1>1, <1>2 DEF Types
<1>11. Steady(n) /\ Still(n)
  BY <1>1, <1>2, <1>8, <1>10, Untouched
<1>12. ~Follows(n)' /\ (Leads(n)' => Leads(n)) /\ (Active(n)' => Active(n))
  BY <1>2 DEF Follows, Leads, Active, Serving
<1>13. proc[n].term <= lease.term /\ Floor(n)' >= Floor(n)
  BY <1>1, <1>11 DEF Terms, Steady
<1>14. StrictInv'
  BY <1>1, <1>2, <1>9, <1>10, <1>11, <1>12, <1>13, SameDisk, QuietStep
<1>15. QED
  BY <1>5, <1>7, <1>14

-----------------------------------------------------------------------------
(* Opening and checkpointing a Standby.                                    *)

\* A checkpoint of a Standby writes no entry and moves no position back.
LEMMA FlushedFacts ==
    ASSUME NEW d \in DiskType, NEW s \in ReceiverType
    PROVE  /\ Flushed(d, s) \in DiskType
           /\ Flushed(d, s).log = d.log
           /\ Flushed(d, s).synced \in {d.synced, Len(d.log)}
           /\ Flushed(d, s).saved.committed = s.committed
           /\ FreezeState(s, "no") \in ReceiverType
           /\ FreezeState(s, "no").term = s.term
           /\ FreezeState(s, "no").durable = s.durable
           /\ FreezeState(s, "no").committed = s.committed
<1> DEFINE f == FreezeState(s, "no")
           v == [term |-> s.term, role |-> "standby", leader |-> s.leader,
                 committed |-> s.committed]
<1>1. \/ f = [s EXCEPT !.fatal = TRUE]
      \/ f = [s EXCEPT !.frozen = s.applied, !.flushing = "no"]
      \/ f = s
  BY DEF FreezeState
<1>2. /\ f \in ReceiverType /\ f.term = s.term /\ f.durable = s.durable
      /\ f.committed = s.committed /\ f.frozen \in Nat
  BY <1>1 DEF ReceiverType
<1>3. v \in SavedType /\ v.committed = s.committed
  BY DEF SavedType, ReceiverType
<1> HIDE DEF f, v
<1>4. \/ FreezeDisk(d, s) = [[d EXCEPT !.saved = v] EXCEPT !.synced = Len(d.log)]
      \/ FreezeDisk(d, s) = [d EXCEPT !.saved = v]
  BY DEF FreezeDisk, SaveState, v
<1>5. /\ FreezeDisk(d, s) \in DiskType /\ FreezeDisk(d, s).log = d.log
      /\ FreezeDisk(d, s).synced \in {d.synced, Len(d.log)}
      /\ FreezeDisk(d, s).saved = v
  <2>1. d.log \in Seq(WalEntry) /\ Len(d.log) \in Nat
    BY SMT DEF DiskType
  <2>2. QED
    BY <1>3, <1>4, <2>1 DEF DiskType
<1>6. Flushed(d, s) = [FreezeDisk(d, s) EXCEPT !.flushed = f.frozen]
  BY DEF Flushed, f
<1>7. /\ Flushed(d, s) \in DiskType /\ Flushed(d, s).log = d.log
      /\ Flushed(d, s).synced \in {d.synced, Len(d.log)}
      /\ Flushed(d, s).saved = v
  BY <1>2, <1>5, <1>6 DEF DiskType
<1>8. QED
  BY <1>2, <1>3, <1>7 DEF f

\* A receiver just opened counts its whole log as durable.
LEMMA OpenedFacts ==
    ASSUME NEW d \in DiskType, NEW t \in Nat, NEW x \in Node
    PROVE  /\ Opened(d, t, x) \in ReceiverType
           /\ Opened(d, t, x).term = t
           /\ Opened(d, t, x).durable = Len(d.log)
           /\ Opened(d, t, x).committed = d.saved.committed
<1>1. Len(d.log) \in Nat /\ d.saved.committed \in Nat /\ d.flushed \in Nat
  BY SMT DEF DiskType, SavedType
<1>2. Replayed(d) \in Nat
  BY <1>1 DEF Replayed
<1>3. QED
  BY <1>1, <1>2 DEF Opened, ReceiverType

\* A Standby's step that writes no entry: the common part.
LEMMA FollowerQuiet ==
    ASSUME StrictInv, NEW n \in Node, NEW e \in DiskType, NEW s \in ReceiverType,
           proc[n].role \in {"opening", "standby"}, proc' \in [Node -> ProcessType],
           proc'[n].role = "standby", proc'[n].term = proc[n].term,
           \A x \in Node : x # n => proc'[x] = proc[x],
           disk' = [disk EXCEPT ![n] = e], rcv' = [rcv EXCEPT ![n] = s],
           UNCHANGED <<env, lease, late, fresh, public, tried, acked>>,
           e.log = disk[n].log, e.synced \in {disk[n].synced, Len(disk[n].log)},
           e.saved.committed >= disk[n].saved.committed,
           e.saved.committed <= s.committed,
           \/ proc[n].role = "opening" /\ s.durable = Len(disk[n].log) /\ s.term = proc[n].term
           \/ proc[n].role = "standby" /\ s.durable = rcv[n].durable /\ s.term = rcv[n].term
    PROVE  StrictInv'
<1>1. Types /\ Terms /\ Disks
  BY DEF StrictInv
<1>2. /\ disk' \in [Node -> DiskType] /\ disk'[n] = e
      /\ rcv' \in [Node -> ReceiverType] /\ rcv'[n] = s
      /\ \A x \in Node : x # n => disk'[x] = disk[x] /\ rcv'[x] = rcv[x]
  BY <1>1 DEF Types
<1>3. Types'
  BY <1>1, <1>2 DEF Types
<1>4. lease'.term >= lease.term /\ Calm
  BY <1>1, CalmFrame, SameDisk DEF clientVars
<1>5. /\ Leader(n)' /\ ~Serving(n)' /\ ~Active(n)' /\ Follows(n)' /\ ~Leads(n)'
      /\ proc[n].term <= lease.term
  BY <1>1, IdleLeader DEF Follows, Leads, Terms
<1>6. /\ Len(disk[n].log) \in Nat /\ disk[n].synced \in Nat /\ rcv[n].durable \in Nat
      /\ rcv[n].term \in Nat /\ proc[n].term \in Nat /\ lease.term \in Nat
      /\ disk[n].synced <= Len(disk[n].log)
  BY <1>1, Fields, SameDisk
<1>7. e.synced >= disk[n].synced /\ e.synced <= Len(disk[n].log)
  BY <1>6, OrderFacts
<1>8. s.term >= Floor(n) /\ s.term <= lease.term
  <2>1. CASE proc[n].role = "opening"
    <3>1. Floor(n) = proc[n].term /\ s.term = proc[n].term
      BY <2>1 DEF Floor, Follows
    <3>2. QED
      BY <1>5, <1>6, <3>1, SMT
  <2>2. CASE proc[n].role = "standby"
    <3>1. Floor(n) = rcv[n].term /\ s.term = rcv[n].term /\ rcv[n].term <= lease.term
      BY <1>1, <2>2 DEF Floor, Follows, Terms
    <3>2. QED
      BY <1>6, <3>1, SMT
  <2>3. QED
    BY <2>1, <2>2
<1>9. Floor(n)' >= Floor(n)
  BY <1>1, <1>2, <1>3, <1>4, <1>5, <1>8, FloorUp
<1>10. /\ \/ Follows(n) /\ s.durable >= rcv[n].durable
          \/ s.durable = Len(disk[n].log)
       /\ s.durable <= Len(disk[n].log)
  <2>1. CASE proc[n].role = "opening"
    BY <1>6, <2>1, SMT
  <2>2. CASE proc[n].role = "standby"
    <3>1. Follows(n) /\ s.durable = rcv[n].durable /\ rcv[n].durable <= Len(disk[n].log)
      BY <1>1, <2>2 DEF Follows, Disks
    <3>2. QED
      BY <1>6, <3>1, SMT
  <2>3. QED
    BY <2>1, <2>2
<1>11. /\ disk'[n].log = disk[n].log
       /\ disk'[n].synced >= disk[n].synced /\ disk'[n].synced <= Len(disk[n].log)
       /\ disk'[n].saved.committed >= disk[n].saved.committed
  BY <1>2, <1>7
<1>12. /\ \/ Follows(n) /\ rcv'[n].durable >= rcv[n].durable
          \/ rcv'[n].durable = Len(disk[n].log)
       /\ rcv'[n].durable <= Len(disk[n].log)
       /\ disk'[n].saved.committed <= rcv'[n].committed
       /\ rcv'[n].term <= lease'.term /\ proc'[n].term <= lease'.term
  BY <1>2, <1>5, <1>8, <1>10
<1>13. /\ late' \subseteq late
       /\ \A x \in Node : x # n =>
             disk'[x] = disk[x] /\ rcv'[x] = rcv[x] /\ proc'[x] = proc[x]
  BY <1>2
<1>14. QED
  BY <1>3, <1>4, <1>5, <1>9, <1>11, <1>12, <1>13, QuietStep

\* A Standby opens, or does not.
LEMMA OpenStandbyStep ==
    ASSUME StrictInv, NEW n \in Node, OpenStandby(n)
    PROVE  StrictInv'
<1>1. Types /\ Terms /\ Disks
  BY DEF StrictInv
<1> DEFINE t == proc[n].term
           s == Opened(disk[n], t, Peer(n))
<1>2. /\ proc[n].role = "opening"
      /\ UNCHANGED <<env, lease, late, fresh, public, tried, acked>>
  BY DEF OpenStandby, clientVars
<1>3. /\ disk[n] \in DiskType /\ t \in Nat /\ Peer(n) \in Node /\ lease.term \in Nat
      /\ disk[n].saved.committed \in Nat /\ disk[n].synced \in Nat /\ rcv[n].term \in Nat
      /\ rcv \in [Node -> ReceiverType] /\ disk \in [Node -> DiskType]
  BY <1>1, Fields, Pair DEF Types
<1>4. /\ s \in ReceiverType /\ s.term = t /\ s.durable = Len(disk[n].log)
      /\ s.committed = disk[n].saved.committed
  BY <1>3, OpenedFacts, SMT
<1> HIDE DEF s
<1>5. /\ disk[n].saved.committed >= disk[n].saved.committed
      /\ disk[n].saved.committed <= s.committed
  BY <1>3, <1>4, SMT
<1>6. ASSUME proc' = [proc EXCEPT ![n] = Down], rcv' \in [Node -> ReceiverType],
             \A x \in Node : x # n => rcv'[x] = rcv[x],
             NEW e \in DiskType, disk' = [disk EXCEPT ![n] = e], e.log = disk[n].log,
             e.synced \in {disk[n].synced, Len(disk[n].log)},
             e.saved.committed = disk[n].saved.committed
      PROVE  StrictInv'
  <2>1. /\ proc' \in [Node -> ProcessType] /\ proc'[n] = Down
        /\ \A x \in Node : x # n => proc'[x] = proc[x]
    BY <1>1, <1>6, DownFacts, NextProc
  <2>2. /\ disk' \in [Node -> DiskType] /\ disk'[n] = e
        /\ \A x \in Node : x # n => disk'[x] = disk[x]
    BY <1>1, <1>6 DEF Types
  <2>3. Types'
    BY <1>1, <1>2, <1>6, <2>1, <2>2 DEF Types
  <2>4. lease'.term >= lease.term /\ Calm
    BY <1>1, <1>2, CalmFrame, SameDisk DEF clientVars
  <2>5. /\ ~Follows(n)' /\ Leader(n)' /\ ~Serving(n)' /\ ~Active(n)' /\ ~Leads(n)'
        /\ proc'[n].role # "opening"
    BY <2>1, DownFacts, IdleLeader DEF Follows, Leads
  <2>6. proc'[n].term <= lease'.term
    BY <1>2, <1>3, <2>1, DownFacts, SMT
  <2>7. Floor(n)' >= Floor(n)
    BY <1>1, <2>3, <2>4, <2>5, FloorUp
  <2>8. Len(disk[n].log) \in Nat /\ disk[n].synced <= Len(disk[n].log)
    BY <1>1, Fields, SameDisk
  <2>9. e.synced >= disk[n].synced /\ e.synced <= Len(disk[n].log)
    BY <1>3, <1>6, <2>8, SMT
  <2>10. QED
    BY <1>2, <1>5, <1>6, <2>1, <2>2, <2>3, <2>4, <2>5, <2>6, <2>7, <2>9, QuietStep
<1>7. CASE ~MayFollow(disk[n], t, Peer(n)) \/ ~Recovers(disk[n])
  <2>1. proc' = [proc EXCEPT ![n] = Down] /\ UNCHANGED <<disk, rcv>>
    BY <1>7 DEF OpenStandby
  <2>2. disk' = [disk EXCEPT ![n] = disk[n]]
    BY <1>3, <2>1
  <2>3. QED
    BY <1>3, <1>6, <2>1, <2>2
<1>8. CASE /\ MayFollow(disk[n], t, Peer(n)) /\ Recovers(disk[n])
           /\ NeedsCheckpoint(disk[n], t)
  <2> DEFINE e == Flushed(disk[n], s)
             f == FreezeState(s, "no")
  <2>1. /\ e \in DiskType /\ e.log = disk[n].log
        /\ e.synced \in {disk[n].synced, Len(disk[n].log)}
        /\ e.saved.committed = disk[n].saved.committed
        /\ f \in ReceiverType /\ f.term = t /\ f.durable = Len(disk[n].log)
        /\ f.committed = disk[n].saved.committed
    BY <1>3, <1>4, FlushedFacts
  <2>2. /\ disk' = [disk EXCEPT ![n] = e]
        /\ proc' = [proc EXCEPT ![n] =
                      IF CannotFreeze(s) THEN Down ELSE [@ EXCEPT !.role = "standby"]]
        /\ rcv' = [rcv EXCEPT ![n] = IF CannotFreeze(s) THEN NoReceiver ELSE f]
    BY <1>8 DEF OpenStandby, s
  <2> HIDE DEF e, f
  <2>3. CASE CannotFreeze(s)
    <3>1. proc' = [proc EXCEPT ![n] = Down] /\ rcv' = [rcv EXCEPT ![n] = NoReceiver]
      BY <2>2, <2>3
    <3>2. rcv' \in [Node -> ReceiverType] /\ \A x \in Node : x # n => rcv'[x] = rcv[x]
      BY <1>3, <3>1, DownFacts
    <3>3. QED
      BY <1>6, <2>1, <2>2, <3>1, <3>2
  <2>4. CASE ~CannotFreeze(s)
    <3>1. Goto(n, "standby") /\ rcv' = [rcv EXCEPT ![n] = f]
      BY <1>1, <2>2, <2>4 DEF Goto, Types
    <3>2. /\ proc' \in [Node -> ProcessType] /\ proc'[n].role = "standby"
          /\ proc'[n].term = proc[n].term
          /\ \A x \in Node : x # n => proc'[x] = proc[x]
      BY <1>1, <1>2, <3>1, NextRole
    <3>3. /\ e.saved.committed >= disk[n].saved.committed
          /\ e.saved.committed <= f.committed
      BY <1>3, <2>1, SMT
    <3>4. QED
      BY <1>2, <2>1, <2>2, <3>1, <3>2, <3>3, FollowerQuiet
  <2>5. QED
    BY <2>3, <2>4
<1>9. CASE /\ MayFollow(disk[n], t, Peer(n)) /\ Recovers(disk[n])
           /\ ~NeedsCheckpoint(disk[n], t)
  <2>1. Goto(n, "standby") /\ rcv' = [rcv EXCEPT ![n] = s] /\ UNCHANGED disk
    BY <1>9 DEF OpenStandby, s
  <2>2. /\ proc' \in [Node -> ProcessType] /\ proc'[n].role = "standby"
        /\ proc'[n].term = proc[n].term
        /\ \A x \in Node : x # n => proc'[x] = proc[x]
    BY <1>1, <1>2, <2>1, NextRole
  <2>3. disk' = [disk EXCEPT ![n] = disk[n]]
    BY <1>3, <2>1
  <2>4. QED
    BY <1>2, <1>3, <1>4, <1>5, <2>1, <2>2, <2>3, FollowerQuiet
<1>10. QED
  BY <1>7, <1>8, <1>9

\* A Standby checkpoints.
LEMMA CheckpointStandbyStep ==
    ASSUME StrictInv, NEW n \in Node, CheckpointStandby(n)
    PROVE  StrictInv'
<1>1. Types /\ Terms /\ Disks
  BY DEF StrictInv
<1> DEFINE e == Flushed(disk[n], rcv[n])
           f == FreezeState(rcv[n], "no")
<1>2. /\ proc[n].role = "standby"
      /\ disk' = [disk EXCEPT ![n] = e] /\ rcv' = [rcv EXCEPT ![n] = f]
      /\ UNCHANGED <<env, proc, lease, late, fresh, public, tried, acked>>
  BY <1>1 DEF CheckpointStandby, clientVars, Types
<1>3. /\ e \in DiskType /\ e.log = disk[n].log
      /\ e.synced \in {disk[n].synced, Len(disk[n].log)}
      /\ e.saved.committed = rcv[n].committed
      /\ f \in ReceiverType /\ f.term = rcv[n].term /\ f.durable = rcv[n].durable
      /\ f.committed = rcv[n].committed
  BY <1>1, Fields, FlushedFacts
<1> HIDE DEF e, f
<1>4. disk[n].saved.committed <= rcv[n].committed
  BY <1>1, <1>2 DEF Disks, Follows
<1>5. /\ e.saved.committed >= disk[n].saved.committed /\ e.saved.committed <= f.committed
  BY <1>1, <1>3, <1>4, Fields, SMT
<1>6. proc' \in [Node -> ProcessType]
  BY <1>1, <1>2 DEF Types
<1>7. QED
  BY <1>2, <1>3, <1>5, <1>6, FollowerQuiet

-----------------------------------------------------------------------------
(* Messages: the step of the node that handles one.                        *)

\* A handler writes at its own node only.
LEMMA ApplyFacts ==
    ASSUME Types, NEW x \in Node, NEW M \in MessageType, Apply(x, Handled(x, M))
    PROVE  /\ disk' \in [Node -> DiskType] /\ rcv' \in [Node -> ReceiverType]
           /\ disk'[x] = Handled(x, M).disk /\ rcv'[x] = Handled(x, M).rcv
           /\ \A y \in Node : y # x => disk'[y] = disk[y] /\ rcv'[y] = rcv[y]
<1> DEFINE h == Handled(x, M)
<1>1. h.disk \in DiskType /\ h.rcv \in ReceiverType
  BY HandledOutcome DEF Outcome
<1>2. disk' = [disk EXCEPT ![x] = h.disk] /\ rcv' = [rcv EXCEPT ![x] = h.rcv]
  BY DEF Apply
<1> HIDE DEF h
<1>3. QED
  BY <1>1, <1>2 DEF Types, h

\* What is true of a node that has handled, or missed, a message for it.
Settled(x) ==
    /\ Steady(x)
    /\ ~Follows(x) => disk'[x] = disk[x]
    /\ Prefix(disk[x].log, disk'[x].log)
    /\ disk'[x].synced <= Len(disk'[x].log)
    /\ Follows(x)' => /\ rcv'[x].durable <= Len(disk'[x].log)
                      /\ disk'[x].saved.committed <= rcv'[x].committed
                      /\ rcv'[x].term <= lease'.term

\* A message a caller sends, or that nobody waits for, settles its receiver.
LEMMA Receiving ==
    ASSUME Types, Types', Terms, Disks, NEW x \in Node, NEW M \in MessageType,
           M.to = x, M.leader = Peer(x), M \in late \/ Sent(M),
           Apply(x, Handled(x, M)), proc'[x] = proc[x], lease' = lease
    PROVE  Settled(x)
<1> DEFINE h == Handled(x, M)
<1>1. Outcome(x, M, h) /\ disk'[x] = h.disk /\ rcv'[x] = h.rcv
  BY HandledOutcome, ApplyFacts
<1> HIDE DEF h
<1>2. /\ disk[x].log \in Seq(WalEntry) /\ Len(disk[x].log) \in Nat /\ disk[x].synced \in Nat
      /\ disk[x].saved.committed \in Nat /\ rcv[x].term \in Nat /\ rcv[x].durable \in Nat
      /\ rcv[x].committed \in Nat /\ lease.term \in Nat
  BY Fields
<1>3. /\ disk'[x].log \in Seq(WalEntry) /\ Len(disk'[x].log) \in Nat /\ disk'[x].synced \in Nat
      /\ disk'[x].saved.committed \in Nat /\ rcv'[x].term \in Nat /\ rcv'[x].durable \in Nat
      /\ rcv'[x].committed \in Nat
  BY FieldsNext
<1>4. M.term \in Nat /\ M.log \in Seq(WalEntry) /\ M.term <= lease.term
  BY DEF MessageType, Terms, Sent
<1>5. disk[x].synced <= Len(disk[x].log)
  BY DEF Disks
<1>6. (Follows(x)' <=> Follows(x)) /\ lease'.term >= lease.term
  BY <1>2, SMT DEF Follows
<1>7. CASE h.disk = disk[x] /\ h.rcv = rcv[x]
  <2>1. disk'[x] = disk[x] /\ rcv'[x] = rcv[x]
    BY <1>1, <1>7
  <2>2. Steady(x)
    BY <1>6, <2>1, Untouched
  <2>3. Prefix(disk[x].log, disk[x].log)
    BY <1>2, PrefixRefl
  <2>4. QED
    BY <1>5, <1>6, <2>1, <2>2, <2>3 DEF Settled, Disks, Terms
<1>8. CASE ~(h.disk = disk[x] /\ h.rcv = rcv[x])
  <2>1. /\ Follows(x) /\ M.term >= rcv[x].term /\ rcv'[x].term = M.term
        /\ disk'[x].saved.committed = disk[x].saved.committed
        /\ rcv'[x].committed >= rcv[x].committed
    BY <1>1, <1>8 DEF Outcome
  <2>2. \/ disk'[x].log = disk[x].log
        \/ disk'[x].log = M.log /\ Prefix(disk[x].log, M.log)
    BY <1>1, <1>8 DEF Outcome
  <2>3. \/ disk'[x].synced = disk[x].synced /\ rcv'[x].durable = rcv[x].durable
        \/ disk'[x].synced = Len(disk'[x].log) /\ rcv'[x].durable = Len(disk'[x].log)
    BY <1>1, <1>8 DEF Outcome
  <2>4. /\ Prefix(disk[x].log, disk'[x].log) /\ Len(disk[x].log) <= Len(disk'[x].log)
    <3>1. Prefix(disk[x].log, disk[x].log)
      BY <1>2, PrefixRefl
    <3>2. QED
      BY <2>2, <3>1 DEF Prefix
  <2>5. Floor(x) = rcv[x].term
    BY <2>1 DEF Floor
  <2>6. disk'[x].log = disk[x].log \/ Received(x)
    BY <2>1, <2>2, <2>5 DEF Received
  <2>7. rcv[x].durable <= Len(disk[x].log) /\ disk[x].saved.committed <= rcv[x].committed
    BY <2>1 DEF Disks
  <2>8. Floor(x)' >= Floor(x)
    BY <1>6, <2>1, FloorUp
  <2>9. disk'[x].synced >= disk[x].synced /\ disk'[x].synced <= Len(disk'[x].log)
    <3>1. disk'[x].synced = disk[x].synced \/ disk'[x].synced = Len(disk'[x].log)
      BY <2>3
    <3>2. disk[x].synced <= Len(disk'[x].log)
      BY <1>2, <1>3, <1>5, <2>4, OrderUp
    <3>3. QED
      BY <1>2, <1>3, <3>1, <3>2, OrderFacts
  <2>10. disk'[x].saved.committed >= disk[x].saved.committed
    BY <1>2, <2>1, OrderFacts
  <2>11. rcv'[x].durable >= rcv[x].durable /\ rcv'[x].durable <= Len(disk'[x].log)
    <3>1. rcv'[x].durable = rcv[x].durable \/ rcv'[x].durable = Len(disk'[x].log)
      BY <2>3
    <3>2. rcv[x].durable <= Len(disk'[x].log)
      BY <1>2, <1>3, <2>4, <2>7, OrderUp
    <3>3. QED
      BY <1>2, <1>3, <3>1, <3>2, OrderFacts
  <2>12. disk'[x].saved.committed <= rcv'[x].committed /\ rcv'[x].term <= lease'.term
    <3>1. rcv[x].committed <= rcv'[x].committed
      BY <1>2, <1>3, <2>1, OrderFacts
    <3>2. disk[x].saved.committed <= rcv'[x].committed
      BY <1>2, <1>3, <2>7, <3>1, OrderUp
    <3>3. QED
      BY <1>4, <2>1, <3>2
  <2>13. QED
    BY <2>1, <2>4, <2>6, <2>8, <2>9, <2>10, <2>11, <2>12 DEF Settled, Steady
<1>9. QED
  BY <1>7, <1>8

\* A message nobody waits for is handled or lost.
LEMMA ArriveLateStep ==
    ASSUME StrictInv, NEW M \in late, ArriveLate(M)
    PROVE  StrictInv'
<1>1. Types /\ Terms /\ Disks
  BY DEF StrictInv
<1> DEFINE x == M.to
<1>2. M \in MessageType /\ x \in Node /\ M.leader = Peer(x)
  BY <1>1 DEF Types, MessageType
<1>3. /\ late' = late \ {M}
      /\ UNCHANGED <<env, proc, lease, fresh, public, tried, acked>>
      /\ Apply(x, Handled(x, M)) \/ UNCHANGED <<disk, rcv>>
  BY DEF ArriveLate, clientVars
<1> HIDE DEF x
<1>4. /\ disk' \in [Node -> DiskType] /\ rcv' \in [Node -> ReceiverType]
      /\ \A y \in Node : y # x => disk'[y] = disk[y] /\ rcv'[y] = rcv[y]
  BY <1>1, <1>2, <1>3, ApplyFacts DEF Types
<1>5. Types'
  BY <1>1, <1>3, <1>4 DEF Types
<1>6. lease'.term >= lease.term /\ Calm
  <2>1. lease'.term >= lease.term
    BY <1>1, <1>2, <1>3, SameDisk
  <2>2. QED
    BY <1>3, <2>1 DEF Calm
<1>7. ASSUME NEW y \in Node, y # x \/ UNCHANGED <<disk, rcv>> PROVE Settled(y) /\ Still(y)
  <2>1. disk'[y] = disk[y] /\ rcv'[y] = rcv[y] /\ proc'[y] = proc[y]
    BY <1>3, <1>4, <1>7
  <2>2. Steady(y) /\ Still(y)
    BY <1>1, <1>5, <1>6, <2>1, Untouched
  <2>3. Prefix(disk[y].log, disk[y].log)
    BY <1>1, Fields, PrefixRefl
  <2>4. QED
    BY <1>1, <1>3, <2>1, <2>2, <2>3 DEF Settled, Disks, Terms, Follows
<1>8. ASSUME Apply(x, Handled(x, M)) PROVE Settled(x)
  BY <1>1, <1>2, <1>3, <1>5, <1>8, Receiving DEF x
<1>9. \A y \in Node : Settled(y)
  BY <1>3, <1>7, <1>8
<1>10. ASSUME NEW y \in Node
       PROVE  Still(y) \/ (Leader(y)' /\ (Serving(y)' => Server(y)'))
  <2>1. CASE Follows(y)
    BY <1>3, <2>1, IdleLeader DEF Follows
  <2>2. CASE ~Follows(y)
    <3>1. disk'[y] = disk[y]
      BY <1>9, <2>2 DEF Settled
    <3>2. QED
      BY <1>3, <3>1 DEF Still
  <2>3. QED
    BY <2>1, <2>2
<1>11. Disks' /\ \A y \in Node : Steady(y)
  BY <1>9 DEF Disks, Settled
<1>12. Terms'
  <2>1. \A y \in Node : /\ proc'[y].term <= lease'.term
                        /\ Follows(y)' => rcv'[y].term <= lease'.term
    BY <1>1, <1>3, <1>9 DEF Settled, Terms
  <2>2. \A y \in Node : /\ Leads(y)' => /\ Leads(y) /\ proc'[y].term = proc[y].term
                                        /\ Prefix(disk[y].log, disk'[y].log)
                        /\ Active(y)' => Active(y)
    BY <1>3, <1>9 DEF Settled, Leads, Active
  <2>3. QED
    BY <1>1, <1>3, <1>5, <1>6, <2>1, <2>2, TermsKept
<1>13. QED
  BY <1>5, <1>6, <1>10, <1>11, <1>12, SteadyStep

-----------------------------------------------------------------------------
(* Calls: the step of the node that sends a message.                       *)

\* The messages a leader sends: a part of its log that it vouches for.
LEMMA MessageFacts ==
    ASSUME StrictInv, NEW n \in Node, Active(n), NEW from \in Nat, NEW through \in Nat,
           NEW kind, kind \in {"append", "barrier", "advance"},
           kind = "append" => through <= Len(disk[n].log) /\ Vouches(disk[n], through)
    PROVE  LET M == Message(n, kind, from, through)
           IN  /\ M \in MessageType /\ M.to = Peer(n) /\ M.leader = n /\ M.kind = kind
               /\ M.term = proc[n].term /\ M.through = through
               /\ kind = "append" => M.log = SubSeq(disk[n].log, 1, through)
               /\ Sent(M)
<1> DEFINE M == Message(n, kind, from, through)
<1>1. Types
  BY DEF StrictInv
<1>2. /\ Peer(n) \in Node /\ proc[n].term \in Nat /\ disk[n].synced \in Nat
      /\ disk[n].log \in Seq(WalEntry) /\ Len(disk[n].log) \in Nat
  BY <1>1, Fields, Pair
<1>3. /\ M.to = Peer(n) /\ M.leader = n /\ M.kind = kind /\ M.term = proc[n].term
      /\ M.through = through /\ M.from = from
      /\ M.log = IF kind = "append" THEN SubSeq(disk[n].log, 1, through) ELSE <<>>
  BY DEF Message
<1>4. /\ M.log \in Seq(WalEntry) /\ Prefix(M.log, disk[n].log)
      /\ Vouches(disk[n], Len(M.log))
  <2>1. CASE kind = "append"
    <3>1. through \in 0..Len(disk[n].log) /\ M.log = SubSeq(disk[n].log, 1, through)
      BY <1>2, <1>3, <2>1, SMT
    <3>2. M.log \in Seq(WalEntry) /\ Len(M.log) = through /\ Prefix(M.log, disk[n].log)
      BY <1>2, <3>1, CutLog
    <3>3. QED
      BY <2>1, <3>2
  <2>2. CASE kind # "append"
    <3>1. M.log = <<>> /\ Len(<<>>) = 0 /\ <<>> \in Seq(WalEntry)
      BY <1>3, <2>2, SMT
    <3>2. QED
      BY <1>2, <3>1, SMT DEF Prefix, Vouches
  <2>3. QED
    BY <2>1, <2>2
<1>5. M \in MessageType
  BY <1>2, <1>3, <1>4 DEF Message, MessageType
<1>6. Sent(M)
  BY <1>3, <1>4 DEF Sent
<1>7. QED
  BY <1>3, <1>5, <1>6

\* Node n has sent M and goes on as p: the other node handled M, or the message
\* is still under way.
Called(n, M, p) ==
    /\ Active(n) /\ M \in MessageType /\ M.to = Peer(n) /\ M.leader = n /\ Sent(M)
    /\ p \in ProcessType /\ proc' = [proc EXCEPT ![n] = p]
    /\ UNCHANGED <<env, lease, fresh, public, tried>>
    /\ \A r \in acked' : /\ r \in Request
                         /\ \/ r \in acked
                            \/ Expected[r] < Len(public) /\ public[Expected[r] + 1] = r
    /\ \/ Apply(Peer(n), Handled(Peer(n), M)) /\ UNCHANGED late
       \/ late' = late \cup {M} /\ UNCHANGED <<disk, rcv>>

\* What a call changes, whoever answers.
LEMMA CallFacts ==
    ASSUME StrictInv, NEW n \in Node, NEW M, NEW p, Called(n, M, p),
           p.role \notin {"opening", "standby"}
    PROVE  /\ Types' /\ Calm /\ Unforked'
           /\ proc'[n] = p /\ proc'[Peer(n)] = proc[Peer(n)]
           /\ disk'[n] = disk[n] /\ Peer(n) \in Node /\ Peer(n) # n
           /\ Settled(n) /\ Settled(Peer(n))
           /\ Contacted(n) /\ p.term = proc[n].term => Contacted(n)'
<1> DEFINE x == Peer(n)
<1>1. Types /\ Terms /\ Disks /\ Unforked
  BY DEF StrictInv
<1>2. x \in Node /\ x # n /\ Peer(x) = n /\ \A y \in Node : y = n \/ y = x
  BY Pair
<1> HIDE DEF x
<1>3. /\ Active(n) /\ M \in MessageType /\ M.to = x /\ M.leader = n /\ Sent(M)
      /\ p \in ProcessType /\ proc' = [proc EXCEPT ![n] = p]
      /\ UNCHANGED <<env, lease, fresh, public, tried>>
      /\ \/ Apply(x, Handled(x, M)) /\ UNCHANGED late
         \/ late' = late \cup {M} /\ UNCHANGED <<disk, rcv>>
  BY DEF Called, x
<1>4. /\ proc' \in [Node -> ProcessType] /\ proc'[n] = p /\ proc'[x] = proc[x]
  BY <1>1, <1>2, <1>3, NextProc
<1>5. /\ disk' \in [Node -> DiskType] /\ rcv' \in [Node -> ReceiverType]
      /\ disk'[n] = disk[n] /\ rcv'[n] = rcv[n]
  BY <1>1, <1>2, <1>3, ApplyFacts DEF Types
<1>6. Types'
  <2>1. late' \subseteq MessageType /\ \A m \in late' : m.leader = Peer(m.to)
    BY <1>1, <1>2, <1>3 DEF Types
  <2>2. acked' \subseteq Request
    BY DEF Called
  <2>3. QED
    BY <1>1, <1>3, <1>4, <1>5, <2>1, <2>2 DEF Types
<1>7. lease'.term >= lease.term /\ Calm
  <2>1. lease'.term >= lease.term
    BY <1>1, <1>3, SameDisk
  <2>2. \A m \in late' : m \in late \/ Sent(m)
    BY <1>3
  <2>3. QED
    BY <1>3, <2>1, <2>2 DEF Calm, Called
<1>8. ASSUME NEW y \in Node PROVE Prefix(disk[y].log, disk[y].log)
  BY <1>1, Fields, PrefixRefl
<1>9. Settled(n)
  <2>1. ~Follows(n)' /\ ~(proc'[n].role = "opening") /\ ~Follows(n)
    BY <1>3, <1>4 DEF Follows, Active
  <2>2. Floor(n)' >= Floor(n)
    BY <1>1, <1>6, <1>7, <2>1, FloorUp
  <2>3. QED
    BY <1>1, <1>5, <1>8, <2>1, <2>2, SameDisk DEF Settled, Steady
<1>10. Settled(x)
  <2>1. CASE Apply(x, Handled(x, M))
    BY <1>1, <1>2, <1>3, <1>4, <1>6, <2>1, Receiving
  <2>2. CASE UNCHANGED <<disk, rcv>>
    <3>1. disk'[x] = disk[x] /\ rcv'[x] = rcv[x]
      BY <2>2
    <3>2. Steady(x)
      BY <1>1, <1>2, <1>4, <1>6, <1>7, <3>1, Untouched
    <3>3. QED
      BY <1>1, <1>2, <1>3, <1>4, <1>8, <3>1, <3>2 DEF Settled, Disks, Terms, Follows
  <2>3. QED
    BY <1>3, <2>1, <2>2
<1>11. \A y \in Node : Steady(y)
  BY <1>2, <1>9, <1>10 DEF Settled
<1>12. NoNewLogs
  BY <1>1, <1>6, <1>7, <1>11, SteadyLogs DEF Calm
<1>13. Unforked'
  BY <1>1, <1>6, <1>7, <1>11, <1>12, UnforkedKept DEF Calm
<1>14. ASSUME Contacted(n), p.term = proc[n].term PROVE Contacted(n)'
  <2>1. Floor(x)' >= Floor(x) /\ Floor(x) >= proc[n].term /\ proc'[n].term = proc[n].term
    BY <1>2, <1>4, <1>11, <1>14 DEF Contacted, Steady, x
  <2>2. Floor(x)' \in Nat /\ Floor(x) \in Nat /\ proc[n].term \in Nat
    BY <1>1, <1>2, <1>6, Fields, FieldsNext
  <2>3. Floor(x)' >= proc'[n].term
    BY <2>1, <2>2, SMT
  <2>4. QED
    BY <2>3 DEF Contacted, x
<1>15. QED
  BY <1>2, <1>4, <1>5, <1>6, <1>7, <1>9, <1>10, <1>13, <1>14 DEF x

\* A call keeps the invariant if what its sender then relies on holds.
LEMMA CallStep ==
    ASSUME StrictInv, NEW n \in Node, NEW M, NEW p, Called(n, M, p),
           p.role \notin {"opening", "standby"},
           p.term = proc[n].term \/ p = Down,
           Leader(n)', Serving(n)' => Server(n)'
    PROVE  StrictInv'
<1> DEFINE x == Peer(n)
<1>1. Types /\ Terms /\ Disks
  BY DEF StrictInv
<1>2. x \in Node /\ x # n /\ \A y \in Node : y = n \/ y = x
  BY Pair
<1>3. /\ Types' /\ Calm /\ proc'[n] = p /\ proc'[x] = proc[x]
      /\ Settled(n) /\ Settled(x)
  BY CallFacts
<1> HIDE DEF x
<1>4. lease' = lease /\ Active(n)
  BY DEF Called
<1>5. \A y \in Node : Settled(y)
  BY <1>2, <1>3
<1>6. Disks' /\ \A y \in Node : Steady(y)
  BY <1>5 DEF Disks, Settled
<1>7. ASSUME NEW y \in Node
      PROVE  Still(y) \/ (Leader(y)' /\ (Serving(y)' => Server(y)'))
  <2>1. CASE y = n
    BY <2>1
  <2>2. CASE y # n /\ Follows(y)
    BY <1>2, <1>3, <2>2, IdleLeader DEF Follows
  <2>3. CASE y # n /\ ~Follows(y)
    <3>1. disk'[y] = disk[y] /\ proc'[y] = proc[y]
      BY <1>2, <1>3, <1>5, <2>3 DEF Settled
    <3>2. QED
      BY <3>1 DEF Still
  <2>4. QED
    BY <2>1, <2>2, <2>3
<1>8. Terms'
  <2>1. 0 <= lease.term
    BY <1>1, Fields, SMT
  <2>2. \A y \in Node : /\ proc'[y].term <= lease'.term
                        /\ Follows(y)' => rcv'[y].term <= lease'.term
    <3>1. proc'[n].term <= lease'.term
      BY <1>1, <1>3, <1>4, <2>1, DownFacts DEF Terms
    <3>2. proc'[x].term <= lease'.term
      BY <1>1, <1>2, <1>3, <1>4 DEF Terms
    <3>3. QED
      BY <1>2, <1>5, <3>1, <3>2 DEF Settled
  <2>3. \A y \in Node : /\ Leads(y)' => /\ Leads(y) /\ proc'[y].term = proc[y].term
                                        /\ Prefix(disk[y].log, disk'[y].log)
                        /\ Active(y)' => Active(y)
    BY <1>2, <1>3, <1>4, <1>5, DownFacts DEF Settled, Leads, Active
  <2>4. QED
    BY <1>1, <1>3, <2>2, <2>3, TermsKept DEF Calm
<1>9. QED
  BY <1>3, <1>6, <1>7, <1>8, SteadyStep

\* The three ways a call ends.
LEMMA RpcCases ==
    ASSUME NEW n \in Node, NEW M, NEW done, NEW refused, NEW lost,
           Rpc(n, M, done, refused, lost)
    PROVE  LET x == Peer(n)
               h == Handled(x, M)
           IN
           \/ /\ h.ok /\ Apply(x, h) /\ UNCHANGED late
              /\ proc' = [proc EXCEPT ![n] = done]
           \/ /\ Apply(x, h) /\ UNCHANGED late
              /\ proc' = [proc EXCEPT ![n] = refused]
           \/ /\ \/ Apply(x, h) /\ UNCHANGED late
                 \/ late' = late \cup {M} /\ UNCHANGED <<disk, rcv>>
              /\ proc' = [proc EXCEPT ![n] = lost]
<1> DEFINE h == Handled(Peer(n), M)
<1>1. CASE h.ok
  BY <1>1 DEF Rpc
<1>2. CASE ~h.ok
  BY <1>2 DEF Rpc
<1>3. QED
  BY <1>1, <1>2

\* A good answer: the other node is a Standby in the sender's Term.
LEMMA GoodAnswer ==
    ASSUME StrictInv, NEW n \in Node, NEW M, NEW p, Called(n, M, p),
           p.role \notin {"opening", "standby"},
           p.term = proc[n].term, Handled(Peer(n), M).ok,
           Apply(Peer(n), Handled(Peer(n), M))
    PROVE  LET x == Peer(n)
           IN  /\ Contacted(n)' /\ Follows(x)'
               /\ disk'[x] = Handled(x, M).disk /\ rcv'[x] = Handled(x, M).rcv
               /\ M.kind = "append" => Prefix(M.log, disk'[x].log)
               /\ M.kind = "barrier" => M.through <= Len(disk'[x].log)
<1> DEFINE x == Peer(n)
           h == Handled(x, M)
<1>1. Types
  BY DEF StrictInv
<1>2. M \in MessageType /\ x \in Node /\ M.leader = n /\ Sent(M)
  BY Pair DEF Called
<1>3. Outcome(x, M, h) /\ disk'[x] = h.disk /\ rcv'[x] = h.rcv
  BY <1>1, <1>2, HandledOutcome, ApplyFacts
<1>4. Types' /\ proc'[n] = p /\ proc'[x] = proc[x]
  BY CallFacts, SMT
<1>5. h.ok
  OBVIOUS
<1> HIDE DEF h
<1>6. /\ Follows(x) /\ h.rcv.term = M.term
      /\ M.kind = "append" => Prefix(M.log, h.disk.log)
      /\ M.kind = "barrier" => M.through <= Len(h.disk.log)
  BY <1>3, <1>5 DEF Outcome
<1>7. Follows(x)' /\ M.term = proc[n].term /\ proc[n].term \in Nat
  BY <1>1, <1>2, <1>4, <1>6, Fields DEF Follows, Sent
<1>8. Floor(x)' = rcv'[x].term
  BY <1>7 DEF Floor
<1>9. Floor(x)' >= proc'[n].term
  BY <1>3, <1>4, <1>6, <1>7, <1>8, SMT
<1>10. Contacted(n)'
  BY <1>9 DEF Contacted
<1>11. QED
  BY <1>3, <1>6, <1>7, <1>10 DEF h

\* A call that the clients do not notice.
LEMMA CalledFrame ==
    ASSUME StrictInv, NEW n \in Node, NEW M, NEW p, Active(n), M \in MessageType,
           M.to = Peer(n), M.leader = n, Sent(M), p \in ProcessType,
           proc' = [proc EXCEPT ![n] = p],
           UNCHANGED <<env, lease, fresh, clientVars>>,
           \/ Apply(Peer(n), Handled(Peer(n), M)) /\ UNCHANGED late
           \/ late' = late \cup {M} /\ UNCHANGED <<disk, rcv>>
    PROVE  Called(n, M, p)
<1>1. acked \subseteq Request
  BY DEF StrictInv, Types
<1>2. QED
  BY <1>1 DEF Called, clientVars

\* How a call ends that the clients do not notice.
LEMMA RpcCalled ==
    ASSUME StrictInv, NEW n \in Node, NEW M, NEW done, NEW refused, NEW lost,
           Rpc(n, M, done, refused, lost), Active(n), M \in MessageType,
           M.to = Peer(n), M.leader = n, Sent(M),
           done \in ProcessType, refused \in ProcessType, lost \in ProcessType,
           UNCHANGED <<env, lease, fresh, clientVars>>
    PROVE  \/ /\ Called(n, M, done) /\ Handled(Peer(n), M).ok
              /\ Apply(Peer(n), Handled(Peer(n), M))
           \/ Called(n, M, refused)
           \/ Called(n, M, lost)
<1> DEFINE h == Handled(Peer(n), M)
<1>1. \/ /\ h.ok /\ Apply(Peer(n), h) /\ UNCHANGED late
         /\ proc' = [proc EXCEPT ![n] = done]
      \/ /\ Apply(Peer(n), h) /\ UNCHANGED late
         /\ proc' = [proc EXCEPT ![n] = refused]
      \/ /\ \/ Apply(Peer(n), h) /\ UNCHANGED late
            \/ late' = late \cup {M} /\ UNCHANGED <<disk, rcv>>
         /\ proc' = [proc EXCEPT ![n] = lost]
  BY RpcCases, SMT
<1>2. CASE /\ h.ok /\ Apply(Peer(n), h) /\ UNCHANGED late
           /\ proc' = [proc EXCEPT ![n] = done]
  BY <1>2, CalledFrame
<1>3. CASE /\ Apply(Peer(n), h) /\ UNCHANGED late
           /\ proc' = [proc EXCEPT ![n] = refused]
  BY <1>3, CalledFrame
<1>4. CASE /\ \/ Apply(Peer(n), h) /\ UNCHANGED late
              \/ late' = late \cup {M} /\ UNCHANGED <<disk, rcv>>
           /\ proc' = [proc EXCEPT ![n] = lost]
  BY <1>4, CalledFrame
<1>5. QED
  BY <1>1, <1>2, <1>3, <1>4

\* Catching up ends: the process gives up, or plans anew.
LEMMA CatchUpEnds ==
    ASSUME StrictInv, NEW n \in Node, NEW M, NEW p, Called(n, M, p),
           proc[n].role \in {"append", "barrier", "advance"},
           p = Down \/ p = [proc[n] EXCEPT !.role = "plan"]
    PROVE  StrictInv'
<1>1. Types /\ Leader(n)
  BY DEF StrictInv, Leaders
<1>2. CASE p = Down
  <2>1. p.role = "down"
    BY <1>2, DownFacts
  <2>2. proc'[n] = p
    BY <2>1, CallFacts, SMT
  <2>3. Leader(n)' /\ ~Serving(n)'
    BY <2>1, <2>2, IdleLeader
  <2>4. QED
    BY <1>2, <2>1, <2>3, CallStep
<1>3. CASE p = [proc[n] EXCEPT !.role = "plan"]
  <2>1. p.role = "plan" /\ p.term = proc[n].term
    BY <1>1, <1>3, Fields DEF ProcessType
  <2>2. proc'[n] = p /\ disk'[n] = disk[n]
    BY <2>1, CallFacts, SMT
  <2>3. Len(disk[n].log) <= disk[n].saved.committed
    BY <1>1 DEF Leader
  <2>4. Leader(n)' /\ ~Serving(n)'
    BY <2>1, <2>2, <2>3 DEF Leader, Matched, Serving
  <2>5. QED
    BY <2>1, <2>4, CallStep
<1>4. QED
  BY <1>2, <1>3

\* Catching up goes on with the next chunk, or waits for this one.
LEMMA CatchUpGoesOn ==
    ASSUME StrictInv, NEW n \in Node, NEW M, NEW p, Called(n, M, p),
           proc[n].role \in {"append", "barrier"},
           p.role \in {"append", "barrier"}, p.term = proc[n].term,
           p.role = "barrier" => /\ p.sent = proc[n].sent
                                 /\ ChunkEnd(n) <= Len(disk[n].log)
    PROVE  StrictInv'
<1>1. Leader(n)
  BY DEF StrictInv, Leaders
<1>2. proc'[n] = p /\ disk'[n] = disk[n]
  BY CallFacts, SMT
<1>3. Len(disk[n].log) <= disk[n].saved.committed /\ Len(disk[n].log) >= Len(public)
  BY <1>1 DEF Leader
<1>4. p.role = "barrier" => ChunkEnd(n)' <= Len(disk[n].log)
  BY <1>2 DEF ChunkEnd
<1>5. public' = public
  BY DEF Called
<1>6. Leader(n)' /\ ~Serving(n)'
  BY <1>2, <1>3, <1>4, <1>5 DEF Leader, Matched, Serving
<1>7. QED
  BY <1>6, CallStep

\* Primary.CatchUp: a chunk of the log.
LEMMA CatchUpAppendStep ==
    ASSUME StrictInv, NEW n \in Node, CatchUpAppend(n)
    PROVE  StrictInv'
<1>1. Types
  BY DEF StrictInv
<1> DEFINE M == Message(n, "append", proc[n].sent + 1, ChunkEnd(n))
           next == [proc[n] EXCEPT !.role = "barrier"]
           plan == [proc[n] EXCEPT !.role = "plan"]
<1>2. /\ proc[n].role = "append" /\ ChunkEnd(n) <= Len(disk[n].log)
      /\ Rpc(n, M, next, Down, plan)
      /\ UNCHANGED <<env, lease, fresh, clientVars>>
  BY DEF CatchUpAppend
<1>3. /\ proc[n] \in ProcessType /\ proc[n].role # "serving"
      /\ proc[n].sent \in Nat /\ disk[n].saved.committed \in Nat
      /\ Chunk \in Nat /\ Active(n)
  BY <1>1, <1>2, Fields, AppendAssumption DEF Active
<1>4. /\ next \in ProcessType /\ next.role = "barrier" /\ next.term = proc[n].term
      /\ next.sent = proc[n].sent /\ plan \in ProcessType
  BY <1>3 DEF ProcessType
<1>5. /\ ChunkEnd(n) \in Nat /\ proc[n].sent + 1 \in Nat /\ Vouches(disk[n], ChunkEnd(n))
  BY <1>3, SMT DEF ChunkEnd, Least, Vouches
<1>6. M \in MessageType /\ M.to = Peer(n) /\ M.leader = n /\ Sent(M)
  BY <1>2, <1>3, <1>5, MessageFacts, SMT
<1>7. \/ Called(n, M, next) \/ Called(n, M, Down) \/ Called(n, M, plan)
  <2> HIDE DEF M, next, plan
  <2>1. QED
    BY <1>2, <1>3, <1>4, <1>6, DownFacts, RpcCalled
<1> HIDE DEF M, next
<1>8. CASE Called(n, M, next)
  BY <1>2, <1>4, <1>8, CatchUpGoesOn
<1>9. QED
  BY <1>2, <1>7, <1>8, CatchUpEnds

\* Primary.CatchUp: the Standby answers for the chunk.
LEMMA CatchUpBarrierStep ==
    ASSUME StrictInv, NEW n \in Node, CatchUpBarrier(n)
    PROVE  StrictInv'
<1>1. Types /\ Leader(n) /\ Disks
  BY DEF StrictInv, Leaders
<1> DEFINE through == ChunkEnd(n)
           committed == disk[n].saved.committed
           M == Message(n, "barrier", 0, through)
           next == [proc[n] EXCEPT !.sent = through,
                       !.role = IF through < committed THEN "append" ELSE "advance"]
           plan == [proc[n] EXCEPT !.role = "plan"]
           done == IF ~AckMatches(n, through) THEN Down ELSE next
<1>2. /\ proc[n].role = "barrier" /\ Rpc(n, M, done, Down, plan)
      /\ UNCHANGED <<env, lease, fresh, clientVars>>
  BY DEF CatchUpBarrier
<1>3. /\ proc[n] \in ProcessType /\ proc[n].role # "serving"
      /\ proc[n].sent \in Nat /\ committed \in Nat
      /\ Chunk \in Nat /\ Active(n) /\ Len(disk[n].log) \in Nat
      /\ disk[n].log \in Seq(WalEntry)
  BY <1>1, <1>2, Fields, AppendAssumption DEF Active
<1>4. through \in Nat /\ 0 \in Nat /\ through <= committed
  BY <1>3, SMT DEF ChunkEnd, Least
<1>5. /\ next \in ProcessType /\ plan \in ProcessType /\ next.term = proc[n].term
      /\ next.role = IF through < committed THEN "append" ELSE "advance"
  BY <1>3, <1>4 DEF ProcessType
<1>6. /\ M \in MessageType /\ M.to = Peer(n) /\ M.leader = n /\ Sent(M)
      /\ M.kind = "barrier" /\ M.through = through
  BY <1>3, <1>4, MessageFacts, SMT
<1>7. /\ Len(disk[n].log) <= committed /\ Len(disk[n].log) >= Len(public)
      /\ through <= Len(disk[n].log)
  BY <1>1, <1>2 DEF Leader
<1>8. \/ /\ Called(n, M, next) /\ AckMatches(n, through) /\ Handled(Peer(n), M).ok
         /\ Apply(Peer(n), Handled(Peer(n), M))
      \/ Called(n, M, Down) \/ Called(n, M, plan)
  <2>1. CASE AckMatches(n, through)
    <3>1. Rpc(n, M, next, Down, plan)
      BY <1>2, <2>1
    <3> HIDE DEF M, next, plan
    <3>2. QED
      BY <1>2, <1>3, <1>5, <1>6, <2>1, <3>1, DownFacts, RpcCalled
  <2>2. CASE ~AckMatches(n, through)
    <3>1. Rpc(n, M, Down, Down, plan)
      BY <1>2, <2>2
    <3> HIDE DEF M, next, plan
    <3>2. QED
      BY <1>2, <1>3, <1>5, <1>6, <3>1, DownFacts, RpcCalled
  <2>3. QED
    BY <2>1, <2>2
<1>9. ASSUME Called(n, M, next), AckMatches(n, through), Handled(Peer(n), M).ok,
             Apply(Peer(n), Handled(Peer(n), M))
      PROVE  StrictInv'
  <2>1. AckMatches(n, through) <=>
           /\ Handled(Peer(n), M).rcv.durable = through
           /\ Handled(Peer(n), M).rcv.term = proc[n].term
           /\ SubSeq(Handled(Peer(n), M).disk.log, 1, through)
                = SubSeq(disk[n].log, 1, through)
    BY DEF AckMatches
  <2> HIDE DEF M, next
  <2>2. CASE through < committed
    <3>1. next.role = "append"
      BY <1>5, <2>2
    <3>2. QED
      BY <1>2, <1>5, <1>9, <3>1, CatchUpGoesOn
  <2>3. CASE ~(through < committed)
    <3> DEFINE x == Peer(n)
    <3>1. next.role = "advance" /\ next.role \notin {"opening", "standby"}
      BY <1>5, <2>3
    <3>2. /\ Contacted(n)' /\ Follows(x)' /\ through <= Len(disk'[x].log)
          /\ disk'[x] = Handled(x, M).disk /\ rcv'[x] = Handled(x, M).rcv
      BY <1>5, <1>6, <1>9, <3>1, GoodAnswer
    <3>3. /\ Types' /\ Unforked' /\ proc'[n] = next /\ disk'[n] = disk[n]
          /\ x \in Node /\ Settled(x)
      <4>1. Types' /\ Unforked'
        BY <1>9, <3>1, CallFacts
      <4>2. proc'[n] = next
        BY <1>1, <1>5, <1>9, NextProc DEF Called
      <4>3. disk'[n] = disk[n] /\ x \in Node /\ Settled(x)
        BY <1>9, <3>1, CallFacts
      <4>4. QED
        BY <4>1, <4>2, <4>3
    <3>4. through = committed /\ Len(disk[n].log) = committed
      <4>1. committed <= through
        BY <1>3, <1>4, <2>3, OrderTotal
      <4>2. through = committed
        BY <1>3, <1>4, <4>1, OrderTotal
      <4>3. QED
        BY <1>3, <1>7, <4>2, OrderTotal
    <3>5. /\ disk'[x].log \in Seq(WalEntry) /\ Len(disk'[x].log) \in Nat
          /\ rcv'[x].durable \in Nat
      BY <3>3, FieldsNext
    <3>6. /\ rcv'[x].durable = Len(disk[n].log)
          /\ SubSeq(disk'[x].log, 1, through) = SubSeq(disk[n].log, 1, through)
      BY <1>9, <2>1, <3>2, <3>4
    <3>7. \A i \in 1..through : disk'[x].log[i] = disk[n].log[i]
      BY <1>3, <1>4, <1>7, <3>2, <3>5, <3>6, SameEntries
    <3>8. Prefix(disk[n].log, disk'[x].log)
      BY <3>2, <3>4, <3>7 DEF Prefix
    <3>9. Comparable(disk[n].log, disk'[x].log)
      BY <1>3, <3>5, <3>8, PrefixComparable
    <3>10. Copied(n)'
      <4>1. /\ Len(disk'[x].log) >= Len(disk[n].log)
            /\ rcv'[x].durable >= Len(disk[n].log)
        BY <1>3, <3>2, <3>4, <3>5, <3>6, OrderFacts
      <4>2. QED
        BY <3>3, <4>1 DEF Copied
    <3>11. Ahead(n)'
      <4>1. SUFFICES ASSUME ~env'.loss PROVE Len(disk'[x].log) <= Len(disk[n].log)
        BY <3>3 DEF Ahead
      <4>2. \/ Len(disk'[x].log) <= rcv'[x].durable
            \/ Len(disk'[x].log) <= disk'[n].synced
            \/ Len(disk'[x].log) <= disk'[n].saved.committed
        <5>1. Peer(x) = n
          BY Pair
        <5>2. QED
          BY <3>2, <3>3, <4>1, <5>1 DEF Unforked, Vouches
      <4>3. disk[n].synced \in Nat /\ disk[n].synced <= Len(disk[n].log)
        BY <1>1, Fields, SameDisk
      <4>4. \/ Len(disk'[x].log) <= Len(disk[n].log)
            \/ Len(disk'[x].log) <= disk[n].synced
        BY <3>3, <3>4, <3>6, <4>2
      <4>5. QED
        BY <1>3, <3>5, <4>3, <4>4, OrderUp
    <3>12. public' = public
      BY <1>2 DEF clientVars
    <3>13. Leader(n)' /\ ~Serving(n)'
      <4>1. /\ proc'[n].role = "advance"
            /\ Len(disk[n].log) <= committed /\ Len(disk[n].log) >= Len(public)'
            /\ Len(disk[n].log) = committed
        BY <1>7, <3>1, <3>3, <3>4, <3>12
      <4> HIDE DEF next
      <4>2. QED
        BY <3>2, <3>3, <3>9, <3>10, <3>11, <4>1 DEF Leader, Matched, Serving
    <3>14. QED
      BY <1>5, <1>9, <3>1, <3>13, CallStep
  <2>4. QED
    BY <2>2, <2>3
<1> HIDE DEF M, next
<1>10. QED
  BY <1>2, <1>8, <1>9, CatchUpEnds

\* Primary.CatchUp: the Standby is told how far it may apply.
LEMMA CatchUpAdvanceStep ==
    ASSUME StrictInv, NEW n \in Node, CatchUpAdvance(n)
    PROVE  StrictInv'
<1>1. Types /\ Terms /\ Disks /\ Unforked /\ Leader(n)
  BY DEF StrictInv, Leaders
<1> DEFINE M == Message(n, "advance", 0, disk[n].saved.committed)
           next == [proc[n] EXCEPT !.role = "ready"]
           plan == [proc[n] EXCEPT !.role = "plan"]
           x == Peer(n)
<1>2. /\ proc[n].role = "advance" /\ Rpc(n, M, next, Down, plan)
      /\ UNCHANGED <<env, lease, fresh, clientVars>>
  BY DEF CatchUpAdvance
<1>3. /\ proc[n] \in ProcessType /\ proc[n].role # "serving"
      /\ disk[n].saved.committed \in Nat /\ 0 \in Nat
      /\ Active(n) /\ Leads(n) /\ disk[n].log \in Seq(WalEntry) /\ disk[n].synced \in Nat
      /\ Len(disk[n].log) \in Nat
  BY <1>1, <1>2, Fields DEF Active, Leads
<1>4. /\ next \in ProcessType /\ next.role = "ready" /\ next.term = proc[n].term
      /\ plan \in ProcessType
  BY <1>3 DEF ProcessType
<1>5. M \in MessageType /\ M.to = Peer(n) /\ M.leader = n /\ Sent(M)
  BY <1>3, MessageFacts, SMT
<1>6. \/ /\ Called(n, M, next) /\ Handled(x, M).ok /\ Apply(x, Handled(x, M))
      \/ Called(n, M, Down) \/ Called(n, M, plan)
  <2> HIDE DEF M, next, plan
  <2>1. QED
    BY <1>2, <1>3, <1>4, <1>5, DownFacts, RpcCalled
<1> HIDE DEF M, next
<1>7. ASSUME Called(n, M, next), Handled(x, M).ok, Apply(x, Handled(x, M))
      PROVE  StrictInv'
  <2>1. Contacted(n)'
    BY <1>4, <1>7, GoodAnswer
  <2>2. /\ Types' /\ proc'[n] = next /\ disk'[n] = disk[n] /\ x \in Node /\ Steady(x)
    <3>1. next.role \notin {"opening", "standby"}
      BY <1>4
    <3>2. Types' /\ proc'[n] = next /\ disk'[n] = disk[n]
      BY <1>7, <3>1, CallFacts
    <3>3. x \in Node /\ Settled(x)
      BY <1>7, <3>1, CallFacts
    <3>4. QED
      BY <3>2, <3>3 DEF Settled
  <2>3. /\ Len(disk[n].log) <= disk[n].saved.committed /\ Len(disk[n].log) >= Len(public)
        /\ Len(disk[n].log) = disk[n].saved.committed
        /\ Comparable(disk[n].log, disk[x].log) /\ Copied(n) /\ Ahead(n)
        /\ Contacted(n) \/ Prefix(disk[n].log, disk[x].log)
    BY <1>1, <1>2 DEF Leader, Matched
  <2>4. env' = env /\ fresh' = fresh /\ public' = public
    BY <1>2 DEF clientVars
  <2>5. Comparable(disk[n].log, disk'[x].log)
    <3>1. proc'[n].term = proc[n].term /\ disk'[n].log = disk[n].log
      BY <1>4, <2>2
    <3>2. \/ Comparable(disk'[n].log, disk'[x].log)
          \/ Prefix(disk'[n].log, disk'[x].log)
      BY <1>1, <1>3, <2>2, <2>3, <3>1, OtherLog
    <3>3. disk'[x].log \in Seq(WalEntry)
      BY <2>2, FieldsNext
    <3>4. QED
      BY <1>3, <3>1, <3>2, <3>3, PrefixComparable
  <2>6. Copied(n)'
    BY <1>1, <2>2, <2>3, <2>4, OtherCopied
  <2>7. Ahead(n)'
    <3>1. disk[n].synced <= Len(disk[n].log) /\ disk[n].saved.committed <= Len(disk[n].log)
      BY <1>1, <1>3, <2>3 DEF Disks
    <3>2. QED
      BY <1>1, <2>2, <2>3, <2>4, <3>1, OtherBehind
  <2>8. Leader(n)' /\ ~Serving(n)'
    BY <1>4, <2>1, <2>2, <2>3, <2>4, <2>5, <2>6, <2>7 DEF Leader, Matched, Serving
  <2>9. QED
    BY <1>4, <1>7, <2>8, CallStep
<1>8. QED
  BY <1>2, <1>6, <1>7, CatchUpEnds

-----------------------------------------------------------------------------
(* Replicating an entry.                                                   *)

\* A serving node calls and goes on serving.
LEMMA ServingCall ==
    ASSUME StrictInv, NEW n \in Node, NEW M, NEW p, Called(n, M, p), Serving(n),
           p.role = "serving", p.term = proc[n].term, p.applied = proc[n].applied,
           p.stage \in {"none", "sent", "replicated"},
           p.stage = "none" => p.fatal \/ proc[n].stage = "committed",
           p.stage # "none" => /\ proc[n].stage \in {"synced", "sent"}
                               /\ p.req = proc[n].req
                               /\ Contacted(n)'
                               /\ Comparable(disk[n].log, disk[Peer(n)].log)',
           p.stage = "replicated" => Copied(n)'
    PROVE  StrictInv'
<1>1. Types /\ Disks /\ Unforked /\ Server(n)
  BY DEF StrictInv, Leaders
<1>2. /\ Types' /\ proc'[n] = p /\ disk'[n] = disk[n] /\ Peer(n) \in Node /\ Steady(Peer(n))
  <2>1. p.role \notin {"opening", "standby"}
    OBVIOUS
  <2>2. Types' /\ disk'[n] = disk[n]
    BY <2>1, CallFacts
  <2>3. proc'[n] = p
    BY <1>1, NextProc DEF Called
  <2>4. Peer(n) \in Node /\ Settled(Peer(n))
    BY <2>1, CallFacts
  <2>5. QED
    BY <2>2, <2>3, <2>4 DEF Settled
<1>3. env' = env /\ public' = public
  BY DEF Called
<1>4. /\ Len(disk[n].log) \in Nat /\ disk[n].saved.committed \in Nat /\ proc[n].applied \in Nat
      /\ disk[n].synced <= Len(disk[n].log)
  BY <1>1, Fields, SameDisk
<1>5. disk[n].saved.committed <= Len(disk[n].log)
  <2>1. disk[n].saved.committed <= proc[n].applied
        /\ Len(disk[n].log) \in {proc[n].applied, proc[n].applied + 1}
    BY <1>1 DEF Server
  <2>2. QED
    BY <1>4, <2>1, OrderNext
<1>6. Ahead(n)'
  <2>1. Ahead(n)
    BY <1>1 DEF Server
  <2>2. QED
    BY <1>1, <1>2, <1>3, <1>4, <1>5, <2>1, OtherBehind
<1>7. Leader(n)' /\ Serving(n)'
  BY <1>2, ServingLeader
<1>8. Server(n)'
  <2>1. /\ proc[n].applied = Len(public)
        /\ Len(disk[n].log) \in {proc[n].applied, proc[n].applied + 1}
        /\ disk[n].synced >= proc[n].applied
        /\ disk[n].saved.committed <= proc[n].applied
    BY <1>1 DEF Server
  <2>2. proc[n].stage = "committed" => Len(disk[n].log) = proc[n].applied
    BY <1>1 DEF Server
  <2>3. proc[n].stage \in {"synced", "sent"} =>
           /\ Len(disk[n].log) = proc[n].applied + 1
           /\ proc[n].req = disk[n].log[Len(disk[n].log)].val
           /\ disk[n].synced = Len(disk[n].log)
    BY <1>1 DEF Server
  <2>4. CASE p.stage = "none"
    BY <1>2, <1>3, <1>6, <2>1, <2>2, <2>4 DEF Server
  <2>5. CASE p.stage \in {"sent", "replicated"}
    BY <1>2, <1>3, <1>6, <2>1, <2>3, <2>5 DEF Server
  <2>6. QED
    BY <2>4, <2>5
<1>9. QED
  BY <1>7, <1>8, CallStep

\* Primary.Replicate: the entry is sent.
LEMMA ReplicateAppendStep ==
    ASSUME StrictInv, NEW n \in Node, ReplicateAppend(n)
    PROVE  StrictInv'
<1>1. Types /\ Disks /\ Leaders
  BY DEF StrictInv
<1> DEFINE last == Len(disk[n].log)
           M == Message(n, "append", last, last)
           next == [proc[n] EXCEPT !.stage = "sent"]
           fail == [proc[n] EXCEPT !.stage = "none", !.req = NoNode, !.fatal = TRUE]
           x == Peer(n)
<1>2. /\ Serving(n) /\ proc[n].stage = "synced" /\ Rpc(n, M, next, fail, fail)
      /\ UNCHANGED <<env, lease, fresh, clientVars>>
  BY DEF ReplicateAppend, Failed
<1>3. /\ proc[n] \in ProcessType /\ disk[n].synced \in Nat
      /\ Active(n) /\ disk[n].log \in Seq(WalEntry) /\ last \in Nat
      /\ proc[n].role = "serving"
  BY <1>1, <1>2, Fields DEF Active, Serving
<1>4. /\ next \in ProcessType /\ next.role = "serving" /\ next.term = proc[n].term
      /\ next.applied = proc[n].applied /\ next.stage = "sent" /\ next.req = proc[n].req
      /\ fail \in ProcessType /\ fail.role = "serving" /\ fail.term = proc[n].term
      /\ fail.applied = proc[n].applied /\ fail.stage = "none" /\ fail.fatal
  BY <1>3 DEF ProcessType
<1>5. last <= last /\ Vouches(disk[n], last)
  <2>1. disk[n].synced = last
    BY <1>1, <1>2 DEF Leaders, Server
  <2>2. QED
    BY <1>3, <2>1, SMT DEF Vouches
<1>6. /\ M \in MessageType /\ M.to = Peer(n) /\ M.leader = n /\ Sent(M)
      /\ M.kind = "append" /\ M.log = SubSeq(disk[n].log, 1, last)
  BY <1>3, <1>5, MessageFacts, SMT
<1>7. \/ /\ Called(n, M, next) /\ Handled(x, M).ok /\ Apply(x, Handled(x, M))
      \/ Called(n, M, fail)
  <2> HIDE DEF M, next, fail
  <2>1. QED
    BY <1>2, <1>3, <1>4, <1>6, RpcCalled
<1> HIDE DEF M, next, fail
<1>8. ASSUME Called(n, M, next), Handled(x, M).ok, Apply(x, Handled(x, M))
      PROVE  StrictInv'
  <2>1. Contacted(n)' /\ Prefix(M.log, disk'[x].log)
    BY <1>4, <1>6, <1>8, GoodAnswer
  <2>2. Types' /\ disk'[n] = disk[n] /\ x \in Node
    BY <1>4, <1>8, CallFacts
  <2>3. M.log = disk[n].log
    BY <1>3, <1>6, SMT
  <2>4. disk'[x].log \in Seq(WalEntry)
    BY <2>2, FieldsNext
  <2>5. Comparable(disk'[n].log, disk'[x].log)
    BY <1>3, <2>1, <2>2, <2>3, <2>4, PrefixComparable
  <2>6. QED
    BY <1>2, <1>4, <1>8, <2>1, <2>5, ServingCall
<1>9. CASE Called(n, M, fail)
  BY <1>2, <1>4, <1>9, ServingCall
<1>10. QED
  BY <1>7, <1>8, <1>9

\* Primary.Replicate: the Standby answers that the entry is durable.
LEMMA ReplicateBarrierStep ==
    ASSUME StrictInv, NEW n \in Node, ReplicateBarrier(n)
    PROVE  StrictInv'
<1>1. Types /\ Terms /\ Disks /\ Leaders
  BY DEF StrictInv
<1> DEFINE last == Len(disk[n].log)
           M == Message(n, "barrier", 0, last)
           next == [proc[n] EXCEPT !.stage = "replicated"]
           fail == [proc[n] EXCEPT !.stage = "none", !.req = NoNode, !.fatal = TRUE]
           x == Peer(n)
<1>2. /\ Serving(n) /\ proc[n].stage = "sent"
      /\ Rpc(n, M, IF AckMatches(n, last) THEN next ELSE fail, fail, fail)
      /\ UNCHANGED <<env, lease, fresh, clientVars>>
  BY DEF ReplicateBarrier, Failed
<1>3. /\ proc[n] \in ProcessType /\ Active(n) /\ Leads(n) /\ last \in Nat /\ 0 \in Nat
      /\ proc[n].role = "serving"
  BY <1>1, <1>2, Fields DEF Active, Leads, Serving
<1>4. /\ next \in ProcessType /\ next.role = "serving" /\ next.term = proc[n].term
      /\ next.applied = proc[n].applied /\ next.stage = "replicated"
      /\ next.req = proc[n].req
      /\ fail \in ProcessType /\ fail.role = "serving" /\ fail.term = proc[n].term
      /\ fail.applied = proc[n].applied /\ fail.stage = "none" /\ fail.fatal
  BY <1>3 DEF ProcessType
<1>5. /\ M \in MessageType /\ M.to = Peer(n) /\ M.leader = n /\ Sent(M)
      /\ M.kind = "barrier" /\ M.through = last
  BY <1>3, MessageFacts, SMT
<1>6. \/ /\ Called(n, M, next) /\ AckMatches(n, last)
         /\ Handled(x, M).ok /\ Apply(x, Handled(x, M))
      \/ Called(n, M, fail)
  <2>1. CASE AckMatches(n, last)
    <3>1. Rpc(n, M, next, fail, fail)
      BY <1>2, <2>1
    <3> HIDE DEF M, next, fail
    <3>2. QED
      BY <1>2, <1>3, <1>4, <1>5, <2>1, <3>1, RpcCalled
  <2>2. CASE ~AckMatches(n, last)
    <3>1. Rpc(n, M, fail, fail, fail)
      BY <1>2, <2>2
    <3> HIDE DEF M, next, fail
    <3>2. QED
      BY <1>2, <1>3, <1>4, <1>5, <3>1, RpcCalled
  <2>3. QED
    BY <2>1, <2>2
<1>7. ASSUME Called(n, M, next), AckMatches(n, last),
             Handled(x, M).ok, Apply(x, Handled(x, M))
      PROVE  StrictInv'
  <2>1. Handled(x, M).rcv.durable = last
    BY <1>7 DEF AckMatches
  <2> HIDE DEF M, next
  <2>2. /\ Contacted(n)' /\ last <= Len(disk'[x].log)
        /\ rcv'[x] = Handled(x, M).rcv
    <3>1. next.role \notin {"opening", "standby"} /\ next.term = proc[n].term
      BY <1>4
    <3>2. QED
      BY <1>5, <1>7, <3>1, GoodAnswer
  <2>3. /\ Types' /\ proc'[n] = next /\ disk'[n] = disk[n] /\ x \in Node /\ Steady(x)
    <3>1. next.role \notin {"opening", "standby"}
      BY <1>4
    <3>2. Types' /\ proc'[n] = next /\ disk'[n] = disk[n]
      BY <1>7, <3>1, CallFacts
    <3>3. x \in Node /\ Settled(x)
      BY <1>7, <3>1, CallFacts
    <3>4. QED
      BY <3>2, <3>3 DEF Settled
  <2>4. Contacted(n) /\ Comparable(disk[n].log, disk[x].log)
    BY <1>1, <1>2 DEF Leaders, Server
  <2>5. Comparable(disk'[n].log, disk'[x].log)
    <3>1. proc'[n].term = proc[n].term /\ disk'[n].log = disk[n].log
      BY <1>4, <2>3
    <3>2. QED
      BY <1>1, <1>3, <2>3, <2>4, <3>1, OtherLog
  <2>6. Copied(n)'
    <3>1. Len(disk'[x].log) \in Nat
      BY <2>3, FieldsNext
    <3>2. Len(disk'[x].log) >= last /\ rcv'[x].durable >= last
      BY <1>3, <2>1, <2>2, <3>1, SMT
    <3>3. QED
      BY <2>3, <3>2 DEF Copied
  <2>7. QED
    BY <1>2, <1>4, <1>7, <2>2, <2>5, <2>6, ServingCall
<1> HIDE DEF M, next, fail
<1>8. CASE Called(n, M, fail)
  BY <1>2, <1>4, <1>8, ServingCall
<1>9. QED
  BY <1>6, <1>7, <1>8

\* The client is answered: its request is one that readers have seen.
LEMMA AnswerAppendStep ==
    ASSUME StrictInv, NEW n \in Node, AnswerAppend(n)
    PROVE  /\ StrictInv'
           /\ proc[n].req \in Request /\ Expected[proc[n].req] < Len(public)
           /\ public[Expected[proc[n].req] + 1] = proc[n].req
<1>1. Types /\ Leaders /\ Recorded
  BY DEF StrictInv
<1> DEFINE M == Message(n, "advance", 0, proc[n].applied)
           next == [proc[n] EXCEPT !.stage = "none", !.req = NoNode]
           log == disk[n].log
           r == proc[n].req
<1>2. /\ Serving(n) /\ proc[n].stage = "committed" /\ Rpc(n, M, next, next, next)
      /\ acked' = acked \cup {r}
      /\ UNCHANGED <<env, lease, fresh, public, tried>>
  BY DEF AnswerAppend
<1>3. /\ proc[n] \in ProcessType /\ Active(n) /\ proc[n].applied \in Nat /\ 0 \in Nat
      /\ proc[n].role = "serving" /\ Len(log) \in Nat /\ log \in Seq(WalEntry)
  BY <1>1, <1>2, Fields DEF Active, Serving
<1>4. /\ next \in ProcessType /\ next.role = "serving" /\ next.term = proc[n].term
      /\ next.applied = proc[n].applied /\ next.stage = "none"
  BY <1>3 DEF ProcessType
<1>5. M \in MessageType /\ M.to = Peer(n) /\ M.leader = n /\ Sent(M)
  BY <1>3, MessageFacts, SMT
<1>6. /\ Len(log) = Len(public) /\ Len(log) > 0 /\ r = log[Len(log)].val
  BY <1>1, <1>2 DEF Leaders, Server
<1>7. Len(log) \in 1..Len(log) /\ Len(log) <= Len(public) /\ log \in Logs
  BY <1>3, <1>6, SMT DEF Logs
<1>8. Expected[r] = Len(log) - 1 /\ r = public[Len(log)]
  BY <1>1, <1>6, <1>7, SMT DEF Recorded
<1>9. Expected[r] < Len(public) /\ public[Expected[r] + 1] = r
  BY <1>3, <1>6, <1>8, SMT
<1>10. r \in Request
  <2>1. log[Len(log)] \in WalEntry
    BY <1>3, <1>7, SMT
  <2>2. QED
    BY <1>6, <2>1 DEF WalEntry
<1>11. \A a \in acked' : /\ a \in Request
                         /\ \/ a \in acked
                            \/ Expected[a] < Len(public) /\ public[Expected[a] + 1] = a
  BY <1>1, <1>2, <1>9, <1>10 DEF Types
<1>12. Called(n, M, next)
  <2> HIDE DEF M, next
  <2>1. \/ Apply(Peer(n), Handled(Peer(n), M)) /\ UNCHANGED late
        \/ late' = late \cup {M} /\ UNCHANGED <<disk, rcv>>
    BY <1>2, RpcCases
  <2>2. proc' = [proc EXCEPT ![n] = next]
    BY <1>2, RpcCases
  <2>3. QED
    BY <1>2, <1>3, <1>4, <1>5, <1>11, <2>1, <2>2 DEF Called
<1> HIDE DEF M, next
<1>13. StrictInv'
  BY <1>2, <1>4, <1>12, ServingCall
<1>14. QED
  BY <1>9, <1>10, <1>13
=============================================================================
