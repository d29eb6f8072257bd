------------------------------- MODULE StrictHA -------------------------------
(***************************************************************************)
(* Two nodes in Strict replication: promotion (replication/promotion.go),  *)
(* catch-up (node/ha.go, replication/catchup.go, planner.go), replicated   *)
(* appends (replication/primary.go under storage/commit) and the Standby   *)
(* of StandbyOps, with the processes started by an operator in either      *)
(* role, crashing, losing power, and a node being replaced by an empty one.*)
(*                                                                         *)
(* The lease is reduced to its holder and Term: a guard passes only while  *)
(* the node holds the leader key in its own Term, which is what module     *)
(* Leadership shows of Controller.CanWrite, and may fail at any time.      *)
(*                                                                         *)
(* An RPC is one step of its caller.  It is answered, or its answer is     *)
(* lost after the handler ran, or the caller gives up before the handler   *)
(* runs: then the message stays in `late' and may be handled at any later  *)
(* time.  There is one stream, a request is one record, and the group      *)
(* committer processes one request at a time (module Committer models the  *)
(* groups), so a request's sequence is its position in the log.            *)
(***************************************************************************)
EXTENDS StandbyOps, FiniteSets

CONSTANTS
    Node,        \* the two nodes
    NoNode,
    Request,     \* append requests
    Expected,    \* the sequence each request expects
    Chunk,       \* MaxEntries of a catch-up chunk
    Environment  \* faults and bounds: whether unsynced data can be lost (power)
                 \* and a node can be lost for good (loss), and how many Terms
                 \* are granted (terms) and messages under way without a
                 \* caller (late)

ASSUME PairAssumption == \E m, n \in Node : m # n /\ Node = {m, n}
ASSUME AppendAssumption == Expected \in [Request -> Nat] /\ Chunk \in Nat \ {0}

VARIABLES
    env,       \* the environment of this behaviour
    disk,      \* per node, as in StandbyOps
    rcv,       \* per node, its receiver while it is a Standby
    proc,      \* per node, where its process is
    lease,     \* holder of the leader key and the last Term granted
    late,      \* messages whose callers have given up
    fresh,     \* nodes replaced that do not yet hold the whole log durably
    public,    \* history: the requests readers have been able to see
    tried,     \* history: requests that may have been written
    acked      \* history: requests answered with success

vars == <<env, disk, rcv, proc, lease, late, fresh, public, tried, acked>>
clientVars == <<public, tried, acked>>

Peer(n) == CHOOSE m \in Node : m # n

EmptyDisk ==
    [log |-> <<>>, synced |-> 0, flushed |-> 0,
     saved |-> [term |-> 0, role |-> "none", leader |-> NoNode, committed |-> 0]]

Down ==
    [role |-> "down", term |-> 0, sent |-> 0, applied |-> 0, stage |-> "none",
     req |-> NoNode, fatal |-> FALSE]

NoReceiver == Opened(EmptyDisk, 0, NoNode)

Init ==
    /\ env \in Environment
    /\ disk = [n \in Node |-> EmptyDisk]
    /\ rcv = [n \in Node |-> NoReceiver]
    /\ proc = [n \in Node |-> Down]
    /\ lease = [holder |-> NoNode, term |-> 0]
    /\ late = {}
    /\ fresh = {}
    /\ public = <<>>
    /\ tried = {}
    /\ acked = {}

Goto(n, role) == proc' = [proc EXCEPT ![n].role = role]

\* Controller.CanWrite, CanCommit.
CanWrite(n) == lease.holder = n /\ lease.term = proc[n].term

Requests(log) == [i \in 1..Len(log) |-> log[i].val]

-----------------------------------------------------------------------------
(* Processes and leases.                                                   *)

\* The operator starts the node as Primary; it gets the free leader key.
StartPrimary(n) ==
    /\ proc[n].role = "down"
    /\ lease.holder = NoNode
    /\ lease.term < env.terms
    /\ lease' = [holder |-> n, term |-> lease.term + 1]
    /\ proc' = [proc EXCEPT ![n] = [Down EXCEPT !.role = "granted",
                                                !.term = lease.term + 1]]
    /\ UNCHANGED <<env, disk, rcv, late, fresh, clientVars>>

\* The key expires or is released.
LoseLease ==
    /\ lease.holder # NoNode
    /\ lease' = [lease EXCEPT !.holder = NoNode]
    /\ UNCHANGED <<env, disk, rcv, proc, late, fresh, clientVars>>

\* The operator starts the node as Standby; it reads who leads.
StartStandby(n) ==
    /\ proc[n].role = "down"
    /\ lease.holder = Peer(n)
    /\ proc' = [proc EXCEPT ![n] = [Down EXCEPT !.role = "opening",
                                                !.term = lease.term]]
    /\ UNCHANGED <<env, disk, rcv, lease, late, fresh, clientVars>>

\* The checkpoint of OpenStandby, with its publication.
Flushed(d, s) ==
    [FreezeDisk(d, s) EXCEPT !.flushed = FreezeState(s, "no").frozen]

OpenStandby(n) ==
    LET t == proc[n].term
        s == Opened(disk[n], t, Peer(n))
    IN
    /\ proc[n].role = "opening"
    /\ IF ~MayFollow(disk[n], t, Peer(n)) \/ ~Recovers(disk[n])
       THEN proc' = [proc EXCEPT ![n] = Down] /\ UNCHANGED <<disk, rcv>>
       ELSE IF NeedsCheckpoint(disk[n], t)
       THEN /\ disk' = [disk EXCEPT ![n] = Flushed(@, s)]
            /\ proc' = [proc EXCEPT ![n] =
                          IF CannotFreeze(s) THEN Down ELSE [@ EXCEPT !.role = "standby"]]
            /\ rcv' = [rcv EXCEPT ![n] =
                          IF CannotFreeze(s) THEN NoReceiver ELSE FreezeState(s, "no")]
       ELSE /\ Goto(n, "standby")
            /\ rcv' = [rcv EXCEPT ![n] = s]
            /\ UNCHANGED disk
    /\ UNCHANGED <<env, lease, late, fresh, clientVars>>

Stopped(n) ==
    /\ proc' = [proc EXCEPT ![n] = Down]
    /\ rcv' = [rcv EXCEPT ![n] = NoReceiver]

\* A process dies, or a start fails and the operator tries again.
Crash(n) ==
    /\ proc[n].role # "down"
    /\ Stopped(n)
    /\ UNCHANGED <<env, disk, lease, late, fresh, clientVars>>

PowerLoss(n) ==
    /\ env.power
    /\ disk[n].synced < Len(disk[n].log)
    /\ \E k \in disk[n].synced..(Len(disk[n].log) - 1) :
          disk' = [disk EXCEPT ![n].log = SubSeq(@, 1, k), ![n].synced = k]
    /\ Stopped(n)
    /\ UNCHANGED <<env, lease, late, fresh, clientVars>>

\* A node is lost for good and an empty one takes its place, unless the other
\* node is itself a replacement that has not caught up.
Replace(n) ==
    /\ env.loss
    /\ fresh = {}
    /\ disk[n] # EmptyDisk
    /\ disk' = [disk EXCEPT ![n] = EmptyDisk]
    /\ fresh' = {n}
    /\ Stopped(n)
    /\ UNCHANGED <<env, lease, late, clientVars>>

-----------------------------------------------------------------------------
(* Calls to the Standby.                                                   *)

Refused(m) == [disk |-> disk[m], rcv |-> rcv[m], ok |-> FALSE]

\* What the handler at node m does with message msg.
Handled(m, msg) ==
    LET d == AdoptOnDisk(disk[m], rcv[m], msg)
        s == Adopt(rcv[m], msg)
    IN  IF proc[m].role # "standby" \/ Refuses(rcv[m], msg) THEN Refused(m)
        ELSE CASE msg.kind = "append" ->
                    IF AppendAccepted(d, msg)
                    THEN [disk |-> AppendLog(d, msg), rcv |-> s, ok |-> TRUE]
                    ELSE [disk |-> d, rcv |-> s, ok |-> FALSE]
               [] msg.kind = "barrier" ->
                    IF BarrierAccepted(d, msg.through)
                    THEN [disk |-> BarrierDisk(s, d, msg.through),
                          rcv |-> BarrierState(s, d, msg.through),
                          ok |-> BarrierAnswers(s, d, msg.through)]
                    ELSE [disk |-> d, rcv |-> s, ok |-> FALSE]
               [] msg.kind = "advance" ->
                    [disk |-> d, rcv |-> AdvanceState(s, d, msg.through),
                     ok |-> AdvanceAnswers(s, d, msg.through)]

Message(n, kind, from, through) ==
    [kind |-> kind, to |-> Peer(n), term |-> proc[n].term, leader |-> n,
     from |-> from, through |-> through,
     log |-> IF kind = "append" THEN SubSeq(disk[n].log, 1, through) ELSE <<>>]

Apply(m, h) ==
    /\ disk' = [disk EXCEPT ![m] = h.disk]
    /\ rcv' = [rcv EXCEPT ![m] = h.rcv]

\* Node n sends msg.  It goes on as done after a good answer, as refused after
\* an error answer, and as lost when no answer comes.
Rpc(n, msg, done, refused, lost) ==
    LET h == Handled(Peer(n), msg) IN
    \/ /\ Apply(Peer(n), h)
       /\ proc' = [proc EXCEPT ![n] = IF h.ok THEN done ELSE refused]
       /\ UNCHANGED late
    \/ /\ Apply(Peer(n), h)
       /\ proc' = [proc EXCEPT ![n] = lost]
       /\ UNCHANGED late
    \/ /\ Cardinality(late) < env.late
       /\ late' = late \cup {msg}
       /\ proc' = [proc EXCEPT ![n] = lost]
       /\ UNCHANGED <<disk, rcv>>

\* A message nobody waits for is handled at last, or is lost.
ArriveLate(msg) ==
    /\ late' = late \ {msg}
    /\ \/ Apply(msg.to, Handled(msg.to, msg))
       \/ UNCHANGED <<disk, rcv>>
    /\ UNCHANGED <<env, proc, lease, fresh, clientVars>>

-----------------------------------------------------------------------------
(* Promotion and catch-up.                                                 *)

\* Promote: recovery replays through the saved committed position, or
\* everything when there is none; every entry after that position is applied
\* in turn and all of it becomes committed.  Entries replayed twice are
\* refused.
Promote(n) ==
    LET d == disk[n] IN
    /\ proc[n].role = "granted"
    /\ CanWrite(n)
    /\ d.saved.term < proc[n].term
    /\ IF d.saved.committed = 0 /\ d.log # <<>>
       THEN Goto(n, "refused") /\ UNCHANGED disk
       ELSE /\ disk' = [disk EXCEPT ![n].saved =
                  [term |-> proc[n].term, role |-> "primary", leader |-> n,
                   committed |-> IF Len(d.log) > d.saved.committed
                                 THEN Len(d.log) ELSE d.saved.committed]]
            /\ Goto(n, "plan")
    /\ UNCHANGED <<env, rcv, lease, late, fresh, clientVars>>

\* Mutant: a Standby that is ahead is only compared as far as the Primary's log.
PlanIgnoringAhead(n) ==
    LET k == Least(rcv[Peer(n)].durable, Len(disk[n].log)) IN
    SubSeq(disk[Peer(n)].log, 1, k) # SubSeq(disk[n].log, 1, k)

\* Plan compares the Standby's durable position with the Primary's log.
PlanDiverged(n) ==
    LET durable == rcv[Peer(n)].durable IN
    \/ durable > disk[n].saved.committed
    \/ durable > Len(disk[n].log)
    \/ SubSeq(disk[Peer(n)].log, 1, durable) # SubSeq(disk[n].log, 1, durable)

\* catchUpStandby: ask for the Standby's status and plan.
CatchUpPlan(n) ==
    LET s == rcv[Peer(n)]
        last == disk[n].saved.committed
    IN
    /\ proc[n].role = "plan"
    /\ CanWrite(n)
    /\ proc[Peer(n)].role = "standby"
    /\ ~s.fatal
    /\ s.term <= proc[n].term
    /\ IF PlanDiverged(n) THEN Goto(n, "blocked")
       ELSE IF s.durable < last
       THEN proc' = [proc EXCEPT ![n].role = "append", ![n].sent = s.durable]
       ELSE Goto(n, IF last = 0 THEN "ready" ELSE "advance")
    /\ UNCHANGED <<env, disk, rcv, lease, late, fresh, clientVars>>

ChunkEnd(n) == Least(proc[n].sent + Chunk, disk[n].saved.committed)

\* Primary.CatchUp sends a chunk of the retained log ...
CatchUpAppend(n) ==
    /\ proc[n].role = "append"
    /\ ChunkEnd(n) <= Len(disk[n].log)
    /\ Rpc(n, Message(n, "append", proc[n].sent + 1, ChunkEnd(n)),
           [proc[n] EXCEPT !.role = "barrier"], Down, [proc[n] EXCEPT !.role = "plan"])
    /\ UNCHANGED <<env, lease, fresh, clientVars>>

\* ... and waits until the Standby says that exactly this chunk is durable.
AckMatches(n, through) ==
    LET h == Handled(Peer(n), Message(n, "barrier", 0, through)) IN
    /\ h.rcv.durable = through
    /\ h.rcv.term = proc[n].term
    /\ SubSeq(h.disk.log, 1, through) = SubSeq(disk[n].log, 1, through)

CatchUpBarrier(n) ==
    LET through == ChunkEnd(n) IN
    /\ proc[n].role = "barrier"
    /\ Rpc(n, Message(n, "barrier", 0, through),
           IF ~AckMatches(n, through) THEN Down
           ELSE [proc[n] EXCEPT !.sent = through,
                    !.role = IF through < disk[n].saved.committed
                             THEN "append" ELSE "advance"],
           Down, [proc[n] EXCEPT !.role = "plan"])
    /\ UNCHANGED <<env, lease, fresh, clientVars>>

CatchUpAdvance(n) ==
    /\ proc[n].role = "advance"
    /\ Rpc(n, Message(n, "advance", 0, disk[n].saved.committed),
           [proc[n] EXCEPT !.role = "ready"], Down, [proc[n] EXCEPT !.role = "plan"])
    /\ UNCHANGED <<env, lease, fresh, clientVars>>

\* OpenReplicated: the log, all of it committed, is rotated and thereby
\* synced, and readers can see it.
Serve(n) ==
    /\ proc[n].role = "ready"
    /\ CanWrite(n)
    /\ Len(disk[n].log) <= disk[n].saved.committed
    /\ disk' = [disk EXCEPT ![n].synced = Len(disk[n].log)]
    /\ proc' = [proc EXCEPT ![n].role = "serving", ![n].applied = Len(disk[n].log)]
    /\ public' = Requests(disk[n].log)
    /\ fresh' = {m \in fresh \ {n} : \/ Len(disk[m].log) < Len(disk[n].log)
                                     \/ rcv[m].durable < Len(disk[n].log)}
    /\ UNCHANGED <<env, rcv, lease, late, tried, acked>>

-----------------------------------------------------------------------------
(* Appends.                                                                *)

Serving(n) == proc[n].role = "serving"

\* Mutant: the record found is not compared with the request.
DeduplicateAny(n, r) ==
    /\ Serving(n) /\ proc[n].stage = "none" /\ CanWrite(n)
    /\ r \notin acked
    /\ Expected[r] < proc[n].applied
    /\ acked' = acked \cup {r}
    /\ UNCHANGED <<env, disk, rcv, proc, lease, late, fresh, public, tried>>

\* A request that finds its own record at its sequence is answered from it.
Deduplicate(n, r) ==
    /\ Serving(n) /\ proc[n].stage = "none" /\ CanWrite(n)
    /\ r \notin acked
    /\ Expected[r] < proc[n].applied
    /\ disk[n].log[Expected[r] + 1].val = r
    /\ acked' = acked \cup {r}
    /\ UNCHANGED <<env, disk, rcv, proc, lease, late, fresh, public, tried>>

WriteEntry(n, r) ==
    /\ Serving(n) /\ proc[n].stage = "none" /\ ~proc[n].fatal /\ CanWrite(n)
    /\ r \notin acked
    /\ Expected[r] = proc[n].applied
    /\ disk' = [disk EXCEPT ![n].log =
          Append(@, [term |-> proc[n].term, index |-> 0, count |-> 1, val |-> r])]
    /\ proc' = [proc EXCEPT ![n].stage = "written", ![n].req = r]
    /\ tried' = tried \cup {r}
    /\ UNCHANGED <<env, rcv, lease, late, fresh, public, acked>>

Failed(p) == [p EXCEPT !.stage = "none", !.req = NoNode, !.fatal = TRUE]

\* The write, the fsync or a guard check fails; the outcome is unknown.
FailAppend(n) ==
    /\ Serving(n) /\ proc[n].stage \in {"written", "synced", "sent", "replicated"}
    /\ proc' = [proc EXCEPT ![n] = Failed(@)]
    /\ UNCHANGED <<env, disk, rcv, lease, late, fresh, clientVars>>

SyncEntry(n) ==
    /\ Serving(n) /\ proc[n].stage = "written" /\ CanWrite(n)
    /\ disk' = [disk EXCEPT ![n].synced = Len(disk[n].log)]
    /\ proc' = [proc EXCEPT ![n].stage = "synced"]
    /\ UNCHANGED <<env, rcv, lease, late, fresh, clientVars>>

\* Primary.Replicate: Append and then Barrier.
ReplicateAppend(n) ==
    LET last == Len(disk[n].log) IN
    /\ Serving(n) /\ proc[n].stage = "synced"
    /\ Rpc(n, Message(n, "append", last, last),
           [proc[n] EXCEPT !.stage = "sent"], Failed(proc[n]), Failed(proc[n]))
    /\ UNCHANGED <<env, lease, fresh, clientVars>>

ReplicateBarrier(n) ==
    LET last == Len(disk[n].log) IN
    /\ Serving(n) /\ proc[n].stage = "sent"
    /\ Rpc(n, Message(n, "barrier", 0, last),
           IF AckMatches(n, last) THEN [proc[n] EXCEPT !.stage = "replicated"]
           ELSE Failed(proc[n]),
           Failed(proc[n]), Failed(proc[n]))
    /\ UNCHANGED <<env, lease, fresh, clientVars>>

\* The last guard check, the commit and its application.
CommitEntry(n) ==
    /\ Serving(n) /\ proc[n].stage = "replicated" /\ CanWrite(n)
    /\ proc' = [proc EXCEPT ![n].stage = "committed", ![n].applied = Len(disk[n].log)]
    /\ public' = Requests(disk[n].log)
    /\ UNCHANGED <<env, disk, rcv, lease, late, fresh, tried, acked>>

\* The Standby is told, whether or not that works, and the client answered.
AnswerAppend(n) ==
    LET next == [proc[n] EXCEPT !.stage = "none", !.req = NoNode] IN
    /\ Serving(n) /\ proc[n].stage = "committed"
    /\ Rpc(n, Message(n, "advance", 0, proc[n].applied), next, next, next)
    /\ acked' = acked \cup {proc[n].req}
    /\ UNCHANGED <<env, lease, fresh, public, tried>>

-----------------------------------------------------------------------------
(* Checkpoints of the Replication State.                                   *)

CheckpointPrimary(n) ==
    /\ Serving(n) /\ proc[n].stage = "none" /\ ~proc[n].fatal
    /\ disk[n].saved.committed < proc[n].applied
    /\ disk' = [disk EXCEPT ![n].saved.committed = proc[n].applied]
    /\ UNCHANGED <<env, rcv, proc, lease, late, fresh, clientVars>>

CheckpointStandby(n) ==
    /\ proc[n].role = "standby" /\ ~rcv[n].fatal
    /\ disk' = [disk EXCEPT ![n] = Flushed(@, rcv[n])]
    /\ rcv' = [rcv EXCEPT ![n] = FreezeState(@, "no")]
    /\ UNCHANGED <<env, proc, lease, late, fresh, clientVars>>

ProcessStep(n) ==
    \/ StartPrimary(n) \/ StartStandby(n) \/ OpenStandby(n)
    \/ Crash(n) \/ PowerLoss(n) \/ Replace(n)

PrimaryStep(n) ==
    \/ Promote(n) \/ CatchUpPlan(n) \/ CatchUpAppend(n) \/ CatchUpBarrier(n)
    \/ CatchUpAdvance(n) \/ Serve(n)
    \/ \E r \in Request : Deduplicate(n, r) \/ WriteEntry(n, r)
    \/ FailAppend(n) \/ SyncEntry(n) \/ ReplicateAppend(n) \/ ReplicateBarrier(n)
    \/ CommitEntry(n) \/ AnswerAppend(n)
    \/ CheckpointPrimary(n) \/ CheckpointStandby(n)

Next ==
    \/ LoseLease
    \/ \E n \in Node : ProcessStep(n) \/ PrimaryStep(n)
    \/ \E msg \in late : ArriveLate(msg)

Spec == Init /\ [][Next]_vars

-----------------------------------------------------------------------------
(* Properties.                                                             *)

Entry == [term : 1..env.terms, index : {0}, count : {1}, val : Request]

\* The shape of the two nodes, the lease and the client's history.
TypeOK ==
    /\ \A n \in Node :
          /\ disk[n].log \in Seq(Entry)
          /\ disk[n].synced \in 0..Len(disk[n].log)
          /\ disk[n].saved.term \in 0..env.terms
          /\ disk[n].saved.role \in {"none", "standby", "primary"}
          /\ proc[n].role \in {"down", "granted", "opening", "standby", "plan", "append",
                "barrier", "advance", "ready", "serving", "blocked", "refused"}
          /\ proc[n].stage \in {"none", "written", "synced", "sent", "replicated",
                "committed"}
    /\ lease \in [holder : Node \cup {NoNode}, term : 0..env.terms]
    /\ Cardinality(late) <= env.late
    /\ fresh \subseteq Node
    /\ public \in Seq(Request)
    /\ acked \subseteq tried /\ tried \subseteq Request

\* At most one node answers clients, even one whose lease is gone: the other
\* serves only after catching this one up as its Standby (ha.go:154).
OneServing == \A m, n \in Node : Serving(m) /\ Serving(n) => m = n

\* A node that answers clients has every acknowledged request, at its sequence.
AckedServed ==
    \A n \in Node : Serving(n) =>
        \A r \in acked : /\ Expected[r] < proc[n].applied
                         /\ disk[n].log[Expected[r] + 1].val = r

\* An acknowledged request is in the log of every node that is not a
\* replacement still to be caught up (replication-protocol.md, section 4); a
\* loss of power may take it from a Standby that restarted before its Barrier.
AckedOnBoth ==
    ~env.power => \A n \in Node \ fresh, r \in acked :
        /\ Expected[r] < Len(disk[n].log)
        /\ disk[n].log[Expected[r] + 1].val = r

\* As long as no node is lost for good the two logs never disagree about an
\* entry: one is a prefix of the other, and no recovery has to discard any.
NoFork ==
    ~env.loss => \A m, n \in Node :
        LET k == Least(Len(disk[m].log), Len(disk[n].log))
        IN  SubSeq(disk[m].log, 1, k) = SubSeq(disk[n].log, 1, k)

\* Whatever is lost, no log holds anything else where readers have seen an
\* entry (catch-up compares the durable positions, planner.go:126).
AgreesWithPublic ==
    \A n \in Node : \A i \in 1..Least(Len(disk[n].log), Len(public)) :
        disk[n].log[i].val = public[i]

\* Seen by its clients the pair is one log (module StreamLog).
Abstract == INSTANCE StreamLog WITH slog <- public
OneLog == Abstract!Spec

\* Stated by the comment on Promote (promotion.go:33): every recovered suffix
\* entry is validated and made public; a node is never refused for its own log.
PromotionAccepted == \A n \in Node : proc[n].role # "refused"
=============================================================================
