------------------------------ MODULE Committer ------------------------------
(***************************************************************************)
(* The write path of one engine: Store.Append (engine/store.go) and the    *)
(* group committer it feeds (commit/commit.go).                            *)
(*                                                                         *)
(* A caller runs Append under the gate of its stream, then under the       *)
(* engine mutex (mu) it commits the stream's registry record if the stream *)
(* is new, resolves the tail, allocates entry IDs and enqueues a pending   *)
(* batch.  The committer goroutine takes pendings from the queue into a    *)
(* group of distinct streams, and drives the group through WAL append,     *)
(* fsync, replication, commit and apply.  The commit guard (the lease) is  *)
(* consulted four times on the way and may answer either way each time.    *)
(*                                                                         *)
(* Entry IDs start at 0; every watermark is the NUMBER of entries it       *)
(* covers, so 0 is the code's "absent".  The CRC chain is left out: the    *)
(* engine links it exactly where it assigns entry IDs.  Byte sizes are     *)
(* counted in records.                                                     *)
(***************************************************************************)
EXTENDS Integers, Sequences

CONSTANTS
    Request,        \* append requests: one Request ID and Request Hash each
    Stream,         \* user streams
    StreamOf,       \* [Request -> Stream]
    Expected,       \* [Request -> Nat], the request's ExpectedSequence
    Count,          \* [Request -> Nat], its number of records
    RegistryStream, \* stream 0
    Free,           \* the value of an unheld gate or mutex
    QueueCapacity, MaxRequests, MaxBytes,
    MaxAttempts     \* [Request -> Nat], bound: calls of Append per request

ASSUME RequestAssumption ==
    /\ StreamOf \in [Request -> Stream]
    /\ Expected \in [Request -> Nat]
    /\ Count \in [Request -> Nat \ {0}]
ASSUME OptionAssumption ==
    /\ QueueCapacity \in Nat \ {0}
    /\ MaxRequests \in Nat \ {0}
    /\ MaxBytes \in Nat \ {0}
    /\ MaxAttempts \in [Request -> Nat]
ASSUME NameAssumption ==
    /\ RegistryStream \notin Stream
    /\ Request \cap (Stream \cup {"barrier", "close"}) = {}
    /\ Free \notin Request \cup Stream \cup {"barrier", "close"}

VARIABLES
    call,        \* per request: where its Append call is, and its future
    result,      \* per request: what its last Append call returned
    attempts,    \* per request: how many calls it has made
    unsure,      \* requests some call of which returned ResultUncertain
    gate,        \* per stream: who holds the append gate
    mu,          \* who holds the engine mutex
    nextEntryID, \* Store.nextEntryID
    engineFatal, \* Store.fatal # nil
    registered,  \* streams in the registry
    queue,       \* Committer.queue
    carry,       \* run's carry: a sequence of at most one pending
    group,       \* the group being collected or processed
    stage,       \* where the committer goroutine is
    fatal,       \* Committer.fatal: "none" or what set it
    wal,         \* entries written to the WAL
    mark,        \* Committer.watermarks
    replica,     \* entries durable on the standby
    tail,        \* per stream: the MemTable's Tail.NextSequence
    completed,   \* completions sent and not yet received
    barrier,     \* the caller of CommitBarrier
    closer       \* the caller of Close

callVars   == <<call, result, attempts, unsure>>
engineVars == <<gate, mu, nextEntryID, engineFatal, registered>>
commitVars == <<queue, carry, group, stage, fatal, wal, mark, replica, tail>>
vars == <<callVars, engineVars, commitVars, completed, barrier, closer>>

(***************************************************************************)
(* Pendings and entries                                                    *)
(***************************************************************************)
StreamId == Stream \cup {RegistryStream}

AppendItem(r, first) ==
    [kind |-> "commit", req |-> r, stream |-> StreamOf[r], first |-> first,
     seq |-> Expected[r], count |-> Count[r]]

Control(kind) ==
    [kind |-> kind, req |-> Free, stream |-> RegistryStream, first |-> 0,
     seq |-> 0, count |-> 0]

\* Mutant of Entries: every record of a batch gets the batch's first sequence.
EntriesOneSequence(p) ==
    [i \in 1..p.count |->
        [id |-> p.first + i - 1, req |-> p.req, stream |-> p.stream,
         seq |-> p.seq, index |-> i - 1, count |-> p.count]]

\* The WAL entries of a pending, in batch order.
Entries(p) ==
    [i \in 1..p.count |->
        [id |-> p.first + i - 1, req |-> p.req, stream |-> p.stream,
         seq |-> p.seq + i - 1, index |-> i - 1, count |-> p.count]]

\* The MemTable's records of a stream, as positions in the WAL, and the sequence
\* after the last of them: what Append's tail lookup sees.
Table(s) == {i \in 1..mark.applied : wal[i].stream = s}

NextSequence(s) == tail[s]

RegistryItem(s, first) ==
    [kind |-> "commit", req |-> s, stream |-> RegistryStream, first |-> first,
     seq |-> NextSequence(RegistryStream), count |-> 1]

\* memtable validateBatch: the batch continues its stream's tail.
Continues(p) == p.seq = NextSequence(p.stream)

GroupBytes ==
    LET sum[i \in 0..Len(group)] ==
            IF i = 0 THEN 0 ELSE sum[i - 1] + group[i].count
    IN  sum[Len(group)]

\* The end of the group's last batch, and its entry with a given ID.
GroupEnd == group[Len(group)].first + group[Len(group)].count

GroupEntry(id) ==
    LET i == CHOOSE i \in 1..Len(group) :
                 group[i].first <= id /\ id < group[i].first + group[i].count
    IN  Entries(group[i])[id - group[i].first + 1]

Init ==
    /\ call = [r \in Request |-> [pc |-> "idle", ticket |-> 0]]
    /\ result = [r \in Request |-> "none"]
    /\ attempts = [r \in Request |-> 0]
    /\ unsure = {}
    /\ gate = [s \in Stream |-> [by |-> Free, ticket |-> 0, finish |-> FALSE]]
    /\ mu = Free
    /\ nextEntryID = 0
    /\ engineFatal = FALSE
    /\ registered = {}
    /\ queue = <<>>
    /\ carry = <<>>
    /\ group = <<>>
    /\ stage = "idle"
    /\ fatal = "none"
    /\ wal = <<>>
    /\ mark = [appended |-> 0, local |-> 0, replicated |-> 0,
               committed |-> 0, applied |-> 0]
    /\ replica = 0
    /\ tail = [s \in StreamId |-> 0]
    /\ completed = {}
    /\ barrier = "idle"
    /\ closer = "open"

(***************************************************************************)
(* Store.Append                                                            *)
(***************************************************************************)
Goto(r, pc, ticket) == call' = [call EXCEPT ![r] = [pc |-> pc, ticket |-> ticket]]

OpenGate(s) ==
    gate' = [gate EXCEPT ![s] = [by |-> Free, ticket |-> 0, finish |-> FALSE]]

\* Append returns to its caller.  "rejected" stands for every error without
\* ResultUncertain; the deferred release opens the gate.
ReturnWith(r, outcome) ==
    /\ Goto(r, "idle", 0)
    /\ result' = [result EXCEPT ![r] = outcome]
    /\ unsure' = IF outcome = "uncertain" THEN unsure \cup {r} ELSE unsure
    /\ OpenGate(StreamOf[r])
    /\ UNCHANGED attempts

\* A client calls Append, or calls it again with the same request after any
\* outcome but success; the first writeUnavailable may turn it away.
CallAppend(r) ==
    /\ call[r].pc = "idle" /\ attempts[r] < MaxAttempts[r] /\ result[r] # "ok"
    /\ attempts' = [attempts EXCEPT ![r] = @ + 1]
    /\ \/ Goto(r, "gate", 0) /\ result' = [result EXCEPT ![r] = "none"]
       \/ UNCHANGED call /\ result' = [result EXCEPT ![r] = "rejected"]
    /\ UNCHANGED <<unsure, engineVars, commitVars, completed, barrier, closer>>

AcquireAppendGate(r) ==
    /\ call[r].pc = "gate" /\ gate[StreamOf[r]].by = Free
    /\ gate' = [gate EXCEPT ![StreamOf[r]] =
                    [by |-> r, ticket |-> 0, finish |-> FALSE]]
    /\ Goto(r, "lock", 0)
    /\ UNCHANGED <<result, attempts, unsure, mu, nextEntryID, engineFatal,
                   registered, commitVars, completed, barrier, closer>>

\* The caller's context ends while it waits for the gate.
CancelAtGate(r) ==
    /\ call[r].pc = "gate"
    /\ Goto(r, "idle", 0)
    /\ result' = [result EXCEPT ![r] = "rejected"]
    /\ UNCHANGED <<attempts, unsure, engineVars, commitVars, completed,
                   barrier, closer>>

\* The engine mutex is taken and the admission checks made; a stream that is
\* not in the registry gets its registry record first.
LockEngine(r) ==
    /\ call[r].pc = "lock" /\ mu = Free
    /\ \/ closer = "open" /\ ~engineFatal
          /\ mu' = r
          /\ Goto(r, IF StreamOf[r] \in registered THEN "tail" ELSE "register", 0)
          /\ UNCHANGED <<result, attempts, unsure, gate>>
       \/ ReturnWith(r, "rejected") /\ UNCHANGED mu
    /\ UNCHANGED <<nextEntryID, engineFatal, registered, commitVars, completed,
                   barrier, closer>>

\* Committer.Enqueue up to the channel send: a failed committer fails the
\* engine too.
EnqueueChecks(r, next) ==
    IF fatal = "none" /\ closer = "open"
    THEN Goto(r, next, 0) /\ UNCHANGED <<result, attempts, unsure, gate, mu, engineFatal>>
    ELSE ReturnWith(r, "rejected") /\ mu' = Free /\ engineFatal' = TRUE

BeginRegistry(r) ==
    /\ call[r].pc = "register"
    /\ EnqueueChecks(r, "sendRegistry")
    /\ UNCHANGED <<nextEntryID, registered, commitVars, completed, barrier, closer>>

\* Mutant of Deduplicates: the identity of the records is not compared.
DeduplicatesAnyone(r) == Expected[r] + Count[r] <= NextSequence(StreamOf[r])

\* deduplicate: the records at the expected sequence are this request's batch.
Deduplicates(r) ==
    \A k \in 0..Count[r] - 1 :
        \E i \in Table(StreamOf[r]) :
            /\ wal[i].seq = Expected[r] + k
            /\ wal[i].req = r /\ wal[i].count = Count[r]
            /\ k = 0 => wal[i].index = 0

ResolveTail(r) ==
    /\ call[r].pc = "tail"
    /\ \/ \* ctx.Err after the registry wait
          ReturnWith(r, "rejected") /\ mu' = Free /\ UNCHANGED engineFatal
       \/ /\ Expected[r] < NextSequence(StreamOf[r])
          /\ ReturnWith(r, IF Deduplicates(r) THEN "ok" ELSE "rejected")
          /\ mu' = Free /\ UNCHANGED engineFatal
       \/ /\ Expected[r] > NextSequence(StreamOf[r])
          /\ ReturnWith(r, "rejected")
          /\ mu' = Free /\ UNCHANGED engineFatal
       \/ /\ Expected[r] = NextSequence(StreamOf[r])
          /\ EnqueueChecks(r, "sendAppend")
    /\ UNCHANGED <<nextEntryID, registered, commitVars, completed, barrier, closer>>

\* The channel send, which waits for room in the queue with mu held, and the
\* allocation that follows it.
SendPending(r) ==
    /\ call[r].pc \in {"sendRegistry", "sendAppend"} /\ Len(queue) < QueueCapacity
    /\ \/ /\ call[r].pc = "sendRegistry"
          /\ queue' = Append(queue, RegistryItem(StreamOf[r], nextEntryID))
          /\ nextEntryID' = nextEntryID + 1
          /\ Goto(r, "registry", nextEntryID)
          /\ UNCHANGED mu
       \/ /\ call[r].pc = "sendAppend"
          /\ queue' = Append(queue, AppendItem(r, nextEntryID))
          /\ nextEntryID' = nextEntryID + Count[r]
          /\ Goto(r, "wait", nextEntryID)
          /\ mu' = Free
    /\ UNCHANGED <<result, attempts, unsure, gate, engineFatal, registered,
                   carry, group, stage, fatal, wal, mark, replica, tail, completed,
                   barrier, closer>>

\* commitRegistry's Wait, with mu held and no context to end it.
RegistryCommitted(r) ==
    /\ call[r].pc = "registry"
    /\ \E c \in completed :
          /\ c.ticket = call[r].ticket
          /\ completed' = completed \ {c}
          /\ \/ /\ c.outcome = "ok"
                /\ registered' = registered \cup {StreamOf[r]}
                /\ Goto(r, "tail", 0)
                /\ UNCHANGED <<result, attempts, unsure, gate, mu>>
             \/ /\ c.outcome # "ok"
                /\ ReturnWith(r, "rejected") /\ mu' = Free
                /\ UNCHANGED registered
    /\ UNCHANGED <<nextEntryID, engineFatal, commitVars, barrier, closer>>

\* Append's Wait receives the completion.
AppendReturns(r) ==
    /\ call[r].pc = "wait"
    /\ \E c \in completed :
          /\ c.ticket = call[r].ticket
          /\ completed' = completed \ {c}
          /\ ReturnWith(r, c.outcome)
    /\ UNCHANGED <<mu, nextEntryID, engineFatal, registered, commitVars,
                   barrier, closer>>

\* Mutant of CancelWait: the gate is released although the batch is in flight.
CancelWaitReleasing(r) ==
    /\ call[r].pc = "wait"
    /\ ReturnWith(r, "uncertain")
    /\ UNCHANGED <<mu, nextEntryID, engineFatal, registered, commitVars,
                   completed, barrier, closer>>

\* The context ends first: the result is uncertain, and the gate passes to a
\* goroutine that waits for the completion (finishAppend).
CancelWait(r) ==
    /\ call[r].pc = "wait"
    /\ gate' = [gate EXCEPT ![StreamOf[r]] =
                    [by |-> r, ticket |-> call[r].ticket, finish |-> TRUE]]
    /\ Goto(r, "idle", 0)
    /\ result' = [result EXCEPT ![r] = "uncertain"]
    /\ unsure' = unsure \cup {r}
    /\ UNCHANGED <<attempts, mu, nextEntryID, engineFatal, registered,
                   commitVars, completed, barrier, closer>>

\* Mutant of FinishAppend: the gate is only released after a success.
FinishAppendOnSuccess(s) ==
    /\ gate[s].finish
    /\ \E c \in completed :
          /\ c.ticket = gate[s].ticket /\ c.outcome = "ok"
          /\ completed' = completed \ {c}
    /\ OpenGate(s)
    /\ UNCHANGED <<callVars, mu, nextEntryID, engineFatal, registered,
                   commitVars, barrier, closer>>

FinishAppend(s) ==
    /\ gate[s].finish
    /\ \E c \in completed :
          c.ticket = gate[s].ticket /\ completed' = completed \ {c}
    /\ OpenGate(s)
    /\ UNCHANGED <<callVars, mu, nextEntryID, engineFatal, registered,
                   commitVars, barrier, closer>>

(***************************************************************************)
(* Store.CommitBarrier and Store.Close                                     *)
(***************************************************************************)
BeginBarrier ==
    /\ barrier = "idle" /\ mu = Free
    /\ closer = "open" /\ ~engineFatal /\ fatal = "none"
    /\ barrier' = "send" /\ mu' = "barrier"
    /\ UNCHANGED <<callVars, gate, nextEntryID, engineFatal, registered,
                   commitVars, completed, closer>>

SendBarrier ==
    /\ barrier = "send" /\ Len(queue) < QueueCapacity
    /\ queue' = Append(queue, Control("barrier"))
    /\ barrier' = "wait"
    /\ UNCHANGED <<callVars, engineVars, carry, group, stage, fatal, wal, mark,
                   replica, tail, completed, closer>>

BarrierReturns ==
    /\ barrier \in {"passed", "failed"} /\ mu = "barrier"
    /\ mu' = Free
    /\ UNCHANGED <<callVars, gate, nextEntryID, engineFatal, registered,
                   commitVars, completed, barrier, closer>>

\* The barrier's context ends while it waits; its pending stays queued.
CancelBarrier ==
    /\ barrier = "wait"
    /\ barrier' = "cancelled"
    /\ mu' = Free
    /\ UNCHANGED <<callVars, gate, nextEntryID, engineFatal, registered,
                   commitVars, completed, closer>>

BeginClose ==
    /\ closer = "open" /\ mu = Free
    /\ closer' = "send" /\ mu' = "close"
    /\ UNCHANGED <<callVars, gate, nextEntryID, engineFatal, registered,
                   commitVars, completed, barrier>>

SendShutdown ==
    /\ closer = "send" /\ Len(queue) < QueueCapacity
    /\ queue' = Append(queue, Control("shutdown"))
    /\ closer' = "wait"
    /\ UNCHANGED <<callVars, engineVars, carry, group, stage, fatal, wal, mark,
                   replica, tail, completed, barrier>>

\* Close returns once run has closed the done channel.
CloseReturns ==
    /\ closer = "wait" /\ stage = "done"
    /\ closer' = "closed" /\ mu' = Free
    /\ UNCHANGED <<callVars, gate, nextEntryID, engineFatal, registered,
                   commitVars, completed, barrier>>

(***************************************************************************)
(* Committer.run: form a group                                             *)
(***************************************************************************)
\* The next pending: the carried one, else the head of the queue.
HasNext == carry # <<>> \/ queue # <<>>
NextPending == IF carry # <<>> THEN Head(carry) ELSE Head(queue)
ConsumeNext ==
    IF carry # <<>> THEN carry' = <<>> /\ UNCHANGED queue
                    ELSE queue' = Tail(queue) /\ UNCHANGED carry

\* Mutant of HandleControl: after a failure run does not see the shutdown.
HandleControlFailed ==
    /\ stage = "idle" /\ HasNext /\ NextPending.kind # "commit"
    /\ ConsumeNext
    /\ stage' = IF NextPending.kind = "shutdown" /\ fatal = "none"
                THEN "done" ELSE "idle"
    /\ barrier' = IF NextPending.kind = "barrier" /\ barrier = "wait"
                  THEN IF fatal = "none" THEN "passed" ELSE "failed"
                  ELSE barrier
    /\ UNCHANGED <<callVars, engineVars, group, fatal, wal, mark, replica, tail,
                   completed, closer>>

HandleControl ==
    /\ stage = "idle" /\ HasNext /\ NextPending.kind # "commit"
    /\ ConsumeNext
    /\ stage' = IF NextPending.kind = "shutdown" THEN "done" ELSE "idle"
    /\ barrier' = IF NextPending.kind = "barrier" /\ barrier = "wait"
                  THEN IF fatal = "none" THEN "passed" ELSE "failed"
                  ELSE barrier
    /\ UNCHANGED <<callVars, engineVars, group, fatal, wal, mark, replica, tail,
                   completed, closer>>

StartGroup ==
    /\ stage = "idle" /\ HasNext /\ NextPending.kind = "commit"
    /\ ConsumeNext
    /\ group' = <<NextPending>>
    /\ stage' = "collect"
    /\ UNCHANGED <<callVars, engineVars, fatal, wal, mark, replica, tail, completed,
                   barrier, closer>>

\* A candidate joins the group when its stream is not in it and it fits.
Joins(p) ==
    /\ p.kind = "commit"
    /\ \A i \in 1..Len(group) : group[i].stream # p.stream
    /\ GroupBytes < MaxBytes
    /\ p.count <= MaxBytes - GroupBytes

\* Mutant of CollectNext: a barrier met while collecting passes at once.
CollectNextPassing ==
    /\ stage = "collect" /\ carry = <<>> /\ Len(group) < MaxRequests
    /\ queue # <<>>
    /\ queue' = Tail(queue)
    /\ IF Joins(Head(queue))
       THEN group' = Append(group, Head(queue)) /\ UNCHANGED <<carry, barrier>>
       ELSE IF Head(queue).kind = "barrier" /\ barrier = "wait"
       THEN barrier' = "passed" /\ UNCHANGED <<carry, group>>
       ELSE carry' = <<Head(queue)>> /\ UNCHANGED <<group, barrier>>
    /\ UNCHANGED <<callVars, engineVars, stage, fatal, wal, mark, replica, tail,
                   completed, closer>>

CollectNext ==
    /\ stage = "collect" /\ carry = <<>> /\ Len(group) < MaxRequests
    /\ queue # <<>>
    /\ queue' = Tail(queue)
    /\ IF Joins(Head(queue))
       THEN group' = Append(group, Head(queue)) /\ UNCHANGED carry
       ELSE carry' = <<Head(queue)>> /\ UNCHANGED group
    /\ UNCHANGED <<callVars, engineVars, stage, fatal, wal, mark, replica, tail,
                   completed, barrier, closer>>

(***************************************************************************)
(* Committer.process                                                       *)
(***************************************************************************)
\* completeGroup: every pending of the group gets the outcome.
CompleteGroup(outcome) ==
    /\ completed' = completed \cup
          {[ticket |-> group[i].first, outcome |-> outcome] : i \in 1..Len(group)}
    /\ group' = <<>>
    /\ stage' = "idle"

FailGroup(reason, outcome) ==
    fatal' = reason /\ CompleteGroup(outcome)

\* wal.Log.Append checks the whole group before it writes anything: its IDs
\* follow the last one written, and each other.
Continuous ==
    /\ group[1].first = Len(wal)
    /\ \A i \in 1..Len(group) - 1 :
          group[i + 1].first = group[i].first + group[i].count

\* The group's entries before the ID end are written.
WriteUpTo(end) ==
    wal' = [i \in 1..end |-> IF i <= Len(wal) THEN wal[i] ELSE GroupEntry(i - 1)]

\* Mutant of CanProcess: a failed committer goes on.
CanProcessAlways == TRUE

\* process refuses every group once the committer has failed.
CanProcess == fatal = "none"

\* The timer fires, the group is full or a pending is carried: process begins,
\* up to and including the WAL append.
AppendGroup ==
    /\ stage = "collect"
    /\ \/ \* the committer has failed, or the guard refuses
          CompleteGroup("rejected") /\ UNCHANGED <<fatal, wal, mark>>
       \/ /\ CanProcess
          /\ IF \E i \in 1..Len(group) : ~Continues(group[i])
             THEN FailGroup("invalid", "rejected") /\ UNCHANGED <<wal, mark>>
             ELSE IF ~Continuous
             THEN FailGroup("gap", "uncertain") /\ UNCHANGED <<wal, mark>>
             ELSE \/ \* a write error after a prefix
                     /\ \E end \in Len(wal)..GroupEnd - 1 : WriteUpTo(end)
                     /\ FailGroup("append", "uncertain") /\ UNCHANGED mark
                  \/ /\ WriteUpTo(GroupEnd)
                     /\ mark' = [mark EXCEPT !.appended = GroupEnd]
                     /\ stage' = "sync"
                     /\ UNCHANGED <<fatal, group, completed>>
    /\ UNCHANGED <<callVars, engineVars, queue, carry, replica, tail, barrier, closer>>

\* Mutant of SyncGroup: a failed fsync is reported as a plain rejection.
SyncGroupCertain ==
    /\ stage = "sync"
    /\ \/ FailGroup("sync", "rejected") /\ UNCHANGED mark
       \/ mark' = [mark EXCEPT !.local = mark.appended]
          /\ \/ FailGroup("guard", "uncertain")
             \/ stage' = "replicate" /\ UNCHANGED <<fatal, group, completed>>
    /\ UNCHANGED <<callVars, engineVars, queue, carry, wal, replica, tail, barrier, closer>>

\* The fsync, and the guard that follows it.
SyncGroup ==
    /\ stage = "sync"
    /\ \/ FailGroup("sync", "uncertain") /\ UNCHANGED mark
       \/ mark' = [mark EXCEPT !.local = mark.appended]
          /\ \/ FailGroup("guard", "uncertain")
             \/ stage' = "replicate" /\ UNCHANGED <<fatal, group, completed>>
    /\ UNCHANGED <<callVars, engineVars, queue, carry, wal, replica, tail, barrier, closer>>

\* Replica.Replicate: a failure may still have made the group durable there.
ReplicateGroup ==
    /\ stage = "replicate"
    /\ \/ /\ replica' \in {replica, mark.local}
          /\ FailGroup("replica", "uncertain") /\ UNCHANGED mark
       \/ /\ replica' = mark.local
          /\ mark' = [mark EXCEPT !.replicated = mark.local]
          /\ stage' = "commit"
          /\ UNCHANGED <<fatal, group, completed>>
    /\ UNCHANGED <<callVars, engineVars, queue, carry, wal, tail, barrier, closer>>

\* The last guard, then the group is committed.
CommitGroup ==
    /\ stage = "commit"
    /\ \/ FailGroup("guard", "uncertain") /\ UNCHANGED mark
       \/ /\ mark' = [mark EXCEPT !.committed = mark.replicated]
          /\ stage' = "apply"
          /\ UNCHANGED <<fatal, group, completed>>
    /\ UNCHANGED <<callVars, engineVars, queue, carry, wal, replica, tail, barrier, closer>>

\* The first batch of the group that is not in the MemTable yet.
NextBatch == CHOOSE i \in 1..Len(group) : group[i].first = mark.applied

ApplyNext ==
    /\ stage = "apply" /\ mark.applied < mark.committed
    /\ LET p == group[NextBatch]
       IN  IF Continues(p)
           THEN /\ mark' = [mark EXCEPT !.applied = @ + p.count]
                /\ tail' = [tail EXCEPT ![p.stream] = p.seq + p.count]
                /\ UNCHANGED <<fatal, group, stage, completed>>
           ELSE FailGroup("apply", "uncertain") /\ UNCHANGED <<mark, tail>>
    /\ UNCHANGED <<callVars, engineVars, queue, carry, wal, replica, barrier, closer>>

\* AdvanceCommit's error is ignored, so it changes nothing here.
CompleteSuccess ==
    /\ stage = "apply" /\ mark.applied = mark.committed
    /\ CompleteGroup("ok")
    /\ UNCHANGED <<callVars, engineVars, queue, carry, fatal, wal, mark, replica, tail,
                   barrier, closer>>

CallStep(r) ==
    \/ AcquireAppendGate(r) \/ LockEngine(r) \/ BeginRegistry(r)
    \/ ResolveTail(r) \/ SendPending(r) \/ RegistryCommitted(r)
    \/ AppendReturns(r)

ClientStep(r) == CallAppend(r) \/ CancelAtGate(r) \/ CancelWait(r)

RunStep ==
    \/ HandleControl \/ StartGroup \/ AppendGroup \/ SyncGroup
    \/ ReplicateGroup \/ CommitGroup \/ ApplyNext \/ CompleteSuccess

CloseStep == SendShutdown \/ CloseReturns

Next ==
    \/ \E r \in Request : CallStep(r) \/ ClientStep(r)
    \/ \E s \in Stream : FinishAppend(s)
    \/ BeginBarrier \/ SendBarrier \/ BarrierReturns \/ CancelBarrier
    \/ BeginClose \/ CloseStep
    \/ CollectNext \/ RunStep

\* Every goroutine that can run eventually does; the collection timer ends a
\* group even if no candidate arrives.  Nothing makes a client call, cancel,
\* or close.
Fairness ==
    /\ \A r \in Request : WF_vars(CallStep(r))
    /\ \A s \in Stream : WF_vars(FinishAppend(s))
    /\ WF_vars(SendBarrier) /\ WF_vars(BarrierReturns) /\ WF_vars(CloseStep)
    /\ WF_vars(RunStep)

Spec == Init /\ [][Next]_vars /\ Fairness

(***************************************************************************)
(* Properties                                                              *)
(***************************************************************************)
Item == [kind : {"commit", "barrier", "shutdown"},
         req : Request \cup Stream \cup {Free}, stream : StreamId,
         first : Nat, seq : Nat, count : Nat]

Call == [pc : {"idle", "gate", "lock", "register", "sendRegistry", "registry",
               "tail", "sendAppend", "wait"}, ticket : Nat]

Gate == [by : Request \cup {Free}, ticket : Nat, finish : BOOLEAN]

Entry == [id : Nat, req : Request \cup Stream, stream : StreamId, seq : Nat,
          index : Nat, count : Nat]

Outcome == {"ok", "rejected", "uncertain"}

\* Every variable keeps its type: the state of Store and Committer.
TypeOK ==
    /\ call \in [Request -> Call]
    /\ result \in [Request -> Outcome \cup {"none"}]
    /\ attempts \in [Request -> Nat]
    /\ unsure \subseteq Request
    /\ gate \in [Stream -> Gate]
    /\ mu \in Request \cup {Free, "barrier", "close"}
    /\ nextEntryID \in Nat
    /\ engineFatal \in BOOLEAN
    /\ registered \subseteq Stream
    /\ queue \in Seq(Item) /\ Len(queue) <= QueueCapacity
    /\ carry \in Seq(Item) /\ Len(carry) <= 1
    /\ group \in Seq(Item) /\ Len(group) <= MaxRequests
    /\ stage \in {"idle", "collect", "sync", "replicate", "commit", "apply", "done"}
    /\ fatal \in {"none", "invalid", "gap", "append", "sync", "guard",
                  "replica", "apply"}
    /\ wal \in Seq(Entry)
    /\ mark \in [appended : Nat, local : Nat, replicated : Nat,
                 committed : Nat, applied : Nat]
    /\ replica \in Nat
    /\ tail \in [StreamId -> Nat]
    /\ completed \subseteq [ticket : Nat, outcome : Outcome]
    /\ barrier \in {"idle", "send", "wait", "passed", "failed", "cancelled"}
    /\ closer \in {"open", "send", "wait", "closed"}

\* Pendings the committer has not completed yet.
InFlight == {queue[i] : i \in 1..Len(queue)} \cup {carry[i] : i \in 1..Len(carry)}
              \cup {group[i] : i \in 1..Len(group)}

Written(r) == \E i \in 1..Len(wal) : wal[i].req = r

\* The order of the Strict watermarks, across a group that fails at any step:
\* last_appended >= local_durable >= replicated >= committed >= applied, and
\* what the watermarks claim is really in the WAL and on the standby.
WatermarkOrder ==
    /\ mark.applied <= mark.committed
    /\ mark.committed <= mark.replicated
    /\ mark.replicated <= mark.local
    /\ mark.local <= mark.appended
    /\ mark.appended <= Len(wal)
    /\ mark.replicated <= replica

\* A successful Append, deduplicated or not, has its whole batch at its
\* expected sequence, in both nodes' durable logs and in the MemTable.
SuccessIsDurable ==
    \A r \in Request : result[r] = "ok" =>
        \A k \in 0..Count[r] - 1 :
            \E i \in 1..Len(wal) :
                /\ wal[i].req = r /\ wal[i].seq = Expected[r] + k
                /\ i <= mark.applied /\ i <= mark.local /\ i <= replica

\* Retries, cancelled waits and concurrent rivals never write a request twice
\* nor two requests at one sequence: in the WAL each stream, the registry's
\* included, counts its records from 0 without gap or repetition.
SequencesContinuous ==
    \A i \in 1..Len(wal) :
        /\ \A j \in 1..i - 1 :
              wal[j].stream = wal[i].stream => wal[j].seq < wal[i].seq
        /\ \A k \in 0..wal[i].seq - 1 : \E j \in 1..i - 1 :
              wal[j].stream = wal[i].stream /\ wal[j].seq = k

\* An error without ResultUncertain means not written: unless an earlier call
\* for the request was uncertain, nothing of it is in the WAL or on its way.
RejectedNeverWritten ==
    \A r \in Request :
        result[r] = "rejected" /\ call[r].pc = "idle" /\ r \notin unsure =>
            ~Written(r) /\ \A p \in InFlight : p.req # r

\* What ValidateBatch accepted stays valid until it is applied: the gates, and
\* the mutex for the registry stream, keep a stream's tail still meanwhile.
ValidatedStaysValid == fatal \notin {"invalid", "apply"}

\* A barrier that passes leaves nothing admitted before it in the committer.
\* The barrier holds mu, so there is nothing at all.
BarrierDrains ==
    barrier = "passed" /\ mu = "barrier" => InFlight = {}

\* Nothing is ever queued behind the shutdown pending: it would wait for ever.
NothingAfterShutdown ==
    /\ \A i \in 1..Len(queue) - 1 : queue[i].kind # "shutdown"
    /\ stage = "done" => InFlight = {}

\* A committer that has failed never writes, commits or applies again.
FailedStaysFailed ==
    [][fatal # "none" => UNCHANGED <<fatal, wal, mark, replica, tail>>]_vars

\* Every call of Append returns: no wait on the gate, the mutex, the queue or
\* the completion is for ever, whatever fails and whoever closes.  A gate left
\* to finishAppend by a cancelled call is opened in the end.
AppendReturnsEventually ==
    /\ \A r \in Request : call[r].pc # "idle" ~> call[r].pc = "idle"
    /\ \A s \in Stream : gate[s].finish ~> ~gate[s].finish

\* Close returns.
CloseEnds == closer # "open" ~> closer = "closed"

\* commit_test.go's "CommitGuardRejectsBeforeAllocationWithoutPoisoning": a
\* guard that refuses before the WAL leaves the committer usable.  Here: entry
\* IDs never run ahead of the WAL they continue.
GuardRejectionHarmless == fatal # "gap"
=============================================================================
