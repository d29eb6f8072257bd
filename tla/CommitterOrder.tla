--------------------------- MODULE CommitterOrder ---------------------------
(***************************************************************************)
(* The order of the commit pipeline: the watermarks, the barrier, the      *)
(* shutdown and a failed committer.                                        *)
(*                                                                         *)
(* Locks says who holds the stream gates and the mutex, Pipeline that entry*)
(* IDs grow from the group to the end of the queue, Controls where barrier *)
(* and shutdown stand in it, Tickets who waits for which batch, and Marks  *)
(* what the watermarks are at each stage of a group. Each of them needs the*)
(* others: the IDs grow because they are given out under the mutex, and    *)
(* tickets stay unique because the IDs grow.                               *)
(***************************************************************************)
EXTENDS Committer, TLAPS


\* Of two commits, the first one's entry IDs end before the second one's begin.
Before(p, q) ==
    p.kind = "commit" /\ q.kind = "commit" => p.first + p.count <= q.first

\* The steps of Append that hold the stream's gate.
Gated == {"lock", "register", "sendRegistry", "registry", "tail", "sendAppend",
          "wait"}
\* The steps of Append that hold the engine's mutex.
Locked == Gated \ {"lock", "wait"}

\* One caller at a time behind a stream's gate, one holder of the mutex: who is
\* past the gate owns it, who is inside the mutex owns that, and a barrier or a
\* close that is under way holds the mutex too.
Locks ==
    /\ \A r \in Request : call[r].pc \in Gated =>
          gate[StreamOf[r]].by = r /\ ~gate[StreamOf[r]].finish
    /\ \A r \in Request : call[r].pc \in Locked => mu = r
    /\ \A s \in Stream : gate[s].by = Free => ~gate[s].finish
    /\ mu \in Request \cup {"barrier"} => closer = "open"
    /\ barrier \in {"send", "wait"} => mu = "barrier"
    /\ closer \in {"send", "wait"} => mu = "close"

\* Entry IDs grow from the group through the carried pending to the end of the
\* queue, and a group has at most one batch per stream.
Pipeline ==
    /\ group = <<>> <=> stage \in {"idle", "done"}
    /\ \A i \in 1..Len(group) : group[i].kind = "commit"
    /\ \A i, j \in 1..Len(group) : i < j =>
          Before(group[i], group[j]) /\ group[i].stream # group[j].stream
    /\ \A i, j \in 1..Len(queue) : i < j => Before(queue[i], queue[j])
    /\ \A i \in 1..Len(group), j \in 1..Len(carry) : Before(group[i], carry[j])
    /\ \A i \in 1..Len(group), j \in 1..Len(queue) : Before(group[i], queue[j])
    /\ \A i \in 1..Len(carry), j \in 1..Len(queue) : Before(carry[i], queue[j])
    /\ \A p \in InFlight : p.kind = "commit" =>
          p.count >= 1 /\ p.first + p.count <= nextEntryID

\* The one control pending of this kind is the last in the committer.
AtEnd(kind) ==
    IF queue = <<>> THEN carry # <<>> /\ carry[1].kind = kind
    ELSE /\ queue[Len(queue)].kind = kind
         /\ \A i \in 1..Len(queue) - 1 : queue[i].kind # kind
         /\ \A i \in 1..Len(carry) : carry[i].kind # kind

\* What a barrier or a shutdown under way finds in the committer.
Controls ==
    /\ barrier \in {"idle", "send"} => \A p \in InFlight : p.kind # "barrier"
    /\ barrier = "wait" => AtEnd("barrier")
    /\ barrier = "passed" /\ mu = "barrier" => InFlight = {}
    /\ closer \in {"open", "send"} =>
          stage # "done" /\ \A p \in InFlight : p.kind # "shutdown"
    /\ closer = "wait" => stage = "done" \/ AtEnd("shutdown")
    /\ closer = "closed" => stage = "done"
    /\ stage = "done" => InFlight = {}

\* The ticket of a batch in flight is held: by the call that waits for it, by
\* the gate its cancelled call left to finishAppend, or by a registry wait.
Owned(p) ==
    \/ \E r \in Request :
          /\ p = AppendItem(r, p.first)
          /\ \/ call[r].pc = "wait" /\ call[r].ticket = p.first
             \/ /\ gate[StreamOf[r]].finish /\ gate[StreamOf[r]].by = r
                /\ gate[StreamOf[r]].ticket = p.first
    \/ \E r \in Request :
          /\ call[r].pc = "registry" /\ call[r].ticket = p.first
          /\ p.req = StreamOf[r] /\ p.stream = RegistryStream /\ p.count = 1

\* The call waits for a completion.
Waits(r) == call[r].pc \in {"registry", "wait"}

\* Tickets are given out once: a batch in flight has an owner, no two waits
\* share a ticket, and no completed ticket is still in flight.
Tickets ==
    /\ \A p \in InFlight : p.kind = "commit" => Owned(p)
    /\ \A r \in Request : Waits(r) => call[r].ticket < nextEntryID
    /\ \A s \in Stream : gate[s].finish => gate[s].ticket < nextEntryID
    /\ \A r, q \in Request : Waits(r) /\ Waits(q) /\ r # q =>
          call[r].ticket # call[q].ticket
    /\ \A r \in Request, s \in Stream : Waits(r) /\ gate[s].finish =>
          call[r].ticket # gate[s].ticket
    /\ \A s, t \in Stream : gate[s].finish /\ gate[t].finish /\ s # t =>
          gate[s].ticket # gate[t].ticket
    /\ \A c \in completed : c.ticket < nextEntryID
    /\ \A c \in completed, p \in InFlight :
          p.kind = "commit" => p.first # c.ticket

\* The stages between the WAL append and the completion of a group.
Processing == {"sync", "replicate", "commit", "apply"}

\* The group's batches are the last entries of the WAL, in order.
GroupWritten ==
    /\ \A i \in 1..Len(group) - 1 :
          group[i + 1].first = group[i].first + group[i].count
    /\ GroupEnd = Len(wal)
    /\ \A i \in 1..Len(group) : \A k \in 1..group[i].count :
          wal[group[i].first + k] = Entries(group[i])[k]

\* The watermarks at each stage of a group, and where the batches in flight
\* stand to the end of the WAL while nothing has failed.
Marks ==
    /\ WatermarkOrder
    /\ replica <= mark.local
    /\ Len(wal) <= nextEntryID
    /\ fatal = "none" /\ stage \notin Processing => mark.applied = Len(wal)
    /\ stage \in Processing => fatal = "none" /\ GroupWritten
    /\ stage \in Processing => mark.appended = Len(wal)
    /\ stage \in Processing \ {"sync"} => mark.local = Len(wal)
    /\ stage \in {"commit", "apply"} => mark.replicated = Len(wal)
    /\ stage = "apply" => mark.committed = Len(wal)
    /\ stage \in Processing \ {"apply"} => mark.applied = group[1].first
    /\ stage = "apply" => mark.applied = Len(wal)
                          \/ \E i \in 1..Len(group) : group[i].first = mark.applied
    /\ fatal = "none" => \A i \in 1..Len(queue) :
          queue[i].kind = "commit" => Len(wal) <= queue[i].first
    /\ fatal = "none" => \A i \in 1..Len(carry) :
          carry[i].kind = "commit" => Len(wal) <= carry[i].first
    /\ fatal = "none" /\ stage = "collect" => \A i \in 1..Len(group) :
          Len(wal) <= group[i].first

\* The order of the committer.
OrderInv == TypeOK /\ Locks /\ Pipeline /\ Controls /\ Tickets /\ Marks

\* The member of the group that has an entry ID.
Holds(i, id) == group[i].first <= id /\ id < group[i].first + group[i].count

\* In a group without gap every entry ID from its first to its last belongs to
\* a member: true of one member, and kept by every member that joins.
Filled ==
    /\ group # <<>>
    /\ \A i \in 1..Len(group) - 1 :
          group[i + 1].first = group[i].first + group[i].count
    => \A id \in group[1].first..GroupEnd - 1 :
          \E i \in 1..Len(group) : Holds(i, id)

USE Zenon

(***************************************************************************)
(* Sequences                                                               *)
(***************************************************************************)
\* What dequeuing leaves: the queue without its head, shifted by one.
LEMMA TailFacts ==
    ASSUME NEW S, NEW q \in Seq(S), q # <<>>
    PROVE  /\ Tail(q) \in Seq(S) /\ Len(Tail(q)) = Len(q) - 1
           /\ \A i \in 1..Len(q) - 1 : Tail(q)[i] = q[i + 1]
           /\ Head(q) = q[1] /\ q[1] \in S /\ Len(q) \in Nat \ {0}
BY SMT

\* What enqueuing leaves: the queue as it was, with one item at its end.
LEMMA AppendFacts ==
    ASSUME NEW S, NEW q \in Seq(S), NEW e \in S
    PROVE  /\ Append(q, e) \in Seq(S) /\ Len(Append(q, e)) = Len(q) + 1
           /\ \A i \in 1..Len(q) : Append(q, e)[i] = q[i]
           /\ Append(q, e)[Len(q) + 1] = e
           /\ Len(q) \in Nat
BY SMT

\* A sequence of one item.
LEMMA OneFacts ==
    ASSUME NEW S, NEW e \in S
    PROVE  <<e>> \in Seq(S) /\ Len(<<e>>) = 1 /\ <<e>>[1] = e
BY SMT

\* The empty sequence, and the items of a typed one.
LEMMA EmptyFacts ==
    ASSUME NEW S
    PROVE  /\ <<>> \in Seq(S) /\ Len(<<>>) = 0
           /\ \A q \in Seq(S) : Len(q) \in Nat /\ (Len(q) = 0 <=> q = <<>>)
           /\ \A q \in Seq(S) : \A i \in 1..Len(q) : q[i] \in S
BY SMT

\* A function on 1..n with values in S is a sequence over S.
LEMMA FunctionFacts ==
    ASSUME NEW S, NEW n \in Nat, NEW f, f = [i \in 1..n |-> f[i]],
           \A i \in 1..n : f[i] \in S
    PROVE  f \in Seq(S) /\ Len(f) = n
BY SMT

(***************************************************************************)
(* Types                                                                   *)
(***************************************************************************)
\* The tail of a stream is a natural number.
LEMMA TailType ==
    ASSUME TypeOK, NEW s \in StreamId
    PROVE  NextSequence(s) \in Nat
BY DEF TypeOK, NextSequence

\* Moving a call to its next step keeps the type of the calls.
LEMMA GotoType ==
    ASSUME call \in [Request -> Call], NEW r \in Request, NEW pc, NEW t \in Nat,
           [pc |-> pc, ticket |-> t] \in Call, Goto(r, pc, t)
    PROVE  /\ call' \in [Request -> Call]
           /\ call'[r] = [pc |-> pc, ticket |-> t]
           /\ \A q \in Request : q # r => call'[q] = call[q]
BY SMT DEF Goto

\* Returning from Append keeps the types of what a return assigns.
LEMMA ReturnType ==
    ASSUME call \in [Request -> Call], result \in [Request -> Outcome \cup {"none"}],
           unsure \subseteq Request, gate \in [Stream -> Gate],
           attempts \in [Request -> Nat],
           NEW r \in Request, NEW outcome \in Outcome, ReturnWith(r, outcome)
    PROVE  /\ call' \in [Request -> Call]
           /\ result' \in [Request -> Outcome \cup {"none"}]
           /\ unsure' \subseteq Request
           /\ gate' \in [Stream -> Gate]
           /\ attempts' \in [Request -> Nat]
<1>1. StreamOf[r] \in Stream
    BY RequestAssumption
<1>2. [pc |-> "idle", ticket |-> 0] \in Call
    BY SMT DEF Call
<1>3. [by |-> Free, ticket |-> 0, finish |-> FALSE] \in Gate
    BY SMT DEF Gate
<1>4. call' \in [Request -> Call]
    BY <1>2, GotoType DEF ReturnWith
<1>5. gate' \in [Stream -> Gate]
    BY <1>1, <1>3, SMT DEF ReturnWith, OpenGate
<1>6. result' \in [Request -> Outcome \cup {"none"}] /\ unsure' \subseteq Request
      /\ attempts' \in [Request -> Nat]
    BY SMT DEF ReturnWith
<1> QED BY <1>4, <1>5, <1>6
\* The part of TypeOK about the calls of Append.
CallTyped ==
    /\ call \in [Request -> Call]
    /\ result \in [Request -> Outcome \cup {"none"}]
    /\ attempts \in [Request -> Nat]
    /\ unsure \subseteq Request

\* The part of TypeOK about the engine.
EngineTyped ==
    /\ gate \in [Stream -> Gate]
    /\ mu \in Request \cup {Free, "barrier", "close"}
    /\ nextEntryID \in Nat
    /\ engineFatal \in BOOLEAN
    /\ registered \subseteq Stream

\* The part of TypeOK about the pendings in the committer.
PipelineTyped ==
    /\ queue \in Seq(Item) /\ Len(queue) <= QueueCapacity
    /\ carry \in Seq(Item) /\ Len(carry) <= 1
    /\ group \in Seq(Item) /\ Len(group) <= MaxRequests

\* The part of TypeOK about process, the WAL and the watermarks.
LogTyped ==
    /\ stage \in {"idle", "collect", "sync", "replicate", "commit", "apply", "done"}
    /\ fatal \in {"none", "invalid", "gap", "append", "sync", "guard",
                  "replica", "apply"}
    /\ wal \in Seq(Entry)
    /\ mark \in [appended : Nat, local : Nat, replicated : Nat,
                 committed : Nat, applied : Nat]
    /\ replica \in Nat
    /\ tail \in [StreamId -> Nat]

\* The part of TypeOK about completions, barrier and closer.
RestTyped ==
    /\ completed \subseteq [ticket : Nat, outcome : Outcome]
    /\ barrier \in {"idle", "send", "wait", "passed", "failed", "cancelled"}
    /\ closer \in {"open", "send", "wait", "closed"}

\* TypeOK is the conjunction of its parts, before and after a step.
LEMMA TypeParts ==
    /\ TypeOK <=> CallTyped /\ EngineTyped /\ PipelineTyped /\ LogTyped /\ RestTyped
    /\ TypeOK' <=> /\ CallTyped' /\ EngineTyped' /\ PipelineTyped' /\ LogTyped'
                   /\ RestTyped'
BY DEF TypeOK, CallTyped, EngineTyped, PipelineTyped, LogTyped, RestTyped

\* A part of the state that a step leaves alone keeps its type.
LEMMA TypeFrames ==
    ASSUME TypeOK
    PROVE  /\ UNCHANGED callVars => CallTyped'
           /\ UNCHANGED engineVars => EngineTyped'
           /\ UNCHANGED <<queue, carry, group>> => PipelineTyped'
           /\ UNCHANGED <<stage, fatal, wal, mark, replica, tail>> => LogTyped'
           /\ UNCHANGED commitVars => PipelineTyped' /\ LogTyped'
           /\ UNCHANGED <<completed, barrier, closer>> => RestTyped'
<1>1. CallTyped /\ EngineTyped /\ PipelineTyped /\ LogTyped /\ RestTyped
    BY TypeParts
<1>2. UNCHANGED callVars => CallTyped'
    BY <1>1 DEF callVars, CallTyped
<1>3. UNCHANGED engineVars => EngineTyped'
    BY <1>1 DEF engineVars, EngineTyped
<1>4. UNCHANGED <<queue, carry, group>> => PipelineTyped'
    BY <1>1 DEF PipelineTyped
<1>5. UNCHANGED <<stage, fatal, wal, mark, replica, tail>> => LogTyped'
    BY <1>1 DEF LogTyped
<1>6. UNCHANGED <<completed, barrier, closer>> => RestTyped'
    BY <1>1 DEF RestTyped
<1> QED BY <1>2, <1>3, <1>4, <1>5, <1>6 DEF commitVars

\* The records that Goto assigns are calls.
LEMMA CallPcs ==
    /\ \A t \in Nat : \A pc \in {"idle", "gate", "lock", "register",
             "sendRegistry", "registry", "tail", "sendAppend", "wait"} :
          [pc |-> pc, ticket |-> t] \in Call
    /\ \A x \in Call : x.ticket \in Nat
    /\ 0 \in Nat
BY SMT DEF Call

\* ReturnWith keeps the types of the calls and of the gates.
LEMMA ReturnTyped ==
    ASSUME TypeOK, NEW r \in Request, NEW outcome \in Outcome,
           ReturnWith(r, outcome)
    PROVE  CallTyped' /\ gate' \in [Stream -> Gate]
<1>1. CallTyped /\ EngineTyped
    BY TypeParts
<1> QED BY <1>1, ReturnType DEF CallTyped, EngineTyped

\* Goto keeps the type of the calls at every step of Append.
LEMMA GotoTyped ==
    ASSUME TypeOK, NEW r \in Request, NEW t \in Nat,
           NEW pc \in {"idle", "gate", "lock", "register", "sendRegistry",
                       "registry", "tail", "sendAppend", "wait"},
           Goto(r, pc, t)
    PROVE  call' \in [Request -> Call]
<1>1. CallTyped
    BY TypeParts
<1> QED BY <1>1, CallPcs, GotoType DEF CallTyped

\* Committer.Enqueue's checks keep the types of calls and engine.
LEMMA EnqueueTyped ==
    ASSUME TypeOK, NEW r \in Request, NEW next \in {"sendRegistry", "sendAppend"},
           EnqueueChecks(r, next), UNCHANGED <<nextEntryID, registered>>
    PROVE  CallTyped' /\ EngineTyped'
<1>1. CallTyped /\ EngineTyped
    BY TypeParts
<1>2. CASE fatal = "none" /\ closer = "open"
    <2>1. Goto(r, next, 0) /\ UNCHANGED <<result, attempts, unsure, gate, mu, engineFatal>>
        BY <1>2 DEF EnqueueChecks
    <2>2. call' \in [Request -> Call]
        BY <2>1, CallPcs, GotoTyped
    <2> QED BY <1>1, <2>1, <2>2 DEF CallTyped, EngineTyped
<1>3. CASE ~(fatal = "none" /\ closer = "open")
    <2>1. ReturnWith(r, "rejected") /\ mu' = Free /\ engineFatal' = TRUE
        BY <1>3 DEF EnqueueChecks
    <2>2. CallTyped' /\ gate' \in [Stream -> Gate]
        BY <2>1, ReturnTyped DEF Outcome
    <2> QED BY <1>1, <2>1, <2>2 DEF EngineTyped
<1> QED BY <1>2, <1>3

\* The steps of Append that send nothing keep TypeOK.
LEMMA CallerTypes ==
    ASSUME TypeOK, NEW r \in Request,
           \/ CallAppend(r) \/ AcquireAppendGate(r) \/ CancelAtGate(r)
           \/ LockEngine(r) \/ BeginRegistry(r) \/ ResolveTail(r)
           \/ RegistryCommitted(r) \/ AppendReturns(r) \/ CancelWait(r)
    PROVE  TypeOK'
<1>1. CallTyped /\ EngineTyped /\ RestTyped
    BY TypeParts
<1>2. StreamOf[r] \in Stream
    BY RequestAssumption
<1>3. UNCHANGED <<commitVars, barrier, closer>>
    BY DEF CallAppend, AcquireAppendGate, CancelAtGate, LockEngine, BeginRegistry,
           ResolveTail, RegistryCommitted, AppendReturns, CancelWait
<1>4. PipelineTyped' /\ LogTyped'
    BY <1>3, TypeFrames
<1>5. completed' \subseteq completed
    BY DEF CallAppend, AcquireAppendGate, CancelAtGate, LockEngine, BeginRegistry,
           ResolveTail, RegistryCommitted, AppendReturns, CancelWait
<1>6. RestTyped'
    BY <1>1, <1>3, <1>5 DEF RestTyped
<1> SUFFICES CallTyped' /\ EngineTyped'
    BY <1>4, <1>6, TypeParts
<1>a. CASE CallAppend(r)
    <2>1. EngineTyped'
        BY <1>a, TypeFrames DEF CallAppend
    <2>2. attempts' \in [Request -> Nat] /\ result' \in [Request -> Outcome \cup {"none"}]
          /\ unsure' \subseteq Request
        BY <1>1, <1>a, SMT DEF CallAppend, CallTyped, Outcome
    <2>3. call' \in [Request -> Call]
        BY <1>1, <1>a, CallPcs, GotoTyped DEF CallAppend, CallTyped
    <2> QED BY <2>1, <2>2, <2>3 DEF CallTyped
<1>b. CASE AcquireAppendGate(r)
    <2>1. call' \in [Request -> Call]
        BY <1>b, CallPcs, GotoTyped DEF AcquireAppendGate
    <2>2. gate' \in [Stream -> Gate]
        BY <1>1, <1>2, <1>b, SMT DEF AcquireAppendGate, EngineTyped, Gate
    <2> QED BY <1>1, <1>b, <2>1, <2>2 DEF AcquireAppendGate, CallTyped, EngineTyped
<1>c. CASE CancelAtGate(r)
    <2>1. EngineTyped'
        BY <1>c, TypeFrames DEF CancelAtGate
    <2>2. call' \in [Request -> Call]
        BY <1>c, CallPcs, GotoTyped DEF CancelAtGate
    <2>3. result' \in [Request -> Outcome \cup {"none"}]
        BY <1>1, <1>c, SMT DEF CancelAtGate, CallTyped, Outcome
    <2> QED BY <1>1, <1>c, <2>1, <2>2, <2>3 DEF CancelAtGate, CallTyped
<1>d. CASE LockEngine(r)
    <2>1. CASE mu' = r /\ UNCHANGED <<result, attempts, unsure, gate>>
               /\ Goto(r, IF StreamOf[r] \in registered THEN "tail" ELSE "register", 0)
        <3>1. call' \in [Request -> Call]
            BY <2>1, CallPcs, GotoTyped
        <3> QED BY <1>1, <1>d, <2>1, <3>1 DEF LockEngine, CallTyped, EngineTyped
    <2>2. CASE ReturnWith(r, "rejected") /\ UNCHANGED mu
        <3>1. CallTyped' /\ gate' \in [Stream -> Gate]
            BY <2>2, ReturnTyped DEF Outcome
        <3> QED BY <1>1, <1>d, <2>2, <3>1 DEF LockEngine, EngineTyped
    <2> QED BY <1>d, <2>1, <2>2 DEF LockEngine
<1>e. CASE BeginRegistry(r)
    BY <1>e, EnqueueTyped DEF BeginRegistry
<1>f. CASE ResolveTail(r)
    <2>1. CASE EnqueueChecks(r, "sendAppend")
        BY <1>f, <2>1, EnqueueTyped DEF ResolveTail
    <2>2. CASE \E outcome \in Outcome :
                  ReturnWith(r, outcome) /\ mu' = Free /\ UNCHANGED engineFatal
        <3>1. CallTyped' /\ gate' \in [Stream -> Gate]
            BY <2>2, ReturnTyped
        <3> QED BY <1>1, <1>f, <2>2, <3>1 DEF ResolveTail, EngineTyped
    <2> QED BY <1>f, <2>1, <2>2 DEF ResolveTail, Outcome
<1>g. CASE RegistryCommitted(r)
    <2>1. CASE /\ registered' = registered \cup {StreamOf[r]}
               /\ Goto(r, "tail", 0)
               /\ UNCHANGED <<result, attempts, unsure, gate, mu>>
        <3>1. call' \in [Request -> Call]
            BY <2>1, CallPcs, GotoTyped
        <3> QED BY <1>1, <1>2, <1>g, <2>1, <3>1
                DEF RegistryCommitted, CallTyped, EngineTyped
    <2>2. CASE ReturnWith(r, "rejected") /\ mu' = Free /\ UNCHANGED registered
        <3>1. CallTyped' /\ gate' \in [Stream -> Gate]
            BY <2>2, ReturnTyped DEF Outcome
        <3> QED BY <1>1, <1>g, <2>2, <3>1 DEF RegistryCommitted, EngineTyped
    <2> QED BY <1>g, <2>1, <2>2 DEF RegistryCommitted
<1>h. CASE AppendReturns(r)
    <2>1. PICK c \in completed : ReturnWith(r, c.outcome)
        BY <1>h DEF AppendReturns
    <2>2. c.outcome \in Outcome
        BY <1>1, SMT DEF RestTyped
    <2>3. CallTyped' /\ gate' \in [Stream -> Gate]
        BY <2>1, <2>2, ReturnTyped
    <2> QED BY <1>1, <1>h, <2>3 DEF AppendReturns, EngineTyped
<1>i. CASE CancelWait(r)
    <2>1. call' \in [Request -> Call] /\ call[r].ticket \in Nat
        BY <1>1, <1>i, CallPcs, GotoTyped DEF CancelWait, CallTyped
    <2>2. gate' \in [Stream -> Gate]
        BY <1>1, <1>2, <1>i, <2>1, SMT DEF CancelWait, EngineTyped, Gate
    <2>3. result' \in [Request -> Outcome \cup {"none"}]
        BY <1>1, <1>i, SMT DEF CancelWait, CallTyped, Outcome
    <2> QED BY <1>1, <1>i, <2>1, <2>2, <2>3 DEF CancelWait, CallTyped, EngineTyped
<1> QED BY <1>a, <1>b, <1>c, <1>d, <1>e, <1>f, <1>g, <1>h, <1>i

(***************************************************************************)
(* What AppendGroup writes                                                 *)
(***************************************************************************)
\* What appendGroup writes for a pending are entries of the WAL's type,
\* numbered on from the pending's first ID and sequence.
LEMMA EntriesType ==
    ASSUME NEW p \in Item, p.req \in Request \cup Stream, NEW k \in 1..p.count
    PROVE  /\ Entries(p)[k] \in Entry
           /\ Entries(p)[k] = [id |-> p.first + k - 1, req |-> p.req,
                  stream |-> p.stream, seq |-> p.seq + k - 1, index |-> k - 1,
                  count |-> p.count]
<1>1. p.first \in Nat /\ p.seq \in Nat /\ p.count \in Nat /\ p.stream \in StreamId
    BY SMT DEF Item
<1>2. Entries(p)[k] = [id |-> p.first + k - 1, req |-> p.req,
                  stream |-> p.stream, seq |-> p.seq + k - 1, index |-> k - 1,
                  count |-> p.count]
    BY DEF Entries
<1>3. p.first + k - 1 \in Nat /\ p.seq + k - 1 \in Nat /\ k - 1 \in Nat
    BY <1>1, SMT
<1>4. Entries(p)[k] \in Entry
    BY <1>1, <1>2, <1>3, SMT DEF Entry
<1> QED BY <1>2, <1>4

\* A member of the group is a commit of a request or of a new stream's name,
\* with at least one record.
LEMMA GroupItems ==
    ASSUME TypeOK, Pipeline, Tickets, NEW i \in 1..Len(group)
    PROVE  /\ group[i] \in Item /\ group[i].kind = "commit"
           /\ group[i] \in InFlight
           /\ group[i].first \in Nat /\ group[i].count \in Nat \ {0}
           /\ group[i].req \in Request \cup Stream
<1>1. group[i] \in Item
    BY EmptyFacts DEF TypeOK
<1>2. group[i].kind = "commit" /\ group[i] \in InFlight
    BY DEF Pipeline, InFlight
<1>3. group[i].first \in Nat /\ group[i].count \in Nat
    BY <1>1, SMT DEF Item
<1>4. group[i].count >= 1
    BY <1>2 DEF Pipeline
<1>5. Owned(group[i])
    BY <1>2 DEF Tickets
<1>6. \A r \in Request : AppendItem(r, group[i].first).req = r
    BY DEF AppendItem
<1>7. group[i].req \in Request \cup Stream
    BY <1>5, <1>6, RequestAssumption DEF Owned
<1> QED BY <1>1, <1>2, <1>3, <1>4, <1>7, SMT

\* An entry ID belongs to one member of the group only.
LEMMA HolderUnique ==
    ASSUME TypeOK, Pipeline, Tickets,
           NEW id \in Nat, NEW i \in 1..Len(group), NEW j \in 1..Len(group),
           group[i].first <= id, id < group[i].first + group[i].count,
           group[j].first <= id, id < group[j].first + group[j].count
    PROVE  i = j
<1>1. group[i].first \in Nat /\ group[i].count \in Nat
      /\ group[j].first \in Nat /\ group[j].count \in Nat
    BY GroupItems
<1>2. i < j => group[i].first + group[i].count <= group[j].first
    BY GroupItems DEF Pipeline, Before
<1>3. j < i => group[j].first + group[j].count <= group[i].first
    BY GroupItems DEF Pipeline, Before
<1> QED BY <1>1, <1>2, <1>3, SMT

\* The k-th entry of a batch, by its ID.
LEMMA Offsets ==
    ASSUME NEW f \in Nat, NEW c \in Nat, NEW k \in Nat, 1 <= k, k <= c,
           NEW w \in Nat, NEW e \in Nat, w <= f, f + k <= e
    PROVE  \E id \in Nat : /\ w <= id /\ id < e /\ id + 1 = f + k
                           /\ f <= id /\ id < f + c /\ (id + 1) - f = k
<1>1. /\ f + (k - 1) \in Nat /\ w <= f + (k - 1) /\ f + (k - 1) < e
      /\ (f + (k - 1)) + 1 = f + k /\ ((f + (k - 1)) + 1) - f = k
      /\ f <= f + (k - 1) /\ f + (k - 1) < f + c
    BY SMT
<1> QED BY <1>1

\* What wal.Log.Append leaves when it writes up to an ID: the WAL as it was,
\* followed by exactly the group's entries before that ID.
LEMMA WriteFacts ==
    ASSUME TypeOK, Pipeline, Tickets, Filled, group # <<>>, Continuous,
           NEW end \in Len(wal)..GroupEnd, WriteUpTo(end)
    PROVE  /\ wal' \in Seq(Entry) /\ Len(wal') = end
           /\ \A j \in 1..Len(wal) : wal'[j] = wal[j]
           /\ \A j \in Len(wal) + 1..end : \E i \in 1..Len(group) :
                 /\ j - group[i].first \in 1..group[i].count
                 /\ wal'[j] = Entries(group[i])[j - group[i].first]
           /\ \A i \in 1..Len(group) : \A k \in 1..group[i].count :
                 Len(wal) <= group[i].first /\ group[i].first + k <= end =>
                    wal'[group[i].first + k] = Entries(group[i])[k]
<1>1. Len(group) \in Nat \ {0} /\ Len(wal) \in Nat
    BY EmptyFacts, SMT DEF TypeOK
<1>2. GroupEnd \in Nat
    <2>1. Len(group) \in 1..Len(group)
        BY <1>1, SMT
    <2>2. group[Len(group)].first \in Nat /\ group[Len(group)].count \in Nat
        BY <2>1, GroupItems
    <2> QED BY <2>2, SMT DEF GroupEnd
<1>3. end \in Nat /\ Len(wal) <= end /\ end <= GroupEnd
    BY <1>1, <1>2, SMT
<1>4. wal' = [i \in 1..end |-> IF i <= Len(wal) THEN wal[i] ELSE GroupEntry(i - 1)]
    BY DEF WriteUpTo
<1>5. \A j \in 1..Len(wal) : wal'[j] = wal[j] /\ wal[j] \in Entry
    <2>1. \A j \in 1..Len(wal) : wal[j] \in Entry
        BY EmptyFacts DEF TypeOK
    <2>2. \A j \in 1..Len(wal) : j \in 1..end /\ j <= Len(wal)
        BY <1>1, <1>3, SMT
    <2> QED BY <1>4, <2>1, <2>2
<1>6. ASSUME NEW id \in Nat, Len(wal) <= id, id < end
      PROVE  \E i \in 1..Len(group) :
                /\ group[i].first <= id /\ id < group[i].first + group[i].count
                /\ (id + 1) - group[i].first \in 1..group[i].count
                /\ wal'[id + 1] = Entries(group[i])[(id + 1) - group[i].first]
    <2> DEFINE h == CHOOSE i \in 1..Len(group) : Holds(i, id)
    <2>1. id < GroupEnd
        BY <1>2, <1>3, <1>6, SMT
    <2>2. \E i \in 1..Len(group) : Holds(i, id)
        <3>1. id \in Len(wal)..GroupEnd - 1
            BY <1>1, <1>2, <1>6, <2>1, SMT
        <3> QED BY <3>1 DEF Filled, Continuous
    <2>3. /\ h \in 1..Len(group)
          /\ group[h].first <= id /\ id < group[h].first + group[h].count
        BY <2>2 DEF Holds
    <2>4. GroupEntry(id) = Entries(group[h])[id - group[h].first + 1]
        BY DEF GroupEntry, Holds
    <2>5. id + 1 \in 1..end /\ ~(id + 1 <= Len(wal)) /\ (id + 1) - 1 = id
        BY <1>1, <1>3, <1>6, SMT
    <2>6. wal'[id + 1] = GroupEntry(id)
        BY <1>4, <2>5
    <2> HIDE DEF h
    <2>7. group[h].first \in Nat /\ group[h].count \in Nat
        BY <2>3, GroupItems
    <2>8. (id + 1) - group[h].first \in 1..group[h].count
          /\ id - group[h].first + 1 = (id + 1) - group[h].first
        BY <2>3, <2>7, SMT
    <2> QED BY <2>3, <2>4, <2>6, <2>8
<1>7. \A j \in Len(wal) + 1..end : \E i \in 1..Len(group) :
         /\ j - group[i].first \in 1..group[i].count
         /\ wal'[j] = Entries(group[i])[j - group[i].first]
    <2> TAKE j \in Len(wal) + 1..end
    <2>1. j - 1 \in Nat /\ Len(wal) <= j - 1 /\ j - 1 < end /\ (j - 1) + 1 = j
        BY <1>1, <1>3, SMT
    <2>2. \E i \in 1..Len(group) :
             /\ ((j - 1) + 1) - group[i].first \in 1..group[i].count
             /\ wal'[(j - 1) + 1] = Entries(group[i])[((j - 1) + 1) - group[i].first]
        BY <1>6, <2>1
    <2>3. PICK i \in 1..Len(group) :
             /\ ((j - 1) + 1) - group[i].first \in 1..group[i].count
             /\ wal'[(j - 1) + 1] = Entries(group[i])[((j - 1) + 1) - group[i].first]
        BY <2>2
    <2>4. ((j - 1) + 1) - group[i].first = j - group[i].first
        BY <2>1
    <2>5. j - group[i].first \in 1..group[i].count
          /\ wal'[j] = Entries(group[i])[j - group[i].first]
        BY <2>1, <2>3, <2>4
    <2> QED BY <2>5
<1>8. \A j \in 1..end : wal'[j] \in Entry
    <2> TAKE j \in 1..end
    <2>1. CASE j \in 1..Len(wal)
        BY <1>5, <2>1
    <2>2. CASE j \in Len(wal) + 1..end
        <3>1. PICK i \in 1..Len(group) :
                 /\ j - group[i].first \in 1..group[i].count
                 /\ wal'[j] = Entries(group[i])[j - group[i].first]
            BY <1>7, <2>2
        <3>2. group[i] \in Item /\ group[i].req \in Request \cup Stream
            BY GroupItems
        <3> QED BY <3>1, <3>2, EntriesType
    <2>3. j \in 1..Len(wal) \/ j \in Len(wal) + 1..end
        BY <1>1, <1>3, SMT
    <2> QED BY <2>1, <2>2, <2>3
<1>9. wal' = [j \in 1..end |-> wal'[j]]
    BY <1>4
<1>10. wal' \in Seq(Entry) /\ Len(wal') = end
    BY <1>3, <1>8, <1>9, FunctionFacts
<1>11. ASSUME NEW i \in 1..Len(group), NEW k \in 1..group[i].count,
              Len(wal) <= group[i].first, group[i].first + k <= end
       PROVE  wal'[group[i].first + k] = Entries(group[i])[k]
    <2>1. /\ group[i].first \in Nat /\ group[i].count \in Nat
          /\ k \in Nat /\ 1 <= k /\ k <= group[i].count
        BY GroupItems, SMT
    <2>2. PICK id \in Nat :
             /\ Len(wal) <= id /\ id < end /\ id + 1 = group[i].first + k
             /\ group[i].first <= id /\ id < group[i].first + group[i].count
             /\ (id + 1) - group[i].first = k
        <3>1. Len(wal) <= group[i].first /\ group[i].first + k <= end
            BY <1>11
        <3>2. Len(wal) \in Nat /\ end \in Nat
            BY <1>1, <1>3
        <3> DEFINE f == group[i].first
                   c == group[i].count
                   w == Len(wal)
        <3>3. /\ f \in Nat /\ c \in Nat /\ w \in Nat /\ end \in Nat /\ k \in Nat
              /\ 1 <= k /\ k <= c /\ w <= f /\ f + k <= end
            BY <2>1, <3>1, <3>2
        <3> SUFFICES \E id \in Nat : /\ w <= id /\ id < end /\ id + 1 = f + k
                           /\ f <= id /\ id < f + c /\ (id + 1) - f = k
            OBVIOUS
        <3> HIDE DEF f, c, w
        <3> QED BY <3>3, Offsets, SMT
    <2>3. PICK h \in 1..Len(group) :
                /\ group[h].first <= id /\ id < group[h].first + group[h].count
                /\ wal'[id + 1] = Entries(group[h])[(id + 1) - group[h].first]
        BY <1>6, <2>2
    <2>4. h = i
        BY <2>2, <2>3, HolderUnique
    <2> QED BY <2>2, <2>3, <2>4
<1> QED BY <1>5, <1>7, <1>10, <1>11

(***************************************************************************)
(* Types, of the steps that move pendings                                  *)
(***************************************************************************)
\* The pendings that Append, commitRegistry, CommitBarrier and Close send are
\* items.
LEMMA ItemTypes ==
    ASSUME TypeOK, NEW r \in Request, NEW n \in Nat
    PROVE  /\ AppendItem(r, n) \in Item
           /\ RegistryItem(StreamOf[r], n) \in Item
           /\ Control("barrier") \in Item
           /\ Control("shutdown") \in Item
<1>1. StreamOf[r] \in Stream /\ Expected[r] \in Nat /\ Count[r] \in Nat
    BY RequestAssumption, SMT
<1>2. AppendItem(r, n) \in Item
    BY <1>1, SMT DEF AppendItem, Item, StreamId
<1>3. NextSequence(RegistryStream) \in Nat
    BY TailType DEF StreamId
<1>4. RegistryItem(StreamOf[r], n) \in Item
    BY <1>1, <1>3, SMT DEF RegistryItem, Item, StreamId
<1>5. Control("barrier") \in Item /\ Control("shutdown") \in Item
    BY SMT DEF Control, Item, StreamId
<1> QED BY <1>2, <1>4, <1>5

\* The control pendings are items of their kind.
LEMMA ControlTypes ==
    /\ Control("barrier") \in Item /\ Control("shutdown") \in Item
    /\ Control("barrier").kind = "barrier" /\ Control("shutdown").kind = "shutdown"
BY SMT DEF Control, Item, StreamId

\* A send on a queue that is not full keeps the types of queue, carry and
\* group.
LEMMA SendTypes ==
    ASSUME TypeOK, NEW e \in Item, Len(queue) < QueueCapacity,
           queue' = Append(queue, e), UNCHANGED <<carry, group>>
    PROVE  PipelineTyped'
<1>1. PipelineTyped
    BY TypeParts
<1>2. queue' \in Seq(Item) /\ Len(queue') = Len(queue) + 1 /\ Len(queue) \in Nat
    BY <1>1, AppendFacts DEF PipelineTyped
<1>3. Len(queue') <= QueueCapacity
    BY <1>2, OptionAssumption, SMT
<1> QED BY <1>1, <1>2, <1>3 DEF PipelineTyped

\* Sending a pending keeps TypeOK.
LEMMA SendPendingTypes ==
    ASSUME TypeOK, NEW r \in Request, SendPending(r)
    PROVE  TypeOK'
<1>1. CallTyped /\ EngineTyped
    BY TypeParts
<1>2. nextEntryID \in Nat /\ Count[r] \in Nat
    BY <1>1, RequestAssumption, SMT DEF EngineTyped
<1>3. LogTyped' /\ RestTyped'
    BY TypeFrames DEF SendPending
<1>4. AppendItem(r, nextEntryID) \in Item
      /\ RegistryItem(StreamOf[r], nextEntryID) \in Item
    BY <1>2, ItemTypes
<1>5. PipelineTyped'
    BY <1>4, SendTypes DEF SendPending
<1>6. nextEntryID' \in Nat
    BY <1>2, SMT DEF SendPending
<1>7. call' \in [Request -> Call]
    BY <1>2, CallPcs, GotoTyped DEF SendPending
<1>8. mu' \in Request \cup {Free, "barrier", "close"}
    BY <1>1 DEF SendPending, EngineTyped
<1>9. CallTyped' /\ EngineTyped'
    BY <1>1, <1>6, <1>7, <1>8 DEF SendPending, CallTyped, EngineTyped
<1> QED BY <1>3, <1>5, <1>9, TypeParts

\* The steps of CommitBarrier, Close and finishAppend keep TypeOK.
LEMMA ControllerTypes ==
    ASSUME TypeOK,
           \/ BeginBarrier \/ SendBarrier \/ BarrierReturns \/ CancelBarrier
           \/ BeginClose \/ SendShutdown \/ CloseReturns
           \/ \E s \in Stream : FinishAppend(s)
    PROVE  TypeOK'
<1>1. EngineTyped /\ RestTyped
    BY TypeParts
<1>2. CallTyped'
    BY TypeFrames DEF BeginBarrier, SendBarrier, BarrierReturns, CancelBarrier,
           BeginClose, SendShutdown, CloseReturns, FinishAppend
<1>3. CASE BeginBarrier \/ BarrierReturns \/ CancelBarrier \/ BeginClose
           \/ CloseReturns
    <2>1. PipelineTyped' /\ LogTyped'
        BY <1>3, TypeFrames DEF BeginBarrier, BarrierReturns, CancelBarrier,
               BeginClose, CloseReturns
    <2>2. EngineTyped'
        BY <1>1, <1>3 DEF BeginBarrier, BarrierReturns, CancelBarrier,
               BeginClose, CloseReturns, EngineTyped
    <2>3. RestTyped'
        BY <1>1, <1>3 DEF BeginBarrier, BarrierReturns, CancelBarrier,
               BeginClose, CloseReturns, RestTyped
    <2> QED BY <1>2, <2>1, <2>2, <2>3, TypeParts
<1>4. CASE SendBarrier \/ SendShutdown
    <2>1. PipelineTyped'
        BY <1>4, ControlTypes, SendTypes DEF SendBarrier, SendShutdown
    <2>2. EngineTyped' /\ LogTyped'
        BY <1>4, TypeFrames DEF SendBarrier, SendShutdown
    <2>3. RestTyped'
        BY <1>1, <1>4 DEF SendBarrier, SendShutdown, RestTyped
    <2> QED BY <1>2, <2>1, <2>2, <2>3, TypeParts
<1>5. CASE \E s \in Stream : FinishAppend(s)
    <2>1. PICK s \in Stream : FinishAppend(s)
        BY <1>5
    <2>2. PipelineTyped' /\ LogTyped'
        BY <2>1, TypeFrames DEF FinishAppend
    <2>3. gate' \in [Stream -> Gate]
        BY <1>1, <2>1, SMT DEF FinishAppend, OpenGate, EngineTyped, Gate
    <2>4. EngineTyped'
        BY <1>1, <2>1, <2>3 DEF FinishAppend, EngineTyped
    <2>5. RestTyped'
        BY <1>1, <2>1 DEF FinishAppend, RestTyped
    <2> QED BY <1>2, <2>2, <2>4, <2>5, TypeParts
<1> QED BY <1>3, <1>4, <1>5

\* What run takes next: the carried pending, else the queue's head.
LEMMA NextFacts ==
    ASSUME TypeOK, HasNext, ConsumeNext
    PROVE  /\ NextPending \in Item
           /\ NextPending \in {carry[i] : i \in 1..Len(carry)}
                                \cup {queue[i] : i \in 1..Len(queue)}
           /\ queue' \in Seq(Item) /\ Len(queue') <= Len(queue)
           /\ carry' = <<>>
           /\ \/ /\ carry # <<>> /\ Len(carry) = 1 /\ NextPending = carry[1]
                 /\ queue' = queue
              \/ /\ carry = <<>> /\ queue # <<>> /\ NextPending = queue[1]
                 /\ Len(queue) \in Nat \ {0} /\ Len(queue') = Len(queue) - 1
                 /\ \A i \in 1..Len(queue') : queue'[i] = queue[i + 1]
<1>1. /\ queue \in Seq(Item) /\ carry \in Seq(Item) /\ Len(carry) <= 1
      /\ Len(queue) \in Nat /\ Len(carry) \in Nat
    BY EmptyFacts DEF TypeOK
<1>2. CASE carry # <<>>
    <2>a. Len(carry) # 0 /\ Len(carry) \in Nat /\ Len(carry) <= 1
        BY <1>1, <1>2, EmptyFacts
    <2>b. \A n \in Nat : n # 0 /\ n <= 1 => n = 1 /\ 1 \in 1..n
        BY SMT
    <2>1. Len(carry) = 1 /\ 1 \in 1..Len(carry)
        BY <2>a, <2>b
    <2>2. NextPending = carry[1] /\ carry[1] \in Item
        BY <1>1, <1>2, TailFacts DEF NextPending
    <2>3. carry' = <<>> /\ queue' = queue
        BY <1>2 DEF ConsumeNext
    <2>4. Len(queue') <= Len(queue)
        BY <1>1, <2>3, SMT
    <2> QED BY <1>1, <1>2, <2>1, <2>2, <2>3, <2>4
<1>3. CASE carry = <<>>
    <2>1. queue # <<>>
        BY <1>3 DEF HasNext
    <2>2. queue' = Tail(queue) /\ carry' = <<>>
        BY <1>3 DEF ConsumeNext
    <2>3. /\ queue' \in Seq(Item) /\ Len(queue') = Len(queue) - 1
          /\ \A i \in 1..Len(queue) - 1 : queue'[i] = queue[i + 1]
          /\ queue[1] \in Item /\ Head(queue) = queue[1]
          /\ Len(queue) \in Nat \ {0}
        BY <1>1, <2>1, <2>2, TailFacts
    <2>4. NextPending = queue[1]
        BY <1>3, <2>3 DEF NextPending
    <2>5. Len(queue') <= Len(queue) /\ 1 \in 1..Len(queue)
        BY <2>3, SMT
    <2> QED BY <1>3, <2>1, <2>2, <2>3, <2>4, <2>5
<1> QED BY <1>2, <1>3

\* Forming a group keeps TypeOK.
LEMMA MoveTypes ==
    ASSUME TypeOK, Pipeline, HandleControl \/ StartGroup \/ CollectNext
    PROVE  TypeOK'
<1>1. PipelineTyped /\ LogTyped /\ RestTyped
    BY TypeParts
<1>2. CallTyped' /\ EngineTyped'
    BY TypeFrames DEF HandleControl, StartGroup, CollectNext
<1>3. LogTyped' /\ RestTyped'
    <2>1. CASE HandleControl
        BY <1>1, <2>1 DEF HandleControl, LogTyped, RestTyped
    <2>2. CASE StartGroup
        BY <1>1, <2>2 DEF StartGroup, LogTyped, RestTyped
    <2>3. CASE CollectNext
        BY <1>1, <2>3 DEF CollectNext, LogTyped, RestTyped
    <2> QED BY <2>1, <2>2, <2>3
<1>4. Len(queue) \in Nat /\ QueueCapacity \in Nat /\ MaxRequests \in Nat \ {0}
    BY <1>1, EmptyFacts, OptionAssumption, SMT DEF PipelineTyped
<1>5. CASE HandleControl \/ StartGroup
    <2>1. HasNext /\ ConsumeNext
        BY <1>5 DEF HandleControl, StartGroup
    <2>2. /\ NextPending \in Item /\ carry' = <<>>
          /\ queue' \in Seq(Item) /\ Len(queue') <= Len(queue)
        BY <2>1, NextFacts
    <2>3. Len(queue') <= QueueCapacity
        BY <1>1, <1>4, <2>2, EmptyFacts, SMT DEF PipelineTyped
    <2>4. carry' \in Seq(Item) /\ Len(carry') <= 1
        BY <2>2, EmptyFacts, SMT
    <2>5. group' \in Seq(Item) /\ Len(group') <= MaxRequests
        <3>1. <<NextPending>> \in Seq(Item) /\ Len(<<NextPending>>) = 1
            BY <2>2, OneFacts
        <3>2. 1 <= MaxRequests
            BY <1>4, SMT
        <3> QED BY <1>1, <1>5, <3>1, <3>2 DEF HandleControl, StartGroup, PipelineTyped
    <2> QED BY <1>2, <1>3, <2>2, <2>3, <2>4, <2>5, TypeParts DEF PipelineTyped
<1>6. CASE CollectNext
    <2>1. queue # <<>> /\ queue' = Tail(queue) /\ Len(group) < MaxRequests /\ carry = <<>>
        BY <1>6 DEF CollectNext
    <2>2. queue' \in Seq(Item) /\ Len(queue') = Len(queue) - 1 /\ Head(queue) \in Item
        BY <1>1, <2>1, TailFacts DEF PipelineTyped
    <2>3. Len(queue') <= QueueCapacity
        BY <1>1, <1>4, <2>2, SMT DEF PipelineTyped
    <2>4. /\ Append(group, Head(queue)) \in Seq(Item)
          /\ Len(Append(group, Head(queue))) = Len(group) + 1
          /\ Len(group) \in Nat
        BY <1>1, <2>2, AppendFacts DEF PipelineTyped
    <2>5. Len(Append(group, Head(queue))) <= MaxRequests
        BY <1>4, <2>1, <2>4, SMT
    <2>6. group' \in Seq(Item) /\ Len(group') <= MaxRequests
        BY <1>1, <1>6, <2>4, <2>5 DEF CollectNext, PipelineTyped
    <2>7. <<Head(queue)>> \in Seq(Item) /\ Len(<<Head(queue)>>) <= 1
        BY <2>2, OneFacts, SMT
    <2>8. carry' \in Seq(Item) /\ Len(carry') <= 1
        BY <1>1, <1>6, <2>7 DEF CollectNext, PipelineTyped
    <2> QED BY <1>2, <1>3, <2>2, <2>3, <2>6, <2>8, TypeParts DEF PipelineTyped
<1> QED BY <1>5, <1>6

\* completeGroup keeps the types of queue, carry, group and completions.
LEMMA CompleteTypes ==
    ASSUME TypeOK, Pipeline, Tickets, NEW outcome \in Outcome,
           CompleteGroup(outcome), UNCHANGED <<queue, carry, barrier, closer>>
    PROVE  PipelineTyped' /\ RestTyped'
<1>1. PipelineTyped /\ RestTyped
    BY TypeParts
<1>2. \A i \in 1..Len(group) : group[i].first \in Nat
    BY GroupItems
<1>3. completed' \subseteq [ticket : Nat, outcome : Outcome]
    <2>1. \A n \in Nat : [ticket |-> n, outcome |-> outcome]
                           \in [ticket : Nat, outcome : Outcome]
        BY SMT
    <2> QED BY <1>1, <1>2, <2>1 DEF CompleteGroup, RestTyped
<1>4. group' \in Seq(Item) /\ Len(group') <= MaxRequests
    BY EmptyFacts, OptionAssumption, SMT DEF CompleteGroup
<1> QED BY <1>1, <1>3, <1>4 DEF PipelineTyped, RestTyped

(***************************************************************************)
(* Append up to the send, and after the completion                         *)
(***************************************************************************)
\* What a step of a call may do to gates and mutex: take them when they are
\* free, keep them while it needs them, give up its own.
LockMove(r) ==
    /\ \A q \in Request : q # r => call'[q] = call[q]
    /\ \/ gate' = gate /\ (call'[r].pc \in Gated => call[r].pc \in Gated)
       \/ /\ call[r].pc \in Gated \/ gate[StreamOf[r]].by = Free
          /\ \A s \in Stream : s # StreamOf[r] => gate'[s] = gate[s]
          /\ ~gate'[StreamOf[r]].finish
          /\ call'[r].pc \in Gated => gate'[StreamOf[r]].by = r
    /\ call'[r].pc \in Locked => mu' = r
    /\ \/ mu' = mu
       \/ mu = Free /\ mu' = r /\ closer = "open"
       \/ mu = r /\ mu' = Free
    /\ UNCHANGED <<barrier, closer>>

\* A step of Append that sends nothing: it moves its own call, within its own
\* gate and the mutex, and leaves the committer alone.
CallerMove(r) ==
    /\ LockMove(r)
    /\ call'[r].pc \notin {"registry", "wait"}
    /\ Waits(r) => \A p \in InFlight :
          p.kind = "commit" => p.first # call[r].ticket
    /\ completed' \subseteq completed
    /\ UNCHANGED <<nextEntryID, commitVars, barrier, closer>>

\* The names of requests, streams and mutex holders differ.
LEMMA NameFacts ==
    ASSUME NEW r \in Request
    PROVE  /\ r # Free /\ r # "barrier" /\ r # "close" /\ r \notin Stream
           /\ StreamOf[r] \in Stream /\ StreamOf[r] # RegistryStream
           /\ Free # "barrier" /\ Free # "close" /\ "barrier" # "close"
BY RequestAssumption, NameAssumption

\* Which steps of Append hold the stream's gate, and which the mutex.
LEMMA PcFacts ==
    /\ "idle" \notin Gated /\ "gate" \notin Gated
    /\ Locked \subseteq Gated
    /\ "lock" \in Gated \ Locked /\ "wait" \in Gated \ Locked
    /\ {"register", "sendRegistry", "registry", "tail", "sendAppend"} = Locked
BY DEF Gated, Locked

\* ReturnWith ends its own call and opens its own gate, no other.
LEMMA ReturnMoves ==
    ASSUME TypeOK, NEW r \in Request, NEW outcome, ReturnWith(r, outcome)
    PROVE  /\ call'[r].pc = "idle"
           /\ \A q \in Request : q # r => call'[q] = call[q]
           /\ \A s \in Stream : s # StreamOf[r] => gate'[s] = gate[s]
           /\ ~gate'[StreamOf[r]].finish
<1>1. call \in [Request -> Call] /\ gate \in [Stream -> Gate]
    BY DEF TypeOK
<1>2. StreamOf[r] \in Stream
    BY NameFacts
<1>3. call' = [call EXCEPT ![r] = [pc |-> "idle", ticket |-> 0]]
    BY DEF ReturnWith, Goto
<1>4. gate' = [gate EXCEPT ![StreamOf[r]] = [by |-> Free, ticket |-> 0, finish |-> FALSE]]
    BY DEF ReturnWith, OpenGate
<1>5. /\ call'[r].pc = "idle"
      /\ \A q \in Request : q # r => call'[q] = call[q]
    BY <1>1, <1>3, SMT
<1>6. /\ \A s \in Stream : s # StreamOf[r] => gate'[s] = gate[s]
      /\ ~gate'[StreamOf[r]].finish
    BY <1>1, <1>2, <1>4, SMT
<1> QED BY <1>5, <1>6

\* Goto moves its own call, no other.
LEMMA GotoMoves ==
    ASSUME TypeOK, NEW r \in Request, NEW pc, NEW t, Goto(r, pc, t)
    PROVE  /\ call'[r].pc = pc /\ call'[r].ticket = t
           /\ \A q \in Request : q # r => call'[q] = call[q]
<1>1. call \in [Request -> Call]
    BY DEF TypeOK
<1> QED BY <1>1, SMT DEF Goto

\* A return of a call that holds its gate, and whose batch is no longer in
\* flight, is a caller's move.
LEMMA ReturnShape ==
    ASSUME TypeOK, Locks, NEW r \in Request, NEW outcome, ReturnWith(r, outcome),
           call[r].pc \in Gated,
           mu' = mu \/ (mu = r /\ mu' = Free),
           Waits(r) => \A p \in InFlight :
              p.kind = "commit" => p.first # call[r].ticket,
           completed' \subseteq completed,
           UNCHANGED <<nextEntryID, commitVars, barrier, closer>>
    PROVE  CallerMove(r)
BY ReturnMoves, PcFacts DEF CallerMove, LockMove

\* Committer.Enqueue's checks, passed or not, are a caller's move.
LEMMA EnqueueShape ==
    ASSUME TypeOK, Locks, NEW r \in Request, NEW next \in {"sendRegistry", "sendAppend"},
           EnqueueChecks(r, next), call[r].pc \in Locked, ~Waits(r),
           UNCHANGED <<nextEntryID, commitVars, completed, barrier, closer>>
    PROVE  CallerMove(r)
<1>1. mu = r /\ call[r].pc \in Gated
    BY PcFacts DEF Locks
<1>2. CASE fatal = "none" /\ closer = "open"
    <2>1. Goto(r, next, 0) /\ UNCHANGED <<gate, mu>>
        BY <1>2 DEF EnqueueChecks
    <2>2. call'[r].pc = next /\ \A q \in Request : q # r => call'[q] = call[q]
        BY <2>1, GotoMoves
    <2>3. call'[r].pc \notin {"registry", "wait"}
        BY <2>2
    <2> QED BY <1>1, <2>1, <2>2, <2>3 DEF CallerMove, LockMove
<1>3. CASE ~(fatal = "none" /\ closer = "open")
    <2>1. ReturnWith(r, "rejected") /\ mu' = Free
        BY <1>3 DEF EnqueueChecks
    <2> QED BY <1>1, <2>1, ReturnShape
<1> QED BY <1>2, <1>3

\* Every step of Append that sends nothing, the cancelled wait apart, is a
\* caller's move.
LEMMA CallerShape ==
    ASSUME TypeOK, Locks, Tickets, NEW r \in Request,
           \/ CallAppend(r) \/ AcquireAppendGate(r) \/ CancelAtGate(r)
           \/ LockEngine(r) \/ BeginRegistry(r) \/ ResolveTail(r)
           \/ RegistryCommitted(r) \/ AppendReturns(r)
    PROVE  CallerMove(r)
<1>1. call \in [Request -> Call] /\ gate \in [Stream -> Gate] /\ StreamOf[r] \in Stream
    BY NameFacts DEF TypeOK
<1>a. CASE CallAppend(r)
    <2>1. call'[r].pc \in {"idle", "gate"} /\ \A q \in Request : q # r => call'[q] = call[q]
        BY <1>a, GotoMoves DEF CallAppend
    <2>2. ~Waits(r)
        BY <1>a DEF CallAppend, Waits
    <2> QED BY <1>a, <2>1, <2>2, PcFacts DEF CallAppend, CallerMove, LockMove, engineVars
<1>b. CASE AcquireAppendGate(r)
    <2>1. call'[r].pc = "lock" /\ \A q \in Request : q # r => call'[q] = call[q]
        BY <1>b, GotoMoves DEF AcquireAppendGate
    <2>2. ~Waits(r)
        BY <1>b DEF AcquireAppendGate, Waits
    <2>3. /\ \A s \in Stream : s # StreamOf[r] => gate'[s] = gate[s]
          /\ ~gate'[StreamOf[r]].finish /\ gate'[StreamOf[r]].by = r
        BY <1>1, <1>b, SMT DEF AcquireAppendGate
    <2> QED BY <1>b, <2>1, <2>2, <2>3, PcFacts DEF AcquireAppendGate, CallerMove, LockMove
<1>c. CASE CancelAtGate(r)
    <2>1. call'[r].pc = "idle" /\ \A q \in Request : q # r => call'[q] = call[q]
        BY <1>c, GotoMoves DEF CancelAtGate
    <2>2. ~Waits(r)
        BY <1>c DEF CancelAtGate, Waits
    <2> QED BY <1>c, <2>1, <2>2, PcFacts DEF CancelAtGate, CallerMove, LockMove, engineVars
<1>d. CASE LockEngine(r)
    <2>1. ~Waits(r) /\ call[r].pc \in Gated
        BY <1>d, PcFacts DEF LockEngine, Waits
    <2>2. CASE /\ closer = "open" /\ mu' = r /\ UNCHANGED gate
               /\ Goto(r, IF StreamOf[r] \in registered THEN "tail" ELSE "register", 0)
        <3>1. call'[r].pc \in {"tail", "register"}
              /\ \A q \in Request : q # r => call'[q] = call[q]
            BY <2>2, GotoMoves
        <3> QED BY <1>d, <2>1, <2>2, <3>1 DEF LockEngine, CallerMove, LockMove
    <2>3. CASE ReturnWith(r, "rejected") /\ UNCHANGED mu
        BY <1>d, <2>1, <2>3, ReturnShape DEF LockEngine
    <2> QED BY <1>d, <2>2, <2>3 DEF LockEngine
<1>e. CASE BeginRegistry(r)
    <2>1. ~Waits(r) /\ call[r].pc \in Locked
        BY <1>e, PcFacts DEF BeginRegistry, Waits
    <2> QED BY <1>e, <2>1, EnqueueShape DEF BeginRegistry
<1>f. CASE ResolveTail(r)
    <2>1. ~Waits(r) /\ call[r].pc \in Locked /\ call[r].pc \in Gated
        BY <1>f, PcFacts DEF ResolveTail, Waits
    <2>2. mu = r
        BY <2>1 DEF Locks
    <2>3. CASE EnqueueChecks(r, "sendAppend")
        BY <1>f, <2>1, <2>3, EnqueueShape DEF ResolveTail
    <2>4. CASE \E outcome : ReturnWith(r, outcome) /\ mu' = Free
        BY <1>f, <2>1, <2>2, <2>4, ReturnShape DEF ResolveTail
    <2> QED BY <1>f, <2>3, <2>4 DEF ResolveTail
<1>g. CASE RegistryCommitted(r)
    <2>1. call[r].pc \in Locked /\ call[r].pc \in Gated
        BY <1>g, PcFacts DEF RegistryCommitted
    <2>2. mu = r
        BY <2>1 DEF Locks
    <2>3. PICK c \in completed : c.ticket = call[r].ticket
        BY <1>g DEF RegistryCommitted
    <2>4. \A p \in InFlight : p.kind = "commit" => p.first # call[r].ticket
        BY <2>3 DEF Tickets
    <2>5. completed' \subseteq completed
        BY <1>g DEF RegistryCommitted
    <2>6. CASE Goto(r, "tail", 0) /\ UNCHANGED <<gate, mu>>
        <3>1. call'[r].pc = "tail" /\ \A q \in Request : q # r => call'[q] = call[q]
            BY <2>6, GotoMoves
        <3> QED BY <1>g, <2>1, <2>2, <2>4, <2>5, <2>6, <3>1 DEF RegistryCommitted, CallerMove, LockMove
    <2>7. CASE ReturnWith(r, "rejected") /\ mu' = Free
        BY <1>g, <2>1, <2>2, <2>4, <2>5, <2>7, ReturnShape DEF RegistryCommitted
    <2> QED BY <1>g, <2>6, <2>7 DEF RegistryCommitted
<1>h. CASE AppendReturns(r)
    <2>1. call[r].pc \in Gated
        BY <1>h, PcFacts DEF AppendReturns
    <2>2. PICK c \in completed : c.ticket = call[r].ticket /\ ReturnWith(r, c.outcome)
        BY <1>h DEF AppendReturns
    <2>3. \A p \in InFlight : p.kind = "commit" => p.first # call[r].ticket
        BY <2>2 DEF Tickets
    <2>4. completed' \subseteq completed
        BY <1>h DEF AppendReturns
    <2> QED BY <1>h, <2>1, <2>2, <2>3, <2>4, ReturnShape DEF AppendReturns
<1> QED BY <1>a, <1>b, <1>c, <1>d, <1>e, <1>f, <1>g, <1>h

\* A step that leaves queue, carry and group alone keeps Pipeline.
LEMMA PipelineFrame ==
    ASSUME UNCHANGED <<queue, carry, group, nextEntryID>>,
           stage \in {"idle", "done"} <=> stage' \in {"idle", "done"}
    PROVE  InFlight' = InFlight /\ (Pipeline => Pipeline')
<1>1. InFlight' = InFlight
    BY DEF InFlight
<1>2. Pipeline => Pipeline'
    BY <1>1, SMT DEF Pipeline, Before
<1> QED BY <1>1, <1>2

\* A step that leaves the committer, barrier and closer alone keeps Controls.
LEMMA ControlsFrame ==
    ASSUME Controls, UNCHANGED <<queue, carry, group, stage, barrier, closer>>,
           mu' = "barrier" => mu = "barrier"
    PROVE  Controls'
<1>1. InFlight' = InFlight /\ (\A kind : AtEnd(kind)' <=> AtEnd(kind))
    BY DEF InFlight, AtEnd
<1> QED BY <1>1 DEF Controls

\* A step that leaves the committer and the entry IDs alone keeps Marks.
LEMMA MarksFrame ==
    ASSUME Marks, UNCHANGED <<commitVars, nextEntryID>>
    PROVE  Marks'
<1>1. WatermarkOrder'
    BY DEF Marks, commitVars, WatermarkOrder
<1>2. GroupWritten' <=> GroupWritten
    BY SMT DEF commitVars, GroupWritten, GroupEnd, Entries
<1> QED BY <1>1, <1>2 DEF Marks, commitVars

\* A caller that takes or gives up gate and mutex as Append does keeps Locks.
LEMMA CallerLocks ==
    ASSUME TypeOK, Locks, NEW r \in Request, LockMove(r)
    PROVE  Locks'
<1>1. ASSUME NEW q \in Request, call'[q].pc \in Gated
      PROVE  gate'[StreamOf[q]].by = q /\ ~gate'[StreamOf[q]].finish
    <2>1. StreamOf[q] \in Stream /\ q # Free
        BY NameFacts
    <2>2. CASE q = r
        BY <1>1, <2>2 DEF LockMove, Locks
    <2>3. CASE q # r
        <3>1. call[q].pc \in Gated
            BY <1>1, <2>3 DEF LockMove
        <3>2. gate[StreamOf[q]].by = q /\ ~gate[StreamOf[q]].finish
            BY <3>1 DEF Locks
        <3>3. CASE gate' = gate
            BY <3>2, <3>3
        <3>4. CASE /\ call[r].pc \in Gated \/ gate[StreamOf[r]].by = Free
                   /\ \A s \in Stream : s # StreamOf[r] => gate'[s] = gate[s]
            <4>1. call[r].pc \in Gated => gate[StreamOf[r]].by = r
                BY DEF Locks
            <4>2. StreamOf[q] # StreamOf[r]
                BY <2>1, <2>3, <3>2, <3>4, <4>1
            <4> QED BY <2>1, <3>2, <3>4, <4>2
        <3> QED BY <3>3, <3>4 DEF LockMove
    <2> QED BY <2>2, <2>3
<1>2. ASSUME NEW q \in Request, call'[q].pc \in Locked
      PROVE  mu' = q
    <2>1. CASE q = r
        BY <1>2, <2>1 DEF LockMove
    <2>2. CASE q # r
        <3>1. mu = q
            BY <1>2, <2>2 DEF LockMove, Locks
        <3> QED BY <2>2, <3>1, NameFacts DEF LockMove
    <2> QED BY <2>1, <2>2
<1>3. \A s \in Stream : gate'[s].by = Free => ~gate'[s].finish
    BY DEF LockMove, Locks
<1>4. mu' \in Request \cup {"barrier"} => closer' = "open"
    BY NameFacts DEF LockMove, Locks
<1>5. barrier' \in {"send", "wait"} => mu' = "barrier"
    <2>1. barrier' = barrier /\ (barrier \in {"send", "wait"} => mu = "barrier")
        BY DEF LockMove, Locks
    <2> QED BY <2>1, NameFacts DEF LockMove
<1>6. closer' \in {"send", "wait"} => mu' = "close"
    BY NameFacts DEF LockMove, Locks
<1> QED BY <1>1, <1>2, <1>3, <1>4, <1>5, <1>6 DEF Locks

\* A caller's move keeps Tickets: who leaves a wait has no batch in flight.
LEMMA CallerTickets ==
    ASSUME TypeOK, Locks, Pipeline, Tickets, NEW r \in Request, CallerMove(r)
    PROVE  Tickets'
<1>1. InFlight' = InFlight /\ nextEntryID' = nextEntryID
    BY PipelineFrame DEF CallerMove, LockMove, commitVars
<1>2. \A q \in Request : Waits(q)' => q # r /\ Waits(q) /\ call'[q] = call[q]
    BY DEF CallerMove, LockMove, Waits
<1>3. \A s \in Stream : gate'[s].finish => gate'[s] = gate[s]
    BY DEF CallerMove, LockMove
<1>4. \A s \in Stream : gate[s].finish => gate'[s] = gate[s]
    <2>1. call[r].pc \in Gated => ~gate[StreamOf[r]].finish
        BY DEF Locks
    <2>2. gate[StreamOf[r]].by = Free => ~gate[StreamOf[r]].finish
        BY NameFacts DEF Locks
    <2> QED BY <2>1, <2>2 DEF CallerMove, LockMove
<1>5. ASSUME NEW p \in InFlight', p.kind = "commit"
      PROVE  Owned(p)'
    <2>1. p \in InFlight /\ Owned(p)
        BY <1>1, <1>5 DEF Tickets
    <2>2. \A q \in Request : Waits(q) /\ call[q].ticket = p.first => q # r
        BY <1>5, <2>1 DEF CallerMove, LockMove
    <2>3. \A q \in Request : q # r => call'[q] = call[q]
        BY DEF CallerMove, LockMove
    <2>4. CASE \E q \in Request : /\ p = AppendItem(q, p.first)
                                  /\ call[q].pc = "wait" /\ call[q].ticket = p.first
        BY <2>2, <2>3, <2>4 DEF Owned, Waits, AppendItem
    <2>5. CASE \E q \in Request : /\ p = AppendItem(q, p.first)
                                  /\ gate[StreamOf[q]].finish /\ gate[StreamOf[q]].by = q
                                  /\ gate[StreamOf[q]].ticket = p.first
        BY <1>4, <2>5, NameFacts DEF Owned, AppendItem
    <2>6. CASE \E q \in Request :
                  /\ call[q].pc = "registry" /\ call[q].ticket = p.first
                  /\ p.req = StreamOf[q] /\ p.stream = RegistryStream /\ p.count = 1
        BY <2>2, <2>3, <2>6 DEF Owned, Waits
    <2> QED BY <2>1, <2>4, <2>5, <2>6 DEF Owned
<1>6. \A q \in Request : Waits(q)' => call'[q].ticket < nextEntryID'
    BY <1>1, <1>2 DEF Tickets
<1>7. \A s \in Stream : gate'[s].finish => gate'[s].ticket < nextEntryID'
    BY <1>1, <1>3 DEF Tickets
<1>8. \A q, x \in Request : Waits(q)' /\ Waits(x)' /\ q # x =>
         call'[q].ticket # call'[x].ticket
    BY <1>2 DEF Tickets
<1>9. \A q \in Request, s \in Stream : Waits(q)' /\ gate'[s].finish =>
         call'[q].ticket # gate'[s].ticket
    <2> SUFFICES ASSUME NEW q \in Request, NEW s \in Stream, Waits(q)', gate'[s].finish
                 PROVE  call'[q].ticket # gate'[s].ticket
        OBVIOUS
    <2>1. Waits(q) /\ gate[s].finish /\ call'[q] = call[q] /\ gate'[s] = gate[s]
        BY <1>2, <1>3
    <2>2. call[q].ticket # gate[s].ticket
        BY <2>1 DEF Tickets
    <2> QED BY <2>1, <2>2
<1>10. \A s, t \in Stream : gate'[s].finish /\ gate'[t].finish /\ s # t =>
          gate'[s].ticket # gate'[t].ticket
    <2> SUFFICES ASSUME NEW s \in Stream, NEW t \in Stream,
                        gate'[s].finish, gate'[t].finish, s # t
                 PROVE  gate'[s].ticket # gate'[t].ticket
        OBVIOUS
    <2>1. /\ gate[s].finish /\ gate'[s] = gate[s]
          /\ gate[t].finish /\ gate'[t] = gate[t]
        BY <1>3
    <2>2. gate[s].ticket # gate[t].ticket
        BY <2>1 DEF Tickets
    <2> QED BY <2>1, <2>2
<1>11. /\ \A c \in completed' : c.ticket < nextEntryID'
       /\ \A c \in completed', p \in InFlight' : p.kind = "commit" => p.first # c.ticket
    BY <1>1 DEF CallerMove, LockMove, Tickets
<1> QED BY <1>5, <1>6, <1>7, <1>8, <1>9, <1>10, <1>11 DEF Tickets

\* The steps of Append that send nothing keep OrderInv.
LEMMA CallerStep ==
    ASSUME OrderInv, NEW r \in Request,
           \/ CallAppend(r) \/ AcquireAppendGate(r) \/ CancelAtGate(r)
           \/ LockEngine(r) \/ BeginRegistry(r) \/ ResolveTail(r)
           \/ RegistryCommitted(r) \/ AppendReturns(r)
    PROVE  OrderInv'
<1>1. TypeOK /\ Locks /\ Pipeline /\ Controls /\ Tickets /\ Marks
    BY DEF OrderInv
<1>2. CallerMove(r)
    BY <1>1, CallerShape
<1>3. TypeOK'
    BY <1>1, CallerTypes
<1>4. Locks' /\ Tickets'
    BY <1>1, <1>2, CallerLocks, CallerTickets DEF CallerMove
<1>5. UNCHANGED <<nextEntryID, commitVars, barrier, closer>>
    BY <1>2 DEF CallerMove, LockMove
<1>6. Pipeline'
    BY <1>1, <1>5, PipelineFrame DEF commitVars
<1>7. mu' = "barrier" => mu = "barrier"
    BY <1>2, NameFacts DEF CallerMove, LockMove
<1>8. Controls'
    BY <1>1, <1>5, <1>7, ControlsFrame DEF commitVars
<1>9. Marks'
    BY <1>1, <1>5, MarksFrame
<1> QED BY <1>3, <1>4, <1>6, <1>8, <1>9 DEF OrderInv

(***************************************************************************)
(* The end of a cancelled call, and the gate it leaves behind              *)
(***************************************************************************)
\* A cancelled wait keeps OrderInv: the gate takes over the ticket, and
\* finishAppend the wait.
LEMMA CancelWaitStep ==
    ASSUME OrderInv, NEW r \in Request, CancelWait(r)
    PROVE  OrderInv'
<1>1. TypeOK /\ Locks /\ Pipeline /\ Controls /\ Tickets /\ Marks
    BY DEF OrderInv
<1>2. TypeOK'
    BY <1>1, CallerTypes
<1>3. UNCHANGED <<nextEntryID, commitVars, mu, completed, barrier, closer>>
    BY DEF CancelWait
<1>4. Pipeline' /\ InFlight' = InFlight
    BY <1>1, <1>3, PipelineFrame DEF commitVars
<1>5. Controls'
    BY <1>1, <1>3, ControlsFrame DEF commitVars
<1>6. Marks'
    BY <1>1, <1>3, MarksFrame
<1> DEFINE t == call[r].ticket
           g == StreamOf[r]
<1>7. g \in Stream /\ r # Free /\ call[r].pc = "wait"
    BY NameFacts DEF CancelWait
<1>8. call'[r].pc = "idle" /\ \A q \in Request : q # r => call'[q] = call[q]
    BY <1>1, GotoMoves DEF CancelWait
<1>9. /\ gate'[g].by = r /\ gate'[g].finish /\ gate'[g].ticket = t
      /\ \A s \in Stream : s # g => gate'[s] = gate[s]
    <2>1. gate \in [Stream -> Gate]
        BY <1>1 DEF TypeOK
    <2> QED BY <1>7, <2>1, SMT DEF CancelWait
<1>10. gate[g].by = r /\ ~gate[g].finish
    BY <1>1, <1>7, PcFacts DEF Locks
<1>11. \A q \in Request : q # r /\ call[q].pc \in Gated => StreamOf[q] # g
    BY <1>1, <1>10 DEF Locks
<1>12. Locks'
    <2>1. \A q \in Request : call'[q].pc \in Gated =>
             gate'[StreamOf[q]].by = q /\ ~gate'[StreamOf[q]].finish
        <3> SUFFICES ASSUME NEW q \in Request, call'[q].pc \in Gated
                     PROVE  gate'[StreamOf[q]].by = q /\ ~gate'[StreamOf[q]].finish
            OBVIOUS
        <3>1. q # r /\ call[q].pc \in Gated /\ StreamOf[q] \in Stream
            BY <1>8, NameFacts, PcFacts
        <3>2. gate'[StreamOf[q]] = gate[StreamOf[q]]
            BY <1>9, <1>11, <3>1
        <3> QED BY <1>1, <3>1, <3>2 DEF Locks
    <2>2. \A q \in Request : call'[q].pc \in Locked => mu' = q
        BY <1>1, <1>3, <1>8, PcFacts DEF Locks
    <2>3. \A s \in Stream : gate'[s].by = Free => ~gate'[s].finish
        BY <1>1, <1>7, <1>9 DEF Locks
    <2> QED BY <1>1, <1>3, <2>1, <2>2, <2>3 DEF Locks
<1>13. Tickets'
    <2>1. \A q \in Request : Waits(q)' => q # r /\ Waits(q) /\ call'[q] = call[q]
        BY <1>8 DEF Waits
    <2>2. Waits(r)
        BY <1>7 DEF Waits
    <2>3. \A s \in Stream : gate'[s].finish =>
             \/ s = g /\ gate'[s].ticket = t
             \/ s # g /\ gate[s].finish /\ gate'[s] = gate[s]
        BY <1>9
    <2>4. t < nextEntryID
        BY <1>1, <2>2 DEF Tickets
    <2>5. ASSUME NEW p \in InFlight', p.kind = "commit"
          PROVE  Owned(p)'
        <3>1. Owned(p)
            BY <1>1, <1>4, <2>5 DEF Tickets
        <3>2. CASE \E q \in Request : /\ p = AppendItem(q, p.first)
                                      /\ call[q].pc = "wait" /\ call[q].ticket = p.first
            <4>1. PICK q \in Request : /\ p = AppendItem(q, p.first)
                                       /\ call[q].pc = "wait" /\ call[q].ticket = p.first
                BY <3>2
            <4>2. CASE q = r
                <5>1. /\ gate'[StreamOf[r]].finish /\ gate'[StreamOf[r]].by = r
                      /\ gate'[StreamOf[r]].ticket = p.first
                    BY <1>9, <4>1, <4>2
                <5> QED BY <4>1, <4>2, <5>1 DEF Owned, AppendItem
            <4>3. CASE q # r
                <5>1. call'[q] = call[q]
                    BY <1>8, <4>3
                <5> QED BY <4>1, <5>1 DEF Owned, AppendItem
            <4> QED BY <4>2, <4>3
        <3>3. CASE \E q \in Request : /\ p = AppendItem(q, p.first)
                                      /\ gate[StreamOf[q]].finish /\ gate[StreamOf[q]].by = q
                                      /\ gate[StreamOf[q]].ticket = p.first
            <4>1. PICK q \in Request :
                     /\ p = AppendItem(q, p.first)
                     /\ gate[StreamOf[q]].finish /\ gate[StreamOf[q]].by = q
                     /\ gate[StreamOf[q]].ticket = p.first
                BY <3>3
            <4>2. StreamOf[q] \in Stream /\ StreamOf[q] # g
                BY <1>10, <4>1, NameFacts
            <4>3. gate'[StreamOf[q]] = gate[StreamOf[q]]
                BY <1>9, <4>2
            <4> QED BY <4>1, <4>3 DEF Owned, AppendItem
        <3>4. CASE \E q \in Request :
                      /\ call[q].pc = "registry" /\ call[q].ticket = p.first
                      /\ p.req = StreamOf[q] /\ p.stream = RegistryStream /\ p.count = 1
            BY <1>7, <1>8, <3>4 DEF Owned
        <3> QED BY <3>1, <3>2, <3>3, <3>4 DEF Owned
    <2>6. \A q \in Request : Waits(q)' => call'[q].ticket < nextEntryID'
        BY <1>1, <1>3, <2>1 DEF Tickets
    <2>7. \A s \in Stream : gate'[s].finish => gate'[s].ticket < nextEntryID'
        BY <1>1, <1>3, <2>3, <2>4 DEF Tickets
    <2>8. \A q, x \in Request : Waits(q)' /\ Waits(x)' /\ q # x =>
             call'[q].ticket # call'[x].ticket
        BY <1>1, <2>1 DEF Tickets
    <2>9. ASSUME NEW q \in Request, NEW s \in Stream, Waits(q)', gate'[s].finish
          PROVE  call'[q].ticket # gate'[s].ticket
        <3>1. q # r /\ Waits(q) /\ call'[q] = call[q]
            BY <2>1, <2>9
        <3>2. call[q].ticket # t
            BY <1>1, <2>2, <3>1 DEF Tickets
        <3>3. gate[s].finish => call[q].ticket # gate[s].ticket
            BY <1>1, <3>1 DEF Tickets
        <3> QED BY <2>3, <2>9, <3>1, <3>2, <3>3
    <2>10. ASSUME NEW s \in Stream, NEW x \in Stream, s # x, gate'[s].finish,
                  gate'[x].finish
           PROVE  gate'[s].ticket # gate'[x].ticket
        <3>1. \A y \in Stream : gate[y].finish => t # gate[y].ticket
            BY <1>1, <2>2 DEF Tickets
        <3>2. gate[s].finish /\ gate[x].finish => gate[s].ticket # gate[x].ticket
            BY <1>1, <2>10 DEF Tickets
        <3> QED BY <2>3, <2>10, <3>1, <3>2
    <2>11. /\ \A c \in completed' : c.ticket < nextEntryID'
           /\ \A c \in completed', p \in InFlight' : p.kind = "commit" => p.first # c.ticket
        BY <1>1, <1>3, <1>4 DEF Tickets
    <2> QED BY <2>5, <2>6, <2>7, <2>8, <2>9, <2>10, <2>11 DEF Tickets
<1> QED BY <1>2, <1>4, <1>5, <1>6, <1>12, <1>13 DEF OrderInv

\* finishAppend keeps OrderInv.
LEMMA FinishAppendStep ==
    ASSUME OrderInv, NEW g \in Stream, FinishAppend(g)
    PROVE  OrderInv'
<1>1. TypeOK /\ Locks /\ Pipeline /\ Controls /\ Tickets /\ Marks
    BY DEF OrderInv
<1>2. TypeOK'
    BY <1>1, ControllerTypes
<1>3. UNCHANGED <<nextEntryID, commitVars, call, mu, barrier, closer>>
    BY DEF FinishAppend, callVars
<1>4. Pipeline' /\ InFlight' = InFlight
    BY <1>1, <1>3, PipelineFrame DEF commitVars
<1>5. Controls'
    BY <1>1, <1>3, ControlsFrame DEF commitVars
<1>6. Marks'
    BY <1>1, <1>3, MarksFrame
<1>7. /\ ~gate'[g].finish
      /\ \A s \in Stream : s # g => gate'[s] = gate[s]
    <2>1. gate \in [Stream -> Gate]
        BY <1>1 DEF TypeOK
    <2> QED BY <2>1, SMT DEF FinishAppend, OpenGate
<1>8. PICK c \in completed : c.ticket = gate[g].ticket /\ completed' = completed \ {c}
    BY DEF FinishAppend
<1>9. gate[g].finish
    BY DEF FinishAppend
<1>10. Locks'
    <2>1. \A q \in Request : call[q].pc \in Gated => StreamOf[q] # g
        BY <1>1, <1>9 DEF Locks
    <2> QED BY <1>1, <1>3, <1>7, <2>1, NameFacts DEF Locks
<1>11. Tickets'
    <2>1. \A p \in InFlight : p.kind = "commit" => p.first # gate[g].ticket
        BY <1>1, <1>8 DEF Tickets
    <2>2. \A s \in Stream : gate'[s].finish => s # g /\ gate[s].finish /\ gate'[s] = gate[s]
        BY <1>7
    <2>3. ASSUME NEW p \in InFlight', p.kind = "commit"
          PROVE  Owned(p)'
        <3>1. Owned(p) /\ p.first # gate[g].ticket
            BY <1>1, <1>4, <2>1, <2>3 DEF Tickets
        <3>2. CASE \E q \in Request : /\ p = AppendItem(q, p.first)
                                      /\ gate[StreamOf[q]].finish /\ gate[StreamOf[q]].by = q
                                      /\ gate[StreamOf[q]].ticket = p.first
            BY <1>7, <3>1, <3>2, NameFacts DEF Owned, AppendItem
        <3> QED BY <1>3, <3>1, <3>2 DEF Owned, AppendItem
    <2>4. \A q \in Request : Waits(q)' <=> Waits(q)
        BY <1>3 DEF Waits
    <2>5. /\ \A q \in Request : Waits(q)' => call'[q].ticket < nextEntryID'
          /\ \A q, x \in Request : Waits(q)' /\ Waits(x)' /\ q # x =>
                call'[q].ticket # call'[x].ticket
        BY <1>1, <1>3, <2>4 DEF Tickets
    <2>6. /\ \A s \in Stream : gate'[s].finish => gate'[s].ticket < nextEntryID'
          /\ \A s, x \in Stream : gate'[s].finish /\ gate'[x].finish /\ s # x =>
                gate'[s].ticket # gate'[x].ticket
        <3>1. /\ \A s \in Stream : gate[s].finish => gate[s].ticket < nextEntryID
              /\ \A s, x \in Stream : gate[s].finish /\ gate[x].finish /\ s # x =>
                    gate[s].ticket # gate[x].ticket
            BY <1>1 DEF Tickets
        <3> QED BY <1>3, <2>2, <3>1
    <2>7. \A q \in Request, s \in Stream : Waits(q)' /\ gate'[s].finish =>
             call'[q].ticket # gate'[s].ticket
        <3>1. \A q \in Request, s \in Stream : Waits(q) /\ gate[s].finish =>
                 call[q].ticket # gate[s].ticket
            BY <1>1 DEF Tickets
        <3> QED BY <1>3, <2>2, <2>4, <3>1
    <2>8. /\ \A d \in completed' : d.ticket < nextEntryID'
          /\ \A d \in completed', p \in InFlight' : p.kind = "commit" => p.first # d.ticket
        BY <1>1, <1>3, <1>4, <1>8 DEF Tickets
    <2> QED BY <2>3, <2>5, <2>6, <2>7, <2>8 DEF Tickets
<1> QED BY <1>2, <1>4, <1>5, <1>6, <1>10, <1>11 DEF OrderInv

(***************************************************************************)
(* Sends                                                                   *)
(***************************************************************************)
\* The indices of a queue one item longer.
LEMMA IntervalFacts ==
    ASSUME NEW n \in Nat
    PROVE  /\ \A i \in 1..n + 1 : i \in 1..n \/ i = n + 1
           /\ \A i \in 1..n : i \in 1..n + 1
           /\ n + 1 \in 1..n + 1
           /\ \A i, j \in 1..n + 1 : i < j => i \in 1..n
           /\ (n + 1) - 1 = n
           /\ n + 1 # 0
BY SMT

\* A pending in flight is an item.
LEMMA InFlightItems ==
    ASSUME TypeOK, NEW p \in InFlight
    PROVE  p \in Item /\ p.first \in Nat /\ p.count \in Nat /\ p.seq \in Nat
<1>1. queue \in Seq(Item) /\ carry \in Seq(Item) /\ group \in Seq(Item)
    BY DEF TypeOK
<1>2. /\ \A i \in 1..Len(queue) : queue[i] \in Item
      /\ \A i \in 1..Len(carry) : carry[i] \in Item
      /\ \A i \in 1..Len(group) : group[i] \in Item
    BY <1>1, EmptyFacts
<1>3. p \in Item
    BY <1>2 DEF InFlight
<1> QED BY <1>3, SMT DEF Item

\* A send keeps Pipeline: the new batch begins where the IDs given out so far
\* end.
LEMMA SendPipeline ==
    ASSUME TypeOK, Pipeline, NEW e \in Item,
           e.kind = "commit" => /\ e.first = nextEntryID /\ e.count >= 1
                                /\ nextEntryID' = nextEntryID + e.count,
           e.kind # "commit" => nextEntryID' = nextEntryID,
           queue' = Append(queue, e), UNCHANGED <<carry, group, stage>>
    PROVE  /\ InFlight' = InFlight \cup {e}
           /\ Len(queue) \in Nat /\ Len(queue') = Len(queue) + 1
           /\ \A i \in 1..Len(queue) : queue'[i] = queue[i]
           /\ queue'[Len(queue')] = e
           /\ nextEntryID \in Nat /\ nextEntryID' \in Nat
           /\ nextEntryID <= nextEntryID'
           /\ Pipeline'
<1>1. /\ queue \in Seq(Item) /\ carry \in Seq(Item) /\ group \in Seq(Item)
      /\ nextEntryID \in Nat
    BY DEF TypeOK
<1>2. /\ Len(queue) \in Nat /\ Len(queue') = Len(queue) + 1
      /\ \A i \in 1..Len(queue) : queue'[i] = queue[i]
      /\ queue'[Len(queue) + 1] = e
    <2> DEFINE q == Append(queue, e)
    <2>1. /\ Len(queue) \in Nat /\ Len(q) = Len(queue) + 1
          /\ \A i \in 1..Len(queue) : q[i] = queue[i]
          /\ q[Len(queue) + 1] = e
        BY <1>1, SMT
    <2>2. queue' = q
        OBVIOUS
    <2> HIDE DEF q
    <2> QED BY <2>1, <2>2
<1>3. /\ \A i \in 1..Len(queue') : i \in 1..Len(queue) \/ i = Len(queue) + 1
      /\ \A i \in 1..Len(queue) : i \in 1..Len(queue')
      /\ Len(queue) + 1 \in 1..Len(queue')
      /\ \A i, j \in 1..Len(queue') : i < j => i \in 1..Len(queue)
    BY <1>2, IntervalFacts
<1>4. {queue'[i] : i \in 1..Len(queue')} = {queue[i] : i \in 1..Len(queue)} \cup {e}
    BY <1>2, <1>3
<1>5. InFlight' = InFlight \cup {e}
    BY <1>4 DEF InFlight
<1>6. e.first \in Nat /\ e.count \in Nat
    BY SMT DEF Item
<1>7. /\ nextEntryID' \in Nat /\ nextEntryID <= nextEntryID'
      /\ e.kind = "commit" => e.first + e.count <= nextEntryID'
    BY <1>1, <1>6, SMT
<1>8. \A p \in InFlight : Before(p, e)
    BY DEF Pipeline, Before
<1>9. \A p \in InFlight' : p.kind = "commit" =>
          p.count >= 1 /\ p.first + p.count <= nextEntryID'
    <2>1. ASSUME NEW p \in InFlight, p.kind = "commit"
          PROVE  p.count >= 1 /\ p.first + p.count <= nextEntryID'
        <3>2. p.first \in Nat /\ p.count \in Nat
            BY InFlightItems
        <3>3. p.count >= 1 /\ p.first + p.count <= nextEntryID
            BY <2>1 DEF Pipeline
        <3> QED BY <1>1, <1>7, <3>2, <3>3, SMT
    <2> QED BY <1>5, <1>7, <2>1
<1>10. \A i, j \in 1..Len(queue') : i < j => Before(queue'[i], queue'[j])
    <2> SUFFICES ASSUME NEW i \in 1..Len(queue'), NEW j \in 1..Len(queue'), i < j
                 PROVE  Before(queue'[i], queue'[j])
        OBVIOUS
    <2>1. i \in 1..Len(queue) /\ queue'[i] = queue[i] /\ queue[i] \in InFlight
        BY <1>2, <1>3 DEF InFlight
    <2>2. CASE j \in 1..Len(queue)
        BY <1>2, <2>1, <2>2 DEF Pipeline
    <2>3. CASE j = Len(queue) + 1
        BY <1>2, <1>8, <2>1, <2>3
    <2> QED BY <1>3, <2>2, <2>3
<1>11. /\ \A i \in 1..Len(group), j \in 1..Len(queue') : Before(group[i], queue'[j])
       /\ \A i \in 1..Len(carry), j \in 1..Len(queue') : Before(carry[i], queue'[j])
    <2>1. /\ \A i \in 1..Len(group) : group[i] \in InFlight
          /\ \A i \in 1..Len(carry) : carry[i] \in InFlight
        BY DEF InFlight
    <2>2. ASSUME NEW p \in InFlight, \A j \in 1..Len(queue) : Before(p, queue[j])
          PROVE  \A j \in 1..Len(queue') : Before(p, queue'[j])
        BY <1>2, <1>3, <1>8, <2>2
    <2>3. /\ \A i \in 1..Len(group), j \in 1..Len(queue) : Before(group[i], queue[j])
          /\ \A i \in 1..Len(carry), j \in 1..Len(queue) : Before(carry[i], queue[j])
        BY DEF Pipeline
    <2> QED BY <2>1, <2>2, <2>3
<1>12. Pipeline'
    <2>1. /\ group' = <<>> <=> stage' \in {"idle", "done"}
          /\ \A i \in 1..Len(group') : group'[i].kind = "commit"
          /\ \A i, j \in 1..Len(group') : i < j =>
                Before(group'[i], group'[j]) /\ group'[i].stream # group'[j].stream
          /\ \A i \in 1..Len(group'), j \in 1..Len(carry') : Before(group'[i], carry'[j])
        BY SMT DEF Pipeline, Before
    <2> QED BY <1>9, <1>10, <1>11, <2>1 DEF Pipeline
<1> QED BY <1>1, <1>2, <1>5, <1>7, <1>12

\* A send keeps Marks: the new batch begins at the end of the WAL or beyond.
LEMMA SendMarks ==
    ASSUME TypeOK, Marks, Pipeline, NEW e \in Item,
           e.kind = "commit" => /\ e.first = nextEntryID /\ e.count >= 1
                                /\ nextEntryID' = nextEntryID + e.count,
           e.kind # "commit" => nextEntryID' = nextEntryID,
           queue' = Append(queue, e),
           UNCHANGED <<carry, group, stage, fatal, wal, mark, replica, tail>>
    PROVE  Marks'
<1>1. /\ Len(queue) \in Nat /\ Len(queue') = Len(queue) + 1
      /\ \A i \in 1..Len(queue) : queue'[i] = queue[i]
      /\ queue'[Len(queue) + 1] = e
      /\ nextEntryID \in Nat /\ nextEntryID' \in Nat /\ nextEntryID <= nextEntryID'
    BY SendPipeline
<1>2. Len(wal) \in Nat
    BY EmptyFacts DEF TypeOK
<1>3. Len(wal) <= nextEntryID /\ Len(wal') <= nextEntryID'
    BY <1>1, <1>2, SMT DEF Marks
<1>4. fatal' = "none" => \A i \in 1..Len(queue') :
         queue'[i].kind = "commit" => Len(wal') <= queue'[i].first
    <2> SUFFICES ASSUME fatal = "none", NEW i \in 1..Len(queue'),
                        queue'[i].kind = "commit"
                 PROVE  Len(wal) <= queue'[i].first
        OBVIOUS
    <2>1. CASE i \in 1..Len(queue)
        BY <1>1, <2>1 DEF Marks
    <2>2. CASE i = Len(queue) + 1
        BY <1>1, <1>3, <2>2
    <2> QED BY <1>1, <2>1, <2>2, IntervalFacts
<1>5. WatermarkOrder'
    BY DEF Marks, WatermarkOrder
<1>6. GroupWritten' <=> GroupWritten
    BY SMT DEF GroupWritten, GroupEnd, Entries
<1> QED BY <1>3, <1>4, <1>5, <1>6 DEF Marks

\* Tickets are entry IDs.
LEMMA TicketTypes ==
    ASSUME TypeOK
    PROVE  /\ \A r \in Request : call[r].ticket \in Nat
           /\ \A s \in Stream : gate[s].ticket \in Nat
           /\ \A c \in completed : c.ticket \in Nat /\ c.outcome \in Outcome
           /\ nextEntryID \in Nat
<1>1. \A r \in Request : call[r] \in Call
    BY DEF TypeOK
<1>2. \A s \in Stream : gate[s] \in Gate
    BY DEF TypeOK
<1>3. \A c \in completed : c \in [ticket : Nat, outcome : Outcome]
    BY DEF TypeOK
<1>4. /\ \A x \in Call : x.ticket \in Nat
      /\ \A x \in Gate : x.ticket \in Nat
      /\ \A x \in [ticket : Nat, outcome : Outcome] : x.ticket \in Nat /\ x.outcome \in Outcome
    BY SMT DEF Call, Gate
<1>5. nextEntryID \in Nat
    BY DEF TypeOK
<1> QED BY <1>1, <1>2, <1>3, <1>4, <1>5

\* A send keeps Tickets: the ticket it gives out is one nobody holds.
LEMMA SendTickets ==
    ASSUME TypeOK, Tickets, NEW r \in Request, NEW e,
           ~Waits(r), call'[r].ticket = nextEntryID,
           \A q \in Request : q # r => call'[q] = call[q],
           InFlight' = InFlight \cup {e}, e.first = nextEntryID, Owned(e)',
           nextEntryID' \in Nat, nextEntryID < nextEntryID',
           UNCHANGED <<gate, completed>>
    PROVE  Tickets'
<1> DEFINE n == nextEntryID
<1>1. n \in Nat /\ ~(n < n)
    <2>1. n \in Nat
        BY DEF TypeOK
    <2> QED BY <2>1, SMT
<1>2. \A x \in Nat : x < n => x < nextEntryID' /\ x # n
    BY <1>1, SMT
<1>3. \A q \in Request : Waits(q)' =>
         \/ q = r /\ call'[q].ticket = n
         \/ q # r /\ Waits(q) /\ call'[q] = call[q]
    BY DEF Waits
<1>4. \A q \in Request : Waits(q) => call[q].ticket \in Nat /\ call[q].ticket < n
    BY TicketTypes DEF Tickets
<1>5. \A s \in Stream : gate[s].finish => gate[s].ticket \in Nat /\ gate[s].ticket < n
    BY TicketTypes DEF Tickets
<1>6. \A c \in completed : c.ticket \in Nat /\ c.ticket < n
    BY TicketTypes DEF Tickets
<1>7. ASSUME NEW p \in InFlight', p.kind = "commit"
      PROVE  Owned(p)'
    <2>1. CASE p = e
        BY <2>1
    <2>2. CASE p \in InFlight
        <3>1. Owned(p)
            BY <1>7, <2>2 DEF Tickets
        <3>2. \A q \in Request : call[q].pc \in {"wait", "registry"} => call'[q] = call[q]
            BY DEF Waits
        <3> QED BY <3>1, <3>2 DEF Owned, AppendItem
    <2> QED BY <2>1, <2>2
<1>8. \A q \in Request : Waits(q)' => call'[q].ticket < nextEntryID'
    BY <1>2, <1>3, <1>4
<1>9. \A s \in Stream : gate'[s].finish => gate'[s].ticket < nextEntryID'
    BY <1>2, <1>5
<1>10. ASSUME NEW q \in Request, NEW x \in Request, Waits(q)', Waits(x)', q # x
       PROVE  call'[q].ticket # call'[x].ticket
    <2>1. Waits(q) /\ Waits(x) => call[q].ticket # call[x].ticket
        BY <1>10 DEF Tickets
    <2>2. CASE q = r
        <3>1. call'[q].ticket = n /\ x # r
            BY <1>10, <2>2
        <3>2. call'[x].ticket \in Nat /\ call'[x].ticket < n
            BY <1>3, <1>4, <1>10, <3>1
        <3> QED BY <1>2, <3>1, <3>2
    <2>3. CASE x = r
        <3>1. call'[x].ticket = n /\ q # r
            BY <1>10, <2>3
        <3>2. call'[q].ticket \in Nat /\ call'[q].ticket < n
            BY <1>3, <1>4, <1>10, <3>1
        <3> QED BY <1>2, <3>1, <3>2
    <2>4. CASE q # r /\ x # r
        BY <1>3, <1>10, <2>1, <2>4
    <2> QED BY <2>2, <2>3, <2>4
<1>11. ASSUME NEW q \in Request, NEW s \in Stream, Waits(q)', gate'[s].finish
       PROVE  call'[q].ticket # gate'[s].ticket
    <2>1. gate[s].finish /\ gate'[s].ticket = gate[s].ticket
        BY <1>11
    <2>2. Waits(q) => call[q].ticket # gate[s].ticket
        BY <2>1 DEF Tickets
    <2> QED BY <1>2, <1>3, <1>5, <1>11, <2>1, <2>2
<1>12. \A s, t \in Stream : gate'[s].finish /\ gate'[t].finish /\ s # t =>
          gate'[s].ticket # gate'[t].ticket
    BY DEF Tickets
<1>13. \A c \in completed' : c.ticket < nextEntryID'
    BY <1>2, <1>6
<1>14. \A c \in completed', p \in InFlight' : p.kind = "commit" => p.first # c.ticket
    <2>1. \A c \in completed, p \in InFlight : p.kind = "commit" => p.first # c.ticket
        BY DEF Tickets
    <2> QED BY <1>2, <1>6, <2>1
<1> QED BY <1>7, <1>8, <1>9, <1>10, <1>11, <1>12, <1>13, <1>14 DEF Tickets

\* Sending a batch or a registry record keeps OrderInv.
LEMMA SendPendingStep ==
    ASSUME OrderInv, NEW r \in Request, SendPending(r)
    PROVE  OrderInv'
<1>1. TypeOK /\ Locks /\ Pipeline /\ Controls /\ Tickets /\ Marks
    BY DEF OrderInv
<1>2. TypeOK'
    BY <1>1, SendPendingTypes
<1>3. call[r].pc \in {"sendRegistry", "sendAppend"} /\ call[r].pc \in Locked
    BY PcFacts DEF SendPending
<1>4. mu = r /\ closer = "open" /\ call[r].pc \in Gated /\ ~Waits(r)
    BY <1>1, <1>3, PcFacts DEF Locks, Waits
<1>5. nextEntryID \in Nat /\ nextEntryID' \in Nat
    BY <1>1, <1>2 DEF TypeOK
<1>6. \E e \in Item :
         /\ e.kind = "commit" /\ e.first = nextEntryID /\ e.count >= 1
         /\ nextEntryID' = nextEntryID + e.count /\ nextEntryID < nextEntryID'
         /\ queue' = Append(queue, e)
         /\ call'[r].pc \in {"registry", "wait"} /\ call'[r].ticket = nextEntryID
         /\ \A q \in Request : q # r => call'[q] = call[q]
         /\ Owned(e)'
         /\ call'[r].pc \in Locked => mu' = r
         /\ mu' \in {r, Free}
    <2>1. CASE call[r].pc = "sendRegistry"
        <3>1. PICK e : e = RegistryItem(StreamOf[r], nextEntryID)
            OBVIOUS
        <3>2. /\ e \in Item
              /\ e.kind = "commit" /\ e.first = nextEntryID /\ e.count = 1
              /\ e.req = StreamOf[r] /\ e.stream = RegistryStream
            BY <1>1, <1>5, <3>1, ItemTypes DEF RegistryItem
        <3>3. /\ queue' = Append(queue, e) /\ nextEntryID' = nextEntryID + 1
              /\ Goto(r, "registry", nextEntryID) /\ mu' = mu
            BY <2>1, <3>1 DEF SendPending
        <3>4. /\ call'[r].pc = "registry" /\ call'[r].ticket = nextEntryID
              /\ \A q \in Request : q # r => call'[q] = call[q]
            BY <1>1, <3>3, GotoMoves
        <3>5. Owned(e)'
            BY <3>2, <3>4 DEF Owned
        <3>6. nextEntryID < nextEntryID + 1 /\ 1 >= 1
            BY <1>5, SMT
        <3> QED BY <1>4, <3>2, <3>3, <3>4, <3>5, <3>6
    <2>2. CASE call[r].pc = "sendAppend"
        <3>1. PICK n \in Nat : n = nextEntryID
            BY <1>5
        <3>2. PICK e : e = AppendItem(r, n)
            OBVIOUS
        <3>3. /\ e \in Item
              /\ e.kind = "commit" /\ e.first = n /\ e.count = Count[r]
              /\ e = AppendItem(r, e.first)
            BY <1>1, <3>1, <3>2, ItemTypes DEF AppendItem
        <3>4. /\ queue' = Append(queue, e) /\ nextEntryID' = n + Count[r]
              /\ Goto(r, "wait", n) /\ mu' = Free
            BY <2>2, <3>1, <3>2 DEF SendPending
        <3>5. /\ call'[r].pc = "wait" /\ call'[r].ticket = n
              /\ \A q \in Request : q # r => call'[q] = call[q]
            BY <1>1, <3>4, GotoMoves
        <3>6. Owned(e)'
            BY <3>3, <3>5 DEF Owned, AppendItem
        <3>7. Count[r] \in Nat \ {0}
            BY RequestAssumption
        <3>8. n < n + Count[r] /\ Count[r] >= 1
            BY <3>1, <3>7, SMT
        <3> QED BY <3>1, <3>3, <3>4, <3>5, <3>6, <3>8, PcFacts
    <2> QED BY <1>3, <2>1, <2>2
<1>7. PICK e \in Item :
         /\ e.kind = "commit" /\ e.first = nextEntryID /\ e.count >= 1
         /\ nextEntryID' = nextEntryID + e.count /\ nextEntryID < nextEntryID'
         /\ queue' = Append(queue, e)
         /\ call'[r].pc \in {"registry", "wait"} /\ call'[r].ticket = nextEntryID
         /\ \A q \in Request : q # r => call'[q] = call[q]
         /\ Owned(e)'
         /\ call'[r].pc \in Locked => mu' = r
         /\ mu' \in {r, Free}
    BY <1>6
<1>8. UNCHANGED <<gate, carry, group, stage, fatal, wal, mark, replica, tail, completed,
                  barrier, closer>>
    BY DEF SendPending
<1>9. Pipeline' /\ InFlight' = InFlight \cup {e}
    BY <1>1, <1>7, <1>8, SendPipeline
<1>10. Marks'
    BY <1>1, <1>7, <1>8, SendMarks
<1>11. Tickets'
    BY <1>1, <1>4, <1>5, <1>7, <1>8, <1>9, SendTickets
<1>12. Locks'
    <2>1. LockMove(r)
        BY <1>4, <1>7, <1>8 DEF LockMove
    <2> QED BY <1>1, <2>1, CallerLocks
<1>13. Controls'
    <2>1. barrier \notin {"send", "wait"} /\ mu' # "barrier"
        BY <1>1, <1>4, <1>7, NameFacts DEF Locks
    <2>2. stage # "done" /\ \A p \in InFlight : p.kind # "shutdown"
        BY <1>1, <1>4 DEF Controls
    <2>3. e.kind \notin {"barrier", "shutdown"}
        BY <1>7
    <2> QED BY <1>1, <1>4, <1>8, <1>9, <2>1, <2>2, <2>3 DEF Controls
<1> QED BY <1>2, <1>9, <1>10, <1>11, <1>12, <1>13 DEF OrderInv

\* A step that sends and returns nothing keeps Tickets.
LEMMA TicketsFrame ==
    ASSUME Tickets, UNCHANGED <<call, gate, completed, nextEntryID>>,
           \A p \in InFlight' : p.kind = "commit" => p \in InFlight
    PROVE  Tickets'
<1>1. \A q \in Request : Waits(q)' <=> Waits(q)
    BY DEF Waits
<1>2. \A p : Owned(p) => Owned(p)'
    BY DEF Owned, AppendItem
<1>3. \A p \in InFlight' : p.kind = "commit" => Owned(p)'
    BY <1>2 DEF Tickets
<1>4. /\ \A r \in Request : Waits(r)' => call'[r].ticket < nextEntryID'
      /\ \A s \in Stream : gate'[s].finish => gate'[s].ticket < nextEntryID'
      /\ \A r, q \in Request : Waits(r)' /\ Waits(q)' /\ r # q =>
            call'[r].ticket # call'[q].ticket
      /\ \A r \in Request, s \in Stream : Waits(r)' /\ gate'[s].finish =>
            call'[r].ticket # gate'[s].ticket
      /\ \A s, t \in Stream : gate'[s].finish /\ gate'[t].finish /\ s # t =>
            gate'[s].ticket # gate'[t].ticket
    BY <1>1 DEF Tickets
<1>5. /\ \A c \in completed' : c.ticket < nextEntryID'
      /\ \A c \in completed', p \in InFlight' : p.kind = "commit" => p.first # c.ticket
    BY DEF Tickets
<1> QED BY <1>3, <1>4, <1>5 DEF Tickets

\* A control pending is sent to the end of the queue, and is the only one of
\* its kind.
LEMMA SendAtEnd ==
    ASSUME TypeOK, Pipeline, NEW e \in Item, e.kind # "commit",
           \A p \in InFlight : p.kind # e.kind,
           queue' = Append(queue, e), UNCHANGED <<carry, group, stage, nextEntryID>>
    PROVE  AtEnd(e.kind)'
<1>1. /\ Len(queue) \in Nat /\ Len(queue') = Len(queue) + 1
      /\ \A i \in 1..Len(queue) : queue'[i] = queue[i]
      /\ queue'[Len(queue')] = e
    BY SendPipeline
<1>2. queue' # <<>> /\ Len(queue') - 1 = Len(queue)
    <2>1. Len(queue') # 0 /\ Len(queue') - 1 = Len(queue)
        BY <1>1, IntervalFacts
    <2>2. queue \in Seq(Item)
        BY DEF TypeOK
    <2>3. queue' \in Seq(Item)
        BY <2>2, SMT
    <2> QED BY <2>1, <2>3, EmptyFacts
<1>3. /\ \A i \in 1..Len(queue) : queue[i].kind # e.kind
      /\ \A i \in 1..Len(carry) : carry[i].kind # e.kind
    BY DEF InFlight
<1> QED BY <1>1, <1>2, <1>3 DEF AtEnd

\* Sending the barrier or the shutdown pending keeps OrderInv.
LEMMA SendControlStep ==
    ASSUME OrderInv, SendBarrier \/ SendShutdown
    PROVE  OrderInv'
<1>1. TypeOK /\ Locks /\ Pipeline /\ Controls /\ Tickets /\ Marks
    BY DEF OrderInv
<1>2. TypeOK'
    BY <1>1, ControllerTypes
<1>3. UNCHANGED <<call, gate, mu, nextEntryID, carry, group, stage, fatal, wal,
                  mark, replica, tail, completed>>
    BY DEF SendBarrier, SendShutdown, callVars, engineVars
<1>4. PICK e \in Item :
         /\ e.kind # "commit"
         /\ queue' = Append(queue, e)
         /\ \/ e.kind = "barrier" /\ barrier = "send" /\ barrier' = "wait" /\ closer' = closer
            \/ e.kind = "shutdown" /\ closer = "send" /\ closer' = "wait" /\ barrier' = barrier
    BY ControlTypes DEF SendBarrier, SendShutdown
<1>5. Pipeline' /\ InFlight' = InFlight \cup {e}
    BY <1>1, <1>3, <1>4, SendPipeline
<1>6. Marks'
    BY <1>1, <1>3, <1>4, SendMarks
<1>7. Tickets'
    BY <1>1, <1>3, <1>4, <1>5, TicketsFrame
<1>8. Locks'
    BY <1>1, <1>3, <1>4 DEF Locks
<1>9. \A p \in InFlight : p.kind # e.kind
    BY <1>1, <1>4 DEF Controls
<1>10. AtEnd(e.kind)'
    BY <1>1, <1>3, <1>4, <1>9, SendAtEnd
<1>11. Controls'
    <2>1. stage # "done"
        BY <1>1, <1>4 DEF Controls, Locks
    <2>2. CASE e.kind = "barrier" /\ barrier = "send" /\ barrier' = "wait" /\ closer' = closer
        <3>1. closer = "open"
            BY <1>1, <2>2 DEF Locks
        <3>2. AtEnd("barrier")'
            BY <1>10, <2>2
        <3> QED BY <1>1, <1>3, <1>5, <2>1, <2>2, <3>1, <3>2 DEF Controls
    <2>3. CASE e.kind = "shutdown" /\ closer = "send" /\ closer' = "wait" /\ barrier' = barrier
        <3>1. mu = "close"
            BY <1>1, <2>3 DEF Locks
        <3>2. barrier \notin {"send", "wait"}
            BY <1>1, <3>1 DEF Locks
        <3>3. AtEnd("shutdown")'
            BY <1>10, <2>3
        <3> QED BY <1>1, <1>3, <1>5, <2>1, <2>3, <3>1, <3>2, <3>3 DEF Controls
    <2> QED BY <1>4, <2>2, <2>3
<1> QED BY <1>2, <1>5, <1>6, <1>7, <1>8, <1>11 DEF OrderInv

\* The other steps of CommitBarrier and Close keep OrderInv.
LEMMA ControllerStep ==
    ASSUME OrderInv,
           \/ BeginBarrier \/ BarrierReturns \/ CancelBarrier
           \/ BeginClose \/ CloseReturns
    PROVE  OrderInv'
<1>1. TypeOK /\ Locks /\ Pipeline /\ Controls /\ Tickets /\ Marks
    BY DEF OrderInv
<1>2. TypeOK'
    BY <1>1, ControllerTypes
<1>3. UNCHANGED <<call, gate, nextEntryID, commitVars, completed>>
    BY DEF BeginBarrier, BarrierReturns, CancelBarrier, BeginClose, CloseReturns, callVars
<1>4. Pipeline' /\ InFlight' = InFlight
    BY <1>1, <1>3, PipelineFrame DEF commitVars
<1>5. Marks'
    BY <1>1, <1>3, MarksFrame
<1>6. Tickets'
    BY <1>1, <1>3, <1>4, TicketsFrame
<1>7. mu = Free => \A r \in Request : call[r].pc \notin Locked
    BY <1>1, NameFacts DEF Locks
<1>8. mu \in {"barrier", "close"} => \A r \in Request : call[r].pc \notin Locked
    BY <1>1, NameFacts DEF Locks
<1>9. /\ \A r \in Request : call'[r].pc \in Gated =>
            gate'[StreamOf[r]].by = r /\ ~gate'[StreamOf[r]].finish
      /\ \A s \in Stream : gate'[s].by = Free => ~gate'[s].finish
    BY <1>1, <1>3 DEF Locks
<1>10. \A kind : AtEnd(kind)' <=> AtEnd(kind)
    BY <1>3 DEF AtEnd, commitVars
<1>11. Free \notin Request /\ Free # "barrier" /\ Free # "close" /\ "barrier" # "close"
       /\ "barrier" \notin Request /\ "close" \notin Request /\ stage' = stage
    BY <1>3, NameAssumption DEF commitVars
<1>a. CASE BeginBarrier
    <2>1. /\ barrier = "idle" /\ mu = Free /\ closer = "open" /\ barrier' = "send"
          /\ mu' = "barrier" /\ closer' = closer
        BY <1>a DEF BeginBarrier
    <2>2. Locks'
        BY <1>1, <1>3, <1>7, <1>9, <1>11, <2>1 DEF Locks
    <2>3. Controls'
        BY <1>1, <1>4, <1>10, <1>11, <2>1 DEF Controls
    <2> QED BY <1>2, <1>4, <1>5, <1>6, <2>2, <2>3 DEF OrderInv
<1>b. CASE BarrierReturns
    <2>1. /\ barrier \in {"passed", "failed"} /\ mu = "barrier"
          /\ mu' = Free /\ barrier' = barrier /\ closer' = closer
        BY <1>b DEF BarrierReturns
    <2>2. Locks'
        BY <1>1, <1>3, <1>8, <1>9, <1>11, <2>1 DEF Locks
    <2>3. Controls'
        BY <1>1, <1>4, <1>10, <1>11, <2>1 DEF Controls
    <2> QED BY <1>2, <1>4, <1>5, <1>6, <2>2, <2>3 DEF OrderInv
<1>c. CASE CancelBarrier
    <2>1. barrier = "wait" /\ barrier' = "cancelled" /\ mu' = Free /\ closer' = closer
        BY <1>c DEF CancelBarrier
    <2>2. mu = "barrier" /\ closer = "open"
        BY <1>1, <2>1 DEF Locks
    <2>3. Locks'
        BY <1>1, <1>3, <1>8, <1>9, <1>11, <2>1, <2>2 DEF Locks
    <2>4. Controls'
        BY <1>1, <1>4, <1>10, <1>11, <2>1, <2>2 DEF Controls
    <2> QED BY <1>2, <1>4, <1>5, <1>6, <2>3, <2>4 DEF OrderInv
<1>d. CASE BeginClose
    <2>1. closer = "open" /\ mu = Free /\ closer' = "send" /\ mu' = "close" /\ barrier' = barrier
        BY <1>d DEF BeginClose
    <2>2. barrier \notin {"send", "wait"}
        BY <1>1, <1>11, <2>1 DEF Locks
    <2>3. Locks'
        BY <1>1, <1>3, <1>7, <1>9, <1>11, <2>1, <2>2 DEF Locks
    <2>4. Controls'
        BY <1>1, <1>4, <1>10, <1>11, <2>1, <2>2 DEF Controls
    <2> QED BY <1>2, <1>4, <1>5, <1>6, <2>3, <2>4 DEF OrderInv
<1>e. CASE CloseReturns
    <2>1. closer = "wait" /\ stage = "done" /\ closer' = "closed" /\ mu' = Free /\ barrier' = barrier
        BY <1>e DEF CloseReturns
    <2>2. mu = "close" /\ barrier \notin {"send", "wait"}
        BY <1>1, <1>11, <2>1 DEF Locks
    <2>3. Locks'
        BY <1>1, <1>3, <1>8, <1>9, <1>11, <2>1, <2>2 DEF Locks
    <2>4. Controls'
        BY <1>1, <1>4, <1>10, <1>11, <2>1, <2>2 DEF Controls
    <2> QED BY <1>2, <1>4, <1>5, <1>6, <2>3, <2>4 DEF OrderInv
<1> QED BY <1>a, <1>b, <1>c, <1>d, <1>e

(***************************************************************************)
(* What the callers' and the committer's steps both use                    *)
(***************************************************************************)
\* An empty sequence has no indices.
LEMMA NoItems ==
    ASSUME NEW q, q = <<>>
    PROVE  1..Len(q) = {}
<1>1. Len(<<>>) = 0
    BY EmptyFacts
<1>2. 1..0 = {}
    BY SMT
<1> QED BY <1>1, <1>2

\* GroupEnd bounds every batch of the group, and no batch behind the group
\* begins before it.
LEMMA EndFacts ==
    ASSUME TypeOK, Pipeline, Tickets, group # <<>>
    PROVE  /\ Len(group) \in Nat \ {0} /\ Len(group) \in 1..Len(group) /\ 1 \in 1..Len(group)
           /\ GroupEnd \in Nat /\ GroupEnd <= nextEntryID
           /\ \A i \in 1..Len(group) : group[i].first + group[i].count <= GroupEnd
           /\ \A i \in 1..Len(queue) : queue[i].kind = "commit" => GroupEnd <= queue[i].first
           /\ \A i \in 1..Len(carry) : carry[i].kind = "commit" => GroupEnd <= carry[i].first
<1>1. Len(group) \in Nat \ {0}
    <2>1. group \in Seq(Item)
        BY DEF TypeOK
    <2>2. Len(group) \in Nat /\ (Len(group) = 0 <=> group = <<>>)
        BY <2>1, EmptyFacts
    <2> QED BY <2>2
<1>2. Len(group) \in 1..Len(group) /\ 1 \in 1..Len(group)
    BY <1>1, SMT
<1>3. /\ \A i \in 1..Len(group) : /\ group[i].first \in Nat /\ group[i].count \in Nat \ {0}
                                  /\ group[i].kind = "commit" /\ group[i] \in InFlight
    BY GroupItems
<1>4. GroupEnd \in Nat
    <2>1. \A m, n \in Nat : m + n \in Nat
        BY SMT
    <2> QED BY <1>2, <1>3, <2>1 DEF GroupEnd
<1>5. GroupEnd <= nextEntryID
    BY <1>2, <1>3 DEF Pipeline, GroupEnd
<1>6. ASSUME NEW i \in 1..Len(group) PROVE group[i].first + group[i].count <= GroupEnd
    <2>1. CASE i = Len(group)
        <3>1. \A n \in Nat : n <= n
            BY SMT
        <3> QED BY <1>4, <2>1, <3>1 DEF GroupEnd
    <2>2. CASE i # Len(group)
        <3>1. i < Len(group)
            BY <1>1, <2>2, SMT
        <3>2. group[i].first + group[i].count <= group[Len(group)].first
            BY <1>2, <1>3, <3>1 DEF Pipeline, Before
        <3>3. \A a, b, c, d \in Nat : a + b <= c => a + b <= c + d
            BY SMT
        <3> QED BY <1>2, <1>3, <3>2, <3>3 DEF GroupEnd
    <2> QED BY <2>1, <2>2
<1>7. \A i \in 1..Len(queue) : queue[i].kind = "commit" => GroupEnd <= queue[i].first
    BY <1>2, <1>3 DEF Pipeline, Before, GroupEnd
<1>8. \A i \in 1..Len(carry) : carry[i].kind = "commit" => GroupEnd <= carry[i].first
    BY <1>2, <1>3 DEF Pipeline, Before, GroupEnd
<1> QED BY <1>1, <1>2, <1>4, <1>5, <1>6, <1>7, <1>8

\* The watermarks, the standby's end and the log's length are natural numbers.
LEMMA MarkTypes ==
    ASSUME TypeOK
    PROVE  /\ mark.appended \in Nat /\ mark.local \in Nat /\ mark.replicated \in Nat
           /\ mark.committed \in Nat /\ mark.applied \in Nat
           /\ replica \in Nat /\ Len(wal) \in Nat /\ nextEntryID \in Nat
           /\ mark = [appended |-> mark.appended, local |-> mark.local,
                      replicated |-> mark.replicated, committed |-> mark.committed,
                      applied |-> mark.applied]
<1>1. /\ mark \in [appended : Nat, local : Nat, replicated : Nat,
                   committed : Nat, applied : Nat]
      /\ replica \in Nat /\ nextEntryID \in Nat /\ wal \in Seq(Entry)
    BY DEF TypeOK
<1>2. Len(wal) \in Nat
    BY <1>1, EmptyFacts
<1>3. /\ mark.appended \in Nat /\ mark.local \in Nat /\ mark.replicated \in Nat
      /\ mark.committed \in Nat /\ mark.applied \in Nat
      /\ mark = [appended |-> mark.appended, local |-> mark.local,
                 replicated |-> mark.replicated, committed |-> mark.committed,
                 applied |-> mark.applied]
    BY <1>1, SMT
<1> QED BY <1>1, <1>2, <1>3

\* The order of the naturals.
LEMMA LeqFacts ==
    /\ \A a \in Nat : a <= a
    /\ \A a, b, c \in Nat : a <= b /\ b <= c => a <= c
    /\ \A a, b \in Nat : a <= b /\ ~(a < b) => a = b
BY SMT

(***************************************************************************)
(* Pendings move towards the group                                         *)
(***************************************************************************)
\* The indices of a queue one item shorter.
LEMMA ShiftFacts ==
    ASSUME NEW n \in Nat \ {0}
    PROVE  /\ \A i \in 1..n - 1 : i + 1 \in 1..n /\ 1 < i + 1
           /\ \A i, j \in 1..n - 1 : i < j => i + 1 < j + 1
           /\ n - 1 \in Nat
           /\ n - 1 # 0 => /\ n - 1 \in 1..n - 1 /\ (n - 1) + 1 = n /\ 1 \in 1..n - 1
           /\ n - 1 = 0 => n = 1
           /\ \A i \in 1..(n - 1) - 1 : i \in 1..n - 1 /\ i + 1 \in 1..n - 1
           /\ 1 \in 1..n
BY SMT

\* Taking the queue's head keeps the order of the queue, and the head comes
\* before the rest.
LEMMA TailOrder ==
    ASSUME TypeOK, Pipeline, queue # <<>>, queue' = Tail(queue)
    PROVE  /\ queue' \in Seq(Item) /\ Len(queue) \in Nat \ {0}
           /\ Head(queue) = queue[1] /\ queue[1] \in Item /\ 1 \in 1..Len(queue)
           /\ Len(queue') = Len(queue) - 1
           /\ \A i \in 1..Len(queue') : queue'[i] = queue[i + 1] /\ i + 1 \in 1..Len(queue)
           /\ \A i, j \in 1..Len(queue') : i < j => Before(queue'[i], queue'[j])
           /\ \A j \in 1..Len(queue') : Before(queue[1], queue'[j])
<1>1. queue \in Seq(Item)
    BY DEF TypeOK
<1>2. /\ queue' \in Seq(Item) /\ Len(queue) \in Nat \ {0}
      /\ Head(queue) = queue[1] /\ queue[1] \in Item
      /\ Len(queue') = Len(queue) - 1
      /\ \A i \in 1..Len(queue) - 1 : queue'[i] = queue[i + 1]
    BY <1>1, TailFacts
<1>3. /\ \A i \in 1..Len(queue) - 1 : i + 1 \in 1..Len(queue) /\ 1 < i + 1
      /\ \A i, j \in 1..Len(queue) - 1 : i < j => i + 1 < j + 1
      /\ 1 \in 1..Len(queue)
    BY <1>2, ShiftFacts
<1>4. \A i, j \in 1..Len(queue) : i < j => Before(queue[i], queue[j])
    BY DEF Pipeline
<1>5. \A i, j \in 1..Len(queue') : i < j => Before(queue'[i], queue'[j])
    <2> SUFFICES ASSUME NEW i \in 1..Len(queue'), NEW j \in 1..Len(queue'), i < j
                 PROVE  Before(queue'[i], queue'[j])
        OBVIOUS
    <2>1. i \in 1..Len(queue) - 1 /\ j \in 1..Len(queue) - 1
        BY <1>2
    <2>2. i + 1 \in 1..Len(queue) /\ j + 1 \in 1..Len(queue) /\ i + 1 < j + 1
        BY <1>3, <2>1
    <2>3. Before(queue[i + 1], queue[j + 1])
        BY <1>4, <2>2
    <2> QED BY <1>2, <2>1, <2>3
<1>6. \A j \in 1..Len(queue') : Before(queue[1], queue'[j])
    BY <1>2, <1>3, <1>4
<1> QED BY <1>2, <1>3, <1>5, <1>6

\* Taking the next pending keeps the order of the queue, and that pending comes
\* before the rest.
LEMMA NextOrder ==
    ASSUME TypeOK, Pipeline, HasNext, ConsumeNext
    PROVE  /\ \A i \in 1..Len(queue') : \E j \in 1..Len(queue) : queue'[i] = queue[j]
           /\ \A i, j \in 1..Len(queue') : i < j => Before(queue'[i], queue'[j])
           /\ \A j \in 1..Len(queue') : Before(NextPending, queue'[j])
<1>1. \A i, j \in 1..Len(queue) : i < j => Before(queue[i], queue[j])
    BY DEF Pipeline
<1>2. CASE carry # <<>>
    <2>1. Len(carry) = 1 /\ NextPending = carry[1] /\ queue' = queue
        BY <1>2, NextFacts
    <2>2. 1 \in 1..Len(carry)
        BY <2>1, SMT
    <2>3. \A j \in 1..Len(queue) : Before(carry[1], queue[j])
        BY <2>2 DEF Pipeline
    <2> QED BY <1>1, <2>1, <2>3
<1>3. CASE carry = <<>>
    <2>1. queue # <<>> /\ NextPending = queue[1] /\ queue' = Tail(queue)
        BY <1>3, NextFacts DEF ConsumeNext
    <2>2. /\ \A i \in 1..Len(queue') : queue'[i] = queue[i + 1] /\ i + 1 \in 1..Len(queue)
          /\ \A i, j \in 1..Len(queue') : i < j => Before(queue'[i], queue'[j])
          /\ \A j \in 1..Len(queue') : Before(queue[1], queue'[j])
        BY <2>1, TailOrder
    <2> QED BY <2>1, <2>2
<1> QED BY <1>2, <1>3

\* A control pending at the queue's end stays there until it is the head.
LEMMA TailAtEnd ==
    ASSUME TypeOK, Pipeline, queue # <<>>, queue' = Tail(queue),
           NEW kind, queue[Len(queue)].kind = kind,
           \A i \in 1..Len(queue) - 1 : queue[i].kind # kind
    PROVE  /\ queue[1].kind = kind => queue' = <<>>
           /\ queue[1].kind # kind =>
                /\ queue' # <<>> /\ queue'[Len(queue')].kind = kind
                /\ \A i \in 1..Len(queue') - 1 : queue'[i].kind # kind
<1>1. /\ queue' \in Seq(Item) /\ Len(queue) \in Nat \ {0}
      /\ Len(queue') = Len(queue) - 1
      /\ \A i \in 1..Len(queue') : queue'[i] = queue[i + 1]
    BY TailOrder
<1>2. CASE Len(queue') = 0
    <2>1. queue' = <<>>
        BY <1>1, <1>2, EmptyFacts
    <2>2. Len(queue) = 1
        BY <1>1, <1>2, ShiftFacts
    <2> QED BY <2>1, <2>2
<1>3. CASE Len(queue') # 0
    <2>1. /\ Len(queue') \in 1..Len(queue') /\ Len(queue') + 1 = Len(queue)
          /\ 1 \in 1..Len(queue) - 1
          /\ \A i \in 1..Len(queue') - 1 : i \in 1..Len(queue') /\ i + 1 \in 1..Len(queue) - 1
        <3>1. Len(queue) - 1 # 0
            BY <1>1, <1>3
        <3>2. /\ Len(queue) - 1 \in 1..Len(queue) - 1 /\ (Len(queue) - 1) + 1 = Len(queue)
              /\ 1 \in 1..Len(queue) - 1
            BY <1>1, <3>1, ShiftFacts
        <3>3. \A i \in 1..(Len(queue) - 1) - 1 :
                  i \in 1..Len(queue) - 1 /\ i + 1 \in 1..Len(queue) - 1
            BY <1>1, ShiftFacts
        <3> QED BY <1>1, <3>2, <3>3
    <2>2. queue' # <<>>
        BY <1>1, <1>3, EmptyFacts
    <2>3. queue'[Len(queue')].kind = kind
        BY <1>1, <2>1
    <2>4. \A i \in 1..Len(queue') - 1 : queue'[i].kind # kind
        BY <1>1, <2>1
    <2> QED BY <2>1, <2>2, <2>3, <2>4
<1> QED BY <1>2, <1>3

\* A control pending at the end stays there until it is taken, and then nothing
\* is left.
LEMMA NextAtEnd ==
    ASSUME TypeOK, Pipeline, HasNext, ConsumeNext, NEW kind, AtEnd(kind)
    PROVE  IF NextPending.kind = kind THEN queue' = <<>> /\ carry' = <<>>
                                      ELSE AtEnd(kind)'
<1>1. carry' = <<>>
    BY NextFacts
<1>2. \A i \in 1..Len(carry') : carry'[i].kind # kind
    <2>1. \A i \in 1..0 : FALSE
        BY SMT
    <2>2. Len(<<>>) = 0
        BY EmptyFacts
    <2> QED BY <1>1, <2>1, <2>2
<1>3. CASE carry # <<>>
    <2>1. Len(carry) = 1 /\ NextPending = carry[1] /\ queue' = queue
        BY <1>3, NextFacts
    <2>2. 1 \in 1..Len(carry)
        BY <2>1, SMT
    <2>3. CASE queue = <<>>
        BY <1>1, <2>1, <2>3 DEF AtEnd
    <2>4. CASE queue # <<>>
        <3>1. NextPending.kind # kind
            BY <2>1, <2>2, <2>4 DEF AtEnd
        <3>2. AtEnd(kind)'
            BY <1>2, <2>1, <2>4 DEF AtEnd
        <3> QED BY <3>1, <3>2
    <2> QED BY <2>3, <2>4
<1>4. CASE carry = <<>>
    <2>1. queue # <<>> /\ NextPending = queue[1] /\ queue' = Tail(queue)
        BY <1>4, NextFacts DEF ConsumeNext
    <2>2. /\ queue[Len(queue)].kind = kind
          /\ \A i \in 1..Len(queue) - 1 : queue[i].kind # kind
        BY <2>1 DEF AtEnd
    <2>3. /\ queue[1].kind = kind => queue' = <<>>
          /\ queue[1].kind # kind =>
                /\ queue' # <<>> /\ queue'[Len(queue')].kind = kind
                /\ \A i \in 1..Len(queue') - 1 : queue'[i].kind # kind
        BY <2>1, <2>2, TailAtEnd
    <2>4. CASE queue[1].kind = kind
        BY <1>1, <2>1, <2>3, <2>4
    <2>5. CASE queue[1].kind # kind
        <3>1. AtEnd(kind)'
            BY <1>2, <2>3, <2>5 DEF AtEnd
        <3> QED BY <2>1, <2>5, <3>1
    <2> QED BY <2>4, <2>5
<1> QED BY <1>3, <1>4

\* While no group is being processed and nothing failed, every batch in flight
\* begins at or after the end of the WAL.
LEMMA IdleMarks ==
    ASSUME Pipeline, Marks, stage \in {"idle", "collect", "done"}, fatal = "none"
    PROVE  \A p \in InFlight : p.kind = "commit" => Len(wal) <= p.first
<1> SUFFICES ASSUME NEW p \in InFlight, p.kind = "commit"
             PROVE  Len(wal) <= p.first
    OBVIOUS
<1>1. CASE \E i \in 1..Len(queue) : p = queue[i]
    BY <1>1 DEF Marks
<1>2. CASE \E i \in 1..Len(carry) : p = carry[i]
    BY <1>2 DEF Marks
<1>3. CASE \E i \in 1..Len(group) : p = group[i]
    <2>1. CASE stage = "collect"
        BY <1>3, <2>1 DEF Marks
    <2>2. CASE stage # "collect"
        <3>1. group = <<>>
            BY <2>2 DEF Pipeline
        <3>2. Len(<<>>) = 0
            BY EmptyFacts
        <3>3. 1..0 = {}
            BY SMT
        <3> QED BY <1>3, <3>1, <3>2, <3>3
    <2> QED BY <2>1, <2>2
<1> QED BY <1>1, <1>2, <1>3 DEF InFlight

\* Forming a group keeps Marks.
LEMMA MoveMarks ==
    ASSUME Pipeline, Marks, Pipeline', stage \in {"idle", "collect", "done"},
           stage' \in {"idle", "collect", "done"}, InFlight' \subseteq InFlight,
           UNCHANGED <<fatal, wal, mark, replica, tail, nextEntryID>>
    PROVE  Marks'
<1>1. fatal = "none" =>
         \A p \in InFlight' : p.kind = "commit" => Len(wal) <= p.first
    BY IdleMarks
<1>2. /\ stage \notin Processing /\ stage' \notin Processing
      /\ stage' \notin {"commit", "apply"}
    BY DEF Processing
<1>3. /\ WatermarkOrder' /\ (replica <= mark.local)' /\ (Len(wal) <= nextEntryID)'
      /\ (fatal = "none" /\ stage \notin Processing => mark.applied = Len(wal))'
    BY <1>2 DEF Marks, WatermarkOrder
<1>4. fatal' = "none" => \A i \in 1..Len(queue') :
          queue'[i].kind = "commit" => Len(wal') <= queue'[i].first
    BY <1>1 DEF InFlight
<1>5. fatal' = "none" => \A i \in 1..Len(carry') :
          carry'[i].kind = "commit" => Len(wal') <= carry'[i].first
    BY <1>1 DEF InFlight
<1>6. fatal' = "none" /\ stage' = "collect" => \A i \in 1..Len(group') :
          Len(wal') <= group'[i].first
    <2>1. \A i \in 1..Len(group') : group'[i].kind = "commit"
        BY DEF Pipeline
    <2> QED BY <1>1, <2>1 DEF InFlight
<1>7. /\ (stage \in Processing => fatal = "none" /\ GroupWritten)'
      /\ (stage \in Processing => mark.appended = Len(wal))'
      /\ (stage \in Processing \ {"sync"} => mark.local = Len(wal))'
      /\ (stage \in {"commit", "apply"} => mark.replicated = Len(wal))'
      /\ (stage = "apply" => mark.committed = Len(wal))'
      /\ (stage \in Processing \ {"apply"} => mark.applied = group[1].first)'
      /\ (stage = "apply" => mark.applied = Len(wal)
                          \/ \E i \in 1..Len(group) : group[i].first = mark.applied)'
    BY <1>2
<1> QED BY <1>3, <1>4, <1>5, <1>6, <1>7 DEF Marks

\* A step that forms a group keeps OrderInv if it keeps types, order and
\* controls.
LEMMA MoveStep ==
    ASSUME OrderInv, TypeOK', Pipeline', Controls', InFlight' \subseteq InFlight,
           stage \in {"idle", "collect", "done"},
           stage' \in {"idle", "collect", "done"},
           UNCHANGED <<callVars, engineVars, fatal, wal, mark, replica, tail,
                       completed, closer>>,
           barrier' \in {"send", "wait"} => barrier' = barrier
    PROVE  OrderInv'
<1>1. Locks /\ Pipeline /\ Tickets /\ Marks
    BY DEF OrderInv
<1>2. UNCHANGED <<call, gate, mu, nextEntryID>>
    BY DEF callVars, engineVars
<1>3. Locks'
    <2>1. /\ (\A r \in Request : call[r].pc \in Gated =>
                gate[StreamOf[r]].by = r /\ ~gate[StreamOf[r]].finish)'
          /\ (\A r \in Request : call[r].pc \in Locked => mu = r)'
          /\ (\A s \in Stream : gate[s].by = Free => ~gate[s].finish)'
          /\ (mu \in Request \cup {"barrier"} => closer = "open")'
          /\ (closer \in {"send", "wait"} => mu = "close")'
        BY <1>1, <1>2 DEF Locks
    <2>2. (barrier \in {"send", "wait"} => mu = "barrier")'
        BY <1>1, <1>2 DEF Locks
    <2> QED BY <2>1, <2>2 DEF Locks
<1>4. Tickets'
    BY <1>1, <1>2, TicketsFrame
<1>5. Marks'
    BY <1>1, <1>2, MoveMarks
<1> QED BY <1>3, <1>4, <1>5 DEF OrderInv

\* A step that only moves commits keeps Controls.
LEMMA MoveControls ==
    ASSUME Controls, InFlight' \subseteq InFlight, stage # "done", stage' # "done",
           UNCHANGED <<barrier, closer, mu>>,
           AtEnd("barrier") => AtEnd("barrier")',
           AtEnd("shutdown") => AtEnd("shutdown")'
    PROVE  Controls'
<1>1. /\ (barrier \in {"idle", "send"} => \A p \in InFlight : p.kind # "barrier")'
      /\ (barrier = "wait" => AtEnd("barrier"))'
      /\ (barrier = "passed" /\ mu = "barrier" => InFlight = {})'
    BY DEF Controls
<1>2. /\ (closer \in {"open", "send"} =>
             stage # "done" /\ \A p \in InFlight : p.kind # "shutdown")'
      /\ (closer = "wait" => stage = "done" \/ AtEnd("shutdown"))'
      /\ (closer = "closed" => stage = "done")'
      /\ (stage = "done" => InFlight = {})'
    BY DEF Controls
<1> QED BY <1>1, <1>2 DEF Controls

\* Answering a control pending keeps OrderInv, and puts nothing in flight.
LEMMA HandleControlStep ==
    ASSUME OrderInv, HandleControl
    PROVE  OrderInv' /\ InFlight' \subseteq InFlight
<1>1. TypeOK /\ Pipeline /\ Controls
    BY DEF OrderInv
<1>2. TypeOK'
    BY <1>1, MoveTypes
<1>3. /\ stage = "idle" /\ HasNext /\ ConsumeNext /\ NextPending.kind # "commit"
      /\ stage' = IF NextPending.kind = "shutdown" THEN "done" ELSE "idle"
      /\ barrier' = IF NextPending.kind = "barrier" /\ barrier = "wait"
                    THEN IF fatal = "none" THEN "passed" ELSE "failed"
                    ELSE barrier
      /\ UNCHANGED <<callVars, engineVars, group, fatal, wal, mark, replica, tail,
                     completed, closer>>
    BY DEF HandleControl
<1>4. UNCHANGED <<mu, nextEntryID>>
    BY <1>3 DEF engineVars
<1>5. group = <<>> /\ group' = <<>> /\ carry' = <<>>
    BY <1>1, <1>3, NextFacts DEF Pipeline
<1>6. 1..Len(group) = {} /\ 1..Len(group') = {} /\ 1..Len(carry') = {}
    BY <1>5, NoItems
<1>7. /\ \A i \in 1..Len(queue') : \E j \in 1..Len(queue) : queue'[i] = queue[j]
      /\ \A i, j \in 1..Len(queue') : i < j => Before(queue'[i], queue'[j])
    BY <1>1, <1>3, NextOrder
<1>8. InFlight' \subseteq InFlight
    BY <1>6, <1>7 DEF InFlight
<1>9. NextPending \in InFlight /\ NextPending \in Item
    BY <1>1, <1>3, NextFacts DEF InFlight
<1>10. Pipeline'
    <2>1. (group = <<>> <=> stage \in {"idle", "done"})'
        BY <1>3, <1>5
    <2>2. \A p \in InFlight' : p.kind = "commit" =>
              p.count >= 1 /\ p.first + p.count <= nextEntryID'
        BY <1>1, <1>4, <1>8 DEF Pipeline
    <2> QED BY <1>6, <1>7, <2>1, <2>2 DEF Pipeline
<1>11. queue' = <<>> => InFlight' = {}
    <2> SUFFICES ASSUME queue' = <<>> PROVE InFlight' = {}
        OBVIOUS
    <2>1. 1..Len(queue') = {}
        BY NoItems
    <2> QED BY <1>6, <2>1 DEF InFlight
<1>12. Controls'
    <2>1. (barrier \in {"idle", "send"} => \A p \in InFlight : p.kind # "barrier")'
        BY <1>1, <1>3, <1>8 DEF Controls
    <2>2. (barrier = "wait" => AtEnd("barrier"))'
        <3> SUFFICES ASSUME barrier' = "wait" PROVE AtEnd("barrier")'
            OBVIOUS
        <3>1. barrier = "wait" /\ NextPending.kind # "barrier"
            BY <1>3
        <3>2. AtEnd("barrier")
            BY <1>1, <3>1 DEF Controls
        <3> QED BY <1>1, <1>3, <3>1, <3>2, NextAtEnd
    <2>3. (barrier = "passed" /\ mu = "barrier" => InFlight = {})'
        <3> SUFFICES ASSUME barrier' = "passed", mu' = "barrier" PROVE InFlight' = {}
            OBVIOUS
        <3>1. CASE barrier = "passed"
            BY <1>1, <1>4, <1>8, <3>1 DEF Controls
        <3>2. CASE barrier # "passed"
            <4>1. barrier = "wait" /\ NextPending.kind = "barrier"
                BY <1>3, <3>2
            <4>2. AtEnd("barrier")
                BY <1>1, <4>1 DEF Controls
            <4>3. queue' = <<>>
                BY <1>1, <1>3, <4>1, <4>2, NextAtEnd
            <4> QED BY <1>11, <4>3
        <3> QED BY <3>1, <3>2
    <2>4. (closer \in {"open", "send"} =>
              stage # "done" /\ \A p \in InFlight : p.kind # "shutdown")'
        BY <1>1, <1>3, <1>8, <1>9 DEF Controls
    <2>5. (closer = "wait" => stage = "done" \/ AtEnd("shutdown"))'
        <3> SUFFICES ASSUME closer' = "wait", stage' # "done" PROVE AtEnd("shutdown")'
            OBVIOUS
        <3>1. closer = "wait" /\ stage # "done" /\ NextPending.kind # "shutdown"
            BY <1>3
        <3>2. AtEnd("shutdown")
            BY <1>1, <3>1 DEF Controls
        <3> QED BY <1>1, <1>3, <3>1, <3>2, NextAtEnd
    <2>6. (closer = "closed" => stage = "done")'
        BY <1>1, <1>3 DEF Controls
    <2>7. (stage = "done" => InFlight = {})'
        <3> SUFFICES ASSUME stage' = "done" PROVE InFlight' = {}
            OBVIOUS
        <3>1. NextPending.kind = "shutdown"
            BY <1>3
        <3>2. closer \notin {"open", "send", "closed"}
            BY <1>1, <1>3, <1>9, <3>1 DEF Controls
        <3>3. closer = "wait"
            BY <1>1, <3>2 DEF TypeOK
        <3>4. AtEnd("shutdown")
            BY <1>1, <1>3, <3>3 DEF Controls
        <3>5. queue' = <<>>
            BY <1>1, <1>3, <3>1, <3>4, NextAtEnd
        <3> QED BY <1>11, <3>5
    <2> QED BY <2>1, <2>2, <2>3, <2>4, <2>5, <2>6, <2>7 DEF Controls
<1> QED BY <1>2, <1>3, <1>8, <1>10, <1>12, MoveStep

\* Starting a group keeps OrderInv, and puts nothing in flight.
LEMMA StartGroupStep ==
    ASSUME OrderInv, StartGroup
    PROVE  OrderInv' /\ InFlight' \subseteq InFlight
<1>1. TypeOK /\ Pipeline /\ Controls
    BY DEF OrderInv
<1>2. TypeOK'
    BY <1>1, MoveTypes
<1>3. /\ stage = "idle" /\ HasNext /\ ConsumeNext /\ NextPending.kind = "commit"
      /\ group' = <<NextPending>> /\ stage' = "collect"
      /\ UNCHANGED <<callVars, engineVars, fatal, wal, mark, replica, tail,
                     completed, barrier, closer>>
    BY DEF StartGroup
<1>4. UNCHANGED <<mu, nextEntryID>>
    BY <1>3 DEF engineVars
<1>5. carry' = <<>> /\ NextPending \in Item /\ NextPending \in InFlight
    BY <1>1, <1>3, NextFacts DEF InFlight
<1>6. Len(group') = 1 /\ group'[1] = NextPending
    BY <1>3, <1>5, OneFacts
<1>7. /\ \A i \in 1..Len(group') : group'[i] = NextPending
      /\ \A i, j \in 1..Len(group') : ~(i < j)
      /\ group' # <<>>
    <2>1. \A i \in 1..1 : i = 1
        BY SMT
    <2>2. \A i, j \in 1..1 : ~(i < j)
        BY SMT
    <2>3. group' # <<>>
        <3>1. Len(<<>>) = 0 /\ 0 # 1
            BY EmptyFacts, SMT
        <3> QED BY <1>6, <3>1
    <2> QED BY <1>6, <2>1, <2>2, <2>3
<1>8. 1..Len(carry') = {}
    BY <1>5, NoItems
<1>9. /\ \A i \in 1..Len(queue') : \E j \in 1..Len(queue) : queue'[i] = queue[j]
      /\ \A i, j \in 1..Len(queue') : i < j => Before(queue'[i], queue'[j])
      /\ \A j \in 1..Len(queue') : Before(NextPending, queue'[j])
    BY <1>1, <1>3, NextOrder
<1>10. InFlight' \subseteq InFlight
    <2>1. {queue'[i] : i \in 1..Len(queue')} \subseteq InFlight
        BY <1>9 DEF InFlight
    <2>2. {carry'[i] : i \in 1..Len(carry')} \subseteq InFlight
        BY <1>8
    <2>3. {group'[i] : i \in 1..Len(group')} \subseteq InFlight
        BY <1>5, <1>7
    <2>4. InFlight' = {queue'[i] : i \in 1..Len(queue')}
                         \cup {carry'[i] : i \in 1..Len(carry')}
                         \cup {group'[i] : i \in 1..Len(group')}
        BY DEF InFlight
    <2> QED BY <2>1, <2>2, <2>3, <2>4
<1>11. Pipeline'
    <2>1. (group = <<>> <=> stage \in {"idle", "done"})'
        BY <1>3, <1>7
    <2>2. \A p \in InFlight' : p.kind = "commit" =>
              p.count >= 1 /\ p.first + p.count <= nextEntryID'
        BY <1>1, <1>4, <1>10 DEF Pipeline
    <2>3. \A i \in 1..Len(group') : group'[i].kind = "commit"
        BY <1>3, <1>7
    <2>4. \A i \in 1..Len(group'), j \in 1..Len(queue') : Before(group'[i], queue'[j])
        BY <1>7, <1>9
    <2> QED BY <1>7, <1>8, <1>9, <2>1, <2>2, <2>3, <2>4 DEF Pipeline
<1>12. Controls'
    <2>1. AtEnd("barrier") => AtEnd("barrier")'
        BY <1>1, <1>3, NextAtEnd
    <2>2. AtEnd("shutdown") => AtEnd("shutdown")'
        BY <1>1, <1>3, NextAtEnd
    <2> QED BY <1>1, <1>3, <1>4, <1>10, <2>1, <2>2, MoveControls
<1> QED BY <1>2, <1>3, <1>10, <1>11, <1>12, MoveStep

\* Collecting or carrying the next pending keeps OrderInv, and puts nothing in
\* flight.
LEMMA CollectNextStep ==
    ASSUME OrderInv, CollectNext
    PROVE  OrderInv' /\ InFlight' \subseteq InFlight
<1>1. TypeOK /\ Pipeline /\ Controls
    BY DEF OrderInv
<1>2. TypeOK'
    BY <1>1, MoveTypes
<1>3. /\ stage = "collect" /\ carry = <<>> /\ queue # <<>> /\ queue' = Tail(queue)
      /\ \/ /\ Joins(Head(queue)) /\ group' = Append(group, Head(queue))
            /\ carry' = <<>>
         \/ ~Joins(Head(queue)) /\ carry' = <<Head(queue)>> /\ group' = group
      /\ stage' = "collect"
      /\ UNCHANGED <<callVars, engineVars, fatal, wal, mark, replica, tail,
                     completed, barrier, closer>>
    BY DEF CollectNext
<1>4. UNCHANGED <<mu, nextEntryID>>
    BY <1>3 DEF engineVars
<1>5. /\ Head(queue) = queue[1] /\ queue[1] \in Item /\ 1 \in 1..Len(queue)
      /\ \A i \in 1..Len(queue') : queue'[i] = queue[i + 1] /\ i + 1 \in 1..Len(queue)
      /\ \A i, j \in 1..Len(queue') : i < j => Before(queue'[i], queue'[j])
      /\ \A j \in 1..Len(queue') : Before(queue[1], queue'[j])
    BY <1>1, <1>3, TailOrder
<1>6. group \in Seq(Item) /\ group # <<>>
    BY <1>1, <1>3 DEF TypeOK, Pipeline
<1>7. /\ \A i \in 1..Len(group) : group[i].kind = "commit"
      /\ \A i, j \in 1..Len(group) : i < j =>
            Before(group[i], group[j]) /\ group[i].stream # group[j].stream
      /\ \A i \in 1..Len(group), j \in 1..Len(queue) : Before(group[i], queue[j])
    BY <1>1 DEF Pipeline
<1>8. \A i \in 1..Len(group), j \in 1..Len(queue') : Before(group[i], queue'[j])
    BY <1>5, <1>7
<1>9. {queue'[i] : i \in 1..Len(queue')} \subseteq InFlight
    BY <1>5 DEF InFlight
<1>10. queue[1] \in InFlight
    BY <1>5 DEF InFlight
<1>11. ASSUME NEW kind, AtEnd(kind)
       PROVE  /\ queue[1].kind # kind /\ carry' = <<>> => AtEnd(kind)'
              /\ carry' = <<queue[1]>> => AtEnd(kind)'
    <2>1. /\ queue[Len(queue)].kind = kind
          /\ \A i \in 1..Len(queue) - 1 : queue[i].kind # kind
        BY <1>3, <1>11 DEF AtEnd
    <2>2. /\ queue[1].kind = kind => queue' = <<>>
          /\ queue[1].kind # kind =>
                /\ queue' # <<>> /\ queue'[Len(queue')].kind = kind
                /\ \A i \in 1..Len(queue') - 1 : queue'[i].kind # kind
        BY <1>1, <1>3, <2>1, TailAtEnd
    <2>3. ASSUME queue[1].kind # kind, carry' = <<>> PROVE AtEnd(kind)'
        <3>1. 1..Len(carry') = {}
            BY <2>3, NoItems
        <3> QED BY <2>2, <2>3, <3>1 DEF AtEnd
    <2>4. ASSUME carry' = <<queue[1]>> PROVE AtEnd(kind)'
        <3>1. Len(carry') = 1 /\ carry'[1] = queue[1] /\ carry' # <<>>
            BY <1>5, <2>4, OneFacts, SMT
        <3>2. \A i \in 1..1 : i = 1
            BY SMT
        <3>3. \A i \in 1..Len(carry') : carry'[i] = queue[1]
            BY <3>1, <3>2
        <3>4. CASE queue[1].kind = kind
            BY <2>2, <3>1, <3>4 DEF AtEnd
        <3>5. CASE queue[1].kind # kind
            BY <2>2, <3>3, <3>5 DEF AtEnd
        <3> QED BY <3>4, <3>5
    <2> QED BY <2>3, <2>4
<1>12. CASE Joins(Head(queue)) /\ group' = Append(group, Head(queue)) /\ carry' = <<>>
    <2>1. queue[1].kind = "commit" /\ \A i \in 1..Len(group) : group[i].stream # queue[1].stream
        BY <1>5, <1>12 DEF Joins
    <2>2. /\ Len(group) \in Nat /\ Len(group') = Len(group) + 1
          /\ \A i \in 1..Len(group) : group'[i] = group[i]
          /\ group'[Len(group) + 1] = queue[1]
        <3>1. group' = Append(group, queue[1])
            BY <1>5, <1>12
        <3> QED BY <1>5, <1>6, <3>1, SMT
    <2>3. /\ \A i \in 1..Len(group) + 1 : i \in 1..Len(group) \/ i = Len(group) + 1
          /\ \A i, j \in 1..Len(group) + 1 : i < j => i \in 1..Len(group)
        BY <2>2, SMT
    <2>4. \A i \in 1..Len(group') : \/ i \in 1..Len(group) /\ group'[i] = group[i]
                                    \/ i = Len(group) + 1 /\ group'[i] = queue[1]
        BY <2>2, <2>3
    <2>5. 1..Len(carry') = {}
        BY <1>12, NoItems
    <2>6. InFlight' \subseteq InFlight
        <3>1. {group'[i] : i \in 1..Len(group')} \subseteq InFlight
            BY <1>10, <2>4 DEF InFlight
        <3>2. {carry'[i] : i \in 1..Len(carry')} \subseteq InFlight
            BY <2>5
        <3>3. InFlight' = {queue'[i] : i \in 1..Len(queue')}
                             \cup {carry'[i] : i \in 1..Len(carry')}
                             \cup {group'[i] : i \in 1..Len(group')}
            BY DEF InFlight
        <3> QED BY <1>9, <3>1, <3>2, <3>3
    <2>7. Pipeline'
        <3>1. group' # <<>>
            <4>1. \A n \in Nat : n + 1 # 0
                BY SMT
            <4>2. Len(<<>>) = 0
                BY EmptyFacts
            <4> QED BY <2>2, <4>1, <4>2
        <3>2. (group = <<>> <=> stage \in {"idle", "done"})'
            BY <1>3, <3>1
        <3>3. \A p \in InFlight' : p.kind = "commit" =>
                  p.count >= 1 /\ p.first + p.count <= nextEntryID'
            BY <1>1, <1>4, <2>6 DEF Pipeline
        <3>4. \A i \in 1..Len(group') : group'[i].kind = "commit"
            BY <1>7, <2>1, <2>4
        <3>5. \A i, j \in 1..Len(group') : i < j =>
                 Before(group'[i], group'[j]) /\ group'[i].stream # group'[j].stream
            <4> SUFFICES ASSUME NEW i \in 1..Len(group'), NEW j \in 1..Len(group'), i < j
                         PROVE  /\ Before(group'[i], group'[j])
                                /\ group'[i].stream # group'[j].stream
                OBVIOUS
            <4>1. i \in 1..Len(group) /\ group'[i] = group[i]
                BY <2>2, <2>3
            <4>2. CASE j \in 1..Len(group) /\ group'[j] = group[j]
                BY <1>7, <4>1, <4>2
            <4>3. CASE group'[j] = queue[1]
                BY <1>5, <1>7, <2>1, <4>1, <4>3
            <4> QED BY <2>4, <4>2, <4>3
        <3>6. \A i \in 1..Len(group'), j \in 1..Len(queue') : Before(group'[i], queue'[j])
            BY <1>5, <1>8, <2>4
        <3> QED BY <1>5, <2>5, <3>2, <3>3, <3>4, <3>5, <3>6 DEF Pipeline
    <2>8. Controls'
        <3>1. AtEnd("barrier") => AtEnd("barrier")'
            BY <1>11, <1>12, <2>1
        <3>2. AtEnd("shutdown") => AtEnd("shutdown")'
            BY <1>11, <1>12, <2>1
        <3> QED BY <1>1, <1>3, <1>4, <2>6, <3>1, <3>2, MoveControls
    <2> QED BY <1>2, <1>3, <2>6, <2>7, <2>8, MoveStep
<1>13. CASE carry' = <<Head(queue)>> /\ group' = group
    <2>1. Len(carry') = 1 /\ carry'[1] = queue[1]
        BY <1>5, <1>13, OneFacts
    <2>2. \A i \in 1..1 : i = 1
        BY SMT
    <2>3. \A i \in 1..Len(carry') : carry'[i] = queue[1]
        BY <2>1, <2>2
    <2>4. InFlight' \subseteq InFlight
        <3>1. {group'[i] : i \in 1..Len(group')} \subseteq InFlight
            BY <1>13 DEF InFlight
        <3>2. {carry'[i] : i \in 1..Len(carry')} \subseteq InFlight
            BY <1>10, <2>3
        <3>3. InFlight' = {queue'[i] : i \in 1..Len(queue')}
                             \cup {carry'[i] : i \in 1..Len(carry')}
                             \cup {group'[i] : i \in 1..Len(group')}
            BY DEF InFlight
        <3> QED BY <1>9, <3>1, <3>2, <3>3
    <2>5. Pipeline'
        <3>1. (group = <<>> <=> stage \in {"idle", "done"})'
            BY <1>3, <1>6, <1>13
        <3>2. \A p \in InFlight' : p.kind = "commit" =>
                  p.count >= 1 /\ p.first + p.count <= nextEntryID'
            BY <1>1, <1>4, <2>4 DEF Pipeline
        <3>3. \A i \in 1..Len(group'), j \in 1..Len(queue') : Before(group'[i], queue'[j])
            BY <1>8, <1>13
        <3>4. \A i \in 1..Len(group'), j \in 1..Len(carry') : Before(group'[i], carry'[j])
            BY <1>5, <1>7, <1>13, <2>3
        <3>5. \A i \in 1..Len(carry'), j \in 1..Len(queue') : Before(carry'[i], queue'[j])
            BY <1>5, <2>3
        <3>6. /\ \A i \in 1..Len(group') : group'[i].kind = "commit"
              /\ \A i, j \in 1..Len(group') : i < j =>
                    Before(group'[i], group'[j]) /\ group'[i].stream # group'[j].stream
            BY <1>7, <1>13
        <3> QED BY <1>5, <3>1, <3>2, <3>3, <3>4, <3>5, <3>6 DEF Pipeline
    <2>6. Controls'
        <3>1. carry' = <<queue[1]>>
            BY <1>5, <1>13
        <3>2. AtEnd("barrier") => AtEnd("barrier")'
            BY <1>11, <3>1
        <3>3. AtEnd("shutdown") => AtEnd("shutdown")'
            BY <1>11, <3>1
        <3> QED BY <1>1, <1>3, <1>4, <2>4, <3>2, <3>3, MoveControls
    <2> QED BY <1>2, <1>3, <2>4, <2>5, <2>6, MoveStep
<1> QED BY <1>3, <1>12, <1>13

(***************************************************************************)
(* The group is processed                                                  *)
(***************************************************************************)
\* A step of process that does not end the group keeps all that does not
\* concern the log.
LEMMA ProcessFrame ==
    ASSUME OrderInv, group # <<>>, stage' \notin {"idle", "done"},
           UNCHANGED <<callVars, engineVars, queue, carry, group, completed,
                       barrier, closer>>
    PROVE  /\ CallTyped' /\ EngineTyped' /\ PipelineTyped' /\ RestTyped'
           /\ Locks' /\ Pipeline' /\ Controls' /\ Tickets'
<1>1. TypeOK /\ Locks /\ Pipeline /\ Controls /\ Tickets
    BY DEF OrderInv
<1>2. UNCHANGED <<call, gate, mu, nextEntryID>>
    BY DEF callVars, engineVars
<1>3. InFlight' = InFlight
    BY DEF InFlight
<1>4. CallTyped' /\ EngineTyped' /\ PipelineTyped' /\ RestTyped'
    BY <1>1, TypeFrames
<1>5. Locks'
    BY <1>1, <1>2 DEF Locks
<1>6. Pipeline'
    <2>1. stage \notin {"idle", "done"}
        BY <1>1 DEF Pipeline
    <2>2. (group = <<>> <=> stage \in {"idle", "done"})'
        OBVIOUS
    <2>3. /\ \A i \in 1..Len(group) : group[i].kind = "commit"
          /\ \A i, j \in 1..Len(group) : i < j =>
                Before(group[i], group[j]) /\ group[i].stream # group[j].stream
          /\ \A i, j \in 1..Len(queue) : i < j => Before(queue[i], queue[j])
          /\ \A i \in 1..Len(group), j \in 1..Len(carry) : Before(group[i], carry[j])
          /\ \A i \in 1..Len(group), j \in 1..Len(queue) : Before(group[i], queue[j])
          /\ \A i \in 1..Len(carry), j \in 1..Len(queue) : Before(carry[i], queue[j])
          /\ \A p \in InFlight : p.kind = "commit" =>
                p.count >= 1 /\ p.first + p.count <= nextEntryID
        BY <1>1 DEF Pipeline
    <2> QED BY <1>2, <1>3, <2>2, <2>3 DEF Pipeline
<1>7. Controls'
    <2>1. stage # "done" /\ stage' # "done"
        BY <1>1 DEF Pipeline
    <2>2. /\ AtEnd("barrier") => AtEnd("barrier")'
          /\ AtEnd("shutdown") => AtEnd("shutdown")'
        BY DEF AtEnd
    <2> QED BY <1>1, <1>2, <1>3, <2>1, <2>2, MoveControls
<1>8. Tickets'
    BY <1>1, <1>2, <1>3, TicketsFrame
<1> QED BY <1>4, <1>5, <1>6, <1>7, <1>8

\* completeGroup keeps all that does not concern the log: the completed tickets
\* are no longer in flight.
LEMMA CompleteFrame ==
    ASSUME OrderInv, group # <<>>, NEW outcome \in Outcome, CompleteGroup(outcome),
           UNCHANGED <<callVars, engineVars, queue, carry, barrier, closer>>
    PROVE  /\ CallTyped' /\ EngineTyped' /\ PipelineTyped' /\ RestTyped'
           /\ Locks' /\ Pipeline' /\ Controls' /\ Tickets'
           /\ InFlight' \subseteq InFlight /\ stage' = "idle"
<1>1. TypeOK /\ Locks /\ Pipeline /\ Controls /\ Tickets
    BY DEF OrderInv
<1>2. UNCHANGED <<call, gate, mu, nextEntryID>>
    BY DEF callVars, engineVars
<1>3. /\ completed' = completed \cup
             {[ticket |-> group[i].first, outcome |-> outcome] : i \in 1..Len(group)}
      /\ group' = <<>> /\ stage' = "idle"
    BY DEF CompleteGroup
<1>4. 1..Len(group') = {}
    BY <1>3, NoItems
<1>5. InFlight' \subseteq InFlight
    BY <1>4 DEF InFlight
<1>6. CallTyped' /\ EngineTyped' /\ PipelineTyped' /\ RestTyped'
    BY <1>1, TypeFrames, CompleteTypes
<1>7. Locks'
    BY <1>1, <1>2 DEF Locks
<1>8. Pipeline'
    <2>1. (group = <<>> <=> stage \in {"idle", "done"})'
        BY <1>3
    <2>2. /\ \A i, j \in 1..Len(queue) : i < j => Before(queue[i], queue[j])
          /\ \A i \in 1..Len(carry), j \in 1..Len(queue) : Before(carry[i], queue[j])
          /\ \A p \in InFlight : p.kind = "commit" =>
                p.count >= 1 /\ p.first + p.count <= nextEntryID
        BY <1>1 DEF Pipeline
    <2> QED BY <1>2, <1>4, <1>5, <2>1, <2>2 DEF Pipeline
<1>9. Controls'
    <2>1. stage # "done" /\ stage' # "done"
        BY <1>1, <1>3 DEF Pipeline
    <2>2. /\ AtEnd("barrier") => AtEnd("barrier")'
          /\ AtEnd("shutdown") => AtEnd("shutdown")'
        BY DEF AtEnd
    <2> QED BY <1>1, <1>2, <1>5, <2>1, <2>2, MoveControls
<1>10. Tickets'
    <2>1. \A q \in Request : Waits(q)' <=> Waits(q)
        BY <1>2 DEF Waits
    <2>2. \A p : Owned(p) => Owned(p)'
        BY <1>2 DEF Owned, AppendItem
    <2>3. \A p \in InFlight' : p.kind = "commit" => Owned(p)'
        BY <1>1, <1>5, <2>2 DEF Tickets
    <2>4. /\ \A r \in Request : Waits(r)' => call'[r].ticket < nextEntryID'
          /\ \A s \in Stream : gate'[s].finish => gate'[s].ticket < nextEntryID'
          /\ \A r, q \in Request : Waits(r)' /\ Waits(q)' /\ r # q =>
                call'[r].ticket # call'[q].ticket
          /\ \A r \in Request, s \in Stream : Waits(r)' /\ gate'[s].finish =>
                call'[r].ticket # gate'[s].ticket
          /\ \A s, t \in Stream : gate'[s].finish /\ gate'[t].finish /\ s # t =>
                gate'[s].ticket # gate'[t].ticket
        BY <1>1, <1>2, <2>1 DEF Tickets
    <2>5. \A c \in completed' : c \in completed \/ \E i \in 1..Len(group) : c.ticket = group[i].first
        <3>1. \A n : [ticket |-> n, outcome |-> outcome].ticket = n
            OBVIOUS
        <3>2. \A c \in completed' : \/ c \in completed
                                    \/ \E i \in 1..Len(group) :
                                          c = [ticket |-> group[i].first, outcome |-> outcome]
            BY <1>3
        <3> QED BY <3>1, <3>2
    <2>6. /\ \A c \in completed : c.ticket < nextEntryID
          /\ \A c \in completed, p \in InFlight' : p.kind = "commit" => p.first # c.ticket
        BY <1>1, <1>5 DEF Tickets
    <2>7. ASSUME NEW i \in 1..Len(group)
          PROVE  /\ group[i].first < nextEntryID
                 /\ \A p \in InFlight' : p.kind = "commit" => p.first # group[i].first
        <3>1. /\ group[i].first \in Nat /\ group[i].count \in Nat \ {0}
              /\ group[i].kind = "commit" /\ group[i] \in InFlight
            BY <1>1, GroupItems
        <3>2. /\ \A a \in Nat, b \in Nat \ {0}, c \in Nat : a + b <= c => a < c /\ c # a
            BY SMT
        <3>3. nextEntryID \in Nat /\ group[i].first + group[i].count <= nextEntryID
            BY <1>1, <3>1 DEF TypeOK, Pipeline
        <3>4. ASSUME NEW p \in InFlight', p.kind = "commit" PROVE p.first # group[i].first
            <4>1. \/ \E j \in 1..Len(queue) : p = queue[j]
                  \/ \E j \in 1..Len(carry) : p = carry[j]
                BY <1>4 DEF InFlight
            <4>2. Before(group[i], p)
                BY <1>1, <4>1 DEF Pipeline
            <4>3. group[i].first + group[i].count <= p.first
                BY <3>1, <3>4, <4>2 DEF Before
            <4>4. p.first \in Nat
                BY <1>1, <1>5, InFlightItems
            <4> QED BY <3>1, <3>2, <4>3, <4>4
        <3> QED BY <3>1, <3>2, <3>3, <3>4
    <2>8. /\ \A c \in completed' : c.ticket < nextEntryID'
          /\ \A c \in completed', p \in InFlight' : p.kind = "commit" => p.first # c.ticket
        BY <1>2, <2>5, <2>6, <2>7
    <2> QED BY <2>3, <2>4, <2>8 DEF Tickets
<1> QED BY <1>3, <1>5, <1>6, <1>7, <1>8, <1>9, <1>10

\* A step that fails the committer and completes the group keeps OrderInv if it
\* keeps the order of the watermarks.
LEMMA FailStep ==
    ASSUME OrderInv, group # <<>>, NEW outcome \in Outcome, CompleteGroup(outcome),
           UNCHANGED <<callVars, engineVars, queue, carry, barrier, closer>>,
           fatal' \in {"invalid", "gap", "append", "sync", "guard", "replica", "apply"},
           wal' \in Seq(Entry), replica' \in Nat, tail' \in [StreamId -> Nat],
           mark' \in [appended : Nat, local : Nat, replicated : Nat,
                      committed : Nat, applied : Nat],
           WatermarkOrder', replica' <= mark'.local, Len(wal') <= nextEntryID
    PROVE  OrderInv'
<1>1. /\ CallTyped' /\ EngineTyped' /\ PipelineTyped' /\ RestTyped'
      /\ Locks' /\ Pipeline' /\ Controls' /\ Tickets' /\ stage' = "idle"
    BY CompleteFrame
<1>2. LogTyped'
    BY <1>1 DEF LogTyped
<1>3. nextEntryID' = nextEntryID
    BY DEF engineVars
<1>4. stage' \notin Processing /\ stage' \notin {"commit", "apply"} /\ fatal' # "none"
    BY <1>1 DEF Processing
<1>5. Marks'
    BY <1>3, <1>4 DEF Marks
<1> QED BY <1>1, <1>2, <1>5, TypeParts DEF OrderInv

\* A group stays written while neither it nor the WAL changes.
LEMMA WrittenFrame ==
    ASSUME GroupWritten, group' = group, wal' = wal
    PROVE  GroupWritten'
BY DEF GroupWritten, GroupEnd

\* A step that takes the group to the next stage keeps OrderInv if the
\* watermarks are what that stage requires.
LEMMA GoOnStep ==
    ASSUME OrderInv, stage \in Processing, stage' \in Processing,
           UNCHANGED <<callVars, engineVars, queue, carry, group, completed,
                       barrier, closer, fatal, wal>>,
           mark' \in [appended : Nat, local : Nat, replicated : Nat,
                      committed : Nat, applied : Nat],
           replica' \in Nat, tail' \in [StreamId -> Nat],
           WatermarkOrder', replica' <= mark'.local, mark'.appended = Len(wal),
           stage' \in Processing \ {"sync"} => mark'.local = Len(wal),
           stage' \in {"commit", "apply"} => mark'.replicated = Len(wal),
           stage' = "apply" => mark'.committed = Len(wal),
           stage' \in Processing \ {"apply"} => mark'.applied = group[1].first,
           stage' = "apply" => mark'.applied = Len(wal)
                          \/ \E i \in 1..Len(group) : group[i].first = mark'.applied
    PROVE  OrderInv'
<1>1. TypeOK /\ Pipeline /\ Marks
    BY DEF OrderInv
<1>2. group # <<>> /\ stage \notin {"idle", "collect", "done"}
      /\ stage' \notin {"idle", "collect", "done"}
    BY <1>1 DEF Pipeline, Processing
<1>3. /\ CallTyped' /\ EngineTyped' /\ PipelineTyped' /\ RestTyped'
      /\ Locks' /\ Pipeline' /\ Controls' /\ Tickets'
    BY <1>2, ProcessFrame
<1>4. LogTyped'
    <2>1. stage' \in {"idle", "collect", "sync", "replicate", "commit", "apply", "done"}
        BY DEF Processing
    <2>2. LogTyped
        BY <1>1, TypeParts
    <2> QED BY <2>1, <2>2 DEF LogTyped
<1>5. Marks'
    <2>1. nextEntryID' = nextEntryID
        BY DEF engineVars
    <2>2. fatal = "none" /\ GroupWritten
        BY <1>1 DEF Marks
    <2>3. GroupWritten'
        BY <2>2, WrittenFrame
    <2>4. /\ Len(wal) <= nextEntryID
          /\ \A i \in 1..Len(queue) : queue[i].kind = "commit" => Len(wal) <= queue[i].first
          /\ \A i \in 1..Len(carry) : carry[i].kind = "commit" => Len(wal) <= carry[i].first
        BY <1>1, <2>2 DEF Marks
    <2> QED BY <1>2, <2>1, <2>2, <2>3, <2>4 DEF Marks
<1> QED BY <1>3, <1>4, <1>5, TypeParts DEF OrderInv

\* Advancing one watermark leaves the others.
LEMMA MarkUpdates ==
    ASSUME NEW m \in [appended : Nat, local : Nat, replicated : Nat,
                      committed : Nat, applied : Nat],
           NEW n \in Nat
    PROVE  /\ [m EXCEPT !.appended = n] =
                [appended |-> n, local |-> m.local, replicated |-> m.replicated,
                 committed |-> m.committed, applied |-> m.applied]
           /\ [m EXCEPT !.local = n] =
                [appended |-> m.appended, local |-> n, replicated |-> m.replicated,
                 committed |-> m.committed, applied |-> m.applied]
           /\ [m EXCEPT !.replicated = n] =
                [appended |-> m.appended, local |-> m.local, replicated |-> n,
                 committed |-> m.committed, applied |-> m.applied]
           /\ [m EXCEPT !.committed = n] =
                [appended |-> m.appended, local |-> m.local, replicated |-> m.replicated,
                 committed |-> n, applied |-> m.applied]
           /\ [m EXCEPT !.applied = n] =
                [appended |-> m.appended, local |-> m.local, replicated |-> m.replicated,
                 committed |-> m.committed, applied |-> n]
<1>1. [m EXCEPT !.appended = n] =
                [appended |-> n, local |-> m.local, replicated |-> m.replicated,
                 committed |-> m.committed, applied |-> m.applied]
    BY SMT
<1>2. [m EXCEPT !.local = n] =
                [appended |-> m.appended, local |-> n, replicated |-> m.replicated,
                 committed |-> m.committed, applied |-> m.applied]
    BY SMT
<1>3. [m EXCEPT !.replicated = n] =
                [appended |-> m.appended, local |-> m.local, replicated |-> n,
                 committed |-> m.committed, applied |-> m.applied]
    BY SMT
<1>4. [m EXCEPT !.committed = n] =
                [appended |-> m.appended, local |-> m.local, replicated |-> m.replicated,
                 committed |-> n, applied |-> m.applied]
    BY SMT
<1>5. [m EXCEPT !.applied = n] =
                [appended |-> m.appended, local |-> m.local, replicated |-> m.replicated,
                 committed |-> m.committed, applied |-> n]
    BY SMT
<1> QED BY <1>1, <1>2, <1>3, <1>4, <1>5

\* A record of five naturals is a record of watermarks.
LEMMA MarkFields ==
    ASSUME NEW a \in Nat, NEW b \in Nat, NEW c \in Nat, NEW d \in Nat, NEW e \in Nat,
           NEW m, m = [appended |-> a, local |-> b, replicated |-> c,
                       committed |-> d, applied |-> e]
    PROVE  /\ m \in [appended : Nat, local : Nat, replicated : Nat,
                     committed : Nat, applied : Nat]
           /\ m.appended = a /\ m.local = b /\ m.replicated = c
           /\ m.committed = d /\ m.applied = e
BY SMT

\* The fsync, failed or not, keeps OrderInv.
LEMMA SyncGroupStep ==
    ASSUME OrderInv, SyncGroup
    PROVE  OrderInv'
<1>1. TypeOK /\ Pipeline /\ Marks /\ stage = "sync"
    BY DEF OrderInv, SyncGroup
<1>2. stage \in Processing /\ group # <<>>
    BY <1>1 DEF Processing, Pipeline
<1>3. /\ WatermarkOrder /\ replica <= mark.local /\ Len(wal) <= nextEntryID
      /\ mark.appended = Len(wal) /\ mark.applied = group[1].first
    BY <1>1, <1>2 DEF Marks, Processing
<1>4. UNCHANGED <<callVars, engineVars, queue, carry, wal, replica, tail, barrier, closer>>
    BY DEF SyncGroup
<1>5. wal \in Seq(Entry) /\ replica \in Nat /\ tail \in [StreamId -> Nat]
    BY <1>1 DEF TypeOK
<1>6. "uncertain" \in Outcome
    BY DEF Outcome
<1>7. CASE FailGroup("sync", "uncertain") /\ UNCHANGED mark
    <2>1. WatermarkOrder' /\ replica' <= mark'.local /\ Len(wal') <= nextEntryID
        BY <1>3, <1>4, <1>7 DEF WatermarkOrder
    <2>2. mark' \in [appended : Nat, local : Nat, replicated : Nat,
                     committed : Nat, applied : Nat]
        BY <1>1, <1>7 DEF TypeOK
    <2> QED BY <1>2, <1>4, <1>5, <1>6, <1>7, <2>1, <2>2, FailStep DEF FailGroup
<1>8. CASE mark' = [mark EXCEPT !.local = mark.appended]
    <2>1. /\ mark'.appended = mark.appended /\ mark'.local = mark.appended
          /\ mark'.replicated = mark.replicated /\ mark'.committed = mark.committed
          /\ mark'.applied = mark.applied
          /\ mark' \in [appended : Nat, local : Nat, replicated : Nat,
                        committed : Nat, applied : Nat]
        <3>1. mark \in [appended : Nat, local : Nat, replicated : Nat,
                        committed : Nat, applied : Nat]
            BY <1>1 DEF TypeOK
        <3>2. mark' = [appended |-> mark.appended, local |-> mark.appended,
                       replicated |-> mark.replicated, committed |-> mark.committed,
                       applied |-> mark.applied]
            BY <1>1, <1>8, <3>1, MarkTypes, MarkUpdates
        <3> QED BY <1>1, <3>2, MarkTypes, MarkFields
    <2>2. WatermarkOrder' /\ replica' <= mark'.local
        BY <1>1, <1>3, <1>4, <2>1, MarkTypes, SMT DEF WatermarkOrder
    <2>3. CASE FailGroup("guard", "uncertain")
        BY <1>2, <1>3, <1>4, <1>5, <1>6, <2>1, <2>2, <2>3, FailStep DEF FailGroup
    <2>4. CASE stage' = "replicate" /\ UNCHANGED <<fatal, group, completed>>
        BY <1>2, <1>3, <1>4, <1>5, <2>1, <2>2, <2>4, GoOnStep DEF Processing
    <2> QED BY <1>1, <1>8, <2>3, <2>4, <1>7 DEF SyncGroup
<1> QED BY <1>7, <1>8 DEF SyncGroup

\* Replication, failed or not, keeps OrderInv.
LEMMA ReplicateGroupStep ==
    ASSUME OrderInv, ReplicateGroup
    PROVE  OrderInv'
<1>1. TypeOK /\ Pipeline /\ Marks /\ stage = "replicate"
    BY DEF OrderInv, ReplicateGroup
<1>2. stage \in Processing /\ group # <<>>
    BY <1>1 DEF Processing, Pipeline
<1>3. /\ WatermarkOrder /\ replica <= mark.local /\ Len(wal) <= nextEntryID
      /\ mark.appended = Len(wal) /\ mark.local = Len(wal)
      /\ mark.applied = group[1].first
    BY <1>1, <1>2 DEF Marks, Processing
<1>4. UNCHANGED <<callVars, engineVars, queue, carry, wal, tail, barrier, closer>>
    BY DEF ReplicateGroup
<1>5. wal \in Seq(Entry) /\ replica \in Nat /\ tail \in [StreamId -> Nat]
    BY <1>1 DEF TypeOK
<1>6. "uncertain" \in Outcome
    BY DEF Outcome
<1>7. mark \in [appended : Nat, local : Nat, replicated : Nat,
                committed : Nat, applied : Nat]
    BY <1>1 DEF TypeOK
<1>8. CASE /\ replica' \in {replica, mark.local}
           /\ FailGroup("replica", "uncertain") /\ UNCHANGED mark
    <2>1. WatermarkOrder' /\ replica' <= mark'.local /\ replica' \in Nat
        BY <1>1, <1>3, <1>4, <1>8, MarkTypes, LeqFacts DEF WatermarkOrder
    <2> QED BY <1>2, <1>3, <1>4, <1>5, <1>6, <1>7, <1>8, <2>1, FailStep DEF FailGroup
<1>9. CASE /\ replica' = mark.local
           /\ mark' = [mark EXCEPT !.replicated = mark.local]
           /\ stage' = "commit" /\ UNCHANGED <<fatal, group, completed>>
    <2>1. /\ mark'.appended = mark.appended /\ mark'.local = mark.local
          /\ mark'.replicated = mark.local /\ mark'.committed = mark.committed
          /\ mark'.applied = mark.applied
          /\ mark' \in [appended : Nat, local : Nat, replicated : Nat,
                        committed : Nat, applied : Nat]
        <3>1. mark' = [appended |-> mark.appended, local |-> mark.local,
                       replicated |-> mark.local, committed |-> mark.committed,
                       applied |-> mark.applied]
            BY <1>1, <1>7, <1>9, MarkTypes, MarkUpdates
        <3> QED BY <1>1, <3>1, MarkTypes, MarkFields
    <2>2. WatermarkOrder' /\ replica' <= mark'.local /\ replica' \in Nat
        BY <1>1, <1>3, <1>4, <1>9, <2>1, MarkTypes, SMT DEF WatermarkOrder
    <2> QED BY <1>2, <1>3, <1>4, <1>5, <1>9, <2>1, <2>2, GoOnStep DEF Processing
<1> QED BY <1>8, <1>9 DEF ReplicateGroup

\* The commit, refused by the guard or not, keeps OrderInv.
LEMMA CommitGroupStep ==
    ASSUME OrderInv, CommitGroup
    PROVE  OrderInv'
<1>1. TypeOK /\ Pipeline /\ Tickets /\ Marks /\ stage = "commit"
    BY DEF OrderInv, CommitGroup
<1>2. stage \in Processing /\ group # <<>>
    BY <1>1 DEF Processing, Pipeline
<1>3. /\ WatermarkOrder /\ replica <= mark.local /\ Len(wal) <= nextEntryID
      /\ mark.appended = Len(wal) /\ mark.local = Len(wal)
      /\ mark.replicated = Len(wal) /\ mark.applied = group[1].first
    BY <1>1, <1>2 DEF Marks, Processing
<1>4. UNCHANGED <<callVars, engineVars, queue, carry, wal, replica, tail, barrier, closer>>
    BY DEF CommitGroup
<1>5. wal \in Seq(Entry) /\ replica \in Nat /\ tail \in [StreamId -> Nat]
    BY <1>1 DEF TypeOK
<1>6. "uncertain" \in Outcome
    BY DEF Outcome
<1>7. mark \in [appended : Nat, local : Nat, replicated : Nat,
                committed : Nat, applied : Nat]
    BY <1>1 DEF TypeOK
<1>8. CASE FailGroup("guard", "uncertain") /\ UNCHANGED mark
    <2>1. WatermarkOrder' /\ replica' <= mark'.local
        BY <1>3, <1>4, <1>8 DEF WatermarkOrder
    <2> QED BY <1>2, <1>3, <1>4, <1>5, <1>6, <1>7, <1>8, <2>1, FailStep DEF FailGroup
<1>9. CASE /\ mark' = [mark EXCEPT !.committed = mark.replicated]
           /\ stage' = "apply" /\ UNCHANGED <<fatal, group, completed>>
    <2>1. /\ mark'.appended = mark.appended /\ mark'.local = mark.local
          /\ mark'.replicated = mark.replicated /\ mark'.committed = mark.replicated
          /\ mark'.applied = mark.applied
          /\ mark' \in [appended : Nat, local : Nat, replicated : Nat,
                        committed : Nat, applied : Nat]
        <3>1. mark' = [appended |-> mark.appended, local |-> mark.local,
                       replicated |-> mark.replicated, committed |-> mark.replicated,
                       applied |-> mark.applied]
            BY <1>1, <1>7, <1>9, MarkTypes, MarkUpdates
        <3> QED BY <1>1, <3>1, MarkTypes, MarkFields
    <2>2. WatermarkOrder' /\ replica' <= mark'.local
        BY <1>1, <1>3, <1>4, <1>9, <2>1, MarkTypes, SMT DEF WatermarkOrder
    <2>3. \E i \in 1..Len(group) : group[i].first = mark'.applied
        BY <1>1, <1>2, <1>3, <2>1, EndFacts
    <2> QED BY <1>2, <1>3, <1>4, <1>5, <1>9, <2>1, <2>2, <2>3, GoOnStep DEF Processing
<1> QED BY <1>8, <1>9 DEF CommitGroup

\* While the group is applied and not done, its next batch is the one at the
\* applied watermark, and it ends where another begins or the log ends.
LEMMA ApplyFacts ==
    ASSUME OrderInv, stage = "apply", mark.applied < mark.committed
    PROVE  /\ NextBatch \in 1..Len(group) /\ group[NextBatch].first = mark.applied
           /\ mark.applied + group[NextBatch].count \in Nat
           /\ mark.applied + group[NextBatch].count <= mark.committed
           /\ \/ mark.applied + group[NextBatch].count = Len(wal)
              \/ \E i \in 1..Len(group) :
                    group[i].first = mark.applied + group[NextBatch].count
<1>1. TypeOK /\ Pipeline /\ Tickets /\ Marks
    BY DEF OrderInv
<1>2. group # <<>> /\ stage \in Processing
    BY <1>1 DEF Pipeline, Processing
<1>3. /\ mark.committed = Len(wal) /\ GroupWritten
      /\ \/ mark.applied = Len(wal)
         \/ \E i \in 1..Len(group) : group[i].first = mark.applied
    BY <1>1, <1>2 DEF Marks
<1>4. \E i \in 1..Len(group) : group[i].first = mark.applied
    <2>1. \A n \in Nat : ~(n < n)
        BY SMT
    <2> QED BY <1>1, <1>3, <2>1, MarkTypes
<1>5. NextBatch \in 1..Len(group) /\ group[NextBatch].first = mark.applied
    BY <1>4 DEF NextBatch
<1> DEFINE b == NextBatch
<1>6. b \in 1..Len(group) /\ group[b].first = mark.applied
    BY <1>5
<1> HIDE DEF b
<1>7. group[b].first \in Nat /\ group[b].count \in Nat \ {0}
    BY <1>1, <1>6, GroupItems
<1>8. mark.applied + group[b].count \in Nat
    <2>1. \A m, n \in Nat : m + n \in Nat
        BY SMT
    <2> QED BY <1>6, <1>7, <2>1
<1>9. mark.applied + group[b].count <= mark.committed
    BY <1>1, <1>2, <1>3, <1>6, EndFacts DEF GroupWritten
<1>10. \/ mark.applied + group[b].count = Len(wal)
       \/ \E i \in 1..Len(group) : group[i].first = mark.applied + group[b].count
    <2>1. CASE b = Len(group)
        BY <1>3, <1>6, <2>1 DEF GroupWritten, GroupEnd
    <2>2. CASE b # Len(group)
        <3>1. b \in 1..Len(group) - 1 /\ b + 1 \in 1..Len(group)
            <4>1. Len(group) \in Nat
                BY <1>1, <1>2, EndFacts
            <4> QED BY <1>6, <2>2, <4>1, SMT
        <3>2. group[b + 1].first = group[b].first + group[b].count
            BY <1>3, <3>1 DEF GroupWritten
        <3> QED BY <1>6, <3>1, <3>2
    <2> QED BY <2>1, <2>2
<1> QED BY <1>6, <1>8, <1>9, <1>10 DEF b

\* Applying a batch keeps OrderInv.
LEMMA ApplyNextStep ==
    ASSUME OrderInv, ApplyNext
    PROVE  OrderInv'
<1>1. TypeOK /\ Pipeline /\ Tickets /\ Marks /\ stage = "apply" /\ mark.applied < mark.committed
    BY DEF OrderInv, ApplyNext
<1>2. stage \in Processing /\ group # <<>>
    BY <1>1 DEF Processing, Pipeline
<1>3. /\ WatermarkOrder /\ replica <= mark.local /\ Len(wal) <= nextEntryID
      /\ mark.appended = Len(wal) /\ mark.local = Len(wal)
      /\ mark.replicated = Len(wal) /\ mark.committed = Len(wal)
    BY <1>1, <1>2 DEF Marks, Processing
<1>4. UNCHANGED <<callVars, engineVars, queue, carry, wal, replica, barrier, closer>>
    BY DEF ApplyNext
<1>5. wal \in Seq(Entry) /\ replica \in Nat /\ tail \in [StreamId -> Nat]
    BY <1>1 DEF TypeOK
<1>6. "uncertain" \in Outcome
    BY DEF Outcome
<1>7. mark \in [appended : Nat, local : Nat, replicated : Nat,
                committed : Nat, applied : Nat]
    BY <1>1 DEF TypeOK
<1>8. CASE FailGroup("apply", "uncertain") /\ UNCHANGED <<mark, tail>>
    <2>1. WatermarkOrder' /\ replica' <= mark'.local
        BY <1>3, <1>4, <1>8 DEF WatermarkOrder
    <2> QED BY <1>2, <1>3, <1>4, <1>5, <1>6, <1>7, <1>8, <2>1, FailStep DEF FailGroup
<1>9. CASE /\ mark' = [mark EXCEPT !.applied = @ + group[NextBatch].count]
           /\ tail' = [tail EXCEPT ![group[NextBatch].stream] =
                                      group[NextBatch].seq + group[NextBatch].count]
           /\ UNCHANGED <<fatal, group, stage, completed>>
    <2>1. PICK n : n = mark.applied + group[NextBatch].count
        OBVIOUS
    <2>2. /\ n \in Nat /\ n <= mark.committed
          /\ n = Len(wal) \/ \E i \in 1..Len(group) : group[i].first = n
        BY <1>1, <2>1, ApplyFacts
    <2>3. mark' = [mark EXCEPT !.applied = n]
        BY <1>9, <2>1
    <2>4. /\ mark'.appended = mark.appended /\ mark'.local = mark.local
          /\ mark'.replicated = mark.replicated /\ mark'.committed = mark.committed
          /\ mark'.applied = n
          /\ mark' \in [appended : Nat, local : Nat, replicated : Nat,
                        committed : Nat, applied : Nat]
        <3>1. mark' = [appended |-> mark.appended, local |-> mark.local,
                       replicated |-> mark.replicated, committed |-> mark.committed,
                       applied |-> n]
            BY <1>7, <2>2, <2>3, MarkUpdates
        <3> QED BY <1>1, <2>2, <3>1, MarkTypes, MarkFields
    <2>5. WatermarkOrder' /\ replica' <= mark'.local
        BY <1>3, <1>4, <2>2, <2>4 DEF WatermarkOrder
    <2>6. stage' = "apply" /\ stage' \in Processing /\ stage' \notin Processing \ {"apply"}
        BY <1>1, <1>2, <1>9
    <2>7. \/ mark'.applied = Len(wal)
          \/ \E i \in 1..Len(group) : group[i].first = mark'.applied
        BY <2>2, <2>4
    <2>8. tail' \in [StreamId -> Nat]
        <3>1. NextBatch \in 1..Len(group)
            BY <1>1, ApplyFacts
        <3>2. PICK p : p = group[NextBatch]
            OBVIOUS
        <3>3. p \in Item
            BY <1>1, <3>1, <3>2, GroupItems
        <3>4. p.stream \in StreamId /\ p.seq + p.count \in Nat
            BY <3>3, SMT DEF Item
        <3>5. tail' = [tail EXCEPT ![p.stream] = p.seq + p.count]
            BY <1>9, <3>2
        <3> QED BY <1>5, <3>4, <3>5
    <2> QED BY <1>2, <1>3, <1>4, <1>5, <1>9, <2>4, <2>5, <2>6, <2>7, <2>8, GoOnStep
<1> QED BY <1>8, <1>9 DEF ApplyNext

\* Completing the group with success keeps OrderInv.
LEMMA CompleteSuccessStep ==
    ASSUME OrderInv, CompleteSuccess
    PROVE  OrderInv'
<1>1. TypeOK /\ Pipeline /\ Marks /\ stage = "apply" /\ mark.applied = mark.committed
    BY DEF OrderInv, CompleteSuccess
<1>2. stage \in Processing /\ group # <<>>
    BY <1>1 DEF Processing, Pipeline
<1>3. /\ WatermarkOrder /\ replica <= mark.local /\ Len(wal) <= nextEntryID
      /\ mark.committed = Len(wal) /\ fatal = "none"
    BY <1>1, <1>2 DEF Marks
<1>4. /\ CompleteGroup("ok")
      /\ UNCHANGED <<callVars, engineVars, queue, carry, fatal, wal, mark, replica, tail,
                     barrier, closer>>
    BY DEF CompleteSuccess
<1>5. "ok" \in Outcome
    BY DEF Outcome
<1>6. /\ CallTyped' /\ EngineTyped' /\ PipelineTyped' /\ RestTyped'
      /\ Locks' /\ Pipeline' /\ Controls' /\ Tickets' /\ stage' = "idle"
    BY <1>2, <1>4, <1>5, CompleteFrame
<1>7. LogTyped'
    <2>1. LogTyped
        BY <1>1, TypeParts
    <2> QED BY <1>4, <1>6, <2>1 DEF LogTyped
<1>8. Marks'
    <2>1. stage' \notin Processing /\ stage' \notin {"commit", "apply", "collect"}
        BY <1>6 DEF Processing
    <2>2. nextEntryID' = nextEntryID
        BY <1>4 DEF engineVars
    <2>3. WatermarkOrder'
        BY <1>3, <1>4 DEF WatermarkOrder
    <2>4. /\ \A i \in 1..Len(queue) : queue[i].kind = "commit" => Len(wal) <= queue[i].first
          /\ \A i \in 1..Len(carry) : carry[i].kind = "commit" => Len(wal) <= carry[i].first
        BY <1>1, <1>3 DEF Marks
    <2> QED BY <1>1, <1>3, <1>4, <2>1, <2>2, <2>3, <2>4 DEF Marks
<1> QED BY <1>6, <1>7, <1>8, TypeParts DEF OrderInv

\* The start of process, up to the WAL append, keeps OrderInv in each of its
\* outcomes.
LEMMA AppendGroupStep ==
    ASSUME OrderInv, Filled, AppendGroup
    PROVE  OrderInv'
<1>1. TypeOK /\ Pipeline /\ Tickets /\ Marks /\ stage = "collect"
    BY DEF OrderInv, AppendGroup
<1>2. group # <<>> /\ stage \notin Processing
    BY <1>1 DEF Processing, Pipeline
<1>3. UNCHANGED <<callVars, engineVars, queue, carry, replica, tail, barrier, closer>>
    BY DEF AppendGroup
<1>4. /\ wal \in Seq(Entry) /\ replica \in Nat /\ tail \in [StreamId -> Nat]
      /\ mark \in [appended : Nat, local : Nat, replicated : Nat,
                   committed : Nat, applied : Nat]
    BY <1>1 DEF TypeOK
<1>5. WatermarkOrder /\ replica <= mark.local /\ Len(wal) <= nextEntryID
    BY <1>1 DEF Marks
<1>6. "rejected" \in Outcome /\ "uncertain" \in Outcome
    BY DEF Outcome
<1>7. nextEntryID' = nextEntryID
    BY <1>3 DEF engineVars
<1>8. CASE CompleteGroup("rejected") /\ UNCHANGED <<fatal, wal, mark>>
    <2>1. /\ CallTyped' /\ EngineTyped' /\ PipelineTyped' /\ RestTyped'
          /\ Locks' /\ Pipeline' /\ Controls' /\ Tickets'
          /\ InFlight' \subseteq InFlight /\ stage' = "idle"
        BY <1>2, <1>3, <1>6, <1>8, CompleteFrame
    <2>2. LogTyped'
        <3>1. LogTyped
            BY <1>1, TypeParts
        <3> QED BY <1>3, <1>8, <2>1, <3>1 DEF LogTyped
    <2>3. Marks'
        BY <1>1, <1>3, <1>7, <1>8, <2>1, MoveMarks
    <2> QED BY <2>1, <2>2, <2>3, TypeParts DEF OrderInv
<1>9. CASE /\ FailGroup("invalid", "rejected") \/ FailGroup("gap", "uncertain")
           /\ UNCHANGED <<wal, mark>>
    <2>1. WatermarkOrder' /\ replica' <= mark'.local
        BY <1>3, <1>5, <1>9 DEF WatermarkOrder
    <2> QED BY <1>2, <1>3, <1>4, <1>5, <1>6, <1>9, <2>1, FailStep DEF FailGroup
<1>10. /\ GroupEnd \in Nat /\ GroupEnd <= nextEntryID /\ Len(wal) \in Nat
       /\ nextEntryID \in Nat /\ 1 \in 1..Len(group)
       /\ \A i \in 1..Len(group) : group[i].first + group[i].count <= GroupEnd
       /\ \A i \in 1..Len(queue) : queue[i].kind = "commit" => GroupEnd <= queue[i].first
       /\ \A i \in 1..Len(carry) : carry[i].kind = "commit" => GroupEnd <= carry[i].first
    BY <1>1, <1>2, EndFacts, MarkTypes
<1>11. \A i \in 1..Len(group) : group[i].first \in Nat /\ group[i].count \in Nat \ {0}
    BY <1>1, GroupItems
<1>12. Continuous => Len(wal) <= GroupEnd
    <2>1. \A a, b, c \in Nat : a + b <= c => a <= c
        BY SMT
    <2> QED BY <1>10, <1>11, <2>1 DEF Continuous
<1>13. CASE /\ Continuous
            /\ \E end \in Len(wal)..GroupEnd - 1 : WriteUpTo(end)
            /\ FailGroup("append", "uncertain") /\ UNCHANGED mark
    <2>1. PICK end \in Len(wal)..GroupEnd - 1 : WriteUpTo(end)
        BY <1>13
    <2>2. end \in Len(wal)..GroupEnd /\ end \in Nat /\ Len(wal) <= end /\ end <= GroupEnd
        BY <1>10, SMT
    <2>3. wal' \in Seq(Entry) /\ Len(wal') = end
        BY <1>1, <1>2, <1>13, <2>1, <2>2, WriteFacts
    <2>4. Len(wal') <= nextEntryID /\ Len(wal) <= Len(wal') /\ Len(wal') \in Nat
        BY <1>10, <2>2, <2>3, LeqFacts
    <2>5. WatermarkOrder' /\ replica' <= mark'.local
        BY <1>1, <1>3, <1>5, <1>10, <1>13, <2>4, MarkTypes, LeqFacts DEF WatermarkOrder
    <2> QED BY <1>2, <1>3, <1>4, <1>6, <1>13, <2>3, <2>4, <2>5, FailStep DEF FailGroup
<1>14. CASE /\ Continuous /\ fatal = "none" /\ WriteUpTo(GroupEnd)
            /\ mark' = [mark EXCEPT !.appended = GroupEnd]
            /\ stage' = "sync" /\ UNCHANGED <<fatal, group, completed>>
    <2>1. GroupEnd \in Len(wal)..GroupEnd
        BY <1>10, <1>12, <1>14, SMT
    <2>2. /\ wal' \in Seq(Entry) /\ Len(wal') = GroupEnd
          /\ \A i \in 1..Len(group) : \A k \in 1..group[i].count :
                Len(wal) <= group[i].first /\ group[i].first + k <= GroupEnd =>
                    wal'[group[i].first + k] = Entries(group[i])[k]
        BY <1>1, <1>2, <1>14, <2>1, WriteFacts
    <2>3. /\ CallTyped' /\ EngineTyped' /\ PipelineTyped' /\ RestTyped'
          /\ Locks' /\ Pipeline' /\ Controls' /\ Tickets'
        BY <1>2, <1>3, <1>14, ProcessFrame
    <2>4. /\ mark'.appended = GroupEnd /\ mark'.local = mark.local
          /\ mark'.replicated = mark.replicated /\ mark'.committed = mark.committed
          /\ mark'.applied = mark.applied
          /\ mark' \in [appended : Nat, local : Nat, replicated : Nat,
                        committed : Nat, applied : Nat]
        <3>1. mark' = [appended |-> GroupEnd, local |-> mark.local,
                       replicated |-> mark.replicated, committed |-> mark.committed,
                       applied |-> mark.applied]
            BY <1>4, <1>10, <1>14, MarkUpdates
        <3> QED BY <1>1, <1>10, <3>1, MarkTypes, MarkFields
    <2>5. LogTyped'
        BY <1>1, <1>3, <1>14, <2>2, <2>4 DEF LogTyped, TypeOK
    <2>6. mark.local <= GroupEnd
        BY <1>1, <1>5, <1>10, <1>12, <1>14, MarkTypes, LeqFacts DEF WatermarkOrder
    <2>7. WatermarkOrder' /\ replica' <= mark'.local
        <3>1. GroupEnd <= GroupEnd
            BY <1>10, LeqFacts
        <3>2. /\ mark.applied <= mark.committed /\ mark.committed <= mark.replicated
              /\ mark.replicated <= mark.local /\ mark.replicated <= replica
            BY <1>5 DEF WatermarkOrder
        <3>3. replica' = replica
            BY <1>3
        <3>4. WatermarkOrder'
            BY <2>2, <2>4, <2>6, <3>1, <3>2, <3>3 DEF WatermarkOrder
        <3> QED BY <1>5, <2>4, <3>3, <3>4
    <2>8. GroupWritten'
        <3>1. \A i \in 1..Len(group) - 1 :
                 group[i + 1].first = group[i].first + group[i].count
            BY <1>14 DEF Continuous
        <3>2. GroupEnd' = GroupEnd
            BY <1>14 DEF GroupEnd
        <3>3. ASSUME NEW i \in 1..Len(group), NEW k \in 1..group[i].count
              PROVE  wal'[group[i].first + k] = Entries(group[i])[k]
            <4>1. Len(wal) <= group[i].first
                BY <1>1, <1>14 DEF Marks
            <4>2. \A a, b, c \in Nat : \A n \in 1..b : a + b <= c => a + n <= c
                BY SMT
            <4>3. group[i].first + k <= GroupEnd
                BY <1>10, <1>11, <4>2
            <4> QED BY <2>2, <4>1, <4>3
        <3>4. \A i \in 1..Len(group') : \A k \in 1..group'[i].count :
                  wal'[group'[i].first + k] = Entries(group'[i])[k]
            BY <1>14, <3>3
        <3> QED BY <1>14, <2>2, <3>1, <3>2, <3>4 DEF GroupWritten
    <2>9. mark'.applied = group[1].first
        BY <1>1, <1>2, <1>14, <2>4 DEF Marks, Continuous
    <2>10. /\ stage' \in Processing /\ stage' \notin Processing \ {"sync"}
           /\ stage' \notin {"commit", "apply", "collect"}
        BY <1>14 DEF Processing
    <2>11. Marks'
        BY <1>3, <1>7, <1>10, <1>14, <2>2, <2>4, <2>7, <2>8, <2>9, <2>10 DEF Marks
    <2> QED BY <2>3, <2>5, <2>11, TypeParts DEF OrderInv
<1> QED BY <1>8, <1>9, <1>13, <1>14 DEF AppendGroup, CanProcess

(***************************************************************************)
(* The invariant                                                           *)
(***************************************************************************)
\* OrderInv holds when the store opens.
LEMMA InitOrder == Init => OrderInv
<1> SUFFICES ASSUME Init PROVE OrderInv
    OBVIOUS
<1> USE DEF Init
<1>1. /\ Len(queue) = 0 /\ Len(carry) = 0 /\ Len(group) = 0 /\ Len(wal) = 0
      /\ queue \in Seq(Item) /\ carry \in Seq(Item) /\ group \in Seq(Item)
      /\ wal \in Seq(Entry)
    BY EmptyFacts
<1>2. 1..Len(queue) = {} /\ 1..Len(carry) = {} /\ 1..Len(group) = {}
    BY NoItems
<1>3. /\ mark \in [appended : Nat, local : Nat, replicated : Nat,
                   committed : Nat, applied : Nat]
      /\ mark.appended = 0 /\ mark.local = 0 /\ mark.replicated = 0
      /\ mark.committed = 0 /\ mark.applied = 0
    BY MarkFields, SMT
<1>4. InFlight = {}
    BY <1>2 DEF InFlight
<1>5. TypeOK
    <2>1. CallTyped
        BY SMT DEF CallTyped, Call, Outcome
    <2>2. EngineTyped
        <3>1. gate \in [Stream -> Gate]
            BY SMT DEF Gate
        <3>2. 0 \in Nat
            BY SMT
        <3> QED BY <3>1, <3>2 DEF EngineTyped
    <2>3. PipelineTyped
        BY <1>1, OptionAssumption, SMT DEF PipelineTyped
    <2>4. LogTyped
        BY <1>1, <1>3, SMT DEF LogTyped
    <2>5. RestTyped
        BY DEF RestTyped
    <2> QED BY <2>1, <2>2, <2>3, <2>4, <2>5, TypeParts
<1>6. \A r \in Request : call[r].pc = "idle"
    OBVIOUS
<1>7. \A s \in Stream : gate[s].finish = FALSE
    BY SMT
<1>8. Locks
    <2>1. "idle" \notin Gated /\ "idle" \notin Locked
        BY DEF Gated, Locked
    <2>2. mu \notin Request \cup {"barrier"}
        BY NameAssumption
    <2> QED BY <1>6, <1>7, <2>1, <2>2 DEF Locks
<1>9. Pipeline
    BY <1>2, <1>4 DEF Pipeline
<1>10. Controls
    BY <1>4 DEF Controls
<1>11. Tickets
    <2>1. \A r \in Request : ~Waits(r)
        BY <1>6 DEF Waits
    <2> QED BY <1>4, <1>7, <2>1 DEF Tickets
<1>12. Marks
    <2>1. 0 <= 0
        BY SMT
    <2>2. WatermarkOrder
        BY <1>1, <1>3, <2>1 DEF WatermarkOrder
    <2>3. stage \notin Processing /\ stage \notin {"commit", "apply", "collect"}
        BY DEF Processing
    <2> QED BY <1>1, <1>2, <1>3, <2>1, <2>2, <2>3 DEF Marks
<1> QED BY <1>5, <1>8, <1>9, <1>10, <1>11, <1>12 DEF OrderInv

\* Every step keeps OrderInv.
LEMMA OrderStep ==
    ASSUME OrderInv, Filled, [Next]_vars
    PROVE  OrderInv'
<1>1. CASE UNCHANGED vars
    <2>1. UNCHANGED <<callVars, engineVars, commitVars, completed, barrier, closer>>
        BY <1>1 DEF vars
    <2>2. UNCHANGED <<call, gate, mu, nextEntryID, queue, carry, group, stage>>
        BY <2>1 DEF callVars, engineVars, commitVars
    <2>3. TypeOK /\ Locks /\ Pipeline /\ Controls /\ Tickets /\ Marks
        BY DEF OrderInv
    <2>4. TypeOK'
        BY <2>1, <2>3, TypeFrames, TypeParts
    <2>5. Locks'
        BY <2>1, <2>2, <2>3 DEF Locks
    <2>6. Pipeline' /\ InFlight' = InFlight
        BY <2>2, <2>3, PipelineFrame DEF InFlight
    <2>7. Controls'
        BY <2>1, <2>2, <2>3, ControlsFrame
    <2>8. Tickets'
        BY <2>1, <2>2, <2>3, <2>6, TicketsFrame
    <2>9. Marks'
        BY <2>1, <2>2, <2>3, MarksFrame
    <2> QED BY <2>4, <2>5, <2>6, <2>7, <2>8, <2>9 DEF OrderInv
<1>2. CASE \E r \in Request : CallStep(r) \/ ClientStep(r)
    <2>1. PICK r \in Request : CallStep(r) \/ ClientStep(r)
        BY <1>2
    <2>2. CASE \/ CallAppend(r) \/ AcquireAppendGate(r) \/ CancelAtGate(r)
               \/ LockEngine(r) \/ BeginRegistry(r) \/ ResolveTail(r)
               \/ RegistryCommitted(r) \/ AppendReturns(r)
        BY <2>2, CallerStep
    <2>3. CASE SendPending(r)
        BY <2>3, SendPendingStep
    <2>4. CASE CancelWait(r)
        BY <2>4, CancelWaitStep
    <2> QED BY <2>1, <2>2, <2>3, <2>4 DEF CallStep, ClientStep
<1>3. CASE \E s \in Stream : FinishAppend(s)
    BY <1>3, FinishAppendStep
<1>4. CASE BeginBarrier \/ BarrierReturns \/ CancelBarrier \/ BeginClose \/ CloseReturns
    BY <1>4, ControllerStep
<1>5. CASE SendBarrier \/ SendShutdown
    BY <1>5, SendControlStep
<1>6. CASE CollectNext
    BY <1>6, CollectNextStep
<1>7. CASE RunStep
    BY <1>7, HandleControlStep, StartGroupStep, AppendGroupStep, SyncGroupStep,
       ReplicateGroupStep, CommitGroupStep, ApplyNextStep, CompleteSuccessStep
       DEF RunStep
<1> QED BY <1>1, <1>2, <1>3, <1>4, <1>5, <1>6, <1>7 DEF Next, CloseStep

\* What a step may do to the group: start it, extend it, or end it.
LEMMA GroupChanges ==
    ASSUME OrderInv, [Next]_vars
    PROVE  \/ group' = group
           \/ group' = <<>>
           \/ \E p \in InFlight : p.kind = "commit" /\ group' = <<p>>
           \/ /\ group # <<>>
              /\ \E p \in InFlight : p.kind = "commit" /\ group' = Append(group, p)
<1>1. TypeOK /\ Pipeline
    BY DEF OrderInv
<1>2. CASE UNCHANGED vars
    BY <1>2 DEF vars, commitVars
<1>3. CASE \E r \in Request : CallStep(r) \/ ClientStep(r)
    <2>1. PICK r \in Request : CallStep(r) \/ ClientStep(r)
        BY <1>3
    <2>2. CASE SendPending(r)
        BY <2>2 DEF SendPending
    <2>3. CASE CallStep(r) /\ ~SendPending(r)
        BY <2>3 DEF CallStep, AcquireAppendGate, LockEngine, BeginRegistry,
           ResolveTail, RegistryCommitted, AppendReturns, commitVars
    <2>4. CASE ClientStep(r)
        BY <2>4 DEF ClientStep, CallAppend, CancelAtGate, CancelWait, commitVars
    <2> QED BY <2>1, <2>2, <2>3, <2>4
<1>4. CASE \E s \in Stream : FinishAppend(s)
    BY <1>4 DEF FinishAppend, commitVars
<1>5. CASE BeginBarrier \/ BarrierReturns \/ CancelBarrier \/ BeginClose \/ CloseReturns
    BY <1>5 DEF BeginBarrier, BarrierReturns, CancelBarrier, BeginClose,
       CloseReturns, commitVars
<1>6. CASE SendBarrier \/ SendShutdown \/ HandleControl
    BY <1>6 DEF SendBarrier, SendShutdown, HandleControl
<1>7. CASE StartGroup
    <2>1. HasNext /\ ConsumeNext /\ NextPending.kind = "commit" /\ group' = <<NextPending>>
        BY <1>7 DEF StartGroup
    <2>2. NextPending \in InFlight
        BY <1>1, <2>1, NextFacts DEF InFlight
    <2> QED BY <2>1, <2>2
<1>8. CASE CollectNext
    <2>1. stage = "collect" /\ queue # <<>>
          /\ \/ Joins(Head(queue)) /\ group' = Append(group, Head(queue))
             \/ group' = group
        BY <1>8 DEF CollectNext
    <2>2. group # <<>>
        BY <1>1, <2>1 DEF Pipeline
    <2>3. Head(queue) = queue[1] /\ 1 \in 1..Len(queue)
        BY <1>1, <2>1, TailFacts, SMT DEF TypeOK
    <2>4. Head(queue) \in InFlight
        BY <2>3 DEF InFlight
    <2> QED BY <2>1, <2>2, <2>4 DEF Joins
<1>9. CASE AppendGroup \/ SyncGroup \/ ReplicateGroup \/ CommitGroup \/ ApplyNext
           \/ CompleteSuccess
    BY <1>9 DEF AppendGroup, SyncGroup, ReplicateGroup, CommitGroup, ApplyNext,
       CompleteSuccess, FailGroup, CompleteGroup
<1> QED BY <1>2, <1>3, <1>4, <1>5, <1>6, <1>7, <1>8, <1>9 DEF Next, CloseStep, RunStep

\* Every step keeps Filled: a member that joins without gap brings exactly the
\* entry IDs after the group's end.
LEMMA FilledStep ==
    ASSUME OrderInv, Filled, [Next]_vars
    PROVE  Filled'
<1>1. TypeOK /\ Pipeline /\ Tickets
    BY DEF OrderInv
<1>2. CASE group' = group
    BY <1>2 DEF Filled, GroupEnd, Holds
<1>3. CASE group' = <<>>
    BY <1>3 DEF Filled
<1>4. CASE \E p \in InFlight : p.kind = "commit" /\ group' = <<p>>
    <2>1. PICK p \in InFlight : group' = <<p>>
        BY <1>4
    <2>2. Len(group') = 1 /\ group'[1] = p /\ 1 \in 1..1
        BY <2>1, SMT
    <2>3. p.first \in Nat /\ p.count \in Nat
        BY <1>1, InFlightItems
    <2>4. \A id \in p.first..(p.first + p.count) - 1 :
             p.first <= id /\ id < p.first + p.count
        BY <2>3, SMT
    <2> QED BY <2>2, <2>4 DEF Filled, GroupEnd, Holds
<1>5. CASE /\ group # <<>>
           /\ \E p \in InFlight : p.kind = "commit" /\ group' = Append(group, p)
    <2>1. PICK p \in InFlight : p.kind = "commit" /\ group' = Append(group, p)
        BY <1>5
    <2>2. PICK n : n = Len(group)
        OBVIOUS
    <2>3. n \in Nat \ {0} /\ group \in Seq(Item) /\ p \in Item
        <3>1. n \in Nat \ {0}
            BY <1>1, <1>5, <2>2, EmptyFacts, SMT DEF TypeOK
        <3>2. p \in Item
            BY <1>1, InFlightItems
        <3> QED BY <1>1, <3>1, <3>2 DEF TypeOK
    <2>4. /\ Len(group') = n + 1 /\ group'[n + 1] = p
          /\ \A i \in 1..n : group'[i] = group[i]
        <3>1. /\ Len(Append(group, p)) = Len(group) + 1
              /\ \A i \in 1..Len(group) : Append(group, p)[i] = group[i]
              /\ Append(group, p)[Len(group) + 1] = p
            BY <2>3, AppendFacts, SMT
        <3> QED BY <2>1, <2>2, <3>1
    <2>5. /\ 1 \in 1..n /\ n \in 1..n /\ n + 1 \in 1..n + 1 /\ n \in 1..(n + 1) - 1
          /\ \A i \in 1..n : i \in 1..n + 1
          /\ \A i \in 1..n - 1 : /\ i \in 1..n /\ i + 1 \in 1..n
                                 /\ i \in 1..(n + 1) - 1
        BY <2>3, SMT
    <2> SUFFICES ASSUME \A i \in 1..Len(group') - 1 :
                            group'[i + 1].first = group'[i].first + group'[i].count,
                        NEW id \in group'[1].first..GroupEnd' - 1
                 PROVE  \E i \in 1..Len(group') : Holds(i, id)'
        BY DEF Filled
    <2>a. GroupEnd \in Nat /\ group[1].first \in Nat /\ p.first \in Nat /\ p.count \in Nat
        BY <1>1, <1>5, <2>2, <2>5, EndFacts, GroupItems, InFlightItems
    <2>b. GroupEnd' = p.first + p.count /\ group'[1].first = group[1].first
        BY <2>4, <2>5 DEF GroupEnd
    <2>c. /\ id \in Nat /\ group[1].first <= id /\ id < p.first + p.count
          /\ id < GroupEnd => id \in group[1].first..GroupEnd - 1
        BY <2>a, <2>b, SMT
    <2>6. \A i \in 1..Len(group) - 1 :
             group[i + 1].first = group[i].first + group[i].count
        BY <2>2, <2>4, <2>5
    <2>7. CASE id < GroupEnd
        <3>1. PICK i \in 1..Len(group) : Holds(i, id)
            BY <1>5, <2>6, <2>7, <2>c DEF Filled
        <3>2. Holds(i, id)'
            BY <2>2, <2>4, <3>1 DEF Holds
        <3> QED BY <2>2, <2>4, <2>5, <3>2
    <2>8. CASE ~(id < GroupEnd)
        <3>1. p.first = GroupEnd
            BY <2>2, <2>4, <2>5 DEF GroupEnd
        <3>2. p.first <= id
            BY <2>8, <2>a, <2>c, <3>1, SMT
        <3>3. Holds(n + 1, id)'
            BY <2>4, <2>c, <3>2 DEF Holds
        <3> QED BY <2>4, <2>5, <3>3
    <2> QED BY <2>7, <2>8
<1> QED BY <1>1, <1>2, <1>3, <1>4, <1>5, GroupChanges DEF OrderInv

\* The order of the committer is an invariant for any number of requests and
\* streams and any capacity of queue and group.
THEOREM CommitOrder == Spec => [](OrderInv /\ Filled)
<1>1. Init => OrderInv /\ Filled
    BY InitOrder DEF Init, Filled
<1>2. OrderInv /\ Filled /\ [Next]_vars => OrderInv' /\ Filled'
    BY OrderStep, FilledStep
<1> QED BY <1>1, <1>2, PTL DEF Spec

\* The Strict watermarks stay in order, whatever step of a group fails: applied
\* <= committed <= replicated <= local durable <= appended, and the standby has
\* what is replicated.
THEOREM WatermarksOrdered == Spec => []WatermarkOrder
<1>1. OrderInv => WatermarkOrder
    BY DEF OrderInv, Marks
<1> QED BY <1>1, CommitOrder, PTL

\* When CommitBarrier returns with success, and still holds the mutex, nothing
\* is left in queue, carry or group.
THEOREM BarrierDrainsCommitter == Spec => []BarrierDrains
<1>1. OrderInv => BarrierDrains
    BY DEF OrderInv, Controls, BarrierDrains
<1> QED BY <1>1, CommitOrder, PTL

\* No pending is ever queued behind Close's shutdown, and run returns with
\* nothing left unanswered.
THEOREM ShutdownIsLast == Spec => []NothingAfterShutdown
<1>1. OrderInv => NothingAfterShutdown
    <2> SUFFICES ASSUME OrderInv PROVE NothingAfterShutdown
        OBVIOUS
    <2>1. TypeOK /\ Controls
        BY DEF OrderInv
    <2>2. Len(queue) \in Nat
        <3>1. queue \in Seq(Item)
            BY <2>1 DEF TypeOK
        <3> QED BY <3>1, EmptyFacts
    <2>3. \A i \in 1..Len(queue) - 1 : i \in 1..Len(queue)
        BY <2>2, SMT
    <2>4. stage = "done" => InFlight = {}
        BY <2>1 DEF Controls
    <2>5. ASSUME NEW i \in 1..Len(queue) - 1, queue[i].kind = "shutdown"
          PROVE  FALSE
        <3>1. queue[i] \in InFlight
            BY <2>3 DEF InFlight
        <3>2. closer = "wait" /\ stage # "done"
            BY <2>1, <2>4, <2>5, <3>1 DEF Controls, TypeOK
        <3>3. AtEnd("shutdown")
            BY <2>1, <3>2 DEF Controls
        <3>4. queue # <<>>
            <4>1. 1..0 - 1 = {}
                BY SMT
            <4>2. Len(<<>>) = 0
                BY EmptyFacts
            <4> QED BY <4>1, <4>2
        <3> QED BY <2>5, <3>3, <3>4 DEF AtEnd
    <2> QED BY <2>4, <2>5 DEF NothingAfterShutdown
<1> QED BY <1>1, CommitOrder, PTL

\* A step of a failed committer writes, commits and applies nothing.
LEMMA FailedStep ==
    ASSUME OrderInv, [Next]_vars, fatal # "none"
    PROVE  UNCHANGED <<fatal, wal, mark, replica, tail>>
<1>1. stage \notin Processing
    BY DEF OrderInv, Marks
<1>2. stage \notin {"sync", "replicate", "commit", "apply"}
    BY <1>1 DEF Processing
<1>3. CASE UNCHANGED vars
    BY <1>3 DEF vars, commitVars
<1>4. CASE \E r \in Request : CallStep(r) \/ ClientStep(r)
    <2>1. PICK r \in Request : CallStep(r) \/ ClientStep(r)
        BY <1>4
    <2>2. CASE SendPending(r)
        BY <2>2 DEF SendPending
    <2>3. CASE CallStep(r) /\ ~SendPending(r)
        BY <2>3 DEF CallStep, AcquireAppendGate, LockEngine, BeginRegistry,
           ResolveTail, RegistryCommitted, AppendReturns, commitVars
    <2>4. CASE ClientStep(r)
        BY <2>4 DEF ClientStep, CallAppend, CancelAtGate, CancelWait, commitVars
    <2> QED BY <2>1, <2>2, <2>3, <2>4
<1>5. CASE \E s \in Stream : FinishAppend(s)
    BY <1>5 DEF FinishAppend, commitVars
<1>6. CASE BeginBarrier \/ BarrierReturns \/ CancelBarrier \/ BeginClose \/ CloseReturns
    BY <1>6 DEF BeginBarrier, BarrierReturns, CancelBarrier, BeginClose,
       CloseReturns, commitVars
<1>7. CASE SendBarrier \/ SendShutdown \/ CollectNext
    BY <1>7 DEF SendBarrier, SendShutdown, CollectNext
<1>8. CASE RunStep
    <2>1. CASE HandleControl \/ StartGroup
        BY <2>1 DEF HandleControl, StartGroup
    <2>2. CASE AppendGroup
        BY <2>2 DEF AppendGroup, CanProcess
    <2>3. CASE SyncGroup \/ ReplicateGroup \/ CommitGroup \/ ApplyNext \/ CompleteSuccess
        BY <1>2, <2>3 DEF SyncGroup, ReplicateGroup, CommitGroup, ApplyNext, CompleteSuccess
    <2> QED BY <1>8, <2>1, <2>2, <2>3 DEF RunStep
<1> QED BY <1>3, <1>4, <1>5, <1>6, <1>7, <1>8 DEF Next, CloseStep

\* A failed committer stays failed, and its WAL, watermarks and standby stay as
\* they are.
THEOREM FailureIsFinal == Spec => FailedStaysFailed
<1>1. OrderInv /\ [Next]_vars =>
         [fatal # "none" => UNCHANGED <<fatal, wal, mark, replica, tail>>]_vars
    BY FailedStep
<1> QED BY <1>1, CommitOrder, PTL DEF Spec, FailedStaysFailed
=============================================================================
