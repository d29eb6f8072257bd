--------------------------- MODULE CommitterProofs ---------------------------
(***************************************************************************)
(* What the commit pipeline tells its callers is true of the log: streams  *)
(* stay numbered without gap, validated batches stay valid, a success is   *)
(* durable on both nodes and a rejection left nothing behind.              *)
(*                                                                         *)
(* The gates, and the mutex for the registry stream, leave at most one     *)
(* batch of a stream in flight (StreamAlone), so the tail a batch was      *)
(* validated against is still its stream's tail when the batch is written  *)
(* (WriteSequences) and applied (ApplyNextSequenced). A ticket names one   *)
(* batch and one waiter (TicketItem), so a completion speaks of the        *)
(* caller's own batch (ProcessAnswers).                                    *)
(***************************************************************************)
EXTENDS CommitterOrder


USE Zenon

\* The MemTable's tail of a stream is the sequence after its applied records.
TailsMatch ==
    \A s \in StreamId :
        /\ \A i \in Table(s) : wal[i].seq < tail[s]
        /\ \A k \in 0..tail[s] - 1 : \E i \in Table(s) : wal[i].seq = k

\* Every stream is numbered without gap in the WAL, and what is validated,
\* queued or about to be sent still continues its stream's tail.
Sequenced ==
    /\ SequencesContinuous
    /\ TailsMatch
    /\ ValidatedStaysValid
    /\ fatal = "none" => \A p \in InFlight :
          p.kind = "commit" /\ mark.applied <= p.first => Continues(p)
    /\ \A r \in Request : call[r].pc = "sendAppend" =>
          Expected[r] = NextSequence(StreamOf[r])

\* The whole batch of the request is in both durable logs and applied.
Durable(r) ==
    \A k \in 0..Count[r] - 1 :
        \E i \in 1..Len(wal) :
            /\ wal[i].req = r /\ wal[i].seq = Expected[r] + k
            /\ i <= mark.applied /\ i <= mark.local /\ i <= replica

\* Nothing of the request is written or on its way.
Clean(r) == ~Written(r) /\ \A p \in InFlight : p.req # r

\* What callers are told, or are about to be told, is true of the log: a
\* success is durable; a rejection, unless an earlier call was uncertain, left
\* nothing behind; and a request already written is not queued again.
Answers ==
    /\ \A r \in Request : result[r] = "ok" => Durable(r)
    /\ \A r \in Request : call[r].pc # "idle" => result[r] = "none"
    /\ \A r \in Request, c \in completed :
          call[r].pc = "wait" /\ c.ticket = call[r].ticket =>
             /\ c.outcome = "ok" => Durable(r)
             /\ c.outcome = "rejected" /\ r \notin unsure => Clean(r)
    /\ \A r \in Request \ unsure :
          result[r] # "ok" /\ call[r].pc # "wait" => Clean(r)
    /\ \A r \in Request \ unsure : Written(r) =>
          /\ \A i \in 1..Len(queue) : queue[i].req # r
          /\ \A i \in 1..Len(carry) : carry[i].req # r
          /\ stage = "collect" => \A i \in 1..Len(group) : group[i].req # r
    /\ \A p \in InFlight : p.kind # "commit" => p.req = Free

(***************************************************************************)
(* One batch per stream in flight                                          *)
(***************************************************************************)
\* What is in flight depends on queue, carry and group only.
LEMMA InFlightFrame ==
    ASSUME queue' = queue, carry' = carry, group' = group
    PROVE  InFlight' = InFlight
BY DEF InFlight

\* A batch in flight is a request's, whose call or gate waits for it, or a new
\* stream's name, whose caller waits with the mutex held.
LEMMA OwnerFacts ==
    ASSUME OrderInv, NEW p \in InFlight, p.kind = "commit"
    PROVE  \/ \E r \in Request :
                 /\ p.req = r /\ p.stream = StreamOf[r] /\ p.seq = Expected[r]
                 /\ p.count = Count[r]
                 /\ \/ call[r].pc = "wait" /\ call[r].ticket = p.first
                    \/ /\ gate[StreamOf[r]].finish /\ gate[StreamOf[r]].by = r
                       /\ gate[StreamOf[r]].ticket = p.first
           \/ \E r \in Request :
                 /\ call[r].pc = "registry" /\ call[r].ticket = p.first
                 /\ p.req = StreamOf[r] /\ p.stream = RegistryStream
<1>1. Owned(p)
    BY DEF OrderInv, Tickets
<1>2. \A r, first : /\ AppendItem(r, first).req = r
                    /\ AppendItem(r, first).stream = StreamOf[r]
                    /\ AppendItem(r, first).seq = Expected[r]
                    /\ AppendItem(r, first).count = Count[r]
    BY DEF AppendItem
<1>3. CASE \E r \in Request :
              /\ p = AppendItem(r, p.first)
              /\ \/ call[r].pc = "wait" /\ call[r].ticket = p.first
                 \/ /\ gate[StreamOf[r]].finish /\ gate[StreamOf[r]].by = r
                    /\ gate[StreamOf[r]].ticket = p.first
    <2>1. PICK r \in Request :
              /\ p = AppendItem(r, p.first)
              /\ \/ call[r].pc = "wait" /\ call[r].ticket = p.first
                 \/ /\ gate[StreamOf[r]].finish /\ gate[StreamOf[r]].by = r
                    /\ gate[StreamOf[r]].ticket = p.first
        BY <1>3
    <2>2. PICK f : f = p.first
        OBVIOUS
    <2>3. p = AppendItem(r, f)
        BY <2>1, <2>2
    <2>4. p.req = r /\ p.stream = StreamOf[r] /\ p.seq = Expected[r] /\ p.count = Count[r]
        BY <1>2, <2>3
    <2> QED BY <2>1, <2>4
<1> QED BY <1>1, <1>3 DEF Owned

\* At most one batch per stream is in flight: its gate, or the mutex for the
\* registry stream, admits no other.
LEMMA StreamAlone ==
    ASSUME OrderInv, NEW p \in InFlight, p.kind = "commit",
           NEW q \in InFlight, q.kind = "commit", p.stream = q.stream
    PROVE  p.first = q.first
<1>1. /\ \A r \in Request : call[r].pc = "wait" =>
            gate[StreamOf[r]].by = r /\ ~gate[StreamOf[r]].finish
      /\ \A r \in Request : call[r].pc = "registry" => mu = r
    BY DEF OrderInv, Locks, Gated, Locked
<1>2. \A r \in Request : StreamOf[r] # RegistryStream
    BY NameFacts
<1>3. CASE p.stream = RegistryStream
    <2>1. PICK r \in Request : call[r].pc = "registry" /\ call[r].ticket = p.first
        BY <1>2, <1>3, OwnerFacts
    <2>2. PICK t \in Request : call[t].pc = "registry" /\ call[t].ticket = q.first
        BY <1>2, <1>3, OwnerFacts
    <2> QED BY <1>1, <2>1, <2>2
<1>4. CASE p.stream # RegistryStream
    <2>1. PICK r \in Request :
             /\ p.stream = StreamOf[r]
             /\ \/ call[r].pc = "wait" /\ call[r].ticket = p.first
                \/ /\ gate[StreamOf[r]].finish /\ gate[StreamOf[r]].by = r
                   /\ gate[StreamOf[r]].ticket = p.first
        BY <1>4, OwnerFacts
    <2>2. PICK t \in Request :
             /\ q.stream = StreamOf[t]
             /\ \/ call[t].pc = "wait" /\ call[t].ticket = q.first
                \/ /\ gate[StreamOf[t]].finish /\ gate[StreamOf[t]].by = t
                   /\ gate[StreamOf[t]].ticket = q.first
        BY <1>4, OwnerFacts
    <2>3. StreamOf[r] = StreamOf[t]
        BY <2>1, <2>2
    <2>4. r = t /\ (call[r].pc = "wait" => ~gate[StreamOf[r]].finish)
        BY <1>1, <2>1, <2>2, <2>3
    <2> QED BY <2>1, <2>2, <2>4
<1> QED BY <1>3, <1>4

\* While a caller is about to send its batch no batch of its stream is in
\* flight.
LEMMA GateAlone ==
    ASSUME OrderInv, NEW p \in InFlight, p.kind = "commit",
           NEW r \in Request, call[r].pc = "sendAppend"
    PROVE  p.stream # StreamOf[r]
<1>1. /\ \A t \in Request : call[t].pc = "wait" => gate[StreamOf[t]].by = t
      /\ gate[StreamOf[r]].by = r /\ ~gate[StreamOf[r]].finish
    BY DEF OrderInv, Locks, Gated
<1>2. StreamOf[r] # RegistryStream
    BY NameFacts
<1>3. ASSUME p.stream = StreamOf[r] PROVE FALSE
    <2>1. PICK q \in Request :
             /\ p.stream = StreamOf[q]
             /\ call[q].pc = "wait" \/ gate[StreamOf[q]].finish
        BY <1>2, <1>3, OwnerFacts
    <2>2. StreamOf[q] = StreamOf[r]
        BY <1>3, <2>1
    <2> QED BY <1>1, <2>1, <2>2
<1> QED BY <1>3

(***************************************************************************)
(* The MemTable                                                            *)
(***************************************************************************)
\* The MemTable depends only on the WAL up to the applied watermark.
LEMMA TailsFrame ==
    ASSUME TailsMatch, mark'.applied = mark.applied, tail' = tail,
           \A i \in 1..mark.applied : wal'[i] = wal[i]
    PROVE  TailsMatch'
<1> SUFFICES ASSUME NEW s \in StreamId
             PROVE  /\ \A i \in Table(s)' : wal'[i].seq < tail'[s]
                    /\ \A k \in 0..tail'[s] - 1 : \E i \in Table(s)' : wal'[i].seq = k
    BY DEF TailsMatch
<1>1. Table(s)' = Table(s)
    BY DEF Table
<1>2. \A i \in Table(s) : wal'[i] = wal[i]
    BY DEF Table
<1>3. /\ \A i \in Table(s) : wal[i].seq < tail[s]
      /\ \A k \in 0..tail[s] - 1 : \E i \in Table(s) : wal[i].seq = k
    BY DEF TailsMatch
<1> QED BY <1>1, <1>2, <1>3

\* The sequence of an entry is a natural number.
LEMMA WalEntries ==
    ASSUME TypeOK, NEW i \in 1..Len(wal)
    PROVE  wal[i] \in Entry /\ wal[i].seq \in Nat
<1>1. wal[i] \in Entry
    BY EmptyFacts DEF TypeOK
<1> QED BY <1>1, SMT DEF Entry

(***************************************************************************)
(* The sequences are continuous                                            *)
(***************************************************************************)
\* A step that extends the WAL beyond what is applied keeps Sequenced if the
\* WAL stays numbered and new pendings continue their streams.
LEMMA SequencedKeeps ==
    ASSUME Sequenced, SequencesContinuous', mark'.applied = mark.applied, tail' = tail,
           \A i \in 1..mark.applied : wal'[i] = wal[i],
           fatal' = fatal \/ fatal' \notin {"none", "invalid", "apply"},
           \A p \in InFlight' : p.kind = "commit" => p \in InFlight \/ Continues(p),
           \A r \in Request : call'[r].pc = "sendAppend" =>
              call[r].pc = "sendAppend" \/ Expected[r] = NextSequence(StreamOf[r])
    PROVE  Sequenced'
<1>1. \A s : NextSequence(s)' = NextSequence(s)
    BY DEF NextSequence
<1>2. ValidatedStaysValid' /\ TailsMatch'
    BY TailsFrame DEF Sequenced, ValidatedStaysValid
<1>3. fatal' = "none" => \A p \in InFlight' :
          p.kind = "commit" /\ mark'.applied <= p.first => Continues(p)'
    BY <1>1 DEF Sequenced, Continues
<1>4. \A r \in Request : call'[r].pc = "sendAppend" =>
          Expected[r] = NextSequence(StreamOf[r])'
    BY <1>1 DEF Sequenced
<1> QED BY <1>2, <1>3, <1>4 DEF Sequenced

\* The numbering of the WAL depends only on the WAL.
LEMMA SequencesFrame ==
    ASSUME SequencesContinuous, wal' = wal
    PROVE  SequencesContinuous'
BY SMT DEF SequencesContinuous

\* A step that leaves WAL and applied watermark alone keeps Sequenced if new
\* pendings continue their streams.
LEMMA SequencedFrame ==
    ASSUME Sequenced, wal' = wal, mark'.applied = mark.applied, tail' = tail,
           fatal' = fatal \/ fatal' \notin {"none", "invalid", "apply"},
           \A p \in InFlight' : p.kind = "commit" => p \in InFlight \/ Continues(p),
           \A r \in Request : call'[r].pc = "sendAppend" =>
              call[r].pc = "sendAppend" \/ Expected[r] = NextSequence(StreamOf[r])
    PROVE  Sequenced'
<1>1. SequencesContinuous
    BY DEF Sequenced
<1>2. SequencesContinuous'
    BY <1>1, SequencesFrame
<1> QED BY <1>2, SequencedKeeps

\* The stream, request and sequence of a batch's k-th entry.
LEMMA EntryFields ==
    ASSUME NEW p, NEW k \in 1..p.count
    PROVE  /\ Entries(p)[k].stream = p.stream
           /\ Entries(p)[k].req = p.req
           /\ Entries(p)[k].seq = p.seq + k - 1
BY DEF Entries

\* While a group is collected and nothing has failed, all of the WAL is
\* applied, and every member of the group continues its stream's tail.
LEMMA GroupContinues ==
    ASSUME OrderInv, Sequenced, stage = "collect", fatal = "none"
    PROVE  /\ mark.applied = Len(wal)
           /\ \A i \in 1..Len(group) : /\ Len(wal) <= group[i].first
                                       /\ Continues(group[i])
<1>1. TypeOK /\ Pipeline /\ Tickets /\ Marks
    BY DEF OrderInv
<1>2. mark.applied = Len(wal)
    BY <1>1 DEF Marks, Processing
<1>3. \A i \in 1..Len(group) : Len(wal) <= group[i].first
    BY <1>1 DEF Marks
<1>4. \A i \in 1..Len(group) : group[i] \in InFlight /\ group[i].kind = "commit"
    BY <1>1, GroupItems
<1> QED BY <1>2, <1>3, <1>4 DEF Sequenced

\* Writing any prefix of a group keeps every stream numbered: a member's
\* entries follow its stream's records, and no other member is of its stream.
LEMMA WriteSequences ==
    ASSUME OrderInv, Filled, Sequenced, stage = "collect", fatal = "none", Continuous,
           NEW end \in Len(wal)..GroupEnd, WriteUpTo(end)
    PROVE  SequencesContinuous' /\ \A j \in 1..Len(wal) : wal'[j] = wal[j]
<1>1. TypeOK /\ Pipeline /\ Tickets
    BY DEF OrderInv
<1>2. group # <<>>
    BY <1>1 DEF Pipeline
<1>3. /\ Len(wal') = end
      /\ \A j \in 1..Len(wal) : wal'[j] = wal[j]
      /\ \A j \in Len(wal) + 1..end : \E i \in 1..Len(group) :
            /\ j - group[i].first \in 1..group[i].count
            /\ wal'[j] = Entries(group[i])[j - group[i].first]
      /\ \A i \in 1..Len(group) : \A k \in 1..group[i].count :
            Len(wal) <= group[i].first /\ group[i].first + k <= end =>
                wal'[group[i].first + k] = Entries(group[i])[k]
    BY <1>1, <1>2, WriteFacts
<1>4. Len(wal) \in Nat /\ end \in Nat /\ GroupEnd \in Nat
    <2>1. Len(wal) \in Nat /\ GroupEnd \in Nat
        BY <1>1, <1>2, MarkTypes, EndFacts
    <2> QED BY <2>1, SMT
<1>5. /\ mark.applied = Len(wal)
      /\ \A i \in 1..Len(group) : Len(wal) <= group[i].first /\ Continues(group[i])
    BY GroupContinues
<1>6. ASSUME NEW j \in 1..end
      PROVE  /\ \A m \in 1..j - 1 : wal'[m].stream = wal'[j].stream =>
                    wal'[m].seq < wal'[j].seq
             /\ \A k \in 0..wal'[j].seq - 1 : \E m \in 1..j - 1 :
                    wal'[m].stream = wal'[j].stream /\ wal'[m].seq = k
    <2>1. j \in 1..Len(wal) \/ j \in Len(wal) + 1..end
        BY <1>4, SMT
    <2>2. CASE j \in 1..Len(wal)
        <3>1. \A m \in 1..j - 1 : m \in 1..Len(wal)
            BY <1>4, <2>2, SMT
        <3>2. /\ \A m \in 1..j - 1 : wal[m].stream = wal[j].stream =>
                    wal[m].seq < wal[j].seq
              /\ \A k \in 0..wal[j].seq - 1 : \E m \in 1..j - 1 :
                    wal[m].stream = wal[j].stream /\ wal[m].seq = k
            BY <2>2 DEF Sequenced, SequencesContinuous
        <3>3. wal'[j] = wal[j] /\ \A m \in 1..j - 1 : wal'[m] = wal[m]
            BY <1>3, <2>2, <3>1
        <3> QED BY <3>2, <3>3
    <2>3. CASE j \in Len(wal) + 1..end
        <3>1. PICK i \in 1..Len(group) :
                 /\ j - group[i].first \in 1..group[i].count
                 /\ wal'[j] = Entries(group[i])[j - group[i].first]
            BY <1>3, <2>3
        <3>2. PICK f : f = group[i].first
            OBVIOUS
        <3>3. PICK s : s = group[i].stream
            OBVIOUS
        <3>4. PICK c : c = group[i].count
            OBVIOUS
        <3>5. PICK t : t = group[i].seq
            OBVIOUS
        <3>6. PICK w : w = Len(wal)
            OBVIOUS
        <3>7. f \in Nat /\ c \in Nat /\ t \in Nat /\ w \in Nat /\ s \in StreamId
            <4>1. group[i] \in Item
                BY <1>1, GroupItems
            <4> QED BY <1>4, <3>2, <3>3, <3>4, <3>5, <3>6, <4>1, SMT DEF Item
        <3>8. w <= f /\ j - f \in 1..c /\ j \in w + 1..end /\ t = tail[s]
            BY <1>5, <2>3, <3>1, <3>2, <3>3, <3>4, <3>5, <3>6 DEF Continues, NextSequence
        <3>9. /\ \A m \in Table(s) : m \in 1..w /\ wal[m].stream = s /\ wal[m].seq < t
              /\ \A k \in 0..t - 1 : \E m \in Table(s) : wal[m].seq = k
            BY <1>5, <3>6, <3>7, <3>8 DEF Sequenced, TailsMatch, Table
        <3>10. ASSUME NEW m \in 1..c, f + m <= end
               PROVE  wal'[f + m].stream = s /\ wal'[f + m].seq = t + m - 1
            <4>1. wal'[f + m] = Entries(group[i])[m]
                BY <1>3, <3>2, <3>4, <3>6, <3>8, <3>10
            <4> QED BY <3>3, <3>4, <3>5, <4>1, EntryFields
        <3>11. PICK d \in 1..c : d = j - f
            BY <3>8
        <3>12. d \in Nat /\ f + d = j /\ j <= end /\ end \in Nat
            BY <1>4, <3>7, <3>8, <3>11, SMT
        <3>13. wal'[j].stream = s /\ wal'[j].seq = t + d - 1
            <4>1. wal'[f + d].stream = s /\ wal'[f + d].seq = t + d - 1
                BY <3>10, <3>12
            <4> QED BY <3>12, <4>1
        <3>14. ASSUME NEW m \in 1..j - 1, wal'[m].stream = s
               PROVE  wal'[m].seq < t + d - 1
            <4>1. m \in 1..w \/ m \in w + 1..end
                BY <3>7, <3>12, SMT
            <4>2. CASE m \in 1..w
                <5>1. m \in Table(s) /\ wal'[m] = wal[m]
                    BY <1>3, <1>5, <3>6, <3>14, <4>2 DEF Table
                <5>2. wal[m].seq < t
                    BY <3>9, <5>1
                <5>3. wal[m].seq \in Nat
                    BY <1>1, <3>6, <4>2, WalEntries
                <5>4. wal[m].seq < t + d - 1
                    BY <3>7, <3>11, <5>2, <5>3, SMT
                <5> QED BY <5>1, <5>4
            <4>3. CASE m \in w + 1..end
                <5>1. PICK h \in 1..Len(group) :
                         /\ m - group[h].first \in 1..group[h].count
                         /\ wal'[m] = Entries(group[h])[m - group[h].first]
                    BY <1>3, <3>6, <4>3
                <5>2. group[h].stream = s
                    BY <3>14, <5>1, EntryFields
                <5>3. h = i
                    <6>1. h < i \/ i < h \/ h = i
                        <7>1. Len(group) \in Nat
                            BY <1>1, <1>2, EndFacts
                        <7> QED BY <7>1, SMT
                    <6>2. \A a, b \in 1..Len(group) : a < b => group[a].stream # group[b].stream
                        BY <1>1 DEF Pipeline
                    <6> QED BY <3>3, <5>2, <6>1, <6>2
                <5>4. PICK n \in 1..c : n = m - f
                    BY <3>2, <3>4, <5>1, <5>3
                <5>5. f + n = m /\ f + n <= end /\ n < d /\ n \in Nat
                    BY <1>4, <3>7, <3>11, <3>12, <4>3, <5>4, SMT
                <5>6. wal'[m].seq = t + n - 1
                    <6>1. wal'[f + n].seq = t + n - 1
                        BY <3>10, <5>5
                    <6> QED BY <5>5, <6>1
                <5>7. t + n - 1 < t + d - 1
                    BY <3>7, <3>12, <5>5, SMT
                <5> QED BY <5>6, <5>7
            <4> QED BY <4>1, <4>2, <4>3
        <3>15. ASSUME NEW k \in 0..(t + d - 1) - 1
               PROVE  \E m \in 1..j - 1 : wal'[m].stream = s /\ wal'[m].seq = k
            <4>1. CASE k \in 0..t - 1
                <5>1. PICK m \in Table(s) : wal[m].seq = k
                    BY <3>9, <4>1
                <5>2. m \in 1..w /\ wal[m].stream = s
                    BY <3>9
                <5>3. m \in 1..j - 1
                    BY <3>7, <3>8, <5>2, SMT
                <5> QED BY <1>3, <3>6, <5>1, <5>2, <5>3
            <4>2. CASE k \notin 0..t - 1
                <5>1. PICK n \in Nat : n = (k - t) + 1
                    BY <3>7, <3>12, <4>2, SMT
                <5>2. n \in 1..c /\ f + n <= end /\ f + n \in 1..j - 1 /\ t + n - 1 = k
                    BY <3>7, <3>11, <3>12, <4>2, <5>1, SMT
                <5>3. wal'[f + n].stream = s /\ wal'[f + n].seq = k
                    BY <3>10, <5>2
                <5> QED BY <5>2, <5>3
            <4> QED BY <4>1, <4>2
        <3> QED BY <3>13, <3>14, <3>15
    <2> QED BY <2>1, <2>2, <2>3
<1>7. SequencesContinuous'
    BY <1>3, <1>6 DEF SequencesContinuous
<1> QED BY <1>3, <1>7

\* The start of process keeps Sequenced, and never finds a member that does not
\* continue its stream.
LEMMA AppendGroupSequenced ==
    ASSUME OrderInv, Filled, Sequenced, AppendGroup
    PROVE  /\ Sequenced'
           /\ ~(fatal = "none" /\ \E i \in 1..Len(group) : ~Continues(group[i]))
<1>1. TypeOK /\ Pipeline /\ Tickets /\ Marks /\ stage = "collect"
    BY DEF OrderInv, AppendGroup
<1>2. group # <<>>
    BY <1>1 DEF Pipeline
<1>3. UNCHANGED <<callVars, queue, carry, tail>> /\ UNCHANGED call
    BY DEF AppendGroup, callVars
<1>4. ~(fatal = "none" /\ \E i \in 1..Len(group) : ~Continues(group[i]))
    BY <1>1, GroupContinues
<1>5. group' = <<>> => InFlight' \subseteq InFlight
    <2> SUFFICES ASSUME group' = <<>> PROVE InFlight' \subseteq InFlight
        OBVIOUS
    <2>1. 1..Len(group') = {}
        BY NoItems
    <2> QED BY <1>3, <2>1 DEF InFlight
<1>6. group' = group => InFlight' = InFlight
    BY <1>3 DEF InFlight
<1>7. CASE /\ UNCHANGED <<wal, mark>> /\ group' = <<>>
           /\ fatal' = fatal \/ fatal' = "gap"
    BY <1>3, <1>4, <1>5, <1>7, SequencedFrame
<1>8. CASE /\ fatal = "none" /\ Continuous /\ mark'.applied = mark.applied
           /\ \E end \in Len(wal)..GroupEnd : WriteUpTo(end)
           /\ \/ fatal' = "append" /\ group' = <<>>
              \/ fatal' = fatal /\ group' = group
    <2>1. SequencesContinuous' /\ \A j \in 1..Len(wal) : wal'[j] = wal[j]
        BY <1>1, <1>8, WriteSequences
    <2>2. mark.applied = Len(wal)
        BY <1>1, <1>8, GroupContinues
    <2>3. InFlight' \subseteq InFlight
        BY <1>5, <1>6, <1>8
    <2> QED BY <1>3, <1>4, <1>8, <2>1, <2>2, <2>3, SequencedKeeps
<1>9. Sequenced'
    <2>1. /\ GroupEnd \in Nat /\ Len(wal) \in Nat
          /\ \A i \in 1..Len(group) : group[i].first + group[i].count <= GroupEnd
          /\ 1 \in 1..Len(group) /\ nextEntryID \in Nat
        BY <1>1, <1>2, EndFacts, MarkTypes
    <2>2. group[1].first \in Nat /\ group[1].count \in Nat
        BY <1>1, <2>1, GroupItems
    <2>3. Len(wal)..GroupEnd - 1 \subseteq Len(wal)..GroupEnd
        BY <2>1, SMT
    <2>4. Continuous => GroupEnd \in Len(wal)..GroupEnd
        <3>1. \A a, b, c \in Nat : a + b <= c => c \in a..c
            BY SMT
        <3> QED BY <2>1, <2>2, <3>1 DEF Continuous
    <2>5. CASE CompleteGroup("rejected") /\ UNCHANGED <<fatal, wal, mark>>
        BY <1>7, <2>5 DEF CompleteGroup
    <2>6. CASE FailGroup("gap", "uncertain") /\ UNCHANGED <<wal, mark>>
        BY <1>7, <2>6 DEF CompleteGroup, FailGroup
    <2>7. CASE /\ fatal = "none" /\ Continuous
               /\ \E end \in Len(wal)..GroupEnd - 1 : WriteUpTo(end)
               /\ FailGroup("append", "uncertain") /\ UNCHANGED mark
        BY <1>8, <2>3, <2>7 DEF CompleteGroup, FailGroup
    <2>8. CASE /\ fatal = "none" /\ Continuous /\ WriteUpTo(GroupEnd)
               /\ mark' = [mark EXCEPT !.appended = GroupEnd]
               /\ UNCHANGED <<fatal, group, completed>>
        <3>1. mark'.applied = mark.applied
            <4>1. /\ mark \in [appended : Nat, local : Nat, replicated : Nat,
                               committed : Nat, applied : Nat]
                BY <1>1 DEF TypeOK
            <4> QED BY <2>8, <4>1, SMT
        <3> QED BY <1>8, <2>4, <2>8, <3>1
    <2> QED BY <1>4, <2>5, <2>6, <2>7, <2>8 DEF AppendGroup, CanProcess
<1> QED BY <1>4, <1>9

(***************************************************************************)
(* What a call returns is true                                             *)
(***************************************************************************)
\* A pending of a request carries the request's own stream, sequence and count.
LEMMA RequestItems ==
    ASSUME OrderInv, Answers, NEW r \in Request, NEW p \in InFlight, p.req = r
    PROVE  /\ p.kind = "commit" /\ p.stream = StreamOf[r]
           /\ p.seq = Expected[r] /\ p.count = Count[r]
<1>1. r # Free /\ r \notin Stream
    BY NameFacts
<1>2. p.kind = "commit"
    BY <1>1 DEF Answers
<1>3. \A t \in Request : StreamOf[t] \in Stream
    BY NameFacts
<1> QED BY <1>1, <1>2, <1>3, OwnerFacts

\* A request has at most one batch in flight, its retries included.
LEMMA RequestAlone ==
    ASSUME OrderInv, Answers, NEW r \in Request,
           NEW p \in InFlight, p.req = r, NEW q \in InFlight, q.req = r
    PROVE  p.first = q.first
<1>1. p.kind = "commit" /\ p.stream = StreamOf[r]
    BY RequestItems
<1>2. q.kind = "commit" /\ q.stream = StreamOf[r]
    BY RequestItems
<1> QED BY <1>1, <1>2, StreamAlone

\* The batch with the ticket that a call waits for is the call's own.
LEMMA TicketItem ==
    ASSUME OrderInv, NEW p \in InFlight, p.kind = "commit",
           NEW r \in Request, call[r].pc = "wait", call[r].ticket = p.first
    PROVE  p.req = r /\ p.seq = Expected[r] /\ p.count = Count[r]
<1>1. /\ \A t, q \in Request : Waits(t) /\ Waits(q) /\ t # q =>
            call[t].ticket # call[q].ticket
      /\ \A t \in Request, s \in Stream : Waits(t) /\ gate[s].finish =>
            call[t].ticket # gate[s].ticket
    BY DEF OrderInv, Tickets
<1>2. \A t \in Request : call[t].pc \in {"wait", "registry"} => Waits(t)
    BY DEF Waits
<1>3. \A t \in Request : StreamOf[t] \in Stream
    BY NameFacts
<1>4. \A t \in Request : ~(call[t].pc = "registry" /\ call[t].ticket = p.first)
    BY <1>1, <1>2
<1>5. \A t \in Request : call[t].pc = "wait" /\ call[t].ticket = p.first => t = r
    BY <1>1, <1>2
<1>6. \A t \in Request : ~(gate[StreamOf[t]].finish /\ gate[StreamOf[t]].ticket = p.first)
    BY <1>1, <1>2, <1>3
<1> QED BY <1>4, <1>5, <1>6, OwnerFacts

\* A batch of the group is not also in queue or carry.
LEMMA GroupLeads ==
    ASSUME OrderInv, NEW i \in 1..Len(group), NEW p, p.kind = "commit",
           \/ \E j \in 1..Len(queue) : p = queue[j]
           \/ \E j \in 1..Len(carry) : p = carry[j]
    PROVE  p.first # group[i].first
<1>1. TypeOK /\ Pipeline /\ Tickets
    BY DEF OrderInv
<1>2. /\ group[i].first \in Nat /\ group[i].count \in Nat \ {0} /\ group[i].kind = "commit"
    BY <1>1, GroupItems
<1>3. p \in InFlight
    BY DEF InFlight
<1>4. p.first \in Nat
    BY <1>1, <1>3, InFlightItems
<1>5. Before(group[i], p)
    BY <1>1 DEF Pipeline
<1>6. group[i].first + group[i].count <= p.first
    BY <1>2, <1>5 DEF Before
<1>7. \A a \in Nat, b \in Nat \ {0}, c \in Nat : a + b <= c => c # a
    BY SMT
<1> QED BY <1>2, <1>4, <1>6, <1>7

\* A durable batch stays durable while the WAL and the watermarks only grow.
LEMMA DurableKeeps ==
    ASSUME NEW r, Durable(r), Len(wal) \in Nat, Len(wal') \in Nat, Len(wal) <= Len(wal'),
           \A i \in 1..Len(wal) : wal'[i] = wal[i],
           mark.applied \in Nat, mark'.applied \in Nat, mark.applied <= mark'.applied,
           mark.local \in Nat, mark'.local \in Nat, mark.local <= mark'.local,
           replica \in Nat, replica' \in Nat, replica <= replica'
    PROVE  Durable(r)'
<1> SUFFICES ASSUME NEW k \in 0..Count[r] - 1
             PROVE  \E i \in 1..Len(wal') :
                       /\ wal'[i].req = r /\ wal'[i].seq = Expected[r] + k
                       /\ i <= mark'.applied /\ i <= mark'.local /\ i <= replica'
    BY DEF Durable
<1>1. PICK i \in 1..Len(wal) :
         /\ wal[i].req = r /\ wal[i].seq = Expected[r] + k
         /\ i <= mark.applied /\ i <= mark.local /\ i <= replica
    BY DEF Durable
<1>2. i \in Nat /\ i \in 1..Len(wal')
    BY SMT
<1>3. i <= mark'.applied
    BY <1>1, <1>2, SMT
<1>4. i <= mark'.local
    BY <1>1, <1>2, SMT
<1>5. i <= replica'
    BY <1>1, <1>2, SMT
<1> QED BY <1>1, <1>2, <1>3, <1>4, <1>5

\* A request of which nothing is written stays so while nothing of it is sent
\* or written.
LEMMA CleanFrame ==
    ASSUME NEW r, Clean(r), wal' = wal,
           \A p \in InFlight' : p \in InFlight \/ p.req # r
    PROVE  Clean(r)'
BY DEF Clean, Written

\* A step of a call that ends in a truth about the log: the call goes on with
\* nothing written, or returns what Durable and Clean justify.
Settles(r) ==
    /\ UNCHANGED commitVars /\ completed' \subseteq completed
    /\ \A q \in Request : q # r => call'[q] = call[q] /\ result'[q] = result[q]
    /\ unsure \subseteq unsure'
    /\ call'[r].pc # "wait"
    /\ call'[r].pc = "sendAppend" => Expected[r] = NextSequence(StreamOf[r])
    /\ call'[r].pc # "idle" => result'[r] = "none"
    /\ result'[r] = "ok" => Durable(r)
    /\ r \notin unsure' /\ result'[r] # "ok" => Clean(r)

\* A step that settles its call keeps Sequenced and Answers.
LEMMA SettledStep ==
    ASSUME Sequenced, Answers, NEW r \in Request, Settles(r)
    PROVE  Sequenced' /\ Answers'
<1>1. /\ UNCHANGED <<queue, carry, group, stage, fatal, wal, mark, replica, tail>>
      /\ completed' \subseteq completed
      /\ \A q \in Request : q # r => call'[q] = call[q] /\ result'[q] = result[q]
      /\ unsure \subseteq unsure'
    BY DEF Settles, commitVars
<1>2. InFlight' = InFlight
    BY <1>1 DEF InFlight
<1>3. \A q \in Request : (Durable(q)' <=> Durable(q)) /\ (Clean(q)' <=> Clean(q))
                         /\ (Written(q)' <=> Written(q))
    BY <1>1, <1>2 DEF Durable, Clean, Written
<1>4. Sequenced'
    <2>1. \A q \in Request : call'[q].pc = "sendAppend" =>
             call[q].pc = "sendAppend" \/ Expected[q] = NextSequence(StreamOf[q])
        BY <1>1 DEF Settles
    <2> QED BY <1>1, <1>2, <2>1, SequencedFrame
<1>5. \A q \in Request : result'[q] = "ok" => Durable(q)'
    BY <1>1, <1>3 DEF Settles, Answers
<1>6. \A q \in Request : call'[q].pc # "idle" => result'[q] = "none"
    BY <1>1 DEF Settles, Answers
<1>7. \A q \in Request, c \in completed' :
          call'[q].pc = "wait" /\ c.ticket = call'[q].ticket =>
             /\ c.outcome = "ok" => Durable(q)'
             /\ c.outcome = "rejected" /\ q \notin unsure' => Clean(q)'
    <2> SUFFICES ASSUME NEW q \in Request, NEW c \in completed',
                        call'[q].pc = "wait", c.ticket = call'[q].ticket
                 PROVE  /\ c.outcome = "ok" => Durable(q)'
                        /\ c.outcome = "rejected" /\ q \notin unsure' => Clean(q)'
        OBVIOUS
    <2>1. q # r
        BY DEF Settles
    <2>2. call'[q] = call[q] /\ c \in completed
        BY <1>1, <2>1
    <2>3. /\ c.outcome = "ok" => Durable(q)
          /\ c.outcome = "rejected" /\ q \notin unsure => Clean(q)
        BY <2>2 DEF Answers
    <2> QED BY <1>1, <1>3, <2>3
<1>8. \A q \in Request \ unsure' :
          result'[q] # "ok" /\ call'[q].pc # "wait" => Clean(q)'
    BY <1>1, <1>3 DEF Settles, Answers
<1>9. \A q \in Request \ unsure' : Written(q)' =>
          /\ \A i \in 1..Len(queue') : queue'[i].req # q
          /\ \A i \in 1..Len(carry') : carry'[i].req # q
          /\ stage' = "collect" => \A i \in 1..Len(group') : group'[i].req # q
    BY <1>1, <1>3 DEF Answers
<1>10. \A p \in InFlight' : p.kind # "commit" => p.req = Free
    BY <1>2 DEF Answers
<1> QED BY <1>4, <1>5, <1>6, <1>7, <1>8, <1>9, <1>10 DEF Answers

\* A return settles its call if its outcome is true of the log.
LEMMA ReturnSettles ==
    ASSUME OrderInv, Answers, NEW r \in Request, NEW outcome \in Outcome,
           ReturnWith(r, outcome), UNCHANGED commitVars, completed' \subseteq completed,
           outcome = "ok" => Durable(r),
           outcome = "rejected" /\ r \notin unsure => Clean(r)
    PROVE  Settles(r)
<1>1. TypeOK
    BY DEF OrderInv
<1>2. call'[r].pc = "idle" /\ \A q \in Request : q # r => call'[q] = call[q]
    BY <1>1, ReturnMoves
<1>3. /\ result' = [result EXCEPT ![r] = outcome]
      /\ unsure' = IF outcome = "uncertain" THEN unsure \cup {r} ELSE unsure
    BY DEF ReturnWith
<1>4. result'[r] = outcome /\ \A q \in Request : q # r => result'[q] = result[q]
    <2>1. result \in [Request -> Outcome \cup {"none"}]
        BY <1>1 DEF TypeOK
    <2> QED BY <1>3, <2>1
<1>5. /\ unsure \subseteq unsure'
      /\ r \notin unsure' => r \notin unsure /\ outcome # "uncertain"
    BY <1>3
<1> QED BY <1>2, <1>4, <1>5 DEF Settles, Outcome

\* A rejection before the batch is sent settles its call: nothing was sent.
LEMMA RejectSettles ==
    ASSUME OrderInv, Answers, NEW r \in Request, call[r].pc \notin {"idle", "wait"},
           ReturnWith(r, "rejected"), UNCHANGED commitVars, completed' \subseteq completed
    PROVE  Settles(r)
<1>1. r \notin unsure => Clean(r)
    BY DEF Answers
<1>2. "rejected" \in Outcome
    BY DEF Outcome
<1> QED BY <1>1, <1>2, ReturnSettles

\* Going on before the batch is sent settles the call, if the batch about to be
\* sent continues its stream.
LEMMA GotoSettles ==
    ASSUME OrderInv, Answers, NEW r \in Request, call[r].pc \notin {"idle", "wait"},
           NEW pc, pc \notin {"idle", "wait"}, Goto(r, pc, 0),
           UNCHANGED <<result, unsure>>, UNCHANGED commitVars, completed' \subseteq completed,
           pc = "sendAppend" => Expected[r] = NextSequence(StreamOf[r])
    PROVE  Settles(r)
<1>1. call'[r].pc = pc /\ \A q \in Request : q # r => call'[q] = call[q]
    BY GotoMoves DEF OrderInv
<1>2. result[r] = "none"
    BY DEF Answers
<1>3. r \notin unsure => Clean(r)
    BY <1>2 DEF Answers
<1> QED BY <1>1, <1>2, <1>3 DEF Settles

\* Committer.Enqueue's checks settle the call, passed or not.
LEMMA EnqueueSettles ==
    ASSUME OrderInv, Answers, NEW r \in Request, call[r].pc \notin {"idle", "wait"},
           NEW pc \in {"sendRegistry", "sendAppend"}, EnqueueChecks(r, pc),
           UNCHANGED commitVars, completed' \subseteq completed,
           pc = "sendAppend" => Expected[r] = NextSequence(StreamOf[r])
    PROVE  Settles(r)
<1>1. CASE Goto(r, pc, 0) /\ UNCHANGED <<result, unsure>>
    BY <1>1, GotoSettles
<1>2. CASE ReturnWith(r, "rejected")
    BY <1>2, RejectSettles
<1> QED BY <1>1, <1>2 DEF EnqueueChecks

\* What is applied is in the WAL, durable here and on the standby.
LEMMA AppliedDurable ==
    ASSUME OrderInv
    PROVE  \A i \in 1..mark.applied :
              i \in 1..Len(wal) /\ i <= mark.applied /\ i <= mark.local /\ i <= replica
<1>1. TypeOK /\ WatermarkOrder
    BY DEF OrderInv, Marks
<1>2. /\ mark.applied \in Nat /\ mark.committed \in Nat /\ mark.replicated \in Nat
      /\ mark.local \in Nat /\ mark.appended \in Nat /\ replica \in Nat /\ Len(wal) \in Nat
    BY <1>1, MarkTypes
<1>3. mark.applied <= mark.local
    BY <1>1, <1>2, LeqFacts DEF WatermarkOrder
<1>4. mark.applied <= replica
    BY <1>1, <1>2, LeqFacts DEF WatermarkOrder
<1>5. mark.applied <= Len(wal)
    BY <1>1, <1>2, <1>3, LeqFacts DEF WatermarkOrder
<1>6. \A a, l, n, w \in Nat : a <= l /\ a <= n /\ a <= w =>
         \A i \in 1..a : i \in 1..w /\ i <= a /\ i <= l /\ i <= n
    BY SMT
<1> QED BY <1>2, <1>3, <1>4, <1>5, <1>6

\* A retry that deduplicates finds its whole batch applied, hence durable.
LEMMA DeduplicatedDurable ==
    ASSUME OrderInv, NEW r \in Request, Deduplicates(r)
    PROVE  Durable(r)
<1> SUFFICES ASSUME NEW k \in 0..Count[r] - 1
             PROVE  \E i \in 1..Len(wal) :
                       /\ wal[i].req = r /\ wal[i].seq = Expected[r] + k
                       /\ i <= mark.applied /\ i <= mark.local /\ i <= replica
    BY DEF Durable
<1>1. PICK i \in Table(StreamOf[r]) : wal[i].seq = Expected[r] + k /\ wal[i].req = r
    BY DEF Deduplicates
<1>2. i \in 1..mark.applied
    BY DEF Table
<1> QED BY <1>1, <1>2, AppliedDurable

\* Every step of Append that sends nothing settles its call.
LEMMA CallerSettles ==
    ASSUME OrderInv, Answers, NEW r \in Request,
           \/ CallAppend(r) \/ AcquireAppendGate(r) \/ CancelAtGate(r)
           \/ LockEngine(r) \/ BeginRegistry(r) \/ ResolveTail(r)
           \/ RegistryCommitted(r) \/ AppendReturns(r) \/ CancelWait(r)
    PROVE  Settles(r)
<1>1. TypeOK
    BY DEF OrderInv
<1>2. result \in [Request -> Outcome \cup {"none"}] /\ call \in [Request -> Call]
    BY <1>1 DEF TypeOK
<1>3. \A o : [result EXCEPT ![r] = o][r] = o
             /\ \A q \in Request : q # r => [result EXCEPT ![r] = o][q] = result[q]
    BY <1>2
<1>4. call[r].pc \notin {"wait", "idle"} => result[r] = "none"
    BY DEF Answers
<1>a. CASE CallAppend(r)
    <2>1. r \notin unsure => Clean(r)
        BY <1>a DEF CallAppend, Answers
    <2>2. CASE Goto(r, "gate", 0) /\ result' = [result EXCEPT ![r] = "none"]
        <3>1. call'[r].pc = "gate" /\ \A q \in Request : q # r => call'[q] = call[q]
            BY <1>1, <2>2, GotoMoves
        <3>2. result'[r] = "none" /\ \A q \in Request : q # r => result'[q] = result[q]
            BY <1>3, <2>2
        <3> QED BY <1>a, <2>1, <3>1, <3>2 DEF CallAppend, Settles
    <2>3. CASE UNCHANGED call /\ result' = [result EXCEPT ![r] = "rejected"]
        <3>1. result'[r] = "rejected" /\ \A q \in Request : q # r => result'[q] = result[q]
            BY <1>3, <2>3
        <3> QED BY <1>a, <2>1, <2>3, <3>1 DEF CallAppend, Settles
    <2> QED BY <1>a, <2>2, <2>3 DEF CallAppend
<1>b. CASE AcquireAppendGate(r)
    BY <1>b, GotoSettles DEF AcquireAppendGate
<1>c. CASE CancelAtGate(r)
    <2>1. call'[r].pc = "idle" /\ \A q \in Request : q # r => call'[q] = call[q]
        BY <1>1, <1>c, GotoMoves DEF CancelAtGate
    <2>2. result'[r] = "rejected" /\ \A q \in Request : q # r => result'[q] = result[q]
        BY <1>3, <1>c DEF CancelAtGate
    <2>3. r \notin unsure => Clean(r)
        BY <1>4, <1>c DEF CancelAtGate, Answers
    <2> QED BY <1>c, <2>1, <2>2, <2>3 DEF CancelAtGate, Settles
<1>d. CASE LockEngine(r)
    <2>1. call[r].pc = "lock" /\ UNCHANGED <<commitVars, completed>>
        BY <1>d DEF LockEngine
    <2>2. CASE /\ Goto(r, IF StreamOf[r] \in registered THEN "tail" ELSE "register", 0)
               /\ UNCHANGED <<result, unsure>>
        BY <2>1, <2>2, GotoSettles
    <2>3. CASE ReturnWith(r, "rejected")
        BY <2>1, <2>3, RejectSettles
    <2> QED BY <1>d, <2>2, <2>3 DEF LockEngine
<1>e. CASE BeginRegistry(r)
    BY <1>e, EnqueueSettles DEF BeginRegistry
<1>f. CASE ResolveTail(r)
    <2>1. call[r].pc = "tail" /\ UNCHANGED <<commitVars, completed>>
        BY <1>f DEF ResolveTail
    <2>2. CASE ReturnWith(r, "rejected")
        BY <2>1, <2>2, RejectSettles
    <2>3. CASE Deduplicates(r) /\ ReturnWith(r, "ok")
        <3>1. Durable(r)
            BY <2>3, DeduplicatedDurable
        <3>2. "ok" \in Outcome /\ "ok" # "rejected"
            BY DEF Outcome
        <3> QED BY <2>1, <2>3, <3>1, <3>2, ReturnSettles
    <2>4. CASE Expected[r] = NextSequence(StreamOf[r]) /\ EnqueueChecks(r, "sendAppend")
        BY <2>1, <2>4, EnqueueSettles
    <2> QED BY <1>f, <2>2, <2>3, <2>4 DEF ResolveTail
<1>g. CASE RegistryCommitted(r)
    <2>1. call[r].pc = "registry" /\ UNCHANGED commitVars /\ completed' \subseteq completed
        BY <1>g DEF RegistryCommitted
    <2>2. CASE Goto(r, "tail", 0) /\ UNCHANGED <<result, unsure>>
        BY <2>1, <2>2, GotoSettles
    <2>3. CASE ReturnWith(r, "rejected")
        BY <2>1, <2>3, RejectSettles
    <2> QED BY <1>g, <2>2, <2>3 DEF RegistryCommitted
<1>h. CASE AppendReturns(r)
    <2>1. PICK c \in completed :
             c.ticket = call[r].ticket /\ completed' = completed \ {c} /\ ReturnWith(r, c.outcome)
        BY <1>h DEF AppendReturns
    <2>2. call[r].pc = "wait" /\ UNCHANGED commitVars
        BY <1>h DEF AppendReturns
    <2>3. /\ c.outcome = "ok" => Durable(r)
          /\ c.outcome = "rejected" /\ r \notin unsure => Clean(r)
        BY <2>1, <2>2 DEF Answers
    <2>4. c.outcome \in Outcome
        <3>1. c \in [ticket : Nat, outcome : Outcome]
            BY <1>1 DEF TypeOK
        <3> QED BY <3>1
    <2> QED BY <2>1, <2>2, <2>3, <2>4, ReturnSettles
<1>i. CASE CancelWait(r)
    <2>1. call'[r].pc = "idle" /\ \A q \in Request : q # r => call'[q] = call[q]
        BY <1>1, <1>i, GotoMoves DEF CancelWait
    <2>2. result'[r] = "uncertain" /\ \A q \in Request : q # r => result'[q] = result[q]
        BY <1>3, <1>i DEF CancelWait
    <2> QED BY <1>i, <2>1, <2>2 DEF CancelWait, Settles
<1> QED BY <1>a, <1>b, <1>c, <1>d, <1>e, <1>f, <1>g, <1>h, <1>i

\* A step that leaves calls, WAL and watermarks alone keeps Answers if it
\* queues nothing that is already written.
LEMMA AnswersFrame ==
    ASSUME Answers, UNCHANGED <<call, result, unsure, wal, mark, replica, tail>>,
           completed' \subseteq completed, InFlight' \subseteq InFlight,
           \A r \in Request \ unsure : Written(r) =>
              /\ \A i \in 1..Len(queue') : queue'[i].req # r
              /\ \A i \in 1..Len(carry') : carry'[i].req # r
              /\ stage' = "collect" => \A i \in 1..Len(group') : group'[i].req # r
    PROVE  Answers'
<1>1. \A q \in Request : (Durable(q) => Durable(q)') /\ (Clean(q) => Clean(q)')
                         /\ (Written(q)' <=> Written(q))
    BY DEF Durable, Clean, Written
<1>2. \A q \in Request : result'[q] = "ok" => Durable(q)'
    BY <1>1 DEF Answers
<1>3. \A q \in Request : call'[q].pc # "idle" => result'[q] = "none"
    BY DEF Answers
<1>4. \A q \in Request, c \in completed' :
          call'[q].pc = "wait" /\ c.ticket = call'[q].ticket =>
             /\ c.outcome = "ok" => Durable(q)'
             /\ c.outcome = "rejected" /\ q \notin unsure' => Clean(q)'
    BY <1>1 DEF Answers
<1>5. \A q \in Request \ unsure' :
          result'[q] # "ok" /\ call'[q].pc # "wait" => Clean(q)'
    BY <1>1 DEF Answers
<1>6. \A q \in Request \ unsure' : Written(q)' =>
          /\ \A i \in 1..Len(queue') : queue'[i].req # q
          /\ \A i \in 1..Len(carry') : carry'[i].req # q
          /\ stage' = "collect" => \A i \in 1..Len(group') : group'[i].req # q
    BY <1>1
<1>7. \A p \in InFlight' : p.kind # "commit" => p.req = Free
    BY DEF Answers
<1> QED BY <1>2, <1>3, <1>4, <1>5, <1>6, <1>7 DEF Answers

\* While no group is being processed, a request already written and never
\* uncertain has nothing in flight.
LEMMA IdleAnswers ==
    ASSUME OrderInv, Answers, stage \in {"idle", "collect"},
           NEW r \in Request \ unsure, Written(r)
    PROVE  \A p \in InFlight : p.req # r
<1>1. /\ \A i \in 1..Len(queue) : queue[i].req # r
      /\ \A i \in 1..Len(carry) : carry[i].req # r
      /\ stage = "collect" => \A i \in 1..Len(group) : group[i].req # r
    BY DEF Answers
<1>2. \A i \in 1..Len(group) : group[i].req # r
    <2>1. CASE stage = "collect"
        BY <1>1, <2>1
    <2>2. CASE stage = "idle"
        <3>1. group = <<>>
            BY <2>2 DEF OrderInv, Pipeline
        <3>2. 1..Len(group) = {}
            BY <3>1, NoItems
        <3> QED BY <3>2
    <2> QED BY <2>1, <2>2
<1> QED BY <1>1, <1>2 DEF InFlight

\* Forming a group keeps Sequenced and Answers.
LEMMA MoveAnswers ==
    ASSUME OrderInv, Sequenced, Answers, stage \in {"idle", "collect"},
           UNCHANGED <<call, result, unsure, fatal, wal, mark, replica, tail>>,
           completed' \subseteq completed, InFlight' \subseteq InFlight
    PROVE  Sequenced' /\ Answers'
<1>1. Sequenced'
    BY SequencedFrame
<1>2. ASSUME NEW r \in Request \ unsure, Written(r)
      PROVE  /\ \A i \in 1..Len(queue') : queue'[i].req # r
             /\ \A i \in 1..Len(carry') : carry'[i].req # r
             /\ stage' = "collect" => \A i \in 1..Len(group') : group'[i].req # r
    <2>1. \A p \in InFlight' : p.req # r
        BY <1>2, IdleAnswers
    <2> QED BY <2>1 DEF InFlight
<1>3. Answers'
    BY <1>2, AnswersFrame
<1> QED BY <1>1, <1>3

\* A send keeps Sequenced and Answers: a batch that continues its stream, of a
\* request with nothing written, or a pending of no request.
LEMMA SentStep ==
    ASSUME OrderInv, Sequenced, Answers, NEW e \in Item, queue' = Append(queue, e),
           UNCHANGED <<carry, group, stage, fatal, wal, mark, replica, tail, completed,
                       result, unsure>>,
           e.kind = "commit" => Continues(e),
           e.kind # "commit" => e.req = Free,
           \A q \in Request : e.req = q /\ q \notin unsure => Clean(q),
           \A q \in Request : \/ call'[q] = call[q] /\ e.req # q
                              \/ /\ call[q].pc \notin {"idle", "wait"}
                                 /\ call'[q].pc # "sendAppend"
                                 /\ call'[q].pc = "wait" \/ e.req # q
                                 /\ \A c \in completed : c.ticket # call'[q].ticket
    PROVE  Sequenced' /\ Answers'
<1>1. /\ Len(queue) \in Nat /\ Len(queue') = Len(queue) + 1
      /\ \A i \in 1..Len(queue) : queue'[i] = queue[i]
      /\ queue'[Len(queue) + 1] = e
    <2>1. queue \in Seq(Item)
        BY DEF OrderInv, TypeOK
    <2> QED BY <2>1, SMT
<1>2. \A i \in 1..Len(queue') : \/ i \in 1..Len(queue) /\ queue'[i] = queue[i]
                                \/ queue'[i] = e
    <2>1. \A n \in Nat : \A i \in 1..n + 1 : i \in 1..n \/ i = n + 1
        BY SMT
    <2> QED BY <1>1, <2>1
<1>3. \A p \in InFlight' : p \in InFlight \/ p = e
    <2> SUFFICES ASSUME NEW p \in InFlight', p # e
                 PROVE  p \in InFlight
        OBVIOUS
    <2>1. \/ \E i \in 1..Len(queue') : p = queue'[i]
          \/ \E i \in 1..Len(carry') : p = carry'[i]
          \/ \E i \in 1..Len(group') : p = group'[i]
        BY DEF InFlight
    <2>2. CASE \E i \in 1..Len(queue') : p = queue'[i]
        <3>1. PICK i \in 1..Len(queue') : p = queue'[i]
            BY <2>2
        <3>2. i \in 1..Len(queue) /\ p = queue[i]
            BY <1>2, <3>1
        <3> QED BY <3>2 DEF InFlight
    <2>3. CASE \E i \in 1..Len(carry') : p = carry'[i]
        BY <2>3 DEF InFlight
    <2>4. CASE \E i \in 1..Len(group') : p = group'[i]
        BY <2>4 DEF InFlight
    <2> QED BY <2>1, <2>2, <2>3, <2>4
<1>4. Sequenced'
    BY <1>3, SequencedFrame
<1>5. \A q \in Request : /\ Durable(q)' <=> Durable(q)
                         /\ Written(q)' <=> Written(q)
                         /\ Clean(q) /\ e.req # q => Clean(q)'
    BY <1>3 DEF Durable, Written, Clean
<1>6. \A q \in Request : result'[q] = "ok" => Durable(q)'
    BY <1>5 DEF Answers
<1>7. \A q \in Request : call'[q].pc # "idle" => result'[q] = "none"
    BY DEF Answers
<1>8. \A q \in Request, c \in completed' :
          call'[q].pc = "wait" /\ c.ticket = call'[q].ticket =>
             /\ c.outcome = "ok" => Durable(q)'
             /\ c.outcome = "rejected" /\ q \notin unsure' => Clean(q)'
    <2> SUFFICES ASSUME NEW q \in Request, NEW c \in completed,
                        call'[q].pc = "wait", c.ticket = call'[q].ticket
                 PROVE  /\ c.outcome = "ok" => Durable(q)'
                        /\ c.outcome = "rejected" /\ q \notin unsure => Clean(q)'
        OBVIOUS
    <2>1. call'[q] = call[q] /\ e.req # q
        OBVIOUS
    <2> QED BY <1>5, <2>1 DEF Answers
<1>9. \A q \in Request \ unsure' :
          result'[q] # "ok" /\ call'[q].pc # "wait" => Clean(q)'
    <2> SUFFICES ASSUME NEW q \in Request \ unsure, result[q] # "ok", call'[q].pc # "wait"
                 PROVE  Clean(q)'
        OBVIOUS
    <2>1. e.req # q /\ call[q].pc # "wait"
        OBVIOUS
    <2> QED BY <1>5, <2>1 DEF Answers
<1>10. \A q \in Request \ unsure' : Written(q)' =>
          /\ \A i \in 1..Len(queue') : queue'[i].req # q
          /\ \A i \in 1..Len(carry') : carry'[i].req # q
          /\ stage' = "collect" => \A i \in 1..Len(group') : group'[i].req # q
    <2> SUFFICES ASSUME NEW q \in Request \ unsure, Written(q)
                 PROVE  /\ \A i \in 1..Len(queue') : queue'[i].req # q
                        /\ \A i \in 1..Len(carry) : carry[i].req # q
                        /\ stage = "collect" => \A i \in 1..Len(group) : group[i].req # q
        BY <1>5
    <2>1. e.req # q
        BY DEF Clean
    <2> QED BY <1>2, <2>1 DEF Answers
<1>11. \A p \in InFlight' : p.kind # "commit" => p.req = Free
    BY <1>3 DEF Answers
<1> QED BY <1>4, <1>6, <1>7, <1>8, <1>9, <1>10, <1>11 DEF Answers

\* Sending a batch or a registry record keeps Sequenced and Answers.
LEMMA SendPendingAnswers ==
    ASSUME OrderInv, Sequenced, Answers, NEW r \in Request, SendPending(r)
    PROVE  Sequenced' /\ Answers'
<1>1. TypeOK /\ Tickets
    BY DEF OrderInv
<1>2. call[r].pc \in {"sendRegistry", "sendAppend"}
    BY DEF SendPending
<1>3. PICK n \in Nat : n = nextEntryID
    BY <1>1 DEF TypeOK
<1>4. \A c \in completed : c.ticket # n
    <2>1. \A c \in completed : c.ticket \in Nat
        BY <1>1, SMT DEF TypeOK
    <2>2. \A a, b \in Nat : a < b => a # b
        BY SMT
    <2> QED BY <1>1, <1>3, <2>1, <2>2 DEF Tickets
<1>5. UNCHANGED <<carry, group, stage, fatal, wal, mark, replica, tail, completed,
                  result, unsure>>
    BY DEF SendPending
<1>6. CASE call[r].pc = "sendRegistry"
    <2>1. PICK e : e = RegistryItem(StreamOf[r], n)
        OBVIOUS
    <2>2. /\ e \in Item
          /\ e.kind = "commit" /\ e.req = StreamOf[r] /\ e.stream = RegistryStream
          /\ e.seq = NextSequence(RegistryStream)
        BY <1>1, <2>1, ItemTypes DEF RegistryItem
    <2>3. queue' = Append(queue, e) /\ Goto(r, "registry", n)
        BY <1>3, <1>6, <2>1 DEF SendPending
    <2>4. /\ call'[r].pc = "registry" /\ call'[r].ticket = n
          /\ \A q \in Request : q # r => call'[q] = call[q]
        BY <1>1, <2>3, GotoMoves
    <2>5. \A q \in Request : e.req # q
        BY <2>2, NameFacts
    <2>6. Continues(e)
        BY <2>2 DEF Continues
    <2>7. \A q \in Request : \/ call'[q] = call[q] /\ e.req # q
                             \/ /\ call[q].pc \notin {"idle", "wait"}
                                /\ call'[q].pc # "sendAppend"
                                /\ call'[q].pc = "wait" \/ e.req # q
                                /\ \A c \in completed : c.ticket # call'[q].ticket
        BY <1>4, <1>6, <2>4, <2>5
    <2> QED BY <1>5, <2>2, <2>3, <2>5, <2>6, <2>7, SentStep
<1>7. CASE call[r].pc = "sendAppend"
    <2>1. PICK e : e = AppendItem(r, n)
        OBVIOUS
    <2>2. /\ e \in Item
          /\ e.kind = "commit" /\ e.req = r /\ e.stream = StreamOf[r]
          /\ e.seq = Expected[r]
        BY <1>1, <2>1, ItemTypes DEF AppendItem
    <2>3. queue' = Append(queue, e) /\ Goto(r, "wait", n)
        BY <1>3, <1>7, <2>1 DEF SendPending
    <2>4. /\ call'[r].pc = "wait" /\ call'[r].ticket = n
          /\ \A q \in Request : q # r => call'[q] = call[q]
        BY <1>1, <2>3, GotoMoves
    <2>5. Continues(e)
        BY <1>7, <2>2 DEF Continues, Sequenced
    <2>6. result[r] = "none"
        BY <1>7 DEF Answers
    <2>7. r \notin unsure => Clean(r)
        BY <1>7, <2>6 DEF Answers
    <2>8. \A q \in Request : \/ call'[q] = call[q] /\ e.req # q
                             \/ /\ call[q].pc \notin {"idle", "wait"}
                                /\ call'[q].pc # "sendAppend"
                                /\ call'[q].pc = "wait" \/ e.req # q
                                /\ \A c \in completed : c.ticket # call'[q].ticket
        BY <1>4, <1>7, <2>2, <2>4
    <2> QED BY <1>5, <2>2, <2>3, <2>5, <2>7, <2>8, SentStep
<1> QED BY <1>2, <1>6, <1>7

\* Sending the barrier or the shutdown pending keeps Sequenced and Answers.
LEMMA SendControlAnswers ==
    ASSUME OrderInv, Sequenced, Answers, SendBarrier \/ SendShutdown
    PROVE  Sequenced' /\ Answers'
<1>1. PICK e \in Item : e.kind # "commit" /\ e.req = Free /\ queue' = Append(queue, e)
    <2>1. Control("barrier").req = Free /\ Control("shutdown").req = Free
        BY DEF Control
    <2> QED BY <2>1, ControlTypes DEF SendBarrier, SendShutdown
<1>2. UNCHANGED <<call, carry, group, stage, fatal, wal, mark, replica, tail, completed,
                  result, unsure>>
    BY DEF SendBarrier, SendShutdown, callVars
<1>3. \A q \in Request : e.req # q
    BY <1>1, NameFacts
<1> QED BY <1>1, <1>2, <1>3, SentStep

\* A step that leaves the calls and the committer alone keeps Sequenced and
\* Answers.
LEMMA QuietAnswers ==
    ASSUME OrderInv, Sequenced, Answers,
           UNCHANGED <<callVars, commitVars>>, completed' \subseteq completed
    PROVE  Sequenced' /\ Answers'
<1>1. UNCHANGED <<call, result, unsure, queue, carry, group, stage, fatal, wal, mark,
                  replica, tail>>
    BY DEF callVars, commitVars
<1>2. InFlight' = InFlight
    BY <1>1 DEF InFlight
<1>3. Sequenced'
    BY <1>1, <1>2, SequencedFrame
<1>4. \A r \in Request \ unsure : Written(r) =>
          /\ \A i \in 1..Len(queue') : queue'[i].req # r
          /\ \A i \in 1..Len(carry') : carry'[i].req # r
          /\ stage' = "collect" => \A i \in 1..Len(group') : group'[i].req # r
    BY <1>1 DEF Answers
<1>5. Answers'
    BY <1>1, <1>2, <1>4, AnswersFrame
<1> QED BY <1>3, <1>5

\* CommitBarrier, Close and finishAppend keep Sequenced and Answers.
LEMMA ControllerAnswers ==
    ASSUME OrderInv, Sequenced, Answers,
           \/ \E s \in Stream : FinishAppend(s)
           \/ BeginBarrier \/ BarrierReturns \/ CancelBarrier
           \/ BeginClose \/ CloseReturns
    PROVE  Sequenced' /\ Answers'
<1>1. UNCHANGED <<callVars, commitVars>> /\ completed' \subseteq completed
    BY DEF FinishAppend, BeginBarrier, BarrierReturns, CancelBarrier, BeginClose, CloseReturns
<1> QED BY <1>1, QuietAnswers

\* A request with a batch in the group has none in queue or carry.
LEMMA GroupAlone ==
    ASSUME OrderInv, Answers, NEW r \in Request,
           NEW i \in 1..Len(group), group[i].req = r
    PROVE  /\ \A j \in 1..Len(queue) : queue[j].req # r
           /\ \A j \in 1..Len(carry) : carry[j].req # r
<1>1. group[i] \in InFlight
    BY DEF InFlight
<1>2. ASSUME NEW p, p.req = r,
             \/ \E j \in 1..Len(queue) : p = queue[j]
             \/ \E j \in 1..Len(carry) : p = carry[j]
      PROVE  FALSE
    <2>1. p \in InFlight
        BY <1>2 DEF InFlight
    <2>2. p.kind = "commit"
        BY <1>2, <2>1, RequestItems
    <2>3. p.first = group[i].first
        BY <1>1, <1>2, <2>1, RequestAlone
    <2>4. p.first # group[i].first
        BY <1>2, <2>2, GroupLeads
    <2> QED BY <2>3, <2>4
<1> QED BY <1>2

\* A step of process keeps Answers if what it writes is the group's, it rejects
\* only what it has not written, and it reports success only for what is
\* durable.
LEMMA ProcessAnswers ==
    ASSUME OrderInv, Answers, UNCHANGED <<call, result, unsure, queue, carry>>,
           stage' # "collect", group' = group \/ group' = <<>>,
           \A q \in Request : Durable(q) => Durable(q)',
           \A q \in Request : Written(q)' =>
              Written(q) \/ \E i \in 1..Len(group) : group[i].req = q,
           NEW outcome,
           \A c \in completed' :
              \/ c \in completed
              \/ c.outcome = outcome /\ \E i \in 1..Len(group) : c.ticket = group[i].first,
           outcome = "rejected" => stage = "collect" /\ group' = <<>> /\ wal' = wal,
           outcome = "ok" => \A q \in Request, i \in 1..Len(group) :
              group[i].req = q => Durable(q)'
    PROVE  Answers'
<1>1. TypeOK /\ Pipeline /\ Tickets
    BY DEF OrderInv
<1>2. \A i \in 1..Len(group) : group[i] \in InFlight /\ group[i].kind = "commit"
    BY <1>1, GroupItems
<1>3. group' = <<>> => 1..Len(group') = {}
    BY NoItems
<1>4. InFlight' \subseteq InFlight
    <2>1. CASE group' = group
        <3>1. queue' = queue /\ carry' = carry /\ group' = group
            BY <2>1
        <3>2. InFlight' = InFlight
            BY <3>1, InFlightFrame
        <3> QED BY <3>2
    <2>2. CASE group' = <<>>
        BY <1>3, <2>2 DEF InFlight
    <2> QED BY <2>1, <2>2
<1>5. ASSUME NEW q \in Request, Clean(q) PROVE Clean(q)'
    <2>1. \A i \in 1..Len(group) : group[i].req # q
        BY <1>2, <1>5 DEF Clean
    <2> QED BY <1>4, <1>5, <2>1 DEF Clean
<1>6. \A q \in Request : result'[q] = "ok" => Durable(q)'
    BY DEF Answers
<1>7. \A q \in Request : call'[q].pc # "idle" => result'[q] = "none"
    BY DEF Answers
<1>8. \A q \in Request, c \in completed' :
          call'[q].pc = "wait" /\ c.ticket = call'[q].ticket =>
             /\ c.outcome = "ok" => Durable(q)'
             /\ c.outcome = "rejected" /\ q \notin unsure' => Clean(q)'
    <2> SUFFICES ASSUME NEW q \in Request, NEW c \in completed',
                        call[q].pc = "wait", c.ticket = call[q].ticket
                 PROVE  /\ c.outcome = "ok" => Durable(q)'
                        /\ c.outcome = "rejected" /\ q \notin unsure => Clean(q)'
        OBVIOUS
    <2>1. CASE c \in completed
        BY <1>5, <2>1 DEF Answers
    <2>2. CASE c \notin completed
        <3>1. PICK i \in 1..Len(group) : c.ticket = group[i].first
            BY <2>2
        <3>2. group[i].req = q /\ c.outcome = outcome
            <4>1. PICK p : p = group[i]
                OBVIOUS
            <4>2. p \in InFlight /\ p.kind = "commit" /\ call[q].ticket = p.first
                BY <1>2, <3>1, <4>1
            <4>3. p.req = q
                BY <4>2, TicketItem
            <4> QED BY <2>2, <4>1, <4>3
        <3>3. c.outcome = "ok" => Durable(q)'
            BY <3>2
        <3>4. ASSUME c.outcome = "rejected", q \notin unsure PROVE Clean(q)'
            <4>1. stage = "collect" /\ group' = <<>> /\ wal' = wal
                BY <3>2, <3>4
            <4>2. ~Written(q)
                BY <3>2, <3>4, <4>1 DEF Answers
            <4>3. /\ \A j \in 1..Len(queue) : queue[j].req # q
                  /\ \A j \in 1..Len(carry) : carry[j].req # q
                BY <3>2, GroupAlone
            <4>4. \A p \in InFlight' : p.req # q
                <5>1. ASSUME NEW p \in InFlight' PROVE p.req # q
                    <6>1. p \in {queue[j] : j \in 1..Len(queue)} \cup {carry[j] : j \in 1..Len(carry)}
                                 \cup {group'[j] : j \in 1..Len(group')}
                        BY <1>3 DEF InFlight
                    <6>2. \A j \in 1..Len(group') : FALSE
                        BY <4>1, SMT
                    <6>3. CASE p \in {queue[j] : j \in 1..Len(queue)}
                        BY <4>3, <6>3
                    <6>4. CASE p \in {carry[j] : j \in 1..Len(carry)}
                        BY <4>3, <6>4
                    <6>5. CASE p \in {group'[j] : j \in 1..Len(group')}
                        BY <6>2, <6>5
                    <6> QED BY <6>1, <6>3, <6>4, <6>5
                <5> QED BY <5>1
            <4> QED BY <4>1, <4>2, <4>4 DEF Clean, Written
        <3> QED BY <3>3, <3>4
    <2> QED BY <2>1, <2>2
<1>9. \A q \in Request \ unsure' :
          result'[q] # "ok" /\ call'[q].pc # "wait" => Clean(q)'
    BY <1>5 DEF Answers
<1>10. \A q \in Request \ unsure' : Written(q)' =>
          /\ \A i \in 1..Len(queue') : queue'[i].req # q
          /\ \A i \in 1..Len(carry') : carry'[i].req # q
          /\ stage' = "collect" => \A i \in 1..Len(group') : group'[i].req # q
    <2> SUFFICES ASSUME NEW q \in Request \ unsure, Written(q)'
                 PROVE  /\ \A i \in 1..Len(queue) : queue[i].req # q
                        /\ \A i \in 1..Len(carry) : carry[i].req # q
        OBVIOUS
    <2>1. CASE Written(q)
        BY <2>1 DEF Answers
    <2>2. CASE ~Written(q)
        <3>1. PICK i \in 1..Len(group) : group[i].req = q
            BY <2>2
        <3> QED BY <3>1, GroupAlone
    <2> QED BY <2>1, <2>2
<1>11. \A p \in InFlight' : p.kind # "commit" => p.req = Free
    BY <1>4 DEF Answers
<1> QED BY <1>6, <1>7, <1>8, <1>9, <1>10, <1>11 DEF Answers

(***************************************************************************)
(* A group's outcome                                                       *)
(***************************************************************************)
\* Applying a batch keeps Sequenced, and the MemTable never refuses it: the
\* batches behind it are of other streams.
LEMMA ApplyNextSequenced ==
    ASSUME OrderInv, Sequenced, ApplyNext
    PROVE  /\ Sequenced' /\ Continues(group[NextBatch])
           /\ UNCHANGED <<fatal, group, stage, completed>>
<1>1. TypeOK /\ Pipeline /\ Tickets /\ Marks /\ stage = "apply"
      /\ mark.applied < mark.committed
    BY DEF OrderInv, ApplyNext
<1>2. PICK b : b = NextBatch
    OBVIOUS
<1>3. /\ b \in 1..Len(group) /\ group[b].first = mark.applied
    BY <1>1, <1>2, ApplyFacts
<1>4. /\ fatal = "none" /\ GroupWritten
    BY <1>1 DEF Marks, Processing
<1>5. /\ group[b] \in InFlight /\ group[b].kind = "commit"
      /\ group[b].first \in Nat /\ group[b].count \in Nat \ {0}
    BY <1>1, <1>3, GroupItems
<1>6. Continues(group[b])
    <2>1. mark.applied <= group[b].first
        BY <1>3, <1>5, LeqFacts
    <2> QED BY <1>4, <1>5, <2>1 DEF Sequenced
<1>7. /\ mark' = [mark EXCEPT !.applied = @ + group[b].count]
      /\ tail' = [tail EXCEPT ![group[b].stream] = group[b].seq + group[b].count]
      /\ UNCHANGED <<fatal, group, stage, completed, callVars, queue, carry, wal>>
    BY <1>2, <1>6 DEF ApplyNext
<1>8. call' = call /\ InFlight' = InFlight
    BY <1>7 DEF callVars, InFlight
<1>9. PICK c : c = group[b].count
    OBVIOUS
<1>10. c \in Nat \ {0} /\ mark.applied \in Nat
    BY <1>1, <1>5, <1>9, MarkTypes
<1>11. mark'.applied = mark.applied + c
    <2>1. mark \in [appended : Nat, local : Nat, replicated : Nat,
                    committed : Nat, applied : Nat]
        BY <1>1 DEF TypeOK
    <2> QED BY <1>7, <1>9, <2>1, SMT
<1>12. /\ \A i \in 1..mark.applied + c :
             \/ i \in 1..mark.applied
             \/ i - mark.applied \in 1..c /\ mark.applied + (i - mark.applied) = i
       /\ \A i \in 1..mark.applied : i \in 1..mark.applied + c
       /\ \A n \in Nat : mark.applied + c <= n => mark.applied <= n /\ n # mark.applied
    BY <1>10, SMT
<1>13. \A k \in 1..c : /\ wal[mark.applied + k].stream = group[b].stream
                       /\ wal[mark.applied + k].seq = group[b].seq + k - 1
    <2>1. \A k \in 1..c : wal[mark.applied + k] = Entries(group[b])[k]
        BY <1>3, <1>4, <1>9 DEF GroupWritten
    <2> TAKE k \in 1..c
    <2>2. /\ Entries(group[b])[k].stream = group[b].stream
          /\ Entries(group[b])[k].seq = group[b].seq + k - 1
        BY <1>9, EntryFields
    <2> QED BY <2>1, <2>2
<1>14. ASSUME NEW s \in StreamId, s # group[b].stream
       PROVE  NextSequence(s)' = NextSequence(s)
    <2>1. tail \in [StreamId -> Nat]
        BY <1>1 DEF TypeOK
    <2> QED BY <1>7, <1>14, <2>1 DEF NextSequence
<1>15. ASSUME NEW p \in InFlight', p.kind = "commit", mark'.applied <= p.first
       PROVE  Continues(p)'
    <2>1. p \in InFlight /\ p.first \in Nat
        BY <1>1, <1>8, InFlightItems
    <2>2. mark.applied <= p.first /\ p.first # mark.applied
        BY <1>11, <1>12, <1>15, <2>1
    <2>3. p.stream # group[b].stream
        BY <1>3, <1>5, <1>15, <2>1, <2>2, StreamAlone
    <2>4. Continues(p)
        BY <1>4, <1>15, <2>1, <2>2 DEF Sequenced
    <2>5. p.stream \in StreamId
        <3>1. p \in Item
            BY <1>1, <2>1, InFlightItems
        <3> QED BY <3>1, SMT DEF Item
    <2> QED BY <1>14, <2>3, <2>4, <2>5 DEF Continues
<1>16. ASSUME NEW r \in Request, call'[r].pc = "sendAppend"
       PROVE  Expected[r] = NextSequence(StreamOf[r])'
    <2>1. group[b].stream # StreamOf[r]
        BY <1>5, <1>8, <1>16, GateAlone
    <2>2. StreamOf[r] \in StreamId
        BY RequestAssumption DEF StreamId
    <2> QED BY <1>8, <1>14, <1>16, <2>1, <2>2 DEF Sequenced
<1>17. ASSUME NEW s \in StreamId
       PROVE  /\ \A i \in Table(s)' : wal'[i].seq < tail'[s]
              /\ \A k \in 0..tail'[s] - 1 : \E i \in Table(s)' : wal'[i].seq = k
    <2>1. PICK a : a = mark.applied
        OBVIOUS
    <2>2. PICK t : t = tail[s]
        OBVIOUS
    <2>3. /\ \A i : i \in Table(s) <=> i \in 1..a /\ wal[i].stream = s
          /\ \A i : i \in Table(s)' <=> i \in 1..a + c /\ wal[i].stream = s
        BY <1>7, <1>11, <2>1 DEF Table
    <2>4. /\ \A i \in Table(s) : wal[i].seq < t
          /\ \A k \in 0..t - 1 : \E i \in Table(s) : wal[i].seq = k
        BY <2>2 DEF Sequenced, TailsMatch
    <2>5. CASE s # group[b].stream
        <3>1. ASSUME NEW i \in 1..a + c, wal[i].stream = s PROVE i \in 1..a
            <4>1. \/ i \in 1..a
                  \/ i - a \in 1..c /\ a + (i - a) = i
                BY <1>12, <2>1
            <4>2. CASE i - a \in 1..c /\ a + (i - a) = i
                <5>1. wal[a + (i - a)].stream = group[b].stream
                    BY <1>13, <2>1, <4>2
                <5> QED BY <2>5, <3>1, <4>2, <5>1
            <4> QED BY <4>1, <4>2
        <3>2. Table(s)' = Table(s)
            BY <1>12, <2>1, <2>3, <3>1
        <3>3. tail'[s] = t
            BY <1>14, <2>2, <2>5 DEF NextSequence
        <3> QED BY <1>7, <2>4, <3>2, <3>3
    <2>6. CASE s = group[b].stream
        <3>1. a \in Nat /\ c \in Nat \ {0} /\ t \in Nat /\ a + c <= Len(wal)
              /\ Len(wal) \in Nat
            <4>1. a + c <= Len(wal)
                BY <1>1, <1>2, <1>9, <2>1, ApplyFacts DEF Marks
            <4>2. t \in Nat
                BY <1>1, <2>2 DEF TypeOK
            <4> QED BY <1>1, <1>10, <2>1, <4>1, <4>2, MarkTypes
        <3>2. t = group[b].seq
            BY <1>6, <2>2, <2>6 DEF Continues, NextSequence
        <3>3. tail'[s] = t + c
            BY <1>1, <1>7, <1>9, <2>6, <3>2 DEF TypeOK
        <3>4. \A k \in 1..c : wal[a + k].stream = s /\ wal[a + k].seq = t + k - 1
            BY <1>13, <2>1, <2>6, <3>2
        <3>5. ASSUME NEW i \in Table(s)' PROVE wal[i].seq < t + c
            <4>1. CASE i \in 1..a
                <5>1. wal[i].seq < t
                    BY <2>3, <2>4, <4>1
                <5>2. i \in 1..Len(wal)
                    BY <3>1, <4>1, SMT
                <5>3. wal[i].seq \in Nat
                    BY <1>1, <5>2, WalEntries
                <5> QED BY <3>1, <5>1, <5>3, SMT
            <4>2. CASE i \notin 1..a
                <5>1. i \in 1..a + c
                    BY <2>3
                <5>2. PICK k \in 1..c : i = a + k
                    BY <3>1, <4>2, <5>1, SMT
                <5>3. wal[i].seq = t + k - 1
                    BY <3>4, <5>2
                <5> QED BY <3>1, <5>3, SMT
            <4> QED BY <4>1, <4>2
        <3>6. ASSUME NEW k \in 0..(t + c) - 1
              PROVE  \E i \in Table(s)' : wal[i].seq = k
            <4>1. CASE k \in 0..t - 1
                <5>1. PICK i \in Table(s) : wal[i].seq = k
                    BY <2>4, <4>1
                <5>2. i \in 1..a + c
                    BY <1>12, <2>1, <2>3, <5>1
                <5> QED BY <2>3, <5>1, <5>2
            <4>2. CASE k \notin 0..t - 1
                <5>1. PICK n \in 1..c : t + n - 1 = k /\ a + n \in 1..a + c
                    <6>1. /\ (k - t) + 1 \in 1..c /\ t + ((k - t) + 1) - 1 = k
                          /\ a + ((k - t) + 1) \in 1..a + c
                        BY <3>1, <4>2, SMT
                    <6> QED BY <6>1
                <5>2. wal[a + n].stream = s /\ wal[a + n].seq = k
                    BY <3>4, <5>1
                <5> QED BY <2>3, <5>1, <5>2
            <4> QED BY <4>1, <4>2
        <3> QED BY <1>7, <3>3, <3>5, <3>6
    <2> QED BY <2>5, <2>6
<1>18. SequencesContinuous' /\ ValidatedStaysValid' /\ TailsMatch'
    BY <1>7, <1>17, SequencesFrame DEF Sequenced, ValidatedStaysValid, TailsMatch
<1>19. Sequenced'
    BY <1>15, <1>16, <1>18 DEF Sequenced
<1> QED BY <1>2, <1>6, <1>7, <1>19

\* Answering a control pending and collecting a group keep Sequenced and
\* Answers.
LEMMA CollectAnswers ==
    ASSUME OrderInv, Sequenced, Answers, HandleControl \/ StartGroup \/ CollectNext
    PROVE  Sequenced' /\ Answers'
<1>1. InFlight' \subseteq InFlight
    BY HandleControlStep, StartGroupStep, CollectNextStep
<1>2. /\ stage \in {"idle", "collect"} /\ UNCHANGED callVars
      /\ UNCHANGED <<fatal, wal, mark, replica, tail, completed>>
    BY DEF HandleControl, StartGroup, CollectNext
<1>3. UNCHANGED <<call, result, unsure>>
    BY <1>2 DEF callVars
<1> QED BY <1>1, <1>2, <1>3, MoveAnswers

\* completeGroup gives its outcome to the group's tickets.
LEMMA CompletionFacts ==
    ASSUME NEW outcome, CompleteGroup(outcome)
    PROVE  /\ \A c \in completed' :
                 \/ c \in completed
                 \/ c.outcome = outcome /\ \E i \in 1..Len(group) : c.ticket = group[i].first
           /\ group' = <<>> /\ stage' = "idle"
<1>1. /\ completed' = completed \cup
            {[ticket |-> group[i].first, outcome |-> outcome] : i \in 1..Len(group)}
      /\ group' = <<>> /\ stage' = "idle"
    BY DEF CompleteGroup
<1>2. ASSUME NEW c \in completed', c \notin completed
      PROVE  c.outcome = outcome /\ \E i \in 1..Len(group) : c.ticket = group[i].first
    <2>1. PICK i \in 1..Len(group) : c = [ticket |-> group[i].first, outcome |-> outcome]
        BY <1>1, <1>2
    <2>2. c.ticket = group[i].first /\ c.outcome = outcome
        BY <2>1
    <2> QED BY <2>2
<1> QED BY <1>1, <1>2

\* A step of process that writes nothing, loses no watermark and reports at
\* most uncertainty keeps Answers.
LEMMA AdvanceAnswers ==
    ASSUME OrderInv, OrderInv', Answers, wal' = wal, UNCHANGED <<callVars, queue, carry>>,
           mark.applied <= mark'.applied, mark.local <= mark'.local, replica <= replica',
           \/ CompleteGroup("uncertain")
           \/ stage' # "collect" /\ UNCHANGED <<group, completed>>
    PROVE  Answers'
<1>1. UNCHANGED <<call, result, unsure, queue, carry>>
    BY DEF callVars
<1>2. \A q \in Request : Written(q)' <=> Written(q)
    BY DEF Written
<1>3. \A q \in Request : Durable(q) => Durable(q)'
    <2>1. TypeOK /\ TypeOK'
        BY DEF OrderInv
    <2>2. /\ mark.applied \in Nat /\ mark.local \in Nat /\ replica \in Nat
          /\ Len(wal) \in Nat /\ Len(wal') \in Nat /\ Len(wal) <= Len(wal')
        BY <2>1, MarkTypes, LeqFacts
    <2>3. mark'.applied \in Nat /\ mark'.local \in Nat /\ replica' \in Nat
        <3>1. /\ mark' \in [appended : Nat, local : Nat, replicated : Nat,
                            committed : Nat, applied : Nat]
              /\ replica' \in Nat
            BY <2>1 DEF TypeOK
        <3> QED BY <3>1, SMT
    <2> QED BY <2>2, <2>3, DurableKeeps
<1>4. CASE CompleteGroup("uncertain")
    <2>1. /\ \A c \in completed' :
                \/ c \in completed
                \/ /\ c.outcome = "uncertain"
                   /\ \E i \in 1..Len(group) : c.ticket = group[i].first
          /\ group' = <<>> /\ stage' = "idle"
        BY <1>4, CompletionFacts
    <2> QED BY <1>1, <1>2, <1>3, <2>1, ProcessAnswers
<1>5. CASE stage' # "collect" /\ UNCHANGED <<group, completed>>
    <2>1. PICK outcome : outcome = "uncertain"
        OBVIOUS
    <2>2. outcome # "rejected" /\ outcome # "ok"
        BY <2>1
    <2> QED BY <1>1, <1>2, <1>3, <1>5, <2>2, ProcessAnswers
<1> QED BY <1>4, <1>5

\* A step of process that writes and applies nothing keeps Sequenced.
LEMMA AdvanceSequenced ==
    ASSUME Sequenced, wal' = wal, UNCHANGED <<callVars, queue, carry, tail>>,
           mark'.applied = mark.applied,
           \/ /\ fatal' \notin {"none", "invalid", "apply"}
              /\ CompleteGroup("uncertain")
           \/ UNCHANGED <<fatal, group>>
    PROVE  Sequenced'
<1>1. call' = call
    BY DEF callVars
<1>2. group' = <<>> \/ group' = group
    BY DEF CompleteGroup
<1>3. InFlight' \subseteq InFlight
    <2>1. CASE group' = group
        BY <2>1 DEF InFlight
    <2>2. CASE group' = <<>>
        <3>1. 1..Len(group') = {}
            BY <2>2, NoItems
        <3> QED BY <3>1 DEF InFlight
    <2> QED BY <1>2, <2>1, <2>2
<1> QED BY <1>1, <1>3, SequencedFrame

\* The fsync, failed or not, keeps Sequenced and Answers.
LEMMA SyncGroupAnswers ==
    ASSUME OrderInv, OrderInv', Sequenced, Answers, SyncGroup
    PROVE  Sequenced' /\ Answers'
<1>1. TypeOK /\ WatermarkOrder
    BY DEF OrderInv, Marks
<1>2. UNCHANGED <<callVars, queue, carry, wal, replica, tail>>
    BY DEF SyncGroup
<1>3. mark'.applied = mark.applied /\ mark.local <= mark'.local
    <2>1. mark' = mark \/ mark' = [mark EXCEPT !.local = mark.appended]
        BY DEF SyncGroup
    <2>2. mark \in [appended : Nat, local : Nat, replicated : Nat,
                    committed : Nat, applied : Nat]
        BY <1>1 DEF TypeOK
    <2>3. mark.local <= mark.appended
        BY <1>1 DEF WatermarkOrder
    <2> QED BY <2>1, <2>2, <2>3, SMT
<1>4. mark.applied <= mark'.applied /\ replica <= replica'
    BY <1>1, <1>2, <1>3, MarkTypes, LeqFacts
<1>5. \/ /\ fatal' \notin {"none", "invalid", "apply"}
         /\ CompleteGroup("uncertain")
      \/ stage' # "collect" /\ UNCHANGED <<fatal, group, completed>>
    BY DEF SyncGroup, FailGroup
<1>6. Sequenced'
    BY <1>2, <1>3, <1>5, AdvanceSequenced
<1>7. Answers'
    BY <1>2, <1>3, <1>4, <1>5, AdvanceAnswers
<1> QED BY <1>6, <1>7

\* Replication, failed or not, keeps Sequenced and Answers.
LEMMA ReplicateGroupAnswers ==
    ASSUME OrderInv, OrderInv', Sequenced, Answers, ReplicateGroup
    PROVE  Sequenced' /\ Answers'
<1>1. TypeOK /\ WatermarkOrder /\ replica <= mark.local
    BY DEF OrderInv, Marks
<1>2. UNCHANGED <<callVars, queue, carry, wal, tail>>
    BY DEF ReplicateGroup
<1>3. mark'.applied = mark.applied /\ mark'.local = mark.local
    <2>1. mark' = mark \/ mark' = [mark EXCEPT !.replicated = mark.local]
        BY DEF ReplicateGroup
    <2>2. mark \in [appended : Nat, local : Nat, replicated : Nat,
                    committed : Nat, applied : Nat]
        BY <1>1 DEF TypeOK
    <2> QED BY <2>1, <2>2, SMT
<1>4. mark.applied <= mark'.applied /\ mark.local <= mark'.local
    BY <1>1, <1>3, MarkTypes, LeqFacts
<1>5. replica <= replica'
    <2>1. replica' \in {replica, mark.local}
        BY DEF ReplicateGroup
    <2> QED BY <1>1, <2>1, MarkTypes, LeqFacts
<1>6. \/ /\ fatal' \notin {"none", "invalid", "apply"}
         /\ CompleteGroup("uncertain")
      \/ stage' # "collect" /\ UNCHANGED <<fatal, group, completed>>
    BY DEF ReplicateGroup, FailGroup
<1>7. Sequenced'
    BY <1>2, <1>3, <1>6, AdvanceSequenced
<1>8. Answers'
    BY <1>2, <1>4, <1>5, <1>6, AdvanceAnswers
<1> QED BY <1>7, <1>8

\* The commit, refused by the guard or not, keeps Sequenced and Answers.
LEMMA CommitGroupAnswers ==
    ASSUME OrderInv, OrderInv', Sequenced, Answers, CommitGroup
    PROVE  Sequenced' /\ Answers'
<1>1. TypeOK
    BY DEF OrderInv
<1>2. UNCHANGED <<callVars, queue, carry, wal, replica, tail>>
    BY DEF CommitGroup
<1>3. mark'.applied = mark.applied /\ mark'.local = mark.local
    <2>1. mark' = mark \/ mark' = [mark EXCEPT !.committed = mark.replicated]
        BY DEF CommitGroup
    <2>2. mark \in [appended : Nat, local : Nat, replicated : Nat,
                    committed : Nat, applied : Nat]
        BY <1>1 DEF TypeOK
    <2> QED BY <2>1, <2>2, SMT
<1>4. mark.applied <= mark'.applied /\ mark.local <= mark'.local /\ replica <= replica'
    BY <1>1, <1>2, <1>3, MarkTypes, LeqFacts
<1>5. \/ /\ fatal' \notin {"none", "invalid", "apply"}
         /\ CompleteGroup("uncertain")
      \/ stage' # "collect" /\ UNCHANGED <<fatal, group, completed>>
    BY DEF CommitGroup, FailGroup
<1>6. Sequenced'
    BY <1>2, <1>3, <1>5, AdvanceSequenced
<1>7. Answers'
    BY <1>2, <1>4, <1>5, AdvanceAnswers
<1> QED BY <1>6, <1>7

\* Applying a batch keeps Sequenced and Answers.
LEMMA ApplyNextAnswers ==
    ASSUME OrderInv, OrderInv', Sequenced, Answers, ApplyNext
    PROVE  Sequenced' /\ Answers'
<1>1. TypeOK /\ stage = "apply" /\ mark.applied < mark.committed
    BY DEF OrderInv, ApplyNext
<1>2. UNCHANGED <<callVars, queue, carry, wal, replica>>
    BY DEF ApplyNext
<1>3. /\ Sequenced' /\ Continues(group[NextBatch])
      /\ UNCHANGED <<fatal, group, stage, completed>>
    BY ApplyNextSequenced
<1>4. /\ group[NextBatch].first = mark.applied /\ NextBatch \in 1..Len(group)
    BY <1>1, ApplyFacts
<1>5. PICK n : n = group[NextBatch].count
    OBVIOUS
<1>6. n \in Nat
    BY <1>4, <1>5, GroupItems DEF OrderInv
<1>7. mark' = [mark EXCEPT !.applied = mark.applied + n]
    BY <1>3, <1>5 DEF ApplyNext
<1>8. mark'.local = mark.local /\ mark.applied <= mark'.applied
    <2>1. mark \in [appended : Nat, local : Nat, replicated : Nat,
                    committed : Nat, applied : Nat]
        BY <1>1 DEF TypeOK
    <2> QED BY <1>6, <1>7, <2>1, SMT
<1>9. mark.local <= mark'.local /\ replica <= replica'
    BY <1>1, <1>2, <1>8, MarkTypes, LeqFacts
<1>10. Answers'
    BY <1>1, <1>2, <1>3, <1>8, <1>9, AdvanceAnswers
<1> QED BY <1>3, <1>10

\* When the group is applied every batch of it is durable.
LEMMA BatchDurable ==
    ASSUME OrderInv, Answers, stage = "apply", mark.applied = mark.committed,
           NEW i \in 1..Len(group), NEW r \in Request, group[i].req = r
    PROVE  Durable(r)
<1>1. TypeOK /\ Pipeline /\ Tickets /\ Marks
    BY DEF OrderInv
<1>2. stage \in Processing /\ group # <<>>
    BY <1>1 DEF Processing, Pipeline
<1>3. GroupWritten /\ mark.applied = Len(wal)
    BY <1>1, <1>2 DEF Marks
<1>4. PICK p : p = group[i]
    OBVIOUS
<1>5. p \in InFlight /\ p.first \in Nat /\ p.first + p.count <= mark.applied
    BY <1>1, <1>2, <1>3, <1>4, GroupItems, EndFacts DEF GroupWritten
<1>6. p.seq = Expected[r] /\ p.count = Count[r]
    BY <1>4, <1>5, RequestItems
<1>7. PICK n \in Nat : n = Count[r]
    BY RequestAssumption
<1>8. Expected[r] \in Nat /\ mark.applied \in Nat
    BY <1>1, RequestAssumption, MarkTypes
<1> SUFFICES ASSUME NEW k \in 0..Count[r] - 1
             PROVE  \E j \in 1..Len(wal) :
                       /\ wal[j].req = r /\ wal[j].seq = Expected[r] + k
                       /\ j <= mark.applied /\ j <= mark.local /\ j <= replica
    BY DEF Durable
<1>9. PICK f : f = p.first
    OBVIOUS
<1>10. /\ k + 1 \in 1..p.count /\ f + (k + 1) \in 1..mark.applied
       /\ Expected[r] + (k + 1) - 1 = Expected[r] + k
    <2>1. f \in Nat /\ n \in Nat /\ f + n <= mark.applied /\ k \in 0..n - 1
        BY <1>5, <1>6, <1>7, <1>9
    <2>2. /\ k + 1 \in 1..n /\ f + (k + 1) \in 1..mark.applied
          /\ Expected[r] + (k + 1) - 1 = Expected[r] + k
        <3>1. PICK a : a = mark.applied
            OBVIOUS
        <3>2. PICK s : s = Expected[r]
            OBVIOUS
        <3>3. a \in Nat /\ s \in Nat /\ f + n <= a
            BY <1>8, <2>1, <3>1, <3>2
        <3>4. k + 1 \in 1..n /\ f + (k + 1) \in 1..a /\ s + (k + 1) - 1 = s + k
            BY <2>1, <3>3, SMT
        <3> QED BY <3>1, <3>2, <3>4
    <2> QED BY <1>6, <1>7, <2>2
<1>11. wal[f + (k + 1)] = Entries(p)[k + 1]
    BY <1>3, <1>4, <1>9, <1>10 DEF GroupWritten
<1>12. wal[f + (k + 1)].req = r /\ wal[f + (k + 1)].seq = Expected[r] + k
    <2>1. PICK h : h = k + 1
        OBVIOUS
    <2>2. Entries(p)[h].req = p.req /\ Entries(p)[h].seq = p.seq + h - 1
        BY <1>10, <2>1, EntryFields
    <2> QED BY <1>4, <1>6, <1>10, <1>11, <2>1, <2>2
<1> QED BY <1>10, <1>12, AppliedDurable

\* Completing the group with success keeps Sequenced and Answers.
LEMMA CompleteSuccessAnswers ==
    ASSUME OrderInv, Sequenced, Answers, CompleteSuccess
    PROVE  Sequenced' /\ Answers'
<1>1. /\ stage = "apply" /\ mark.applied = mark.committed /\ CompleteGroup("ok")
      /\ UNCHANGED callVars /\ UNCHANGED <<queue, carry, fatal, wal, mark, replica, tail>>
    BY DEF CompleteSuccess
<1>2. UNCHANGED <<call, result, unsure>>
    BY <1>1 DEF callVars
<1>3. /\ \A c \in completed' :
            \/ c \in completed
            \/ c.outcome = "ok" /\ \E i \in 1..Len(group) : c.ticket = group[i].first
      /\ group' = <<>> /\ stage' = "idle"
    BY <1>1, CompletionFacts
<1>4. \A q \in Request : (Durable(q)' <=> Durable(q)) /\ (Written(q)' <=> Written(q))
    BY <1>1 DEF Durable, Written
<1>5. \A q \in Request, i \in 1..Len(group) : group[i].req = q => Durable(q)'
    BY <1>1, <1>4, BatchDurable
<1>6. Answers'
    BY <1>1, <1>2, <1>3, <1>4, <1>5, ProcessAnswers
<1>7. Sequenced'
    <2>1. 1..Len(group') = {}
        BY <1>3, NoItems
    <2>2. InFlight' \subseteq InFlight
        BY <1>1, <2>1 DEF InFlight
    <2> QED BY <1>1, <1>2, <2>2, SequencedFrame
<1> QED BY <1>6, <1>7

\* The start of process, up to the WAL append, keeps Sequenced and Answers in
\* each of its outcomes.
LEMMA AppendGroupAnswers ==
    ASSUME OrderInv, Filled, OrderInv', Sequenced, Answers, AppendGroup
    PROVE  Sequenced' /\ Answers'
<1>1. TypeOK /\ Pipeline /\ Tickets /\ Marks /\ stage = "collect"
    BY DEF OrderInv, AppendGroup
<1>2. group # <<>>
    BY <1>1 DEF Pipeline
<1>3. UNCHANGED <<callVars, queue, carry, replica, tail>>
    BY DEF AppendGroup
<1>4. UNCHANGED <<call, result, unsure>>
    BY <1>3 DEF callVars
<1>5. /\ Sequenced'
      /\ ~(fatal = "none" /\ \E i \in 1..Len(group) : ~Continues(group[i]))
    BY AppendGroupSequenced
<1>6. /\ mark.applied \in Nat /\ mark.local \in Nat /\ replica \in Nat /\ Len(wal) \in Nat
      /\ GroupEnd \in Nat
    BY <1>1, <1>2, MarkTypes, EndFacts
<1>7. CASE CompleteGroup("rejected") /\ UNCHANGED <<wal, mark>>
    <2>1. /\ \A c \in completed' :
                \/ c \in completed
                \/ c.outcome = "rejected" /\ \E i \in 1..Len(group) : c.ticket = group[i].first
          /\ group' = <<>> /\ stage' = "idle"
        BY <1>7, CompletionFacts
    <2>2. \A q \in Request : (Durable(q)' <=> Durable(q)) /\ (Written(q)' <=> Written(q))
        BY <1>3, <1>7 DEF Durable, Written
    <2> QED BY <1>1, <1>3, <1>4, <1>5, <1>7, <2>1, <2>2, ProcessAnswers
<1>8. CASE CompleteGroup("uncertain") /\ UNCHANGED <<wal, mark>>
    <2>1. mark.applied <= mark'.applied /\ mark.local <= mark'.local /\ replica <= replica'
        BY <1>3, <1>6, <1>8, LeqFacts
    <2> QED BY <1>3, <1>5, <1>8, <2>1, AdvanceAnswers
<1>9. CASE /\ Continuous /\ mark'.applied = mark.applied /\ mark'.local = mark.local
           /\ \E end \in Len(wal)..GroupEnd : WriteUpTo(end)
           /\ \/ CompleteGroup("uncertain")
              \/ stage' = "sync" /\ UNCHANGED <<group, completed>>
    <2>1. PICK end \in Len(wal)..GroupEnd : WriteUpTo(end)
        BY <1>9
    <2>2. /\ Len(wal') = end
          /\ \A j \in 1..Len(wal) : wal'[j] = wal[j]
          /\ \A j \in Len(wal) + 1..end : \E i \in 1..Len(group) :
                /\ j - group[i].first \in 1..group[i].count
                /\ wal'[j] = Entries(group[i])[j - group[i].first]
        BY <1>1, <1>2, <1>9, <2>1, WriteFacts
    <2>3. end \in Nat /\ Len(wal) <= end /\ \A j \in 1..end : j \in 1..Len(wal) \/ j \in Len(wal) + 1..end
        BY <1>6, <2>1, SMT
    <2>4. ASSUME NEW q \in Request, Written(q)'
          PROVE  Written(q) \/ \E i \in 1..Len(group) : group[i].req = q
        <3>1. PICK j \in 1..end : wal'[j].req = q
            BY <2>2, <2>4 DEF Written
        <3>2. CASE j \in 1..Len(wal)
            BY <2>2, <3>1, <3>2 DEF Written
        <3>3. CASE j \in Len(wal) + 1..end
            <4>1. PICK i \in 1..Len(group) :
                     /\ j - group[i].first \in 1..group[i].count
                     /\ wal'[j] = Entries(group[i])[j - group[i].first]
                BY <2>2, <3>3
            <4>2. Entries(group[i])[j - group[i].first].req = group[i].req
                BY <4>1, EntryFields
            <4> QED BY <3>1, <4>1, <4>2
        <3> QED BY <2>3, <3>2, <3>3
    <2>5. \A q \in Request : Durable(q) => Durable(q)'
        BY <1>3, <1>6, <1>9, <2>2, <2>3, DurableKeeps, LeqFacts
    <2>6. PICK outcome : outcome = "uncertain"
        OBVIOUS
    <2>7. outcome # "ok" /\ outcome # "rejected"
        BY <2>6
    <2>8. /\ \A c \in completed' :
                \/ c \in completed
                \/ c.outcome = outcome /\ \E i \in 1..Len(group) : c.ticket = group[i].first
          /\ group' = <<>> \/ group' = group
          /\ stage' # "collect"
        BY <1>9, <2>6, CompletionFacts
    <2>9. Answers'
        BY <1>3, <1>4, <2>4, <2>5, <2>7, <2>8, ProcessAnswers
    <2> QED BY <1>5, <2>9
<1>10. Len(wal)..GroupEnd - 1 \subseteq Len(wal)..GroupEnd
    BY <1>6, SMT
<1>11. Continuous => GroupEnd \in Len(wal)..GroupEnd
    <2>1. /\ \A i \in 1..Len(group) : group[i].first + group[i].count <= GroupEnd
          /\ 1 \in 1..Len(group)
        BY <1>1, <1>2, EndFacts
    <2>2. group[1].first \in Nat /\ group[1].count \in Nat
        BY <1>1, <2>1, GroupItems
    <2>3. \A a, b, c \in Nat : a + b <= c => c \in a..c
        BY SMT
    <2> QED BY <1>6, <2>1, <2>2, <2>3 DEF Continuous
<1>12. mark' = [mark EXCEPT !.appended = GroupEnd] =>
          mark'.applied = mark.applied /\ mark'.local = mark.local
    <2>1. mark \in [appended : Nat, local : Nat, replicated : Nat,
                    committed : Nat, applied : Nat]
        BY <1>1 DEF TypeOK
    <2> QED BY <2>1, SMT
<1>13. CASE /\ fatal = "none" /\ Continuous
            /\ \E end \in Len(wal)..GroupEnd - 1 : WriteUpTo(end)
            /\ FailGroup("append", "uncertain") /\ UNCHANGED mark
    BY <1>9, <1>10, <1>13 DEF FailGroup
<1>14. CASE /\ fatal = "none" /\ Continuous /\ WriteUpTo(GroupEnd)
            /\ mark' = [mark EXCEPT !.appended = GroupEnd]
            /\ stage' = "sync"
            /\ UNCHANGED <<fatal, group, completed>>
    BY <1>9, <1>11, <1>12, <1>14
<1>15. CASE FailGroup("gap", "uncertain") /\ UNCHANGED <<wal, mark>>
    BY <1>8, <1>15 DEF FailGroup
<1> QED BY <1>5, <1>7, <1>13, <1>14, <1>15 DEF AppendGroup, CanProcess

(***************************************************************************)
(* The theorems                                                            *)
(***************************************************************************)
\* The inductive invariant of the committer.
CommitInv == OrderInv /\ Filled /\ Sequenced /\ Answers

\* CommitInv holds when the store opens.
LEMMA InitCommit == Init => CommitInv
<1> SUFFICES ASSUME Init PROVE CommitInv
    OBVIOUS
<1>1. OrderInv /\ Filled
    BY InitOrder DEF Init, Filled
<1> USE DEF Init
<1>2. 1..Len(queue) = {} /\ 1..Len(carry) = {} /\ 1..Len(group) = {} /\ 1..Len(wal) = {}
    BY NoItems
<1>3. InFlight = {}
    BY <1>2 DEF InFlight
<1>4. \A r \in Request : call[r].pc = "idle" /\ result[r] = "none"
    OBVIOUS
<1>5. TailsMatch
    <2>1. \A s \in StreamId : tail[s] = 0
        OBVIOUS
    <2>2. mark.applied = 0 /\ 1..0 = {} /\ 0..0 - 1 = {}
        BY SMT
    <2>3. \A s : Table(s) = {}
        BY <2>2 DEF Table
    <2> QED BY <2>1, <2>2, <2>3 DEF TailsMatch
<1>8. Sequenced
    BY <1>2, <1>3, <1>4, <1>5 DEF Sequenced, SequencesContinuous, ValidatedStaysValid
<1>6. \A r \in Request : ~Written(r) /\ Clean(r)
    BY <1>2, <1>3 DEF Clean, Written
<1>7. Answers
    BY <1>3, <1>4, <1>6 DEF Answers
<1> QED BY <1>1, <1>7, <1>8 DEF CommitInv

\* Every step keeps CommitInv.
LEMMA CommitStep ==
    ASSUME CommitInv, [Next]_vars
    PROVE  CommitInv'
<1>1. OrderInv /\ Filled /\ Sequenced /\ Answers
    BY DEF CommitInv
<1>2. OrderInv' /\ Filled'
    BY <1>1, OrderStep, FilledStep
<1>3. CASE UNCHANGED vars
    <2>1. UNCHANGED <<callVars, commitVars, completed>>
        BY <1>3 DEF vars
    <2>2. Sequenced' /\ Answers'
        BY <1>1, <2>1, QuietAnswers
    <2> QED BY <1>2, <2>2 DEF CommitInv
<1>4. CASE \E r \in Request : CallStep(r) \/ ClientStep(r)
    <2>1. PICK r \in Request : CallStep(r) \/ ClientStep(r)
        BY <1>4
    <2>2. CASE SendPending(r)
        BY <1>1, <1>2, <2>2, SendPendingAnswers DEF CommitInv
    <2>3. CASE \/ CallAppend(r) \/ AcquireAppendGate(r) \/ CancelAtGate(r)
               \/ LockEngine(r) \/ BeginRegistry(r) \/ ResolveTail(r)
               \/ RegistryCommitted(r) \/ AppendReturns(r) \/ CancelWait(r)
        <3>1. Settles(r)
            BY <1>1, <2>3, CallerSettles
        <3> QED BY <1>1, <1>2, <3>1, SettledStep DEF CommitInv
    <2> QED BY <2>1, <2>2, <2>3 DEF CallStep, ClientStep
<1>5. CASE \E s \in Stream : FinishAppend(s)
    BY <1>1, <1>2, <1>5, ControllerAnswers DEF CommitInv
<1>6. CASE BeginBarrier \/ BarrierReturns \/ CancelBarrier \/ BeginClose \/ CloseReturns
    BY <1>1, <1>2, <1>6, ControllerAnswers DEF CommitInv
<1>7. CASE SendBarrier \/ SendShutdown
    BY <1>1, <1>2, <1>7, SendControlAnswers DEF CommitInv
<1>8. CASE HandleControl \/ StartGroup \/ CollectNext
    BY <1>1, <1>2, <1>8, CollectAnswers DEF CommitInv
<1>9. CASE AppendGroup
    BY <1>1, <1>2, <1>9, AppendGroupAnswers DEF CommitInv
<1>10. CASE SyncGroup
    BY <1>1, <1>2, <1>10, SyncGroupAnswers DEF CommitInv
<1>11. CASE ReplicateGroup
    BY <1>1, <1>2, <1>11, ReplicateGroupAnswers DEF CommitInv
<1>12. CASE CommitGroup
    BY <1>1, <1>2, <1>12, CommitGroupAnswers DEF CommitInv
<1>13. CASE ApplyNext
    BY <1>1, <1>2, <1>13, ApplyNextAnswers DEF CommitInv
<1>14. CASE CompleteSuccess
    BY <1>1, <1>2, <1>14, CompleteSuccessAnswers DEF CommitInv
<1> QED BY <1>3, <1>4, <1>5, <1>6, <1>7, <1>8, <1>9, <1>10, <1>11, <1>12, <1>13, <1>14
        DEF Next, CloseStep, RunStep

\* CommitInv is an invariant of the committer for any requests, streams, batch
\* sizes, retries and capacities.
THEOREM CommitCorrect == Spec => []CommitInv
<1>1. Init => CommitInv
    BY InitCommit
<1>2. CommitInv /\ [Next]_vars => CommitInv'
    BY CommitStep
<1> QED BY <1>1, <1>2, PTL DEF Spec

\* Retries, cancelled waits and rivals never leave a gap or a repetition in a
\* stream of the WAL, the registry's included.
THEOREM StreamsContinuous == Spec => []SequencesContinuous
<1>1. CommitInv => SequencesContinuous
    BY DEF CommitInv, Sequenced
<1> QED BY <1>1, CommitCorrect, PTL

\* A batch that ValidateBatch accepted is never refused by process or by the
\* MemTable.
THEOREM ValidationHolds == Spec => []ValidatedStaysValid
<1>1. CommitInv => ValidatedStaysValid
    BY DEF CommitInv, Sequenced
<1> QED BY <1>1, CommitCorrect, PTL

\* A successful Append, deduplicated or not, has its whole batch at its
\* expected sequence in both durable logs and in the MemTable.
THEOREM AppendDurable == Spec => []SuccessIsDurable
<1>1. CommitInv => SuccessIsDurable
    BY DEF CommitInv, Answers, Durable, SuccessIsDurable
<1> QED BY <1>1, CommitCorrect, PTL

\* A rejected Append that was never uncertain has nothing in the WAL or on its
\* way there.
THEOREM RejectionCertain == Spec => []RejectedNeverWritten
<1>1. CommitInv => RejectedNeverWritten
    <2> SUFFICES ASSUME CommitInv, NEW r \in Request, result[r] = "rejected",
                        call[r].pc = "idle", r \notin unsure
                 PROVE  ~Written(r) /\ \A p \in InFlight : p.req # r
        BY DEF RejectedNeverWritten
    <2>1. Clean(r)
        BY DEF CommitInv, Answers
    <2> QED BY <2>1 DEF Clean
<1> QED BY <1>1, CommitCorrect, PTL
=============================================================================
