------------------------------ MODULE Catalog ------------------------------
(***************************************************************************)
(* Names, tails and reads of one engine: the Registry with its Snapshot    *)
(* and overlay (storage/registry), the tail resolver (storage/tail), the   *)
(* read store over Segments, Locator and MemTables (storage/read), and the *)
(* two maintenance operations that replace them while appends go on,       *)
(* Checkpoint and Compact (storage/engine, storage/lifecycle).             *)
(*                                                                         *)
(* The log of committed entries is the truth: it survives every crash, and *)
(* module Storage models how.  Everything else is derived from it, by the  *)
(* operators of module Projections, at the steps at which the code does.   *)
(* The projection files of a generation can become unreadable at any time, *)
(* and so can, in an environment of its own, a frame in a Segment.         *)
(*                                                                         *)
(* Entry IDs count from 1.  A Manifest generation writes one Segment, and  *)
(* the generation is the ID of that Segment.                               *)
(***************************************************************************)
EXTENDS Projections

CONSTANTS
    Names,          \* stream names: numbers, in the order of the names
    Times,          \* readings of the clock
    Environment,    \* bounds on the log and the damage: entries, projections, frames
    MaxGenerations, \* bound on the Manifests published
    MinSegments,    \* Segments that make a compaction worth while
    Limits          \* bounds on the inputs of a compaction: segments, bytes

ASSUME CatalogAssumption == Names \subseteq Nat /\ Times \subseteq Nat /\ MinSegments >= 2

Kinds == {"tail", "locator", "registry"}

VARIABLES
    env,        \* the environment of this behaviour
    log,        \* committed entries
    manifest,   \* generation, Segments, Locator with tails, Registry Snapshot
    bad,        \* unreadable projections: generation and kind
    lost,       \* entries whose frame in a Segment is unreadable
    mode,       \* down, up, failed (to open), fatal
    job,        \* maintenance in progress: none, frozen, flushed, merged
    active,     \* MemTable: for each stream its base, tail and records
    frozen,     \* MemTable being flushed, empty when there is none
    view,       \* the Manifest the reader uses and the projections it opened
    reg,        \* Registry: overlay, next Stream ID, covered entry, base
    clock       \* time of the last record

vars == <<env, log, manifest, bad, lost, mode, job, active, frozen, view, reg, clock>>
diskVars == <<env, log, manifest, bad, lost>>
memVars == <<active, frozen, view, reg, clock>>

NoManifest == [gen |-> 0, segs |-> <<>>, pack |-> EmptyPack, names |-> <<>>]

Covered(m) == Max({0} \cup {LastEntryID(seg) : seg \in ToSet(m.segs)})

Readable(gen, kind) == <<gen, kind>> \notin bad

-----------------------------------------------------------------------------
(* Registry.                                                               *)

EmptyRegistry == [keys |-> <<>>, next |-> 1, covered |-> 0, base |-> NoManifest]

NewWithSnapshot(m) ==
    [keys |-> <<>>, next |-> Len(m.names) + 1, covered |-> Covered(m), base |-> m]

HasSnapshot(r) == r.base # NoManifest

\* Enter one mapping in the overlay.
ApplyMapping(r, mapping) ==
    IF mapping.key \in DOMAIN r.keys
    THEN IF r.keys[mapping.key] = mapping THEN Found(r) ELSE Failed
    ELSE IF \E k \in DOMAIN r.keys : r.keys[k].id = mapping.id THEN Failed
    ELSE IF HasSnapshot(r) /\ mapping.id < r.next THEN Failed
    ELSE Found([r EXCEPT !.keys = @ @@ (mapping.key :> mapping), !.next = Max({@, mapping.id + 1})])

ApplyAll(Step(_, _), r, mappings) ==
    FoldLeft(LAMBDA done, mapping : Then(done, LAMBDA before : Step(before, mapping)), Found(r), mappings)

RebuildFrom(r, mappings) ==
    Then(ApplyAll(ApplyMapping, EmptyRegistry, mappings),
         LAMBDA rebuilt : Found([rebuilt EXCEPT !.covered = r.covered]))

\* Mutant: the overlay is not carried over.
RebuildBaseOnly(r) == Then(VisitFacts(r.base.segs, lost), LAMBDA facts : RebuildFrom(r, facts))

\* Replace an unreadable Snapshot by the facts in the Segments and the overlay.
Rebuild(r) ==
    Then(VisitFacts(r.base.segs, lost),
         LAMBDA facts : RebuildFrom(r, facts \o SetToSeq(Range(r.keys))))

\* A name that sorts before the first block is missing without a read.
BaseLookup(base, key) ==
    IF ~Readable(base.gen, "registry") /\ base.names # <<>> /\ Head(base.names).key <= key THEN Failed
    ELSE SnapshotLookup(base.names, key)

InOverlay(r, key) == IF key \in DOMAIN r.keys THEN Found(r.keys[key]) ELSE Missing

\* The overlay, then the Snapshot, then the rebuilt overlay: the result and
\* the Registry the lookup leaves.
Lookup(r, key) ==
    LET Again(rebuilt) == IF rebuilt.status = "failed" THEN [reg |-> r, found |-> Failed]
                          ELSE [reg |-> rebuilt.value, found |-> InOverlay(rebuilt.value, key)]
        Looked(inBase) == IF inBase.status = "failed" THEN Again(Rebuild(r))
                          ELSE [reg |-> r, found |-> inBase]
    IN  IF key \in DOMAIN r.keys \/ ~HasSnapshot(r) THEN [reg |-> r, found |-> InOverlay(r, key)]
        ELSE Looked(BaseLookup(r.base, key))

\* A Registry record from the log or a mapping carried over: entries are
\* applied in log order.
ApplyRecord(r, mapping) ==
    LET Apply(looked) ==
            IF looked.found.status = "failed" THEN Failed
            ELSE IF looked.found.status = "found"
            THEN IF looked.found.value = mapping THEN Found(looked.reg) ELSE Failed
            ELSE IF mapping.created < looked.reg.covered THEN Failed
            ELSE Then(ApplyMapping(looked.reg, mapping),
                      LAMBDA applied : Found([applied EXCEPT !.covered = Max({@, mapping.created})]))
    IN  Apply(Lookup(r, mapping.key))

MappingsAfter(r, entry) == {mapping \in Range(r.keys) : mapping.created > entry}

-----------------------------------------------------------------------------
(* MemTable and tail resolver.                                             *)

NoStream == [base |-> 0, next |-> 0, at |-> 0, recs |-> <<>>]

SeedTail(table, s, tail) ==
    table @@ (s :> [base |-> tail.next, next |-> tail.next, at |-> tail.at, recs |-> <<>>])

InMemory(table, s) == IF s \in DOMAIN table THEN table[s] ELSE NoStream

Extend(table, stream, record) ==
    (record.stream :> [stream EXCEPT !.next = record.seq + 1, !.at = record.at,
                                     !.recs = Append(@, record)]) @@ table

\* A record continues the tail of its stream.
ApplyToTable(table, record) ==
    LET Apply(stream) ==
            IF record.seq # stream.next \/ (stream.next > 0 /\ record.at < stream.at) THEN Failed
            ELSE Found(Extend(table, stream, record))
    IN  Apply(InMemory(table, record.stream))

HasRecords(table) == \E s \in DOMAIN table : table[s].recs # <<>>

\* Mutant: the streams with records are left out of the successor.
TailsWritten(table) ==
    [s \in {t \in DOMAIN table : table[t].recs = <<>>} |->
        [base |-> table[s].next, next |-> table[s].next, at |-> table[s].at, recs |-> <<>>]]

\* The successor of a frozen table: every tail, no record.
Tails(table) ==
    [s \in DOMAIN table |->
        [base |-> table[s].next, next |-> table[s].next, at |-> table[s].at, recs |-> <<>>]]

PruneSeeded(table) == [s \in {t \in DOMAIN table : table[t].recs # <<>>} |-> table[s]]

\* The tail of a stream: the MemTable, the Tail Catalog, the directories.
TailOf(v, table, s) ==
    LET Slot(slot) == IF slot.status = "found" THEN slot ELSE ScanFacts(v.on.segs, s) IN
    IF s \in DOMAIN table THEN Found([next |-> table[s].next, at |-> table[s].at])
    ELSE Then(Slot(IF v.tail /\ Readable(v.on.gen, "tail") THEN TailSlot(v.on.pack, s) ELSE Missing),
              LAMBDA tail : Found([next |-> tail.next, at |-> tail.at]))

EnsureActive(v, table, s) ==
    LET Seed(tail) == IF tail.status = "failed" THEN Failed
                      ELSE IF tail.status = "missing" \/ s \in DOMAIN table THEN Found(table)
                      ELSE Found(SeedTail(table, s, tail.value))
    IN  Seed(TailOf(v, table, s))

-----------------------------------------------------------------------------
(* The read store.                                                         *)

InTable(table, s, seq) ==
    s \in DOMAIN table /\ seq >= table[s].base /\ seq < table[s].next

\* Mutant: the range of the active table alone.
ActiveRangeOfActive(s) ==
    IF s \in DOMAIN active THEN Found(active[s].base)
    ELSE IF s \in DOMAIN frozen THEN Found(frozen[s].base) ELSE Missing

\* Where the MemTables take over: at the frozen records when there are any.
ActiveRange(s) ==
    IF s \in DOMAIN frozen /\ frozen[s].base < frozen[s].next THEN Found(frozen[s].base)
    ELSE IF s \in DOMAIN active THEN Found(active[s].base)
    ELSE IF s \in DOMAIN frozen THEN Found(frozen[s].base) ELSE Missing

ReadTables(s, seq) ==
    LET At(table) == Found(table[s].recs[seq - table[s].base + 1]) IN
    IF InTable(frozen, s, seq) THEN At(frozen)
    ELSE IF InTable(active, s, seq) THEN At(active) ELSE Failed

Located(s, seq) ==
    IF view.locator /\ Readable(view.on.gen, "locator")
    THEN LookupSequence(view.on.pack, s, seq)
    ELSE Failed

\* By the Locator, or by the directories when it is missing or unreadable.
ReadSegment(s, seq) ==
    LET Named(id) == CHOOSE seg \in ToSet(view.on.segs) : seg.id = id
        In(located) == IF located.status = "found" THEN Found(Named(located.value.segment))
                       ELSE FindExtent(view.on.segs, s, seq)
    IN  Then(In(Located(s, seq)), LAMBDA seg : ReadFrame(seg, s, seq, lost))

ReadRecord(s, seq) ==
    LET From(base) == IF base.status = "found" /\ seq >= base.value THEN ReadTables(s, seq)
                      ELSE ReadSegment(s, seq)
    IN  From(ActiveRange(s))

\* At most count records from a sequence number; Failed beyond the tail and
\* when one of them cannot be read.
Read(s, from, count) ==
    LET Whole(records) == IF \E i \in DOMAIN records : records[i].status # "found" THEN Failed
                          ELSE Found([i \in DOMAIN records |-> records[i].value])
        UpTo(tail) == IF from > tail.next THEN Failed
                      ELSE Whole([i \in 1..(Min({from + count, tail.next}) - from) |->
                                     ReadRecord(s, from + i - 1)])
    IN  Then(TailOf(view, active, s), UpTo)

\* The time of the first record: Locator, directories, MemTable.
FirstRecordedAt(s) ==
    LET First(located, extent) ==
            IF located.status = "found" THEN located.value.firstAt
            ELSE IF extent.status = "found" THEN extent.value.firstAt
            ELSE ReadTables(s, ActiveRange(s).value).value.at
    IN  First(Located(s, 0), FirstExtent(view.on.segs, s))

\* The first record at or after a time, or the last one at or before it.
ResolveTime(s, target, side) ==
    LET At(k) == ReadRecord(s, k).value.at
        After(i, n) == IF i = n THEN Missing ELSE Found(i)
        Before(i) == IF i = 0 THEN Missing ELSE Found(i - 1)
        Resolve(tail) == IF side = "after" THEN After(Search(tail.next, LAMBDA k : At(k) < target), tail.next)
                         ELSE Before(Search(tail.next, LAMBDA k : At(k) <= target))
    IN  Then(TailOf(view, active, s), Resolve)

-----------------------------------------------------------------------------
(* Entries: appended or replayed.                                          *)

Registered(st, record) ==
    IF record.stream # RegistryStream THEN Found(st)
    ELSE Then(ApplyRecord(st.reg, [key |-> record.key, id |-> record.id, created |-> record.entry]),
              LAMBDA r : Found([st EXCEPT !.reg = r]))

\* The tables and the Registry after an entry; Failed when the tail of its
\* stream cannot be found or the entry does not fit.
ApplyEntry(v, st, record) ==
    Then(EnsureActive(v, st.table, record.stream),
         LAMBDA table : Then(ApplyToTable(table, record),
                             LAMBDA applied : Registered([st EXCEPT !.table = applied], record)))

\* Commit one record at the tail of a stream.
Commit(st, s, at, key, id) ==
    LET Record(next) == [stream |-> s, seq |-> next, at |-> at, entry |-> Len(st.log) + 1,
                         key |-> key, id |-> id]
        Write(record) == ApplyEntry(view, [st EXCEPT !.log = Append(@, record)], record)
    IN  Then(EnsureActive(view, st.table, s), LAMBDA table : Write(Record(InMemory(table, s).next)))

\* An append to a name: the name gets a Stream ID when it has none, then the
\* tail is made active; the record follows unless the expected sequence
\* number is refused, which leaves the rest done.
AppendRecord(key, now, accepted) ==
    LET Named(looked) ==
            IF looked.found.status = "failed" THEN Failed
            ELSE IF looked.found.status = "found"
            THEN Found([id |-> looked.found.value.id, st |-> [log |-> log, table |-> active, reg |-> looked.reg]])
            ELSE Then(Commit([log |-> log, table |-> active, reg |-> looked.reg], RegistryStream,
                             Max({now, clock}), key, looked.reg.next),
                      LAMBDA st : Found([id |-> looked.reg.next, st |-> st]))
        Written(named) ==
            IF accepted THEN Commit(named.st, named.id, Max({now, clock}), 0, 0)
            ELSE Then(EnsureActive(view, named.st.table, named.id),
                      LAMBDA table : Found([named.st EXCEPT !.table = table]))
    IN  /\ mode = "up"
        /\ \E result \in {Then(Named(Lookup(reg, key)), Written)} :
            /\ result.status = "found"
            /\ Len(result.value.log) <= env.entries
            /\ log' = result.value.log /\ active' = result.value.table /\ reg' = result.value.reg
            /\ clock' = IF Len(result.value.log) > Len(log) THEN Max({now, clock}) ELSE clock
        /\ UNCHANGED <<env, manifest, bad, lost, mode, job, frozen, view>>

\* A read of a name, which may have to rebuild the Registry.
ReadName(key) ==
    /\ mode \in {"up", "fatal"}
    /\ reg' = Lookup(reg, key).reg
    /\ UNCHANGED <<diskVars, mode, job, active, frozen, view, clock>>

-----------------------------------------------------------------------------
(* Checkpoint and compaction.                                              *)

Fatal == mode' = "fatal" /\ UNCHANGED <<diskVars, job, memVars>>

\* Freeze the MemTable and switch to its successor.
BeginCheckpoint ==
    /\ mode = "up" /\ job = "none" /\ HasRecords(active)
    /\ frozen' = active /\ active' = Tails(active)
    /\ job' = "frozen"
    /\ UNCHANGED <<diskVars, mode, view, reg, clock>>

\* Write a Segment and the projections over all Segments, then the Manifest.
Publish(segs, next) ==
    LET covered == Covered([manifest EXCEPT !.segs = segs]) IN
    /\ manifest.gen < MaxGenerations
    /\ \E pack \in {BuildCheckpoint(segs)}, names \in {BuildRegistry(segs, covered, lost)} :
        IF pack.status = "failed" \/ names.status = "failed" THEN Fatal
        ELSE /\ manifest' = [gen |-> manifest.gen + 1, segs |-> segs, pack |-> pack.value,
                             names |-> names.value]
             /\ job' = next
             /\ UNCHANGED <<env, log, bad, lost, mode, memVars>>

PublishFlush ==
    /\ mode = "up" /\ job = "frozen"
    /\ \E streams \in {[s \in {t \in DOMAIN frozen : frozen[t].recs # <<>>} |-> frozen[s].recs]} :
        IF \E s \in DOMAIN streams : ~Continuous(streams[s]) THEN Fatal
        ELSE Publish(Append(manifest.segs, WriteFile(manifest.gen + 1, streams)), "flushed")

\* Compact replaces a run of adjacent Segments by their merge.
PublishCompaction ==
    /\ mode = "up" /\ job = "none"
    /\ Len(manifest.segs) >= MinSegments
    /\ \E inputs \in {SelectCompactionInputs(manifest.segs, Limits)} :
        /\ Len(inputs) >= 2
        /\ \E merged \in {PublishMerge(manifest.segs, inputs, manifest.gen + 1, lost)} :
            IF merged.status = "failed" THEN Fatal ELSE Publish(merged.value, "merged")

\* Install the published generation: open its projections, carry the overlay
\* of the Registry over, in the order in which a map yields it, and switch
\* the reader.  A checkpoint also drops the frozen table and the tails that
\* were only seeded.
Install ==
    /\ mode = "up" /\ job \in {"flushed", "merged"}
    /\ \/ (\E kind \in Kinds : ~Readable(manifest.gen, kind)) /\ Fatal
       \/ \E order \in SetToSeqs(MappingsAfter(reg, Covered(manifest))) :
            \E next \in {ApplyAll(ApplyRecord, NewWithSnapshot(manifest), order)} :
            IF next.status = "failed" THEN Fatal
            ELSE /\ view' = [on |-> manifest, tail |-> TRUE, locator |-> TRUE]
                 /\ reg' = next.value
                 /\ active' = IF job = "flushed" THEN PruneSeeded(active) ELSE active
                 /\ frozen' = <<>>
                 /\ bad' = {b \in bad : b[1] = manifest.gen}
                 /\ job' = "none"
                 /\ UNCHANGED <<env, log, manifest, lost, mode, clock>>

-----------------------------------------------------------------------------
(* Faults and recovery.                                                    *)

Damage(gen, kind) ==
    /\ gen \in {manifest.gen, view.on.gen} \ {0}
    /\ Cardinality(bad) < env.projections
    /\ bad' = bad \cup {<<gen, kind>>}
    /\ UNCHANGED <<env, log, manifest, lost, mode, job, memVars>>

\* A frame in a Segment becomes unreadable.
LoseFrame(record) ==
    /\ Cardinality(lost) < env.frames
    /\ lost' = lost \cup {record.entry}
    /\ UNCHANGED <<env, log, manifest, bad, mode, job, memVars>>

Crash ==
    /\ mode # "down"
    /\ mode' = "down" /\ job' = "none"
    /\ active' = <<>> /\ frozen' = <<>> /\ reg' = EmptyRegistry /\ clock' = 0
    /\ view' = [on |-> NoManifest, tail |-> FALSE, locator |-> FALSE]
    /\ bad' = {b \in bad : b[1] = manifest.gen}
    /\ UNCHANGED <<env, log, manifest, lost>>

\* The Registry before the replay: over the Snapshot when it opens, else from
\* the facts, whose mappings come in the order in which a map yields them.
StartRegistries(opened) ==
    LET Orders(facts) == IF facts.status = "failed" THEN {Failed}
                         ELSE {ApplyAll(ApplyRecord, EmptyRegistry, order) : order \in SetToSeqs(ToSet(facts.value))}
    IN  IF opened THEN {Found(NewWithSnapshot(manifest))} ELSE Orders(VisitFacts(manifest.segs, lost))

\* A damaged projection is noticed when it is opened or only when it is read.
Opens(kind) == IF manifest.gen = 0 THEN {FALSE}
               ELSE {TRUE} \cup (IF Readable(manifest.gen, kind) THEN {} ELSE {FALSE})
OpenTailCatalog == Opens("tail")
OpenLocator == Opens("locator")
OpenRegistry == Opens("registry")

\* The entries of the WAL after the checkpoint.
Replayed(v, r) ==
    FoldLeft(LAMBDA done, record : Then(done, LAMBDA st : ApplyEntry(v, st, record)),
             Found([table |-> <<>>, reg |-> r]),
             SubSeq(log, Covered(manifest) + 1, Len(log)))

LastRecordedAt(table) ==
    Max({LatestRecordedAt(manifest.segs)} \cup {table[s].at : s \in DOMAIN table})

Open ==
    /\ mode \in {"down", "failed"}
    /\ \E tail \in OpenTailCatalog, locator \in OpenLocator, opened \in OpenRegistry :
        \E v \in {[on |-> manifest, tail |-> tail, locator |-> locator]},
           start \in StartRegistries(opened) :
            \E result \in {Then(start, LAMBDA r : Replayed(v, r))} :
                IF result.status = "failed"
                THEN mode' = "failed" /\ UNCHANGED <<diskVars, job, memVars>>
                ELSE /\ view' = v
                     /\ active' = result.value.table /\ reg' = result.value.reg
                     /\ clock' = LastRecordedAt(result.value.table)
                     /\ mode' = "up"
                     /\ UNCHANGED <<diskVars, job, frozen>>

Init ==
    /\ env \in Environment
    /\ log = <<>> /\ manifest = NoManifest /\ bad = {} /\ lost = {}
    /\ mode = "down" /\ job = "none"
    /\ active = <<>> /\ frozen = <<>> /\ reg = EmptyRegistry /\ clock = 0
    /\ view = [on |-> NoManifest, tail |-> FALSE, locator |-> FALSE]

Next ==
    \/ \E key \in Names, now \in Times, accepted \in BOOLEAN : AppendRecord(key, now, accepted)
    \/ \E key \in Names : ReadName(key)
    \/ BeginCheckpoint \/ PublishFlush \/ PublishCompaction \/ Install
    \/ \E gen \in {manifest.gen, view.on.gen}, kind \in Kinds : Damage(gen, kind)
    \/ \E seg \in ToSet(manifest.segs) : \E record \in Records(seg) : LoseFrame(record)
    \/ Crash \/ Open

Spec == Init /\ [][Next]_vars

-----------------------------------------------------------------------------
(* Properties.                                                             *)

Serving == mode \in {"up", "fatal"}

OfStream(s) == SelectSeq(log, LAMBDA r : r.stream = s)

Streams == {log[i].stream : i \in DOMAIN log}

\* The types of the variables.
TypeOK ==
    /\ env \in Environment
    /\ \A i \in DOMAIN log : log[i].entry = i /\ log[i].at \in Times
    /\ manifest.gen \in Nat /\ bad \subseteq Nat \X Kinds /\ lost \subseteq 1..env.entries
    /\ mode \in {"down", "up", "failed", "fatal"}
    /\ job \in {"none", "frozen", "flushed", "merged"}
    /\ reg.next \in Nat \ {0} /\ DOMAIN reg.keys \subseteq Names
    /\ clock \in Times \cup {0}

\* A read returns what was committed: from every sequence number and with
\* every limit, while a checkpoint or a compaction is between two of its
\* steps, after it has failed, after a restart, and whichever projections
\* cannot be read.  With an unreadable frame it can fail but not differ.
\* ResolveTime finds the first record at or after a time and the last one at
\* or before it.
ReadsMatchLog ==
    Serving =>
        \A s \in Streams :
            /\ \A from \in 0..Len(OfStream(s)), count \in 1..2 :
                \E result \in {Read(s, from, count)} :
                    \/ result = Found(SubSeq(OfStream(s), from + 1, Min({from + count, Len(OfStream(s))})))
                    \/ result = Failed /\ lost \cap {r.entry : r \in ToSet(OfStream(s))} # {}
            /\ lost = {} => \A target \in Times :
                LET late == {i \in DOMAIN OfStream(s) : OfStream(s)[i].at >= target}
                    early == {i \in DOMAIN OfStream(s) : OfStream(s)[i].at <= target}
                IN  /\ ResolveTime(s, target, "after") =
                           IF late = {} THEN Missing ELSE Found(Min(late) - 1)
                    /\ ResolveTime(s, target, "before") =
                           IF early = {} THEN Missing ELSE Found(Max(early) - 1)

\* What InspectStream reports, and what an append takes its sequence number
\* from, is the end of the stream in the log; so the sequence numbers of every
\* stream are 0, 1, 2 and so on and time never runs backwards, across
\* checkpoints, restarts and rebuilt tails.
TailsMatchLog ==
    /\ Serving =>
        \A s \in Streams :
            /\ TailOf(view, active, s) = Found([next |-> Len(OfStream(s)), at |-> Last(OfStream(s)).at])
            /\ FirstRecordedAt(s) = Head(OfStream(s)).at
    /\ \A s \in Streams : \A i \in DOMAIN OfStream(s) : OfStream(s)[i].seq = i - 1
    /\ \A i \in 2..Len(log) : log[i].at >= log[i - 1].at

\* The Registry in memory knows exactly the names in the log, whether they
\* are in the Snapshot, in the overlay or had to be rebuilt, and no name was
\* given an ID twice or an ID that another name has.
NamesMatchLog ==
    Serving /\ lost = {} =>
        /\ \A i \in DOMAIN OfStream(RegistryStream) : OfStream(RegistryStream)[i].id = i
        /\ \A key \in Names :
            LET of == SelectSeq(OfStream(RegistryStream), LAMBDA r : r.key = key)
            IN  Lookup(reg, key).found =
                    IF of = <<>> THEN Missing
                    ELSE Found([key |-> key, id |-> Last(of).id, created |-> Head(of).entry])

\* The Segments of the Manifest hold a prefix of the log, every entry once.
ManifestIsPrefix ==
    /\ UNION {Records(seg) : seg \in ToSet(manifest.segs)} = {log[i] : i \in 1..Covered(manifest)}
    /\ \A i, j \in DOMAIN manifest.segs :
        i # j => Records(manifest.segs[i]) \cap Records(manifest.segs[j]) = {}

\* The Locator alone, without the directories it falls back to, finds every
\* record of the Segments it was built from and no other.
LocatorFindsAll ==
    manifest.gen > 0 =>
        \A s \in Streams : \A seq \in 0..Len(OfStream(s)) :
            LET located == LookupSequence(manifest.pack, s, seq)
                extent == FindExtent(manifest.segs, s, seq)
            IN  IF extent.status = "found"
                THEN located.status = "found" /\ located.value.segment = extent.value.id
                ELSE located = Missing

\* No Stream ID is given to two names and no name gets two, even when a
\* frame of the Registry Stream cannot be read.
StreamIDsUnique ==
    \A i, j \in {k \in DOMAIN log : log[k].stream = RegistryStream} :
        log[i].id = log[j].id \/ log[i].key = log[j].key => i = j

\* Streams can be created while a checkpoint or a compaction is running; it
\* does not stop the engine when nothing on the disk is damaged.
MaintenanceSurvives == mode = "fatal" => bad # {}
=============================================================================
