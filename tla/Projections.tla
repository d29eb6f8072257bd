---------------------------- MODULE Projections ----------------------------
(***************************************************************************)
(* Segments and what is computed from them, as operators: the directory of *)
(* a Segment (storage/segment), the sorted run of extents and the pages    *)
(* and roots of the Locator (storage/locator), the slots of the Tail       *)
(* Catalog (storage/tail), the blocks of the Registry Snapshot and the     *)
(* scan of the Registry Stream it is rebuilt from (storage/registry).      *)
(*                                                                         *)
(* A record has its stream, sequence number, time and entry ID, and for a  *)
(* record of the Registry Stream the name and the Stream ID it assigns.    *)
(* Every frame has the same length, so that byte offsets run with sequence *)
(* numbers and are left out.  A Segment is its ID and, for each stream,    *)
(* the records of its block.  The external merge sorts of the builders are *)
(* modelled by what they produce, the sorted run.                          *)
(***************************************************************************)
EXTENDS Naturals, Sequences, SequencesExt, FiniteSets, TLC

CONSTANTS
    PageExtents,   \* extents on one Locator page
    BlockEntries   \* entries in one block of the Registry Snapshot

ASSUME PageAssumption == PageExtents \in Nat \ {0} /\ BlockEntries \in Nat \ {0}

RegistryStream == 0

\* The results of a lookup that can find nothing or fail.
Missing == [status |-> "missing"]
Failed == [status |-> "failed"]
Found(v) == [status |-> "found", value |-> v]

\* Go on with what was found; nothing found and a failure are passed on.
Then(result, Use(_)) == IF result.status = "found" THEN Use(result.value) ELSE result

\* The first index of 0..(n-1) that is not Before, by halving.
Search(n, Before(_)) ==
    LET at[low \in 0..n, high \in 0..n] ==
            IF low >= high THEN low
            ELSE LET mid == low + (high - low) \div 2
                 IN  IF Before(mid) THEN at[mid + 1, high] ELSE at[low, mid]
    IN  at[0, n]

-----------------------------------------------------------------------------
(* Segments.                                                               *)

\* The frames of one stream in a Segment or a merge follow each other.
Continuous(records) ==
    \A i \in 2..Len(records) :
        /\ records[i].seq = records[i - 1].seq + 1
        /\ records[i].at >= records[i - 1].at

WriteFile(id, streams) == [id |-> id, blocks |-> streams]

Records(seg) == UNION {ToSet(seg.blocks[s]) : s \in DOMAIN seg.blocks}

FirstEntryID(seg) == Min({r.entry : r \in Records(seg)})
LastEntryID(seg) == Max({r.entry : r \in Records(seg)})
FileSize(seg) == Cardinality(Records(seg))

Directory(seg, s) ==
    LET records == seg.blocks[s] IN
    [segment |-> seg.id, stream |-> s, first |-> Head(records).seq, count |-> Len(records),
     firstAt |-> Head(records).at, lastAt |-> Last(records).at, lastEntry |-> Last(records).entry]

Directories(seg) == {Directory(seg, s) : s \in DOMAIN seg.blocks}

Holds(extent, seq) == seq >= extent.first /\ seq < extent.first + extent.count

\* One frame; lost holds the entry IDs whose frame in a Segment is damaged.
ReadFrame(seg, s, seq, lost) ==
    IF s \notin DOMAIN seg.blocks \/ ~Holds(Directory(seg, s), seq) THEN Failed
    ELSE IF seg.blocks[s][seq - Head(seg.blocks[s]).seq + 1].entry \in lost THEN Failed
    ELSE Found(seg.blocks[s][seq - Head(seg.blocks[s]).seq + 1])

\* The extent of a stream that holds a sequence number, Segment by Segment.
FindExtent(segs, s, seq) ==
    LET holding == {i \in DOMAIN segs :
                       s \in DOMAIN segs[i].blocks /\ Holds(Directory(segs[i], s), seq)}
    IN  IF holding = {} THEN Missing ELSE Found(segs[Min(holding)])

FirstExtent(segs, s) ==
    LET of == {Directory(segs[i], s) : i \in {i \in DOMAIN segs : s \in DOMAIN segs[i].blocks}}
    IN  IF of = {} THEN Missing
        ELSE Found(CHOOSE d \in of : \A e \in of : d.first <= e.first)

\* The time of the newest record of the newest Segment.
LatestRecordedAt(segs) ==
    IF segs = <<>> THEN 0
    ELSE LET directories == UNION {Directories(seg) : seg \in ToSet(segs)}
         IN  (CHOOSE d \in directories : \A e \in directories : e.lastEntry <= d.lastEntry).lastAt

-----------------------------------------------------------------------------
(* Compaction: the choice of its inputs and the merge.                     *)

InEntryOrder(segs) == SetToSortSeq(ToSet(segs), LAMBDA a, b : FirstEntryID(a) < FirstEntryID(b))

\* One more Segment for a run of adjacent inputs within the limits.
Take(run, seg, limits) ==
    IF run.ended \/ Len(run.chosen) >= limits.segments THEN run
    ELSE IF \/ run.chosen # <<>> /\ FirstEntryID(seg) # LastEntryID(Last(run.chosen)) + 1
            \/ FileSize(seg) > limits.bytes - run.bytes
    THEN [run EXCEPT !.ended = TRUE]
    ELSE [run EXCEPT !.chosen = Append(@, seg), !.bytes = @ + FileSize(seg)]

RunFrom(ordered, start, limits) ==
    FoldLeft(LAMBDA run, seg : Take(run, seg, limits),
             [chosen |-> <<>>, bytes |-> 0, ended |-> FALSE],
             SubSeq(ordered, start, Len(ordered))).chosen

\* The first run of two or more, <<>> when there is none.
SelectCompactionInputs(segs, limits) ==
    LET Runs(ordered) == [i \in DOMAIN ordered |-> RunFrom(ordered, i, limits)]
        FirstRun(runs) == IF \E i \in DOMAIN runs : Len(runs[i]) >= 2
                          THEN runs[Min({i \in DOMAIN runs : Len(runs[i]) >= 2})] ELSE <<>>
    IN  FirstRun(Runs(InEntryOrder(segs)))

\* The frames of one stream in all the inputs, by sequence number.
MergedBlock(inputs, s) ==
    SetToSortSeq(UNION {ToSet(seg.blocks[s]) : seg \in {i \in ToSet(inputs) : s \in DOMAIN i.blocks}},
                 LAMBDA a, b : a.seq < b.seq)

\* The Segments of the Manifest after the merge.
PublishMerge(segs, inputs, id, lost) ==
    LET Replaced(merged) ==
            IF \E s \in DOMAIN merged : ~Continuous(merged[s]) THEN Failed
            ELSE Found(Append(SelectSeq(segs, LAMBDA seg : seg \notin ToSet(inputs)), WriteFile(id, merged)))
    IN  IF \E seg \in ToSet(inputs) : \E r \in Records(seg) : r.entry \in lost THEN Failed
        ELSE Replaced([s \in UNION {DOMAIN seg.blocks : seg \in ToSet(inputs)} |-> MergedBlock(inputs, s)])

-----------------------------------------------------------------------------
(* Locator and Tail Catalog, built in one pass over the run of extents.    *)

ExtentLess(a, b) ==
    \/ a.stream < b.stream
    \/ a.stream = b.stream /\ a.first < b.first
    \/ a.stream = b.stream /\ a.first = b.first /\ a.segment < b.segment

ExtentRun(segs) == SetToSortSeq(UNION {Directories(seg) : seg \in ToSet(segs)}, ExtentLess)

ExtentsContinuous(run) ==
    \A i \in 2..Len(run) :
        run[i].stream = run[i - 1].stream =>
            /\ run[i - 1].first + run[i - 1].count = run[i].first
            /\ run[i - 1].lastAt <= run[i].firstAt

EmptyPack == [pages |-> <<>>, open |-> <<>>, chained |-> FALSE, previous |-> 0,
              roots |-> <<>>, slots |-> <<>>]

\* Write the open page; chained when the stream already has one.
FlushPage(pack) ==
    IF pack.open = <<>> THEN pack
    ELSE [pack EXCEPT
            !.pages = Append(@, [extents |-> pack.open,
                                 previous |-> IF pack.chained THEN pack.previous ELSE 0]),
            !.previous = Len(pack.pages) + 1,
            !.chained = TRUE,
            !.open = <<>>]

\* The Tail Catalog has a slot for every Stream ID up to the last one.
EmitTail(slots, latest) ==
    slots \o [i \in 1..(latest.stream - Len(slots)) |-> [present |-> FALSE]]
          \o <<[present |-> TRUE, stream |-> latest.stream, next |-> latest.first + latest.count,
                at |-> latest.lastAt, entry |-> latest.lastEntry]>>

\* The root of a stream is its last page; its slot is its newest extent.
FinishStream(pack, latest) ==
    [FlushPage(pack) EXCEPT
        !.roots = Append(@, [stream |-> latest.stream, page |-> FlushPage(pack).previous]),
        !.slots = EmitTail(@, latest)]

FlushFull(pack) == IF Len(pack.open) = PageExtents THEN FlushPage(pack) ELSE pack

\* Mutant: every page starts a chain of its own.
AddExtentUnchained(run, pack, i) ==
    IF i > 1 /\ run[i - 1].stream # run[i].stream
    THEN FlushFull([FinishStream(pack, run[i - 1]) EXCEPT !.chained = FALSE, !.open = <<run[i]>>])
    ELSE FlushFull([pack EXCEPT !.chained = FALSE, !.open = Append(@, run[i])])

AddExtent(run, pack, i) ==
    IF i > 1 /\ run[i - 1].stream # run[i].stream
    THEN FlushFull([FinishStream(pack, run[i - 1]) EXCEPT !.chained = FALSE, !.open = <<run[i]>>])
    ELSE FlushFull([pack EXCEPT !.open = Append(@, run[i])])

BuildCheckpoint(segs) ==
    LET Build(run) ==
            IF run = <<>> \/ ~ExtentsContinuous(run) THEN Failed
            ELSE Found(FinishStream(FoldLeftDomain(LAMBDA pack, i : AddExtent(run, pack, i), EmptyPack, run),
                                    Last(run)))
    IN  Build(ExtentRun(segs))

LookupRoot(pack, s) ==
    LET At(i) == IF i = Len(pack.roots) THEN Missing
                 ELSE IF pack.roots[i + 1].stream # s THEN Missing ELSE Found(pack.roots[i + 1].page)
    IN  At(Search(Len(pack.roots), LAMBDA k : pack.roots[k + 1].stream < s))

\* The extent of a page that holds a sequence number.
FindInPage(extents, seq) ==
    LET At(i) == IF i = Len(extents) THEN Failed
                 ELSE IF seq < extents[i + 1].first THEN Failed ELSE Found(extents[i + 1])
    IN  At(Search(Len(extents), LAMBDA k : extents[k + 1].first + extents[k + 1].count <= seq))

\* What a page says of a sequence number of a stream; a page of another
\* stream is refused when it is read.
InPage(page, s, seq) ==
    IF Head(page.extents).stream # s THEN Failed
    ELSE IF seq >= Last(page.extents).first + Last(page.extents).count THEN Missing
    ELSE IF seq >= Head(page.extents).first THEN FindInPage(page.extents, seq)
    ELSE IF page.previous = 0 THEN Missing ELSE [status |-> "earlier"]

\* From the root page back along the previous pointers.
LookupSequence(pack, s, seq) ==
    LET Go(here, back) == IF here.status = "earlier" THEN back ELSE here
        walk[o \in DOMAIN pack.pages] ==
            Go(InPage(pack.pages[o], s, seq), walk[pack.pages[o].previous])
    IN  Then(LookupRoot(pack, s), LAMBDA page : walk[page])

\* A slot of the Tail Catalog: absent beyond the last stream and for a stream
\* that has no extent.
TailSlot(pack, s) ==
    IF s >= Len(pack.slots) THEN Missing
    ELSE IF ~pack.slots[s + 1].present THEN Missing ELSE Found(pack.slots[s + 1])

\* The tail of a stream from the directories alone, in entry order.
ScanFacts(segs, s) ==
    LET Newest(extents) ==
            IF extents = <<>> THEN Missing
            ELSE IF ~ExtentsContinuous(extents) THEN Failed
            ELSE Found([present |-> TRUE, stream |-> s, next |-> Last(extents).first + Last(extents).count,
                        at |-> Last(extents).lastAt, entry |-> Last(extents).lastEntry])
        Extents(with) == [i \in DOMAIN with |-> Directory(with[i], s)]
    IN  Newest(Extents(SelectSeq(InEntryOrder(segs), LAMBDA seg : s \in DOMAIN seg.blocks)))

-----------------------------------------------------------------------------
(* Registry Snapshot.                                                      *)

\* The mappings one extent of the Registry Stream yields: reading stops at
\* the first frame that cannot be read or does not continue the assignment,
\* and the error, assigned to a variable of the loop, is dropped.
VisitExtent(seg, lost) ==
    LET records == seg.blocks[RegistryStream]
        bad == {i \in DOMAIN records : records[i].entry \in lost \/ records[i].id # records[i].seq + 1}
        upto == IF bad = {} THEN Len(records) ELSE Min(bad) - 1
    IN  [i \in 1..upto |-> [key |-> records[i].key, id |-> records[i].id, created |-> records[i].entry]]

RegistryRun(segs) ==
    SetToSortSeq({seg \in ToSet(segs) : RegistryStream \in DOMAIN seg.blocks},
                 LAMBDA a, b : Directory(a, RegistryStream).first < Directory(b, RegistryStream).first)

RegistryRunFollows(run) ==
    \A i \in DOMAIN run :
        Directory(run[i], RegistryStream).first =
            IF i = 1 THEN 0
            ELSE Directory(run[i - 1], RegistryStream).first + Directory(run[i - 1], RegistryStream).count

\* All mappings, in the order of the Registry Stream.
VisitFacts(segs, lost) ==
    LET Visit(run) ==
            IF ~RegistryRunFollows(run) THEN Failed
            ELSE Found(FlattenSeq([i \in DOMAIN run |-> VisitExtent(run[i], lost)]))
    IN  Visit(RegistryRun(segs))

CompareEntries(a, b) == a.key < b.key

\* The mappings by name, as the external merge sort leaves them.
BuildRegistryRun(facts) == SortSeq(facts, CompareEntries)

\* No name twice, no mapping after the checkpoint.
InspectRegistryRun(run, covered) ==
    /\ \A i \in DOMAIN run : run[i].created <= covered
    /\ \A i \in 2..Len(run) : CompareEntries(run[i - 1], run[i])

BuildRegistry(segs, covered, lost) ==
    LET Inspected(run) == IF InspectRegistryRun(run, covered) THEN Found(run) ELSE Failed
    IN  Then(VisitFacts(segs, lost), LAMBDA facts : Inspected(BuildRegistryRun(facts)))

Block(names, i) == SubSeq(names, (i - 1) * BlockEntries + 1, Min({i * BlockEntries, Len(names)}))

Blocks(names) == (Len(names) + BlockEntries - 1) \div BlockEntries

InBlock(block, key) ==
    LET At(j) == IF j = Len(block) THEN Missing
                 ELSE IF block[j + 1].key # key THEN Missing ELSE Found(block[j + 1])
    IN  At(Search(Len(block), LAMBDA k : block[k + 1].key < key))

\* The last block whose first name is not after the name, then the name in it.
SnapshotLookup(names, key) ==
    LET At(i) == IF i = 0 THEN Missing ELSE InBlock(Block(names, i), key)
    IN  At(Search(Blocks(names), LAMBDA k : Block(names, k + 1)[1].key <= key))
=============================================================================
