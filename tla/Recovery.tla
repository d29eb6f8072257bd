------------------------------ MODULE Recovery ------------------------------
(***************************************************************************)
(* The pure parts of how a Standby that fell behind is brought back: the   *)
(* published Replication State (storage/replicationstate), the retained    *)
(* WAL history (storage/wal/history.go) and the plan a Primary makes from  *)
(* them (replication/planner.go, node/ha.go).                              *)
(*                                                                         *)
(* A position is the number of entries up to and including it, 0 where the *)
(* code has no position; the checksum of an entry is its value.            *)
(***************************************************************************)
EXTENDS Naturals, Sequences, SequencesExt, FiniteSets

CONSTANT None

-----------------------------------------------------------------------------
(* Replication State: immutable files and the pointer to the current one.  *)

\* The content of a state: term, committed, earliest WAL and the Snapshot
\* that anchors recovery.
Header(term, committed, earliest, anchor) ==
    [term |-> term, committed |-> committed, earliest |-> earliest, anchor |-> anchor]

\* No state yet: REPLICATION-CURRENT is missing.
NoStates == [files |-> {}, pointer |-> None]

Loaded(store) == store.pointer

StateHeader(state) == IF state = None THEN Header(0, 0, 0, None) ELSE state.header

Generation(state) == IF state = None THEN 0 ELSE state.gen

AnchorAt(header) == IF header.anchor = None THEN 0 ELSE header.anchor.at

\* What the encoding refuses: an anchor beyond the commit position, WAL
\* collected without an anchor that covers it.
Valid(header) ==
    /\ AnchorAt(header) <= header.committed
    /\ header.earliest <= AnchorAt(header)

\* A transition continues the generation in memory and moves nothing back.
ValidTransition(from, header) ==
    /\ header.term >= StateHeader(from).term
    /\ header.committed >= StateHeader(from).committed
    /\ AnchorAt(header) >= AnchorAt(StateHeader(from))
    /\ header.earliest >= StateHeader(from).earliest

\* The next state of the chain; with its generation, id identifies it.
NextState(from, header, id) ==
    [gen |-> IF from = None THEN 0 ELSE from.gen + 1, id |-> id,
     previous |-> IF from = None THEN None ELSE from.id, header |-> header]

\* What of a file the chain is made of.
Link(state) == [gen |-> state.gen, id |-> state.id, previous |-> state.previous]

WriteStateFile(store, state) == [store EXCEPT !.files = @ \cup {Link(state)}]
WritePointer(store, state) == [store EXCEPT !.pointer = state]

\* Files of the previous generation that the current state links to.
Previous(store) ==
    {f \in store.files : f.gen + 1 = store.pointer.gen /\ f.id = store.pointer.previous}

-----------------------------------------------------------------------------
(* WAL history: files hold the entries after first up to last.             *)

File(first, last) == [first |-> first, last |-> last]

Bounds(files) ==
    LET holding == SelectSeq(files, LAMBDA f : f.last > f.first) IN
    [present |-> holding # <<>>,
     earliest |-> IF holding = <<>> THEN 0 ELSE holding[1].first,
     next |-> Last(files).last]

\* Where entry n lies.
Locate(files, n) ==
    LET b == Bounds(files) IN
    IF ~b.present \/ n > b.next THEN "ahead"
    ELSE IF n <= b.earliest THEN "collected" ELSE "retained"

\* A range that can be read, or pinned.
Retained(files, from, through) == \A n \in from..through : Locate(files, n) = "retained"

\* The oldest file goes when it is sealed, holds entries, and Segments and
\* the Snapshot cover it.
Collectable(files, through) ==
    /\ Len(files) > 1
    /\ files[1].last > files[1].first /\ files[1].last <= through

-----------------------------------------------------------------------------
(* Planning.                                                               *)

\* The Primary's view: the history, and the state read at promotion.
View(header, files, available) ==
    [term |-> header.term, last |-> header.committed,
     earliest |-> IF Bounds(files).present THEN Bounds(files).earliest ELSE header.earliest,
     anchor |-> header.anchor, snapshot |-> available]

\* The value of entry n when the history or the anchor tells.
Knows(view, files, n) == Locate(files, n) = "retained" \/ (view.anchor # None /\ view.anchor.at = n)

\* Mutant: only the length is compared.
Longer(view, files, hello, theirs) == Len(hello.log) > view.last

\* The Standby holds an entry that is not the Primary's.
Diverges(view, files, hello, theirs) ==
    LET n == Len(hello.log) IN
    n > view.last \/ (n > 0 /\ Knows(view, files, n) /\ hello.log[n] # theirs[n])

\* hello has the Term the Standby knows, its log and the Snapshot it
\* installed; theirs is the Primary's log.
Plan(view, files, hello, theirs) ==
    LET n == Len(hello.log)
        prefixKnown == \/ n = 0
                       \/ Knows(view, files, n)
                       \/ view.snapshot # None /\ hello.installed = view.snapshot /\ n = view.snapshot.at
    IN  CASE view.earliest > view.last -> [mode |-> "invalid"]
          [] hello.term > view.term \/ (hello.installed # None /\ hello.installed.at > n) -> [mode |-> "invalid"]
          [] Diverges(view, files, hello, theirs) -> [mode |-> "diverged"]
          [] view.snapshot # None /\ (view.snapshot.at > view.last \/ view.snapshot.at < view.earliest) -> [mode |-> "invalid"]
          [] prefixKnown /\ n >= view.earliest -> [mode |-> "incremental"]
          [] view.snapshot = None -> [mode |-> "no_source"]
          [] OTHER -> [mode |-> "snapshot"]

\* Packages are searched only when the WAL does not suffice.
PlanReplication(header, files, packages, hello, theirs) ==
    LET bare == View(header, files, None)
        first == Plan(bare, files, hello, theirs)
        anchored == header.anchor # None /\ header.anchor \in packages
    IN  IF first.mode \notin {"no_source", "diverged"} \/ ~anchored
        THEN [mode |-> first.mode, offer |-> None]
        ELSE IF first.mode = "diverged" THEN [mode |-> "diverged", offer |-> header.anchor]
        ELSE [mode |-> Plan(View(header, files, header.anchor), files, hello, theirs).mode, offer |-> header.anchor]
=============================================================================
