------------------------------ MODULE MCRejoin ------------------------------
(* Small instances of module Rejoin.                                       *)
EXTENDS Rejoin

Old == [id |-> 1, at |-> 1]
New == [id |-> 2, at |-> 2]

\* A Standby one entry behind, nothing collected yet.
Lagging == [files |-> <<File(0, 1)>>, segmented |-> 0, packages |-> {}, anchor |-> None,
            committed |-> 0, log |-> <<>>, entries |-> 2,
            terms |-> 2, generations |-> 3, snapshots |-> 1, crashes |-> 1, renewals |-> 1,
            tool |-> FALSE, torn |-> FALSE, replace |-> FALSE]

\* The Standby's disk is replaced, the Primary is promoted again.
Replaced == [Lagging EXCEPT !.entries = 1, !.terms = 3, !.replace = TRUE, !.renewals = 0]

\* A new Standby, and WAL behind a Snapshot.
Fresh == [Lagging EXCEPT !.files = <<File(1, 2)>>, !.segmented = 1, !.packages = {Old}, !.anchor = Old,
          !.committed = 1, !.terms = 3, !.torn = TRUE, !.renewals = 0]

\* An uncommitted entry of an earlier Primary.
Diverged == [Fresh EXCEPT !.log = <<"a", "b">>, !.torn = FALSE]

\* The same, after entries that were committed later than the Snapshot.
Ahead == [Diverged EXCEPT !.files = <<File(1, 3)>>, !.log = <<"a", "a", "b">>, !.committed = 2, !.entries = 3]

\* A Standby that has everything.
Joined == [Fresh EXCEPT !.log = <<"a", "a">>, !.committed = 2, !.entries = 3, !.terms = 2, !.snapshots = 2, !.torn = FALSE,
           !.renewals = 1]

\* Offline collection behind a package that is not the anchor.
Offline == [Fresh EXCEPT !.files = <<File(0, 1), File(1, 2)>>, !.anchor = None,
            !.terms = 2, !.generations = 2, !.snapshots = 2, !.crashes = 0, !.torn = FALSE, !.tool = TRUE, !.renewals = 1]

\* Behind either of two packages, with a Standby that has everything.
Twice == [Offline EXCEPT !.files = <<File(0, 1), File(1, 2), File(2, 2)>>, !.segmented = 2,
          !.packages = {Old, New}, !.log = <<"a", "a">>, !.committed = 2, !.crashes = 1, !.snapshots = 3, !.renewals = 0]

Cases == {Lagging, Replaced, Fresh, Diverged, Ahead, Joined, Offline, Twice}

Boundary == {Replaced}
Beside == {Offline}
=============================================================================
