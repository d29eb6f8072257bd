----------------------------- MODULE MCService -----------------------------
(* Small instances of module Service.                                      *)
EXTENDS Service, TLC

CONSTANTS c1, c2, a1, a2, a3, a4, s1, s2

\* A Stream with one record, and one without.
Start == (s1 :> <<a1>>) @@ (s2 :> <<>>)

\* Two subscribers of one Stream and an append, shutdown at any time.
Following == [subscribes |-> (c1 :> s1) @@ (c2 :> s1), appends |-> (a2 :> s1), log |-> Start,
              limit |-> 2, cancels |-> FALSE, faults |-> FALSE, checks |-> FALSE, limited |-> FALSE]

\* One subscriber and one append that may be cancelled and fail.
Failing == [Following EXCEPT !.subscribes = (c1 :> s1), !.cancels = TRUE, !.faults = TRUE]

\* Two appends to one Stream.
Queueing == [Failing EXCEPT !.appends = (a2 :> s1) @@ (a3 :> s1), !.cancels = FALSE]

\* Two subscribers and one place, one of them on an empty Stream.
Crowded == [Following EXCEPT !.subscribes = (c1 :> s1) @@ (c2 :> s2), !.appends = (a2 :> s2), !.limit = 1]

\* Appends beside the maintenance loop.
Filling == [Following EXCEPT !.subscribes = <<>>, !.faults = FALSE, !.checks = TRUE]

\* Appends against the rate limit.
Limited == [Filling EXCEPT !.appends = (a2 :> s1) @@ (a3 :> s1) @@ (a4 :> s1), !.checks = FALSE, !.limited = TRUE]

Cases == {Following, Failing, Queueing, Crowded, Filling, Limited}

\* Half full, above High, and less available than the minimum.
Samples == {[capacity |-> 100, available |-> v] : v \in {50, 18}} \cup {[capacity |-> 10, available |-> 5]}
=============================================================================
