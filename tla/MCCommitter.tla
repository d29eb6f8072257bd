---------------------------- MODULE MCCommitter ----------------------------
(* The write path with rival requests, a follow-up batch and a second stream. *)
EXTENDS Committer, TLC

CONSTANTS r1, r2, r3, a, b

\* r1 and r2 compete for sequence 0 of stream a; r3 starts stream b.
RivalRequest == {r1, r2, r3}
RivalStream == {a, b}
RivalStreamOf == (r1 :> a) @@ (r2 :> a) @@ (r3 :> b)
RivalExpected == [r \in RivalRequest |-> 0]
RivalAttempts == (r1 :> 2) @@ (r2 :> 1) @@ (r3 :> 1)
RivalCount == (r1 :> 2) @@ (r2 :> 1) @@ (r3 :> 1)

\* r2 follows r1 in stream a.
FollowRequest == {r1, r2}
FollowStream == {a}
FollowStreamOf == [r \in FollowRequest |-> a]
FollowExpected == (r1 :> 0) @@ (r2 :> 2)
FollowAttempts == [r \in FollowRequest |-> 2]
FollowCount == (r1 :> 2) @@ (r2 :> 1)
=============================================================================
