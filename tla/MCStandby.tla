------------------------------ MODULE MCStandby ------------------------------
(***************************************************************************)
(* A Standby that is sent two logs.  They share their first entry; then    *)
(* one goes on with a batch of two in Term 1 and the other with a single   *)
(* entry in Term 2.  A message may end inside the batch.                   *)
(***************************************************************************)
EXTENDS Standby

CONSTANTS l1, l2

First == [term |-> 1, index |-> 0, count |-> 1, val |-> 1]
Half1 == [term |-> 1, index |-> 0, count |-> 2, val |-> 2]
Half2 == [term |-> 1, index |-> 1, count |-> 2, val |-> 2]
Other == [term |-> 2, index |-> 0, count |-> 1, val |-> 3]

MCLeader == {l1, l2}

MCEntry == {First, Half1, Half2, Other}

MCSenderLog ==
    {<<First>>, <<First, Half1>>, <<First, Half1, Half2>>, <<First, Other>>}
=============================================================================
