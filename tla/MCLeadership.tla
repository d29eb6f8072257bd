---------------------------- MODULE MCLeadership ----------------------------
(* Two nodes and two leases.  The timing keeps the order of the example     *)
(* configuration (lease TTL 15s, safety margin 3s, renew interval 3s):      *)
(* TTL 3, margin 1 and call timeout 1 are its smallest form, in which a     *)
(* lease can be renewed once and expire within the clock bound.             *)
EXTENDS Leadership, TLC

MCLeaseId == 1..2
Symmetry == Permutations(Node)
=============================================================================
