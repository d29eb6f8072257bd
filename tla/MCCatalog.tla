----------------------------- MODULE MCCatalog -----------------------------
(* Small instances of module Catalog.                                      *)
EXTENDS Catalog

Sound == {[entries |-> 4, projections |-> 0, frames |-> 0]}
BadFrames == {[entries |-> 3, projections |-> 0, frames |-> 1]}
AnyDamage == {[entries |-> 4, projections |-> 1, frames |-> 0]} \cup BadFrames

SmallLimits == [segments |-> 2, bytes |-> 5]
=============================================================================
