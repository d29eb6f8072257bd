---------------------------- MODULE MCLifecycle ----------------------------
(* Small instances of module Lifecycle.                                    *)
EXTENDS Lifecycle, TLC

CONSTANTS r1, r2, s1, s2

\* Two readers that share handles, two Snapshots of different generations,
\* one of each with a failed operation, and a Snapshot with a failed
\* operation and a crash.
Mixes == {
    [readers |-> {r1, r2}, snapshots |-> {}, faults |-> 0, crashes |-> 1],
    [readers |-> {}, snapshots |-> {s1, s2}, faults |-> 0, crashes |-> 0],
    [readers |-> {}, snapshots |-> {s1}, faults |-> 1, crashes |-> 1],
    [readers |-> {r1}, snapshots |-> {s1}, faults |-> 1, crashes |-> 0]}
=============================================================================
