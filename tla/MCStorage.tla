------------------------------ MODULE MCStorage ------------------------------
(***************************************************************************)
(* Storage with single appends and, optionally, batches of two.            *)
(***************************************************************************)
EXTENDS Storage

MCBatchSizes == {1, 2}
MCSingle == {1}

\* Power may fail, or clients retry.  Not both: entries that outlived a crash
\* in the page cache are served and acknowledged without an fsync.
NoFault == {[power |-> FALSE, retries |-> FALSE]}
OneKind ==
    {[power |-> TRUE, retries |-> FALSE], [power |-> FALSE, retries |-> TRUE]}
=============================================================================
