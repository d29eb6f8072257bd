------------------------------ MODULE StreamLog ------------------------------
(***************************************************************************)
(* What Strict replication promises a client, with no nodes in sight: one  *)
(* log that only grows, in which an append request appears at most once    *)
(* and at the sequence it expected, and which holds every acknowledged     *)
(* request from then on.                                                   *)
(***************************************************************************)
EXTENDS Integers, Sequences

CONSTANTS Request, Expected

VARIABLES
    slog,    \* the requests readers can see, in order
    tried,   \* requests whose record may have been written
    acked    \* requests answered with success

vars == <<slog, tried, acked>>

Init ==
    /\ slog = <<>>
    /\ tried = {}
    /\ acked = {}

Try(r) ==
    /\ tried' = tried \cup {r}
    /\ UNCHANGED <<slog, acked>>

\* A request becomes visible long after its caller has given up, or never.
Publish(r) ==
    /\ r \in tried
    /\ Expected[r] = Len(slog)
    /\ slog' = Append(slog, r)
    /\ UNCHANGED <<tried, acked>>

\* Only a visible request is acknowledged, at its sequence.
Ack(r) ==
    /\ Expected[r] < Len(slog)
    /\ slog[Expected[r] + 1] = r
    /\ acked' = acked \cup {r}
    /\ UNCHANGED <<slog, tried>>

Next == \E r \in Request : Try(r) \/ Publish(r) \/ Ack(r)

Spec == Init /\ [][Next]_vars
=============================================================================
