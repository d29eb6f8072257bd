----------------------------- MODULE Leadership -----------------------------
(***************************************************************************)
(* The write lease of a replication group: the leader key that             *)
(* internal/coordinator/etcd keeps in etcd, the in-memory lease of         *)
(* internal/leadership.Controller, and the life of a node configured as    *)
(* Primary in internal/node/ha.go (acquire, promote, catch up, serve,      *)
(* drain, release), with the renewal goroutine running beside it.          *)
(*                                                                         *)
(* Time is one discrete clock.  Every deadline the code compares is built  *)
(* from a duration and the reader's own clock, so only the rates of the    *)
(* clocks matter; they are taken to be equal.                              *)
(*                                                                         *)
(* RpcTimeout is the context deadline that ha.go puts around one Acquire   *)
(* or Renew (the renew interval).  The model takes it to bound the whole   *)
(* call, the final c.now() included; a process that is paused between the  *)
(* last response and c.now() is outside the model.                         *)
(***************************************************************************)
EXTENDS Integers

CONSTANTS
    Node,           \* the data nodes, each configured as Primary
    NoNode,         \* the owner of an absent leader key
    LeaseId,        \* etcd leases that may be granted in one behaviour (a bound)
    TTL,            \* replication.lease_ttl
    Safety,         \* replication.lease_safety_margin
    RpcTimeout,     \* replication.renew_interval, also the timeout of a call
    MaxClock        \* bound on the clock

\* What ReplicationConfig.validate and leadership.New require of the timing.
ASSUME TimingAssumption ==
    /\ TTL \in Nat /\ Safety \in Nat /\ RpcTimeout \in Nat /\ MaxClock \in Nat
    /\ Safety > 0 /\ RpcTimeout > 0
    /\ 2 * Safety < TTL
    /\ RpcTimeout < TTL - Safety

ASSUME NodeAssumption == NoNode \notin Node

\* 0 stands for "no lease".
ASSUME LeaseAssumption == 0 \notin LeaseId

VARIABLES
    clock,      \* time
    revision,   \* etcd revision, the source of Terms
    key,        \* the leader key: owner, Term (its ModRevision) and lease
    lease,      \* etcd leases: owner, status and deadline
    orphan,     \* transactions sent by a caller that no longer waits for them
    phase,      \* where runPrimary is
    start,      \* when the context of the running coordinator call was made
    session,    \* coordinator.sessions[key], or the attempt being made
    expires,    \* ExpiresAt of the grant or of the controller state
    renewal,    \* where the renewal goroutine is
    term        \* Term in the node's durable Replication State

vars == <<clock, revision, key, lease, orphan, phase, start, session, expires,
          renewal, term>>

etcdVars == <<revision, key, lease, orphan>>
nodeVars == <<phase, start, session, expires, renewal, term>>

Acquiring == {"grant", "txn", "won", "lost"}
Leading   == {"catchup", "serving", "draining"}
Releasing == {"abort", "releasing"}
Phase     == {"stopped", "idle", "promote", "released"}
                \cup Acquiring \cup Leading \cup Releasing

NoSession == [term |-> 0, lease |-> 0]
NoKey == [owner |-> NoNode, term |-> 0, lease |-> 0]

Init ==
    /\ clock = 0
    /\ revision = 0
    /\ key = NoKey
    /\ lease = [l \in LeaseId |-> [owner |-> NoNode, status |-> "free", deadline |-> 0]]
    /\ orphan = {}
    /\ phase = [n \in Node |-> "stopped"]
    /\ start = [n \in Node |-> 0]
    /\ session = [n \in Node |-> NoSession]
    /\ expires = [n \in Node |-> 0]
    /\ renewal = [n \in Node |-> "none"]
    /\ term = [n \in Node |-> 0]

-----------------------------------------------------------------------------
(* Guards                                                                  *)

InTime(n) == clock <= start[n] + RpcTimeout

\* Mutant: a grant is used until its deadline, without the safety margin.
SafeUntilDeadline(deadline) == clock < deadline

\* A grant is usable only outside the safety margin (validateGrant, Promote).
Safe(deadline) == clock + Safety < deadline

\* Controller.CanWrite, also the commit guard of the engine.  The controller
\* is PRIMARY from its creation until Release has deleted the key.
CanWrite(n) == phase[n] \in Leading \cup {"releasing", "released"} /\ Safe(expires[n])

\* A node whose engine is open commits exactly while the guard lets it.
Writable(n) == phase[n] \in {"serving", "draining"} /\ CanWrite(n)

-----------------------------------------------------------------------------
(* etcd, as the coordinator uses it                                        *)

\* Revoking or expiring a lease deletes the key attached to it.
DropLease(l) ==
    /\ lease' = [lease EXCEPT ![l].status = "gone"]
    /\ key' = IF key.lease = l THEN NoKey ELSE key
    /\ revision' = IF key.lease = l THEN revision + 1 ELSE revision

\* If(Version(key) = 0).Then(Put(key, node, WithLease(l))).
PutSucceeds(l) == key = NoKey /\ lease[l].status = "live"

PutKey(n, l) ==
    /\ revision' = revision + 1
    /\ key' = [owner |-> n, term |-> revision + 1, lease |-> l]

Tick ==
    /\ clock < MaxClock
    /\ clock' = clock + 1
    /\ UNCHANGED <<etcdVars, nodeVars>>

\* etcd never drops a lease before its deadline, and may be late.
Expire(l) ==
    /\ lease[l].status = "live"
    /\ clock >= lease[l].deadline
    /\ DropLease(l)
    /\ UNCHANGED <<clock, orphan, nodeVars>>

\* A transaction whose caller gave up is applied after all, or is lost.
OrphanArrives(n, l) ==
    /\ <<n, l>> \in orphan
    /\ orphan' = orphan \ {<<n, l>>}
    /\ IF PutSucceeds(l) THEN PutKey(n, l) ELSE UNCHANGED <<revision, key>>
    /\ UNCHANGED <<clock, lease, nodeVars>>

-----------------------------------------------------------------------------
(* What a node remembers                                                   *)

ForgetSession(n) ==
    /\ start' = [start EXCEPT ![n] = 0]
    /\ session' = [session EXCEPT ![n] = NoSession]

\* The process ends: nothing but its durable Term is left.
ForgetAll(n) ==
    /\ ForgetSession(n)
    /\ expires' = [expires EXCEPT ![n] = 0]
    /\ renewal' = [renewal EXCEPT ![n] = "none"]
    /\ phase' = [phase EXCEPT ![n] = "stopped"]

EndRenewal(n) ==
    /\ start' = [start EXCEPT ![n] = 0]
    /\ renewal' = [renewal EXCEPT ![n] = "none"]

-----------------------------------------------------------------------------
(* awaitPrimaryGrant and Coordinator.Acquire                               *)

StartNode(n) ==
    /\ phase[n] = "stopped"
    /\ phase' = [phase EXCEPT ![n] = "idle"]
    /\ UNCHANGED <<clock, etcdVars, start, session, expires, renewal, term>>

BeginAcquire(n) ==
    /\ phase[n] = "idle"
    /\ phase' = [phase EXCEPT ![n] = "grant"]
    /\ start' = [start EXCEPT ![n] = clock]
    /\ UNCHANGED <<clock, etcdVars, session, expires, renewal, term>>

GrantLease(n, l) ==
    /\ phase[n] = "grant"
    /\ InTime(n)
    /\ lease[l].status = "free"
    /\ lease' = [lease EXCEPT ![l] =
                    [owner |-> n, status |-> "live", deadline |-> clock + TTL]]
    /\ session' = [session EXCEPT ![n] = [term |-> 0, lease |-> l]]
    /\ phase' = [phase EXCEPT ![n] = "txn"]
    /\ UNCHANGED <<clock, revision, key, orphan, start, expires, renewal, term>>

\* Mutant: the Term is the Version of the key, not its ModRevision.
CommitTxnVersion(n) ==
    LET l == session[n].lease IN
    /\ phase[n] = "txn"
    /\ InTime(n)
    /\ IF PutSucceeds(l)
       THEN /\ PutKey(n, l)
            /\ session' = [session EXCEPT ![n].term = 1]
            /\ phase' = [phase EXCEPT ![n] = "won"]
       ELSE /\ phase' = [phase EXCEPT ![n] = "lost"]
            /\ UNCHANGED <<revision, key, session>>
    /\ UNCHANGED <<clock, lease, orphan, start, expires, renewal, term>>

CommitTxn(n) ==
    LET l == session[n].lease IN
    /\ phase[n] = "txn"
    /\ InTime(n)
    /\ IF PutSucceeds(l)
       THEN /\ PutKey(n, l)
            /\ session' = [session EXCEPT ![n].term = revision + 1]
            /\ phase' = [phase EXCEPT ![n] = "won"]
       ELSE /\ phase' = [phase EXCEPT ![n] = "lost"]
            /\ UNCHANGED <<revision, key, session>>
    /\ UNCHANGED <<clock, lease, orphan, start, expires, renewal, term>>

FinishAcquire(n) ==
    /\ phase[n] = "won"
    /\ InTime(n)
    /\ expires' = [expires EXCEPT ![n] = clock + TTL]
    /\ start' = [start EXCEPT ![n] = 0]
    /\ phase' = [phase EXCEPT ![n] = "promote"]
    /\ UNCHANGED <<clock, etcdVars, session, renewal, term>>

\* The call failed, timed out or lost the election; awaitCoordinatorGrant
\* retries.  The Revoke of the attempt's lease may fail too, and a transaction
\* that was sent may still be applied.
AbandonAcquire(n) ==
    LET l == session[n].lease IN
    /\ phase[n] \in Acquiring
    /\ phase' = [phase EXCEPT ![n] = "idle"]
    /\ orphan' = IF phase[n] = "txn" THEN orphan \cup {<<n, l>>} ELSE orphan
    /\ \/ UNCHANGED <<revision, key, lease>>
       \/ /\ phase[n] # "grant"
          /\ lease[l].status = "live"
          /\ DropLease(l)
    /\ ForgetSession(n)
    /\ UNCHANGED <<clock, expires, renewal, term>>

-----------------------------------------------------------------------------
(* runPrimary after the grant                                              *)

\* replication.Promote, then leadership.New with the grant as initial state.
Promote(n) ==
    /\ phase[n] = "promote"
    /\ Safe(expires[n])
    /\ session[n].term > term[n]
    /\ term' = [term EXCEPT ![n] = session[n].term]
    /\ phase' = [phase EXCEPT ![n] = "catchup"]
    /\ UNCHANGED <<clock, etcdVars, start, session, expires, renewal>>

\* The Standby has caught up and the engine opens.
Serve(n) ==
    /\ phase[n] = "catchup"
    /\ CanWrite(n)
    /\ phase' = [phase EXCEPT ![n] = "serving"]
    /\ UNCHANGED <<clock, etcdVars, start, session, expires, renewal, term>>

\* Promotion, catch-up or a lease check failed: runPrimary returns and its
\* deferred calls stop the renewal and release the key.
StartupFails(n) ==
    /\ phase[n] \in {"promote", "catchup"}
    /\ phase' = [phase EXCEPT ![n] = "abort"]
    /\ EndRenewal(n)
    /\ UNCHANGED <<clock, etcdVars, session, expires, term>>

\* serveRecoveryBlocked ends: no engine was opened.
BlockedStops(n) ==
    /\ phase[n] = "catchup"
    /\ phase' = [phase EXCEPT ![n] = "releasing"]
    /\ EndRenewal(n)
    /\ UNCHANGED <<clock, etcdVars, session, expires, term>>

\* waitServe returned: the renewal stops first, the gRPC server then drains.
BeginDrain(n) ==
    /\ phase[n] = "serving"
    /\ phase' = [phase EXCEPT ![n] = "draining"]
    /\ EndRenewal(n)
    /\ UNCHANGED <<clock, etcdVars, session, expires, term>>

Drained(n) ==
    /\ phase[n] = "draining"
    /\ phase' = [phase EXCEPT ![n] = "releasing"]
    /\ UNCHANGED <<clock, etcdVars, start, session, expires, renewal, term>>

\* Coordinator.Release deletes the key if it is still this session's.
DeleteKey(n) ==
    /\ phase[n] \in Releasing
    /\ key.owner = n /\ key.term = session[n].term
    /\ key' = NoKey
    /\ revision' = revision + 1
    /\ phase' = [phase EXCEPT ![n] = "released"]
    /\ UNCHANGED <<clock, lease, orphan, start, session, expires, renewal, term>>

\* The Revoke that follows may fail; a failed Release leaves the key alone.
\* Either way the controller leaves PRIMARY and the process ends.
FinishRelease(n) ==
    LET l == session[n].lease IN
    /\ phase[n] \in Releasing \cup {"released"}
    /\ \/ UNCHANGED <<revision, key, lease>>
       \/ phase[n] = "released" /\ lease[l].status = "live" /\ DropLease(l)
    /\ ForgetAll(n)
    /\ UNCHANGED <<clock, orphan, term>>

-----------------------------------------------------------------------------
(* startLeaseRenewal, Controller.Renew and Coordinator.Renew               *)

BeginRenew(n) ==
    /\ phase[n] \in {"catchup", "serving"}
    /\ renewal[n] = "none"
    /\ renewal' = [renewal EXCEPT ![n] = "keepalive"]
    /\ start' = [start EXCEPT ![n] = clock]
    /\ UNCHANGED <<clock, etcdVars, phase, session, expires, term>>

KeepAlive(n) ==
    LET l == session[n].lease IN
    /\ renewal[n] = "keepalive"
    /\ InTime(n)
    /\ lease[l].status = "live"
    /\ lease' = [lease EXCEPT ![l].deadline = clock + TTL]
    /\ renewal' = [renewal EXCEPT ![n] = "get"]
    /\ UNCHANGED <<clock, revision, key, orphan, phase, start, session, expires, term>>

CheckKey(n) ==
    /\ renewal[n] = "get"
    /\ InTime(n)
    /\ key = [owner |-> n, term |-> session[n].term, lease |-> session[n].lease]
    /\ renewal' = [renewal EXCEPT ![n] = "checked"]
    /\ UNCHANGED <<clock, etcdVars, phase, start, session, expires, term>>

\* Mutant: the renewal runs without the deadline of its context.
FinishRenewLate(n) ==
    /\ renewal[n] = "checked"
    /\ Safe(clock + TTL)
    /\ clock + TTL >= expires[n]
    /\ expires' = [expires EXCEPT ![n] = clock + TTL]
    /\ EndRenewal(n)
    /\ UNCHANGED <<clock, etcdVars, phase, session, term>>

FinishRenew(n) ==
    /\ renewal[n] = "checked"
    /\ InTime(n)
    /\ Safe(clock + TTL)
    /\ clock + TTL >= expires[n]
    /\ expires' = [expires EXCEPT ![n] = clock + TTL]
    /\ EndRenewal(n)
    /\ UNCHANGED <<clock, etcdVars, phase, session, term>>

\* Any step of the renewal may fail; it is logged and retried at the next tick.
AbandonRenew(n) ==
    /\ renewal[n] # "none"
    /\ EndRenewal(n)
    /\ UNCHANGED <<clock, etcdVars, phase, session, expires, term>>

\* The process dies: everything but etcd and the durable Term is lost.
Crash(n) ==
    /\ phase[n] # "stopped"
    /\ orphan' = IF phase[n] = "txn" THEN orphan \cup {<<n, session[n].lease>>} ELSE orphan
    /\ ForgetAll(n)
    /\ UNCHANGED <<clock, revision, key, lease, term>>

-----------------------------------------------------------------------------
NodeStep(n) ==
    \/ StartNode(n) \/ BeginAcquire(n) \/ CommitTxn(n) \/ FinishAcquire(n)
    \/ AbandonAcquire(n) \/ Promote(n) \/ Serve(n) \/ StartupFails(n)
    \/ BlockedStops(n) \/ BeginDrain(n) \/ Drained(n) \/ DeleteKey(n)
    \/ FinishRelease(n)
    \/ BeginRenew(n) \/ KeepAlive(n) \/ CheckKey(n) \/ FinishRenew(n)
    \/ AbandonRenew(n) \/ Crash(n)

LeaseStep(l) ==
    \/ Expire(l)
    \/ \E n \in Node : GrantLease(n, l) \/ OrphanArrives(n, l)

Next ==
    \/ Tick
    \/ \E n \in Node : NodeStep(n)
    \/ \E l \in LeaseId : LeaseStep(l)

Spec == Init /\ [][Next]_vars

-----------------------------------------------------------------------------
\* Types of the lease state: the leader key, the etcd leases, and what each
\* node remembers of its own.
TypeOK ==
    /\ clock \in Nat
    /\ revision \in Nat
    /\ key \in [owner : Node \cup {NoNode}, term : Nat, lease : LeaseId \cup {0}]
    /\ lease \in [LeaseId -> [owner : Node \cup {NoNode},
                              status : {"free", "live", "gone"},
                              deadline : Nat]]
    /\ orphan \subseteq Node \X LeaseId
    /\ phase \in [Node -> Phase]
    /\ start \in [Node -> Nat]
    /\ session \in [Node -> [term : Nat, lease : LeaseId \cup {0}]]
    /\ expires \in [Node -> Nat]
    /\ renewal \in [Node -> {"none", "keepalive", "get", "checked"}]
    /\ term \in [Node -> Nat]

\* At most one node's commit guard lets its engine commit (CanCommit), although
\* every node judges its lease by a deadline it computed after the answer came.
WriteExclusion ==
    \A m, n \in Node : Writable(m) /\ Writable(n) => m = n

\* A node that commits owns the leader key, in the Term it promoted in.
WriterOwnsKey ==
    \A n \in Node : Writable(n) => key.owner = n /\ key.term = term[n]

\* Acquire succeeds only when the previous leader is fenced: in the step that
\* gives the key to a node no other node may commit.
FencedBeforeGrant ==
    [][\A n \in Node : key'.owner = n /\ key.owner # n
            => \A m \in Node \ {n} : ~Writable(m)]_vars

\* Terms order the promotions of the whole group: a node promotes only above
\* every Term any node has made durable.
PromotionRaisesTerm ==
    [][\A n \in Node : term'[n] # term[n]
            => \A m \in Node : term'[n] > term[m]]_vars

=============================================================================
