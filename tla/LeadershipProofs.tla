-------------------------- MODULE LeadershipProofs --------------------------
(***************************************************************************)
(* Lease exclusion, for any set of nodes and leases and any timing that    *)
(* the configuration accepts, provided that the safety margin covers the   *)
(* timeout of a coordinator call.                                          *)
(***************************************************************************)
EXTENDS Leadership, TLAPS

Held    == {"promote"} \cup Leading
Owning  == {"txn", "won", "lost", "released"} \cup Held \cup Releasing

\* A node that is past GrantLease owns the lease of its session.
SessionOwned(n) ==
    phase[n] \in Owning =>
        /\ session[n].lease \in LeaseId
        /\ lease[session[n].lease].owner = n
        /\ lease[session[n].lease].status # "free"

\* etcd dated the lease no earlier than the call that waits for the answer.
DeadlineAfterCall(n) ==
    phase[n] \in {"txn", "won"} \/ renewal[n] \in {"get", "checked"} =>
        lease[session[n].lease].deadline >= start[n] + TTL

\* As long as etcd keeps the lease, the key is this session's.
LiveLeaseHoldsKey(n) ==
    /\ phase[n] \in {"won"} \cup Held
    /\ lease[session[n].lease].status = "live"
    => key = [owner |-> n, term |-> session[n].term, lease |-> session[n].lease]

\* A lease that is in use goes only by expiring.
GoneMeansExpired(n) ==
    /\ phase[n] \in {"txn", "won"} \cup Held
    /\ lease[session[n].lease].status = "gone"
    => clock >= lease[session[n].lease].deadline

\* The node's own deadline is late by at most the timeout of one call.
DeadlineSkew(n) ==
    phase[n] \in Held =>
        expires[n] <= lease[session[n].lease].deadline + RpcTimeout

\* The renewal goroutine runs only beside catch-up and serving, its call
\* started in the past, and a leading node has made its Term durable.
NodeLocal(n) ==
    /\ renewal[n] # "none" => phase[n] \in {"catchup", "serving"}
    /\ start[n] <= clock
    /\ phase[n] \in Leading => term[n] = session[n].term

\* Terms come from the revision, and the key has the newest durable Term.
TermOrder ==
    /\ key.term <= revision
    /\ \A n \in Node : term[n] <= revision /\ session[n].term <= revision
    /\ \A n \in Node : key.owner # NoNode /\ key.owner # n
                        => term[n] < key.term /\ session[n].term < key.term

NodeInv(n) ==
    /\ SessionOwned(n)
    /\ DeadlineAfterCall(n)
    /\ LiveLeaseHoldsKey(n)
    /\ GoneMeansExpired(n)
    /\ DeadlineSkew(n)
    /\ NodeLocal(n)

EtcdInv ==
    /\ \A l \in LeaseId : lease[l].deadline <= clock + TTL
    /\ key.owner = NoNode <=> key = NoKey
    /\ TermOrder

\* The inductive invariant.
LInv ==
    /\ TypeOK
    /\ EtcdInv
    /\ \A n \in Node : NodeInv(n)

-----------------------------------------------------------------------------
EtcdTyped ==
    /\ revision \in Nat
    /\ key \in [owner : Node \cup {NoNode}, term : Nat, lease : LeaseId \cup {0}]
    /\ lease \in [LeaseId -> [owner : Node \cup {NoNode},
                              status : {"free", "live", "gone"},
                              deadline : Nat]]

\* Dropping a lease keeps the types of the etcd state.
LEMMA DropLeaseTyped ==
    ASSUME TypeOK, NEW l \in LeaseId \cup {0}, DropLease(l)
    PROVE  EtcdTyped'
<1>1. NoKey \in [owner : Node \cup {NoNode}, term : Nat, lease : LeaseId \cup {0}]
    BY DEF NoKey
<1>2. key' \in [owner : Node \cup {NoNode}, term : Nat, lease : LeaseId \cup {0}]
    <2>1. key' = NoKey \/ key' = key
        BY DEF DropLease
    <2> QED
        BY <1>1, <2>1 DEF TypeOK
<1>3. revision' \in Nat
    BY DEF DropLease, TypeOK
<1>4. lease' \in [LeaseId -> [owner : Node \cup {NoNode},
                             status : {"free", "live", "gone"},
                             deadline : Nat]]
    <2>1. lease' = [lease EXCEPT ![l].status = "gone"]
        BY DEF DropLease
    <2>2. lease \in [LeaseId -> [owner : Node \cup {NoNode},
                                status : {"free", "live", "gone"},
                                deadline : Nat]]
        BY DEF TypeOK
    <2> QED
        BY ZenonT(30), <2>1, <2>2
<1> QED
    BY <1>2, <1>3, <1>4 DEF EtcdTyped

\* Every step of the lease protocol keeps the variables in their types.
LEMMA TypeStep == LInv /\ [Next]_vars => TypeOK'
<1> SUFFICES ASSUME TypeOK, \A n \in Node : SessionOwned(n) /\ NodeLocal(n),
                    [Next]_vars
             PROVE  TypeOK'
    BY DEF LInv, NodeInv
<1> USE TimingAssumption, NodeAssumption DEF TypeOK, Phase, Acquiring, Leading,
        Releasing, NoKey, NoSession, etcdVars, nodeVars
<1>t. CASE Tick
    BY <1>t DEF Tick
<1>u. CASE UNCHANGED vars
    BY <1>u DEF vars
<1>1. ASSUME NEW n \in Node, StartNode(n) PROVE TypeOK'
    BY <1>1 DEF StartNode, ForgetSession, ForgetAll, EndRenewal, DropLease, PutKey
<1>2. ASSUME NEW n \in Node, BeginAcquire(n) PROVE TypeOK'
    BY <1>2 DEF BeginAcquire, ForgetSession, ForgetAll, EndRenewal, DropLease, PutKey
<1>3. ASSUME NEW n \in Node, CommitTxn(n) PROVE TypeOK'
    <2> DEFINE l == session[n].lease
    <2>1. l \in LeaseId
        BY <1>3 DEF CommitTxn, SessionOwned, Owning
    <2>2. CASE PutSucceeds(l)
        <3>1. session' = [session EXCEPT ![n].term = revision + 1]
            BY <2>2, <1>3 DEF CommitTxn
        <3>a. session \in [Node -> [term : Nat, lease : LeaseId \cup {0}]] /\ revision \in Nat
            OBVIOUS
        <3> HIDE DEF TypeOK
        <3>2. session' \in [Node -> [term : Nat, lease : LeaseId \cup {0}]]
            BY <3>1, <3>a
        <3> USE DEF TypeOK
        <3>3. key' \in [owner : Node \cup {NoNode}, term : Nat, lease : LeaseId \cup {0}]
            BY <2>1, <2>2, <1>3 DEF CommitTxn, PutKey
        <3>4. phase' \in [Node -> Phase] /\ revision' \in Nat
            BY <2>2, <1>3 DEF CommitTxn, PutKey
        <3> QED
            BY <3>2, <3>3, <3>4, <1>3 DEF CommitTxn
    <2>3. CASE ~PutSucceeds(l)
        BY SMTT(30), <2>1, <2>3, <1>3 DEF CommitTxn
    <2> QED
        BY <2>2, <2>3
<1>4. ASSUME NEW n \in Node, FinishAcquire(n) PROVE TypeOK'
    BY <1>4 DEF FinishAcquire, ForgetSession, ForgetAll, EndRenewal, DropLease, PutKey
<1>5. ASSUME NEW n \in Node, AbandonAcquire(n) PROVE TypeOK'
    <2> DEFINE l == session[n].lease
    <2>1. phase[n] = "txn" => l \in LeaseId
        BY DEF SessionOwned, Owning
    <2>2. orphan' \subseteq Node \X LeaseId
        BY <2>1, <1>5 DEF AbandonAcquire
    <2>3. CASE UNCHANGED <<revision, key, lease>>
        BY <2>2, <2>3, <1>5 DEF AbandonAcquire, ForgetSession
    <2>4. CASE DropLease(l)
        <3>1. EtcdTyped'
            BY <2>4, DropLeaseTyped
        <3> QED
            BY <2>2, <3>1, <1>5 DEF AbandonAcquire, ForgetSession, ForgetAll, EtcdTyped
    <2> QED
        BY <2>3, <2>4, <1>5 DEF AbandonAcquire
<1>6. ASSUME NEW n \in Node, Promote(n) PROVE TypeOK'
    BY <1>6 DEF Promote, ForgetSession, ForgetAll, EndRenewal, DropLease, PutKey
<1>7. ASSUME NEW n \in Node, Serve(n) PROVE TypeOK'
    BY <1>7 DEF Serve, ForgetSession, ForgetAll, EndRenewal, DropLease, PutKey
<1>8. ASSUME NEW n \in Node, StartupFails(n) PROVE TypeOK'
    BY <1>8 DEF StartupFails, ForgetSession, ForgetAll, EndRenewal, DropLease, PutKey
<1>9. ASSUME NEW n \in Node, BlockedStops(n) PROVE TypeOK'
    BY <1>9 DEF BlockedStops, ForgetSession, ForgetAll, EndRenewal, DropLease, PutKey
<1>10. ASSUME NEW n \in Node, BeginDrain(n) PROVE TypeOK'
    BY <1>10 DEF BeginDrain, ForgetSession, ForgetAll, EndRenewal, DropLease, PutKey
<1>11. ASSUME NEW n \in Node, Drained(n) PROVE TypeOK'
    BY <1>11 DEF Drained, ForgetSession, ForgetAll, EndRenewal, DropLease, PutKey
<1>12. ASSUME NEW n \in Node, DeleteKey(n) PROVE TypeOK'
    BY <1>12 DEF DeleteKey, ForgetSession, ForgetAll, EndRenewal, DropLease, PutKey
<1>13. ASSUME NEW n \in Node, FinishRelease(n) PROVE TypeOK'
    <2> DEFINE l == session[n].lease
    <2>3. CASE UNCHANGED <<revision, key, lease>>
        BY <2>3, <1>13 DEF FinishRelease, ForgetSession, ForgetAll
    <2>4. CASE DropLease(l)
        <3>1. EtcdTyped'
            BY <2>4, DropLeaseTyped
        <3> QED
            BY <3>1, <1>13 DEF FinishRelease, ForgetSession, ForgetAll, EtcdTyped
    <2> QED
        BY <2>3, <2>4, <1>13 DEF FinishRelease
<1>14. ASSUME NEW n \in Node, BeginRenew(n) PROVE TypeOK'
    BY <1>14 DEF BeginRenew, ForgetSession, ForgetAll, EndRenewal, DropLease, PutKey
<1>15. ASSUME NEW n \in Node, KeepAlive(n) PROVE TypeOK'
    <2>0. renewal[n] = "keepalive"
        BY <1>15 DEF KeepAlive
    <2>p. phase[n] \in {"catchup", "serving"}
        BY <2>0 DEF NodeLocal
    <2>1. session[n].lease \in LeaseId
        BY <2>p DEF SessionOwned, Owning, Held
    <2>2. lease' \in [LeaseId -> [owner : Node \cup {NoNode},
                                  status : {"free", "live", "gone"},
                                  deadline : Nat]]
        <3> DEFINE l == session[n].lease
                   r == [lease[l] EXCEPT !.deadline = clock + TTL]
        <3>1. lease' = [lease EXCEPT ![l] = r]
            BY <1>15 DEF KeepAlive
        <3>2. r \in [owner : Node \cup {NoNode}, status : {"free", "live", "gone"},
                     deadline : Nat]
            BY SMTT(30), <2>1
        <3> HIDE DEF r
        <3> QED
            BY <2>1, <3>1, <3>2
    <2>3. renewal' \in [Node -> {"none", "keepalive", "get", "checked"}]
        BY <1>15 DEF KeepAlive
    <2> QED
        BY <2>2, <2>3, <1>15 DEF KeepAlive
<1>16. ASSUME NEW n \in Node, CheckKey(n) PROVE TypeOK'
    BY <1>16 DEF CheckKey, ForgetSession, ForgetAll, EndRenewal, DropLease, PutKey
<1>17. ASSUME NEW n \in Node, FinishRenew(n) PROVE TypeOK'
    BY <1>17 DEF FinishRenew, ForgetSession, ForgetAll, EndRenewal, DropLease, PutKey
<1>18. ASSUME NEW n \in Node, AbandonRenew(n) PROVE TypeOK'
    BY <1>18 DEF AbandonRenew, ForgetSession, ForgetAll, EndRenewal, DropLease, PutKey
<1>19. ASSUME NEW n \in Node, Crash(n) PROVE TypeOK'
    <2>1. session[n].lease \in LeaseId \cup {0} /\ session[n].term \in Nat
        OBVIOUS
    <2> QED
        BY <2>1, <1>19 DEF Crash, ForgetSession, ForgetAll, EndRenewal, DropLease, PutKey,
           SessionOwned, Owning, NodeLocal, Held
<1>20. ASSUME NEW n \in Node, NEW l \in LeaseId, GrantLease(n, l) PROVE TypeOK'
    BY <1>20 DEF GrantLease, PutKey
<1>21. ASSUME NEW n \in Node, NEW l \in LeaseId, OrphanArrives(n, l) PROVE TypeOK'
    BY <1>21 DEF OrphanArrives, PutKey
<1>22. ASSUME NEW l \in LeaseId, Expire(l) PROVE TypeOK'
    <2>1. EtcdTyped'
        BY SMTT(30), <1>22, DropLeaseTyped DEF Expire
    <2> QED
        BY <1>22, <2>1 DEF Expire, EtcdTyped
<1> QED
    BY ZenonT(30), <1>t, <1>u, <1>1, <1>2, <1>3, <1>4, <1>5, <1>6, <1>7, <1>8, <1>9, <1>10, <1>11, <1>12, <1>13, <1>14, <1>15, <1>16, <1>17, <1>18, <1>19, <1>20, <1>21, <1>22 DEF Next, NodeStep, LeaseStep

\* Every step keeps what the invariant says of etcd and of each node.
LEMMA InvStep == LInv /\ [Next]_vars => LInv'
<1> SUFFICES ASSUME LInv, [Next]_vars PROVE LInv'
    OBVIOUS
<1>0. TypeOK /\ TypeOK'
    BY TypeStep DEF LInv
<1> SUFFICES EtcdInv' /\ \A m \in Node : NodeInv(m)'
    BY <1>0 DEF LInv
<1>a. EtcdInv /\ \A m \in Node : NodeInv(m)
    BY SMTT(30) DEF LInv
<1> USE <1>0, <1>a, TimingAssumption, NodeAssumption, LeaseAssumption
        DEF TypeOK, Phase, Acquiring, Leading, Releasing, Held, Owning,
            NoKey, NoSession, etcdVars, nodeVars, EtcdInv, NodeInv, TermOrder,
            SessionOwned, DeadlineAfterCall, LiveLeaseHoldsKey,
            GoneMeansExpired, DeadlineSkew, NodeLocal
<1>t. CASE Tick
    BY SMTT(30), <1>t DEF Tick
<1>u. CASE UNCHANGED vars
    BY SMTT(30), <1>u DEF vars
<1>1. ASSUME NEW n \in Node, StartNode(n) PROVE EtcdInv' /\ \A m \in Node : NodeInv(m)'
    BY SMTT(30), <1>1 DEF StartNode
<1>2. ASSUME NEW n \in Node, BeginAcquire(n) PROVE EtcdInv' /\ \A m \in Node : NodeInv(m)'
    BY SMTT(30), <1>2 DEF BeginAcquire
<1>3. ASSUME NEW n \in Node, CommitTxn(n) PROVE EtcdInv' /\ \A m \in Node : NodeInv(m)'
    <2>1. CASE PutSucceeds(session[n].lease)
        <3>1. /\ key = NoKey
              /\ key' = [owner |-> n, term |-> revision + 1, lease |-> session[n].lease]
              /\ revision' = revision + 1
              /\ session' = [session EXCEPT ![n].term = revision + 1]
              /\ phase' = [phase EXCEPT ![n] = "won"]
              /\ phase[n] = "txn"
              /\ UNCHANGED <<clock, lease, orphan, start, expires, renewal, term>>
            BY <1>3, <2>1 DEF CommitTxn, PutKey, PutSucceeds
        <3>2. EtcdInv'
            BY SMTT(30), <3>1
        <3>3. ASSUME NEW m \in Node \ {n} PROVE NodeInv(m)'
            BY <3>1
        <3>4. session'[n].term = revision + 1 /\ session'[n].lease = session[n].lease
            BY <3>1
        <3>5. LiveLeaseHoldsKey(n)'
            BY <3>1, <3>4
        <3>6. SessionOwned(n)' /\ DeadlineAfterCall(n)' /\ GoneMeansExpired(n)'
            <4>1. /\ session[n].lease \in LeaseId
                  /\ lease[session[n].lease].owner = n
                  /\ lease[session[n].lease].status # "free"
                  /\ lease[session[n].lease].deadline >= start[n] + TTL
                  /\ lease[session[n].lease].status = "gone"
                        => clock >= lease[session[n].lease].deadline
                BY ZenonT(30), <3>1
            <4> HIDE <1>0, <1>a DEF TypeOK, NodeInv, EtcdInv
            <4> QED
                BY <3>1, <3>4, <4>1
        <3>7. DeadlineSkew(n)' /\ NodeLocal(n)'
            <4>a. NodeLocal(n) /\ phase \in [Node -> Phase]
                OBVIOUS
            <4>1. renewal[n] = "none" /\ start[n] <= clock /\ phase'[n] = "won"
                <5> HIDE <1>0, <1>a DEF TypeOK, NodeInv, EtcdInv
                <5> QED
                    BY SMTT(30), <3>1, <4>a
            <4> HIDE <1>0, <1>a DEF TypeOK, NodeInv, EtcdInv
            <4> QED
                BY <3>1, <4>1
        <3>8. NodeInv(n)'
            BY SMTT(30), <3>5, <3>6, <3>7
        <3> QED
            BY <3>2, <3>3, <3>8
    <2>2. CASE ~PutSucceeds(session[n].lease)
        BY SMTT(30), <1>3, <2>2 DEF CommitTxn
    <2> QED
        BY SMTT(30), <2>1, <2>2
<1>4. ASSUME NEW n \in Node, FinishAcquire(n) PROVE EtcdInv' /\ \A m \in Node : NodeInv(m)'
    BY SMTT(30), <1>4 DEF FinishAcquire, InTime
<1>5. ASSUME NEW n \in Node, AbandonAcquire(n) PROVE EtcdInv' /\ \A m \in Node : NodeInv(m)'
    <2>1. CASE UNCHANGED <<revision, key, lease>>
        BY SMTT(30), <1>5, <2>1 DEF AbandonAcquire, ForgetSession
    <2>2. CASE phase[n] \in Owning /\ DropLease(session[n].lease)
        <3>1. EtcdInv'
            BY SMTT(30), <1>5, <2>2 DEF AbandonAcquire, ForgetSession, DropLease
        <3>2. ASSUME NEW m \in Node \ {n} PROVE NodeInv(m)'
            BY SMTT(30), <1>5, <2>2 DEF AbandonAcquire, ForgetSession, DropLease
        <3>3. NodeInv(n)'
            BY SMTT(30), <1>5, <2>2 DEF AbandonAcquire, ForgetSession, DropLease
        <3> QED
            BY <3>1, <3>2, <3>3
    <2>3. \/ UNCHANGED <<revision, key, lease>>
          \/ phase[n] \in Owning /\ DropLease(session[n].lease)
        <3>1. phase[n] \in Acquiring \ {"grant"} => phase[n] \in Owning
            BY SMTT(30) DEF Acquiring, Owning
        <3> QED
            BY ZenonT(30), <3>1, <1>5 DEF AbandonAcquire
    <2> QED
        BY SMTT(30), <2>1, <2>2, <2>3
<1>6. ASSUME NEW n \in Node, Promote(n) PROVE EtcdInv' /\ \A m \in Node : NodeInv(m)'
    BY SMTT(30), <1>6 DEF Promote
<1>7. ASSUME NEW n \in Node, Serve(n) PROVE EtcdInv' /\ \A m \in Node : NodeInv(m)'
    BY SMTT(30), <1>7 DEF Serve
<1>8. ASSUME NEW n \in Node, StartupFails(n) PROVE EtcdInv' /\ \A m \in Node : NodeInv(m)'
    BY SMTT(30), <1>8 DEF StartupFails, EndRenewal
<1>9. ASSUME NEW n \in Node, BlockedStops(n) PROVE EtcdInv' /\ \A m \in Node : NodeInv(m)'
    BY SMTT(30), <1>9 DEF BlockedStops, EndRenewal
<1>10. ASSUME NEW n \in Node, BeginDrain(n) PROVE EtcdInv' /\ \A m \in Node : NodeInv(m)'
    BY SMTT(30), <1>10 DEF BeginDrain, EndRenewal
<1>11. ASSUME NEW n \in Node, Drained(n) PROVE EtcdInv' /\ \A m \in Node : NodeInv(m)'
    BY SMTT(30), <1>11 DEF Drained
<1>12. ASSUME NEW n \in Node, DeleteKey(n) PROVE EtcdInv' /\ \A m \in Node : NodeInv(m)'
    BY SMTT(30), <1>12 DEF DeleteKey
<1>13. ASSUME NEW n \in Node, FinishRelease(n) PROVE EtcdInv' /\ \A m \in Node : NodeInv(m)'
    <2>1. CASE UNCHANGED <<revision, key, lease>>
        <3>1. EtcdInv'
            BY SMTT(30), <1>13, <2>1 DEF FinishRelease, ForgetSession, ForgetAll
        <3>2. ASSUME NEW m \in Node \ {n} PROVE NodeInv(m)'
            BY SMTT(30), <1>13, <2>1 DEF FinishRelease, ForgetSession, ForgetAll
        <3>3. NodeInv(n)'
            BY SMTT(30), <1>13, <2>1 DEF FinishRelease, ForgetSession, ForgetAll
        <3> QED
            BY <3>1, <3>2, <3>3
    <2>2. CASE phase[n] \in Owning /\ DropLease(session[n].lease)
        <3>1. EtcdInv'
            BY SMTT(30), <1>13, <2>2 DEF FinishRelease, ForgetSession, ForgetAll, DropLease
        <3>2. ASSUME NEW m \in Node \ {n} PROVE NodeInv(m)'
            <4>1. /\ phase'[m] = phase[m] /\ start'[m] = start[m]
                  /\ session'[m] = session[m] /\ expires'[m] = expires[m]
                  /\ renewal'[m] = renewal[m] /\ term'[m] = term[m] /\ clock' = clock
                BY SMTT(30), <1>13 DEF FinishRelease, ForgetSession, ForgetAll
            <4>2. phase[m] \in Owning =>
                      /\ session[m].lease \in LeaseId
                      /\ session[m].lease # session[n].lease
                      /\ lease'[session[m].lease] = lease[session[m].lease]
                BY SMTT(30), <2>2 DEF DropLease
            <4>3. key.lease # session[n].lease => key' = key
                BY SMTT(30), <2>2 DEF DropLease
            <4> QED
                BY SMTT(30), <4>1, <4>2, <4>3
        <3>3. NodeInv(n)'
            BY SMTT(30), <1>13, <2>2 DEF FinishRelease, ForgetSession, ForgetAll, DropLease
        <3> QED
            BY <3>1, <3>2, <3>3
    <2>3. \/ UNCHANGED <<revision, key, lease>>
          \/ phase[n] \in Owning /\ DropLease(session[n].lease)
        BY ZenonT(30), <1>13 DEF FinishRelease, Owning
    <2> QED
        BY <2>1, <2>2, <2>3
<1>14. ASSUME NEW n \in Node, BeginRenew(n) PROVE EtcdInv' /\ \A m \in Node : NodeInv(m)'
    BY SMTT(30), <1>14 DEF BeginRenew
<1>15. ASSUME NEW n \in Node, KeepAlive(n) PROVE EtcdInv' /\ \A m \in Node : NodeInv(m)'
    BY SMTT(30), <1>15 DEF KeepAlive
<1>16. ASSUME NEW n \in Node, CheckKey(n) PROVE EtcdInv' /\ \A m \in Node : NodeInv(m)'
    BY SMTT(30), <1>16 DEF CheckKey
<1>17. ASSUME NEW n \in Node, FinishRenew(n) PROVE EtcdInv' /\ \A m \in Node : NodeInv(m)'
    BY SMTT(30), <1>17 DEF FinishRenew, InTime, EndRenewal
<1>18. ASSUME NEW n \in Node, AbandonRenew(n) PROVE EtcdInv' /\ \A m \in Node : NodeInv(m)'
    BY SMTT(30), <1>18 DEF AbandonRenew, EndRenewal
<1>19. ASSUME NEW n \in Node, Crash(n) PROVE EtcdInv' /\ \A m \in Node : NodeInv(m)'
    BY SMTT(30), <1>19 DEF Crash, ForgetSession, ForgetAll
<1>20. ASSUME NEW n \in Node, NEW l \in LeaseId, GrantLease(n, l)
       PROVE  EtcdInv' /\ \A m \in Node : NodeInv(m)'
    BY SMTT(30), <1>20 DEF GrantLease, PutKey, PutSucceeds, InTime
<1>21. ASSUME NEW n \in Node, NEW l \in LeaseId, OrphanArrives(n, l)
       PROVE  EtcdInv' /\ \A m \in Node : NodeInv(m)'
    BY SMTT(30), <1>21 DEF OrphanArrives, PutKey, PutSucceeds, InTime
<1>22. ASSUME NEW l \in LeaseId, Expire(l)
       PROVE  EtcdInv' /\ \A m \in Node : NodeInv(m)'
    BY SMTT(30), <1>22 DEF Expire, DropLease
<1> QED
    BY ZenonT(30), <1>t, <1>u, <1>1, <1>2, <1>3, <1>4, <1>5, <1>6, <1>7, <1>8, <1>9, <1>10, <1>11, <1>12, <1>13, <1>14, <1>15, <1>16, <1>17, <1>18, <1>19, <1>20, <1>21, <1>22 DEF Next, NodeStep, LeaseStep

\* The inductive invariant holds in every behaviour.
LEMMA InvHolds == Spec => []LInv
<1>1. Init => LInv
    BY TimingAssumption, NodeAssumption, LeaseAssumption
       DEF Init, LInv, TypeOK, EtcdInv, NodeInv, TermOrder, SessionOwned,
           DeadlineAfterCall, LiveLeaseHoldsKey, GoneMeansExpired, DeadlineSkew,
           NodeLocal, NoKey, NoSession, Phase, Acquiring, Leading, Releasing,
           Held, Owning
<1> QED
    BY <1>1, InvStep, PTL DEF Spec

\* A node outside its own safety margin still holds the key: its deadline is
\* late by at most one call, and the margin is at least that long.
LEMMA SafeHoldsKey ==
    ASSUME RpcTimeout <= Safety, LInv, NEW n \in Node, phase[n] \in Held, Safe(expires[n])
    PROVE  key = [owner |-> n, term |-> session[n].term, lease |-> session[n].lease]
<1>1. /\ session[n].lease \in LeaseId
      /\ lease[session[n].lease].status \in {"live", "gone"}
      /\ lease[session[n].lease].deadline \in Nat
    BY DEF LInv, TypeOK, NodeInv, SessionOwned, Owning
<1>2. clock < lease[session[n].lease].deadline
    BY <1>1, TimingAssumption DEF LInv, TypeOK, NodeInv, DeadlineSkew, Safe
<1> QED
    BY <1>1, <1>2 DEF LInv, TypeOK, NodeInv, GoneMeansExpired, LiveLeaseHoldsKey

\* The lease state stays in its types (leadership.Controller, Coordinator).
THEOREM TypeCorrect == Spec => []TypeOK
<1>1. LInv => TypeOK
    BY DEF LInv
<1> QED
    BY <1>1, InvHolds, PTL

\* A node whose commit guard is open owns the leader key in its own Term, for
\* every timing in which the safety margin covers the renew interval.
THEOREM CommitOwnsKey == RpcTimeout <= Safety => (Spec => []WriterOwnsKey)
<1> SUFFICES ASSUME RpcTimeout <= Safety PROVE Spec => []WriterOwnsKey
    OBVIOUS
<1>1. LInv => WriterOwnsKey
    <2> SUFFICES ASSUME LInv, NEW n \in Node, Writable(n)
                 PROVE  key.owner = n /\ key.term = term[n]
        BY DEF WriterOwnsKey
    <2>1. phase[n] \in Leading /\ Safe(expires[n])
        BY DEF Writable, CanWrite, Leading
    <2>2. key = [owner |-> n, term |-> session[n].term, lease |-> session[n].lease]
        BY <2>1, SafeHoldsKey DEF Held
    <2> QED
        BY <2>1, <2>2 DEF LInv, NodeInv, NodeLocal
<1> QED
    BY <1>1, InvHolds, PTL

\* At most one node may commit: two that may would both own the one key.
THEOREM Exclusion == RpcTimeout <= Safety => (Spec => []WriteExclusion)
<1> SUFFICES ASSUME RpcTimeout <= Safety PROVE Spec => []WriteExclusion
    OBVIOUS
<1>1. WriterOwnsKey => WriteExclusion
    BY DEF WriterOwnsKey, WriteExclusion
<1> QED
    BY <1>1, CommitOwnsKey, PTL

\* The coordinator gives the key to a node only while no other may commit.
THEOREM Fenced == RpcTimeout <= Safety => (Spec => FencedBeforeGrant)
<1> SUFFICES ASSUME RpcTimeout <= Safety PROVE Spec => FencedBeforeGrant
    OBVIOUS
<1>1. LInv /\ [Next]_vars
        => [\A n \in Node : key'.owner = n /\ key.owner # n
                => \A m \in Node \ {n} : ~Writable(m)]_vars
    <2> SUFFICES ASSUME LInv, [Next]_vars, NEW n \in Node,
                        key'.owner = n, key.owner # n, NEW m \in Node \ {n}, Writable(m)
                 PROVE  FALSE
        OBVIOUS
    <2>1. key = [owner |-> m, term |-> session[m].term, lease |-> session[m].lease]
        BY SafeHoldsKey DEF Writable, CanWrite, Held, Leading
    <2>2. key.owner = m /\ key # NoKey
        BY SMTT(30), <2>1, NodeAssumption DEF NoKey
    <2>3. key' = key \/ key' = NoKey
        BY ZenonT(30), <2>2 DEF Next, NodeStep, LeaseStep, Tick, Expire, GrantLease, OrphanArrives,
            StartNode, BeginAcquire, CommitTxn, FinishAcquire, AbandonAcquire, Promote,
            Serve, StartupFails, BlockedStops, BeginDrain, Drained, DeleteKey,
            FinishRelease, BeginRenew, KeepAlive, CheckKey, FinishRenew, AbandonRenew,
            Crash, DropLease, PutSucceeds, PutKey, etcdVars, vars
    <2> QED
        BY <2>2, <2>3, NodeAssumption DEF NoKey
<1> QED
    BY <1>1, InvHolds, PTL DEF Spec, FencedBeforeGrant

\* A promotion raises the Term above every durable Term of the group.
THEOREM TermsOrdered == RpcTimeout <= Safety => (Spec => PromotionRaisesTerm)
<1> SUFFICES ASSUME RpcTimeout <= Safety PROVE Spec => PromotionRaisesTerm
    OBVIOUS
<1>1. LInv /\ [Next]_vars
        => [\A n \in Node : term'[n] # term[n] => \A m \in Node : term'[n] > term[m]]_vars
    <2> SUFFICES ASSUME LInv, [Next]_vars, NEW n \in Node, term'[n] # term[n], NEW m \in Node
                 PROVE  term'[n] > term[m]
        OBVIOUS
    <2>1. PICK p \in Node : Promote(p)
        BY ZenonT(30) DEF Next, NodeStep, LeaseStep, Tick, Expire, GrantLease, OrphanArrives,
            StartNode, BeginAcquire, CommitTxn, FinishAcquire, AbandonAcquire,
            Serve, StartupFails, BlockedStops, BeginDrain, Drained, DeleteKey,
            FinishRelease, BeginRenew, KeepAlive, CheckKey, FinishRenew, AbandonRenew,
            Crash, nodeVars, vars
    <2>2. p = n /\ term'[n] = session[n].term /\ session[n].term > term[n]
        BY <2>1 DEF Promote, LInv, TypeOK
    <2>3. key.owner = n /\ key.term = session[n].term
        BY <2>1, <2>2, SafeHoldsKey DEF Promote, Held
    <2> QED
        BY <2>2, <2>3, NodeAssumption DEF LInv, TypeOK, EtcdInv, TermOrder
<1> QED
    BY <1>1, InvHolds, PTL DEF Spec, PromotionRaisesTerm

=============================================================================
