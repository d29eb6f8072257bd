--------------------------- MODULE ServiceProofs ----------------------------
(***************************************************************************)
(* Notifications, answers and counters of the service, for any number of   *)
(* subscribers, appends and Streams and any limits: the inductive          *)
(* invariant, the lemmas that every step keeps the types of the variables  *)
(* and the append notifications sound and loses no wakeup, the answers of  *)
(* appends, the counters, and the theorems.                                *)
(***************************************************************************)
EXTENDS Service, FiniteSetTheorems, TLAPS

Holders(n) == {c \in Callers : sub[c].note = n}

Counted == {c \in Callers : sub[c].pc \notin {"idle", "acquire", "done"}}

\* A call holds a notification from its registration to its release.
HoldsWhileWaiting ==
    \A c \in Callers : sub[c].note # 0 <=> sub[c].pc \in {"waiting", "unwait"}

\* A notification counts its holders.
WaitersCounted == \A n \in Notes : notes[n].waiters = Cardinality(Holders(n))

\* What the map holds is open, has a holder, and is held for its Stream only.
MapOpen ==
    \A s \in Streams : note[s] # 0 =>
        /\ ~notes[note[s]].fired
        /\ Holders(note[s]) # {}
        /\ \A c \in Holders(note[s]) : env.subscribes[c] = s

\* A call that holds an open notification finds it in the map, where the next
\* signal looks for it.
OpenInMap ==
    \A c \in Callers :
        sub[c].note # 0 /\ ~notes[sub[c].note].fired => note[env.subscribes[c]] = sub[c].note

\* A closed store has no notifications left.
ClosedEmpty == closed => \A s \in Streams : note[s] = 0

NotesInv == HoldsWhileWaiting /\ WaitersCounted /\ MapOpen /\ OpenInMap /\ ClosedEmpty

In(a, q) == \E i \in DOMAIN q : q[i] = a

\* The record of an append is in its Stream when its future says so.
WriteInv(a) ==
    LET written == In(a, log[env.appends[a]])
    IN  /\ app[a].pc \in {"idle", "rate", "gate", "engine"} =>
               app[a].future = "none" /\ app[a].answer = "none" /\ ~written
        /\ app[a].pc \in {"commit", "finish"} =>
               /\ app[a].future \in {"pending", "ok", "refused", "lost", "applied"}
               /\ app[a].answer = IF app[a].pc = "commit" THEN "none" ELSE "uncertain"
               /\ written <=> Applied(a)
        /\ app[a].pc = "done" =>
               /\ app[a].future \in {"none", "silent"} /\ app[a].answer # "none"
               /\ app[a].answer = "certain" => ~written
               /\ app[a].answer = "ok" => written

WritesInv == \A a \in Writers : WriteInv(a)

\* A disk seen critical is critical to the controller, too.
ControllerKnows == endangered => controller.critical /\ capacityCritical

SubsCounted == subs = Cardinality(Counted)

\* The inductive invariant.
SInv ==
    /\ TypeOK /\ NotesInv /\ WritesInv /\ NoLostWakeup
    /\ SubsCounted /\ Refilled = budget /\ ControllerKnows

USE Zenon

-----------------------------------------------------------------------------
Size == Cardinality(Subscribers)

\* Facts about the constants and the environment of a behaviour.
LEMMA EnvTyped ==
    ASSUME env \in Environment
    PROVE  /\ Size \in Nat /\ Notes = 1..Size
           /\ IsFiniteSet(Callers) /\ Cardinality(Callers) <= Size
           /\ Callers \subseteq Subscribers /\ Writers \subseteq Appenders
           /\ env.subscribes \in [Callers -> Streams] /\ env.appends \in [Writers -> Streams]
           /\ env.limit \in Nat \ {0}
           /\ env.log \in [Streams -> Seq(Appenders \ Writers)]
           /\ Burst \in Nat \ {0} /\ Rate \in Nat \ {0} /\ MaxElapsed \in Nat
<1>1. Size \in Nat
    BY ServiceAssumption, FS_CardinalityType DEF Size
<1>2. Callers \in SUBSET Subscribers
    BY ServiceAssumption DEF Callers
<1>3. IsFiniteSet(Callers) /\ Cardinality(Callers) <= Size
    BY <1>2, ServiceAssumption, FS_Subset DEF Size
<1> QED
    BY <1>1, <1>2, <1>3, ServiceAssumption DEF Callers, Writers, Notes, Size

-----------------------------------------------------------------------------
(* Maintenance.                                                            *)

\* The smaller of two numbers is at most each of them.
LEMMA LowerTyped ==
    ASSUME NEW a \in Nat, NEW b \in Nat
    PROVE  Lower(a, b) \in 0..a /\ Lower(a, b) <= b
BY SMT DEF Lower

MaintenanceStep ==
    \/ \E disk \in Disks : Check(disk)
    \/ SampleFails \/ Checkpointed \/ CheckpointFails \/ Measure \/ MeasureFails
    \/ Collected \/ RetentionFails \/ (\E elapsed \in 1..2 : Tick(elapsed)) \/ EndMaintenance

\* The maintenance loop keeps its variables in their types.
LEMMA MaintenanceTyped ==
    ASSUME MaintenanceTypeOK, MaintenanceStep
    PROVE  MaintenanceTypeOK'
<1> USE MaintenanceAssumption DEF MaintenanceTypeOK
<1>1. ASSUME NEW disk \in Disks, Check(disk) PROVE MaintenanceTypeOK'
    <2>1. Critical(disk) \in BOOLEAN /\ High(disk) \in BOOLEAN
        BY DEF Critical, High, Recovered, CriticalNow
    <2>2. (CriticalNow(disk) \/ (endangered /\ ~Recovered(disk))) \in BOOLEAN
        BY DEF Recovered, CriticalNow
    <2> QED
        BY <1>1, <2>1, <2>2 DEF Check
<1>2. CASE SampleFails
    BY <1>2 DEF SampleFails
<1>3. CASE Checkpointed
    BY <1>3, SMT DEF Checkpointed
<1>4. CASE CheckpointFails
    BY <1>4 DEF CheckpointFails
<1>5. CASE Measure
    BY <1>5, SMT DEF Measure
<1>6. CASE MeasureFails
    BY <1>6 DEF MeasureFails
<1>7. CASE Collected
    BY <1>7, SMT DEF Collected
<1>8. CASE RetentionFails
    BY <1>8, SMT DEF RetentionFails
<1>9. ASSUME NEW elapsed \in 1..2, Tick(elapsed) PROVE MaintenanceTypeOK'
    <2>1. /\ Lower(MaximumInterval, controller.sinceCheckpoint + elapsed) \in 0..MaximumInterval
          /\ Lower(SnapshotInterval, controller.sinceSnapshot + elapsed) \in 0..SnapshotInterval
          /\ (IF controller.retryIn < elapsed THEN 0 ELSE controller.retryIn - elapsed) \in 0..RetryChecks
        BY SMT DEF Lower
    <2>2. controller' = [controller EXCEPT !.sinceCheckpoint = Lower(MaximumInterval, @ + elapsed),
                                           !.sinceSnapshot = Lower(SnapshotInterval, @ + elapsed),
                                           !.retryIn = IF @ < elapsed THEN 0 ELSE @ - elapsed]
        BY <1>9 DEF Tick
    <2>3. controller' \in [critical : BOOLEAN, high : BOOLEAN, sinceCheckpoint : 0..MaximumInterval,
                           sinceSnapshot : 0..SnapshotInterval, retryIn : 0..RetryChecks]
        BY <2>1, <2>2
    <2> QED
        BY <1>9, <2>3 DEF Tick
<1>10. CASE EndMaintenance
    BY <1>10 DEF EndMaintenance
<1> QED
    BY <1>1, <1>2, <1>3, <1>4, <1>5, <1>6, <1>7, <1>8, <1>9, <1>10 DEF MaintenanceStep

\* A disk that has recovered is not critical: High is below Critical and twice
\* the minimum above the minimum.
LEMMA ThresholdsApart ==
    ASSUME NEW disk \in Disks
    PROVE  ~(CriticalNow(disk) /\ Recovered(disk))
<1>1. disk.capacity \in Nat /\ disk.available \in Nat
    BY MaintenanceAssumption
<1>2. UsedPercent(disk) \in Int
    BY <1>1, SMT DEF UsedPercent
<1> QED
    BY <1>1, <1>2, MaintenanceAssumption, SMT DEF CriticalNow, Recovered

\* No step of the maintenance loop (runEngineMaintenance) forgets a critical
\* disk before a sample has shown it recovered.
LEMMA ControllerStep ==
    ASSUME MaintenanceTypeOK, ControllerKnows, MaintenanceStep
    PROVE  ControllerKnows'
<1> USE DEF MaintenanceTypeOK, ControllerKnows
<1>1. ASSUME NEW disk \in Disks, Check(disk) PROVE ControllerKnows'
    BY <1>1, ThresholdsApart DEF Check, Critical
<1>2. ASSUME NEW elapsed \in 1..2, Tick(elapsed) PROVE ControllerKnows'
    BY <1>2 DEF Tick
<1> QED
    BY <1>1, <1>2 DEF MaintenanceStep, SampleFails, Checkpointed, CheckpointFails, Measure, MeasureFails,
        Collected, RetentionFails, EndMaintenance

-----------------------------------------------------------------------------
(* Types.                                                                  *)

\* Closing channels keeps the type of the notifications.
LEMMA FiredTyped ==
    ASSUME TypeOK, NEW ns
    PROVE  Fire(ns) \in [Notes -> [waiters : Nat, fired : BOOLEAN]]
BY DEF Fire, TypeOK

\* Store.signal keeps the types of the map and of the notifications.
LEMMA SignalTyped ==
    ASSUME TypeOK, NEW s \in Streams, Signal(s)
    PROVE  /\ note' \in [Streams -> 0..Size]
           /\ notes' \in [Notes -> [waiters : Nat, fired : BOOLEAN]]
<1>1. note \in [Streams -> 0..Size] /\ Size \in Nat
    BY EnvTyped DEF TypeOK, Size
<1>2. notes \in [Notes -> [waiters : Nat, fired : BOOLEAN]]
    BY DEF TypeOK
<1> QED
    BY <1>1, <1>2, FiredTyped, SMT DEF Signal, noteVars

\* An answered append is a call like any other.
LEMMA AnswerTyped ==
    ASSUME TypeOK, NEW a \in Writers, NEW answer \in {"ok", "certain", "uncertain"}, Answer(a, answer)
    PROVE  app' \in [Writers -> Write]
<1>1. app \in [Writers -> Write]
    BY DEF TypeOK
<1>2. [NewAppend EXCEPT !.pc = "done", !.answer = answer] \in Write
    BY DEF NewAppend, Write
<1> QED
    BY <1>1, <1>2 DEF Answer

\* There is always a notification that nobody holds: a call that needs one holds
\* none, and there are as many notifications as subscribers.
LEMMA FreshFree ==
    ASSUME TypeOK, NEW c \in Callers, sub[c].note = 0
    PROVE  Fresh \in Notes /\ Holders(Fresh) = {}
<1> DEFINE Held == {sub[d].note : d \in Callers}
<1>e. Size \in Nat /\ Notes = 1..Size /\ IsFiniteSet(Callers) /\ Cardinality(Callers) <= Size
    BY EnvTyped DEF TypeOK
<1>1. \E n \in Notes : n \notin Held
    <2> SUFFICES ASSUME \A n \in Notes : n \in Held PROVE FALSE
        OBVIOUS
    <2> DEFINE f == [n \in Notes |-> CHOOSE d \in Callers : sub[d].note = n]
    <2>1. \A n \in Notes : f[n] \in Callers /\ sub[f[n]].note = n
        OBVIOUS
    <2>2. f \in [Notes -> Callers \ {c}]
        <3>1. \A n \in Notes : n # 0
            BY <1>e, SMT
        <3> QED
            BY <2>1, <3>1
    <2>3. IsFiniteSet(Callers \ {c}) /\ Cardinality(Callers \ {c}) = Cardinality(Callers) - 1
        BY <1>e, FS_RemoveElement
    <2>4. IsFiniteSet(Notes) /\ Cardinality(Notes) = Size
        BY <1>e, FS_Interval, SMT
    <2>5. Cardinality(Callers) \in Nat
        BY <1>e, FS_CardinalityType
    <2>6. Cardinality(Callers \ {c}) < Cardinality(Notes)
        BY <1>e, <2>3, <2>4, <2>5, SMT
    <2> HIDE DEF f
    <2>7. PICK m \in Notes, n \in Notes : m # n /\ f[m] = f[n]
        BY <2>2, <2>3, <2>4, <2>6, FS_PigeonHole, SMT
    <2> QED
        BY <2>1, <2>7
<1>2. Fresh \in Notes /\ Fresh \notin Held
    BY <1>1 DEF Fresh
<1> QED
    BY <1>2 DEF Holders

\* A notification that is held has a waiter; with one waiter it has no other.
LEMMA HeldCounted ==
    ASSUME TypeOK, WaitersCounted, NEW c \in Callers, sub[c].note # 0
    PROVE  LET n == sub[c].note
           IN  /\ n \in Notes /\ notes[n].waiters \in Nat \ {0}
               /\ notes[n].waiters = 1 => Holders(n) = {c}
<1> DEFINE n == sub[c].note
<1>e. Size \in Nat /\ Notes = 1..Size /\ IsFiniteSet(Callers)
    BY EnvTyped DEF TypeOK
<1>1. n \in Notes
    BY <1>e, SMT DEF TypeOK, Call, Size
<1>2. IsFiniteSet(Holders(n)) /\ c \in Holders(n)
    BY <1>e, FS_Subset DEF Holders
<1>3. Cardinality(Holders(n)) \in Nat /\ Cardinality(Holders(n)) # 0
    BY <1>2, FS_EmptySet, FS_CardinalityType
<1>4. Cardinality(Holders(n)) = 1 => Holders(n) = {c}
    BY <1>2, FS_Singleton, SMT
<1> QED
    BY <1>1, <1>3, <1>4 DEF WaitersCounted

\* A call that waits holds a notification.
LEMMA WaiterHolds ==
    ASSUME TypeOK, NotesInv, NEW c \in Callers, sub[c].pc = "waiting"
    PROVE  sub[c].note \in Notes /\ sub[c].note # 0
<1>1. sub[c].note # 0
    BY DEF NotesInv, HoldsWhileWaiting
<1> QED
    BY <1>1, HeldCounted DEF NotesInv

Registers(c, n, waiters) ==
    LET s == env.subscribes[c]
    IN  /\ ~closed /\ NextSequence(s) <= sub[c].cursor
        /\ IF note[s] = 0 THEN Holders(n) = {} ELSE n = note[s]
        /\ waiters = Cardinality(Holders(n)) + 1
        /\ sub' = [sub EXCEPT ![c].pc = "waiting", ![c].note = n]
        /\ note' = [note EXCEPT ![s] = n]
        /\ notes' = [notes EXCEPT ![n] = [waiters |-> waiters, fired |-> FALSE]]

\* WaitForAppend returns at once, or it adds a waiter to the notification of
\* the Stream, which is a new one when there was none.
LEMMA WaitRegisters ==
    ASSUME TypeOK, NotesInv, NEW c \in Callers, WaitForAppend(c)
    PROVE  \/ /\ sub' = [sub EXCEPT ![c].pc = "waited", ![c].error = IF closed THEN "closed" ELSE "none"]
              /\ UNCHANGED noteVars
           \/ \E n \in Notes, waiters \in Nat : Registers(c, n, waiters)
<1> DEFINE s == env.subscribes[c]
           n == IF note[s] = 0 THEN Fresh ELSE note[s]
           waiters == IF note[s] = 0 THEN 1 ELSE notes[n].waiters + 1
<1>e. Size \in Nat /\ Notes = 1..Size /\ s \in Streams /\ NextSequence(s) \in Nat /\ sub[c].cursor \in Nat
    BY EnvTyped, SMT DEF TypeOK, NextSequence, Call
<1>1. sub[c].note = 0
    BY DEF NotesInv, HoldsWhileWaiting, WaitForAppend
<1>2. Fresh \in Notes /\ Holders(Fresh) = {}
    BY <1>1, FreshFree
<1>3. n \in Notes /\ (IF note[s] = 0 THEN Holders(n) = {} ELSE n = note[s])
    BY <1>2, <1>e, SMT DEF TypeOK, Size
<1>4. waiters \in Nat /\ waiters = Cardinality(Holders(n)) + 1
    <2>1. CASE note[s] = 0
        BY <1>3, <2>1, FS_EmptySet, SMT
    <2>2. CASE note[s] # 0
        <3>1. notes[n].waiters \in Nat
            BY <1>3 DEF TypeOK
        <3>2. notes[n].waiters = Cardinality(Holders(n))
            BY <1>3 DEF NotesInv, WaitersCounted
        <3>3. waiters = notes[n].waiters + 1
            BY <2>2
        <3>4. PICK w : w = notes[n].waiters
            OBVIOUS
        <3>5. w \in Nat
            BY <3>1, <3>4
        <3>6. \A k \in Nat : k + 1 \in Nat
            BY SMT
        <3> QED
            BY <3>2, <3>3, <3>4, <3>5, <3>6
    <2> QED
        BY <2>1, <2>2
<1>5. CASE closed \/ Inspected(c) > sub[c].cursor
    BY <1>5 DEF WaitForAppend
<1>6. CASE ~(closed \/ Inspected(c) > sub[c].cursor)
    <2>1. NextSequence(s) <= sub[c].cursor
        BY <1>6, <1>e, SMT DEF Inspected
    <2>2. /\ sub' = [sub EXCEPT ![c].pc = "waiting", ![c].note = n]
          /\ note' = [note EXCEPT ![s] = n]
          /\ notes' = [notes EXCEPT ![n] = [waiters |-> waiters, fired |-> FALSE]]
        BY <1>6 DEF WaitForAppend
    <2> HIDE DEF n, waiters
    <2>3. Registers(c, n, waiters)
        BY <1>6, <1>3, <1>4, <2>1, <2>2 DEF Registers
    <2> QED
        BY <1>3, <1>4, <2>3
<1> QED
    BY <1>5, <1>6

\* A Subscribe call keeps the types.
LEMMA SubscribeTyped ==
    ASSUME TypeOK, NotesInv, NEW c \in Callers,
           \/ Subscribe(c) \/ SubscribeStep(c) \/ ReadFails(c) \/ HeartbeatDue(c)
           \/ Sent(c) \/ SlowConsumer(c) \/ CancelSubscribe(c)
    PROVE  TypeOK'
<1>e. /\ Size \in Nat /\ Notes = 1..Size /\ env.subscribes[c] \in Streams
      /\ env.limit \in Nat \ {0}
    BY EnvTyped DEF TypeOK
<1>s. sub \in [Callers -> Call]
    BY DEF TypeOK
<1>c. sub[c] \in Call
    BY <1>s
<1>o. UNCHANGED <<env, nodeVars, app, log, closed, fatal, rateVars, maintenanceVars>>
    BY DEF Subscribe, SubscribeStep, ReadFails, HeartbeatDue, Sent, SlowConsumer, CancelSubscribe,
        AcquireSubscription, Read, WaitForAppend, Woken, WaitCanceled, Unwait, Waited, SendStopped,
        ReleaseSubscription, WakeWith
<1>d. UNCHANGED <<Callers, Writers, Notes>>
    BY <1>o DEF Callers, Writers, Notes
<1>z. 0 \in 0..Cardinality(Subscribers) /\ 0 \in Nat
    BY <1>e, SMT DEF Size
<1>1. sub' \in [Callers -> Call]
    <2>p. ASSUME NEW pc, Step(c, pc), pc \in {"loop", "send", "wait", "release", "done"}
          PROVE  sub' \in [Callers -> Call]
        BY <2>p, <1>s, <1>c DEF Step, Call
    <2>w. ASSUME NEW error \in {"none", "closed", "canceled", "deadline"}, WakeWith(c, error)
          PROVE  sub' \in [Callers -> Call]
        BY <2>w, <1>s, <1>c DEF WakeWith, Call
    <2>1. CASE Subscribe(c)
        BY <2>1, <2>p, <1>s, <1>c, SMT DEF Subscribe, Call
    <2>2. CASE AcquireSubscription(c)
        BY <2>2, <2>p DEF AcquireSubscription
    <2>3. CASE Read(c) \/ ReadFails(c) \/ SlowConsumer(c) \/ SendStopped(c)
        BY <2>3, <2>p DEF Read, ReadFails, SlowConsumer, SendStopped
    <2>4. CASE WaitForAppend(c)
        BY <2>4, <1>s, <1>c, SMT DEF WaitForAppend, Call
    <2>5. CASE Woken(c) \/ WaitCanceled(c) \/ HeartbeatDue(c)
        BY <2>5, <2>w DEF Woken, WaitCanceled, HeartbeatDue
    <2>6. CASE Unwait(c)
        BY <2>6, <1>s, <1>c, <1>z DEF Unwait, Call
    <2>7. CASE Waited(c)
        BY <2>7, <2>p, <1>s, <1>c, SMT DEF Waited, Call
    <2>8. CASE Sent(c)
        <3>1. sub[c].cursor + 1 \in Nat
            BY <1>c, SMT DEF Call
        <3>2. CASE sub[c].pc = "send"
            BY <2>8, <1>s, <1>c, <3>1, <3>2 DEF Sent, Call
        <3>3. CASE sub[c].pc # "send"
            BY <2>8, <1>s, <1>c, <3>3 DEF Sent, Call
        <3> QED
            BY <3>2, <3>3
    <2>9. CASE ReleaseSubscription(c)
        <3>1. [NewCall EXCEPT !.pc = "done"] \in Call
            BY <1>z DEF NewCall, Call
        <3> QED
            BY <2>9, <1>s, <3>1 DEF ReleaseSubscription
    <2>10. CASE CancelSubscribe(c)
        BY <2>10, <1>s, <1>c DEF CancelSubscribe, Call
    <2> QED
        BY <2>1, <2>2, <2>3, <2>4, <2>5, <2>6, <2>7, <2>8, <2>9, <2>10 DEF SubscribeStep
<1>2. subs' \in 0..env.limit
    <2>t. subs \in 0..env.limit
        BY DEF TypeOK
    <2>1. CASE AcquireSubscription(c)
        BY <2>1, <2>t, <1>e, SMT DEF AcquireSubscription
    <2>2. CASE ReleaseSubscription(c)
        BY <2>2, <2>t, <1>e, SMT DEF ReleaseSubscription
    <2>3. CASE ~(AcquireSubscription(c) \/ ReleaseSubscription(c))
        <3>1. UNCHANGED subs
            BY <2>3 DEF Subscribe, SubscribeStep, ReadFails, HeartbeatDue, Sent, SlowConsumer, CancelSubscribe,
                Read, WaitForAppend, Woken, WaitCanceled, Unwait, Waited, SendStopped, WakeWith
        <3> QED
            BY <2>t, <3>1
    <2> QED
        BY <2>1, <2>2, <2>3
<1>3. note' \in [Streams -> 0..Size] /\ notes' \in [Notes -> [waiters : Nat, fired : BOOLEAN]]
    <2>t. note \in [Streams -> 0..Size] /\ notes \in [Notes -> [waiters : Nat, fired : BOOLEAN]]
        BY DEF TypeOK, Size
    <2>1. CASE WaitForAppend(c)
        <3>1. ASSUME NEW n \in Notes, NEW waiters \in Nat, Registers(c, n, waiters)
              PROVE  note' \in [Streams -> 0..Size] /\ notes' \in [Notes -> [waiters : Nat, fired : BOOLEAN]]
            BY <3>1, <2>t, <1>e, SMT DEF Registers
        <3> QED
            BY <2>1, <2>t, <3>1, WaitRegisters DEF noteVars
    <2>2. CASE Unwait(c)
        <3> DEFINE n == sub[c].note
        <3>1. n \in Notes /\ notes[n].waiters \in Nat \ {0}
            BY <2>2, HeldCounted DEF NotesInv, HoldsWhileWaiting, Unwait
        <3>2. Left(n) \in [waiters : Nat, fired : BOOLEAN]
            BY <2>t, <3>1, SMT DEF Left
        <3> QED
            BY <2>2, <2>t, <3>1, <3>2, <1>e, SMT DEF Unwait, ReleaseNotification
    <2>3. CASE ~(WaitForAppend(c) \/ Unwait(c))
        <3>1. UNCHANGED noteVars
            BY <2>3 DEF Subscribe, SubscribeStep, ReadFails, HeartbeatDue, Sent, SlowConsumer, CancelSubscribe,
                Read, AcquireSubscription, Woken, WaitCanceled, Waited, SendStopped, WakeWith, ReleaseSubscription
        <3> QED
            BY <2>t, <3>1 DEF noteVars
    <2> QED
        BY <2>1, <2>2, <2>3
<1> QED
    BY <1>o, <1>d, <1>1, <1>2, <1>3, SMT DEF TypeOK, MaintenanceTypeOK, nodeVars, rateVars, maintenanceVars, Size

\* The budget and the bucket.
LEMMA RefillTyped ==
    ASSUME TypeOK
    PROVE  Refilled \in 0..Burst
<1>1. bucket.requests \in Nat /\ bucket.elapsed \in Nat /\ Rate \in Nat /\ Burst \in Nat
    BY EnvTyped, SMT DEF TypeOK
<1>2. bucket.elapsed * Rate \in Nat
    BY <1>1, SMT
<1> QED
    BY <1>1, <1>2, SMT DEF Refilled, Lower

\* An Append call keeps the types.
LEMMA AppendTyped ==
    ASSUME TypeOK, Refilled = budget, NEW a \in Writers,
           AppendCall(a) \/ AppendStep(a) \/ Commit(a) \/ CommitFails(a) \/ CancelAppend(a)
    PROVE  TypeOK'
<1>e. /\ Size \in Nat /\ Notes = 1..Size /\ env.appends[a] \in Streams /\ a \in Appenders
      /\ Burst \in Nat \ {0} /\ MaxElapsed \in Nat
    BY EnvTyped DEF TypeOK
<1>a. app \in [Writers -> Write] /\ app[a] \in Write
    BY DEF TypeOK
<1>f. ASSUME NEW f \in {"ok", "refused", "lost", "applied"}
      PROVE  [app EXCEPT ![a].future = f] \in [Writers -> Write]
    BY <1>a DEF Write
<1>o. UNCHANGED <<env, nodeVars, subVars, closed>>
    BY DEF AppendCall, AppendStep, Commit, CommitFails, CancelAppend, AllowWrite, Gate, GateCanceled, Enqueue,
        Return, Abandon, FinishAppend
<1>d. UNCHANGED <<Callers, Writers, Notes>>
    BY <1>o DEF Callers, Writers, Notes
<1>1. app' \in [Writers -> Write]
    <2>1. CASE AppendCall(a)
        BY <2>1, <1>a, AnswerTyped, SMT DEF AppendCall, Write
    <2>2. CASE AllowWrite(a)
        BY <2>2, <1>a, AnswerTyped, SMT DEF AllowWrite, Write
    <2>3. CASE Gate(a) \/ GateCanceled(a) \/ Enqueue(a)
        BY <2>3, <1>a, AnswerTyped, SMT DEF Gate, GateCanceled, Enqueue, Write
    <2>4. CASE Return(a)
        <3>1. Reported(app[a].future) \in {"ok", "certain", "uncertain"}
            BY DEF Reported
        <3> QED
            BY <2>4, <3>1, AnswerTyped DEF Return
    <2>5. CASE Abandon(a)
        <3>1. Reported("abandoned") \in {"ok", "certain", "uncertain"}
            BY DEF Reported
        <3> QED
            BY <2>5, <3>1, <1>a DEF Abandon, Write
    <2>6. CASE FinishAppend(a)
        BY <2>6, <1>a DEF FinishAppend, Write
    <2>7. CASE Commit(a)
        BY <2>7, <1>f DEF Commit
    <2>8. CASE CommitFails(a)
        BY <2>8, <1>f DEF CommitFails
    <2>9. CASE CancelAppend(a)
        BY <2>9, <1>a DEF CancelAppend, Write
    <2> QED
        BY <2>1, <2>2, <2>3, <2>4, <2>5, <2>6, <2>7, <2>8, <2>9 DEF AppendStep
<1>2. log' \in [Streams -> Seq(Appenders)]
    <2>1. log \in [Streams -> Seq(Appenders)]
        BY DEF TypeOK
    <2>2. Append(log[env.appends[a]], a) \in Seq(Appenders)
        BY <2>1, <1>e, SMT
    <2> QED
        BY <2>1, <2>2, <1>e DEF AppendCall, AppendStep, Commit, CommitFails, CancelAppend, AllowWrite, Gate, GateCanceled, Enqueue,
            Return, Abandon, FinishAppend
<1>3. note' \in [Streams -> 0..Size] /\ notes' \in [Notes -> [waiters : Nat, fired : BOOLEAN]]
    <2>1. CASE UNCHANGED noteVars
        BY <2>1 DEF TypeOK, noteVars, Size
    <2>2. CASE Signal(env.appends[a])
        BY <2>2, <1>e, SignalTyped
    <2> QED
        BY <2>1, <2>2 DEF AppendCall, AppendStep, Commit, CommitFails, CancelAppend, AllowWrite, Gate, GateCanceled, Enqueue,
            Return, Abandon, FinishAppend
<1>4. fatal' \in BOOLEAN
    BY DEF TypeOK, AppendCall, AppendStep, Commit, CommitFails, CancelAppend, AllowWrite, Gate, GateCanceled, Enqueue,
        Return, Abandon, FinishAppend
<1>5. bucket' \in [requests : 0..Burst, elapsed : 0..MaxElapsed] /\ budget' \in 0..Burst
    <2>1. CASE AllowWrite(a)
        <3>1. Refilled \in 0..Burst
            BY RefillTyped
        <3> QED
            BY <2>1, <3>1, <1>e, SMT DEF AllowWrite
    <2>2. CASE UNCHANGED rateVars
        BY <2>2 DEF TypeOK, rateVars
    <2> QED
        BY <2>1, <2>2 DEF AppendCall, AppendStep, Commit, CommitFails, CancelAppend, Gate, GateCanceled, Enqueue,
            Return, Abandon, FinishAppend
<1>6. MaintenanceTypeOK'
    <2>1. CASE Commit(a)
        <3>1. Lower(FlushLimit, unflushed + 1) \in Nat /\ Lower(MaxRetained + 1, retained + 1) \in Nat
            BY MaintenanceAssumption, SMT DEF TypeOK, MaintenanceTypeOK, Lower
        <3> QED
            BY <2>1, <3>1 DEF Commit, TypeOK, MaintenanceTypeOK
    <2>2. CASE UNCHANGED maintenanceVars
        BY <2>2 DEF TypeOK, MaintenanceTypeOK, maintenanceVars
    <2> QED
        BY <2>1, <2>2 DEF AppendCall, AppendStep, CommitFails, CancelAppend, AllowWrite, Gate, GateCanceled, Enqueue,
            Return, Abandon, FinishAppend
<1> QED
    BY <1>o, <1>d, <1>1, <1>2, <1>3, <1>4, <1>5, <1>6 DEF TypeOK, nodeVars, subVars, Size

\* Time, the node and maintenance keep the types.
LEMMA NodeTyped ==
    ASSUME TypeOK, TimePasses \/ Interrupt \/ NodeStep \/ ForceStop \/ Maintain \/ MaintenanceEnds
    PROVE  TypeOK'
<1>o. UNCHANGED <<env, log, fatal, subs>>
    BY DEF TimePasses, Interrupt, NodeStep, ForceStop, Maintain, MaintenanceEnds, BeginDrain, DrainCancel, Stopped,
        CloseStore, CommitterClosed, callVars, subVars, serviceVars
<1>d. UNCHANGED <<Callers, Writers, Notes>>
    BY <1>o DEF Callers, Writers, Notes
<1>1. CASE TimePasses
    <2>1. /\ bucket \in [requests : 0..Burst, elapsed : 0..MaxElapsed] /\ budget \in 0..Burst
          /\ Burst \in Nat \ {0} /\ Rate \in Nat \ {0} /\ MaxElapsed \in Nat
        BY EnvTyped DEF TypeOK
    <2>2. bucket' \in [requests : 0..Burst, elapsed : 0..MaxElapsed] /\ budget' \in 0..Burst
        BY <1>1, <2>1, SMT DEF TimePasses, Lower
    <2>3. UNCHANGED <<env, phase, draining, canceled, sub, subs, app, log, note, notes, closed, fatal, maintenanceVars>>
        BY <1>1 DEF TimePasses, nodeVars, subVars, noteVars
    <2>4. MaintenanceTypeOK'
        BY <2>3 DEF TypeOK, MaintenanceTypeOK, maintenanceVars
    <2> QED
        BY <1>d, <2>2, <2>3, <2>4 DEF TypeOK
<1>2. CASE Interrupt \/ BeginDrain \/ DrainCancel \/ Stopped \/ CommitterClosed
    <2>1. phase' \in {"stopping", "draining", "graceful", "close", "stopped"}
        BY <1>2 DEF Interrupt, BeginDrain, DrainCancel, Stopped, CommitterClosed
    <2>2. draining' \in BOOLEAN /\ canceled' \in BOOLEAN
        BY <1>2 DEF Interrupt, BeginDrain, DrainCancel, Stopped, CommitterClosed, TypeOK
    <2>3. UNCHANGED <<env, callVars, noteVars, closed, fatal, maintenanceVars>>
        BY <1>2 DEF Interrupt, BeginDrain, DrainCancel, Stopped, CommitterClosed
    <2>4. MaintenanceTypeOK'
        BY <2>3 DEF TypeOK, MaintenanceTypeOK, maintenanceVars
    <2> QED
        BY <1>d, <2>1, <2>2, <2>3, <2>4 DEF TypeOK, callVars, subVars, noteVars, rateVars
<1>3. CASE CloseStore
    <2>1. note' \in [Streams -> 0..Cardinality(Subscribers)] /\ notes' \in [Notes -> [waiters : Nat, fired : BOOLEAN]]
        <3>1. 0 \in 0..Cardinality(Subscribers)
            BY EnvTyped, SMT DEF TypeOK, Size
        <3> QED
            BY <1>3, <3>1, FiredTyped DEF CloseStore, CloseNotifications
    <2>2. phase' = "closing" /\ closed' = TRUE
        BY <1>3 DEF CloseStore, CloseNotifications
    <2>3. UNCHANGED <<env, draining, canceled, sub, subs, app, log, fatal, bucket, budget, maintenanceVars>>
        BY <1>3 DEF CloseStore, callVars, subVars, rateVars
    <2>4. MaintenanceTypeOK'
        BY <2>3 DEF TypeOK, MaintenanceTypeOK, maintenanceVars
    <2> QED
        BY <1>d, <2>1, <2>2, <2>3, <2>4 DEF TypeOK
<1>4. CASE ForceStop
    <2>1. sub' \in [Callers -> Call]
        <3>1. \A call \in Call : [call EXCEPT !.live = FALSE] \in Call
            BY DEF Call
        <3>2. \A c \in Callers : sub[c] \in Call
            BY DEF TypeOK
        <3> QED
            BY <1>4, <3>1, <3>2 DEF ForceStop
    <2>2. app' \in [Writers -> Write]
        <3>1. \A write \in Write : [write EXCEPT !.live = FALSE] \in Write
            BY DEF Write
        <3>2. \A a \in Writers : app[a] \in Write
            BY DEF TypeOK
        <3> QED
            BY <1>4, <3>1, <3>2 DEF ForceStop
    <2>3. phase' = "forced" /\ UNCHANGED <<env, draining, canceled, subs, log, noteVars, closed, fatal, rateVars>>
        BY <1>4 DEF ForceStop
    <2>4. MaintenanceTypeOK'
        BY <1>4 DEF ForceStop, TypeOK, MaintenanceTypeOK, maintenanceVars
    <2> QED
        BY <1>d, <2>1, <2>2, <2>3, <2>4 DEF TypeOK, noteVars, rateVars
<1>5. CASE Maintain \/ MaintenanceEnds
    <2>1. MaintenanceTypeOK'
        BY <1>5, MaintenanceTyped DEF Maintain, MaintenanceEnds, MaintenanceStep, TypeOK
    <2>2. UNCHANGED serviceVars
        BY <1>5 DEF Maintain, MaintenanceEnds
    <2> QED
        BY <1>d, <2>1, <2>2 DEF TypeOK, serviceVars, nodeVars, callVars, subVars, noteVars, rateVars
<1> QED
    BY <1>1, <1>2, <1>3, <1>4, <1>5 DEF NodeStep

(***************************************************************************)
(* Append notifications                                                    *)
(***************************************************************************)
\* A step of Subscribe calls that neither takes nor gives back a notification.
QuietSub ==
    \A c \in Callers :
        /\ sub'[c].note = sub[c].note
        /\ sub'[c].pc \in {"waiting", "unwait"} <=> sub[c].pc \in {"waiting", "unwait"}
        /\ sub'[c].pc = "waiting" => sub[c].pc = "waiting" /\ sub'[c].cursor = sub[c].cursor

\* The append has a signal to send, or will never send it.
Signalling(a) == (Applied(a) /\ app[a].pc \in {"commit", "finish"}) \/ app[a].future = "silent"

\* A step that touches neither the map nor what calls hold keeps the
\* notifications sound.
LEMMA NotesQuiet ==
    ASSUME NotesInv, QuietSub, UNCHANGED <<env, note, notes, closed>>
    PROVE  NotesInv'
<1>1. UNCHANGED <<Callers, Notes>>
    BY DEF Callers, Notes
<1>2. \A n : Holders(n)' = Holders(n)
    BY <1>1 DEF Holders, QuietSub
<1>3. HoldsWhileWaiting'
    BY <1>1 DEF NotesInv, HoldsWhileWaiting, QuietSub
<1>4. WaitersCounted'
    BY <1>1, <1>2 DEF NotesInv, WaitersCounted
<1>5. MapOpen'
    BY <1>2 DEF NotesInv, MapOpen
<1>6. OpenInMap'
    BY <1>1 DEF NotesInv, OpenInMap, QuietSub
<1>7. ClosedEmpty'
    BY DEF NotesInv, ClosedEmpty
<1> QED
    BY <1>3, <1>4, <1>5, <1>6, <1>7 DEF NotesInv

\* A step that changes no Stream and withdraws no signal loses no wakeup.
LEMMA WakeupQuiet ==
    ASSUME NotesInv, NoLostWakeup, QuietSub, UNCHANGED <<env, notes, log>>,
           \A a \in Writers : Signalling(a) => Signalling(a)'
    PROVE  NoLostWakeup'
<1>1. UNCHANGED <<Callers, Writers>>
    BY DEF Callers, Writers
<1> QED
    BY <1>1 DEF NoLostWakeup, QuietSub, Signalling, NextSequence, Applied

\* Most steps of a Subscribe call are quiet.
LEMMA SubscribeQuiet ==
    ASSUME TypeOK, NotesInv, NEW c \in Callers,
           \/ Subscribe(c) \/ AcquireSubscription(c) \/ Read(c) \/ ReadFails(c)
           \/ Woken(c) \/ WaitCanceled(c) \/ HeartbeatDue(c) \/ Waited(c) \/ Sent(c) \/ SendStopped(c)
           \/ SlowConsumer(c) \/ ReleaseSubscription(c) \/ CancelSubscribe(c)
    PROVE  QuietSub /\ UNCHANGED <<env, note, notes, closed, log, app>>
<1>s. sub \in [Callers -> Call] /\ sub[c] \in Call
    BY DEF TypeOK
<1>h. sub[c].note # 0 <=> sub[c].pc \in {"waiting", "unwait"}
    BY DEF NotesInv, HoldsWhileWaiting
<1>o. UNCHANGED <<env, note, notes, closed, log, app>>
    BY DEF Subscribe, AcquireSubscription, Read, ReadFails, Woken, WaitCanceled, HeartbeatDue, WakeWith, Waited,
        Sent, SendStopped, SlowConsumer, ReleaseSubscription, CancelSubscribe, noteVars
<1> SUFFICES QuietSub
    BY <1>o
<1>p. ASSUME NEW pc \in {"loop", "send", "wait", "release", "done"}, Step(c, pc),
             sub[c].pc \notin {"waiting", "unwait"}
      PROVE  QuietSub
    BY <1>p, <1>s DEF Step, QuietSub, Call
<1>w. ASSUME NEW error, WakeWith(c, error) PROVE QuietSub
    BY <1>w, <1>s DEF WakeWith, QuietSub, Call
<1>1. CASE Subscribe(c)
    BY <1>1, <1>p, <1>s, SMT DEF Subscribe, QuietSub, Call
<1>2. CASE AcquireSubscription(c)
    BY <1>2, <1>p DEF AcquireSubscription
<1>3. CASE Read(c) \/ ReadFails(c) \/ SlowConsumer(c) \/ SendStopped(c)
    BY <1>3, <1>p DEF Read, ReadFails, SlowConsumer, SendStopped
<1>4. CASE Woken(c) \/ WaitCanceled(c) \/ HeartbeatDue(c)
    BY <1>4, <1>w DEF Woken, WaitCanceled, HeartbeatDue
<1>5. CASE Waited(c)
    BY <1>5, <1>p, <1>s, SMT DEF Waited, QuietSub, Call
<1>6. CASE Sent(c)
    BY <1>6, <1>s DEF Sent, QuietSub, Call
<1>7. CASE ReleaseSubscription(c)
    <2>1. \A d \in Callers : d # c => sub'[d] = sub[d]
        BY <1>7, <1>s DEF ReleaseSubscription
    <2>2. sub'[c].note = 0 /\ sub'[c].pc = "done"
        BY <1>7, <1>s DEF ReleaseSubscription, NewCall
    <2> QED
        BY <1>7, <1>h, <2>1, <2>2 DEF ReleaseSubscription, QuietSub
<1>8. CASE CancelSubscribe(c)
    BY <1>8, <1>s DEF CancelSubscribe, QuietSub, Call
<1> QED
    BY <1>1, <1>2, <1>3, <1>4, <1>5, <1>6, <1>7, <1>8

\* A Stream's notification belongs to no other Stream.
LEMMA MapInjective ==
    ASSUME NotesInv, NEW s \in Streams, NEW r \in Streams, note[s] # 0, note[s] = note[r]
    PROVE  s = r
BY DEF NotesInv, MapOpen

\* What the map of notifications holds for a Stream (Store.notifications).
LEMMA MapEntry ==
    ASSUME TypeOK, NotesInv, NEW r \in Streams, note[r] # 0
    PROVE  /\ note[r] \in Notes /\ ~notes[note[r]].fired /\ Holders(note[r]) # {}
           /\ \A d \in Holders(note[r]) : env.subscribes[d] = r
<1>1. note[r] \in 0..Size /\ Size \in Nat /\ Notes = 1..Size
    BY EnvTyped DEF TypeOK, Notes, Size
<1>2. note[r] \in Notes
    BY <1>1, SMT
<1>3. MapOpen
    BY DEF NotesInv
<1> QED
    BY <1>2, <1>3 DEF MapOpen

\* A call holds a notification or none.
LEMMA HeldNote ==
    ASSUME TypeOK, NEW d \in Callers, sub[d].note # 0
    PROVE  sub[d].note \in Notes
<1>1. sub[d] \in Call
    BY DEF TypeOK
<1>2. sub[d].note \in 0..Size
    BY <1>1 DEF Call, Size
<1>3. Size \in Nat /\ Notes = 1..Size
    BY EnvTyped DEF TypeOK
<1> QED
    BY <1>2, <1>3, SMT

\* Registering a waiter (Store.WaitForAppend under notifyMu), on a fresh
\* notification or on the one in the map, keeps the notifications sound.
LEMMA RegisterNotes ==
    ASSUME TypeOK, NotesInv, NEW c \in Callers, sub[c].note = 0,
           NEW n \in Notes, NEW waiters \in Nat, Registers(c, n, waiters), UNCHANGED <<env, closed>>
    PROVE  NotesInv'
<1> DEFINE s == env.subscribes[c]
<1>e. /\ UNCHANGED <<Callers, Notes>> /\ IsFiniteSet(Callers) /\ s \in Streams /\ n # 0 /\ Notes = 1..Size
      /\ env.subscribes \in [Callers -> Streams] /\ Size \in Nat
    <2>1. /\ IsFiniteSet(Callers) /\ Notes = 1..Size /\ Size \in Nat
          /\ env.subscribes \in [Callers -> Streams]
        BY EnvTyped DEF TypeOK
    <2>2. UNCHANGED <<Callers, Notes>>
        BY DEF Callers, Notes
    <2>3. s \in Streams
        BY <2>1
    <2>4. n # 0
        BY <2>1, SMT
    <2> QED
        BY <2>1, <2>2, <2>3, <2>4
<1>t. /\ sub \in [Callers -> Call] /\ note \in [Streams -> 0..Size]
      /\ notes \in [Notes -> [waiters : Nat, fired : BOOLEAN]]
    BY DEF TypeOK, Size
<1>s. /\ \A d \in Callers : d # c => sub'[d] = sub[d]
      /\ sub'[c].note = n /\ sub'[c].pc = "waiting"
    BY <1>t DEF Registers, Call
<1>m. /\ \A r \in Streams : r # s => note'[r] = note[r]
      /\ note'[s] = n
    BY <1>e, <1>t DEF Registers
<1>n. /\ \A m \in Notes : m # n => notes'[m] = notes[m]
      /\ notes'[n] = [waiters |-> waiters, fired |-> FALSE]
    BY <1>t DEF Registers
<1>h. /\ Holders(n)' = Holders(n) \cup {c} /\ c \notin Holders(n)
      /\ \A m \in Notes : m # n => Holders(m)' = Holders(m)
    BY <1>e, <1>s, SMT DEF Holders
<1>f. IF note[s] = 0 THEN Holders(n) = {} ELSE n = note[s]
    BY DEF Registers
<1>1. HoldsWhileWaiting'
    BY <1>e, <1>s DEF NotesInv, HoldsWhileWaiting
<1>2. WaitersCounted'
    <2>1. IsFiniteSet(Holders(n))
        BY <1>e, FS_Subset DEF Holders
    <2>2. Cardinality(Holders(n)') = Cardinality(Holders(n)) + 1
        BY <2>1, <1>h, FS_AddElement
    <2>3. waiters = Cardinality(Holders(n)) + 1
        BY DEF Registers
    <2> SUFFICES ASSUME NEW m \in Notes PROVE notes'[m].waiters = Cardinality(Holders(m)')
        BY <1>e DEF WaitersCounted
    <2>4. CASE m = n
        BY <2>4, <1>n, <2>2, <2>3, SMT
    <2>5. CASE m # n
        BY <2>5, <1>n, <1>h DEF NotesInv, WaitersCounted
    <2> QED
        BY <2>4, <2>5
<1>3. MapOpen'
    <2> SUFFICES ASSUME NEW r \in Streams, note'[r] # 0
                 PROVE  /\ ~notes'[note'[r]].fired
                        /\ Holders(note[r])' # {}
                        /\ \A d \in Holders(note[r])' : env.subscribes[d] = r
        BY DEF MapOpen
    <2>1. CASE r = s
        <3>1. note'[r] = n /\ ~notes'[n].fired
            BY <2>1, <1>m, <1>n, SMT
        <3>2. \A d \in Holders(n) : env.subscribes[d] = r
            <4>1. CASE note[s] = 0
                BY <4>1, <1>f
            <4>2. CASE note[s] # 0
                BY <4>2, <2>1, <1>f, MapEntry
            <4> QED
                BY <4>1, <4>2
        <3> QED
            BY <3>1, <3>2, <2>1, <1>h
    <2>2. CASE r # s
        <3>0. note'[r] = note[r]
            BY <2>2, <1>m
        <3>1. note'[r] = note[r] /\ note[r] \in Notes
            BY <3>0, MapEntry
        <3>2. note[r] # n
            BY <2>2, <3>1, <1>e, <1>f, MapInjective DEF NotesInv, MapOpen
        <3> QED
            <4>1. PICK m : m = note[r]
                OBVIOUS
            <4>2. /\ m \in Notes /\ m # n /\ ~notes[m].fired /\ Holders(m) # {}
                  /\ \A d \in Holders(m) : env.subscribes[d] = r
                BY <3>1, <3>2, <4>1, MapEntry
            <4>3. notes'[m] = notes[m] /\ Holders(m)' = Holders(m)
                BY <4>2, <1>n, <1>h
            <4> QED
                BY <3>1, <4>1, <4>2, <4>3
    <2> QED
        BY <2>1, <2>2
<1>4. OpenInMap'
    <2> SUFFICES ASSUME NEW d \in Callers, sub'[d].note # 0, ~notes'[sub'[d].note].fired
                 PROVE  note'[env.subscribes[d]] = sub'[d].note
        BY <1>e DEF OpenInMap
    <2>1. CASE d = c
        BY <2>1, <1>s, <1>m
    <2>2. CASE d # c /\ sub[d].note = n
        <3>1. d \in Holders(n)
            BY <2>2 DEF Holders
        <3> QED
            BY <2>2, <3>1, <1>e, <1>f, <1>s, <1>m DEF NotesInv, MapOpen
    <2>3. CASE d # c /\ sub[d].note # n
        <3>1. sub'[d] = sub[d] /\ sub[d].note \in Notes /\ ~notes[sub[d].note].fired
            <4>1. sub'[d] = sub[d] /\ sub[d].note # 0
                BY <2>3, <1>s
            <4>2. sub[d].note \in Notes
                BY <4>1, HeldNote
            <4> QED
                BY <4>1, <4>2, <2>3, <1>n
        <3>2. note[env.subscribes[d]] = sub[d].note
            BY <3>1, <1>e DEF NotesInv, OpenInMap
        <3>3. env.subscribes[d] # s
            BY <3>1, <3>2, <2>3, <1>e, <1>f
        <3> QED
            BY <3>1, <3>2, <3>3, <1>e, <1>m
    <2> QED
        BY <2>1, <2>2, <2>3
<1>5. ClosedEmpty'
    BY DEF Registers, ClosedEmpty
<1> QED
    BY <1>1, <1>2, <1>3, <1>4, <1>5 DEF NotesInv

\* Releasing a waiter (releaseNotificationLocked) keeps the notifications sound.
LEMMA UnwaitNotes ==
    ASSUME TypeOK, NotesInv, NEW c \in Callers, Unwait(c)
    PROVE  NotesInv'
<1> DEFINE s == env.subscribes[c]
<1>o. UNCHANGED <<env, closed>> /\ sub[c].note # 0
    BY DEF Unwait, NotesInv, HoldsWhileWaiting
<1>p. PICK n \in Notes : n = sub[c].note
    BY <1>o, HeldCounted DEF NotesInv
<1>e. /\ UNCHANGED <<Callers, Notes>> /\ IsFiniteSet(Callers) /\ s \in Streams /\ Notes = 1..Size
      /\ env.subscribes \in [Callers -> Streams] /\ Size \in Nat
    BY <1>o, EnvTyped DEF Callers, Notes, TypeOK
<1>t. /\ sub \in [Callers -> Call] /\ note \in [Streams -> 0..Size]
      /\ notes \in [Notes -> [waiters : Nat, fired : BOOLEAN]]
    BY DEF TypeOK, Size
<1>c. /\ n \in Notes /\ notes[n].waiters \in Nat \ {0}
      /\ notes[n].waiters = 1 => Holders(n) = {c}
    BY <1>o, <1>p, HeldCounted DEF NotesInv
<1>s. /\ \A d \in Callers : d # c => sub'[d] = sub[d]
      /\ sub'[c].note = 0 /\ sub'[c].pc = "waited"
    BY <1>t DEF Unwait, Call
<1>n. /\ \A m \in Notes : m # n => notes'[m] = notes[m]
      /\ notes'[n] = Left(n)
    BY <1>t, <1>c, <1>p DEF Unwait, ReleaseNotification
<1>l. /\ Left(n).waiters = notes[n].waiters - 1
      /\ notes[n].waiters # 1 => Left(n).fired = notes[n].fired
    <2>1. CASE notes[n].waiters = 1
        BY <2>1, SMT DEF Left
    <2>2. CASE notes[n].waiters # 1
        BY <2>2, <1>c, <1>t DEF Left
    <2> QED
        BY <2>1, <2>2
<1>m. /\ \A r \in Streams : r # s => note'[r] = note[r]
      /\ note'[s] = IF notes[n].waiters = 1 /\ note[s] = n THEN 0 ELSE note[s]
    <2>1. /\ note' = IF notes'[n].waiters = 0 /\ note[s] = n THEN [note EXCEPT ![s] = 0] ELSE note
          /\ notes'[n] = Left(n)
        BY <1>n, <1>p DEF Unwait, ReleaseNotification
    <2>2. notes'[n].waiters = 0 <=> notes[n].waiters = 1
        BY <2>1, <1>c, <1>l, SMT
    <2> QED
        BY <2>1, <2>2, <1>e, <1>t
<1>h. /\ Holders(n)' = Holders(n) \ {c} /\ c \in Holders(n)
      /\ \A m \in Notes : m # n => Holders(m)' = Holders(m)
    BY <1>e, <1>s, <1>c, <1>p, SMT DEF Holders
<1>k. Cardinality(Holders(n)') = notes[n].waiters - 1 /\ IsFiniteSet(Holders(n)')
    <2>1. IsFiniteSet(Holders(n))
        BY <1>e, FS_Subset DEF Holders
    <2> QED
        BY <2>1, <1>h, <1>c, FS_RemoveElement, SMT DEF NotesInv, WaitersCounted
<1>1. HoldsWhileWaiting'
    BY <1>e, <1>s DEF NotesInv, HoldsWhileWaiting
<1>2. WaitersCounted'
    <2> SUFFICES ASSUME NEW m \in Notes PROVE notes'[m].waiters = Cardinality(Holders(m)')
        BY <1>e DEF WaitersCounted
    <2>1. CASE m = n
        BY <2>1, <1>n, <1>l, <1>k
    <2>2. CASE m # n
        BY <2>2, <1>n, <1>h DEF NotesInv, WaitersCounted
    <2> QED
        BY <2>1, <2>2
<1>3. MapOpen'
    <2> SUFFICES ASSUME NEW r \in Streams, note'[r] # 0
                 PROVE  /\ ~notes'[note'[r]].fired
                        /\ Holders(note[r])' # {}
                        /\ \A d \in Holders(note[r])' : env.subscribes[d] = r
        BY <1>o DEF MapOpen
    <2>0. note'[r] = note[r]
        <3>1. CASE r = s
            BY <3>1, <1>m
        <3>2. CASE r # s
            BY <3>2, <1>m
        <3> QED
            BY <3>1, <3>2
    <2>1. note'[r] = note[r] /\ note[r] \in Notes
        BY <2>0, MapEntry
    <2>2. CASE note[r] # n
        <3>1. PICK m : m = note[r]
            OBVIOUS
        <3>2. /\ m \in Notes /\ m # n /\ ~notes[m].fired /\ Holders(m) # {}
              /\ \A d \in Holders(m) : env.subscribes[d] = r
            BY <2>1, <2>2, <3>1, MapEntry
        <3>3. notes'[m] = notes[m] /\ Holders(m)' = Holders(m)
            BY <3>2, <1>n, <1>h
        <3> QED
            BY <2>1, <3>1, <3>2, <3>3
    <2>3. CASE note[r] = n
        <3>1. r = s
            BY <2>3, <2>1, <1>h DEF NotesInv, MapOpen
        <3>2. notes[n].waiters # 1
            BY <3>1, <2>1, <2>3, <1>m
        <3>3. Holders(n)' # {}
            BY <3>2, <1>k, <1>c, FS_EmptySet, SMT
        <3> QED
            BY <2>1, <2>3, <3>2, <3>3, <1>n, <1>l, <1>h DEF NotesInv, MapOpen
    <2> QED
        BY <2>2, <2>3
<1>4. OpenInMap'
    <2> SUFFICES ASSUME NEW d \in Callers, sub'[d].note # 0, ~notes'[sub'[d].note].fired
                 PROVE  note'[env.subscribes[d]] = sub'[d].note
        BY <1>e, <1>o DEF OpenInMap
    <2>1. d # c /\ sub'[d] = sub[d] /\ sub[d].note \in Notes
        <3>1. d # c
            BY <1>s
        <3>2. sub'[d] = sub[d] /\ sub[d].note # 0
            BY <3>1, <1>s
        <3> QED
            BY <3>1, <3>2, HeldNote
    <2>2. ~notes[sub[d].note].fired /\ (sub[d].note = n => notes[n].waiters # 1)
        <3>1. sub[d].note = n => d \in Holders(n)
            BY DEF Holders
        <3> QED
            BY <2>1, <3>1, <1>n, <1>l, <1>c
    <2>3. note[env.subscribes[d]] = sub[d].note
        BY <2>1, <2>2 DEF NotesInv, OpenInMap
    <2> QED
        BY <2>1, <2>2, <2>3, <1>m, <1>e
<1>5. ClosedEmpty'
    BY <1>o, <1>m DEF NotesInv, ClosedEmpty
<1> QED
    BY <1>1, <1>2, <1>3, <1>4, <1>5 DEF NotesInv

\* Store.signal, which takes the notification out of the map as it closes its
\* channel, keeps the notifications sound.
LEMMA SignalNotes ==
    ASSUME TypeOK, NotesInv, NEW s \in Streams, Signal(s), UNCHANGED <<env, sub, closed>>
    PROVE  NotesInv'
<1>q. QuietSub
    BY DEF QuietSub
<1>1. CASE UNCHANGED noteVars
    BY <1>1, <1>q, NotesQuiet DEF noteVars
<1>2. CASE note[s] # 0 /\ notes' = Fire({note[s]}) /\ note' = [note EXCEPT ![s] = 0]
    <2>e. /\ UNCHANGED <<Callers, Notes>> /\ Notes = 1..Size /\ Size \in Nat
          /\ env.subscribes \in [Callers -> Streams]
        BY EnvTyped DEF Callers, Notes, TypeOK
    <2>t. /\ sub \in [Callers -> Call] /\ note \in [Streams -> 0..Size]
          /\ notes \in [Notes -> [waiters : Nat, fired : BOOLEAN]]
        BY DEF TypeOK, Size
    <2>n. \A m \in Notes : /\ notes'[m].waiters = notes[m].waiters
                           /\ notes'[m].fired = (notes[m].fired \/ m = note[s])
        BY <1>2, <2>t DEF Fire
    <2>m. note'[s] = 0 /\ \A r \in Streams : r # s => note'[r] = note[r]
        BY <1>2, <2>t
    <2>h. \A m : Holders(m)' = Holders(m)
        BY <2>e DEF Holders
    <2>1. HoldsWhileWaiting' /\ WaitersCounted' /\ ClosedEmpty'
        BY <2>e, <2>n, <2>m, <2>h, SMT DEF NotesInv, HoldsWhileWaiting, WaitersCounted, ClosedEmpty
    <2>2. MapOpen'
        <3> SUFFICES ASSUME NEW r \in Streams, note'[r] # 0
                     PROVE  /\ ~notes'[note'[r]].fired
                            /\ Holders(note[r])' # {}
                            /\ \A d \in Holders(note[r])' : env.subscribes[d] = r
            BY DEF MapOpen
        <3>1. r # s /\ note'[r] = note[r] /\ note[r] \in Notes
            BY <2>m, <2>t, <2>e, SMT
        <3>2. note[r] # note[s]
            BY <3>1, MapInjective
        <3> QED
            BY <3>1, <3>2, <2>n, <2>h DEF NotesInv, MapOpen
    <2>3. OpenInMap'
        <3> SUFFICES ASSUME NEW d \in Callers, sub[d].note # 0, ~notes'[sub[d].note].fired
                     PROVE  note'[env.subscribes[d]] = sub[d].note
            BY <2>e DEF OpenInMap
        <3>1. sub[d].note \in Notes
            BY <2>t, <2>e, SMT DEF Call, Size
        <3>2. note[env.subscribes[d]] = sub[d].note /\ sub[d].note # note[s]
            BY <3>1, <2>n DEF NotesInv, OpenInMap
        <3> QED
            BY <3>2, <2>m, <2>e
    <2> QED
        BY <2>1, <2>2, <2>3 DEF NotesInv
<1> QED
    BY <1>1, <1>2 DEF Signal

\* closeNotifications keeps the notifications sound.
LEMMA CloseNotes ==
    ASSUME TypeOK, NotesInv, CloseNotifications, UNCHANGED <<env, sub>>
    PROVE  NotesInv'
<1>e. /\ UNCHANGED <<Callers, Notes>> /\ Notes = 1..Size /\ Size \in Nat
      /\ env.subscribes \in [Callers -> Streams]
    BY EnvTyped DEF Callers, Notes, TypeOK
<1>t. /\ sub \in [Callers -> Call] /\ note \in [Streams -> 0..Size]
      /\ notes \in [Notes -> [waiters : Nat, fired : BOOLEAN]]
    BY DEF TypeOK, Size
<1>n. \A m \in Notes : /\ notes'[m].waiters = notes[m].waiters
                       /\ notes'[m].fired = (notes[m].fired \/ \E s \in Streams : m = note[s])
    <2> SUFFICES ASSUME NEW m \in Notes
                 PROVE  /\ notes'[m].waiters = notes[m].waiters
                        /\ notes'[m].fired = (notes[m].fired \/ \E s \in Streams : m = note[s])
        OBVIOUS
    <2>1. m # 0 /\ notes' = Fire({note[s] : s \in Streams} \ {0})
        BY <1>e, SMT DEF CloseNotifications
    <2>2. CASE \E s \in Streams : m = note[s]
        BY <2>1, <2>2, <1>t DEF Fire
    <2>3. CASE ~\E s \in Streams : m = note[s]
        BY <2>1, <2>3, <1>t DEF Fire
    <2> QED
        BY <2>2, <2>3
<1>m. \A r \in Streams : note'[r] = 0
    BY DEF CloseNotifications
<1>h. \A m : Holders(m)' = Holders(m)
    BY <1>e DEF Holders
<1>1. HoldsWhileWaiting' /\ WaitersCounted' /\ MapOpen' /\ ClosedEmpty'
    BY <1>e, <1>n, <1>m, <1>h DEF NotesInv, HoldsWhileWaiting, WaitersCounted, MapOpen, ClosedEmpty
<1>2. OpenInMap'
    <2> SUFFICES ASSUME NEW d \in Callers, sub[d].note # 0, ~notes'[sub[d].note].fired
                 PROVE  FALSE
        BY <1>e DEF OpenInMap
    <2>1. sub[d].note \in Notes
        BY <1>t, <1>e, SMT DEF Call, Size
    <2> QED
        BY <2>1, <1>n, <1>e DEF NotesInv, OpenInMap
<1> QED
    BY <1>1, <1>2 DEF NotesInv

\* A call that registers does so before it finds its cursor at the end, and a
\* call that leaves closes no channel and opens none that is still held.
LEMMA RegisterWakeup ==
    ASSUME TypeOK, NotesInv, NoLostWakeup, NEW c \in Callers, sub[c].note = 0,
           NEW n \in Notes, NEW waiters \in Nat, Registers(c, n, waiters), UNCHANGED <<env, log, app>>
    PROVE  NoLostWakeup'
<1> DEFINE s == env.subscribes[c]
<1>e. /\ UNCHANGED <<Callers, Writers>> /\ s \in Streams /\ Notes = 1..Size /\ Size \in Nat
      /\ NextSequence(s) \in Nat /\ sub[c].cursor \in Nat
    <2>1. UNCHANGED <<Callers, Writers>> /\ s \in Streams /\ Notes = 1..Size /\ Size \in Nat
        BY EnvTyped DEF Callers, Writers, TypeOK
    <2>2. sub[c] \in Call /\ log[s] \in Seq(Appenders)
        BY <2>1 DEF TypeOK
    <2>3. sub[c].cursor \in Nat
        BY <2>2 DEF Call
    <2>4. NextSequence(s) \in Nat
        BY <2>2, SMT DEF NextSequence
    <2> QED
        BY <2>1, <2>3, <2>4
<1>t. sub \in [Callers -> Call] /\ notes \in [Notes -> [waiters : Nat, fired : BOOLEAN]]
    BY DEF TypeOK
<1>s. /\ \A d \in Callers : d # c => sub'[d] = sub[d]
      /\ sub'[c].cursor = sub[c].cursor
    BY <1>t, SMT DEF Registers, Call
<1> SUFFICES ASSUME NEW d \in Callers, sub'[d].pc = "waiting", ~notes'[sub'[d].note].fired,
                    NextSequence(env.subscribes[d])' > sub'[d].cursor
             PROVE  \E a \in Writers : env.appends[a] = env.subscribes[d] /\ Signalling(a)
    BY <1>e DEF NoLostWakeup, Signalling, Applied
<1>0. NextSequence(env.subscribes[d]) > sub'[d].cursor
    BY DEF NextSequence
<1>1. d # c
    <2>1. NextSequence(s) <= sub[c].cursor
        BY DEF Registers
    <2>2. ~(NextSequence(s) > sub[c].cursor)
        <3>1. \A x, y \in Nat : x <= y => ~(x > y)
            BY SMT
        <3>2. NextSequence(s) \in Nat /\ sub[c].cursor \in Nat
            BY <1>e
        <3> QED
            BY <2>1, <3>1, <3>2
    <2> QED
        BY <2>2, <1>0, <1>s
<1>2. sub'[d] = sub[d] /\ sub[d].note \in Notes
    BY <1>1, <1>s, WaiterHolds
<1>3. ~notes[sub[d].note].fired
    <2>1. CASE sub[d].note = n
        <3>1. d \in Holders(n)
            BY <2>1 DEF Holders
        <3> QED
            BY <2>1, <3>1, <1>e DEF Registers, NotesInv, MapOpen
    <2>2. CASE sub[d].note # n
        BY <2>2, <1>2, <1>t DEF Registers
    <2> QED
        BY <2>1, <2>2
<1> QED
    BY <1>2, <1>3 DEF NoLostWakeup, Signalling, NextSequence

\* A waiter that leaves takes no wakeup from the others: the entry goes only
\* with its last waiter.
LEMMA UnwaitWakeup ==
    ASSUME TypeOK, NotesInv, NoLostWakeup, NEW c \in Callers, Unwait(c)
    PROVE  NoLostWakeup'
<1>o. UNCHANGED <<env, log, app>> /\ sub[c].note # 0
    BY DEF Unwait, NotesInv, HoldsWhileWaiting
<1>e. UNCHANGED <<Callers, Writers>> /\ Notes = 1..Size /\ Size \in Nat
    BY <1>o, EnvTyped DEF Callers, Writers, TypeOK
<1>t. sub \in [Callers -> Call] /\ notes \in [Notes -> [waiters : Nat, fired : BOOLEAN]]
    BY DEF TypeOK
<1>p. PICK n \in Notes : n = sub[c].note
    BY <1>o, HeldCounted DEF NotesInv
<1>s. sub'[c].pc = "waited" /\ \A d \in Callers : d # c => sub'[d] = sub[d]
    BY <1>t DEF Unwait, Call
<1> SUFFICES ASSUME NEW d \in Callers, sub'[d].pc = "waiting", ~notes'[sub'[d].note].fired,
                    NextSequence(env.subscribes[d])' > sub'[d].cursor
             PROVE  \E a \in Writers : env.appends[a] = env.subscribes[d] /\ Signalling(a)
    BY <1>e, <1>o DEF NoLostWakeup, Signalling, Applied
<1>1. d # c /\ sub'[d] = sub[d] /\ sub[d].note \in Notes
    <2>1. d # c /\ sub'[d] = sub[d]
        BY <1>s
    <2> QED
        BY <2>1, WaiterHolds
<1>2. ~notes[sub[d].note].fired
    <2>1. CASE sub[d].note = n
        <3>1. d \in Holders(n)
            BY <2>1 DEF Holders
        <3>2. notes[n].waiters # 1
            BY <3>1, <1>1, <1>o, <1>p, HeldCounted DEF NotesInv
        <3>3. notes'[n].fired = notes[n].fired
            BY <3>2, <1>t, <1>p DEF Unwait, ReleaseNotification, Left
        <3> QED
            BY <2>1, <3>3, <1>1
    <2>2. CASE sub[d].note # n
        BY <2>2, <1>1, <1>t, <1>p DEF Unwait, ReleaseNotification
    <2> QED
        BY <2>1, <2>2
<1> QED
    BY <1>o, <1>1, <1>2 DEF NoLostWakeup, Signalling, NextSequence

\* The signal of an append reaches every call that waits on its Stream.
LEMMA SignalWakeup ==
    ASSUME TypeOK, NotesInv, NoLostWakeup, NEW a \in Writers, Signal(env.appends[a]),
           UNCHANGED <<env, sub, log>>, \A b \in Writers : b # a => app'[b] = app[b]
    PROVE  NoLostWakeup'
<1> DEFINE s == env.appends[a]
<1>e. /\ UNCHANGED <<Callers, Writers>> /\ Notes = 1..Size /\ Size \in Nat /\ s \in Streams
      /\ env.subscribes \in [Callers -> Streams]
    BY EnvTyped DEF Callers, Writers, TypeOK
<1>t. sub \in [Callers -> Call] /\ notes \in [Notes -> [waiters : Nat, fired : BOOLEAN]]
    BY DEF TypeOK
<1> SUFFICES ASSUME NEW d \in Callers, sub[d].pc = "waiting", ~notes'[sub[d].note].fired,
                    NextSequence(env.subscribes[d]) > sub[d].cursor
             PROVE  \E b \in Writers : env.appends[b] = env.subscribes[d] /\ Signalling(b)'
    BY <1>e DEF NoLostWakeup, Signalling, Applied, NextSequence
<1>1. sub[d].note \in Notes /\ sub[d].note # 0
    BY WaiterHolds
<1>2. ~notes[sub[d].note].fired
    BY <1>1, <1>t, SMT DEF Signal, Fire, noteVars
<1>3. note[env.subscribes[d]] = sub[d].note
    BY <1>1, <1>2 DEF NotesInv, OpenInMap
<1>4. env.subscribes[d] # s
    <2> SUFFICES ASSUME env.subscribes[d] = s PROVE FALSE
        OBVIOUS
    <2>1. ~closed /\ note[s] # 0 /\ note[s] = sub[d].note
        BY <1>1, <1>3, <1>e DEF NotesInv, ClosedEmpty
    <2>2. notes'[sub[d].note].fired
        BY <2>1, <1>1, <1>t, SMT DEF Signal, Fire
    <2> QED
        BY <2>2
<1>5. PICK b \in Writers : env.appends[b] = env.subscribes[d] /\ Signalling(b)
    BY <1>1, <1>2 DEF NoLostWakeup, Signalling
<1>6. b # a /\ app'[b] = app[b]
    BY <1>4, <1>5
<1> QED
    BY <1>5, <1>6 DEF Signalling, Applied

\* closeNotifications wakes every waiter, so it loses no wakeup.
LEMMA CloseWakeup ==
    ASSUME TypeOK, NotesInv, NoLostWakeup, CloseNotifications, UNCHANGED <<env, sub, log, app>>
    PROVE  NoLostWakeup'
<1>e. UNCHANGED <<Callers, Writers>> /\ Notes = 1..Size /\ Size \in Nat
    BY EnvTyped DEF Callers, Writers, TypeOK
<1>t. sub \in [Callers -> Call] /\ notes \in [Notes -> [waiters : Nat, fired : BOOLEAN]]
    BY DEF TypeOK
<1>1. ASSUME NEW d \in Callers, sub[d].pc = "waiting", ~notes'[sub[d].note].fired
      PROVE  ~notes[sub[d].note].fired
    <2>1. sub[d].note \in Notes
        BY <1>1, <1>t, <1>e, SMT DEF NotesInv, HoldsWhileWaiting, Call, Size
    <2> QED
        BY <2>1, <1>1, <1>t DEF CloseNotifications, Fire
<1> QED
    BY <1>1, <1>e DEF NoLostWakeup, Applied, NextSequence

-----------------------------------------------------------------------------
(* Appends and their answers.                                              *)

\* What a sequence holds after an Append.
LEMMA InAppend ==
    ASSUME NEW S, NEW q \in Seq(S), NEW b \in S, NEW a
    PROVE  In(a, Append(q, b)) <=> In(a, q) \/ a = b
<1>1. DOMAIN q = 1..Len(q) /\ DOMAIN Append(q, b) = 1..(Len(q) + 1) /\ Len(q) \in Nat
    BY SMT
<1>2. \A i \in DOMAIN q : i \in DOMAIN Append(q, b) /\ Append(q, b)[i] = q[i]
    BY <1>1, SMT
<1>3. Append(q, b)[Len(q) + 1] = b /\ Len(q) + 1 \in DOMAIN Append(q, b)
    BY <1>1, SMT
<1>4. \A i \in DOMAIN Append(q, b) : i \in DOMAIN q \/ i = Len(q) + 1
    BY <1>1, SMT
<1> QED
    BY <1>2, <1>3, <1>4 DEF In

\* Calls that do not get on with their writes keep the relation.
LEMMA WritesQuiet ==
    ASSUME WritesInv, UNCHANGED <<env, log>>,
           \A a \in Writers : /\ app'[a].pc = app[a].pc /\ app'[a].future = app[a].future
                              /\ app'[a].answer = app[a].answer
    PROVE  WritesInv'
<1>1. UNCHANGED Writers
    BY DEF Writers
<1>2. ASSUME NEW a \in Writers PROVE WriteInv(a)'
  <2>1. WriteInv(a)
    BY DEF WritesInv
  <2>2. /\ app'[a].pc = app[a].pc /\ app'[a].future = app[a].future
        /\ app'[a].answer = app[a].answer /\ log'[env'.appends[a]] = log[env.appends[a]]
    OBVIOUS
  <2> QED
    BY <2>1, <2>2 DEF WriteInv, Applied
<1> QED
    BY <1>1, <1>2 DEF WritesInv

\* A step of one call that does not write.
LEMMA WritesOne ==
    ASSUME WritesInv, NEW a \in Writers, UNCHANGED <<env, log>>,
           \A b \in Writers : b # a => app'[b] = app[b], WriteInv(a)'
    PROVE  WritesInv'
<1>1. UNCHANGED Writers
    BY DEF Writers
<1>2. \A b \in Writers : b # a => WriteInv(b)'
    BY SMT DEF WritesInv, WriteInv, Applied
<1> QED
    BY <1>1, <1>2 DEF WritesInv

\* A step of one call that appends its record.
LEMMA WritesLog ==
    ASSUME TypeOK, WritesInv, NEW a \in Writers, app[a].future = "pending",
           NEW future \in {"ok", "applied"}, app' = [app EXCEPT ![a].future = future],
           log' = [log EXCEPT ![env.appends[a]] = Append(@, a)], UNCHANGED env
    PROVE  WritesInv'
<1>e. /\ UNCHANGED Writers /\ Writers \subseteq Appenders /\ env.appends \in [Writers -> Streams]
      /\ log \in [Streams -> Seq(Appenders)]
    BY EnvTyped DEF Writers, TypeOK
<1>t. app \in [Writers -> Write] /\ app[a] \in Write
    BY DEF TypeOK
<1>1. \A b \in Writers : In(b, log'[env.appends[b]]) <=> In(b, log[env.appends[b]]) \/ b = a
    <2> TAKE b \in Writers
    <2>1. CASE env.appends[b] = env.appends[a]
        BY <2>1, <1>e, InAppend, SMT
    <2>2. CASE env.appends[b] # env.appends[a]
        BY <2>2, <1>e
    <2> QED
        BY <2>1, <2>2
<1>2. app[a].pc \in {"commit", "finish"}
    BY <1>t DEF WritesInv, WriteInv, Write
<1>3. WriteInv(a)'
    BY <1>1, <1>2, <1>t DEF WritesInv, WriteInv, Applied, Write
<1>4. \A b \in Writers : b # a => WriteInv(b)'
    BY <1>1, <1>t, SMT DEF WritesInv, WriteInv, Applied
<1> QED
    BY <1>e, <1>3, <1>4 DEF WritesInv

\* Every step of an append keeps its future, its answer and its Stream in
\* agreement (Store.Append, Committer.commit, finishAppend).
LEMMA AppendWrites ==
    ASSUME TypeOK, WritesInv, NEW a \in Writers,
           AppendCall(a) \/ AppendStep(a) \/ Commit(a) \/ CommitFails(a) \/ CancelAppend(a)
    PROVE  WritesInv'
<1>t. app \in [Writers -> Write] /\ app[a] \in Write
    BY DEF TypeOK
<1>w. WriteInv(a)
    BY DEF WritesInv
<1>o. UNCHANGED env
    BY DEF AppendCall, AppendStep, Commit, CommitFails, CancelAppend, AllowWrite, Gate, GateCanceled, Enqueue,
        Return, Abandon, FinishAppend
<1>p. ASSUME NEW answer, Answer(a, answer)
      PROVE  /\ \A b \in Writers : b # a => app'[b] = app[b]
             /\ app'[a].pc = "done" /\ app'[a].future = "none" /\ app'[a].answer = answer
    BY <1>p, <1>t DEF Answer, NewAppend
<1>q. ASSUME Answer(a, "certain"), app[a].pc \in {"idle", "rate", "gate", "engine"}, UNCHANGED log
      PROVE  WritesInv'
    <2>1. /\ \A b \in Writers : b # a => app'[b] = app[b]
          /\ app'[a].pc = "done" /\ app'[a].future = "none" /\ app'[a].answer = "certain"
        BY <1>q, <1>p
    <2>2. ~In(a, log[env.appends[a]]) /\ log'[env'.appends[a]] = log[env.appends[a]]
        BY <1>q, <1>w, <1>o DEF WriteInv
    <2>3. WriteInv(a)'
        BY <2>1, <2>2 DEF WriteInv
    <2> QED
        BY <2>1, <2>3, <1>q, <1>o, WritesOne
<1>r. ASSUME NEW pc \in {"rate", "gate", "engine"}, app' = [app EXCEPT ![a].pc = pc],
             app[a].pc \in {"idle", "rate", "gate", "engine"}, UNCHANGED log
      PROVE  WritesInv'
    <2>1. \A b \in Writers : b # a => app'[b] = app[b]
        BY <1>r, <1>t
    <2>2. WriteInv(a)'
        BY <1>r, <1>t, <1>w, <1>o DEF WriteInv, Write
    <2> QED
        BY <2>1, <2>2, <1>r, <1>o, WritesOne
<1>1. CASE AppendCall(a)
    BY <1>1, <1>q, <1>r DEF AppendCall
<1>2. CASE AllowWrite(a)
    BY <1>2, <1>q, <1>r DEF AllowWrite
<1>3. CASE Gate(a) \/ GateCanceled(a)
    BY <1>3, <1>q, <1>r DEF Gate, GateCanceled
<1>4. CASE Enqueue(a)
    <2>1. CASE Answer(a, "certain")
        BY <2>1, <1>4, <1>q DEF Enqueue
    <2>2. CASE app' = [app EXCEPT ![a].pc = "commit", ![a].future = "pending"]
        <3>1. /\ \A b \in Writers : b # a => app'[b] = app[b]
              /\ app'[a].pc = "commit" /\ app'[a].future = "pending" /\ app'[a].answer = app[a].answer
            BY <2>2, <1>t DEF Write
        <3>2. UNCHANGED log /\ app[a].pc = "engine"
            BY <1>4 DEF Enqueue
        <3>3. WriteInv(a)'
            BY <3>1, <3>2, <1>w, <1>o DEF WriteInv, Applied
        <3> QED
            BY <3>1, <3>2, <3>3, <1>o, WritesOne
    <2> QED
        BY <2>1, <2>2, <1>4 DEF Enqueue
<1>5. CASE Return(a)
    <2>1. UNCHANGED log /\ app[a].pc = "commit" /\ Answer(a, Reported(app[a].future))
        BY <1>5 DEF Return
    <2>2. WriteInv(a)'
        BY <2>1, <1>5, <1>p, <1>w, <1>o, SMT DEF WriteInv, Applied, Reported, Return
    <2> QED
        BY <2>1, <2>2, <1>p, <1>o, WritesOne
<1>6. CASE Abandon(a)
    <2>1. /\ \A b \in Writers : b # a => app'[b] = app[b]
          /\ app'[a].pc = "finish" /\ app'[a].future = app[a].future /\ app'[a].answer = "uncertain"
        BY <1>6, <1>t DEF Abandon, Write, Reported
    <2>2. UNCHANGED log /\ app[a].pc = "commit"
        BY <1>6 DEF Abandon
    <2>3. WriteInv(a)'
        BY <2>1, <2>2, <1>w, <1>o DEF WriteInv, Applied
    <2> QED
        BY <2>1, <2>2, <2>3, <1>o, WritesOne
<1>7. CASE FinishAppend(a)
    <2>1. /\ \A b \in Writers : b # a => app'[b] = app[b]
          /\ app'[a].pc = "done" /\ app'[a].future \in {"none", "silent"} /\ app'[a].answer = app[a].answer
        BY <1>7, <1>t DEF FinishAppend, Write
    <2>2. UNCHANGED log /\ app[a].pc = "finish"
        BY <1>7 DEF FinishAppend
    <2>3. WriteInv(a)'
        BY <2>1, <2>2, <1>w, <1>o DEF WriteInv
    <2> QED
        BY <2>1, <2>2, <2>3, <1>o, WritesOne
<1>8. CASE Commit(a)
    BY <1>8, WritesLog DEF Commit
<1>9. CASE CommitFails(a)
    <2>1. PICK outcome \in {"refused", "lost", "applied"} :
              /\ app' = [app EXCEPT ![a].future = outcome]
              /\ log' = IF outcome = "applied" THEN [log EXCEPT ![env.appends[a]] = Append(@, a)] ELSE log
        BY <1>9 DEF CommitFails
    <2>p. app[a].future = "pending"
        BY <1>9 DEF CommitFails
    <2>2. CASE outcome = "applied"
        BY <2>1, <2>2, <2>p, <1>o, WritesLog
    <2>3. CASE outcome # "applied"
        <3>1. /\ \A b \in Writers : b # a => app'[b] = app[b]
              /\ app'[a].pc = app[a].pc /\ app'[a].future = outcome /\ app'[a].answer = app[a].answer
            BY <2>1, <1>t DEF Write
        <3>2. app[a].pc \in {"commit", "finish"}
            BY <2>p, <1>t, <1>w DEF WriteInv, Write
        <3>3. WriteInv(a)'
            BY <2>1, <2>3, <2>p, <3>1, <3>2, <1>w, <1>o DEF WriteInv, Applied
        <3> QED
            BY <2>1, <2>3, <3>1, <3>3, <1>o, WritesOne
    <2> QED
        BY <2>2, <2>3
<1>10. CASE CancelAppend(a)
    BY <1>10, <1>t, <1>o, WritesQuiet DEF CancelAppend, Write
<1> QED
    BY <1>1, <1>2, <1>3, <1>4, <1>5, <1>6, <1>7, <1>8, <1>9, <1>10 DEF AppendStep

\* An append signals what it has applied, after it has applied it.
LEMMA AppendWakeup ==
    ASSUME TypeOK, NotesInv, WritesInv, NoLostWakeup, NEW a \in Writers,
           AppendCall(a) \/ AppendStep(a) \/ Commit(a) \/ CommitFails(a) \/ CancelAppend(a)
    PROVE  NotesInv' /\ NoLostWakeup'
<1>t. app \in [Writers -> Write] /\ app[a] \in Write
    BY DEF TypeOK
<1>w. WriteInv(a)
    BY DEF WritesInv
<1>s. env.appends[a] \in Streams
    BY EnvTyped DEF TypeOK
<1>o. UNCHANGED <<env, sub, closed>>
    BY DEF AppendCall, AppendStep, Commit, CommitFails, CancelAppend, AllowWrite, Gate, GateCanceled, Enqueue,
        Return, Abandon, FinishAppend, subVars
<1>e. UNCHANGED <<Callers, Writers>>
    BY <1>o DEF Callers, Writers
<1>q. QuietSub
    BY <1>o DEF QuietSub
<1>b. \A b \in Writers : b # a => app'[b] = app[b]
    BY <1>t DEF AppendCall, AppendStep, Commit, CommitFails, CancelAppend, AllowWrite, Gate, GateCanceled, Enqueue,
        Return, Abandon, FinishAppend, Answer
<1>r. ASSUME UNCHANGED <<noteVars, log>>, Signalling(a) => Signalling(a)'
      PROVE  NotesInv' /\ NoLostWakeup'
    <2>1. \A b \in Writers : Signalling(b) => Signalling(b)'
        BY <1>r, <1>b DEF Signalling, Applied
    <2> QED
        BY <1>r, <1>o, <1>q, <2>1, NotesQuiet, WakeupQuiet DEF noteVars
<1>1. CASE AppendCall(a) \/ AllowWrite(a) \/ Gate(a) \/ GateCanceled(a) \/ Enqueue(a)
    <2>1. ~Signalling(a) /\ UNCHANGED <<noteVars, log>>
        BY <1>1, <1>w DEF AppendCall, AllowWrite, Gate, GateCanceled, Enqueue, WriteInv, Signalling, Applied
    <2> QED
        BY <2>1, <1>r
<1>2. CASE Return(a) \/ FinishAppend(a)
    <2>1. UNCHANGED log
        BY <1>2 DEF Return, FinishAppend
    <2>2. CASE Signal(env.appends[a])
        BY <2>1, <2>2, <1>o, <1>s, <1>b, SignalNotes, SignalWakeup
    <2>3. CASE UNCHANGED noteVars /\ (Signalling(a) => app[a].pc = "finish" /\ app[a].future = "applied")
        <3>1. Signalling(a) => Signalling(a)'
            BY <1>2, <2>3, <1>t, SMT DEF Return, FinishAppend, Signalling, Applied, Write
        <3> QED
            BY <2>1, <2>3, <3>1, <1>r
    <2> QED
        BY <1>2, <2>2, <2>3 DEF Return, FinishAppend, Signalling, Applied
<1>3. CASE Abandon(a) \/ CancelAppend(a)
    <2>1. UNCHANGED <<noteVars, log>> /\ (Signalling(a) => Signalling(a)')
        BY <1>3, <1>t, SMT DEF Abandon, CancelAppend, Signalling, Applied, Write
    <2> QED
        BY <2>1, <1>r
<1>4. CASE Commit(a) \/ CommitFails(a)
    <2>1. app[a].future = "pending" /\ app[a].pc \in {"commit", "finish"} /\ UNCHANGED noteVars
        BY <1>4, <1>w, <1>t DEF Commit, CommitFails, WriteInv, Write
    <2>2. PICK outcome \in {"ok", "refused", "lost", "applied"} :
              /\ app' = [app EXCEPT ![a].future = outcome]
              /\ log' = IF outcome \in {"ok", "applied"} THEN [log EXCEPT ![env.appends[a]] = Append(@, a)] ELSE log
        BY <1>4 DEF Commit, CommitFails
    <2>3. app'[a].future = outcome /\ app'[a].pc = app[a].pc
        BY <2>2, <1>t DEF Write
    <2>4. CASE outcome \in {"refused", "lost"}
        <3>1. ~Signalling(a)
            BY <2>1 DEF Signalling, Applied
        <3> QED
            BY <2>1, <2>2, <2>4, <3>1, <1>r
    <2>5. CASE outcome \in {"ok", "applied"}
        <3>1. Signalling(a)'
            BY <2>1, <2>3, <2>5 DEF Signalling, Applied
        <3>2. NotesInv'
            BY <2>1, <1>o, <1>q, NotesQuiet DEF noteVars
        <3>3. NoLostWakeup'
            <4> SUFFICES ASSUME NEW d \in Callers, sub[d].pc = "waiting", ~notes[sub[d].note].fired,
                                Len(log'[env.subscribes[d]]) > sub[d].cursor
                         PROVE  \E b \in Writers : env.appends[b] = env.subscribes[d] /\ Signalling(b)'
                BY <2>1, <1>e, <1>o DEF NoLostWakeup, Signalling, Applied, NextSequence, noteVars
            <4>1. CASE env.subscribes[d] = env.appends[a]
                BY <4>1, <3>1
            <4>2. CASE env.subscribes[d] # env.appends[a]
                <5>1. log'[env.subscribes[d]] = log[env.subscribes[d]]
                    BY <4>2, <2>2, <2>5, EnvTyped DEF TypeOK
                <5>2. PICK b \in Writers : env.appends[b] = env.subscribes[d] /\ Signalling(b)
                    BY <5>1 DEF NoLostWakeup, Signalling, NextSequence
                <5>3. app'[b] = app[b]
                    BY <4>2, <5>2, <1>b
                <5> QED
                    BY <5>2, <5>3 DEF Signalling, Applied
            <4> QED
                BY <4>1, <4>2
        <3> QED
            BY <3>2, <3>3
    <2> QED
        BY <2>4, <2>5
<1> QED
    BY <1>1, <1>2, <1>3, <1>4 DEF AppendStep

-----------------------------------------------------------------------------
(* Counters.                                                               *)

\* A step that moves no call in or out of the counted region keeps the count.
LEMMA CountQuiet ==
    ASSUME SubsCounted, UNCHANGED <<env, subs>>,
           \A c \in Callers : sub'[c].pc \in {"idle", "acquire", "done"} <=> sub[c].pc \in {"idle", "acquire", "done"}
    PROVE  SubsCounted'
<1>1. Counted' = Counted
    BY DEF Counted, Callers
<1> QED
    BY <1>1 DEF SubsCounted

\* A Subscribe call is counted from its place to its release.
LEMMA SubscribeCounted ==
    ASSUME TypeOK, SubsCounted, NEW c \in Callers,
           \/ Subscribe(c) \/ SubscribeStep(c) \/ ReadFails(c) \/ HeartbeatDue(c)
           \/ Sent(c) \/ SlowConsumer(c) \/ CancelSubscribe(c)
    PROVE  SubsCounted'
<1>s. sub \in [Callers -> Call] /\ sub[c] \in Call
    BY DEF TypeOK
<1>o. UNCHANGED env
    BY DEF Subscribe, SubscribeStep, ReadFails, HeartbeatDue, Sent, SlowConsumer, CancelSubscribe,
        AcquireSubscription, Read, WaitForAppend, Woken, WaitCanceled, Unwait, Waited, SendStopped,
        ReleaseSubscription, WakeWith
<1>e. UNCHANGED Callers /\ IsFiniteSet(Callers)
    BY <1>o, EnvTyped DEF Callers, TypeOK
<1>f. IsFiniteSet(Counted) /\ Cardinality(Counted) \in Nat
    BY <1>e, FS_Subset, FS_CardinalityType DEF Counted
<1>b. \A d \in Callers : d # c => sub'[d] = sub[d]
    BY <1>s DEF Subscribe, SubscribeStep, ReadFails, HeartbeatDue, Sent, SlowConsumer, CancelSubscribe,
        AcquireSubscription, Read, WaitForAppend, Woken, WaitCanceled, Unwait, Waited, SendStopped,
        ReleaseSubscription, WakeWith, Step
<1>q. ASSUME UNCHANGED subs, sub'[c].pc \in {"idle", "acquire", "done"} <=> sub[c].pc \in {"idle", "acquire", "done"}
      PROVE  SubsCounted'
    BY <1>q, <1>b, <1>o, CountQuiet
<1>1. CASE AcquireSubscription(c)
    <2>1. CASE Step(c, "done") /\ UNCHANGED subs
        BY <1>1, <2>1, <1>q, <1>s DEF AcquireSubscription, Step, Call
    <2>2. CASE Step(c, "loop") /\ subs' = subs + 1
        <3>1. sub[c].pc = "acquire" /\ sub'[c].pc = "loop"
            BY <1>1, <2>2, <1>s DEF AcquireSubscription, Step, Call
        <3>2. Counted' = Counted \cup {c} /\ c \notin Counted
            BY <3>1, <1>b, <1>e DEF Counted
        <3> QED
            BY <2>2, <3>2, <1>f, FS_AddElement DEF SubsCounted
    <2> QED
        BY <1>1, <2>1, <2>2 DEF AcquireSubscription
<1>2. CASE ReleaseSubscription(c)
    <2>1. sub[c].pc = "release" /\ sub'[c].pc = "done"
        BY <1>2, <1>s DEF ReleaseSubscription, NewCall
    <2>2. Counted' = Counted \ {c} /\ c \in Counted
        BY <2>1, <1>b, <1>e DEF Counted
    <2>3. Cardinality(Counted') = subs - 1 /\ subs # 0
        BY <2>2, <1>f, FS_RemoveElement, FS_EmptySet DEF SubsCounted
    <2> QED
        BY <1>2, <2>3, <1>f, SMT DEF ReleaseSubscription, SubsCounted
<1>3. CASE Subscribe(c)
    BY <1>3, <1>q, <1>s, SMT DEF Subscribe, Step, Call
<1>4. CASE Read(c) \/ ReadFails(c) \/ SlowConsumer(c) \/ SendStopped(c)
    BY <1>4, <1>q, <1>s, SMT DEF Read, ReadFails, SlowConsumer, SendStopped, Step, Call
<1>5. CASE WaitForAppend(c) \/ Unwait(c)
    <2>1. UNCHANGED subs /\ sub[c].pc \in {"wait", "unwait"}
        BY <1>5 DEF WaitForAppend, Unwait
    <2>2. sub'[c].pc \in {"waited", "waiting"}
        <3>1. CASE WaitForAppend(c)
            BY <3>1, <1>s, SMT DEF WaitForAppend, Call
        <3>2. CASE Unwait(c)
            BY <3>2, <1>s DEF Unwait, Call
        <3> QED
            BY <1>5, <3>1, <3>2
    <2> QED
        BY <2>1, <2>2, <1>q
<1>6. CASE Woken(c) \/ WaitCanceled(c) \/ HeartbeatDue(c)
    BY <1>6, <1>q, <1>s, SMT DEF Woken, WaitCanceled, HeartbeatDue, WakeWith, Call
<1>7. CASE Waited(c)
    BY <1>7, <1>q, <1>s, SMT DEF Waited, Step, Call
<1>8. CASE Sent(c)
    BY <1>8, <1>q, <1>s DEF Sent, Call
<1>9. CASE CancelSubscribe(c)
    BY <1>9, <1>q, <1>s DEF CancelSubscribe, Call
<1> QED
    BY <1>1, <1>2, <1>3, <1>4, <1>5, <1>6, <1>7, <1>8, <1>9 DEF SubscribeStep

\* Refilling on demand is refilling in time.
LEMMA RefillStep ==
    ASSUME TypeOK, Refilled = budget, TimePasses \/ (\E a \in Writers : AllowWrite(a)) \/ UNCHANGED rateVars
    PROVE  Refilled' = budget'
<1>t. /\ bucket \in [requests : 0..Burst, elapsed : 0..MaxElapsed] /\ budget \in 0..Burst
      /\ Burst \in Nat \ {0} /\ Rate \in Nat \ {0} /\ MaxElapsed \in Nat
    BY EnvTyped DEF TypeOK
<1>1. CASE TimePasses
    <2>1. bucket'.requests = bucket.requests /\ bucket'.elapsed = bucket.elapsed + 1
        BY <1>1, <1>t DEF TimePasses
    <2>2. PICK r \in Nat, e \in Nat, k \in Nat : r = bucket.requests /\ e = bucket.elapsed /\ k = e * Rate
        BY <1>t, SMT
    <2>3. (e + 1) * Rate = k + Rate
        BY <2>2, <1>t, SMT
    <2>4. Refilled' = Lower(Burst, r + (k + Rate))
        BY <2>1, <2>2, <2>3 DEF Refilled
    <2>5. budget = Lower(Burst, r + k) /\ budget' = Lower(Burst, budget + Rate)
        BY <1>1, <2>2 DEF Refilled, TimePasses
    <2> QED
        BY <2>4, <2>5, <1>t, SMT DEF Lower
<1>2. ASSUME NEW a \in Writers, AllowWrite(a) PROVE Refilled' = budget'
    <2>1. Refilled \in 0..Burst
        BY RefillTyped
    <2>2. PICK r \in 0..Burst : bucket' = [requests |-> r, elapsed |-> 0] /\ budget' = r
        BY <1>2, <2>1, <1>t, SMT DEF AllowWrite
    <2>3. 0 * Rate = 0
        BY <1>t, SMT
    <2>4. Refilled' = Lower(Burst, r + 0)
        BY <2>2, <2>3 DEF Refilled
    <2> QED
        BY <2>2, <2>4, <1>t, SMT DEF Lower
<1>3. CASE UNCHANGED rateVars
    BY <1>3 DEF rateVars, Refilled
<1> QED
    BY <1>1, <1>2, <1>3

-----------------------------------------------------------------------------
(* The invariant.                                                          *)

\* The invariant holds of a service that was just started (NewWithOptions).
LEMMA SInit == Init => SInv
<1> SUFFICES ASSUME Init PROVE SInv
    OBVIOUS
<1>e. /\ Size \in Nat /\ Notes = 1..Size /\ Burst \in Nat \ {0} /\ Rate \in Nat \ {0} /\ MaxElapsed \in Nat
      /\ env.limit \in Nat \ {0} /\ env.log \in [Streams -> Seq(Appenders \ Writers)]
      /\ env.appends \in [Writers -> Streams] /\ Writers \subseteq Appenders
    BY EnvTyped DEF Init
<1>s. \A c \in Callers : sub[c] = NewCall
    BY DEF Init
<1>1. TypeOK
    <2>1. NewCall \in Call
        <3>1. 0 \in 0..Cardinality(Subscribers) /\ 0 \in Nat
            BY <1>e, SMT DEF Size
        <3> QED
            BY <3>1 DEF NewCall, Call
    <2>2. NewAppend \in Write
        BY DEF NewAppend, Write
    <2>3. MaintenanceTypeOK
        <3>1. /\ 0 \in 0..MaximumInterval /\ 0 \in 0..SnapshotInterval /\ 0 \in 0..RetryChecks
              /\ 0 \in Nat
            BY MaintenanceAssumption, SMT
        <3>2. env.checks \in BOOLEAN
            BY ServiceAssumption DEF Init
        <3> QED
            BY <3>1, <3>2 DEF Init, InitMaintenance, MaintenanceTypeOK
    <2>4. log \in [Streams -> Seq(Appenders)]
        <3>1. \A q \in Seq(Appenders \ Writers) : q \in Seq(Appenders)
            BY SMT
        <3>2. log \in [Streams -> Seq(Appenders \ Writers)]
            BY <1>e DEF Init
        <3> QED
            BY <3>1, <3>2
    <2>5. sub \in [Callers -> Call] /\ app \in [Writers -> Write]
        BY <2>1, <2>2 DEF Init
    <2>6. 0 \in 0..Cardinality(Subscribers) /\ 0 \in Nat /\ 0 \in 0..env.limit
        BY <1>e, SMT DEF Size
    <2>7. note \in [Streams -> 0..Cardinality(Subscribers)] /\ notes \in [Notes -> [waiters : Nat, fired : BOOLEAN]]
        BY <2>6 DEF Init
    <2>8. Burst \in 0..Burst /\ 0 \in 0..MaxElapsed
        BY <1>e, SMT
    <2>9. bucket \in [requests : 0..Burst, elapsed : 0..MaxElapsed] /\ budget \in 0..Burst /\ subs \in 0..env.limit
        BY <2>6, <2>8 DEF Init
    <2> QED
        BY <2>3, <2>4, <2>5, <2>7, <2>9 DEF Init, TypeOK
<1>2. NotesInv
    <2>1. \A n \in Notes : Holders(n) = {}
        BY <1>s, <1>e, SMT DEF Holders, NewCall
    <2>2. WaitersCounted
        BY <2>1, FS_EmptySet DEF Init, WaitersCounted
    <2> QED
        BY <1>s, <2>2 DEF Init, NotesInv, HoldsWhileWaiting, MapOpen, OpenInMap, ClosedEmpty, NewCall
<1>3. WritesInv
    <2> SUFFICES ASSUME NEW a \in Writers PROVE WriteInv(a)
        BY DEF WritesInv
    <2>1. app[a] = NewAppend /\ log = env.log
        BY DEF Init
    <2>2. PICK q \in Seq(Appenders \ Writers) : q = log[env.appends[a]]
        BY <2>1, <1>e
    <2>3. \A i \in DOMAIN q : q[i] \in Appenders \ Writers
        BY <2>2, SMT
    <2>4. ~In(a, log[env.appends[a]])
        BY <2>2, <2>3 DEF In
    <2>5. app[a].pc = "idle" /\ app[a].future = "none" /\ app[a].answer = "none"
        BY <2>1, SMT DEF NewAppend
    <2> QED
        BY <2>4, <2>5 DEF WriteInv
<1>4. NoLostWakeup
    BY <1>s, SMT DEF NoLostWakeup, NewCall
<1>5. SubsCounted
    <2>1. Counted = {}
        BY <1>s, SMT DEF Counted, NewCall
    <2> QED
        BY <2>1, FS_EmptySet DEF SubsCounted, Init
<1>6. Refilled = budget
    <2>1. 0 * Rate = 0
        BY <1>e, SMT
    <2>2. bucket.requests = Burst /\ bucket.elapsed = 0 /\ budget = Burst
        BY DEF Init
    <2> QED
        BY <2>1, <2>2, <1>e, SMT DEF Refilled, Lower
<1>7. ControllerKnows
    BY DEF Init, InitMaintenance, ControllerKnows
<1> QED
    BY <1>1, <1>2, <1>3, <1>4, <1>5, <1>6, <1>7 DEF SInv

\* A step of the node, of time or of maintenance leaves the calls where they are.
LEMMA NodeKeeps ==
    ASSUME SInv, TimePasses \/ Interrupt \/ NodeStep \/ ForceStop \/ Maintain \/ MaintenanceEnds
    PROVE  NotesInv' /\ WritesInv' /\ NoLostWakeup' /\ SubsCounted'
<1>o. UNCHANGED <<env, log, subs>>
    BY DEF TimePasses, Interrupt, NodeStep, ForceStop, Maintain, MaintenanceEnds, BeginDrain, DrainCancel, Stopped,
        CloseStore, CommitterClosed, callVars, subVars, serviceVars
<1>c. /\ \A c \in Callers : /\ sub'[c].pc = sub[c].pc /\ sub'[c].note = sub[c].note
                             /\ sub'[c].cursor = sub[c].cursor
      /\ \A a \in Writers : /\ app'[a].pc = app[a].pc /\ app'[a].future = app[a].future
                             /\ app'[a].answer = app[a].answer
    <2>1. CASE ForceStop
        <3>1. sub \in [Callers -> Call] /\ app \in [Writers -> Write]
            BY DEF SInv, TypeOK
        <3> QED
            BY <2>1, <3>1, SMT DEF ForceStop, Call, Write
    <2>2. CASE UNCHANGED <<sub, app>>
        BY <2>2
    <2> QED
        BY <2>1, <2>2 DEF TimePasses, Interrupt, NodeStep, Maintain, MaintenanceEnds, BeginDrain, DrainCancel,
            Stopped, CloseStore, CommitterClosed, callVars, subVars, serviceVars
<1>1. WritesInv'
    BY <1>o, <1>c, WritesQuiet DEF SInv
<1>2. SubsCounted'
    BY <1>o, <1>c, CountQuiet DEF SInv
<1>3. CASE CloseStore
    <2>1. CloseNotifications /\ UNCHANGED <<env, sub, log, app>>
        BY <1>3 DEF CloseStore, callVars, subVars
    <2> QED
        BY <2>1, <1>1, <1>2, CloseNotes, CloseWakeup DEF SInv
<1>4. CASE UNCHANGED <<note, notes, closed>>
    <2>1. QuietSub /\ \A a \in Writers : Signalling(a) => Signalling(a)'
        BY <1>c DEF QuietSub, Signalling, Applied
    <2> QED
        BY <2>1, <1>o, <1>4, <1>1, <1>2, NotesQuiet, WakeupQuiet DEF SInv
<1> QED
    BY <1>3, <1>4 DEF TimePasses, Interrupt, NodeStep, ForceStop, Maintain, MaintenanceEnds, BeginDrain, DrainCancel,
        Stopped, CommitterClosed, callVars, subVars, serviceVars, noteVars

\* A Subscribe call keeps the invariant on notifications, whatever its step.
LEMMA SubscribeKeeps ==
    ASSUME SInv, NEW c \in Callers,
           \/ Subscribe(c) \/ SubscribeStep(c) \/ ReadFails(c) \/ HeartbeatDue(c)
           \/ Sent(c) \/ SlowConsumer(c) \/ CancelSubscribe(c)
    PROVE  NotesInv' /\ NoLostWakeup'
<1>q. ASSUME QuietSub, UNCHANGED <<env, note, notes, closed, log, app>>
      PROVE  NotesInv' /\ NoLostWakeup'
    <2>1. \A a \in Writers : Signalling(a) => Signalling(a)'
        BY <1>q DEF Signalling, Applied
    <2> QED
        BY <1>q, <2>1, NotesQuiet, WakeupQuiet DEF SInv
<1>1. CASE WaitForAppend(c)
    <2>o. UNCHANGED <<env, closed, log, app>> /\ sub[c].pc = "wait" /\ sub[c].note = 0
        BY <1>1 DEF WaitForAppend, SInv, NotesInv, HoldsWhileWaiting
    <2>1. CASE /\ sub' = [sub EXCEPT ![c].pc = "waited", ![c].error = IF closed THEN "closed" ELSE "none"]
               /\ UNCHANGED noteVars
        <3>1. QuietSub
            BY <2>1, <2>o, SMT DEF QuietSub, SInv, TypeOK, Call
        <3> QED
            BY <2>1, <2>o, <3>1, <1>q DEF noteVars
    <2>2. ASSUME NEW n \in Notes, NEW waiters \in Nat, Registers(c, n, waiters)
          PROVE  NotesInv' /\ NoLostWakeup'
        BY <2>2, <2>o, RegisterNotes, RegisterWakeup DEF SInv
    <2> QED
        BY <1>1, <2>1, <2>2, WaitRegisters DEF SInv
<1>2. CASE Unwait(c)
    BY <1>2, UnwaitNotes, UnwaitWakeup DEF SInv
<1>3. CASE ~(WaitForAppend(c) \/ Unwait(c))
    BY <1>3, <1>q, SubscribeQuiet DEF SInv, SubscribeStep
<1> QED
    BY <1>1, <1>2, <1>3

\* Every step of the service keeps the invariant.
LEMMA SStep == SInv /\ [Next]_vars => SInv'
<1> SUFFICES ASSUME SInv, [Next]_vars PROVE SInv'
    OBVIOUS
<1>i. TypeOK /\ NotesInv /\ WritesInv /\ NoLostWakeup /\ SubsCounted /\ Refilled = budget /\ ControllerKnows
    BY DEF SInv
<1>1. ASSUME NEW c \in Callers,
             \/ Subscribe(c) \/ SubscribeStep(c) \/ ReadFails(c) \/ HeartbeatDue(c)
             \/ Sent(c) \/ SlowConsumer(c) \/ CancelSubscribe(c)
      PROVE  SInv'
    <2>o. UNCHANGED <<env, app, log, rateVars, maintenanceVars>>
        BY <1>1 DEF Subscribe, SubscribeStep, ReadFails, HeartbeatDue, Sent, SlowConsumer, CancelSubscribe,
            AcquireSubscription, Read, WaitForAppend, Woken, WaitCanceled, Unwait, Waited, SendStopped,
            ReleaseSubscription, WakeWith
    <2>1. TypeOK'
        BY <1>1, <1>i, SubscribeTyped
    <2>2. NotesInv' /\ NoLostWakeup'
        BY <1>1, SubscribeKeeps
    <2>3. WritesInv'
        BY <1>i, <2>o, WritesQuiet
    <2>4. SubsCounted'
        BY <1>1, <1>i, SubscribeCounted
    <2>5. Refilled' = budget' /\ ControllerKnows'
        BY <1>i, <2>o, RefillStep DEF ControllerKnows, maintenanceVars
    <2> QED
        BY <2>1, <2>2, <2>3, <2>4, <2>5 DEF SInv
<1>2. ASSUME NEW a \in Writers,
             AppendCall(a) \/ AppendStep(a) \/ Commit(a) \/ CommitFails(a) \/ CancelAppend(a)
      PROVE  SInv'
    <2>o. UNCHANGED <<env, subVars, controller, capacityCritical, endangered>>
        BY <1>2 DEF AppendCall, AppendStep, Commit, CommitFails, CancelAppend, AllowWrite, Gate, GateCanceled,
            Enqueue, Return, Abandon, FinishAppend, maintenanceVars
    <2>1. TypeOK'
        BY <1>2, <1>i, AppendTyped
    <2>2. NotesInv' /\ NoLostWakeup'
        BY <1>2, <1>i, AppendWakeup
    <2>3. WritesInv'
        BY <1>2, <1>i, AppendWrites
    <2>4. SubsCounted'
        BY <1>i, <2>o, CountQuiet DEF subVars
    <2>5. Refilled' = budget'
        <3>1. AllowWrite(a) \/ UNCHANGED rateVars
            BY <1>2 DEF AppendCall, AppendStep, Commit, CommitFails, CancelAppend, Gate, GateCanceled, Enqueue,
                Return, Abandon, FinishAppend
        <3> QED
            BY <3>1, <1>i, RefillStep
    <2>6. ControllerKnows'
        BY <1>i, <2>o DEF ControllerKnows
    <2> QED
        BY <2>1, <2>2, <2>3, <2>4, <2>5, <2>6 DEF SInv
<1>3. CASE TimePasses \/ Interrupt \/ NodeStep \/ ForceStop \/ Maintain \/ MaintenanceEnds
    <2>1. TypeOK'
        BY <1>3, <1>i, NodeTyped
    <2>2. NotesInv' /\ WritesInv' /\ NoLostWakeup' /\ SubsCounted'
        BY <1>3, NodeKeeps
    <2>3. Refilled' = budget'
        <3>1. TimePasses \/ UNCHANGED rateVars
            BY <1>3 DEF Interrupt, NodeStep, ForceStop, Maintain, MaintenanceEnds, BeginDrain, DrainCancel, Stopped,
                CloseStore, CommitterClosed, callVars, serviceVars
        <3> QED
            BY <3>1, <1>i, RefillStep
    <2>4. ControllerKnows'
        <3>1. CASE MaintenanceStep
            BY <3>1, <1>i, ControllerStep DEF TypeOK
        <3>2. CASE UNCHANGED maintenanceVars
            BY <3>2, <1>i DEF ControllerKnows, maintenanceVars
        <3> QED
            BY <1>3, <3>1, <3>2 DEF TimePasses, Interrupt, NodeStep, ForceStop, Maintain, MaintenanceEnds, BeginDrain,
                DrainCancel, Stopped, CloseStore, CommitterClosed, MaintenanceStep
    <2> QED
        BY <2>1, <2>2, <2>3, <2>4 DEF SInv
<1>4. CASE UNCHANGED vars
    <2>o. UNCHANGED <<env, phase, draining, canceled, sub, subs, app, log, note, notes, closed, fatal, bucket, budget,
                      loop, controller, capacityCritical, unflushed, retained, endangered>>
        BY <1>4 DEF vars, nodeVars, subVars, noteVars, rateVars, maintenanceVars
    <2>1. TypeOK'
        BY <1>i, <2>o, SMT DEF TypeOK, Callers, Writers, Notes, MaintenanceTypeOK
    <2>2. QuietSub /\ \A a \in Writers : Signalling(a) => Signalling(a)'
        BY <2>o DEF QuietSub, Signalling, Applied
    <2>3. NotesInv' /\ NoLostWakeup' /\ WritesInv' /\ SubsCounted'
        BY <1>i, <2>o, <2>2, NotesQuiet, WakeupQuiet, WritesQuiet, CountQuiet
    <2>4. Refilled' = budget' /\ ControllerKnows'
        BY <1>i, <2>o DEF Refilled, ControllerKnows
    <2> QED
        BY <2>1, <2>3, <2>4 DEF SInv
<1> QED
    BY <1>1, <1>2, <1>3, <1>4 DEF Next

\* The invariant holds throughout every behaviour.
LEMMA SInvariant == Spec => []SInv
BY SInit, SStep, PTL DEF Spec

-----------------------------------------------------------------------------
\* Every variable of the service keeps its type, and the number of
\* subscriptions stays within max_subscriptions_per_principal_namespace.
THEOREM TypeCorrect == Spec => []TypeOK
<1>1. SInv => TypeOK
    BY DEF SInv
<1> QED
    BY <1>1, SInvariant, PTL

\* No subscriber sleeps beside a readable record: WaitForAppend, signal,
\* releaseNotificationLocked and finishAppend in any order, for any number of
\* subscribers, appends and Streams.
THEOREM WakeupsArrive == Spec => []NoLostWakeup
<1>1. SInv => NoLostWakeup
    BY DEF SInv
<1> QED
    BY <1>1, SInvariant, PTL

\* What Store.Append answers is true of the Stream, whenever the caller gives
\* up and whatever the Committer does to its group.
THEOREM AnswersHold == Spec => []AnswersTrue
<1>1. SInv => AnswersTrue
    <2> SUFFICES ASSUME SInv, NEW a \in Writers
                 PROVE  /\ app[a].answer = "certain" => ~In(a, log[env.appends[a]]) /\ app[a].future # "pending"
                        /\ app[a].answer = "ok" => In(a, log[env.appends[a]])
        BY DEF AnswersTrue, In
    <2>1. app[a] \in Write /\ WriteInv(a)
        BY DEF SInv, TypeOK, WritesInv
    <2> QED
        BY <2>1 DEF WriteInv, Write
<1> QED
    BY <1>1, SInvariant, PTL

\* The waiters of a notification, the subscriptions of a Principal and the
\* tokens of the rate limit are counted exactly, for every rate and burst.
THEOREM CountsHold == Spec => []CountsExact
<1>1. SInv => CountsExact
    <2> SUFFICES ASSUME SInv PROVE CountsExact
        OBVIOUS
    <2>1. ASSUME NEW s \in Streams, note[s] # 0
          PROVE  /\ ~notes[note[s]].fired
                 /\ notes[note[s]].waiters > 0
                 /\ notes[note[s]].waiters = Cardinality(Holders(note[s]))
        <3>1. PICK c \in Callers : sub[c].note = note[s]
            BY <2>1 DEF SInv, NotesInv, MapOpen, Holders
        <3>2. note[s] \in Notes /\ notes[note[s]].waiters \in Nat \ {0}
            BY <2>1, <3>1, HeldCounted DEF SInv, NotesInv
        <3> QED
            BY <2>1, <3>2, SMT DEF SInv, NotesInv, MapOpen, WaitersCounted
    <2> QED
        BY <2>1 DEF SInv, CountsExact, SubsCounted, Counted, Holders
<1> QED
    BY <1>1, SInvariant, PTL

\* Writes stay paused from a critical sample to a recovered one, for any
\* thresholds that the configuration accepts and any sequence of samples.
THEOREM PausedUntilRecovered == Spec => []CriticalUntilRecovered
<1>1. SInv => CriticalUntilRecovered
    BY DEF SInv, ControllerKnows, CriticalUntilRecovered
<1> QED
    BY <1>1, SInvariant, PTL
=============================================================================
