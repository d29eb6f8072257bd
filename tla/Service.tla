------------------------------ MODULE Service ------------------------------
(***************************************************************************)
(* The gRPC service of a node (service/server.go) over the engine: Append  *)
(* with its limits and its answer, Subscribe with the engine's append      *)
(* notifications (engine/store.go), the maintenance loop that pauses       *)
(* writes, and the shutdown of the node (node/node.go).                    *)
(*                                                                         *)
(* A subscriber and an appender are one call each.  A Stream is the        *)
(* sequence of the appends it holds, so a cursor is an index into it.  The *)
(* group commit is one step of the environment here; module Committer has  *)
(* its queue, and shows that one append per Stream is between its gate and *)
(* its completion, which Gate takes as given.                              *)
(*                                                                         *)
(* Time does not appear: heartbeats, deadlines, a consumer that is too     *)
(* slow and the shutdown timeout may happen whenever they are armed.       *)
(***************************************************************************)
EXTENDS Maintenance, Sequences, FiniteSets

CONSTANTS
    Subscribers,    \* Subscribe calls
    Appenders,      \* Append calls
    Streams,        \* Streams of one Namespace
    Burst,          \* write request burst, in requests
    Rate,           \* write requests refilled in a unit of time
    MaxElapsed,     \* bound on the units between two writes
    Environment     \* who calls, what may go wrong, max_subscriptions_per_principal_namespace

ASSUME ServiceAssumption ==
    /\ {Burst, Rate} \subseteq Nat \ {0} /\ MaxElapsed \in Nat
    /\ IsFiniteSet(Subscribers)
    /\ \A e \in Environment :
         /\ DOMAIN e.subscribes \subseteq Subscribers /\ DOMAIN e.appends \subseteq Appenders
         /\ e.subscribes \in [DOMAIN e.subscribes -> Streams]
         /\ e.appends \in [DOMAIN e.appends -> Streams]
         /\ e.limit \in Nat \ {0}
         /\ e.log \in [Streams -> Seq(Appenders \ DOMAIN e.appends)]
         /\ {e.cancels, e.faults, e.checks, e.limited} \subseteq BOOLEAN

VARIABLES
    env,        \* member of Environment
    phase,      \* of the node: serving, stopping, draining, graceful, forced, close, closing, stopped
    draining,   \* Server.draining
    canceled,   \* Server.drainCtx is done
    sub,        \* Subscribe calls
    subs,       \* Server.subs of the Principal and Namespace
    app,        \* Append calls
    log,        \* for each Stream the appends it holds
    note,       \* Store.notifications: for each Stream a notification, 0 for none
    notes,      \* notifications: waiters, and whether the channel is closed
    closed,     \* Store.closed
    fatal,      \* Store.fatal or the Committer's
    bucket,     \* Server.rateBuckets: tokens, time since updated
    budget      \* history: a bucket refilled as time passes

subVars == <<sub, subs>>
noteVars == <<note, notes>>
rateVars == <<bucket, budget>>
nodeVars == <<phase, draining, canceled>>
vars == <<env, nodeVars, subVars, app, log, noteVars, closed, fatal, rateVars, maintenanceVars>>

Callers == DOMAIN env.subscribes
Writers == DOMAIN env.appends
Notes == 1..Cardinality(Subscribers)
NextSequence(s) == Len(log[s])

NewCall == [pc |-> "idle", cursor |-> 0, note |-> 0, error |-> "none", live |-> TRUE]
NewAppend == [pc |-> "idle", future |-> "none", answer |-> "none", live |-> TRUE]

Init ==
    /\ env \in Environment
    /\ phase = "serving" /\ draining = FALSE /\ canceled = FALSE
    /\ sub = [c \in Callers |-> NewCall] /\ subs = 0
    /\ app = [a \in Writers |-> NewAppend]
    /\ log = env.log
    /\ note = [s \in Streams |-> 0]
    /\ notes = [n \in Notes |-> [waiters |-> 0, fired |-> FALSE]]
    /\ closed = FALSE /\ fatal = FALSE
    /\ bucket = [requests |-> Burst, elapsed |-> 0] /\ budget = Burst
    /\ InitMaintenance(env.checks)

-----------------------------------------------------------------------------
\* Notifications, each critical section of notifyMu in one step.

\* A waiter less; a notification without waiters is free again.
Left(n) ==
    IF notes[n].waiters = 1 THEN [waiters |-> 0, fired |-> FALSE]
    ELSE [notes[n] EXCEPT !.waiters = @ - 1]

\* Mutant: the entry is left behind.
ReleaseKeeps(s, n) ==
    notes' = [notes EXCEPT ![n] = Left(n)] /\ UNCHANGED note

\* releaseNotificationLocked.
ReleaseNotification(s, n) ==
    LET left == [notes EXCEPT ![n] = Left(n)]
    IN  /\ notes' = left
        /\ note' = IF left[n].waiters = 0 /\ note[s] = n THEN [note EXCEPT ![s] = 0] ELSE note

Fire(ns) == [n \in Notes |-> IF n \in ns THEN [notes[n] EXCEPT !.fired = TRUE] ELSE notes[n]]

\* signal.
Signal(s) ==
    IF closed \/ note[s] = 0
    THEN UNCHANGED noteVars
    ELSE notes' = Fire({note[s]}) /\ note' = [note EXCEPT ![s] = 0]

CloseNotifications ==
    /\ closed' = TRUE
    /\ notes' = Fire({note[s] : s \in Streams} \ {0})
    /\ note' = [s \in Streams |-> 0]

\* A new notification: the memory of one that nobody holds.
Fresh == CHOOSE n \in Notes : n \notin {sub[c].note : c \in Callers}

-----------------------------------------------------------------------------
\* Subscribe

Step(c, pc) == sub' = [sub EXCEPT ![c].pc = pc]

\* The checks before acquireSubscription; a request may fail any of them.
Subscribe(c) ==
    /\ sub[c].pc = "idle" /\ phase \in {"serving", "stopping", "draining"}
    /\ \/ ~draining /\ \E from \in 0..1 : sub' = [sub EXCEPT ![c].pc = "acquire", ![c].cursor = from]
       \/ Step(c, "done")
    /\ UNCHANGED <<env, nodeVars, subs, app, log, noteVars, closed, fatal, rateVars, maintenanceVars>>

AcquireSubscription(c) ==
    /\ sub[c].pc = "acquire"
    /\ IF subs >= env.limit
       THEN Step(c, "done") /\ UNCHANGED subs
       ELSE Step(c, "loop") /\ subs' = subs + 1
    /\ UNCHANGED <<env, nodeVars, app, log, noteVars, closed, fatal, rateVars, maintenanceVars>>

\* The head of the loop: draining, then Read of one record at the cursor.
Read(c) ==
    LET tail == NextSequence(env.subscribes[c])
    IN  /\ sub[c].pc = "loop"
        /\ Step(c, IF draining \/ tail = 0 \/ sub[c].cursor > tail THEN "release"
                   ELSE IF sub[c].cursor < tail THEN "send" ELSE "wait")
        /\ UNCHANGED <<env, nodeVars, subs, app, log, noteVars, closed, fatal, rateVars, maintenanceVars>>

\* A record larger than the batch limit, or an error of the store, in Read or
\* in the Inspect of WaitForAppend, which gives its waiter back.
ReadFails(c) ==
    /\ (sub[c].pc = "loop" /\ ~draining) \/ sub[c].pc = "wait"
    /\ env.faults
    /\ Step(c, "release")
    /\ UNCHANGED <<env, nodeVars, subs, app, log, noteVars, closed, fatal, rateVars, maintenanceVars>>

\* Mutant: the tail that Read returned is trusted, read before the waiter was counted.
InspectedEarlier(c) == sub[c].cursor

\* Inspect, called under notifyMu after the waiter is counted.
Inspected(c) == NextSequence(env.subscribes[c])

WaitForAppend(c) ==
    /\ sub[c].pc = "wait"
    /\ LET s == env.subscribes[c]
           n == IF note[s] = 0 THEN Fresh ELSE note[s]
           waiters == IF note[s] = 0 THEN 1 ELSE notes[n].waiters + 1
       IN  IF closed \/ Inspected(c) > sub[c].cursor
           THEN /\ sub' = [sub EXCEPT ![c].pc = "waited", ![c].error = IF closed THEN "closed" ELSE "none"]
                /\ UNCHANGED noteVars
           ELSE /\ sub' = [sub EXCEPT ![c].pc = "waiting", ![c].note = n]
                /\ note' = [note EXCEPT ![s] = n]
                /\ notes' = [notes EXCEPT ![n] = [waiters |-> waiters, fired |-> FALSE]]
    /\ UNCHANGED <<env, nodeVars, subs, app, log, closed, fatal, rateVars, maintenanceVars>>

WakeWith(c, error) ==
    /\ sub[c].pc = "waiting"
    /\ sub' = [sub EXCEPT ![c].pc = "unwait", ![c].error = error]
    /\ UNCHANGED <<env, nodeVars, subs, app, log, noteVars, closed, fatal, rateVars, maintenanceVars>>

Woken(c) == sub[c].note # 0 /\ notes[sub[c].note].fired /\ WakeWith(c, IF closed THEN "closed" ELSE "none")

\* The stream's context, or the function that runs after drainCtx.
WaitCanceled(c) == (~sub[c].live \/ canceled) /\ WakeWith(c, "canceled")

HeartbeatDue(c) == WakeWith(c, "deadline")

Unwait(c) ==
    /\ sub[c].pc = "unwait"
    /\ ReleaseNotification(env.subscribes[c], sub[c].note)
    /\ sub' = [sub EXCEPT ![c].pc = "waited", ![c].note = 0]
    /\ UNCHANGED <<env, nodeVars, subs, app, log, closed, fatal, rateVars, maintenanceVars>>

Waited(c) ==
    /\ sub[c].pc = "waited"
    /\ CASE ~draining /\ sub[c].error = "none" -> Step(c, "loop")
         [] ~draining /\ sub[c].error = "deadline" /\ sub[c].live ->
              sub' = [sub EXCEPT ![c].pc = "heartbeat", ![c].error = "none"]
         [] OTHER -> sub' = [sub EXCEPT ![c].pc = "release", ![c].error = "none"]
    /\ UNCHANGED <<env, nodeVars, subs, app, log, noteVars, closed, fatal, rateVars, maintenanceVars>>

\* Send returned: the cursor moves over what was sent.
Sent(c) ==
    /\ sub[c].pc \in {"send", "heartbeat"}
    /\ sub' = [sub EXCEPT ![c].pc = "loop", ![c].cursor = IF sub[c].pc = "send" THEN @ + 1 ELSE @]
    /\ UNCHANGED <<env, nodeVars, subs, app, log, noteVars, closed, fatal, rateVars, maintenanceVars>>

SendStopped(c) ==
    /\ sub[c].pc \in {"send", "heartbeat"}
    /\ \/ ~sub[c].live /\ Step(c, "release")
       \/ canceled /\ Step(c, "release")
    /\ UNCHANGED <<env, nodeVars, subs, app, log, noteVars, closed, fatal, rateVars, maintenanceVars>>

SlowConsumer(c) ==
    /\ sub[c].pc \in {"send", "heartbeat"}
    /\ Step(c, "release")
    /\ UNCHANGED <<env, nodeVars, subs, app, log, noteVars, closed, fatal, rateVars, maintenanceVars>>

\* The deferred releaseSubscription.
ReleaseSubscription(c) ==
    /\ sub[c].pc = "release"
    /\ subs' = IF subs <= 1 THEN 0 ELSE subs - 1
    /\ sub' = [sub EXCEPT ![c] = [NewCall EXCEPT !.pc = "done"]]
    /\ UNCHANGED <<env, nodeVars, app, log, noteVars, closed, fatal, rateVars, maintenanceVars>>

\* The client cancels the call or its deadline passes.
CancelSubscribe(c) ==
    /\ env.cancels /\ sub[c].live /\ sub[c].pc \notin {"idle", "acquire", "release", "done"}
    /\ sub' = [sub EXCEPT ![c].live = FALSE]
    /\ UNCHANGED <<env, nodeVars, subs, app, log, noteVars, closed, fatal, rateVars, maintenanceVars>>

-----------------------------------------------------------------------------
\* Append.  An answer is certain when its error says that nothing was written.

Answer(a, answer) == app' = [app EXCEPT ![a] = [NewAppend EXCEPT !.pc = "done", !.answer = answer]]

\* The checks of Server.append before the rate limit, any of which may fail.
AppendCall(a) ==
    /\ app[a].pc = "idle" /\ phase \in {"serving", "stopping", "draining"}
    /\ \/ ~draining /\ app' = [app EXCEPT ![a].pc = "rate"]
       \/ Answer(a, "certain")
    /\ UNCHANGED <<env, nodeVars, subVars, log, noteVars, closed, fatal, rateVars, maintenanceVars>>

Refilled == Lower(Burst, bucket.requests + bucket.elapsed * Rate)

\* allowWrite, and the first look of the engine at writeUnavailable.  Requests
\* are counted; the bytes of a limited client may or may not suffice.
AllowWrite(a) ==
    /\ app[a].pc = "rate"
    /\ \/ /\ Refilled < 1 \/ env.limited
          /\ Answer(a, "certain") /\ bucket' = [requests |-> Refilled, elapsed |-> 0] /\ UNCHANGED budget
       \/ /\ Refilled >= 1
          /\ bucket' = [requests |-> Refilled - 1, elapsed |-> 0] /\ budget' = budget - 1
          /\ IF capacityCritical THEN Answer(a, "certain") ELSE app' = [app EXCEPT ![a].pc = "gate"]
    /\ UNCHANGED <<env, nodeVars, subVars, log, noteVars, closed, fatal, maintenanceVars>>

TimePasses ==
    /\ env.limited /\ bucket.elapsed < MaxElapsed
    /\ bucket' = [bucket EXCEPT !.elapsed = @ + 1]
    /\ budget' = Lower(Burst, budget + Rate)
    /\ UNCHANGED <<env, nodeVars, subVars, app, log, noteVars, closed, fatal, maintenanceVars>>

HoldsGate(a, s) == env.appends[a] = s /\ app[a].pc \in {"engine", "commit", "finish"}

Gate(a) ==
    /\ app[a].pc = "gate"
    /\ \A b \in Writers : ~HoldsGate(b, env.appends[a])
    /\ app' = [app EXCEPT ![a].pc = "engine"]
    /\ UNCHANGED <<env, nodeVars, subVars, log, noteVars, closed, fatal, rateVars, maintenanceVars>>

GateCanceled(a) ==
    /\ app[a].pc = "gate" /\ ~app[a].live
    /\ Answer(a, "certain")
    /\ UNCHANGED <<env, nodeVars, subVars, log, noteVars, closed, fatal, rateVars, maintenanceVars>>

\* Under Store.mu, up to the queue of the Committer.
Enqueue(a) ==
    /\ app[a].pc = "engine"
    /\ IF closed \/ fatal \/ capacityCritical \/ ~app[a].live
       THEN Answer(a, "certain")
       ELSE app' = [app EXCEPT ![a].pc = "commit", ![a].future = "pending"]
    /\ UNCHANGED <<env, nodeVars, subVars, log, noteVars, closed, fatal, rateVars, maintenanceVars>>

\* The Committer applies the append, then completes its future.
Commit(a) ==
    /\ app[a].future = "pending" /\ ~fatal
    /\ app' = [app EXCEPT ![a].future = "ok"]
    /\ log' = [log EXCEPT ![env.appends[a]] = Append(@, a)]
    /\ unflushed' = Lower(FlushLimit, unflushed + 1) /\ retained' = Lower(MaxRetained + 1, retained + 1)
    /\ UNCHANGED <<env, nodeVars, subVars, noteVars, closed, fatal, rateVars,
                   loop, controller, capacityCritical, endangered>>

\* Refused before the WAL, not known to be durable, or applied before
\* another append of its group failed.
CommitFails(a) ==
    /\ app[a].future = "pending" /\ (env.faults \/ fatal)
    /\ \E outcome \in {"refused", "lost", "applied"} :
          /\ app' = [app EXCEPT ![a].future = outcome]
          /\ log' = IF outcome = "applied" THEN [log EXCEPT ![env.appends[a]] = Append(@, a)] ELSE log
    /\ fatal' = TRUE
    /\ UNCHANGED <<env, nodeVars, subVars, noteVars, closed, rateVars, maintenanceVars>>

\* Mutant: the error does not say that the result is uncertain.
NeverUncertain(future) == IF future = "ok" THEN "ok" ELSE "certain"

\* WriteError and mapError.
Reported(future) ==
    CASE future = "ok" -> "ok" [] future = "refused" -> "certain" [] OTHER -> "uncertain"

\* Future.Wait returned; what was applied is signalled.
Return(a) ==
    /\ app[a].pc = "commit" /\ app[a].future \in {"ok", "refused", "lost", "applied"}
    /\ Answer(a, Reported(app[a].future))
    /\ IF app[a].future \in {"ok", "applied"} THEN Signal(env.appends[a]) ELSE UNCHANGED noteVars
    /\ UNCHANGED <<env, nodeVars, subVars, log, closed, fatal, rateVars, maintenanceVars>>

\* Future.Wait gave up: the gate goes to finishAppend.
Abandon(a) ==
    /\ app[a].pc = "commit" /\ ~app[a].live
    /\ app' = [app EXCEPT ![a].pc = "finish", ![a].answer = Reported("abandoned")]
    /\ UNCHANGED <<env, nodeVars, subVars, log, noteVars, closed, fatal, rateVars, maintenanceVars>>

\* Mutant: the goroutine opens the gate only.
FinishQuietly(a) ==
    /\ app[a].pc = "finish" /\ app[a].future \in {"ok", "refused", "lost", "applied"}
    /\ app' = [app EXCEPT ![a].pc = "done", ![a].live = TRUE, ![a].future = IF @ = "applied" THEN "silent" ELSE "none"]
    /\ UNCHANGED <<env, nodeVars, subVars, log, noteVars, closed, fatal, rateVars, maintenanceVars>>

\* finishAppend signals only when there was no error, also if it was applied.
FinishAppend(a) ==
    /\ app[a].pc = "finish" /\ app[a].future \in {"ok", "refused", "lost", "applied"}
    /\ app' = [app EXCEPT ![a].pc = "done", ![a].live = TRUE, ![a].future = IF @ = "applied" THEN "silent" ELSE "none"]
    /\ IF app[a].future = "ok" THEN Signal(env.appends[a]) ELSE UNCHANGED noteVars
    /\ UNCHANGED <<env, nodeVars, subVars, log, closed, fatal, rateVars, maintenanceVars>>

CancelAppend(a) ==
    /\ env.cancels /\ app[a].live /\ app[a].pc \in {"gate", "engine", "commit"}
    /\ app' = [app EXCEPT ![a].live = FALSE]
    /\ UNCHANGED <<env, nodeVars, subVars, log, noteVars, closed, fatal, rateVars, maintenanceVars>>

-----------------------------------------------------------------------------
\* The node

callVars == <<subVars, app, log, rateVars>>

\* The signal: the maintenance loop is asked to stop.
Interrupt ==
    /\ phase = "serving" /\ phase' = "stopping"
    /\ UNCHANGED <<env, draining, canceled, callVars, noteVars, closed, fatal, maintenanceVars>>

BeginDrain ==
    /\ phase = "stopping" /\ loop = "done"
    /\ phase' = "draining" /\ draining' = TRUE
    /\ UNCHANGED <<env, canceled, callVars, noteVars, closed, fatal, maintenanceVars>>

\* Mutant: only the flag is set.
DrainFlagOnly ==
    /\ phase = "draining" /\ phase' = "graceful"
    /\ UNCHANGED <<env, draining, canceled, callVars, noteVars, closed, fatal, maintenanceVars>>

\* drainCancel, then GracefulStop: no new calls.
DrainCancel ==
    /\ phase = "draining" /\ phase' = "graceful" /\ canceled' = TRUE
    /\ UNCHANGED <<env, draining, callVars, noteVars, closed, fatal, maintenanceVars>>

Handled ==
    /\ \A c \in Callers : sub[c].pc \in {"idle", "done"}
    /\ \A a \in Writers : app[a].pc \in {"idle", "finish", "done"}

\* The shutdown timeout: Stop cancels the calls.
ForceStop ==
    /\ phase = "graceful" /\ ~Handled /\ phase' = "forced"
    /\ sub' = [c \in Callers |-> [sub[c] EXCEPT !.live = FALSE]]
    /\ app' = [a \in Writers |-> [app[a] EXCEPT !.live = FALSE]]
    /\ UNCHANGED <<env, draining, canceled, subs, log, rateVars, noteVars, closed, fatal, maintenanceVars>>

\* GracefulStop waits for the handlers, also after Stop.
Stopped ==
    /\ phase \in {"graceful", "forced"} /\ Handled /\ phase' = "close"
    /\ UNCHANGED <<env, draining, canceled, callVars, noteVars, closed, fatal, maintenanceVars>>

CloseStore ==
    /\ phase = "close" /\ phase' = "closing"
    /\ CloseNotifications
    /\ UNCHANGED <<env, draining, canceled, callVars, fatal, maintenanceVars>>

\* Committer.Close has completed what was queued.
CommitterClosed ==
    /\ phase = "closing" /\ \A a \in Writers : app[a].future # "pending"
    /\ phase' = "stopped"
    /\ UNCHANGED <<env, draining, canceled, callVars, noteVars, closed, fatal, maintenanceVars>>

serviceVars == <<env, nodeVars, callVars, noteVars, closed, fatal>>

Maintain ==
    /\ env.checks
    /\ \/ \E disk \in Disks : Check(disk)
       \/ SampleFails
       \/ Checkpointed
       \/ CheckpointFails
       \/ Measure
       \/ MeasureFails
       \/ Collected
       \/ RetentionFails
       \/ \E elapsed \in 1..2 : Tick(elapsed)
    /\ UNCHANGED serviceVars

MaintenanceEnds == phase = "stopping" /\ EndMaintenance /\ UNCHANGED serviceVars

\* Steps a Subscribe takes without a timer or its client.
SubscribeStep(c) ==
    \/ AcquireSubscription(c) \/ Read(c) \/ WaitForAppend(c)
    \/ Woken(c) \/ WaitCanceled(c) \/ Unwait(c) \/ Waited(c)
    \/ SendStopped(c) \/ ReleaseSubscription(c)

AppendStep(a) ==
    \/ AllowWrite(a) \/ Gate(a) \/ GateCanceled(a) \/ Enqueue(a)
    \/ Return(a) \/ Abandon(a) \/ FinishAppend(a)

NodeStep == BeginDrain \/ DrainCancel \/ Stopped \/ CloseStore \/ CommitterClosed

Next ==
    \/ \E c \in Callers :
         \/ Subscribe(c) \/ SubscribeStep(c) \/ ReadFails(c) \/ HeartbeatDue(c)
         \/ Sent(c) \/ SlowConsumer(c) \/ CancelSubscribe(c)
    \/ \E a \in Writers :
         \/ AppendCall(a) \/ AppendStep(a) \/ Commit(a) \/ CommitFails(a) \/ CancelAppend(a)
    \/ TimePasses
    \/ Interrupt \/ NodeStep \/ ForceStop
    \/ Maintain \/ MaintenanceEnds

Spec == Init /\ [][Next]_vars

\* Goroutines that can run do run (the appends of a behaviour are finitely many,
\* so one condition serves them all), the Committer completes what it holds, and
\* a select over ready channels takes each of them at some time.  A sample, a
\* checkpoint and a retention pass do not fail for ever.  No timer is assumed
\* to fire in a call, and no client to read, cancel or stop the node.
Fairness ==
    /\ \A c \in Subscribers : WF_vars(c \in Callers /\ SubscribeStep(c))
    /\ WF_vars(\E a \in Writers : AppendStep(a) \/ Commit(a) \/ CommitFails(a))
    /\ WF_vars(NodeStep) /\ WF_vars(Maintain) /\ SF_vars(MaintenanceEnds)
    /\ SF_vars(\E disk \in Disks : Check(disk) /\ UNCHANGED serviceVars)
    /\ SF_vars(Checkpointed /\ UNCHANGED serviceVars)
    /\ SF_vars(Measure /\ UNCHANGED serviceVars)
    /\ SF_vars(Collected /\ UNCHANGED serviceVars)

FairSpec == Spec /\ Fairness

-----------------------------------------------------------------------------
Call ==
    [pc : {"idle", "acquire", "loop", "wait", "waiting", "unwait", "waited", "send", "heartbeat", "release", "done"},
     cursor : Nat, note : 0..Cardinality(Subscribers),
     error : {"none", "closed", "canceled", "deadline"}, live : BOOLEAN]

Write ==
    [pc : {"idle", "rate", "gate", "engine", "commit", "finish", "done"},
     future : {"none", "pending", "ok", "refused", "lost", "applied", "silent"},
     answer : {"none", "ok", "certain", "uncertain"}, live : BOOLEAN]

\* The types of the variables; the limit on subscriptions is kept.
TypeOK ==
    /\ env \in Environment
    /\ phase \in {"serving", "stopping", "draining", "graceful", "forced", "close", "closing", "stopped"}
    /\ draining \in BOOLEAN /\ canceled \in BOOLEAN /\ closed \in BOOLEAN /\ fatal \in BOOLEAN
    /\ sub \in [Callers -> Call]
    /\ app \in [Writers -> Write]
    /\ subs \in 0..env.limit
    /\ log \in [Streams -> Seq(Appenders)]
    /\ note \in [Streams -> 0..Cardinality(Subscribers)]
    /\ notes \in [Notes -> [waiters : Nat, fired : BOOLEAN]]
    /\ bucket \in [requests : 0..Burst, elapsed : 0..MaxElapsed] /\ budget \in 0..Burst
    /\ MaintenanceTypeOK

Applied(a) == app[a].future \in {"ok", "applied"}

\* A subscriber never waits on an open channel for a record that is already
\* readable, unless the append that made it readable has its signal still to
\* send.  Holds for every order of reads, waits, applies, signals, timeouts and
\* cancellations (Store.WaitForAppend, signal, finishAppend).  The one gap is an
\* append applied in a group that failed after its caller gave up (future
\* "silent"): finishAppend does not signal it, and the heartbeat finds it.
NoLostWakeup ==
    \A c \in Callers :
        (sub[c].pc = "waiting" /\ ~notes[sub[c].note].fired
             /\ NextSequence(env.subscribes[c]) > sub[c].cursor)
            => \E a \in Writers : /\ env.appends[a] = env.subscribes[c]
                                  /\ \/ Applied(a) /\ app[a].pc \in {"commit", "finish"}
                                     \/ app[a].future = "silent"

\* What the service counts is what is there, however calls end.  A notification
\* is in the map exactly as long as somebody waits on its open channel, with the
\* number of its waiters (releaseNotificationLocked); the count against the limit
\* is the number of Subscribe calls past acquireSubscription; and the bucket
\* refilled when a write arrives admits what one refilled as time passes would
\* (allowWrite; its tokens for requests, the ones for bytes are not counted here).
CountsExact ==
    /\ \A s \in Streams :
        note[s] # 0 =>
            /\ ~notes[note[s]].fired
            /\ notes[note[s]].waiters > 0
            /\ notes[note[s]].waiters = Cardinality({c \in Callers : sub[c].note = note[s]})
    /\ subs = Cardinality({c \in Callers : sub[c].pc \notin {"idle", "acquire", "done"}})
    /\ Refilled = budget

\* An error without result_uncertain means that the append is not in the Stream
\* and never will be; success means that it is (Store.Append, mapError).
AnswersTrue ==
    \A a \in Writers :
        LET written == \E i \in DOMAIN log[env.appends[a]] : log[env.appends[a]][i] = a
        IN  /\ app[a].answer = "certain" => ~written /\ app[a].future # "pending"
            /\ app[a].answer = "ok" => written

Behind(c) ==
    /\ sub[c].pc \in {"loop", "wait", "waiting", "unwait", "waited"}
    /\ NextSequence(env.subscribes[c]) > sub[c].cursor
    /\ \A a \in Writers : env.appends[a] = env.subscribes[c] => app[a].future # "silent"

\* Subscribers behind their Stream read on or end without the help of a
\* heartbeat (Subscribe, WaitForAppend, signal, finishAppend), but for the
\* subscribers of a Stream with an append that finishAppend did not signal: the
\* gap NoLostWakeup names, after which the failed engine takes no other append.
CaughtUp == (\E c \in Callers : Behind(c)) ~> (\A c \in Callers : ~Behind(c))

\* A node told to stop stops, without the shutdown timeout and without clients
\* that read: the drain ends every Subscribe and every Append completes
\* (Run, BeginDrain, shutdownGRPC, Store.Close).
ShutdownCompletes == phase = "stopping" ~> phase = "stopped"

\* A node that serves flushes a full MemTable and collects WAL above its limit
\* (runEngineMaintenance, evaluate, retentionDue).
MaintenanceKeepsUp ==
    (env.checks /\ (unflushed >= FlushLimit \/ retained > MaxRetained))
        ~> ((unflushed < FlushLimit /\ retained <= MaxRetained) \/ phase # "serving")
=============================================================================
