-------------------------- MODULE SchedulerDriver --------------------------
(***************************************************************************)
(* The scheduler driver of liburb (urb-core/source/cpp/liburb/source):     *)
(* MesosSchedulerDriver (sched.cpp), the UrbSchedulerProcess it owns       *)
(* (scheduler_process.cpp) and the Java and Python layers that make its    *)
(* callbacks.                                                              *)
(*                                                                         *)
(* Two threads run it.  The client's thread makes driver calls, each under *)
(* the recursive mutex of the driver; the event loop's thread handles      *)
(* messages and timers without that mutex, and makes the callbacks.  A     *)
(* callback may itself make driver calls, so a thread has a stack of what  *)
(* it is in.  The master is the broker service, seen through the two Redis *)
(* lists between it and the driver; it and Redis are external.             *)
(***************************************************************************)
EXTENDS Lists

CONSTANTS
    Tasks,
    Malformed,     \* tasks with both or neither of an executor and a command
    Accepts,       \* what an acceptOffers call may carry: for each LAUNCH operation its tasks
    KnownId,       \* the framework was constructed with an id
    MaxCalls,      \* bound on driver calls
    MaxVolunteer,  \* bound on messages the master sends unasked
    MaxLosses,     \* bound on losses of the Redis connection
    Unasked,       \* their types, status updates aside
    MaxUnread      \* the reconcile timer is so slow that fewer messages than this are unread

(* messages_ of SchedulerNotifyCallback.                                   *)
Notifications == {"registered", "reregistered", "resourceOffers", "offerRescinded",
                  "statusUpdate", "frameworkMessage", "slaveLost", "error", "serviceDisconnected"}

\* the tasks are finitely many: any set of them can be written as a list
ASSUME TasksAssumption ==
    \A T \in SUBSET Tasks : Cardinality(T) \in Nat /\ Injection(1 .. Cardinality(T), T) # {}
ASSUME SchedulerAssumption ==
    /\ Malformed \subseteq Tasks
    /\ Accepts \subseteq Seq(Seq(Tasks))
    /\ KnownId \in BOOLEAN
    /\ MaxCalls \in Nat /\ MaxVolunteer \in Nat /\ MaxLosses \in Nat /\ MaxUnread \in Nat
    /\ Unasked \subseteq Notifications

VARIABLES
    driver,      \* MesosSchedulerDriver::status
    joiner,      \* a thread in join(): out, waiting on the condition, or signalled
    connected, aborted, failover, hasId,   \* of UrbSchedulerProcess; hasId: framework_.has_id()
    active,      \* activeTasks_
    timers,      \* registration timers that are scheduled
    stack,       \* what each thread is in
    offered,     \* an offer was delivered, so the client has an id to launch with
    life,        \* of each task: not launched yet, launched, or reported as finished
    notify,      \* the list the driver reads
    outgoing,    \* the list the master reads
    conn,        \* the driver's Redis connections work
    redis,       \* Redis can be reached
    errorDue,    \* the pending BRPOP of a lost connection will report an error
    master, known,  \* how the master sees the framework, and its tasks
    calls, volunteered, losses

flags == <<connected, aborted, failover, hasId>>
link == <<conn, redis, errorDue, losses>>
masterVars == <<master, known, volunteered>>
vars == <<driver, joiner, flags, active, timers, stack, offered, life, notify, outgoing, link,
          masterVars, calls>>

Threads == {"client", "loop"}
Statuses == {"NOT_STARTED", "RUNNING", "STOPPED", "ABORTED"}
TaskStates == {"STAGING", "RUNNING", "FINISHED", "LOST", "ERROR"}

Notification == [type : Notifications, tasks : SUBSET Tasks, state : TaskStates]
Note(type) == [type |-> type, tasks |-> {}, state |-> "STAGING"]
Update(t, s) == [type |-> "statusUpdate", tasks |-> {t}, state |-> s]

Requests == {"Register", "Reregister", "Unregister", "Deactivate", "Launch", "Reconcile", "Kill", "Other"}
Request(type, ts) == [type |-> type, tasks |-> ts]

(* A frame is a callback about to be made or being made, or launchTasks.   *)
CallbackFrame == [at : {"call", "in"}, note : Notification]
LaunchFrame == [at : {"launch"}, ops : Seq(Seq(Tasks)), left : Seq(Tasks), lost : BOOLEAN,
                result : SUBSET Tasks]
Callback(n) == [at |-> "call", note |-> n]
Top(th) == Last(stack[th])
Push(th, frame) == stack' = [stack EXCEPT ![th] = Append(@, frame)]
Pop(th) == stack' = [stack EXCEPT ![th] = Front(@)]

TypeOK ==
    /\ driver \in Statuses /\ joiner \in {"out", "waiting", "signalled"}
    /\ {connected, aborted, failover, hasId, conn, redis, errorDue, offered} \subseteq BOOLEAN
    /\ active \in [Tasks -> TaskStates \cup {"none"}]
    /\ timers \in Nat
    /\ life \in [Tasks -> {"new", "launched", "finished"}]
    /\ stack \in [Threads -> Seq(CallbackFrame \cup LaunchFrame)]
    /\ notify \in Seq(Notification)
    /\ outgoing \in Seq([type : Requests, tasks : SUBSET Tasks])
    /\ master \in {"unknown", "active", "inactive"} /\ known \subseteq Tasks
    /\ calls \in 0..MaxCalls /\ volunteered \in 0..MaxVolunteer /\ losses \in 0..MaxLosses

(* The constructors: nothing is running; UrbSchedulerProcess is created by *)
(* the first start() and its flags do not matter before that.              *)
Init ==
    /\ driver = "NOT_STARTED" /\ joiner = "out"
    /\ connected = FALSE /\ aborted = FALSE /\ failover = KnownId /\ hasId = KnownId
    /\ active = [t \in Tasks |-> "none"]
    /\ timers = 0 /\ stack = [th \in Threads |-> <<>>]
    /\ offered = FALSE /\ life = [t \in Tasks |-> "new"]
    /\ notify = <<>> /\ outgoing = <<>>
    /\ conn = FALSE /\ redis = TRUE /\ errorDue = FALSE
    /\ master = "unknown" /\ known = {}
    /\ calls = 0 /\ volunteered = 0 /\ losses = 0

----------------------------------------------------------------------------
(* RedisChannel::write swallows the exception of a broken connection: the  *)
(* message is lost.  Messages on which the master's view of the tasks does *)
(* not depend are read at once.                                            *)
Written(queue, m) == IF conn /\ m.type # "Other" THEN Append(queue, m) ELSE queue
SendMesosMessage(m) == outgoing' = Written(outgoing, m)

(* The driver's mutex is held for a whole launchTasks; every other call is *)
(* one step under it.  It is recursive.                                    *)
Holds(th) == \E i \in 1..Len(stack[th]) : stack[th][i].at = "launch"
MutexFree(th) == \A other \in Threads \ {th} : ~Holds(other)

(* The client calls at any time, the event loop from inside a callback.    *)
MayCall(th) ==
    /\ calls < MaxCalls
    /\ IF stack[th] = <<>> THEN th = "client" ELSE Top(th).at = "in"
    /\ MutexFree(th)
    /\ calls' = calls + 1

Signal == joiner' = IF joiner = "waiting" THEN "signalled" ELSE joiner

----------------------------------------------------------------------------
(* MesosSchedulerDriver::start: a stopped driver registers again; an       *)
(* aborted one is only marked as running.                                  *)
Start(th) ==
    /\ MayCall(th)
    /\ driver' = "RUNNING"
    /\ timers' = IF driver \in {"NOT_STARTED", "STOPPED"} THEN timers + 1 ELSE timers
    /\ UNCHANGED <<joiner, flags, active, stack, offered, life, notify, outgoing, link, masterVars>>

\* Seeded fault: stop() does not wake the thread in join().
StopWithoutSignal(th, keep) ==
    /\ MayCall(th)
    /\ driver \in {"RUNNING", "ABORTED"}
    /\ driver' = "STOPPED"
    /\ connected' = (connected /\ keep)
    /\ IF connected /\ ~keep THEN SendMesosMessage(Request("Unregister", {})) ELSE UNCHANGED outgoing
    /\ UNCHANGED <<joiner, aborted, failover, hasId, active, timers, stack, offered, life, notify, link,
                   masterVars>>

(* stop(failover) and UrbSchedulerProcess::stop.                           *)
Stop(th, keep) ==
    /\ MayCall(th)
    /\ driver \in {"RUNNING", "ABORTED"}
    /\ Signal
    /\ driver' = "STOPPED"
    /\ connected' = (connected /\ keep)
    /\ IF connected /\ ~keep THEN SendMesosMessage(Request("Unregister", {})) ELSE UNCHANGED outgoing
    /\ UNCHANGED <<aborted, failover, hasId, active, timers, stack, offered, life, notify, link, masterVars>>

(* UrbSchedulerProcess::abort: aborted_ is set only when connected.        *)
ProcessAbort ==
    /\ connected' = FALSE
    /\ aborted' = (aborted \/ connected)
    /\ IF connected THEN SendMesosMessage(Request("Deactivate", {})) ELSE UNCHANGED outgoing

(* MesosSchedulerDriver::abort, made by a client or after an exception.    *)
DriverAbort ==
    IF driver = "RUNNING"
    THEN ProcessAbort /\ Signal /\ driver' = "ABORTED"
    ELSE UNCHANGED <<connected, aborted, outgoing, joiner, driver>>

Abort(th) ==
    /\ MayCall(th)
    /\ driver = "RUNNING"
    /\ DriverAbort
    /\ UNCHANGED <<failover, hasId, active, timers, stack, offered, life, notify, link, masterVars>>

(* join(): pthread_cond_wait until the status is no longer RUNNING.        *)
Join ==
    /\ joiner = "out" /\ driver = "RUNNING" /\ MutexFree("joiner")
    /\ joiner' = "waiting"
    /\ UNCHANGED <<driver, flags, active, timers, stack, offered, life, notify, outgoing, link, masterVars, calls>>

JoinWakes ==
    /\ joiner = "signalled" /\ MutexFree("joiner")
    /\ joiner' = IF driver = "RUNNING" THEN "waiting" ELSE "out"
    /\ UNCHANGED <<driver, flags, active, timers, stack, offered, life, notify, outgoing, link, masterVars, calls>>

(* Calls that send one message if the driver runs and is connected.        *)
Calls(th) == MayCall(th) /\ driver = "RUNNING"
Sends(th, m) ==
    /\ Calls(th)
    /\ connected
    /\ SendMesosMessage(m)
    /\ UNCHANGED <<driver, joiner, flags, active, timers, stack, offered, life, notify, link, masterVars>>

KillTask(th, t) == active[t] # "none" /\ Sends(th, Request("Kill", {t}))
RequestResources(th) == Sends(th, Request("Other", {}))
ReviveOffers(th) == Sends(th, Request("Other", {}))
SendFrameworkMessage(th) == Sends(th, Request("Other", {}))
ReconcileTasks(th, t) == active[t] # "none" /\ Sends(th, Request("Reconcile", {t}))
AcknowledgeStatusUpdate(th) == Sends(th, Request("Other", {}))

(* acceptOffers runs launchTasks for each LAUNCH operation; launchTasks    *)
(* has one operation, and declineOffer is launchTasks without tasks.       *)
AcceptOffers(th, ops) ==
    /\ Calls(th)
    /\ offered /\ ops # <<>>
    /\ \A i \in DOMAIN ops : \A t \in Range(ops[i]) : life[t] = "new"
    /\ life' = [t \in Tasks |-> IF \E i \in DOMAIN ops : t \in Range(ops[i]) THEN "launched" ELSE life[t]]
    /\ Push(th, [at |-> "launch", ops |-> Tail(ops), left |-> Head(ops), lost |-> ~connected,
                 result |-> {}])
    /\ UNCHANGED <<driver, joiner, flags, active, timers, offered, notify, outgoing, link, masterVars>>

(* statusUpdate for an update of the driver's own: ignored once aborted.   *)
Replaced(th, frame) == [stack EXCEPT ![th] = Append(Front(@), frame)]
DriverUpdate(th, frame, t) ==
    stack' = [stack EXCEPT ![th] =
        Append(Front(@), frame) \o (IF aborted THEN <<>> ELSE <<Callback(Update(t, "LOST"))>>)]

\* Seeded fault: the tasks are noted after the message has been sent.
NoteAfterSend(th) ==
    /\ stack[th] # <<>> /\ Top(th).at = "launch" /\ Top(th).left # <<>>
    /\ LET f == Top(th)
           t == Head(f.left)
           rest == [f EXCEPT !.left = Tail(@)]
       IN IF f.lost \/ t \in Malformed
          THEN DriverUpdate(th, rest, t) /\ UNCHANGED <<outgoing, active>>
          ELSE IF t \notin f.result
               THEN /\ SendMesosMessage(Request("Launch", {t}))
                    /\ stack' = Replaced(th, [f EXCEPT !.result = @ \cup {t}])
                    /\ UNCHANGED active
               ELSE /\ active' = [active EXCEPT ![t] = "STAGING"]
                    /\ stack' = Replaced(th, rest)
                    /\ UNCHANGED outgoing
    /\ UNCHANGED <<driver, joiner, flags, timers, offered, life, notify, link, masterVars, calls>>

(* The loop of launchTasks over the tasks.                                 *)
LaunchTask(th) ==
    /\ stack[th] # <<>> /\ Top(th).at = "launch" /\ Top(th).left # <<>>
    /\ LET f == Top(th)
           t == Head(f.left)
           rest == [f EXCEPT !.left = Tail(@)]
       IN IF f.lost \/ t \in Malformed
          THEN DriverUpdate(th, rest, t) /\ UNCHANGED active
          ELSE /\ active' = [active EXCEPT ![t] = "STAGING"]
               /\ stack' = Replaced(th, [rest EXCEPT !.result = @ \cup {t}])
    /\ UNCHANGED <<driver, joiner, flags, timers, offered, life, notify, outgoing, link, masterVars, calls>>

(* Its end: the message, and the next operation of acceptOffers, which     *)
(* looks at connected_ again.                                              *)
LaunchSend(th) ==
    /\ stack[th] # <<>> /\ Top(th).at = "launch" /\ Top(th).left = <<>>
    /\ LET f == Top(th)
       IN /\ IF f.lost THEN UNCHANGED outgoing ELSE SendMesosMessage(Request("Launch", f.result))
          /\ IF f.ops = <<>> THEN Pop(th)
             ELSE stack' = Replaced(th, [f EXCEPT !.ops = Tail(@), !.left = Head(f.ops),
                                                  !.lost = ~connected, !.result = {}])
    /\ UNCHANGED <<driver, joiner, flags, active, timers, offered, life, notify, link, masterVars, calls>>

----------------------------------------------------------------------------
(* The event loop.                                                         *)
Idle == stack["loop"] = <<>>

\* Seeded fault: a registration that cannot reach Redis is not tried again.
RegisterOnce ==
    /\ Idle /\ timers > 0
    /\ IF connected
       THEN timers' = timers - 1 /\ UNCHANGED <<connected, aborted, outgoing, conn>>
       ELSE IF aborted
       THEN timers' = timers - 1 /\ connected' = TRUE /\ aborted' = FALSE /\ UNCHANGED <<outgoing, conn>>
       ELSE IF ~redis
       THEN timers' = timers - 1 /\ UNCHANGED <<connected, aborted, outgoing, conn>>
       ELSE /\ timers' = timers - 1
            /\ conn' = TRUE
            /\ outgoing' = Append(outgoing, Request(IF ~hasId \/ failover THEN "Register"
                                                    ELSE "Reregister", {}))
            /\ UNCHANGED <<connected, aborted>>
    /\ UNCHANGED <<driver, joiner, failover, hasId, active, stack, offered, life, notify, redis, errorDue,
                   losses, masterVars, calls>>

\* Seeded fault: a registration runs that no timer was set for.
RegisterWithoutTimer ==
    /\ Idle /\ driver = "RUNNING" /\ ~connected /\ ~aborted /\ redis
    /\ timers' = timers - 1
    /\ conn' = TRUE
    /\ outgoing' = Append(outgoing, Request("Register", {}))
    /\ UNCHANGED <<driver, joiner, flags, active, stack, offered, life, notify, redis, errorDue,
                   losses, masterVars, calls>>

(* A registration timer fires.  setUrl replaces the connections, or throws *)
(* and the timer is set again.                                             *)
DoReliableRegistration ==
    /\ Idle /\ timers > 0
    /\ \/ connected /\ timers' = timers - 1 /\ UNCHANGED <<connected, aborted, outgoing, conn>>
       \/ /\ ~connected /\ aborted
          /\ timers' = timers - 1 /\ connected' = TRUE /\ aborted' = FALSE
          /\ UNCHANGED <<outgoing, conn>>
       \/ ~connected /\ ~aborted /\ ~redis /\ UNCHANGED <<timers, connected, aborted, outgoing, conn>>
       \/ /\ ~connected /\ ~aborted /\ redis
          /\ timers' = timers - 1
          /\ conn' = TRUE
          /\ outgoing' = Append(outgoing, Request(IF ~hasId \/ failover THEN "Register"
                                                  ELSE "Reregister", {}))
          /\ UNCHANGED <<connected, aborted>>
    /\ UNCHANGED <<driver, joiner, failover, hasId, active, stack, offered, life, notify, redis, errorDue,
                   losses, masterVars, calls>>

\* Seeded fault: the reconcile timer asks about no task.
CheckNothing ==
    /\ Idle /\ driver # "NOT_STARTED" /\ Len(outgoing) + Len(notify) < MaxUnread
    /\ UNCHANGED vars

(* checkReconcile, every minute: the tasks still in TASK_STAGING.          *)
CheckReconcile ==
    /\ Idle /\ driver # "NOT_STARTED" /\ Len(outgoing) + Len(notify) < MaxUnread
    /\ LET staging == {t \in Tasks : active[t] = "STAGING"}
       IN /\ staging # {} /\ connected
          /\ SendMesosMessage(Request("Reconcile", staging))
    /\ UNCHANGED <<driver, joiner, flags, active, timers, stack, offered, life, notify, link, masterVars, calls>>

(* onInput with type ERROR: the broker connection was lost.                *)
LostConnection ==
    /\ Idle /\ errorDue
    /\ errorDue' = FALSE
    /\ connected' = FALSE
    /\ timers' = timers + 1
    /\ UNCHANGED <<driver, joiner, aborted, failover, hasId, active, stack, offered, life, notify, outgoing,
                   conn, redis, losses, masterVars, calls>>

(* registered and reregistered.                                            *)
Registered(n) ==
    /\ n.type \in {"registered", "reregistered"}
    /\ IF aborted \/ connected THEN UNCHANGED <<stack, connected, failover, hasId>>
       ELSE /\ connected' = TRUE /\ failover' = FALSE /\ hasId' = TRUE
            /\ Push("loop", Callback(n))
    /\ UNCHANGED outgoing

(* resourceOffers, rescindOffer, lostSlave and statusUpdate want a         *)
(* connected driver; frameworkMessage and error one not aborted.           *)
Delivered(n) ==
    /\ n.type \in Notifications \ {"registered", "reregistered", "serviceDisconnected"}
    /\ IF aborted \/ (~connected /\ n.type \notin {"frameworkMessage", "error"}) THEN UNCHANGED stack
       ELSE Push("loop", Callback(n))
    /\ UNCHANGED <<connected, failover, hasId, outgoing>>

(* SERVICE_DISCONNECTED: re-register over the connection there is.         *)
ServiceDisconnected(n) ==
    /\ n.type = "serviceDisconnected"
    /\ SendMesosMessage(Request("Reregister", {}))
    /\ UNCHANGED <<stack, connected, failover, hasId>>

OnInput ==
    /\ Idle /\ conn /\ notify # <<>>
    /\ notify' = Tail(notify)
    /\ LET n == Head(notify) IN Registered(n) \/ Delivered(n) \/ ServiceDisconnected(n)
    /\ UNCHANGED <<driver, joiner, aborted, active, timers, offered, life, link, masterVars, calls>>

(* The callback is made; error() aborts the driver first.                  *)
Enter(th) ==
    /\ stack[th] # <<>> /\ Top(th).at = "call"
    /\ stack' = Replaced(th, [Top(th) EXCEPT !.at = "in"])
    /\ offered' = (offered \/ Top(th).note.type = "resourceOffers")
    /\ IF Top(th).note.type = "error" THEN MutexFree(th) /\ DriverAbort
       ELSE UNCHANGED <<driver, joiner, connected, aborted, outgoing>>
    /\ UNCHANGED <<failover, hasId, active, timers, life, notify, link, masterVars, calls>>

(* What statusUpdate does after the callback: the acknowledgement, and     *)
(* activeTasks_, which keeps TASK_ERROR and the like.                      *)
Terminal == {"FINISHED", "LOST"}
StatusUpdated(n) ==
    LET for == IF n.type = "statusUpdate" THEN n.tasks ELSE {}
        over == IF n.state \in Terminal THEN for ELSE {}
    IN /\ active' = [t \in Tasks |-> IF t \in over THEN "none" ELSE IF t \in for THEN n.state ELSE active[t]]
       /\ life' = [t \in Tasks |-> IF t \in for /\ n.state = "FINISHED" THEN "finished" ELSE life[t]]

StatusUpdateAcknowledgement(n, isAborted, queue) ==
    IF n.type = "statusUpdate" /\ ~isAborted THEN Written(queue, Request("Other", n.tasks)) ELSE queue

Leave(th) ==
    /\ stack[th] # <<>> /\ Top(th).at = "in"
    /\ Pop(th)
    /\ StatusUpdated(Top(th).note)
    /\ outgoing' = StatusUpdateAcknowledgement(Top(th).note, aborted, outgoing)
    /\ UNCHANGED <<driver, joiner, flags, timers, offered, notify, link, masterVars, calls>>

(* The callback raises.  Every callback of the Java layer (JNIScheduler)   *)
(* attaches its thread, converts the arguments and calls the method; if    *)
(* that raised, the exception is printed and cleared, the thread detached  *)
(* and the driver aborted.  Those of the Python layer (ProxyScheduler) do  *)
(* the same under the interpreter's lock, but for error(), which prints    *)
(* and goes on.  The sets below are these callbacks, layer by layer.       *)
JniRegistrationCallbacks == {"registered", "reregistered"}
JniOfferCallbacks == {"resourceOffers", "offerRescinded"}
JniMessageCallbacks == {"statusUpdate", "frameworkMessage"}
JniLossCallbacks == {"slaveLost", "error"}
ProxyRegistrationCallbacks == {"registered", "reregistered"}
ProxyOfferCallbacks == {"resourceOffers", "offerRescinded"}
ProxyMessageCallbacks == {"statusUpdate", "frameworkMessage"}
ProxyLossCallbacks == {"slaveLost"}
Aborting == JniRegistrationCallbacks \cup JniOfferCallbacks \cup JniMessageCallbacks
            \cup JniLossCallbacks \cup ProxyRegistrationCallbacks \cup ProxyOfferCallbacks
            \cup ProxyMessageCallbacks \cup ProxyLossCallbacks

Raise(th) ==
    /\ stack[th] # <<>> /\ Top(th).at = "in" /\ Top(th).note.type \in Aborting
    /\ driver = "RUNNING" /\ MutexFree(th)
    /\ Pop(th)
    /\ driver' = "ABORTED" /\ Signal
    /\ connected' = FALSE /\ aborted' = (aborted \/ connected)
    /\ StatusUpdated(Top(th).note)
    /\ outgoing' = StatusUpdateAcknowledgement(Top(th).note, aborted \/ connected,
           IF connected THEN Written(outgoing, Request("Deactivate", {})) ELSE outgoing)
    /\ UNCHANGED <<failover, hasId, timers, offered, notify, link, masterVars, calls>>

----------------------------------------------------------------------------
(* External: Redis and the connection to it.                               *)
LoseLink ==
    /\ losses < MaxLosses /\ conn
    /\ losses' = losses + 1
    /\ conn' = FALSE /\ redis' = FALSE /\ errorDue' = TRUE
    /\ UNCHANGED <<driver, joiner, flags, active, timers, stack, offered, life, notify, outgoing, masterVars, calls>>

RedisBack ==
    /\ ~redis
    /\ redis' = TRUE
    /\ UNCHANGED <<driver, joiner, flags, active, timers, stack, offered, life, notify, outgoing, conn,
                   errorDue, losses, masterVars, calls>>

(* External: the master takes the oldest message and answers.              *)
Answers(m) ==
    LET all == SetToSeq(m.tasks)
        killed == SetToSeq(m.tasks \cap known)
    IN  CASE m.type = "Register" -> <<Note("registered")>>
          [] m.type = "Reregister" -> <<Note("reregistered")>>
          [] m.type = "Reconcile" ->
                [i \in DOMAIN all |-> Update(all[i], IF all[i] \in known THEN "RUNNING" ELSE "LOST")]
          [] m.type = "Kill" -> [i \in DOMAIN killed |-> Update(killed[i], "FINISHED")]
          [] OTHER -> <<>>

MasterTakes ==
    /\ redis /\ outgoing # <<>>
    /\ outgoing' = Tail(outgoing)
    /\ LET m == Head(outgoing)
       IN /\ master' = CASE m.type \in {"Register", "Reregister"} -> "active"
                         [] m.type = "Unregister" -> "unknown"
                         [] m.type = "Deactivate" -> "inactive"
                         [] OTHER -> master
          /\ known' = CASE m.type = "Launch" /\ master = "active" -> known \cup m.tasks
                        [] m.type = "Kill" -> known \ m.tasks
                        [] m.type = "Unregister" -> {}
                        [] OTHER -> known
          /\ notify' = notify \o Answers(m)
    /\ UNCHANGED <<driver, joiner, flags, active, timers, stack, offered, life, link, volunteered, calls>>

(* External: what it sends by itself.                                      *)
MasterSends ==
    /\ redis /\ volunteered < MaxVolunteer /\ master # "unknown"
    /\ volunteered' = volunteered + 1
    /\ \/ /\ \E type \in Unasked :
                /\ master = "active" \/ type \notin {"resourceOffers", "offerRescinded"}
                /\ notify' = Append(notify, Note(type))
          /\ UNCHANGED known
       \/ \E t \in known :
            \/ notify' = Append(notify, Update(t, "RUNNING")) /\ UNCHANGED known
            \/ \E s \in {"FINISHED", "ERROR"} :
                notify' = Append(notify, Update(t, s)) /\ known' = known \ {t}
    /\ UNCHANGED <<driver, joiner, flags, active, timers, stack, offered, life, outgoing, link, master, calls>>

----------------------------------------------------------------------------
DriverCall(th) ==
    \/ Start(th) \/ Abort(th)
    \/ \E keep \in BOOLEAN : Stop(th, keep)
    \/ RequestResources(th) \/ ReviveOffers(th) \/ SendFrameworkMessage(th) \/ AcknowledgeStatusUpdate(th)
    \/ \E t \in Tasks : KillTask(th, t) \/ ReconcileTasks(th, t)
    \/ \E ops \in Accepts : AcceptOffers(th, ops)

Next ==
    \/ \E th \in Threads :
        \/ DriverCall(th)
        \/ LaunchTask(th) \/ LaunchSend(th)
        \/ Enter(th) \/ Leave(th) \/ Raise(th)
    \/ Join \/ JoinWakes
    \/ DoReliableRegistration \/ CheckReconcile \/ LostConnection \/ OnInput
    \/ LoseLink \/ RedisBack \/ MasterTakes \/ MasterSends

(* Both threads run, callbacks return, and the event loop serves all its   *)
(* sources.  Redis comes back and the master reads its list.               *)
Fairness ==
    /\ \A th \in Threads : WF_vars(LaunchTask(th) \/ LaunchSend(th) \/ Enter(th) \/ Leave(th))
    /\ WF_vars(JoinWakes)
    /\ WF_vars(DoReliableRegistration) /\ WF_vars(CheckReconcile) /\ WF_vars(LostConnection)
    /\ WF_vars(OnInput)
    /\ WF_vars(RedisBack) /\ WF_vars(MasterTakes)

Spec == Init /\ [][Next]_vars /\ Fairness

----------------------------------------------------------------------------
(* A task that has finished is forgotten for good: the launch, in one      *)
(* thread, and the update, in the other, cannot leave it in activeTasks_   *)
(* for checkReconcile to ask about it for ever (launchTasks notes the task *)
(* before it sends; statusUpdate erases it).                               *)
FinishedIsForgotten == \A t \in Tasks : life[t] = "finished" => active[t] = "none"

(* A driver that runs gets registered, however often its Redis connection  *)
(* breaks and whatever was lost with it (doReliableRegistration, onInput). *)
RunningConnects ==
    (driver = "RUNNING" /\ ~aborted) ~> (connected \/ driver # "RUNNING" \/ aborted)

(* A task that was launched does not stay in TASK_STAGING: if the launch   *)
(* was lost the reconciliation timer finds out (checkReconcile).  A driver *)
(* that was aborted and started again is not meant to be used.             *)
StagingResolved ==
    [](driver # "ABORTED") =>
        \A t \in Tasks : (active[t] = "STAGING") ~> (active[t] # "STAGING" \/ driver # "RUNNING")

(* A thread in join() returns once the driver is stopped or aborted,       *)
(* unless it is started again (pthread_cond_signal in stop and abort).     *)
JoinReturns == (joiner # "out" /\ driver # "RUNNING") ~> (joiner = "out" \/ driver = "RUNNING")
=============================================================================
