--------------------------- MODULE ExecutorDriver ---------------------------
(***************************************************************************)
(* The executor driver of liburb (urb-core/source/cpp/liburb/source):      *)
(* MesosExecutorDriver (exec.cpp), the UrbExecutorProcess it owns          *)
(* (executor_process.cpp) and the Java and Python layers that make its     *)
(* callbacks.                                                              *)
(*                                                                         *)
(* As in SchedulerDriver a client thread makes calls under a recursive     *)
(* mutex and the event loop's thread handles messages and makes callbacks. *)
(* The broker service is external: it runs each task once, forwards the    *)
(* acknowledgements of the framework in any order and may be replaced by   *)
(* another one, which loses the message in hand and all it knew, and tells *)
(* the executor so.                                                        *)
(***************************************************************************)
EXTENDS Lists

CONSTANTS
    Tasks,
    Truncates,     \* the uuid of an update may begin with a zero byte
    MaxUpdates,    \* bound on status updates sent
    MaxEvents      \* bound on: other driver calls, messages the service sends unasked (tasks
                   \* aside), replacements of the service, losses of the Redis connection

ASSUME ExecutorAssumption ==
    /\ Truncates \in BOOLEAN
    /\ MaxUpdates \in Nat /\ MaxEvents \in Nat

VARIABLES
    driver,      \* MesosExecutorDriver::status
    joiner,      \* a thread in join(): out, waiting on the condition, or signalled
    connected, aborted, updates, tasks,   \* of UrbExecutorProcess
    timer,       \* registrationTimer_ is scheduled
    stack,       \* callbacks each thread is in
    process,     \* alive, doomed once shutdown() has forked the killer, or killed
    notify,      \* the list the driver reads
    outgoing,    \* the list the service reads
    conn,        \* the driver's Redis connections work
    redis,       \* Redis can be reached
    linked,      \* history: the driver has connected to Redis
    sent,        \* history: every update given to sendStatusUpdate
    seen,        \* history: the updates a service has read
    given,       \* history: the tasks runTask took
    owed,        \* updates whose acknowledgement the service will forward
    taskDict,    \* the tasks the service knows
    events

own == <<connected, aborted, updates, tasks>>
link == <<conn, redis, linked>>
service == <<seen, owed, taskDict>>
vars == <<driver, joiner, own, timer, stack, process, notify, outgoing, link, sent, given, service, events>>

Threads == {"client", "loop"}
Statuses == {"NOT_STARTED", "RUNNING", "STOPPED", "ABORTED"}
TaskStates == {"STAGING", "RUNNING", "FINISHED"}
(* The uuid is cut at its first zero byte: 0 stands for the empty string.  *)
StatusUpdate == [n : 1..MaxUpdates, task : Tasks, state : TaskStates \ {"STAGING"}, uuid : 0..MaxUpdates]

(* messages of ExecutorNotifyCallback.                                     *)
Notifications == {"registered", "reregistered", "reconnect", "serviceDisconnected", "acknowledge",
                  "killTask", "runTask", "frameworkMessage", "shutdown"}
Message(type, ts, us) == [type |-> type, tasks |-> ts, updates |-> us]
Messages(types) == [type : types, tasks : SUBSET Tasks, updates : SUBSET StatusUpdate]
Callbacks == {"registered", "reregistered", "killTask", "runTask", "frameworkMessage", "shutdown", "error"}
Frame == [at : {"call", "in"}, type : Callbacks]
Callback(type) == [at |-> "call", type |-> type]
Top(th) == Last(stack[th])
Push(th, type) == stack' = [stack EXCEPT ![th] = Append(@, Callback(type))]
Pop(th) == stack' = [stack EXCEPT ![th] = Front(@)]

TypeOK ==
    /\ driver \in Statuses /\ joiner \in {"out", "waiting", "signalled"}
    /\ {connected, aborted, timer, conn, redis, linked} \subseteq BOOLEAN
    /\ sent \subseteq StatusUpdate /\ updates \subseteq sent /\ seen \subseteq sent /\ owed \subseteq seen
    /\ \A u, v \in updates : u.uuid = v.uuid => u = v
    /\ given \subseteq Tasks /\ tasks \subseteq given
    /\ taskDict \subseteq Tasks
    /\ stack \in [Threads -> Seq(Frame)]
    /\ process \in {"alive", "doomed", "killed"}
    /\ notify \in Seq(Messages(Notifications))
    /\ outgoing \in Seq(Messages({"Register", "Reregister", "StatusUpdate"}))

(* The constructors.                                                       *)
Init ==
    /\ driver = "NOT_STARTED" /\ joiner = "out"
    /\ connected = FALSE /\ aborted = FALSE /\ updates = {} /\ tasks = {}
    /\ timer = FALSE /\ stack = [th \in Threads |-> <<>>] /\ process = "alive"
    /\ notify = <<>> /\ outgoing = <<>>
    /\ conn = FALSE /\ redis = TRUE /\ linked = FALSE
    /\ sent = {} /\ seen = {} /\ given = {} /\ owed = {} /\ taskDict = {}
    /\ events = 0

----------------------------------------------------------------------------
(* RedisChannel::write loses what it cannot send.                          *)
SendMesosMessage(m) == outgoing' = IF conn THEN Append(outgoing, m) ELSE outgoing

(* sendStatusUpdate holds the mutex while it makes the error callback;     *)
(* every other call is one step under it.                                  *)
Holds(th) == \E i \in DOMAIN stack[th] : stack[th][i].type = "error"
MutexFree(th) == \A other \in Threads \ {th} : ~Holds(other)
MayCall(th) ==
    /\ process # "killed"
    /\ IF stack[th] = <<>> THEN th = "client" ELSE Top(th).at = "in"
    /\ MutexFree(th)
Counted == events < MaxEvents /\ events' = events + 1
Signal == joiner' = IF joiner = "waiting" THEN "signalled" ELSE joiner

(* start(): CHECKs that there is no process yet, so it is called once.     *)
StartRegistration == timer' = TRUE
Start ==
    /\ driver = "NOT_STARTED"
    /\ StartRegistration
    /\ driver' = "RUNNING"
    /\ UNCHANGED <<joiner, own, stack, process, notify, outgoing, link, sent, given, service, events>>

\* Seeded fault: the condition is not signalled.
StopWithoutSignal(th) ==
    /\ Counted /\ MayCall(th)
    /\ driver \in {"RUNNING", "ABORTED"}
    /\ driver' = "STOPPED"
    /\ UNCHANGED <<joiner, own, timer, stack, process, notify, outgoing, link, sent, given, service>>

(* stop(): UrbExecutorProcess::stop is not even called.                    *)
Stop(th) ==
    /\ Counted /\ MayCall(th)
    /\ driver \in {"RUNNING", "ABORTED"}
    /\ driver' = "STOPPED" /\ Signal
    /\ UNCHANGED <<own, timer, stack, process, notify, outgoing, link, sent, given, service>>

ProcessAbort == aborted' = TRUE
DriverAbort ==
    IF driver = "RUNNING"
    THEN ProcessAbort /\ Signal /\ driver' = "ABORTED"
    ELSE UNCHANGED <<aborted, joiner, driver>>

\* Seeded fault: only a registered executor is marked as aborted.
AbortConnected(th) ==
    /\ Counted /\ MayCall(th)
    /\ driver = "RUNNING"
    /\ driver' = "ABORTED" /\ Signal /\ aborted' = (aborted \/ connected)
    /\ UNCHANGED <<connected, updates, tasks, timer, stack, process, notify, outgoing, link, sent, given, service>>

Abort(th) ==
    /\ Counted /\ MayCall(th)
    /\ driver = "RUNNING"
    /\ DriverAbort
    /\ UNCHANGED <<connected, updates, tasks, timer, stack, process, notify, outgoing, link, sent, given, service>>

Join ==
    /\ joiner = "out" /\ driver = "RUNNING" /\ MutexFree("joiner")
    /\ joiner' = "waiting"
    /\ UNCHANGED <<driver, own, timer, stack, process, notify, outgoing, link, sent, given, service, events>>

JoinWakes ==
    /\ process # "killed" /\ joiner = "signalled" /\ MutexFree("joiner")
    /\ joiner' = IF driver = "RUNNING" THEN "waiting" ELSE "out"
    /\ UNCHANGED <<driver, own, timer, stack, process, notify, outgoing, link, sent, given, service, events>>

(* UrbExecutorProcess::sendStatusUpdate: TASK_STAGING aborts the driver,   *)
(* another state is captured under its uuid and sent.                      *)
Captured(u) == {v \in updates : v.uuid # u.uuid} \cup {u}
ProcessSendStatusUpdate(th, t, s) ==
    IF s = "STAGING"
    THEN DriverAbort /\ Push(th, "error") /\ UNCHANGED <<sent, updates, outgoing>>
    ELSE \E uuid \in {Cardinality(sent) + 1} \cup (IF Truncates THEN {0} ELSE {}) :
            LET u == [n |-> Cardinality(sent) + 1, task |-> t, state |-> s, uuid |-> uuid]
            IN /\ sent' = sent \cup {u}
               /\ updates' = Captured(u)
               /\ SendMesosMessage(Message("StatusUpdate", {t}, {u}))
               /\ UNCHANGED <<stack, driver, joiner, aborted>>

(* The executor reports on the tasks it was given.                         *)
SendStatusUpdate(th, t, s) ==
    /\ MayCall(th) /\ driver = "RUNNING"
    /\ t \in given /\ Cardinality(sent) < MaxUpdates
    /\ \A u \in sent : u.task = t => u.state = "RUNNING"
    /\ ProcessSendStatusUpdate(th, t, s)
    /\ UNCHANGED <<connected, tasks, timer, process, notify, link, given, service, events>>

(* ExecutorToFrameworkMessage: the driver's state does not depend on it.   *)
SendFrameworkMessage(th) ==
    /\ Counted /\ MayCall(th) /\ driver = "RUNNING"
    /\ UNCHANGED <<driver, joiner, own, timer, stack, process, notify, outgoing, link, sent, given, service>>

----------------------------------------------------------------------------
(* The event loop.                                                         *)
Idle == process # "killed" /\ stack["loop"] = <<>>

\* Seeded fault: a registration that cannot reach Redis is not tried again.
RegisterOnce ==
    /\ Idle /\ timer
    /\ timer' = FALSE
    /\ IF redis THEN conn' = TRUE /\ linked' = TRUE /\ outgoing' = Append(outgoing, Message("Register", {}, {}))
       ELSE UNCHANGED <<conn, linked, outgoing>>
    /\ UNCHANGED <<driver, joiner, own, stack, process, notify, redis, sent, given, service, events>>

(* The registration timer: setUrl connects, or throws and the timer is set *)
(* again.                                                                  *)
DoReliableRegistration ==
    /\ Idle /\ timer
    /\ \/ ~redis /\ UNCHANGED <<timer, conn, linked, outgoing>>
       \/ /\ redis /\ timer' = FALSE /\ conn' = TRUE /\ linked' = TRUE
          /\ outgoing' = Append(outgoing, Message("Register", {}, {}))
    /\ UNCHANGED <<driver, joiner, own, stack, process, notify, redis, sent, given, service, events>>

Unaffected == UNCHANGED <<connected, updates, tasks, given, outgoing>>

(* registered and reregistered.                                            *)
Registered(m) ==
    /\ m.type = "registered"
    /\ connected' = TRUE /\ Push("loop", "registered")
    /\ UNCHANGED <<updates, tasks, given, outgoing, process>>

Reregistered(m) ==
    /\ m.type = "reregistered"
    /\ connected' = TRUE /\ Push("loop", "reregistered")
    /\ UNCHANGED <<updates, tasks, given, outgoing, process>>

\* Seeded fault: the re-registration leaves out the unacknowledged updates.
ReconnectWithoutUpdates(m) ==
    /\ m.type \in {"reconnect", "serviceDisconnected"}
    /\ SendMesosMessage(Message("Reregister", tasks, {}))
    /\ UNCHANGED <<connected, updates, tasks, given, stack, process>>

\* Seeded fault: the re-registration leaves out the tasks.
ReconnectWithoutTasks(m) ==
    /\ m.type \in {"reconnect", "serviceDisconnected"}
    /\ SendMesosMessage(Message("Reregister", {}, updates))
    /\ UNCHANGED <<connected, updates, tasks, given, stack, process>>

\* Seeded fault: an update that was sent again counts as delivered.
ReconnectForgets(m) ==
    /\ m.type \in {"reconnect", "serviceDisconnected"}
    /\ SendMesosMessage(Message("Reregister", tasks, updates))
    /\ updates' = {}
    /\ UNCHANGED <<connected, tasks, given, stack, process>>

(* reconnect: all unacknowledged updates and all tasks.                    *)
Reconnect(m) ==
    /\ m.type \in {"reconnect", "serviceDisconnected"}
    /\ SendMesosMessage(Message("Reregister", tasks, updates))
    /\ UNCHANGED <<connected, updates, tasks, given, stack, process>>

(* runTask CHECKs that the task is new.                                    *)
RunTask(m) ==
    /\ m.type = "runTask"
    /\ IF connected
       THEN tasks' = tasks \cup m.tasks /\ given' = given \cup m.tasks /\ Push("loop", "runTask")
       ELSE UNCHANGED <<tasks, given, stack>>
    /\ UNCHANGED <<connected, updates, outgoing, process>>

KillTask(m) == m.type = "killTask" /\ Push("loop", "killTask") /\ Unaffected /\ UNCHANGED process

\* Seeded fault: the acknowledgement of any update erases the task.
AcknowledgementErases(m) ==
    /\ m.type = "acknowledge"
    /\ IF connected
       THEN /\ updates' = {u \in updates : u.uuid \notin {v.uuid : v \in m.updates}}
            /\ tasks' = tasks \ m.tasks
       ELSE UNCHANGED <<updates, tasks>>
    /\ UNCHANGED <<connected, given, outgoing, stack, process>>

\* Seeded fault: an acknowledgement of an unknown update leaves an empty one.
AcknowledgementInserts(m) ==
    /\ m.type = "acknowledge"
    /\ IF connected
       THEN LET uuids == {v.uuid : v \in m.updates}
                acked == {u \in updates : u.uuid \in uuids}
                empty == {[n |-> 0, task |-> u.task, state |-> "STAGING", uuid |-> u.uuid] :
                            u \in m.updates}
            IN updates' = IF acked = {} THEN updates \cup empty ELSE updates \ acked
       ELSE UNCHANGED updates
    /\ UNCHANGED <<connected, tasks, given, outgoing, stack, process>>

(* The task is erased with the acknowledgement of its TASK_FINISHED.       *)
StatusUpdateAcknowledgement(m) ==
    /\ m.type = "acknowledge"
    /\ IF connected
       THEN LET acked == {u \in updates : u.uuid \in {v.uuid : v \in m.updates}}
            IN /\ updates' = updates \ acked
               /\ tasks' = IF \E u \in acked : u.state = "FINISHED" THEN tasks \ m.tasks ELSE tasks
       ELSE UNCHANGED <<updates, tasks>>
    /\ UNCHANGED <<connected, given, outgoing, stack, process>>

FrameworkMessage(m) ==
    /\ m.type = "frameworkMessage"
    /\ IF connected THEN Push("loop", "frameworkMessage") ELSE UNCHANGED stack
    /\ Unaffected /\ UNCHANGED process

(* shutdown(): the fork of the process that kills this one, and the        *)
(* callback; ShutdownReturns is the rest.                                  *)
Shutdown(m) == m.type = "shutdown" /\ process' = "doomed" /\ Push("loop", "shutdown") /\ Unaffected

(* onInput.  Every handler ignores its message on an aborted driver.       *)
Handled(m) ==
    \/ Registered(m) \/ Reregistered(m) \/ Reconnect(m) \/ RunTask(m) \/ KillTask(m)
    \/ StatusUpdateAcknowledgement(m) \/ FrameworkMessage(m) \/ Shutdown(m)

OnInput ==
    /\ Idle /\ conn /\ notify # <<>>
    /\ notify' = Tail(notify)
    /\ IF aborted THEN Unaffected /\ UNCHANGED <<stack, process>> ELSE Handled(Head(notify))
    /\ UNCHANGED <<driver, joiner, aborted, timer, link, sent, service, events>>

Enter(th) ==
    /\ process # "killed" /\ stack[th] # <<>> /\ Top(th).at = "call"
    /\ stack' = [stack EXCEPT ![th] = Append(Front(@), [Top(th) EXCEPT !.at = "in"])]
    /\ UNCHANGED <<driver, joiner, own, timer, process, notify, outgoing, link, sent, given, service, events>>

Leaving(th) == process # "killed" /\ stack[th] # <<>> /\ Top(th).at = "in" /\ Pop(th)

Leave(th) ==
    /\ Leaving(th) /\ Top(th).type # "shutdown"
    /\ UNCHANGED <<driver, joiner, own, timer, process, notify, outgoing, link, sent, given, service, events>>

(* The rest of shutdown(): the broker is shut down, nothing more is        *)
(* accepted.                                                               *)
ShutdownReturns ==
    /\ Leaving("loop") /\ Top("loop").type = "shutdown"
    /\ aborted' = TRUE /\ conn' = FALSE
    /\ UNCHANGED <<driver, joiner, connected, updates, tasks, timer, process, notify, outgoing, redis, linked,
                   sent, given, service, events>>

(* A callback raises.  Every callback of the Java layer (JNIExecutor)      *)
(* attaches its thread, converts the arguments and calls the method; if    *)
(* that raised, the exception is printed and cleared, the thread detached  *)
(* and the driver aborted.  Those of the Python layer (ProxyExecutor) do   *)
(* the same under the interpreter's lock, but for error(), which prints    *)
(* and goes on.  The sets below are these callbacks, layer by layer.       *)
JniRegistrationCallbacks == {"registered", "reregistered"}
JniTaskCallbacks == {"runTask", "killTask"}
JniOtherCallbacks == {"frameworkMessage", "shutdown", "error"}
ProxyRegistrationCallbacks == {"registered", "reregistered"}
ProxyTaskCallbacks == {"runTask", "killTask"}
ProxyOtherCallbacks == {"frameworkMessage", "shutdown"}
Aborting == JniRegistrationCallbacks \cup JniTaskCallbacks \cup JniOtherCallbacks
            \cup ProxyRegistrationCallbacks \cup ProxyTaskCallbacks \cup ProxyOtherCallbacks

Raise(th) ==
    /\ Leaving(th) /\ MutexFree(th)
    /\ Top(th).type \in Aborting
    /\ driver = "RUNNING" /\ DriverAbort
    /\ conn' = (conn /\ Top(th).type # "shutdown")
    /\ UNCHANGED <<connected, updates, tasks, timer, process, notify, outgoing, redis, linked, sent, given,
                   service, events>>

(* The forked child: kill(masterPid, SIGKILL) after a second.              *)
Killed ==
    /\ process = "doomed"
    /\ process' = "killed"
    /\ UNCHANGED <<driver, joiner, own, timer, stack, notify, outgoing, link, sent, given, service, events>>

----------------------------------------------------------------------------
(* External: Redis and the connection to it.  onInput does not know the    *)
(* error of a lost connection, so it stays lost.                           *)
LoseLink ==
    /\ Counted /\ redis
    /\ conn' = FALSE /\ redis' = FALSE
    /\ UNCHANGED <<driver, joiner, own, timer, stack, process, notify, outgoing, linked, sent, given, service>>

RedisBack ==
    /\ ~redis
    /\ redis' = TRUE
    /\ UNCHANGED <<driver, joiner, own, timer, stack, process, notify, outgoing, conn, linked, sent, given,
                   service, events>>

(* External: the service.  It answers a registration, and forwards updates *)
(* to the framework, which acknowledges them in any order, or never.       *)
ServiceTakes ==
    /\ redis /\ outgoing # <<>>
    /\ outgoing' = Tail(outgoing)
    /\ LET m == Head(outgoing)
       IN /\ seen' = seen \cup m.updates
          /\ owed' = owed \cup m.updates
          /\ taskDict' = taskDict \cup (IF m.type = "Reregister" THEN m.tasks ELSE {})
          /\ notify' = CASE m.type = "Register" -> Append(notify, Message("registered", {}, {}))
                         [] m.type = "Reregister" -> Append(notify, Message("reregistered", {}, {}))
                         [] OTHER -> notify
    /\ UNCHANGED <<driver, joiner, own, timer, stack, process, link, sent, given, events>>

Acknowledges(u) ==
    /\ redis /\ u \in owed
    /\ owed' = owed \ {u}
    /\ notify' = Append(notify, Message("acknowledge", {u.task}, {u}))
    /\ UNCHANGED <<driver, joiner, own, timer, stack, process, outgoing, link, sent, seen, given, taskDict,
                   events>>

RunsTask(t) ==
    /\ redis /\ t \notin given /\ t \notin taskDict
    /\ connected
    /\ taskDict' = taskDict \cup {t}
    /\ notify' = Append(notify, Message("runTask", {t}, {}))
    /\ \A i \in DOMAIN notify : t \notin notify[i].tasks
    /\ UNCHANGED <<driver, joiner, own, timer, stack, process, outgoing, link, sent, seen, given, owed,
                   events>>

Volunteers ==
    /\ Counted /\ redis /\ connected
    /\ \E type \in {"killTask", "frameworkMessage", "shutdown", "reconnect"} :
            notify' = Append(notify, Message(type, {}, {}))
    /\ UNCHANGED <<driver, joiner, own, timer, stack, process, outgoing, link, sent, seen, given, owed,
                   taskDict>>

(* Another service takes over.                                             *)
FailsOver ==
    /\ Counted /\ redis
    /\ \/ outgoing' = outgoing
       \/ outgoing # <<>> /\ outgoing' = Tail(outgoing)
    /\ owed' = {} /\ taskDict' = {}
    /\ notify' = Append(notify, Message("serviceDisconnected", {}, {}))
    /\ UNCHANGED <<driver, joiner, own, timer, stack, process, link, sent, seen, given>>

----------------------------------------------------------------------------
Next ==
    \/ Start \/ Join \/ JoinWakes
    \/ \E th \in Threads :
        \/ Stop(th) \/ Abort(th) \/ SendFrameworkMessage(th)
        \/ \E t \in Tasks, s \in TaskStates : SendStatusUpdate(th, t, s)
        \/ Enter(th) \/ Leave(th) \/ Raise(th)
    \/ DoReliableRegistration \/ OnInput \/ ShutdownReturns \/ Killed
    \/ LoseLink \/ RedisBack
    \/ ServiceTakes \/ Volunteers \/ FailsOver
    \/ \E u \in owed : Acknowledges(u)
    \/ \E t \in Tasks : RunsTask(t)

(* The event loop runs, callbacks return, a killed process dies, Redis     *)
(* comes back and the service reads its list.                              *)
Fairness ==
    /\ \A th \in Threads : WF_vars(Enter(th) \/ Leave(th))
    /\ WF_vars(ShutdownReturns) /\ WF_vars(JoinWakes) /\ WF_vars(DoReliableRegistration)
    /\ WF_vars(OnInput) /\ WF_vars(Killed)
    /\ WF_vars(RedisBack) /\ WF_vars(ServiceTakes)

Spec == Init /\ [][Next]_vars /\ Fairness

----------------------------------------------------------------------------
(* The driver forgets a status update only when a service has read it, and *)
(* a task only when one has read that it finished, whatever messages were  *)
(* lost (sendStatusUpdate, statusUpdateAcknowledgement).                   *)
ForgottenWasSeen == \A u \in sent \ updates : u \in seen
ForgottenTaskFinished ==
    \A t \in given \ tasks : \E u \in seen : u.task = t /\ u.state = "FINISHED"

(* What only the executor knows is kept until a service knows it too.      *)
KeptUntilKnown == ForgottenWasSeen /\ ForgottenTaskFinished

(* Once the driver is aborted, registered or not, or told to shut down, no *)
(* callback is decided on but error, which reports the abort itself        *)
(* (abort, shutdown, onInput).                                             *)
Decided(th) == Len(stack'[th]) > Len(stack[th]) /\ Last(stack'[th]).type # "error"
NoCallbackAfterAbort == [][driver = "ABORTED" \/ process = "doomed" => \A th \in Threads : ~Decided(th)]_vars

Up == conn /\ ~aborted /\ process = "alive"

(* Every update reaches a service, though the one that had it in hand was  *)
(* replaced: the re-registration carries it again (reconnect).             *)
UpdatesDelivered == \A n \in 1..MaxUpdates :
    (\E u \in sent : u.n = n) ~> (~Up \/ \E u \in seen : u.n = n)

(* The service that took over learns of every task the executor runs.      *)
TasksRebuilt == \A t \in Tasks : (t \in tasks) ~> (~Up \/ t \in taskDict \/ t \notin tasks)

(* A driver that runs is registered once Redis can be reached, unless the  *)
(* connection is lost before the answer (doReliableRegistration).          *)
Registers ==
    (driver = "RUNNING") ~> (connected \/ aborted \/ (linked /\ ~conn) \/ driver # "RUNNING")

(* join() returns once the driver is stopped or aborted.                   *)
JoinReturns == (joiner # "out" /\ driver # "RUNNING") ~> (joiner = "out" \/ process = "killed")

(* Nobody waits for ever: not the executor for its registration, not the   *)
(* service for what only the executor knows, not a thread in join().       *)
EveryWaitEnds == Registers /\ UpdatesDelivered /\ TasksRebuilt /\ JoinReturns
=============================================================================
