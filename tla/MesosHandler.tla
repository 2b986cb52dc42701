---------------------------- MODULE MesosHandler ----------------------------
(***************************************************************************)
(* The tasks, slaves, offers and jobs of one framework in the broker       *)
(* service (urb-core/source/python/urb/service/mesos_handler.py), for a    *)
(* framework that brings an executor of its own.                           *)
(*                                                                         *)
(* Every handler runs under the framework's lock (module FrameworkLock)    *)
(* and is one step here, with the postprocessor that follows it and takes  *)
(* the queued deletions out of the dictionaries.  The job monitor deletes  *)
(* jobs without a postprocessor: its deletions wait for the next handler.  *)
(*                                                                         *)
(* A job of the cluster scheduler runs one executor runner; the slave id   *)
(* is made from the job id, so slaves are named by their jobs.  Every task *)
(* needs one unit of the resources of its slave, and every slave starts    *)
(* with Capacity of them; a slave's task_count is then Capacity - free.    *)
(* The framework, the runners and the executors are the environment.       *)
(***************************************************************************)
EXTENDS Integers, FiniteSets, Sequences, Functions

CONSTANTS
    Jobs, Tasks,
    Placeholder,      \* the slave of a speculative offer
    NoJob,
    Capacity,         \* resources of a slave (framework config)
    MaxTasks,         \* max_tasks
    MaxRejected,      \* max_rejected_offers
    SendTaskLost,     \* send_task_lost
    Undefined,        \* slave ids have the task id "undefined", as in plain UGE jobs
    FinalStates,      \* how a task ends on its executor
    MaxRevives,       \* calls of reviveOffers by the framework
    MaxRestarts       \* restarts and failovers of the service

ASSUME NamesAssumption == Placeholder \notin Jobs /\ NoJob \notin Jobs /\ NoJob # Placeholder
\* the tasks are finitely many: any set of them can be counted
ASSUME TasksAssumption == \A T \in SUBSET Tasks : IsFiniteSet(T) /\ Cardinality(T) \in Nat
ASSUME BoundsAssumption ==
    /\ Capacity \in Nat \ {0} /\ MaxTasks \in Nat /\ MaxRejected \in Nat
    /\ MaxRevives \in Nat /\ MaxRestarts \in Nat
    /\ SendTaskLost \in BOOLEAN /\ Undefined \in BOOLEAN
    /\ FinalStates \subseteq {"FINISHED", "FAILED", "ERROR"}

VARIABLES
    \* the record of the framework
    task,             \* task_dict: the state of a task, "none" without a record
    taskJob,          \* job_id of the record
    taskSlave,        \* slave_id of its task_info
    slaves,           \* slave_dict
    offerable, free, refused, executorChannel,   \* fields of a slave
    mapped,           \* jobs whose slave stands for a placeholder
    jobIds,           \* job_ids
    monitored,        \* the job tracker
    delTasks, delSlaves,  \* queued deletions, __delete_elements
    \* the framework
    outstanding,      \* offers it has not answered
    told,             \* states it was told of each task
    fresh,            \* tasks it has not launched yet
    \* the cluster: jobs, runners and executors
    job,              \* state of a job
    runnerTasks,      \* the runner's task tracker
    executor,         \* the runner's executor
    inbox,            \* messages to the executor
    executing,        \* tasks it executes
    execTasks, unacked, \* tasks_ and updates of its driver
    disconnected,     \* runners and executors told that the service is gone
    updates,          \* status updates on their way, oldest first
    revives, restarts

taskVars == <<task, taskJob, taskSlave>>
slaveVars == <<slaves, offerable, free, refused, executorChannel, mapped>>
jobVars == <<jobIds, monitored>>
delVars == <<delTasks, delSlaves>>
frameworkVars == <<outstanding, told, fresh>>
execVars == <<inbox, executing, execTasks, unacked, updates>>
clusterVars == <<job, runnerTasks, executor, disconnected>>
bounds == <<revives, restarts>>
vars == <<taskVars, slaveVars, jobVars, delVars, frameworkVars, execVars, clusterVars, bounds>>

Live == {"STAGING", "RUNNING"}
Terminal == {"FINISHED", "FAILED", "ERROR", "KILLED", "LOST"}
States == Live \cup Terminal
Offers == [place : Jobs \cup {Placeholder}, amount : Int,
           known : {"current", "superseded", "unknown"}]
Update == [task : Tasks, state : States, from : Jobs]
Message == [type : {"run", "kill"}, task : Tasks]

TypeOK ==
    /\ task \in [Tasks -> States \cup {"none"}]
    /\ taskJob \in [Tasks -> Jobs \cup {NoJob}]
    /\ taskSlave \in [Tasks -> Jobs \cup {Placeholder}]
    /\ slaves \subseteq Jobs /\ mapped \subseteq Jobs
    /\ offerable \in [Jobs -> BOOLEAN]
    /\ free \in [Jobs -> Int]
    /\ refused \in [Jobs -> 0..(MaxRejected + 1)]
    /\ executorChannel \in [Jobs -> BOOLEAN]
    /\ jobIds \subseteq Jobs /\ monitored \subseteq Jobs
    /\ delTasks \subseteq Tasks /\ delSlaves \subseteq Jobs
    /\ outstanding \subseteq Offers
    /\ told \in [Tasks -> SUBSET States]
    /\ fresh \subseteq Tasks
    /\ job \in [Jobs -> {"none", "pending", "running", "gone"}]
    /\ runnerTasks \in [Jobs -> SUBSET Tasks]
    /\ executor \in [Jobs -> {"none", "starting", "up"}]
    /\ inbox \in [Jobs -> Seq(Message)]
    /\ executing \in [Jobs -> SUBSET Tasks] /\ execTasks \in [Jobs -> SUBSET Tasks]
    /\ unacked \subseteq Update /\ updates \in [Jobs -> Seq(Update)]
    /\ disconnected \subseteq (Jobs \X {"runner", "executor"})
    /\ revives \in 0..MaxRevives /\ restarts \in 0..MaxRestarts

Init ==
    /\ task = [t \in Tasks |-> "none"]
    /\ slaves = {} /\ mapped = {} /\ jobIds = {} /\ monitored = {}
    /\ delTasks = {} /\ delSlaves = {}
    /\ taskJob = [t \in Tasks |-> NoJob]
    /\ taskSlave = [t \in Tasks |-> Placeholder]
    /\ offerable = [j \in Jobs |-> FALSE]
    /\ free = [j \in Jobs |-> 0]
    /\ refused = [j \in Jobs |-> 0]
    /\ executorChannel = [j \in Jobs |-> FALSE]
    /\ outstanding = {} /\ told = [t \in Tasks |-> {}] /\ fresh = Tasks
    /\ job = [j \in Jobs |-> "none"]
    /\ runnerTasks = [j \in Jobs |-> {}]
    /\ executor = [j \in Jobs |-> "none"]
    /\ inbox = [j \in Jobs |-> <<>>]
    /\ executing = [j \in Jobs |-> {}] /\ execTasks = [j \in Jobs |-> {}]
    /\ unacked = {} /\ updates = [j \in Jobs |-> <<>>] /\ disconnected = {}
    /\ revives = 0 /\ restarts = 0

----------------------------------------------------------------------------
(* __target_postprocessor, at the end of every handler of a message: the   *)
(* deletions queued by this handler and by earlier steps are made.         *)
Postprocess(newTask, newSlaves, queuedTasks, queuedSlaves) ==
    /\ task' = [t \in Tasks |->
                    IF t \in delTasks \cup queuedTasks THEN "none" ELSE newTask[t]]
    /\ slaves' = newSlaves \ (delSlaves \cup queuedSlaves)
    /\ delTasks' = {} /\ delSlaves' = {}

SetTasks(T, state) == [t \in Tasks |-> IF t \in T THEN state ELSE task[t]]
Tell(T, state) == told' = [t \in Tasks |-> IF t \in T THEN told[t] \cup {state} ELSE told[t]]

\* Seeded fault: tasks of other jobs are taken for those of this one.
StagedAnywhere(j) == {t \in Tasks : task[t] = "STAGING"}

Staged(j) == {t \in Tasks : task[t] = "STAGING" /\ taskJob[t] = j}

(* scale_up: one more job, unless the adapter refuses it.  The head room   *)
(* is computed from a key that the framework never has, so that max_tasks  *)
(* is no limit.                                                            *)
Submittable == {{}} \cup {{j} : j \in {i \in Jobs : job[i] = "none"}}

ScaleUp(N, started) ==
    /\ job' = [j \in Jobs |-> IF j \in N THEN "pending"
                              ELSE IF j \in started THEN "running" ELSE job[j]]
    /\ jobIds' = jobIds \cup N \cup started
    /\ monitored' = monitored \cup N \cup started

(* A LaunchTasks message reaches the runner, which starts the executor.    *)
(* It stops at the first task whose executor is running already, and does  *)
(* not track the ones after it.                                            *)
Tracked(j, T) ==
    LET n == IF executor[j] = "none" THEN 2 ELSE 1
    IN  {K \in SUBSET T : Cardinality(K) = n \/ (K = T /\ Cardinality(T) < n)}

ToRunner(j, T) ==
    /\ \E K \in Tracked(j, T) : runnerTasks' = [runnerTasks EXCEPT ![j] = @ \cup K]
    /\ executor' = [executor EXCEPT ![j] = IF @ = "none" /\ T # {} THEN "starting" ELSE @]

Requests(type, T) == {[type |-> type, task |-> t] : t \in T}

(* The tasks of a message are handled one after the other, in any order.   *)
ToExecutor(j, type, T) ==
    \E s \in Bijection(1 .. Cardinality(T), Requests(type, T)) :
        inbox' = [inbox EXCEPT ![j] = @ \o s]

(* The job of the runner leaves the cluster, and all that it runs.         *)
JobGone(j) ==
    /\ job' = [job EXCEPT ![j] = "gone"]
    /\ executor' = [executor EXCEPT ![j] = "none"]
    /\ inbox' = [inbox EXCEPT ![j] = <<>>]
    /\ executing' = [executing EXCEPT ![j] = {}]
    /\ execTasks' = [execTasks EXCEPT ![j] = {}]
    /\ unacked' = {u \in unacked : u.from # j}
    /\ disconnected' = {d \in disconnected : d[1] # j}
    /\ UNCHANGED <<updates, runnerTasks>>

----------------------------------------------------------------------------
(* __generate_offers_for_framework.  A slave that refused an offer is left *)
(* out until its time has come; a placeholder is offered when there is     *)
(* nothing else and no job is pending.                                     *)
Supersede(J) ==
    {[o EXCEPT !.known = IF @ = "current" /\ o.place \in J THEN "superseded" ELSE @] :
        o \in outstanding}

BuildOffers(S, built, disabled) ==
    /\ \A j \in slaves : offerable[j] /\ refused[j] = 0 => j \in S
    /\ \/ /\ built # {}
          /\ offerable' = [j \in Jobs |-> offerable[j] /\ j \notin disabled]
          /\ outstanding' = Supersede(built) \cup
                {[place |-> j, amount |-> free[j], known |-> "current"] : j \in built}
       \/ /\ built = {}
          /\ Cardinality(slaves) < MaxTasks
          /\ Cardinality(jobIds) <= Cardinality(slaves)
          /\ outstanding' = outstanding \cup
                {[place |-> Placeholder, amount |-> Capacity, known |-> "current"]}
          /\ UNCHANGED offerable
    /\ UNCHANGED <<taskVars, slaves, free, refused, executorChannel, mapped, jobVars,
                   delVars, told, fresh, execVars, clusterVars, bounds>>

\* Seeded fault: a slave is offered again while its offer is out.
GenerateAgain ==
    \E S \in SUBSET {j \in slaves : offerable[j]} :
        BuildOffers(S, {j \in S : free[j] # 0}, {})

GenerateOffers ==
    \E S \in SUBSET {j \in slaves : offerable[j]} :
        LET built == {j \in S : free[j] # 0} IN BuildOffers(S, built, built)

(* launch_tasks for one offer.  Several placeholder offers may be out at   *)
(* the same time.                                                          *)
Answer(o) ==
    /\ o \in outstanding
    /\ \/ outstanding' = outstanding \ {o}
       \/ o.place = Placeholder /\ UNCHANGED outstanding

Record(T, j, slave) ==
    /\ taskJob' = [t \in Tasks |-> IF t \in T THEN j ELSE taskJob[t]]
    /\ taskSlave' = [t \in Tasks |-> IF t \in T THEN slave ELSE taskSlave[t]]
    /\ fresh' = fresh \ T

(* On a placeholder a job is submitted for the tasks; those for which that *)
(* fails are lost, and all of them if the framework is configured so.      *)
LaunchAndSubmit(o, T, kept) ==
    /\ o.place = Placeholder
    /\ \E N \in Submittable, failed \in SUBSET T :
        LET lost == IF SendTaskLost THEN T ELSE failed
            j == IF N = {} THEN NoJob ELSE CHOOSE x \in N : TRUE
        IN  /\ (N = {}) <=> (failed = T)
            /\ ScaleUp(N, {})
            /\ Record(T, j, Placeholder)
            /\ Tell(lost, "LOST")
            /\ Postprocess(SetTasks(T, "STAGING"), slaves, lost \ kept, {})
    /\ UNCHANGED <<offerable, free, refused, executorChannel, mapped, execVars,
                   runnerTasks, executor, disconnected, bounds>>

\* Seeded fault: tasks that are reported lost keep their records.
LaunchKeepsLost(o, T) == LaunchAndSubmit(o, T, T)

LaunchOnPlaceholder(o, T) == LaunchAndSubmit(o, T, {})

(* A slave that is gone: the tasks stay as they were recorded.             *)
LaunchOnUnknown(o, T) ==
    /\ o.place \in Jobs \ slaves
    /\ Record(T, NoJob, o.place)
    /\ Postprocess(SetTasks(T, "STAGING"), slaves, {}, {})
    /\ UNCHANGED <<offerable, free, refused, executorChannel, mapped, jobVars, told,
                   execVars, clusterVars, bounds>>

(* A running slave.  An offer of this service that is not the slave's      *)
(* latest one counts as refused in the same message, and a slave with      *)
(* tasks, as it now has, that refuses is offered no more.                  *)
LaunchAndRun(o, T, debited, run) ==
    /\ Record(T, o.place, o.place)
    /\ free' = [free EXCEPT ![o.place] = @ - Cardinality(debited)]
    /\ offerable' = [offerable EXCEPT ![o.place] = o.known # "superseded"]
    /\ IF job[o.place] = "running"
       THEN ToRunner(o.place, T) /\ ToExecutor(o.place, "run", run)
       ELSE UNCHANGED <<runnerTasks, executor, inbox>>
    /\ Postprocess(SetTasks(T, "STAGING"), slaves, {}, {})
    /\ UNCHANGED <<refused, executorChannel, mapped, jobVars, told, executing, execTasks,
                   unacked, updates, job, disconnected, bounds>>

Runnable(j, T) == IF executorChannel[j] THEN T ELSE {}

\* Seeded fault: the resources of the launched tasks are not debited.
LaunchWithoutDebit(o, T) ==
    o.place \in slaves /\ LaunchAndRun(o, T, {}, Runnable(o.place, T))
\* Seeded fault: tasks are run before their executor has registered.
LaunchWithoutChannel(o, T) ==
    o.place \in slaves /\ LaunchAndRun(o, T, T, T)

(* The tasks are run at once if their executor has registered.             *)
LaunchOnSlave(o, T) ==
    o.place \in slaves /\ LaunchAndRun(o, T, T, Runnable(o.place, T))

LaunchTasks(o, T) ==
    /\ T # {} /\ Cardinality(T) <= o.amount
    /\ Answer(o)
    /\ LaunchOnPlaceholder(o, T) \/ LaunchOnUnknown(o, T) \/ LaunchOnSlave(o, T)

(* launch_tasks without tasks, __process_remaining_offers: the offer is    *)
(* refused, and the runner shut down after too many of them.               *)
RefuseWithTasks(j) ==
    /\ Capacity - free[j] > 0
    /\ offerable' = [offerable EXCEPT ![j] = FALSE]
    /\ Postprocess(task, slaves, {}, {})
    /\ UNCHANGED <<refused, mapped, execVars, clusterVars>>

\* Seeded fault: the runner is never shut down.
RefuseForever(j) ==
    /\ Capacity - free[j] <= 0
    /\ refused' = [refused EXCEPT ![j] = @ + 1]
    /\ offerable' = [offerable EXCEPT ![j] = TRUE]
    /\ Postprocess(task, slaves, {}, {})
    /\ UNCHANGED <<mapped, execVars, clusterVars>>

RefuseIdle(j) ==
    /\ Capacity - free[j] <= 0
    /\ refused' = [refused EXCEPT ![j] = @ + 1]
    /\ IF refused[j] < MaxRejected
       THEN /\ offerable' = [offerable EXCEPT ![j] = TRUE]
            /\ Postprocess(task, slaves, {}, {})
            /\ UNCHANGED <<mapped, execVars, clusterVars>>
       ELSE /\ offerable' = [offerable EXCEPT ![j] = FALSE]
            /\ mapped' = mapped \ {j}
            /\ Postprocess(task, slaves, {}, {j})
            /\ JobGone(j)

DeclineOffer(o) ==
    /\ Answer(o)
    /\ \/ /\ o.place \in slaves /\ o.known # "unknown"
          /\ RefuseWithTasks(o.place) \/ RefuseIdle(o.place)
       \/ /\ o.place \notin slaves \/ o.known = "unknown"
          /\ Postprocess(task, slaves, {}, {})
          /\ UNCHANGED <<offerable, refused, mapped, execVars, clusterVars>>
    /\ UNCHANGED <<taskJob, taskSlave, free, executorChannel, jobVars, told, fresh, bounds>>

(* revive_offers: every slave may be offered again.                        *)
ReviveOffers ==
    /\ revives < MaxRevives
    /\ revives' = revives + 1
    /\ offerable' = [j \in Jobs |-> j \in slaves \/ offerable[j]]
    /\ Postprocess(task, slaves, {}, {})
    /\ UNCHANGED <<taskJob, taskSlave, free, refused, executorChannel, mapped, jobVars,
                   frameworkVars, execVars, clusterVars, restarts>>

----------------------------------------------------------------------------
(* __kill_task.  The slave is that of the task, or the one that stands for *)
(* the task's placeholder.                                                 *)
SlaveOf(t) ==
    IF taskSlave[t] \in slaves THEN taskSlave[t]
    ELSE IF taskSlave[t] = Placeholder /\ taskJob[t] \in mapped \cap slaves
    THEN taskJob[t] ELSE NoJob

(* With a slave its resources are credited and the executor is told.       *)
(* Without a channel to the executor the request is queued for a retry,    *)
(* which finds the task unknown and does nothing.                          *)
KillOnSlave(t, j) ==
    /\ j # NoJob
    /\ free' = [free EXCEPT ![j] = @ + 1]
    /\ IF executorChannel[j] /\ executor[j] = "up"
       THEN ToExecutor(j, "kill", {t}) ELSE UNCHANGED inbox
    /\ UNCHANGED <<executing, execTasks, unacked, updates, clusterVars>>

(* Without one the job of the task is deleted.                             *)
KillWithoutSlave(t, j) ==
    /\ j = NoJob
    /\ IF taskJob[t] = NoJob THEN UNCHANGED <<execVars, clusterVars>> ELSE JobGone(taskJob[t])
    /\ UNCHANGED free

KillAndDelete(t, deleted) ==
    /\ t \notin fresh
    /\ task[t] # "none"
    /\ KillOnSlave(t, SlaveOf(t)) \/ KillWithoutSlave(t, SlaveOf(t))
    /\ Tell({t}, "KILLED")
    /\ Postprocess(task, slaves, deleted, {})
    /\ UNCHANGED <<taskJob, taskSlave, offerable, refused, executorChannel, mapped, jobVars,
                   outstanding, fresh, bounds>>

\* Seeded fault: a killed task keeps its record.
KillWithoutDelete(t) == KillAndDelete(t, {})

KillTask(t) == KillAndDelete(t, {t})

(* A message that touches nothing of this framework (to kill an unknown    *)
(* task, for another framework): its postprocessor makes the deletions.    *)
OtherMessage ==
    /\ delTasks # {} \/ delSlaves # {}
    /\ Postprocess(task, slaves, {}, {})
    /\ UNCHANGED <<taskJob, taskSlave, offerable, free, refused, executorChannel, mapped, jobVars,
                   frameworkVars, execVars, clusterVars, bounds>>

----------------------------------------------------------------------------
(* register_executor_runner: a new slave, or a new record of an old one.   *)
NewSlave(j, may, amount) ==
    /\ offerable' = [offerable EXCEPT ![j] = may]
    /\ free' = [free EXCEPT ![j] = amount]
    /\ refused' = [refused EXCEPT ![j] = 0]
    /\ executorChannel' = [executorChannel EXCEPT ![j] = FALSE]
    /\ outstanding' = Supersede({j})

(* Without tasks of its own the runner gets those waiting for its job.     *)
RegisterForWaiting(j) ==
    LET waiting == {t \in Staged(j) : taskSlave[t] = Placeholder}
    IN  /\ NewSlave(j, TRUE, Capacity - Cardinality(Staged(j)))
        /\ mapped' = mapped \cup (IF waiting = {} THEN {} ELSE {j})
        /\ ToRunner(j, waiting)
        /\ \E N \in Submittable : (waiting = {} => N = {}) /\ ScaleUp(N, {j})
        /\ Postprocess(task, slaves \cup {j}, {}, {})
        /\ UNCHANGED <<taskJob>>

(* With tasks it is one that comes back: they are recorded as running.     *)
RegisterWithTasks(j) ==
    /\ NewSlave(j, FALSE, Capacity - Cardinality(runnerTasks[j]))
    /\ taskJob' = [t \in Tasks |-> IF t \in runnerTasks[j] THEN j ELSE taskJob[t]]
    /\ ScaleUp({}, {j})
    /\ Postprocess(SetTasks(runnerTasks[j], "RUNNING"), slaves \cup {j}, {}, {})
    /\ UNCHANGED <<mapped, runnerTasks, executor>>

RegisterExecutorRunner(j) ==
    /\ job[j] = "pending"
    /\ RegisterForWaiting(j)
    /\ UNCHANGED <<taskSlave, told, fresh, execVars, disconnected, bounds>>

(* service_disconnected in the runner, which registers again.              *)
ReregisterRunner(j) ==
    /\ <<j, "runner">> \in disconnected
    /\ disconnected' = disconnected \ {<<j, "runner">>}
    /\ IF runnerTasks[j] = {} THEN RegisterForWaiting(j) ELSE RegisterWithTasks(j)
    /\ UNCHANGED <<taskSlave, told, fresh, execVars, bounds>>

(* register_executor: tasks that wait for this slave are run.  While its   *)
(* slave is unknown the message is retried.                                *)
RegisterExecutor(j) ==
    /\ executor[j] = "starting"
    /\ j \in slaves
    /\ executorChannel' = [executorChannel EXCEPT ![j] = TRUE]
    /\ executor' = [executor EXCEPT ![j] = "up"]
    /\ ToExecutor(j, "run", Staged(j))
    /\ \E N \in Submittable : ScaleUp(N, {})
    /\ Postprocess(task, slaves, {}, {})
    /\ UNCHANGED <<taskJob, taskSlave, offerable, free, refused, mapped, frameworkVars,
                   executing, execTasks, unacked, updates, runnerTasks, disconnected, bounds>>

(* reregister_executor: the tasks of the executor's driver are recorded    *)
(* and debited, then its unacknowledged updates are handled, the running   *)
(* ones first.                                                             *)
LastState(us, t) ==
    IF \E u \in us : u.task = t /\ u.state # "RUNNING"
    THEN (CHOOSE u \in us : u.task = t /\ u.state # "RUNNING").state ELSE "RUNNING"

RestoreTasks(j) ==
    LET mine == {u \in unacked : u.from = j}
        known == execTasks[j] \cup {t \in Tasks : task[t] # "none"}
        ended == {t \in known : \E u \in mine : u.task = t /\ u.state \in {"FINISHED", "FAILED"}}
        seen == execTasks[j] \cup {t \in known : \E u \in mine : u.task = t}
    IN  /\ executorChannel' = [executorChannel EXCEPT ![j] = TRUE]
        /\ offerable' = [offerable EXCEPT ![j] = TRUE]
        /\ free' = [free EXCEPT ![j] = @ - Cardinality(execTasks[j]) + Cardinality(ended)]
        /\ taskJob' = [t \in Tasks |-> IF t \in execTasks[j] THEN j ELSE taskJob[t]]
        /\ told' = [t \in Tasks |-> told[t] \cup {u.state : u \in {x \in mine : x.task = t}}]
        /\ Postprocess([t \in Tasks |-> IF t \in seen THEN LastState(mine, t) ELSE task[t]],
                       slaves, ended, {})

(* An executor whose slave is not known is ignored.                        *)
ReregisterExecutor(j) ==
    /\ <<j, "executor">> \in disconnected
    /\ disconnected' = disconnected \ {<<j, "executor">>}
    /\ \/ j \in slaves /\ RestoreTasks(j)
       \/ /\ j \notin slaves
          /\ Postprocess(task, slaves, {}, {})
          /\ UNCHANGED <<executorChannel, offerable, free, taskJob, told>>
    /\ UNCHANGED <<taskSlave, refused, mapped, jobVars, outstanding, fresh, execVars,
                   job, runnerTasks, executor, bounds>>

(* handle_status_update: a task that finished or failed gives its          *)
(* resources back and loses its record.                                    *)

CreditedBy(u) ==
    task[u.task] # "none" /\ u.from \in slaves /\ u.state \in {"FINISHED", "FAILED"}

HandleStatusUpdate(j, recorded) ==
    /\ updates[j] # <<>>
    /\ LET u == Head(updates[j])
       IN  /\ updates' = [updates EXCEPT ![j] = Tail(@)]
           /\ Tell({u.task}, u.state)
           /\ free' = IF CreditedBy(u) THEN [free EXCEPT ![j] = @ + 1] ELSE free
           /\ Postprocess(SetTasks({u.task} \cap recorded, u.state),
                          slaves, IF CreditedBy(u) THEN {u.task} ELSE {}, {})
    /\ UNCHANGED <<taskJob, taskSlave, offerable, refused, executorChannel, mapped, jobVars,
                   outstanding, fresh, inbox, executing, execTasks, unacked, clusterVars, bounds>>

\* Seeded fault: the state of a task is recorded although it has no record.
StatusUpdateOfAny(j) == HandleStatusUpdate(j, Tasks)

StatusUpdate(j) == HandleStatusUpdate(j, {t \in Tasks : task[t] # "none"})

(* status_update_acknowledgement passes the framework's answer on to the   *)
(* executor, whose driver forgets the update and a task that finished.     *)
StatusUpdateAcknowledgement(u) ==
    /\ u \in unacked
    /\ u.state \in told[u.task]
    /\ u.from \in slaves /\ executorChannel[u.from]
    /\ unacked' = unacked \ {u}
    /\ execTasks' = [execTasks EXCEPT ![u.from] = IF u.state = "FINISHED" THEN @ \ {u.task} ELSE @]
    /\ Postprocess(task, slaves, {}, {})
    /\ UNCHANGED <<taskJob, taskSlave, offerable, free, refused, executorChannel, mapped, jobVars,
                   frameworkVars, inbox, executing, updates, clusterVars, bounds>>

----------------------------------------------------------------------------
(* The job monitor finds that a job has left the cluster: delete_job.  Its *)
(* slave is found by an id with the task id "undefined"; the deletions     *)
(* wait for a postprocessor.                                               *)
DeleteSlavesAndTasks(j, mine, lost, reported) ==
    /\ j \in monitored /\ job[j] = "gone"
    /\ monitored' = monitored \ {j}
    /\ jobIds' = jobIds \ {j}
    /\ delSlaves' = delSlaves \cup mine
    /\ offerable' = [i \in Jobs |-> offerable[i] /\ i \notin mine]
    /\ mapped' = mapped \ mine
    /\ task' = SetTasks(lost, "LOST")
    /\ delTasks' = delTasks \cup lost
    /\ Tell(reported, "LOST")
    /\ UNCHANGED <<taskJob, taskSlave, slaves, free, refused, executorChannel, outstanding,
                   fresh, execVars, clusterVars, bounds>>

SlavesOf(j) == IF Undefined THEN slaves \cap {j} ELSE {}
TasksOf(j) == {t \in Tasks : task[t] # "none" /\ taskJob[t] = j}

\* Seeded fault: the loss of the tasks is not reported.
DeleteJobSilently(j) == DeleteSlavesAndTasks(j, SlavesOf(j), TasksOf(j), {})
\* Seeded fault: the slaves of the job are left.
DeleteJobOnly(j) == DeleteSlavesAndTasks(j, {}, TasksOf(j), TasksOf(j))

DeleteJob(j) == DeleteSlavesAndTasks(j, SlavesOf(j), TasksOf(j), TasksOf(j))

(* validate_channel, on the heartbeat of a runner or an executor that the  *)
(* service does not know.                                                  *)
ValidateChannel(j) ==
    LET unknown ==
            (IF job[j] = "running" /\ j \notin slaves THEN {<<j, "runner">>} ELSE {}) \cup
            (IF executor[j] = "up" /\ (j \notin slaves \/ ~executorChannel[j])
             THEN {<<j, "executor">>} ELSE {})
    IN  /\ ~(unknown \subseteq disconnected)
        /\ disconnected' = disconnected \cup unknown
        /\ UNCHANGED <<taskVars, slaveVars, jobVars, delVars, frameworkVars, execVars,
                       job, runnerTasks, executor, bounds>>

(* The service is replaced by another that knows nothing of the tasks, and *)
(* tells those that the service is gone whose channels hold messages.  The *)
(* framework registers again before anything else is handled.              *)
Restart ==
    /\ restarts < MaxRestarts
    /\ restarts' = restarts + 1
    /\ task' = [t \in Tasks |-> "none"]
    /\ slaves' = {} /\ mapped' = {} /\ jobIds' = {} /\ monitored' = {}
    /\ delTasks' = {} /\ delSlaves' = {}
    /\ offerable' = [j \in Jobs |-> FALSE]
    /\ free' = [j \in Jobs |-> 0]
    /\ refused' = [j \in Jobs |-> 0]
    /\ executorChannel' = [j \in Jobs |-> FALSE]
    /\ outstanding' = {[o EXCEPT !.known = "unknown"] : o \in outstanding}
    /\ \E D \in SUBSET ({j \in Jobs : job[j] = "running"} \X {"runner"}
                         \cup {j \in Jobs : executor[j] = "up"} \X {"executor"}) :
            disconnected' = disconnected \cup D
    /\ UNCHANGED <<taskJob, taskSlave, told, fresh, execVars, job, runnerTasks, executor,
                   revives>>

----------------------------------------------------------------------------
(* The executor and its driver: it runs and kills the tasks it is asked    *)
(* to, and tasks end on their own.  The driver aborts on a second request  *)
(* to run a task (see RunOnce).                                            *)
Report(j, t, state) ==
    LET u == [task |-> t, state |-> state, from |-> j]
    IN  /\ updates' = [updates EXCEPT ![j] = Append(@, u)]
        /\ unacked' = unacked \cup {u}

ExecRun(j, t) ==
    /\ Head(inbox[j]) = [type |-> "run", task |-> t]
    /\ t \notin execTasks[j]
    /\ executing' = [executing EXCEPT ![j] = @ \cup {t}]
    /\ execTasks' = [execTasks EXCEPT ![j] = @ \cup {t}]
    /\ Report(j, t, "RUNNING")

ExecKill(j, t) ==
    /\ Head(inbox[j]) = [type |-> "kill", task |-> t]
    /\ executing' = [executing EXCEPT ![j] = @ \ {t}]
    /\ IF t \in executing[j] THEN Report(j, t, "KILLED") ELSE UNCHANGED <<updates, unacked>>
    /\ UNCHANGED execTasks

ExecMessage(j) ==
    /\ executor[j] = "up"
    /\ inbox[j] # <<>>
    /\ inbox' = [inbox EXCEPT ![j] = Tail(@)]
    /\ \E t \in Tasks : ExecRun(j, t) \/ ExecKill(j, t)
    /\ UNCHANGED <<taskVars, slaveVars, jobVars, delVars, frameworkVars, clusterVars, bounds>>

ExecEnd(j, t, state) ==
    /\ t \in executing[j]
    /\ executing' = [executing EXCEPT ![j] = @ \ {t}]
    /\ Report(j, t, state)
    /\ UNCHANGED <<taskVars, slaveVars, jobVars, delVars, frameworkVars, clusterVars, inbox,
                   execTasks, bounds>>

(* A job ends: its time is over, its host fails, or somebody deletes it.   *)
JobEnds(j) ==
    /\ job[j] \in {"pending", "running"}
    /\ JobGone(j)
    /\ UNCHANGED <<taskVars, slaveVars, jobVars, delVars, frameworkVars, bounds>>

----------------------------------------------------------------------------
Framework ==
    \/ \E o \in outstanding : DeclineOffer(o) \/ \E T \in SUBSET fresh : LaunchTasks(o, T)
    \/ ReviveOffers
    \/ \E t \in Tasks : KillTask(t)
    \/ \E u \in unacked : StatusUpdateAcknowledgement(u)

Cluster(j) ==
    \/ RegisterExecutorRunner(j) \/ ReregisterRunner(j)
    \/ RegisterExecutor(j) \/ ReregisterExecutor(j)
    \/ StatusUpdate(j) \/ ExecMessage(j) \/ JobEnds(j)
    \/ \E t \in Tasks, state \in FinalStates : ExecEnd(j, t, state)

Monitors(j) == DeleteJob(j) \/ ValidateChannel(j)

Next ==
    \/ GenerateOffers \/ Framework \/ OtherMessage \/ Restart
    \/ \E j \in Jobs : Cluster(j) \/ Monitors(j)

(* The greenlets of the service run forever: the offers loop, the monitors *)
(* and the listener that handles the messages which have arrived.          *)
Fairness ==
    /\ WF_vars(GenerateOffers)
    /\ \A j \in Jobs : WF_vars(DeleteJob(j)) /\ WF_vars(ValidateChannel(j)) /\ WF_vars(StatusUpdate(j))

Spec == Init /\ [][Next]_vars /\ Fairness

----------------------------------------------------------------------------
Queued(j, type, t) == \E i \in DOMAIN inbox[j] : inbox[j][i] = [type |-> type, task |-> t]
Running(j) == j \in slaves /\ job[j] = "running"
On(j) == {t \in Tasks \ delTasks : task[t] \in Live /\ taskJob[t] = j}

(* No slave is given more tasks than it has resources for: an offer        *)
(* promises what is free, and nobody else uses it up before the framework  *)
(* answers (__build_offer, __debit_resources), as long as it has not made  *)
(* slaves offerable whose offers are out (revive_offers).                  *)
NoOvercommit == revives = 0 => \A j \in slaves : free[j] >= 0

(* The resources of a running slave are those of its configuration less    *)
(* the ones of the tasks recorded for it: every launch is debited once and *)
(* every end credited once, whichever of kill, status update, job monitor  *)
(* and registration comes first.                                           *)
TasksAccounted == \A j \in Jobs : Running(j) => free[j] = Capacity - Cardinality(On(j))

(* Once the framework has been told that a task is killed, no executor     *)
(* runs it or is about to without a request to kill it on the way          *)
(* (__kill_task, send_kill_task).                                          *)
KillReaches ==
    \A t \in Tasks, j \in Jobs :
        "KILLED" \in told[t] /\ (t \in executing[j] \/ Queued(j, "run", t)) => Queued(j, "kill", t)

(* An executor is never asked twice to run a task, neither at its          *)
(* registration nor by a launch: its driver checks that and aborts         *)
(* (UrbExecutorProcess::runTask).                                          *)
RunOnce ==
    \A j \in Jobs : \A i \in DOMAIN inbox[j] :
        inbox[j][i].type = "run" =>
            /\ inbox[j][i].task \notin execTasks[j]
            /\ \A k \in DOMAIN inbox[j] : inbox[j][k] = inbox[j][i] => k = i

(* No task is executed in two jobs, although a placeholder stands for no   *)
(* particular job and runners ask for the tasks of their job themselves.   *)
ExecutedOnce ==
    \A t \in Tasks, i, j \in Jobs :
        (t \in executing[i] \/ Queued(i, "run", t)) /\ (t \in executing[j] \/ Queued(j, "run", t))
            => i = j

(* A task runs in one place and once.                                      *)
RunsInOnePlace == RunOnce /\ ExecutedOnce

(* A task of which the framework was told that it ended is not sent to an  *)
(* executor afterwards (register_executor, launch_tasks).                  *)
NoRunAfterEnd ==
    [][\A t \in Tasks, j \in Jobs :
          Queued(j, "run", t)' /\ ~Queued(j, "run", t) => told[t] \cap Terminal = {}]_vars

(* A task of which the framework was told that it ended is not recorded as *)
(* live again (register_executor_runner, reregister_executor).             *)
NoResurrection ==
    [][\A t \in Tasks : told[t] \cap Terminal # {} /\ task[t] \notin Live => task'[t] \notin Live]_vars

(* What the framework was told to have ended stays so.                     *)
EndIsFinal == NoRunAfterEnd /\ NoResurrection

(* The end of a job that is monitored is reported for each of its tasks    *)
(* (delete_job).                                                           *)
LossReported ==
    \A t \in Tasks, j \in Jobs :
        (task[t] \in Live /\ taskJob[t] = j /\ j \in monitored /\ job[j] = "gone")
            ~> (told[t] \cap Terminal # {})

(* The slave of a job that is gone is not kept: delete_job removes it or   *)
(* queues it for the next postprocessor.                                   *)
SlaveCleanedUp ==
    \A j \in Jobs : (j \in slaves /\ job[j] = "gone") ~> (j \notin slaves \/ j \in delSlaves)

(* What follows the end of a job: its tasks are reported and its slave is  *)
(* taken away.                                                             *)
JobEndFollowedUp == LossReported /\ SlaveCleanedUp

=============================================================================
