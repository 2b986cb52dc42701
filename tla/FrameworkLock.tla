--------------------------- MODULE FrameworkLock ---------------------------
(***************************************************************************)
(* The per-framework lock of the broker service, and the tracker of        *)
(* frameworks it is looked up in                                           *)
(* (urb-core/source/python/urb/service/mesos_handler.py and                *)
(* urb-core/source/python/urb/utility/framework_tracker.py).               *)
(*                                                                         *)
(* One framework identifier is followed.  Each registration that does not  *)
(* find the identifier in the tracker makes a new framework record (a      *)
(* dictionary); a record carries its own RLock and a "lock_acquired" flag  *)
(* that is shared by all greenlets.  Four sorts of greenlets use a record: *)
(* one greenlet per incoming message (Handlers, each of which lives for    *)
(* one message), the offer loops, the job monitor and the channel monitor. *)
(* gevent switches greenlets only where one blocks or does I/O, so a step  *)
(* below is the code between two such points.                              *)
(***************************************************************************)
EXTENDS Naturals

CONSTANTS
    Handlers,        \* greenlets spawned for one message or HTTP call each
    OfferLoops,      \* greenlets that run an offer loop
    JobMonitor,      \* the greenlet of job_monitor.py
    ChannelMonitor,  \* the greenlet of channel_monitor.py
    Records,         \* the framework dictionaries that may be created
    NoRecord,        \* Python's None where a record is expected
    NoOne,           \* the owner of a free RLock
    HttpFramework,   \* the framework uses the HTTP API ("channel_name" is "http")
    DbActive,        \* a Mongo database is configured: its updates block
    IdReuse          \* the identifier may be registered again after a deletion

Greenlets == Handlers \cup OfferLoops \cup {JobMonitor, ChannelMonitor}

ASSUME GreenletsAssumption ==
    /\ Handlers \cap OfferLoops = {}
    /\ JobMonitor \notin Handlers \cup OfferLoops
    /\ ChannelMonitor \notin Handlers \cup OfferLoops \cup {JobMonitor}
    /\ NoOne \notin Greenlets

ASSUME RecordsAssumption == NoRecord \notin Records

ASSUME ModesAssumption ==
    /\ HttpFramework \in BOOLEAN
    /\ DbActive \in BOOLEAN
    /\ IdReuse \in BOOLEAN

VARIABLES
    pc,              \* where each greenlet is
    kind,            \* the code each greenlet runs
    rec,             \* its local variable "framework"
    owner,           \* owner of each record's RLock
    depth,           \* recursion count of each record's RLock
    lockAcquired,    \* framework['lock_acquired'] of each record
    known,           \* the records created so far
    active,          \* FrameworkTracker.object_dict at the identifier
    finished,        \* FrameworkTracker.finished_framework_dict at it
    taskDict,        \* the records that have a 'task_dict'
    deleteElements,  \* records whose slave_dict has a queued deletion
    scanBroken       \* slave_dict changed size under delete_job's iteration

lockVars == <<owner, depth, lockAcquired>>
trackerVars == <<known, active, finished>>
vars == <<pc, kind, rec, lockVars, trackerVars, taskDict, deleteElements, scanBroken>>

Kinds == {"none", "message", "register", "forward", "call", "unregister",
          "offer", "deleteJob", "deleteChannel"}
Places == {"idle", "acquire", "heartbeat", "scan", "held", "forwarding", "done"}

TypeOK ==
    /\ pc \in [Greenlets -> Places]
    /\ kind \in [Greenlets -> Kinds]
    /\ rec \in [Greenlets -> Records \cup {NoRecord}]
    /\ owner \in [Records -> Greenlets \cup {NoOne}]
    /\ depth \in [Records -> Nat]
    /\ lockAcquired \in [Records -> BOOLEAN]
    /\ known \subseteq Records
    /\ active \in known \cup {NoRecord}
    /\ finished \in known \cup {NoRecord}
    /\ taskDict \subseteq known
    /\ deleteElements \subseteq known
    /\ scanBroken \in BOOLEAN

Init ==
    /\ pc = [g \in Greenlets |-> IF g \in OfferLoops THEN "done" ELSE "idle"]
    /\ kind = [g \in Greenlets |-> "none"]
    /\ rec = [g \in Greenlets |-> NoRecord]
    /\ owner = [r \in Records |-> NoOne]
    /\ depth = [r \in Records |-> 0]
    /\ lockAcquired = [r \in Records |-> FALSE]
    /\ known = {}
    /\ active = NoRecord
    /\ finished = NoRecord
    /\ taskDict = {}
    /\ deleteElements = {}
    /\ scanBroken = FALSE

----------------------------------------------------------------------------
(* The lock.                                                               *)

\* Seeded fault: lock_acquired is set without waiting for the RLock.
AcquireWithoutWaiting(g, r) ==
    /\ owner' = [owner EXCEPT ![r] = g]
    /\ depth' = [depth EXCEPT ![r] = 1]
    /\ lockAcquired' = [lockAcquired EXCEPT ![r] = TRUE]

\* Seeded fault: lock_acquired is not set after the acquisition.
AcquireWithoutFlag(g, r) ==
    /\ owner[r] \in {NoOne, g}
    /\ owner' = [owner EXCEPT ![r] = g]
    /\ depth' = [depth EXCEPT ![r] = @ + 1]
    /\ UNCHANGED lockAcquired

(* __acquire_framework_lock with blocking=True: waits until the RLock is   *)
(* free or already belongs to the caller.                                  *)
AcquireFrameworkLock(g, r) ==
    /\ owner[r] \in {NoOne, g}
    /\ owner' = [owner EXCEPT ![r] = g]
    /\ depth' = [depth EXCEPT ![r] = @ + 1]
    /\ lockAcquired' = [lockAcquired EXCEPT ![r] = TRUE]

(* __release_framework_lock: nothing without a record or when the shared   *)
(* flag is down; otherwise the flag is cleared first and RLock.release     *)
(* raises RuntimeError when the caller does not own the lock.              *)
ReleaseFrameworkLock(g, r) ==
    IF r = NoRecord \/ (r \in Records /\ ~lockAcquired[r])
    THEN UNCHANGED lockVars
    ELSE /\ lockAcquired' = [lockAcquired EXCEPT ![r] = FALSE]
         /\ depth' = IF owner[r] = g THEN [depth EXCEPT ![r] = @ - 1] ELSE depth
         /\ owner' = IF owner[r] = g /\ depth[r] = 1
                     THEN [owner EXCEPT ![r] = NoOne] ELSE owner

(* FrameworkTracker.get_active_or_finished_framework.                      *)
ActiveOrFinished == IF active # NoRecord THEN active ELSE finished

Goto(g, place) == pc' = [pc EXCEPT ![g] = place]

Enter(g, k, r, place) ==
    /\ kind' = [kind EXCEPT ![g] = k]
    /\ rec' = [rec EXCEPT ![g] = r]
    /\ Goto(g, place)

(* The part of __target_postprocessor that empties __delete_elements: it   *)
(* deletes the keys queued by every greenlet.                              *)
ApplyDeleteElements ==
    /\ deleteElements' = {}
    /\ scanBroken' = (scanBroken \/ (pc[JobMonitor] = "scan" /\
                                     rec[JobMonitor] \in deleteElements))

(* __target_postprocessor of a request whose framework id was stored: the  *)
(* record is looked up again by id, whatever record the handler locked.    *)
Postprocess(g) ==
    /\ ReleaseFrameworkLock(g, ActiveOrFinished)
    /\ ApplyDeleteElements

----------------------------------------------------------------------------
(* Message handlers.                                                       *)

(* A handler that locks the framework named by its message (launch_tasks,  *)
(* kill_task, reconcile_tasks, revive_offers, status_update,               *)
(* status_update_acknowledgement, the three executor registrations, and    *)
(* the two forwarding handlers of a framework with a channel).  With no    *)
(* such framework the lock is not taken and the postprocessor still runs.  *)
StartMessage(g) ==
    /\ pc[g] = "idle"
    /\ IF active = NoRecord
       THEN Enter(g, "message", NoRecord, "done") /\ Postprocess(g)
       ELSE /\ Enter(g, "message", active, "acquire")
            /\ UNCHANGED <<lockVars, deleteElements, scanBroken>>
    /\ UNCHANGED <<trackerVars, taskDict>>

(* A message of another framework is of interest for its postprocessor.    *)
StartOther(g) ==
    /\ pc[g] = "idle"
    /\ Goto(g, "done")
    /\ ApplyDeleteElements
    /\ UNCHANGED <<kind, rec, lockVars, trackerVars, taskDict>>

(* process_registration: keeps the tracked record or puts a new one in the *)
(* tracker, and starts an offer loop for a record that has none.           *)
SpawnOfferLoop(g, r, k, place) ==
    \E l \in OfferLoops :
        /\ pc[l] = "done"
        /\ kind' = [kind EXCEPT ![g] = k, ![l] = "offer"]
        /\ rec' = [rec EXCEPT ![g] = r]
        /\ pc' = [pc EXCEPT ![g] = place, ![l] = "idle"]

ProcessRegistration(g, place) ==
    IF active # NoRecord
    THEN /\ Enter(g, "register", active, place)
         /\ UNCHANGED trackerVars
    ELSE \E r \in Records \ known :
            /\ known = {} \/ IdReuse
            /\ known' = known \cup {r}
            /\ active' = r
            /\ UNCHANGED finished
            /\ SpawnOfferLoop(g, r, "register", place)

(* register_framework and reregister_framework (then the lock is taken),   *)
(* http_subscribe (it is not).                                             *)
StartRegistration(g) ==
    /\ pc[g] = "idle"
    /\ ProcessRegistration(g, IF HttpFramework THEN "done" ELSE "acquire")
    /\ UNCHANGED <<lockVars, taskDict, deleteElements, scanBroken>>

(* executor_to_framework and framework_to_executor when the framework is   *)
(* an HTTP one: the lock is not taken, and gevent.sleep(0) yields.         *)
StartForward(g) ==
    /\ HttpFramework
    /\ pc[g] = "idle"
    /\ active # NoRecord
    /\ Enter(g, "forward", active, "forwarding")
    /\ UNCHANGED <<lockVars, trackerVars, taskDict, deleteElements, scanBroken>>

FinishForward(g) ==
    /\ pc[g] = "forwarding"
    /\ Goto(g, "done")
    /\ Postprocess(g)
    /\ UNCHANGED <<kind, rec, trackerVars, taskDict>>

(* http_kill, http_accept_launch, http_decline, http_reconcile,            *)
(* http_acknowledge, http_shutdown, http_subscribe_executor,               *)
(* http_update_executor: the lock is taken by the handler they call, and   *)
(* the record returned by it is released, without the postprocessor.       *)
StartCall(g) ==
    /\ HttpFramework
    /\ pc[g] = "idle"
    /\ active # NoRecord
    /\ Enter(g, "call", active, "acquire")
    /\ UNCHANGED <<lockVars, trackerVars, taskDict, deleteElements, scanBroken>>

(* unregister_framework up to the acquisition in __delete_framework.  No   *)
(* framework id is stored for this request, so its postprocessor releases  *)
(* nothing; http_teardown has no postprocessor.                            *)
PostprocessUnregister ==
    IF HttpFramework
    THEN UNCHANGED <<deleteElements, scanBroken>>
    ELSE ApplyDeleteElements

StartUnregister(g) ==
    /\ pc[g] = "idle"
    /\ IF active = NoRecord
       THEN Enter(g, "unregister", NoRecord, "done") /\ PostprocessUnregister
       ELSE /\ Enter(g, "unregister", active, "acquire")
            /\ UNCHANGED <<deleteElements, scanBroken>>
    /\ UNCHANGED <<lockVars, trackerVars, taskDict>>

(* launch_tasks creates framework['task_dict'] when there is none.         *)
LaunchTasks(g) ==
    /\ pc[g] = "held"
    /\ kind[g] \in {"message", "call"}
    /\ taskDict' = taskDict \cup {rec[g]}
    /\ taskDict' # taskDict
    /\ UNCHANGED <<pc, kind, rec, lockVars, trackerVars, deleteElements, scanBroken>>

(* The end of a locked message: response, then the postprocessor.          *)
FinishMessage(g) ==
    /\ pc[g] = "held"
    /\ kind[g] \in {"message", "register"}
    /\ Goto(g, "done")
    /\ Postprocess(g)
    /\ UNCHANGED <<kind, rec, trackerVars, taskDict>>

FinishCall(g) ==
    /\ pc[g] = "held"
    /\ kind[g] = "call"
    /\ Goto(g, "done")
    /\ ReleaseFrameworkLock(g, rec[g])
    /\ UNCHANGED <<kind, rec, trackerVars, taskDict, deleteElements, scanBroken>>

----------------------------------------------------------------------------
(* Deletion of the framework, by its own request or by the channel monitor *)
(* when its channel expired (delete_channel).                              *)

StartDeleteChannel ==
    /\ pc[ChannelMonitor] = "idle"
    /\ active # NoRecord
    /\ ~HttpFramework
    /\ Enter(ChannelMonitor, "deleteChannel", active, "acquire")
    /\ UNCHANGED <<lockVars, trackerVars, taskDict, deleteElements, scanBroken>>

(* The end of __delete_framework.  framework['task_dict'] raises KeyError  *)
(* for a record without tasks, before the tracker is updated; the lock is  *)
(* released by the finally clause either way.  FrameworkTracker.remove     *)
(* moves the record that is tracked now.                                   *)
DeleteFramework(g) ==
    /\ pc[g] = "held"
    /\ kind[g] \in {"unregister", "deleteChannel"}
    /\ IF rec[g] \in taskDict /\ active # NoRecord
       THEN active' = NoRecord /\ finished' = active
       ELSE UNCHANGED <<active, finished>>
    /\ ReleaseFrameworkLock(g, rec[g])
    /\ Goto(g, IF g = ChannelMonitor THEN "idle" ELSE "done")
    /\ IF kind[g] = "unregister"
       THEN PostprocessUnregister
       ELSE UNCHANGED <<deleteElements, scanBroken>>
    /\ UNCHANGED <<kind, rec, known, taskDict>>

----------------------------------------------------------------------------
(* The job monitor's delete_job.                                           *)

StartDeleteJob ==
    /\ pc[JobMonitor] = "idle"
    /\ ActiveOrFinished # NoRecord
    /\ Enter(JobMonitor, "deleteJob", ActiveOrFinished, "acquire")
    /\ UNCHANGED <<lockVars, trackerVars, taskDict, deleteElements, scanBroken>>

(* The loop over slave_dict queues the slaves of the job for deletion; it  *)
(* blocks in the database update of each slave.                            *)
ScanSlaves ==
    /\ pc[JobMonitor] = "scan"
    /\ ~scanBroken
    /\ Goto(JobMonitor, "held")
    /\ UNCHANGED <<kind, rec, lockVars, trackerVars, taskDict, deleteElements, scanBroken>>

(* "dictionary changed size during iteration": raised before the try whose *)
(* finally clause releases the lock.                                       *)
ScanFails ==
    /\ pc[JobMonitor] = "scan"
    /\ scanBroken
    /\ Goto(JobMonitor, "idle")
    /\ UNCHANGED <<kind, rec, lockVars, trackerVars, taskDict, deleteElements, scanBroken>>

FinishDeleteJob ==
    /\ pc[JobMonitor] = "held"
    /\ Goto(JobMonitor, "idle")
    /\ ReleaseFrameworkLock(JobMonitor, rec[JobMonitor])
    /\ UNCHANGED <<kind, rec, trackerVars, taskDict, deleteElements, scanBroken>>

----------------------------------------------------------------------------
(* The offer loops, __generate_offers and http_generate_offers.            *)

(* An iteration reads the tracker again; the loop ends with the framework. *)
StartOffer(l) ==
    /\ pc[l] = "idle"
    /\ IF active = NoRecord
       THEN Enter(l, "offer", NoRecord, "done")
       ELSE Enter(l, "offer", active, "acquire")
    /\ UNCHANGED <<lockVars, trackerVars, taskDict, deleteElements, scanBroken>>

(* http_generate_offers yields a heartbeat to the HTTP client while it     *)
(* holds the lock and outside the try that releases it.                    *)
ResumeAfterHeartbeat(l) ==
    /\ pc[l] = "heartbeat"
    /\ Goto(l, "held")
    /\ UNCHANGED <<kind, rec, lockVars, trackerVars, taskDict, deleteElements, scanBroken>>

(* The client closed the connection: the generator is closed at its yield. *)
ClosedAtHeartbeat(l) ==
    /\ pc[l] = "heartbeat"
    /\ Goto(l, "done")
    /\ UNCHANGED <<kind, rec, lockVars, trackerVars, taskDict, deleteElements, scanBroken>>

\* Seeded fault: the release is not in a finally clause.
FinishOfferWithoutFinally(l) ==
    /\ pc[l] = "held"
    /\ Goto(l, "idle")
    /\ ReleaseFrameworkLock(l, rec[l]) \/ UNCHANGED lockVars
    /\ UNCHANGED <<kind, rec, trackerVars, taskDict, deleteElements, scanBroken>>

FinishOffer(l) ==
    /\ pc[l] = "held"
    /\ Goto(l, "idle")
    /\ ReleaseFrameworkLock(l, rec[l])
    /\ UNCHANGED <<kind, rec, trackerVars, taskDict, deleteElements, scanBroken>>

----------------------------------------------------------------------------
(* Where a greenlet is once it owns the lock: delete_job blocks while it   *)
(* scans only when a database is configured.                               *)
PlaceAfterAcquire(g) ==
    CASE g \in OfferLoops /\ HttpFramework -> {"heartbeat", "held"}
      [] g = JobMonitor /\ DbActive        -> {"scan"}
      [] OTHER                             -> {"held"}

Acquire(g) ==
    /\ pc[g] = "acquire"
    /\ AcquireFrameworkLock(g, rec[g])
    /\ \E place \in PlaceAfterAcquire(g) : Goto(g, place)
    /\ IF g = JobMonitor
       THEN /\ deleteElements' = deleteElements \cup {rec[g]}
            /\ scanBroken' = FALSE
       ELSE UNCHANGED <<deleteElements, scanBroken>>
    /\ UNCHANGED <<kind, rec, trackerVars, taskDict>>

Handler(g) ==
    \/ StartMessage(g)
    \/ StartOther(g)
    \/ StartRegistration(g)
    \/ StartForward(g)
    \/ FinishForward(g)
    \/ StartCall(g)
    \/ StartUnregister(g)
    \/ LaunchTasks(g)
    \/ FinishMessage(g)
    \/ FinishCall(g)

OfferLoop(l) ==
    \/ StartOffer(l)
    \/ ResumeAfterHeartbeat(l)
    \/ ClosedAtHeartbeat(l)
    \/ FinishOffer(l)

JobMonitorStep == StartDeleteJob \/ ScanSlaves \/ ScanFails \/ FinishDeleteJob

Next ==
    \/ \E g \in Greenlets : Acquire(g)
    \/ \E g \in Handlers : Handler(g)
    \/ \E g \in Handlers \cup {ChannelMonitor} : DeleteFramework(g)
    \/ \E l \in OfferLoops : OfferLoop(l)
    \/ JobMonitorStep
    \/ StartDeleteChannel

(* What a greenlet does next on its own, once it need not wait.            *)
Proceed(g) ==
    \/ g \in Handlers /\ (FinishForward(g) \/ FinishMessage(g) \/ FinishCall(g))
    \/ g \in Handlers \cup {ChannelMonitor} /\ DeleteFramework(g)
    \/ g \in OfferLoops /\ (ResumeAfterHeartbeat(g) \/ FinishOffer(g))
    \/ g = JobMonitor /\ (ScanSlaves \/ ScanFails \/ FinishDeleteJob)

(* A greenlet that can run is run by the gevent hub sooner or later, and   *)
(* the RLock wakes its waiters in the order they came, so one that waits   *)
(* for a lock that keeps being released gets it.  No message has to come.  *)
Fairness == \A g \in Greenlets : SF_vars(Acquire(g)) /\ WF_vars(Proceed(g))

Spec == Init /\ [][Next]_vars /\ Fairness

----------------------------------------------------------------------------
(* Properties.                                                             *)

(* g runs code that the framework lock protects.                           *)
Inside(g) == pc[g] \in {"heartbeat", "scan", "held"}

(* Two greenlets never run the locked code of one framework record at the  *)
(* same time, whatever the shared lock_acquired flag says: the guarantee   *)
(* that __acquire_framework_lock is there to give.                         *)
MutualExclusion ==
    \A g, h \in Greenlets :
        Inside(g) /\ Inside(h) /\ rec[g] = rec[h] => g = h

(* As long as the framework is registered its lock is never stuck: the     *)
(* shared lock_acquired flag says exactly whether the RLock is taken, so   *)
(* the early return of __release_framework_lock skips no release that is   *)
(* due, and the owner is a greenlet that is still inside the locked code.  *)
ActiveLockDiscipline ==
    active # NoRecord =>
        /\ lockAcquired[active] <=> owner[active] # NoOne
        /\ owner[active] # NoOne =>
            /\ Inside(owner[active])
            /\ rec[owner[active]] = active
            /\ depth[active] = 1

(* No message waits for the lock of a registered framework, or works under *)
(* it, for ever: again and again all that came have been handled, or the   *)
(* framework was deleted before (a handler lives for one message).         *)
WaitersServed ==
    []<>(\A g \in Handlers : pc[g] \in {"acquire", "held"} => rec[g] # active)

=============================================================================
