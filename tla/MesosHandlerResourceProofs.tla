--------------------- MODULE MesosHandlerResourceProofs ---------------------
(***************************************************************************)
(* Proofs about the resources of MesosHandler as long as the service is    *)
(* neither restarted nor replaced (MaxRestarts = 0), for every other       *)
(* setting: the resources of a slave are accounted for, and no slave is    *)
(* overcommitted.  Accounts, Fits and Promises are kept by every step      *)
(* together with SteadyInv of MesosHandlerProofs, which says where tasks   *)
(* are; what the sets of tasks of a slave count is the library's.          *)
(***************************************************************************)
EXTENDS MesosHandlerProofs, FiniteSetTheorems

USE DEF taskVars, slaveVars, jobVars, delVars, frameworkVars, execVars, clusterVars, bounds

(* What is free on a slave is what its recorded tasks leave, and those are *)
(* live.                                                                   *)
AccountOf(j) ==
    /\ \A t \in Tasks : taskJob[t] = j => task[t] \in Live \cup {"none"}
    /\ free[j] = Capacity - Cardinality(TasksOf(j))

(* This is so for every running job.                                       *)
Accounts == \A j \in Jobs : job[j] = "running" => AccountOf(j)

(* Every step keeps the accounts, if tasks end as finished or failed. A    *)
(* task that ends with TASK_ERROR keeps its record and its resources       *)
(* (handle_status_update).                                                 *)
LEMMA AccountsStep ==
    MaxRestarts = 0 /\ "ERROR" \notin FinalStates /\ TasksInv /\ Connected /\ Waiting
    /\ OffersOf /\ Place /\ Killed /\ Accounts /\ [Next]_vars
        => Accounts'
(* The tasks recorded for a job can be counted, before and after a step.   *)
<1>TasksOfCount.
      ASSUME NEW j
      PROVE  /\ IsFiniteSet(TasksOf(j)) /\ Cardinality(TasksOf(j)) \in Nat
             /\ IsFiniteSet(TasksOf(j)') /\ Cardinality(TasksOf(j)') \in Nat
  <2> USE <1>TasksOfCount
  <2>1. TasksOf(j) \in SUBSET Tasks /\ TasksOf(j)' \in SUBSET Tasks
    BY Zenon DEF TasksOf
  <2> QED BY <2>1, TasksAssumption, Zenon
(* The account is right after a step that neither adds nor removes tasks.  *)
<1>AccountKept.
      ASSUME NEW j, AccountOf(j), free'[j] = free[j],
             \A t \in Tasks : taskJob'[t] = j <=> taskJob[t] = j,
             \A t \in Tasks : taskJob[t] = j => task'[t] = task[t] \/ (task[t] # "none" /\ task'[t] = "RUNNING")
      PROVE  AccountOf(j)'
  <2> USE <1>AccountKept
  <2>1. TasksOf(j)' = TasksOf(j)
    BY Zenon DEF TasksOf
  <2> QED BY <2>1, Zenon DEF AccountOf, Live
(* It is right when a task is removed and one unit credited.               *)
<1>AccountEnds.
      ASSUME Typing, NEW j \in Jobs, AccountOf(j), NEW t \in TasksOf(j), free'[j] = free[j] + 1,
             UNCHANGED taskJob, task'[t] = "none", \A x \in Tasks \ {t} : taskJob[x] = j => task'[x] = task[x]
      PROVE  AccountOf(j)'
  <2> USE <1>AccountEnds
  <2>1. TasksOf(j)' = TasksOf(j) \ {t}
    BY Zenon DEF TasksOf
  <2>2. Cardinality(TasksOf(j)') = Cardinality(TasksOf(j)) - 1
    BY <2>1, <1>TasksOfCount, FS_RemoveElement, Zenon
  <2>3. free'[j] = Capacity - Cardinality(TasksOf(j)')
    BY <2>2, <1>TasksOfCount, BoundsAssumption, SMTT(30) DEF AccountOf
  <2>4. \A x \in Tasks : taskJob'[x] = j => task'[x] \in Live \cup {"none"}
    BY Zenon DEF AccountOf
  <2> QED BY <2>3, <2>4, Zenon DEF AccountOf
(* It is right when fresh tasks are recorded and as much is debited.       *)
<1>AccountLaunch.
      ASSUME Typing, Untold, NEW j \in Jobs, AccountOf(j), NEW T \in SUBSET fresh,
             free'[j] = free[j] - Cardinality(T),
             \A t \in T : taskJob'[t] = j /\ task'[t] = "STAGING",
             \A t \in Tasks \ T : taskJob'[t] = taskJob[t],
             \A t \in Tasks \ T : taskJob[t] = j => task'[t] = task[t]
      PROVE  AccountOf(j)'
  <2> USE <1>AccountLaunch
  <2>1. T \in SUBSET Tasks /\ j # NoJob
    BY NamesAssumption, Zenon DEF Typing, TypeOK
  <2>2. TasksOf(j) \cap T = {}
    BY <2>1, Zenon DEF TasksOf, Untold
  <2>3. TasksOf(j)' = TasksOf(j) \cup T
    BY <2>1, <2>2, Zenon DEF TasksOf
  <2>4. Cardinality(TasksOf(j)') = Cardinality(TasksOf(j)) + Cardinality(T)
    <3>1. IsFiniteSet(T) /\ Cardinality(T) \in Nat /\ IsFiniteSet(TasksOf(j)) /\ Cardinality(TasksOf(j)) \in Nat
      BY <2>1, TasksAssumption, <1>TasksOfCount, Zenon
    <3>2. Cardinality({}) = 0
      BY FS_EmptySet, Zenon
    <3>3. Cardinality(TasksOf(j) \cup T)
            = Cardinality(TasksOf(j)) + Cardinality(T) - Cardinality(TasksOf(j) \cap T)
      BY <3>1, FS_Union, Zenon
    <3>4. Cardinality(TasksOf(j) \cap T) = 0
      BY <2>2, <3>2, Zenon
    <3>5. Cardinality(TasksOf(j) \cup T) = Cardinality(TasksOf(j)) + Cardinality(T)
      BY <3>1, <3>3, <3>4, SMTT(30)
    <3> QED BY <2>3, <3>5, Zenon
  <2>5. free'[j] = Capacity - Cardinality(TasksOf(j)')
    <3>1. Cardinality(T) \in Nat
      BY <2>1, TasksAssumption, Zenon
    <3> QED BY <2>4, <3>1, <1>TasksOfCount, BoundsAssumption, SMTT(30) DEF AccountOf
  <2>6. \A x \in Tasks : taskJob'[x] = j => task'[x] \in Live \cup {"none"}
    BY <2>1, Zenon DEF AccountOf, Live
  <2> QED BY <2>5, <2>6, Zenon DEF AccountOf
<1> SUFFICES ASSUME MaxRestarts = 0, "ERROR" \notin FinalStates, TasksInv, Connected,
                    Waiting, OffersOf, Place, Killed, Accounts, [Next]_vars
             PROVE  Accounts'
  BY Zenon
<1> SUFFICES ASSUME NEW j \in Jobs, job'[j] = "running" PROVE AccountOf(j)'
  BY Zenon DEF Accounts, AccountOf, TasksOf
<1>0. /\ Typing /\ TypeOK /\ Cycle /\ Owned /\ Untold /\ JobMoves
      /\ Placeholder \notin Jobs /\ NoJob \notin Jobs
  BY OffersOfStep, NamesAssumption, Zenon DEF TasksInv, Typing
<1>1. /\ job[j] \in {"running", "pending"} /\ (job[j] = "running" => AccountOf(j))
      /\ \A t \in Tasks : taskJob[t] = j => t \notin delTasks /\ t \notin fresh
  BY <1>0, SMTT(30) DEF JobMoves, Accounts, Waiting, Untold
<1>2. ASSUME job[j] = "running", free'[j] = free[j], UNCHANGED taskJob,
             \A t \in Tasks : taskJob[t] = j => task'[t] = task[t]
      PROVE  AccountOf(j)'
  BY <1>1, <1>2, <1>AccountKept, Zenon
<1>3. ASSUME NEW S, NEW T, NEW Q, Postprocess(task, S, T, Q), \A t \in T : taskJob[t] # j,
             UNCHANGED taskJob, job[j] = "running", free'[j] = free[j]
      PROVE  AccountOf(j)'
  <2>1. \A t \in Tasks : taskJob[t] = j => task'[t] = task[t]
    BY <1>1, <1>3, Zenon DEF Postprocess
  <2> QED BY <1>2, <1>3, <2>1, Zenon
<1>4. ASSUME NEW i \in Jobs, JobGone(i) PROVE job[j] = "running" /\ i # j
  BY <1>0, <1>4, Zenon DEF JobGone, TypeOK
<1>5. ASSUME NEW o \in outstanding, DeclineOffer(o) PROVE AccountOf(j)'
  <2>1. UNCHANGED <<taskJob, free>> /\ \E Q : Postprocess(task, slaves, {}, Q)
    BY <1>5, Zenon DEF DeclineOffer, RefuseWithTasks, RefuseIdle
  <2>2. job[j] = "running"
    <3>1. CASE JobGone(o.place) /\ o.place \in slaves
      BY <1>0, <1>4, <3>1, Zenon DEF TypeOK
    <3> QED BY <1>5, <3>1, Zenon DEF DeclineOffer, RefuseWithTasks, RefuseIdle
  <2> QED BY <1>3, <2>1, <2>2, SMTT(30)
<1>6. ASSUME NEW t \in Tasks, KillTask(t) PROVE AccountOf(j)'
  <2>1. /\ t \notin fresh /\ task[t] # "none" /\ UNCHANGED taskJob /\ Postprocess(task, slaves, {t}, {})
        /\ KillOnSlave(t, SlaveOf(t)) \/ KillWithoutSlave(t, SlaveOf(t))
    BY <1>6, Zenon DEF KillTask, KillAndDelete
  <2>2. job[j] = "running" /\ j \in slaves
    <3>1. CASE JobGone(taskJob[t]) /\ taskJob[t] # NoJob
      BY <1>0, <1>4, <3>1, SMTT(30) DEF TypeOK, Connected
    <3> QED BY <2>1, <3>1, Zenon DEF KillOnSlave, KillWithoutSlave, Connected
  <2>3. CASE taskJob[t] = j
    <3>1. taskSlave[t] \in {j, Placeholder} /\ (taskSlave[t] = Placeholder => j \in mapped)
      BY <2>1, <2>2, <2>3, Zenon DEF Place, PlaceOf
    <3>2. SlaveOf(t) = j /\ j # NoJob
      BY <1>0, <2>2, <2>3, <3>1, Zenon DEF SlaveOf, TypeOK
    <3>3. free' = [free EXCEPT ![j] = @ + 1]
      BY <2>1, <3>2, Zenon DEF KillOnSlave, KillWithoutSlave
    <3>4. free'[j] = free[j] + 1 /\ t \in TasksOf(j)
      BY <1>0, <2>1, <2>3, <3>3, Zenon DEF TypeOK, TasksOf
    <3>5. task'[t] = "none" /\ \A x \in Tasks \ {t} : taskJob[x] = j => task'[x] = task[x]
      BY <1>1, <2>1, Zenon DEF Postprocess
    <3> QED BY <1>0, <1>1, <2>1, <2>2, <3>4, <3>5, <1>AccountEnds, Zenon
  <2>4. CASE taskJob[t] # j
    <3>1. taskSlave[t] # j
      <4>1. CASE taskJob[t] = NoJob
        BY <2>1, <2>2, <4>1, ZenonT(30) DEF Place, PlaceOf
      <4>2. CASE taskJob[t] \in Jobs
        BY <1>0, <2>4, <4>2, Zenon DEF Place, PlaceOf
      <4> QED BY <1>0, <4>1, <4>2, Zenon DEF TypeOK
    <3>2. SlaveOf(t) # j
      BY <1>0, <2>4, <3>1, Zenon DEF SlaveOf
    <3>3. free'[j] = free[j]
      BY <1>0, <2>1, <3>2, Zenon DEF KillOnSlave, KillWithoutSlave, TypeOK
    <3> QED BY <1>3, <2>1, <2>2, <2>4, <3>3, SMTT(30)
  <2> QED BY <2>3, <2>4, Zenon
<1>7. ASSUME NEW i \in Jobs, StatusUpdate(i) PROVE AccountOf(j)'
  <2> DEFINE u == Head(updates[i])
             T == {u.task} \cap {t \in Tasks : task[t] # "none"}
             deleted == IF CreditedBy(u) THEN {u.task} ELSE {}
  <2>1. /\ updates[i] \in Seq(Update) /\ updates[i] # <<>>
        /\ Postprocess(SetTasks(T, u.state), slaves, deleted, {})
        /\ free' = IF CreditedBy(u) THEN [free EXCEPT ![i] = @ + 1] ELSE free
        /\ UNCHANGED <<taskJob, job>>
    BY <1>0, <1>7, ZenonT(30) DEF StatusUpdate, HandleStatusUpdate, TypeOK
  <2>2. u \in Items(updates[i]) /\ u \in Update
    BY <2>1, TailFacts, Zenon
  <2> HIDE DEF u
  <2>3. /\ u.task \in Tasks /\ taskJob[u.task] = i /\ u.from = i
        /\ u.state \in {"RUNNING", "KILLED", "FINISHED", "FAILED"}
        /\ u.state = "KILLED" => task[u.task] = "none"
    <3>1. u.task \in Tasks /\ taskJob[u.task] = i /\ u.from = i
      BY <1>0, <2>2, Zenon DEF Owned, Assigned, Update
    <3>2. u.state \in {"RUNNING", "KILLED"} \cup FinalStates /\ (u.state = "KILLED" => task[u.task] = "none")
      BY <2>2, Zenon DEF Killed
    <3>3. FinalStates \subseteq {"FINISHED", "FAILED"}
      BY BoundsAssumption, Zenon
    <3> QED BY <3>1, <3>2, <3>3, Zenon
  <2>4. job[j] = "running" /\ j \in slaves
    BY <2>1, Zenon DEF Connected
  <2>5. \A t \in Tasks \ {u.task} : taskJob[t] = j => task'[t] = task[t]
    BY <1>1, <2>1, Zenon DEF Postprocess, SetTasks
  <2>6. CASE i # j
    BY <1>0, <1>2, <2>1, <2>3, <2>4, <2>5, <2>6, Zenon DEF TypeOK
  <2>7. CASE i = j /\ task[u.task] = "none"
    <3>1. task'[u.task] = task[u.task] /\ free' = free
      BY <2>1, <2>3, <2>7, Zenon DEF Postprocess, SetTasks, CreditedBy
    <3> QED BY <1>2, <2>1, <2>4, <2>5, <3>1, ZenonT(30)
  <2>8. CASE i = j /\ task[u.task] # "none" /\ u.state = "RUNNING"
    <3>1. free' = free /\ u.task \notin delTasks
      BY <1>1, <2>1, <2>3, <2>8, ZenonT(30) DEF CreditedBy
    <3>2. task'[u.task] = "RUNNING"
      BY <2>1, <2>3, <2>8, <3>1, Zenon DEF Postprocess, SetTasks, CreditedBy
    <3> QED BY <1>1, <2>1, <2>3, <2>4, <2>5, <2>8, <3>1, <3>2, <1>AccountKept, Zenon
  <2>9. CASE i = j /\ task[u.task] # "none" /\ u.state \in {"FINISHED", "FAILED"}
    <3>1. CreditedBy(u)
      BY <2>3, <2>4, <2>9, Zenon DEF CreditedBy
    <3>2. free'[j] = free[j] + 1 /\ u.task \in TasksOf(j)
      BY <1>0, <2>1, <2>3, <2>9, <3>1, Zenon DEF TypeOK, TasksOf
    <3>3. task'[u.task] = "none"
      BY <2>1, <2>3, <3>1, Zenon DEF Postprocess
    <3> QED BY <1>0, <1>1, <2>1, <2>4, <2>5, <3>2, <3>3, <1>AccountEnds, Zenon
  <2> QED BY <2>3, <2>6, <2>7, <2>8, <2>9, ZenonT(30)
<1>8. ASSUME NEW i \in Jobs, RegisterExecutorRunner(i) PROVE AccountOf(j)'
  <2>1. PICK N \in Submittable : ScaleUp(N, {i})
    BY <1>8, Zenon DEF RegisterExecutorRunner, RegisterForWaiting
  <2>2. /\ job[i] = "pending" /\ UNCHANGED taskJob /\ Postprocess(task, slaves \cup {i}, {}, {})
        /\ free' = [free EXCEPT ![i] = Capacity - Cardinality(Staged(i))]
    BY <1>8, Zenon DEF RegisterExecutorRunner, RegisterForWaiting, NewSlave
  <2>3. CASE i # j
    <3>1. job[j] = "running"
      BY <1>0, <2>1, <2>3, SubmitFacts, SMTT(30)
    <3>2. free'[j] = free[j]
      BY <1>0, <2>2, <2>3, Zenon DEF TypeOK
    <3> QED BY <1>3, <2>2, <3>1, <3>2, SMTT(30)
  <2>4. CASE i = j
    <3>1. \A t \in Tasks : taskJob[t] = j => task'[t] = task[t] /\ task[t] \in {"STAGING", "none"}
      BY <1>1, <2>2, <2>4, Zenon DEF Postprocess, Waiting
    <3>2. TasksOf(j)' = Staged(j)
      BY <2>2, <3>1, Zenon DEF TasksOf, Staged
    <3>3. free'[j] = Capacity - Cardinality(Staged(j))
      BY <1>0, <2>2, <2>4, Zenon DEF TypeOK
    <3>4. \A t \in Tasks : taskJob'[t] = j => task'[t] \in Live \cup {"none"}
      BY <2>2, <3>1, Zenon DEF Live
    <3> QED BY <3>2, <3>3, <3>4, Zenon DEF AccountOf
  <2> QED BY <2>3, <2>4, Zenon
<1>9. ASSUME NEW i \in Jobs, RegisterExecutor(i) PROVE AccountOf(j)'
  <2>1. PICK N \in Submittable : ScaleUp(N, {})
    BY <1>9, Zenon DEF RegisterExecutor
  <2>2. job[j] = "running"
    BY <1>0, <2>1, SubmitFacts, SMTT(30)
  <2> QED BY <1>3, <1>9, <2>2, SMTT(30) DEF RegisterExecutor
<1>10. ASSUME NEW i \in Jobs, DeleteJob(i) PROVE AccountOf(j)'
  <2>1. task' = SetTasks(TasksOf(i), "LOST") /\ UNCHANGED <<taskJob, free, job>> /\ job[i] = "gone"
    BY <1>10, Zenon DEF DeleteJob, DeleteSlavesAndTasks
  <2>2. \A t \in Tasks : taskJob[t] = j => task'[t] = task[t]
    BY <2>1, Zenon DEF SetTasks, TasksOf
  <2> QED BY <1>2, <2>1, <2>2, Zenon
<1>11. ASSUME NEW i \in Jobs, JobEnds(i) PROVE AccountOf(j)'
  BY <1>2, <1>4, <1>11, Zenon DEF JobEnds
<1>12. ASSUME NEW o \in outstanding, NEW T \in SUBSET fresh, LaunchTasks(o, T) PROVE AccountOf(j)'
  <2>0. T \in SUBSET Tasks /\ \A t \in T : t \notin delTasks /\ taskJob[t] # j
    BY <1>0, <1>1, ZenonT(30) DEF TypeOK, Waiting
  <2>1. ASSUME NEW L, Postprocess(SetTasks(T, "STAGING"), slaves, L, {}), L \subseteq T
        PROVE  /\ \A t \in Tasks \ T : taskJob[t] = j => task'[t] = task[t]
               /\ \A t \in T \ L : task'[t] = "STAGING"
    BY <1>1, <2>0, <2>1, ZenonT(30) DEF Postprocess, SetTasks
  <2>2. ASSUME NEW i, NEW p, Record(T, i, p), i # j, free'[j] = free[j], job[j] = "running",
               NEW L \in SUBSET T, Postprocess(SetTasks(T, "STAGING"), slaves, L, {})
        PROVE  AccountOf(j)'
    <3>1. \A t \in Tasks : taskJob'[t] = j <=> taskJob[t] = j
      BY <2>0, <2>2, Zenon DEF Record
    <3>2. \A t \in Tasks : taskJob[t] = j => task'[t] = task[t]
      BY <2>0, <2>1, <2>2, ZenonT(30)
    <3> QED BY <1>1, <2>2, <3>1, <3>2, <1>AccountKept, ZenonT(30)
  <2>3. CASE LaunchOnPlaceholder(o, T)
    <3>1. PICK N \in Submittable, failed \in SUBSET T :
            /\ ScaleUp(N, {}) /\ Record(T, IF N = {} THEN NoJob ELSE CHOOSE x \in N : TRUE, Placeholder)
            /\ Postprocess(SetTasks(T, "STAGING"), slaves,
                           (IF SendTaskLost THEN T ELSE failed) \ {}, {})
      BY <2>3, Zenon DEF LaunchOnPlaceholder, LaunchAndSubmit
    <3> DEFINE i == IF N = {} THEN NoJob ELSE CHOOSE x \in N : TRUE
               L == (IF SendTaskLost THEN T ELSE failed) \ {}
    <3>2. job[j] = "running" /\ \A x \in N : job'[x] = "pending"
      BY <1>0, <3>1, SubmitFacts, SMTT(30)
    <3>3. /\ (i = NoJob \/ i \in N) /\ Record(T, i, Placeholder) /\ UNCHANGED free
          /\ Postprocess(SetTasks(T, "STAGING"), slaves, L, {}) /\ L \in SUBSET T
      <4>1. i = NoJob \/ i \in N
        BY <3>1, SubmittedJob, ZenonT(30)
      <4>2. UNCHANGED free
        BY <2>3, Zenon DEF LaunchOnPlaceholder, LaunchAndSubmit
      <4>3. Record(T, i, Placeholder) /\ Postprocess(SetTasks(T, "STAGING"), slaves, L, {})
        BY <3>1, Zenon
      <4>4. L \in SUBSET T
        BY <3>1, Zenon
      <4> QED BY <4>1, <4>2, <4>3, <4>4, Zenon
    <3> HIDE DEF i, L
    <3>4. i # j
      BY <1>0, <3>2, <3>3, Zenon
    <3> QED BY <2>2, <3>2, <3>3, <3>4, Zenon
  <2>4. CASE LaunchOnUnknown(o, T)
    <3>1. /\ Record(T, NoJob, o.place) /\ UNCHANGED <<free, job>>
          /\ Postprocess(SetTasks(T, "STAGING"), slaves, {}, {})
      BY <2>4, Zenon DEF LaunchOnUnknown
    <3>2. NoJob # j /\ {} \in SUBSET T
      BY <1>0, Zenon
    <3> QED BY <2>2, <3>1, <3>2, Zenon
  <2>5. CASE LaunchOnSlave(o, T)
    <3>1. /\ Record(T, o.place, o.place) /\ UNCHANGED job /\ o.place \in Jobs
          /\ free' = [free EXCEPT ![o.place] = @ - Cardinality(T)]
          /\ Postprocess(SetTasks(T, "STAGING"), slaves, {}, {})
      BY <1>0, <2>5, ZenonT(30) DEF LaunchOnSlave, LaunchAndRun, TypeOK
    <3>2. CASE o.place # j
      <4>1. free'[j] = free[j] /\ {} \in SUBSET T
        BY <1>0, <3>1, <3>2, ZenonT(30) DEF TypeOK
      <4> QED BY <2>2, <3>1, <3>2, <4>1, ZenonT(30)
    <3>3. CASE o.place = j
      <4>1. /\ \A t \in T : taskJob'[t] = j /\ task'[t] = "STAGING"
            /\ \A t \in Tasks \ T : taskJob'[t] = taskJob[t]
        BY <2>0, <2>1, <3>1, <3>3, SMTT(30) DEF Record
      <4>2. \A t \in Tasks \ T : taskJob[t] = j => task'[t] = task[t]
        BY <2>0, <2>1, <3>1, SMTT(30)
      <4>3. free'[j] = free[j] - Cardinality(T)
        BY <1>0, <3>1, <3>3, Zenon DEF TypeOK
      <4> QED BY <1>0, <1>1, <3>1, <4>1, <4>2, <4>3, <1>AccountLaunch, Zenon
    <3> QED BY <3>2, <3>3, Zenon
  <2> QED BY <1>12, <2>3, <2>4, <2>5, Zenon DEF LaunchTasks
<1>13. CASE \/ OtherMessage \/ ReviveOffers \/ \E u \in unacked : StatusUpdateAcknowledgement(u)
  <2>1. UNCHANGED <<taskJob, free, job>> /\ Postprocess(task, slaves, {}, {})
    BY <1>13, Zenon DEF OtherMessage, ReviveOffers, StatusUpdateAcknowledgement
  <2>2. job[j] = "running"
    BY <2>1, Zenon
  <2> QED BY <1>3, <2>1, <2>2, SMTT(30)
<1>14. CASE \/ GenerateOffers \/ UNCHANGED vars
            \/ \E i \in Jobs : \/ ExecMessage(i)
                               \/ \E t \in Tasks, state \in FinalStates : ExecEnd(i, t, state)
  BY <1>2, <1>14, Zenon DEF GenerateOffers, BuildOffers, vars, ExecMessage, ExecEnd
<1> QED BY <1>0, <1>5, <1>6, <1>7, <1>8, <1>9, <1>10, <1>11, <1>12, <1>13, <1>14, SteadySteps, Zenon
        DEF SteadyNext
----------------------------------------------------------------------------
(* The tasks launched for a job.                                           *)
AssignedTo(j) == {t \in Tasks : taskJob[t] = j}

(* What was launched for a pending job fits on its slave, because offers   *)
(* of a placeholder promise no more than a slave has.                      *)
Fits ==
    /\ \A j \in Jobs : job[j] = "pending" => Cardinality(AssignedTo(j)) <= Capacity
    /\ \A o \in outstanding : o.place \notin Jobs => o.amount <= Capacity

(* Until the framework calls reviveOffers, nothing is overcommitted: a     *)
(* slave has one offer out at most, is not offerable meanwhile, and has    *)
(* what that offer promises.                                               *)
Promises ==
    revives = 0 =>
        /\ \A j \in slaves : free[j] >= 0
        /\ \A o \in outstanding : o.place \in slaves =>
              /\ ~offerable[o.place] /\ o.amount <= free[o.place]
              /\ \A p \in outstanding : p.place = o.place => p = o

(* These tasks can be counted, before and after a step.                    *)
LEMMA AssignedCount ==
    ASSUME NEW j
    PROVE  /\ AssignedTo(j) \in SUBSET Tasks /\ IsFiniteSet(AssignedTo(j)) /\ Cardinality(AssignedTo(j)) \in Nat
           /\ AssignedTo(j)' \in SUBSET Tasks /\ IsFiniteSet(AssignedTo(j)') /\ Cardinality(AssignedTo(j)') \in Nat
<1>1. AssignedTo(j) \in SUBSET Tasks /\ AssignedTo(j)' \in SUBSET Tasks
  BY Zenon DEF AssignedTo
<1> QED BY <1>1, TasksAssumption, Zenon

(* All that can happen to the offers that are out.                         *)
OfferMoves ==
    \/ outstanding' \subseteq outstanding
    \/ \E j \in Jobs : outstanding' = Supersede({j})
    \/ GenerateOffers

(* Every step keeps Fits.                                                  *)
LEMMA FitsStep ==
    MaxRestarts = 0 /\ TasksInv /\ Connected /\ Waiting /\ OffersOf /\ Fits
    /\ [Next]_vars
        => Fits'
(* Every step keeps what waits for a pending job within its slave.         *)
<1>PendingFits.
      ASSUME MaxRestarts = 0, TasksInv, Connected, Waiting, OffersOf, Fits, [Next]_vars,
             NEW j \in Jobs, job'[j] = "pending"
      PROVE  Cardinality(AssignedTo(j)') <= Capacity
  <2> USE <1>PendingFits
  <2>0. /\ Typing /\ TypeOK /\ Cycle /\ Untold /\ JobMoves /\ Capacity \in Nat
        /\ Placeholder \notin Jobs /\ NoJob \notin Jobs
    BY OffersOfStep, NamesAssumption, BoundsAssumption, Zenon DEF TasksInv, Typing
  <2>1. job[j] = "none" \/ job[j] = "pending"
    BY <2>0, Zenon DEF JobMoves, TypeOK
  <2>2. job[j] = "none" => AssignedTo(j) = {}
    BY Zenon DEF Waiting, AssignedTo
  <2>3. Cardinality(AssignedTo(j)) <= Capacity
    <3>1. CASE job[j] = "none"
      BY <2>0, <2>2, <3>1, FS_EmptySet, SMTT(30)
    <3> QED BY <2>1, <3>1, Zenon DEF Fits
  <2>4. ASSUME \A t \in Tasks : taskJob'[t] = j => taskJob[t] = j PROVE Cardinality(AssignedTo(j)') <= Capacity
    <3>1. AssignedTo(j)' \subseteq AssignedTo(j)
      BY <2>4, Zenon DEF AssignedTo
    <3>2. Cardinality(AssignedTo(j)') <= Cardinality(AssignedTo(j))
      BY <3>1, AssignedCount, FS_Subset, Zenon
    <3> QED BY <2>0, <2>3, <3>2, AssignedCount, SMTT(30)
  <2>5. ASSUME NEW o \in outstanding, NEW T \in SUBSET fresh, LaunchTasks(o, T)
        PROVE  Cardinality(AssignedTo(j)') <= Capacity
    <3>0. T \in SUBSET Tasks
      BY <2>0, Zenon DEF TypeOK
    <3>1. CASE LaunchOnPlaceholder(o, T)
      <4>1. PICK N \in Submittable : Record(T, IF N = {} THEN NoJob ELSE CHOOSE x \in N : TRUE, Placeholder)
        BY <3>1, Zenon DEF LaunchOnPlaceholder, LaunchAndSubmit
      <4> DEFINE i == IF N = {} THEN NoJob ELSE CHOOSE x \in N : TRUE
      <4>2. Record(T, i, Placeholder)
        BY <4>1, Zenon
      <4>3. i = NoJob \/ (i \in Jobs /\ job[i] = "none")
        BY SubmittedJob, ZenonT(30)
      <4> HIDE DEF i
      <4>4. CASE i # j
        BY <2>4, <4>2, <4>4, Zenon DEF Record
      <4>5. CASE i = j
        <5>1. AssignedTo(j)' = T
          BY <2>0, <2>2, <3>0, <4>2, <4>3, <4>5, Zenon DEF Record, AssignedTo
        <5>2. Cardinality(T) <= o.amount /\ o.amount <= Capacity /\ o.amount \in Int
          BY <2>0, <2>5, <3>1, OfferFields, Zenon DEF LaunchTasks, LaunchOnPlaceholder, LaunchAndSubmit, Fits
        <5>3. Cardinality(T) \in Nat
          BY <3>0, TasksAssumption, Zenon
        <5> QED BY <2>0, <5>1, <5>2, <5>3, SMTT(30)
      <4> QED BY <4>4, <4>5, Zenon
    <3>2. CASE LaunchOnUnknown(o, T)
      BY <2>0, <2>4, <3>2, Zenon DEF LaunchOnUnknown, Record
    <3>3. CASE LaunchOnSlave(o, T)
      <4>1. o.place \in slaves /\ Record(T, o.place, o.place) /\ UNCHANGED job
        BY <3>3, Zenon DEF LaunchOnSlave, LaunchAndRun
      <4>2. o.place # j
        BY <4>1, Zenon DEF Connected
      <4> QED BY <2>4, <4>1, <4>2, Zenon DEF Record
    <3> QED BY <2>5, <3>1, <3>2, <3>3, Zenon DEF LaunchTasks
  <2>6. CASE UNCHANGED taskJob
    BY <2>4, <2>6, Zenon
  <2>7. CASE \E i \in Jobs : RegisterExecutorRunner(i)
    BY <2>6, <2>7, ZenonT(30) DEF RegisterExecutorRunner, RegisterForWaiting
  <2>8. CASE \E i \in Jobs : DeleteJob(i)
    BY <2>6, <2>8, Zenon DEF DeleteJob, DeleteSlavesAndTasks
  <2>9. CASE \E t \in Tasks : KillTask(t)
    BY <2>6, <2>9, Zenon DEF KillTask, KillAndDelete
  <2>10. CASE \E i \in Jobs : RegisterExecutor(i) \/ StatusUpdate(i)
    BY <2>6, <2>10, ZenonT(30) DEF RegisterExecutor, StatusUpdate, HandleStatusUpdate
  <2>11. CASE \/ GenerateOffers \/ OtherMessage \/ ReviveOffers \/ UNCHANGED vars
              \/ \E o \in outstanding : DeclineOffer(o)
              \/ \E u \in unacked : StatusUpdateAcknowledgement(u)
              \/ \E i \in Jobs : \/ ExecMessage(i) \/ JobEnds(i)
                                 \/ \E t \in Tasks, state \in FinalStates : ExecEnd(i, t, state)
    BY <2>6, <2>11, Zenon DEF GenerateOffers, BuildOffers, OtherMessage, ReviveOffers, vars, DeclineOffer,
                       StatusUpdateAcknowledgement, ExecMessage, JobEnds, ExecEnd
  <2> QED BY <2>0, <2>5, <2>7, <2>8, <2>9, <2>10, <2>11, SteadySteps, Zenon DEF SteadyNext
(* An offer that is superseded keeps its place and its amount.             *)
<1>SupersedeFacts.
      ASSUME TypeOK, NEW J, NEW o \in Supersede(J)
      PROVE  \E p \in outstanding : o = [p EXCEPT !.known = IF @ = "current" /\ p.place \in J THEN "superseded" ELSE @]
                                    /\ o.place = p.place /\ o.amount = p.amount
  <2> USE <1>SupersedeFacts
  <2>1. PICK p \in outstanding : o = [p EXCEPT !.known = IF @ = "current" /\ p.place \in J THEN "superseded" ELSE @]
    BY Zenon DEF Supersede
  <2>2. p \in Offers
    BY Zenon DEF TypeOK
  <2>3. o.place = p.place /\ o.amount = p.amount
    BY <2>1, <2>2, Zenon DEF Offers
  <2> QED BY <2>1, <2>3, Zenon
(* Every step has one of these effects on them.                            *)
<1>OffersMove.
      ASSUME MaxRestarts = 0, TasksInv, Connected, [Next]_vars
      PROVE  OfferMoves
  <2> USE <1>OffersMove
  <2>0. Typing /\ TypeOK /\ Cycle
    BY Zenon DEF TasksInv, Typing
  <2>1. CASE \E o \in outstanding : DeclineOffer(o) \/ \E T \in SUBSET fresh : LaunchTasks(o, T)
    BY <2>1, Zenon DEF OfferMoves, DeclineOffer, LaunchTasks, Answer
  <2>2. CASE \E i \in Jobs : RegisterExecutorRunner(i)
    BY <2>2, Zenon DEF OfferMoves, RegisterExecutorRunner, RegisterForWaiting, NewSlave
  <2>3. CASE \E i \in Jobs : DeleteJob(i)
    BY <2>3, Zenon DEF OfferMoves, DeleteJob, DeleteSlavesAndTasks
  <2>4. CASE \E t \in Tasks : KillTask(t)
    BY <2>4, Zenon DEF OfferMoves, KillTask, KillAndDelete
  <2>5. CASE \E i \in Jobs : RegisterExecutor(i) \/ StatusUpdate(i)
    BY <2>5, Zenon DEF OfferMoves, RegisterExecutor, StatusUpdate, HandleStatusUpdate
  <2>6. CASE \/ OtherMessage \/ ReviveOffers \/ UNCHANGED vars
             \/ \E u \in unacked : StatusUpdateAcknowledgement(u)
             \/ \E i \in Jobs : \/ ExecMessage(i) \/ JobEnds(i)
                                \/ \E t \in Tasks, state \in FinalStates : ExecEnd(i, t, state)
    BY <2>6, Zenon DEF OfferMoves, OtherMessage, ReviveOffers, vars,
                StatusUpdateAcknowledgement, ExecMessage, JobEnds, ExecEnd
  <2> QED BY <2>0, <2>1, <2>2, <2>3, <2>4, <2>5, <2>6, SteadySteps, Zenon DEF SteadyNext, OfferMoves
<1> SUFFICES ASSUME MaxRestarts = 0, TasksInv, Connected, Waiting, OffersOf, Fits,
                    [Next]_vars
             PROVE  Fits'
  BY Zenon
<1>0. TypeOK /\ Capacity \in Nat
  BY BoundsAssumption, Zenon DEF TasksInv, Typing
<1>1. ASSUME NEW o \in outstanding', o.place \notin Jobs PROVE o.amount <= Capacity
  <2>1. ASSUME NEW J, o \in Supersede(J) PROVE o.amount <= Capacity
    BY <1>0, <1>1, <2>1, <1>SupersedeFacts, SMTT(30) DEF Fits
  <2>2. CASE outstanding' \subseteq outstanding
    BY <1>1, <2>2, Zenon DEF Fits
  <2>3. CASE GenerateOffers
    <3>1. PICK S \in SUBSET {j \in slaves : offerable[j]} :
              BuildOffers(S, {j \in S : free[j] # 0}, {j \in S : free[j] # 0})
      BY <2>3, Zenon DEF GenerateOffers
    <3>2. CASE o \in outstanding
      BY <1>1, <3>2, Zenon DEF Fits
    <3>3. CASE o = [place |-> Placeholder, amount |-> Capacity, known |-> "current"]
      BY <1>0, <3>3, SMTT(30)
    <3>4. CASE \E j \in S : o = [place |-> j, amount |-> free[j], known |-> "current"]
      BY <1>0, <1>1, <3>1, <3>4, SMTT(30) DEF TypeOK
    <3> QED BY <1>1, <2>1, <3>1, <3>2, <3>3, <3>4, Zenon DEF BuildOffers
  <2> QED BY <1>1, <2>1, <2>2, <2>3, <1>OffersMove, Zenon DEF OfferMoves
<1>2. \A j \in Jobs : job'[j] = "pending" => Cardinality(AssignedTo(j)') <= Capacity
  BY <1>PendingFits, Zenon
<1> QED BY <1>1, <1>2, Zenon DEF Fits

(* No offer of this slave is out.                                          *)
Unpromised(j) == \A o \in outstanding : o.place # j

(* Every step keeps the promises.                                          *)
LEMMA PromisesStep ==
    MaxRestarts = 0 /\ TasksInv /\ Connected /\ Waiting /\ OffersOf /\ Fits /\ Promises
    /\ [Next]_vars
        => Promises'
(* Promises are kept when offers are only answered, nothing is debited,    *)
(* and a slave becomes offerable only when none of its offers is out.      *)
<1>PromisesKept.
      ASSUME Typing, Promises, revives' = 0 => revives = 0, outstanding' \subseteq outstanding,
             \A j \in slaves' : /\ j \in slaves /\ free'[j] \in Int /\ free'[j] >= free[j]
                                /\ offerable'[j] => offerable[j] \/ Unpromised(j)'
      PROVE  Promises'
  <2> USE <1>PromisesKept
  <2>1. TypeOK /\ (\A j \in slaves : free[j] \in Int) /\ \A o \in outstanding : o.amount \in Int
    BY OfferFields, Zenon DEF Typing, TypeOK
  <2> SUFFICES ASSUME revives' = 0
               PROVE  /\ \A j \in slaves' : free'[j] >= 0
                      /\ \A o \in outstanding' : o.place \in slaves' =>
                            /\ ~offerable'[o.place] /\ o.amount <= free'[o.place]
                            /\ \A p \in outstanding' : p.place = o.place => p = o
    BY Zenon DEF Promises
  <2>2. \A j \in slaves' : free'[j] >= 0
    BY <2>1, SMTT(30) DEF Promises
  <2>3. ASSUME NEW o \in outstanding', o.place \in slaves'
        PROVE  /\ ~offerable'[o.place] /\ o.amount <= free'[o.place]
               /\ \A p \in outstanding' : p.place = o.place => p = o
    <3>1. /\ ~offerable[o.place] /\ o.amount <= free[o.place]
          /\ \A p \in outstanding : p.place = o.place => p = o
      BY <2>3, Zenon DEF Promises
    <3>2. o.amount <= free'[o.place]
      BY <2>1, <2>3, <3>1, SMTT(30)
    <3>3. ~offerable'[o.place]
      BY <2>3, <3>1, Zenon DEF Unpromised
    <3> QED BY <3>1, <3>2, <3>3, Zenon
  <2> QED BY <2>2, <2>3, Zenon
(* They are kept when a slave without offers gets a new record.            *)
<1>PromisesRenewed.
      ASSUME Typing, Promises, UNCHANGED revives, NEW J \in SUBSET Jobs, outstanding' = Supersede(J),
             \A j \in J : Unpromised(j),
             \A j \in slaves' \ J : j \in slaves /\ free'[j] = free[j] /\ offerable'[j] = offerable[j],
             \A j \in slaves' \cap J : free'[j] >= 0
      PROVE  Promises'
  <2> USE <1>PromisesRenewed
  <2>1. outstanding' = outstanding
    <3>1. ASSUME NEW p \in outstanding
          PROVE  [p EXCEPT !.known = IF @ = "current" /\ p.place \in J THEN "superseded" ELSE @] = p
      <4>1. p \in Offers /\ p.place \notin J
        BY Zenon DEF Typing, TypeOK, Unpromised
      <4> QED BY <4>1, Zenon DEF Offers
    <3> QED BY <3>1, SMTT(30) DEF Supersede
  <2>2. \A o \in outstanding : o.place \notin J
    BY Zenon DEF Unpromised
  <2> QED BY <2>1, <2>2, Zenon DEF Promises, Typing, TypeOK
(* They are kept by __generate_offers_for_framework, which offers what is  *)
(* free and makes the slave not offerable.                                 *)
<1>PromisesGenerate.
      ASSUME Typing, Promises, GenerateOffers
      PROVE  Promises'
  <2> USE <1>PromisesGenerate
  <2>0. TypeOK /\ Placeholder \notin Jobs
    BY NamesAssumption, Zenon DEF Typing
  <2> DEFINE offer(j) == [place |-> j, amount |-> free[j], known |-> "current"]
  <2>1. PICK S \in SUBSET {j \in slaves : offerable[j]} :
            BuildOffers(S, {j \in S : free[j] # 0}, {j \in S : free[j] # 0})
    BY Zenon DEF GenerateOffers
  <2> DEFINE built == {j \in S : free[j] # 0}
  <2>2. UNCHANGED <<slaves, free, revives>> /\ built \in SUBSET slaves /\ \A j \in built : offerable[j]
    BY <2>1, Zenon DEF BuildOffers
  <2>3. /\ built # {} => /\ offerable' = [j \in Jobs |-> offerable[j] /\ j \notin built]
                         /\ outstanding' = Supersede(built) \cup {offer(j) : j \in built}
        /\ built = {} => /\ UNCHANGED offerable
                         /\ outstanding' = outstanding \cup
                              {[place |-> Placeholder, amount |-> Capacity, known |-> "current"]}
    BY <2>1, Zenon DEF BuildOffers
  <2> HIDE DEF built
  <2> SUFFICES ASSUME revives = 0 PROVE Promises'
    BY <2>2, Zenon DEF Promises
  <2>4. /\ \A j \in slaves : free[j] >= 0 /\ free[j] \in Int /\ j \in Jobs
        /\ \A o \in outstanding : o.place \in slaves =>
                /\ ~offerable[o.place] /\ o.amount <= free[o.place]
                /\ \A p \in outstanding : p.place = o.place => p = o
    BY <2>0, Zenon DEF Promises, TypeOK
  <2>5. CASE built = {}
    BY <2>0, <2>2, <2>3, <2>4, <2>5, SMTT(30) DEF Promises, TypeOK
  <2>6. CASE built # {}
    <3>1. Supersede(built) = outstanding
      <4>1. ASSUME NEW p \in outstanding
            PROVE  [p EXCEPT !.known = IF @ = "current" /\ p.place \in built THEN "superseded" ELSE @] = p
        <5>1. p \in Offers /\ p.place \notin built
          BY <2>0, <2>2, <2>4, Zenon DEF TypeOK
        <5> QED BY <5>1, Zenon DEF Offers
      <4> QED BY <4>1, SMTT(30) DEF Supersede
    <3>2. \A j \in built : offer(j).place = j /\ offer(j).amount = free[j]
      BY Zenon
    <3>3. outstanding' = outstanding \cup {offer(j) : j \in built}
      BY <2>3, <2>6, <3>1, Zenon
    <3>4. \A j \in slaves : offerable'[j] = (offerable[j] /\ j \notin built)
      BY <2>3, <2>4, <2>6, Zenon
    <3> HIDE DEF offer
    <3>5. ASSUME NEW o \in outstanding', o.place \in slaves
          PROVE  /\ ~offerable'[o.place] /\ o.amount <= free[o.place]
                 /\ \A p \in outstanding' : p.place = o.place => p = o
      <4>1. CASE o \in outstanding
        <5>1. o.place \notin built /\ ~offerable[o.place]
          BY <2>2, <2>4, <3>5, <4>1, Zenon
        <5>2. ~offerable'[o.place] /\ o.amount <= free[o.place]
          BY <2>4, <3>4, <3>5, <4>1, <5>1, Zenon
        <5>3. \A p \in outstanding : p.place = o.place => p = o
          BY <2>4, <3>5, <4>1, Zenon
        <5>4. \A j \in built : offer(j).place # o.place
          BY <3>2, <5>1, Zenon
        <5> QED BY <3>3, <5>2, <5>3, <5>4, Zenon
      <4>2. CASE \E j \in built : o = offer(j)
        <5>1. PICK j \in built : o = offer(j)
          BY <4>2, Zenon
        <5>2. \A p \in outstanding : p.place # j
          BY <2>2, <2>4, Zenon
        <5>3. o.place = j /\ o.amount = free[j] /\ j \in slaves
          BY <2>2, <3>2, <5>1, Zenon
        <5>4. ~offerable'[o.place] /\ o.amount <= free[o.place]
          <6>1. ~offerable'[j]
            BY <3>4, <5>3, Zenon
          <6>2. free[j] <= free[j]
            BY <2>4, <5>3, SMTT(30)
          <6> QED BY <5>3, <6>1, <6>2, Zenon
        <5>5. \A i \in built : offer(i).place = o.place => offer(i) = o
          BY <3>2, <5>1, <5>3, Zenon
        <5> QED BY <3>3, <5>2, <5>3, <5>4, <5>5, Zenon
      <4> QED BY <3>3, <3>5, <4>1, <4>2, Zenon
    <3> QED BY <2>2, <2>4, <3>5, Zenon DEF Promises
  <2> QED BY <2>5, <2>6, Zenon
(* They are kept by launch_tasks, which debits what was promised.          *)
<1>PromisesLaunch.
      ASSUME Typing, Promises, NEW o \in outstanding, NEW T \in SUBSET fresh, LaunchTasks(o, T)
      PROVE  Promises'
  <2> USE <1>PromisesLaunch
  <2>0. TypeOK /\ Placeholder \notin Jobs /\ \A j \in Jobs : free[j] \in Int
    BY NamesAssumption, Zenon DEF Typing, TypeOK
  <2>1. CASE LaunchOnPlaceholder(o, T) \/ LaunchOnUnknown(o, T)
    <3>1. UNCHANGED <<free, offerable, revives>> /\ slaves' \subseteq slaves
      BY <2>1, Zenon DEF LaunchOnPlaceholder, LaunchAndSubmit, LaunchOnUnknown, Postprocess
    <3>2. outstanding' \subseteq outstanding
      BY Zenon DEF LaunchTasks, Answer
    <3> QED BY <2>0, <3>1, <3>2, <1>PromisesKept, SMTT(30) DEF TypeOK
  <2>2. CASE LaunchOnSlave(o, T)
    <3>1. /\ o.place \in slaves /\ UNCHANGED revives /\ slaves' \subseteq slaves
          /\ free' = [free EXCEPT ![o.place] = @ - Cardinality(T)]
          /\ offerable' = [offerable EXCEPT ![o.place] = o.known # "superseded"]
      BY <2>2, Zenon DEF LaunchOnSlave, LaunchAndRun, Postprocess
    <3>2. outstanding' = outstanding \ {o} /\ Cardinality(T) <= o.amount
      BY <2>0, <3>1, Zenon DEF LaunchTasks, Answer, TypeOK
    <3>3. Cardinality(T) \in Nat /\ o.amount \in Int
      BY <2>0, TasksAssumption, OfferFields, Zenon DEF TypeOK
    <3> SUFFICES ASSUME revives = 0 PROVE Promises'
      BY <3>1, Zenon DEF Promises
    <3>4. /\ \A j \in slaves : free[j] >= 0 /\ j \in Jobs
          /\ \A x \in outstanding : x.place \in slaves =>
                  /\ ~offerable[x.place] /\ x.amount <= free[x.place]
                  /\ \A p \in outstanding : p.place = x.place => p = x
      BY <2>0, Zenon DEF Promises, TypeOK
    <3>5. free'[o.place] >= 0
      BY <2>0, <3>1, <3>2, <3>3, <3>4, SMTT(30) DEF TypeOK
    <3>6. \A j \in slaves \ {o.place} : free'[j] = free[j] /\ offerable'[j] = offerable[j]
      BY <2>0, <3>1, Zenon DEF TypeOK
    <3>7. \A x \in outstanding' : x \in outstanding /\ x.place # o.place
      BY <3>1, <3>2, <3>4, Zenon
    <3> QED BY <3>1, <3>4, <3>5, <3>6, <3>7, Zenon DEF Promises
  <2> QED BY <2>1, <2>2, Zenon DEF LaunchTasks
<1> SUFFICES ASSUME MaxRestarts = 0, TasksInv, Connected, Waiting, OffersOf, Fits,
                    Promises, [Next]_vars
             PROVE  Promises'
  BY Zenon
<1>0. /\ Typing /\ TypeOK /\ Cycle /\ Capacity \in Nat /\ Placeholder \notin Jobs
      /\ slaves \subseteq Jobs /\ \A j \in Jobs : free[j] \in Int
  BY NamesAssumption, BoundsAssumption, ZenonT(30) DEF TasksInv, Typing, TypeOK
<1>1. ASSUME revives' = 0 => revives = 0, outstanding' \subseteq outstanding, slaves' \subseteq slaves,
             UNCHANGED free, \A j \in slaves' : offerable'[j] => offerable[j]
      PROVE  Promises'
  BY <1>0, <1>1, <1>PromisesKept, SMTT(30)
<1>2. ASSUME NEW o \in outstanding, DeclineOffer(o) PROVE Promises'
  <2>1. UNCHANGED <<free, revives>> /\ slaves' \subseteq slaves /\ outstanding' \subseteq outstanding
    BY <1>2, Zenon DEF DeclineOffer, RefuseWithTasks, RefuseIdle, Postprocess, Answer
  <2>2. CASE o.place \in slaves
    <3>1. outstanding' = outstanding \ {o}
      BY <1>0, <1>2, <2>2, ZenonT(30) DEF DeclineOffer, Answer
    <3>2. \A j \in Jobs \ {o.place} : offerable'[j] = offerable[j]
      BY <1>0, <1>2, ZenonT(30) DEF DeclineOffer, RefuseWithTasks, RefuseIdle, TypeOK
    <3>3. revives = 0 => Unpromised(o.place)'
      BY <2>2, <3>1, Zenon DEF Promises, Unpromised
    <3>4. CASE revives = 0
      BY <1>0, <2>1, <3>2, <3>3, <3>4, <1>PromisesKept, SMTT(30)
    <3> QED BY <2>1, <3>4, Zenon DEF Promises
  <2>3. CASE o.place \notin slaves
    <3>1. UNCHANGED offerable
      BY <1>2, <2>3, Zenon DEF DeclineOffer
    <3> QED BY <1>1, <2>1, <3>1, Zenon
  <2> QED BY <2>2, <2>3, Zenon
<1>3. ASSUME NEW t \in Tasks, KillTask(t) PROVE Promises'
  <2>1. /\ slaves' \subseteq slaves /\ UNCHANGED <<offerable, outstanding, revives>>
        /\ KillOnSlave(t, SlaveOf(t)) \/ KillWithoutSlave(t, SlaveOf(t))
    BY <1>3, Zenon DEF KillTask, KillAndDelete, Postprocess
  <2>2. \A j \in slaves' : free'[j] \in Int /\ free'[j] >= free[j]
    <3>1. CASE UNCHANGED free
      BY <1>0, <2>1, <3>1, SMTT(30)
    <3>2. CASE KillOnSlave(t, SlaveOf(t))
      BY <1>0, <2>1, <3>2, SMTT(30) DEF KillOnSlave, TypeOK
    <3> QED BY <2>1, <3>1, <3>2, Zenon DEF KillWithoutSlave
  <2> QED BY <1>0, <2>1, <2>2, <1>PromisesKept, Zenon
<1>4. ASSUME NEW i \in Jobs, StatusUpdate(i) PROVE Promises'
  <2>1. /\ slaves' \subseteq slaves /\ UNCHANGED <<offerable, outstanding, revives>>
        /\ free' = free \/ free' = [free EXCEPT ![i] = @ + 1]
    BY <1>4, Zenon DEF StatusUpdate, HandleStatusUpdate, Postprocess
  <2>2. \A j \in slaves' : free'[j] \in Int /\ free'[j] >= free[j]
    <3>1. CASE free' = free
      BY <1>0, <2>1, <3>1, SMTT(30)
    <3>2. CASE free' = [free EXCEPT ![i] = @ + 1]
      BY <1>0, <2>1, <3>2, SMTT(30) DEF TypeOK
    <3> QED BY <2>1, <3>1, <3>2, Zenon
  <2> QED BY <1>0, <2>1, <2>2, <1>PromisesKept, Zenon
<1>5. ASSUME NEW i \in Jobs, RegisterExecutorRunner(i) PROVE Promises'
  <2>1. /\ job[i] = "pending" /\ slaves' \subseteq slaves \cup {i} /\ UNCHANGED revives
        /\ free' = [free EXCEPT ![i] = Capacity - Cardinality(Staged(i))]
        /\ offerable' = [offerable EXCEPT ![i] = TRUE] /\ outstanding' = Supersede({i})
    BY <1>5, Zenon DEF RegisterExecutorRunner, RegisterForWaiting, NewSlave, Postprocess
  <2>2. Unpromised(i)
    BY <1>0, <2>1, Zenon DEF OffersOf, Unpromised
  <2>3. free'[i] >= 0
    <3>1. Staged(i) \subseteq AssignedTo(i) /\ Cardinality(AssignedTo(i)) <= Capacity
      BY <2>1, Zenon DEF Staged, AssignedTo, Fits
    <3>2. Cardinality(Staged(i)) <= Cardinality(AssignedTo(i)) /\ Cardinality(Staged(i)) \in Nat
      BY <3>1, AssignedCount, TasksAssumption, FS_Subset, Zenon
    <3>3. free'[i] = Capacity - Cardinality(Staged(i))
      BY <1>0, <2>1, Zenon DEF TypeOK
    <3> QED BY <1>0, <3>1, <3>2, <3>3, AssignedCount, SMTT(30)
  <2>4. \A j \in slaves' \ {i} : j \in slaves /\ free'[j] = free[j] /\ offerable'[j] = offerable[j]
    BY <1>0, <2>1, Zenon DEF TypeOK
  <2> QED BY <1>0, <2>1, <2>2, <2>3, <2>4, <1>PromisesRenewed, Zenon
<1>6. ASSUME NEW i \in Jobs, DeleteJob(i) PROVE Promises'
  <2>1. /\ UNCHANGED <<slaves, free, outstanding, revives>>
        /\ offerable' = [j \in Jobs |-> offerable[j] /\ j \notin SlavesOf(i)]
    BY <1>6, Zenon DEF DeleteJob, DeleteSlavesAndTasks
  <2> QED BY <1>0, <1>1, <2>1, Zenon
<1>7. CASE ReviveOffers
  BY <1>0, <1>7, SMTT(30) DEF ReviveOffers, Promises, TypeOK
<1>8. CASE OtherMessage \/ \E u \in unacked : StatusUpdateAcknowledgement(u)
  <2>1. UNCHANGED <<free, offerable, outstanding, revives>> /\ slaves' \subseteq slaves
    BY <1>8, Zenon DEF OtherMessage, StatusUpdateAcknowledgement, Postprocess
  <2> QED BY <1>1, <2>1, Zenon
<1>9. CASE \E i \in Jobs : RegisterExecutor(i)
  <2>1. UNCHANGED <<free, offerable, outstanding, revives>> /\ slaves' \subseteq slaves
    BY <1>9, Zenon DEF RegisterExecutor, Postprocess
  <2> QED BY <1>1, <2>1, Zenon
<1>10. CASE \/ UNCHANGED vars
            \/ \E i \in Jobs : \/ ExecMessage(i) \/ JobEnds(i)
                               \/ \E t \in Tasks, state \in FinalStates : ExecEnd(i, t, state)
  <2>1. UNCHANGED <<free, offerable, outstanding, revives, slaves>>
    BY <1>10, Zenon DEF vars, ExecMessage, JobEnds, ExecEnd
  <2> QED BY <1>1, <2>1, Zenon
<1> QED BY <1>0, <1>2, <1>3, <1>4, <1>5, <1>6, <1>7, <1>8, <1>9, <1>10, SteadySteps, <1>PromisesGenerate,
           <1>PromisesLaunch, Zenon
        DEF SteadyNext
----------------------------------------------------------------------------
(* They hold initially.                                                    *)
LEMMA ResourcesInit == ASSUME Init PROVE Fits /\ Promises /\ Accounts
BY Zenon DEF Init, Fits, Promises, Accounts

(* The inductive invariant of this module.                                 *)
ResourceInv == SteadyInv /\ Fits /\ Promises

(* Every step keeps it.                                                    *)
LEMMA ResourceInvStep == ASSUME MaxRestarts = 0, ResourceInv, [Next]_vars PROVE ResourceInv'
<1>1. SteadyInv'
  BY SteadyInvStep, Zenon DEF ResourceInv
<1>2. Fits' /\ Promises'
  BY FitsStep, PromisesStep, Zenon DEF ResourceInv, SteadyInv
<1> QED BY <1>1, <1>2, Zenon DEF ResourceInv

(* With the accounts it implies that every task is accounted for:          *)
(* deletions wait only for tasks of jobs that are gone.                    *)
LEMMA AccountsMeans == ASSUME SteadyInv, Accounts PROVE TasksAccounted
<1> SUFFICES ASSUME NEW j \in Jobs, job[j] = "running" PROVE free[j] = Capacity - Cardinality(On(j))
  BY Zenon DEF TasksAccounted, Running
<1>1. AccountOf(j) /\ Waiting
  BY Zenon DEF Accounts, SteadyInv
<1>2. On(j) = TasksOf(j)
  BY <1>1, Zenon DEF On, TasksOf, AccountOf, Waiting, Live
<1> QED BY <1>1, <1>2, Zenon DEF AccountOf

(* No slave is given more tasks than it has resources for until the        *)
(* framework revives offers, and this needs no assumption on how tasks end *)
(* (__build_offer, __debit_resources, launch_tasks).                       *)
THEOREM NothingOvercommitted == ASSUME MaxRestarts = 0 PROVE Spec => []NoOvercommit
<1>1. Init => ResourceInv
  BY SteadyInvInit, ResourcesInit, Zenon DEF ResourceInv
<1>2. ResourceInv /\ [Next]_vars => ResourceInv'
  BY ResourceInvStep, Zenon
<1>3. ResourceInv => NoOvercommit
  BY Zenon DEF ResourceInv, Promises, NoOvercommit
<1> QED BY <1>1, <1>2, <1>3, PTL DEF Spec

(* The free resources of a running slave are always those of its           *)
(* configuration less those of its tasks, provided that no task ends with  *)
(* TASK_ERROR: each launch is debited once and each end credited once, by  *)
(* a kill, a status update or a registration (__debit_resources,           *)
(* __credit_resources).                                                    *)
THEOREM EveryTaskAccounted ==
    ASSUME MaxRestarts = 0, "ERROR" \notin FinalStates PROVE Spec => []TasksAccounted
<1>1. Init => Accounts
  BY ResourcesInit, Zenon
<1>2. SteadyInv /\ Accounts /\ [Next]_vars => Accounts'
  BY AccountsStep, Zenon DEF SteadyInv
<1>3. SteadyInv /\ Accounts => TasksAccounted
  BY AccountsMeans, Zenon
<1> QED BY <1>1, <1>2, <1>3, SteadyInvHolds, PTL DEF Spec
=============================================================================
