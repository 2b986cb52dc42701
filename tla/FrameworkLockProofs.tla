------------------------ MODULE FrameworkLockProofs ------------------------
(***************************************************************************)
(* Proofs about FrameworkLock for any number of messages, offer loops and  *)
(* framework records.                                                      *)
(*                                                                         *)
(* Mutual exclusion is proved for every mode of the service.  It is not    *)
(* inductive: that a greenlet inside the locked code owns the lock has to  *)
(* be carried along, and that a lock has an owner exactly when its         *)
(* recursion count is positive, so that one release never frees a lock     *)
(* that was taken twice.                                                   *)
(***************************************************************************)
EXTENDS FrameworkLock, TLAPS

(* A greenlet past its first step works on a record that was registered.   *)
WorksOnKnown ==
    \A g \in Greenlets :
        pc[g] \in {"acquire", "heartbeat", "scan", "held", "forwarding"} => rec[g] \in known

(* A lock is owned exactly when it has been taken more often than released. *)
OwnedIffTaken == \A r \in Records : owner[r] # NoOne <=> depth[r] > 0

(* A greenlet inside the locked code of a record owns its lock.            *)
InsideOwns == \A g \in Greenlets : Inside(g) => owner[rec[g]] = g

ExclusionInv == TypeOK /\ WorksOnKnown /\ OwnedIffTaken /\ InsideOwns

(* __release_framework_lock keeps a lock owned exactly while it is taken,  *)
(* and takes no lock away from a greenlet other than the caller.           *)
LEMMA ReleaseKeepsOwners ==
    ASSUME TypeOK, OwnedIffTaken,
           NEW g \in Greenlets, NEW r \in Records \cup {NoRecord},
           ReleaseFrameworkLock(g, r)
    PROVE  /\ owner' \in [Records -> Greenlets \cup {NoOne}]
           /\ depth' \in [Records -> Nat]
           /\ lockAcquired' \in [Records -> BOOLEAN]
           /\ OwnedIffTaken'
           /\ \A s \in Records : owner[s] # g => owner'[s] = owner[s]
  <1>1. CASE r = NoRecord \/ (r \in Records /\ ~lockAcquired[r])
    BY <1>1 DEF ReleaseFrameworkLock, TypeOK, OwnedIffTaken, lockVars
  <1>2. CASE ~(r = NoRecord \/ (r \in Records /\ ~lockAcquired[r]))
    <2>1. r \in Records
      BY <1>2
    <2>2. CASE owner[r] = g
      <3>1. depth[r] > 0 /\ depth[r] \in Nat
        BY <2>1, <2>2, GreenletsAssumption DEF TypeOK, OwnedIffTaken
      <3>2. depth' = [depth EXCEPT ![r] = @ - 1]
        BY <1>2, <2>2 DEF ReleaseFrameworkLock
      <3>3. owner' = IF depth[r] = 1 THEN [owner EXCEPT ![r] = NoOne] ELSE owner
        BY <1>2, <2>2 DEF ReleaseFrameworkLock
      <3>4. lockAcquired' = [lockAcquired EXCEPT ![r] = FALSE]
        BY <1>2 DEF ReleaseFrameworkLock
      <3>5. depth' \in [Records -> Nat] /\ owner' \in [Records -> Greenlets \cup {NoOne}]
        BY <2>1, <3>1, <3>2, <3>3 DEF TypeOK
      <3>6. lockAcquired' \in [Records -> BOOLEAN]
        BY <3>4 DEF TypeOK
      <3>7. OwnedIffTaken'
        BY <2>1, <2>2, <3>1, <3>2, <3>3, GreenletsAssumption DEF TypeOK, OwnedIffTaken
      <3>8. \A s \in Records : owner[s] # g => owner'[s] = owner[s]
        BY <2>1, <2>2, <3>3 DEF TypeOK
      <3> QED
        BY <3>5, <3>6, <3>7, <3>8
    <2>3. CASE owner[r] # g
      BY <1>2, <2>1, <2>3 DEF ReleaseFrameworkLock, TypeOK, OwnedIffTaken
    <2> QED
      BY <2>2, <2>3
  <1> QED
    BY <1>1, <1>2

(* The same for a greenlet that leaves the locked code by releasing: the   *)
(* others keep what they own.                                              *)
LEMMA LeavingKeepsExclusion ==
    ASSUME ExclusionInv,
           NEW g \in Greenlets, NEW r \in Records \cup {NoRecord},
           NEW place \in {"idle", "done"},
           ReleaseFrameworkLock(g, r),
           Goto(g, place),
           UNCHANGED <<kind, rec>>, known \subseteq known'
    PROVE  /\ pc' \in [Greenlets -> Places]
           /\ owner' \in [Records -> Greenlets \cup {NoOne}]
           /\ depth' \in [Records -> Nat]
           /\ lockAcquired' \in [Records -> BOOLEAN]
           /\ WorksOnKnown' /\ OwnedIffTaken' /\ InsideOwns'
  <1>1. /\ owner' \in [Records -> Greenlets \cup {NoOne}]
        /\ depth' \in [Records -> Nat]
        /\ lockAcquired' \in [Records -> BOOLEAN]
        /\ OwnedIffTaken'
        /\ \A s \in Records : owner[s] # g => owner'[s] = owner[s]
    BY ReleaseKeepsOwners DEF ExclusionInv
  <1>2. pc' \in [Greenlets -> Places]
    BY DEF ExclusionInv, TypeOK, Goto, Places
  <1>3. WorksOnKnown'
    BY DEF ExclusionInv, WorksOnKnown, TypeOK, Goto
  <1>4. InsideOwns'
    <2> SUFFICES ASSUME NEW h \in Greenlets, Inside(h)' PROVE owner'[rec'[h]] = h
      BY DEF InsideOwns
    <2>1. h # g /\ Inside(h)
      BY DEF ExclusionInv, TypeOK, Goto, Inside
    <2>2. rec[h] \in Records /\ owner[rec[h]] = h
      BY <2>1 DEF ExclusionInv, TypeOK, WorksOnKnown, InsideOwns, Inside
    <2> QED
      BY <1>1, <2>1, <2>2
  <1> QED
    BY <1>1, <1>2, <1>3, <1>4

(* A step that enters no locked code and changes no lock keeps exclusion.  *)
LEMMA QuietStepKeepsExclusion ==
    ASSUME ExclusionInv, TypeOK', WorksOnKnown', UNCHANGED lockVars,
           \A h \in Greenlets : Inside(h)' => Inside(h) /\ rec'[h] = rec[h]
    PROVE  ExclusionInv'
  BY DEF ExclusionInv, InsideOwns, OwnedIffTaken, lockVars

(* The initial states satisfy the invariant.                               *)
LEMMA ExclusionInit == Init => ExclusionInv
  <1> SUFFICES ASSUME Init PROVE ExclusionInv
    OBVIOUS
  <1>1. TypeOK
    BY DEF Init, TypeOK, Places, Kinds
  <1>2. WorksOnKnown /\ OwnedIffTaken /\ InsideOwns
    BY DEF Init, WorksOnKnown, OwnedIffTaken, InsideOwns, Inside
  <1> QED
    BY <1>1, <1>2 DEF ExclusionInv

(* Taking the lock, the only way into the locked code.                     *)
LEMMA AcquireKeepsExclusion ==
    ASSUME ExclusionInv, NEW g \in Greenlets, Acquire(g)
    PROVE  ExclusionInv'
  <1>1. rec[g] \in known /\ rec[g] \in Records
    BY DEF Acquire, ExclusionInv, WorksOnKnown, TypeOK
  <1>2. PICK place \in PlaceAfterAcquire(g) : Goto(g, place)
    BY DEF Acquire
  <1>3. place \in {"heartbeat", "scan", "held"}
    BY <1>2 DEF PlaceAfterAcquire
  <1>4. AcquireFrameworkLock(g, rec[g])
    BY DEF Acquire
  <1>5. pc' = [pc EXCEPT ![g] = place] /\ UNCHANGED <<kind, rec, known, active, finished, taskDict>>
    BY <1>2 DEF Acquire, Goto, trackerVars
  <1>6. TypeOK'
    <2>1. pc' \in [Greenlets -> Places]
      BY <1>3, <1>5 DEF ExclusionInv, TypeOK, Places
    <2>2. /\ owner' \in [Records -> Greenlets \cup {NoOne}]
          /\ depth' \in [Records -> Nat]
          /\ lockAcquired' \in [Records -> BOOLEAN]
      BY <1>1, <1>4 DEF ExclusionInv, TypeOK, AcquireFrameworkLock
    <2>3. deleteElements' \subseteq known' /\ scanBroken' \in BOOLEAN
      BY <1>1, <1>5 DEF ExclusionInv, TypeOK, Acquire
    <2> QED
      BY <1>5, <2>1, <2>2, <2>3 DEF ExclusionInv, TypeOK
  <1>7. WorksOnKnown'
    BY <1>1, <1>5 DEF ExclusionInv, TypeOK, WorksOnKnown
  <1>8. OwnedIffTaken'
    BY <1>1, <1>4, GreenletsAssumption
       DEF ExclusionInv, TypeOK, OwnedIffTaken, AcquireFrameworkLock
  <1>9. InsideOwns'
    <2> SUFFICES ASSUME NEW h \in Greenlets, Inside(h)' PROVE owner'[rec'[h]] = h
      BY DEF InsideOwns
    <2>1. CASE h = g
      BY <1>1, <1>4, <1>5, <2>1 DEF AcquireFrameworkLock, ExclusionInv, TypeOK
    <2>2. CASE h # g
      <3>1. Inside(h)
        BY <1>5, <2>2 DEF Inside, ExclusionInv, TypeOK
      <3>2. rec[h] \in Records /\ owner[rec[h]] = h
        BY <3>1 DEF ExclusionInv, InsideOwns, WorksOnKnown, TypeOK, Inside
      <3>3. rec[h] # rec[g]
        BY <1>4, <2>2, <3>2, GreenletsAssumption DEF AcquireFrameworkLock
      <3> QED
        BY <1>1, <1>4, <1>5, <3>2, <3>3 DEF AcquireFrameworkLock, ExclusionInv, TypeOK
    <2> QED
      BY <2>1, <2>2
  <1> QED
    BY <1>6, <1>7, <1>8, <1>9 DEF ExclusionInv

(* A handler's first step: it locks nothing, and may let go of the lock in *)
(* the postprocessor.                                                      *)
LEMMA StartKeepsExclusion ==
    ASSUME ExclusionInv, NEW g \in Greenlets, pc[g] = "idle",
           NEW k \in Kinds, NEW r \in Records \cup {NoRecord},
           NEW place \in {"acquire", "forwarding", "done"},
           place # "done" => r \in known,
           Enter(g, k, r, place), UNCHANGED <<lockVars, trackerVars, taskDict>>,
           deleteElements' \subseteq known, scanBroken' \in BOOLEAN
    PROVE  ExclusionInv'
  <1>1. TypeOK'
    BY DEF ExclusionInv, TypeOK, Enter, Goto, Places, lockVars, trackerVars
  <1>2. WorksOnKnown'
    BY DEF ExclusionInv, TypeOK, WorksOnKnown, Enter, Goto, trackerVars
  <1>3. \A h \in Greenlets : Inside(h)' => Inside(h) /\ rec'[h] = rec[h]
    BY DEF ExclusionInv, TypeOK, Inside, Enter, Goto
  <1> QED
    BY <1>1, <1>2, <1>3, QuietStepKeepsExclusion

(* A message whose framework is not tracked ends at once.                  *)
LEMMA UntrackedMessageKeepsExclusion ==
    ASSUME ExclusionInv, NEW g \in Handlers, pc[g] = "idle",
           Enter(g, "message", NoRecord, "done"), Postprocess(g),
           UNCHANGED <<trackerVars, taskDict>>
    PROVE  ExclusionInv'
  <1>1. g \in Greenlets /\ ActiveOrFinished \in Records \cup {NoRecord}
    BY DEF Greenlets, ActiveOrFinished, ExclusionInv, TypeOK
  <1>2. /\ owner' \in [Records -> Greenlets \cup {NoOne}]
        /\ depth' \in [Records -> Nat]
        /\ lockAcquired' \in [Records -> BOOLEAN]
        /\ OwnedIffTaken'
        /\ \A s \in Records : owner[s] # g => owner'[s] = owner[s]
    BY <1>1, ReleaseKeepsOwners DEF ExclusionInv, Postprocess
  <1>3. TypeOK'
    BY <1>1, <1>2 DEF ExclusionInv, TypeOK, Enter, Goto, Places, Kinds, trackerVars,
                      Postprocess, ApplyDeleteElements
  <1>4. WorksOnKnown'
    BY <1>1 DEF ExclusionInv, TypeOK, WorksOnKnown, Enter, Goto, trackerVars
  <1>5. InsideOwns'
    <2> SUFFICES ASSUME NEW h \in Greenlets, Inside(h)' PROVE owner'[rec'[h]] = h
      BY DEF InsideOwns
    <2>1. h # g /\ Inside(h) /\ rec'[h] = rec[h]
      BY <1>1 DEF ExclusionInv, TypeOK, Enter, Goto, Inside
    <2>2. rec[h] \in Records /\ owner[rec[h]] = h
      BY <2>1 DEF ExclusionInv, TypeOK, WorksOnKnown, InsideOwns, Inside
    <2> QED
      BY <1>2, <2>1, <2>2
  <1> QED
    BY <1>2, <1>3, <1>4, <1>5 DEF ExclusionInv

(* A registration that makes a new record and starts its offer loop.       *)
LEMMA NewRecordKeepsExclusion ==
    ASSUME ExclusionInv, NEW g \in Handlers, pc[g] = "idle",
           NEW r \in Records \ known, NEW place \in {"acquire", "done"},
           known' = known \cup {r}, active' = r, UNCHANGED finished,
           SpawnOfferLoop(g, r, "register", place),
           UNCHANGED <<lockVars, taskDict, deleteElements, scanBroken>>
    PROVE  ExclusionInv'
  <1>1. PICK l \in OfferLoops :
            /\ pc[l] = "done"
            /\ kind' = [kind EXCEPT ![g] = "register", ![l] = "offer"]
            /\ rec' = [rec EXCEPT ![g] = r]
            /\ pc' = [pc EXCEPT ![g] = place, ![l] = "idle"]
    BY DEF SpawnOfferLoop
  <1>2. g \in Greenlets /\ l \in Greenlets
    BY DEF Greenlets
  <1>3. TypeOK'
    BY <1>1, <1>2 DEF ExclusionInv, TypeOK, Places, Kinds, lockVars
  <1>4. WorksOnKnown'
    BY <1>1, <1>2 DEF ExclusionInv, TypeOK, WorksOnKnown
  <1>5. \A h \in Greenlets : Inside(h)' => Inside(h) /\ rec'[h] = rec[h]
    BY <1>1, <1>2 DEF ExclusionInv, TypeOK, Inside
  <1> QED
    BY <1>3, <1>4, <1>5, QuietStepKeepsExclusion

(* A greenlet that moves to a place where it owns no more than before.     *)
LEMMA GotoKeepsExclusion ==
    ASSUME ExclusionInv, NEW g \in Greenlets, NEW place \in Places,
           place \in {"idle", "done"} \/ (place = "held" /\ Inside(g)),
           Goto(g, place), UNCHANGED <<kind, rec, lockVars, trackerVars, taskDict>>,
           deleteElements' \subseteq known, scanBroken' \in BOOLEAN
    PROVE  ExclusionInv'
  <1>1. TypeOK'
    BY DEF ExclusionInv, TypeOK, Goto, lockVars, trackerVars
  <1>2. WorksOnKnown'
    BY DEF ExclusionInv, TypeOK, WorksOnKnown, Goto, Inside, trackerVars
  <1>3. \A h \in Greenlets : Inside(h)' => Inside(h) /\ rec'[h] = rec[h]
    BY DEF ExclusionInv, TypeOK, Inside, Goto
  <1> QED
    BY <1>1, <1>2, <1>3, QuietStepKeepsExclusion

(* Every step of a message handler keeps the invariant.                    *)
LEMMA HandlerKeepsExclusion ==
    ASSUME ExclusionInv, NEW g \in Handlers, Handler(g)
    PROVE  ExclusionInv'
  <1>1. g \in Greenlets /\ ActiveOrFinished \in Records \cup {NoRecord}
    BY DEF Greenlets, ActiveOrFinished, ExclusionInv, TypeOK
  <1>2. /\ deleteElements \subseteq known /\ scanBroken \in BOOLEAN
        /\ active # NoRecord => active \in known /\ active \in Records
    BY DEF ExclusionInv, TypeOK
  <1>3. ASSUME ApplyDeleteElements PROVE deleteElements' \subseteq known /\ scanBroken' \in BOOLEAN
    BY <1>3 DEF ApplyDeleteElements, ExclusionInv, TypeOK
  <1>4. CASE StartMessage(g)
    <2>1. CASE active = NoRecord
      BY <1>4, <2>1, UntrackedMessageKeepsExclusion DEF StartMessage
    <2>2. CASE active # NoRecord
      <3>1. /\ pc[g] = "idle" /\ Enter(g, "message", active, "acquire")
            /\ UNCHANGED <<lockVars, trackerVars, taskDict, deleteElements, scanBroken>>
        BY <1>4, <2>2 DEF StartMessage
      <3> QED
        BY <1>1, <1>2, <2>2, <3>1, StartKeepsExclusion DEF Kinds
    <2> QED
      BY <2>1, <2>2
  <1>5. CASE StartOther(g)
    BY <1>1, <1>3, <1>5, GotoKeepsExclusion DEF StartOther, Places
  <1>6. CASE StartRegistration(g)
    <2> DEFINE place == IF HttpFramework THEN "done" ELSE "acquire"
    <2>1. place \in {"acquire", "done"}
      OBVIOUS
    <2>2. /\ pc[g] = "idle" /\ ProcessRegistration(g, place)
          /\ UNCHANGED <<lockVars, taskDict, deleteElements, scanBroken>>
      BY <1>6 DEF StartRegistration
    <2> HIDE DEF place
    <2>3. CASE active # NoRecord
      <3>1. Enter(g, "register", active, place) /\ UNCHANGED trackerVars
        BY <2>2, <2>3 DEF ProcessRegistration
      <3> QED
        BY <1>1, <1>2, <2>1, <2>2, <2>3, <3>1, StartKeepsExclusion DEF Kinds
    <2>4. CASE active = NoRecord
      <3>1. PICK r \in Records \ known :
                /\ known' = known \cup {r} /\ active' = r /\ UNCHANGED finished
                /\ SpawnOfferLoop(g, r, "register", place)
        BY <2>2, <2>4 DEF ProcessRegistration
      <3> QED
        BY <2>1, <2>2, <3>1, NewRecordKeepsExclusion
    <2> QED
      BY <2>3, <2>4
  <1>7. CASE StartForward(g)
    BY <1>1, <1>2, <1>7, StartKeepsExclusion DEF StartForward, Kinds
  <1>8. CASE FinishForward(g)
    <2>1. /\ ReleaseFrameworkLock(g, ActiveOrFinished) /\ Goto(g, "done")
          /\ UNCHANGED <<kind, rec, known, active, finished, taskDict>> /\ ApplyDeleteElements
      BY <1>8 DEF FinishForward, Postprocess, trackerVars
    <2> QED
      BY <1>1, <1>3, <2>1, LeavingKeepsExclusion DEF ExclusionInv, TypeOK
  <1>9. CASE StartCall(g)
    BY <1>1, <1>2, <1>9, StartKeepsExclusion DEF StartCall, Kinds
  <1>10. CASE StartUnregister(g)
    <2>1. ASSUME PostprocessUnregister
          PROVE  deleteElements' \subseteq known /\ scanBroken' \in BOOLEAN
      BY <1>2, <1>3, <2>1 DEF PostprocessUnregister
    <2>2. CASE active = NoRecord
      BY <1>1, <1>10, <2>1, <2>2, StartKeepsExclusion DEF StartUnregister, Kinds
    <2>3. CASE active # NoRecord
      BY <1>1, <1>2, <1>10, <2>3, StartKeepsExclusion DEF StartUnregister, Kinds
    <2> QED
      BY <2>2, <2>3
  <1>11. CASE LaunchTasks(g)
    <2>1. rec[g] \in known
      BY <1>1, <1>11 DEF LaunchTasks, ExclusionInv, WorksOnKnown
    <2> QED
      BY <1>11, <2>1 DEF LaunchTasks, ExclusionInv, TypeOK, WorksOnKnown, OwnedIffTaken,
                         InsideOwns, Inside, lockVars, trackerVars
  <1>12. CASE FinishMessage(g)
    <2>1. /\ ReleaseFrameworkLock(g, ActiveOrFinished) /\ Goto(g, "done")
          /\ UNCHANGED <<kind, rec, known, active, finished, taskDict>> /\ ApplyDeleteElements
      BY <1>12 DEF FinishMessage, Postprocess, trackerVars
    <2> QED
      BY <1>1, <1>3, <2>1, LeavingKeepsExclusion DEF ExclusionInv, TypeOK
  <1>13. CASE FinishCall(g)
    <2>1. /\ ReleaseFrameworkLock(g, rec[g]) /\ Goto(g, "done")
          /\ UNCHANGED <<kind, rec, known, active, finished, taskDict, deleteElements, scanBroken>>
      BY <1>13 DEF FinishCall, trackerVars
    <2>2. rec[g] \in Records \cup {NoRecord}
      BY <1>1 DEF ExclusionInv, TypeOK
    <2> QED
      BY <1>1, <2>1, <2>2, LeavingKeepsExclusion DEF ExclusionInv, TypeOK
  <1> QED
    BY <1>4, <1>5, <1>6, <1>7, <1>8, <1>9, <1>10, <1>11, <1>12, <1>13 DEF Handler

(* The deletion of the framework keeps the invariant.                      *)
LEMMA DeleteFrameworkKeepsExclusion ==
    ASSUME ExclusionInv, NEW g \in Greenlets, DeleteFramework(g)
    PROVE  ExclusionInv'
  <1> DEFINE place == IF g = ChannelMonitor THEN "idle" ELSE "done"
  <1>1. /\ ReleaseFrameworkLock(g, rec[g]) /\ Goto(g, place)
        /\ UNCHANGED <<kind, rec, known, taskDict>>
    BY DEF DeleteFramework
  <1>2. place \in {"idle", "done"} /\ rec[g] \in Records \cup {NoRecord}
    BY DEF ExclusionInv, TypeOK
  <1> HIDE DEF place
  <1>3. active' \in known \cup {NoRecord} /\ finished' \in known \cup {NoRecord}
    BY DEF DeleteFramework, ExclusionInv, TypeOK
  <1>4. deleteElements' \subseteq known /\ scanBroken' \in BOOLEAN
    BY DEF DeleteFramework, PostprocessUnregister, ApplyDeleteElements, ExclusionInv, TypeOK
  <1> QED
    BY <1>1, <1>2, <1>3, <1>4, LeavingKeepsExclusion DEF ExclusionInv, TypeOK

(* Every step of the service keeps the invariant: one case per action.     *)
LEMMA ExclusionStep == ExclusionInv /\ [Next]_vars => ExclusionInv'
  <1> SUFFICES ASSUME ExclusionInv, [Next]_vars PROVE ExclusionInv'
    OBVIOUS
  <1>1. ASSUME NEW g \in Greenlets, Acquire(g) PROVE ExclusionInv'
    BY <1>1, AcquireKeepsExclusion
  <1>2. ASSUME NEW g \in Handlers, Handler(g) PROVE ExclusionInv'
    BY <1>2, HandlerKeepsExclusion
  <1>3. ASSUME NEW g \in Handlers \cup {ChannelMonitor}, DeleteFramework(g) PROVE ExclusionInv'
    BY <1>3, DeleteFrameworkKeepsExclusion DEF Greenlets
  <1>4. ASSUME NEW l \in OfferLoops, OfferLoop(l) PROVE ExclusionInv'
    <2>1. l \in Greenlets /\ rec[l] \in Records \cup {NoRecord}
      BY DEF Greenlets, ExclusionInv, TypeOK
    <2>2. /\ deleteElements \subseteq known /\ scanBroken \in BOOLEAN
          /\ active # NoRecord => active \in known /\ active \in Records
      BY DEF ExclusionInv, TypeOK
    <2>3. CASE StartOffer(l)
      BY <2>1, <2>2, <2>3, StartKeepsExclusion DEF StartOffer, Kinds
    <2>4. CASE ResumeAfterHeartbeat(l)
      BY <2>1, <2>2, <2>4, GotoKeepsExclusion DEF ResumeAfterHeartbeat, Places, Inside
    <2>5. CASE ClosedAtHeartbeat(l)
      BY <2>1, <2>2, <2>5, GotoKeepsExclusion DEF ClosedAtHeartbeat, Places
    <2>6. CASE FinishOffer(l)
      <3>1. /\ ReleaseFrameworkLock(l, rec[l]) /\ Goto(l, "idle")
            /\ UNCHANGED <<kind, rec, known, active, finished, taskDict, deleteElements, scanBroken>>
        BY <2>6 DEF FinishOffer, trackerVars
      <3> QED
        BY <2>1, <3>1, LeavingKeepsExclusion DEF ExclusionInv, TypeOK
    <2> QED
      BY <1>4, <2>3, <2>4, <2>5, <2>6 DEF OfferLoop
  <1>5. ASSUME JobMonitorStep PROVE ExclusionInv'
    <2>1. JobMonitor \in Greenlets /\ rec[JobMonitor] \in Records \cup {NoRecord}
      BY DEF Greenlets, ExclusionInv, TypeOK
    <2>2. /\ deleteElements \subseteq known /\ scanBroken \in BOOLEAN
          /\ ActiveOrFinished # NoRecord => ActiveOrFinished \in known /\ ActiveOrFinished \in Records
      BY DEF ExclusionInv, TypeOK, ActiveOrFinished
    <2>3. CASE StartDeleteJob
      <3>1. /\ pc[JobMonitor] = "idle" /\ ActiveOrFinished # NoRecord
            /\ Enter(JobMonitor, "deleteJob", ActiveOrFinished, "acquire")
            /\ UNCHANGED <<lockVars, trackerVars, taskDict, deleteElements, scanBroken>>
        BY <2>3 DEF StartDeleteJob
      <3> QED
        BY <2>1, <2>2, <3>1, StartKeepsExclusion DEF Kinds
    <2>4. CASE ScanSlaves
      BY <2>1, <2>2, <2>4, GotoKeepsExclusion DEF ScanSlaves, Places, Inside
    <2>5. CASE ScanFails
      BY <2>1, <2>2, <2>5, GotoKeepsExclusion DEF ScanFails, Places
    <2>6. CASE FinishDeleteJob
      <3>1. /\ ReleaseFrameworkLock(JobMonitor, rec[JobMonitor]) /\ Goto(JobMonitor, "idle")
            /\ UNCHANGED <<kind, rec, known, active, finished, taskDict, deleteElements, scanBroken>>
        BY <2>6 DEF FinishDeleteJob, trackerVars
      <3> QED
        BY <2>1, <3>1, LeavingKeepsExclusion DEF ExclusionInv, TypeOK
    <2> QED
      BY <1>5, <2>3, <2>4, <2>5, <2>6 DEF JobMonitorStep
  <1>6. ASSUME StartDeleteChannel PROVE ExclusionInv'
    <2>1. ChannelMonitor \in Greenlets /\ deleteElements \subseteq known /\ scanBroken \in BOOLEAN
      BY DEF Greenlets, ExclusionInv, TypeOK
    <2>2. active # NoRecord => active \in known /\ active \in Records
      BY DEF ExclusionInv, TypeOK
    <2> QED
      BY <1>6, <2>1, <2>2, StartKeepsExclusion DEF StartDeleteChannel, Kinds
  <1>7. CASE UNCHANGED vars
    BY <1>7 DEF vars, lockVars, trackerVars, ExclusionInv, TypeOK, WorksOnKnown,
                OwnedIffTaken, InsideOwns, Inside
  <1> QED
    BY <1>1, <1>2, <1>3, <1>4, <1>5, <1>6, <1>7 DEF Next

(* The invariant holds in every reachable state, in every mode.            *)
LEMMA ExclusionInvariant == Spec => []ExclusionInv
  BY ExclusionInit, ExclusionStep, PTL DEF Spec

(* Every variable of the service model keeps its type.                     *)
THEOREM TypeCorrect == Spec => []TypeOK
  <1>1. ExclusionInv => TypeOK
    BY DEF ExclusionInv
  <1> QED
    BY <1>1, ExclusionInvariant, PTL

(* Two greenlets never run the locked code of one framework record at the  *)
(* same time: for any number of messages and loops, with HTTP or without,  *)
(* with a database or without, identifiers used again or not.              *)
THEOREM FrameworkLockExcludes == Spec => []MutualExclusion
  <1>1. ExclusionInv => MutualExclusion
    BY DEF ExclusionInv, InsideOwns, MutualExclusion
  <1> QED
    BY <1>1, ExclusionInvariant, PTL

----------------------------------------------------------------------------
(***************************************************************************)
(* The lock of a registered framework is never stuck, for a framework with *)
(* a channel, without a database, whose identifier is registered once.     *)
(* Then there is one record at most, so the record that the postprocessor  *)
(* finds by identifier is the one its handler locked.                      *)
(***************************************************************************)
Native == ~HttpFramework /\ ~DbActive /\ ~IdReuse

(* The identifier is registered once.                                      *)
OneRecord == \A r, s \in known : r = s

(* The lock of a record that has not been created is free.                 *)
FreshIsFree ==
    \A r \in Records \ known : owner[r] = NoOne /\ depth[r] = 0 /\ ~lockAcquired[r]

(* No greenlet is at a place that only HTTP or a database leads to.        *)
NativePlaces ==
    \A g \in Greenlets : pc[g] \notin {"heartbeat", "scan", "forwarding"}

NativeInv == ExclusionInv /\ OneRecord /\ FreshIsFree /\ NativePlaces /\ ActiveLockDiscipline

(* A greenlet inside the locked code that releases the tracked record      *)
(* leaves its lock free.                                                   *)
LEMMA LeavingKeepsDiscipline ==
    ASSUME NativeInv, NEW g \in Greenlets, Inside(g),
           NEW r \in known \cup {NoRecord}, active # NoRecord => r = active,
           ReleaseFrameworkLock(g, r), known' = known,
           active' \in {active, NoRecord},
           NEW place \in {"idle", "done"}, Goto(g, place)
    PROVE  OneRecord' /\ FreshIsFree' /\ NativePlaces' /\ ActiveLockDiscipline'
  <1>1. OneRecord'
    BY DEF NativeInv, OneRecord
  <1>2. NativePlaces'
    BY DEF NativeInv, NativePlaces, ExclusionInv, TypeOK, Goto
  <1>3. FreshIsFree'
    <2>1. r \notin Records \ known
      BY RecordsAssumption
    <2>2. \A s \in Records \ known :
             owner'[s] = owner[s] /\ depth'[s] = depth[s] /\ lockAcquired'[s] = lockAcquired[s]
      BY <2>1 DEF NativeInv, ExclusionInv, TypeOK, ReleaseFrameworkLock, lockVars
    <2> QED
      BY <2>2 DEF NativeInv, FreshIsFree
  <1>4. ActiveLockDiscipline'
    <2>1. CASE active' = NoRecord
      BY <2>1 DEF ActiveLockDiscipline
    <2>2. CASE active' # NoRecord
      <3>1. active' = active /\ r = active /\ active \in Records /\ active \in known
        BY <2>2 DEF NativeInv, ExclusionInv, TypeOK
      <3>2. rec[g] = active
        BY <3>1 DEF NativeInv, OneRecord, ExclusionInv, WorksOnKnown, Inside
      <3>3. owner[active] = g
        BY <3>2 DEF NativeInv, ExclusionInv, InsideOwns
      <3>4. owner[active] # NoOne /\ active # NoRecord
        BY <3>1, <3>3, GreenletsAssumption, RecordsAssumption
      <3>5. depth[active] = 1 /\ lockAcquired[active]
        BY <3>4 DEF NativeInv, ActiveLockDiscipline
      <3>6. owner' = [owner EXCEPT ![active] = NoOne]
            /\ lockAcquired' = [lockAcquired EXCEPT ![active] = FALSE]
        BY <3>1, <3>3, <3>4, <3>5 DEF ReleaseFrameworkLock
      <3>7. owner'[active] = NoOne /\ ~lockAcquired'[active]
        BY <3>1, <3>6 DEF NativeInv, ExclusionInv, TypeOK
      <3> QED
        BY <3>1, <3>7 DEF ActiveLockDiscipline
    <2> QED
      BY <2>1, <2>2
  <1> QED
    BY <1>1, <1>2, <1>3, <1>4

(* A step that touches no lock and moves no greenlet that is inside.       *)
LEMMA QuietStepKeepsDiscipline ==
    ASSUME NativeInv, UNCHANGED lockVars, known' = known, active' = active,
           \A h \in Greenlets : Inside(h) => Inside(h)' /\ rec'[h] = rec[h],
           NativePlaces'
    PROVE  OneRecord' /\ FreshIsFree' /\ NativePlaces' /\ ActiveLockDiscipline'
  <1>1. OneRecord' /\ FreshIsFree'
    BY DEF NativeInv, OneRecord, FreshIsFree, lockVars
  <1>2. ASSUME active # NoRecord, owner[active] # NoOne PROVE owner[active] \in Greenlets
    BY <1>2 DEF NativeInv, ExclusionInv, TypeOK
  <1>3. ActiveLockDiscipline'
    BY <1>2 DEF NativeInv, ActiveLockDiscipline, lockVars
  <1> QED
    BY <1>1, <1>3

(* A greenlet that starts: nothing is locked by it yet.                    *)
LEMMA EnterKeepsDiscipline ==
    ASSUME NativeInv, NEW g \in Greenlets, pc[g] = "idle",
           NEW k, NEW r, NEW place \in {"acquire", "done"}, Enter(g, k, r, place),
           UNCHANGED <<lockVars, trackerVars>>
    PROVE  OneRecord' /\ FreshIsFree' /\ NativePlaces' /\ ActiveLockDiscipline'
  <1>1. \A h \in Greenlets : Inside(h) => Inside(h)' /\ rec'[h] = rec[h]
    BY DEF NativeInv, ExclusionInv, TypeOK, Enter, Goto, Inside
  <1>2. NativePlaces'
    BY DEF NativeInv, NativePlaces, ExclusionInv, TypeOK, Enter, Goto
  <1> QED
    BY <1>1, <1>2, QuietStepKeepsDiscipline DEF trackerVars

(* Taking the lock of a registered framework: it was free, since an owner  *)
(* would be inside already.                                                *)
LEMMA AcquireKeepsDiscipline ==
    ASSUME NativeInv, Native, NEW g \in Greenlets, Acquire(g)
    PROVE  OneRecord' /\ FreshIsFree' /\ NativePlaces' /\ ActiveLockDiscipline'
  <1>1. rec[g] \in known /\ rec[g] \in Records
    BY DEF Acquire, NativeInv, ExclusionInv, WorksOnKnown, TypeOK
  <1>2. PlaceAfterAcquire(g) = {"held"}
    BY Zenon DEF PlaceAfterAcquire, Native
  <1>3. pc' = [pc EXCEPT ![g] = "held"] /\ UNCHANGED <<rec, known, active>>
    BY <1>2 DEF Acquire, Goto, trackerVars
  <1>4. /\ owner[rec[g]] \in {NoOne, g}
        /\ owner' = [owner EXCEPT ![rec[g]] = g]
        /\ depth' = [depth EXCEPT ![rec[g]] = @ + 1]
        /\ lockAcquired' = [lockAcquired EXCEPT ![rec[g]] = TRUE]
    BY DEF Acquire, AcquireFrameworkLock
  <1>5. OneRecord' /\ NativePlaces'
    BY <1>3 DEF NativeInv, OneRecord, NativePlaces, ExclusionInv, TypeOK
  <1>6. FreshIsFree'
    BY <1>1, <1>3, <1>4 DEF NativeInv, FreshIsFree, ExclusionInv, TypeOK
  <1>7. ActiveLockDiscipline'
    <2> SUFFICES ASSUME active # NoRecord PROVE ActiveLockDiscipline'
      BY <1>3 DEF ActiveLockDiscipline
    <2>1. active = rec[g]
      BY <1>1 DEF NativeInv, OneRecord, ExclusionInv, TypeOK
    <2>2. pc[g] = "acquire" /\ ~Inside(g)
      BY DEF Acquire, Inside
    <2>3. owner[active] = NoOne
      BY <1>4, <2>1, <2>2 DEF NativeInv, ActiveLockDiscipline
    <2>4. depth[active] = 0
      BY <1>1, <2>1, <2>3 DEF NativeInv, ExclusionInv, OwnedIffTaken, TypeOK
    <2>5. owner'[active] = g /\ depth'[active] = 1 /\ lockAcquired'[active] = TRUE
      BY <1>1, <1>4, <2>1, <2>4 DEF NativeInv, ExclusionInv, TypeOK
    <2>6. Inside(g)' /\ rec'[g] = active
      BY <1>3, <2>1 DEF Inside, NativeInv, ExclusionInv, TypeOK
    <2> QED
      BY <1>3, <2>5, <2>6, GreenletsAssumption DEF ActiveLockDiscipline
  <1> QED
    BY <1>5, <1>6, <1>7

(* Every step of a message handler keeps the discipline.                   *)
LEMMA HandlerKeepsDiscipline ==
    ASSUME NativeInv, Native, NEW g \in Handlers, Handler(g)
    PROVE  OneRecord' /\ FreshIsFree' /\ NativePlaces' /\ ActiveLockDiscipline'
  <1>1. g \in Greenlets
    BY DEF Greenlets
  <1>2. /\ ActiveOrFinished \in known \cup {NoRecord}
        /\ active # NoRecord => ActiveOrFinished = active
    BY DEF ActiveOrFinished, NativeInv, ExclusionInv, TypeOK
  <1>3. CASE StartMessage(g)
    <2>1. CASE active = NoRecord
      <3>1. /\ pc' = [pc EXCEPT ![g] = "done"] /\ UNCHANGED <<known, active>>
            /\ ReleaseFrameworkLock(g, ActiveOrFinished)
        BY <1>3, <2>1 DEF StartMessage, Enter, Goto, Postprocess, trackerVars
      <3>2. \A s \in Records \ known :
               owner'[s] = owner[s] /\ depth'[s] = depth[s] /\ lockAcquired'[s] = lockAcquired[s]
        BY <1>2, <3>1, RecordsAssumption DEF NativeInv, ExclusionInv, TypeOK, ReleaseFrameworkLock, lockVars
      <3>3. OneRecord' /\ ActiveLockDiscipline'
        BY <2>1, <3>1 DEF NativeInv, OneRecord, ActiveLockDiscipline
      <3>4. FreshIsFree'
        BY <3>1, <3>2 DEF NativeInv, FreshIsFree
      <3>5. NativePlaces'
        BY <1>1, <3>1 DEF NativeInv, NativePlaces, ExclusionInv, TypeOK
      <3> QED
        BY <3>3, <3>4, <3>5
    <2>2. CASE active # NoRecord
      <3>1. /\ pc[g] = "idle" /\ Enter(g, "message", active, "acquire")
            /\ UNCHANGED <<lockVars, trackerVars>>
        BY <1>3, <2>2 DEF StartMessage
      <3> QED
        BY <1>1, <3>1, EnterKeepsDiscipline
    <2> QED
      BY <2>1, <2>2
  <1>4. CASE StartOther(g)
    <2>1. \A h \in Greenlets : Inside(h) => Inside(h)' /\ rec'[h] = rec[h]
      BY <1>1, <1>4 DEF StartOther, Goto, Inside, NativeInv, ExclusionInv, TypeOK
    <2>2. NativePlaces'
      BY <1>1, <1>4 DEF StartOther, Goto, NativePlaces, NativeInv, ExclusionInv, TypeOK
    <2> QED
      BY <1>4, <2>1, <2>2, QuietStepKeepsDiscipline DEF StartOther, trackerVars
  <1>5. CASE StartRegistration(g)
    <2>1. /\ pc[g] = "idle" /\ ProcessRegistration(g, "acquire") /\ UNCHANGED lockVars
      BY <1>5 DEF StartRegistration, Native
    <2>2. CASE active # NoRecord
      BY <1>1, <2>1, <2>2, EnterKeepsDiscipline DEF ProcessRegistration
    <2>3. CASE active = NoRecord
      <3>1. PICK r \in Records \ known :
                /\ known = {} \/ IdReuse
                /\ known' = known \cup {r} /\ active' = r
                /\ SpawnOfferLoop(g, r, "register", "acquire")
        BY <2>1, <2>3 DEF ProcessRegistration
      <3>2. known' = {r} /\ active' = r
        BY <3>1 DEF Native
      <3>3. PICK l \in OfferLoops :
                pc' = [pc EXCEPT ![g] = "acquire", ![l] = "idle"]
        BY <3>1 DEF SpawnOfferLoop
      <3>4. NativePlaces'
        BY <1>1, <3>3 DEF Greenlets, NativeInv, NativePlaces, ExclusionInv, TypeOK
      <3>5. OneRecord' /\ FreshIsFree'
        BY <2>1, <3>1, <3>2 DEF NativeInv, OneRecord, FreshIsFree, lockVars
      <3>6. owner'[r] = NoOne /\ ~lockAcquired'[r]
        BY <2>1, <3>1 DEF NativeInv, FreshIsFree, lockVars
      <3>7. ActiveLockDiscipline'
        BY <3>2, <3>6 DEF ActiveLockDiscipline
      <3> QED
        BY <3>4, <3>5, <3>7
    <2> QED
      BY <2>2, <2>3
  <1>6. CASE StartForward(g)
    BY <1>6 DEF StartForward, Native
  <1>7. CASE FinishForward(g)
    BY <1>1, <1>7 DEF FinishForward, NativeInv, NativePlaces
  <1>8. CASE StartCall(g)
    BY <1>8 DEF StartCall, Native
  <1>9. CASE StartUnregister(g)
    <2>1. CASE active = NoRecord
      BY <1>1, <1>9, <2>1, EnterKeepsDiscipline DEF StartUnregister
    <2>2. CASE active # NoRecord
      BY <1>1, <1>9, <2>2, EnterKeepsDiscipline DEF StartUnregister
    <2> QED
      BY <2>1, <2>2
  <1>10. CASE LaunchTasks(g)
    <2>1. \A h \in Greenlets : Inside(h) => Inside(h)' /\ rec'[h] = rec[h]
      BY <1>10 DEF LaunchTasks, Inside
    <2>2. NativePlaces'
      BY <1>10 DEF LaunchTasks, NativePlaces, NativeInv
    <2> QED
      BY <1>10, <2>1, <2>2, QuietStepKeepsDiscipline DEF LaunchTasks, trackerVars
  <1>11. CASE FinishMessage(g)
    <2>1. /\ Inside(g) /\ Goto(g, "done") /\ UNCHANGED <<known, active>>
          /\ ReleaseFrameworkLock(g, ActiveOrFinished)
      BY <1>11 DEF FinishMessage, Postprocess, Inside, trackerVars
    <2> QED
      BY <1>1, <1>2, <2>1, LeavingKeepsDiscipline
  <1>12. CASE FinishCall(g)
    <2>1. /\ Inside(g) /\ Goto(g, "done") /\ UNCHANGED <<known, active>>
          /\ ReleaseFrameworkLock(g, rec[g])
      BY <1>12 DEF FinishCall, Inside, trackerVars
    <2>2. rec[g] \in known /\ (active # NoRecord => rec[g] = active)
      BY <1>1, <2>1 DEF NativeInv, OneRecord, ExclusionInv, WorksOnKnown, TypeOK, Inside
    <2> QED
      BY <1>1, <2>1, <2>2, LeavingKeepsDiscipline
  <1> QED
    BY <1>3, <1>4, <1>5, <1>6, <1>7, <1>8, <1>9, <1>10, <1>11, <1>12 DEF Handler

(* Every step of the service keeps the discipline: one case per action.    *)
LEMMA DisciplineStep ==
    ASSUME Native
    PROVE  NativeInv /\ [Next]_vars => NativeInv'
  <1> SUFFICES ASSUME NativeInv, [Next]_vars
               PROVE  OneRecord' /\ FreshIsFree' /\ NativePlaces' /\ ActiveLockDiscipline'
    BY ExclusionStep DEF NativeInv
  <1>1. ASSUME NEW g \in Greenlets, Acquire(g)
        PROVE  OneRecord' /\ FreshIsFree' /\ NativePlaces' /\ ActiveLockDiscipline'
    BY <1>1, AcquireKeepsDiscipline
  <1>2. ASSUME NEW g \in Handlers, Handler(g)
        PROVE  OneRecord' /\ FreshIsFree' /\ NativePlaces' /\ ActiveLockDiscipline'
    BY <1>2, HandlerKeepsDiscipline
  <1>3. ASSUME NEW g \in Greenlets, pc[g] = "held", NEW place \in {"idle", "done"},
               ReleaseFrameworkLock(g, rec[g]), Goto(g, place), known' = known,
               active' \in {active, NoRecord}
        PROVE  OneRecord' /\ FreshIsFree' /\ NativePlaces' /\ ActiveLockDiscipline'
    <2>1. Inside(g)
      BY <1>3 DEF Inside
    <2>2. rec[g] \in known /\ (active # NoRecord => rec[g] = active)
      BY <1>3 DEF NativeInv, OneRecord, ExclusionInv, WorksOnKnown, TypeOK
    <2> QED
      BY <1>3, <2>1, <2>2, LeavingKeepsDiscipline
  <1>4. ASSUME NEW g \in Handlers \cup {ChannelMonitor}, DeleteFramework(g)
        PROVE  OneRecord' /\ FreshIsFree' /\ NativePlaces' /\ ActiveLockDiscipline'
    <2> DEFINE place == IF g = ChannelMonitor THEN "idle" ELSE "done"
    <2>1. g \in Greenlets /\ place \in {"idle", "done"}
      BY DEF Greenlets
    <2>2. /\ pc[g] = "held" /\ ReleaseFrameworkLock(g, rec[g]) /\ Goto(g, place)
          /\ known' = known /\ active' \in {active, NoRecord}
      BY <1>4 DEF DeleteFramework
    <2> QED
      BY <1>3, <2>1, <2>2
  <1>5. ASSUME NEW l \in OfferLoops, OfferLoop(l)
        PROVE  OneRecord' /\ FreshIsFree' /\ NativePlaces' /\ ActiveLockDiscipline'
    <2>1. l \in Greenlets
      BY DEF Greenlets
    <2>2. CASE StartOffer(l)
      <3>1. CASE active = NoRecord
        BY <2>1, <2>2, <3>1, EnterKeepsDiscipline DEF StartOffer
      <3>2. CASE active # NoRecord
        BY <2>1, <2>2, <3>2, EnterKeepsDiscipline DEF StartOffer
      <3> QED
        BY <3>1, <3>2
    <2>3. CASE ResumeAfterHeartbeat(l) \/ ClosedAtHeartbeat(l)
      BY <2>1, <2>3 DEF ResumeAfterHeartbeat, ClosedAtHeartbeat, NativeInv, NativePlaces
    <2>4. CASE FinishOffer(l)
      BY <1>3, <2>1, <2>4 DEF FinishOffer, trackerVars
    <2> QED
      BY <1>5, <2>2, <2>3, <2>4 DEF OfferLoop
  <1>6. ASSUME JobMonitorStep
        PROVE  OneRecord' /\ FreshIsFree' /\ NativePlaces' /\ ActiveLockDiscipline'
    <2>1. JobMonitor \in Greenlets
      BY DEF Greenlets
    <2>2. CASE StartDeleteJob
      BY <2>1, <2>2, EnterKeepsDiscipline DEF StartDeleteJob
    <2>3. CASE ScanSlaves \/ ScanFails
      BY <2>1, <2>3 DEF ScanSlaves, ScanFails, NativeInv, NativePlaces
    <2>4. CASE FinishDeleteJob
      BY <1>3, <2>1, <2>4 DEF FinishDeleteJob, trackerVars
    <2> QED
      BY <1>6, <2>2, <2>3, <2>4 DEF JobMonitorStep
  <1>7. ASSUME StartDeleteChannel
        PROVE  OneRecord' /\ FreshIsFree' /\ NativePlaces' /\ ActiveLockDiscipline'
    <2>1. ChannelMonitor \in Greenlets
      BY DEF Greenlets
    <2> QED
      BY <1>7, <2>1, EnterKeepsDiscipline DEF StartDeleteChannel
  <1>8. CASE UNCHANGED vars
    <2>1. UNCHANGED <<pc, rec, owner, depth, lockAcquired, known, active>>
      BY <1>8 DEF vars, lockVars, trackerVars
    <2>2. \A h \in Greenlets : Inside(h) => Inside(h)' /\ rec'[h] = rec[h]
      BY <2>1 DEF Inside
    <2>3. NativePlaces'
      BY <2>1 DEF NativePlaces, NativeInv
    <2> QED
      BY <2>1, <2>2, <2>3, QuietStepKeepsDiscipline DEF lockVars
  <1> QED
    BY <1>1, <1>2, <1>4, <1>5, <1>6, <1>7, <1>8 DEF Next

(* As long as a framework with a channel is registered, its lock is never  *)
(* stuck and lock_acquired says whether it is taken, for any number of     *)
(* messages: without a database, and with identifiers that are registered  *)
(* once.  Each of the three conditions is needed: TLC finds a violation    *)
(* when one of the three constants is TRUE (see the run lock_http).        *)
THEOREM RegisteredLockNeverStuck ==
    ASSUME Native
    PROVE  Spec => []ActiveLockDiscipline
  <1>1. Init => NativeInv
    <2> SUFFICES ASSUME Init PROVE OneRecord /\ FreshIsFree /\ NativePlaces /\ ActiveLockDiscipline
      BY ExclusionInit DEF NativeInv
    <2> QED
      BY DEF Init, OneRecord, FreshIsFree, NativePlaces, ActiveLockDiscipline
  <1>2. NativeInv /\ [Next]_vars => NativeInv'
    BY DisciplineStep
  <1>3. NativeInv => ActiveLockDiscipline
    BY DEF NativeInv
  <1> QED
    BY <1>1, <1>2, <1>3, PTL DEF Spec
=============================================================================
