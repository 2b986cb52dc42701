----------------------- MODULE SchedulerDriverProofs -----------------------
(***************************************************************************)
(* Proofs about SchedulerDriver for every finite set of tasks, every set   *)
(* of acceptOffers calls and every bound: the driver is well typed, and it *)
(* forgets a task that has ended.  The second rests on LaunchInv: a task   *)
(* is launched once, in that it is in one launch of one thread, or in one  *)
(* message of the master's list, or known to the master (LaunchedOnce);    *)
(* and once its end is sent, nothing that says it is alive is read after   *)
(* that end (InOrder).  Each action has a lemma that it keeps LaunchInv.   *)
(***************************************************************************)
EXTENDS SchedulerDriver, TLAPS

(* Appending to a list.                                                    *)
LEMMA AppendIs ==
    ASSUME NEW S, NEW s \in Seq(S), NEW e \in S
    PROVE  /\ Append(s, e) \in Seq(S)
           /\ Len(Append(s, e)) = Len(s) + 1
           /\ \A i \in DOMAIN Append(s, e) :
                 \/ i \in DOMAIN s /\ Append(s, e)[i] = s[i]
                 \/ i = Len(s) + 1 /\ Append(s, e)[i] = e
           /\ \A i \in DOMAIN s : i \in DOMAIN Append(s, e) /\ i # Len(s) + 1
BY SMTT(30)

(* What is left of a list.                                                 *)
LEMMA TailIs ==
    ASSUME NEW S, NEW s \in Seq(S), s # <<>>
    PROVE  /\ Tail(s) \in Seq(S) /\ Head(s) \in S
           /\ 1 \in DOMAIN s /\ Head(s) = s[1]
           /\ \A i \in DOMAIN Tail(s) : i + 1 \in DOMAIN s /\ i + 1 # 1 /\ Tail(s)[i] = s[i + 1]
           /\ \A i, k \in DOMAIN Tail(s) : /\ i # k => i + 1 # k + 1
                                           /\ i < k <=> i + 1 < k + 1
<1>1. Tail(s) \in Seq(S) /\ Head(s) \in S /\ Head(s) = s[1] /\ Len(s) \in Nat \ {0}
  BY SMTT(30)
<1>2. Len(Tail(s)) = Len(s) - 1 /\ \A i \in 1..(Len(s) - 1) : Tail(s)[i] = s[i + 1]
  BY SMTT(30)
<1>3. DOMAIN s = 1..Len(s) /\ DOMAIN Tail(s) = 1..(Len(s) - 1)
  BY <1>1, <1>2, SMTT(30)
<1>4. /\ 1 \in 1..Len(s)
      /\ \A i \in 1..(Len(s) - 1) : i + 1 \in 1..Len(s) /\ i + 1 # 1
      /\ \A i, k \in 1..(Len(s) - 1) : (i # k => i + 1 # k + 1) /\ (i < k <=> i + 1 < k + 1)
  BY <1>1, SMTT(30)
<1> QED
  BY <1>1, <1>2, <1>3, <1>4, Zenon

(* All but the last of a list, and the last.                               *)
LEMMA FrontIs ==
    ASSUME NEW S, NEW s \in Seq(S), s # <<>>
    PROVE  /\ Front(s) \in Seq(S) /\ Last(s) \in S
           /\ Len(s) \in DOMAIN s /\ Last(s) = s[Len(s)]
           /\ Len(Front(s)) + 1 = Len(s)
           /\ \A i \in DOMAIN Front(s) : i \in DOMAIN s /\ i # Len(s) /\ Front(s)[i] = s[i]
<1>1. Len(s) \in Nat \ {0} /\ DOMAIN s = 1..Len(s)
  BY SMTT(30)
<1>2. \A i \in 1..Len(s) : s[i] \in S
  BY SMTT(30)
<1>3. Front(s) = [i \in 1..(Len(s) - 1) |-> s[i]] /\ Last(s) = s[Len(s)]
  BY Zenon DEF Front, Last
<1>4. Len(s) - 1 \in Nat /\ \A i \in 1..(Len(s) - 1) : i \in 1..Len(s) /\ i # Len(s)
  <2>1. \A n \in Nat \ {0} : n - 1 \in Nat /\ \A i \in 1..(n - 1) : i \in 1..n /\ i # n
    BY SMTT(30)
  <2> QED
    BY <1>1, <2>1, Zenon
<1>5. Front(s) \in [1..(Len(s) - 1) -> S]
  BY <1>2, <1>3, <1>4, Zenon
<1>6. Front(s) \in Seq(S) /\ Len(Front(s)) = Len(s) - 1 /\ DOMAIN Front(s) = 1..(Len(s) - 1)
  BY <1>4, <1>5, SMTT(30)
<1>7. Len(s) \in 1..Len(s) /\ Len(Front(s)) + 1 = Len(s)
  BY <1>1, <1>6, SMTT(30)
<1>8. \A i \in 1..(Len(s) - 1) : Front(s)[i] = s[i]
  BY <1>3, Zenon
<1> QED
  BY <1>1, <1>2, <1>3, <1>4, <1>6, <1>7, <1>8, Zenon

(* The elements of a set of tasks in some order.                           *)
LEMMA SetToSeqIs ==
    ASSUME NEW T \in SUBSET Tasks
    PROVE  SetToSeq(T) \in Seq(T)
<1>1. Cardinality(T) \in Nat /\ Injection(1 .. Cardinality(T), T) # {}
  BY TasksAssumption, Zenon
<1>2. PICK f \in [1 .. Cardinality(T) -> T] : IsInjective(f)
  BY <1>1, Zenon DEF Injection
<1>3. SetToSeq(T) \in [1 .. Cardinality(T) -> T]
  BY <1>2, Zenon DEF SetToSeq
<1> QED
  BY <1>1, <1>3, SMTT(30)

(* Two lists, one after the other.                                         *)
LEMMA ConcatIs ==
    ASSUME NEW S, NEW s \in Seq(S), NEW r \in Seq(S)
    PROVE  /\ s \o r \in Seq(S)
           /\ \A i \in DOMAIN (s \o r) :
                 \/ i \in DOMAIN s /\ (s \o r)[i] = s[i]
                 \/ i - Len(s) \in DOMAIN r /\ i > Len(s) /\ (s \o r)[i] = r[i - Len(s)]
           /\ \A i \in DOMAIN s : i <= Len(s)
BY SMTT(30)

(* What the driver writes to the list of the master.                       *)
Message == [type : Requests, tasks : SUBSET Tasks]

(* What the master answers: a status update says that a task it knows is   *)
(* running, that it knows no such task, or that it has ended it.           *)
AnswerTo(m, n) ==
    n.type = "statusUpdate" =>
        \E t \in m.tasks :
            \/ m.type = "Reconcile" /\ n = Update(t, IF t \in known THEN "RUNNING" ELSE "LOST")
            \/ m.type = "Kill" /\ t \in known /\ n = Update(t, "FINISHED")

(* The master answers with notifications, each of them as AnswerTo says.   *)
LEMMA AnswersAre ==
    ASSUME NEW m \in Message
    PROVE  /\ Answers(m) \in Seq(Notification)
           /\ \A i \in DOMAIN Answers(m) : AnswerTo(m, Answers(m)[i])
<1>0. m.tasks \in SUBSET Tasks /\ m.type \in Requests
  BY Zenon DEF Message
<1>1. CASE m.type = "Register"
  <2>1. Answers(m) = <<Note("registered")>>
    BY <1>1, Zenon DEF Answers
  <2>2. Note("registered") \in Notification /\ Note("registered").type # "statusUpdate"
    BY Zenon DEF Note, Notification, Notifications, TaskStates
  <2> QED
    BY <2>1, <2>2, SMTT(30) DEF AnswerTo
<1>2. CASE m.type = "Reregister"
  <2>1. Answers(m) = <<Note("reregistered")>>
    BY <1>2, Zenon DEF Answers
  <2>2. Note("reregistered") \in Notification /\ Note("reregistered").type # "statusUpdate"
    BY Zenon DEF Note, Notification, Notifications, TaskStates
  <2> QED
    BY <2>1, <2>2, SMTT(30) DEF AnswerTo
<1>3. CASE m.type = "Reconcile"
  <2> DEFINE all == SetToSeq(m.tasks)
             State(t) == IF t \in known THEN "RUNNING" ELSE "LOST"
  <2>1. Answers(m) = [i \in DOMAIN all |-> Update(all[i], State(all[i]))]
    BY <1>3, Zenon DEF Answers
  <2>2. all \in Seq(m.tasks)
    BY <1>0, SetToSeqIs, Zenon
  <2> HIDE DEF all
  <2>3. \A t \in m.tasks : Update(t, State(t)) \in Notification
    BY <1>0, Zenon DEF Update, Notification, Notifications, TaskStates
  <2> HIDE DEF State
  <2>4. Answers(m) \in Seq(Notification) /\ DOMAIN Answers(m) = DOMAIN all
    BY <2>1, <2>2, <2>3, SMTT(30)
  <2>5. ASSUME NEW i \in DOMAIN all PROVE AnswerTo(m, Answers(m)[i])
    <3>1. all[i] \in m.tasks /\ Answers(m)[i] = Update(all[i], State(all[i]))
      BY <2>1, <2>2, SMTT(30)
    <3> QED
      BY <1>3, <3>1, Zenon DEF AnswerTo, State
  <2> QED
    BY <2>4, <2>5, Zenon
<1>4. CASE m.type = "Kill"
  <2> DEFINE killed == SetToSeq(m.tasks \cap known)
  <2>1. Answers(m) = [i \in DOMAIN killed |-> Update(killed[i], "FINISHED")]
    BY <1>4, Zenon DEF Answers
  <2>2. killed \in Seq(m.tasks \cap known)
    <3>1. m.tasks \cap known \in SUBSET Tasks
      BY <1>0, Zenon
    <3> QED
      BY <3>1, SetToSeqIs, Zenon
  <2> HIDE DEF killed
  <2>3. \A t \in m.tasks : Update(t, "FINISHED") \in Notification
    BY <1>0, Zenon DEF Update, Notification, Notifications, TaskStates
  <2>4. Answers(m) \in Seq(Notification) /\ DOMAIN Answers(m) = DOMAIN killed
    BY <2>1, <2>2, <2>3, SMTT(30)
  <2>5. ASSUME NEW i \in DOMAIN killed PROVE AnswerTo(m, Answers(m)[i])
    <3>1. killed[i] \in m.tasks \cap known /\ Answers(m)[i] = Update(killed[i], "FINISHED")
      BY <2>1, <2>2, SMTT(30)
    <3> QED
      BY <1>4, <3>1, Zenon DEF AnswerTo
  <2> QED
    BY <2>4, <2>5, Zenon
<1>5. CASE m.type \notin {"Register", "Reregister", "Reconcile", "Kill"}
  BY <1>5, SMTT(30) DEF Answers
<1> QED
  BY <1>1, <1>2, <1>3, <1>4, <1>5, Zenon
----------------------------------------------------------------------------
(* Types *)

(* What a thread can be in.                                                *)
Frames == CallbackFrame \cup LaunchFrame

(* A frame is a callback or a launch.                                      *)
LEMMA FrameKinds ==
    /\ \A f \in Frames : f.at = "launch" => f \in LaunchFrame
    /\ \A f \in Frames : f.at # "launch" => f \in CallbackFrame
BY Zenon DEF Frames, CallbackFrame, LaunchFrame

(* The stack of one thread changes.                                        *)
LEMMA OneStack ==
    ASSUME stack \in [Threads -> Seq(Frames)], NEW th \in Threads, NEW s \in Seq(Frames),
           stack' = [stack EXCEPT ![th] = s]
    PROVE  /\ stack' \in [Threads -> Seq(Frames)]
           /\ stack'[th] = s
           /\ \A other \in Threads : other # th => stack'[other] = stack[other]
BY Zenon

(* The frame a thread is in, and those below it.                           *)
LEMMA TopIs ==
    ASSUME stack \in [Threads -> Seq(Frames)], NEW th \in Threads, stack[th] # <<>>
    PROVE  Top(th) \in Frames /\ Front(stack[th]) \in Seq(Frames)
<1>1. stack[th] \in Seq(Frames)
  BY Zenon
<1> QED
  BY <1>1, FrontIs, Zenon DEF Top

(* A thread enters a callback or a launch (Push).                          *)
LEMMA Pushed ==
    ASSUME stack \in [Threads -> Seq(Frames)], NEW th \in Threads, NEW f \in Frames, Push(th, f)
    PROVE  /\ stack' \in [Threads -> Seq(Frames)]
           /\ stack'[th] = Append(stack[th], f)
           /\ \A other \in Threads : other # th => stack'[other] = stack[other]
<1>1. stack[th] \in Seq(Frames)
  BY Zenon
<1>2. Append(stack[th], f) \in Seq(Frames)
  BY <1>1, AppendIs, Zenon
<1>3. stack' = [stack EXCEPT ![th] = Append(stack[th], f)]
  BY Zenon DEF Push
<1> QED
  BY <1>2, <1>3, OneStack, Zenon

(* A thread leaves the frame it is in (Pop).                               *)
LEMMA Popped ==
    ASSUME stack \in [Threads -> Seq(Frames)], NEW th \in Threads, stack[th] # <<>>, Pop(th)
    PROVE  /\ stack' \in [Threads -> Seq(Frames)]
           /\ stack'[th] = Front(stack[th])
           /\ \A other \in Threads : other # th => stack'[other] = stack[other]
<1>1. Front(stack[th]) \in Seq(Frames)
  BY TopIs, Zenon
<1>2. stack' = [stack EXCEPT ![th] = Front(stack[th])]
  BY Zenon DEF Pop
<1> QED
  BY <1>1, <1>2, OneStack, Zenon

(* The frame a thread is in goes on (Replaced).                            *)
LEMMA TopReplaced ==
    ASSUME stack \in [Threads -> Seq(Frames)], NEW th \in Threads, stack[th] # <<>>,
           NEW f \in Frames, stack' = Replaced(th, f)
    PROVE  /\ stack' \in [Threads -> Seq(Frames)]
           /\ stack'[th] = Append(Front(stack[th]), f)
           /\ \A other \in Threads : other # th => stack'[other] = stack[other]
<1>1. Append(Front(stack[th]), f) \in Seq(Frames)
  BY TopIs, AppendIs, Zenon
<1>2. stack' = [stack EXCEPT ![th] = Append(Front(stack[th]), f)]
  BY Zenon DEF Replaced
<1> QED
  BY <1>1, <1>2, OneStack, Zenon

(* An update of the driver's own goes on top of the launch it is about.    *)
LEMMA UpdateIsFrame ==
    ASSUME NEW n \in Notification
    PROVE  Callback(n) \in Frames /\ Callback(n).at = "call" /\ Callback(n).note = n
BY Zenon DEF Callback, Frames, CallbackFrame

(* The driver's own update for a task of a launch: the launch goes on and  *)
(* the callback is on top of it (DriverUpdate).                            *)
LEMMA DriverUpdated ==
    ASSUME stack \in [Threads -> Seq(Frames)], NEW th \in Threads, stack[th] # <<>>,
           NEW f \in Frames, NEW t \in Tasks, DriverUpdate(th, f, t)
    PROVE  /\ stack' \in [Threads -> Seq(Frames)]
           /\ \/ stack'[th] = Append(Front(stack[th]), f)
              \/ stack'[th] = Append(Append(Front(stack[th]), f), Callback(Update(t, "LOST")))
           /\ \A other \in Threads : other # th => stack'[other] = stack[other]
<1> DEFINE s == Append(Front(stack[th]), f)
           c == Callback(Update(t, "LOST"))
<1>1. s \in Seq(Frames)
  BY TopIs, AppendIs, Zenon
<1>2. c \in Frames
  <2>1. Update(t, "LOST") \in Notification
    BY Zenon DEF Update, Notification, Notifications, TaskStates
  <2> QED
    BY <2>1, UpdateIsFrame, Zenon
<1>3. CASE aborted
  <2>1. stack' = [stack EXCEPT ![th] = s \o <<>>]
    BY <1>3, Zenon DEF DriverUpdate
  <2>2. s \o <<>> = s
    <3> HIDE DEF s
    <3> QED BY <1>1, SMTT(30)
  <2> HIDE DEF s
  <2> QED
    BY <1>1, <2>1, <2>2, OneStack, Zenon DEF s
<1>4. CASE ~aborted
  <2>1. stack' = [stack EXCEPT ![th] = s \o <<c>>]
    BY <1>4, Zenon DEF DriverUpdate
  <2>2. s \o <<c>> = Append(s, c) /\ Append(s, c) \in Seq(Frames)
    <3> HIDE DEF s, c
    <3> QED BY <1>1, <1>2, AppendIs, SMTT(30)
  <2> QED
    BY <2>1, <2>2, OneStack, Zenon
<1> QED
  BY <1>3, <1>4, Zenon

(* What is written to the list of the master.                              *)
LEMMA WrittenIs ==
    ASSUME NEW q \in Seq(Message), NEW m \in Message
    PROVE  /\ Written(q, m) \in Seq(Message)
           /\ Written(q, m) = q \/ Written(q, m) = Append(q, m)
BY SMTT(30) DEF Written

(* The requests of the driver are messages.                                *)
LEMMA RequestIs ==
    ASSUME NEW type \in Requests, NEW T \in SUBSET Tasks
    PROVE  Request(type, T) \in Message
BY Zenon DEF Request, Message
(* A new driver.                                                           *)
LEMMA TypeInit == Init => TypeOK
<1> SUFFICES ASSUME Init PROVE TypeOK
  BY Zenon
<1>1. <<>> \in Seq(Notification) /\ <<>> \in Seq(Message) /\ <<>> \in Seq(Frames)
  BY SMTT(30)
<1>2. {connected, aborted, failover, hasId, conn, redis, errorDue, offered} \subseteq BOOLEAN
  BY SchedulerAssumption, Zenon DEF Init
<1>3. stack \in [Threads -> Seq(Frames)] /\ notify \in Seq(Notification) /\ outgoing \in Seq(Message)
  BY <1>1, Zenon DEF Init
<1>4. active \in [Tasks -> TaskStates \cup {"none"}] /\ life \in [Tasks -> {"new", "launched", "finished"}]
  BY Zenon DEF Init
<1>5. calls \in 0..MaxCalls /\ volunteered \in 0..MaxVolunteer /\ losses \in 0..MaxLosses
  BY SchedulerAssumption, SMTT(30) DEF Init
<1> QED
  BY <1>2, <1>3, <1>4, <1>5, Zenon DEF Init, TypeOK, Statuses, Frames, Message

USE DEF flags, link, masterVars

(* The calls of the framework other than acceptOffers keep the types.      *)
LEMMA TypeCalls ==
    ASSUME TypeOK, NEW th \in Threads,
           \/ Start(th) \/ Abort(th)
           \/ \E keep \in BOOLEAN : Stop(th, keep)
           \/ RequestResources(th) \/ ReviveOffers(th) \/ SendFrameworkMessage(th) \/ AcknowledgeStatusUpdate(th)
           \/ \E t \in Tasks : KillTask(th, t) \/ ReconcileTasks(th, t)
    PROVE  TypeOK'
<1>0. outgoing \in Seq(Message)
  BY Zenon DEF TypeOK, Message
<1>1. \A type \in Requests, T \in SUBSET Tasks : Written(outgoing, Request(type, T)) \in Seq(Message)
  BY <1>0, WrittenIs, RequestIs, Zenon
<1>2. calls < MaxCalls /\ calls' = calls + 1 => calls' \in 0..MaxCalls
  BY SchedulerAssumption, SMTT(30) DEF TypeOK
<1>3. CASE Start(th)
  BY <1>2, <1>3, SMTT(30) DEF Start, MayCall, TypeOK, Statuses
<1>4. CASE Abort(th)
  <2>1. /\ driver' = "ABORTED" /\ joiner' = (IF joiner = "waiting" THEN "signalled" ELSE joiner)
        /\ connected' = FALSE /\ aborted' = (aborted \/ connected)
        /\ outgoing' = Written(outgoing, Request("Deactivate", {})) \/ outgoing' = outgoing
        /\ calls < MaxCalls /\ calls' = calls + 1
        /\ UNCHANGED <<failover, hasId, active, timers, stack, offered, life, notify, link, masterVars>>
    BY <1>4, Zenon DEF Abort, DriverAbort, ProcessAbort, Signal, SendMesosMessage, MayCall
  <2>2. outgoing' \in Seq(Message)
    BY <1>0, <1>1, <2>1, Zenon DEF Requests
  <2> QED
    BY <1>2, <2>1, <2>2, Zenon DEF TypeOK, Statuses, Message
<1>5. ASSUME NEW keep \in BOOLEAN, Stop(th, keep) PROVE TypeOK'
  <2>1. /\ driver' = "STOPPED" /\ joiner' = (IF joiner = "waiting" THEN "signalled" ELSE joiner)
        /\ connected' = (connected /\ keep)
        /\ outgoing' = Written(outgoing, Request("Unregister", {})) \/ outgoing' = outgoing
        /\ calls < MaxCalls /\ calls' = calls + 1
        /\ UNCHANGED <<aborted, failover, hasId, active, timers, stack, offered, life, notify, link, masterVars>>
    BY <1>5, Zenon DEF Stop, Signal, SendMesosMessage, MayCall
  <2>2. outgoing' \in Seq(Message)
    BY <1>0, <1>1, <2>1, Zenon DEF Requests
  <2> QED
    BY <1>2, <2>1, <2>2, Zenon DEF TypeOK, Statuses, Message
<1>6. ASSUME NEW type \in Requests, NEW T \in SUBSET Tasks, Sends(th, Request(type, T)) PROVE TypeOK'
  BY <1>1, <1>2, <1>6, Zenon DEF Sends, Calls, SendMesosMessage, MayCall, TypeOK, Message
<1>7. ASSUME NEW t \in Tasks, KillTask(th, t) \/ ReconcileTasks(th, t) PROVE TypeOK'
  BY <1>6, <1>7, SMTT(30) DEF KillTask, ReconcileTasks, Requests
<1>8. CASE RequestResources(th) \/ ReviveOffers(th) \/ SendFrameworkMessage(th) \/ AcknowledgeStatusUpdate(th)
  BY <1>6, <1>8, SMTT(30) DEF RequestResources, ReviveOffers, SendFrameworkMessage, AcknowledgeStatusUpdate, Requests
<1> QED
  BY <1>3, <1>4, <1>5, <1>7, <1>8, Zenon

(* The frame of a launch that begins.                                      *)
LEMMA FirstLaunch ==
    ASSUME NEW ops \in Accepts, ops # <<>>, NEW lost \in BOOLEAN
    PROVE  [at |-> "launch", ops |-> Tail(ops), left |-> Head(ops), lost |-> lost, result |-> {}]
              \in LaunchFrame
<1>1. ops \in Seq(Seq(Tasks))
  BY SchedulerAssumption, Zenon
<1>2. Tail(ops) \in Seq(Seq(Tasks)) /\ Head(ops) \in Seq(Tasks)
  BY <1>1, TailIs, Zenon
<1> QED
  BY <1>2, Zenon DEF LaunchFrame

(* acceptOffers keeps the types.                                           *)
LEMMA TypeAccept ==
    ASSUME TypeOK, NEW th \in Threads, NEW ops \in Accepts, AcceptOffers(th, ops)
    PROVE  TypeOK'
<1>1. stack \in [Threads -> Seq(Frames)]
  BY Zenon DEF TypeOK, Frames
<1>2. calls' \in 0..MaxCalls
  BY SchedulerAssumption, SMTT(30) DEF TypeOK, AcceptOffers, Calls, MayCall
<1>3. stack' \in [Threads -> Seq(Frames)]
  <2> DEFINE f == [at |-> "launch", ops |-> Tail(ops), left |-> Head(ops), lost |-> ~connected, result |-> {}]
  <2>1. f \in Frames
    BY FirstLaunch, Zenon DEF AcceptOffers, Frames
  <2>2. Push(th, f)
    BY Zenon DEF AcceptOffers
  <2> HIDE DEF f
  <2> QED BY <1>1, <2>1, <2>2, Pushed, Zenon
<1>4. life' \in [Tasks -> {"new", "launched", "finished"}]
  BY Zenon DEF AcceptOffers, TypeOK
<1> QED
  BY <1>2, <1>3, <1>4, Zenon DEF AcceptOffers, TypeOK, Frames
(* What launchTasks makes of its frame, task by task.                      *)
LEMMA RestOfLaunch ==
    ASSUME NEW f \in LaunchFrame, f.left # <<>>
    PROVE  /\ Head(f.left) \in Tasks
           /\ [f EXCEPT !.left = Tail(@)] \in LaunchFrame
           /\ [[f EXCEPT !.left = Tail(@)] EXCEPT !.result = @ \cup {Head(f.left)}] \in LaunchFrame
<1>1. f.left \in Seq(Tasks)
  BY Zenon DEF LaunchFrame
<1>2. Tail(f.left) \in Seq(Tasks) /\ Head(f.left) \in Tasks
  BY <1>1, TailIs, Zenon
<1> QED
  BY <1>2, Zenon DEF LaunchFrame

(* The step of a launch that looks at one task keeps the types.            *)
LEMMA TypeLaunchTask ==
    ASSUME TypeOK, NEW th \in Threads, LaunchTask(th)
    PROVE  TypeOK'
<1> DEFINE f == Top(th)
           t == Head(f.left)
           rest == [f EXCEPT !.left = Tail(@)]
<1>1. stack \in [Threads -> Seq(Frames)] /\ stack[th] # <<>>
  BY Zenon DEF TypeOK, Frames, LaunchTask
<1>2. f \in LaunchFrame /\ f.left # <<>>
  BY <1>1, TopIs, FrameKinds, Zenon DEF LaunchTask
<1>3. t \in Tasks /\ rest \in Frames /\ [rest EXCEPT !.result = @ \cup {t}] \in Frames
  BY <1>2, RestOfLaunch, Zenon DEF Frames
<1>4. stack' \in [Threads -> Seq(Frames)]
  <2>1. CASE f.lost \/ t \in Malformed
    <3>1. DriverUpdate(th, rest, t)
      BY <2>1, Zenon DEF LaunchTask
    <3> QED
      BY <1>1, <1>3, <3>1, DriverUpdated, Zenon
  <2>2. CASE ~(f.lost \/ t \in Malformed)
    <3>1. stack' = Replaced(th, [rest EXCEPT !.result = @ \cup {t}])
      BY <2>2, Zenon DEF LaunchTask
    <3> QED
      BY <1>1, <1>3, <3>1, TopReplaced, Zenon
  <2> QED
    BY <2>1, <2>2, Zenon
<1>5. active' \in [Tasks -> TaskStates \cup {"none"}]
  <2>1. active' = active \/ active' = [active EXCEPT ![t] = "STAGING"]
    BY Zenon DEF LaunchTask
  <2> QED
    BY <2>1, Zenon DEF TypeOK, TaskStates
<1> QED
  BY <1>4, <1>5, Zenon DEF LaunchTask, TypeOK, Frames

(* The next operation of an acceptOffers call.                             *)
LEMMA NextLaunch ==
    ASSUME NEW f \in LaunchFrame, f.ops # <<>>, NEW lost \in BOOLEAN,
           NEW g, g = [f EXCEPT !.ops = Tail(@), !.left = Head(f.ops), !.lost = lost, !.result = {}]
    PROVE  /\ g \in LaunchFrame
           /\ g.at = "launch" /\ g.ops = Tail(f.ops) /\ g.left = Head(f.ops) /\ g.result = {}
<1>1. f.ops \in Seq(Seq(Tasks))
  BY Zenon DEF LaunchFrame
<1>2. Tail(f.ops) \in Seq(Seq(Tasks)) /\ Head(f.ops) \in Seq(Tasks)
  BY <1>1, TailIs, Zenon
<1>3. g \in LaunchFrame
  BY <1>2, Zenon DEF LaunchFrame
<1>4. g.at = "launch" /\ g.ops = Tail(f.ops) /\ g.left = Head(f.ops) /\ g.result = {}
  BY Zenon DEF LaunchFrame
<1> QED
  BY <1>3, <1>4, Zenon

(* The step of a launch that sends its tasks keeps the types.              *)
LEMMA TypeLaunchSend ==
    ASSUME TypeOK, NEW th \in Threads, LaunchSend(th)
    PROVE  TypeOK'
<1> DEFINE f == Top(th)
           g == [f EXCEPT !.ops = Tail(@), !.left = Head(f.ops), !.lost = ~connected, !.result = {}]
<1>1. stack \in [Threads -> Seq(Frames)] /\ stack[th] # <<>>
  BY Zenon DEF TypeOK, Frames, LaunchSend
<1>2. f \in LaunchFrame /\ f.left = <<>>
  BY <1>1, TopIs, FrameKinds, Zenon DEF LaunchSend
<1>3. stack' \in [Threads -> Seq(Frames)]
  <2>1. CASE f.ops = <<>>
    <3>1. Pop(th)
      BY <2>1, Zenon DEF LaunchSend
    <3> QED
      BY <1>1, <3>1, Popped, Zenon
  <2>2. CASE f.ops # <<>>
    <3>1. stack' = Replaced(th, g)
      BY <2>2, Zenon DEF LaunchSend
    <3>2. (~connected) \in BOOLEAN
      BY Zenon
    <3>3. g \in Frames
      BY <1>2, <2>2, <3>2, NextLaunch, Zenon DEF Frames
    <3> HIDE DEF g
    <3> QED
      BY <1>1, <3>1, <3>3, TopReplaced, Zenon
  <2> QED
    BY <2>1, <2>2, Zenon
<1>4. outgoing' \in Seq(Message)
  <2>1. outgoing \in Seq(Message) /\ f.result \in SUBSET Tasks
    BY <1>2, Zenon DEF TypeOK, Message, LaunchFrame
  <2>2. Request("Launch", f.result) \in Message
    BY <2>1, RequestIs, Zenon DEF Requests
  <2>3. outgoing' = outgoing \/ outgoing' = Written(outgoing, Request("Launch", f.result))
    BY Zenon DEF LaunchSend, SendMesosMessage
  <2> QED
    BY <2>1, <2>2, <2>3, WrittenIs, Zenon
<1> QED
  BY <1>3, <1>4, Zenon DEF LaunchSend, TypeOK, Frames, Message

(* The timers, the error handler and a thread in join() keep the types.    *)
LEMMA TypeLoop ==
    ASSUME TypeOK, Join \/ JoinWakes \/ DoReliableRegistration \/ CheckReconcile \/ LostConnection
    PROVE  TypeOK'
<1>0. outgoing \in Seq(Message)
  BY Zenon DEF TypeOK, Message
<1>1. CASE Join \/ JoinWakes
  BY <1>1, Zenon DEF Join, JoinWakes, TypeOK
<1>2. CASE DoReliableRegistration
  <2>1. outgoing' \in Seq(Message)
    <3>1. Request("Register", {}) \in Message /\ Request("Reregister", {}) \in Message
      BY RequestIs, Zenon DEF Requests
    <3>2. \/ outgoing' = outgoing
          \/ outgoing' = Append(outgoing, Request("Register", {}))
          \/ outgoing' = Append(outgoing, Request("Reregister", {}))
      BY <1>2, Zenon DEF DoReliableRegistration
    <3> QED
      BY <1>0, <3>1, <3>2, AppendIs, SMTT(30)
  <2>2. timers' \in Nat
    BY <1>2, SMTT(30) DEF DoReliableRegistration, TypeOK
  <2> QED
    BY <1>2, <2>1, <2>2, Zenon DEF DoReliableRegistration, TypeOK, Message
<1>3. CASE CheckReconcile
  <2> DEFINE staging == {t \in Tasks : active[t] = "STAGING"}
  <2>1. outgoing' = Written(outgoing, Request("Reconcile", staging))
    BY <1>3, Zenon DEF CheckReconcile, SendMesosMessage
  <2>2. Request("Reconcile", staging) \in Message
    BY RequestIs, Zenon DEF Requests
  <2>3. outgoing' \in Seq(Message)
    BY <1>0, <2>1, <2>2, WrittenIs, Zenon
  <2> QED
    BY <1>3, <2>3, Zenon DEF CheckReconcile, TypeOK, Message
<1>4. CASE LostConnection
  <2>1. timers \in Nat /\ timers' = timers + 1
    BY <1>4, Zenon DEF LostConnection, TypeOK
  <2>2. timers' \in Nat
    BY <2>1, SMTT(30)
  <2>3. connected' \in BOOLEAN /\ errorDue' \in BOOLEAN
    BY <1>4, Zenon DEF LostConnection
  <2> QED
    BY <1>4, <2>2, <2>3, Zenon DEF LostConnection, TypeOK
<1> QED
  BY <1>1, <1>2, <1>3, <1>4, Zenon

(* Reading a notification keeps the types (onInput).                       *)
LEMMA TypeOnInput ==
    ASSUME TypeOK, OnInput
    PROVE  TypeOK'
<1> DEFINE n == Head(notify)
<1>1. notify' \in Seq(Notification) /\ n \in Notification
  BY TailIs, Zenon DEF OnInput, TypeOK
<1>2. Callback(n) \in Frames
  BY <1>1, UpdateIsFrame, Zenon
<1>3. stack \in [Threads -> Seq(Frames)] /\ outgoing \in Seq(Message) /\ "loop" \in Threads
  BY Zenon DEF TypeOK, Frames, Message, Threads
<1>4. stack' \in [Threads -> Seq(Frames)]
  <2>1. UNCHANGED stack \/ Push("loop", Callback(n))
    BY Zenon DEF OnInput, Registered, Delivered, ServiceDisconnected
  <2> QED
    BY <1>2, <1>3, <2>1, Pushed, Zenon
<1>5. outgoing' \in Seq(Message)
  <2>1. outgoing' = outgoing \/ outgoing' = Written(outgoing, Request("Reregister", {}))
    BY Zenon DEF OnInput, Registered, Delivered, ServiceDisconnected, SendMesosMessage
  <2>2. Request("Reregister", {}) \in Message
    BY RequestIs, Zenon DEF Requests
  <2> QED
    BY <1>3, <2>1, <2>2, WrittenIs, Zenon
<1>6. connected' \in BOOLEAN /\ failover' \in BOOLEAN /\ hasId' \in BOOLEAN
  BY Zenon DEF OnInput, Registered, Delivered, ServiceDisconnected, TypeOK
<1> QED
  BY <1>1, <1>4, <1>5, <1>6, Zenon DEF OnInput, TypeOK, Frames, Message

(* The callback at the top of a stack is being made.                       *)
LEMMA TypeEnter ==
    ASSUME TypeOK, NEW th \in Threads, Enter(th)
    PROVE  TypeOK'
<1> DEFINE g == [Top(th) EXCEPT !.at = "in"]
<1>1. stack \in [Threads -> Seq(Frames)] /\ stack[th] # <<>> /\ outgoing \in Seq(Message)
  BY Zenon DEF TypeOK, Frames, Message, Enter
<1>2. Top(th) \in CallbackFrame
  BY <1>1, TopIs, FrameKinds, Zenon DEF Enter
<1>3. g \in Frames
  BY <1>2, Zenon DEF CallbackFrame, Frames
<1>4. stack' \in [Threads -> Seq(Frames)]
  <2>1. stack' = Replaced(th, g)
    BY Zenon DEF Enter
  <2> HIDE DEF g
  <2> QED
    BY <1>1, <1>3, <2>1, TopReplaced, Zenon
<1>5. outgoing' \in Seq(Message)
  <2>1. outgoing' = outgoing \/ outgoing' = Written(outgoing, Request("Deactivate", {}))
    BY Zenon DEF Enter, DriverAbort, ProcessAbort, SendMesosMessage
  <2>2. Request("Deactivate", {}) \in Message
    BY RequestIs, Zenon DEF Requests
  <2> QED
    BY <1>1, <2>1, <2>2, WrittenIs, Zenon
<1>6. offered' \in BOOLEAN
  BY Zenon DEF Enter
<1>7. connected' \in BOOLEAN /\ aborted' \in BOOLEAN
  BY Zenon DEF Enter, DriverAbort, ProcessAbort, TypeOK
<1>8. driver' \in Statuses /\ joiner' \in {"out", "waiting", "signalled"}
  BY Zenon DEF Enter, DriverAbort, Signal, TypeOK, Statuses
<1> QED
  BY <1>4, <1>5, <1>6, <1>7, <1>8, Zenon DEF Enter, TypeOK, Frames, Message

(* Back from a callback, by a return or by an exception.                   *)
LEMMA TypeReturn ==
    ASSUME TypeOK, NEW th \in Threads, Leave(th) \/ Raise(th)
    PROVE  TypeOK'
<1> DEFINE n == Top(th).note
<1>1. stack \in [Threads -> Seq(Frames)] /\ stack[th] # <<>> /\ outgoing \in Seq(Message) /\ Pop(th)
  BY Zenon DEF TypeOK, Frames, Message, Leave, Raise
<1>2. Top(th) \in CallbackFrame
  BY <1>1, TopIs, FrameKinds, Zenon DEF Leave, Raise
<1>3. n \in Notification
  BY <1>2, Zenon DEF CallbackFrame
<1>4. stack' \in [Threads -> Seq(Frames)]
  BY <1>1, Popped, Zenon
<1>5. /\ active' \in [Tasks -> TaskStates \cup {"none"}]
      /\ life' \in [Tasks -> {"new", "launched", "finished"}]
  <2>1. StatusUpdated(n)
    BY Zenon DEF Leave, Raise
  <2>2. n.state \in TaskStates
    BY <1>3, Zenon DEF Notification
  <2> HIDE DEF n
  <2> QED
    BY <2>1, <2>2, Zenon DEF StatusUpdated, TypeOK
<1>6. outgoing' \in Seq(Message)
  <2> DEFINE q == IF connected THEN Written(outgoing, Request("Deactivate", {})) ELSE outgoing
             a == Request("Other", n.tasks)
  <2>1. Request("Deactivate", {}) \in Message /\ a \in Message
    BY <1>3, RequestIs, Zenon DEF Requests, Notification
  <2>2. q \in Seq(Message)
    BY <1>1, <2>1, WrittenIs, Zenon
  <2>3. outgoing' \in {outgoing, q, Written(outgoing, a), Written(q, a)}
    BY Zenon DEF Leave, Raise, StatusUpdateAcknowledgement
  <2> HIDE DEF q, a
  <2> QED
    BY <1>1, <2>1, <2>2, <2>3, WrittenIs, Zenon
<1>7. connected' \in BOOLEAN /\ aborted' \in BOOLEAN
  BY Zenon DEF Leave, Raise, TypeOK
<1>8. driver' \in Statuses /\ joiner' \in {"out", "waiting", "signalled"}
  BY Zenon DEF Leave, Raise, Signal, TypeOK, Statuses
<1> QED
  BY <1>4, <1>5, <1>6, <1>7, <1>8, SMTT(30) DEF Leave, Raise, TypeOK, Frames, Message

(* The Redis connection and the master keep the types.                     *)
LEMMA TypeEnvironment ==
    ASSUME TypeOK, LoseLink \/ RedisBack \/ MasterTakes \/ MasterSends
    PROVE  TypeOK'
<1>0. outgoing \in Seq(Message) /\ notify \in Seq(Notification)
  BY Zenon DEF TypeOK, Message
<1>1. CASE LoseLink
  <2>1. losses' \in 0..MaxLosses
    BY <1>1, SchedulerAssumption, SMTT(30) DEF LoseLink, TypeOK
  <2> QED
    BY <1>1, <2>1, Zenon DEF LoseLink, TypeOK
<1>2. CASE RedisBack
  BY <1>2, Zenon DEF RedisBack, TypeOK
<1>3. CASE MasterTakes
  <2> DEFINE m == Head(outgoing)
  <2>1. m \in Message /\ Tail(outgoing) \in Seq(Message)
    BY <1>0, <1>3, TailIs, Zenon DEF MasterTakes
  <2>2. m.tasks \subseteq Tasks
    BY <2>1, Zenon DEF Message
  <2>3. notify' \in Seq(Notification)
    BY <1>0, <1>3, <2>1, AnswersAre, ConcatIs, Zenon DEF MasterTakes
  <2>4. known' \subseteq Tasks
    BY <1>3, <2>2, Zenon DEF MasterTakes, TypeOK
  <2>5. master' \in {"unknown", "active", "inactive"}
    BY <1>3, Zenon DEF MasterTakes, TypeOK
  <2> QED
    BY <1>3, <2>1, <2>3, <2>4, <2>5, Zenon DEF MasterTakes, TypeOK, Message
<1>4. CASE MasterSends
  <2>1. volunteered' \in 0..MaxVolunteer
    BY <1>4, SchedulerAssumption, SMTT(30) DEF MasterSends, TypeOK
  <2>2. \A type \in Unasked : Note(type) \in Notification
    BY SchedulerAssumption, Zenon DEF Note, Notification, TaskStates
  <2>3. \A t \in known, s \in TaskStates : Update(t, s) \in Notification
    BY Zenon DEF Update, Notification, Notifications, TypeOK
  <2>4. \E n \in Notification : notify' = Append(notify, n)
    BY <1>4, <2>2, <2>3, Zenon DEF MasterSends, TaskStates
  <2>5. notify' \in Seq(Notification)
    BY <1>0, <2>4, AppendIs, SMTT(30)
  <2>6. known' \subseteq Tasks
    BY <1>4, Zenon DEF MasterSends, TypeOK
  <2> QED
    BY <1>4, <2>1, <2>5, <2>6, Zenon DEF MasterSends, TypeOK
<1> QED
  BY <1>1, <1>2, <1>3, <1>4, Zenon

(* Every step keeps the types.                                             *)
LEMMA TypeStep == TypeOK /\ [Next]_vars => TypeOK'
<1> SUFFICES ASSUME TypeOK, [Next]_vars PROVE TypeOK'
  BY Zenon
<1>1. CASE UNCHANGED vars
  BY <1>1, Zenon DEF vars, TypeOK
<1>2. ASSUME NEW th \in Threads, DriverCall(th) PROVE TypeOK'
  BY <1>2, TypeCalls, TypeAccept, Zenon DEF DriverCall
<1> QED
  BY <1>1, <1>2, TypeLaunchTask, TypeLaunchSend, TypeEnter, TypeReturn, TypeLoop, TypeOnInput, TypeEnvironment, Zenon
     DEF Next

(* The driver, its two lists and its stacks are well typed, whatever       *)
(* callbacks call and raise and whatever is lost; in particular no         *)
(* registration timer fires that was not set (doReliableRegistration), and *)
(* only launches and callbacks are entered and left.                       *)
THEOREM TypesHold == Spec => []TypeOK
<1> QED
  BY TypeInit, TypeStep, PTL DEF Spec
----------------------------------------------------------------------------
(* Launches *)

(* The tasks of the operations of an acceptOffers call that are still to   *)
(* come, those of the one at hand, and both.                               *)
Later(ops) == UNION {Range(ops[k]) : k \in DOMAIN ops}
Current(f) == Range(f.left) \cup f.result
Plan(f) == Current(f) \cup Later(f.ops)

(* No task is in two operations.                                           *)
Apart(ops) == \A k, l \in DOMAIN ops : k # l => Range(ops[k]) \cap Range(ops[l]) = {}
InFrame(f) == Apart(f.ops) /\ Current(f) \cap Later(f.ops) = {}

Launching(th, i) == i \in DOMAIN stack[th] /\ stack[th][i].at = "launch"
Carries(i, t) == i \in DOMAIN outgoing /\ outgoing[i].type = "Launch" /\ t \in outgoing[i].tasks

(* A launch is on its way to the master: a thread is about to send it, or  *)
(* it is in the list.                                                      *)
Planned(t) == \E th \in Threads : \E i \in DOMAIN stack[th] : Launching(th, i) /\ t \in Plan(stack[th][i])

(* A launch of t is in the list of the master.                             *)
Posted(t) == \E i \in DOMAIN outgoing : Carries(i, t)
Ahead(t) == Planned(t) \/ Posted(t)

(* A task is in one launch of one thread, or in one message, or known to   *)
(* the master, or over.                                                    *)
LaunchedOnce ==
    /\ \A a, b \in Threads : \A i \in DOMAIN stack[a], k \in DOMAIN stack[b] :
          Launching(a, i) /\ Launching(b, k) /\ (a # b \/ i # k)
              => Plan(stack[a][i]) \cap Plan(stack[b][k]) = {}
    /\ \A th \in Threads : \A i \in DOMAIN stack[th] : Launching(th, i) => InFrame(stack[th][i])
    /\ \A t \in Tasks : \A i, k \in DOMAIN outgoing : Carries(i, t) /\ Carries(k, t) => i = k
    /\ \A t \in Tasks : ~(Planned(t) /\ Posted(t))
    /\ \A t \in known : ~Ahead(t)
    /\ \A t \in Tasks : life[t] = "new" => ~Ahead(t) /\ t \notin known

(* Steps after which every launch of a thread has at most the tasks it had.*)
LaunchesShrink ==
    \A th \in Threads : \A i \in DOMAIN stack'[th] :
        Launching(th, i)' => Launching(th, i) /\ Plan(stack'[th][i]) \subseteq Plan(stack[th][i])
LaunchesInFrame ==
    \A th \in Threads : \A i \in DOMAIN stack'[th] : Launching(th, i)' => InFrame(stack'[th][i])
(* Steps that send no launch.                                              *)
NothingLaunched ==
    \A t \in Tasks : \A i \in DOMAIN outgoing' : Carries(i, t)' => Carries(i, t)

(* After such a step a task that a thread is launching was being launched. *)
LEMMA ShrinkPlanned ==
    ASSUME LaunchesShrink, NEW t, Planned(t)'
    PROVE  Planned(t)
<1>0. PICK th \in Threads : \E i \in DOMAIN stack'[th] : Launching(th, i)' /\ t \in Plan(stack'[th][i])
  BY Zenon DEF Planned
<1>1. PICK i \in DOMAIN stack'[th] : Launching(th, i)' /\ t \in Plan(stack'[th][i])
  BY <1>0, Zenon
<1>2. Launching(th, i) /\ t \in Plan(stack[th][i])
  BY <1>1, Zenon DEF LaunchesShrink
<1> QED
  BY <1>2, Zenon DEF Planned, Launching

(* After such a step a task that is in the list of the master was in it.   *)
LEMMA NothingPosted ==
    ASSUME NothingLaunched, NEW t \in Tasks, Posted(t)'
    PROVE  Posted(t)
BY Zenon DEF NothingLaunched, Posted, Carries

(* Such steps keep LaunchedOnce, if the master learns of no new task.      *)
LEMMA OnceKept ==
    ASSUME TypeOK, LaunchedOnce, LaunchesShrink, LaunchesInFrame, NothingLaunched,
           known' \subseteq known, \A t \in Tasks : life'[t] = "new" => life[t] = "new"
    PROVE  LaunchedOnce' /\ \A t \in Tasks : Ahead(t)' => Ahead(t)
<1>1. ASSUME NEW a \in Threads, NEW b \in Threads, NEW i \in DOMAIN stack'[a], NEW k \in DOMAIN stack'[b],
             Launching(a, i)', Launching(b, k)', a # b \/ i # k
      PROVE  Plan(stack'[a][i]) \cap Plan(stack'[b][k]) = {}
  <2>1. Launching(a, i) /\ Plan(stack'[a][i]) \subseteq Plan(stack[a][i])
    BY <1>1, Zenon DEF LaunchesShrink
  <2>2. Launching(b, k) /\ Plan(stack'[b][k]) \subseteq Plan(stack[b][k])
    BY <1>1, Zenon DEF LaunchesShrink
  <2>3. Plan(stack[a][i]) \cap Plan(stack[b][k]) = {}
    BY <1>1, <2>1, <2>2, Zenon DEF LaunchedOnce, Launching
  <2> QED
    BY <2>1, <2>2, <2>3, Zenon
<1>2. \A t \in Tasks : Planned(t)' => Planned(t)
  BY ShrinkPlanned, Zenon
<1>3. \A t \in Tasks : Posted(t)' => Posted(t)
  BY NothingPosted, Zenon
<1>4. \A t \in Tasks : Ahead(t)' => Ahead(t)
  BY <1>2, <1>3, Zenon DEF Ahead
<1>5. \A t \in Tasks : \A i, k \in DOMAIN outgoing' : Carries(i, t)' /\ Carries(k, t)' => i = k
  BY Zenon DEF NothingLaunched, LaunchedOnce, Carries
<1>6. \A t \in Tasks : ~(Planned(t)' /\ Posted(t)')
  BY <1>2, <1>3, Zenon DEF LaunchedOnce
<1>7. \A t \in known' : ~Ahead(t)'
  BY <1>4, Zenon DEF LaunchedOnce, TypeOK
<1>8. \A t \in Tasks : life'[t] = "new" => ~Ahead(t)' /\ t \notin known'
  BY <1>4, Zenon DEF LaunchedOnce
<1> QED
  BY <1>1, <1>4, <1>5, <1>6, <1>7, <1>8, Zenon DEF LaunchedOnce, LaunchesInFrame
----------------------------------------------------------------------------
(* Status updates *)

(* The notification n is a status update for t; it says that t has         *)
(* finished, or that it has not ended.                                     *)
IsUpdate(n, t) == n.type = "statusUpdate" /\ t \in n.tasks
Finish(n, t) == IsUpdate(n, t) /\ n.state = "FINISHED"
Alive(n, t) == IsUpdate(n, t) /\ n.state \notin Terminal

(* The frame i of a thread is a callback.                                  *)
Calling(th, i) == i \in DOMAIN stack[th] /\ stack[th][i].at # "launch"

(* The driver handles, or has handled, the end of a task; or it will.      *)
FinishRead(t) ==
    \/ life[t] = "finished"
    \/ \E th \in Threads : \E i \in DOMAIN stack[th] : Calling(th, i) /\ Finish(stack[th][i].note, t)
FinishSent(t) == FinishRead(t) \/ \E i \in DOMAIN notify : Finish(notify[i], t)

(* A callback for a status update that the driver did not make up.         *)
Foreign(n) == n.type = "statusUpdate" /\ n.state # "LOST"

(* The end of a task is the last that the driver hears of it.              *)
InOrder ==
    /\ \A t \in Tasks : FinishSent(t) => ~Ahead(t) /\ t \notin known /\ life[t] # "new"
    /\ \A t \in Tasks : \A i, k \in DOMAIN notify : Finish(notify[i], t) /\ Alive(notify[k], t) => k < i
    /\ \A t \in Tasks : FinishRead(t) => \A i \in DOMAIN notify : ~Alive(notify[i], t)
    /\ \A t \in Tasks : life[t] = "finished" =>
          \A th \in Threads : \A i \in DOMAIN stack[th] : Calling(th, i) => ~Alive(stack[th][i].note, t)
    /\ \A th \in Threads : \A i \in DOMAIN stack[th] :
          Calling(th, i) /\ Foreign(stack[th][i].note) => th = "loop" /\ i = 1

(* Steps that make no callback for an update of the master.                *)
CallsQuiet ==
    \A th \in Threads : \A i \in DOMAIN stack'[th] :
        Calling(th, i)' /\ Foreign(stack'[th][i].note) =>
            Calling(th, i) /\ stack'[th][i].note = stack[th][i].note

(* Updates of the driver's own are for tasks that are lost, so that the    *)
(* other ones are of the master.                                           *)
LEMMA UpdatesForeign ==
    ASSUME NEW n, NEW t, Finish(n, t) \/ Alive(n, t)
    PROVE  Foreign(n)
BY Zenon DEF Finish, Alive, IsUpdate, Foreign, Terminal

(* Such a step reads no end of a task.                                     *)
LEMMA QuietRead ==
    ASSUME CallsQuiet, NEW t \in Tasks, life'[t] = "finished" => FinishRead(t), FinishRead(t)'
    PROVE  FinishRead(t)
<1>1. CASE life'[t] = "finished"
  BY <1>1, Zenon
<1>2. CASE life'[t] # "finished"
  <2>1. PICK th \in Threads :
          \E i \in DOMAIN stack'[th] : Calling(th, i)' /\ Finish(stack'[th][i].note, t)
    BY <1>2, Zenon DEF FinishRead
  <2>2. PICK i \in DOMAIN stack'[th] : Calling(th, i)' /\ Finish(stack'[th][i].note, t)
    BY <2>1, Zenon
  <2>3. Foreign(stack'[th][i].note)
    BY <2>2, UpdatesForeign, Zenon
  <2>4. Calling(th, i) /\ Finish(stack[th][i].note, t)
    BY <2>2, <2>3, Zenon DEF CallsQuiet
  <2> QED
    BY <2>4, Zenon DEF FinishRead, Calling
<1> QED
  BY <1>1, <1>2, Zenon

(* Such steps keep InOrder, if no task is finished by them and none comes  *)
(* back.                                                                   *)
LEMMA OrderKept ==
    ASSUME TypeOK, InOrder, CallsQuiet, UNCHANGED notify,
           \A t \in Tasks : life'[t] = "finished" => life[t] = "finished",
           \A t \in Tasks : life'[t] = "new" => life[t] = "new",
           \A t \in Tasks : FinishSent(t) => ~Ahead(t)' /\ t \notin known'
    PROVE  InOrder'
<1>1. \A t \in Tasks : FinishRead(t)' => FinishRead(t)
  BY QuietRead, Zenon DEF FinishRead
<1>2. \A t \in Tasks : FinishSent(t)' => FinishSent(t)
  BY <1>1, Zenon DEF FinishSent
<1>3. \A t \in Tasks : FinishSent(t)' => ~Ahead(t)' /\ t \notin known' /\ life'[t] # "new"
  BY <1>2, Zenon DEF InOrder
<1>4. \A t \in Tasks : \A i, k \in DOMAIN notify' : Finish(notify'[i], t) /\ Alive(notify'[k], t) => k < i
  BY Zenon DEF InOrder
<1>5. \A t \in Tasks : FinishRead(t)' => \A i \in DOMAIN notify' : ~Alive(notify'[i], t)
  BY <1>1, Zenon DEF InOrder
<1>6. ASSUME NEW t \in Tasks, life'[t] = "finished", NEW th \in Threads, NEW i \in DOMAIN stack'[th],
             Calling(th, i)', Alive(stack'[th][i].note, t)
      PROVE  FALSE
  <2>1. Foreign(stack'[th][i].note)
    BY <1>6, UpdatesForeign, Zenon
  <2>2. Calling(th, i) /\ Alive(stack[th][i].note, t)
    BY <1>6, <2>1, Zenon DEF CallsQuiet
  <2> QED
    BY <1>6, <2>2, Zenon DEF InOrder, Calling
<1>7. \A th \in Threads : \A i \in DOMAIN stack'[th] :
          Calling(th, i)' /\ Foreign(stack'[th][i].note) => th = "loop" /\ i = 1
  BY SMTT(30) DEF CallsQuiet, InOrder, Calling
<1> QED
  BY <1>3, <1>4, <1>5, <1>6, <1>7, Zenon DEF InOrder

(* The inductive invariant.                                                *)
LaunchInv == TypeOK /\ LaunchedOnce /\ InOrder /\ FinishedIsForgotten

(* Both together: steps that only take launches forward.                   *)
LEMMA InvKept ==
    ASSUME LaunchInv, TypeOK', LaunchesShrink, LaunchesInFrame, NothingLaunched, CallsQuiet,
           UNCHANGED <<notify, life>>, known' \subseteq known, FinishedIsForgotten'
    PROVE  LaunchInv'
<1>1. LaunchedOnce' /\ \A t \in Tasks : Ahead(t)' => Ahead(t)
  BY OnceKept, Zenon DEF LaunchInv
<1>2. \A t \in Tasks : FinishSent(t) => ~Ahead(t)' /\ t \notin known'
  BY <1>1, Zenon DEF LaunchInv, InOrder
<1>3. InOrder'
  BY <1>2, OrderKept, Zenon DEF LaunchInv
<1> QED
  BY <1>1, <1>3, Zenon DEF LaunchInv
----------------------------------------------------------------------------
(* Steps, frame by frame *)

(* The list q has the launches of the list of the master and no other.     *)
NoLaunchMore(q) ==
    \A i \in DOMAIN q : q[i].type = "Launch" => i \in DOMAIN outgoing /\ q[i] = outgoing[i]

(* Writing another request than a launch adds no launch.                   *)
LEMMA WrittenMore ==
    ASSUME NEW q \in Seq(Message), NoLaunchMore(q), NEW m \in Message, m.type # "Launch"
    PROVE  NoLaunchMore(Written(q, m)) /\ NoLaunchMore(Append(q, m))
<1>1. NoLaunchMore(Append(q, m))
  BY AppendIs, Zenon DEF NoLaunchMore
<1> QED
  BY <1>1, WrittenIs, Zenon

(* A list without new launches carries no new task.                        *)
LEMMA NoMoreLaunched ==
    ASSUME NoLaunchMore(outgoing')
    PROVE  NothingLaunched
BY Zenon DEF NoLaunchMore, NothingLaunched, Carries

(* What may become of one frame: it stays, it is the driver's own update,  *)
(* it is the same callback as before, or a launch with fewer tasks to go.  *)
Kept(x, i) == i \in DOMAIN stack[x] /\ stack'[x][i] = stack[x][i]
FrameGoesOn(x, i) ==
    \/ Kept(x, i)
    \/ stack'[x][i].at # "launch" /\ ~Foreign(stack'[x][i].note)
    \/ Calling(x, i) /\ stack'[x][i].at # "launch" /\ stack'[x][i].note = stack[x][i].note
    \/ /\ Launching(x, i) /\ stack'[x][i].at = "launch"
       /\ Plan(stack'[x][i]) \subseteq Plan(stack[x][i]) /\ InFrame(stack'[x][i])

(* When every frame goes on, launches have no new task and there is no     *)
(* callback for a new update of the master.                                *)
LEMMA FramesGoOn ==
    ASSUME LaunchedOnce, \A x \in Threads : \A i \in DOMAIN stack'[x] : FrameGoesOn(x, i)
    PROVE  LaunchesShrink /\ LaunchesInFrame /\ CallsQuiet
<1>1. ASSUME NEW x \in Threads, NEW i \in DOMAIN stack'[x], Launching(x, i)'
      PROVE  Launching(x, i) /\ Plan(stack'[x][i]) \subseteq Plan(stack[x][i]) /\ InFrame(stack'[x][i])
  <2>1. stack'[x][i].at = "launch"
    BY <1>1, Zenon DEF Launching
  <2>2. CASE Kept(x, i)
    BY <2>1, <2>2, Zenon DEF Kept, Launching, LaunchedOnce
  <2>3. CASE ~Kept(x, i)
    BY <2>1, <2>3, Zenon DEF FrameGoesOn
  <2> QED
    BY <2>2, <2>3, Zenon
<1>2. ASSUME NEW x \in Threads, NEW i \in DOMAIN stack'[x], Calling(x, i)', Foreign(stack'[x][i].note)
      PROVE  Calling(x, i) /\ stack'[x][i].note = stack[x][i].note
  <2>1. stack'[x][i].at # "launch"
    BY <1>2, Zenon DEF Calling
  <2>2. CASE Kept(x, i)
    BY <2>1, <2>2, Zenon DEF Kept, Calling
  <2>3. CASE ~Kept(x, i)
    BY <1>2, <2>1, <2>3, Zenon DEF FrameGoesOn
  <2> QED
    BY <2>2, <2>3, Zenon
<1>3. LaunchesShrink
  BY <1>1, Zenon DEF LaunchesShrink
<1>4. LaunchesInFrame
  BY <1>1, Zenon DEF LaunchesInFrame
<1>5. CallsQuiet
  BY <1>2, Zenon DEF CallsQuiet
<1> QED
  BY <1>3, <1>4, <1>5, Zenon

(* The frames after a push, a pop and an exchange of the last frame.       *)
LEMMA FramesPushed ==
    ASSUME stack \in [Threads -> Seq(Frames)], NEW th \in Threads, NEW f \in Frames, Push(th, f)
    PROVE  \A x \in Threads : \A i \in DOMAIN stack'[x] :
              Kept(x, i) \/ (x = th /\ i = Len(stack[th]) + 1 /\ stack'[x][i] = f)
<1>1. ASSUME NEW x \in Threads, NEW i \in DOMAIN stack'[x]
      PROVE  Kept(x, i) \/ (x = th /\ i = Len(stack[th]) + 1 /\ stack'[x][i] = f)
  <2>0. stack[th] \in Seq(Frames)
    BY Zenon
  <2>1. CASE x = th
    BY <1>1, <2>0, <2>1, Pushed, AppendIs, SMTT(30) DEF Kept
  <2>2. CASE x # th
    BY <1>1, <2>2, Pushed, Zenon DEF Kept
  <2> QED
    BY <2>1, <2>2, Zenon
<1> QED
  BY <1>1, Zenon

(* What becomes of the frames when one is left.                            *)
LEMMA FramesPopped ==
    ASSUME stack \in [Threads -> Seq(Frames)], NEW th \in Threads, stack[th] # <<>>, Pop(th)
    PROVE  \A x \in Threads : \A i \in DOMAIN stack'[x] : Kept(x, i) /\ (x = th => i # Len(stack[th]))
<1>1. ASSUME NEW x \in Threads, NEW i \in DOMAIN stack'[x]
      PROVE  Kept(x, i) /\ (x = th => i # Len(stack[th]))
  <2>0. stack[th] \in Seq(Frames)
    BY Zenon
  <2>1. CASE x = th
    <3>1. stack'[th] = Front(stack[th])
      BY Popped, Zenon
    <3>2. \A k \in DOMAIN Front(stack[th]) :
            k \in DOMAIN stack[th] /\ k # Len(stack[th]) /\ Front(stack[th])[k] = stack[th][k]
      BY <2>0, FrontIs, Zenon
    <3> QED
      BY <1>1, <2>1, <3>1, <3>2, Zenon DEF Kept
  <2>2. CASE x # th
    BY <1>1, <2>2, Popped, Zenon DEF Kept
  <2> QED
    BY <2>1, <2>2, Zenon
<1> QED
  BY <1>1, Zenon

(* A list with another last element, and one after it.                     *)
LEMMA LastReplaced ==
    ASSUME NEW S, NEW s \in Seq(S), s # <<>>, NEW f \in S
    PROVE  /\ Append(Front(s), f) \in Seq(S)
           /\ Len(Append(Front(s), f)) = Len(s)
           /\ \A i \in DOMAIN Append(Front(s), f) :
                 /\ i \in DOMAIN s
                 /\ \/ i = Len(s) /\ Append(Front(s), f)[i] = f
                    \/ i # Len(s) /\ Append(Front(s), f)[i] = s[i]
<1>1. /\ Front(s) \in Seq(S) /\ Len(s) \in DOMAIN s /\ Len(Front(s)) + 1 = Len(s)
      /\ \A i \in DOMAIN Front(s) : i \in DOMAIN s /\ i # Len(s) /\ Front(s)[i] = s[i]
  BY FrontIs, Zenon
<1> DEFINE r == Front(s)
<1> HIDE DEF r
<1>2. /\ Append(r, f) \in Seq(S) /\ Len(Append(r, f)) = Len(r) + 1
      /\ \A i \in DOMAIN Append(r, f) :
            \/ i \in DOMAIN r /\ Append(r, f)[i] = r[i]
            \/ i = Len(r) + 1 /\ Append(r, f)[i] = f
  BY <1>1, AppendIs, Zenon DEF r
<1> QED
  BY <1>1, <1>2, Zenon DEF r

(* What becomes of the frames when one goes on.                            *)
LEMMA FramesReplaced ==
    ASSUME stack \in [Threads -> Seq(Frames)], NEW th \in Threads, stack[th] # <<>>,
           NEW f \in Frames, stack' = Replaced(th, f)
    PROVE  \A x \in Threads : \A i \in DOMAIN stack'[x] :
              \/ Kept(x, i) /\ (x # th \/ i # Len(stack[th]))
              \/ x = th /\ i = Len(stack[th]) /\ i \in DOMAIN stack[x] /\ stack[x][i] = Top(th) /\ stack'[x][i] = f
<1>1. ASSUME NEW x \in Threads, NEW i \in DOMAIN stack'[x]
      PROVE  \/ Kept(x, i) /\ (x # th \/ i # Len(stack[th]))
             \/ x = th /\ i = Len(stack[th]) /\ i \in DOMAIN stack[x] /\ stack[x][i] = Top(th) /\ stack'[x][i] = f
  <2>0. stack[th] \in Seq(Frames)
    BY Zenon
  <2>1. CASE x = th
    <3>1. stack'[th] = Append(Front(stack[th]), f)
      BY TopReplaced, Zenon
    <3>2. \A k \in DOMAIN Append(Front(stack[th]), f) :
            /\ k \in DOMAIN stack[th]
            /\ \/ k = Len(stack[th]) /\ Append(Front(stack[th]), f)[k] = f
               \/ k # Len(stack[th]) /\ Append(Front(stack[th]), f)[k] = stack[th][k]
      BY <2>0, LastReplaced, SMTT(30)
    <3>3. Top(th) = stack[th][Len(stack[th])]
      BY <2>0, FrontIs, Zenon DEF Top
    <3> QED
      BY <1>1, <2>1, <3>1, <3>2, <3>3, Zenon DEF Kept
  <2>2. CASE x # th
    BY <1>1, <2>2, TopReplaced, Zenon DEF Kept
  <2> QED
    BY <2>1, <2>2, Zenon
<1> QED
  BY <1>1, Zenon

(* What becomes of the frames when the driver makes an update of its own.  *)
LEMMA FramesUpdated ==
    ASSUME stack \in [Threads -> Seq(Frames)], NEW th \in Threads, stack[th] # <<>>,
           NEW f \in Frames, NEW t \in Tasks, DriverUpdate(th, f, t)
    PROVE  \A x \in Threads : \A i \in DOMAIN stack'[x] :
              \/ Kept(x, i)
              \/ x = th /\ i \in DOMAIN stack[x] /\ stack[x][i] = Top(th) /\ stack'[x][i] = f
              \/ stack'[x][i] = Callback(Update(t, "LOST"))
<1> DEFINE s == Append(Front(stack[th]), f)
           c == Callback(Update(t, "LOST"))
<1>0. stack[th] \in Seq(Frames)
  BY Zenon
<1>1. ASSUME NEW x \in Threads, NEW i \in DOMAIN stack'[x]
      PROVE  \/ Kept(x, i)
             \/ x = th /\ i \in DOMAIN stack[x] /\ stack[x][i] = Top(th) /\ stack'[x][i] = f
             \/ stack'[x][i] = c
  <2>1. CASE x # th
    BY <1>1, <2>1, DriverUpdated, Zenon DEF Kept
  <2>2. CASE x = th
    <3>1. /\ s \in Seq(Frames)
          /\ \A k \in DOMAIN s : /\ k \in DOMAIN stack[th]
                                 /\ (s[k] = f /\ stack[th][k] = Top(th)) \/ s[k] = stack[th][k]
      <4>1. /\ s \in Seq(Frames)
            /\ \A k \in DOMAIN s : /\ k \in DOMAIN stack[th]
                                   /\ \/ k = Len(stack[th]) /\ s[k] = f
                                      \/ k # Len(stack[th]) /\ s[k] = stack[th][k]
        BY <1>0, LastReplaced, SMTT(30)
      <4>2. Top(th) = stack[th][Len(stack[th])]
        BY <1>0, FrontIs, Zenon DEF Top
      <4> HIDE DEF s
      <4> QED
        BY <4>1, <4>2, Zenon
    <3>2. c \in Frames
      <4>1. Update(t, "LOST") \in Notification
        BY Zenon DEF Update, Notification, Notifications, TaskStates
      <4> QED BY <4>1, UpdateIsFrame, Zenon
    <3>3. stack'[th] = s \/ stack'[th] = Append(s, c)
      BY DriverUpdated, Zenon
    <3> HIDE DEF s, c
    <3>4. \A k \in DOMAIN Append(s, c) :
             (k \in DOMAIN s /\ Append(s, c)[k] = s[k]) \/ Append(s, c)[k] = c
      BY <3>1, <3>2, AppendIs, Zenon
    <3>5. CASE stack'[th] = s
      BY <1>1, <2>2, <3>1, <3>5, Zenon DEF Kept
    <3>6. CASE stack'[th] = Append(s, c)
      BY <1>1, <2>2, <3>1, <3>4, <3>6, Zenon DEF Kept
    <3> QED
      BY <3>3, <3>5, <3>6, Zenon
  <2> QED
    BY <2>1, <2>2, Zenon
<1> QED
  BY <1>1, Zenon
----------------------------------------------------------------------------
(* The inductive invariant, action by action *)

(* Steps that move no frame, no update and no task.                        *)
LEMMA QuietInv ==
    ASSUME LaunchInv, TypeOK', UNCHANGED <<stack, notify, life, known, active>>, NoLaunchMore(outgoing')
    PROVE  LaunchInv'
<1>1. \A x \in Threads : \A i \in DOMAIN stack'[x] : FrameGoesOn(x, i)
  BY Zenon DEF FrameGoesOn, Kept
<1>2. LaunchesShrink /\ LaunchesInFrame /\ CallsQuiet
  BY <1>1, FramesGoOn, Zenon DEF LaunchInv
<1>3. FinishedIsForgotten'
  BY Zenon DEF LaunchInv, FinishedIsForgotten
<1> QED
  BY <1>2, <1>3, NoMoreLaunched, InvKept, Zenon

(* The list of the master has its own launches.                            *)
LEMMA OwnList ==
    ASSUME TypeOK
    PROVE  outgoing \in Seq(Message) /\ NoLaunchMore(outgoing)
BY Zenon DEF TypeOK, Message, NoLaunchMore

(* A request other than a launch.                                          *)
LEMMA OtherRequest ==
    ASSUME TypeOK, NEW type \in Requests \ {"Launch"}, NEW T \in SUBSET Tasks
    PROVE  /\ Written(outgoing, Request(type, T)) \in Seq(Message)
           /\ NoLaunchMore(Written(outgoing, Request(type, T)))
           /\ NoLaunchMore(Append(outgoing, Request(type, T)))
<1>1. Request(type, T) \in Message /\ Request(type, T).type # "Launch"
  BY RequestIs, Zenon DEF Request
<1> QED
  BY <1>1, OwnList, WrittenIs, WrittenMore, Zenon

(* The calls of the framework other than acceptOffers keep the invariant.  *)
LEMMA CallsInv ==
    ASSUME LaunchInv, TypeOK', NEW th \in Threads,
           \/ Start(th) \/ Abort(th)
           \/ \E keep \in BOOLEAN : Stop(th, keep)
           \/ RequestResources(th) \/ ReviveOffers(th) \/ SendFrameworkMessage(th) \/ AcknowledgeStatusUpdate(th)
           \/ \E t \in Tasks : KillTask(th, t) \/ ReconcileTasks(th, t)
    PROVE  LaunchInv'
<1>0. TypeOK /\ NoLaunchMore(outgoing)
  BY OwnList, Zenon DEF LaunchInv
<1>1. \A type \in Requests \ {"Launch"}, T \in SUBSET Tasks : NoLaunchMore(Written(outgoing, Request(type, T)))
  BY <1>0, OtherRequest, Zenon
<1>2. \/ outgoing' = outgoing
      \/ \E type \in Requests \ {"Launch"}, T \in SUBSET Tasks : outgoing' = Written(outgoing, Request(type, T))
  BY Zenon DEF Start, Abort, DriverAbort, ProcessAbort, Stop, RequestResources, ReviveOffers, SendFrameworkMessage,
         AcknowledgeStatusUpdate, KillTask, ReconcileTasks, Sends, SendMesosMessage, Requests
<1>3. NoLaunchMore(outgoing')
  BY <1>0, <1>1, <1>2, Zenon
<1>4. UNCHANGED <<stack, notify, life, known, active>>
  BY Zenon DEF Start, Abort, Stop, RequestResources, ReviveOffers, SendFrameworkMessage,
         AcknowledgeStatusUpdate, KillTask, ReconcileTasks, Sends
<1> QED
  BY <1>3, <1>4, QuietInv, Zenon

(* The timers, the error handler, the connection and a thread in join()    *)
(* keep it.                                                                *)
LEMMA LoopInv ==
    ASSUME LaunchInv, TypeOK',
           \/ Join \/ JoinWakes \/ DoReliableRegistration \/ CheckReconcile \/ LostConnection
           \/ LoseLink \/ RedisBack
    PROVE  LaunchInv'
<1>0. TypeOK /\ NoLaunchMore(outgoing)
  BY OwnList, Zenon DEF LaunchInv
<1>1. \A type \in Requests \ {"Launch"}, T \in SUBSET Tasks :
         /\ NoLaunchMore(Written(outgoing, Request(type, T)))
         /\ NoLaunchMore(Append(outgoing, Request(type, T)))
  BY <1>0, OtherRequest, Zenon
<1>2. CASE Join \/ JoinWakes \/ LostConnection \/ LoseLink \/ RedisBack
  BY <1>0, <1>2, QuietInv, Zenon DEF Join, JoinWakes, LostConnection, LoseLink, RedisBack
<1>3. CASE DoReliableRegistration
  <2>1. \/ outgoing' = outgoing
        \/ \E type \in Requests \ {"Launch"} : outgoing' = Append(outgoing, Request(type, {}))
    BY <1>3, Zenon DEF DoReliableRegistration, Requests
  <2> QED
    BY <1>0, <1>1, <1>3, <2>1, QuietInv, Zenon DEF DoReliableRegistration
<1>4. CASE CheckReconcile
  <2>1. \E T \in SUBSET Tasks : outgoing' = Written(outgoing, Request("Reconcile", T))
    BY <1>4, Zenon DEF CheckReconcile, SendMesosMessage
  <2> QED
    BY <1>0, <1>1, <1>4, <2>1, QuietInv, Zenon DEF CheckReconcile, Requests
<1> QED
  BY <1>2, <1>3, <1>4, Zenon

(* The callback is made.                                                   *)
LEMMA EnterInv ==
    ASSUME LaunchInv, TypeOK', NEW th \in Threads, Enter(th)
    PROVE  LaunchInv'
<1> DEFINE f == [Top(th) EXCEPT !.at = "in"]
<1>0. TypeOK /\ NoLaunchMore(outgoing) /\ stack \in [Threads -> Seq(Frames)] /\ stack[th] # <<>>
  BY OwnList, Zenon DEF LaunchInv, TypeOK, Frames, Enter
<1>1. Top(th) \in CallbackFrame /\ Top(th).at = "call"
  BY <1>0, TopIs, FrameKinds, Zenon DEF Enter
<1>2. f \in Frames /\ f.at # "launch" /\ f.note = Top(th).note
  BY <1>1, Zenon DEF Frames, CallbackFrame
<1>3. stack' = Replaced(th, f)
  BY Zenon DEF Enter
<1>4. \A x \in Threads : \A i \in DOMAIN stack'[x] : FrameGoesOn(x, i)
  <2> HIDE DEF f
  <2>1. ASSUME NEW x \in Threads, NEW i \in DOMAIN stack'[x] PROVE FrameGoesOn(x, i)
    <3>1. CASE Kept(x, i)
      BY <3>1, Zenon DEF FrameGoesOn
    <3>2. CASE i \in DOMAIN stack[x] /\ stack[x][i] = Top(th) /\ stack'[x][i] = f
      BY <1>1, <1>2, <3>2, Zenon DEF FrameGoesOn, Calling
    <3> QED
      BY <1>0, <1>2, <1>3, <2>1, <3>1, <3>2, FramesReplaced, SMTT(30)
  <2> QED
    BY <2>1, Zenon
<1>5. NoLaunchMore(outgoing')
  <2>1. outgoing' = outgoing \/ outgoing' = Written(outgoing, Request("Deactivate", {}))
    BY Zenon DEF Enter, DriverAbort, ProcessAbort, SendMesosMessage
  <2> QED
    BY <1>0, <2>1, OtherRequest, Zenon DEF Requests
<1>6. UNCHANGED <<notify, life, known, active>>
  BY Zenon DEF Enter
<1>7. LaunchesShrink /\ LaunchesInFrame /\ CallsQuiet
  BY <1>4, FramesGoOn, Zenon DEF LaunchInv
<1>8. FinishedIsForgotten'
  BY <1>6, Zenon DEF LaunchInv, FinishedIsForgotten
<1> QED
  BY <1>5, <1>6, <1>7, <1>8, NoMoreLaunched, InvKept, Zenon
(* The operations of an acceptOffers call, the first taken off.            *)
LEMMA FirstOfOps ==
    ASSUME NEW ops \in Seq(Seq(Tasks)), ops # <<>>
    PROVE  /\ Range(Head(ops)) \cup Later(Tail(ops)) \subseteq Later(ops)
           /\ Apart(ops) => Apart(Tail(ops)) /\ Range(Head(ops)) \cap Later(Tail(ops)) = {}
<1>1. /\ 1 \in DOMAIN ops /\ Head(ops) = ops[1]
      /\ \A i \in DOMAIN Tail(ops) : i + 1 \in DOMAIN ops /\ i + 1 # 1 /\ Tail(ops)[i] = ops[i + 1]
      /\ \A i, k \in DOMAIN Tail(ops) : i # k => i + 1 # k + 1
  BY TailIs, Zenon
<1>2. \A i \in DOMAIN Tail(ops) : Range(Tail(ops)[i]) = Range(ops[i + 1])
  BY <1>1, Zenon
<1>3. Range(Head(ops)) = Range(ops[1])
  BY <1>1, Zenon
<1>4. \A t \in Later(Tail(ops)) : \E i \in DOMAIN Tail(ops) : t \in Range(ops[i + 1])
  BY <1>2, Zenon DEF Later
<1>5. Range(Head(ops)) \cup Later(Tail(ops)) \subseteq Later(ops)
  BY <1>1, <1>3, <1>4, Zenon DEF Later
<1>6. ASSUME Apart(ops) PROVE Apart(Tail(ops))
  BY <1>1, <1>2, <1>6, Zenon DEF Apart
<1>7. ASSUME Apart(ops) PROVE Range(Head(ops)) \cap Later(Tail(ops)) = {}
  <2>1. \A i \in DOMAIN Tail(ops) : Range(ops[1]) \cap Range(ops[i + 1]) = {}
    BY <1>1, <1>7, Zenon DEF Apart
  <2> QED
    BY <1>3, <1>4, <2>1, Zenon
<1> QED
  BY <1>5, <1>6, <1>7, Zenon

(* The frame of a launch that goes on with its next task.                  *)
LEMMA LaunchRest ==
    ASSUME NEW f \in LaunchFrame, f.left # <<>>, InFrame(f), NEW g,
           \/ g = [f EXCEPT !.left = Tail(@)]
           \/ g = [[f EXCEPT !.left = Tail(@)] EXCEPT !.result = @ \cup {Head(f.left)}]
    PROVE  /\ g.at = "launch" /\ Plan(g) \subseteq Plan(f) /\ InFrame(g)
           /\ Head(f.left) \in Plan(f)
<1>1. f.left \in Seq(Tasks)
  BY Zenon DEF LaunchFrame
<1>2. /\ 1 \in DOMAIN f.left /\ Head(f.left) = f.left[1]
      /\ \A i \in DOMAIN Tail(f.left) : i + 1 \in DOMAIN f.left /\ Tail(f.left)[i] = f.left[i + 1]
  BY <1>1, TailIs, SMTT(30)
<1>3. Head(f.left) \in Range(f.left)
  BY <1>2, Zenon DEF Range
<1>4. Range(Tail(f.left)) \subseteq Range(f.left)
  BY <1>2, SMTT(30) DEF Range
<1>5. /\ g.at = "launch" /\ g.ops = f.ops /\ g.left = Tail(f.left)
      /\ g.result \subseteq f.result \cup {Head(f.left)}
  BY Zenon DEF LaunchFrame
<1>6. Current(g) \subseteq Current(f)
  BY <1>3, <1>4, <1>5, Zenon DEF Current
<1>7. Later(g.ops) = Later(f.ops) /\ (Apart(g.ops) <=> Apart(f.ops))
  BY <1>5, Zenon
<1> QED
  BY <1>3, <1>5, <1>6, <1>7, Zenon DEF Plan, InFrame, Current

(* The top frame is one of the stack.                                      *)
LEMMA TopPlace ==
    ASSUME stack \in [Threads -> Seq(Frames)], NEW th \in Threads, stack[th] # <<>>
    PROVE  Len(stack[th]) \in DOMAIN stack[th] /\ stack[th][Len(stack[th])] = Top(th)
<1>1. stack[th] \in Seq(Frames)
  BY Zenon
<1> QED
  BY <1>1, FrontIs, Zenon DEF Top

(* One task of a launch.                                                   *)
LEMMA LaunchTaskInv ==
    ASSUME LaunchInv, TypeOK', NEW th \in Threads, LaunchTask(th)
    PROVE  LaunchInv'
<1> DEFINE f == Top(th)
           t == Head(f.left)
           rest == [f EXCEPT !.left = Tail(@)]
           next == [rest EXCEPT !.result = @ \cup {t}]
<1>1. TypeOK /\ LaunchedOnce /\ stack \in [Threads -> Seq(Frames)] /\ stack[th] # <<>>
  BY Zenon DEF LaunchInv, TypeOK, Frames, LaunchTask
<1>2. f \in LaunchFrame /\ f.at = "launch" /\ f.left # <<>>
  BY <1>1, TopIs, FrameKinds, Zenon DEF LaunchTask
<1>3. t \in Tasks /\ rest \in Frames /\ next \in Frames
  BY <1>2, RestOfLaunch, Zenon DEF Frames
<1>4. Len(stack[th]) \in DOMAIN stack[th] /\ stack[th][Len(stack[th])] = f
  BY <1>1, TopPlace, Zenon
<1>5. InFrame(f)
  BY <1>1, <1>2, <1>4, Zenon DEF LaunchedOnce, Launching
<1>6. /\ rest.at = "launch" /\ Plan(rest) \subseteq Plan(f) /\ InFrame(rest)
      /\ next.at = "launch" /\ Plan(next) \subseteq Plan(f) /\ InFrame(next)
      /\ t \in Plan(f)
  BY <1>2, <1>5, LaunchRest, Zenon
<1>7. ASSUME NEW x \in Threads, NEW i \in DOMAIN stack'[x] PROVE FrameGoesOn(x, i)
  <2> DEFINE c == Callback(Update(t, "LOST"))
  <2>1. \/ Kept(x, i)
        \/ i \in DOMAIN stack[x] /\ stack[x][i] = f /\ (stack'[x][i] = rest \/ stack'[x][i] = next)
        \/ stack'[x][i] = c
    <3>1. CASE f.lost \/ t \in Malformed
      <4>1. DriverUpdate(th, rest, t)
        BY <3>1, Zenon DEF LaunchTask
      <4> HIDE DEF rest, t
      <4> QED
        BY <1>1, <1>3, <1>7, <4>1, FramesUpdated, SMTT(30)
    <3>2. CASE ~(f.lost \/ t \in Malformed)
      <4>1. stack' = Replaced(th, next)
        BY <3>2, Zenon DEF LaunchTask
      <4> HIDE DEF next
      <4> QED
        BY <1>1, <1>3, <1>7, <4>1, FramesReplaced, SMTT(30)
    <3> QED
      BY <3>1, <3>2, Zenon
  <2>2. c.at # "launch" /\ ~Foreign(c.note)
    BY Zenon DEF Callback, Update, Foreign
  <2> HIDE DEF c, f, rest, next
  <2> QED
    BY <1>2, <1>6, <2>1, <2>2, Zenon DEF FrameGoesOn, Launching
<1>8. LaunchesShrink /\ LaunchesInFrame /\ CallsQuiet
  BY <1>1, <1>7, FramesGoOn, Zenon
<1>9. UNCHANGED <<notify, life, known, outgoing>>
  BY Zenon DEF LaunchTask
<1>10. FinishedIsForgotten'
  <2>1. Planned(t)
    BY <1>2, <1>4, <1>6, Zenon DEF Planned, Launching
  <2>2. life[t] # "finished"
    BY <1>3, <2>1, Zenon DEF LaunchInv, InOrder, FinishSent, FinishRead, Ahead
  <2>3. active' = active \/ active' = [active EXCEPT ![t] = "STAGING"]
    BY Zenon DEF LaunchTask
  <2> HIDE DEF t
  <2> QED
    BY <1>1, <1>9, <2>2, <2>3, Zenon DEF FinishedIsForgotten, LaunchInv, TypeOK
<1>11. NoLaunchMore(outgoing')
  BY <1>1, <1>9, OwnList, Zenon
<1> QED
  BY <1>8, <1>9, <1>10, <1>11, NoMoreLaunched, InvKept, Zenon
(* The end of an operation: its tasks are in the message and in no launch  *)
(* any more.                                                               *)
LEMMA SendFrames ==
    ASSUME LaunchInv, NEW th \in Threads, LaunchSend(th)
    PROVE  /\ \A x \in Threads : \A i \in DOMAIN stack'[x] : FrameGoesOn(x, i)
           /\ \A x \in Threads : \A i \in DOMAIN stack'[x] :
                 Launching(x, i)' => Plan(stack'[x][i]) \cap Top(th).result = {}
           /\ \A t \in Top(th).result : t \in Tasks /\ Planned(t)
<1> DEFINE f == Top(th)
           top == Len(stack[th])
           g == [f EXCEPT !.ops = Tail(@), !.left = Head(f.ops), !.lost = ~connected, !.result = {}]
<1>1. TypeOK /\ LaunchedOnce /\ stack \in [Threads -> Seq(Frames)] /\ stack[th] # <<>>
  BY Zenon DEF LaunchInv, TypeOK, Frames, LaunchSend
<1>2. f \in LaunchFrame /\ f.at = "launch" /\ f.left = <<>>
  BY <1>1, TopIs, FrameKinds, Zenon DEF LaunchSend
<1>3. top \in DOMAIN stack[th] /\ stack[th][top] = f /\ Launching(th, top)
  BY <1>1, <1>2, TopPlace, Zenon DEF Launching
<1>4. InFrame(f)
  BY <1>1, <1>3, Zenon DEF LaunchedOnce
<1>5. f.result \subseteq Tasks /\ f.result \subseteq Plan(f)
  BY <1>2, Zenon DEF LaunchFrame, Plan, Current
<1>6. \A t \in f.result : t \in Tasks /\ Planned(t)
  BY <1>3, <1>5, Zenon DEF Planned
<1>7. ASSUME NEW x \in Threads, NEW i, Kept(x, i), x # th \/ i # top, Launching(x, i)'
      PROVE  Plan(stack'[x][i]) \cap f.result = {}
  <2>1. Launching(x, i) /\ Plan(stack'[x][i]) = Plan(stack[x][i])
    BY <1>7, Zenon DEF Kept, Launching
  <2>2. Plan(stack[x][i]) \cap Plan(f) = {}
    BY <1>1, <1>3, <1>7, <2>1, Zenon DEF LaunchedOnce, Launching
  <2> QED
    BY <1>5, <2>1, <2>2, Zenon
<1>8. CASE f.ops = <<>>
  <2>1. Pop(th)
    BY <1>8, Zenon DEF LaunchSend
  <2>2. \A x \in Threads : \A i \in DOMAIN stack'[x] : Kept(x, i) /\ (x = th => i # top)
    BY <1>1, <2>1, FramesPopped, Zenon
  <2> QED
    BY <1>6, <1>7, <2>2, Zenon DEF FrameGoesOn
<1>9. CASE f.ops # <<>>
  <2>1. stack' = Replaced(th, g)
    BY <1>9, Zenon DEF LaunchSend
  <2>2. g \in LaunchFrame /\ g.at = "launch" /\ g.ops = Tail(f.ops) /\ g.left = Head(f.ops) /\ g.result = {}
    <3>1. (~connected) \in BOOLEAN
      BY Zenon
    <3> QED
      BY <1>2, <1>9, <3>1, NextLaunch, Zenon
  <2> HIDE DEF g
  <2>3. f.ops \in Seq(Seq(Tasks))
    BY <1>2, Zenon DEF LaunchFrame
  <2>4. /\ Range(Head(f.ops)) \cup Later(Tail(f.ops)) \subseteq Later(f.ops)
        /\ Apart(Tail(f.ops)) /\ Range(Head(f.ops)) \cap Later(Tail(f.ops)) = {}
    BY <1>4, <1>9, <2>3, FirstOfOps, Zenon DEF InFrame
  <2>5. Plan(g) \subseteq Later(f.ops) /\ InFrame(g)
    BY <2>2, <2>4, Zenon DEF Plan, Current, InFrame
  <2>6. Plan(g) \subseteq Plan(f) /\ Plan(g) \cap f.result = {}
    BY <1>4, <2>5, Zenon DEF Plan, Current, InFrame
  <2>7. \A x \in Threads : \A i \in DOMAIN stack'[x] :
          \/ Kept(x, i) /\ (x # th \/ i # top)
          \/ i \in DOMAIN stack[x] /\ stack[x][i] = f /\ stack'[x][i] = g
    <3>1. g \in Frames
      BY <2>2, Zenon DEF Frames
    <3> QED
      BY <1>1, <2>1, <3>1, FramesReplaced, SMTT(30)
  <2> HIDE DEF f
  <2>8. ASSUME NEW x \in Threads, NEW i \in DOMAIN stack'[x]
        PROVE  /\ FrameGoesOn(x, i)
               /\ Launching(x, i)' => Plan(stack'[x][i]) \cap f.result = {}
    <3>1. CASE Kept(x, i) /\ (x # th \/ i # top)
      BY <1>7, <3>1, Zenon DEF FrameGoesOn
    <3>2. CASE i \in DOMAIN stack[x] /\ stack[x][i] = f /\ stack'[x][i] = g
      BY <1>2, <2>2, <2>5, <2>6, <3>2, Zenon DEF FrameGoesOn, Launching
    <3> QED
      BY <2>7, <3>1, <3>2, Zenon
  <2> QED
    BY <1>6, <2>8, Zenon DEF f
<1> QED
  BY <1>8, <1>9, Zenon

(* A launch that sends its tasks keeps the invariant: they are in the list *)
(* of the master and no longer in the launch.                              *)
LEMMA LaunchSendInv ==
    ASSUME LaunchInv, TypeOK', NEW th \in Threads, LaunchSend(th)
    PROVE  LaunchInv'
<1> DEFINE R == Top(th).result
           m == Request("Launch", R)
<1>1. /\ TypeOK /\ LaunchedOnce /\ InOrder
      /\ stack \in [Threads -> Seq(Frames)] /\ stack[th] # <<>> /\ outgoing \in Seq(Message)
  BY OwnList, Zenon DEF LaunchInv, TypeOK, Frames, LaunchSend
<1>2. /\ \A x \in Threads : \A i \in DOMAIN stack'[x] :
            Launching(x, i)' => Plan(stack'[x][i]) \cap R = {}
      /\ \A t \in R : t \in Tasks /\ Planned(t)
  BY SendFrames, Zenon
<1>3. LaunchesShrink /\ LaunchesInFrame /\ CallsQuiet
  BY <1>1, SendFrames, FramesGoOn, Zenon
<1>4. \A t \in Tasks : Planned(t)' => Planned(t)
  BY <1>3, ShrinkPlanned, Zenon
<1>5. \A t \in R : ~Planned(t)'
  BY <1>2, Zenon DEF Planned
<1>6. m \in Message /\ m.type = "Launch" /\ m.tasks = R
  BY <1>2, RequestIs, Zenon DEF Request, Requests
<1>7. outgoing' = outgoing \/ outgoing' = Append(outgoing, m)
  <2>1. outgoing' = outgoing \/ outgoing' = Written(outgoing, m)
    BY Zenon DEF LaunchSend, SendMesosMessage
  <2> QED
    BY <1>1, <1>6, <2>1, WrittenIs, Zenon
<1>8. UNCHANGED <<notify, life, known, active>>
  BY Zenon DEF LaunchSend
<1> HIDE DEF R, m
<1>9. \A t \in Tasks : \A i \in DOMAIN outgoing' :
         Carries(i, t)' => Carries(i, t) \/ (t \in R /\ i = Len(outgoing) + 1)
  BY <1>1, <1>6, <1>7, AppendIs, SMTT(30) DEF Carries
<1>10. \A t \in Tasks : Posted(t)' => Posted(t) \/ t \in R
  BY <1>9, Zenon DEF Posted, Carries
<1>11. \A t \in Tasks : Ahead(t)' => Ahead(t)
  BY <1>2, <1>4, <1>10, Zenon DEF Ahead
<1>12. \A t \in Tasks : ~(Planned(t)' /\ Posted(t)')
  BY <1>1, <1>4, <1>5, <1>10, Zenon DEF LaunchedOnce
<1>13. ASSUME NEW t \in Tasks, NEW i \in DOMAIN outgoing', NEW k \in DOMAIN outgoing', Carries(i, t)', Carries(k, t)'
       PROVE  i = k
  <2>1. CASE t \in R
    <3>1. ~Posted(t)
      BY <1>1, <1>2, <2>1, Zenon DEF LaunchedOnce
    <3> QED
      BY <1>9, <1>13, <3>1, Zenon DEF Posted, Carries
  <2>2. CASE t \notin R
    BY <1>1, <1>9, <1>13, <2>2, Zenon DEF LaunchedOnce, Carries
  <2> QED
    BY <2>1, <2>2, Zenon
<1>14. ASSUME NEW a \in Threads, NEW b \in Threads, NEW i \in DOMAIN stack'[a], NEW k \in DOMAIN stack'[b],
             Launching(a, i)', Launching(b, k)', a # b \/ i # k
       PROVE  Plan(stack'[a][i]) \cap Plan(stack'[b][k]) = {}
  <2>1. Launching(a, i) /\ Plan(stack'[a][i]) \subseteq Plan(stack[a][i])
    BY <1>3, <1>14, Zenon DEF LaunchesShrink
  <2>2. Launching(b, k) /\ Plan(stack'[b][k]) \subseteq Plan(stack[b][k])
    BY <1>3, <1>14, Zenon DEF LaunchesShrink
  <2>3. Plan(stack[a][i]) \cap Plan(stack[b][k]) = {}
    BY <1>1, <1>14, <2>1, <2>2, Zenon DEF LaunchedOnce, Launching
  <2> QED
    BY <2>1, <2>2, <2>3, Zenon
<1>15. /\ \A t \in known' : ~Ahead(t)'
       /\ \A t \in Tasks : life'[t] = "new" => ~Ahead(t)' /\ t \notin known'
  BY <1>1, <1>8, <1>11, Zenon DEF LaunchedOnce, TypeOK
<1>16. LaunchedOnce'
  BY <1>3, <1>12, <1>13, <1>14, <1>15, Zenon DEF LaunchedOnce, LaunchesInFrame
<1>17. \A t \in Tasks : FinishSent(t) => ~Ahead(t)' /\ t \notin known'
  BY <1>1, <1>8, <1>11, Zenon DEF InOrder
<1>18. InOrder'
  BY <1>1, <1>3, <1>8, <1>17, OrderKept, Zenon
<1>19. FinishedIsForgotten'
  BY <1>8, Zenon DEF LaunchInv, FinishedIsForgotten
<1> QED
  BY <1>16, <1>18, <1>19, Zenon DEF LaunchInv
(* acceptOffers: the tasks are new, so nobody else has them.               *)
LEMMA AcceptInv ==
    ASSUME LaunchInv, TypeOK', NEW th \in Threads, NEW ops \in Accepts, Apart(ops), AcceptOffers(th, ops)
    PROVE  LaunchInv'
<1> DEFINE f == [at |-> "launch", ops |-> Tail(ops), left |-> Head(ops), lost |-> ~connected, result |-> {}]
<1>1. TypeOK /\ LaunchedOnce /\ InOrder /\ stack \in [Threads -> Seq(Frames)]
  BY Zenon DEF LaunchInv, TypeOK, Frames
<1>2. ops \in Seq(Seq(Tasks)) /\ ops # <<>>
  BY SchedulerAssumption, Zenon DEF AcceptOffers
<1>3. f \in LaunchFrame
  <2>1. (~connected) \in BOOLEAN
    BY Zenon
  <2> QED
    BY <1>2, <2>1, FirstLaunch, Zenon
<1>4. f.at = "launch" /\ f.ops = Tail(ops) /\ f.left = Head(ops) /\ f.result = {} /\ Push(th, f)
  BY Zenon DEF AcceptOffers
<1> HIDE DEF f
<1>5. Plan(f) \subseteq Later(ops) /\ InFrame(f)
  BY <1>2, <1>4, FirstOfOps, SMTT(30) DEF Plan, Current, InFrame
<1>6. /\ \A t \in Later(ops) : t \in Tasks => life[t] = "new" /\ life'[t] = "launched"
      /\ \A t \in Tasks : life'[t] \in {"new", "finished"} => life'[t] = life[t]
  BY Zenon DEF AcceptOffers, Later
<1>7. \A t \in Tasks : t \in Plan(f) => ~Ahead(t) /\ t \notin known /\ ~FinishSent(t) /\ life'[t] = "launched"
  BY <1>1, <1>5, <1>6, Zenon DEF LaunchedOnce, InOrder
<1>8. UNCHANGED <<notify, known, active, outgoing>>
  BY Zenon DEF AcceptOffers
<1>9. \A x \in Threads : \A i \in DOMAIN stack'[x] :
         Kept(x, i) \/ (x = th /\ i = Len(stack[th]) + 1 /\ stack'[x][i] = f)
  <2>1. f \in Frames
    BY <1>3, Zenon DEF Frames
  <2> QED
    BY <1>1, <1>4, <2>1, FramesPushed, Zenon
<1>10. Plan(f) \subseteq Tasks
  <2>1. Range(f.left) \subseteq Tasks
    BY <1>3, SMTT(30) DEF LaunchFrame, Range
  <2>2. \A k \in DOMAIN f.ops : Range(f.ops[k]) \subseteq Tasks
    BY <1>3, SMTT(30) DEF LaunchFrame, Range
  <2> QED
    BY <1>4, <2>1, <2>2, Zenon DEF Plan, Current, Later
<1>11. ASSUME NEW x \in Threads, NEW i \in DOMAIN stack'[x], Kept(x, i), Launching(x, i)'
       PROVE  /\ Launching(x, i) /\ Plan(stack'[x][i]) = Plan(stack[x][i]) /\ InFrame(stack'[x][i])
              /\ Plan(stack'[x][i]) \cap Plan(f) = {}
  <2>1. Launching(x, i) /\ stack'[x][i] = stack[x][i]
    BY <1>11, Zenon DEF Kept, Launching
  <2>2. \A t \in Plan(stack[x][i]) : Planned(t)
    BY <2>1, Zenon DEF Planned, Launching
  <2>3. Plan(stack[x][i]) \cap Plan(f) = {}
    BY <1>7, <1>10, <2>2, Zenon DEF Ahead
  <2> QED
    BY <1>1, <2>1, <2>3, Zenon DEF LaunchedOnce, Launching
<1>12. ASSUME NEW t \in Tasks, Planned(t)' PROVE Planned(t) \/ t \in Plan(f)
  <2>1. PICK x \in Threads : \E i \in DOMAIN stack'[x] : Launching(x, i)' /\ t \in Plan(stack'[x][i])
    BY <1>12, Zenon DEF Planned
  <2>2. PICK i \in DOMAIN stack'[x] : Launching(x, i)' /\ t \in Plan(stack'[x][i])
    BY <2>1, Zenon
  <2>3. CASE Kept(x, i)
    BY <1>11, <2>2, <2>3, Zenon DEF Planned, Launching
  <2>4. CASE stack'[x][i] = f
    BY <2>2, <2>4, Zenon
  <2> QED
    BY <1>9, <2>3, <2>4, Zenon
<1>13. \A t \in Tasks : Posted(t)' <=> Posted(t)
  BY <1>8, Zenon DEF Posted, Carries
<1>14. ASSUME NEW a \in Threads, NEW b \in Threads, NEW i \in DOMAIN stack'[a], NEW k \in DOMAIN stack'[b],
             Launching(a, i)', Launching(b, k)', a # b \/ i # k
       PROVE  Plan(stack'[a][i]) \cap Plan(stack'[b][k]) = {}
  <2>1. CASE Kept(a, i) /\ Kept(b, k)
    BY <1>1, <1>11, <1>14, <2>1, SMTT(30) DEF LaunchedOnce, Launching
  <2>2. CASE Kept(a, i) /\ ~Kept(b, k)
    BY <1>9, <1>11, <1>14, <2>2, Zenon
  <2>3. CASE ~Kept(a, i) /\ Kept(b, k)
    BY <1>9, <1>11, <1>14, <2>3, Zenon
  <2>4. CASE ~Kept(a, i) /\ ~Kept(b, k)
    BY <1>9, <1>14, <2>4, Zenon
  <2> QED
    BY <2>1, <2>2, <2>3, <2>4, Zenon
<1>15. \A x \in Threads : \A i \in DOMAIN stack'[x] : Launching(x, i)' => InFrame(stack'[x][i])
  BY <1>5, <1>9, <1>11, Zenon
<1>16. \A t \in Tasks : \A i, k \in DOMAIN outgoing' : Carries(i, t)' /\ Carries(k, t)' => i = k
  BY <1>1, <1>8, Zenon DEF LaunchedOnce, Carries
<1>17. \A t \in Tasks : ~(Planned(t)' /\ Posted(t)')
  BY <1>1, <1>7, <1>12, <1>13, Zenon DEF LaunchedOnce, Ahead
<1>18. \A t \in known' : ~Ahead(t)'
  BY <1>1, <1>7, <1>8, <1>12, <1>13, Zenon DEF LaunchedOnce, Ahead, TypeOK
<1>19. \A t \in Tasks : life'[t] = "new" => ~Ahead(t)' /\ t \notin known'
  BY <1>1, <1>6, <1>7, <1>8, <1>12, <1>13, Zenon DEF LaunchedOnce, Ahead
<1>20. LaunchedOnce'
  BY <1>14, <1>15, <1>16, <1>17, <1>18, <1>19, Zenon DEF LaunchedOnce
<1>21. CallsQuiet
  BY <1>4, <1>9, Zenon DEF CallsQuiet, Kept, Calling
<1>22. \A t \in Tasks : FinishSent(t) => ~Ahead(t)' /\ t \notin known'
  BY <1>1, <1>7, <1>8, <1>12, <1>13, Zenon DEF InOrder, Ahead
<1>23. InOrder'
  BY <1>1, <1>6, <1>8, <1>21, <1>22, OrderKept, Zenon
<1>24. FinishedIsForgotten'
  BY <1>6, <1>8, Zenon DEF LaunchInv, FinishedIsForgotten
<1> QED
  BY <1>20, <1>23, <1>24, Zenon DEF LaunchInv
(* A message is read: its callback is at the bottom of the loop's stack.   *)
LEMMA OnInputInv ==
    ASSUME LaunchInv, TypeOK', OnInput
    PROVE  LaunchInv'
<1> DEFINE n == Head(notify)
           c == Callback(n)
<1>1. /\ TypeOK /\ LaunchedOnce /\ InOrder /\ stack \in [Threads -> Seq(Frames)]
      /\ "loop" \in Threads /\ stack["loop"] = <<>> /\ NoLaunchMore(outgoing)
  BY OwnList, Zenon DEF LaunchInv, TypeOK, Frames, Threads, OnInput, Idle
<1>2. /\ notify \in Seq(Notification) /\ notify # <<>> /\ notify' = Tail(notify)
      /\ UNCHANGED <<life, known, active>>
  BY Zenon DEF OnInput, TypeOK, LaunchInv
<1>3. /\ n \in Notification /\ 1 \in DOMAIN notify /\ n = notify[1]
      /\ \A i \in DOMAIN notify' : i + 1 \in DOMAIN notify /\ notify'[i] = notify[i + 1]
      /\ \A i \in DOMAIN notify' : ~(i + 1 < 1)
      /\ \A i, k \in DOMAIN notify' : i < k <=> i + 1 < k + 1
  BY <1>2, TailIs, SMTT(30)
<1>4. c \in Frames /\ c.at # "launch" /\ c.note = n
  BY <1>3, UpdateIsFrame, Zenon
<1>5. UNCHANGED stack \/ Push("loop", c)
  BY Zenon DEF OnInput, Registered, Delivered, ServiceDisconnected
<1>6. NoLaunchMore(outgoing')
  <2>1. outgoing' = outgoing \/ outgoing' = Written(outgoing, Request("Reregister", {}))
    BY Zenon DEF OnInput, Registered, Delivered, ServiceDisconnected, SendMesosMessage
  <2> QED
    BY <1>1, <2>1, OtherRequest, Zenon DEF Requests
<1> HIDE DEF n, c
<1>7. ASSUME NEW x \in Threads, NEW i \in DOMAIN stack'[x]
      PROVE  Kept(x, i) \/ (x = "loop" /\ i = 1 /\ stack'[x][i] = c)
  <2>1. CASE UNCHANGED stack
    BY <1>7, <2>1, Zenon DEF Kept
  <2>2. CASE Push("loop", c)
    <3>1. Kept(x, i) \/ (x = "loop" /\ i = Len(stack["loop"]) + 1 /\ stack'[x][i] = c)
      BY <1>1, <1>4, <1>7, <2>2, FramesPushed, SMTT(30)
    <3>2. Len(stack["loop"]) + 1 = 1
      BY <1>1, SMTT(30)
    <3> QED
      BY <3>1, <3>2, Zenon
  <2> QED
    BY <1>5, <2>1, <2>2, Zenon
<1>8. LaunchesShrink /\ LaunchesInFrame
  <2>1. ASSUME NEW x \in Threads, NEW i \in DOMAIN stack'[x], Launching(x, i)'
        PROVE  Launching(x, i) /\ stack'[x][i] = stack[x][i]
    BY <1>4, <1>7, <2>1, Zenon DEF Kept, Launching
  <2> QED
    BY <1>1, <2>1, SMTT(30) DEF LaunchesShrink, LaunchesInFrame, LaunchedOnce, Launching
<1>9. LaunchedOnce' /\ \A t \in Tasks : Ahead(t)' => Ahead(t)
  BY <1>1, <1>2, <1>6, <1>8, NoMoreLaunched, OnceKept, Zenon
<1>10. ASSUME NEW t \in Tasks, FinishRead(t)' PROVE FinishRead(t) \/ Finish(n, t)
  <2>1. CASE life'[t] = "finished"
    BY <1>2, <2>1, Zenon DEF FinishRead
  <2>2. CASE life'[t] # "finished"
    <3>1. PICK x \in Threads : \E i \in DOMAIN stack'[x] : Calling(x, i)' /\ Finish(stack'[x][i].note, t)
      BY <1>10, <2>2, Zenon DEF FinishRead
    <3>2. PICK i \in DOMAIN stack'[x] : Calling(x, i)' /\ Finish(stack'[x][i].note, t)
      BY <3>1, Zenon
    <3>3. CASE Kept(x, i)
      BY <3>2, <3>3, Zenon DEF Kept, Calling, FinishRead
    <3>4. CASE stack'[x][i] = c
      BY <1>4, <3>2, <3>4, Zenon
    <3> QED
      BY <1>7, <3>3, <3>4, Zenon
  <2> QED
    BY <2>1, <2>2, Zenon
<1>11. \A t \in Tasks : FinishSent(t)' => FinishSent(t)
  BY <1>3, <1>10, Zenon DEF FinishSent
<1>12. \A t \in Tasks : FinishSent(t)' => ~Ahead(t)' /\ t \notin known' /\ life'[t] # "new"
  BY <1>1, <1>2, <1>9, <1>11, Zenon DEF InOrder
<1>13. \A t \in Tasks : \A i, k \in DOMAIN notify' : Finish(notify'[i], t) /\ Alive(notify'[k], t) => k < i
  BY <1>1, <1>3, Zenon DEF InOrder
<1>14. ASSUME NEW t \in Tasks, FinishRead(t)', NEW i \in DOMAIN notify', Alive(notify'[i], t)
       PROVE  FALSE
  <2>1. i + 1 \in DOMAIN notify /\ Alive(notify[i + 1], t)
    BY <1>3, <1>14, Zenon
  <2>2. CASE FinishRead(t)
    BY <1>1, <2>1, <2>2, Zenon DEF InOrder
  <2>3. CASE Finish(n, t)
    BY <1>1, <1>3, <2>1, <2>3, Zenon DEF InOrder
  <2> QED
    BY <1>10, <1>14, <2>2, <2>3, Zenon
<1>15. ASSUME NEW t \in Tasks, life'[t] = "finished", NEW x \in Threads, NEW i \in DOMAIN stack'[x],
              Calling(x, i)', Alive(stack'[x][i].note, t)
       PROVE  FALSE
  <2>0. life[t] = "finished" /\ FinishRead(t)
    BY <1>2, <1>15, Zenon DEF FinishRead
  <2>1. CASE Kept(x, i)
    BY <1>1, <1>15, <2>0, <2>1, Zenon DEF Kept, Calling, InOrder
  <2>2. CASE stack'[x][i] = c
    <3>1. Alive(notify[1], t)
      BY <1>3, <1>4, <1>15, <2>2, Zenon
    <3> QED
      BY <1>1, <1>3, <2>0, <3>1, Zenon DEF InOrder
  <2> QED
    BY <1>7, <2>1, <2>2, Zenon
<1>16. ASSUME NEW x \in Threads, NEW i \in DOMAIN stack'[x], Calling(x, i)', Foreign(stack'[x][i].note)
       PROVE  x = "loop" /\ i = 1
  <2>1. CASE Kept(x, i)
    BY <1>1, <1>16, <2>1, Zenon DEF Kept, Calling, InOrder
  <2> QED
    BY <1>7, <2>1, Zenon
<1>17. InOrder'
  BY <1>12, <1>13, <1>14, <1>15, <1>16, Zenon DEF InOrder
<1>18. FinishedIsForgotten'
  BY <1>2, Zenon DEF LaunchInv, FinishedIsForgotten
<1> QED
  BY <1>9, <1>17, <1>18, Zenon DEF LaunchInv

(* A callback returns or raises.  When the end of a task was handled no    *)
(* other update of the master is.                                          *)
LEMMA ReturnInv ==
    ASSUME LaunchInv, TypeOK', NEW th \in Threads, Leave(th) \/ Raise(th)
    PROVE  LaunchInv'
<1> DEFINE n == Top(th).note
           top == Len(stack[th])
<1>1. /\ TypeOK /\ LaunchedOnce /\ InOrder
      /\ stack \in [Threads -> Seq(Frames)] /\ stack[th] # <<>> /\ Pop(th)
      /\ outgoing \in Seq(Message) /\ NoLaunchMore(outgoing)
  BY OwnList, Zenon DEF LaunchInv, TypeOK, Frames, Leave, Raise
<1>2. Top(th) \in CallbackFrame /\ Top(th).at # "launch"
  BY <1>1, TopIs, FrameKinds, Zenon DEF Leave, Raise
<1>3. n \in Notification
  BY <1>2, Zenon DEF CallbackFrame
<1>4. top \in DOMAIN stack[th] /\ stack[th][top] = Top(th) /\ Calling(th, top)
  BY <1>1, <1>2, TopPlace, Zenon DEF Calling
<1>5. \A x \in Threads : \A i \in DOMAIN stack'[x] : Kept(x, i) /\ (x = th => i # top)
  BY <1>1, FramesPopped, Zenon
<1>6. LaunchesShrink /\ LaunchesInFrame /\ CallsQuiet
  BY <1>1, <1>5, FramesGoOn, Zenon DEF FrameGoesOn
<1>7. NoLaunchMore(outgoing')
  <2> DEFINE q == IF connected THEN Written(outgoing, Request("Deactivate", {})) ELSE outgoing
             a == Request("Other", n.tasks)
  <2>1. a \in Message /\ a.type # "Launch"
    BY <1>3, RequestIs, Zenon DEF Requests, Notification, Request
  <2>2. q \in Seq(Message) /\ NoLaunchMore(q)
    BY <1>1, OtherRequest, Zenon DEF Requests
  <2>3. outgoing' \in {outgoing, q, Written(outgoing, a), Written(q, a)}
    BY Zenon DEF Leave, Raise, StatusUpdateAcknowledgement
  <2> HIDE DEF q, a
  <2> QED
    BY <1>1, <2>1, <2>2, <2>3, WrittenMore, Zenon
<1>8. UNCHANGED <<notify, known>> /\ StatusUpdated(n)
  BY Zenon DEF Leave, Raise
<1>9. \A t \in Tasks : life'[t] = IF Finish(n, t) THEN "finished" ELSE life[t]
  BY <1>8, Zenon DEF StatusUpdated, Finish, IsUpdate
<1>10. \A t \in Tasks : Finish(n, t) => FinishRead(t)
  BY <1>4, Zenon DEF FinishRead
<1> HIDE DEF n, top
<1>11. \A t \in Tasks : life'[t] = "new" => life[t] = "new"
  BY <1>9, Zenon
<1>12. LaunchedOnce' /\ \A t \in Tasks : Ahead(t)' => Ahead(t)
  BY <1>1, <1>6, <1>7, <1>8, <1>11, NoMoreLaunched, OnceKept, Zenon
<1>13. \A t \in Tasks : FinishRead(t)' => FinishRead(t)
  <2>1. \A t \in Tasks : life'[t] = "finished" => FinishRead(t)
    BY <1>9, <1>10, Zenon DEF FinishRead
  <2> QED
    BY <1>6, <2>1, QuietRead, Zenon
<1>14. \A t \in Tasks : FinishSent(t)' => FinishSent(t)
  BY <1>8, <1>13, Zenon DEF FinishSent
<1>15. \A t \in Tasks : FinishSent(t)' => ~Ahead(t)' /\ t \notin known' /\ life'[t] # "new"
  BY <1>1, <1>8, <1>11, <1>12, <1>14, Zenon DEF InOrder
<1>16. /\ \A t \in Tasks : \A i, k \in DOMAIN notify' : Finish(notify'[i], t) /\ Alive(notify'[k], t) => k < i
       /\ \A t \in Tasks : FinishRead(t)' => \A i \in DOMAIN notify' : ~Alive(notify'[i], t)
  BY <1>1, <1>8, <1>13, Zenon DEF InOrder
<1>17. ASSUME NEW t \in Tasks, life'[t] = "finished", NEW x \in Threads, NEW i \in DOMAIN stack'[x],
              Calling(x, i)', Alive(stack'[x][i].note, t)
       PROVE  FALSE
  <2>1. Calling(x, i) /\ Alive(stack[x][i].note, t) /\ i \in DOMAIN stack[x]
    BY <1>5, <1>17, Zenon DEF Kept, Calling
  <2>2. CASE life[t] = "finished"
    BY <1>1, <2>1, <2>2, Zenon DEF InOrder
  <2>3. CASE Finish(n, t)
    <3>1. th = "loop" /\ top = 1
      BY <1>1, <1>4, <2>3, UpdatesForeign, Zenon DEF InOrder, n
    <3>2. x = "loop" /\ i = 1
      BY <1>1, <2>1, UpdatesForeign, Zenon DEF InOrder
    <3> QED
      BY <1>5, <1>17, <3>1, <3>2, Zenon
  <2> QED
    BY <1>9, <1>17, <2>2, <2>3, Zenon
<1>18. \A x \in Threads : \A i \in DOMAIN stack'[x] :
          Calling(x, i)' /\ Foreign(stack'[x][i].note) => x = "loop" /\ i = 1
  BY <1>1, <1>6, Zenon DEF CallsQuiet, InOrder, Calling
<1>19. InOrder'
  BY <1>15, <1>16, <1>17, <1>18, Zenon DEF InOrder
<1>20. ASSUME NEW t \in Tasks, life'[t] = "finished" PROVE active'[t] = "none"
  <2>1. active'[t] = IF IsUpdate(n, t) /\ n.state \in Terminal THEN "none"
                     ELSE IF IsUpdate(n, t) THEN n.state ELSE active[t]
    BY <1>8, Zenon DEF StatusUpdated, IsUpdate
  <2>2. CASE IsUpdate(n, t) /\ n.state \in Terminal
    BY <2>1, <2>2, Zenon
  <2>3. CASE ~IsUpdate(n, t)
    <3>1. life[t] = "finished"
      BY <1>9, <1>20, <2>3, Zenon DEF Finish
    <3> QED
      BY <2>1, <2>3, <3>1, Zenon DEF LaunchInv, FinishedIsForgotten
  <2>4. CASE Alive(n, t)
    <3>1. life[t] = "finished"
      BY <1>9, <1>20, <2>4, Zenon DEF Finish, Alive, Terminal
    <3> QED
      BY <1>1, <1>4, <2>4, <3>1, Zenon DEF InOrder, n
  <2> QED
    BY <2>2, <2>3, <2>4, Zenon DEF Alive
<1>21. FinishedIsForgotten'
  BY <1>20, Zenon DEF FinishedIsForgotten
<1> QED
  BY <1>12, <1>19, <1>21, Zenon DEF LaunchInv
(* The master answers and sends: the frames and the past of the driver     *)
(* stay as they are.                                                       *)
LEMMA SameStack ==
    ASSUME UNCHANGED <<stack, life>>, NEW t
    PROVE  (Planned(t)' <=> Planned(t)) /\ (FinishRead(t)' <=> FinishRead(t))
BY Zenon DEF Planned, Launching, FinishRead, Calling

(* What the master adds to the list: it says of a task that it is running  *)
(* only while it knows it, and of its end only when it forgets it.         *)
LEMMA MasterInv ==
    ASSUME LaunchInv, TypeOK', UNCHANGED <<stack, life, active>>,
           \A t \in Tasks : \A i \in DOMAIN outgoing' :
              Carries(i, t)' => Carries(i, t) \/ (Carries(i + 1, t) /\ ~Carries(1, t)),
           \A t \in Tasks : \A i, k \in DOMAIN outgoing' : Carries(i, t)' /\ Carries(k, t)' => i = k,
           \A t \in Tasks : t \in known' => t \in known \/ (Posted(t) /\ ~Posted(t)'),
           \A i \in DOMAIN notify' :
              \/ i \in DOMAIN notify /\ notify'[i] = notify[i]
              \/ i \notin DOMAIN notify /\ \A k \in DOMAIN notify : k < i,
           \A t \in Tasks : \A i \in DOMAIN notify' :
              i \notin DOMAIN notify =>
                 /\ Alive(notify'[i], t) => t \in known
                 /\ Finish(notify'[i], t) => t \in known /\ t \notin known',
           \A t \in Tasks : \A i, k \in DOMAIN notify' :
              i \notin DOMAIN notify /\ k \notin DOMAIN notify => ~(Finish(notify'[i], t) /\ Alive(notify'[k], t))
    PROVE  LaunchInv'
<1>1. TypeOK /\ LaunchedOnce /\ InOrder
  BY Zenon DEF LaunchInv
<1>2. \A t \in Tasks : (Planned(t)' <=> Planned(t)) /\ (FinishRead(t)' <=> FinishRead(t))
  BY SameStack, Zenon
<1>3. \A t \in Tasks : Posted(t)' => Posted(t)
  BY Zenon DEF Posted, Carries
<1>4. \A t \in Tasks : Ahead(t)' => Ahead(t)
  BY <1>2, <1>3, Zenon DEF Ahead
<1>5. \A t \in Tasks : ~(Planned(t)' /\ Posted(t)')
  BY <1>1, <1>2, <1>3, Zenon DEF LaunchedOnce
<1>6. \A t \in known' : ~Ahead(t)'
  <2>1. ASSUME NEW t \in Tasks, t \in known' PROVE ~Ahead(t)'
    <3>1. CASE t \in known
      BY <1>1, <1>4, <3>1, Zenon DEF LaunchedOnce
    <3>2. CASE Posted(t) /\ ~Posted(t)'
      BY <1>1, <1>2, <3>2, Zenon DEF LaunchedOnce, Ahead
    <3> QED
      BY <2>1, <3>1, <3>2, Zenon
  <2> QED
    BY <2>1, Zenon DEF TypeOK
<1>7. \A t \in Tasks : ~Ahead(t) /\ t \notin known => ~Ahead(t)' /\ t \notin known'
  BY <1>4, Zenon DEF Ahead
<1>8. \A t \in Tasks : life'[t] = "new" => ~Ahead(t)' /\ t \notin known'
  BY <1>1, <1>7, Zenon DEF LaunchedOnce
<1>9. /\ \A a, b \in Threads : \A i \in DOMAIN stack'[a], k \in DOMAIN stack'[b] :
            Launching(a, i)' /\ Launching(b, k)' /\ (a # b \/ i # k)
                => Plan(stack'[a][i]) \cap Plan(stack'[b][k]) = {}
      /\ \A th \in Threads : \A i \in DOMAIN stack'[th] : Launching(th, i)' => InFrame(stack'[th][i])
  BY <1>1, SMTT(30) DEF LaunchedOnce, Launching
<1>10. LaunchedOnce'
  BY <1>5, <1>6, <1>8, <1>9, Zenon DEF LaunchedOnce
<1>11. ASSUME NEW t \in Tasks, FinishSent(t)'
       PROVE  ~Ahead(t)' /\ t \notin known' /\ life'[t] # "new"
  <2>1. CASE FinishSent(t)
    BY <1>1, <1>7, <2>1, Zenon DEF InOrder
  <2>2. CASE ~FinishSent(t)
    <3>1. PICK i \in DOMAIN notify' : Finish(notify'[i], t)
      BY <1>2, <1>11, <2>2, Zenon DEF FinishSent
    <3>2. i \notin DOMAIN notify
      BY <2>2, <3>1, Zenon DEF FinishSent
    <3>3. t \in known /\ t \notin known'
      BY <3>1, <3>2, Zenon
    <3> QED
      BY <1>1, <1>4, <3>3, Zenon DEF LaunchedOnce
  <2> QED
    BY <2>1, <2>2, Zenon
<1>12. ASSUME NEW t \in Tasks, NEW i \in DOMAIN notify', NEW k \in DOMAIN notify',
              Finish(notify'[i], t), Alive(notify'[k], t)
       PROVE  k < i
  <2>1. CASE i \in DOMAIN notify /\ k \in DOMAIN notify
    BY <1>1, <1>12, <2>1, Zenon DEF InOrder
  <2>2. CASE i \in DOMAIN notify /\ k \notin DOMAIN notify
    <3>1. FinishSent(t)
      BY <1>12, <2>2, Zenon DEF FinishSent
    <3> QED
      BY <1>1, <1>12, <2>2, <3>1, Zenon DEF InOrder
  <2>3. CASE i \notin DOMAIN notify /\ k \in DOMAIN notify
    BY <1>12, <2>3, Zenon
  <2>4. CASE i \notin DOMAIN notify /\ k \notin DOMAIN notify
    BY <1>12, <2>4, Zenon
  <2> QED
    BY <2>1, <2>2, <2>3, <2>4, Zenon
<1>13. ASSUME NEW t \in Tasks, FinishRead(t)', NEW i \in DOMAIN notify', Alive(notify'[i], t)
       PROVE  FALSE
  <2>0. FinishRead(t) /\ FinishSent(t)
    BY <1>2, <1>13, Zenon DEF FinishSent
  <2>1. CASE i \in DOMAIN notify
    BY <1>1, <1>13, <2>0, <2>1, Zenon DEF InOrder
  <2>2. CASE i \notin DOMAIN notify
    BY <1>1, <1>13, <2>0, <2>2, Zenon DEF InOrder
  <2> QED
    BY <2>1, <2>2, Zenon
<1>14. /\ \A t \in Tasks : life'[t] = "finished" =>
            \A th \in Threads : \A i \in DOMAIN stack'[th] : Calling(th, i)' => ~Alive(stack'[th][i].note, t)
       /\ \A th \in Threads : \A i \in DOMAIN stack'[th] :
            Calling(th, i)' /\ Foreign(stack'[th][i].note) => th = "loop" /\ i = 1
  BY <1>1, Zenon DEF InOrder, Calling
<1>15. InOrder'
  BY <1>11, <1>12, <1>13, <1>14, Zenon DEF InOrder
<1>16. FinishedIsForgotten'
  BY Zenon DEF LaunchInv, FinishedIsForgotten
<1> QED
  BY <1>10, <1>15, <1>16, Zenon DEF LaunchInv

(* Of one task, an update says one thing.                                  *)
LEMMA UpdateSays ==
    ASSUME NEW t \in Tasks, NEW s, NEW u \in Tasks
    PROVE  /\ Finish(Update(u, s), t) <=> t = u /\ s = "FINISHED"
           /\ Alive(Update(u, s), t) <=> t = u /\ s \notin Terminal
BY Zenon DEF Finish, Alive, IsUpdate, Update

(* The master keeps the invariant when it takes a message: a task leaves   *)
(* the list when it becomes known, and stops to be known when its end is   *)
(* sent.                                                                   *)
LEMMA MasterTakesInv ==
    ASSUME LaunchInv, TypeOK', MasterTakes
    PROVE  LaunchInv'
<1> DEFINE m == Head(outgoing)
           A == Answers(m)
<1>1. /\ TypeOK /\ LaunchedOnce /\ InOrder /\ outgoing \in Seq(Message) /\ outgoing # <<>>
      /\ outgoing' = Tail(outgoing) /\ notify \in Seq(Notification) /\ notify' = notify \o A
      /\ UNCHANGED <<stack, life, active>>
  BY OwnList, Zenon DEF LaunchInv, TypeOK, MasterTakes
<1>2. /\ m \in Message /\ 1 \in DOMAIN outgoing /\ m = outgoing[1]
      /\ \A i \in DOMAIN outgoing' : i + 1 \in DOMAIN outgoing /\ i + 1 # 1 /\ outgoing'[i] = outgoing[i + 1]
      /\ \A i, k \in DOMAIN outgoing' : i # k => i + 1 # k + 1
  BY <1>1, TailIs, SMTT(30)
<1>3. A \in Seq(Notification) /\ \A i \in DOMAIN A : AnswerTo(m, A[i])
  BY <1>2, AnswersAre, Zenon
<1>4. m.tasks \subseteq Tasks
  BY <1>2, Zenon DEF Message
<1>5. known' = CASE m.type = "Launch" /\ master = "active" -> known \cup m.tasks
                 [] m.type = "Kill" -> known \ m.tasks
                 [] m.type = "Unregister" -> {}
                 [] OTHER -> known
  BY Zenon DEF MasterTakes
<1> HIDE DEF m, A
<1>6. \A t \in Tasks : \A i \in DOMAIN outgoing' :
          Carries(i, t)' => Carries(i + 1, t) /\ ~Carries(1, t)
  BY <1>1, <1>2, SMTT(30) DEF Carries, LaunchedOnce
<1>7. \A t \in Tasks : \A i, k \in DOMAIN outgoing' : Carries(i, t)' /\ Carries(k, t)' => i = k
  BY <1>1, <1>2, <1>6, SMTT(30) DEF Carries, LaunchedOnce
<1>8. ASSUME NEW t \in Tasks, t \in known', t \notin known PROVE Posted(t) /\ ~Posted(t)'
  <2>1. m.type = "Launch" /\ t \in m.tasks
    BY <1>5, <1>8, Zenon
  <2>2. Carries(1, t)
    BY <1>2, <2>1, Zenon DEF Carries
  <2> QED
    BY <1>6, <2>2, Zenon DEF Posted, Carries
<1>9. ASSUME NEW i \in DOMAIN notify'
      PROVE  /\ \/ i \in DOMAIN notify /\ notify'[i] = notify[i]
                \/ i \notin DOMAIN notify /\ \A k \in DOMAIN notify : k < i
             /\ i \notin DOMAIN notify => AnswerTo(m, notify'[i])
  <2>1. \/ i \in DOMAIN notify /\ (notify \o A)[i] = notify[i]
        \/ i - Len(notify) \in DOMAIN A /\ i > Len(notify) /\ (notify \o A)[i] = A[i - Len(notify)]
    BY <1>1, <1>3, <1>9, ConcatIs, Zenon
  <2>2. i > Len(notify) => i \notin DOMAIN notify /\ \A k \in DOMAIN notify : k < i
    <3>1. i \in Nat /\ Len(notify) \in Nat /\ DOMAIN notify = 1..Len(notify)
      BY <1>1, <1>3, <1>9, SMTT(30)
    <3> QED BY <3>1, SMTT(30)
  <2> QED
    BY <1>1, <1>3, <2>1, <2>2, Zenon
<1>10. ASSUME NEW t \in Tasks, NEW n, AnswerTo(m, n)
       PROVE  /\ Alive(n, t) => m.type = "Reconcile" /\ t \in known
              /\ Finish(n, t) => m.type = "Kill" /\ t \in known /\ t \notin known'
  <2>1. ASSUME Alive(n, t) \/ Finish(n, t)
        PROVE  \E u \in m.tasks :
                  \/ m.type = "Reconcile" /\ n = Update(u, IF u \in known THEN "RUNNING" ELSE "LOST")
                  \/ m.type = "Kill" /\ u \in known /\ n = Update(u, "FINISHED")
    BY <1>10, <2>1, Zenon DEF AnswerTo, Alive, Finish, IsUpdate
  <2>2. ASSUME Alive(n, t) PROVE m.type = "Reconcile" /\ t \in known
    BY <1>4, <2>1, <2>2, UpdateSays, SMTT(30) DEF Terminal
  <2>3. ASSUME Finish(n, t) PROVE m.type = "Kill" /\ t \in known /\ t \in m.tasks
    BY <1>4, <2>1, <2>3, UpdateSays, SMTT(30)
  <2>4. m.type = "Kill" => known' = known \ m.tasks
    BY <1>5, Zenon
  <2> QED
    BY <2>2, <2>3, <2>4, Zenon
<1> QED
  BY <1>1, <1>6, <1>7, <1>8, <1>9, <1>10, MasterInv, SMTT(30)

(* The master keeps the invariant when it sends an update unasked.         *)
LEMMA MasterSendsInv ==
    ASSUME LaunchInv, TypeOK', MasterSends
    PROVE  LaunchInv'
<1>1. /\ TypeOK /\ LaunchedOnce /\ notify \in Seq(Notification) /\ known \subseteq Tasks
      /\ UNCHANGED <<stack, life, active, outgoing>>
  BY Zenon DEF LaunchInv, TypeOK, MasterSends
<1>2. \E n \in Notification :
        /\ notify' = Append(notify, n)
        /\ known' \subseteq known
        /\ \A t \in Tasks : /\ Alive(n, t) => t \in known
                            /\ Finish(n, t) => t \in known /\ t \notin known'
  <2>1. CASE \E type \in Unasked : notify' = Append(notify, Note(type)) /\ UNCHANGED known
    <3>1. PICK type \in Unasked : notify' = Append(notify, Note(type)) /\ UNCHANGED known
      BY <2>1, Zenon
    <3>2. Note(type) \in Notification
      BY SchedulerAssumption, Zenon DEF Note, Notification, TaskStates
    <3>3. \A t \in Tasks : ~Alive(Note(type), t) /\ ~Finish(Note(type), t)
      BY Zenon DEF Note, Alive, Finish, IsUpdate
    <3> QED
      BY <3>1, <3>2, <3>3, Zenon
  <2>2. ASSUME NEW u \in known, NEW s \in TaskStates, notify' = Append(notify, Update(u, s)),
               known' \subseteq known, s = "FINISHED" => known' = known \ {u}
        PROVE  \E n \in Notification :
                 /\ notify' = Append(notify, n)
                 /\ known' \subseteq known
                 /\ \A t \in Tasks : /\ Alive(n, t) => t \in known
                                     /\ Finish(n, t) => t \in known /\ t \notin known'
    <3>1. Update(u, s) \in Notification
      BY <1>1, Zenon DEF Update, Notification, Notifications
    <3>2. \A t \in Tasks : /\ Alive(Update(u, s), t) => t \in known
                           /\ Finish(Update(u, s), t) => t \in known /\ t \notin known'
      BY <1>1, <2>2, UpdateSays, SMTT(30)
    <3> QED
      BY <2>2, <3>1, <3>2, Zenon
  <2> QED
    BY <2>1, <2>2, Zenon DEF MasterSends, TaskStates
<1>3. PICK n \in Notification :
        /\ notify' = Append(notify, n)
        /\ known' \subseteq known
        /\ \A t \in Tasks : /\ Alive(n, t) => t \in known
                            /\ Finish(n, t) => t \in known /\ t \notin known'
  BY <1>2, Zenon
<1>4. ASSUME NEW i \in DOMAIN notify'
      PROVE  \/ i \in DOMAIN notify /\ notify'[i] = notify[i]
             \/ i \notin DOMAIN notify /\ notify'[i] = n /\ \A k \in DOMAIN notify : k < i
  BY <1>1, <1>3, <1>4, SMTT(30)
<1>5. \A t : ~(Finish(n, t) /\ Alive(n, t))
  BY Zenon DEF Finish, Alive, Terminal
<1>6. /\ \A t \in Tasks : \A i \in DOMAIN outgoing' : Carries(i, t)' => Carries(i, t)
      /\ \A t \in Tasks : \A i, k \in DOMAIN outgoing' : Carries(i, t)' /\ Carries(k, t)' => i = k
  BY <1>1, Zenon DEF Carries, LaunchedOnce
<1> QED
  BY <1>1, <1>3, <1>4, <1>5, <1>6, MasterInv, Zenon
----------------------------------------------------------------------------
(* Nothing is launched or has ended at first.                              *)
LEMMA LaunchInvInit == Init => LaunchInv
<1> SUFFICES ASSUME Init PROVE LaunchInv
  BY Zenon
<1>1. TypeOK
  BY TypeInit, Zenon
<1>2. /\ \A th \in Threads : DOMAIN stack[th] = {}
      /\ DOMAIN outgoing = {} /\ DOMAIN notify = {} /\ known = {}
      /\ \A t \in Tasks : life[t] = "new"
  BY SMTT(30) DEF Init
<1>3. \A t \in Tasks : ~Ahead(t) /\ ~FinishSent(t)
  BY <1>2, Zenon DEF Ahead, Planned, Posted, FinishSent, FinishRead
<1>4. LaunchedOnce
  BY <1>2, <1>3, Zenon DEF LaunchedOnce, Ahead
<1>5. InOrder
  BY <1>2, <1>3, Zenon DEF InOrder, FinishSent
<1>6. FinishedIsForgotten
  BY <1>2, Zenon DEF FinishedIsForgotten
<1> QED
  BY <1>1, <1>4, <1>5, <1>6, Zenon DEF LaunchInv

(* Every step keeps the invariant when no acceptOffers call carries a task *)
(* in two of its operations.                                               *)
LEMMA LaunchInvStep ==
    ASSUME \A ops \in Accepts : Apart(ops), LaunchInv, [Next]_vars
    PROVE  LaunchInv'
<1>1. TypeOK'
  <2>1. TypeOK
    BY Zenon DEF LaunchInv
  <2> QED
    BY <2>1, TypeStep, Zenon
<1>2. ASSUME NEW th \in Threads, DriverCall(th) PROVE LaunchInv'
  <2>1. ASSUME NEW ops \in Accepts, AcceptOffers(th, ops) PROVE LaunchInv'
    BY <1>1, <2>1, AcceptInv, Zenon
  <2> QED
    BY <1>1, <1>2, <2>1, CallsInv, Zenon DEF DriverCall
<1>3. ASSUME NEW th \in Threads, LaunchTask(th) \/ LaunchSend(th) PROVE LaunchInv'
  BY <1>1, <1>3, LaunchTaskInv, LaunchSendInv, Zenon
<1>4. ASSUME NEW th \in Threads, Enter(th) \/ Leave(th) \/ Raise(th) PROVE LaunchInv'
  BY <1>1, <1>4, EnterInv, ReturnInv, Zenon
<1>5. CASE \/ Join \/ JoinWakes \/ DoReliableRegistration \/ CheckReconcile \/ LostConnection
           \/ LoseLink \/ RedisBack
  BY <1>1, <1>5, LoopInv, Zenon
<1>6. CASE OnInput \/ MasterTakes \/ MasterSends
  BY <1>1, <1>6, OnInputInv, MasterTakesInv, MasterSendsInv, Zenon
<1>7. CASE UNCHANGED vars
  <2>1. /\ UNCHANGED <<stack, notify, life, known, active>> /\ NoLaunchMore(outgoing')
    BY <1>7, Zenon DEF vars, NoLaunchMore
  <2> QED
    BY <1>1, <2>1, QuietInv, Zenon
<1> QED
  BY <1>2, <1>3, <1>4, <1>5, <1>6, <1>7, Zenon DEF Next

(* When no acceptOffers call carries a task in two of its operations, a    *)
(* task whose end the framework was told is not among the active tasks,    *)
(* whatever order launches, updates, reconnections and the reconcile timer *)
(* come in (launchTasks, statusUpdate, activeTasks_).                      *)
THEOREM EndsAreForgotten ==
    ASSUME \A ops \in Accepts : Apart(ops)
    PROVE  Spec => []FinishedIsForgotten
<1>1. LaunchInv /\ [Next]_vars => LaunchInv'
  BY LaunchInvStep, Zenon
<1>2. LaunchInv => FinishedIsForgotten
  BY Zenon DEF LaunchInv
<1> QED
  BY <1>1, <1>2, LaunchInvInit, PTL DEF Spec
=============================================================================
