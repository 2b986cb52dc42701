------------------------ MODULE ExecutorDriverProofs ------------------------
(***************************************************************************)
(* What the executor driver remembers, and when it is silent, for any      *)
(* tasks and any number of updates, calls, losses and replacements of the  *)
(* service.                                                                *)
(*                                                                         *)
(* The updates are told apart by their uuids; as long as these are not cut *)
(* (~Truncates) an acknowledgement takes out the update it is about.  The  *)
(* inductive invariant adds that the acknowledgements on their way are     *)
(* about updates a service has read, and that what is on its way to the    *)
(* service was sent.                                                       *)
(***************************************************************************)
EXTENDS ExecutorDriver, FiniteSetTheorems, TLAPS

(* The elements of the lists the driver and the service write and read.    *)
LEMMA AppendElements ==
    ASSUME NEW S, NEW s \in Seq(S), NEW m \in S
    PROVE  /\ Append(s, m) \in Seq(S)
           /\ Len(Append(s, m)) = Len(s) + 1
           /\ \A i \in DOMAIN Append(s, m) : Append(s, m)[i] = m \/ \E j \in DOMAIN s : Append(s, m)[i] = s[j]
OBVIOUS

(* What is left of a list is in it.                                        *)
LEMMA TailElements ==
    ASSUME NEW S, NEW s \in Seq(S), s # <<>>
    PROVE  /\ Tail(s) \in Seq(S)
           /\ Head(s) \in S
           /\ 1 \in DOMAIN s /\ Head(s) = s[1]
           /\ \A i \in DOMAIN Tail(s) : \E j \in DOMAIN s : Tail(s)[i] = s[j]
<1>1. Len(s) \in Nat /\ Len(s) > 0
  OBVIOUS
<1>2. \A i \in DOMAIN Tail(s) : i + 1 \in DOMAIN s /\ Tail(s)[i] = s[i + 1]
  OBVIOUS
<1> QED
  BY <1>1, <1>2

(* All but the last of a list, and the last.                               *)
LEMMA FrontElements ==
    ASSUME NEW S, NEW s \in Seq(S), s # <<>>
    PROVE  /\ Front(s) \in Seq(S) /\ Last(s) \in S
           /\ Len(s) \in Nat \ {0} /\ Len(Front(s)) = Len(s) - 1
           /\ \A i \in 1..(Len(s) - 1) : Front(s)[i] = s[i]
           /\ Last(s) = s[Len(s)]
<1>1. Len(s) \in Nat \ {0}
  OBVIOUS
<1>2. \A i \in 1..Len(s) : s[i] \in S
  OBVIOUS
<1>3. Front(s) = [i \in 1..(Len(s) - 1) |-> s[i]] /\ Last(s) = s[Len(s)]
  BY Zenon DEF Front, Last
<1>4. Len(s) - 1 \in Nat /\ Len(s) \in 1..Len(s) /\ \A i \in 1..(Len(s) - 1) : i \in 1..Len(s)
  <2>1. \A n \in Nat \ {0} : n - 1 \in Nat /\ n \in 1..n /\ \A i \in 1..(n - 1) : i \in 1..n
    OBVIOUS
  <2> QED
    BY <1>1, <2>1, Zenon
<1>5. Front(s) \in [1..(Len(s) - 1) -> S]
  BY <1>2, <1>3, <1>4
<1>6. Front(s) \in Seq(S) /\ Len(Front(s)) = Len(s) - 1
  BY <1>4, <1>5
<1>7. \A i \in 1..(Len(s) - 1) : Front(s)[i] = s[i]
  BY <1>3, Zenon
<1> QED
  BY <1>1, <1>2, <1>3, <1>4, <1>6, <1>7, Zenon

----------------------------------------------------------------------------
(* An update has a number of its own.                                      *)
Numbered ==
    /\ sent \subseteq StatusUpdate /\ IsFiniteSet(sent)
    /\ \A u \in sent : u.uuid \in 1..Cardinality(sent)
    /\ \A u, v \in sent : u.uuid = v.uuid => u = v

AckOfSeen(m) == m.type = "acknowledge" => \E u \in seen : m.tasks = {u.task} /\ m.updates = {u}

Outgoing == Messages({"Register", "Reregister", "StatusUpdate"})

InFlight ==
    /\ notify \in Seq(Messages(Notifications)) /\ outgoing \in Seq(Outgoing)
    /\ \A i \in DOMAIN notify : AckOfSeen(notify[i])
    /\ \A i \in DOMAIN outgoing : outgoing[i].updates \subseteq sent

Kept ==
    /\ updates \subseteq sent /\ seen \subseteq sent /\ owed \subseteq seen
    /\ given \subseteq Tasks /\ tasks \subseteq given

MemoryInv == Numbered /\ Kept /\ InFlight /\ ForgottenWasSeen /\ ForgottenTaskFinished

memory == <<updates, tasks, sent, seen, given, owed, notify, outgoing>>

(* A new driver.                                                           *)
LEMMA MemoryInit == Init => MemoryInv
<1> SUFFICES ASSUME Init PROVE MemoryInv
  OBVIOUS
<1>1. Numbered
  BY FS_EmptySet DEF Init, Numbered
<1>2. InFlight
  BY DEF Init, InFlight
<1> QED
  BY <1>1, <1>2 DEF Init, MemoryInv, Kept, ForgottenWasSeen, ForgottenTaskFinished

(* Steps that leave the updates, the tasks and the lists alone.            *)
LEMMA MemoryUntouched ==
    ASSUME MemoryInv, UNCHANGED memory
    PROVE  MemoryInv'
BY DEF memory, MemoryInv, Numbered, Kept, InFlight, AckOfSeen, ForgottenWasSeen, ForgottenTaskFinished

(* A message for the driver: only acknowledgements say anything.           *)
LEMMA NotifyAppended ==
    ASSUME MemoryInv, NEW m \in Messages(Notifications), AckOfSeen(m), notify' = Append(notify, m)
    PROVE  /\ notify' \in Seq(Messages(Notifications))
           /\ \A i \in DOMAIN notify' : AckOfSeen(notify'[i])
BY AppendElements DEF MemoryInv, InFlight

(* A message for the driver keeps the memory of the driver.                *)
LEMMA MessageIn ==
    ASSUME MemoryInv, NEW m \in Messages(Notifications), AckOfSeen(m),
           notify' = Append(notify, m), owed' \subseteq owed,
           UNCHANGED <<updates, tasks, sent, seen, given, outgoing>>
    PROVE  MemoryInv'
<1>1. /\ notify' \in Seq(Messages(Notifications))
      /\ \A i \in DOMAIN notify' : AckOfSeen(notify'[i])
  BY NotifyAppended
<1>2. InFlight'
  BY <1>1 DEF MemoryInv, InFlight, AckOfSeen
<1> QED
  BY <1>2 DEF MemoryInv, Numbered, Kept, ForgottenWasSeen, ForgottenTaskFinished

(* sendStatusUpdate captures the update under a new number.                *)
LEMMA NewNumber ==
    ASSUME Numbered, NEW t \in Tasks, NEW s \in TaskStates \ {"STAGING"}, Cardinality(sent) < MaxUpdates,
           NEW u, u = [n |-> Cardinality(sent) + 1, task |-> t, state |-> s, uuid |-> Cardinality(sent) + 1],
           sent' = sent \cup {u}
    PROVE  Numbered' /\ u \in StatusUpdate /\ \A v \in sent : v.uuid # u.uuid
<1> DEFINE c == Cardinality(sent)
<1>1. c \in Nat
  BY FS_CardinalityType DEF Numbered
<1>2. u \in StatusUpdate
  BY <1>1, ExecutorAssumption DEF StatusUpdate
<1>3. \A v \in sent : v.uuid # u.uuid
  BY <1>1 DEF Numbered
<1>4. IsFiniteSet(sent') /\ Cardinality(sent') = c + 1
  <2>1. u \notin sent
    BY <1>3
  <2> QED
    BY <2>1, FS_AddElement DEF Numbered
<1>5. \A v \in sent' : v.uuid \in 1..(c + 1)
  BY <1>1 DEF Numbered
<1>6. \A v, w \in sent' : v.uuid = w.uuid => v = w
  BY <1>3 DEF Numbered
<1>7. sent' \subseteq StatusUpdate
  BY <1>2 DEF Numbered
<1> QED
  BY <1>2, <1>3, <1>4, <1>5, <1>6, <1>7, Zenon DEF Numbered

(* An update is given to sendStatusUpdate.                                 *)
LEMMA UpdateSent ==
    ASSUME MemoryInv, ~Truncates, NEW th \in Threads, NEW t \in Tasks, NEW s \in TaskStates,
           SendStatusUpdate(th, t, s)
    PROVE  MemoryInv'
<1>1. UNCHANGED <<tasks, seen, given, owed, notify>>
  BY DEF SendStatusUpdate, service
<1>2. CASE s = "STAGING"
  BY <1>1, <1>2, MemoryUntouched DEF SendStatusUpdate, ProcessSendStatusUpdate, memory
<1>3. CASE s # "STAGING"
  <2> DEFINE u == [n |-> Cardinality(sent) + 1, task |-> t, state |-> s, uuid |-> Cardinality(sent) + 1]
             m == Message("StatusUpdate", {t}, {u})
  <2>1. /\ sent' = sent \cup {u} /\ updates' = Captured(u)
        /\ outgoing' = IF conn THEN Append(outgoing, m) ELSE outgoing
    BY <1>3, Zenon DEF SendStatusUpdate, ProcessSendStatusUpdate, SendMesosMessage
  <2>2. Numbered' /\ u \in StatusUpdate /\ \A v \in sent : v.uuid # u.uuid
    <3>1. Cardinality(sent) < MaxUpdates
      BY DEF SendStatusUpdate
    <3> HIDE DEF u
    <3> QED
      BY <1>3, <2>1, <3>1, NewNumber DEF MemoryInv, u
  <2> HIDE DEF u
  <2>3. updates' = updates \cup {u}
    BY <2>1, <2>2 DEF Captured, MemoryInv, Kept
  <2>4. m \in Outgoing /\ m.updates = {u}
    BY <2>2 DEF Outgoing, Messages, Message
  <2> HIDE DEF m
  <2>5. /\ outgoing' \in Seq(Outgoing)
        /\ \A i \in DOMAIN outgoing' : outgoing'[i].updates \subseteq sent'
    <3>1. CASE conn
      BY <2>1, <2>4, <3>1, AppendElements DEF MemoryInv, InFlight
    <3>2. CASE ~conn
      BY <2>1, <3>2 DEF MemoryInv, InFlight
    <3> QED
      BY <3>1, <3>2
  <2>6. InFlight'
    BY <1>1, <2>5 DEF MemoryInv, InFlight, AckOfSeen
  <2> QED
    BY <1>1, <2>1, <2>2, <2>3, <2>6 DEF MemoryInv, Kept, ForgottenWasSeen, ForgottenTaskFinished
<1> QED
  BY <1>2, <1>3

(* The service reads a message.                                            *)
LEMMA MessageTaken ==
    ASSUME MemoryInv, ServiceTakes
    PROVE  MemoryInv'
<1> DEFINE m == Head(outgoing)
<1>1. /\ m \in Outgoing /\ m.updates \subseteq sent
      /\ outgoing' \in Seq(Outgoing)
      /\ \A i \in DOMAIN outgoing' : outgoing'[i].updates \subseteq sent
  BY TailElements DEF ServiceTakes, MemoryInv, InFlight
<1>2. /\ seen' = seen \cup m.updates /\ owed' = owed \cup m.updates
      /\ UNCHANGED <<updates, tasks, sent, given>>
  BY DEF ServiceTakes, own
<1>3. /\ notify' \in Seq(Messages(Notifications))
      /\ \A i \in DOMAIN notify' : AckOfSeen(notify'[i])
  <2>1. \/ UNCHANGED notify
        \/ \E type \in {"registered", "reregistered"} : notify' = Append(notify, Message(type, {}, {}))
    BY DEF ServiceTakes
  <2>2. \A type \in {"registered", "reregistered"} :
            Message(type, {}, {}) \in Messages(Notifications) /\ AckOfSeen(Message(type, {}, {}))
    BY DEF Message, Messages, Notifications, AckOfSeen
  <2>3. CASE UNCHANGED notify
    BY <2>3 DEF MemoryInv, InFlight
  <2>4. CASE ~UNCHANGED notify
    BY <2>1, <2>2, <2>4, NotifyAppended
  <2> QED
    BY <2>3, <2>4
<1> HIDE DEF m
<1>4. InFlight'
  BY <1>1, <1>2, <1>3 DEF InFlight, AckOfSeen
<1> QED
  BY <1>1, <1>2, <1>4 DEF MemoryInv, Numbered, Kept, ForgottenWasSeen, ForgottenTaskFinished

(* The acknowledgement of an update erases that update and no other, and   *)
(* the task only if the update says that it has finished.                  *)
LEMMA AcknowledgementHandled ==
    ASSUME MemoryInv, NEW m, AckOfSeen(m), StatusUpdateAcknowledgement(m), UNCHANGED <<sent, seen>>
    PROVE  /\ updates' \subseteq updates /\ tasks' \subseteq tasks /\ UNCHANGED <<given, outgoing>>
           /\ ForgottenWasSeen' /\ ForgottenTaskFinished'
<1>1. PICK u \in seen : m.tasks = {u.task} /\ m.updates = {u}
  BY DEF StatusUpdateAcknowledgement, AckOfSeen
<1> DEFINE acked == {x \in updates : x.uuid \in {v.uuid : v \in m.updates}}
<1>2. \A x \in acked : x = u
  BY <1>1 DEF MemoryInv, Numbered, Kept
<1>3. CASE connected
  <2>1. /\ updates' = updates \ acked
        /\ tasks' = IF \E x \in acked : x.state = "FINISHED" THEN tasks \ m.tasks ELSE tasks
        /\ UNCHANGED <<given, outgoing>>
    BY <1>3 DEF StatusUpdateAcknowledgement
  <2> HIDE DEF acked
  <2>2. ForgottenWasSeen'
    BY <1>1, <1>2, <2>1 DEF MemoryInv, ForgottenWasSeen
  <2>3. ForgottenTaskFinished'
    <3>1. CASE \E x \in acked : x.state = "FINISHED"
      <4>1. u.state = "FINISHED" /\ tasks' = tasks \ {u.task}
        BY <1>1, <1>2, <2>1, <3>1
      <4> QED
        BY <1>1, <2>1, <4>1 DEF MemoryInv, ForgottenTaskFinished
    <3>2. CASE ~\E x \in acked : x.state = "FINISHED"
      BY <2>1, <3>2 DEF MemoryInv, ForgottenTaskFinished
    <3> QED
      BY <3>1, <3>2
  <2> QED
    BY <2>1, <2>2, <2>3
<1>4. CASE ~connected
  BY <1>4 DEF StatusUpdateAcknowledgement, MemoryInv, ForgottenWasSeen, ForgottenTaskFinished
<1> QED
  BY <1>3, <1>4

(* onInput: every handler.                                                 *)
LEMMA InputHandled ==
    ASSUME MemoryInv, OnInput
    PROVE  MemoryInv'
<1> DEFINE m == Head(notify)
<1>1. /\ notify' \in Seq(Messages(Notifications))
      /\ \A i \in DOMAIN notify' : AckOfSeen(notify'[i])
      /\ m \in Messages(Notifications) /\ AckOfSeen(m)
  BY TailElements DEF OnInput, MemoryInv, InFlight
<1>2. UNCHANGED <<sent, seen, owed>>
  BY DEF OnInput, service
<1>3. InFlight' \/ ~UNCHANGED outgoing
  BY <1>1, <1>2 DEF MemoryInv, InFlight, AckOfSeen
<1>4. Numbered'
  BY <1>2 DEF MemoryInv, Numbered
<1>5. CASE UNCHANGED <<updates, tasks, given, outgoing>>
  BY <1>2, <1>3, <1>4, <1>5 DEF MemoryInv, Kept, ForgottenWasSeen, ForgottenTaskFinished
<1>6. CASE Reconnect(m)
  <2> DEFINE r == Message("Reregister", tasks, updates)
  <2>1. r \in Outgoing /\ r.updates = updates
    BY DEF MemoryInv, Kept, Numbered, Outgoing, Messages, Message
  <2>2. /\ outgoing' = IF conn THEN Append(outgoing, r) ELSE outgoing
        /\ UNCHANGED <<updates, tasks, given>>
    BY <1>6 DEF Reconnect, SendMesosMessage
  <2> HIDE DEF r
  <2>3. /\ outgoing' \in Seq(Outgoing)
        /\ \A i \in DOMAIN outgoing' : outgoing'[i].updates \subseteq sent
    <3>1. CASE conn
      BY <2>1, <2>2, <3>1, AppendElements DEF MemoryInv, Kept, InFlight
    <3>2. CASE ~conn
      BY <2>2, <3>2 DEF MemoryInv, InFlight
    <3> QED
      BY <3>1, <3>2
  <2>4. InFlight'
    BY <1>1, <1>2, <2>3 DEF InFlight, AckOfSeen
  <2> QED
    BY <1>2, <1>4, <2>2, <2>4 DEF MemoryInv, Kept, ForgottenWasSeen, ForgottenTaskFinished
<1>7. CASE RunTask(m) /\ connected
  <2>1. /\ tasks' = tasks \cup m.tasks /\ given' = given \cup m.tasks /\ m.tasks \subseteq Tasks
        /\ UNCHANGED <<updates, outgoing>>
    BY <1>1, <1>7 DEF RunTask, Messages
  <2> QED
    BY <1>2, <1>3, <1>4, <2>1 DEF MemoryInv, Kept, ForgottenWasSeen, ForgottenTaskFinished
<1>8. CASE StatusUpdateAcknowledgement(m)
  <2>1. /\ updates' \subseteq updates /\ tasks' \subseteq tasks /\ UNCHANGED <<given, outgoing>>
        /\ ForgottenWasSeen' /\ ForgottenTaskFinished'
    BY <1>1, <1>2, <1>8, AcknowledgementHandled
  <2> QED
    BY <1>2, <1>3, <1>4, <2>1 DEF MemoryInv, Kept
<1>9. CASE ~aborted /\ Handled(m)
  <2>1. \/ Registered(m) \/ Reregistered(m) \/ (RunTask(m) /\ ~connected) \/ KillTask(m)
        \/ FrameworkMessage(m) \/ Shutdown(m)
        => UNCHANGED <<updates, tasks, given, outgoing>>
    BY DEF Registered, Reregistered, RunTask, KillTask, FrameworkMessage, Shutdown, Unaffected
  <2> QED
    BY <1>5, <1>6, <1>7, <1>8, <1>9, <2>1 DEF Handled
<1> QED
  BY <1>5, <1>9 DEF OnInput, Unaffected

(* Every step keeps the memory of the driver.                              *)
LEMMA MemoryStep ==
    ASSUME ~Truncates, MemoryInv, [Next]_vars
    PROVE  MemoryInv'
<1>1. CASE UNCHANGED vars
  BY <1>1, MemoryUntouched DEF vars, memory, own, service
<1>2. CASE Start \/ Join \/ JoinWakes \/ DoReliableRegistration \/ ShutdownReturns \/ Killed
           \/ LoseLink \/ RedisBack
  <2>1. CASE DoReliableRegistration /\ redis
    <3> DEFINE r == Message("Register", {}, {})
    <3>1. r \in Outgoing /\ r.updates = {}
      BY DEF Outgoing, Messages, Message
    <3> HIDE DEF r
    <3>2. /\ outgoing' = Append(outgoing, r)
          /\ UNCHANGED <<updates, tasks, sent, seen, given, owed, notify>>
      BY <2>1 DEF DoReliableRegistration, own, service, r
    <3>3. /\ outgoing' \in Seq(Outgoing)
          /\ \A i \in DOMAIN outgoing' : outgoing'[i].updates \subseteq sent
      BY <3>1, <3>2, AppendElements DEF MemoryInv, InFlight
    <3>4. InFlight'
      BY <3>2, <3>3 DEF MemoryInv, InFlight, AckOfSeen
    <3> QED
      BY <3>2, <3>4 DEF MemoryInv, Numbered, Kept, ForgottenWasSeen, ForgottenTaskFinished
  <2>2. CASE ~(DoReliableRegistration /\ redis)
    BY <1>2, <2>2, MemoryUntouched
       DEF Start, Join, JoinWakes, DoReliableRegistration, ShutdownReturns, Killed, LoseLink, RedisBack,
           memory, own, service
  <2> QED
    BY <2>1, <2>2
<1>3. ASSUME NEW th \in Threads,
             Stop(th) \/ Abort(th) \/ SendFrameworkMessage(th) \/ Enter(th) \/ Leave(th) \/ Raise(th)
      PROVE  MemoryInv'
  BY <1>3, MemoryUntouched
     DEF Stop, Abort, SendFrameworkMessage, Enter, Leave, Raise, memory, own, service
<1>4. ASSUME NEW th \in Threads, NEW t \in Tasks, NEW s \in TaskStates, SendStatusUpdate(th, t, s)
      PROVE  MemoryInv'
  BY <1>4, UpdateSent
<1>5. CASE OnInput
  BY <1>5, InputHandled
<1>6. CASE ServiceTakes
  BY <1>6, MessageTaken
<1>7. CASE Volunteers
  <2>1. PICK type \in {"killTask", "frameworkMessage", "shutdown", "reconnect"} :
            notify' = Append(notify, Message(type, {}, {}))
    BY <1>7 DEF Volunteers
  <2>2. Message(type, {}, {}) \in Messages(Notifications) /\ AckOfSeen(Message(type, {}, {}))
    BY Zenon DEF Message, Messages, Notifications, AckOfSeen
  <2>3. UNCHANGED <<updates, tasks, sent, seen, given, outgoing, owed>>
    BY <1>7 DEF Volunteers, own
  <2> QED
    BY <2>1, <2>2, <2>3, MessageIn
<1>8. CASE FailsOver
  <2> DEFINE r == Message("serviceDisconnected", {}, {})
  <2>1. r \in Messages(Notifications) /\ AckOfSeen(r)
    BY DEF Message, Messages, Notifications, AckOfSeen
  <2>2. /\ notify' = Append(notify, r) /\ owed' = {}
        /\ UNCHANGED <<updates, tasks, sent, seen, given>>
    BY <1>8 DEF FailsOver, own
  <2> HIDE DEF r
  <2>3. /\ notify' \in Seq(Messages(Notifications))
        /\ \A i \in DOMAIN notify' : AckOfSeen(notify'[i])
    BY <2>1, <2>2, NotifyAppended
  <2>4. /\ outgoing' \in Seq(Outgoing)
        /\ \A i \in DOMAIN outgoing' : outgoing'[i].updates \subseteq sent
    <3>1. CASE outgoing' = outgoing
      BY <3>1 DEF MemoryInv, InFlight
    <3>2. CASE outgoing # <<>> /\ outgoing' = Tail(outgoing)
      BY <3>2, TailElements DEF MemoryInv, InFlight
    <3> QED
      BY <1>8, <3>1, <3>2 DEF FailsOver
  <2>5. InFlight'
    BY <2>2, <2>3, <2>4 DEF InFlight, AckOfSeen
  <2> QED
    BY <2>2, <2>5 DEF MemoryInv, Numbered, Kept, ForgottenWasSeen, ForgottenTaskFinished
<1>9. ASSUME NEW u \in owed, Acknowledges(u)
      PROVE  MemoryInv'
  <2> DEFINE r == Message("acknowledge", {u.task}, {u})
  <2>1. u \in seen /\ u \in StatusUpdate
    BY DEF MemoryInv, Kept, Numbered
  <2>2. r \in Messages(Notifications) /\ AckOfSeen(r)
    BY <2>1 DEF Message, Messages, Notifications, AckOfSeen, StatusUpdate
  <2>3. notify' = Append(notify, r) /\ owed' = owed \ {u} /\ UNCHANGED <<updates, tasks, sent, seen, given, outgoing>>
    BY <1>9 DEF Acknowledges, own
  <2> HIDE DEF r
  <2> QED
    BY <2>2, <2>3, MessageIn
<1>10. ASSUME NEW t \in Tasks, RunsTask(t)
       PROVE  MemoryInv'
  <2> DEFINE r == Message("runTask", {t}, {})
  <2>1. r \in Messages(Notifications) /\ AckOfSeen(r)
    BY DEF Message, Messages, Notifications, AckOfSeen
  <2>2. notify' = Append(notify, r) /\ UNCHANGED <<updates, tasks, sent, seen, given, outgoing, owed>>
    BY <1>10 DEF RunsTask, own
  <2> HIDE DEF r
  <2> QED
    BY <2>1, <2>2, MessageIn
<1> QED
  BY <1>1, <1>2, <1>3, <1>4, <1>5, <1>6, <1>7, <1>8, <1>9, <1>10 DEF Next

(* The driver forgets an update only when a service has read it, and a     *)
(* task only when a service has read that it finished, whatever is lost    *)
(* and however often the service is replaced (statusUpdateAcknowledgement, *)
(* reconnect), as long as uuids are not cut at a zero byte.                *)
THEOREM NothingForgotten ==
    ASSUME ~Truncates
    PROVE  Spec => []KeptUntilKnown
<1>1. Init => MemoryInv
  BY MemoryInit
<1>2. MemoryInv /\ [Next]_vars => MemoryInv'
  BY MemoryStep
<1>3. MemoryInv => KeptUntilKnown
  BY DEF MemoryInv, KeptUntilKnown
<1> QED
  BY <1>1, <1>2, <1>3, PTL DEF Spec

----------------------------------------------------------------------------
(* A driver that was aborted has told its process so, and one that is told *)
(* to shut down stays in that callback until it is aborted.                *)
InShutdown == stack["loop"] # <<>> /\ stack["loop"][1].type = "shutdown"

SilentInv ==
    /\ stack \in [Threads -> Seq(Frame)]
    /\ driver = "ABORTED" => aborted
    /\ process = "doomed" => aborted \/ InShutdown

(* A callback is decided on.                                               *)
LEMMA CallbackPushed ==
    ASSUME SilentInv, NEW th \in Threads, NEW type \in Callbacks, Push(th, type)
    PROVE  /\ stack' \in [Threads -> Seq(Frame)]
           /\ \A x \in Threads : Len(stack'[x]) > Len(stack[x]) => Last(stack'[x]).type = type
           /\ InShutdown => InShutdown'
           /\ stack[th] = <<>> => stack'[th] # <<>> /\ stack'[th][1].type = type
<1> DEFINE f == Callback(type)
<1>1. f \in Frame /\ f.type = type
  BY DEF Callback, Frame
<1>2. stack' = [stack EXCEPT ![th] = Append(@, f)]
  BY DEF Push
<1> HIDE DEF f
<1>3. stack' \in [Threads -> Seq(Frame)]
  BY <1>1, <1>2, AppendElements DEF SilentInv
<1>4. stack'[th] = Append(stack[th], f) /\ stack[th] \in Seq(Frame)
  BY <1>2 DEF SilentInv
<1>5. \A x \in Threads : x # th => stack'[x] = stack[x] /\ stack[x] \in Seq(Frame)
  BY <1>2 DEF SilentInv
<1>6. Last(stack'[th]).type = type
  BY <1>1, <1>4 DEF Last
<1>7. \A x \in Threads : Len(stack'[x]) > Len(stack[x]) => Last(stack'[x]).type = type
  BY <1>5, <1>6
<1>8. InShutdown => InShutdown'
  BY <1>4, <1>5 DEF InShutdown, Threads
<1>9. stack[th] = <<>> => stack'[th] # <<>> /\ stack'[th][1].type = type
  BY <1>1, <1>4
<1> QED
  BY <1>3, <1>7, <1>8, <1>9

(* A callback that was decided on is entered.                              *)
LEMMA CallbackEntered ==
    ASSUME SilentInv, NEW th \in Threads, Enter(th)
    PROVE  /\ stack' \in [Threads -> Seq(Frame)]
           /\ \A x \in Threads : ~(Len(stack'[x]) > Len(stack[x]))
           /\ InShutdown => InShutdown'
<1> DEFINE f == [Top(th) EXCEPT !.at = "in"]
           front == Front(stack[th])
<1>1. stack[th] \in Seq(Frame) /\ stack[th] # <<>>
  BY DEF Enter, SilentInv
<1>2. /\ front \in Seq(Frame) /\ Top(th) \in Frame
      /\ Len(stack[th]) \in Nat \ {0} /\ Len(front) = Len(stack[th]) - 1
      /\ \A i \in 1..(Len(stack[th]) - 1) : front[i] = stack[th][i]
      /\ Top(th) = stack[th][Len(stack[th])]
  BY <1>1, FrontElements, Zenon DEF Top
<1>3. f \in Frame /\ f.type = Top(th).type
  BY <1>2 DEF Frame
<1>4. stack' = [stack EXCEPT ![th] = Append(front, f)]
  BY DEF Enter
<1> HIDE DEF f, front
<1>5. Append(front, f) \in Seq(Frame) /\ Len(Append(front, f)) = Len(stack[th])
  BY <1>2, <1>3, AppendElements
<1>6. stack' \in [Threads -> Seq(Frame)]
  BY <1>4, <1>5 DEF SilentInv
<1>7. stack'[th] = Append(front, f) /\ \A x \in Threads : x # th => stack'[x] = stack[x]
  BY <1>4 DEF SilentInv
<1>8. \A x \in Threads : Len(stack'[x]) = Len(stack[x]) /\ Len(stack[x]) \in Nat
  BY <1>5, <1>7 DEF SilentInv
<1>9. Append(front, f)[1].type = stack[th][1].type
  <2>1. CASE Len(stack[th]) = 1
    BY <1>2, <1>3, <2>1
  <2>2. CASE Len(stack[th]) # 1
    BY <1>2, <1>3, <2>2
  <2> QED
    BY <2>1, <2>2
<1>10. InShutdown => InShutdown'
  BY <1>1, <1>5, <1>7, <1>9 DEF InShutdown, Threads
<1> QED
  BY <1>6, <1>8, <1>10

(* A callback returns or raises.                                           *)
LEMMA CallbackLeft ==
    ASSUME SilentInv, NEW th \in Threads, stack[th] # <<>>, Pop(th)
    PROVE  /\ stack' \in [Threads -> Seq(Frame)]
           /\ \A x \in Threads : ~(Len(stack'[x]) > Len(stack[x]))
           /\ InShutdown /\ Top(th).type # "shutdown" => InShutdown'
<1> DEFINE front == Front(stack[th])
<1>1. stack[th] \in Seq(Frame)
  BY DEF SilentInv
<1>2. /\ front \in Seq(Frame)
      /\ Len(stack[th]) \in Nat \ {0} /\ Len(front) = Len(stack[th]) - 1
      /\ \A i \in 1..(Len(stack[th]) - 1) : front[i] = stack[th][i]
      /\ Top(th) = stack[th][Len(stack[th])]
  BY <1>1, FrontElements, Zenon DEF Top
<1>3. stack' = [stack EXCEPT ![th] = front]
  BY DEF Pop
<1> HIDE DEF front
<1>4. stack' \in [Threads -> Seq(Frame)]
  BY <1>2, <1>3 DEF SilentInv
<1>5. stack'[th] = front /\ \A x \in Threads : x # th => stack'[x] = stack[x]
  BY <1>3 DEF SilentInv
<1>6. \A x \in Threads : ~(Len(stack'[x]) > Len(stack[x]))
  BY <1>2, <1>5 DEF SilentInv
<1>7. ASSUME InShutdown, Top(th).type # "shutdown"
      PROVE  InShutdown'
  <2>1. CASE th = "loop"
    <3>1. Len(stack[th]) > 1
      BY <1>2, <1>7, <2>1 DEF InShutdown
    <3>2. front # <<>> /\ front[1] = stack[th][1]
      BY <1>2, <3>1
    <3> QED
      BY <1>5, <1>7, <2>1, <3>2 DEF InShutdown
  <2>2. CASE th # "loop"
    BY <1>5, <1>7, <2>2 DEF InShutdown, Threads
  <2> QED
    BY <2>1, <2>2
<1> QED
  BY <1>4, <1>6, <1>7

Quiet == driver = "ABORTED" \/ process = "doomed" => \A th \in Threads : ~Decided(th)

(* Steps that make no callback and leave the states alone.                 *)
LEMMA SilentUntouched ==
    ASSUME SilentInv, UNCHANGED <<driver, aborted, stack, process>>
    PROVE  SilentInv' /\ Quiet
<1>1. SilentInv'
  BY DEF SilentInv, InShutdown
<1>2. \A th \in Threads : Len(stack[th]) \in Nat
  BY DEF SilentInv
<1>3. \A th \in Threads : ~Decided(th)
  BY <1>2 DEF Decided
<1> QED
  BY <1>1, <1>3 DEF Quiet

(* A call of abort(): the process is told before the status says so.       *)
LEMMA SilentAbort ==
    ASSUME SilentInv, DriverAbort
    PROVE  /\ driver' = "ABORTED" => aborted'
           /\ aborted => aborted'
<1>1. CASE driver = "RUNNING"
  <2>1. aborted' = TRUE
    BY <1>1, Zenon DEF DriverAbort, ProcessAbort
  <2> QED
    BY <2>1, Zenon
<1>2. CASE driver # "RUNNING"
  <2>1. aborted' = aborted /\ driver' = driver
    BY <1>2, Zenon DEF DriverAbort
  <2> QED
    BY <2>1, Zenon DEF SilentInv
<1> QED
  BY <1>1, <1>2

(* A message is handled: an aborted driver does nothing with it, and one   *)
(* in its shutdown callback is not there to handle it.                     *)
LEMMA SilentInput ==
    ASSUME SilentInv, OnInput
    PROVE  SilentInv' /\ Quiet
<1>1. driver' = driver /\ aborted' = aborted /\ stack["loop"] = <<>>
  BY Zenon DEF OnInput, Idle
<1>2. CASE aborted
  <2>1. stack' = stack /\ process' = process
    BY <1>2, Zenon DEF OnInput
  <2> QED
    BY <1>1, <2>1, SilentUntouched
<1>3. CASE ~aborted
  <2>1. driver # "ABORTED" /\ process # "doomed"
    BY <1>1, <1>3, Zenon DEF SilentInv, InShutdown
  <2>2. Quiet
    BY <2>1 DEF Quiet
  <2>3. PICK m : Handled(m)
    BY <1>3, Zenon DEF OnInput
  <2>4. CASE Shutdown(m)
    <3>1. Push("loop", "shutdown")
      BY <2>4 DEF Shutdown
    <3>2. stack' \in [Threads -> Seq(Frame)] /\ InShutdown'
      BY <1>1, <3>1, CallbackPushed DEF Threads, Callbacks, InShutdown
    <3> QED
      BY <1>1, <2>1, <2>2, <3>2 DEF SilentInv
  <2>5. CASE process' = process /\ stack' = stack
    BY <1>1, <2>5, SilentUntouched
  <2>6. CASE process' = process /\ \E type \in Callbacks : Push("loop", type)
    <3>1. stack' \in [Threads -> Seq(Frame)]
      BY <2>6, CallbackPushed DEF Threads
    <3> QED
      BY <1>1, <2>1, <2>2, <2>6, <3>1 DEF SilentInv
  <2> QED
    BY <2>3, <2>4, <2>5, <2>6
    DEF Handled, Registered, Reregistered, Reconnect, RunTask, KillTask, StatusUpdateAcknowledgement,
        FrameworkMessage, Callbacks
<1> QED
  BY <1>2, <1>3

(* Every step keeps an aborted driver silent.                              *)
LEMMA SilentStep ==
    ASSUME SilentInv, [Next]_vars
    PROVE  SilentInv' /\ Quiet
<1> USE DEF SilentInv
<1>1. CASE UNCHANGED <<driver, aborted, stack, process>>
  BY <1>1, SilentUntouched
<1>2. CASE UNCHANGED <<aborted, stack, process>> /\ driver' \in {"RUNNING", "STOPPED"}
  <2>1. SilentInv'
    BY <1>2 DEF InShutdown
  <2>2. \A th \in Threads : Len(stack[th]) \in Nat
    OBVIOUS
  <2> QED
    BY <1>2, <2>1, <2>2 DEF Quiet, Decided
<1>3. ASSUME NEW th \in Threads, Abort(th)
      PROVE  SilentInv' /\ Quiet
  <2>1. UNCHANGED <<stack, process>> /\ (driver' = "ABORTED" => aborted') /\ (aborted => aborted')
    BY <1>3, SilentAbort DEF Abort
  <2>2. SilentInv'
    BY <2>1 DEF InShutdown
  <2>3. \A x \in Threads : Len(stack[x]) \in Nat
    OBVIOUS
  <2> QED
    BY <2>1, <2>2, <2>3 DEF Quiet, Decided
<1>4. ASSUME NEW th \in Threads, NEW t \in Tasks, SendStatusUpdate(th, t, "STAGING")
      PROVE  SilentInv' /\ Quiet
  <2>1. Push(th, "error") /\ DriverAbort /\ process' = process
    BY <1>4, Zenon DEF SendStatusUpdate, ProcessSendStatusUpdate
  <2>2. (driver' = "ABORTED" => aborted') /\ (aborted => aborted')
    BY <2>1, SilentAbort
  <2>3. /\ stack' \in [Threads -> Seq(Frame)] /\ (InShutdown => InShutdown')
        /\ \A x \in Threads : Len(stack'[x]) > Len(stack[x]) => Last(stack'[x]).type = "error"
    BY <2>1, CallbackPushed DEF Callbacks
  <2> QED
    BY <2>1, <2>2, <2>3 DEF Quiet, Decided
<1>5. ASSUME NEW th \in Threads, Enter(th)
      PROVE  SilentInv' /\ Quiet
  <2>1. UNCHANGED <<driver, aborted, process>>
    BY <1>5, Zenon DEF Enter, own
  <2>2. /\ stack' \in [Threads -> Seq(Frame)] /\ (InShutdown => InShutdown')
        /\ \A x \in Threads : ~(Len(stack'[x]) > Len(stack[x]))
    BY <1>5, CallbackEntered
  <2> QED
    BY <2>1, <2>2 DEF Quiet, Decided
<1>6. ASSUME NEW th \in Threads, Leave(th)
      PROVE  SilentInv' /\ Quiet
  BY <1>6, CallbackLeft DEF Leave, Leaving, own, Quiet, Decided
<1>7. ASSUME NEW th \in Threads, Leaving(th), aborted' = TRUE
      PROVE  SilentInv' /\ Quiet
  BY <1>7, CallbackLeft DEF Leaving, Quiet, Decided
<1>8. ASSUME NEW th \in Threads, Raise(th)
      PROVE  SilentInv' /\ Quiet
  <2>1. Leaving(th) /\ aborted' = TRUE
    BY <1>8, Zenon DEF Raise, DriverAbort, ProcessAbort
  <2> QED
    BY <1>7, <2>1
<1>9. CASE ShutdownReturns
  <2>1. Leaving("loop") /\ aborted' = TRUE
    BY <1>9, Zenon DEF ShutdownReturns
  <2> QED
    BY <1>7, <2>1 DEF Threads
<1>10. CASE Killed
  <2>1. UNCHANGED <<driver, aborted, stack>> /\ process' = "killed"
    BY <1>10 DEF Killed, own
  <2> QED
    BY <2>1 DEF Quiet, Decided
<1>11. CASE OnInput
  BY <1>11, SilentInput
<1>12. ASSUME NEW th \in Threads, NEW t \in Tasks, NEW st \in TaskStates, st # "STAGING",
              SendStatusUpdate(th, t, st)
       PROVE  SilentInv' /\ Quiet
  <2>1. UNCHANGED <<driver, aborted, stack, process>>
    BY <1>12, Zenon DEF SendStatusUpdate, ProcessSendStatusUpdate
  <2> QED
    BY <2>1, SilentUntouched
<1>13. CASE Start \/ \E th \in Threads : Stop(th)
  BY <1>2, <1>13 DEF Start, Stop, own
<1>14. CASE \/ vars' = vars \/ Join \/ JoinWakes \/ DoReliableRegistration \/ LoseLink \/ RedisBack
            \/ ServiceTakes \/ Volunteers \/ FailsOver
            \/ \E th \in Threads : SendFrameworkMessage(th)
            \/ \E u \in owed : Acknowledges(u)
            \/ \E t \in Tasks : RunsTask(t)
  <2>1. UNCHANGED <<driver, aborted, stack, process>>
    BY <1>14, Zenon
    DEF vars, own, Join, JoinWakes, DoReliableRegistration, LoseLink, RedisBack, ServiceTakes, Volunteers,
        FailsOver, SendFrameworkMessage, Acknowledges, RunsTask
  <2> QED
    BY <1>1, <2>1
<1> QED
  BY <1>3, <1>4, <1>5, <1>6, <1>8, <1>9, <1>10, <1>11, <1>12, <1>13, <1>14 DEF Next

(* For any tasks, updates and events: once the driver is aborted, or told  *)
(* to shut down, the only callback still decided on is error (abort,       *)
(* shutdown, onInput, sendStatusUpdate, the layers' handling of a callback *)
(* that raises).                                                           *)
THEOREM AbortSilences == Spec => NoCallbackAfterAbort
<1>1. Init => SilentInv
  BY DEF Init, SilentInv, InShutdown, Threads
<1>2. SilentInv /\ [Next]_vars => SilentInv' /\ Quiet
  BY SilentStep
<1>3. Quiet => [driver = "ABORTED" \/ process = "doomed" => \A th \in Threads : ~Decided(th)]_vars
  BY DEF Quiet
<1> QED
  BY <1>1, <1>2, <1>3, PTL DEF Spec, NoCallbackAfterAbort
----------------------------------------------------------------------------
(* What the driver stores and what is on its way, of the right types       *)
(* though uuids be cut: an update replaces the one under its uuid.         *)
OnTheWay ==
    /\ notify \in Seq(Messages(Notifications)) /\ outgoing \in Seq(Outgoing)
    /\ \A i \in DOMAIN outgoing : outgoing[i].updates \subseteq sent

OnePerUuid == \A u, v \in updates : u.uuid = v.uuid => u = v

Stored ==
    /\ sent \subseteq StatusUpdate /\ IsFiniteSet(sent)
    /\ Kept /\ OnePerUuid /\ OnTheWay

(* The rest of the types, but for the stacks, which SilentInv has.         *)
Plain ==
    /\ driver \in Statuses /\ joiner \in {"out", "waiting", "signalled"}
    /\ {connected, aborted, timer, conn, redis, linked} \subseteq BOOLEAN
    /\ taskDict \subseteq Tasks /\ process \in {"alive", "doomed", "killed"}

(* Every step keeps what is stored well typed.                             *)
LEMMA StoredStep == Stored /\ [Next]_vars => Stored'
(* A message for the driver.                                               *)
<1>Notified. ASSUME Stored, NEW m \in Messages(Notifications), notify' = Append(notify, m),
                    owed' \subseteq owed, UNCHANGED <<updates, tasks, sent, seen, given, outgoing>>
             PROVE  Stored'
  <2>1. notify' \in Seq(Messages(Notifications))
    BY <1>Notified, AppendElements, Zenon DEF Stored, OnTheWay
  <2>2. owed' \subseteq seen
    BY <1>Notified, Zenon DEF Stored, Kept
  <2> QED
    BY <1>Notified, <2>1, <2>2, Zenon DEF Stored, Kept, OnePerUuid, OnTheWay
(* A message for the service.                                              *)
<1>Posted. ASSUME Stored, NEW m \in Outgoing, outgoing' = (IF conn THEN Append(outgoing, m) ELSE outgoing),
                  m.updates \subseteq sent', sent \subseteq sent'
           PROVE  /\ outgoing' \in Seq(Outgoing)
                  /\ \A i \in DOMAIN outgoing' : outgoing'[i].updates \subseteq sent'
  <2>1. /\ outgoing \in Seq(Outgoing)
        /\ \A i \in DOMAIN outgoing : outgoing[i].updates \subseteq sent'
    BY <1>Posted, Zenon DEF Stored, OnTheWay
  <2>2. CASE conn
    <3>1. /\ Append(outgoing, m) \in Seq(Outgoing)
          /\ \A i \in DOMAIN Append(outgoing, m) :
                \/ Append(outgoing, m)[i] = m
                \/ \E j \in DOMAIN outgoing : Append(outgoing, m)[i] = outgoing[j]
      BY <1>Posted, <2>1, AppendElements
    <3>2. \A i \in DOMAIN Append(outgoing, m) : Append(outgoing, m)[i].updates \subseteq sent'
      BY <1>Posted, <2>1, <3>1
    <3>3. outgoing' = Append(outgoing, m)
      BY <1>Posted, <2>2, Zenon
    <3> QED
      BY <3>1, <3>2, <3>3, Zenon
  <2>3. CASE ~conn
    BY <1>Posted, <2>1, <2>3, Zenon
  <2> QED
    BY <2>2, <2>3, Zenon
(* A message the service has taken, or lost.                               *)
<1>Taken. ASSUME Stored, outgoing # <<>>, outgoing' = Tail(outgoing)
          PROVE  /\ Head(outgoing).updates \subseteq sent
                 /\ outgoing' \in Seq(Outgoing)
                 /\ \A i \in DOMAIN outgoing' : outgoing'[i].updates \subseteq sent
  <2>1. outgoing \in Seq(Outgoing) /\ \A i \in DOMAIN outgoing : outgoing[i].updates \subseteq sent
    BY <1>Taken, Zenon DEF Stored, OnTheWay
  <2>2. /\ Tail(outgoing) \in Seq(Outgoing)
        /\ 1 \in DOMAIN outgoing /\ Head(outgoing) = outgoing[1]
        /\ \A i \in DOMAIN Tail(outgoing) : \E j \in DOMAIN outgoing : Tail(outgoing)[i] = outgoing[j]
    BY <1>Taken, <2>1, TailElements, Zenon
  <2>3. \A i \in DOMAIN Tail(outgoing) : Tail(outgoing)[i].updates \subseteq sent
    BY <2>1, <2>2, Zenon
  <2> QED
    BY <1>Taken, <2>1, <2>2, <2>3, Zenon
(* A step that touches neither.                                            *)
<1>1. ASSUME Stored, UNCHANGED memory PROVE Stored'
  BY <1>1, Zenon DEF memory, Stored, Kept, OnePerUuid, OnTheWay
<1> SUFFICES ASSUME Stored, [Next]_vars PROVE Stored'
  BY Zenon
<1>2. CASE DoReliableRegistration /\ redis
  <2> DEFINE r == Message("Register", {}, {})
  <2>1. r \in Outgoing /\ r.updates = {}
    BY DEF Outgoing, Messages, Message
  <2>2. outgoing' = Append(outgoing, r) /\ UNCHANGED <<updates, tasks, sent, seen, given, owed, notify>>
    BY <1>2, Zenon DEF DoReliableRegistration, own, service
  <2> HIDE DEF r
  <2>3. /\ outgoing' \in Seq(Outgoing)
        /\ \A i \in DOMAIN outgoing' : outgoing'[i].updates \subseteq sent
    BY <2>1, <2>2, AppendElements DEF Stored, OnTheWay
  <2> QED
    BY <2>2, <2>3, Zenon DEF Stored, Kept, OnePerUuid, OnTheWay
<1>3. CASE \/ vars' = vars \/ Start \/ Join \/ JoinWakes \/ (DoReliableRegistration /\ ~redis)
           \/ ShutdownReturns \/ Killed \/ LoseLink \/ RedisBack
           \/ \E th \in Threads : \/ Stop(th) \/ Abort(th) \/ SendFrameworkMessage(th) \/ Enter(th)
                                  \/ Leave(th) \/ Raise(th)
                                  \/ \E t \in Tasks : SendStatusUpdate(th, t, "STAGING")
  <2>1. UNCHANGED memory
    BY <1>3, Zenon
    DEF vars, Start, Join, JoinWakes, DoReliableRegistration, ShutdownReturns, Killed, LoseLink, RedisBack,
        Stop, Abort, SendFrameworkMessage, Enter, Leave, Raise, SendStatusUpdate, ProcessSendStatusUpdate,
        memory, own, service
  <2> QED
    BY <1>1, <2>1, Zenon
<1>4. ASSUME NEW th \in Threads, NEW t \in Tasks, NEW s \in TaskStates, s # "STAGING",
             SendStatusUpdate(th, t, s)
      PROVE  Stored'
  <2>1. PICK uuid \in {Cardinality(sent) + 1} \cup (IF Truncates THEN {0} ELSE {}) :
            LET u == [n |-> Cardinality(sent) + 1, task |-> t, state |-> s, uuid |-> uuid]
            IN /\ sent' = sent \cup {u} /\ updates' = Captured(u)
               /\ SendMesosMessage(Message("StatusUpdate", {t}, {u}))
    BY <1>4, Zenon DEF SendStatusUpdate, ProcessSendStatusUpdate
  <2> DEFINE u == [n |-> Cardinality(sent) + 1, task |-> t, state |-> s, uuid |-> uuid]
             m == Message("StatusUpdate", {t}, {u})
  <2>2. /\ sent' = sent \cup {u} /\ updates' = Captured(u)
        /\ outgoing' = (IF conn THEN Append(outgoing, m) ELSE outgoing)
        /\ UNCHANGED <<tasks, seen, given, owed, notify>>
    BY <1>4, <2>1, Zenon DEF SendStatusUpdate, SendMesosMessage, service
  <2>3. u \in StatusUpdate
    <3>1. Cardinality(sent) \in Nat /\ Cardinality(sent) < MaxUpdates
      BY <1>4, FS_CardinalityType, Zenon DEF Stored, SendStatusUpdate
    <3>2. Cardinality(sent) + 1 \in 1..MaxUpdates /\ uuid \in 0..MaxUpdates
      BY <2>1, <3>1, ExecutorAssumption
    <3> QED
      BY <1>4, <3>2, Zenon DEF StatusUpdate
  <2> HIDE DEF u
  <2>4. m \in Outgoing /\ m.updates = {u}
    BY <2>3 DEF Outgoing, Messages, Message
  <2> HIDE DEF m
  <2>5. /\ outgoing' \in Seq(Outgoing)
        /\ \A i \in DOMAIN outgoing' : outgoing'[i].updates \subseteq sent'
    BY <2>2, <2>4, <1>Posted, Zenon
  <2>6. updates' \subseteq sent' /\ OnePerUuid'
    BY <2>2, Zenon DEF Captured, Stored, Kept, OnePerUuid
  <2>7. sent' \subseteq StatusUpdate /\ IsFiniteSet(sent')
    BY <2>2, <2>3, FS_AddElement, Zenon DEF Stored
  <2> QED
    BY <2>2, <2>5, <2>6, <2>7, Zenon DEF Stored, Kept, OnTheWay
<1>5. CASE OnInput
  <2> DEFINE m == Head(notify)
  <2>1. /\ notify' \in Seq(Messages(Notifications)) /\ m \in Messages(Notifications)
        /\ UNCHANGED <<sent, seen, owed>>
    BY <1>5, TailElements, Zenon DEF OnInput, service, Stored, OnTheWay
  <2>2. /\ updates' \subseteq updates /\ given' \subseteq Tasks /\ tasks' \subseteq given'
        /\ outgoing' \in Seq(Outgoing)
        /\ \A i \in DOMAIN outgoing' : outgoing'[i].updates \subseteq sent'
    <3>1. CASE UNCHANGED <<updates, tasks, given, outgoing>>
      BY <2>1, <3>1, Zenon DEF Stored, Kept, OnTheWay
    <3>2. CASE Reconnect(m)
      <4> DEFINE r == Message("Reregister", tasks, updates)
      <4>1. r \in Outgoing /\ r.updates = updates /\ updates \subseteq sent
        BY DEF Stored, Kept, Outgoing, Messages, Message
      <4>2. /\ outgoing' = (IF conn THEN Append(outgoing, r) ELSE outgoing)
            /\ UNCHANGED <<updates, tasks, given>>
        BY <3>2, Zenon DEF Reconnect, SendMesosMessage
      <4> HIDE DEF r
      <4>3. r.updates \subseteq sent' /\ sent \subseteq sent'
        BY <2>1, <4>1, Zenon
      <4> QED
        BY <4>1, <4>2, <4>3, <1>Posted, Zenon DEF Stored, Kept
    <3>3. CASE RunTask(m) /\ connected
      <4>1. /\ tasks' = tasks \cup m.tasks /\ given' = given \cup m.tasks /\ m.tasks \subseteq Tasks
            /\ UNCHANGED <<updates, outgoing>>
        BY <2>1, <3>3 DEF RunTask, Messages
      <4> QED
        BY <2>1, <4>1, Zenon DEF Stored, Kept, OnTheWay
    <3>4. CASE StatusUpdateAcknowledgement(m)
      <4>1. updates' \subseteq updates /\ tasks' \subseteq tasks /\ UNCHANGED <<given, outgoing>>
        BY <3>4, Zenon DEF StatusUpdateAcknowledgement
      <4> QED
        BY <2>1, <4>1, Zenon DEF Stored, Kept, OnTheWay
    <3>5. \/ Registered(m) \/ Reregistered(m) \/ (RunTask(m) /\ ~connected) \/ KillTask(m)
          \/ FrameworkMessage(m) \/ Shutdown(m) \/ aborted
          => UNCHANGED <<updates, tasks, given, outgoing>>
      BY <1>5, Zenon
      DEF OnInput, Registered, Reregistered, RunTask, KillTask, FrameworkMessage, Shutdown, Unaffected
    <3> QED
      BY <1>5, <3>1, <3>2, <3>3, <3>4, <3>5, Zenon DEF OnInput, Handled
  <2> QED
    BY <2>1, <2>2, Zenon DEF Stored, Kept, OnePerUuid, OnTheWay
<1>6. CASE ServiceTakes
  <2> DEFINE m == Head(outgoing)
  <2>1. /\ m.updates \subseteq sent /\ outgoing' \in Seq(Outgoing)
        /\ \A i \in DOMAIN outgoing' : outgoing'[i].updates \subseteq sent
    BY <1>6, <1>Taken, Zenon DEF ServiceTakes
  <2>2. /\ seen' = seen \cup m.updates /\ owed' = owed \cup m.updates
        /\ UNCHANGED <<updates, tasks, sent, given>>
    BY <1>6, Zenon DEF ServiceTakes, own
  <2>3. \/ UNCHANGED notify
        \/ \E type \in {"registered", "reregistered"} : notify' = Append(notify, Message(type, {}, {}))
    BY <1>6 DEF ServiceTakes
  <2>4. \A type \in {"registered", "reregistered"} : Message(type, {}, {}) \in Messages(Notifications)
    BY DEF Message, Messages, Notifications
  <2>5. notify' \in Seq(Messages(Notifications))
    BY <2>3, <2>4, AppendElements, Zenon DEF Stored, OnTheWay
  <2> QED
    BY <2>1, <2>2, <2>5, Zenon DEF Stored, Kept, OnePerUuid, OnTheWay
<1>7. CASE Volunteers
  <2>1. PICK type \in {"killTask", "frameworkMessage", "shutdown", "reconnect"} :
            notify' = Append(notify, Message(type, {}, {}))
    BY <1>7, Zenon DEF Volunteers
  <2>2. Message(type, {}, {}) \in Messages(Notifications)
    BY Zenon DEF Message, Messages, Notifications
  <2>3. UNCHANGED <<updates, tasks, sent, seen, given, outgoing, owed>>
    BY <1>7, Zenon DEF Volunteers, own
  <2> QED
    BY <2>1, <2>2, <2>3, <1>Notified, Zenon
<1>8. CASE FailsOver
  <2>1. /\ notify' = Append(notify, Message("serviceDisconnected", {}, {})) /\ owed' = {}
        /\ UNCHANGED <<updates, tasks, sent, seen, given>>
    BY <1>8, Zenon DEF FailsOver, own
  <2>2. Message("serviceDisconnected", {}, {}) \in Messages(Notifications)
    BY DEF Message, Messages, Notifications
  <2>3. notify' \in Seq(Messages(Notifications))
    BY <2>1, <2>2, AppendElements, Zenon DEF Stored, OnTheWay
  <2>4. /\ outgoing' \in Seq(Outgoing)
        /\ \A i \in DOMAIN outgoing' : outgoing'[i].updates \subseteq sent
    <3>1. CASE outgoing' = outgoing
      BY <3>1, Zenon DEF Stored, OnTheWay
    <3>2. CASE outgoing # <<>> /\ outgoing' = Tail(outgoing)
      BY <3>2, <1>Taken, Zenon
    <3> QED
      BY <1>8, <3>1, <3>2, Zenon DEF FailsOver
  <2>5. owed' \subseteq seen'
    BY <2>1, Zenon
  <2> QED
    BY <2>1, <2>3, <2>4, <2>5, Zenon DEF Stored, Kept, OnePerUuid, OnTheWay
<1>9. ASSUME NEW u \in owed, Acknowledges(u) PROVE Stored'
  <2>1. u \in StatusUpdate
    BY <1>9, Zenon DEF Stored, Kept
  <2>2. Message("acknowledge", {u.task}, {u}) \in Messages(Notifications)
    BY <2>1 DEF Message, Messages, Notifications, StatusUpdate
  <2>3. /\ notify' = Append(notify, Message("acknowledge", {u.task}, {u})) /\ owed' \subseteq owed
        /\ UNCHANGED <<updates, tasks, sent, seen, given, outgoing>>
    BY <1>9, Zenon DEF Acknowledges, own
  <2> QED
    BY <2>2, <2>3, <1>Notified, Zenon
<1>10. ASSUME NEW t \in Tasks, RunsTask(t) PROVE Stored'
  <2>1. Message("runTask", {t}, {}) \in Messages(Notifications)
    BY <1>10 DEF Message, Messages, Notifications
  <2>2. /\ notify' = Append(notify, Message("runTask", {t}, {}))
        /\ UNCHANGED <<updates, tasks, sent, seen, given, outgoing, owed>>
    BY <1>10, Zenon DEF RunsTask, own
  <2> QED
    BY <2>1, <2>2, <1>Notified, Zenon
<1> QED
  BY <1>2, <1>3, <1>4, <1>5, <1>6, <1>7, <1>8, <1>9, <1>10, Zenon DEF Next

(* abort() leaves a status and a flag.                                     *)
LEMMA AbortTypes ==
    ASSUME Plain, DriverAbort
    PROVE  driver' \in Statuses /\ joiner' \in {"out", "waiting", "signalled"} /\ aborted' \in BOOLEAN
<1>1. CASE driver = "RUNNING"
  <2>1. aborted' = TRUE /\ driver' = "ABORTED" /\ joiner' = IF joiner = "waiting" THEN "signalled" ELSE joiner
    BY <1>1, Zenon DEF DriverAbort, ProcessAbort, Signal
  <2> QED
    BY <2>1, Zenon DEF Plain, Statuses
<1>2. CASE driver # "RUNNING"
  BY <1>2, Zenon DEF DriverAbort, Plain
<1> QED
  BY <1>1, <1>2, Zenon

(* Every step keeps the types of the rest.                                 *)
LEMMA PlainStep == Stored /\ Plain /\ [Next]_vars => Plain'
<1> SUFFICES ASSUME Stored, Plain, [Next]_vars PROVE Plain'
  BY Zenon
<1>1. CASE Start \/ \E th \in Threads : Stop(th)
  BY <1>1, Zenon DEF Start, StartRegistration, Stop, Signal, Plain, Statuses, own, link, service
<1>2. CASE Join \/ JoinWakes
  BY <1>2, Zenon DEF Join, JoinWakes, Plain, own, link, service
<1>3. ASSUME NEW th \in Threads, Abort(th) \/ Raise(th) PROVE Plain'
  <2>1. DriverAbort /\ UNCHANGED <<connected, timer, redis, linked, taskDict, process>> /\ conn' \in BOOLEAN
    BY <1>3, Zenon DEF Abort, Raise, Plain, link, service
  <2> QED
    BY <2>1, AbortTypes, Zenon DEF Plain
<1>4. ASSUME NEW th \in Threads, NEW t \in Tasks, NEW s \in TaskStates, SendStatusUpdate(th, t, s)
      PROVE  Plain'
  <2>1. /\ DriverAbort \/ UNCHANGED <<driver, joiner, aborted>>
        /\ UNCHANGED <<connected, timer, conn, redis, linked, taskDict, process>>
    BY <1>4, Zenon DEF SendStatusUpdate, ProcessSendStatusUpdate, link, service
  <2> QED
    BY <2>1, AbortTypes, Zenon DEF Plain
<1>5. CASE DoReliableRegistration \/ LoseLink \/ RedisBack
  BY <1>5, Zenon DEF DoReliableRegistration, LoseLink, RedisBack, Plain, own, link, service
<1>6. CASE OnInput
  <2>1. UNCHANGED <<driver, joiner, aborted, timer, conn, redis, linked, taskDict>>
    BY <1>6, Zenon DEF OnInput, link, service
  <2>2. connected' \in {connected, TRUE} /\ process' \in {process, "doomed"}
    BY <1>6, Zenon
    DEF OnInput, Handled, Registered, Reregistered, Reconnect, RunTask, KillTask,
        StatusUpdateAcknowledgement, FrameworkMessage, Shutdown, Unaffected
  <2> QED
    BY <2>1, <2>2, Zenon DEF Plain
<1>7. CASE ShutdownReturns \/ Killed
  BY <1>7, Zenon DEF ShutdownReturns, Killed, Plain, own, link, service
<1>8. CASE ServiceTakes
  <2>1. Head(outgoing).tasks \subseteq Tasks
    <3>1. Head(outgoing) \in Outgoing
      BY <1>8, TailElements, Zenon DEF ServiceTakes, Stored, OnTheWay
    <3> QED
      BY <3>1 DEF Outgoing, Messages
  <2>2. taskDict' \subseteq Tasks
    BY <1>8, <2>1, Zenon DEF ServiceTakes, Plain
  <2> QED
    BY <1>8, <2>2, Zenon DEF ServiceTakes, Plain, own, link
<1>9. CASE FailsOver \/ \E t \in Tasks : RunsTask(t)
  BY <1>9, Zenon DEF FailsOver, RunsTask, Plain, own, link
<1>10. CASE \/ vars' = vars \/ Volunteers \/ \E u \in owed : Acknowledges(u)
            \/ \E th \in Threads : SendFrameworkMessage(th) \/ Enter(th) \/ Leave(th)
  BY <1>10, Zenon
  DEF vars, Volunteers, Acknowledges, SendFrameworkMessage, Enter, Leave, Plain, own, link, service
<1> QED
  BY <1>1, <1>2, <1>3, <1>4, <1>5, <1>6, <1>7, <1>8, <1>9, <1>10, Zenon DEF Next

(* The variables have their types, however uuids are cut: in particular no *)
(* two unacknowledged updates have the same uuid (sendStatusUpdate), and   *)
(* the driver holds no update and no task it was not given.                *)
THEOREM TypesHold == Spec => []TypeOK
<1> DEFINE Inv == Stored /\ Plain /\ SilentInv
<1>1. Init => Inv
  <2> SUFFICES ASSUME Init PROVE Inv
    OBVIOUS
  <2>1. Stored
    BY FS_EmptySet DEF Init, Stored, Kept, OnePerUuid, OnTheWay
  <2>2. Plain
    BY Zenon DEF Init, Plain, Statuses
  <2>3. SilentInv
    BY DEF Init, SilentInv, InShutdown, Threads
  <2> QED
    BY <2>1, <2>2, <2>3
<1>2. Inv /\ [Next]_vars => Inv'
  BY StoredStep, PlainStep, SilentStep, Zenon
<1>3. Inv => TypeOK
  BY Zenon DEF Stored, Kept, OnePerUuid, OnTheWay, Outgoing, Plain, SilentInv, TypeOK
<1> QED
  BY <1>1, <1>2, <1>3, PTL DEF Spec
=============================================================================
