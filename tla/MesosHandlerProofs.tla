------------------------- MODULE MesosHandlerProofs -------------------------
(***************************************************************************)
(* Proofs about MesosHandler for every set of jobs, every finite set of    *)
(* tasks and every setting.  However often the service is restarted or     *)
(* fails over: its types; that what runners, executors and their drivers   *)
(* hold of a task is held by the one job the task was launched for; and    *)
(* that a task is asked to run once and only before its end. The inductive *)
(* invariant is TasksInv, built in five layers that are each shown to be   *)
(* kept by every action.  As long as it is not restarted: a kill reaches   *)
(* the executor that has the task, and a task that ended stays ended; a    *)
(* restart breaks both (README). SteadyInv adds eight conjuncts to         *)
(* TasksInv, each with a lemma that every step keeps it.                   *)
(***************************************************************************)
EXTENDS MesosHandler, TLAPS

(* The elements of a sequence.                                             *)
Items(s) == {s[i] : i \in DOMAIN s}

(* The empty sequence has none.                                            *)
LEMMA NoItems == Items(<<>>) = {}
BY SMTT(30) DEF Items

(* Those of a typed sequence have its type.                                *)
LEMMA ItemsOf == ASSUME NEW S, NEW s \in Seq(S) PROVE Items(s) \subseteq S
BY SMTT(30) DEF Items

(* The requests of one message, in whatever order they are handled, are a  *)
(* sequence in which each one occurs once (ToExecutor).                    *)
LEMMA RequestFacts ==
    ASSUME NEW T \in SUBSET Tasks, NEW type \in {"run", "kill"},
           NEW p \in Bijection(1 .. Cardinality(T), Requests(type, T))
    PROVE  /\ p \in Seq(Message)
           /\ \A i, k \in DOMAIN p : p[i] = p[k] => i = k
           /\ Items(p) = Requests(type, T)
<1> DEFINE n == Cardinality(T)
           R == Requests(type, T)
<1>1. n \in Nat
  BY TasksAssumption, Zenon
<1>2. /\ p \in [1..n -> R]
      /\ \A r \in R : \E i \in 1..n : p[i] = r
      /\ \A i, k \in 1..n : p[i] = p[k] => i = k
  BY Zenon DEF Bijection, Injection, IsInjective, Surjection
<1>3. R \subseteq Message
  BY SMTT(30) DEF Requests, Message
<1> HIDE DEF n, R
<1>4. p \in Seq(Message) /\ DOMAIN p = 1..n
  BY <1>1, <1>2, <1>3, SMTT(30)
<1>5. Items(p) = R
  BY <1>2, <1>4, SMTT(30) DEF Items
<1> QED BY <1>2, <1>4, <1>5, Zenon DEF R

\* What a sequence holds after another is appended to it.
Cat(s, p) == s \o p

(* The length, the elements and the places of a concatenation.             *)
LEMMA CatFacts ==
    ASSUME NEW S, NEW s \in Seq(S), NEW p \in Seq(S)
    PROVE  /\ Cat(s, p) \in Seq(S)
           /\ Len(Cat(s, p)) = Len(s) + Len(p)
           /\ \A i \in 1..Len(s) : Cat(s, p)[i] = s[i]
           /\ \A i \in 1..Len(p) : Cat(s, p)[Len(s) + i] = p[i]
           /\ Items(Cat(s, p)) = Items(s) \cup Items(p)
<1>1. /\ Cat(s, p) \in Seq(S)
      /\ Len(Cat(s, p)) = Len(s) + Len(p)
      /\ \A i \in 1..Len(s) : Cat(s, p)[i] = s[i]
      /\ \A i \in 1..Len(p) : Cat(s, p)[Len(s) + i] = p[i]
  BY SMTT(30) DEF Cat
<1>2. ASSUME NEW i \in 1..Len(Cat(s, p)) PROVE Cat(s, p)[i] \in Items(s) \cup Items(p)
  <2>1. CASE i <= Len(s)
    BY <1>1, <1>2, <2>1, SMTT(30) DEF Items
  <2>2. CASE i > Len(s)
    <3>1. i - Len(s) \in 1..Len(p) /\ Len(s) + (i - Len(s)) = i
      BY <1>1, <1>2, <2>2, SMTT(30)
    <3>2. Cat(s, p)[i] = p[i - Len(s)]
      BY <3>1, <1>1, Zenon
    <3> QED BY <3>1, <3>2, SMTT(30) DEF Items
  <2> QED BY <1>1, <1>2, <2>1, <2>2, SMTT(30)
<1>3. ASSUME NEW i \in 1..Len(s) PROVE s[i] \in Items(Cat(s, p))
  <2>1. i \in DOMAIN Cat(s, p) /\ Cat(s, p)[i] = s[i]
    BY <1>1, SMTT(30)
  <2> QED BY <2>1, Zenon DEF Items
<1>4. ASSUME NEW i \in 1..Len(p) PROVE p[i] \in Items(Cat(s, p))
  <2>1. Len(s) + i \in DOMAIN Cat(s, p) /\ Cat(s, p)[Len(s) + i] = p[i]
    BY <1>1, SMTT(30)
  <2> QED BY <2>1, Zenon DEF Items
<1>5. Items(Cat(s, p)) = Items(s) \cup Items(p)
  <2>1. Items(Cat(s, p)) \subseteq Items(s) \cup Items(p)
    BY <1>1, <1>2, SMTT(30) DEF Items
  <2>2. Items(s) \subseteq Items(Cat(s, p)) /\ Items(p) \subseteq Items(Cat(s, p))
    BY <1>3, <1>4, SMTT(30) DEF Items
  <2> QED BY <2>1, <2>2, Zenon
<1> QED BY <1>1, <1>5, Zenon

(* The head of a sequence, and what remains without it.                    *)
LEMMA TailFacts ==
    ASSUME NEW S, NEW s \in Seq(S), s # <<>>
    PROVE  /\ Tail(s) \in Seq(S) /\ Head(s) \in S
           /\ Len(Tail(s)) = Len(s) - 1
           /\ \A i \in 1..Len(Tail(s)) : Tail(s)[i] = s[i + 1] /\ i + 1 \in 1..Len(s)
           /\ Items(s) = {Head(s)} \cup Items(Tail(s))
           /\ Head(s) = s[1] /\ 1 \in DOMAIN s
<1>1. /\ Tail(s) \in Seq(S) /\ Head(s) \in S
      /\ Len(Tail(s)) = Len(s) - 1
      /\ \A i \in 1..Len(Tail(s)) : Tail(s)[i] = s[i + 1] /\ i + 1 \in 1..Len(s)
      /\ Head(s) = s[1] /\ 1 \in DOMAIN s
  BY SMTT(30)
<1>2. Items(s) \subseteq {Head(s)} \cup Items(Tail(s))
  <2>1. SUFFICES ASSUME NEW i \in 1..Len(s) PROVE s[i] \in {Head(s)} \cup Items(Tail(s))
    BY SMTT(30) DEF Items
  <2>2. CASE i = 1
    BY <2>2, <1>1, Zenon
  <2>3. CASE i # 1
    <3>1. i - 1 \in 1..Len(Tail(s)) /\ (i - 1) + 1 = i
      BY <2>3, <1>1, SMTT(30)
    <3>2. Tail(s)[i - 1] = s[i] /\ i - 1 \in DOMAIN Tail(s)
      BY <3>1, <1>1, SMTT(30)
    <3> QED BY <3>2, Zenon DEF Items
  <2> QED BY <2>2, <2>3, Zenon
<1>3. Items(Tail(s)) \subseteq Items(s) /\ Head(s) \in Items(s)
  BY <1>1, SMTT(30) DEF Items
<1> QED BY <1>1, <1>2, <1>3, Zenon

(* The places and the elements of a sequence with one more element.        *)
LEMMA AppendFacts ==
    ASSUME NEW S, NEW s \in Seq(S), NEW x \in S
    PROVE  /\ Append(s, x) \in Seq(S) /\ Append(s, x) # <<>>
           /\ Len(Append(s, x)) = Len(s) + 1
           /\ \A i \in 1..Len(s) : Append(s, x)[i] = s[i]
           /\ Append(s, x)[Len(s) + 1] = x
           /\ Items(Append(s, x)) = Items(s) \cup {x}
<1>1. /\ Append(s, x) \in Seq(S) /\ Append(s, x) # <<>>
      /\ Len(Append(s, x)) = Len(s) + 1
      /\ \A i \in 1..Len(s) : Append(s, x)[i] = s[i]
      /\ Append(s, x)[Len(s) + 1] = x
  BY SMTT(30)
<1>2. Items(Append(s, x)) \subseteq Items(s) \cup {x}
  BY <1>1, SMTT(30) DEF Items
<1>3. Items(s) \subseteq Items(Append(s, x))
  BY <1>1, SMTT(30) DEF Items
<1>4. x \in Items(Append(s, x))
  <2>1. Len(s) + 1 \in DOMAIN Append(s, x)
    BY <1>1, SMTT(30)
  <2> QED BY <1>1, <2>1, Zenon DEF Items
<1> QED BY <1>1, <1>2, <1>3, <1>4, Zenon

----------------------------------------------------------------------------
(* A request to run occurs once in a sequence of messages.                 *)
Once(s) == \A i, k \in DOMAIN s : s[i].type = "run" /\ s[k] = s[i] => k = i

(* A request to kill a task comes after the one to run it.                 *)
KillLast(s) ==
    \A i, k \in DOMAIN s :
        s[i].type = "kill" /\ s[k].type = "run" /\ s[k].task = s[i].task => k < i

(* Both hold of an empty inbox.                                            *)
LEMMA EmptyInbox == Once(<<>>) /\ KillLast(<<>>)
BY SMTT(30) DEF Once, KillLast

(* Requests to run that are new to an inbox still occur once after they    *)
(* have been appended.                                                     *)
LEMMA OnceCat ==
    ASSUME NEW s \in Seq(Message), NEW p \in Seq(Message), Once(s),
           \A i, k \in DOMAIN p : p[i] = p[k] => i = k,
           \A m \in Items(s) \cap Items(p) : m.type # "run"
    PROVE  Once(Cat(s, p))
<1> DEFINE c == Cat(s, p)
<1>1. SUFFICES ASSUME NEW i \in DOMAIN c, NEW k \in DOMAIN c, c[i].type = "run", c[k] = c[i]
               PROVE  k = i
  BY Zenon DEF Once
<1>2. /\ Len(c) = Len(s) + Len(p) /\ c \in Seq(Message)
      /\ \A n \in 1..Len(s) : c[n] = s[n]
      /\ \A n \in 1..Len(p) : c[Len(s) + n] = p[n]
  BY ONLY s \in Seq(Message), p \in Seq(Message) DEF Cat
<1> HIDE DEF c
<1>3. ASSUME NEW n \in DOMAIN c
      PROVE  \/ n \in DOMAIN s /\ c[n] = s[n] /\ c[n] \in Items(s)
             \/ n - Len(s) \in DOMAIN p /\ c[n] = p[n - Len(s)] /\ c[n] \in Items(p)
  <2>1. CASE n <= Len(s)
    BY <2>1, <1>2, <1>3, SMTT(30) DEF Items
  <2>2. CASE n > Len(s)
    <3>1. n - Len(s) \in 1..Len(p) /\ Len(s) + (n - Len(s)) = n
      BY <2>2, <1>2, <1>3, SMTT(30)
    <3>2. c[n] = p[n - Len(s)]
      BY <3>1, <1>2, Zenon
    <3> QED BY <3>1, <3>2, SMTT(30) DEF Items
  <2> QED BY <1>2, <1>3, <2>1, <2>2, SMTT(30)
<1>4. CASE i \in DOMAIN s /\ c[i] = s[i] /\ k \in DOMAIN s /\ c[k] = s[k]
  BY <1>1, <1>4, Zenon DEF Once
<1>5. CASE /\ i - Len(s) \in DOMAIN p /\ c[i] = p[i - Len(s)]
           /\ k - Len(s) \in DOMAIN p /\ c[k] = p[k - Len(s)]
  <2>1. i - Len(s) = k - Len(s)
    BY <1>1, <1>5, Zenon
  <2> QED BY <2>1, <1>2, SMTT(30)
<1>6. CASE (c[i] \in Items(s) /\ c[k] \in Items(p)) \/ (c[k] \in Items(s) /\ c[i] \in Items(p))
  BY <1>1, <1>6, Zenon
<1> QED BY <1>1, <1>3, <1>4, <1>5, <1>6, Zenon

(* Requests appended to an inbox keep the order of run and kill, unless    *)
(* one asks to run a task that the inbox asks to kill.                     *)
LEMMA KillLastCat ==
    ASSUME NEW s \in Seq(Message), NEW p \in Seq(Message), KillLast(s),
           \A i, k \in DOMAIN p : p[i].type = p[k].type,
           \A m \in Items(s), n \in Items(p) :
               ~(m.type = "kill" /\ n.type = "run" /\ n.task = m.task)
    PROVE  KillLast(Cat(s, p))
<1> DEFINE c == Cat(s, p)
<1>1. SUFFICES ASSUME NEW i \in DOMAIN c, NEW k \in DOMAIN c,
                      c[i].type = "kill", c[k].type = "run", c[k].task = c[i].task
               PROVE  k < i
  BY Zenon DEF KillLast
<1>2. /\ Len(c) = Len(s) + Len(p) /\ c \in Seq(Message)
      /\ \A n \in 1..Len(s) : c[n] = s[n]
      /\ \A n \in 1..Len(p) : c[Len(s) + n] = p[n]
  BY ONLY s \in Seq(Message), p \in Seq(Message) DEF Cat
<1> HIDE DEF c
<1>3. ASSUME NEW n \in DOMAIN c
      PROVE  \/ n \in DOMAIN s /\ c[n] = s[n] /\ c[n] \in Items(s)
             \/ n - Len(s) \in DOMAIN p /\ c[n] = p[n - Len(s)] /\ c[n] \in Items(p)
  <2>1. CASE n <= Len(s)
    BY <2>1, <1>2, <1>3, SMTT(30) DEF Items
  <2>2. CASE n > Len(s)
    <3>1. n - Len(s) \in 1..Len(p) /\ Len(s) + (n - Len(s)) = n
      BY <2>2, <1>2, <1>3, SMTT(30)
    <3>2. c[n] = p[n - Len(s)]
      BY <3>1, <1>2, Zenon
    <3> QED BY <3>1, <3>2, SMTT(30) DEF Items
  <2> QED BY <1>2, <1>3, <2>1, <2>2, SMTT(30)
<1>4. CASE i \in DOMAIN s /\ c[i] = s[i] /\ k \in DOMAIN s /\ c[k] = s[k]
  BY <1>1, <1>4, Zenon DEF KillLast
<1>5. CASE /\ i - Len(s) \in DOMAIN p /\ c[i] = p[i - Len(s)]
           /\ k - Len(s) \in DOMAIN p /\ c[k] = p[k - Len(s)]
  BY <1>1, <1>5, Zenon
<1>6. CASE c[i] \in Items(s) /\ c[k] \in Items(p)
  BY <1>1, <1>6, Zenon
<1>7. CASE k \in DOMAIN s /\ i - Len(s) \in DOMAIN p
  BY <1>2, <1>7, SMTT(30)
<1> QED BY <1>1, <1>3, <1>4, <1>5, <1>6, <1>7, Zenon

(* What sending requests to an executor does to its inbox.                 *)
LEMMA ToExecutorFacts ==
    ASSUME TypeOK, NEW j \in Jobs, NEW T \in SUBSET Tasks, NEW type \in {"run", "kill"},
           ToExecutor(j, type, T)
    PROVE  /\ inbox' \in [Jobs -> Seq(Message)]
           /\ \A i \in Jobs \ {j} : inbox'[i] = inbox[i]
           /\ Items(inbox'[j]) = Items(inbox[j]) \cup Requests(type, T)
           /\ Once(inbox[j]) /\ (type = "run" => Items(inbox[j]) \cap Requests(type, T) = {})
                  => Once(inbox'[j])
           /\ KillLast(inbox[j])
              /\ (type = "run" => Items(inbox[j]) \cap Requests("kill", T) = {})
                  => KillLast(inbox'[j])
<1>1. PICK p \in Bijection(1 .. Cardinality(T), Requests(type, T)) :
              inbox' = [inbox EXCEPT ![j] = @ \o p]
  BY Zenon DEF ToExecutor
<1>4. /\ p \in Seq(Message)
      /\ \A i, k \in DOMAIN p : p[i] = p[k] => i = k
      /\ Items(p) = Requests(type, T)
  BY RequestFacts, Zenon
<1>5. inbox[j] \in Seq(Message) /\ inbox \in [Jobs -> Seq(Message)]
  BY Zenon DEF TypeOK
<1>6. inbox'[j] = Cat(inbox[j], p)
  BY <1>1, <1>5, Zenon DEF Cat
<1>7. Cat(inbox[j], p) \in Seq(Message)
      /\ Items(Cat(inbox[j], p)) = Items(inbox[j]) \cup Items(p)
  BY <1>4, <1>5, CatFacts, SMTT(30)
<1>8. inbox' \in [Jobs -> Seq(Message)] /\ \A i \in Jobs \ {j} : inbox'[i] = inbox[i]
  BY <1>1, <1>5, <1>6, <1>7, Zenon
<1>10. ASSUME Once(inbox[j]), type = "run" => Items(inbox[j]) \cap Requests(type, T) = {}
       PROVE  Once(inbox'[j])
  <2>1. \A m \in Items(inbox[j]) \cap Items(p) : m.type # "run"
    BY <1>4, <1>10, SMTT(30) DEF Requests
  <2> QED BY <1>4, <1>5, <1>6, <1>10, <2>1, OnceCat, Zenon
<1>11. ASSUME KillLast(inbox[j]), type = "run" => Items(inbox[j]) \cap Requests("kill", T) = {}
       PROVE  KillLast(inbox'[j])
  <2>1. \A i, k \in DOMAIN p : p[i].type = p[k].type
    BY <1>4, SMTT(30) DEF Requests, Items
  <2>2. ASSUME NEW m \in Items(inbox[j]), NEW n \in Items(p),
               m.type = "kill", n.type = "run", n.task = m.task
        PROVE  FALSE
    <3>1. type = "run" /\ n.task \in T
      BY <1>4, <2>2, SMTT(30) DEF Requests
    <3>2. m \in Message
      BY <1>5, <2>2, SMTT(30) DEF Items
    <3>3. m = [type |-> "kill", task |-> n.task]
      BY <3>2, <2>2, Zenon DEF Message
    <3> QED BY <3>1, <3>3, <1>11, <2>2, Zenon DEF Requests
  <2> QED BY <1>4, <1>5, <1>6, <1>11, <2>1, <2>2, KillLastCat, Zenon
<1> QED BY <1>4, <1>6, <1>7, <1>8, <1>10, <1>11, Zenon
----------------------------------------------------------------------------
(* The type invariant in four parts, by who owns the state: first the      *)
(* records of tasks.                                                       *)
TaskTypes ==
    /\ task \in [Tasks -> States \cup {"none"}]
    /\ taskJob \in [Tasks -> Jobs \cup {NoJob}]
    /\ taskSlave \in [Tasks -> Jobs \cup {Placeholder}]
    /\ delTasks \subseteq Tasks /\ fresh \subseteq Tasks
    /\ told \in [Tasks -> SUBSET States]

(* The records of slaves. A slave is dropped by the time it has refused    *)
(* MaxRejected + 1 offers, so that those recorded have refused fewer.      *)
SlaveTypes ==
    /\ slaves \subseteq Jobs /\ mapped \subseteq Jobs /\ delSlaves \subseteq Jobs
    /\ offerable \in [Jobs -> BOOLEAN]
    /\ free \in [Jobs -> Int]
    /\ refused \in [Jobs -> 0..(MaxRejected + 1)]
    /\ executorChannel \in [Jobs -> BOOLEAN]
    /\ outstanding \subseteq Offers
    /\ \A j \in slaves : refused[j] <= MaxRejected

(* The jobs, their runners and their executors.                            *)
ClusterTypes ==
    /\ jobIds \subseteq Jobs /\ monitored \subseteq Jobs
    /\ job \in [Jobs -> {"none", "pending", "running", "gone"}]
    /\ runnerTasks \in [Jobs -> SUBSET Tasks]
    /\ executor \in [Jobs -> {"none", "starting", "up"}]
    /\ disconnected \subseteq (Jobs \X {"runner", "executor"})
    /\ revives \in 0..MaxRevives /\ restarts \in 0..MaxRestarts

(* What is in and on its way to and from executors.                        *)
ExecTypes ==
    /\ inbox \in [Jobs -> Seq(Message)]
    /\ executing \in [Jobs -> SUBSET Tasks] /\ execTasks \in [Jobs -> SUBSET Tasks]
    /\ unacked \subseteq Update /\ updates \in [Jobs -> Seq(Update)]

(* The type invariant together with the bound on refused offers that makes *)
(* it inductive (__process_remaining_offers).                              *)
Typing == TypeOK /\ \A j \in slaves : refused[j] <= MaxRejected

(* What is on its way to and from executors is well typed.                 *)
LEMMA TypedItems ==
    ASSUME Typing
    PROVE  /\ TypeOK /\ Items(<<>>) = {}
           /\ \A j \in Jobs : inbox[j] \in Seq(Message) /\ Items(inbox[j]) \subseteq Message
           /\ \A j \in Jobs : updates[j] \in Seq(Update) /\ Items(updates[j]) \subseteq Update
<1>1. TypeOK /\ \A j \in Jobs : inbox[j] \in Seq(Message) /\ updates[j] \in Seq(Update)
  BY Zenon DEF Typing, TypeOK
<1> QED BY <1>1, NoItems, ItemsOf, Zenon

(* The fields of an update.                                                *)
LEMMA UpdateFields == ASSUME NEW u \in Update PROVE u.task \in Tasks /\ u.state \in States /\ u.from \in Jobs
BY Zenon DEF Update

(* The initial state is well typed.                                        *)
LEMMA TypingInit == Init => Typing
BY BoundsAssumption, SMTT(30)
DEF Init, Typing, TypeOK, States, Offers, Update, Message

(* A job that scale_up submits is one the cluster has not had.             *)
LEMMA SubmittedJob ==
    ASSUME NEW N \in Submittable, N # {}
    PROVE  \E j \in Jobs : N = {j} /\ job[j] = "none" /\ (CHOOSE x \in N : TRUE) = j
BY Zenon DEF Submittable

(* What scale_up does to the jobs.                                         *)
LEMMA SubmitFacts ==
    ASSUME Typing, NEW N \in Submittable, NEW J \in SUBSET Jobs, ScaleUp(N, J)
    PROVE  /\ \A i \in Jobs \ J : job'[i] = job[i] \/ (job[i] = "none" /\ job'[i] = "pending")
           /\ \A i \in J \ N : job'[i] = "running"
           /\ \A i \in N : job[i] = "none" /\ job'[i] = "pending"
BY SMTT(30) DEF ScaleUp, Submittable, Typing, TypeOK

(* No job starts where none registers.                                     *)
LEMMA SubmitOnly ==
    ASSUME Typing, NEW N \in Submittable, ScaleUp(N, {})
    PROVE  /\ \A i \in Jobs : job'[i] = job[i] \/ (job[i] = "none" /\ job'[i] = "pending")
           /\ \A i \in Jobs : job'[i] = "running" => job[i] = "running"
           /\ \A i \in N : job[i] = "none" /\ job'[i] = "pending"
BY SubmitFacts, SMTT(30)

(* Where one registers, it is not among those submitted.                   *)
LEMMA SubmitAndStart ==
    ASSUME Typing, NEW N \in Submittable, NEW j \in Jobs, ScaleUp(N, {j}), job[j] = "pending"
    PROVE  /\ \A i \in Jobs \ {j} : job'[i] = job[i] \/ (job[i] = "none" /\ job'[i] = "pending")
           /\ \A i \in Jobs \ {j} : job'[i] = "running" => job[i] = "running"
           /\ j \notin N /\ job'[j] = "running"
BY SubmitFacts, SMTT(30)

(* The fields of an offer that is out.                                     *)
LEMMA OfferFields ==
    ASSUME TypeOK, NEW o \in outstanding
    PROVE  /\ o.place \in Jobs \cup {Placeholder} /\ o.amount \in Int
           /\ o.known \in {"current", "superseded", "unknown"}
BY Zenon DEF TypeOK, Offers
----------------------------------------------------------------------------
USE DEF taskVars, slaveVars, jobVars, delVars, frameworkVars, execVars, clusterVars, bounds

(* Every step keeps the types.                                             *)
LEMMA TypingStep == Typing /\ [Next]_vars => Typing'
(* The four parts are the whole.                                           *)
<1>TypingParts. TaskTypes' /\ SlaveTypes' /\ ClusterTypes' /\ ExecTypes' => Typing'
  BY Zenon DEF Typing, TypeOK, TaskTypes, SlaveTypes, ClusterTypes, ExecTypes
(* __target_postprocessor only removes records.                            *)
<1>PostprocessTypes.
      ASSUME NEW newTask \in [Tasks -> States \cup {"none"}], NEW newSlaves \in SUBSET Jobs,
             NEW T, NEW S, Postprocess(newTask, newSlaves, T, S)
      PROVE  /\ task' \in [Tasks -> States \cup {"none"}]
             /\ slaves' \subseteq newSlaves /\ slaves' \subseteq Jobs
             /\ delTasks' = {} /\ delSlaves' = {}
  BY <1>PostprocessTypes, Zenon DEF Postprocess
(* Setting the state of some tasks keeps the types.                        *)
<1>SetTasksTypes.
      ASSUME TypeOK, NEW T, NEW state \in States
      PROVE  SetTasks(T, state) \in [Tasks -> States \cup {"none"}]
  BY <1>SetTasksTypes, Zenon DEF SetTasks, TypeOK
(* Telling the framework a state keeps the types.                          *)
<1>TellTypes.
      ASSUME TypeOK, NEW T, NEW state \in States, Tell(T, state)
      PROVE  told' \in [Tasks -> SUBSET States]
  BY <1>TellTypes, Zenon DEF Tell, TypeOK
(* Offers stay offers when they are superseded or forgotten.               *)
<1>OfferTypes.
      ASSUME TypeOK
      PROVE  /\ \A J : Supersede(J) \subseteq Offers
             /\ {[o EXCEPT !.known = "unknown"] : o \in outstanding} \subseteq Offers
  <2> USE <1>OfferTypes
  <2>1. outstanding \subseteq Offers
    BY Zenon DEF TypeOK
  <2>2. ASSUME NEW o \in outstanding, NEW k \in {"current", "superseded", "unknown"}
        PROVE  [o EXCEPT !.known = k] \in Offers /\ o.known \in {"current", "superseded", "unknown"}
    BY <2>1, Zenon DEF Offers
  <2>3. ASSUME NEW J, NEW o \in outstanding
        PROVE  [o EXCEPT !.known = IF @ = "current" /\ o.place \in J THEN "superseded" ELSE @] \in Offers
    <3>1. CASE o.known = "current" /\ o.place \in J
      BY <2>2, <3>1, Zenon
    <3>2. CASE ~(o.known = "current" /\ o.place \in J)
      BY <2>2, <3>2, Zenon
    <3> QED BY <3>1, <3>2, Zenon
  <2> QED BY <2>2, <2>3, Zenon DEF Supersede
(* The oldest status update of a channel is an update.                     *)
<1>StatusUpdateTypes.
      ASSUME TypeOK, NEW j \in Jobs, updates[j] # <<>>
      PROVE  /\ Head(updates[j]) \in Update /\ Tail(updates[j]) \in Seq(Update)
             /\ Head(updates[j]).task \in Tasks /\ Head(updates[j]).state \in States
             /\ Head(updates[j]).from \in Jobs
  <2> USE <1>StatusUpdateTypes
  <2>1. updates[j] \in Seq(Update)
    BY Zenon DEF TypeOK
  <2>2. Head(updates[j]) \in Update /\ Tail(updates[j]) \in Seq(Update)
    BY <2>1, SMTT(30)
  <2> QED BY <2>2, Zenon DEF Update
(* Reporting a state keeps the types of the updates.                       *)
<1>ReportTypes.
      ASSUME TypeOK, NEW j \in Jobs, NEW t \in Tasks, NEW state \in States, Report(j, t, state)
      PROVE  unacked' \subseteq Update /\ updates' \in [Jobs -> Seq(Update)]
  <2> USE <1>ReportTypes
  <2>1. [task |-> t, state |-> state, from |-> j] \in Update
    BY Zenon DEF Update
  <2>2. updates \in [Jobs -> Seq(Update)] /\ unacked \subseteq Update
    BY Zenon DEF TypeOK
  <2> DEFINE u == [task |-> t, state |-> state, from |-> j]
  <2>3. Append(updates[j], u) \in Seq(Update)
    BY <2>1, <2>2, SMTT(30)
  <2>4. updates' = [updates EXCEPT ![j] = Append(@, u)] /\ unacked' = unacked \cup {u}
    BY Zenon DEF Report
  <2> HIDE DEF u
  <2> QED BY <2>1, <2>2, <2>3, <2>4, Zenon DEF u
(* A LaunchTasks message keeps the types of the runner.                    *)
<1>RunnerTypes.
      ASSUME TypeOK, NEW j \in Jobs, NEW T \in SUBSET Tasks, ToRunner(j, T)
      PROVE  /\ runnerTasks' \in [Jobs -> SUBSET Tasks]
             /\ executor' \in [Jobs -> {"none", "starting", "up"}]
  BY <1>RunnerTypes, SMTT(30) DEF ToRunner, Tracked, TypeOK
(* scale_up keeps the types of the jobs.                                   *)
<1>ScaleUpTypes.
      ASSUME TypeOK, NEW N \in Submittable, NEW J \in SUBSET Jobs, ScaleUp(N, J)
      PROVE  /\ job' \in [Jobs -> {"none", "pending", "running", "gone"}]
             /\ jobIds' \subseteq Jobs /\ monitored' \subseteq Jobs
  BY <1>ScaleUpTypes, SMTT(30) DEF ScaleUp, Submittable, TypeOK
(* Recording launched tasks keeps the types of the records.                *)
<1>RecordTypes.
      ASSUME TypeOK, NEW T \in SUBSET Tasks, NEW j \in Jobs \cup {NoJob},
             NEW p \in Jobs \cup {Placeholder}, Record(T, j, p)
      PROVE  /\ taskJob' \in [Tasks -> Jobs \cup {NoJob}]
             /\ taskSlave' \in [Tasks -> Jobs \cup {Placeholder}]
             /\ fresh' \subseteq Tasks
  BY <1>RecordTypes, Zenon DEF Record, TypeOK
(* A job that leaves takes well-typed state with it.                       *)
<1>JobGoneTypes.
      ASSUME TypeOK, NEW j \in Jobs, JobGone(j)
      PROVE  /\ ExecTypes' /\ runnerTasks' = runnerTasks
             /\ job' \in [Jobs -> {"none", "pending", "running", "gone"}]
             /\ executor' \in [Jobs -> {"none", "starting", "up"}]
             /\ disconnected' \subseteq (Jobs \X {"runner", "executor"})
  BY <1>JobGoneTypes, SMTT(30) DEF JobGone, TypeOK, ExecTypes
(* launch_tasks keeps the types.                                           *)
<1>LaunchTypes.
      ASSUME Typing, NEW o \in outstanding, NEW T \in SUBSET fresh, LaunchTasks(o, T)
      PROVE  Typing'
  <2> USE <1>LaunchTypes
  <2>1. /\ o.place \in Jobs \cup {Placeholder} /\ o.amount \in Int /\ T \in SUBSET Tasks
        /\ outstanding' \subseteq outstanding /\ TypeOK
    BY OfferFields, Zenon DEF LaunchTasks, Answer, Typing, TypeOK
  <2>2. SetTasks(T, "STAGING") \in [Tasks -> States \cup {"none"}] /\ Cardinality(T) \in Nat
    BY <2>1, <1>SetTasksTypes, TasksAssumption, Zenon DEF States, Live
  <2>3. CASE LaunchOnPlaceholder(o, T)
    <3>1. PICK N \in Submittable, failed \in SUBSET T :
            LET lost == IF SendTaskLost THEN T ELSE failed
                j == IF N = {} THEN NoJob ELSE CHOOSE x \in N : TRUE
            IN  /\ (N = {}) <=> (failed = T)
                /\ ScaleUp(N, {})
                /\ Record(T, j, Placeholder)
                /\ Tell(lost, "LOST")
                /\ Postprocess(SetTasks(T, "STAGING"), slaves, lost \ {}, {})
      BY <2>3, Zenon DEF LaunchOnPlaceholder, LaunchAndSubmit
    <3> DEFINE lost == IF SendTaskLost THEN T ELSE failed
               j == IF N = {} THEN NoJob ELSE CHOOSE x \in N : TRUE
    <3>2. j \in Jobs \cup {NoJob}
      BY SubmittedJob, SMTT(30)
    <3>3. /\ ScaleUp(N, {}) /\ Record(T, j, Placeholder) /\ Tell(lost, "LOST")
          /\ Postprocess(SetTasks(T, "STAGING"), slaves, lost \ {}, {})
      BY <3>1, Zenon
    <3> HIDE DEF lost, j
    <3>4. /\ task' \in [Tasks -> States \cup {"none"}] /\ slaves' \subseteq slaves
          /\ delTasks' = {} /\ delSlaves' = {}
      BY <2>1, <2>2, <3>3, <1>PostprocessTypes, Zenon DEF TypeOK
    <3>5. told' \in [Tasks -> SUBSET States]
      BY <2>1, <3>3, <1>TellTypes, Zenon DEF States, Terminal
    <3>6. TaskTypes'
      BY <2>1, <3>2, <3>3, <3>4, <3>5, <1>RecordTypes, Zenon DEF TaskTypes
    <3>7. /\ job' \in [Jobs -> {"none", "pending", "running", "gone"}]
          /\ jobIds' \subseteq Jobs /\ monitored' \subseteq Jobs
      BY <2>1, <3>3, <1>ScaleUpTypes, Zenon
    <3>8. SlaveTypes'
      BY <2>1, <2>3, <3>4, Zenon DEF LaunchOnPlaceholder, LaunchAndSubmit, SlaveTypes, Typing, TypeOK
    <3>9. ClusterTypes' /\ ExecTypes'
      BY <2>1, <2>3, <3>7, Zenon DEF LaunchOnPlaceholder, LaunchAndSubmit, ClusterTypes, ExecTypes, TypeOK
    <3> QED BY <3>6, <3>8, <3>9, <1>TypingParts, Zenon
  <2>4. CASE LaunchOnUnknown(o, T)
    <3>1. /\ task' \in [Tasks -> States \cup {"none"}] /\ slaves' \subseteq slaves
          /\ delTasks' = {} /\ delSlaves' = {}
      BY <2>1, <2>2, <2>4, <1>PostprocessTypes, Zenon DEF LaunchOnUnknown, TypeOK
    <3>2. TaskTypes'
      BY <2>1, <2>4, <3>1, <1>RecordTypes, Zenon DEF TaskTypes, LaunchOnUnknown, TypeOK
    <3>3. SlaveTypes'
      BY <2>1, <2>4, <3>1, Zenon DEF LaunchOnUnknown, SlaveTypes, Typing, TypeOK
    <3>4. ClusterTypes' /\ ExecTypes'
      BY <2>1, <2>4, Zenon DEF LaunchOnUnknown, ClusterTypes, ExecTypes, TypeOK
    <3> QED BY <3>2, <3>3, <3>4, <1>TypingParts, Zenon
  <2>5. CASE LaunchOnSlave(o, T)
    <3> DEFINE run == Runnable(o.place, T)
    <3>1. o.place \in Jobs /\ LaunchAndRun(o, T, T, run) /\ run \in SUBSET Tasks
      BY <2>1, <2>5, Zenon DEF LaunchOnSlave, Runnable, TypeOK
    <3> HIDE DEF run
    <3>2. /\ task' \in [Tasks -> States \cup {"none"}] /\ slaves' \subseteq slaves
          /\ delTasks' = {} /\ delSlaves' = {}
      BY <2>1, <2>2, <3>1, <1>PostprocessTypes, Zenon DEF LaunchAndRun, TypeOK
    <3>3. TaskTypes'
      BY <2>1, <3>1, <3>2, <1>RecordTypes, Zenon DEF TaskTypes, LaunchAndRun, TypeOK
    <3>4. SlaveTypes'
      BY <2>1, <2>2, <3>1, <3>2, SMTT(30) DEF LaunchAndRun, SlaveTypes, Typing, TypeOK
    <3>5. inbox' \in [Jobs -> Seq(Message)]
      BY <2>1, <3>1, ToExecutorFacts, Zenon DEF LaunchAndRun, TypeOK
    <3>6. /\ runnerTasks' \in [Jobs -> SUBSET Tasks]
          /\ executor' \in [Jobs -> {"none", "starting", "up"}]
      BY <2>1, <3>1, <1>RunnerTypes, Zenon DEF LaunchAndRun, TypeOK
    <3>7. ClusterTypes' /\ ExecTypes'
      BY <2>1, <3>1, <3>5, <3>6, Zenon DEF LaunchAndRun, ClusterTypes, ExecTypes, TypeOK
    <3> QED BY <3>3, <3>4, <3>7, <1>TypingParts, Zenon
  <2> QED BY <2>3, <2>4, <2>5, Zenon DEF LaunchTasks
(* Refusing an offer keeps the types and the bound on refusals: the slave  *)
(* that exceeds it is removed in the same message.                         *)
<1>DeclineTypes.
      ASSUME Typing, NEW o \in outstanding, DeclineOffer(o)
      PROVE  Typing'
  <2> USE <1>DeclineTypes
  <2> USE BoundsAssumption
  <2>1. /\ outstanding' \subseteq outstanding /\ TypeOK /\ UNCHANGED <<taskJob, taskSlave, told, fresh>>
        /\ UNCHANGED <<free, executorChannel, jobIds, monitored, revives, restarts>>
        /\ task \in [Tasks -> States \cup {"none"}] /\ slaves \in SUBSET Jobs
    BY Zenon DEF DeclineOffer, Answer, Typing, TypeOK
  <2>2. CASE UNCHANGED <<refused, mapped, execVars, clusterVars>>
            /\ offerable' \in [Jobs -> BOOLEAN]
            /\ Postprocess(task, slaves, {}, {})
    <3>1. /\ task' \in [Tasks -> States \cup {"none"}] /\ slaves' \subseteq slaves
          /\ delTasks' = {} /\ delSlaves' = {}
      BY <2>1, <2>2, <1>PostprocessTypes, Zenon
    <3>2. TaskTypes' /\ SlaveTypes'
      BY <2>1, <2>2, <3>1, Zenon DEF TaskTypes, SlaveTypes, Typing, TypeOK
    <3>3. ClusterTypes' /\ ExecTypes'
      BY <2>1, <2>2, <3>1, Zenon DEF ClusterTypes, ExecTypes, Typing, TypeOK
    <3> QED BY <3>2, <3>3, <1>TypingParts, Zenon
  <2>3. CASE o.place \in slaves /\ RefuseIdle(o.place)
    <3> DEFINE j == o.place
    <3>1. j \in Jobs /\ j \in slaves /\ refused[j] <= MaxRejected /\ RefuseIdle(j)
      BY <2>1, <2>3, Zenon DEF Typing
    <3> HIDE DEF j
    <3>2. CASE refused[j] < MaxRejected
      <4>1. /\ refused' = [refused EXCEPT ![j] = @ + 1] /\ offerable' = [offerable EXCEPT ![j] = TRUE]
            /\ Postprocess(task, slaves, {}, {}) /\ UNCHANGED <<mapped, execVars, clusterVars>>
        BY <3>1, <3>2, Zenon DEF RefuseIdle
      <4>2. /\ task' \in [Tasks -> States \cup {"none"}] /\ slaves' \subseteq slaves
            /\ delTasks' = {} /\ delSlaves' = {}
        BY <2>1, <4>1, <1>PostprocessTypes, Zenon
      <4>3. TaskTypes' /\ SlaveTypes'
        BY <2>1, <4>1, <4>2, <3>1, <3>2, SMTT(30) DEF TaskTypes, SlaveTypes, Typing, TypeOK
      <4>4. ClusterTypes' /\ ExecTypes'
        BY <2>1, <4>1, <4>2, Zenon DEF ClusterTypes, ExecTypes, TypeOK
      <4> QED BY <4>3, <4>4, <1>TypingParts, Zenon
    <3>3. CASE ~(refused[j] < MaxRejected)
      <4>1. /\ refused' = [refused EXCEPT ![j] = @ + 1] /\ offerable' = [offerable EXCEPT ![j] = FALSE]
            /\ mapped' = mapped \ {j} /\ Postprocess(task, slaves, {}, {j}) /\ JobGone(j)
        BY <3>1, <3>3, Zenon DEF RefuseIdle
      <4>2. /\ task' \in [Tasks -> States \cup {"none"}] /\ slaves' \subseteq slaves
            /\ delTasks' = {} /\ delSlaves' = {}
        BY <2>1, <4>1, <1>PostprocessTypes, Zenon
      <4>3. j \notin slaves'
        BY <4>1, Zenon DEF Postprocess
      <4>4. TaskTypes' /\ SlaveTypes'
        BY <2>1, <4>1, <4>2, <4>3, <3>1, <3>3, SMTT(30) DEF TaskTypes, SlaveTypes, Typing, TypeOK
      <4>5. ClusterTypes' /\ ExecTypes'
        BY <2>1, <3>1, <4>1, <4>2, <1>JobGoneTypes, Zenon DEF ClusterTypes, TypeOK
      <4> QED BY <4>4, <4>5, <1>TypingParts, Zenon
    <3> QED BY <3>2, <3>3, Zenon
  <2>4. CASE o.place \in slaves /\ RefuseWithTasks(o.place)
    BY <2>1, <2>2, <2>4, Zenon DEF RefuseWithTasks, Typing, TypeOK
  <2>5. CASE o.place \notin slaves \/ o.known = "unknown"
    BY <2>1, <2>2, <2>3, <2>4, <2>5, Zenon DEF DeclineOffer, Typing, TypeOK
  <2> QED BY <2>3, <2>4, <2>5, Zenon DEF DeclineOffer
(* __kill_task keeps the types.                                            *)
<1>KillTypes.
      ASSUME Typing, NEW t \in Tasks, KillTask(t)
      PROVE  Typing'
  <2> USE <1>KillTypes
  <2>1. /\ TypeOK /\ task \in [Tasks -> States \cup {"none"}] /\ slaves \in SUBSET Jobs
        /\ SlaveOf(t) \in Jobs \cup {NoJob} /\ taskJob[t] \in Jobs \cup {NoJob}
    BY Zenon DEF Typing, TypeOK, SlaveOf
  <2>2. /\ KillOnSlave(t, SlaveOf(t)) \/ KillWithoutSlave(t, SlaveOf(t))
        /\ Tell({t}, "KILLED") /\ Postprocess(task, slaves, {t}, {})
        /\ UNCHANGED <<taskJob, taskSlave, offerable, refused, executorChannel, mapped, jobVars,
                       outstanding, fresh, bounds>>
    BY Zenon DEF KillTask, KillAndDelete
  <2>3. /\ task' \in [Tasks -> States \cup {"none"}] /\ slaves' \subseteq slaves
        /\ delTasks' = {} /\ delSlaves' = {}
    BY <2>1, <2>2, <1>PostprocessTypes, Zenon
  <2>4. told' \in [Tasks -> SUBSET States]
    BY <2>1, <2>2, <1>TellTypes, Zenon DEF States, Terminal
  <2>5. TaskTypes'
    BY <2>1, <2>2, <2>3, <2>4, ZenonT(30) DEF TaskTypes, TypeOK
  <2>6. free' \in [Jobs -> Int]
    BY <2>1, <2>2, SMTT(30) DEF KillOnSlave, KillWithoutSlave, TypeOK
  <2>7. SlaveTypes'
    BY <2>1, <2>2, <2>3, <2>6, Zenon DEF SlaveTypes, Typing, TypeOK
  <2>8. CASE KillOnSlave(t, SlaveOf(t))
    <3>1. inbox' \in [Jobs -> Seq(Message)]
      BY <2>1, <2>8, ToExecutorFacts, Zenon DEF KillOnSlave, TypeOK
    <3>2. ClusterTypes' /\ ExecTypes'
      BY <2>1, <2>2, <2>8, <3>1, Zenon DEF KillOnSlave, ClusterTypes, ExecTypes, TypeOK
    <3> QED BY <2>5, <2>7, <3>2, <1>TypingParts, Zenon
  <2>9. CASE KillWithoutSlave(t, SlaveOf(t))
    <3>1. CASE taskJob[t] = NoJob
      <4>1. ClusterTypes' /\ ExecTypes'
        BY <2>1, <2>2, <2>9, <3>1, Zenon DEF KillWithoutSlave, ClusterTypes, ExecTypes, TypeOK
      <4> QED BY <2>5, <2>7, <4>1, <1>TypingParts, Zenon
    <3>2. CASE taskJob[t] # NoJob
      <4>1. JobGone(taskJob[t]) /\ taskJob[t] \in Jobs
        BY <2>1, <2>9, <3>2, Zenon DEF KillWithoutSlave
      <4>2. ClusterTypes' /\ ExecTypes'
        BY <2>1, <2>2, <4>1, <1>JobGoneTypes, Zenon DEF ClusterTypes, TypeOK
      <4> QED BY <2>5, <2>7, <4>2, <1>TypingParts, Zenon
    <3> QED BY <3>1, <3>2, Zenon
  <2> QED BY <2>2, <2>8, <2>9, Zenon
(* The record of a new slave is well typed and has refused nothing.        *)
<1>NewSlaveTypes.
      ASSUME TypeOK, NEW j \in Jobs, NEW may \in BOOLEAN, NEW amount \in Int,
             NewSlave(j, may, amount)
      PROVE  /\ offerable' \in [Jobs -> BOOLEAN]
             /\ free' \in [Jobs -> Int]
             /\ refused' \in [Jobs -> 0..(MaxRejected + 1)]
             /\ \A i \in Jobs \ {j} : refused'[i] = refused[i]
             /\ refused'[j] = 0
             /\ executorChannel' \in [Jobs -> BOOLEAN]
             /\ outstanding' \subseteq Offers
  <2> USE <1>NewSlaveTypes
  <2>1. outstanding' \subseteq Offers
    BY <1>OfferTypes, Zenon DEF NewSlave
  <2>2. offerable' = [offerable EXCEPT ![j] = may] /\ offerable \in [Jobs -> BOOLEAN]
    BY Zenon DEF NewSlave, TypeOK
  <2>3. offerable' \in [Jobs -> BOOLEAN]
    BY <2>2, Zenon
  <2>4. executorChannel' \in [Jobs -> BOOLEAN] /\ free' \in [Jobs -> Int]
    BY Zenon DEF NewSlave, TypeOK
  <2>5. /\ refused' \in [Jobs -> 0..(MaxRejected + 1)] /\ refused'[j] = 0
        /\ \A i \in Jobs \ {j} : refused'[i] = refused[i]
    BY BoundsAssumption, SMTT(30) DEF NewSlave, TypeOK
  <2> QED BY <2>1, <2>3, <2>4, <2>5, Zenon
(* register_executor_runner without tasks keeps the types.                 *)
<1>RegisterWaitingTypes.
      ASSUME Typing, NEW j \in Jobs, RegisterForWaiting(j), disconnected' \subseteq disconnected,
             UNCHANGED <<taskSlave, told, fresh, execVars, bounds>>
      PROVE  Typing'
  <2> USE <1>RegisterWaitingTypes
  <2> USE BoundsAssumption
  <2> DEFINE waiting == {t \in Staged(j) : taskSlave[t] = Placeholder}
             amount == Capacity - Cardinality(Staged(j))
  <2>1. /\ TypeOK /\ task \in [Tasks -> States \cup {"none"}] /\ slaves \cup {j} \in SUBSET Jobs
        /\ waiting \in SUBSET Tasks /\ Staged(j) \in SUBSET Tasks
    BY Zenon DEF Typing, TypeOK, Staged
  <2>2. /\ NewSlave(j, TRUE, amount) /\ mapped' \subseteq mapped \cup {j} /\ ToRunner(j, waiting)
        /\ Postprocess(task, slaves \cup {j}, {}, {}) /\ UNCHANGED taskJob
    BY Zenon DEF RegisterForWaiting
  <2>3. PICK N \in Submittable : ScaleUp(N, {j})
    BY Zenon DEF RegisterForWaiting
  <2>4. amount \in Int
    BY <2>1, TasksAssumption, SMTT(30)
  <2> HIDE DEF waiting, amount
  <2>5. /\ task' \in [Tasks -> States \cup {"none"}] /\ slaves' \subseteq slaves \cup {j}
        /\ delTasks' = {} /\ delSlaves' = {}
    BY <2>1, <2>2, <1>PostprocessTypes, Zenon
  <2>6. TaskTypes'
    BY <2>1, <2>2, <2>5, Zenon DEF TaskTypes, TypeOK
  <2>7. SlaveTypes'
    <3>1. /\ offerable' \in [Jobs -> BOOLEAN] /\ free' \in [Jobs -> Int]
          /\ refused' \in [Jobs -> 0..(MaxRejected + 1)]
          /\ \A i \in Jobs \ {j} : refused'[i] = refused[i]
          /\ refused'[j] = 0
          /\ executorChannel' \in [Jobs -> BOOLEAN]
          /\ outstanding' \subseteq Offers
      BY <2>1, <2>2, <2>4, <1>NewSlaveTypes, Zenon
    <3> QED BY <2>1, <2>2, <2>5, <3>1, SMTT(30) DEF SlaveTypes, Typing, TypeOK
  <2>8. ExecTypes'
    BY <2>1, Zenon DEF ExecTypes, TypeOK
  <2>9. ClusterTypes'
    <3>1. /\ job' \in [Jobs -> {"none", "pending", "running", "gone"}]
          /\ jobIds' \subseteq Jobs /\ monitored' \subseteq Jobs
      BY <2>1, <2>3, <1>ScaleUpTypes, Zenon
    <3>2. /\ runnerTasks' \in [Jobs -> SUBSET Tasks]
          /\ executor' \in [Jobs -> {"none", "starting", "up"}]
      BY <2>1, <2>2, <1>RunnerTypes, Zenon
    <3> QED BY <2>1, <3>1, <3>2, Zenon DEF ClusterTypes, TypeOK
  <2> QED BY <2>6, <2>7, <2>8, <2>9, <1>TypingParts, Zenon
(* register_executor_runner with tasks keeps the types.                    *)
<1>RegisterWithTasksTypes.
      ASSUME Typing, NEW j \in Jobs, RegisterWithTasks(j), disconnected' \subseteq disconnected,
             UNCHANGED <<taskSlave, told, fresh, execVars, bounds>>
      PROVE  Typing'
  <2> USE <1>RegisterWithTasksTypes
  <2> USE BoundsAssumption
  <2> DEFINE amount == Capacity - Cardinality(runnerTasks[j])
  <2>1. /\ TypeOK /\ task \in [Tasks -> States \cup {"none"}] /\ slaves \cup {j} \in SUBSET Jobs
        /\ runnerTasks[j] \in SUBSET Tasks
    BY Zenon DEF Typing, TypeOK
  <2>2. /\ NewSlave(j, FALSE, amount) /\ UNCHANGED <<mapped, runnerTasks, executor>>
        /\ Postprocess(SetTasks(runnerTasks[j], "RUNNING"), slaves \cup {j}, {}, {})
        /\ taskJob' = [t \in Tasks |-> IF t \in runnerTasks[j] THEN j ELSE taskJob[t]]
        /\ ScaleUp({}, {j})
    BY Zenon DEF RegisterWithTasks
  <2>4. amount \in Int
    BY <2>1, TasksAssumption, SMTT(30)
  <2> HIDE DEF amount
  <2>5. /\ task' \in [Tasks -> States \cup {"none"}] /\ slaves' \subseteq slaves \cup {j}
        /\ delTasks' = {} /\ delSlaves' = {}
    <3>1. SetTasks(runnerTasks[j], "RUNNING") \in [Tasks -> States \cup {"none"}]
      BY <2>1, <1>SetTasksTypes, Zenon DEF States, Live
    <3> QED BY <2>1, <2>2, <3>1, <1>PostprocessTypes, Zenon
  <2>6. TaskTypes'
    BY <2>1, <2>2, <2>5, Zenon DEF TaskTypes, TypeOK
  <2>7. SlaveTypes'
    <3>1. /\ offerable' \in [Jobs -> BOOLEAN] /\ free' \in [Jobs -> Int]
          /\ refused' \in [Jobs -> 0..(MaxRejected + 1)]
          /\ \A i \in Jobs \ {j} : refused'[i] = refused[i]
          /\ refused'[j] = 0
          /\ executorChannel' \in [Jobs -> BOOLEAN]
          /\ outstanding' \subseteq Offers
      BY <2>1, <2>2, <2>4, <1>NewSlaveTypes, Zenon
    <3> QED BY <2>1, <2>2, <2>5, <3>1, SMTT(30) DEF SlaveTypes, Typing, TypeOK
  <2>8. ExecTypes'
    BY <2>1, Zenon DEF ExecTypes, TypeOK
  <2>9. ClusterTypes'
    <3>1. /\ job' \in [Jobs -> {"none", "pending", "running", "gone"}]
          /\ jobIds' \subseteq Jobs /\ monitored' \subseteq Jobs
      BY <2>1, <2>2, Zenon DEF ScaleUp, TypeOK
    <3> QED BY <2>1, <2>2, <3>1, Zenon DEF ClusterTypes, TypeOK
  <2> QED BY <2>6, <2>7, <2>8, <2>9, <1>TypingParts, Zenon
(* register_executor keeps the types.                                      *)
<1>RegisterExecutorTypes.
      ASSUME Typing, NEW j \in Jobs, RegisterExecutor(j)
      PROVE  Typing'
  <2> USE <1>RegisterExecutorTypes
  <2>1. /\ TypeOK /\ task \in [Tasks -> States \cup {"none"}] /\ slaves \in SUBSET Jobs
        /\ Staged(j) \in SUBSET Tasks
    BY Zenon DEF Typing, TypeOK, Staged
  <2>2. PICK N \in Submittable : ScaleUp(N, {})
    BY Zenon DEF RegisterExecutor
  <2>3. /\ task' \in [Tasks -> States \cup {"none"}] /\ slaves' \subseteq slaves
        /\ delTasks' = {} /\ delSlaves' = {}
    BY <2>1, <1>PostprocessTypes, Zenon DEF RegisterExecutor
  <2>4. TaskTypes' /\ SlaveTypes'
    BY <2>1, <2>3, Zenon DEF RegisterExecutor, TaskTypes, SlaveTypes, Typing, TypeOK
  <2>5. inbox' \in [Jobs -> Seq(Message)]
    BY <2>1, ToExecutorFacts, Zenon DEF RegisterExecutor
  <2>6. /\ job' \in [Jobs -> {"none", "pending", "running", "gone"}]
        /\ jobIds' \subseteq Jobs /\ monitored' \subseteq Jobs
    BY <2>1, <2>2, <1>ScaleUpTypes, Zenon
  <2>7. ClusterTypes' /\ ExecTypes'
    BY <2>1, <2>5, <2>6, Zenon DEF RegisterExecutor, ClusterTypes, ExecTypes, TypeOK
  <2> QED BY <2>4, <2>7, <1>TypingParts, Zenon
(* The last state among some updates is a state.                           *)
<1>LastStateTypes.
      ASSUME TypeOK, NEW us \in SUBSET unacked, NEW t
      PROVE  LastState(us, t) \in States
  <2> USE <1>LastStateTypes
  <2>1. us \subseteq Update
    BY Zenon DEF TypeOK
  <2>2. CASE \E u \in us : u.task = t /\ u.state # "RUNNING"
    <3> DEFINE u == CHOOSE u \in us : u.task = t /\ u.state # "RUNNING"
    <3>1. u \in us
      BY <2>2, Zenon
    <3>2. LastState(us, t) = u.state
      BY <2>2, Zenon DEF LastState
    <3> HIDE DEF u
    <3> QED BY <2>1, <3>1, <3>2, Zenon DEF Update
  <2>3. CASE ~\E u \in us : u.task = t /\ u.state # "RUNNING"
    BY <2>3, Zenon DEF LastState, States, Live
  <2> QED BY <2>2, <2>3, Zenon
(* reregister_executor keeps the types.                                    *)
<1>ReregisterExecutorTypes.
      ASSUME Typing, NEW j \in Jobs, ReregisterExecutor(j)
      PROVE  Typing'
  <2> USE <1>ReregisterExecutorTypes
  <2>1. /\ TypeOK /\ task \in [Tasks -> States \cup {"none"}] /\ slaves \in SUBSET Jobs
        /\ UNCHANGED <<taskSlave, refused, mapped, jobVars, outstanding, fresh, execVars,
                       job, runnerTasks, executor, bounds>>
        /\ disconnected' \subseteq disconnected
    BY Zenon DEF Typing, TypeOK, ReregisterExecutor
  <2>2. ClusterTypes' /\ ExecTypes'
    BY <2>1, Zenon DEF ClusterTypes, ExecTypes, TypeOK
  <2>3. CASE RestoreTasks(j)
    <3> DEFINE mine == {u \in unacked : u.from = j}
               known == execTasks[j] \cup {t \in Tasks : task[t] # "none"}
               ended == {t \in known : \E u \in mine : u.task = t /\ u.state \in {"FINISHED", "FAILED"}}
               seen == execTasks[j] \cup {t \in known : \E u \in mine : u.task = t}
               new == [t \in Tasks |-> IF t \in seen THEN LastState(mine, t) ELSE task[t]]
    <3>1. known \subseteq Tasks /\ ended \in SUBSET Tasks /\ execTasks[j] \in SUBSET Tasks
          /\ mine \in SUBSET unacked /\ mine \subseteq Update
      BY <2>1, Zenon DEF TypeOK
    <3>2. /\ executorChannel' = [executorChannel EXCEPT ![j] = TRUE]
          /\ offerable' = [offerable EXCEPT ![j] = TRUE]
          /\ free' = [free EXCEPT ![j] = @ - Cardinality(execTasks[j]) + Cardinality(ended)]
          /\ taskJob' = [t \in Tasks |-> IF t \in execTasks[j] THEN j ELSE taskJob[t]]
          /\ told' = [t \in Tasks |-> told[t] \cup {u.state : u \in {x \in mine : x.task = t}}]
          /\ Postprocess(new, slaves, ended, {})
      BY <2>3, Zenon DEF RestoreTasks
    <3>3. \A t : LastState(mine, t) \in States
      BY <2>1, <3>1, <1>LastStateTypes, Zenon
    <3> HIDE DEF mine, known, ended, seen
    <3>4. new \in [Tasks -> States \cup {"none"}]
      BY <2>1, <3>3, Zenon
    <3>5. Cardinality(execTasks[j]) \in Nat /\ Cardinality(ended) \in Nat
      BY <3>1, TasksAssumption, Zenon
    <3>6. \A t \in Tasks : {u.state : u \in {x \in mine : x.task = t}} \subseteq States
      BY <3>1, Zenon DEF Update
    <3> HIDE DEF new
    <3>7. /\ task' \in [Tasks -> States \cup {"none"}] /\ slaves' \subseteq slaves
          /\ delTasks' = {} /\ delSlaves' = {}
      BY <2>1, <3>2, <3>4, <1>PostprocessTypes, Zenon
    <3>8. told' \in [Tasks -> SUBSET States]
      BY <2>1, <3>2, <3>6, Zenon DEF TypeOK
    <3>9. TaskTypes'
      BY <2>1, <3>2, <3>7, <3>8, ZenonT(30) DEF TaskTypes, TypeOK
    <3>10. SlaveTypes'
      BY <2>1, <3>2, <3>5, <3>7, SMTT(30) DEF SlaveTypes, Typing, TypeOK
    <3> QED BY <2>2, <3>9, <3>10, <1>TypingParts, Zenon
  <2>4. CASE /\ Postprocess(task, slaves, {}, {})
             /\ UNCHANGED <<executorChannel, offerable, free, taskJob, told>>
    <3>1. /\ task' \in [Tasks -> States \cup {"none"}] /\ slaves' \subseteq slaves
          /\ delTasks' = {} /\ delSlaves' = {}
      BY <2>1, <2>4, <1>PostprocessTypes, Zenon
    <3>2. TaskTypes' /\ SlaveTypes'
      BY <2>1, <2>4, <3>1, Zenon DEF TaskTypes, SlaveTypes, Typing, TypeOK
    <3> QED BY <2>2, <3>2, <1>TypingParts, Zenon
  <2> QED BY <2>3, <2>4, Zenon DEF ReregisterExecutor
(* handle_status_update keeps the types.                                   *)
<1>StatusTypes.
      ASSUME Typing, NEW j \in Jobs, StatusUpdate(j)
      PROVE  Typing'
  <2> USE <1>StatusTypes
  <2> DEFINE u == Head(updates[j])
             T == {u.task} \cap {t \in Tasks : task[t] # "none"}
             gone == IF CreditedBy(u) THEN {u.task} ELSE {}
  <2>1. /\ TypeOK /\ task \in [Tasks -> States \cup {"none"}] /\ slaves \in SUBSET Jobs
        /\ updates[j] # <<>>
    BY Zenon DEF Typing, TypeOK, StatusUpdate, HandleStatusUpdate
  <2>2. /\ u \in Update /\ Tail(updates[j]) \in Seq(Update)
        /\ u.task \in Tasks /\ u.state \in States /\ u.from \in Jobs
    BY <2>1, <1>StatusUpdateTypes, Zenon
  <2>3. /\ updates' = [updates EXCEPT ![j] = Tail(@)]
        /\ Tell({u.task}, u.state)
        /\ free' = IF CreditedBy(u) THEN [free EXCEPT ![j] = @ + 1] ELSE free
        /\ Postprocess(SetTasks(T, u.state), slaves, gone, {})
        /\ UNCHANGED <<taskJob, taskSlave, offerable, refused, executorChannel, mapped, jobVars,
                       outstanding, fresh, inbox, executing, execTasks, unacked, clusterVars, bounds>>
    BY Zenon DEF StatusUpdate, HandleStatusUpdate
  <2> HIDE DEF u, T, gone
  <2>4. told' \in [Tasks -> SUBSET States]
    BY <2>1, <2>2, <2>3, <1>TellTypes, Zenon
  <2>5. /\ task' \in [Tasks -> States \cup {"none"}] /\ slaves' \subseteq slaves
        /\ delTasks' = {} /\ delSlaves' = {}
    BY <2>1, <2>2, <2>3, <1>SetTasksTypes, <1>PostprocessTypes, Zenon
  <2>6. TaskTypes' /\ SlaveTypes'
    BY <2>1, <2>3, <2>4, <2>5, SMTT(30) DEF TaskTypes, SlaveTypes, Typing, TypeOK
  <2>7. ClusterTypes' /\ ExecTypes'
    BY <2>1, <2>2, <2>3, Zenon DEF ClusterTypes, ExecTypes, TypeOK
  <2> QED BY <2>6, <2>7, <1>TypingParts, Zenon
(* The executor keeps the types.                                           *)
<1>ExecTypesStep.
      ASSUME Typing, NEW j \in Jobs,
             \/ ExecMessage(j)
             \/ \E t \in Tasks, state \in FinalStates : ExecEnd(j, t, state)
      PROVE  Typing'
  <2> USE <1>ExecTypesStep
  <2> USE BoundsAssumption
  <2>1. /\ TypeOK
        /\ UNCHANGED <<taskVars, slaveVars, jobVars, delVars, frameworkVars, clusterVars, bounds>>
    BY Zenon DEF Typing, ExecMessage, ExecEnd
  <2>2. TaskTypes' /\ SlaveTypes' /\ ClusterTypes'
    BY <2>1, Zenon DEF TaskTypes, SlaveTypes, ClusterTypes, Typing, TypeOK
  <2>3. inbox' \in [Jobs -> Seq(Message)]
    <3>1. CASE inbox' = [inbox EXCEPT ![j] = Tail(@)] /\ inbox[j] # <<>>
      <4>1. inbox[j] \in Seq(Message) /\ inbox \in [Jobs -> Seq(Message)]
        BY <2>1, Zenon DEF TypeOK
      <4>2. Tail(inbox[j]) \in Seq(Message)
        BY <3>1, <4>1, TailFacts, Zenon
      <4> QED BY <3>1, <4>1, <4>2, Zenon
    <3> QED BY <2>1, <3>1, Zenon DEF ExecMessage, ExecEnd, TypeOK
  <2>4. executing' \in [Jobs -> SUBSET Tasks] /\ execTasks' \in [Jobs -> SUBSET Tasks]
    <3>1. executing \in [Jobs -> SUBSET Tasks] /\ execTasks \in [Jobs -> SUBSET Tasks]
      BY <2>1, Zenon DEF TypeOK
    <3>2. ASSUME NEW t \in Tasks, ExecRun(j, t)
          PROVE  executing' \in [Jobs -> SUBSET Tasks] /\ execTasks' \in [Jobs -> SUBSET Tasks]
      BY <3>1, <3>2, Zenon DEF ExecRun
    <3>3. ASSUME NEW t \in Tasks, ExecKill(j, t)
          PROVE  executing' \in [Jobs -> SUBSET Tasks] /\ execTasks' \in [Jobs -> SUBSET Tasks]
      BY <3>1, <3>3, Zenon DEF ExecKill
    <3>4. ASSUME NEW t \in Tasks, NEW state \in FinalStates, ExecEnd(j, t, state)
          PROVE  executing' \in [Jobs -> SUBSET Tasks] /\ execTasks' \in [Jobs -> SUBSET Tasks]
      BY <3>1, <3>4, Zenon DEF ExecEnd
    <3> QED BY <3>2, <3>3, <3>4, Zenon DEF ExecMessage
  <2>5. unacked' \subseteq Update /\ updates' \in [Jobs -> Seq(Update)]
    <3>1. \/ \E t \in Tasks, state \in States : Report(j, t, state)
          \/ UNCHANGED <<updates, unacked>>
      BY Zenon DEF ExecMessage, ExecRun, ExecKill, ExecEnd, States, Live, Terminal
    <3> QED BY <2>1, <3>1, <1>ReportTypes, Zenon DEF TypeOK
  <2>6. ExecTypes'
    BY <2>3, <2>4, <2>5, Zenon DEF ExecTypes
  <2> QED BY <2>2, <2>6, <1>TypingParts, Zenon
<1> USE BoundsAssumption
<1> SUFFICES ASSUME Typing, [Next]_vars PROVE Typing'
  BY Zenon
<1>0. TypeOK
  BY Zenon DEF Typing
<1>1. CASE GenerateOffers
  <2>1. outstanding' \subseteq Offers
    <3>1. \A j \in Jobs : [place |-> j, amount |-> free[j], known |-> "current"] \in Offers
      BY <1>0, Zenon DEF TypeOK, Offers
    <3>2. [place |-> Placeholder, amount |-> Capacity, known |-> "current"] \in Offers
      BY SMTT(30) DEF Offers
    <3>3. outstanding \subseteq Offers /\ slaves \subseteq Jobs
      BY <1>0, Zenon DEF TypeOK
    <3>4. PICK S \in SUBSET {j \in slaves : offerable[j]} :
                BuildOffers(S, {j \in S : free[j] # 0}, {j \in S : free[j] # 0})
      BY <1>1, Zenon DEF GenerateOffers
    <3> DEFINE built == {j \in S : free[j] # 0}
    <3>5. \/ outstanding' = Supersede(built) \cup
                {[place |-> j, amount |-> free[j], known |-> "current"] : j \in built}
          \/ outstanding' = outstanding \cup
                {[place |-> Placeholder, amount |-> Capacity, known |-> "current"]}
      BY <3>4, Zenon DEF BuildOffers
    <3>6. Supersede(built) \subseteq Offers /\ built \subseteq Jobs
      BY <1>0, <3>3, <1>OfferTypes, Zenon
    <3> HIDE DEF built
    <3> QED BY <3>1, <3>2, <3>3, <3>5, <3>6, SMTT(30)
  <2>2. offerable' \in [Jobs -> BOOLEAN]
    BY <1>0, <1>1, Zenon DEF GenerateOffers, BuildOffers, TypeOK
  <2>3. UNCHANGED <<taskVars, slaves, free, refused, executorChannel, mapped, jobVars,
                   delVars, told, fresh, execVars, clusterVars, bounds>>
    BY <1>1, Zenon DEF GenerateOffers, BuildOffers
  <2>4. TaskTypes' /\ SlaveTypes'
    BY <1>0, <2>1, <2>2, <2>3, Zenon DEF TaskTypes, SlaveTypes, Typing, TypeOK
  <2>5. ClusterTypes' /\ ExecTypes'
    BY <1>0, <2>3, Zenon DEF ClusterTypes, ExecTypes, TypeOK
  <2> QED BY <2>4, <2>5, <1>TypingParts, Zenon
<1>2. CASE OtherMessage
  BY <1>2, Zenon DEF OtherMessage, Postprocess, Typing, TypeOK
<1>3. CASE Restart
  <2>1. outstanding' \subseteq Offers
    BY <1>0, <1>3, <1>OfferTypes, Zenon DEF Restart
  <2>2. TaskTypes' /\ SlaveTypes'
    BY <1>0, <1>3, <2>1, SMTT(30) DEF Restart, TaskTypes, SlaveTypes, Typing, TypeOK
  <2>3. ClusterTypes' /\ ExecTypes'
    BY <1>0, <1>3, SMTT(30) DEF Restart, ClusterTypes, ExecTypes, TypeOK
  <2> QED BY <2>2, <2>3, <1>TypingParts, Zenon
<1>4. CASE ReviveOffers
  BY <1>4, SMTT(30) DEF ReviveOffers, Postprocess, Typing, TypeOK
<1>5. ASSUME NEW j \in Jobs, JobEnds(j) PROVE Typing'
  BY <1>5, SMTT(30) DEF JobEnds, JobGone, Typing, TypeOK
<1>6. ASSUME NEW j \in Jobs, DeleteJob(j) PROVE Typing'
  <2>1. task' \in [Tasks -> States \cup {"none"}] /\ told' \in [Tasks -> SUBSET States]
    BY <1>0, <1>6, <1>SetTasksTypes, <1>TellTypes, Zenon
    DEF DeleteJob, DeleteSlavesAndTasks, States, Terminal
  <2>2. TaskTypes' /\ SlaveTypes'
    BY <1>0, <1>6, <2>1, Zenon
    DEF DeleteJob, DeleteSlavesAndTasks, SlavesOf, TasksOf, TaskTypes, SlaveTypes, Typing, TypeOK
  <2>3. ClusterTypes' /\ ExecTypes'
    BY <1>0, <1>6, Zenon DEF DeleteJob, DeleteSlavesAndTasks, ClusterTypes, ExecTypes, TypeOK
  <2> QED BY <2>2, <2>3, <1>TypingParts, Zenon
<1>7. ASSUME NEW j \in Jobs, ValidateChannel(j) PROVE Typing'
  BY <1>7, SMTT(30) DEF ValidateChannel, Typing, TypeOK
<1>8. ASSUME NEW u \in unacked, StatusUpdateAcknowledgement(u) PROVE Typing'
  BY <1>8, Zenon DEF StatusUpdateAcknowledgement, Postprocess, Typing, TypeOK
<1>9. ASSUME NEW j \in Jobs, RegisterExecutorRunner(j) \/ ReregisterRunner(j) PROVE Typing'
  <2>1. /\ disconnected' \subseteq disconnected
        /\ UNCHANGED <<taskSlave, told, fresh, execVars, bounds>>
        /\ RegisterForWaiting(j) \/ RegisterWithTasks(j)
    BY <1>9, Zenon DEF RegisterExecutorRunner, ReregisterRunner
  <2> QED BY <2>1, <1>RegisterWaitingTypes, <1>RegisterWithTasksTypes, Zenon
<1>10. CASE UNCHANGED vars
  BY <1>10, Zenon DEF vars, Typing, TypeOK
<1>11. CASE Framework
  BY <1>4, <1>8, <1>11, <1>DeclineTypes, <1>LaunchTypes, <1>KillTypes, Zenon DEF Framework
<1>12. ASSUME NEW j \in Jobs, Cluster(j) PROVE Typing'
  BY <1>5, <1>9, <1>12, <1>RegisterExecutorTypes, <1>ReregisterExecutorTypes, <1>StatusTypes, <1>ExecTypesStep, Zenon
  DEF Cluster
<1>13. ASSUME NEW j \in Jobs, Monitors(j) PROVE Typing'
  BY <1>6, <1>7, <1>13, Zenon DEF Monitors
<1> QED BY <1>1, <1>2, <1>3, <1>10, <1>11, <1>12, <1>13, Zenon DEF Next
----------------------------------------------------------------------------
(* An executor lives within its job, is up when the service has its        *)
(* channel, and has neither messages nor tasks before it is up.            *)
Executors ==
    \A j \in Jobs :
        /\ executorChannel[j] /\ job[j] = "running" => executor[j] = "up"
        /\ executor[j] # "none" => job[j] = "running"
        /\ executor[j] # "up" => inbox[j] = <<>> /\ execTasks[j] = {} /\ executing[j] = {}

(* Only executors that are up have updates to be acknowledged.             *)
Senders == \A u \in unacked : executor[u.from] = "up"

(* Those who were told that the service is gone are still there.           *)
Unheard ==
    \A j \in Jobs :
        /\ <<j, "runner">> \in disconnected => job[j] = "running"
        /\ <<j, "executor">> \in disconnected => executor[j] = "up"

(* How jobs, runners, executors and channels go together.                  *)
Cycle == Executors /\ Senders /\ Unheard

cycleVars == <<executorChannel, job, executor, inbox, execTasks, executing, unacked, disconnected>>

(* Every step keeps the cycle of jobs and executors.                       *)
LEMMA CycleStep == Typing /\ Cycle /\ [Next]_vars => Cycle'
(* A sequence without elements is empty.                                   *)
<1>EmptyItems.
      ASSUME NEW S, NEW s \in Seq(S), Items(s) = {}
      PROVE  s = <<>>
  <2> USE <1>EmptyItems
  <2>1. DOMAIN s = {}
    BY Zenon DEF Items
  <2> QED BY <2>1, SMTT(30)
(* A job that leaves takes its executor along.                             *)
<1>CycleGone.
      ASSUME Typing, Cycle, NEW j \in Jobs, JobGone(j), UNCHANGED executorChannel
      PROVE  Cycle'
  <2> USE <1>CycleGone
  <2>1. /\ job' = [job EXCEPT ![j] = "gone"] /\ executor' = [executor EXCEPT ![j] = "none"]
        /\ inbox' = [inbox EXCEPT ![j] = <<>>] /\ executing' = [executing EXCEPT ![j] = {}]
        /\ execTasks' = [execTasks EXCEPT ![j] = {}]
        /\ unacked' = {u \in unacked : u.from # j}
        /\ disconnected' = {d \in disconnected : d[1] # j}
    BY Zenon DEF JobGone
  <2>2. Executors'
    BY <2>1, Zenon DEF Cycle, Executors, Typing, TypeOK
  <2>3. Senders'
    BY <2>1, Zenon DEF Cycle, Senders, Typing, TypeOK, Update
  <2>4. Unheard'
    BY <2>1, Zenon DEF Cycle, Unheard, Typing, TypeOK
  <2> QED BY <2>2, <2>3, <2>4, Zenon DEF Cycle
(* A runner that registers, for the first time or again, leaves its        *)
(* executor as it is or starts one.                                        *)
<1>CycleRegister.
      ASSUME Typing, Cycle, NEW j \in Jobs, job[j] \in {"pending", "running"},
             RegisterForWaiting(j) \/ RegisterWithTasks(j),
             UNCHANGED execVars, disconnected' = disconnected \ {<<j, "runner">>}
      PROVE  Cycle'
  <2> USE <1>CycleRegister
  <2>1. executorChannel' = [executorChannel EXCEPT ![j] = FALSE]
    BY Zenon DEF RegisterForWaiting, RegisterWithTasks, NewSlave
  <2>2. /\ job'[j] = "running"
        /\ \A i \in Jobs : i # j => job'[i] = job[i] \/ (job[i] = "none" /\ job'[i] = "pending")
    <3>1. CASE RegisterForWaiting(j)
      <4>1. PICK N \in Submittable : ScaleUp(N, {j})
        BY <3>1, Zenon DEF RegisterForWaiting
      <4> QED BY <4>1, Zenon DEF ScaleUp, Submittable, Typing, TypeOK
    <3>2. CASE RegisterWithTasks(j)
      BY <3>2, Zenon DEF RegisterWithTasks, ScaleUp, Typing, TypeOK
    <3> QED BY <3>1, <3>2, Zenon
  <2>3. /\ \A i \in Jobs : i # j => executor'[i] = executor[i]
        /\ executor'[j] = executor[j] \/ (executor[j] = "none" /\ executor'[j] = "starting")
    <3>1. \/ executor' = executor
          \/ \E T : executor' = [executor EXCEPT ![j] = IF @ = "none" /\ T # {} THEN "starting" ELSE @]
      BY Zenon DEF RegisterForWaiting, RegisterWithTasks, ToRunner
    <3> QED BY <3>1, Zenon DEF Typing, TypeOK
  <2>4. Executors'
    BY <2>1, <2>2, <2>3, SMTT(30) DEF Cycle, Executors, Typing, TypeOK
  <2>5. Senders'
    BY <2>3, Zenon DEF Cycle, Senders, Typing, TypeOK, Update
  <2>6. Unheard'
    BY <2>2, <2>3, Zenon DEF Cycle, Unheard
  <2> QED BY <2>4, <2>5, <2>6, Zenon DEF Cycle
(* A launch starts an executor only within a running job.                  *)
<1>CycleLaunch.
      ASSUME Typing, Cycle, NEW o \in outstanding, NEW T \in SUBSET fresh, LaunchTasks(o, T)
      PROVE  Cycle'
  <2> USE <1>CycleLaunch
  <2>1. CASE LaunchOnPlaceholder(o, T)
    <3>1. PICK N \in Submittable : ScaleUp(N, {})
      BY <2>1, Zenon DEF LaunchOnPlaceholder, LaunchAndSubmit
    <3>2. \A i \in Jobs : job'[i] = job[i] \/ (job[i] = "none" /\ job'[i] = "pending")
      BY <3>1, Zenon DEF ScaleUp, Submittable, Typing, TypeOK
    <3>3. UNCHANGED <<executorChannel, executor, inbox, execTasks, executing, unacked, disconnected>>
      BY <2>1, Zenon DEF LaunchOnPlaceholder, LaunchAndSubmit
    <3> QED BY <3>2, <3>3, ZenonT(30) DEF Cycle, Executors, Senders, Unheard, Typing, TypeOK, Update
  <2>2. CASE LaunchOnUnknown(o, T)
    BY <2>2, Zenon DEF LaunchOnUnknown, Cycle, Executors, Senders, Unheard
  <2>3. CASE LaunchOnSlave(o, T)
    <3> DEFINE j == o.place
    <3>1. j \in Jobs /\ LaunchAndRun(o, T, T, Runnable(j, T)) /\ TypeOK /\ T \in SUBSET Tasks
      BY <2>3, Zenon DEF LaunchOnSlave, Typing, TypeOK
    <3> HIDE DEF j
    <3>2. UNCHANGED <<executorChannel, job, execTasks, executing, unacked, disconnected>>
      BY <3>1, Zenon DEF LaunchAndRun
    <3>3. CASE job[j] = "running"
      <4>1. ToRunner(j, T) /\ ToExecutor(j, "run", Runnable(j, T))
        BY <3>1, <3>3, Zenon DEF LaunchAndRun, j
      <4>2. /\ \A i \in Jobs : i # j => executor'[i] = executor[i]
            /\ executor'[j] = executor[j] \/ (executor[j] = "none" /\ executor'[j] = "starting")
        BY <3>1, <4>1, Zenon DEF ToRunner, Typing, TypeOK
      <4>3. Runnable(j, T) \in SUBSET Tasks
        BY <3>1, Zenon DEF Runnable
      <4>4. \A i \in Jobs : i # j => inbox'[i] = inbox[i]
        BY <3>1, <4>1, <4>3, ToExecutorFacts, ZenonT(30)
      <4>5. CASE executor[j] = "up"
        <5>1. Executors'
          BY <3>2, <4>2, <4>4, <4>5, Zenon DEF Cycle, Executors
        <5>2. Senders'
          BY <3>2, <4>2, <4>4, <4>5, Zenon DEF Cycle, Senders, Typing, TypeOK, Update
        <5>3. Unheard'
          BY <3>2, <4>2, <4>4, <4>5, Zenon DEF Cycle, Unheard
        <5> QED BY <5>1, <5>2, <5>3, Zenon DEF Cycle
      <4>6. CASE executor[j] # "up"
        <5>1. ~executorChannel[j] /\ inbox[j] = <<>>
          BY <3>1, <3>3, <4>6, Zenon DEF Cycle, Executors, Senders, Unheard, Typing, TypeOK, Update
        <5>2. Runnable(j, T) = {}
          BY <5>1, Zenon DEF Runnable
        <5>3. Items(inbox'[j]) = {} /\ inbox' \in [Jobs -> Seq(Message)]
          <6>1. /\ Items(inbox'[j]) = Items(inbox[j]) \cup Requests("run", Runnable(j, T))
                /\ inbox' \in [Jobs -> Seq(Message)]
            BY <3>1, <4>1, <4>3, ToExecutorFacts, Zenon
          <6>2. Items(<<>>) = {} /\ Requests("run", {}) = {}
            BY SMTT(30) DEF Items, Requests
          <6> QED BY <5>1, <5>2, <6>1, <6>2, Zenon
        <5>4. inbox'[j] = <<>>
          BY <3>1, <5>3, <1>EmptyItems, Zenon
        <5>5. Executors'
          BY <3>2, <3>3, <4>2, <4>4, <4>6, <5>1, <5>4, Zenon DEF Cycle, Executors
        <5>6. Senders'
          <6>1. \A u \in unacked : executor[u.from] = "up" /\ u.from \in Jobs
            BY UpdateFields, Zenon DEF Cycle, Senders, Typing, TypeOK
          <6> QED BY <3>2, <4>2, <4>6, <6>1, Zenon DEF Senders
        <5>7. Unheard'
          BY <3>2, <3>3, <4>2, <4>4, <4>6, <5>1, <5>4, Zenon DEF Cycle, Unheard
        <5> QED BY <5>5, <5>6, <5>7, Zenon DEF Cycle
      <4> QED BY <4>5, <4>6, Zenon
    <3>4. CASE job[j] # "running"
      BY <3>1, <3>2, <3>4, Zenon DEF LaunchAndRun, Cycle, Executors, Senders, Unheard, j
    <3> QED BY <3>3, <3>4, Zenon
  <2> QED BY <2>1, <2>2, <2>3, Zenon DEF LaunchTasks
<1> SUFFICES ASSUME Typing, Cycle, [Next]_vars PROVE Cycle'
  BY Zenon
<1>1. CASE UNCHANGED cycleVars
  BY <1>1, Zenon DEF cycleVars, Cycle, Executors, Senders, Unheard
<1>2. CASE GenerateOffers \/ OtherMessage \/ ReviveOffers \/ UNCHANGED vars
  BY <1>1, <1>2, Zenon
  DEF cycleVars, GenerateOffers, BuildOffers, OtherMessage, ReviveOffers, vars
<1>3. CASE Restart
  <2>1. Executors' /\ Senders'
    BY <1>3, Zenon DEF Restart, Cycle, Executors, Senders
  <2>2. Unheard'
    BY <1>3, Zenon DEF Restart, Cycle, Unheard
  <2> QED BY <2>1, <2>2, Zenon DEF Cycle
<1>4. ASSUME NEW o \in outstanding, DeclineOffer(o) PROVE Cycle'
  <2>1. UNCHANGED executorChannel
    BY <1>4, Zenon DEF DeclineOffer
  <2>2. CASE UNCHANGED <<execVars, clusterVars>>
    BY <1>1, <2>1, <2>2, Zenon DEF cycleVars
  <2>3. CASE JobGone(o.place) /\ o.place \in slaves
    BY <2>1, <2>3, <1>CycleGone, Zenon DEF Typing, TypeOK
  <2> QED BY <1>4, <2>2, <2>3, Zenon DEF DeclineOffer, RefuseWithTasks, RefuseIdle
<1>5. ASSUME NEW t \in Tasks, KillTask(t) PROVE Cycle'
  <2>1. UNCHANGED executorChannel /\ TypeOK
    BY <1>5, Zenon DEF KillTask, KillAndDelete, Typing
  <2>2. CASE UNCHANGED <<execVars, clusterVars>>
    BY <1>1, <2>1, <2>2, Zenon DEF cycleVars
  <2>3. CASE JobGone(taskJob[t]) /\ taskJob[t] # NoJob
    BY <2>1, <2>3, <1>CycleGone, Zenon DEF TypeOK
  <2>4. CASE KillOnSlave(t, SlaveOf(t))
    <3> DEFINE j == SlaveOf(t)
    <3>1. j \in Jobs /\ UNCHANGED <<executing, execTasks, unacked, clusterVars>>
      BY <2>1, <2>4, Zenon DEF KillOnSlave, SlaveOf, TypeOK
    <3>2. CASE UNCHANGED inbox
      BY <1>1, <2>1, <3>1, <3>2, Zenon DEF cycleVars
    <3>3. CASE executor[j] = "up" /\ ToExecutor(j, "kill", {t})
      <4>1. \A i \in Jobs : i # j => inbox'[i] = inbox[i]
        BY <2>1, <3>1, <3>3, ToExecutorFacts, Zenon
      <4> HIDE DEF j
      <4> QED BY <2>1, <3>1, <3>3, <4>1, Zenon DEF Cycle, Executors, Senders, Unheard, Typing, TypeOK, Update
    <3> QED BY <2>4, <3>2, <3>3, Zenon DEF KillOnSlave
  <2> QED BY <1>5, <2>2, <2>3, <2>4, Zenon DEF KillTask, KillAndDelete, KillWithoutSlave
<1>6. ASSUME NEW u \in unacked, StatusUpdateAcknowledgement(u) PROVE Cycle'
  <2>1. /\ unacked' \subseteq unacked
        /\ UNCHANGED <<executorChannel, job, executor, inbox, executing, disconnected>>
    BY <1>6, Zenon DEF StatusUpdateAcknowledgement
  <2>2. \A i \in Jobs : execTasks'[i] \subseteq execTasks[i]
    <3>1. execTasks \in [Jobs -> SUBSET Tasks]
      BY Zenon DEF Typing, TypeOK
    <3> QED BY <1>6, <3>1, Zenon DEF StatusUpdateAcknowledgement
  <2> QED BY <2>1, <2>2, Zenon DEF Cycle, Executors, Senders, Unheard
<1>7. ASSUME NEW j \in Jobs, RegisterExecutorRunner(j) \/ ReregisterRunner(j) PROVE Cycle'
  <2>1. /\ job[j] \in {"pending", "running"}
        /\ RegisterForWaiting(j) \/ RegisterWithTasks(j)
        /\ UNCHANGED execVars /\ disconnected' = disconnected \ {<<j, "runner">>}
    BY <1>7, Zenon DEF RegisterExecutorRunner, ReregisterRunner, Cycle, Unheard
  <2> QED BY <2>1, <1>CycleRegister, Zenon
<1>8. ASSUME NEW j \in Jobs, RegisterExecutor(j) PROVE Cycle'
  <2>1. PICK N \in Submittable : ScaleUp(N, {})
    BY <1>8, Zenon DEF RegisterExecutor
  <2>2. \A i \in Jobs : job'[i] = job[i] \/ (job[i] = "none" /\ job'[i] = "pending")
    BY <2>1, Zenon DEF ScaleUp, Submittable, Typing, TypeOK
  <2>3. Staged(j) \in SUBSET Tasks /\ TypeOK
    BY Zenon DEF Staged, Typing
  <2>4. \A i \in Jobs : i # j => inbox'[i] = inbox[i]
    BY <1>8, <2>3, ToExecutorFacts, Zenon DEF RegisterExecutor
  <2>5. /\ executor[j] = "starting" /\ executor' = [executor EXCEPT ![j] = "up"]
        /\ executorChannel' = [executorChannel EXCEPT ![j] = TRUE]
        /\ UNCHANGED <<executing, execTasks, unacked, disconnected>>
    BY <1>8, Zenon DEF RegisterExecutor
  <2> QED BY <2>2, <2>3, <2>4, <2>5, SMTT(30) DEF Cycle, Executors, Senders, Unheard, TypeOK, Update
<1>9. ASSUME NEW j \in Jobs, ReregisterExecutor(j) PROVE Cycle'
  <2>1. /\ <<j, "executor">> \in disconnected
        /\ UNCHANGED <<execVars, job, executor>> /\ disconnected' \subseteq disconnected
        /\ executorChannel' \in {executorChannel, [executorChannel EXCEPT ![j] = TRUE]}
    BY <1>9, Zenon DEF ReregisterExecutor, RestoreTasks
  <2>2. executor[j] = "up" /\ \A i \in Jobs \ {j} : executorChannel'[i] = executorChannel[i]
    BY <2>1, Zenon DEF Cycle, Unheard, Typing, TypeOK
  <2>3. Executors'
    BY <2>1, <2>2, Zenon DEF Cycle, Executors
  <2> QED BY <2>1, <2>3, Zenon DEF Cycle, Senders, Unheard
<1>10. ASSUME NEW j \in Jobs, StatusUpdate(j) PROVE Cycle'
  BY <1>1, <1>10, Zenon DEF StatusUpdate, HandleStatusUpdate, cycleVars
<1>11. ASSUME NEW j \in Jobs, ExecMessage(j) PROVE Cycle'
  <2>1. /\ executor[j] = "up" /\ inbox' = [inbox EXCEPT ![j] = Tail(@)]
        /\ UNCHANGED <<executorChannel, clusterVars>>
    BY <1>11, Zenon DEF ExecMessage
  <2>2. \A i \in Jobs : i # j => executing'[i] = executing[i] /\ execTasks'[i] = execTasks[i]
    <3>1. executing \in [Jobs -> SUBSET Tasks] /\ execTasks \in [Jobs -> SUBSET Tasks]
      BY Zenon DEF Typing, TypeOK
    <3>2. PICK t \in Tasks : ExecRun(j, t) \/ ExecKill(j, t)
      BY <1>11, Zenon DEF ExecMessage
    <3> QED BY <3>1, <3>2, Zenon DEF ExecRun, ExecKill
  <2>3. \A u \in unacked' : u \in unacked \/ u.from = j
    BY <1>11, SMTT(30) DEF ExecMessage, ExecRun, ExecKill, Report
  <2> QED BY <2>1, <2>2, <2>3, SMTT(30) DEF Cycle, Executors, Senders, Unheard, Typing, TypeOK, Update
<1>12. ASSUME NEW j \in Jobs, JobEnds(j) PROVE Cycle'
  BY <1>12, <1>CycleGone, Zenon DEF JobEnds
<1>13. ASSUME NEW j \in Jobs, NEW t \in Tasks, NEW state \in FinalStates, ExecEnd(j, t, state)
       PROVE  Cycle'
  <2>1. \A u \in unacked' : u \in unacked \/ u.from = j
    BY <1>13, SMTT(30) DEF ExecEnd, Report
  <2>2. /\ t \in executing[j] /\ executing' = [executing EXCEPT ![j] = @ \ {t}]
        /\ UNCHANGED <<executorChannel, clusterVars, inbox, execTasks>>
    BY <1>13, Zenon DEF ExecEnd
  <2>3. executor[j] = "up" /\ \A i \in Jobs : executing'[i] \subseteq executing[i]
    <3>1. executing \in [Jobs -> SUBSET Tasks]
      BY Zenon DEF Typing, TypeOK
    <3> QED BY <2>2, <3>1, Zenon DEF Cycle, Executors
  <2> QED BY <2>1, <2>2, <2>3, Zenon DEF Cycle, Executors, Senders, Unheard
<1>14. ASSUME NEW j \in Jobs, DeleteJob(j) PROVE Cycle'
  BY <1>1, <1>14, Zenon DEF DeleteJob, DeleteSlavesAndTasks, cycleVars
<1>15. ASSUME NEW j \in Jobs, ValidateChannel(j) PROVE Cycle'
  BY <1>15, Zenon DEF ValidateChannel, Cycle, Executors, Senders, Unheard
<1> QED BY <1>2, <1>3, <1>4, <1>5, <1>6, <1>7, <1>8, <1>9, <1>10, <1>11, <1>12, <1>13, <1>14,
           <1>15, <1>CycleLaunch, Zenon DEF Next, Framework, Cluster, Monitors
----------------------------------------------------------------------------
(* The task was launched for this job.                                     *)
Assigned(j, t) == t \notin fresh /\ taskJob[t] = j

(* What a runner, its executor and the executor's driver hold.             *)
Holds(j) == runnerTasks[j] \cup execTasks[j] \cup executing[j]

(* Whatever is held or sent by a job's runner or executor, or sent to it   *)
(* to run, is about tasks launched for that job, and none is reported as   *)
(* staging.                                                                *)
Owned ==
    /\ \A j \in Jobs : \A t \in Holds(j) : Assigned(j, t)
    /\ \A j \in Jobs : \A m \in Items(inbox[j]) :
          m.task \notin fresh /\ (m.type = "run" => taskJob[m.task] = j)
    /\ \A j \in Jobs : \A u \in Items(updates[j]) :
          u.from = j /\ u.state # "STAGING" /\ Assigned(j, u.task)
    /\ \A u \in unacked : u.state # "STAGING" /\ Assigned(u.from, u.task)

(* Of a task that was not launched nothing is recorded, and of one that is *)
(* staging nothing was told.                                               *)
Untold ==
    /\ \A t \in fresh : task[t] = "none" /\ told[t] = {} /\ taskJob[t] = NoJob
    /\ \A t \in Tasks : task[t] = "STAGING" => told[t] = {}

(* What an executor adds to the tasks and updates when it reports.         *)
LEMMA ReportFacts ==
    ASSUME Typing, NEW j \in Jobs, NEW t \in Tasks, NEW state \in States, Report(j, t, state)
    PROVE  /\ \A i \in Jobs \ {j} : updates'[i] = updates[i]
           /\ updates'[j] = Append(updates[j], [task |-> t, state |-> state, from |-> j])
           /\ Items(updates'[j]) = Items(updates[j]) \cup {[task |-> t, state |-> state, from |-> j]}
           /\ unacked' = unacked \cup {[task |-> t, state |-> state, from |-> j]}
<1> DEFINE u == [task |-> t, state |-> state, from |-> j]
<1>1. u \in Update /\ updates[j] \in Seq(Update) /\ updates \in [Jobs -> Seq(Update)]
  BY Zenon DEF Update, Typing, TypeOK
<1>2. updates' = [updates EXCEPT ![j] = Append(@, u)] /\ unacked' = unacked \cup {u}
  BY Zenon DEF Report
<1> HIDE DEF u
<1>3. Items(Append(updates[j], u)) = Items(updates[j]) \cup {u}
  BY <1>1, AppendFacts, SMTT(30)
<1>4. updates'[j] = Append(updates[j], u) /\ \A i \in Jobs \ {j} : updates'[i] = updates[i]
  BY <1>1, <1>2, Zenon
<1> QED BY <1>2, <1>3, <1>4, Zenon DEF u

(* Every step keeps ownership.                                             *)
LEMMA OwnedStep == Typing /\ Owned /\ Untold /\ [Next]_vars => Owned'
(* Once launched, a task keeps the job it was launched for. After a        *)
(* restart runners and executors bring their tasks back, and by Owned      *)
(* under the same job.                                                     *)
<1>AssignmentsStay.
      ASSUME Typing, Owned, [Next]_vars
      PROVE  fresh' \subseteq fresh /\ \A t \in Tasks \ fresh : taskJob'[t] = taskJob[t]
  <2> USE <1>AssignmentsStay
  <2>1. CASE UNCHANGED <<fresh, taskJob>>
    BY <2>1, Zenon
  <2>2. ASSUME NEW T \in SUBSET fresh, NEW j, NEW p, Record(T, j, p)
        PROVE  fresh' \subseteq fresh /\ \A t \in Tasks \ fresh : taskJob'[t] = taskJob[t]
    BY <2>2, Zenon DEF Record
  <2>3. ASSUME NEW o \in outstanding, NEW T \in SUBSET fresh, LaunchTasks(o, T)
        PROVE  fresh' \subseteq fresh /\ \A t \in Tasks \ fresh : taskJob'[t] = taskJob[t]
    BY <2>2, <2>3, Zenon
    DEF LaunchTasks, LaunchOnPlaceholder, LaunchAndSubmit, LaunchOnUnknown, LaunchOnSlave, LaunchAndRun
  <2>4. ASSUME NEW j \in Jobs, RegisterExecutorRunner(j) \/ ReregisterRunner(j)
        PROVE  fresh' \subseteq fresh /\ \A t \in Tasks \ fresh : taskJob'[t] = taskJob[t]
    <3>1. UNCHANGED fresh /\ (RegisterForWaiting(j) \/ RegisterWithTasks(j))
      BY <2>4, Zenon DEF RegisterExecutorRunner, ReregisterRunner
    <3>2. CASE RegisterForWaiting(j)
      BY <2>1, <3>1, <3>2, Zenon DEF RegisterForWaiting
    <3>3. CASE RegisterWithTasks(j)
      BY <3>1, <3>3, Zenon DEF RegisterWithTasks, Owned, Holds, Assigned
    <3> QED BY <3>1, <3>2, <3>3, Zenon
  <2>5. ASSUME NEW j \in Jobs, ReregisterExecutor(j)
        PROVE  fresh' \subseteq fresh /\ \A t \in Tasks \ fresh : taskJob'[t] = taskJob[t]
    BY <2>5, SMTT(30) DEF ReregisterExecutor, RestoreTasks, Owned, Holds, Assigned
  <2>6. CASE Framework
    BY <2>1, <2>3, <2>6, Zenon
    DEF Framework, DeclineOffer, ReviveOffers, KillTask, KillAndDelete, StatusUpdateAcknowledgement
  <2>7. ASSUME NEW j \in Jobs, Cluster(j)
        PROVE  fresh' \subseteq fresh /\ \A t \in Tasks \ fresh : taskJob'[t] = taskJob[t]
    BY <2>1, <2>4, <2>5, <2>7, Zenon
    DEF Cluster, RegisterExecutor, StatusUpdate, HandleStatusUpdate, ExecMessage, JobEnds, ExecEnd
  <2>8. ASSUME NEW j \in Jobs, Monitors(j)
        PROVE  fresh' \subseteq fresh /\ \A t \in Tasks \ fresh : taskJob'[t] = taskJob[t]
    BY <2>1, <2>8, Zenon DEF Monitors, DeleteJob, DeleteSlavesAndTasks, ValidateChannel
  <2> QED BY <2>1, <2>6, <2>7, <2>8, Zenon
          DEF Next, vars, GenerateOffers, BuildOffers, OtherMessage, Restart
(* Ownership is kept by steps that add nothing.                            *)
<1>OwnedKept.
      ASSUME Typing, Owned, [Next]_vars,
             \A j \in Jobs : Holds(j)' \subseteq Holds(j),
             \A j \in Jobs : Items(inbox'[j]) \subseteq Items(inbox[j]),
             \A j \in Jobs : Items(updates'[j]) \subseteq Items(updates[j]),
             unacked' \subseteq unacked
      PROVE  Owned'
  <2> USE <1>OwnedKept
  <2>1. fresh' \subseteq fresh /\ \A t \in Tasks \ fresh : taskJob'[t] = taskJob[t]
    BY <1>AssignmentsStay, Zenon
  <2>2. /\ unacked \subseteq Update /\ \A j \in Jobs : Holds(j) \subseteq Tasks
        /\ \A j \in Jobs : Items(inbox[j]) \subseteq Message /\ Items(updates[j]) \subseteq Update
    BY TypedItems, Zenon DEF Holds, TypeOK
  <2>3. \A j \in Jobs : \A t \in Holds(j)' : Assigned(j, t)'
    BY <2>1, <2>2, Zenon DEF Owned, Assigned
  <2>4. \A j \in Jobs : \A m \in Items(inbox'[j]) :
            m.task \notin fresh' /\ (m.type = "run" => taskJob'[m.task] = j)
    BY <2>1, <2>2, SMTT(30) DEF Owned, Message
  <2>5. \A j \in Jobs : \A u \in Items(updates'[j]) :
            u.from = j /\ u.state # "STAGING" /\ Assigned(j, u.task)'
    BY <2>1, <2>2, UpdateFields, Zenon DEF Owned, Assigned
  <2>6. \A u \in unacked' : u.state # "STAGING" /\ Assigned(u.from, u.task)'
    BY <2>1, <2>2, UpdateFields, Zenon DEF Owned, Assigned
  <2> QED BY <2>3, <2>4, <2>5, <2>6, Zenon DEF Owned, Holds
(* What a message sent to an executor adds to the requests it holds.       *)
<1>OwnedSent.
      ASSUME Typing, Owned, [Next]_vars, NEW j \in Jobs, NEW T \in SUBSET Tasks,
             NEW type \in {"run", "kill"},
             \A i \in Jobs \ {j} : Holds(i)' \subseteq Holds(i),
             \A t \in Holds(j)' : t \in Holds(j) \/ Assigned(j, t)',
             ToExecutor(j, type, T), UNCHANGED <<updates, unacked>>,
             \A t \in T : t \notin fresh' /\ (type = "run" => taskJob'[t] = j)
      PROVE  Owned'
  <2> USE <1>OwnedSent
  <2>1. fresh' \subseteq fresh /\ \A t \in Tasks \ fresh : taskJob'[t] = taskJob[t]
    BY <1>AssignmentsStay, Zenon
  <2>2. /\ unacked \subseteq Update /\ \A i \in Jobs : Holds(i) \subseteq Tasks
        /\ \A i \in Jobs : Items(inbox[i]) \subseteq Message /\ Items(updates[i]) \subseteq Update
    BY TypedItems, Zenon DEF Holds, TypeOK
  <2>3. \A i \in Jobs : \A t \in Holds(i)' : Assigned(i, t)'
    BY <2>1, <2>2, Zenon DEF Owned, Assigned
  <2>4. \A i \in Jobs : \A m \in Items(inbox'[i]) :
            m.task \notin fresh' /\ (m.type = "run" => taskJob'[m.task] = i)
    <3>0. TypeOK
      BY Zenon DEF Typing
    <3>1. /\ \A i \in Jobs \ {j} : inbox'[i] = inbox[i]
          /\ Items(inbox'[j]) = Items(inbox[j]) \cup Requests(type, T)
      BY <3>0, ToExecutorFacts, ZenonT(30)
    <3>2. \A m \in Requests(type, T) : m.task \in T /\ m.type = type
      BY SMTT(30) DEF Requests
    <3>3. ASSUME NEW i \in Jobs, NEW m \in Items(inbox[i])
          PROVE  m.task \notin fresh' /\ (m.type = "run" => taskJob'[m.task] = i)
      <4>1. m.task \in Tasks
        BY <2>2, Zenon DEF Message
      <4>2. m.task \notin fresh /\ (m.type = "run" => taskJob[m.task] = i)
        BY Zenon DEF Owned
      <4> QED BY <2>1, <4>1, <4>2, Zenon
    <3> QED BY <3>1, <3>2, <3>3, Zenon
  <2>5. \A i \in Jobs : \A u \in Items(updates'[i]) :
            u.from = i /\ u.state # "STAGING" /\ Assigned(i, u.task)'
    BY <2>1, <2>2, UpdateFields, Zenon DEF Owned, Assigned
  <2>6. \A u \in unacked' : u.state # "STAGING" /\ Assigned(u.from, u.task)'
    BY <2>1, <2>2, Zenon DEF Owned, Update, Assigned
  <2> QED BY <2>3, <2>4, <2>5, <2>6, Zenon DEF Owned, Holds
(* It is kept when an executor reports a task of its own.                  *)
<1>OwnedReported.
      ASSUME Typing, Owned, [Next]_vars, NEW j \in Jobs, NEW t \in Tasks, NEW state \in States,
             state # "STAGING", Report(j, t, state), Assigned(j, t),
             \A i \in Jobs : Holds(i)' \subseteq Holds(i) \cup (IF i = j THEN {t} ELSE {}),
             \A i \in Jobs : Items(inbox'[i]) \subseteq Items(inbox[i])
      PROVE  Owned'
  <2> USE <1>OwnedReported
  <2>1. fresh' \subseteq fresh /\ \A x \in Tasks \ fresh : taskJob'[x] = taskJob[x]
    BY <1>AssignmentsStay, Zenon
  <2>2. /\ unacked \subseteq Update /\ \A i \in Jobs : Holds(i) \subseteq Tasks
        /\ \A i \in Jobs : Items(inbox[i]) \subseteq Message /\ Items(updates[i]) \subseteq Update
    BY TypedItems, Zenon DEF Holds, TypeOK
  <2>3. \A i \in Jobs : \A x \in Holds(i)' : Assigned(i, x)'
    BY <2>1, <2>2, SMTT(30) DEF Owned, Assigned
  <2>4. \A i \in Jobs : \A m \in Items(inbox'[i]) :
            m.task \notin fresh' /\ (m.type = "run" => taskJob'[m.task] = i)
    BY <2>1, <2>2, SMTT(30) DEF Owned, Message
  <2> DEFINE u == [task |-> t, state |-> state, from |-> j]
  <2>5. /\ \A i \in Jobs \ {j} : updates'[i] = updates[i]
        /\ Items(updates'[j]) = Items(updates[j]) \cup {u} /\ unacked' = unacked \cup {u}
    BY ReportFacts, Zenon
  <2>6. u.from = j /\ u.state # "STAGING" /\ Assigned(j, u.task)' /\ Assigned(u.from, u.task)'
    BY <2>1, Zenon DEF Assigned
  <2> HIDE DEF u
  <2>7. \A i \in Jobs : \A v \in Items(updates'[i]) :
            v.from = i /\ v.state # "STAGING" /\ Assigned(i, v.task)'
    BY <2>1, <2>2, <2>5, <2>6, SMTT(30) DEF Owned, Update, Assigned
  <2>8. \A v \in unacked' : v.state # "STAGING" /\ Assigned(v.from, v.task)'
    BY <2>1, <2>2, <2>5, <2>6, Zenon DEF Owned, Update, Assigned
  <2> QED BY <2>3, <2>4, <2>7, <2>8, Zenon DEF Owned, Holds
(* It is kept when a job leaves.                                           *)
<1>OwnedGone.
      ASSUME Typing, Owned, [Next]_vars, NEW j \in Jobs, JobGone(j)
      PROVE  Owned'
  <2> USE <1>OwnedGone
  <2>1. \A i \in Jobs : Holds(i)' \subseteq Holds(i)
    BY Zenon DEF Holds, JobGone, Typing, TypeOK
  <2>2. \A i \in Jobs : Items(inbox'[i]) \subseteq Items(inbox[i])
    BY SMTT(30) DEF Items, JobGone, Typing, TypeOK
  <2>3. UNCHANGED updates /\ unacked' \subseteq unacked
    BY Zenon DEF JobGone
  <2> QED BY <2>1, <2>2, <2>3, <1>OwnedKept, Zenon
(* It is kept by launch_tasks, which sends fresh tasks only to the slave   *)
(* they are recorded for.                                                  *)
<1>OwnedLaunch.
      ASSUME Typing, Owned, [Next]_vars, NEW o \in outstanding, NEW T \in SUBSET fresh,
             LaunchTasks(o, T)
      PROVE  Owned'
  <2> USE <1>OwnedLaunch
  <2>1. CASE UNCHANGED <<runnerTasks, execTasks, executing, inbox, updates, unacked>>
    BY <2>1, <1>OwnedKept, Zenon DEF Holds
  <2>2. CASE LaunchOnSlave(o, T) /\ job[o.place] = "running"
    <3> DEFINE j == o.place
    <3>1. j \in Jobs /\ T \in SUBSET Tasks /\ LaunchAndRun(o, T, T, Runnable(j, T))
      BY <2>2, Zenon DEF LaunchOnSlave, Typing, TypeOK
    <3>2. ToRunner(j, T) /\ ToExecutor(j, "run", Runnable(j, T)) /\ Record(T, j, j)
      BY <2>2, <3>1, Zenon DEF LaunchAndRun
    <3>3. Runnable(j, T) \in SUBSET T
      BY Zenon DEF Runnable
    <3>4. UNCHANGED <<executing, execTasks, unacked, updates>>
      BY <3>1, Zenon DEF LaunchAndRun
    <3> HIDE DEF j
    <3>5. \A t \in T : t \notin fresh' /\ taskJob'[t] = j
      BY <3>1, <3>2, Zenon DEF Record
    <3>6. /\ \A i \in Jobs \ {j} : runnerTasks'[i] = runnerTasks[i]
          /\ runnerTasks'[j] \subseteq runnerTasks[j] \cup T
      BY <3>1, <3>2, SMTT(30) DEF ToRunner, Tracked, Typing, TypeOK
    <3>7. /\ \A i \in Jobs \ {j} : Holds(i)' \subseteq Holds(i)
          /\ \A t \in Holds(j)' : t \in Holds(j) \/ Assigned(j, t)'
      BY <3>4, <3>5, <3>6, Zenon DEF Holds, Assigned
    <3> QED BY <3>1, <3>2, <3>3, <3>4, <3>5, <3>7, <1>OwnedSent, SMTT(30)
  <2> QED BY <2>1, <2>2, Zenon
          DEF LaunchTasks, LaunchOnPlaceholder, LaunchAndSubmit, LaunchOnUnknown, LaunchOnSlave,
              LaunchAndRun
(* It is kept by register_executor_runner, which passes on tasks that wait *)
(* for this job.                                                           *)
<1>OwnedRegister.
      ASSUME Typing, Owned, Untold, [Next]_vars, NEW j \in Jobs,
             RegisterForWaiting(j) \/ RegisterWithTasks(j), UNCHANGED execVars
      PROVE  Owned'
  <2> USE <1>OwnedRegister
  <2>1. CASE RegisterForWaiting(j)
    <3> DEFINE W == {t \in Staged(j) : taskSlave[t] = Placeholder}
    <3>1. ToRunner(j, W) /\ UNCHANGED taskJob
      BY <2>1, Zenon DEF RegisterForWaiting
    <3>2. \A t \in W : t \in Tasks \ fresh /\ taskJob[t] = j
      BY Zenon DEF Staged, Untold
    <3> HIDE DEF W
    <3>3. /\ \A i \in Jobs \ {j} : runnerTasks'[i] = runnerTasks[i]
          /\ runnerTasks'[j] \subseteq runnerTasks[j] \cup W
      BY <3>1, SMTT(30) DEF ToRunner, Tracked, Typing, TypeOK
    <3>4. fresh' \subseteq fresh /\ \A x \in Tasks \ fresh : taskJob'[x] = taskJob[x]
      BY <1>AssignmentsStay, Zenon
    <3>5. /\ unacked \subseteq Update /\ \A i \in Jobs : Holds(i) \subseteq Tasks
          /\ \A i \in Jobs : Items(inbox[i]) \subseteq Message /\ Items(updates[i]) \subseteq Update
      BY TypedItems, Zenon DEF Holds, TypeOK
    <3>6. \A i \in Jobs : \A t \in Holds(i)' : t \in Tasks \ fresh /\ taskJob[t] = i
      BY <3>2, <3>3, <3>5, SMTT(30) DEF Holds, Owned, Assigned
    <3>7. \A i \in Jobs : \A t \in Holds(i)' : Assigned(i, t)'
      BY <3>4, <3>6, Zenon DEF Assigned
    <3>8. \A i \in Jobs : \A m \in Items(inbox'[i]) :
              m.task \notin fresh' /\ (m.type = "run" => taskJob'[m.task] = i)
      BY <3>1, <3>4, <3>5, Zenon DEF Owned, Message
    <3>9. \A i \in Jobs : \A u \in Items(updates'[i]) :
              u.from = i /\ u.state # "STAGING" /\ Assigned(i, u.task)'
      BY <3>4, <3>5, UpdateFields, Zenon DEF Owned, Assigned
    <3>10. \A u \in unacked' : u.state # "STAGING" /\ Assigned(u.from, u.task)'
      BY <3>4, <3>5, Zenon DEF Owned, Update, Assigned
    <3> QED BY <3>7, <3>8, <3>9, <3>10, Zenon DEF Owned, Holds
  <2>2. CASE RegisterWithTasks(j)
    BY <2>2, <1>OwnedKept, Zenon DEF RegisterWithTasks, Holds
  <2> QED BY <2>1, <2>2, Zenon
(* It is kept when an executor handles a message.                          *)
<1>OwnedExec.
      ASSUME Typing, Owned, [Next]_vars, NEW j \in Jobs, ExecMessage(j)
      PROVE  Owned'
  <2> USE <1>OwnedExec
  <2>1. inbox[j] \in Seq(Message) /\ inbox[j] # <<>> /\ inbox \in [Jobs -> Seq(Message)]
        /\ inbox' = [inbox EXCEPT ![j] = Tail(@)] /\ UNCHANGED runnerTasks
    BY Zenon DEF ExecMessage, Typing, TypeOK
  <2>2. Items(inbox[j]) = {Head(inbox[j])} \cup Items(Tail(inbox[j]))
    BY <2>1, TailFacts, Zenon
  <2>3. \A i \in Jobs : Items(inbox'[i]) \subseteq Items(inbox[i])
    BY <2>1, <2>2, Zenon
  <2>4. ASSUME NEW t \in Tasks, ExecRun(j, t) PROVE Owned'
    <3>1. /\ Head(inbox[j]) = [type |-> "run", task |-> t] /\ Report(j, t, "RUNNING")
          /\ executing' = [executing EXCEPT ![j] = @ \cup {t}]
          /\ execTasks' = [execTasks EXCEPT ![j] = @ \cup {t}]
      BY <2>4, Zenon DEF ExecRun
    <3>2. [type |-> "run", task |-> t] \in Items(inbox[j])
      BY <2>2, <3>1, Zenon
    <3>3. Assigned(j, t)
      BY <3>2, SMTT(30) DEF Owned, Assigned
    <3>4. \A i \in Jobs : Holds(i)' \subseteq Holds(i) \cup (IF i = j THEN {t} ELSE {})
      BY <2>1, <3>1, Zenon DEF Holds, Typing, TypeOK
    <3>5. "RUNNING" \in States
      BY Zenon DEF States, Live
    <3> QED BY <2>3, <3>1, <3>3, <3>4, <3>5, <1>OwnedReported, Zenon
  <2>5. ASSUME NEW t \in Tasks, ExecKill(j, t) PROVE Owned'
    <3>1. executing' = [executing EXCEPT ![j] = @ \ {t}] /\ UNCHANGED execTasks
      BY <2>5, Zenon DEF ExecKill
    <3>2. \A i \in Jobs : Holds(i)' \subseteq Holds(i)
      BY <2>1, <3>1, Zenon DEF Holds, Typing, TypeOK
    <3>3. CASE t \in executing[j]
      <4>1. Report(j, t, "KILLED") /\ Assigned(j, t)
        BY <2>5, <3>3, Zenon DEF ExecKill, Owned, Holds
      <4>2. "KILLED" \in States
        BY Zenon DEF States, Terminal
      <4> QED BY <2>3, <3>2, <4>1, <4>2, <1>OwnedReported, Zenon
    <3>4. CASE t \notin executing[j]
      BY <2>3, <2>5, <3>2, <3>4, <1>OwnedKept, Zenon DEF ExecKill
    <3> QED BY <3>3, <3>4, Zenon
  <2> QED BY <2>4, <2>5, Zenon DEF ExecMessage
<1> SUFFICES ASSUME Typing, Owned, Untold, [Next]_vars PROVE Owned'
  BY Zenon
<1>1. CASE UNCHANGED <<runnerTasks, execVars>>
  BY <1>1, <1>OwnedKept, Zenon DEF Holds
<1>2. CASE GenerateOffers \/ OtherMessage \/ ReviveOffers \/ Restart \/ UNCHANGED vars
  BY <1>1, <1>2, Zenon DEF GenerateOffers, BuildOffers, OtherMessage, ReviveOffers, Restart, vars
<1>3. ASSUME NEW o \in outstanding, DeclineOffer(o) PROVE Owned'
  <2>1. CASE JobGone(o.place) /\ o.place \in slaves
    BY <2>1, <1>OwnedGone, Zenon DEF Typing, TypeOK
  <2> QED BY <1>1, <1>3, <2>1, Zenon DEF DeclineOffer, RefuseWithTasks, RefuseIdle
<1>4. ASSUME NEW t \in Tasks, KillTask(t) PROVE Owned'
  <2>1. t \notin fresh /\ UNCHANGED fresh
    BY <1>4, Zenon DEF KillTask, KillAndDelete
  <2>2. CASE JobGone(taskJob[t]) /\ taskJob[t] # NoJob
    BY <2>2, <1>OwnedGone, Zenon DEF Typing, TypeOK
  <2>3. CASE KillOnSlave(t, SlaveOf(t))
    <3>1. SlaveOf(t) \in Jobs /\ UNCHANGED <<executing, execTasks, unacked, updates, clusterVars>>
      BY <2>3, Zenon DEF KillOnSlave, SlaveOf, Typing, TypeOK
    <3>2. CASE UNCHANGED inbox
      BY <1>1, <3>1, <3>2, Zenon
    <3>3. CASE ToExecutor(SlaveOf(t), "kill", {t})
      <4>1. \A i \in Jobs : Holds(i)' = Holds(i)
        BY <3>1, Zenon DEF Holds
      <4> QED BY <2>1, <3>1, <3>3, <4>1, <1>OwnedSent, SMTT(30)
    <3> QED BY <2>3, <3>2, <3>3, Zenon DEF KillOnSlave
  <2> QED BY <1>1, <1>4, <2>2, <2>3, Zenon DEF KillTask, KillAndDelete, KillWithoutSlave
<1>5. ASSUME NEW u \in unacked, StatusUpdateAcknowledgement(u) PROVE Owned'
  <2>1. /\ UNCHANGED <<inbox, executing, updates, runnerTasks>> /\ unacked' \subseteq unacked
        /\ execTasks' = [execTasks EXCEPT ![u.from] = IF u.state = "FINISHED" THEN @ \ {u.task} ELSE @]
    BY <1>5, Zenon DEF StatusUpdateAcknowledgement
  <2>2. \A i \in Jobs : Holds(i)' \subseteq Holds(i)
    BY <2>1, Zenon DEF Holds, Typing, TypeOK
  <2> QED BY <2>1, <2>2, <1>OwnedKept, Zenon
<1>6. ASSUME NEW j \in Jobs, RegisterExecutorRunner(j) \/ ReregisterRunner(j) PROVE Owned'
  BY <1>6, <1>OwnedRegister, Zenon DEF RegisterExecutorRunner, ReregisterRunner
<1>7. ASSUME NEW j \in Jobs, RegisterExecutor(j) PROVE Owned'
  <2>1. /\ ToExecutor(j, "run", Staged(j)) /\ Staged(j) \in SUBSET Tasks
        /\ UNCHANGED <<taskJob, fresh, executing, execTasks, unacked, updates, runnerTasks>>
    BY <1>7, Zenon DEF RegisterExecutor, Staged
  <2>2. \A i \in Jobs : Holds(i)' = Holds(i)
    BY <2>1, Zenon DEF Holds
  <2>3. \A t \in Staged(j) : t \notin fresh' /\ taskJob'[t] = j
    BY <2>1, Zenon DEF Staged, Untold
  <2> QED BY <2>1, <2>2, <2>3, <1>OwnedSent, Zenon
<1>8. ASSUME NEW j \in Jobs, ReregisterExecutor(j) PROVE Owned'
  BY <1>1, <1>8, Zenon DEF ReregisterExecutor
<1>9. ASSUME NEW j \in Jobs, StatusUpdate(j) PROVE Owned'
  <2>1. /\ updates[j] \in Seq(Update) /\ updates[j] # <<>> /\ updates \in [Jobs -> Seq(Update)]
        /\ updates' = [updates EXCEPT ![j] = Tail(@)]
        /\ UNCHANGED <<inbox, executing, execTasks, unacked, runnerTasks>>
    BY <1>9, Zenon DEF StatusUpdate, HandleStatusUpdate, Typing, TypeOK
  <2>2. Items(updates[j]) = {Head(updates[j])} \cup Items(Tail(updates[j]))
    BY <2>1, TailFacts, Zenon
  <2>3. \A i \in Jobs : Items(updates'[i]) \subseteq Items(updates[i])
    BY <2>1, <2>2, Zenon
  <2> QED BY <2>1, <2>3, <1>OwnedKept, Zenon DEF Holds
<1>10. ASSUME NEW j \in Jobs, JobEnds(j) PROVE Owned'
  BY <1>10, <1>OwnedGone, Zenon DEF JobEnds
<1>11. ASSUME NEW j \in Jobs, NEW t \in Tasks, NEW state \in FinalStates, ExecEnd(j, t, state)
       PROVE  Owned'
  <2>1. /\ t \in executing[j] /\ executing' = [executing EXCEPT ![j] = @ \ {t}]
        /\ Report(j, t, state) /\ UNCHANGED <<inbox, execTasks, runnerTasks>>
    BY <1>11, Zenon DEF ExecEnd
  <2>2. \A i \in Jobs : Holds(i)' \subseteq Holds(i)
    BY <2>1, Zenon DEF Holds, Typing, TypeOK
  <2>3. state \in States /\ state # "STAGING" /\ Assigned(j, t)
    BY <2>1, BoundsAssumption, Zenon DEF States, Terminal, Owned, Holds
  <2> QED BY <2>1, <2>2, <2>3, <1>OwnedReported, Zenon
<1>12. ASSUME NEW j \in Jobs, DeleteJob(j) \/ ValidateChannel(j) PROVE Owned'
  BY <1>1, <1>12, Zenon DEF DeleteJob, DeleteSlavesAndTasks, ValidateChannel
<1> QED BY <1>2, <1>3, <1>4, <1>5, <1>6, <1>7, <1>8, <1>9, <1>10, <1>11, <1>12, <1>OwnedLaunch, <1>OwnedExec, Zenon
        DEF Next, Framework, Cluster, Monitors

(* Every step keeps it; in particular a status update is never that of a   *)
(* task still staging without taking it out of that state.                 *)
LEMMA UntoldStep == Typing /\ Owned /\ Untold /\ [Next]_vars => Untold'
(* Untold is kept by steps that put no task into staging and tell nothing  *)
(* of one that stays there.                                                *)
<1>UntoldKept.
      ASSUME Untold, fresh' \subseteq fresh,
             \A t \in fresh' : task'[t] = "none" /\ told'[t] = told[t] /\ taskJob'[t] = taskJob[t],
             \A t \in Tasks : task'[t] = "STAGING" => task[t] = "STAGING" /\ told'[t] = told[t]
      PROVE  Untold'
  BY <1>UntoldKept, Zenon DEF Untold
(* It is kept by launch_tasks: what goes into staging was fresh.           *)
<1>UntoldLaunch.
      ASSUME Typing, Untold, NEW o \in outstanding, NEW T \in SUBSET fresh, LaunchTasks(o, T)
      PROVE  Untold'
  <2> USE <1>UntoldLaunch
  <2>1. CASE LaunchOnPlaceholder(o, T)
    <3>1. PICK lost \in SUBSET T :
            /\ (\E j : Record(T, j, Placeholder)) /\ Tell(lost, "LOST")
            /\ Postprocess(SetTasks(T, "STAGING"), slaves, lost, {})
      <4>1. PICK N \in Submittable, failed \in SUBSET T :
              LET lost == IF SendTaskLost THEN T ELSE failed
                  j == IF N = {} THEN NoJob ELSE CHOOSE x \in N : TRUE
              IN  /\ Record(T, j, Placeholder) /\ Tell(lost, "LOST")
                  /\ Postprocess(SetTasks(T, "STAGING"), slaves, lost \ {}, {})
        BY <2>1, Zenon DEF LaunchOnPlaceholder, LaunchAndSubmit
      <4> DEFINE lost == IF SendTaskLost THEN T ELSE failed
      <4>2. lost \in SUBSET T /\ lost \ {} = lost
        BY Zenon
      <4> QED BY <4>1, <4>2, Zenon
    <3>2. \A t \in fresh' : t \in fresh /\ t \notin T /\ taskJob'[t] = taskJob[t]
      BY <3>1, Zenon DEF Record, Typing, TypeOK
    <3>3. \A t \in Tasks \ lost : told'[t] = told[t]
      BY <3>1, Zenon DEF Tell, Typing, TypeOK
    <3>4. \A t \in lost : task'[t] = "none"
      BY <3>1, Zenon DEF Postprocess, Typing, TypeOK
    <3>5. \A t \in Tasks \ T : task'[t] \in {task[t], "none"}
      BY <3>1, Zenon DEF Postprocess, SetTasks
    <3> QED BY <3>2, <3>3, <3>4, <3>5, Zenon DEF Untold, Typing, TypeOK
  <2>2. CASE LaunchOnUnknown(o, T) \/ LaunchOnSlave(o, T)
    <3>1. PICK j, p : Record(T, j, p) /\ Postprocess(SetTasks(T, "STAGING"), slaves, {}, {})
                      /\ UNCHANGED told
      BY <2>2, Zenon DEF LaunchOnUnknown, LaunchOnSlave, LaunchAndRun
    <3>2. \A t \in fresh' : t \in fresh /\ t \notin T /\ taskJob'[t] = taskJob[t]
      BY <3>1, Zenon DEF Record, Typing, TypeOK
    <3>3. \A t \in Tasks \ T : task'[t] \in {task[t], "none"}
      BY <3>1, Zenon DEF Postprocess, SetTasks
    <3> QED BY <3>1, <3>2, <3>3, Zenon DEF Untold, Typing, TypeOK
  <2> QED BY <2>1, <2>2, Zenon DEF LaunchTasks
<1> SUFFICES ASSUME Typing, Owned, Untold, [Next]_vars PROVE Untold'
  BY Zenon
<1>1. ASSUME UNCHANGED <<told, fresh, taskJob>>, \A t \in Tasks : task'[t] \in {task[t], "none"}
      PROVE  Untold'
  BY <1>1, Zenon DEF Untold, Typing, TypeOK
<1>2. ASSUME UNCHANGED <<told, fresh, taskJob>>, NEW S, NEW Q, Postprocess(task, S, {}, Q)
      PROVE  Untold'
  BY <1>1, <1>2, Zenon DEF Postprocess
<1>3. CASE GenerateOffers \/ OtherMessage \/ ReviveOffers \/ UNCHANGED vars
  BY <1>1, <1>2, <1>3, Zenon DEF GenerateOffers, BuildOffers, OtherMessage, ReviveOffers, vars
<1>4. CASE Restart
  BY <1>1, <1>4, Zenon DEF Restart
<1>5. ASSUME NEW o \in outstanding, DeclineOffer(o) PROVE Untold'
  BY <1>2, <1>5, Zenon DEF DeclineOffer, RefuseWithTasks, RefuseIdle
<1>6. ASSUME NEW t \in Tasks, KillTask(t) PROVE Untold'
  <2>1. /\ t \notin fresh /\ UNCHANGED <<taskJob, fresh>> /\ Tell({t}, "KILLED")
        /\ Postprocess(task, slaves, {t}, {})
    BY <1>6, Zenon DEF KillTask, KillAndDelete
  <2>2. /\ \A x \in Tasks \ {t} : told'[x] = told[x] /\ task'[x] \in {task[x], "none"}
        /\ task'[t] = "none"
    BY <2>1, Zenon DEF Tell, Postprocess
  <2> QED BY <2>1, <2>2, <1>UntoldKept, Zenon DEF Untold, Typing, TypeOK
<1>7. ASSUME NEW u \in unacked, StatusUpdateAcknowledgement(u) PROVE Untold'
  BY <1>2, <1>7, Zenon DEF StatusUpdateAcknowledgement
<1>8. ASSUME NEW j \in Jobs, RegisterExecutorRunner(j) \/ ReregisterRunner(j) PROVE Untold'
  <2>1. UNCHANGED <<told, fresh>> /\ (RegisterForWaiting(j) \/ RegisterWithTasks(j))
    BY <1>8, Zenon DEF RegisterExecutorRunner, ReregisterRunner
  <2>2. CASE RegisterForWaiting(j)
    BY <1>2, <2>1, <2>2, Zenon DEF RegisterForWaiting
  <2>3. CASE RegisterWithTasks(j)
    <3>1. \A t \in runnerTasks[j] : t \notin fresh
      BY Zenon DEF Owned, Holds, Assigned
    <3>2. \A t \in Tasks : IF t \in runnerTasks[j] THEN task'[t] \in {"RUNNING", "none"}
                           ELSE task'[t] \in {task[t], "none"} /\ taskJob'[t] = taskJob[t]
      BY <2>3, Zenon DEF RegisterWithTasks, Postprocess, SetTasks
    <3> QED BY <2>1, <3>1, <3>2, <1>UntoldKept, Zenon DEF Untold, Typing, TypeOK
  <2> QED BY <2>1, <2>2, <2>3, Zenon
<1>9. ASSUME NEW j \in Jobs, RegisterExecutor(j) PROVE Untold'
  BY <1>2, <1>9, Zenon DEF RegisterExecutor
<1>10. ASSUME NEW j \in Jobs, ReregisterExecutor(j) PROVE Untold'
  <2>1. CASE Postprocess(task, slaves, {}, {}) /\ UNCHANGED <<taskJob, told>>
    BY <1>2, <1>10, <2>1, Zenon DEF ReregisterExecutor
  <2>2. CASE RestoreTasks(j)
    <3> DEFINE mine == {u \in unacked : u.from = j}
               seen == execTasks[j] \cup {t \in execTasks[j] \cup {t \in Tasks : task[t] # "none"} :
                                             \E u \in mine : u.task = t}
    <3>1. \A t \in Tasks : IF t \in seen THEN task'[t] \in {LastState(mine, t), "none"}
                                         ELSE task'[t] \in {task[t], "none"}
      BY <2>2, Zenon DEF RestoreTasks, Postprocess
    <3>2. \A t \in Tasks : LastState(mine, t) # "STAGING"
      <4> SUFFICES ASSUME NEW t \in Tasks PROVE LastState(mine, t) # "STAGING"
        BY Zenon
      <4>1. CASE \E u \in mine : u.task = t /\ u.state # "RUNNING"
        <5> DEFINE v == CHOOSE u \in mine : u.task = t /\ u.state # "RUNNING"
        <5>1. v \in mine /\ LastState(mine, t) = v.state
          BY <4>1, Zenon DEF LastState
        <5> HIDE DEF v
        <5> QED BY <5>1, Zenon DEF Owned
      <4>2. CASE ~\E u \in mine : u.task = t /\ u.state # "RUNNING"
        BY <4>2, Zenon DEF LastState
      <4> QED BY <4>1, <4>2, Zenon
    <3>3. \A t \in Tasks : (~\E u \in mine : u.task = t) => told'[t] = told[t]
      BY <2>2, Zenon DEF RestoreTasks, Typing, TypeOK
    <3>4. \A u \in mine : u.task \notin fresh
      BY Zenon DEF Owned, Assigned
    <3>5. \A t \in execTasks[j] : t \notin fresh
      BY Zenon DEF Owned, Holds, Assigned
    <3>6. UNCHANGED fresh /\ \A t \in fresh : taskJob'[t] = taskJob[t]
      BY <1>10, <2>2, <3>5, Zenon DEF ReregisterExecutor, RestoreTasks, Typing, TypeOK
    <3>7. \A t \in seen : t \notin fresh
      BY <3>4, <3>5, Zenon
    <3>8. \A t \in Tasks : task[t] # "none" /\ t \notin seen => ~\E u \in mine : u.task = t
      BY Zenon
    <3> HIDE DEF mine, seen
    <3>9. \A t \in fresh : task'[t] = "none" /\ told'[t] = told[t]
      <4>1. \A t \in fresh : t \in Tasks /\ task[t] = "none" /\ t \notin seen
        BY <3>7, Zenon DEF Untold, Typing, TypeOK
      <4>2. \A t \in fresh : ~\E u \in mine : u.task = t
        BY <3>4, Zenon
      <4> QED BY <3>1, <3>3, <4>1, <4>2, Zenon
    <3>10. \A t \in Tasks : task'[t] = "STAGING" => task[t] = "STAGING" /\ told'[t] = told[t]
      BY <3>1, <3>2, <3>3, <3>8, Zenon
    <3> QED BY <3>6, <3>9, <3>10, <1>UntoldKept, Zenon
  <2> QED BY <1>10, <2>1, <2>2, Zenon DEF ReregisterExecutor
<1>11. ASSUME NEW j \in Jobs, StatusUpdate(j) PROVE Untold'
  <2> DEFINE u == Head(updates[j])
             T == {u.task} \cap {t \in Tasks : task[t] # "none"}
             deleted == IF CreditedBy(u) THEN {u.task} ELSE {}
  <2>1. /\ updates[j] \in Seq(Update) /\ updates[j] # <<>>
        /\ Tell({u.task}, u.state) /\ Postprocess(SetTasks(T, u.state), slaves, deleted, {})
        /\ UNCHANGED <<taskJob, fresh>>
    BY <1>11, Zenon DEF StatusUpdate, HandleStatusUpdate, Typing, TypeOK
  <2>2. u \in Items(updates[j]) /\ u \in Update
    BY <2>1, TailFacts, Zenon
  <2> HIDE DEF u
  <2>3. u.task \in Tasks /\ u.task \notin fresh /\ u.state # "STAGING"
    BY <2>2, Zenon DEF Owned, Assigned, Update
  <2>4. /\ \A t \in Tasks \ {u.task} : told'[t] = told[t] /\ task'[t] \in {task[t], "none"}
        /\ task'[u.task] \in {u.state, "none"}
    BY <2>1, <2>3, Zenon DEF Tell, Postprocess, SetTasks
  <2>5. \A t \in fresh : t \in Tasks \ {u.task} /\ task[t] = "none"
    BY <2>3, Zenon DEF Untold, Typing, TypeOK
  <2>6. \A t \in fresh' : task'[t] = "none" /\ told'[t] = told[t] /\ taskJob'[t] = taskJob[t]
    BY <2>1, <2>4, <2>5, Zenon
  <2>7. \A t \in Tasks : task'[t] = "STAGING" => task[t] = "STAGING" /\ told'[t] = told[t]
    BY <2>3, <2>4, Zenon
  <2> QED BY <2>1, <2>6, <2>7, <1>UntoldKept, Zenon
<1>12. ASSUME NEW j \in Jobs, JobEnds(j) \/ ExecMessage(j) \/ ValidateChannel(j) PROVE Untold'
  BY <1>1, <1>12, Zenon DEF JobEnds, ExecMessage, ValidateChannel
<1>13. ASSUME NEW j \in Jobs, NEW t \in Tasks, NEW state \in FinalStates, ExecEnd(j, t, state)
       PROVE  Untold'
  BY <1>1, <1>13, Zenon DEF ExecEnd
<1>14. ASSUME NEW j \in Jobs, DeleteJob(j) PROVE Untold'
  <2>1. task' = SetTasks(TasksOf(j), "LOST") /\ Tell(TasksOf(j), "LOST") /\ UNCHANGED <<taskJob, fresh>>
    BY <1>14, Zenon DEF DeleteJob, DeleteSlavesAndTasks
  <2>2. \A t \in Tasks : IF t \in TasksOf(j) THEN task'[t] = "LOST" /\ task[t] # "none"
                         ELSE task'[t] = task[t] /\ told'[t] = told[t]
    BY <2>1, Zenon DEF SetTasks, Tell, TasksOf
  <2> QED BY <2>1, <2>2, <1>UntoldKept, Zenon DEF Untold, Typing, TypeOK
<1> QED BY <1>3, <1>4, <1>5, <1>6, <1>7, <1>8, <1>9, <1>10, <1>11, <1>12, <1>13, <1>14, <1>UntoldLaunch, Zenon
        DEF Next, Framework, Cluster, Monitors
----------------------------------------------------------------------------
(* A request to run occurs once in an inbox, and none is there for a task  *)
(* that the executor's driver has already.                                 *)
RunsOnce ==
    \A j \in Jobs :
        /\ Once(inbox[j])
        /\ \A t \in execTasks[j] : [type |-> "run", task |-> t] \notin Items(inbox[j])

(* Taking the first message of an inbox keeps that.                        *)
LEMMA OnceTail ==
    ASSUME NEW s \in Seq(Message), s # <<>>, Once(s)
    PROVE  /\ Once(Tail(s))
           /\ Head(s).type = "run" => Head(s) \notin Items(Tail(s))
<1>1. /\ Tail(s) \in Seq(Message) /\ Head(s) = s[1] /\ 1 \in DOMAIN s
      /\ \A i \in DOMAIN Tail(s) : Tail(s)[i] = s[i + 1] /\ i + 1 \in DOMAIN s /\ i \in Nat \ {0}
  BY SMTT(30)
<1>2. Once(Tail(s))
  <2> SUFFICES ASSUME NEW i \in DOMAIN Tail(s), NEW k \in DOMAIN Tail(s),
                      Tail(s)[i].type = "run", Tail(s)[k] = Tail(s)[i]
               PROVE  k = i
    BY Zenon DEF Once
  <2>1. k + 1 = i + 1
    BY <1>1, ZenonT(30) DEF Once
  <2> QED BY <1>1, <2>1, SMTT(30)
<1>3. ASSUME Head(s).type = "run", Head(s) \in Items(Tail(s)) PROVE FALSE
  <2>1. PICK i \in DOMAIN Tail(s) : Tail(s)[i] = Head(s)
    BY <1>3, Zenon DEF Items
  <2>2. s[i + 1] = s[1] /\ s[1].type = "run" /\ i + 1 \in DOMAIN s
    BY <1>1, <1>3, <2>1, Zenon
  <2>3. i + 1 = 1
    BY <1>1, <2>2, Zenon DEF Once
  <2> QED BY <1>1, <2>3, SMTT(30)
<1> QED BY <1>2, <1>3, Zenon

(* Every step keeps it: a task is sent either by launch_tasks, when it is  *)
(* fresh, or by register_executor, to an executor that has got nothing.    *)
LEMMA RunsOnceStep ==
    Typing /\ Cycle /\ Owned /\ RunsOnce /\ [Next]_vars => RunsOnce'
<1> SUFFICES ASSUME Typing, Cycle, Owned, RunsOnce, [Next]_vars PROVE RunsOnce'
  BY Zenon
<1>0. TypeOK /\ \A j \in Jobs : inbox[j] \in Seq(Message) /\ execTasks[j] \subseteq Tasks
  BY Zenon DEF Typing, TypeOK
<1>1. CASE UNCHANGED <<inbox, execTasks>>
  BY <1>1, Zenon DEF RunsOnce
<1>2. CASE GenerateOffers \/ OtherMessage \/ ReviveOffers \/ Restart \/ UNCHANGED vars
  BY <1>1, <1>2, Zenon DEF GenerateOffers, BuildOffers, OtherMessage, ReviveOffers, Restart, vars
<1>3. ASSUME NEW j \in Jobs, JobGone(j) PROVE RunsOnce'
  <2>1. \A i \in Jobs : \/ inbox'[i] = inbox[i] /\ execTasks'[i] = execTasks[i]
                        \/ inbox'[i] = <<>>
    BY <1>3, Zenon DEF JobGone, Typing, TypeOK
  <2>2. Once(<<>>) /\ Items(<<>>) = {}
    BY SMTT(30) DEF Once, Items
  <2> QED BY <2>1, <2>2, Zenon DEF RunsOnce
<1>4. ASSUME NEW j \in Jobs, NEW T \in SUBSET Tasks, ToExecutor(j, "run", T), UNCHANGED execTasks,
             \A t \in T : t \notin execTasks[j] /\ [type |-> "run", task |-> t] \notin Items(inbox[j])
      PROVE  RunsOnce'
  <2>1. /\ \A i \in Jobs \ {j} : inbox'[i] = inbox[i]
        /\ Items(inbox'[j]) = Items(inbox[j]) \cup Requests("run", T)
        /\ Once(inbox[j]) /\ Items(inbox[j]) \cap Requests("run", T) = {} => Once(inbox'[j])
    BY <1>0, <1>4, ToExecutorFacts, Zenon
  <2>2. Items(inbox[j]) \cap Requests("run", T) = {}
    BY <1>4, Zenon DEF Requests
  <2>3. \A t \in execTasks[j] : [type |-> "run", task |-> t] \notin Requests("run", T)
    BY <1>4, Zenon DEF Requests
  <2> QED BY <1>4, <2>1, <2>2, <2>3, Zenon DEF RunsOnce
<1>5. ASSUME NEW o \in outstanding, DeclineOffer(o) PROVE RunsOnce'
  <2>1. CASE JobGone(o.place) /\ o.place \in slaves
    BY <1>3, <2>1, Zenon DEF Typing, TypeOK
  <2> QED BY <1>1, <1>5, <2>1, Zenon DEF DeclineOffer, RefuseWithTasks, RefuseIdle
<1>6. ASSUME NEW o \in outstanding, NEW T \in SUBSET fresh, LaunchTasks(o, T) PROVE RunsOnce'
  <2>1. CASE UNCHANGED <<inbox, execTasks>>
    BY <1>1, <2>1, Zenon
  <2>2. CASE LaunchOnSlave(o, T) /\ job[o.place] = "running"
    <3> DEFINE j == o.place
               run == Runnable(j, T)
    <3>1. /\ j \in Jobs /\ run \in SUBSET T /\ run \in SUBSET Tasks
          /\ ToExecutor(j, "run", run) /\ UNCHANGED execTasks
      BY <2>2, Zenon DEF LaunchOnSlave, LaunchAndRun, Runnable, Typing, TypeOK
    <3> HIDE DEF j, run
    <3>2. \A t \in run : t \notin execTasks[j]
      BY <3>1, Zenon DEF Owned, Holds, Assigned
    <3>3. ASSUME NEW t \in run, [type |-> "run", task |-> t] \in Items(inbox[j]) PROVE FALSE
      <4>1. [type |-> "run", task |-> t].task \notin fresh
        BY <3>1, <3>3, Zenon DEF Owned
      <4> QED BY <3>1, <4>1, Zenon
    <3> QED BY <1>4, <3>1, <3>2, <3>3, Zenon
  <2> QED BY <1>6, <2>1, <2>2, Zenon
          DEF LaunchTasks, LaunchOnPlaceholder, LaunchAndSubmit, LaunchOnUnknown, LaunchOnSlave,
              LaunchAndRun
<1>7. ASSUME NEW t \in Tasks, KillTask(t) PROVE RunsOnce'
  <2>1. CASE JobGone(taskJob[t]) /\ taskJob[t] # NoJob
    BY <1>3, <2>1, Zenon DEF Typing, TypeOK
  <2>2. CASE KillOnSlave(t, SlaveOf(t)) /\ ToExecutor(SlaveOf(t), "kill", {t})
    <3> DEFINE j == SlaveOf(t)
    <3>1. j \in Jobs /\ UNCHANGED execTasks /\ ToExecutor(j, "kill", {t})
      BY <2>2, Zenon DEF KillOnSlave, SlaveOf, Typing, TypeOK
    <3> HIDE DEF j
    <3>2. /\ \A i \in Jobs \ {j} : inbox'[i] = inbox[i]
          /\ Items(inbox'[j]) = Items(inbox[j]) \cup Requests("kill", {t})
          /\ Once(inbox[j]) => Once(inbox'[j])
      BY <1>0, <3>1, ToExecutorFacts, Zenon
    <3>3. \A x \in execTasks[j] : [type |-> "run", task |-> x] \notin Requests("kill", {t})
      BY Zenon DEF Requests
    <3> QED BY <3>1, <3>2, <3>3, Zenon DEF RunsOnce
  <2> QED BY <1>1, <1>7, <2>1, <2>2, Zenon DEF KillTask, KillAndDelete, KillOnSlave, KillWithoutSlave
<1>8. ASSUME NEW u \in unacked, StatusUpdateAcknowledgement(u) PROVE RunsOnce'
  <2>1. UNCHANGED inbox /\ \A i \in Jobs : execTasks'[i] \subseteq execTasks[i]
    BY <1>8, Zenon DEF StatusUpdateAcknowledgement, Typing, TypeOK
  <2> QED BY <2>1, Zenon DEF RunsOnce
<1>9. ASSUME NEW j \in Jobs,
             RegisterExecutorRunner(j) \/ ReregisterRunner(j) \/ ReregisterExecutor(j) \/ StatusUpdate(j)
      PROVE  RunsOnce'
  BY <1>1, <1>9, Zenon
  DEF RegisterExecutorRunner, ReregisterRunner, ReregisterExecutor, StatusUpdate, HandleStatusUpdate
<1>10. ASSUME NEW j \in Jobs, RegisterExecutor(j) PROVE RunsOnce'
  <2>1. /\ ToExecutor(j, "run", Staged(j)) /\ Staged(j) \in SUBSET Tasks /\ UNCHANGED execTasks
        /\ executor[j] = "starting"
    BY <1>10, Zenon DEF RegisterExecutor, Staged
  <2>2. inbox[j] = <<>> /\ execTasks[j] = {}
    BY <2>1, Zenon DEF Cycle, Executors
  <2>3. Items(<<>>) = {}
    BY SMTT(30) DEF Items
  <2> QED BY <1>4, <2>1, <2>2, <2>3, Zenon
<1>11. ASSUME NEW j \in Jobs, ExecMessage(j) PROVE RunsOnce'
  <2>1. /\ inbox[j] # <<>> /\ inbox' = [inbox EXCEPT ![j] = Tail(@)]
        /\ inbox[j] \in Seq(Message) /\ Once(inbox[j])
    BY <1>11, Zenon DEF ExecMessage, RunsOnce, Typing, TypeOK
  <2>2. /\ Once(Tail(inbox[j]))
        /\ Head(inbox[j]).type = "run" => Head(inbox[j]) \notin Items(Tail(inbox[j]))
        /\ Items(Tail(inbox[j])) \subseteq Items(inbox[j])
    BY <2>1, OnceTail, TailFacts, SMTT(30)
  <2>3. inbox'[j] = Tail(inbox[j]) /\ \A i \in Jobs \ {j} : inbox'[i] = inbox[i]
    BY <2>1, Zenon DEF Typing, TypeOK
  <2>4. ASSUME NEW t \in Tasks, ExecRun(j, t) PROVE RunsOnce'
    <3>1. /\ Head(inbox[j]) = [type |-> "run", task |-> t]
          /\ \A i \in Jobs \ {j} : execTasks'[i] = execTasks[i]
          /\ execTasks'[j] = execTasks[j] \cup {t}
      BY <2>4, Zenon DEF ExecRun, Typing, TypeOK
    <3>2. [type |-> "run", task |-> t] \notin Items(Tail(inbox[j]))
      BY <2>2, <3>1, SMTT(30)
    <3> QED BY <2>2, <2>3, <3>1, <3>2, Zenon DEF RunsOnce
  <2>5. ASSUME NEW t \in Tasks, ExecKill(j, t) PROVE RunsOnce'
    <3>1. UNCHANGED execTasks
      BY <2>5, Zenon DEF ExecKill
    <3> QED BY <2>2, <2>3, <3>1, Zenon DEF RunsOnce
  <2> QED BY <1>11, <2>4, <2>5, Zenon DEF ExecMessage
<1>12. ASSUME NEW j \in Jobs, JobEnds(j) PROVE RunsOnce'
  BY <1>3, <1>12, Zenon DEF JobEnds
<1>13. ASSUME NEW j \in Jobs, NEW t \in Tasks, NEW state \in FinalStates, ExecEnd(j, t, state)
       PROVE  RunsOnce'
  BY <1>1, <1>13, Zenon DEF ExecEnd
<1>14. ASSUME NEW j \in Jobs, DeleteJob(j) \/ ValidateChannel(j) PROVE RunsOnce'
  BY <1>1, <1>14, Zenon DEF DeleteJob, DeleteSlavesAndTasks, ValidateChannel
<1> QED BY <1>2, <1>5, <1>6, <1>7, <1>8, <1>9, <1>10, <1>11, <1>12, <1>13, <1>14, Zenon
        DEF Next, Framework, Cluster, Monitors
----------------------------------------------------------------------------
(* The inductive invariant of this module.                                 *)
TasksInv == Typing /\ Cycle /\ Owned /\ Untold /\ RunsOnce

(* It holds initially.                                                     *)
LEMMA TasksInvInit == Init => TasksInv
<1> SUFFICES ASSUME Init PROVE TasksInv
  BY Zenon
<1>1. Items(<<>>) = {} /\ Once(<<>>)
  BY SMTT(30) DEF Items, Once
<1>2. Cycle /\ Untold
  BY Zenon DEF Init, Cycle, Executors, Senders, Unheard, Untold
<1>3. Owned /\ RunsOnce
  BY <1>1, Zenon DEF Init, Owned, Holds, RunsOnce
<1> QED BY <1>2, <1>3, TypingInit, Zenon DEF TasksInv

(* Every step, restarts included, keeps it.                                *)
LEMMA TasksInvStep == TasksInv /\ [Next]_vars => TasksInv'
BY TypingStep, CycleStep, OwnedStep, UntoldStep, RunsOnceStep, Zenon DEF TasksInv

(* A request is queued when it is an element of the inbox.                 *)
LEMMA QueuedItem ==
    ASSUME NEW j, NEW type, NEW t
    PROVE  /\ Queued(j, type, t) <=> [type |-> type, task |-> t] \in Items(inbox[j])
           /\ Queued(j, type, t)' <=> [type |-> type, task |-> t] \in Items(inbox'[j])
BY Zenon DEF Queued, Items

(* The invariant implies that requests to run are unique.                  *)
LEMMA RunsOnceMeans == TasksInv => RunOnce
<1> SUFFICES ASSUME TasksInv, NEW j \in Jobs, NEW i \in DOMAIN inbox[j], inbox[j][i].type = "run"
             PROVE  /\ inbox[j][i].task \notin execTasks[j]
                    /\ \A k \in DOMAIN inbox[j] : inbox[j][k] = inbox[j][i] => k = i
  BY Zenon DEF RunOnce
<1>1. inbox[j] \in Seq(Message) /\ inbox[j][i] \in Message /\ inbox[j][i] \in Items(inbox[j])
  BY TypedItems, Zenon DEF TasksInv, Items
<1>2. inbox[j][i] = [type |-> "run", task |-> inbox[j][i].task]
  BY <1>1, Zenon DEF Message
<1> QED BY <1>1, <1>2, Zenon DEF TasksInv, RunsOnce, Once

(* It implies that a task is at one executor only.                         *)
LEMMA OwnedMeans == TasksInv => ExecutedOnce
<1> SUFFICES ASSUME TasksInv, NEW t \in Tasks, NEW i \in Jobs, NEW j \in Jobs,
                    t \in executing[i] \/ Queued(i, "run", t),
                    t \in executing[j] \/ Queued(j, "run", t)
             PROVE  i = j
  BY Zenon DEF ExecutedOnce
<1>1. \A k \in Jobs : t \in executing[k] => taskJob[t] = k
  BY Zenon DEF TasksInv, Owned, Holds, Assigned
<1>2. ASSUME NEW k \in Jobs, Queued(k, "run", t) PROVE taskJob[t] = k
  <2>1. [type |-> "run", task |-> t] \in Items(inbox[k])
    BY <1>2, QueuedItem, Zenon
  <2> QED BY <2>1, Zenon DEF TasksInv, Owned
<1> QED BY <1>1, <1>2, Zenon

(* The state of the handler is always well typed, and the slaves it        *)
(* records have refused no more offers than they may (mesos_handler.py,    *)
(* whose records are plain dictionaries).                                  *)
THEOREM TypesHold == Spec => []TypeOK
<1>1. TasksInv => TypeOK
  BY Zenon DEF TasksInv, Typing
<1> QED BY <1>1, TasksInvInit, TasksInvStep, PTL DEF Spec

(* No executor is asked twice to run a task, by launch_tasks, by           *)
(* register_executor or after a restart of the service: the check in the   *)
(* driver's runTask, which aborts the executor, never fires.               *)
THEOREM RequestsAreUnique == Spec => []RunOnce
BY TasksInvInit, TasksInvStep, RunsOnceMeans, PTL DEF Spec

(* A task is asked to run once and runs on one executor at most, whatever  *)
(* is lost when the service fails over and whatever runners and executors  *)
(* report when they register again.                                        *)
THEOREM OnePlacePerTask == Spec => []RunsInOnePlace
<1>1. TasksInv => RunsInOnePlace
  BY RunsOnceMeans, OwnedMeans, Zenon DEF RunsInOnePlace
<1> QED BY <1>1, TasksInvInit, TasksInvStep, PTL DEF Spec

(* Only tasks that were not reported as ended are sent.                    *)
RunFollowsNoEnd ==
    \A t \in Tasks, j \in Jobs :
        Queued(j, "run", t)' /\ ~Queued(j, "run", t) => told[t] \cap Terminal = {}

(* Every step is such a step: what is sent is fresh or staging, and of     *)
(* neither anything was told.                                              *)
LEMMA RunFollowsNoEndStep == TasksInv /\ [Next]_vars => RunFollowsNoEnd
<1> SUFFICES ASSUME TasksInv, [Next]_vars PROVE RunFollowsNoEnd
  BY Zenon
<1>0. Typing /\ TypeOK /\ \A i \in Jobs : inbox[i] \in Seq(Message)
  BY Zenon DEF TasksInv, Typing, TypeOK
<1>1. ASSUME \A i \in Jobs : Items(inbox'[i]) \subseteq Items(inbox[i]) PROVE RunFollowsNoEnd
  BY <1>1, QueuedItem, Zenon DEF RunFollowsNoEnd
<1>2. CASE UNCHANGED inbox
  BY <1>1, <1>2, Zenon
<1>3. ASSUME NEW j \in Jobs, JobGone(j) PROVE RunFollowsNoEnd
  <2>1. \A i \in Jobs : inbox'[i] = inbox[i] \/ inbox'[i] = <<>>
    BY <1>0, <1>3, Zenon DEF JobGone, TypeOK
  <2>2. Items(<<>>) = {}
    BY NoItems, Zenon
  <2> QED BY <1>1, <2>1, <2>2, Zenon
<1>4. ASSUME NEW j \in Jobs, NEW T \in SUBSET Tasks, NEW type \in {"run", "kill"},
             ToExecutor(j, type, T), type = "run" => \A t \in T : told[t] = {}
      PROVE  RunFollowsNoEnd
  <2>1. /\ \A i \in Jobs \ {j} : inbox'[i] = inbox[i]
        /\ Items(inbox'[j]) = Items(inbox[j]) \cup Requests(type, T)
    BY <1>0, <1>4, ToExecutorFacts, Zenon
  <2>2. \A t \in Tasks : [type |-> "run", task |-> t] \in Requests(type, T) => told[t] = {}
    BY <1>4, Zenon DEF Requests
  <2> SUFFICES ASSUME NEW t \in Tasks, NEW i \in Jobs, Queued(i, "run", t)', ~Queued(i, "run", t)
               PROVE  told[t] \cap Terminal = {}
    BY Zenon DEF RunFollowsNoEnd
  <2> QED BY <2>1, <2>2, QueuedItem, Zenon
<1>5. ASSUME NEW o \in outstanding, DeclineOffer(o) PROVE RunFollowsNoEnd
  <2>1. CASE JobGone(o.place) /\ o.place \in slaves
    BY <1>0, <1>3, <2>1, Zenon DEF TypeOK
  <2> QED BY <1>2, <1>5, <2>1, Zenon DEF DeclineOffer, RefuseWithTasks, RefuseIdle
<1>6. ASSUME NEW o \in outstanding, NEW T \in SUBSET fresh, LaunchTasks(o, T) PROVE RunFollowsNoEnd
  <2>1. CASE LaunchOnSlave(o, T) /\ job[o.place] = "running"
    <3> DEFINE run == Runnable(o.place, T)
    <3>1. o.place \in Jobs /\ run \in SUBSET T /\ run \in SUBSET Tasks /\ ToExecutor(o.place, "run", run)
      BY <1>0, <2>1, Zenon DEF LaunchOnSlave, LaunchAndRun, Runnable, TypeOK
    <3> HIDE DEF run
    <3>2. \A t \in run : told[t] = {}
      BY <3>1, Zenon DEF TasksInv, Untold
    <3> QED BY <1>4, <3>1, <3>2, Zenon
  <2> QED BY <1>2, <1>6, <2>1, Zenon
          DEF LaunchTasks, LaunchOnPlaceholder, LaunchAndSubmit, LaunchOnUnknown, LaunchOnSlave,
              LaunchAndRun
<1>7. ASSUME NEW t \in Tasks, KillTask(t) PROVE RunFollowsNoEnd
  <2>1. CASE JobGone(taskJob[t]) /\ taskJob[t] # NoJob
    BY <1>0, <1>3, <2>1, Zenon DEF TypeOK
  <2>2. CASE KillOnSlave(t, SlaveOf(t)) /\ ToExecutor(SlaveOf(t), "kill", {t})
    <3>1. SlaveOf(t) \in Jobs
      BY <1>0, <2>2, Zenon DEF KillOnSlave, SlaveOf, TypeOK
    <3> QED BY <1>4, <2>2, <3>1, Zenon
  <2> QED BY <1>2, <1>7, <2>1, <2>2, Zenon DEF KillTask, KillAndDelete, KillOnSlave, KillWithoutSlave
<1>8. ASSUME NEW j \in Jobs, RegisterExecutor(j) PROVE RunFollowsNoEnd
  <2>1. ToExecutor(j, "run", Staged(j)) /\ Staged(j) \in SUBSET Tasks
    BY <1>8, Zenon DEF RegisterExecutor, Staged
  <2>2. \A t \in Staged(j) : told[t] = {}
    BY Zenon DEF Staged, TasksInv, Untold
  <2> QED BY <1>4, <2>1, <2>2, Zenon
<1>9. ASSUME NEW j \in Jobs, ExecMessage(j) PROVE RunFollowsNoEnd
  <2>1. inbox[j] # <<>> /\ inbox' = [inbox EXCEPT ![j] = Tail(@)]
    BY <1>9, Zenon DEF ExecMessage
  <2>2. Items(Tail(inbox[j])) \subseteq Items(inbox[j])
    BY <1>0, <2>1, TailFacts, Zenon
  <2>3. \A i \in Jobs : Items(inbox'[i]) \subseteq Items(inbox[i])
    BY <1>0, <2>1, <2>2, Zenon DEF TypeOK
  <2> QED BY <1>1, <2>3, Zenon
<1>10. ASSUME NEW j \in Jobs, JobEnds(j) PROVE RunFollowsNoEnd
  BY <1>3, <1>10, Zenon DEF JobEnds
<1>11. CASE Framework
  BY <1>2, <1>5, <1>6, <1>7, <1>11, Zenon DEF Framework, ReviveOffers, StatusUpdateAcknowledgement
<1>12. ASSUME NEW j \in Jobs, Cluster(j) PROVE RunFollowsNoEnd
  BY <1>2, <1>8, <1>9, <1>10, <1>12, Zenon
  DEF Cluster, RegisterExecutorRunner, ReregisterRunner, ReregisterExecutor, StatusUpdate,
      HandleStatusUpdate, ExecEnd
<1>13. ASSUME NEW j \in Jobs, Monitors(j) PROVE RunFollowsNoEnd
  BY <1>2, <1>13, Zenon DEF Monitors, DeleteJob, DeleteSlavesAndTasks, ValidateChannel
<1> QED BY <1>2, <1>11, <1>12, <1>13, Zenon
        DEF Next, GenerateOffers, BuildOffers, OtherMessage, Restart, vars

(* A task that was reported to the framework as ended is not sent to an    *)
(* executor afterwards, restarts included (launch_tasks,                   *)
(* register_executor).                                                     *)
THEOREM NoRunAfterEndHolds == Spec => NoRunAfterEnd
<1>1. TasksInv /\ [Next]_vars => [RunFollowsNoEnd]_vars
  BY RunFollowsNoEndStep, Zenon
<1>2. RunFollowsNoEnd = \A t \in Tasks, j \in Jobs :
          Queued(j, "run", t)' /\ ~Queued(j, "run", t) => told[t] \cap Terminal = {}
  BY Zenon DEF RunFollowsNoEnd
<1> QED BY <1>1, TasksInvInit, TasksInvStep, PTL DEF Spec, NoRunAfterEnd, RunFollowsNoEnd

----------------------------------------------------------------------------
(* From here on the service is neither restarted nor replaced.             *)

(* Nobody lost the service: running jobs have a slave, slaves are of jobs  *)
(* that run or ran, and the service has the channel of every executor.     *)
Connected ==
    /\ disconnected = {}
    /\ \A j \in Jobs :
          /\ job[j] = "running" => j \in slaves
          /\ j \in slaves => job[j] \in {"running", "gone"}
          /\ j \in delSlaves => job[j] = "gone"
          /\ executor[j] = "up" => executorChannel[j]
          /\ updates[j] # <<>> => executor[j] = "up" \/ job[j] = "gone"

(* The tasks of a job that is pending are staging, and wait for the slave  *)
(* that will stand for their placeholder; deletions are queued for tasks   *)
(* of jobs that are gone.                                                  *)
Waiting ==
    /\ \A t \in Tasks, j \in Jobs :
          taskJob[t] = j =>
              /\ job[j] # "none"
              /\ job[j] = "pending" => task[t] \in {"STAGING", "none"} /\ taskSlave[t] = Placeholder
    /\ \A t \in delTasks : t \notin fresh /\ taskJob[t] \in Jobs /\ job[taskJob[t]] = "gone"

(* The steps of a service that is not restarted.                           *)
SteadyNext ==
    \/ GenerateOffers \/ OtherMessage \/ ReviveOffers
    \/ \E o \in outstanding : DeclineOffer(o) \/ \E T \in SUBSET fresh : LaunchTasks(o, T)
    \/ \E t \in Tasks : KillTask(t)
    \/ \E u \in unacked : StatusUpdateAcknowledgement(u)
    \/ \E j \in Jobs :
          \/ RegisterExecutorRunner(j) \/ RegisterExecutor(j) \/ StatusUpdate(j)
          \/ ExecMessage(j) \/ JobEnds(j) \/ DeleteJob(j)
          \/ \E t \in Tasks, state \in FinalStates : ExecEnd(j, t, state)

(* Without restarts nobody is told that the service is gone, so that       *)
(* nobody registers again and no channel is found to be invalid.           *)
LEMMA SteadySteps ==
    ASSUME MaxRestarts = 0, Typing, Cycle, Connected, [Next]_vars
    PROVE  SteadyNext \/ UNCHANGED vars
<1>1. ~Restart
  BY SMTT(30) DEF Restart, Typing, TypeOK
<1>2. \A j \in Jobs : ~ReregisterRunner(j) /\ ~ReregisterExecutor(j)
  BY Zenon DEF ReregisterRunner, ReregisterExecutor, Connected
<1>3. ASSUME NEW j \in Jobs, ValidateChannel(j) PROVE FALSE
  <2>1. ~(job[j] = "running" /\ j \notin slaves)
    BY Zenon DEF Connected
  <2>2. ~(executor[j] = "up" /\ (j \notin slaves \/ ~executorChannel[j]))
    BY Zenon DEF Connected, Cycle, Executors
  <2> QED BY <1>3, <2>1, <2>2, Zenon DEF ValidateChannel
<1>4. CASE Framework
  BY <1>4, Zenon DEF Framework, SteadyNext
<1>5. ASSUME NEW j \in Jobs, Cluster(j) \/ Monitors(j) PROVE SteadyNext
  BY <1>2, <1>3, <1>5, Zenon DEF Cluster, Monitors, SteadyNext
<1> QED BY <1>1, <1>4, <1>5, Zenon DEF Next, SteadyNext

(* Every step keeps Connected.                                             *)
LEMMA ConnectedStep ==
    MaxRestarts = 0 /\ Typing /\ Cycle /\ Connected /\ [Next]_vars
        => Connected'
(* Connected is kept when a job leaves.                                    *)
<1>ConnectedGone.
      ASSUME Typing, Cycle, Connected, NEW j \in Jobs, JobGone(j),
             UNCHANGED executorChannel, slaves \ (delSlaves \cup {j}) \subseteq slaves',
             slaves' \subseteq slaves, delSlaves' \subseteq delSlaves
      PROVE  Connected'
  <2> USE <1>ConnectedGone
  <2>1. /\ job'[j] = "gone" /\ \A i \in Jobs \ {j} : job'[i] = job[i] /\ executor'[i] = executor[i]
        /\ executor'[j] = "none" /\ disconnected' = {} /\ UNCHANGED updates
    BY ZenonT(30) DEF JobGone, Connected, Typing, TypeOK
  <2> QED BY <2>1, Zenon DEF Connected
(* It is kept when only deletions are made.                                *)
<1>ConnectedSame.
      ASSUME Connected, UNCHANGED <<job, executor, executorChannel, updates, disconnected>>,
             slaves \ delSlaves \subseteq slaves', slaves' \subseteq slaves, delSlaves' \subseteq delSlaves
      PROVE  Connected'
  BY <1>ConnectedSame, Zenon DEF Connected
<1> SUFFICES ASSUME MaxRestarts = 0, Typing, Cycle, Connected, [Next]_vars
             PROVE  Connected'
  BY Zenon
<1>1. CASE UNCHANGED <<job, executor, executorChannel, updates, disconnected, slaves, delSlaves>>
  BY <1>1, Zenon DEF Connected
<1>2. ASSUME NEW f, NEW T, Postprocess(f, slaves, T, {}),
             UNCHANGED <<job, executor, executorChannel, updates, disconnected>>
      PROVE  Connected'
  BY <1>2, <1>ConnectedSame, Zenon DEF Postprocess
<1>3. CASE GenerateOffers \/ OtherMessage \/ ReviveOffers \/ UNCHANGED vars
  BY <1>1, <1>2, <1>3, Zenon DEF GenerateOffers, BuildOffers, OtherMessage, ReviveOffers, vars
<1>4. ASSUME NEW o \in outstanding, DeclineOffer(o) PROVE Connected'
  <2>1. CASE o.place \in slaves /\ JobGone(o.place) /\ Postprocess(task, slaves, {}, {o.place})
    <3>1. UNCHANGED executorChannel /\ o.place \in Jobs
      BY <1>4, <2>1, Zenon DEF DeclineOffer, Typing, TypeOK
    <3> QED BY <2>1, <3>1, <1>ConnectedGone, Zenon DEF Postprocess
  <2> QED BY <1>2, <1>4, <2>1, Zenon DEF DeclineOffer, RefuseWithTasks, RefuseIdle
<1>5. ASSUME NEW o \in outstanding, NEW T \in SUBSET fresh, LaunchTasks(o, T) PROVE Connected'
  <2>1. CASE LaunchOnPlaceholder(o, T)
    <3>1. PICK N \in Submittable, L \in SUBSET T : ScaleUp(N, {}) /\ Postprocess(SetTasks(T, "STAGING"), slaves, L, {})
      BY <2>1, Zenon DEF LaunchOnPlaceholder, LaunchAndSubmit
    <3>2. \A i \in Jobs : job'[i] = job[i] \/ (job[i] = "none" /\ job'[i] = "pending")
      BY <3>1, SubmitOnly, Zenon
    <3>3. slaves' = slaves \ delSlaves /\ delSlaves' = {}
      BY <3>1, Zenon DEF Postprocess
    <3>4. UNCHANGED <<executor, executorChannel, updates, disconnected>>
      BY <2>1, Zenon DEF LaunchOnPlaceholder, LaunchAndSubmit
    <3> QED BY <3>2, <3>3, <3>4, Zenon DEF Connected, Cycle, Executors
  <2>2. CASE LaunchOnUnknown(o, T)
    BY <1>2, <2>2, Zenon DEF LaunchOnUnknown
  <2>3. CASE LaunchOnSlave(o, T)
    <3>1. /\ o.place \in slaves /\ Postprocess(SetTasks(T, "STAGING"), slaves, {}, {})
          /\ UNCHANGED <<executorChannel, job, disconnected, updates>>
      BY <2>3, Zenon DEF LaunchOnSlave, LaunchAndRun
    <3>2. \/ UNCHANGED executor
          \/ /\ job[o.place] = "running" /\ \A i \in Jobs \ {o.place} : executor'[i] = executor[i]
             /\ executor'[o.place] = executor[o.place]
                \/ (executor[o.place] = "none" /\ executor'[o.place] = "starting")
      BY <2>3, ZenonT(30) DEF LaunchOnSlave, LaunchAndRun, ToRunner, Typing, TypeOK
    <3>3. slaves' = slaves \ delSlaves /\ delSlaves' = {}
      BY <3>1, Zenon DEF Postprocess
    <3> QED BY <3>1, <3>2, <3>3, Zenon DEF Connected
  <2> QED BY <1>5, <2>1, <2>2, <2>3, Zenon DEF LaunchTasks
<1>6. ASSUME NEW t \in Tasks, KillTask(t) PROVE Connected'
  <2>1. UNCHANGED executorChannel /\ Postprocess(task, slaves, {t}, {})
    BY <1>6, Zenon DEF KillTask, KillAndDelete
  <2>2. CASE JobGone(taskJob[t]) /\ taskJob[t] # NoJob
    <3>1. taskJob[t] \in Jobs
      BY <2>2, Zenon DEF Typing, TypeOK
    <3> QED BY <2>1, <2>2, <3>1, <1>ConnectedGone, Zenon DEF Postprocess
  <2> QED BY <1>2, <1>6, <2>1, <2>2, Zenon DEF KillTask, KillAndDelete, KillOnSlave, KillWithoutSlave
<1>7. ASSUME NEW u \in unacked, StatusUpdateAcknowledgement(u) PROVE Connected'
  BY <1>2, <1>7, Zenon DEF StatusUpdateAcknowledgement
<1>8. ASSUME NEW j \in Jobs, RegisterExecutorRunner(j) PROVE Connected'
  <2>1. PICK N \in Submittable : ScaleUp(N, {j})
    BY <1>8, Zenon DEF RegisterExecutorRunner, RegisterForWaiting
  <2>2. /\ job[j] = "pending" /\ j \notin N
        /\ \A i \in Jobs \ {j} : job'[i] = job[i] \/ (job[i] = "none" /\ job'[i] = "pending")
        /\ job'[j] = "running"
    BY <1>8, <2>1, SubmitAndStart, Zenon DEF RegisterExecutorRunner
  <2>3. /\ executorChannel' = [executorChannel EXCEPT ![j] = FALSE] /\ UNCHANGED <<updates, disconnected>>
        /\ slaves' = (slaves \cup {j}) \ delSlaves /\ delSlaves' = {}
        /\ executor'[j] = executor[j] \/ (executor[j] = "none" /\ executor'[j] = "starting")
        /\ \A i \in Jobs \ {j} : executor'[i] = executor[i]
    BY <1>8, ZenonT(30) DEF RegisterExecutorRunner, RegisterForWaiting, NewSlave, ToRunner, Postprocess, Typing, TypeOK
  <2>4. executor[j] = "none" /\ j \notin delSlaves /\ updates[j] = <<>>
    BY <2>2, Zenon DEF Connected, Cycle, Executors
  <2> QED BY <2>2, <2>3, <2>4, SMTT(30) DEF Connected, Cycle, Executors, Typing, TypeOK
<1>9. ASSUME NEW j \in Jobs, RegisterExecutor(j) PROVE Connected'
  <2>1. PICK N \in Submittable : ScaleUp(N, {})
    BY <1>9, Zenon DEF RegisterExecutor
  <2>2. \A i \in Jobs : job'[i] = job[i] \/ (job[i] = "none" /\ job'[i] = "pending")
    BY <2>1, SubmitOnly, Zenon
  <2>3. /\ executorChannel' = [executorChannel EXCEPT ![j] = TRUE] /\ UNCHANGED <<updates, disconnected>>
        /\ slaves' = slaves \ delSlaves /\ delSlaves' = {}
        /\ executor[j] = "starting" /\ executor' = [executor EXCEPT ![j] = "up"]
    BY <1>9, Zenon DEF RegisterExecutor, Postprocess
  <2> QED BY <2>2, <2>3, SMTT(30) DEF Connected, Cycle, Executors, Typing, TypeOK
<1>10. ASSUME NEW j \in Jobs, StatusUpdate(j) PROVE Connected'
  <2>1. /\ updates' = [updates EXCEPT ![j] = Tail(@)] /\ updates[j] # <<>>
        /\ UNCHANGED <<job, executor, executorChannel, disconnected>>
        /\ slaves' = slaves \ delSlaves /\ delSlaves' = {}
    BY <1>10, Zenon DEF StatusUpdate, HandleStatusUpdate, Postprocess
  <2>2. \A i \in Jobs \ {j} : updates'[i] = updates[i]
    BY <2>1, Zenon DEF Typing, TypeOK
  <2> QED BY <2>1, <2>2, Zenon DEF Connected
<1>11. ASSUME NEW j \in Jobs, executor[j] = "up", \A i \in Jobs \ {j} : updates'[i] = updates[i],
              UNCHANGED <<job, executor, executorChannel, disconnected, slaves, delSlaves>>
       PROVE  Connected'
  BY <1>11, Zenon DEF Connected
<1>12. ASSUME NEW j \in Jobs, ExecMessage(j) PROVE Connected'
  <2>1. \A i \in Jobs \ {j} : updates'[i] = updates[i]
    <3>1. updates' = updates \/ \E t \in Tasks, s \in {"RUNNING", "KILLED"} : Report(j, t, s)
      BY <1>12, Zenon DEF ExecMessage, ExecRun, ExecKill
    <3>2. updates \in [Jobs -> Seq(Update)]
      BY Zenon DEF Typing, TypeOK
    <3> QED BY <3>1, <3>2, Zenon DEF Report
  <2> QED BY <1>11, <1>12, <2>1, Zenon DEF ExecMessage
<1>13. ASSUME NEW j \in Jobs, JobEnds(j) PROVE Connected'
  BY <1>13, <1>ConnectedGone, Zenon DEF JobEnds
<1>14. ASSUME NEW j \in Jobs, DeleteJob(j) PROVE Connected'
  <2>1. /\ job[j] = "gone" /\ delSlaves' = delSlaves \cup SlavesOf(j) /\ SlavesOf(j) \subseteq {j}
        /\ UNCHANGED <<job, executor, executorChannel, updates, disconnected, slaves>>
    BY <1>14, Zenon DEF DeleteJob, DeleteSlavesAndTasks, SlavesOf
  <2> QED BY <2>1, Zenon DEF Connected
<1>15. ASSUME NEW j \in Jobs, NEW t \in Tasks, NEW state \in FinalStates, ExecEnd(j, t, state)
       PROVE  Connected'
  <2>1. executor[j] = "up" /\ \A i \in Jobs \ {j} : updates'[i] = updates[i]
    BY <1>15, Zenon DEF ExecEnd, Report, Cycle, Executors, Typing, TypeOK
  <2> QED BY <1>11, <1>15, <2>1, Zenon DEF ExecEnd
<1> QED BY <1>3, <1>4, <1>5, <1>6, <1>7, <1>8, <1>9, <1>10, <1>12, <1>13, <1>14, <1>15, SteadySteps, Zenon
        DEF SteadyNext

(* A job is submitted, starts and leaves, and never comes back.            *)
JobMoves ==
    \A i \in Jobs :
        \/ job'[i] = job[i] \/ job'[i] = "gone"
        \/ job[i] = "none" /\ job'[i] = "pending"
        \/ job[i] = "pending" /\ job'[i] = "running"

(* Leaving is such a move.                                                 *)
LEMMA JobGoneMoves ==
    ASSUME Typing, NEW j \in Jobs, JobGone(j)
    PROVE  JobMoves
BY Zenon DEF JobMoves, JobGone, Typing, TypeOK

(* Every step keeps Waiting.                                               *)
LEMMA WaitingStep ==
    MaxRestarts = 0 /\ Typing /\ Cycle /\ Owned /\ Untold /\ Connected /\ Waiting
    /\ [Next]_vars
        => Waiting'
(* Waiting is kept by steps that launch nothing.                           *)
<1>WaitingKept.
      ASSUME Typing, Waiting, UNCHANGED <<taskJob, taskSlave, fresh>>, delTasks' \subseteq delTasks,
             JobMoves,
             \A t \in Tasks : \/ task'[t] \in {task[t], "none"}
                              \/ taskJob[t] \in Jobs /\ job[taskJob[t]] \in {"running", "gone"}
      PROVE  Waiting'
  <2> USE <1>WaitingKept
  <2>1. ASSUME NEW t \in Tasks, NEW j \in Jobs, taskJob'[t] = j
        PROVE  /\ job'[j] # "none"
               /\ job'[j] = "pending" => task'[t] \in {"STAGING", "none"} /\ taskSlave'[t] = Placeholder
    <3>1. job[j] # "none" /\ (job[j] = "pending" => task[t] \in {"STAGING", "none"} /\ taskSlave[t] = Placeholder)
      BY <2>1, Zenon DEF Waiting
    <3>2. task'[t] \in {task[t], "none"} \/ job[j] \in {"running", "gone"}
      BY <2>1, Zenon
    <3> QED BY <2>1, <3>1, <3>2, Zenon DEF JobMoves
  <2>2. \A t \in delTasks' : t \notin fresh' /\ taskJob'[t] \in Jobs /\ job'[taskJob'[t]] = "gone"
    <3> SUFFICES ASSUME NEW t \in delTasks'
                 PROVE  t \notin fresh' /\ taskJob'[t] \in Jobs /\ job'[taskJob'[t]] = "gone"
      BY Zenon
    <3>1. t \notin fresh' /\ taskJob'[t] = taskJob[t] /\ taskJob[t] \in Jobs /\ job[taskJob[t]] = "gone"
      BY Zenon DEF Waiting
    <3> QED BY <3>1, Zenon DEF JobMoves
  <2> QED BY <2>1, <2>2, Zenon DEF Waiting
(* It is kept by launch_tasks.                                             *)
<1>WaitingLaunch.
      ASSUME Typing, Connected, Waiting, NEW o \in outstanding, NEW T \in SUBSET fresh, LaunchTasks(o, T)
      PROVE  Waiting'
  <2> USE <1>WaitingLaunch
  <2>0. fresh \subseteq Tasks /\ \A t \in delTasks : t \notin fresh
    BY Zenon DEF Typing, TypeOK, Waiting
  <2>1. ASSUME NEW j, NEW p, Record(T, j, p), delTasks' = {}, JobMoves,
               j \in Jobs => job'[j] # "none",
               j \in Jobs /\ job'[j] = "pending" => p = Placeholder,
               \A t \in T : task'[t] \in {"STAGING", "none"},
               \A t \in Tasks \ T : task'[t] \in {task[t], "none"}
        PROVE  Waiting'
    <3>1. \A t \in T : taskJob'[t] = j /\ taskSlave'[t] = p
      BY <2>0, <2>1, Zenon DEF Record
    <3>2. \A t \in Tasks \ T : taskJob'[t] = taskJob[t] /\ taskSlave'[t] = taskSlave[t]
      BY <2>1, Zenon DEF Record
    <3>3. ASSUME NEW t \in Tasks, NEW i \in Jobs, taskJob'[t] = i
          PROVE  /\ job'[i] # "none"
                 /\ job'[i] = "pending" => task'[t] \in {"STAGING", "none"} /\ taskSlave'[t] = Placeholder
      <4>1. CASE t \in T
        BY <2>1, <3>1, <3>3, <4>1, Zenon
      <4>2. CASE t \notin T
        <5>1. taskJob[t] = i /\ taskSlave'[t] = taskSlave[t] /\ task'[t] \in {task[t], "none"}
          BY <2>1, <3>2, <3>3, <4>2, Zenon
        <5>2. job[i] # "none" /\ (job[i] = "pending" => task[t] \in {"STAGING", "none"} /\ taskSlave[t] = Placeholder)
          BY <5>1, Zenon DEF Waiting
        <5>3. job'[i] # "none" /\ (job'[i] = "pending" => job[i] = "pending")
          BY <2>1, <5>2, Zenon DEF JobMoves
        <5> QED BY <5>1, <5>2, <5>3, Zenon
      <4> QED BY <4>1, <4>2, Zenon
    <3> QED BY <2>1, <3>3, Zenon DEF Waiting
  <2>2. ASSUME NEW L, NEW S, Postprocess(SetTasks(T, "STAGING"), S, L, {})
        PROVE  /\ delTasks' = {} /\ \A t \in T : task'[t] \in {"STAGING", "none"}
               /\ \A t \in Tasks \ T : task'[t] \in {task[t], "none"}
    BY <2>0, <2>2, Zenon DEF Postprocess, SetTasks
  <2>3. CASE LaunchOnPlaceholder(o, T)
    <3>1. PICK N \in Submittable, L \in SUBSET T :
            /\ ScaleUp(N, {}) /\ Postprocess(SetTasks(T, "STAGING"), slaves, L, {})
            /\ Record(T, IF N = {} THEN NoJob ELSE CHOOSE x \in N : TRUE, Placeholder)
      BY <2>3, Zenon DEF LaunchOnPlaceholder, LaunchAndSubmit
    <3> DEFINE j == IF N = {} THEN NoJob ELSE CHOOSE x \in N : TRUE
    <3>2. JobMoves /\ \A i \in N : job'[i] = "pending"
      BY <3>1, SubmitFacts, Zenon DEF JobMoves
    <3>3. j = NoJob \/ j \in N
      BY SubmittedJob, Zenon
    <3>4. Record(T, j, Placeholder)
      BY <3>1, Zenon
    <3> HIDE DEF j
    <3> QED BY <2>1, <2>2, <3>1, <3>2, <3>3, <3>4, NamesAssumption, Zenon
  <2>4. CASE LaunchOnUnknown(o, T)
    <3>1. Record(T, NoJob, o.place) /\ Postprocess(SetTasks(T, "STAGING"), slaves, {}, {}) /\ UNCHANGED job
      BY <2>4, Zenon DEF LaunchOnUnknown
    <3>2. JobMoves
      BY <3>1, Zenon DEF JobMoves
    <3> QED BY <2>1, <2>2, <3>1, <3>2, NamesAssumption, Zenon
  <2>5. CASE LaunchOnSlave(o, T)
    <3>1. /\ Record(T, o.place, o.place) /\ Postprocess(SetTasks(T, "STAGING"), slaves, {}, {})
          /\ UNCHANGED job /\ o.place \in slaves
      BY <2>5, Zenon DEF LaunchOnSlave, LaunchAndRun
    <3>2. JobMoves /\ job[o.place] \in {"running", "gone"}
      BY <3>1, Zenon DEF JobMoves, Connected, Typing, TypeOK
    <3> QED BY <2>1, <2>2, <3>1, <3>2, Zenon
  <2> QED BY <2>3, <2>4, <2>5, Zenon DEF LaunchTasks
<1> SUFFICES ASSUME MaxRestarts = 0, Typing, Cycle, Owned, Untold, Connected, Waiting,
                    [Next]_vars
             PROVE  Waiting'
  BY Zenon
<1>1. CASE UNCHANGED <<taskVars, fresh, delTasks, job>>
  BY <1>1, Zenon DEF Waiting
<1>2. ASSUME NEW S, NEW T, NEW Q, Postprocess(task, S, T, Q), UNCHANGED <<taskJob, taskSlave, fresh>>,
             JobMoves
      PROVE  Waiting'
  BY <1>2, <1>WaitingKept, Zenon DEF Postprocess
<1>3. ASSUME NEW S, NEW T, NEW Q, Postprocess(task, S, T, Q), UNCHANGED <<taskJob, taskSlave, fresh, job>>
      PROVE  Waiting'
  BY <1>2, <1>3, Zenon DEF JobMoves
<1>4. CASE GenerateOffers \/ OtherMessage \/ ReviveOffers \/ UNCHANGED vars
  BY <1>1, <1>3, <1>4, Zenon DEF GenerateOffers, BuildOffers, OtherMessage, ReviveOffers, vars
<1>5. ASSUME NEW o \in outstanding, DeclineOffer(o) PROVE Waiting'
  <2>1. CASE o.place \in slaves /\ JobGone(o.place) /\ Postprocess(task, slaves, {}, {o.place})
    <3>1. JobMoves
      BY <2>1, JobGoneMoves, Zenon DEF Typing, TypeOK
    <3> QED BY <1>2, <1>5, <2>1, <3>1, Zenon DEF DeclineOffer
  <2> QED BY <1>3, <1>5, <2>1, Zenon DEF DeclineOffer, RefuseWithTasks, RefuseIdle
<1>6. ASSUME NEW t \in Tasks, KillTask(t) PROVE Waiting'
  <2>1. UNCHANGED <<taskJob, taskSlave, fresh>> /\ Postprocess(task, slaves, {t}, {})
    BY <1>6, Zenon DEF KillTask, KillAndDelete
  <2>2. CASE JobGone(taskJob[t]) /\ taskJob[t] # NoJob
    <3>1. JobMoves
      BY <2>2, JobGoneMoves, Zenon DEF Typing, TypeOK
    <3> QED BY <1>2, <2>1, <3>1, Zenon
  <2> QED BY <1>3, <1>6, <2>1, <2>2, Zenon DEF KillTask, KillAndDelete, KillOnSlave, KillWithoutSlave
<1>7. ASSUME NEW u \in unacked, StatusUpdateAcknowledgement(u) PROVE Waiting'
  BY <1>3, <1>7, Zenon DEF StatusUpdateAcknowledgement
<1>8. ASSUME NEW j \in Jobs, RegisterExecutorRunner(j) PROVE Waiting'
  <2>1. PICK N \in Submittable : ScaleUp(N, {j})
    BY <1>8, Zenon DEF RegisterExecutorRunner, RegisterForWaiting
  <2>2. JobMoves
    BY <1>8, <2>1, SubmitFacts, Zenon DEF RegisterExecutorRunner, JobMoves
  <2> QED BY <1>2, <1>8, <2>2, Zenon DEF RegisterExecutorRunner, RegisterForWaiting
<1>9. ASSUME NEW j \in Jobs, RegisterExecutor(j) PROVE Waiting'
  <2>1. PICK N \in Submittable : ScaleUp(N, {})
    BY <1>9, Zenon DEF RegisterExecutor
  <2>2. JobMoves
    BY <2>1, SubmitFacts, Zenon DEF JobMoves
  <2> QED BY <1>2, <1>9, <2>2, Zenon DEF RegisterExecutor
<1>10. ASSUME NEW j \in Jobs, StatusUpdate(j) PROVE Waiting'
  <2> DEFINE u == Head(updates[j])
             T == {u.task} \cap {t \in Tasks : task[t] # "none"}
             deleted == IF CreditedBy(u) THEN {u.task} ELSE {}
  <2>1. /\ updates[j] \in Seq(Update) /\ updates[j] # <<>>
        /\ Postprocess(SetTasks(T, u.state), slaves, deleted, {})
        /\ UNCHANGED <<taskJob, taskSlave, fresh, job>>
    BY <1>10, Zenon DEF StatusUpdate, HandleStatusUpdate, Typing, TypeOK
  <2>2. u \in Items(updates[j])
    BY <2>1, TailFacts, Zenon
  <2> HIDE DEF u
  <2>3. taskJob[u.task] = j /\ job[j] \in {"running", "gone"}
    BY <2>1, <2>2, Zenon DEF Owned, Assigned, Connected, Cycle, Executors
  <2>4. delTasks' = {} /\ \A t \in Tasks \ {u.task} : task'[t] \in {task[t], "none"}
    BY <2>1, Zenon DEF Postprocess, SetTasks
  <2>5. JobMoves
    BY <2>1, Zenon DEF JobMoves
  <2> QED BY <2>1, <2>3, <2>4, <2>5, <1>WaitingKept, Zenon
<1>11. ASSUME NEW j \in Jobs, JobEnds(j) PROVE Waiting'
  <2>1. JobMoves
    BY <1>11, JobGoneMoves, Zenon DEF JobEnds
  <2> QED BY <1>11, <2>1, <1>WaitingKept, Zenon DEF JobEnds
<1>12. ASSUME NEW j \in Jobs, DeleteJob(j) PROVE Waiting'
  <2>1. /\ task' = SetTasks(TasksOf(j), "LOST") /\ delTasks' = delTasks \cup TasksOf(j)
        /\ UNCHANGED <<taskJob, taskSlave, fresh, job>> /\ job[j] = "gone"
    BY <1>12, Zenon DEF DeleteJob, DeleteSlavesAndTasks
  <2>2. \A t \in TasksOf(j) : t \notin fresh /\ taskJob[t] = j
    BY Zenon DEF TasksOf, Untold
  <2>3. \A t \in Tasks \ TasksOf(j) : task'[t] = task[t]
    BY <2>1, Zenon DEF SetTasks
  <2> QED BY <2>1, <2>2, <2>3, Zenon DEF Waiting
<1>13. ASSUME NEW j \in Jobs, ExecMessage(j) \/ (\E t \in Tasks, state \in FinalStates : ExecEnd(j, t, state))
       PROVE  Waiting'
  BY <1>1, <1>13, Zenon DEF ExecMessage, ExecEnd
<1> QED BY <1>4, <1>5, <1>6, <1>7, <1>8, <1>9, <1>10, <1>11, <1>12, <1>13, <1>WaitingLaunch, SteadySteps, Zenon
        DEF SteadyNext
----------------------------------------------------------------------------
(* The request to run a task.                                              *)
Run(t) == [type |-> "run", task |-> t]

(* The request to kill a task.                                             *)
Kill(t) == [type |-> "kill", task |-> t]

(* That a task runs is the first that is reported of it.                   *)
RunningFirst(s) == \A i, k \in DOMAIN s : i < k /\ s[i].task = s[k].task => s[k].state # "RUNNING"

(* So it is where nothing is.                                              *)
LEMMA NoUpdates == RunningFirst(<<>>)
BY SMTT(30) DEF RunningFirst

(* Taking the oldest update keeps that, and nothing later reports its task *)
(* as running.                                                             *)
LEMMA RunningFirstTail ==
    ASSUME NEW s \in Seq(Update), s # <<>>, RunningFirst(s)
    PROVE  /\ RunningFirst(Tail(s))
           /\ \A u \in Items(Tail(s)) : u.task = Head(s).task => u.state # "RUNNING"
<1>1. /\ Tail(s) \in Seq(Update) /\ Head(s) = s[1] /\ 1 \in DOMAIN s
      /\ \A i \in DOMAIN Tail(s) : Tail(s)[i] = s[i + 1] /\ i + 1 \in DOMAIN s /\ i \in Nat \ {0}
  BY SMTT(30)
<1>2. RunningFirst(Tail(s))
  <2> SUFFICES ASSUME NEW i \in DOMAIN Tail(s), NEW k \in DOMAIN Tail(s), i < k,
                      Tail(s)[i].task = Tail(s)[k].task
               PROVE  Tail(s)[k].state # "RUNNING"
    BY Zenon DEF RunningFirst
  <2>1. i + 1 < k + 1 /\ s[i + 1].task = s[k + 1].task
    BY <1>1, SMTT(30)
  <2> QED BY <1>1, <2>1, Zenon DEF RunningFirst
<1>3. ASSUME NEW u \in Items(Tail(s)), u.task = Head(s).task PROVE u.state # "RUNNING"
  <2>1. PICK i \in DOMAIN Tail(s) : Tail(s)[i] = u
    BY Zenon DEF Items
  <2>2. 1 < i + 1 /\ s[1].task = s[i + 1].task
    BY <1>1, <1>3, <2>1, SMTT(30)
  <2> QED BY <1>1, <2>1, <2>2, Zenon DEF RunningFirst
<1> QED BY <1>2, <1>3, Zenon

(* Taking the first message of an inbox keeps kills behind runs.           *)
LEMMA KillLastTail ==
    ASSUME NEW s \in Seq(Message), s # <<>>, KillLast(s)
    PROVE  /\ KillLast(Tail(s))
           /\ Head(s).type = "kill" => Run(Head(s).task) \notin Items(Tail(s))
<1>1. /\ Tail(s) \in Seq(Message) /\ Head(s) = s[1] /\ 1 \in DOMAIN s
      /\ \A i \in DOMAIN Tail(s) : Tail(s)[i] = s[i + 1] /\ i + 1 \in DOMAIN s /\ i \in Nat \ {0}
  BY SMTT(30)
<1>2. KillLast(Tail(s))
  <2> SUFFICES ASSUME NEW i \in DOMAIN Tail(s), NEW k \in DOMAIN Tail(s),
                      Tail(s)[i].type = "kill", Tail(s)[k].type = "run", Tail(s)[k].task = Tail(s)[i].task
               PROVE  k < i
    BY Zenon DEF KillLast
  <2>1. k + 1 < i + 1
    BY <1>1, Zenon DEF KillLast
  <2> QED BY <1>1, <2>1, SMTT(30)
<1>3. ASSUME Head(s).type = "kill", Run(Head(s).task) \in Items(Tail(s)) PROVE FALSE
  <2>1. PICK i \in DOMAIN Tail(s) : Tail(s)[i] = Run(Head(s).task)
    BY <1>3, Zenon DEF Items
  <2>2. s[i + 1].type = "run" /\ s[i + 1].task = s[1].task /\ s[1].type = "kill"
    BY <1>1, <1>3, <2>1, SMTT(30) DEF Run
  <2>3. i + 1 < 1
    BY <1>1, <2>2, Zenon DEF KillLast
  <2> QED BY <1>1, <2>3, SMTT(30)
<1> QED BY <1>2, <1>3, Zenon

(* The executor is asked to run tasks that it has never heard of.          *)
Sends(j, T) ==
    /\ ToExecutor(j, "run", T) /\ UNCHANGED <<executing, updates>>
    /\ \A t \in T :
          /\ told[t] = {} /\ t \notin executing[j] /\ task'[t] \in {"STAGING", "none"}
          /\ Run(t) \notin Items(inbox[j]) /\ Kill(t) \notin Items(inbox[j])
          /\ \A u \in Items(updates[j]) : u.task # t

(* It is asked to kill a task.                                             *)
SendsKill(j, t) ==
    KillTask(t) /\ SlaveOf(t) = j /\ ToExecutor(j, "kill", {t}) /\ UNCHANGED <<executing, updates>>

(* All that can happen to inboxes, executing tasks and updates.            *)
ExecutorEffect ==
    \/ UNCHANGED <<inbox, executing, updates>>
    \/ \E j \in Jobs :
          \/ JobGone(j) \/ StatusUpdate(j) \/ ExecMessage(j)
          \/ \E T \in SUBSET Tasks : Sends(j, T)
          \/ \E t \in Tasks : SendsKill(j, t)
          \/ \E t \in Tasks, state \in FinalStates : ExecEnd(j, t, state)

(* Every step has one of these effects.                                    *)
LEMMA ExecutorSteps ==
    ASSUME MaxRestarts = 0, TasksInv, Connected, [Next]_vars
    PROVE  ExecutorEffect
<1>0. Typing /\ TypeOK /\ Cycle /\ Owned /\ Untold /\ Items(<<>>) = {}
  BY NoItems, Zenon DEF TasksInv, Typing
<1>1. CASE UNCHANGED <<inbox, executing, updates>>
  BY <1>1, Zenon DEF ExecutorEffect
<1>2. CASE \E j \in Jobs : JobGone(j)
  BY <1>2, Zenon DEF ExecutorEffect
<1>3. ASSUME NEW o \in outstanding, DeclineOffer(o) PROVE ExecutorEffect
  <2>1. CASE JobGone(o.place) /\ o.place \in slaves
    BY <1>0, <1>2, <2>1, Zenon DEF TypeOK
  <2> QED BY <1>1, <1>3, <2>1, Zenon DEF DeclineOffer, RefuseWithTasks, RefuseIdle
<1>4. ASSUME NEW o \in outstanding, NEW T \in SUBSET fresh, LaunchTasks(o, T) PROVE ExecutorEffect
  <2>1. CASE LaunchOnSlave(o, T) /\ job[o.place] = "running"
    <3> DEFINE j == o.place
               run == Runnable(j, T)
    <3>1. /\ j \in Jobs /\ run \in SUBSET T /\ run \in SUBSET Tasks /\ T \in SUBSET fresh
          /\ ToExecutor(j, "run", run) /\ UNCHANGED <<executing, updates>>
          /\ Postprocess(SetTasks(T, "STAGING"), slaves, {}, {})
      BY <1>0, <2>1, ZenonT(30) DEF LaunchOnSlave, LaunchAndRun, Runnable, TypeOK
    <3> HIDE DEF j, run
    <3>2. \A t \in run : told[t] = {} /\ t \notin executing[j]
      BY <1>0, <3>1, SMTT(30) DEF Owned, Holds, Assigned, Untold
    <3>3. \A t \in run : task'[t] \in {"STAGING", "none"}
      BY <3>1, Zenon DEF Postprocess, SetTasks
    <3>4. \A t \in run : Run(t) \notin Items(inbox[j]) /\ Kill(t) \notin Items(inbox[j])
      <4>1. \A m \in Items(inbox[j]) : m.task \notin run
        BY <1>0, <3>1, Zenon DEF Owned
      <4>2. \A t \in run : Run(t).task = t /\ Kill(t).task = t
        BY Zenon DEF Run, Kill
      <4> QED BY <4>1, <4>2, Zenon
    <3>5. \A t \in run : \A u \in Items(updates[j]) : u.task # t
      BY <1>0, <3>1, SMTT(30) DEF Owned, Assigned
    <3>6. Sends(j, run)
      BY <3>1, <3>2, <3>3, <3>4, <3>5, Zenon DEF Sends
    <3> QED BY <3>1, <3>6, Zenon DEF ExecutorEffect
  <2> QED BY <1>1, <1>4, <2>1, Zenon
          DEF LaunchTasks, LaunchOnPlaceholder, LaunchAndSubmit, LaunchOnUnknown, LaunchOnSlave,
              LaunchAndRun
<1>5. ASSUME NEW t \in Tasks, KillTask(t) PROVE ExecutorEffect
  <2>1. CASE JobGone(taskJob[t]) /\ taskJob[t] # NoJob
    BY <1>0, <1>2, <2>1, Zenon DEF TypeOK
  <2>2. CASE KillOnSlave(t, SlaveOf(t)) /\ ToExecutor(SlaveOf(t), "kill", {t})
    <3>1. SlaveOf(t) \in Jobs /\ UNCHANGED <<executing, updates>>
      BY <1>0, <2>2, Zenon DEF KillOnSlave, SlaveOf, TypeOK
    <3>2. SendsKill(SlaveOf(t), t)
      BY <1>5, <2>2, <3>1, Zenon DEF SendsKill
    <3> QED BY <3>1, <3>2, Zenon DEF ExecutorEffect
  <2> QED BY <1>1, <1>5, <2>1, <2>2, Zenon DEF KillTask, KillAndDelete, KillOnSlave, KillWithoutSlave
<1>6. ASSUME NEW j \in Jobs, RegisterExecutor(j) PROVE ExecutorEffect
  <2>1. /\ ToExecutor(j, "run", Staged(j)) /\ Staged(j) \in SUBSET Tasks
        /\ UNCHANGED <<executing, updates>>
        /\ executor[j] = "starting" /\ Postprocess(task, slaves, {}, {})
    BY <1>6, Zenon DEF RegisterExecutor, Staged
  <2>2. inbox[j] = <<>> /\ executing[j] = {} /\ updates[j] = <<>>
    BY <1>0, <2>1, Zenon DEF Cycle, Executors, Connected
  <2>3. \A t \in Staged(j) : told[t] = {} /\ task'[t] \in {"STAGING", "none"}
    BY <1>0, <2>1, Zenon DEF Staged, Untold, Postprocess
  <2>4. Sends(j, Staged(j))
    BY <1>0, <2>1, <2>2, <2>3, Zenon DEF Sends
  <2> QED BY <2>1, <2>4, Zenon DEF ExecutorEffect
<1>7. CASE \E j \in Jobs : JobEnds(j)
  BY <1>2, <1>7, Zenon DEF JobEnds
<1>8. CASE \E j \in Jobs : \/ StatusUpdate(j) \/ ExecMessage(j)
                           \/ \E t \in Tasks, state \in FinalStates : ExecEnd(j, t, state)
  BY <1>8, Zenon DEF ExecutorEffect
<1>9. CASE \/ GenerateOffers \/ OtherMessage \/ ReviveOffers \/ UNCHANGED vars
           \/ \E u \in unacked : StatusUpdateAcknowledgement(u)
           \/ \E j \in Jobs : RegisterExecutorRunner(j) \/ DeleteJob(j)
  BY <1>1, <1>9, Zenon
  DEF GenerateOffers, BuildOffers, OtherMessage, ReviveOffers, vars, StatusUpdateAcknowledgement,
      RegisterExecutorRunner, DeleteJob, DeleteSlavesAndTasks
<1> QED BY <1>0, <1>3, <1>4, <1>5, <1>6, <1>7, <1>8, <1>9, SteadySteps, Zenon DEF SteadyNext

(* All that can happen to the record of a task: it stays, is deleted or    *)
(* created, takes the state of a status update, or is lost with its job.   *)
TaskEffect(t) ==
    \/ task'[t] \in {task[t], "none"}
    \/ t \in fresh /\ task'[t] \in {"STAGING", "none"}
    \/ /\ task[t] # "none"
       /\ \E j \in Jobs : /\ StatusUpdate(j) /\ updates[j] # <<>> /\ updates[j] \in Seq(Update)
                          /\ updates'[j] = Tail(updates[j])
                          /\ Head(updates[j]).task = t /\ task'[t] = Head(updates[j]).state
                          /\ t \notin delTasks
    \/ /\ task[t] # "none" /\ task'[t] = "LOST" /\ t \in delTasks'
       /\ taskJob[t] \in Jobs /\ job[taskJob[t]] = "gone"

(* Every step has one of these effects on every task, and makes either all *)
(* the queued deletions or none.                                           *)
LEMMA TaskSteps ==
    ASSUME MaxRestarts = 0, TasksInv, Connected, [Next]_vars
    PROVE  /\ \A t \in Tasks : TaskEffect(t)
           /\ \/ delTasks \subseteq delTasks'
              \/ \A t \in delTasks : task'[t] = "none"
<1>0. Typing /\ TypeOK /\ Cycle /\ Owned /\ Untold
  BY Zenon DEF TasksInv, Typing
<1> DEFINE Goal == /\ \A t \in Tasks : TaskEffect(t)
                   /\ \/ delTasks \subseteq delTasks'
                      \/ \A t \in delTasks : task'[t] = "none"
<1>1. CASE UNCHANGED <<task, delTasks>>
  BY <1>1, Zenon DEF TaskEffect
<1>2. ASSUME NEW S, NEW T, NEW Q, Postprocess(task, S, T, Q) PROVE Goal
  BY <1>0, <1>2, Zenon DEF Postprocess, TaskEffect, TypeOK
<1>3. CASE \/ \E o \in outstanding : DeclineOffer(o)
           \/ \E t \in Tasks : KillTask(t)
           \/ \E u \in unacked : StatusUpdateAcknowledgement(u)
           \/ \E j \in Jobs : RegisterExecutorRunner(j) \/ RegisterExecutor(j)
           \/ OtherMessage \/ ReviveOffers
  BY <1>2, <1>3, Zenon
  DEF DeclineOffer, RefuseWithTasks, RefuseIdle, KillTask, KillAndDelete, StatusUpdateAcknowledgement,
      RegisterExecutorRunner, RegisterForWaiting, RegisterExecutor, OtherMessage, ReviveOffers
<1>4. CASE \/ GenerateOffers \/ UNCHANGED vars
           \/ \E j \in Jobs : \/ JobEnds(j) \/ ExecMessage(j)
                              \/ \E t \in Tasks, state \in FinalStates : ExecEnd(j, t, state)
  BY <1>1, <1>4, Zenon DEF GenerateOffers, BuildOffers, vars, JobEnds, ExecMessage, ExecEnd
<1>5. ASSUME NEW o \in outstanding, NEW T \in SUBSET fresh, LaunchTasks(o, T) PROVE Goal
  <2>1. PICK L : Postprocess(SetTasks(T, "STAGING"), slaves, L, {})
    BY <1>5, Zenon
    DEF LaunchTasks, LaunchOnPlaceholder, LaunchAndSubmit, LaunchOnUnknown, LaunchOnSlave, LaunchAndRun
  <2> QED BY <1>0, <2>1, Zenon DEF Postprocess, SetTasks, TaskEffect, TypeOK
<1>6. ASSUME NEW j \in Jobs, StatusUpdate(j) PROVE Goal
  <2> DEFINE u == Head(updates[j])
             T == {u.task} \cap {t \in Tasks : task[t] # "none"}
             deleted == IF CreditedBy(u) THEN {u.task} ELSE {}
  <2>1. /\ updates[j] \in Seq(Update) /\ updates[j] # <<>>
        /\ Postprocess(SetTasks(T, u.state), slaves, deleted, {})
        /\ updates'[j] = Tail(updates[j])
    BY <1>0, <1>6, Zenon DEF StatusUpdate, HandleStatusUpdate, TypeOK
  <2>2. \A t \in delTasks : task'[t] = "none"
    BY <1>0, <2>1, Zenon DEF Postprocess, TypeOK
  <2>3. ASSUME NEW t \in Tasks PROVE TaskEffect(t)
    <3>1. CASE t \in T /\ t \notin delTasks \cup deleted
      <4>1. task'[t] = u.state /\ u.task = t /\ task[t] # "none"
        BY <2>1, <3>1, Zenon DEF Postprocess, SetTasks
      <4> QED BY <1>6, <2>1, <3>1, <4>1, Zenon DEF TaskEffect
    <3>2. CASE t \notin T \/ t \in delTasks \cup deleted
      <4>1. task'[t] \in {task[t], "none"}
        BY <2>1, <3>2, Zenon DEF Postprocess, SetTasks
      <4> QED BY <4>1, Zenon DEF TaskEffect
    <3> QED BY <3>1, <3>2, Zenon
  <2> QED BY <2>2, <2>3, Zenon
<1>7. ASSUME NEW j \in Jobs, DeleteJob(j) PROVE Goal
  <2>1. /\ task' = SetTasks(TasksOf(j), "LOST") /\ delTasks' = delTasks \cup TasksOf(j)
        /\ job[j] = "gone"
    BY <1>7, Zenon DEF DeleteJob, DeleteSlavesAndTasks
  <2>2. \A t \in TasksOf(j) : taskJob[t] = j /\ task[t] # "none"
    BY Zenon DEF TasksOf
  <2> QED BY <2>1, <2>2, Zenon DEF SetTasks, TaskEffect
<1> QED BY <1>0, <1>3, <1>4, <1>5, <1>6, <1>7, SteadySteps, Zenon DEF SteadyNext

(* Updates report a task as running first; a task that was reported on is  *)
(* not to be run again, and has ended if the update says so.               *)
Started ==
    \A j \in Jobs :
        /\ RunningFirst(updates[j]) /\ KillLast(inbox[j])
        /\ \A u \in Items(updates[j]) :
              Run(u.task) \notin Items(inbox[j]) /\ (u.state # "RUNNING" => u.task \notin executing[j])
        /\ \A t \in executing[j] : Run(t) \notin Items(inbox[j])

(* What an executor does with its next message.                            *)
LEMMA ExecMessageFacts ==
    ASSUME Typing, NEW j \in Jobs, ExecMessage(j)
    PROVE  /\ inbox[j] \in Seq(Message) /\ inbox[j] # <<>> /\ inbox'[j] = Tail(inbox[j])
           /\ Items(inbox[j]) = {Head(inbox[j])} \cup Items(inbox'[j])
           /\ \A i \in Jobs \ {j} : /\ inbox'[i] = inbox[i] /\ executing'[i] = executing[i]
                                    /\ updates'[i] = updates[i]
           /\ \E t \in Tasks :
                 \/ /\ Head(inbox[j]) = Run(t) /\ Report(j, t, "RUNNING")
                    /\ executing'[j] = executing[j] \cup {t} /\ t \notin execTasks[j]
                 \/ /\ Head(inbox[j]) = Kill(t) /\ executing'[j] = executing[j] \ {t}
                    /\ IF t \in executing[j] THEN Report(j, t, "KILLED") ELSE UNCHANGED updates
<1>1. /\ inbox[j] \in Seq(Message) /\ inbox[j] # <<>>
      /\ inbox \in [Jobs -> Seq(Message)] /\ inbox' = [inbox EXCEPT ![j] = Tail(@)]
  BY Zenon DEF ExecMessage, Typing, TypeOK
<1>2. Items(inbox[j]) = {Head(inbox[j])} \cup Items(Tail(inbox[j]))
  BY <1>1, TailFacts, Zenon
<1>3. \A i \in Jobs \ {j} : executing'[i] = executing[i] /\ updates'[i] = updates[i]
  <2>1. updates' = updates \/ \E t \in Tasks, s \in {"RUNNING", "KILLED"} : Report(j, t, s)
    BY Zenon DEF ExecMessage, ExecRun, ExecKill
  <2>2. \E t \in Tasks : \/ executing' = [executing EXCEPT ![j] = @ \cup {t}]
                         \/ executing' = [executing EXCEPT ![j] = @ \ {t}]
    BY Zenon DEF ExecMessage, ExecRun, ExecKill
  <2>3. updates \in [Jobs -> Seq(Update)] /\ executing \in [Jobs -> SUBSET Tasks]
    BY Zenon DEF Typing, TypeOK
  <2> QED BY <2>1, <2>2, <2>3, Zenon DEF Report
<1>4. PICK t \in Tasks : ExecRun(j, t) \/ ExecKill(j, t)
  BY Zenon DEF ExecMessage
<1>5. CASE ExecRun(j, t)
  BY <1>1, <1>2, <1>3, <1>5, Zenon DEF ExecRun, Run, Typing, TypeOK
<1>6. CASE ExecKill(j, t)
  BY <1>1, <1>2, <1>3, <1>6, Zenon DEF ExecKill, Kill, Typing, TypeOK
<1> QED BY <1>4, <1>5, <1>6, Zenon

(* Every step keeps Started.                                               *)
LEMMA StartedStep ==
    MaxRestarts = 0 /\ TasksInv /\ Connected /\ Started /\ [Next]_vars
        => Started'
(* So does reporting a task as running of which nothing is on its way.     *)
<1>RunningFirstAppend.
      ASSUME NEW s \in Seq(Update), NEW u \in Update, RunningFirst(s),
             u.state = "RUNNING" => \A v \in Items(s) : v.task # u.task
      PROVE  RunningFirst(Append(s, u))
  <2> USE <1>RunningFirstAppend
  <2> DEFINE a == Append(s, u)
  <2>1. /\ DOMAIN a = 1..(Len(s) + 1) /\ a[Len(s) + 1] = u /\ Len(s) \in Nat
        /\ \A i \in 1..Len(s) : a[i] = s[i] /\ i \in DOMAIN s
    BY ONLY s \in Seq(Update), u \in Update
  <2> HIDE DEF a
  <2> SUFFICES ASSUME NEW i \in DOMAIN a, NEW k \in DOMAIN a, i < k, a[i].task = a[k].task
               PROVE  a[k].state # "RUNNING"
    BY Zenon DEF RunningFirst, a
  <2>2. i \in 1..Len(s)
    BY <2>1, SMTT(30)
  <2>3. CASE k \in 1..Len(s)
    BY <2>1, <2>2, <2>3, Zenon DEF RunningFirst
  <2>4. CASE k = Len(s) + 1
    BY <2>1, <2>2, <2>4, Zenon DEF Items
  <2> QED BY <2>1, <2>3, <2>4, SMTT(30)
<1> SUFFICES ASSUME MaxRestarts = 0, TasksInv, Connected, Started, [Next]_vars
             PROVE  Started'
  BY Zenon
<1>0. /\ Typing /\ TypeOK /\ Cycle /\ Owned /\ Untold /\ RunsOnce /\ Items(<<>>) = {}
      /\ \A j \in Jobs : inbox[j] \in Seq(Message) /\ updates[j] \in Seq(Update)
  BY TypedItems, Zenon DEF TasksInv
<1>1. CASE UNCHANGED <<inbox, executing, updates>>
  BY <1>1, Zenon DEF Started
<1>2. ASSUME NEW j \in Jobs, JobGone(j) PROVE Started'
  <2>1. /\ \A i \in Jobs \ {j} : inbox'[i] = inbox[i] /\ executing'[i] = executing[i]
        /\ inbox'[j] = <<>> /\ executing'[j] = {} /\ UNCHANGED updates
    BY <1>0, <1>2, Zenon DEF JobGone, TypeOK
  <2>2. KillLast(<<>>)
    BY EmptyInbox, Zenon
  <2> QED BY <1>0, <2>1, <2>2, Zenon DEF Started
<1>3. ASSUME NEW j \in Jobs, StatusUpdate(j) PROVE Started'
  <2>1. /\ updates[j] # <<>> /\ updates' = [updates EXCEPT ![j] = Tail(@)]
        /\ UNCHANGED <<inbox, executing>>
    BY <1>3, Zenon DEF StatusUpdate, HandleStatusUpdate
  <2>2. updates'[j] = Tail(updates[j]) /\ \A i \in Jobs \ {j} : updates'[i] = updates[i]
    BY <1>0, <2>1, Zenon DEF TypeOK
  <2>3. Items(Tail(updates[j])) \subseteq Items(updates[j])
    BY <1>0, <2>1, TailFacts, Zenon
  <2>4. RunningFirst(Tail(updates[j]))
    BY <1>0, <2>1, RunningFirstTail, Zenon DEF Started
  <2> QED BY <2>1, <2>2, <2>3, <2>4, Zenon DEF Started
<1>4. ASSUME NEW j \in Jobs, NEW T \in SUBSET Tasks, Sends(j, T) PROVE Started'
  <2>1. /\ \A i \in Jobs \ {j} : inbox'[i] = inbox[i]
        /\ Items(inbox'[j]) = Items(inbox[j]) \cup Requests("run", T)
        /\ KillLast(inbox[j]) /\ Items(inbox[j]) \cap Requests("kill", T) = {} => KillLast(inbox'[j])
    BY <1>0, <1>4, ToExecutorFacts, Zenon DEF Sends
  <2>2. Items(inbox[j]) \cap Requests("kill", T) = {}
    <3> SUFFICES ASSUME NEW m \in Items(inbox[j]), m \in Requests("kill", T) PROVE FALSE
      BY Zenon
    <3>1. PICK t \in T : m = Kill(t)
      BY Zenon DEF Requests, Kill
    <3> QED BY <1>4, <3>1, Zenon DEF Sends
  <2>3. \A t : Run(t) \in Requests("run", T) => t \in T
    BY Zenon DEF Requests, Run
  <2>4. \A t \in T : t \notin executing[j] /\ \A u \in Items(updates[j]) : u.task # t
    BY <1>4, Zenon DEF Sends
  <2>5. UNCHANGED <<executing, updates>>
    BY <1>4, Zenon DEF Sends
  <2> QED BY <2>1, <2>2, <2>3, <2>4, <2>5, Zenon DEF Started
<1>5. ASSUME NEW j \in Jobs, NEW t \in Tasks, SendsKill(j, t) PROVE Started'
  <2>1. /\ \A i \in Jobs \ {j} : inbox'[i] = inbox[i]
        /\ Items(inbox'[j]) = Items(inbox[j]) \cup Requests("kill", {t})
        /\ KillLast(inbox[j]) => KillLast(inbox'[j])
    BY <1>0, <1>5, ToExecutorFacts, Zenon DEF SendsKill
  <2>2. \A x : Run(x) \notin Requests("kill", {t})
    BY Zenon DEF Requests, Run
  <2>3. UNCHANGED <<executing, updates>>
    BY <1>5, Zenon DEF SendsKill
  <2> QED BY <2>1, <2>2, <2>3, Zenon DEF Started
<1>6. ASSUME NEW j \in Jobs, NEW t \in Tasks, NEW state \in States, Report(j, t, state),
             \A i \in Jobs \ {j} : /\ inbox'[i] = inbox[i] /\ executing'[i] = executing[i]
                                   /\ updates'[i] = updates[i],
             KillLast(inbox'[j]), Items(inbox'[j]) \subseteq Items(inbox[j]),
             state = "RUNNING" => \A u \in Items(updates[j]) : u.task # t,
             Run(t) \notin Items(inbox'[j]),
             executing'[j] = (IF state = "RUNNING" THEN executing[j] \cup {t} ELSE executing[j] \ {t})
      PROVE  Started'
  <2> DEFINE u == [task |-> t, state |-> state, from |-> j]
  <2>1. u \in Update /\ u.state = state /\ u.task = t
    BY Zenon DEF Update
  <2>2. updates'[j] = Append(updates[j], u) /\ Items(updates'[j]) = Items(updates[j]) \cup {u}
    BY <1>0, <1>6, ReportFacts, Zenon
  <2> HIDE DEF u
  <2>3. RunningFirst(updates'[j])
    <3>1. updates[j] \in Seq(Update) /\ RunningFirst(updates[j])
      BY <1>0, Zenon DEF Started
    <3>2. u.state = "RUNNING" => \A v \in Items(updates[j]) : v.task # u.task
      BY <1>6, <2>1, Zenon
    <3>3. RunningFirst(Append(updates[j], u))
      BY <2>1, <3>1, <3>2, <1>RunningFirstAppend, Zenon
    <3> QED BY <2>2, <3>3, Zenon
  <2>4. \A v \in Items(updates'[j]) :
            Run(v.task) \notin Items(inbox'[j]) /\ (v.state # "RUNNING" => v.task \notin executing'[j])
    BY <1>6, <2>1, <2>2, Zenon DEF Started
  <2>5. \A x \in executing'[j] : Run(x) \notin Items(inbox'[j])
    BY <1>6, Zenon DEF Started
  <2> QED BY <1>6, <2>3, <2>4, <2>5, Zenon DEF Started
<1>7. ASSUME NEW j \in Jobs, ExecMessage(j) PROVE Started'
  <2>1. /\ inbox[j] \in Seq(Message) /\ inbox[j] # <<>> /\ inbox'[j] = Tail(inbox[j])
        /\ Items(inbox[j]) = {Head(inbox[j])} \cup Items(inbox'[j])
        /\ \A i \in Jobs \ {j} : /\ inbox'[i] = inbox[i] /\ executing'[i] = executing[i]
                                 /\ updates'[i] = updates[i]
    BY <1>0, <1>7, ExecMessageFacts, Zenon
  <2>2. PICK t \in Tasks :
           \/ /\ Head(inbox[j]) = Run(t) /\ Report(j, t, "RUNNING")
              /\ executing'[j] = executing[j] \cup {t} /\ t \notin execTasks[j]
           \/ /\ Head(inbox[j]) = Kill(t) /\ executing'[j] = executing[j] \ {t}
              /\ IF t \in executing[j] THEN Report(j, t, "KILLED") ELSE UNCHANGED updates
    BY <1>0, <1>7, ExecMessageFacts, Zenon
  <2>3. /\ KillLast(inbox'[j]) /\ Items(inbox'[j]) \subseteq Items(inbox[j])
        /\ Head(inbox[j]).type = "run" => Head(inbox[j]) \notin Items(inbox'[j])
        /\ Head(inbox[j]).type = "kill" => Run(Head(inbox[j]).task) \notin Items(inbox'[j])
    BY <1>0, <2>1, OnceTail, KillLastTail, Zenon DEF Started, RunsOnce
  <2>4. "RUNNING" \in States /\ "KILLED" \in States
    BY Zenon DEF States, Live, Terminal
  <2>5. CASE Head(inbox[j]) = Run(t) /\ Report(j, t, "RUNNING") /\ executing'[j] = executing[j] \cup {t}
    <3>1. Run(t) \in Items(inbox[j]) /\ Run(t) \notin Items(inbox'[j])
      BY <2>1, <2>3, <2>5, SMTT(30) DEF Run
    <3>2. \A u \in Items(updates[j]) : u.task # t
      BY <3>1, Zenon DEF Started
    <3> QED BY <1>6, <2>1, <2>3, <2>4, <2>5, <3>1, <3>2, ZenonT(30)
  <2>6. CASE Head(inbox[j]) = Kill(t) /\ executing'[j] = executing[j] \ {t} /\ Report(j, t, "KILLED")
    <3>1. Run(t) \notin Items(inbox'[j])
      BY <2>3, <2>6, SMTT(30) DEF Kill
    <3> QED BY <1>6, <2>1, <2>3, <2>4, <2>6, <3>1, ZenonT(30)
  <2>7. CASE executing'[j] = executing[j] \ {t} /\ UNCHANGED updates
    BY <2>1, <2>3, <2>7, Zenon DEF Started
  <2> QED BY <2>2, <2>5, <2>6, <2>7, Zenon
<1>8. ASSUME NEW j \in Jobs, NEW t \in Tasks, NEW state \in FinalStates, ExecEnd(j, t, state)
      PROVE  Started'
  <2>1. /\ t \in executing[j] /\ executing' = [executing EXCEPT ![j] = @ \ {t}]
        /\ Report(j, t, state) /\ UNCHANGED inbox
    BY <1>8, Zenon DEF ExecEnd
  <2>2. state \in States /\ state # "RUNNING"
    BY BoundsAssumption, Zenon DEF States, Terminal
  <2>3. Run(t) \notin Items(inbox'[j])
    BY <2>1, Zenon DEF Started
  <2>4. /\ executing'[j] = executing[j] \ {t}
        /\ \A i \in Jobs \ {j} : executing'[i] = executing[i] /\ updates'[i] = updates[i]
    BY <1>0, <2>1, <2>2, ReportFacts, Zenon DEF TypeOK
  <2>5. KillLast(inbox'[j])
    BY <2>1, Zenon DEF Started
  <2> QED BY <1>6, <2>1, <2>2, <2>3, <2>4, <2>5, Zenon
<1> QED BY <1>1, <1>2, <1>3, <1>4, <1>5, <1>7, <1>8, ExecutorSteps, Zenon DEF ExecutorEffect
----------------------------------------------------------------------------
(* While a task is reported as running, or is asked to run, it has not     *)
(* been recorded as ended.                                                 *)
Lively ==
    \A j \in Jobs :
        /\ \A u \in Items(updates[j]) :
              u.state = "RUNNING" => task[u.task] \in Live \cup {"none"} \/ u.task \in delTasks
        /\ \A t \in Tasks : Run(t) \in Items(inbox[j]) => task[t] \in {"STAGING", "none"}

(* Every step keeps Lively.                                                *)
LEMMA LivelyStep ==
    MaxRestarts = 0 /\ TasksInv /\ Connected /\ Started /\ Lively /\ [Next]_vars
        => Lively'
(* What is new in the channels of an executor: it reports that a task runs *)
(* when it is asked to, and is asked to run what was never reported on.    *)
<1>Arrivals.
      ASSUME MaxRestarts = 0, TasksInv, Connected, [Next]_vars, NEW j \in Jobs
      PROVE  /\ \A u \in Items(updates'[j]) :
                   \/ u \in Items(updates[j]) \/ u.state # "RUNNING"
                   \/ Run(u.task) \in Items(inbox[j]) /\ u.task \in Tasks /\ UNCHANGED <<task, delTasks>>
             /\ \A t \in Tasks : Run(t) \in Items(inbox'[j]) =>
                   Run(t) \in Items(inbox[j]) \/ (task'[t] \in {"STAGING", "none"} /\ told[t] = {})
  <2> USE <1>Arrivals
  <2> DEFINE Ups == \A u \in Items(updates'[j]) :
                   \/ u \in Items(updates[j]) \/ u.state # "RUNNING"
                   \/ Run(u.task) \in Items(inbox[j]) /\ u.task \in Tasks /\ UNCHANGED <<task, delTasks>>
             Ins == \A t \in Tasks : Run(t) \in Items(inbox'[j]) =>
                   Run(t) \in Items(inbox[j]) \/ (task'[t] \in {"STAGING", "none"} /\ told[t] = {})
  <2>0. /\ Typing /\ TypeOK /\ Items(<<>>) = {}
        /\ \A i \in Jobs : inbox[i] \in Seq(Message) /\ updates[i] \in Seq(Update)
    <3>1. Typing /\ TypeOK
      BY Zenon DEF TasksInv, Typing
    <3> QED BY <3>1, NoItems, Zenon DEF TypeOK
  <2>1. CASE UNCHANGED <<inbox, executing, updates>>
    BY <2>1, Zenon
  <2>2. ASSUME NEW i \in Jobs, JobGone(i) PROVE Ups /\ Ins
    <3>1. (inbox'[j] = inbox[j] \/ inbox'[j] = <<>>) /\ UNCHANGED updates
      BY <2>0, <2>2, Zenon DEF JobGone, TypeOK
    <3> QED BY <2>0, <3>1, Zenon
  <2>3. ASSUME NEW i \in Jobs, StatusUpdate(i) PROVE Ups /\ Ins
    <3>1. /\ updates[i] # <<>> /\ UNCHANGED inbox /\ updates'[i] = Tail(updates[i])
          /\ \A k \in Jobs \ {i} : updates'[k] = updates[k]
      BY <2>0, <2>3, Zenon DEF StatusUpdate, HandleStatusUpdate, TypeOK
    <3>2. Items(Tail(updates[i])) \subseteq Items(updates[i])
      <4>1. updates[i] \in Seq(Update) /\ updates[i] # <<>>
        BY <2>0, <3>1, Zenon
      <4>2. Items(updates[i]) = {Head(updates[i])} \cup Items(Tail(updates[i]))
        BY <4>1, TailFacts, Zenon
      <4> QED BY <4>2, Zenon
    <3>3. Items(updates'[j]) \subseteq Items(updates[j])
      BY <3>1, <3>2, Zenon
    <3> QED BY <3>1, <3>3, Zenon
  <2>4. ASSUME NEW i \in Jobs, NEW T \in SUBSET Tasks, Sends(i, T) PROVE Ups /\ Ins
    <3>1. /\ \A k \in Jobs \ {i} : inbox'[k] = inbox[k]
          /\ Items(inbox'[i]) = Items(inbox[i]) \cup Requests("run", T)
      BY <2>0, <2>4, ToExecutorFacts, Zenon DEF Sends
    <3>2. \A t : Run(t) \in Requests("run", T) => t \in T
      BY Zenon DEF Requests, Run
    <3>3. UNCHANGED updates /\ \A t \in T : task'[t] \in {"STAGING", "none"} /\ told[t] = {}
      BY <2>4, Zenon DEF Sends
    <3>4. Ins
      BY <3>1, <3>2, <3>3, Zenon
    <3> QED BY <3>3, <3>4, Zenon
  <2>5. ASSUME NEW i \in Jobs, NEW t \in Tasks, SendsKill(i, t) PROVE Ups /\ Ins
    <3>1. /\ \A k \in Jobs \ {i} : inbox'[k] = inbox[k]
          /\ Items(inbox'[i]) = Items(inbox[i]) \cup Requests("kill", {t})
          /\ UNCHANGED updates
      BY <2>0, <2>5, ToExecutorFacts, Zenon DEF SendsKill
    <3>2. \A x : Run(x) \notin Requests("kill", {t})
      BY Zenon DEF Requests, Run
    <3> QED BY <3>1, <3>2, Zenon
  <2>6. ASSUME NEW i \in Jobs, ExecMessage(i) PROVE Ups /\ Ins
    <3>1. /\ Items(inbox[i]) = {Head(inbox[i])} \cup Items(inbox'[i])
          /\ \A k \in Jobs \ {i} : inbox'[k] = inbox[k] /\ updates'[k] = updates[k]
      BY <2>0, <2>6, ExecMessageFacts, Zenon
    <3>2. PICK t \in Tasks :
             \/ /\ Head(inbox[i]) = Run(t) /\ Report(i, t, "RUNNING")
                /\ executing'[i] = executing[i] \cup {t} /\ t \notin execTasks[i]
             \/ /\ Head(inbox[i]) = Kill(t) /\ executing'[i] = executing[i] \ {t}
                /\ IF t \in executing[i] THEN Report(i, t, "KILLED") ELSE UNCHANGED updates
      BY <2>0, <2>6, ExecMessageFacts, Zenon
    <3>3. "RUNNING" \in States /\ "KILLED" \in States /\ UNCHANGED <<task, delTasks>>
      BY <2>6, Zenon DEF ExecMessage, States, Live, Terminal
    <3>4. Ins
      BY <3>1, Zenon
    <3>5. CASE Head(inbox[i]) = Run(t) /\ Report(i, t, "RUNNING")
      <4>1. Items(updates'[i]) = Items(updates[i]) \cup {[task |-> t, state |-> "RUNNING", from |-> i]}
        BY <2>0, <3>3, <3>5, ReportFacts, Zenon
      <4>2. Run(t) \in Items(inbox[i])
        BY <3>1, <3>5, Zenon
      <4> QED BY <3>1, <3>3, <3>4, <4>1, <4>2, SMTT(30)
    <3>6. CASE Report(i, t, "KILLED")
      <4>1. Items(updates'[i]) = Items(updates[i]) \cup {[task |-> t, state |-> "KILLED", from |-> i]}
        BY <2>0, <3>3, <3>6, ReportFacts, Zenon
      <4> QED BY <3>1, <3>4, <4>1, SMTT(30)
    <3>7. CASE UNCHANGED updates
      BY <3>4, <3>7, Zenon
    <3> QED BY <3>2, <3>5, <3>6, <3>7, Zenon
  <2>7. ASSUME NEW i \in Jobs, NEW t \in Tasks, NEW state \in FinalStates, ExecEnd(i, t, state)
        PROVE  Ups /\ Ins
    <3>1. Report(i, t, state) /\ UNCHANGED inbox /\ state \in States /\ state # "RUNNING"
      BY <2>7, BoundsAssumption, Zenon DEF ExecEnd, States, Terminal
    <3>2. /\ Items(updates'[i]) = Items(updates[i]) \cup {[task |-> t, state |-> state, from |-> i]}
          /\ \A k \in Jobs \ {i} : updates'[k] = updates[k]
      BY <2>0, <3>1, ReportFacts, Zenon
    <3> QED BY <3>1, <3>2, SMTT(30)
  <2> HIDE DEF Ups, Ins
  <2>8. Ups /\ Ins
    BY <2>1, <2>2, <2>3, <2>4, <2>5, <2>6, <2>7, ExecutorSteps, Zenon DEF ExecutorEffect, Ups, Ins
  <2> QED BY <2>8, Zenon DEF Ups, Ins
<1> SUFFICES ASSUME MaxRestarts = 0, TasksInv, Connected, Started, Lively, [Next]_vars
             PROVE  Lively'
  BY Zenon
<1>0. /\ Typing /\ TypeOK /\ Cycle /\ Owned /\ Untold /\ RunsOnce /\ Items(<<>>) = {}
      /\ \A j \in Jobs : Items(updates[j]) \subseteq Update
  BY TypedItems, Zenon DEF TasksInv
<1>1. ASSUME NEW j \in Jobs, NEW u \in Items(updates'[j]), u.state = "RUNNING", u \in Items(updates[j])
      PROVE  task'[u.task] \in Live \cup {"none"} \/ u.task \in delTasks'
  <2>1. u.task \in Tasks /\ u.task \notin fresh /\ taskJob[u.task] = j
    BY <1>0, <1>1, UpdateFields, Zenon DEF Owned, Assigned
  <2>2. task[u.task] \in Live \cup {"none"} \/ u.task \in delTasks
    BY <1>1, Zenon DEF Lively
  <2>3. TaskEffect(u.task) /\ (delTasks \subseteq delTasks' \/ \A t \in delTasks : task'[t] = "none")
    BY <2>1, TaskSteps, Zenon
  <2>4. ASSUME NEW i \in Jobs, updates[i] # <<>>, updates[i] \in Seq(Update),
               updates'[i] = Tail(updates[i]), Head(updates[i]).task = u.task
        PROVE  FALSE
    <3>1. Head(updates[i]) \in Items(updates[i])
      BY <2>4, TailFacts, Zenon
    <3>2. i = j
      <4>1. taskJob[Head(updates[i]).task] = i
        BY <1>0, <3>1, Zenon DEF Owned, Assigned
      <4> QED BY <2>1, <2>4, <4>1, Zenon
    <3>3. u.state # "RUNNING"
      BY <1>1, <2>4, <3>2, RunningFirstTail, Zenon DEF Started
    <3> QED BY <1>1, <3>3, Zenon
  <2> QED BY <2>1, <2>2, <2>3, <2>4, Zenon DEF TaskEffect
<1>2. ASSUME NEW j \in Jobs, NEW t \in Tasks, Run(t) \in Items(inbox[j])
      PROVE  task'[t] \in {"STAGING", "none"}
  <2>1. t \notin fresh /\ taskJob[t] = j
    BY <1>0, <1>2, Zenon DEF Owned, Run
  <2>2. job[j] # "gone"
    BY <1>0, <1>2, Zenon DEF Cycle, Executors
  <2>3. ASSUME NEW i \in Jobs, updates[i] # <<>>, updates[i] \in Seq(Update), Head(updates[i]).task = t
        PROVE  FALSE
    <3>1. Head(updates[i]) \in Items(updates[i])
      BY <2>3, TailFacts, Zenon
    <3>2. i = j
      BY <1>0, <2>1, <2>3, <3>1, Zenon DEF Owned, Assigned
    <3> QED BY <1>2, <2>3, <3>1, <3>2, Zenon DEF Started
  <2>4. task[t] \in {"STAGING", "none"} /\ TaskEffect(t)
    BY <1>2, TaskSteps, Zenon DEF Lively
  <2> QED BY <2>1, <2>2, <2>3, <2>4, Zenon DEF TaskEffect
<1>3. ASSUME NEW j \in Jobs, NEW u \in Items(updates'[j]), u.state = "RUNNING"
      PROVE  task'[u.task] \in Live \cup {"none"} \/ u.task \in delTasks'
  <2>1. CASE Run(u.task) \in Items(inbox[j]) /\ u.task \in Tasks /\ UNCHANGED <<task, delTasks>>
    BY <2>1, Zenon DEF Lively, Live
  <2> QED BY <1>1, <1>3, <2>1, <1>Arrivals, Zenon
<1>4. ASSUME NEW j \in Jobs, NEW t \in Tasks, Run(t) \in Items(inbox'[j])
      PROVE  task'[t] \in {"STAGING", "none"}
  BY <1>2, <1>4, <1>Arrivals, Zenon
<1> QED BY <1>3, <1>4, Zenon DEF Lively

(* A step records a task as live that was reported as ended.               *)
Resurrects(t) == told[t] \cap Terminal # {} /\ task[t] \notin Live /\ task'[t] \in Live

(* No step does: the only one that could is a status update that says that *)
(* the task runs, and by Lively that one comes before its end.             *)
LEMMA NobodyResurrects ==
    ASSUME MaxRestarts = 0, TasksInv, Connected, Lively, [Next]_vars, NEW t \in Tasks
    PROVE  ~Resurrects(t)
<1> SUFFICES ASSUME Resurrects(t) PROVE FALSE
  BY Zenon
<1>1. Owned /\ Untold /\ told[t] # {} /\ task[t] \notin Live /\ task'[t] \in Live
  BY Zenon DEF TasksInv, Resurrects
<1>2. t \notin fresh /\ TaskEffect(t)
  BY <1>1, TaskSteps, Zenon DEF Untold
<1>3. PICK j \in Jobs : /\ updates[j] # <<>> /\ updates[j] \in Seq(Update)
                        /\ Head(updates[j]).task = t /\ task'[t] = Head(updates[j]).state
                        /\ task[t] # "none" /\ t \notin delTasks
  BY <1>1, <1>2, Zenon DEF TaskEffect, Live
<1>4. Head(updates[j]) \in Items(updates[j])
  BY <1>3, TailFacts, ZenonT(30)
<1>5. Head(updates[j]).state = "RUNNING"
  BY <1>1, <1>3, <1>4, SMTT(30) DEF Owned, Live
<1> QED BY <1>1, <1>3, <1>4, <1>5, Zenon DEF Lively
----------------------------------------------------------------------------
(* A task is recorded for its job's slave or for the placeholder that this *)
(* slave stands for, and tasks without a job are for slaves that are gone. *)
PlaceOf(t, j) ==
    /\ taskJob[t] = j => taskSlave[t] \in {j, Placeholder}
    /\ (taskJob[t] = j /\ job[j] = "running" /\ taskSlave[t] = Placeholder /\ task[t] # "none")
          => j \in mapped
    /\ (taskJob[t] = NoJob /\ t \notin fresh /\ taskSlave[t] = j) => job[j] = "gone"

(* The records of all tasks are such.                                      *)
Place == \A t \in Tasks, j \in Jobs : PlaceOf(t, j)

(* Offers are of slaves that run or ran.                                   *)
OffersOf == \A o \in outstanding : o.place \in Jobs => job[o.place] \in {"running", "gone"}

(* Every step keeps that, and moves jobs forward only.                     *)
LEMMA OffersOfStep ==
    ASSUME MaxRestarts = 0, TasksInv, Connected, OffersOf, [Next]_vars
    PROVE  OffersOf' /\ JobMoves
<1>0. Typing /\ TypeOK /\ Cycle
  BY Zenon DEF TasksInv, Typing
<1>1. ASSUME UNCHANGED job PROVE JobMoves
  BY <1>1, Zenon DEF JobMoves
<1>2. ASSUME NEW j \in Jobs, JobGone(j) PROVE JobMoves
  BY <1>0, <1>2, JobGoneMoves, Zenon
<1>3. ASSUME NEW o \in outstanding, DeclineOffer(o) PROVE JobMoves
  <2>1. CASE JobGone(o.place) /\ o.place \in slaves
    BY <1>0, <1>2, <2>1, Zenon DEF TypeOK
  <2> QED BY <1>1, <1>3, <2>1, Zenon DEF DeclineOffer, RefuseWithTasks, RefuseIdle
<1>4. ASSUME NEW N \in Submittable, ScaleUp(N, {}) PROVE JobMoves
  BY <1>0, <1>4, SubmitFacts, Zenon DEF JobMoves
<1>5. ASSUME NEW o \in outstanding, NEW T \in SUBSET fresh, LaunchTasks(o, T) PROVE JobMoves
  BY <1>1, <1>4, <1>5, Zenon
  DEF LaunchTasks, LaunchOnPlaceholder, LaunchAndSubmit, LaunchOnUnknown, LaunchOnSlave, LaunchAndRun
<1>6. ASSUME NEW t \in Tasks, KillTask(t) PROVE JobMoves
  <2>1. CASE JobGone(taskJob[t]) /\ taskJob[t] # NoJob
    BY <1>0, <1>2, <2>1, Zenon DEF TypeOK
  <2> QED BY <1>1, <1>6, <2>1, Zenon DEF KillTask, KillAndDelete, KillOnSlave, KillWithoutSlave
<1>7. ASSUME NEW j \in Jobs, RegisterExecutorRunner(j) PROVE JobMoves
  <2>1. PICK N \in Submittable : ScaleUp(N, {j})
    BY <1>7, Zenon DEF RegisterExecutorRunner, RegisterForWaiting
  <2> QED BY <1>0, <1>7, <2>1, SubmitFacts, Zenon DEF RegisterExecutorRunner, JobMoves
<1>8. ASSUME NEW j \in Jobs, RegisterExecutor(j) \/ JobEnds(j) PROVE JobMoves
  BY <1>2, <1>4, <1>8, Zenon DEF RegisterExecutor, JobEnds
<1>9. ASSUME \/ GenerateOffers \/ OtherMessage \/ ReviveOffers \/ UNCHANGED vars
             \/ \E u \in unacked : StatusUpdateAcknowledgement(u)
             \/ \E j \in Jobs : \/ StatusUpdate(j) \/ ExecMessage(j) \/ DeleteJob(j)
                                \/ \E t \in Tasks, state \in FinalStates : ExecEnd(j, t, state)
      PROVE  JobMoves
  BY <1>1, <1>9, Zenon
  DEF GenerateOffers, BuildOffers, OtherMessage, ReviveOffers, vars, StatusUpdateAcknowledgement,
      StatusUpdate, HandleStatusUpdate, ExecMessage, DeleteJob, DeleteSlavesAndTasks, ExecEnd
<1>10. JobMoves
  BY <1>0, <1>3, <1>5, <1>6, <1>7, <1>8, <1>9, SteadySteps, Zenon DEF SteadyNext
<1>11. ASSUME \A o \in outstanding' : \/ \E p \in outstanding : p.place = o.place
                                      \/ o.place \in slaves \/ o.place = Placeholder
       PROVE  OffersOf'
  BY <1>0, <1>10, <1>11, NamesAssumption, SMTT(30) DEF OffersOf, Connected, JobMoves
<1>12. \A J : \A o \in Supersede(J) : \E p \in outstanding : p.place = o.place
  <2> SUFFICES ASSUME NEW J, NEW o \in Supersede(J) PROVE \E p \in outstanding : p.place = o.place
    BY Zenon
  <2>1. PICK p \in outstanding :
          o = [p EXCEPT !.known = IF @ = "current" /\ p.place \in J THEN "superseded" ELSE @]
    BY Zenon DEF Supersede
  <2> QED BY <1>0, <2>1, Zenon DEF TypeOK, Offers
<1>13. CASE GenerateOffers
  <2>1. PICK S \in SUBSET {j \in slaves : offerable[j]} :
            BuildOffers(S, {j \in S : free[j] # 0}, {j \in S : free[j] # 0})
    BY <1>13, Zenon DEF GenerateOffers
  <2> DEFINE B == {j \in S : free[j] # 0}
  <2>2. \/ outstanding' = Supersede(B) \cup {[place |-> j, amount |-> free[j], known |-> "current"] : j \in B}
        \/ outstanding' = outstanding \cup {[place |-> Placeholder, amount |-> Capacity, known |-> "current"]}
    BY <2>1, Zenon DEF BuildOffers
  <2>3. \A j \in B : j \in slaves
    BY <2>1, Zenon
  <2> HIDE DEF B
  <2>4. \A o \in outstanding' : \/ \E p \in outstanding : p.place = o.place
                                \/ o.place \in slaves \/ o.place = Placeholder
    BY <1>12, <2>2, <2>3, SMTT(30)
  <2> QED BY <1>10, <1>11, <2>4, Zenon
<1>14. ASSUME NEW j \in Jobs, RegisterExecutorRunner(j) PROVE OffersOf'
  <2>1. outstanding' = Supersede({j})
    BY <1>14, Zenon DEF RegisterExecutorRunner, RegisterForWaiting, NewSlave
  <2> QED BY <1>11, <1>12, <2>1, Zenon
<1>15. CASE outstanding' \subseteq outstanding
  BY <1>10, <1>11, <1>15, Zenon
<1>16. ASSUME NEW o \in outstanding, DeclineOffer(o) \/ \E T \in SUBSET fresh : LaunchTasks(o, T)
       PROVE  OffersOf'
  BY <1>15, <1>16, Zenon DEF DeclineOffer, LaunchTasks, Answer
<1>17. CASE UNCHANGED outstanding
  BY <1>15, <1>17, Zenon
<1>18. CASE \/ OtherMessage \/ ReviveOffers \/ UNCHANGED vars
            \/ \E t \in Tasks : KillTask(t)
            \/ \E u \in unacked : StatusUpdateAcknowledgement(u)
            \/ \E j \in Jobs : \/ RegisterExecutor(j) \/ StatusUpdate(j) \/ ExecMessage(j) \/ JobEnds(j)
                               \/ DeleteJob(j)
                               \/ \E t \in Tasks, state \in FinalStates : ExecEnd(j, t, state)
  BY <1>17, <1>18, Zenon
  DEF OtherMessage, ReviveOffers, vars, KillTask, KillAndDelete, StatusUpdateAcknowledgement,
      RegisterExecutor, StatusUpdate, HandleStatusUpdate, ExecMessage, JobEnds, DeleteJob,
      DeleteSlavesAndTasks, ExecEnd
<1> QED BY <1>0, <1>10, <1>13, <1>14, <1>16, <1>18, SteadySteps, Zenon DEF SteadyNext

(* Every step keeps Place.                                                 *)
LEMMA PlaceStep ==
    ASSUME MaxRestarts = 0, TasksInv, Connected, Waiting, OffersOf, Place, [Next]_vars
    PROVE  Place'
<1>0. Typing /\ TypeOK /\ Cycle /\ Owned /\ Untold /\ JobMoves /\ Placeholder \notin Jobs /\ NoJob \notin Jobs
  BY OffersOfStep, NamesAssumption, Zenon DEF TasksInv, Typing
<1>1. \A t \in Tasks \ fresh : task'[t] # "none" => task[t] # "none"
  BY TaskSteps, Zenon DEF TaskEffect
<1>2. ASSUME UNCHANGED <<taskJob, taskSlave, fresh>>,
             \A j \in Jobs : job'[j] = "running" => job[j] = "running" /\ (j \in mapped => j \in mapped')
      PROVE  Place'
  <2> SUFFICES ASSUME NEW t \in Tasks, NEW j \in Jobs
               PROVE  PlaceOf(t, j)'
    BY Zenon DEF Place
  <2>1. taskJob[t] = j => t \notin fresh
    BY <1>0, Zenon DEF Untold
  <2>2. job[j] = "gone" => job'[j] = "gone"
    BY <1>0, Zenon DEF JobMoves
  <2> QED BY <1>1, <1>2, <2>1, <2>2, Zenon DEF Place, PlaceOf
<1>3. CASE UNCHANGED <<taskJob, taskSlave, fresh, job, mapped>>
  BY <1>2, <1>3, Zenon
<1>4. ASSUME NEW j \in Jobs, JobGone(j), UNCHANGED <<taskJob, taskSlave, fresh>>,
             \A i \in Jobs \ {j} : i \in mapped => i \in mapped'
      PROVE  Place'
  <2>1. job'[j] = "gone" /\ \A i \in Jobs \ {j} : job'[i] = job[i]
    BY <1>0, <1>4, Zenon DEF JobGone, TypeOK
  <2> QED BY <1>2, <1>4, <2>1, Zenon
<1>5. ASSUME NEW o \in outstanding, DeclineOffer(o) PROVE Place'
  <2>1. UNCHANGED <<taskJob, taskSlave, fresh>>
    BY <1>5, Zenon DEF DeclineOffer
  <2>2. CASE JobGone(o.place) /\ o.place \in slaves /\ mapped' = mapped \ {o.place}
    BY <1>0, <1>4, <2>1, <2>2, Zenon DEF TypeOK
  <2> QED BY <1>3, <1>5, <2>1, <2>2, Zenon DEF DeclineOffer, RefuseWithTasks, RefuseIdle
<1>6. ASSUME NEW t \in Tasks, KillTask(t) PROVE Place'
  <2>1. UNCHANGED <<taskJob, taskSlave, fresh, mapped>>
    BY <1>6, Zenon DEF KillTask, KillAndDelete
  <2>2. CASE JobGone(taskJob[t]) /\ taskJob[t] # NoJob
    BY <1>0, <1>4, <2>1, <2>2, Zenon DEF TypeOK
  <2> QED BY <1>3, <1>6, <2>1, <2>2, Zenon DEF KillTask, KillAndDelete, KillOnSlave, KillWithoutSlave
<1>7. ASSUME NEW j \in Jobs, JobEnds(j) PROVE Place'
  BY <1>4, <1>7, Zenon DEF JobEnds
<1>8. ASSUME NEW j \in Jobs, DeleteJob(j) PROVE Place'
  <2>1. /\ UNCHANGED <<taskJob, taskSlave, fresh, job>> /\ job[j] = "gone"
        /\ mapped' = mapped \ SlavesOf(j) /\ SlavesOf(j) \subseteq {j}
    BY <1>8, Zenon DEF DeleteJob, DeleteSlavesAndTasks, SlavesOf
  <2> QED BY <1>2, <2>1, Zenon
<1>9. ASSUME NEW j \in Jobs, RegisterExecutor(j) PROVE Place'
  <2>1. PICK N \in Submittable : ScaleUp(N, {})
    BY <1>9, Zenon DEF RegisterExecutor
  <2>2. \A i \in Jobs : job'[i] = "running" => job[i] = "running"
    BY <1>0, <2>1, SubmitOnly, Zenon
  <2> QED BY <1>2, <1>9, <2>2, Zenon DEF RegisterExecutor
<1>10. ASSUME NEW j \in Jobs, RegisterExecutorRunner(j) PROVE Place'
  <2> DEFINE W == {t \in Staged(j) : taskSlave[t] = Placeholder}
  <2>1. PICK N \in Submittable : ScaleUp(N, {j})
    BY <1>10, Zenon DEF RegisterExecutorRunner, RegisterForWaiting
  <2>2. \A i \in Jobs \ {j} : job'[i] = "running" => job[i] = "running"
    BY <1>0, <1>10, <2>1, SubmitAndStart, Zenon DEF RegisterExecutorRunner
  <2>3. /\ job[j] = "pending" /\ UNCHANGED <<taskJob, taskSlave, fresh>>
        /\ mapped \subseteq mapped' /\ (W # {} => j \in mapped')
    BY <1>10, Zenon DEF RegisterExecutorRunner, RegisterForWaiting
  <2> SUFFICES ASSUME NEW t \in Tasks, NEW i \in Jobs
               PROVE  PlaceOf(t, i)'
    BY Zenon DEF Place, PlaceOf
  <2>4. job[i] = "gone" => job'[i] = "gone"
    BY <1>0, Zenon DEF JobMoves
  <2>5. taskJob[t] = i => t \notin fresh
    BY <1>0, Zenon DEF Untold
  <2>6. taskJob[t] = j /\ taskSlave[t] = Placeholder /\ task[t] # "none" => t \in W
    BY <2>3, Zenon DEF Waiting, Staged
  <2> HIDE DEF W
  <2> QED BY <1>1, <2>2, <2>3, <2>4, <2>5, <2>6, Zenon DEF Place, PlaceOf
<1>11. ASSUME NEW o \in outstanding, NEW T \in SUBSET fresh, LaunchTasks(o, T) PROVE Place'
  <2>1. ASSUME NEW j, NEW p, Record(T, j, p), UNCHANGED mapped,
               \A i \in Jobs : job'[i] = "running" => job[i] = "running",
               j \in Jobs => p \in {j, Placeholder} /\ (p = j \/ job'[j] # "running"),
               p \in Jobs /\ j = NoJob => job'[p] = "gone"
        PROVE  Place'
    <3>1. \A t \in T : t \in Tasks /\ taskJob'[t] = j /\ taskSlave'[t] = p
      BY <1>0, <2>1, Zenon DEF Record, TypeOK
    <3>2. \A t \in Tasks \ T : /\ taskJob'[t] = taskJob[t] /\ taskSlave'[t] = taskSlave[t]
                               /\ (t \notin fresh' => t \notin fresh)
      BY <2>1, Zenon DEF Record
    <3> SUFFICES ASSUME NEW t \in Tasks, NEW i \in Jobs
                 PROVE  PlaceOf(t, i)'
      BY Zenon DEF Place, PlaceOf
    <3>3. CASE t \in T
      BY <1>0, <2>1, <3>1, <3>3, ZenonT(30) DEF PlaceOf
    <3>4. CASE t \notin T
      <4>1. job[i] = "gone" => job'[i] = "gone"
        BY <1>0, Zenon DEF JobMoves
      <4>2. taskJob[t] = i => t \notin fresh
        BY <1>0, Zenon DEF Untold
      <4> QED BY <1>1, <2>1, <3>2, <3>4, <4>1, <4>2, SMTT(30) DEF Place, PlaceOf
    <3> QED BY <3>3, <3>4, Zenon
  <2>2. CASE LaunchOnPlaceholder(o, T)
    <3>1. PICK N \in Submittable :
            /\ ScaleUp(N, {}) /\ Record(T, IF N = {} THEN NoJob ELSE CHOOSE x \in N : TRUE, Placeholder)
      BY <2>2, Zenon DEF LaunchOnPlaceholder, LaunchAndSubmit
    <3> DEFINE j == IF N = {} THEN NoJob ELSE CHOOSE x \in N : TRUE
    <3>2. /\ \A i \in Jobs : job'[i] = "running" => job[i] = "running"
          /\ \A i \in N : job'[i] = "pending"
      BY <1>0, <3>1, SubmitOnly, Zenon
    <3>3. (j = NoJob \/ j \in N) /\ Record(T, j, Placeholder) /\ UNCHANGED mapped
      BY <2>2, <3>1, SubmittedJob, SMTT(30) DEF LaunchOnPlaceholder, LaunchAndSubmit
    <3> HIDE DEF j
    <3> QED BY <1>0, <2>1, <3>2, <3>3, Zenon
  <2>3. CASE LaunchOnUnknown(o, T)
    <3>1. o.place \in Jobs \ slaves /\ Record(T, NoJob, o.place) /\ UNCHANGED <<mapped, job>>
      BY <2>3, Zenon DEF LaunchOnUnknown
    <3>2. job[o.place] = "gone"
      BY <3>1, Zenon DEF OffersOf, Connected
    <3> QED BY <1>0, <2>1, <3>1, <3>2, Zenon
  <2>4. CASE LaunchOnSlave(o, T)
    <3>1. o.place \in Jobs /\ Record(T, o.place, o.place) /\ UNCHANGED <<mapped, job>>
      BY <1>0, <2>4, Zenon DEF LaunchOnSlave, LaunchAndRun, TypeOK
    <3> QED BY <1>0, <2>1, <3>1, Zenon
  <2> QED BY <1>11, <2>2, <2>3, <2>4, Zenon DEF LaunchTasks
<1>12. CASE \/ GenerateOffers \/ OtherMessage \/ ReviveOffers \/ UNCHANGED vars
            \/ \E u \in unacked : StatusUpdateAcknowledgement(u)
            \/ \E j \in Jobs : \/ StatusUpdate(j) \/ ExecMessage(j)
                               \/ \E t \in Tasks, state \in FinalStates : ExecEnd(j, t, state)
  BY <1>3, <1>12, ZenonT(30)
  DEF GenerateOffers, BuildOffers, OtherMessage, ReviveOffers, vars, StatusUpdateAcknowledgement,
      StatusUpdate, HandleStatusUpdate, ExecMessage, ExecEnd
<1> QED BY <1>0, <1>5, <1>6, <1>7, <1>8, <1>9, <1>10, <1>11, <1>12, SteadySteps, Zenon DEF SteadyNext
----------------------------------------------------------------------------
(* The executor runs the task, or is about to.                             *)
Here(j, t) == t \in executing[j] \/ Run(t) \in Items(inbox[j])

(* An executor that runs a task that was reported as killed, or is about   *)
(* to, is asked to kill it.                                                *)
KillArrives ==
    \A t \in Tasks, j \in Jobs : "KILLED" \in told[t] /\ Here(j, t) => Kill(t) \in Items(inbox[j])

(* Every step keeps KillArrives.                                           *)
LEMMA KillArrivesStep ==
    MaxRestarts = 0 /\ TasksInv /\ Connected /\ Started /\ Place /\ KillArrives
    /\ [Next]_vars
        => KillArrives'
(* A task that an executor has after a step it had before, and kept the    *)
(* request to kill it, unless nothing was told of the task.                *)
<1>StillHere.
      ASSUME MaxRestarts = 0, TasksInv, Connected, Started, [Next]_vars, NEW j \in Jobs, NEW t \in Tasks,
             Here(j, t)'
      PROVE  \/ told[t] = {}
             \/ Here(j, t) /\ (Kill(t) \in Items(inbox[j]) => Kill(t) \in Items(inbox'[j]))
  <2> USE <1>StillHere
  <2> DEFINE Goal == \/ told[t] = {}
                     \/ Here(j, t) /\ (Kill(t) \in Items(inbox[j]) => Kill(t) \in Items(inbox'[j]))
  <2>0. Typing /\ TypeOK /\ Items(<<>>) = {} /\ Kill(t) # Run(t)
    BY NoItems, Zenon DEF TasksInv, Typing, Run, Kill
  <2>1. CASE UNCHANGED <<inbox, executing>>
    BY <2>1, Zenon DEF Here
  <2>2. ASSUME NEW i \in Jobs, JobGone(i) PROVE Goal
    <3>1. \/ inbox'[j] = inbox[j] /\ executing'[j] = executing[j]
          \/ inbox'[j] = <<>> /\ executing'[j] = {}
      BY <2>0, <2>2, Zenon DEF JobGone, TypeOK
    <3> QED BY <2>0, <3>1, Zenon DEF Here
  <2>3. ASSUME NEW i \in Jobs, NEW T \in SUBSET Tasks, Sends(i, T) PROVE Goal
    <3>1. /\ \A k \in Jobs \ {i} : inbox'[k] = inbox[k]
          /\ Items(inbox'[i]) = Items(inbox[i]) \cup Requests("run", T)
          /\ UNCHANGED executing
      BY <2>0, <2>3, ToExecutorFacts, Zenon DEF Sends
    <3>2. Run(t) \in Requests("run", T) => told[t] = {}
      BY <2>3, ZenonT(30) DEF Requests, Run, Sends
    <3> QED BY <3>1, <3>2, Zenon DEF Here
  <2>4. ASSUME NEW i \in Jobs, NEW x \in Tasks, SendsKill(i, x) PROVE Goal
    <3>1. /\ \A k \in Jobs \ {i} : inbox'[k] = inbox[k]
          /\ Items(inbox'[i]) = Items(inbox[i]) \cup Requests("kill", {x})
          /\ UNCHANGED executing
      BY <2>0, <2>4, ToExecutorFacts, Zenon DEF SendsKill
    <3>2. Run(t) \notin Requests("kill", {x})
      BY Zenon DEF Requests, Run
    <3> QED BY <3>1, <3>2, Zenon DEF Here
  <2>5. ASSUME NEW i \in Jobs, ExecMessage(i) PROVE Goal
    <3>1. /\ inbox[i] \in Seq(Message) /\ inbox[i] # <<>> /\ inbox'[i] = Tail(inbox[i])
          /\ Items(inbox[i]) = {Head(inbox[i])} \cup Items(inbox'[i])
          /\ \A k \in Jobs \ {i} : inbox'[k] = inbox[k] /\ executing'[k] = executing[k]
      BY <2>0, <2>5, ExecMessageFacts, Zenon
    <3>2. PICK x \in Tasks :
             \/ Head(inbox[i]) = Run(x) /\ executing'[i] = executing[i] \cup {x}
             \/ Head(inbox[i]) = Kill(x) /\ executing'[i] = executing[i] \ {x}
      BY <2>0, <2>5, ExecMessageFacts, Zenon
    <3>3. CASE i # j
      BY <3>1, <3>3, Zenon DEF Here
    <3>4. CASE i = j /\ Head(inbox[i]) = Run(x) /\ executing'[i] = executing[i] \cup {x}
      <4>1. Kill(t) # Run(x)
        BY Zenon DEF Kill, Run
      <4> QED BY <3>1, <3>4, <4>1, Zenon DEF Here
    <3>5. CASE i = j /\ Head(inbox[i]) = Kill(x) /\ executing'[i] = executing[i] \ {x}
      <4>1. Run(x) \notin Items(inbox'[j])
        <5>1. KillLast(inbox[j])
          BY Zenon DEF Started
        <5>2. Head(inbox[j]).type = "kill" /\ Head(inbox[j]).task = x
          BY <3>5, SMTT(30) DEF Kill
        <5> QED BY <3>1, <3>5, <5>1, <5>2, KillLastTail, Zenon
      <4>2. t # x
        BY <3>5, <4>1, Zenon DEF Here
      <4>3. Kill(t) # Kill(x)
        BY <4>2, Zenon DEF Kill
      <4> QED BY <3>1, <3>5, <4>3, Zenon DEF Here
    <3> QED BY <3>2, <3>3, <3>4, <3>5, Zenon
  <2>6. ASSUME NEW i \in Jobs, NEW x \in Tasks, NEW state \in FinalStates, ExecEnd(i, x, state) PROVE Goal
    <3>1. UNCHANGED inbox /\ executing'[j] \subseteq executing[j]
      BY <2>0, <2>6, Zenon DEF ExecEnd, TypeOK
    <3> QED BY <3>1, Zenon DEF Here
  <2>7. ASSUME NEW i \in Jobs, StatusUpdate(i) PROVE Goal
    BY <2>1, <2>7, Zenon DEF StatusUpdate, HandleStatusUpdate
  <2> HIDE DEF Goal
  <2>8. Goal
    BY <2>1, <2>2, <2>3, <2>4, <2>5, <2>6, <2>7, ExecutorSteps, ZenonT(30) DEF ExecutorEffect, Goal
  <2> QED BY <2>8, Zenon DEF Goal
(* __kill_task finds the slave of an executor that has the task, and its   *)
(* channel.                                                                *)
<1>KillFindsSlave.
      ASSUME TasksInv, Connected, Place, NEW j \in Jobs, NEW t \in Tasks, Here(j, t), task[t] # "none"
      PROVE  SlaveOf(t) = j /\ executor[j] = "up" /\ executorChannel[j] /\ j \in slaves
  <2> USE <1>KillFindsSlave
  <2>1. /\ Typing /\ TypeOK /\ Cycle /\ Owned /\ Placeholder \notin Jobs /\ Items(<<>>) = {}
        /\ slaves \subseteq Jobs
    BY NamesAssumption, NoItems, Zenon DEF TasksInv, Typing, TypeOK
  <2>2. taskJob[t] = j
    BY <2>1, ZenonT(30) DEF Here, Owned, Holds, Assigned, Run
  <2>3. executor[j] = "up" /\ executorChannel[j] /\ job[j] = "running" /\ j \in slaves
    BY <2>1, Zenon DEF Here, Cycle, Executors, Connected
  <2>4. taskSlave[t] \in {j, Placeholder} /\ (taskSlave[t] = Placeholder => j \in mapped)
    BY <2>2, <2>3, Zenon DEF Place, PlaceOf
  <2> QED BY <2>1, <2>2, <2>3, <2>4, Zenon DEF SlaveOf
<1> SUFFICES ASSUME MaxRestarts = 0, TasksInv, Connected, Started, Place, KillArrives,
                    [Next]_vars
             PROVE  KillArrives'
  BY Zenon
<1>0. Typing /\ TypeOK /\ Owned
  BY Zenon DEF TasksInv, Typing
<1> SUFFICES ASSUME NEW t \in Tasks, NEW j \in Jobs, "KILLED" \in told'[t], Here(j, t)'
             PROVE  Kill(t) \in Items(inbox'[j])
  BY Zenon DEF KillArrives, Here
<1>1. CASE "KILLED" \in told[t]
  BY <1>1, <1>StillHere, Zenon DEF KillArrives
<1>2. ASSUME told'[t] = told[t] PROVE Kill(t) \in Items(inbox'[j])
  BY <1>1, <1>2, Zenon
<1>3. ASSUME NEW T, NEW state, Tell(T, state), t \notin T \/ state # "KILLED"
      PROVE  Kill(t) \in Items(inbox'[j])
  BY <1>1, <1>2, <1>3, Zenon DEF Tell
<1>4. ASSUME NEW x \in Tasks, KillTask(x) PROVE Kill(t) \in Items(inbox'[j])
  <2>1. Tell({x}, "KILLED") /\ task[x] # "none"
    BY <1>4, Zenon DEF KillTask, KillAndDelete
  <2>2. CASE x # t
    BY <1>3, <2>1, <2>2, Zenon
  <2>3. CASE x = t /\ ~("KILLED" \in told[t])
    <3>1. Here(j, t)
      <4>1. CASE UNCHANGED <<executing, inbox>>
        BY <4>1, Zenon DEF Here
      <4>2. CASE JobGone(taskJob[x]) /\ taskJob[x] # NoJob
        <5>1. taskJob[x] \in Jobs
          BY <1>0, <4>2, Zenon DEF TypeOK
        <5>2. \A k \in Jobs : /\ inbox'[k] = inbox[k] \/ inbox'[k] = <<>>
                              /\ executing'[k] = executing[k] \/ executing'[k] = {}
          BY <1>0, <4>2, <5>1, Zenon DEF JobGone, TypeOK
        <5>3. Items(inbox'[j]) \subseteq Items(inbox[j]) /\ executing'[j] \subseteq executing[j]
          BY <5>2, NoItems, Zenon
        <5> QED BY <5>3, Zenon DEF Here
      <4>3. CASE KillOnSlave(x, SlaveOf(x)) /\ ToExecutor(SlaveOf(x), "kill", {x})
        <5>1. SlaveOf(x) \in Jobs /\ UNCHANGED executing
          BY <1>0, <4>3, Zenon DEF KillOnSlave, SlaveOf, TypeOK
        <5>2. /\ \A k \in Jobs \ {SlaveOf(x)} : inbox'[k] = inbox[k]
              /\ Items(inbox'[SlaveOf(x)]) = Items(inbox[SlaveOf(x)]) \cup Requests("kill", {x})
          <6>1. {x} \in SUBSET Tasks /\ "kill" \in {"run", "kill"}
            BY Zenon
          <6> QED BY <1>0, <4>3, <5>1, <6>1, ToExecutorFacts, Zenon
        <5>3. Run(t) \notin Requests("kill", {x})
          BY Zenon DEF Requests, Run
        <5> QED BY <5>1, <5>2, <5>3, Zenon DEF Here
      <4> QED BY <1>4, <4>1, <4>2, <4>3, Zenon DEF KillTask, KillAndDelete, KillOnSlave, KillWithoutSlave
    <3>2. SlaveOf(t) = j /\ executor[j] = "up" /\ executorChannel[j]
      BY <2>1, <2>3, <3>1, <1>KillFindsSlave, Zenon
    <3>3. j # NoJob
      BY NamesAssumption, Zenon
    <3>4. ToExecutor(j, "kill", {t})
      BY <1>4, <2>3, <3>2, <3>3, ZenonT(30) DEF KillTask, KillAndDelete, KillOnSlave, KillWithoutSlave
    <3>5. Items(inbox'[j]) = Items(inbox[j]) \cup Requests("kill", {t})
      <4>1. {t} \in SUBSET Tasks /\ "kill" \in {"run", "kill"}
        BY Zenon
      <4> QED BY <1>0, <3>4, <4>1, ToExecutorFacts, Zenon
    <3> QED BY <3>5, Zenon DEF Requests, Kill
  <2> QED BY <1>1, <2>2, <2>3, Zenon
<1>5. ASSUME NEW i \in Jobs, StatusUpdate(i) PROVE Kill(t) \in Items(inbox'[j])
  <2> DEFINE u == Head(updates[i])
  <2>1. /\ updates[i] \in Seq(Update) /\ updates[i] # <<>> /\ Tell({u.task}, u.state)
        /\ UNCHANGED <<inbox, executing>>
    BY <1>0, <1>5, Zenon DEF StatusUpdate, HandleStatusUpdate, TypeOK
  <2>2. u \in Items(updates[i])
    BY <2>1, TailFacts, Zenon
  <2> HIDE DEF u
  <2>3. CASE u.task = t /\ u.state = "KILLED"
    <3>1. Here(j, t) /\ taskJob[t] = i
      BY <1>0, <2>1, <2>2, <2>3, ZenonT(30) DEF Here, Owned, Assigned
    <3>2. i = j
      BY <1>0, <3>1, ZenonT(30) DEF Here, Owned, Holds, Assigned, Run
    <3> QED BY <2>2, <2>3, <3>1, <3>2, ZenonT(30) DEF Started, Here
  <2> QED BY <1>3, <2>1, <2>3, Zenon
<1>6. ASSUME NEW o \in outstanding, NEW T \in SUBSET fresh, LaunchTasks(o, T)
      PROVE  Kill(t) \in Items(inbox'[j])
  <2>1. CASE UNCHANGED told
    BY <1>2, <2>1, Zenon
  <2>2. CASE \E L : Tell(L, "LOST")
    BY <1>3, <2>2, Zenon
  <2> QED BY <1>6, <2>1, <2>2, Zenon
          DEF LaunchTasks, LaunchOnPlaceholder, LaunchAndSubmit, LaunchOnUnknown, LaunchOnSlave, LaunchAndRun
<1>7. ASSUME NEW i \in Jobs, DeleteJob(i) PROVE Kill(t) \in Items(inbox'[j])
  BY <1>3, <1>7, Zenon DEF DeleteJob, DeleteSlavesAndTasks
<1>8. CASE UNCHANGED told
  BY <1>2, <1>8, Zenon
<1>9. CASE \/ GenerateOffers \/ OtherMessage \/ ReviveOffers \/ UNCHANGED vars
           \/ \E o \in outstanding : DeclineOffer(o)
           \/ \E u \in unacked : StatusUpdateAcknowledgement(u)
           \/ \E i \in Jobs : \/ RegisterExecutorRunner(i) \/ RegisterExecutor(i)
                              \/ ExecMessage(i) \/ JobEnds(i)
                              \/ \E x \in Tasks, state \in FinalStates : ExecEnd(i, x, state)
  BY <1>8, <1>9, ZenonT(30)
  DEF GenerateOffers, BuildOffers, OtherMessage, ReviveOffers, vars, DeclineOffer,
      StatusUpdateAcknowledgement, RegisterExecutorRunner, RegisterExecutor, ExecMessage, JobEnds, ExecEnd
<1> QED BY <1>4, <1>5, <1>6, <1>7, <1>9, SteadySteps, Zenon DEF SteadyNext, TasksInv
----------------------------------------------------------------------------
(* A task that is asked to be killed, or was reported as killed by its     *)
(* executor, has no record any more.                                       *)
Killed ==
    \A j \in Jobs :
        /\ \A t \in Tasks : Kill(t) \in Items(inbox[j]) => task[t] = "none"
        /\ \A u \in Items(updates[j]) :
              /\ u.state \in {"RUNNING", "KILLED"} \cup FinalStates
              /\ u.state = "KILLED" => task[u.task] = "none"

(* Every step keeps Killed.                                                *)
LEMMA KilledStep ==
    ASSUME MaxRestarts = 0, TasksInv, Connected, Killed, [Next]_vars
    PROVE  Killed'
<1>0. /\ Typing /\ TypeOK /\ Owned
      /\ \A j \in Jobs : Items(updates[j]) \subseteq Update
  BY TypedItems, Zenon DEF TasksInv
<1>1. \A t \in Tasks \ fresh : task[t] = "none" => task'[t] = "none"
  BY TaskSteps, Zenon DEF TaskEffect
<1>2. \A j \in Jobs, t \in Tasks : Kill(t) \in Items(inbox[j]) => task'[t] = "none"
  BY <1>0, <1>1, ZenonT(30) DEF Killed, Owned, Kill
<1>3. \A j \in Jobs : \A u \in Items(updates[j]) : u.state = "KILLED" => task'[u.task] = "none"
  <2> SUFFICES ASSUME NEW j \in Jobs, NEW u \in Items(updates[j]), u.state = "KILLED"
               PROVE  task'[u.task] = "none"
    BY Zenon
  <2>1. u.task \in Tasks \ fresh /\ task[u.task] = "none"
    BY <1>0, UpdateFields, Zenon DEF Killed, Owned, Assigned
  <2> QED BY <1>1, <2>1, Zenon
<1>4. ASSUME \A j \in Jobs : Items(inbox'[j]) \subseteq Items(inbox[j]),
             \A j \in Jobs : Items(updates'[j]) \subseteq Items(updates[j])
      PROVE  Killed'
  BY <1>2, <1>3, <1>4, Zenon DEF Killed
<1>5. ASSUME NEW j \in Jobs, JobGone(j) PROVE Killed'
  <2>1. UNCHANGED updates /\ \A i \in Jobs : inbox'[i] = inbox[i] \/ inbox'[i] = <<>>
    BY <1>0, <1>5, Zenon DEF JobGone, TypeOK
  <2>2. Items(<<>>) = {}
    BY NoItems, Zenon
  <2> QED BY <1>4, <2>1, <2>2, Zenon
<1>6. ASSUME NEW j \in Jobs, StatusUpdate(j) PROVE Killed'
  <2>1. /\ updates[j] # <<>> /\ updates[j] \in Seq(Update) /\ UNCHANGED inbox
        /\ updates'[j] = Tail(updates[j]) /\ \A i \in Jobs \ {j} : updates'[i] = updates[i]
    BY <1>0, <1>6, Zenon DEF StatusUpdate, HandleStatusUpdate, TypeOK
  <2>2. Items(Tail(updates[j])) \subseteq Items(updates[j])
    <3>1. Items(updates[j]) = {Head(updates[j])} \cup Items(Tail(updates[j]))
      BY <2>1, TailFacts, Zenon
    <3> QED BY <3>1, Zenon
  <2>3. \A i \in Jobs : Items(updates'[i]) \subseteq Items(updates[i])
    BY <2>1, <2>2, Zenon
  <2> QED BY <1>4, <2>1, <2>3, Zenon
<1>7. ASSUME NEW j \in Jobs, NEW T \in SUBSET Tasks, Sends(j, T) PROVE Killed'
  <2>1. /\ \A i \in Jobs \ {j} : inbox'[i] = inbox[i]
        /\ Items(inbox'[j]) = Items(inbox[j]) \cup Requests("run", T)
        /\ UNCHANGED updates
    BY <1>0, <1>7, ToExecutorFacts, Zenon DEF Sends
  <2>2. \A t : Kill(t) \notin Requests("run", T)
    BY Zenon DEF Requests, Kill
  <2> QED BY <1>2, <1>3, <2>1, <2>2, Zenon DEF Killed
<1>8. ASSUME NEW j \in Jobs, NEW t \in Tasks, SendsKill(j, t) PROVE Killed'
  <2>1. /\ \A i \in Jobs \ {j} : inbox'[i] = inbox[i]
        /\ Items(inbox'[j]) = Items(inbox[j]) \cup Requests("kill", {t})
        /\ UNCHANGED updates
    BY <1>0, <1>8, ToExecutorFacts, Zenon DEF SendsKill
  <2>2. \A x : Kill(x) \in Requests("kill", {t}) => x = t
    BY Zenon DEF Requests, Kill
  <2>3. task'[t] = "none"
    BY <1>8, Zenon DEF SendsKill, KillTask, KillAndDelete, Postprocess
  <2> QED BY <1>2, <1>3, <2>1, <2>2, <2>3, ZenonT(30) DEF Killed
<1>9. ASSUME NEW j \in Jobs, NEW t \in Tasks, NEW state \in {"RUNNING", "KILLED"} \cup FinalStates,
             Report(j, t, state), state = "KILLED" => Kill(t) \in Items(inbox[j]),
             \A i \in Jobs : Items(inbox'[i]) \subseteq Items(inbox[i])
      PROVE  Killed'
  <2>1. state \in States
    BY BoundsAssumption, Zenon DEF States, Live, Terminal
  <2>2. /\ \A i \in Jobs \ {j} : updates'[i] = updates[i]
        /\ Items(updates'[j]) = Items(updates[j]) \cup {[task |-> t, state |-> state, from |-> j]}
    BY <1>0, <1>9, <2>1, ReportFacts, Zenon
  <2> DEFINE v == [task |-> t, state |-> state, from |-> j]
  <2>3. v.state = state /\ v.task = t /\ (state = "KILLED" => task'[t] = "none")
    BY <1>2, <1>9, Zenon
  <2>4. Items(updates'[j]) = Items(updates[j]) \cup {v}
    BY <2>2, Zenon
  <2> HIDE DEF v
  <2>5. \A i \in Jobs : \A u \in Items(updates'[i]) : u \in Items(updates[i]) \/ u = v
    BY <2>2, <2>4, Zenon
  <2>6. \A i \in Jobs : \A u \in Items(updates'[i]) :
            /\ u.state \in {"RUNNING", "KILLED"} \cup FinalStates
            /\ u.state = "KILLED" => task'[u.task] = "none"
    BY <1>3, <1>9, <2>3, <2>5, Zenon DEF Killed
  <2> QED BY <1>2, <1>9, <2>6, Zenon DEF Killed
<1>10. ASSUME NEW j \in Jobs, ExecMessage(j) PROVE Killed'
  <2>1. /\ Items(inbox[j]) = {Head(inbox[j])} \cup Items(inbox'[j])
        /\ \A i \in Jobs \ {j} : inbox'[i] = inbox[i] /\ updates'[i] = updates[i]
    BY <1>0, <1>10, ExecMessageFacts, Zenon
  <2>2. PICK t \in Tasks :
           \/ Head(inbox[j]) = Run(t) /\ Report(j, t, "RUNNING")
           \/ /\ Head(inbox[j]) = Kill(t)
              /\ IF t \in executing[j] THEN Report(j, t, "KILLED") ELSE UNCHANGED updates
    BY <1>0, <1>10, ExecMessageFacts, Zenon
  <2>3. \A i \in Jobs : Items(inbox'[i]) \subseteq Items(inbox[i])
    BY <2>1, Zenon
  <2>4. CASE Report(j, t, "RUNNING")
    BY <1>9, <2>3, <2>4, Zenon
  <2>5. CASE Head(inbox[j]) = Kill(t) /\ Report(j, t, "KILLED")
    BY <1>9, <2>1, <2>3, <2>5, Zenon
  <2>6. CASE UNCHANGED updates
    BY <1>4, <2>3, <2>6, Zenon
  <2> QED BY <2>2, <2>4, <2>5, <2>6, Zenon
<1>11. ASSUME NEW j \in Jobs, NEW t \in Tasks, NEW state \in FinalStates, ExecEnd(j, t, state)
       PROVE  Killed'
  <2>1. Report(j, t, state) /\ UNCHANGED inbox /\ state # "KILLED"
    BY <1>11, BoundsAssumption, Zenon DEF ExecEnd
  <2> QED BY <1>9, <2>1, Zenon
<1> QED BY <1>4, <1>5, <1>6, <1>7, <1>8, <1>10, <1>11, ExecutorSteps, Zenon DEF ExecutorEffect

----------------------------------------------------------------------------
(* The inductive invariant of a service that is not restarted.             *)
SteadyInv ==
    /\ TasksInv /\ Connected /\ Waiting /\ OffersOf /\ Started /\ Lively /\ Place /\ KillArrives /\ Killed

(* It holds initially.                                                     *)
LEMMA SteadyInvInit == ASSUME Init PROVE SteadyInv
<1>1. TasksInv
  BY TasksInvInit, Zenon
<1>2. Connected /\ OffersOf
  BY Zenon DEF Init, Connected, OffersOf
<1>3. Waiting /\ Place
  BY NamesAssumption, Zenon DEF Init, Waiting, Place, PlaceOf
<1>4. \A j \in Jobs : updates[j] = <<>> /\ inbox[j] = <<>> /\ executing[j] = {}
  BY Zenon DEF Init
<1>5. \A j \in Jobs : Items(updates[j]) = {} /\ Items(inbox[j]) = {}
  BY <1>4, NoItems, Zenon
<1>6. Started
  BY <1>4, <1>5, EmptyInbox, NoUpdates, Zenon DEF Started
<1>7. Lively /\ KillArrives /\ Killed
  BY <1>4, <1>5, Zenon DEF Lively, KillArrives, Here, Killed
<1> QED BY <1>1, <1>2, <1>3, <1>6, <1>7, Zenon DEF SteadyInv

(* Every step keeps it.                                                    *)
LEMMA SteadyInvStep == ASSUME MaxRestarts = 0, SteadyInv, [Next]_vars PROVE SteadyInv'
<1>1. Typing /\ Cycle /\ Owned /\ Untold
  BY Zenon DEF SteadyInv, TasksInv
<1>2. TasksInv' /\ Connected' /\ Waiting' /\ OffersOf'
  BY <1>1, TasksInvStep, ConnectedStep, WaitingStep, OffersOfStep, Zenon DEF SteadyInv
<1>3. Started' /\ Lively' /\ Place'
  BY StartedStep, LivelyStep, PlaceStep, Zenon DEF SteadyInv
<1>4. KillArrives' /\ Killed'
  BY KillArrivesStep, KilledStep, Zenon DEF SteadyInv
<1> QED BY <1>2, <1>3, <1>4, Zenon DEF SteadyInv

(* It implies that kills reach executors.                                  *)
LEMMA KillArrivesMeans == ASSUME SteadyInv PROVE KillReaches
<1>1. /\ TypeOK /\ KillArrives
      /\ \A j \in Jobs : inbox[j] \in Seq(Message)
  BY Zenon DEF SteadyInv, TasksInv, Typing, TypeOK
<1> QED BY <1>1, QueuedItem, Zenon DEF KillReaches, KillArrives, Here, Run, Kill

(* The invariant holds in every state, if the service is not restarted.    *)
THEOREM SteadyInvHolds == ASSUME MaxRestarts = 0 PROVE Spec => []SteadyInv
<1>1. Init => SteadyInv
  BY SteadyInvInit, Zenon
<1>2. SteadyInv /\ [Next]_vars => SteadyInv'
  BY SteadyInvStep, Zenon
<1> QED BY <1>1, <1>2, PTL DEF Spec

(* Once the framework was told that a task is killed, no executor runs it  *)
(* or is about to without being asked to kill it, however kills, launches, *)
(* registrations, status updates and ends of jobs are interleaved          *)
(* (__kill_task, register_executor).                                       *)
THEOREM KillsReachExecutors == ASSUME MaxRestarts = 0 PROVE Spec => []KillReaches
<1>1. SteadyInv => KillReaches
  BY KillArrivesMeans, Zenon
<1> QED BY <1>1, SteadyInvHolds, PTL

(* What the framework was told to have ended is neither sent to an         *)
(* executor nor recorded as live afterwards (handle_status_update,         *)
(* register_executor, launch_tasks).                                       *)
THEOREM EndsAreFinal == ASSUME MaxRestarts = 0 PROVE Spec => EndIsFinal
<1>1. SteadyInv /\ [Next]_vars =>
        [\A t \in Tasks : told[t] \cap Terminal # {} /\ task[t] \notin Live => task'[t] \notin Live]_vars
  BY NobodyResurrects, Zenon DEF SteadyInv, Resurrects
<1>2. Spec => NoResurrection
  BY <1>1, SteadyInvHolds, PTL DEF Spec, NoResurrection
<1> QED BY <1>2, NoRunAfterEndHolds, PTL DEF EndIsFinal
=============================================================================
