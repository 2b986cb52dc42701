------------------------- MODULE BrokerClientProofs -------------------------
(***************************************************************************)
(* The reader of the broker client never dies by itself, for any number of *)
(* drivers, messages and losses and any delays of the timers.  ReaderAlive *)
(* is inductive as soon as the counters of commands are natural numbers:   *)
(* each reply is answered by a command, and a command that is queued comes *)
(* with a notification of the loop.                                        *)
(***************************************************************************)
EXTENDS BrokerClient, TLAPS

Counters == commands \in Nat /\ inflight \in Nat /\ stale \in Nat

ReaderInv == Counters /\ ReaderAlive

(* Before the first registration the broker does not run.                  *)
LEMMA ReaderInit == Init => ReaderInv
BY DEF Init, EvInit, BrokerInit, ReaderInv, Counters, ReaderAlive

(* Nothing that leaves the broker's variables alone matters.               *)
LEMMA ReaderUntouched ==
    ASSUME ReaderInv, UNCHANGED broker
    PROVE  ReaderInv'
BY DEF ReaderInv, Counters, ReaderAlive, broker

(* A command that is queued makes the sum positive.                        *)
LEMMA SomeCommand ==
    ASSUME NEW a \in Nat, NEW b \in Nat, NEW c \in Nat, c > 0
    PROVE  a + b + c > 0
OBVIOUS

(* A reply takes a BRPOP away and the callback queues another one          *)
(* (RedisChannelCallback::onInput), if the broker runs.                    *)
LEMMA InputKeepsReader ==
    ASSUME ReaderInv, NEW type, OnInput(type),
           inflight' \in Nat, stale' \in Nat, UNCHANGED <<running, conn>>
    PROVE  ReaderInv'
<1>1. SendMessage(1, conn)
  BY DEF OnInput
<1>2. CASE conn = "valid"
  <2>1. commands' = commands + 1
    BY <1>1, <1>2 DEF SendMessage
  <2>2. notified'
    BY <1>1, <1>2, Zenon DEF SendMessage
  <2>3. Counters'
    BY <2>1 DEF ReaderInv, Counters
  <2>4. commands' > 0
    BY <2>1 DEF ReaderInv, Counters
  <2>5. inflight' + stale' + commands' > 0
    BY <2>3, <2>4, SomeCommand, Zenon DEF Counters
  <2> QED
    BY <2>2, <2>3, <2>5, Zenon DEF ReaderInv, ReaderAlive
<1>3. CASE conn # "valid"
  BY <1>1, <1>3 DEF SendMessage, ReaderInv, Counters, ReaderAlive
<1> QED
  BY <1>2, <1>3

(* Every step keeps the reader alive.                                      *)
LEMMA ReaderStep == ReaderInv /\ [Next]_vars => ReaderInv'
<1> SUFFICES ASSUME ReaderInv, [Next]_vars
             PROVE  ReaderInv'
  OBVIOUS
<1>1. CASE UNCHANGED vars
  BY <1>1, ReaderUntouched DEF vars
<1>2. CASE StartDriver \/ Deleted \/ TimeoutCb \/ SendHeartbeat \/ AsyncCb
           \/ EventLoopExits \/ Tick \/ RedisBack \/ ServiceSends
  BY <1>2, ReaderUntouched
     DEF StartDriver, Deleted, TimeoutCb, SendHeartbeat, AsyncCb, EventLoopExits,
         Tick, RedisBack, ServiceSends
<1>3. CASE DeleteDriver
  BY <1>3 DEF DeleteDriver, Shutdown, ReaderInv, Counters, ReaderAlive
<1>4. CASE Register
  <2>1. CASE connected /\ UNCHANGED broker
    BY <2>1, ReaderUntouched
  <2>2. CASE redis /\ Connect /\ SendMessage(1, conn')
    <3>1. conn' = "valid" /\ inflight' = 0 /\ stale' = stale + inflight
      BY <2>2 DEF Connect
    <3>2. commands' = commands + 1
      BY <2>2, <3>1 DEF SendMessage
    <3>3. notified'
      BY <2>2, <3>1, Zenon DEF SendMessage
    <3>4. Counters' /\ inflight' + stale' + commands' > 0
      BY <3>1, <3>2 DEF ReaderInv, Counters
    <3> QED
      BY <3>3, <3>4, Zenon DEF ReaderInv, ReaderAlive
  <2>3. CASE ~redis /\ Connect /\ UNCHANGED <<notified, commands>>
    BY <2>3 DEF Connect, ReaderInv, Counters, ReaderAlive
  <2> QED
    BY <1>4, <2>1, <2>2, <2>3 DEF Register
<1>5. CASE BrokerAsyncCb
  BY <1>5 DEF BrokerAsyncCb, ReaderInv, Counters, ReaderAlive
<1>6. CASE UnloopCb
  BY <1>6 DEF UnloopCb, ReaderInv, Counters, ReaderAlive
<1>7. CASE OnReply
  <2>1. inflight' \in Nat /\ stale' \in Nat /\ UNCHANGED <<running, conn>>
    BY <1>7 DEF OnReply, Answered, ReaderInv, Counters
  <2>2. CASE running
    BY <1>7, <2>1, <2>2, InputKeepsReader DEF OnReply
  <2>3. CASE ~running
    <3>1. UNCHANGED commands
      BY <1>7, <2>3 DEF OnReply
    <3>2. Counters' /\ ~running'
      BY <2>1, <2>3, <3>1 DEF ReaderInv, Counters
    <3> QED
      BY <3>2, Zenon DEF ReaderInv, ReaderAlive
  <2> QED
    BY <2>2, <2>3
<1>8. CASE OnError
  <2>1. inflight' \in Nat /\ stale' \in Nat /\ UNCHANGED <<running, conn, inflight, stale>>
    BY <1>8 DEF OnError, ReaderInv, Counters
  <2>2. CASE running
    BY <1>8, <2>1, <2>2, InputKeepsReader DEF OnError
  <2>3. CASE ~running
    BY <1>8, <2>1, <2>3 DEF OnError, ReaderInv, Counters, ReaderAlive
  <2> QED
    BY <2>2, <2>3
<1>9. CASE LoseLink
  BY <1>9 DEF LoseLink, ReaderInv, Counters, ReaderAlive
<1> QED
  BY <1>1, <1>2, <1>3, <1>4, <1>5, <1>6, <1>7, <1>8, <1>9 DEF Next

(* The chain of BRPOP commands never ends by itself: while the broker runs *)
(* on a connection that has not broken, one is in flight or queued, and a  *)
(* queued one has the loop's attention (sendMessage, async_cb, onInput).   *)
THEOREM ReaderNeverDies == Spec => []ReaderAlive
<1>1. ReaderInv => ReaderAlive
  BY DEF ReaderInv
<1> QED
  BY <1>1, ReaderInit, ReaderStep, PTL DEF Spec
=============================================================================
