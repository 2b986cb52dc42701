---------------------------- MODULE BrokerClient ----------------------------
(***************************************************************************)
(* What the drivers of liburb stand on (urb-core/source/cpp/liburb/source):*)
(* the event loop thread and its timers (evhelper.cpp, timer.hpp), and the *)
(* Redis message broker (message_broker_redis.cpp, concurrent_queue.hpp),  *)
(* whose reader is a chain of BRPOP commands, each queued by the callback  *)
(* that handled the answer to the one before.                              *)
(*                                                                         *)
(* The event loop and the broker are singletons of the process; the owner  *)
(* is one scheduler driver after another, reduced to its registration.     *)
(* Redis and redis3m are external.                                         *)
(***************************************************************************)
EXTENDS Naturals, Sequences

CONSTANTS
    MaxDelay,     \* the longest time a timer or the loop sleeps
    Drivers,      \* how many drivers the client creates one after the other
    MaxMessages,  \* bound on messages the service sends, registrations aside
    MaxLosses,    \* bound on losses of the Redis connection
    MaxTimers     \* more timers of one kind are never scheduled at once

ASSUME BrokerAssumption ==
    /\ MaxDelay \in Nat \ {0} /\ Drivers \in Nat \ {0} /\ MaxTimers \in Nat
    /\ MaxMessages \in Nat /\ MaxLosses \in Nat

VARIABLES
    enabled, exited,   \* s_enabled_, loopExited_
    timers,            \* s_timers_: how many of each kind fire in so many ticks
    asleep,            \* ticks until the timeout watcher fires; Off when it is stopped
    fed,               \* a timeout event was fed to the loop
    refreshed,         \* async_w_ was sent
    firing, next,      \* timeout_cb: the timers it took, and when it will fire again
    running,           \* isRunning_
    notified,          \* async_watcher was sent
    unloop,            \* unloop_watcher was sent
    commands,          \* commands_: how many BRPOP commands are queued
    conn,              \* conn_: none, valid or broken
    inflight, stale,   \* BRPOPs Redis has not answered, on conn_ and on the connections before
    failed,            \* BRPOPs of a broken connection, to be answered with an error
    list,              \* the Redis list of the notify channel
    connected,         \* connected_ of the owner
    owner, driver,     \* the client: driver is none, up or going
    redis, losses, messages,
    quiet              \* history: a connection broke when no BRPOP was in flight

loop == <<enabled, exited, timers, asleep, fed, refreshed, firing, next>>
broker == <<running, notified, unloop, commands, conn, inflight, stale, failed>>
client == <<connected, owner, driver>>
external == <<list, redis, losses, messages, quiet>>
vars == <<loop, broker, client, external>>

Off == MaxDelay + 1
Kinds == {"register", "heartbeat"}
NoTimers == [k \in Kinds |-> [l \in 0..MaxDelay |-> 0]]

TypeOK ==
    /\ {enabled, exited, fed, refreshed, running, notified, unloop, connected, redis, quiet} \subseteq BOOLEAN
    /\ timers \in [Kinds -> [0..MaxDelay -> 0..MaxTimers]]
    /\ asleep \in 0..Off /\ next \in 0..Off /\ firing \in Seq(Kinds)
    /\ {commands, inflight, stale, failed} \subseteq Nat
    /\ conn \in {"none", "valid", "broken"}
    /\ list \in Seq({"registered", "other"})
    /\ owner \in 0..Drivers /\ driver \in {"none", "up", "going"}

(* EvHelper::EvHelper and RedisMessageBroker::RedisMessageBroker.          *)
EvInit ==
    /\ enabled = TRUE /\ exited = FALSE /\ timers = NoTimers
    /\ asleep = 0 /\ fed = FALSE /\ refreshed = FALSE /\ firing = <<>> /\ next = Off
BrokerInit ==
    /\ running = FALSE /\ notified = FALSE /\ unloop = FALSE /\ commands = 0
    /\ conn = "none" /\ inflight = 0 /\ stale = 0 /\ failed = 0
Init ==
    /\ EvInit /\ BrokerInit
    /\ connected = FALSE /\ owner = 0 /\ driver = "none"
    /\ list = <<>> /\ redis = TRUE /\ losses = 0 /\ messages = 0 /\ quiet = FALSE

----------------------------------------------------------------------------
(* Timer::delay makes an inner timer each time: the outer one is never     *)
(* active, so nothing keeps a second one from being scheduled.             *)
Delayed(ts, kind, left) == [ts EXCEPT ![kind][left] = @ + 1]

(* EvHelper::scheduleTimer and refresh.                                    *)
ScheduleTimer(kind, left) == timers' = Delayed(timers, kind, left) /\ refreshed' = TRUE

(* RedisMessageBroker::sendMessage: nothing is queued without a valid      *)
(* connection.                                                             *)
SendMessage(n, c) ==
    IF c = "valid" THEN commands' = commands + n /\ notified' = TRUE ELSE UNCHANGED <<commands, notified>>

(* The client starts a driver, and deletes it: the destructor shuts the    *)
(* broker down and waits for the loop to exit.                             *)
StartDriver ==
    /\ driver = "none" /\ owner < Drivers
    /\ owner' = owner + 1 /\ driver' = "up" /\ connected' = FALSE
    /\ ScheduleTimer("register", 0)
    /\ UNCHANGED <<enabled, exited, asleep, fed, firing, next, broker, external>>

(* RedisMessageBroker::shutdown.                                           *)
Shutdown == running' = FALSE /\ unloop' = (unloop \/ running)

DeleteDriver ==
    /\ driver = "up" /\ running
    /\ driver' = "going"
    /\ Shutdown
    /\ UNCHANGED <<loop, notified, commands, conn, inflight, stale, failed, connected, owner, external>>

Deleted ==
    /\ driver = "going" /\ exited
    /\ driver' = "none"
    /\ UNCHANGED <<loop, broker, connected, owner, external>>

----------------------------------------------------------------------------
(* The loop thread, between two events.                                    *)
Idle == ~exited /\ firing = <<>>

Due(ts) == [i \in 1..(ts["register"][0] + ts["heartbeat"][0]) |->
                IF i <= ts["register"][0] THEN "register" ELSE "heartbeat"]
Later(ts) == [k \in Kinds |-> [ts[k] EXCEPT ![0] = 0]]
NextFire(ts) ==
    LET left == {l \in 0..MaxDelay : \E k \in Kinds : ts[k][l] > 0}
    IN IF left = {} THEN MaxDelay ELSE CHOOSE l \in left : \A m \in left : l <= m

\* Seeded fault: only the timers of one fire time are taken, and the loop
\* sleeps for its whole period.
TimeoutSleeps ==
    /\ Idle /\ (asleep = 0 \/ fed)
    /\ fed' = FALSE
    /\ IF ~enabled THEN asleep' = Off /\ UNCHANGED <<timers, firing, next>>
       ELSE /\ firing' = Due(timers)
            /\ timers' = Later(timers)
            /\ next' = Off
            /\ asleep' = Off
    /\ UNCHANGED <<enabled, exited, refreshed, broker, client, external>>

(* EvHelper::timeout_cb: takes the timers that are due and computes when   *)
(* the next one is; the watcher is set again after the callbacks.          *)
TimeoutCb ==
    /\ Idle /\ (asleep = 0 \/ fed)
    /\ fed' = FALSE
    /\ IF ~enabled THEN asleep' = Off /\ UNCHANGED <<timers, firing, next>>
       ELSE /\ firing' = Due(timers)
            /\ timers' = Later(timers)
            /\ next' = NextFire(Later(timers))
            /\ asleep' = IF Due(timers) = <<>> THEN NextFire(Later(timers)) ELSE Off
    /\ UNCHANGED <<enabled, exited, refreshed, broker, client, external>>

(* ev_timer_again after the last callback.                                 *)
Fired == firing' = Tail(firing) /\ asleep' = IF Len(firing) = 1 THEN next ELSE asleep

(* RedisMessageBroker::connect and init(false): a new connection.  The     *)
(* BRPOPs of the one it replaces are still answered.                       *)
Connect ==
    /\ conn' = IF redis THEN "valid" ELSE "broken"
    /\ stale' = IF redis THEN stale + inflight ELSE stale
    /\ inflight' = 0
    /\ running' = (running \/ redis)

\* Seeded fault: the channels are created before the connection.
RegisterUnconnected ==
    /\ firing # <<>> /\ Head(firing) = "register"
    /\ Fired
    /\ \/ connected /\ UNCHANGED <<timers, refreshed, broker, list>>
       \/ /\ ~connected /\ redis
          /\ SendMessage(1, conn)
          /\ Connect
          /\ list' = IF Len(list) < MaxMessages + 2 THEN Append(list, "registered") ELSE list
          /\ UNCHANGED <<timers, refreshed, unloop, failed>>
       \/ /\ ~connected /\ ~redis
          /\ Connect
          /\ ScheduleTimer("register", 1)
          /\ UNCHANGED <<notified, unloop, commands, failed, list>>
    /\ UNCHANGED <<enabled, exited, fed, next, client, redis, losses, messages, quiet>>

(* doReliableRegistration: setUrl and createChannels, or a second later.   *)
Register ==
    /\ firing # <<>> /\ Head(firing) = "register"
    /\ Fired
    /\ \/ connected /\ UNCHANGED <<timers, refreshed, broker, list>>
       \/ /\ ~connected /\ redis
          /\ Connect
          /\ SendMessage(1, conn')
          /\ list' = IF Len(list) < MaxMessages + 2 THEN Append(list, "registered") ELSE list
          /\ UNCHANGED <<timers, refreshed, unloop, failed>>
       \/ /\ ~connected /\ ~redis
          /\ Connect
          /\ ScheduleTimer("register", 1)
          /\ UNCHANGED <<notified, unloop, commands, failed, list>>
    /\ UNCHANGED <<enabled, exited, fed, next, client, redis, losses, messages, quiet>>

\* Seeded fault: the timer is set again before and after the write.
SendHeartbeatTwice ==
    /\ firing # <<>> /\ Head(firing) = "heartbeat"
    /\ Fired
    /\ timers' = [timers EXCEPT !["heartbeat"][MaxDelay] = @ + 2] /\ refreshed' = TRUE
    /\ UNCHANGED <<enabled, exited, fed, next, broker, client, external>>

(* RedisChannel::sendHeartbeat.                                            *)
SendHeartbeat ==
    /\ firing # <<>> /\ Head(firing) = "heartbeat"
    /\ Fired
    /\ ScheduleTimer("heartbeat", MaxDelay)
    /\ UNCHANGED <<enabled, exited, fed, next, broker, client, external>>

(* EvHelper::async_cb: ev_break, or an immediate timeout event.            *)
AsyncCb ==
    /\ Idle /\ refreshed
    /\ refreshed' = FALSE
    /\ IF enabled THEN asleep' = Off /\ fed' = TRUE ELSE UNCHANGED <<asleep, fed>>
    /\ UNCHANGED <<enabled, exited, timers, firing, next, broker, client, external>>

(* async_cb of the broker: all queued commands are executed, or dropped if *)
(* the connection is no longer valid.                                      *)
BrokerAsyncCb ==
    /\ Idle /\ notified
    /\ notified' = FALSE
    /\ IF ~running THEN UNCHANGED <<commands, inflight>>
       ELSE /\ commands' = 0
            /\ inflight' = inflight + (IF conn = "valid" THEN commands ELSE 0)
    /\ UNCHANGED <<loop, running, unloop, conn, stale, failed, client, external>>

\* Seeded fault: the connection is closed but the loop goes on.
UnloopOnly ==
    /\ Idle /\ unloop
    /\ unloop' = FALSE
    /\ conn' = "none" /\ stale' = stale + inflight /\ inflight' = 0
    /\ UNCHANGED <<loop, running, notified, commands, failed, client, external>>

(* unloop_cb: disconnect, and EvHelper::shutdown in the loop's thread.     *)
UnloopCb ==
    /\ Idle /\ unloop
    /\ unloop' = FALSE
    /\ conn' = "none" /\ stale' = stale + inflight /\ inflight' = 0
    /\ enabled' = FALSE /\ refreshed' = TRUE
    /\ UNCHANGED <<exited, timers, asleep, fed, firing, next, running, notified, commands, failed, client, external>>

(* EvHelper::eventLoop.                                                    *)
EventLoopExits ==
    /\ Idle /\ ~enabled
    /\ exited' = TRUE
    /\ UNCHANGED <<enabled, timers, asleep, fed, refreshed, firing, next, broker, client, external>>

(* A reply to a BRPOP on conn_ or on a connection it replaced.             *)
Answered(cur, old) ==
    \/ cur > 0 /\ inflight' = cur - 1 /\ stale' = old
    \/ old > 0 /\ inflight' = cur /\ stale' = old - 1

\* Seeded fault: after a BRPOP that timed out no other is queued.
OnInputStops(type) ==
    /\ IF type = "registered" /\ ~connected
       THEN connected' = TRUE /\ ScheduleTimer("heartbeat", MaxDelay)
       ELSE UNCHANGED <<connected, timers, refreshed>>
    /\ IF type = "nil" THEN UNCHANGED <<commands, notified>> ELSE SendMessage(1, conn)

\* Seeded fault: a lost connection does not start a registration.
OnInputIgnoresError(type) ==
    /\ CASE type = "registered" /\ ~connected ->
                connected' = TRUE /\ ScheduleTimer("heartbeat", MaxDelay)
         [] OTHER -> UNCHANGED <<connected, timers, refreshed>>
    /\ SendMessage(1, conn)

(* RedisChannelCallback::onInput with the owner's callback: registered     *)
(* sets the heartbeat payload; an error starts a registration.  Then the   *)
(* next BRPOP.                                                             *)
OnInput(type) ==
    /\ CASE type = "registered" /\ ~connected ->
                connected' = TRUE /\ ScheduleTimer("heartbeat", MaxDelay)
         [] type = "error" -> connected' = FALSE /\ ScheduleTimer("register", 0)
         [] OTHER -> UNCHANGED <<connected, timers, refreshed>>
    /\ SendMessage(1, conn)

(* BaseAsyncHandler::onReply: an array with a message, or nil when BRPOP   *)
(* timed out.                                                              *)
OnReply ==
    /\ Idle /\ redis /\ Answered(inflight, stale)
    /\ IF list = <<>> THEN UNCHANGED list ELSE list' = Tail(list)
    /\ IF running THEN OnInput(IF list = <<>> THEN "nil" ELSE Head(list))
       ELSE UNCHANGED <<connected, timers, refreshed, commands, notified>>
    /\ UNCHANGED <<enabled, exited, asleep, fed, firing, next, running, unloop, conn, failed, owner, driver,
                   redis, losses, messages, quiet>>

OnError ==
    /\ Idle /\ failed > 0
    /\ failed' = failed - 1
    /\ IF running THEN OnInput("error")
       ELSE UNCHANGED <<connected, timers, refreshed, commands, notified>>
    /\ UNCHANGED <<enabled, exited, asleep, fed, firing, next, running, unloop, conn, inflight, stale, owner,
                   driver, external>>

----------------------------------------------------------------------------
(* Time passes.                                                            *)
Ticked(ts) == [k \in Kinds |-> [l \in 0..MaxDelay |->
    (IF l = MaxDelay THEN 0 ELSE ts[k][l + 1]) + (IF l = 0 THEN ts[k][0] ELSE 0)]]
Tick ==
    /\ ~exited
    /\ timers' = Ticked(timers)
    /\ asleep' = IF asleep \in {0, Off} THEN asleep ELSE asleep - 1
    /\ <<timers', asleep'>> # <<timers, asleep>>
    /\ UNCHANGED <<enabled, exited, fed, refreshed, firing, next, broker, client, external>>

(* External: Redis, and the service that writes to the list.               *)
LoseLink ==
    /\ losses < MaxLosses /\ redis
    /\ losses' = losses + 1 /\ redis' = FALSE
    /\ conn' = IF conn = "valid" THEN "broken" ELSE conn
    /\ failed' = inflight + stale /\ inflight' = 0 /\ stale' = 0
    /\ quiet' = (quiet \/ (conn = "valid" /\ inflight + stale = 0))
    /\ UNCHANGED <<loop, running, notified, unloop, commands, client, list, messages>>

RedisBack ==
    /\ ~redis
    /\ redis' = TRUE
    /\ UNCHANGED <<loop, broker, client, list, losses, messages, quiet>>

ServiceSends ==
    /\ redis /\ messages < MaxMessages
    /\ messages' = messages + 1 /\ list' = Append(list, "other")
    /\ UNCHANGED <<loop, broker, client, redis, losses, quiet>>

----------------------------------------------------------------------------
Next ==
    \/ StartDriver \/ DeleteDriver \/ Deleted
    \/ TimeoutCb \/ Register \/ SendHeartbeat
    \/ AsyncCb \/ BrokerAsyncCb \/ UnloopCb \/ EventLoopExits
    \/ OnReply \/ OnError
    \/ Tick \/ LoseLink \/ RedisBack \/ ServiceSends

(* libev serves every pending event of an iteration; time passes; Redis    *)
(* comes back.  The client need not create or delete anything.             *)
Fairness ==
    /\ WF_vars(Register \/ SendHeartbeat)
    /\ SF_vars(TimeoutCb) /\ SF_vars(AsyncCb) /\ SF_vars(BrokerAsyncCb) /\ SF_vars(UnloopCb)
    /\ SF_vars(EventLoopExits) /\ SF_vars(OnReply) /\ SF_vars(OnError)
    /\ WF_vars(Tick) /\ WF_vars(RedisBack) /\ WF_vars(Deleted)

Spec == Init /\ [][Next]_vars /\ Fairness

----------------------------------------------------------------------------
(* The reader never dies by itself: while the broker runs and its          *)
(* connection has not broken, a BRPOP is in flight or queued, and a queued *)
(* one has the loop's attention (RedisChannelCallback::onInput,            *)
(* sendMessage, async_cb).                                                 *)
ReaderAlive ==
    running /\ conn = "valid" =>
        inflight + stale + commands > 0 /\ (commands > 0 => notified)

(* A timer that is due does not wait for ever: the loop is woken for it,   *)
(* or had set its alarm for it (scheduleTimer, async_cb, timeout_cb).      *)
DueFires == (Due(timers) # <<>>) ~> (Due(timers) = <<>> \/ ~enabled)

(* What the service writes is read, as long as the connection holds.       *)
MessagesRead == (list # <<>>) ~> (list = <<>> \/ ~running \/ losses > 0)

(* A connection that breaks under a BRPOP is replaced; only one that       *)
(* breaks between two BRPOPs is not noticed (onReply, onInput, setUrl).    *)
BreakNoticed == (conn = "broken" /\ ~quiet) ~> (conn # "broken" \/ ~running)

(* The destructor of a driver does not wait for ever.                      *)
DeletionCompletes == (driver = "going") ~> (driver # "going")

(* The first driver of the process gets connected, unless it is deleted    *)
(* before or Redis is lost (doReliableRegistration, onInput).  A later one *)
(* never does: the loop it would run on has exited for good.               *)
FirstDriverConnects == (owner = 1) ~> (connected \/ driver # "up" \/ losses > 0)

(* The reader serves: a first answer comes, messages are read, and a break *)
(* is noticed.                                                             *)
ReaderServes == FirstDriverConnects /\ MessagesRead /\ BreakNoticed
=============================================================================
