------------------------------ MODULE Channel ------------------------------
(***************************************************************************)
(* A channel of the broker service and its reliable reader                 *)
(* (urb-core/source/python/urb/messaging/channel.py over the Redis lists   *)
(* of redis_message_broker.py).                                            *)
(*                                                                         *)
(* A channel is a Redis list; a reader moves the oldest message to a       *)
(* second list, <name>.processing, hands it to a greenlet of its own, and  *)
(* removes it from that list when the handler returns.  A reader that      *)
(* starts first moves everything in the processing list back, so that what *)
(* a crashed service was working on is done again.  Redis lists are        *)
(* written as sequences whose left end is the head: LPUSH writes at the    *)
(* left, BRPOPLPUSH reads at the right.                                    *)
(*                                                                         *)
(* Several services may share the channel; the master election starts and  *)
(* stops their listeners (module MasterElector).                           *)
(***************************************************************************)
EXTENDS Lrem

CONSTANTS
    Services,     \* service processes that may become the reader
    Messages,     \* contents of messages; nothing else is on the wire
    Copies,       \* how often each content is written at most
    MaxCrashes,   \* bound on crashes of services
    MaxStarts,    \* bound on start_listener calls
    RedisFails    \* a Redis call of a listener may raise

ASSUME BoundsAssumption ==
    /\ Copies \in Nat \ {0} /\ MaxCrashes \in Nat /\ MaxStarts \in Nat
    /\ RedisFails \in BOOLEAN

VARIABLES
    queue,        \* the list of the channel
    processing,   \* the list <name>.processing
    listening,    \* __listen of each service's channel object
    checkLost,    \* its __check_for_lost_messages
    looping,      \* its listen greenlets that are at the top of the loop
    blocked,      \* its listen greenlets inside brpoplpush
    handling,     \* its handler greenlets: contents whose callback is running
    acking,       \* and those whose callback has returned, before LREM
    written,      \* how often each content was written
    completed,    \* how often the callback for it returned, up to Copies
    crashes, starts,
    disturbed     \* history: a Redis call failed, or a listener started beside another

redisVars == <<queue, processing>>
readerVars == <<listening, checkLost, looping, blocked>>
handlerVars == <<handling, acking>>
historyVars == <<written, completed>>
vars == <<redisVars, readerVars, handlerVars, historyVars, crashes, starts, disturbed>>

(* Greenlets are counted: the handlers of one service form a bag.          *)
NoHandlers == [m \in Messages |-> 0]
Plus(bag, m) == [bag EXCEPT ![m] = @ + 1]
Minus(bag, m) == [bag EXCEPT ![m] = @ - 1]
Occurrences(seq, m) == Len(SelectSeq(seq, LAMBDA x : x = m))

Init ==
    /\ queue = <<>> /\ processing = <<>>
    /\ listening = [s \in Services |-> FALSE]
    /\ checkLost = [s \in Services |-> FALSE]
    /\ looping = [s \in Services |-> 0]
    /\ blocked = [s \in Services |-> 0]
    /\ handling = [s \in Services |-> NoHandlers]
    /\ acking = [s \in Services |-> NoHandlers]
    /\ written = NoHandlers /\ completed = NoHandlers
    /\ crashes = 0 /\ starts = 0 /\ disturbed = FALSE

----------------------------------------------------------------------------
(* Channel.write: LPUSH.                                                   *)
Write(m) ==
    /\ written[m] < Copies
    /\ queue' = <<m>> \o queue
    /\ written' = Plus(written, m)
    /\ UNCHANGED <<processing, readerVars, handlerVars, completed, crashes, starts, disturbed>>

(* The service still reads or handles messages of the channel.             *)
AtWork(s) ==
    \/ listening[s] \/ looping[s] + blocked[s] > 0
    \/ handling[s] # NoHandlers \/ acking[s] # NoHandlers

(* Channel.start_listener and the first line of listen.                    *)
StartListener(s) ==
    /\ ~listening[s]
    /\ starts < MaxStarts
    /\ listening' = [listening EXCEPT ![s] = TRUE]
    /\ checkLost' = [checkLost EXCEPT ![s] = TRUE]
    /\ looping' = [looping EXCEPT ![s] = @ + 1]
    /\ starts' = starts + 1
    /\ disturbed' = (disturbed \/ \E t \in Services \ {s} : AtWork(t))
    /\ UNCHANGED <<redisVars, blocked, handlerVars, historyVars, crashes>>

(* Channel.stop_listener: the flag only; greenlets see it when they loop.  *)
(* By the bound, a listener stops or crashes while a start is left.        *)
StopListener(s) ==
    /\ listening[s]
    /\ starts < MaxStarts
    /\ listening' = [listening EXCEPT ![s] = FALSE]
    /\ UNCHANGED <<redisVars, checkLost, looping, blocked, handlerVars, historyVars, crashes, starts, disturbed>>

ExitLoop(s) ==
    /\ looping[s] > 0
    /\ ~listening[s]
    /\ looping' = [looping EXCEPT ![s] = @ - 1]
    /\ UNCHANGED <<redisVars, listening, checkLost, blocked, handlerVars, historyVars, crashes, starts, disturbed>>

\* Seeded fault: the script moves messages to the left end (LPOP, LPUSH).
RestoreAtHead(s) ==
    /\ looping[s] > 0 /\ listening[s] /\ checkLost[s]
    /\ queue' = Reverse(processing) \o queue
    /\ processing' = <<>>
    /\ checkLost' = [checkLost EXCEPT ![s] = FALSE]
    /\ UNCHANGED <<listening, looping, blocked, handlerVars, historyVars, crashes, starts, disturbed>>

\* Seeded fault: a listener that starts does not look for lost messages.
RestoreNothing(s) ==
    /\ looping[s] > 0 /\ listening[s] /\ checkLost[s]
    /\ checkLost' = [checkLost EXCEPT ![s] = FALSE]
    /\ UNCHANGED <<redisVars, listening, looping, blocked, handlerVars, historyVars, crashes, starts, disturbed>>

(* restore_lost_messages: the script takes from the left of the processing *)
(* list and appends at the right of the channel's list until it is empty.  *)
RestoreLostMessages(s) ==
    /\ looping[s] > 0 /\ listening[s] /\ checkLost[s]
    /\ queue' = queue \o processing
    /\ processing' = <<>>
    /\ checkLost' = [checkLost EXCEPT ![s] = FALSE]
    /\ UNCHANGED <<listening, looping, blocked, handlerVars, historyVars, crashes, starts, disturbed>>

(* The script is called outside the try of the loop: an exception ends the *)
(* greenlet and leaves __listen set.                                       *)
RestoreFails(s) ==
    /\ RedisFails
    /\ looping[s] > 0 /\ listening[s] /\ checkLost[s]
    /\ looping' = [looping EXCEPT ![s] = @ - 1]
    /\ disturbed' = TRUE
    /\ UNCHANGED <<redisVars, listening, checkLost, blocked, handlerVars, historyVars, crashes, starts>>

(* The call of read_blocking: brpoplpush waits in Redis for a message.     *)
ReadBlocking(s) ==
    /\ looping[s] > 0 /\ listening[s] /\ ~checkLost[s]
    /\ looping' = [looping EXCEPT ![s] = @ - 1]
    /\ blocked' = [blocked EXCEPT ![s] = @ + 1]
    /\ UNCHANGED <<redisVars, listening, checkLost, handlerVars, historyVars, crashes, starts, disturbed>>

\* Seeded fault: BRPOP instead of BRPOPLPUSH.
PopWithoutProcessing(s) ==
    /\ blocked[s] > 0
    /\ queue # <<>>
    /\ queue' = Front(queue)
    /\ handling' = [handling EXCEPT ![s] = Plus(@, Last(queue))]
    /\ blocked' = [blocked EXCEPT ![s] = @ - 1]
    /\ looping' = [looping EXCEPT ![s] = @ + 1]
    /\ UNCHANGED <<processing, listening, checkLost, acking, historyVars, crashes, starts, disturbed>>

(* It gets one, whether or not the listener was stopped in the meantime,   *)
(* and a greenlet is spawned for it.                                       *)
PopBlocking(s) ==
    /\ blocked[s] > 0
    /\ queue # <<>>
    /\ queue' = Front(queue)
    /\ processing' = <<Last(queue)>> \o processing
    /\ handling' = [handling EXCEPT ![s] = Plus(@, Last(queue))]
    /\ blocked' = [blocked EXCEPT ![s] = @ - 1]
    /\ looping' = [looping EXCEPT ![s] = @ + 1]
    /\ UNCHANGED <<listening, checkLost, acking, historyVars, crashes, starts, disturbed>>

(* It gets none within a second, or raises: the exception is caught.       *)
PopTimeout(s) ==
    /\ blocked[s] > 0
    /\ queue = <<>> \/ RedisFails
    /\ blocked' = [blocked EXCEPT ![s] = @ - 1]
    /\ looping' = [looping EXCEPT ![s] = @ + 1]
    /\ disturbed' = (disturbed \/ queue # <<>>)
    /\ UNCHANGED <<redisVars, listening, checkLost, handlerVars, historyVars, crashes, starts>>

(* Redis moves the message and the answer is lost with the connection: no  *)
(* greenlet is spawned for it.                                             *)
PopAnswerLost(s) ==
    /\ RedisFails
    /\ blocked[s] > 0
    /\ queue # <<>>
    /\ queue' = Front(queue)
    /\ processing' = <<Last(queue)>> \o processing
    /\ blocked' = [blocked EXCEPT ![s] = @ - 1]
    /\ looping' = [looping EXCEPT ![s] = @ + 1]
    /\ disturbed' = TRUE
    /\ UNCHANGED <<listening, checkLost, handlerVars, historyVars, crashes, starts>>

(* __read_callback_wrapper: the callback (MessageHandler.handle) returns;  *)
(* it catches every exception of its own.                                  *)
Callback(s, m) ==
    /\ handling[s][m] > 0
    /\ handling' = [handling EXCEPT ![s] = Minus(@, m)]
    /\ acking' = [acking EXCEPT ![s] = Plus(@, m)]
    /\ completed' = [completed EXCEPT ![m] = IF @ < Copies THEN @ + 1 ELSE @]
    /\ UNCHANGED <<redisVars, readerVars, written, crashes, starts, disturbed>>

(* message_processed: LREM with count 0 removes every equal element.       *)
MessageProcessed(s, m) ==
    /\ acking[s][m] > 0
    /\ processing' = Without(processing, m)
    /\ acking' = [acking EXCEPT ![s] = Minus(@, m)]
    /\ UNCHANGED <<queue, readerVars, handling, historyVars, crashes, starts, disturbed>>

(* LREM raises: the wrapper logs it and the greenlet ends.                 *)
MessageProcessedFails(s, m) ==
    /\ RedisFails
    /\ acking[s][m] > 0
    /\ acking' = [acking EXCEPT ![s] = Minus(@, m)]
    /\ disturbed' = TRUE
    /\ UNCHANGED <<redisVars, readerVars, handling, historyVars, crashes, starts>>

(* The service process dies; the lists stay in Redis.                      *)
Crash(s) ==
    /\ crashes < MaxCrashes
    /\ starts < MaxStarts
    /\ crashes' = crashes + 1
    /\ listening' = [listening EXCEPT ![s] = FALSE]
    /\ checkLost' = [checkLost EXCEPT ![s] = FALSE]
    /\ looping' = [looping EXCEPT ![s] = 0]
    /\ blocked' = [blocked EXCEPT ![s] = 0]
    /\ handling' = [handling EXCEPT ![s] = NoHandlers]
    /\ acking' = [acking EXCEPT ![s] = NoHandlers]
    /\ UNCHANGED <<redisVars, historyVars, starts, disturbed>>

Listener(s) ==
    \/ ExitLoop(s)
    \/ RestoreLostMessages(s)
    \/ RestoreFails(s)
    \/ ReadBlocking(s)
    \/ PopBlocking(s)
    \/ PopTimeout(s)
    \/ PopAnswerLost(s)

Next ==
    \/ \E m \in Messages : Write(m)
    \/ \E s \in Services :
        \/ StartListener(s) \/ StopListener(s) \/ Crash(s)
        \/ Listener(s)
        \/ \E m \in Messages :
            Callback(s, m) \/ MessageProcessed(s, m) \/ MessageProcessedFails(s, m)

(* Greenlets that can run do; a message in the list ends the wait for one. *)
(* The election starts a listener while no service listens.                *)
Fairness ==
    /\ WF_vars(\E s \in Services :
                StartListener(s) /\ \A t \in Services : ~listening[t])
    /\ \A s \in Services :
        /\ WF_vars(ExitLoop(s) \/ RestoreLostMessages(s) \/ ReadBlocking(s))
        /\ WF_vars(PopBlocking(s))
        /\ \A m \in Messages : WF_vars(Callback(s, m) \/ MessageProcessed(s, m))

Spec == Init /\ [][Next]_vars /\ Fairness

----------------------------------------------------------------------------
Stored == queue \o processing

(* The channel implements the mailbox its writers rely on: whatever the    *)
(* listeners, handlers and crashes do, what is in the two lists taken      *)
(* together keeps the order of writing, and nothing leaves them before a   *)
(* callback for it has returned (brpoplpush, the restore script, lrem).    *)
mailbox == INSTANCE Mailbox WITH
    pending <- Stored,
    arrived <- {m \in Messages : written[m] > 0},
    handled <- {m \in Messages : completed[m] > 0}

AtLeastOnceMailbox == mailbox!Spec

(* Contents that are written once each: the callback runs for a message    *)
(* written, however its readers crash, are stopped and are started again   *)
(* (listen restores what was being processed when it starts), unless a     *)
(* call of Redis fails or a reader starts beside another one's.            *)
EveryMessageHandled ==
    \A m \in Messages : written[m] > 0 ~> (completed[m] > 0 \/ disturbed)

(* After the callback has returned the message is marked as processed and  *)
(* leaves both lists (__read_callback_wrapper), with the same exceptions.  *)
HandledIsMarked ==
    \A m \in Messages :
        (completed[m] > 0 /\ written[m] = Copies) ~> (Occurrences(Stored, m) = 0 \/ disturbed)

(* A message that is written is handled and, in the end, gone for good.    *)
EveryMessageServed == EveryMessageHandled /\ HandledIsMarked

=============================================================================
