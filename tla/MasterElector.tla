--------------------------- MODULE MasterElector ---------------------------
(***************************************************************************)
(* The election of the master among the broker services that share a Redis *)
(* server (urb-core/source/python/urb/service/master_elector.py over       *)
(* determine_master_message_broker and refresh_master_message_broker), and *)
(* what URBService does when it is elected, demoted and shut down.         *)
(*                                                                         *)
(* The master is whoever's id is in the Redis key urb.master.  The key     *)
(* expires after TTL; every service looks at it in a loop, sets it if it   *)
(* is missing and the master resets its time to live.  Time is the age of  *)
(* the key: ttl counts down and a service's gap counts up from the last    *)
(* time that it set or refreshed the key.  A service that holds the key or *)
(* believes it does is never longer than MaxGap without doing so; in the   *)
(* code the loop sleeps for 15 seconds and the key lives for 60.           *)
(*                                                                         *)
(* A service's id is its host and process id: one that died comes back as  *)
(* another service.                                                        *)
(***************************************************************************)
EXTENDS Naturals

CONSTANTS
    Services,
    NoOne,        \* Redis' answer for a missing key, None
    TTL,          \* ELECTOR_TTL_IN_SECONDS, in units of the clock
    MaxGap        \* the longest time between two refreshes of a master

ASSUME ServicesAssumption == NoOne \notin Services
ASSUME TimesAssumption == TTL \in Nat \ {0} /\ MaxGap \in Nat \ {0}

VARIABLES
    holder, ttl,  \* the key: its value and remaining time to live
    gap,          \* time since each service set or refreshed the key
    pc,           \* where its election loop is
    master,       \* its __master_broker
    were,         \* were_mb of the current round
    active,       \* its handlers are promoted: they listen and serve
    promoted,     \* they were promoted at some time
    shutdown      \* progress of its shutdown_callback

keyVars == <<holder, ttl>>
loopVars == <<pc, master, were>>
serviceVars == <<active, promoted, shutdown>>
vars == <<keyVars, gap, loopVars, serviceVars>>

Places == {"wait", "set", "reread", "decided", "electing", "off"}

TypeOK ==
    /\ holder \in Services \cup {NoOne}
    /\ ttl \in 0..TTL
    /\ gap \in [Services -> 0..MaxGap]
    /\ pc \in [Services -> Places]
    /\ master \in [Services -> Services \cup {NoOne}]
    /\ were \in [Services -> BOOLEAN]
    /\ active \in [Services -> BOOLEAN]
    /\ promoted \in [Services -> BOOLEAN]
    /\ shutdown \in [Services -> {"no", "demoted", "done"}]

Init ==
    /\ holder = NoOne /\ ttl = 0
    /\ gap = [s \in Services |-> 0]
    /\ pc = [s \in Services |-> "wait"]
    /\ master = [s \in Services |-> NoOne]
    /\ were = [s \in Services |-> FALSE]
    /\ active = [s \in Services |-> FALSE]
    /\ promoted = [s \in Services |-> FALSE]
    /\ shutdown = [s \in Services |-> "no"]

Goto(s, place) == pc' = [pc EXCEPT ![s] = place]
Learn(s, who) == master' = [master EXCEPT ![s] = who]
IsMaster(s) == master[s] = s

----------------------------------------------------------------------------
(* The Redis key.  SET NX EX and EXPIRE with the elector's time to live.   *)
SetKey(s) ==
    /\ holder' = s
    /\ ttl' = TTL
    /\ gap' = [gap EXCEPT ![s] = 0]

ExpireKey(s) ==
    /\ ttl' = IF holder = NoOne THEN 0 ELSE TTL
    /\ gap' = [gap EXCEPT ![s] = 0]
    /\ UNCHANGED holder

(* Time passes.                                                            *)
MustRefresh(s) == pc[s] # "off" /\ (holder = s \/ IsMaster(s))

Tick ==
    /\ \A s \in Services : MustRefresh(s) => gap[s] < MaxGap
    /\ ttl' = IF ttl = 0 THEN 0 ELSE ttl - 1
    /\ holder' = IF ttl <= 1 THEN NoOne ELSE holder
    /\ gap' = [s \in Services |-> IF gap[s] < MaxGap THEN gap[s] + 1 ELSE gap[s]]
    /\ UNCHANGED <<loopVars, serviceVars>>

----------------------------------------------------------------------------
(* A round of the loop: determine_master_message_broker reads the key,     *)
(* sets it if there is none, and reads it again if another was faster.     *)
Get(s) ==
    /\ pc[s] = "wait"
    /\ shutdown[s] # "done"
    /\ were' = [were EXCEPT ![s] = IsMaster(s)]
    /\ IF holder = NoOne
       THEN Goto(s, "set") /\ UNCHANGED master
       ELSE Goto(s, "decided") /\ Learn(s, holder)
    /\ UNCHANGED <<keyVars, gap, serviceVars>>

\* Seeded fault: SET without NX overwrites the key of a faster service.
SetAlways(s) ==
    /\ pc[s] = "set"
    /\ SetKey(s) /\ Learn(s, s) /\ Goto(s, "decided")
    /\ UNCHANGED <<were, serviceVars>>

Set(s) ==
    /\ pc[s] = "set"
    /\ IF holder = NoOne
       THEN SetKey(s) /\ Learn(s, s) /\ Goto(s, "decided")
       ELSE Goto(s, "reread") /\ UNCHANGED <<keyVars, gap, master>>
    /\ UNCHANGED <<were, serviceVars>>

Reread(s) ==
    /\ pc[s] = "reread"
    /\ Learn(s, holder)
    /\ Goto(s, "decided")
    /\ UNCHANGED <<keyVars, gap, were, serviceVars>>

(* A Redis call of determine raises; the belief stays what it was.  SET    *)
(* may have been executed all the same.                                    *)
DetermineFails(s) ==
    /\ pc[s] \in {"set", "reread"}
    /\ Goto(s, "wait")
    /\ \/ UNCHANGED <<keyVars, gap>>
       \/ pc[s] = "set" /\ holder = NoOne /\ SetKey(s)
    /\ UNCHANGED <<master, were, serviceVars>>

AfterRefresh(s) == IF were[s] THEN "wait" ELSE "electing"

\* Seeded fault: every service refreshes the key it finds.
RefreshByAll(s) ==
    /\ pc[s] = "decided"
    /\ ExpireKey(s)
    /\ Goto(s, IF IsMaster(s) THEN AfterRefresh(s) ELSE "wait")
    /\ UNCHANGED <<master, were, serviceVars>>

Refresh(s) ==
    /\ pc[s] = "decided" /\ IsMaster(s)
    /\ ExpireKey(s)
    /\ Goto(s, AfterRefresh(s))
    /\ UNCHANGED <<master, were, serviceVars>>

RefreshFails(s) ==
    /\ pc[s] = "decided" /\ IsMaster(s)
    /\ Goto(s, AfterRefresh(s))
    /\ UNCHANGED <<keyVars, gap, master, were, serviceVars>>

(* elected_master_callback: the handlers start to listen and to serve.     *)
Elected(s) ==
    /\ pc[s] = "electing"
    /\ active' = [active EXCEPT ![s] = TRUE]
    /\ promoted' = [promoted EXCEPT ![s] = TRUE]
    /\ Goto(s, "wait")
    /\ UNCHANGED <<keyVars, gap, master, were, shutdown>>

(* Another service is the master: demoted_callback if this one was.        *)
NotMaster(s) ==
    /\ pc[s] = "decided" /\ ~IsMaster(s)
    /\ active' = [active EXCEPT ![s] = @ /\ ~were[s]]
    /\ Goto(s, "wait")
    /\ UNCHANGED <<keyVars, gap, master, were, promoted, shutdown>>

----------------------------------------------------------------------------
\* Seeded fault: the shutdown of a standby gets as far as that of a master.
ShutdownOfAny(s) ==
    /\ pc[s] # "off" /\ shutdown[s] = "no"
    /\ active' = [active EXCEPT ![s] = FALSE]
    /\ shutdown' = [shutdown EXCEPT ![s] = "demoted"]
    /\ UNCHANGED <<keyVars, gap, loopVars, promoted>>

\* Seeded fault: the handlers of a service that shuts down go on serving.
ShutdownWithoutDemotion(s) ==
    /\ pc[s] # "off" /\ shutdown[s] = "no" /\ promoted[s]
    /\ shutdown' = [shutdown EXCEPT ![s] = "demoted"]
    /\ UNCHANGED <<keyVars, gap, loopVars, active, promoted>>

(* shutdown_callback, on a signal or a request: the handlers are demoted.  *)
(* In a service that was never elected demoted_callback raises (there is   *)
(* no server and no monitor to stop), and shutdown_callback goes no        *)
(* further: nothing changes.                                               *)
Shutdown(s) ==
    /\ pc[s] # "off" /\ shutdown[s] = "no"
    /\ IF promoted[s]
       THEN /\ active' = [active EXCEPT ![s] = FALSE]
            /\ shutdown' = [shutdown EXCEPT ![s] = "demoted"]
       ELSE UNCHANGED <<active, shutdown>>
    /\ UNCHANGED <<keyVars, gap, loopVars, promoted>>

(* After a second's sleep the shutdown flag is set and the key is expired  *)
(* at once, whoever holds it.                                              *)
ReleaseKey(s) ==
    /\ pc[s] # "off" /\ shutdown[s] = "demoted"
    /\ shutdown' = [shutdown EXCEPT ![s] = "done"]
    /\ holder' = NoOne /\ ttl' = 0
    /\ UNCHANGED <<gap, loopVars, active, promoted>>

(* serve stops the elector, which finishes its round, and returns.         *)
Exit(s) ==
    /\ pc[s] = "wait" /\ shutdown[s] = "done"
    /\ Goto(s, "off")
    /\ active' = [active EXCEPT ![s] = FALSE]
    /\ UNCHANGED <<keyVars, gap, master, were, promoted, shutdown>>

(* The process dies: nothing is released.                                  *)
Crash(s) ==
    /\ pc[s] # "off"
    /\ Goto(s, "off")
    /\ active' = [active EXCEPT ![s] = FALSE]
    /\ UNCHANGED <<keyVars, gap, master, were, promoted, shutdown>>

Round(s) ==
    \/ Get(s) \/ Set(s) \/ Reread(s) \/ DetermineFails(s)
    \/ Refresh(s) \/ RefreshFails(s) \/ Elected(s) \/ NotMaster(s)

Next ==
    \/ Tick
    \/ \E s \in Services :
        Round(s) \/ Shutdown(s) \/ ReleaseKey(s) \/ Exit(s) \/ Crash(s)

(* The clock and the loops go on, and Redis does not fail for ever.        *)
Fairness ==
    /\ WF_vars(Tick)
    /\ \A s \in Services :
        /\ WF_vars(Get(s))
        /\ SF_vars(Set(s))
        /\ SF_vars(Reread(s))
        /\ SF_vars(Refresh(s))
        /\ WF_vars(Elected(s))
        /\ WF_vars(NotMaster(s))
        /\ WF_vars(ReleaseKey(s))
        /\ WF_vars(Exit(s))

Spec == Init /\ [][Next]_vars /\ Fairness

----------------------------------------------------------------------------
(* One service serves; the others are on cold standby.  It holds when a    *)
(* master refreshes its key before it expires, MaxGap < TTL, and across    *)
(* crashes, shutdowns and lost answers of Redis.                           *)
AtMostOneServing ==
    \A s, t \in Services : active[s] /\ active[t] => s = t

(* The key is removed by the clock or by the shutdown of the service that  *)
(* holds it, never under a master that goes on serving (refresh with a     *)
(* time to live of 0 in shutdown_callback).                                *)
KeyReleasedByHolder ==
    [][(holder # NoOne /\ holder' = NoOne) =>
            (ttl = 1 \/ ~active[holder])]_vars

(* As long as a service is up some service is elected and serves again:    *)
(* when the master dies its key expires and a standby takes over.          *)
StandbyTakesOver ==
    []<>((\E s \in Services : active[s]) \/ (\A s \in Services : pc[s] = "off"))

(* A service that was elected at some time and is asked to shut down       *)
(* leaves, and does not serve again before it does.                        *)
ShutdownCompletes ==
    \A s \in Services :
        /\ shutdown[s] # "no" ~> pc[s] = "off"
        /\ [](shutdown[s] # "no" => ~active[s])
=============================================================================
