------------------------ MODULE MasterElectorProofs ------------------------
(***************************************************************************)
(* Proofs about MasterElector for every set of services and all times with *)
(* MaxGap < TTL.                                                           *)
(*                                                                         *)
(* That at most one service serves is not inductive.  A serving service    *)
(* believes itself the master (BelievesWhenPromoted), a running believer   *)
(* that has not released the key holds it (BelieverHolds), and it still    *)
(* does after a tick of the clock because its key is no older than its gap *)
(* (KeyAge).  A shutdown releases the key of no other service because only *)
(* a service that was promoted gets that far (ShutdownOfPromoted).         *)
(***************************************************************************)
EXTENDS MasterElector, TLAPS

(* A master is never as late as its key lives.                             *)
TimelyRefresh == MaxGap < TTL

Running(s) == pc[s] # "off"

KeyInv == (holder = NoOne) <=> (ttl = 0)
KeyAge == \A s \in Services : Running(s) /\ holder = s => ttl + gap[s] >= TTL
BelieverHolds ==
    \A s \in Services : Running(s) /\ IsMaster(s) /\ shutdown[s] # "done" => holder = s
BelievesWhenPromoted ==
    \A s \in Services : Running(s) /\ promoted[s] /\ shutdown[s] # "done" => IsMaster(s)
ShutdownOfPromoted ==
    \A s \in Services : shutdown[s] # "no" => promoted[s]
RoundInv ==
    \A s \in Services :
        /\ pc[s] = "electing" => IsMaster(s) /\ ~promoted[s]
        /\ pc[s] \in {"set", "reread", "decided"} /\ promoted[s] => were[s]
ServesWhenPromoted ==
    \A s \in Services : active[s] => Running(s) /\ promoted[s] /\ shutdown[s] = "no"

ElectionInv ==
    /\ TypeOK /\ KeyInv /\ KeyAge /\ BelieverHolds /\ BelievesWhenPromoted
    /\ ShutdownOfPromoted /\ RoundInv /\ ServesWhenPromoted

(* The variables always have their types: in particular the time to live   *)
(* stays within its bound whatever expires, refreshes and releases it.     *)
THEOREM TypeCorrect == Spec => []TypeOK
<1>1. Init => TypeOK
  BY TimesAssumption DEF Init, TypeOK, Places
<1>2. TypeOK /\ [Next]_vars => TypeOK'
  <2> SUFFICES ASSUME TypeOK, [Next]_vars PROVE TypeOK'
    OBVIOUS
  <2> USE ServicesAssumption, TimesAssumption
          DEF TypeOK, Places, Goto, Learn, IsMaster, SetKey, ExpireKey,
              keyVars, loopVars, serviceVars
  <2>1. CASE Tick
    BY <2>1 DEF Tick
  <2>2. ASSUME NEW s \in Services, Round(s) PROVE TypeOK'
    <3>1. CASE Get(s)
      BY <3>1 DEF Get
    <3>2. CASE Set(s)
      BY <3>2 DEF Set
    <3>3. CASE Reread(s)
      BY <3>3 DEF Reread
    <3>4. CASE DetermineFails(s)
      BY <3>4 DEF DetermineFails
    <3>5. CASE Refresh(s)
      BY <3>5 DEF Refresh, AfterRefresh
    <3>6. CASE RefreshFails(s)
      BY <3>6 DEF RefreshFails, AfterRefresh
    <3>7. CASE Elected(s)
      BY <3>7 DEF Elected
    <3>8. CASE NotMaster(s)
      BY <3>8 DEF NotMaster
    <3> QED
      BY <2>2, <3>1, <3>2, <3>3, <3>4, <3>5, <3>6, <3>7, <3>8 DEF Round
  <2>3. ASSUME NEW s \in Services, Shutdown(s) PROVE TypeOK'
    BY <2>3 DEF Shutdown
  <2>4. ASSUME NEW s \in Services, ReleaseKey(s) PROVE TypeOK'
    BY <2>4 DEF ReleaseKey
  <2>5. ASSUME NEW s \in Services, Exit(s) PROVE TypeOK'
    BY <2>5 DEF Exit
  <2>6. ASSUME NEW s \in Services, Crash(s) PROVE TypeOK'
    BY <2>6 DEF Crash
  <2>7. CASE UNCHANGED vars
    BY <2>7 DEF vars
  <2> QED
    BY <2>1, <2>2, <2>3, <2>4, <2>5, <2>6, <2>7 DEF Next
<1> QED
  BY <1>1, <1>2, PTL DEF Spec

(* Every step of the election keeps the inductive invariant.               *)
LEMMA ElectionStep ==
    ASSUME TimelyRefresh, ElectionInv, TypeOK', [Next]_vars
    PROVE  ElectionInv'
<1> USE ServicesAssumption, TimesAssumption
        DEF ElectionInv, TypeOK, KeyInv, KeyAge, BelieverHolds, BelievesWhenPromoted,
            ShutdownOfPromoted, RoundInv, ServesWhenPromoted, Running, IsMaster,
            Goto, Learn, keyVars, loopVars, serviceVars
<1>1. CASE Tick
  <2>1. ASSUME NEW s \in Services, Running(s), holder = s
        PROVE  /\ holder' = s
               /\ ttl' + gap'[s] >= TTL
    <3>1. gap[s] < MaxGap /\ ttl + gap[s] >= TTL
      BY <1>1, <2>1 DEF Tick, MustRefresh
    <3>2. ttl > 1
      BY <3>1 DEF TimelyRefresh
    <3> QED
      BY <1>1, <2>1, <3>1, <3>2 DEF Tick
  <2>2. KeyInv'
    BY <1>1 DEF Tick
  <2>3. ASSUME NEW s \in Services, Running(s), holder' = s
        PROVE  holder = s
    BY <1>1, <2>3 DEF Tick
  <2>4. KeyAge'
    BY <1>1, <2>1, <2>3 DEF Tick
  <2>5. BelieverHolds'
    BY <1>1, <2>1 DEF Tick
  <2> QED
    BY <1>1, <2>2, <2>4, <2>5 DEF Tick
<1>2. ASSUME NEW s \in Services, Round(s) PROVE ElectionInv'
  <2>1. CASE Get(s)
    BY <2>1 DEF Get
  <2>2. CASE Set(s)
    BY <2>2 DEF Set, SetKey
  <2>3. CASE Reread(s)
    BY <2>3 DEF Reread
  <2>4. CASE DetermineFails(s)
    BY <2>4 DEF DetermineFails, SetKey
  <2>5. CASE Refresh(s)
    BY <2>5 DEF Refresh, AfterRefresh, ExpireKey
  <2>6. CASE RefreshFails(s)
    BY <2>6 DEF RefreshFails, AfterRefresh
  <2>7. CASE Elected(s)
    BY <2>7 DEF Elected
  <2>8. CASE NotMaster(s)
    BY <2>8 DEF NotMaster
  <2> QED
    BY <1>2, <2>1, <2>2, <2>3, <2>4, <2>5, <2>6, <2>7, <2>8 DEF Round
<1>3. ASSUME NEW s \in Services, Shutdown(s) PROVE ElectionInv'
  BY <1>3 DEF Shutdown
<1>4. ASSUME NEW s \in Services, ReleaseKey(s) PROVE ElectionInv'
  <2>1. holder = s
    BY <1>4 DEF ReleaseKey
  <2> QED
    BY <1>4, <2>1 DEF ReleaseKey
<1>5. ASSUME NEW s \in Services, Exit(s) PROVE ElectionInv'
  BY <1>5 DEF Exit
<1>6. ASSUME NEW s \in Services, Crash(s) PROVE ElectionInv'
  BY <1>6 DEF Crash
<1>7. CASE UNCHANGED vars
  BY <1>7 DEF vars
<1> QED
  BY <1>1, <1>2, <1>3, <1>4, <1>5, <1>6, <1>7 DEF Next

(* The inductive invariant holds in every state.                           *)
THEOREM ElectionInvariant == ASSUME TimelyRefresh PROVE Spec => []ElectionInv
<1>1. Init => ElectionInv
  <2> SUFFICES ASSUME Init PROVE ElectionInv
    OBVIOUS
  <2>1. TypeOK
    BY TimesAssumption DEF Init, TypeOK, Places
  <2> QED
    BY <2>1, ServicesAssumption
       DEF Init, ElectionInv, KeyInv, KeyAge, BelieverHolds, BelievesWhenPromoted,
           ShutdownOfPromoted, RoundInv, ServesWhenPromoted, Running, IsMaster
<1>2. ElectionInv /\ TypeOK' /\ [Next]_vars => ElectionInv'
  BY ElectionStep
<1> QED
  BY <1>1, <1>2, TypeCorrect, PTL DEF Spec

(* One service serves at a time, for every set of services: the README's   *)
(* cold standby, given that a running master is never later with its       *)
(* refresh than the key lives.                                             *)
THEOREM OneServing == ASSUME TimelyRefresh PROVE Spec => []AtMostOneServing
<1>1. ElectionInv => AtMostOneServing
  BY DEF ElectionInv, BelieverHolds, BelievesWhenPromoted, ServesWhenPromoted, AtMostOneServing
<1> QED
  BY <1>1, ElectionInvariant, PTL

(* Under the same assumption no shutdown removes the key of a master that  *)
(* goes on serving, though shutdown_callback expires the key without a     *)
(* look at its value.                                                      *)
THEOREM ReleaseIsSafe == ASSUME TimelyRefresh PROVE Spec => KeyReleasedByHolder
<1>1. ElectionInv /\ [Next]_vars =>
        [(holder # NoOne /\ holder' = NoOne) => (ttl = 1 \/ ~active[holder])]_vars
  <2> SUFFICES ASSUME ElectionInv, Next, holder # NoOne, holder' = NoOne
               PROVE  ttl = 1 \/ ~active[holder]
    BY DEF vars
  <2> USE ServicesAssumption, TimesAssumption DEF ElectionInv, TypeOK, keyVars
  <2>1. CASE Tick
    BY <2>1 DEF Tick, KeyInv
  <2>2. ASSUME NEW s \in Services, ReleaseKey(s) PROVE ~active[holder]
    <3>1. holder = s
      BY <2>2 DEF ReleaseKey, ShutdownOfPromoted, BelievesWhenPromoted, BelieverHolds, Running
    <3> QED
      BY <2>2, <3>1 DEF ReleaseKey, ServesWhenPromoted
  <2>3. ASSUME NEW s \in Services, Round(s) PROVE FALSE
    BY <2>3 DEF Round, Get, Set, Reread, DetermineFails, Refresh, RefreshFails,
                Elected, NotMaster, SetKey, ExpireKey
  <2>4. ASSUME NEW s \in Services, Shutdown(s) \/ Exit(s) \/ Crash(s) PROVE FALSE
    BY <2>4 DEF Shutdown, Exit, Crash
  <2> QED
    BY <2>1, <2>2, <2>3, <2>4 DEF Next
<1> QED
  BY <1>1, ElectionInvariant, PTL DEF Spec, KeyReleasedByHolder
=============================================================================
