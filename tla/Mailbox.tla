------------------------------ MODULE Mailbox ------------------------------
(***************************************************************************)
(* What a channel of the broker promises to those who write to it: an      *)
(* ordered, at-least-once mailbox.  A message stays in the mailbox, at its *)
(* place in the order of arrival, until it has been handled; it may be     *)
(* handled more than once, and also after it has left.                     *)
(***************************************************************************)
EXTENDS Lrem

CONSTANT Messages

VARIABLES
    pending,    \* the messages in the mailbox, the oldest at the right end
    arrived,    \* the messages put so far
    handled     \* the messages handled at least once

Init == pending = <<>> /\ arrived = {} /\ handled = {}

Put(m) ==
    /\ m \notin arrived
    /\ pending' = <<m>> \o pending
    /\ arrived' = arrived \cup {m}
    /\ UNCHANGED handled

Handle(m) ==
    /\ m \in arrived
    /\ handled' = handled \cup {m}
    /\ UNCHANGED <<pending, arrived>>

Remove(m) ==
    /\ m \in handled
    /\ pending' = Without(pending, m)
    /\ UNCHANGED <<arrived, handled>>

Next == \E m \in Messages : Put(m) \/ Handle(m) \/ Remove(m)

Spec == Init /\ [][Next]_<<pending, arrived, handled>>
=============================================================================
