------------------------- MODULE MCSchedulerDriver -------------------------
(* Instances of SchedulerDriver for TLC.                                   *)
EXTENDS SchedulerDriver

CONSTANTS t1, t2

TwoTasks == {t1, t2}
SecondMalformed == {t2}
(* One type for each way a message is handled.                             *)
SomeUnasked == {"resourceOffers", "error", "serviceDisconnected"}
(* One call with two operations, the first of a malformed task.            *)
SomeAccepts == {<<<<t2>>, <<t1>>>>}
=============================================================================
