--------------------------- MODULE MCMesosHandler ---------------------------
(***************************************************************************)
(* Instances of MesosHandler for TLC: two jobs and two tasks are enough    *)
(* for a slave with surplus, two tasks that share a job, a job that waits  *)
(* while another runs, and a task that outlives its slave.                 *)
(***************************************************************************)
EXTENDS MesosHandler, TLC

CONSTANTS j1, j2, t1, t2, t3

OneJob == {j1}
TwoJobs == {j1, j2}
TwoTasks == {t1, t2}
ThreeTasks == {t1, t2, t3}
TaskSymmetry == Permutations(TwoTasks)
JobAndTaskSymmetry == Permutations(TwoJobs) \cup TaskSymmetry

Finishes == {"FINISHED"}
=============================================================================
