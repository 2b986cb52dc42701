-------------------------- MODULE MCExecutorDriver --------------------------
(* Instances of ExecutorDriver for TLC.                                    *)
EXTENDS ExecutorDriver

CONSTANT t1

OneTask == {t1}
=============================================================================
