------------------------------ MODULE MCDBWrapper ------------------------------
(***************************************************************************)
(* Two tasks, one read connection.                                         *)
(***************************************************************************)
EXTENDS DBWrapper

CONSTANTS t1, t2

MCTasks == {t1, t2}
================================================================================
