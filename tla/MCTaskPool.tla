----------------------------- MODULE MCTaskPool -----------------------------
(* Instances of TaskPool for TLC.                                          *)
EXTENDS TaskPool, TLC

Symmetry == Permutations(MainTasks)
=============================================================================
