------------------------------- MODULE MCSched -------------------------------
(* Sched for TLC.                                                          *)
EXTENDS Sched, TLC

Symmetry == Permutations(Procs \ {Proc1})
=============================================================================
