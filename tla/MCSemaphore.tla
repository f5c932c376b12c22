----------------------------- MODULE MCSemaphore -----------------------------
(* Semaphore for TLC.  The semaphores are interchangeable although Return  *)
(* resets addr to a fixed one: nothing reads the addr of a process that is *)
(* in user mode, whose Sema is on no list.                                 *)
EXTENDS Semaphore, TLC

Symmetry == Permutations(Procs) \cup Permutations(Addrs)
=============================================================================
