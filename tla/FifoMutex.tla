------------------------------ MODULE FifoMutex ------------------------------
(***************************************************************************)
(* What a QLock promises its callers (sys/man/9/qlock): exclusive          *)
(* ownership, granted in the order of arrival.  The owner changes in one   *)
(* indivisible step; there is no spin lock, no scheduler and no moment in  *)
(* which the lock is free while somebody waits for it.                     *)
(***************************************************************************)
EXTENDS Sequences, Functions

CONSTANTS Procs,    \* the processes
          NoProc    \* nobody

VARIABLES owner,    \* the process that owns the lock, or NoProc
          line      \* the processes waiting for it, first come first

vars == <<owner, line>>

Init == owner = NoProc /\ line = <<>>

(* The lock is free: whoever asks has it.                                  *)
Take(p) ==
    /\ owner = NoProc
    /\ owner' = p
    /\ UNCHANGED line

(* The lock is taken: join the end of the line.                            *)
Join(p) ==
    /\ owner \notin {NoProc, p}
    /\ p \notin Range(line)
    /\ line' = Append(line, p)
    /\ UNCHANGED owner

(* The owner leaves; the first of the line, if any, is the next owner.     *)
Leave ==
    /\ owner # NoProc
    /\ IF line = <<>>
       THEN owner' = NoProc /\ UNCHANGED line
       ELSE owner' = Head(line) /\ line' = Tail(line)

Next == Leave \/ \E p \in Procs : Take(p) \/ Join(p)

Spec == Init /\ [][Next]_vars
=============================================================================
