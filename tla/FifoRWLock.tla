------------------------------ MODULE FifoRWLock ------------------------------
(***************************************************************************)
(* What an RWlock promises its callers (sys/man/9/qlock): any number of    *)
(* readers or one writer, and a line that is served strictly in order, so  *)
(* that neither readers nor writers can be overtaken once they wait.       *)
(***************************************************************************)
EXTENDS Sequences, Functions

CONSTANTS Procs,    \* the processes
          NoProc    \* nobody

VARIABLES reading,  \* the set of processes that hold the lock for reading
          writing,  \* the process that holds it for writing, or NoProc
          line      \* <<process, "R" or "W">> of those that wait, in order

vars == <<reading, writing, line>>

Init == reading = {} /\ writing = NoProc /\ line = <<>>

(* The lock can be given in mode m while R read and w writes.              *)
Free(m, R, w) == w = NoProc /\ (m = "W" => R = {})

(* Give the lock to p in mode m; R are the readers besides p.              *)
Give(p, m, R) ==
    /\ reading' = IF m = "R" THEN R \cup {p} ELSE R
    /\ writing' = IF m = "R" THEN NoProc ELSE p

(* Nobody waits and the lock is free: p has it at once.                    *)
Enter(p, m) ==
    /\ line = <<>>
    /\ Free(m, reading, writing)
    /\ Give(p, m, reading)
    /\ UNCHANGED line

(* p joins the end of the line, only if it cannot have the lock at once.   *)
Join(p, m) ==
    /\ line # <<>> \/ ~ Free(m, reading, writing)
    /\ \A e \in Range(line) : e[1] # p
    /\ line' = Append(line, <<p, m>>)
    /\ UNCHANGED <<reading, writing>>

(* A holder leaves.  If that frees the lock for the first of the line, it  *)
(* is either given the lock in the same step ...                           *)
LeaveTo(p) ==
    /\ p \in reading \/ p = writing
    /\ line # <<>>
    /\ Free(Head(line)[2], reading \ {p}, IF p = writing THEN NoProc ELSE writing)
    /\ Give(Head(line)[1], Head(line)[2], reading \ {p})
    /\ line' = Tail(line)

(* ... or by a step of its own, of which several may follow each other.    *)
Leave(p) ==
    /\ p \in reading \/ p = writing
    /\ reading' = reading \ {p}
    /\ writing' = IF p = writing THEN NoProc ELSE writing
    /\ UNCHANGED line

Grant ==
    /\ line # <<>>
    /\ Free(Head(line)[2], reading, writing)
    /\ Give(Head(line)[1], Head(line)[2], reading)
    /\ line' = Tail(line)

Next ==
    \/ Grant
    \/ \E p \in Procs : \/ LeaveTo(p) \/ Leave(p)
                        \/ \E m \in {"R", "W"} : Enter(p, m) \/ Join(p, m)

Spec == Init /\ [][Next]_vars
=============================================================================
