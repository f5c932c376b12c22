-------------------------------- MODULE QLock --------------------------------
(***************************************************************************)
(* The queueing lock of the kernel: qlock, canqlock and qunlock of         *)
(* port/qlock.c, for one QLock and any number of processes.                *)
(*                                                                         *)
(* The fields of the QLock are guarded by the spin lock q->use; a process  *)
(* that must wait links itself to the queue, marks itself Queueing,        *)
(* releases q->use and only then gives up its processor.  The unlocker     *)
(* takes the head off the queue, leaves q->locked set (the lock is handed  *)
(* over, never freed in between), releases q->use and only then calls      *)
(* ready(): both gaps are steps of this model.                             *)
(***************************************************************************)
EXTENDS Naturals, Sequences, Functions

CONSTANTS Procs,    \* the processes that use the lock
          NoProc    \* the nil process

ASSUME NoProcAssumption == NoProc \notin Procs

VARIABLES use,      \* holder of the spin lock q->use, or NoProc
          locked,   \* q->locked
          queue,    \* q->head .. q->tail, linked by qnext
          state,    \* p->state of each process
          pc,       \* where each process is in qlock.c
          next      \* the local p of a process in qunlock, to be readied

vars == <<use, locked, queue, state, pc, next>>

(* Inside a critical section of q->use.                                    *)
InUse == {"qlock_cs", "canqlock_cs", "qunlock_cs"}

(* qlock or canqlock has returned and qunlock has not let go yet.          *)
InCrit == {"crit", "qunlock", "qunlock_cs"}

PCs == InUse \cup InCrit \cup {"idle", "qlock", "sched", "off", "ready"}

Queued(p) == p \in Range(queue)

Init ==
    /\ use = NoProc
    /\ locked = 0
    /\ queue = <<>>
    /\ state = [p \in Procs |-> "Running"]
    /\ pc = [p \in Procs |-> "idle"]
    /\ next = [p \in Procs |-> NoProc]

Goto(p, l) == pc' = [pc EXCEPT ![p] = l]

(* A process calls qlock; it spins at lock(&q->use) from here on.          *)
CallQlock(p) ==
    /\ pc[p] = "idle"
    /\ Goto(p, "qlock")
    /\ UNCHANGED <<use, locked, queue, state, next>>

(* The holder calls qunlock.                                               *)
CallQunlock(p) ==
    /\ pc[p] = "crit"
    /\ Goto(p, "qunlock")
    /\ UNCHANGED <<use, locked, queue, state, next>>

(* lock(&q->use) succeeds.                                                 *)
LockUse(p) ==
    /\ pc[p] \in {"qlock", "qunlock"}
    /\ use = NoProc
    /\ use' = p
    /\ Goto(p, IF pc[p] = "qlock" THEN "qlock_cs" ELSE "qunlock_cs")
    /\ UNCHANGED <<locked, queue, state, next>>

BugQlockLifo(p) ==
    /\ pc[p] = "qlock_cs"
    /\ use' = NoProc
    /\ IF locked = 0
       THEN locked' = 1 /\ Goto(p, "crit") /\ UNCHANGED <<queue, state>>
       ELSE /\ queue' = <<p>> \o queue
            /\ state' = [state EXCEPT ![p] = "Queueing"]
            /\ Goto(p, "sched")
            /\ UNCHANGED locked
    /\ UNCHANGED next

(* qlock under q->use: take a free lock, or queue at the tail and go to    *)
(* sleep.                                                                  *)
Qlock(p) ==
    /\ pc[p] = "qlock_cs"
    /\ use' = NoProc
    /\ IF locked = 0
       THEN locked' = 1 /\ Goto(p, "crit") /\ UNCHANGED <<queue, state>>
       ELSE /\ queue' = Append(queue, p)
            /\ state' = [state EXCEPT ![p] = "Queueing"]
            /\ Goto(p, "sched")
            /\ UNCHANGED locked
    /\ UNCHANGED next

(* canqlock: canlock(&q->use) makes one attempt.  When it fails canqlock   *)
(* returns 0 with nothing changed, which is a stuttering step.             *)
CanlockUse(p) ==
    /\ pc[p] = "idle"
    /\ use = NoProc
    /\ use' = p
    /\ Goto(p, "canqlock_cs")
    /\ UNCHANGED <<locked, queue, state, next>>

(* canqlock under q->use: take the lock if it is free, never wait.         *)
Canqlock(p) ==
    /\ pc[p] = "canqlock_cs"
    /\ use' = NoProc
    /\ locked' = 1
    /\ Goto(p, IF locked = 1 THEN "idle" ELSE "crit")
    /\ UNCHANGED <<queue, state, next>>

(* qunlock under q->use: dequeue the head and leave q->locked set, or free *)
(* the lock when nobody waits.                                             *)
Qunlock(p) ==
    /\ pc[p] = "qunlock_cs"
    /\ use' = NoProc
    /\ IF queue # <<>>
       THEN /\ next' = [next EXCEPT ![p] = Head(queue)]
            /\ queue' = Tail(queue)
            /\ Goto(p, "ready")
            /\ UNCHANGED locked
       ELSE locked' = 0 /\ Goto(p, "idle") /\ UNCHANGED <<queue, next>>
    /\ UNCHANGED state

BugReady(p) ==
    /\ pc[p] = "ready"
    /\ state' = [state EXCEPT ![next[p]] =
                     IF pc[next[p]] = "off" THEN "Ready" ELSE @]
    /\ next' = [next EXCEPT ![p] = NoProc]
    /\ Goto(p, "idle")
    /\ UNCHANGED <<use, locked, queue>>

(* The unlocker's ready(p), outside q->use.                                *)
Ready(p) ==
    /\ pc[p] = "ready"
    /\ state' = [state EXCEPT ![next[p]] = "Ready"]
    /\ next' = [next EXCEPT ![p] = NoProc]
    /\ Goto(p, "idle")
    /\ UNCHANGED <<use, locked, queue>>

(* The waiter's sched(): the processor is given up whatever p->state has   *)
(* become since q->use was released.                                       *)
Sched(p) ==
    /\ pc[p] = "sched"
    /\ Goto(p, "off")
    /\ UNCHANGED <<use, locked, queue, state, next>>

(* The scheduler runs a process that is Ready; qlock returns.              *)
Resume(p) ==
    /\ pc[p] = "off"
    /\ state[p] = "Ready"
    /\ state' = [state EXCEPT ![p] = "Running"]
    /\ Goto(p, "crit")
    /\ UNCHANGED <<use, locked, queue, next>>

Step(p) ==
    \/ CallQlock(p) \/ CallQunlock(p) \/ LockUse(p) \/ Qlock(p)
    \/ CanlockUse(p) \/ Canqlock(p) \/ Qunlock(p) \/ Ready(p)
    \/ Sched(p) \/ Resume(p)

Next == \E p \in Procs : Step(p)

(* A running process takes its next instruction; the scheduler runs what   *)
(* is ready.  Whoever holds the lock releases it in the end.  The spin     *)
(* lock is not a queue: that a process spinning on q->use is not passed    *)
(* over for ever is strong fairness.  Nobody is obliged to call qlock.     *)
Fairness ==
    \A p \in Procs :
        /\ WF_vars(CallQunlock(p) \/ Qlock(p) \/ Canqlock(p) \/ Qunlock(p)
                     \/ Ready(p) \/ Sched(p) \/ Resume(p))
        /\ SF_vars(LockUse(p))

Spec == Init /\ [][Next]_vars

FairSpec == Spec /\ Fairness
-----------------------------------------------------------------------------
(* The lock belongs to p: p is between qlock and qunlock, or has been      *)
(* taken off the queue by the previous owner and has yet to run.           *)
Owns(p) ==
    \/ pc[p] \in InCrit
    \/ pc[p] \in {"sched", "off"} /\ ~ Queued(p)

TypeOK ==
    /\ use \in Procs \cup {NoProc}
    /\ locked \in {0, 1}
    /\ queue \in Seq(Procs)
    /\ state \in [Procs -> {"Running", "Queueing", "Ready"}]
    /\ pc \in [Procs -> PCs]
    /\ next \in [Procs -> Procs \cup {NoProc}]

(* "On return from qlock, the process has acquired the lock l, and can     *)
(* assume exclusive access" (qlock(9)): two processes never own the lock,  *)
(* counting the one it was handed to that has not run yet, and q->locked   *)
(* is set exactly while somebody owns it.                                  *)
MutualExclusion ==
    /\ \A p, q \in Procs : Owns(p) /\ Owns(q) => p = q
    /\ locked = 1 <=> \E p \in Procs : Owns(p)

(* qunlock readies a waiter after it has let go of q->use, the waiter      *)
(* calls sched() after it has let go of q->use: whatever the order, a      *)
(* process marked Queueing is in the queue or about to be readied by       *)
(* exactly one unlocker, so its ready() is neither lost nor repeated.      *)
NoStrandedWaiter ==
    \A p \in Procs : state[p] = "Queueing" =>
        IF Queued(p)
        THEN \A q \in Procs : next[q] # p
        ELSE \E q \in Procs : /\ next[q] = p
                              /\ \A r \in Procs \ {q} : next[r] # p

Owner == IF \E p \in Procs : Owns(p) THEN CHOOSE p \in Procs : Owns(p) ELSE NoProc

(* qlock.c implements the FIFO lock of qlock(9): in particular a newcomer  *)
(* in qlock or canqlock never takes the lock while others queue for it.    *)
Fifo == INSTANCE FifoMutex WITH owner <- Owner, line <- queue

ImplementsFifo == Fifo!Spec

(* A process that calls qlock gets the lock, provided owners release it.   *)
QlockReturns ==
    \A p \in Procs : pc[p] = "qlock" ~> pc[p] = "crit"
=============================================================================
