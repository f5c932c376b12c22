-------------------------------- MODULE RWLock --------------------------------
(***************************************************************************)
(* The reader/writer lock of the kernel: rlock, canrlock, runlock, wlock   *)
(* and wunlock of port/qlock.c, for one RWlock.                            *)
(*                                                                         *)
(* As in QLock, the fields are guarded by the spin lock q->use, a waiter   *)
(* calls sched() after releasing it and runlock/wunlock ready a writer     *)
(* after releasing it.  Waiting readers are readied one by one while       *)
(* wunlock still holds q->use and q->writer is still set.                  *)
(***************************************************************************)
EXTENDS Integers, Sequences, FiniteSets, Functions

CONSTANTS Procs,    \* the processes that use the lock
          NoProc    \* the nil process

ASSUME NoProcAssumption == NoProc \notin Procs
ASSUME FiniteProcs == IsFiniteSet(Procs)

VARIABLES use,      \* holder of the spin lock q->use, or NoProc
          readers,  \* q->readers
          writer,   \* q->writer
          queue,    \* q->head .. q->tail, linked by qnext
          state,    \* p->state of each process
          pc,       \* where each process is in qlock.c
          next      \* the writer a process in runlock or wunlock will ready

vars == <<use, readers, writer, queue, state, pc, next>>

(* lock(&q->use): from where a process spins to the code it then runs.     *)
Entry == [rlock |-> "rlock_cs", canrlock |-> "canrlock_cs", wlock |-> "wlock_cs",
          runlock |-> "runlock_cs", wunlock |-> "wunlock_cs"]

InUse == {"rlock_cs", "canrlock_cs", "wlock_cs", "runlock_cs", "wunlock_cs", "wake_cs"}

InRead == {"reading", "runlock", "runlock_cs"}

InWrite == {"writing", "wunlock", "wunlock_cs"}

PCs == InUse \cup InRead \cup InWrite
         \cup {"idle", "rlock", "canrlock", "wlock", "rsched", "roff", "wsched", "woff",
               "ready", "panic"}

Queued(p) == p \in Range(queue)

Init ==
    /\ use = NoProc
    /\ readers = 0
    /\ writer = 0
    /\ queue = <<>>
    /\ state = [p \in Procs |-> "Running"]
    /\ pc = [p \in Procs |-> "idle"]
    /\ next = [p \in Procs |-> NoProc]

Goto(p, l) == pc' = [pc EXCEPT ![p] = l]

(* A process calls rlock, canrlock or wlock, or a holder runlock/wunlock.  *)
Call(p) ==
    /\ \/ pc[p] = "idle" /\ \E op \in {"rlock", "canrlock", "wlock"} : Goto(p, op)
       \/ pc[p] = "reading" /\ Goto(p, "runlock")
       \/ pc[p] = "writing" /\ Goto(p, "wunlock")
    /\ UNCHANGED <<use, readers, writer, queue, state, next>>

(* lock(&q->use) succeeds.                                                 *)
LockUse(p) ==
    /\ pc[p] \in DOMAIN Entry
    /\ use = NoProc
    /\ use' = p
    /\ Goto(p, Entry[pc[p]])
    /\ UNCHANGED <<readers, writer, queue, state, next>>

(* Queue up at the tail as state s, and go on to sched() at l.             *)
Enqueue(p, s, l) ==
    /\ queue' = Append(queue, p)
    /\ state' = [state EXCEPT ![p] = s]
    /\ Goto(p, l)

BugRlockPasses(p) ==
    /\ pc[p] = "rlock_cs"
    /\ use' = NoProc
    /\ IF writer = 0
       THEN readers' = readers + 1 /\ Goto(p, "reading") /\ UNCHANGED <<queue, state>>
       ELSE Enqueue(p, "QueueingR", "rsched") /\ UNCHANGED readers
    /\ UNCHANGED <<writer, next>>

(* rlock: share a lock with no writer and no queue, else wait.             *)
Rlock(p) ==
    /\ pc[p] = "rlock_cs"
    /\ use' = NoProc
    /\ IF writer = 0 /\ queue = <<>>
       THEN readers' = readers + 1 /\ Goto(p, "reading") /\ UNCHANGED <<queue, state>>
       ELSE Enqueue(p, "QueueingR", "rsched") /\ UNCHANGED readers
    /\ UNCHANGED <<writer, next>>

(* canrlock: as rlock, but give up instead of waiting.                     *)
Canrlock(p) ==
    /\ pc[p] = "canrlock_cs"
    /\ use' = NoProc
    /\ IF writer = 0 /\ queue = <<>>
       THEN readers' = readers + 1 /\ Goto(p, "reading")
       ELSE Goto(p, "idle") /\ UNCHANGED readers
    /\ UNCHANGED <<writer, queue, state, next>>

(* wlock: take a lock with neither readers nor a writer, else wait.  The   *)
(* queue is not looked at.                                                 *)
Wlock(p) ==
    /\ pc[p] = "wlock_cs"
    /\ use' = NoProc
    /\ IF readers = 0 /\ writer = 0
       THEN writer' = 1 /\ Goto(p, "writing") /\ UNCHANGED <<queue, state>>
       ELSE Enqueue(p, "QueueingW", "wsched") /\ UNCHANGED writer
    /\ UNCHANGED <<readers, next>>

BugRunlockWriter(p) ==
    /\ pc[p] = "runlock_cs"
    /\ readers' = readers - 1
    /\ use' = NoProc
    /\ IF readers' > 0 \/ queue = <<>>
       THEN Goto(p, "idle") /\ UNCHANGED <<queue, next>>
       ELSE /\ queue' = Tail(queue)
            /\ next' = [next EXCEPT ![p] = Head(queue)]
            /\ Goto(p, "ready")
    /\ UNCHANGED <<state, writer>>

(* runlock: the last reader out hands the lock to the first of the queue,  *)
(* which must be a writer.                                                 *)
Runlock(p) ==
    /\ pc[p] = "runlock_cs"
    /\ readers' = readers - 1
    /\ \/ /\ readers' > 0 \/ queue = <<>>
          /\ use' = NoProc
          /\ Goto(p, "idle")
          /\ UNCHANGED <<queue, writer, next>>
       \/ /\ ~ (readers' > 0 \/ queue = <<>>)
          /\ use' = NoProc
          /\ writer' = 1
          /\ queue' = Tail(queue)
          /\ next' = [next EXCEPT ![p] = Head(queue)]
          /\ Goto(p, IF state[Head(queue)] = "QueueingW" THEN "ready" ELSE "panic")
    /\ UNCHANGED state

(* wunlock: free the lock, hand it to a writer at the head of the queue,   *)
(* or go on to wake the readers at the head.                               *)
Wunlock(p) ==
    /\ pc[p] = "wunlock_cs"
    /\ \/ /\ queue = <<>>
          /\ use' = NoProc
          /\ writer' = 0
          /\ Goto(p, "idle")
          /\ UNCHANGED <<queue, next>>
       \/ /\ queue # <<>>
          /\ state[Head(queue)] = "QueueingW"
          /\ use' = NoProc
          /\ queue' = Tail(queue)
          /\ next' = [next EXCEPT ![p] = Head(queue)]
          /\ Goto(p, "ready")
          /\ UNCHANGED writer
       \/ /\ queue # <<>>
          /\ state[Head(queue)] # "QueueingW"
          /\ Goto(p, IF state[Head(queue)] = "QueueingR" THEN "wake_cs" ELSE "panic")
          /\ UNCHANGED <<use, writer, queue, next>>
    /\ UNCHANGED <<readers, state>>

HeadReads == queue # <<>> /\ state[Head(queue)] = "QueueingR"

(* The loop of wunlock, under q->use: one reader is counted and readied,   *)
(* or the head is no reader and wunlock is done.                           *)
WakeReader(p) ==
    /\ pc[p] = "wake_cs"
    /\ IF HeadReads
       THEN /\ queue' = Tail(queue)
            /\ readers' = readers + 1
            /\ state' = [state EXCEPT ![Head(queue)] = "Ready"]
            /\ UNCHANGED <<use, writer, pc>>
       ELSE /\ writer' = 0
            /\ use' = NoProc
            /\ Goto(p, "idle")
            /\ UNCHANGED <<queue, readers, state>>
    /\ UNCHANGED next

(* ready(p) of runlock and wunlock, outside q->use.                        *)
Ready(p) ==
    /\ pc[p] = "ready"
    /\ state' = [state EXCEPT ![next[p]] = "Ready"]
    /\ next' = [next EXCEPT ![p] = NoProc]
    /\ Goto(p, "idle")
    /\ UNCHANGED <<use, readers, writer, queue>>

(* The waiter's sched() ...                                                *)
Sched(p) ==
    /\ \/ pc[p] = "rsched" /\ Goto(p, "roff")
       \/ pc[p] = "wsched" /\ Goto(p, "woff")
    /\ UNCHANGED <<use, readers, writer, queue, state, next>>

(* ... which returns, and rlock or wlock with it, once p was made Ready.   *)
Resume(p) ==
    /\ state[p] = "Ready"
    /\ \/ pc[p] = "roff" /\ Goto(p, "reading")
       \/ pc[p] = "woff" /\ Goto(p, "writing")
    /\ state' = [state EXCEPT ![p] = "Running"]
    /\ UNCHANGED <<use, readers, writer, queue, next>>

Step(p) ==
    \/ Call(p) \/ LockUse(p) \/ Rlock(p) \/ Canrlock(p) \/ Wlock(p) \/ Runlock(p)
    \/ Wunlock(p) \/ WakeReader(p) \/ Ready(p) \/ Sched(p) \/ Resume(p)

Next == \E p \in Procs : Step(p)

(* As for QLock: holders release the lock, and a process spinning on       *)
(* q->use is not passed over for ever.                                     *)
Fairness ==
    \A p \in Procs :
        /\ WF_vars(pc[p] # "idle" /\ Call(p))
        /\ WF_vars(Rlock(p) \/ Canrlock(p) \/ Wlock(p) \/ Runlock(p) \/ Wunlock(p)
                     \/ WakeReader(p) \/ Ready(p) \/ Sched(p) \/ Resume(p))
        /\ SF_vars(LockUse(p))

Spec == Init /\ [][Next]_vars

FairSpec == Spec /\ Fairness
-----------------------------------------------------------------------------
(* p holds the lock for reading or writing, or was given it and has yet    *)
(* to run.  A writer has let go once wunlock starts to wake readers.       *)
Reads(p) == pc[p] \in InRead \/ (pc[p] \in {"rsched", "roff"} /\ ~ Queued(p))

Writes(p) == pc[p] \in InWrite \/ (pc[p] \in {"wsched", "woff"} /\ ~ Queued(p))

TypeOK ==
    /\ use \in Procs \cup {NoProc}
    /\ readers \in Nat
    /\ writer \in {0, 1}
    /\ queue \in Seq(Procs)
    /\ state \in [Procs -> {"Running", "QueueingR", "QueueingW", "Ready"}]
    /\ pc \in [Procs -> PCs]
    /\ next \in [Procs -> Procs \cup {NoProc}]

(* RWlock "allows concurrent readers but gives each writer exclusive       *)
(* access" (qlock(9)), counting those the lock was given to that have not  *)
(* run yet.                                                                *)
Exclusion ==
    \A p, q \in Procs : Writes(p) /\ (Reads(q) \/ Writes(q)) => p = q

(* q->readers counts the readers and q->writer is set while there is a     *)
(* writer; wunlock clears it only after it has counted the readers it      *)
(* wakes, so that nobody can come between.                                 *)
CountsExact ==
    /\ readers = Cardinality({p \in Procs : Reads(p)})
    /\ writer = 1 <=> \E p \in Procs : Writes(p) \/ pc[p] = "wake_cs"

(* Whenever q->use is free and somebody waits, the lock is held, so that   *)
(* an unlock will come; and while readers hold it the head of the queue    *)
(* is a writer, as runlock expects and wlock relies on when it does not    *)
(* look at the queue.                                                      *)
WaitersHaveWaker ==
    use = NoProc /\ queue # <<>> =>
        /\ \E p \in Procs : Reads(p) \/ Writes(p)
        /\ readers > 0 => state[Head(queue)] = "QueueingW"

(* panic("runlock") and panic("wunlock") are never reached.                *)
NoPanic ==
    \A p \in Procs : pc[p] # "panic"

(* Who holds the lock and who waits, in the terms of FifoRWLock.           *)
Readers == {p \in Procs : Reads(p)}

Writing == IF \E p \in Procs : Writes(p) THEN CHOOSE p \in Procs : Writes(p) ELSE NoProc

Mode(p) == IF state[p] = "QueueingR" THEN "R" ELSE "W"

Line == [i \in 1 .. Len(queue) |-> <<queue[i], Mode(queue[i])>>]

(* The RWlock is the strictly ordered lock of FifoRWLock: nobody who has   *)
(* queued is overtaken by a later reader or writer.                        *)
Fifo == INSTANCE FifoRWLock WITH reading <- Readers, writing <- Writing, line <- Line

ImplementsFifo == Fifo!Spec

(* Writers are not starved by a stream of readers, nor readers by writers. *)
LockReturns ==
    \A p \in Procs : /\ pc[p] = "rlock" ~> pc[p] = "reading"
                     /\ pc[p] = "wlock" ~> pc[p] = "writing"
=============================================================================
