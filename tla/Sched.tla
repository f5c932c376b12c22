-------------------------------- MODULE Sched --------------------------------
(***************************************************************************)
(* The process scheduler of port/proc.c: ready, queueproc, dequeueproc,    *)
(* rebalance, runproc, sched and schedinit, on several processors.         *)
(*                                                                         *)
(* A process that blocks marks itself and may be made ready by another     *)
(* processor before it has left its own: it is then on a run queue while   *)
(* its stack is in use, and only p->mach keeps others from running it.     *)
(* runproc looks at the queues and at m->readied without the lock, so      *)
(* what it has found may be gone, moved, running or even another process   *)
(* in the same Proc by the time dequeueproc locks runq.                    *)
(*                                                                         *)
(* Each critical section of the spin lock runq is one step.  Real-time     *)
(* (EDF) processes are left out; priorities are arbitrary.                 *)
(***************************************************************************)
EXTENDS Integers, Sequences

CONSTANTS Procs,    \* the Proc structures
          Proc1,    \* the boot process, which never exits
          Machs,    \* the processors
          Mach0,    \* the one with machno 0
          Npriq,    \* the number of priorities
          None      \* nil

ASSUME SchedAssumption ==
    /\ Proc1 \in Procs /\ Mach0 \in Machs
    /\ Npriq \in Nat \ {0}
    /\ None \notin Procs \cup Machs \cup [p : Procs, k : 0 .. Npriq]

Pris == 0 .. Npriq - 1

VARIABLES runq,     \* runq[k]: the processes on run queue k
          state,    \* p->state; "Blocked" stands for Wakeme, Queueing, ...
          mach,     \* p->mach
          mp,       \* p->mp, the processor p last ran on
          wired,    \* p->wired
          pri,      \* p->priority
          waiting,  \* blocked processes that nobody has begun to wake yet
          pc,       \* where each processor is
          up,       \* the processor's current process
          readied,  \* m->readied
          hand,     \* [p, k]: the processor is about to put p on runq[k]
          cand      \* [p, k]: what runproc or rebalance found in runq[k]

vars == <<runq, state, mach, mp, wired, pri, waiting, pc, up, readied, hand, cand>>

Init ==
    /\ runq = [k \in Pris |-> IF k = 0 THEN <<Proc1>> ELSE <<>>]
    /\ state = [p \in Procs |-> IF p = Proc1 THEN "Ready" ELSE "Dead"]
    /\ pri = [p \in Procs |-> 0]
    /\ mach = [p \in Procs |-> None]
    /\ mp = [p \in Procs |-> None]
    /\ wired = [p \in Procs |-> None]
    /\ waiting = {}
    /\ pc = [m \in Machs |-> "loop"]
    /\ up = [m \in Machs |-> None]
    /\ readied = [m \in Machs |-> None]
    /\ hand = [m \in Machs |-> None]
    /\ cand = [m \in Machs |-> None]

Goto(m, l) == pc' = [pc EXCEPT ![m] = l]

(* The processor is not inside ready or rebalance.                         *)
Free(m) == hand[m] = None

BugReprioritize(p) == 0 .. Npriq

(* reprioritize(p): from load and use, at most p->basepri.                 *)
Reprioritize(p) == Pris

(* ready(p) up to queueproc: p is Ready but on no queue yet.               *)
ReadyProc(m, p, k) ==
    /\ readied' = [readied EXCEPT ![m] =
                      IF up[m] # p /\ wired[p] \in {None, m} THEN p ELSE @]
    /\ pri' = [pri EXCEPT ![p] = k]
    /\ state' = [state EXCEPT ![p] = "Ready"]
    /\ hand' = [hand EXCEPT ![m] = [p |-> p, k |-> k]]

(* The critical section of dequeueproc: "the queue may have changed before *)
(* we locked runq", so p is looked for again, from the head.               *)
Unlink(k, p) ==
    \E i \in DOMAIN runq[k] :
        /\ runq[k][i] = p /\ \A j \in 1 .. i - 1 : runq[k][j] # p
        /\ runq' = [runq EXCEPT ![k] = SubSeq(@, 1, i - 1) \o SubSeq(@, i + 1, Len(@))]

(* queueproc(rq, p)                                                        *)
Queueproc(m) ==
    /\ ~ Free(m)
    /\ runq' = [runq EXCEPT ![hand[m].k] = Append(@, hand[m].p)]
    /\ pri' = [pri EXCEPT ![hand[m].p] = hand[m].k]
    /\ hand' = [hand EXCEPT ![m] = None]
    /\ UNCHANGED <<state, mach, mp, wired, waiting, pc, up, readied, cand>>
-----------------------------------------------------------------------------
(* What a running process, or an interrupt on its processor, does.         *)

(* The process marks itself blocked, visibly to its waker; sched() will    *)
(* follow.                                                                 *)
Block(m) ==
    /\ pc[m] = "run" /\ Free(m)
    /\ state[up[m]] = "Running"
    /\ state' = [state EXCEPT ![up[m]] = "Blocked"]
    /\ waiting' = waiting \cup {up[m]}
    /\ UNCHANGED <<runq, mach, mp, wired, pri, pc, up, readied, hand, cand>>

(* A blocked process is made ready, by a process or by an interrupt, which *)
(* may come while the processor idles in runproc.                          *)
Wake(m, p) ==
    /\ pc[m] \in {"run", "loop"} /\ Free(m)
    /\ p \in waiting
    /\ waiting' = waiting \ {p}
    /\ \E k \in Reprioritize(p) : ReadyProc(m, p, k)
    /\ UNCHANGED <<runq, mach, mp, wired, pc, up, cand>>

(* newproc in a free Proc structure, and ready(p).                         *)
Newproc(m, p) ==
    /\ pc[m] = "run" /\ Free(m)
    /\ state[up[m]] = "Running"
    /\ state[p] = "Dead"
    /\ mach' = [mach EXCEPT ![p] = None]
    /\ mp' = [mp EXCEPT ![p] = None]
    /\ wired' = [wired EXCEPT ![p] = None]
    /\ \E k \in Reprioritize(p) : ReadyProc(m, p, k)
    /\ UNCHANGED <<runq, waiting, pc, up, cand>>

(* sched(): because the process has blocked, yields or is preempted; or    *)
(* pexit, which marks it Moribund first.  Preemption drops m->readied.     *)
Sched(m) ==
    /\ pc[m] = "run" /\ Free(m)
    /\ \/ UNCHANGED <<state, readied>>
       \/ /\ state[up[m]] = "Running"
          /\ readied' = [readied EXCEPT ![m] = None]
          /\ UNCHANGED state
       \/ /\ state[up[m]] = "Running" /\ up[m] # Proc1
          /\ state' = [state EXCEPT ![up[m]] = "Moribund"]
          /\ UNCHANGED readied
    /\ Goto(m, "switch")
    /\ UNCHANGED <<runq, mach, mp, wired, pri, waiting, up, hand, cand>>

(* rebalance, on a clock tick: look, without the lock, for a run queue     *)
(* whose head last ran here ...                                            *)
RebalanceFind(m, j) ==
    /\ m = Mach0
    /\ pc[m] = "run" /\ Free(m)
    /\ state[up[m]] = "Running"
    /\ runq[j] # <<>>
    /\ mp[Head(runq[j])] = m
    /\ cand' = [cand EXCEPT ![m] = [p |-> Head(runq[j]), k |-> j]]
    /\ Goto(m, "rebalance")
    /\ UNCHANGED <<runq, state, mach, mp, wired, pri, waiting, up, readied, hand>>

(* ... and move it to another queue, if dequeueproc still gets it.         *)
Rebalance(m) ==
    /\ pc[m] = "rebalance"
    /\ LET p == cand[m].p
           j == cand[m].k
       IN  \/ UNCHANGED <<runq, hand>>
           \/ /\ Unlink(j, p)
              /\ mach[p] = None
              /\ \E k \in Reprioritize(p) \ {j} :
                     hand' = [hand EXCEPT ![m] = [p |-> p, k |-> k]]
    /\ cand' = [cand EXCEPT ![m] = None]
    /\ Goto(m, "run")
    /\ UNCHANGED <<state, mach, mp, wired, pri, waiting, up, readied>>

(* procpriority(p, ...) and procwired(p, ...), from /proc, at any time.    *)
Procpriority(m, p) ==
    /\ pc[m] = "run" /\ Free(m)
    /\ state[p] # "Dead"
    /\ \E k \in Pris : pri' = [pri EXCEPT ![p] = k]
    /\ UNCHANGED <<runq, state, mach, mp, wired, waiting, pc, up, readied, hand, cand>>

Procwired(m, p, n) ==
    /\ pc[m] = "run" /\ Free(m)
    /\ state[p] # "Dead"
    /\ wired' = [wired EXCEPT ![p] = n]
    /\ mp' = [mp EXCEPT ![p] = n]
    /\ UNCHANGED <<runq, state, mach, pri, waiting, pc, up, readied, hand, cand>>
-----------------------------------------------------------------------------
(* schedinit, on the processor's own stack: a process that still runs is   *)
(* made ready, a Moribund one is freed.                                    *)
Schedinit(m) ==
    /\ pc[m] = "switch" /\ Free(m)
    /\ \/ /\ state[up[m]] = "Running"
          /\ \E k \in Reprioritize(up[m]) : ReadyProc(m, up[m], k)
          /\ Goto(m, "leave")
          /\ UNCHANGED <<mach, up>>
       \/ /\ state[up[m]] = "Moribund"
          /\ state' = [state EXCEPT ![up[m]] = "Dead"]
          /\ mach' = [mach EXCEPT ![up[m]] = None]
          /\ up' = [up EXCEPT ![m] = None]
          /\ Goto(m, "runproc")
          /\ UNCHANGED <<pri, readied, hand>>
       \/ /\ state[up[m]] \notin {"Running", "Moribund"}
          /\ Goto(m, "leave")
          /\ UNCHANGED <<state, mach, pri, up, readied, hand>>
    /\ UNCHANGED <<runq, mp, wired, waiting, cand>>

(* up->mach = nil; up = nil                                                *)
Leave(m) ==
    /\ pc[m] = "leave" /\ Free(m)
    /\ mach' = [mach EXCEPT ![up[m]] = None]
    /\ up' = [up EXCEPT ![m] = None]
    /\ Goto(m, "runproc")
    /\ UNCHANGED <<runq, state, mp, wired, pri, waiting, readied, hand, cand>>

(* runproc: run the process made ready last, if it may run here, without   *)
(* looking at the queues; or start to look for one.                        *)
RunReadied(m) ==
    /\ pc[m] = "runproc"
    /\ \/ /\ readied[m] # None
          /\ mach[readied[m]] = None
          /\ state[readied[m]] = "Ready"
          /\ wired[readied[m]] \in {None, m}
          /\ cand' = [cand EXCEPT ![m] = [p |-> readied[m], k |-> pri[readied[m]]]]
          /\ Goto(m, "found")
       \/ Goto(m, "loop") /\ UNCHANGED cand
    /\ UNCHANGED <<runq, state, mach, mp, wired, pri, waiting, up, readied, hand>>

(* The search, without the lock: a process that last ran here, or one that *)
(* is not wired.  Its order of preference is left open.                    *)
Search(m) ==
    /\ pc[m] = "loop" /\ Free(m)
    /\ \E k \in Pris : \E i \in DOMAIN runq[k] :
           LET p == runq[k][i]
           IN  /\ mp[p] \in {None, m} \/ wired[p] = None
               /\ cand' = [cand EXCEPT ![m] = [p |-> p, k |-> k]]
    /\ Goto(m, "found")
    /\ UNCHANGED <<runq, state, mach, mp, wired, pri, waiting, up, readied, hand>>

BugDequeueproc(m) ==
    /\ pc[m] = "found"
    /\ LET p == cand[m].p
           k == cand[m].k
       IN  \/ /\ Goto(m, "loop")
              /\ cand' = [cand EXCEPT ![m] = None]
              /\ UNCHANGED <<runq, state, mp>>
           \/ /\ Unlink(k, p)
              /\ state' = [state EXCEPT ![p] = "Scheding"]
              /\ mp' = [mp EXCEPT ![p] = m]
              /\ Goto(m, "got")
              /\ UNCHANGED cand
    /\ UNCHANGED <<mach, wired, pri, waiting, up, readied, hand>>

BugDequeueNoRefind(m) ==
    /\ pc[m] = "found"
    /\ LET p == cand[m].p
           k == cand[m].k
       IN  \/ /\ Goto(m, "loop")
              /\ cand' = [cand EXCEPT ![m] = None]
              /\ UNCHANGED <<runq, state, mp>>
           \/ /\ mach[p] = None
              /\ runq' = [runq EXCEPT ![k] = SelectSeq(@, LAMBDA q : q # p)]
              /\ state' = [state EXCEPT ![p] = "Scheding"]
              /\ mp' = [mp EXCEPT ![p] = m]
              /\ Goto(m, "got")
              /\ UNCHANGED cand
    /\ UNCHANGED <<mach, wired, pri, waiting, up, readied, hand>>

(* dequeueproc: canlock(runq) may fail; else find the process again and    *)
(* take it off the queue unless p->mach says that its state is not saved.  *)
Dequeueproc(m) ==
    /\ pc[m] = "found"
    /\ LET p == cand[m].p
           k == cand[m].k
       IN  \/ /\ Goto(m, "loop")
              /\ cand' = [cand EXCEPT ![m] = None]
              /\ UNCHANGED <<runq, state, mp>>
           \/ /\ Unlink(k, p)
              /\ mach[p] = None
              /\ state' = [state EXCEPT ![p] = "Scheding"]
              /\ mp' = [mp EXCEPT ![p] = m]
              /\ Goto(m, "got")
              /\ UNCHANGED cand
    /\ UNCHANGED <<mach, wired, pri, waiting, up, readied, hand>>

(* The end of sched(): the process becomes this processor's.               *)
Run(m) ==
    /\ pc[m] = "got"
    /\ LET p == cand[m].p
       IN  /\ \E k \in Reprioritize(p) : pri' = [pri EXCEPT ![p] = k]
           /\ state' = [state EXCEPT ![p] = "Running"]
           /\ mach' = [mach EXCEPT ![p] = m]
           /\ up' = [up EXCEPT ![m] = p]
    /\ readied' = [readied EXCEPT ![m] = None]
    /\ cand' = [cand EXCEPT ![m] = None]
    /\ Goto(m, "run")
    /\ UNCHANGED <<runq, mp, wired, waiting, hand>>

MachStep(m) ==
    \/ Queueproc(m) \/ Block(m) \/ Sched(m) \/ Schedinit(m) \/ Leave(m)
    \/ RunReadied(m) \/ Search(m) \/ Dequeueproc(m) \/ Run(m) \/ Rebalance(m)
    \/ \E p \in Procs : Wake(m, p) \/ Newproc(m, p) \/ Procpriority(m, p)
    \/ \E p \in Procs, n \in Machs : Procwired(m, p, n)
    \/ \E j \in Pris : RebalanceFind(m, j)

Next == \E m \in Machs : MachStep(m)

Spec == Init /\ [][Next]_vars
-----------------------------------------------------------------------------
TypeOK ==
    /\ runq \in [Pris -> Seq(Procs)]
    /\ state \in [Procs -> {"Running", "Blocked", "Ready", "Scheding", "Moribund", "Dead"}]
    /\ mach \in [Procs -> Machs \cup {None}]
    /\ mp \in [Procs -> Machs \cup {None}]
    /\ wired \in [Procs -> Machs \cup {None}]
    /\ pri \in [Procs -> Pris]
    /\ waiting \subseteq Procs
    /\ pc \in [Machs -> {"run", "switch", "leave", "runproc", "loop", "found", "got",
                       "rebalance"}]
    /\ up \in [Machs -> Procs \cup {None}]
    /\ readied \in [Machs -> Procs \cup {None}]
    /\ hand \in [Machs -> [p : Procs, k : Pris] \cup {None}]
    /\ cand \in [Machs -> [p : Procs, k : Pris] \cup {None}]

(* The processor is using p, or has taken it off its queue to run it.      *)
Has(m, p) == up[m] = p \/ (pc[m] = "got" /\ cand[m].p = p)

(* p->mach and the run queues keep a process on one processor: two         *)
(* processors never have the same process, not even one that was made      *)
(* ready while its own processor was still switching away from it.         *)
OneProcessor ==
    \A m, n \in Machs : \A p \in Procs : Has(m, p) /\ Has(n, p) => m = n

(* Where p is on the run queues, and about to be put on one.               *)
OnQueue(p, k) == {<<k, i>> : i \in {i \in DOMAIN runq[k] : runq[k][i] = p}}

OnQueues(p) == UNION {OnQueue(p, k) : k \in Pris}

InHands(p) == {<<m, 0>> : m \in {m \in Machs : ~ Free(m) /\ hand[m].p = p}}

Places(p) == OnQueues(p) \cup InHands(p)

(* A process that is Ready is in exactly one place where runproc will find *)
(* it, any other in none: ready processes are neither lost nor queued      *)
(* twice, whatever ready, rebalance and runproc do at the same time.       *)
ReadyQueuedOnce ==
    \A p \in Procs :
        IF state[p] = "Ready" THEN \E x \in Places(p) : Places(p) = {x}
                              ELSE Places(p) = {}

(* "wire this proc to a machine" (procwired): once a process is wired, a   *)
(* processor other than that one does not choose it to run.                *)
WiredStays ==
    [][\A m \in Machs : cand'[m] # cand[m] /\ pc'[m] = "found"
          => wired[cand'[m].p] \in {None, m}]_vars
=============================================================================
