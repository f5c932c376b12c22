----------------------------- MODULE Rendezvous -----------------------------
(***************************************************************************)
(* The rendezvous system call (sysrendezvous, port/sysproc.c) and the part *)
(* of postnote (port/proc.c) that pulls a process out of a rendezvous.     *)
(*                                                                         *)
(* The processes of one rendezvous group wait in a hash chain, under the   *)
(* group's spin lock.  The second process to come takes the first off the  *)
(* chain, exchanges values, waits until the first has left its processor   *)
(* and makes it ready.  postnote looks at p->state before it takes the     *)
(* lock and again after.  Each process offers itself as its value.         *)
(***************************************************************************)
EXTENDS Integers, Sequences

CONSTANTS Procs,
          Posters,     \* threads that call postnote
          Tags,        \* the tags of one hash chain
          None

ASSUME RendezvousAssumption ==
    /\ Procs \cap Posters = {}
    /\ None \notin Procs \cup Posters \cup Tags

VARIABLES chain,       \* the processes waiting in REND(rgrp, tag)
          lk,          \* the holder of lock(rgrp)
          rendtag,     \* p->rendtag, and the tag a process calls with
          rendval,     \* p->rendval
          state,       \* p->state
          notepending, \* a note is posted and its handler not called yet
          pc,
          tgt,         \* the process that a thread works on
          val,         \* what the system call will return
          with         \* history: the process met in this call

vars == <<chain, lk, rendtag, rendval, state, notepending, pc, tgt, val, with>>

Threads == Procs \cup Posters

Interrupted == "~0"

Init ==
    /\ chain = <<>> /\ lk = None
    /\ rendtag = [p \in Procs |-> None]
    /\ rendval = [p \in Procs |-> Interrupted]
    /\ state = [p \in Procs |-> "Running"]
    /\ notepending = [p \in Procs |-> 0]
    /\ pc = [t \in Threads |-> IF t \in Procs THEN "user" ELSE "idle"]
    /\ tgt = [t \in Threads |-> None]
    /\ val = [p \in Procs |-> None]
    /\ with = [p \in Procs |-> None]

Goto(t, l) == pc' = [pc EXCEPT ![t] = l]
-----------------------------------------------------------------------------
(* The system call begins; it does not look at up->notepending.            *)
Call(p, tag) ==
    /\ pc[p] = "user"
    /\ rendtag' = [rendtag EXCEPT ![p] = tag]
    /\ rendval' = [rendval EXCEPT ![p] = Interrupted]
    /\ with' = [with EXCEPT ![p] = None]
    /\ Goto(p, "lock")
    /\ UNCHANGED <<chain, lk, state, notepending, tgt, val>>

Listed(p) == \E i \in DOMAIN chain : chain[i] = p

(* The first process in the chain that waits for the tag is at place i.    *)
First(tag, i) ==
    rendtag[chain[i]] = tag /\ \A j \in 1 .. i - 1 : rendtag[chain[j]] # tag

Unlinked(i) == SubSeq(chain, 1, i - 1) \o SubSeq(chain, i + 1, Len(chain))

BugMeet(p) ==
    /\ pc[p] = "lock"
    /\ lk = None
    /\ lk' = p
    /\ \E i \in DOMAIN chain :
           LET q == chain[i]
           IN  /\ First(rendtag[p], i)
               /\ tgt' = [tgt EXCEPT ![p] = q]
               /\ val' = [val EXCEPT ![p] = rendval[q]]
               /\ rendval' = [rendval EXCEPT ![q] = p]
               /\ with' = [with EXCEPT ![p] = q, ![q] = p]
    /\ Goto(p, "spin")
    /\ UNCHANGED <<chain, rendtag, state, notepending>>

(* A process waits for the tag: exchange the values, then spin until       *)
(* p->mach is nil, with the lock held.                                     *)
Meet(p) ==
    /\ pc[p] = "lock"
    /\ lk = None
    /\ lk' = p
    /\ \E i \in DOMAIN chain :
           LET q == chain[i]
           IN  /\ First(rendtag[p], i)
               /\ chain' = Unlinked(i)
               /\ tgt' = [tgt EXCEPT ![p] = q]
               /\ val' = [val EXCEPT ![p] = rendval[q]]
               /\ rendval' = [rendval EXCEPT ![q] = p]
               /\ with' = [with EXCEPT ![p] = q, ![q] = p]
    /\ Goto(p, "spin")
    /\ UNCHANGED <<rendtag, state, notepending>>

BugReady(p) ==
    /\ pc[p] = "spin"
    /\ pc[tgt[p]] = "off"
    /\ tgt' = [tgt EXCEPT ![p] = None]
    /\ lk' = None
    /\ Goto(p, "ret")
    /\ UNCHANGED <<chain, rendtag, rendval, state, notepending, val, with>>

(* ready(p); unlock(up->rgrp)                                              *)
Ready(p) ==
    /\ pc[p] = "spin"
    /\ pc[tgt[p]] = "off"
    /\ state' = [state EXCEPT ![tgt[p]] = "Ready"]
    /\ tgt' = [tgt EXCEPT ![p] = None]
    /\ lk' = None
    /\ Goto(p, "ret")
    /\ UNCHANGED <<chain, rendtag, rendval, notepending, val, with>>

(* Nobody waits for the tag: wait at the end of the chain.                 *)
Wait(p) ==
    /\ pc[p] = "lock"
    /\ lk = None
    /\ \A i \in DOMAIN chain : rendtag[chain[i]] # rendtag[p]
    /\ chain' = Append(chain, p)
    /\ rendval' = [rendval EXCEPT ![p] = p]
    /\ state' = [state EXCEPT ![p] = "Rendezvous"]
    /\ Goto(p, "sched")
    /\ UNCHANGED <<lk, rendtag, notepending, tgt, val, with>>

(* sched() leaves the processor: p->mach is nil.                           *)
Sched(p) ==
    /\ pc[p] = "sched"
    /\ Goto(p, "off")
    /\ UNCHANGED <<chain, lk, rendtag, rendval, state, notepending, tgt, val, with>>

(* The process runs again and returns up->rendval.                         *)
Resume(p) ==
    /\ pc[p] = "off"
    /\ state[p] = "Ready"
    /\ state' = [state EXCEPT ![p] = "Running"]
    /\ val' = [val EXCEPT ![p] = rendval[p]]
    /\ Goto(p, "ret")
    /\ UNCHANGED <<chain, lk, rendtag, rendval, notepending, tgt, with>>

(* The return from the system call (syscall, k10/syscall.c), which calls   *)
(* notify if there is a note.  What the call left in the Proc is not       *)
(* looked at again.                                                        *)
Return(p) ==
    /\ pc[p] = "ret"
    /\ notepending' = [notepending EXCEPT ![p] = 0]
    /\ rendtag' = [rendtag EXCEPT ![p] = None]
    /\ rendval' = [rendval EXCEPT ![p] = Interrupted]
    /\ val' = [val EXCEPT ![p] = None]
    /\ with' = [with EXCEPT ![p] = None]
    /\ Goto(p, "user")
    /\ UNCHANGED <<chain, lk, state, tgt>>

(* notify at the end of a trap in user mode: notepending is cleared even   *)
(* if the handler runs already and the note has to wait for its end.       *)
Notify(p) ==
    /\ pc[p] = "user"
    /\ notepending[p] = 1
    /\ notepending' = [notepending EXCEPT ![p] = 0]
    /\ UNCHANGED <<chain, lk, rendtag, rendval, state, pc, tgt, val, with>>
-----------------------------------------------------------------------------
BugPostnote(n, p) ==
    /\ pc[n] = "idle"
    /\ notepending' = [notepending EXCEPT ![p] = @ + 1]
    /\ tgt' = [tgt EXCEPT ![n] = p]
    /\ Goto(n, "test")
    /\ UNCHANGED <<chain, lk, rendtag, rendval, state, val, with>>

(* postnote: the note is posted; p is not in sleep, so p->r is nil.        *)
Postnote(n, p) ==
    /\ pc[n] = "idle"
    /\ notepending' = [notepending EXCEPT ![p] = 1]
    /\ tgt' = [tgt EXCEPT ![n] = p]
    /\ Goto(n, "test")
    /\ UNCHANGED <<chain, lk, rendtag, rendval, state, val, with>>

(* if(p->state != Rendezvous) return, without the lock.                    *)
PostnoteTest(n) ==
    /\ pc[n] = "test"
    /\ IF state[tgt[n]] = "Rendezvous"
       THEN Goto(n, "pull") /\ UNCHANGED tgt
       ELSE Goto(n, "idle") /\ tgt' = [tgt EXCEPT ![n] = None]
    /\ UNCHANGED <<chain, lk, rendtag, rendval, state, notepending, val, with>>

(* The chain when p has been looked for in it and taken off.               *)
Without(p) ==
    IF Listed(p)
    THEN Unlinked(CHOOSE i \in DOMAIN chain : chain[i] = p /\ \A j \in 1 .. i - 1 : chain[j] # p)
    ELSE chain

BugPostnotePull(n) ==
    /\ pc[n] = "pull"
    /\ lk = None
    /\ LET p == tgt[n]
       IN  /\ rendval' = [rendval EXCEPT ![p] = Interrupted]
           /\ chain' = Without(p)
           /\ state' = [state EXCEPT ![p] = "Ready"]
    /\ tgt' = [tgt EXCEPT ![n] = None]
    /\ Goto(n, "idle")
    /\ UNCHANGED <<lk, rendtag, notepending, val, with>>

(* Under the lock, if p is still in its rendezvous: take it off the chain  *)
(* and make it ready.                                                      *)
PostnotePull(n) ==
    /\ pc[n] = "pull"
    /\ lk = None
    /\ LET p == tgt[n]
       IN  IF state[p] = "Rendezvous"
           THEN /\ rendval' = [rendval EXCEPT ![p] = Interrupted]
                /\ chain' = Without(p)
                /\ state' = [state EXCEPT ![p] = "Ready"]
           ELSE UNCHANGED <<rendval, chain, state>>
    /\ tgt' = [tgt EXCEPT ![n] = None]
    /\ Goto(n, "idle")
    /\ UNCHANGED <<lk, rendtag, notepending, val, with>>
-----------------------------------------------------------------------------
ProcStep(p) ==
    Meet(p) \/ Ready(p) \/ Wait(p) \/ Sched(p) \/ Resume(p) \/ Return(p) \/ Notify(p)

PostStep(n) == PostnoteTest(n) \/ PostnotePull(n)

Next ==
    \/ \E p \in Procs : ProcStep(p) \/ \E tag \in Tags : Call(p, tag)
    \/ \E n \in Posters : PostStep(n) \/ \E p \in Procs : Postnote(n, p)

(* Every thread in the kernel goes on, and one that spins for the lock     *)
(* gets it some time; traps come.  Nobody has to call.                     *)
Fairness ==
    /\ \A p \in Procs : SF_vars(ProcStep(p)) /\ WF_vars(Notify(p))
    /\ \A n \in Posters : SF_vars(PostStep(n))

Spec == Init /\ [][Next]_vars

FairSpec == Spec /\ Fairness
-----------------------------------------------------------------------------
TypeOK ==
    /\ chain \in Seq(Procs)
    /\ lk \in Procs \cup {None}
    /\ rendtag \in [Procs -> Tags \cup {None}]
    /\ rendval \in [Procs -> Procs \cup {Interrupted}]
    /\ state \in [Procs -> {"Running", "Rendezvous", "Ready"}]
    /\ notepending \in [Procs -> 0 .. 1]
    /\ pc \in [Threads -> {"user", "lock", "spin", "sched", "off", "ret", "idle", "test",
                           "pull"}]
    /\ tgt \in [Threads -> Procs \cup {None}]
    /\ val \in [Procs -> Procs \cup {Interrupted, None}]
    /\ with \in [Procs -> Procs \cup {None}]

(* "the value arguments are exchanged between the processes and returned": *)
(* a call returns its partner's value if it has met one, else ~0, even if  *)
(* a note came while the partner was making the process ready.             *)
Exchanged ==
    \A p \in Procs : pc[p] = "ret" =>
        val[p] = IF with[p] = None THEN Interrupted ELSE with[p]

(* Two processes never wait for each other: no tag is in the chain twice,  *)
(* and a process whose state is Rendezvous is in the chain or in the hands *)
(* of the partner that is about to make it ready.                          *)
WaitersListed ==
    /\ \A i, j \in DOMAIN chain : rendtag[chain[i]] = rendtag[chain[j]] => i = j
    /\ \A p \in Procs : state[p] = "Rendezvous" <=>
           Listed(p) \/ \E q \in Procs : pc[q] = "spin" /\ tgt[q] = p

(* A process that has met its partner, or that a note has pulled out,      *)
(* returns; the partner's busy wait under the lock ends.                   *)
MetReturns ==
    \A p \in Procs :
        /\ pc[p] = "spin" ~> pc[p] # "spin"
        /\ pc[p] = "off" /\ ~Listed(p) ~> pc[p] = "ret"

(* "After a note is posted, the handler is called" (notify(2)).            *)
NoteDelivered ==
    \A p \in Procs : notepending[p] = 1 ~> notepending[p] = 0
=============================================================================
