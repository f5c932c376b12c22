----------------------------- MODULE SleepWakeup -----------------------------
(***************************************************************************)
(* sleep, wakeup and the waking half of postnote (port/proc.c), step by    *)
(* step on a multiprocessor.                                               *)
(*                                                                         *)
(* A sleeper locks the Rendez r and then its own p->rlock, publishes       *)
(* itself in r->p, tests the condition and p->notepending, and either      *)
(* withdraws or commits.  wakeup locks in the same order; postnote knows   *)
(* only the process, locks p->rlock first and can only try for r.          *)
(* Conditions and notepending are set without any of the locks.            *)
(*                                                                         *)
(* Sleepers, wakers (processes or interrupt handlers) and posters are      *)
(* different threads here; what a process does between two calls of sleep  *)
(* is of no consequence, so one that wakes others is one of each.          *)
(***************************************************************************)
EXTENDS Naturals

CONSTANTS Procs,       \* processes that sleep
          Wakers,      \* threads that make a condition true and call wakeup
          Posters,     \* threads that call postnote
          Rendezes,    \* Rendez structures
          None,        \* nil, no thread
          Serialised   \* callers admit one sleeper to a Rendez at a time

ASSUME ThreadsAssumption ==
    /\ Procs \cap Wakers = {} /\ Procs \cap Posters = {} /\ Wakers \cap Posters = {}
    /\ None \notin Procs \cup Wakers \cup Posters \cup Rendezes
    /\ Serialised \in BOOLEAN

VARIABLES cond,        \* cond[r]: f(arg) of whoever sleeps on r
          notepending, \* p->notepending
          rp,          \* r->p
          pr,          \* p->r
          state,       \* p->state
          rlk,         \* holder of the lock of r
          plk,         \* holder of p->rlock
          pc,          \* where each thread is
          arg,         \* the Rendez a thread works on
          tgt          \* the process a waker or poster works on

vars == <<cond, notepending, rp, pr, state, rlk, plk, pc, arg, tgt>>

Threads == Procs \cup Wakers \cup Posters

Init ==
    /\ cond = [r \in Rendezes |-> 0]
    /\ notepending = [p \in Procs |-> 0]
    /\ rp = [r \in Rendezes |-> None]
    /\ pr = [p \in Procs |-> None]
    /\ state = [p \in Procs |-> "Running"]
    /\ rlk = [r \in Rendezes |-> None]
    /\ plk = [p \in Procs |-> None]
    /\ pc = [t \in Threads |-> IF t \in Procs THEN "run" ELSE "idle"]
    /\ arg = [t \in Threads |-> None]
    /\ tgt = [t \in Threads |-> None]

Goto(t, l) == pc' = [pc EXCEPT ![t] = l]
-----------------------------------------------------------------------------
(* sleep(r, f, arg)                                                        *)

(* A process calls sleep on r.                                             *)
SleepCall(p, r) ==
    /\ pc[p] = "run"
    /\ Serialised => \A q \in Procs : arg[q] # r
    /\ arg' = [arg EXCEPT ![p] = r]
    /\ Goto(p, "s_lockr")
    /\ UNCHANGED <<cond, notepending, rp, pr, state, rlk, plk, tgt>>

(* lock(r)                                                                 *)
SleepLockR(p) ==
    /\ pc[p] = "s_lockr"
    /\ rlk[arg[p]] = None
    /\ rlk' = [rlk EXCEPT ![arg[p]] = p]
    /\ Goto(p, "s_lockp")
    /\ UNCHANGED <<cond, notepending, rp, pr, state, plk, arg, tgt>>

(* lock(&up->rlock); r->p = up, whoever was there.                         *)
SleepLockP(p) ==
    /\ pc[p] = "s_lockp"
    /\ plk[p] = None
    /\ plk' = [plk EXCEPT ![p] = p]
    /\ rp' = [rp EXCEPT ![arg[p]] = p]
    /\ Goto(p, "s_f")
    /\ UNCHANGED <<cond, notepending, pr, state, rlk, arg, tgt>>

(* "never mind": r->p = nil and p->rlock is released.                      *)
Withdraw(p) ==
    /\ rp' = [rp EXCEPT ![arg[p]] = None]
    /\ plk' = [plk EXCEPT ![p] = None]
    /\ Goto(p, "s_cancel")
    /\ UNCHANGED <<pr, state>>

(* f(arg), under both locks.                                               *)
SleepTestF(p) ==
    /\ pc[p] = "s_f"
    /\ IF cond[arg[p]] = 1 THEN Withdraw(p)
                           ELSE Goto(p, "s_note") /\ UNCHANGED <<rp, plk, pr, state>>
    /\ UNCHANGED <<cond, notepending, rlk, arg, tgt>>

(* up->notepending; if it is clear the sleep is committed.                 *)
SleepTestNote(p) ==
    /\ pc[p] = "s_note"
    /\ IF notepending[p] = 1
       THEN Withdraw(p)
       ELSE /\ state' = [state EXCEPT ![p] = "Wakeme"]
            /\ pr' = [pr EXCEPT ![p] = arg[p]]
            /\ plk' = [plk EXCEPT ![p] = None]
            /\ Goto(p, "s_commit")
            /\ UNCHANGED rp
    /\ UNCHANGED <<cond, notepending, rlk, arg, tgt>>

(* unlock(r), and give up the processor if the sleep was committed.        *)
SleepUnlockR(p) ==
    /\ pc[p] \in {"s_commit", "s_cancel"}
    /\ rlk' = [rlk EXCEPT ![arg[p]] = None]
    /\ Goto(p, IF pc[p] = "s_commit" THEN "off" ELSE "s_done")
    /\ UNCHANGED <<cond, notepending, rp, pr, state, plk, arg, tgt>>

(* The scheduler resumes a process that is Ready.                          *)
Resume(p) ==
    /\ pc[p] = "off"
    /\ state[p] = "Ready"
    /\ state' = [state EXCEPT ![p] = "Running"]
    /\ Goto(p, "s_done")
    /\ UNCHANGED <<cond, notepending, rp, pr, rlk, plk, arg, tgt>>

(* The end of sleep: error(Eintr) if a note is pending, else return to a   *)
(* caller that deals with the event if there was one.                      *)
SleepDone(p) ==
    /\ pc[p] = "s_done"
    /\ IF notepending[p] = 1
       THEN notepending' = [notepending EXCEPT ![p] = 0] /\ UNCHANGED cond
       ELSE cond' = [cond EXCEPT ![arg[p]] = 0] /\ UNCHANGED notepending
    /\ arg' = [arg EXCEPT ![p] = None]
    /\ Goto(p, "run")
    /\ UNCHANGED <<rp, pr, state, rlk, plk, tgt>>
-----------------------------------------------------------------------------
(* wakeup(r)                                                               *)

(* The waker makes the condition true, then calls wakeup.                  *)
WakeCall(w, r) ==
    /\ pc[w] = "idle"
    /\ cond' = [cond EXCEPT ![r] = 1]
    /\ arg' = [arg EXCEPT ![w] = r]
    /\ Goto(w, "w_lockr")
    /\ UNCHANGED <<notepending, rp, pr, state, rlk, plk, tgt>>

BugWakeCanlock(w) ==
    /\ pc[w] = "w_lockr"
    /\ IF rlk[arg[w]] # None
       THEN /\ arg' = [arg EXCEPT ![w] = None]
            /\ Goto(w, "idle")
            /\ UNCHANGED <<rlk, tgt>>
       ELSE /\ rlk' = [rlk EXCEPT ![arg[w]] = w]
            /\ tgt' = [tgt EXCEPT ![w] = rp[arg[w]]]
            /\ Goto(w, IF rp[arg[w]] = None THEN "w_unlockr" ELSE "w_lockp")
            /\ UNCHANGED arg
    /\ UNCHANGED <<cond, notepending, rp, pr, state, plk>>

(* lock(r); p = r->p                                                       *)
WakeLockR(w) ==
    /\ pc[w] = "w_lockr"
    /\ rlk[arg[w]] = None
    /\ rlk' = [rlk EXCEPT ![arg[w]] = w]
    /\ tgt' = [tgt EXCEPT ![w] = rp[arg[w]]]
    /\ Goto(w, IF rp[arg[w]] = None THEN "w_unlockr" ELSE "w_lockp")
    /\ UNCHANGED <<cond, notepending, rp, pr, state, plk, arg>>

(* lock(&p->rlock); check; r->p = p->r = nil; unlock(&p->rlock).  Nobody   *)
(* else can do anything that depends on p->rlock meanwhile.                *)
WakeClear(w) ==
    /\ pc[w] = "w_lockp"
    /\ plk[tgt[w]] = None
    /\ rp' = [rp EXCEPT ![arg[w]] = None]
    /\ pr' = [pr EXCEPT ![tgt[w]] = None]
    /\ Goto(w, IF state[tgt[w]] = "Wakeme" /\ pr[tgt[w]] = arg[w]
               THEN "w_unlockr" ELSE "panic")
    /\ UNCHANGED <<cond, notepending, state, rlk, plk, arg, tgt>>

(* unlock(r)                                                               *)
WakeUnlockR(w) ==
    /\ pc[w] = "w_unlockr"
    /\ rlk' = [rlk EXCEPT ![arg[w]] = None]
    /\ arg' = [arg EXCEPT ![w] = None]
    /\ Goto(w, IF tgt[w] = None THEN "idle" ELSE "w_ready")
    /\ UNCHANGED <<cond, notepending, rp, pr, state, plk, tgt>>

(* ready(p), at the end of wakeup and of postnote.                         *)
Ready(t) ==
    /\ pc[t] \in {"w_ready", "n_ready"}
    /\ state' = [state EXCEPT ![tgt[t]] = "Ready"]
    /\ tgt' = [tgt EXCEPT ![t] = None]
    /\ Goto(t, "idle")
    /\ UNCHANGED <<cond, notepending, rp, pr, rlk, plk, arg>>
-----------------------------------------------------------------------------
(* postnote(p, ...)                                                        *)

(* The note is put in p->note and p->notepending set.                      *)
NoteCall(n, p) ==
    /\ pc[n] = "idle"
    /\ notepending' = [notepending EXCEPT ![p] = 1]
    /\ tgt' = [tgt EXCEPT ![n] = p]
    /\ Goto(n, "n_lockp")
    /\ UNCHANGED <<cond, rp, pr, state, rlk, plk, arg>>

BugNoteLockP(n) ==
    /\ pc[n] = "n_lockp"
    /\ plk[tgt[n]] = None
    /\ IF pr[tgt[n]] = None
       THEN /\ tgt' = [tgt EXCEPT ![n] = None]
            /\ Goto(n, "idle")
            /\ UNCHANGED arg
       ELSE /\ arg' = [arg EXCEPT ![n] = pr[tgt[n]]]
            /\ Goto(n, "n_canlock")
            /\ UNCHANGED tgt
    /\ UNCHANGED <<cond, notepending, rp, pr, state, rlk, plk>>

(* lock(&p->rlock); r = p->r; done if p does not sleep.                    *)
NoteLockP(n) ==
    /\ pc[n] = "n_lockp"
    /\ plk[tgt[n]] = None
    /\ IF pr[tgt[n]] = None
       THEN /\ tgt' = [tgt EXCEPT ![n] = None]
            /\ Goto(n, "idle")
            /\ UNCHANGED <<plk, arg>>
       ELSE /\ plk' = [plk EXCEPT ![tgt[n]] = n]
            /\ arg' = [arg EXCEPT ![n] = pr[tgt[n]]]
            /\ Goto(n, "n_canlock")
            /\ UNCHANGED tgt
    /\ UNCHANGED <<cond, notepending, rp, pr, state, rlk>>

BugNoteWait(n) ==
    /\ pc[n] = "n_canlock"
    /\ rlk[arg[n]] = None
    /\ plk' = [plk EXCEPT ![tgt[n]] = None]
    /\ pr' = [pr EXCEPT ![tgt[n]] = None]
    /\ rp' = [rp EXCEPT ![arg[n]] = None]
    /\ arg' = [arg EXCEPT ![n] = None]
    /\ Goto(n, "n_ready")
    /\ UNCHANGED <<cond, notepending, state, rlk, tgt>>

(* canlock(r): if it fails, release p->rlock, sched() and start again; if  *)
(* it succeeds check, clear p->r and r->p, and release both locks.         *)
NoteCanlock(n) ==
    /\ pc[n] = "n_canlock"
    /\ plk' = [plk EXCEPT ![tgt[n]] = None]
    /\ arg' = [arg EXCEPT ![n] = None]
    /\ IF rlk[arg[n]] # None
       THEN Goto(n, "n_lockp") /\ UNCHANGED <<rp, pr>>
       ELSE /\ pr' = [pr EXCEPT ![tgt[n]] = None]
            /\ rp' = [rp EXCEPT ![arg[n]] = None]
            /\ Goto(n, IF state[tgt[n]] = "Wakeme" /\ rp[arg[n]] = tgt[n]
                       THEN "n_ready" ELSE "panic")
    /\ UNCHANGED <<cond, notepending, state, rlk, tgt>>
-----------------------------------------------------------------------------
SleepStep(p) ==
    \/ SleepLockR(p) \/ SleepLockP(p) \/ SleepTestF(p) \/ SleepTestNote(p)
    \/ SleepUnlockR(p) \/ Resume(p) \/ SleepDone(p)

WakeStep(w) == WakeLockR(w) \/ WakeClear(w) \/ WakeUnlockR(w) \/ Ready(w)

NoteStep(n) == NoteLockP(n) \/ NoteCanlock(n) \/ Ready(n)

Next ==
    \/ \E p \in Procs : SleepStep(p) \/ \E r \in Rendezes : SleepCall(p, r)
    \/ \E w \in Wakers : WakeStep(w) \/ \E r \in Rendezes : WakeCall(w, r)
    \/ \E n \in Posters : NoteStep(n) \/ \E p \in Procs : NoteCall(n, p)

(* All of this runs at splhi, so a thread on its way through it takes its  *)
(* next step; a ready process is run.  A thread that spins on a lock or    *)
(* retries is not passed over for ever (strong fairness).  Nobody is       *)
(* obliged to call sleep, wakeup or postnote.                              *)
Fairness ==
    /\ \A p \in Procs : WF_vars(SleepStep(p)) /\ SF_vars(SleepLockR(p))
                          /\ SF_vars(SleepLockP(p))
    /\ \A w \in Wakers : WF_vars(WakeStep(w)) /\ SF_vars(WakeLockR(w))
                           /\ SF_vars(WakeClear(w))
    /\ \A n \in Posters : WF_vars(NoteStep(n)) /\ SF_vars(NoteLockP(n))

Spec == Init /\ [][Next]_vars

FairSpec == Spec /\ Fairness
-----------------------------------------------------------------------------
SleepPCs == {"run", "s_lockr", "s_lockp", "s_f", "s_note", "s_commit", "s_cancel", "off",
             "s_done"}

WakePCs == {"idle", "w_lockr", "w_lockp", "w_unlockr", "w_ready", "panic"}

NotePCs == {"idle", "n_lockp", "n_canlock", "n_ready", "panic"}

TypeOK ==
    /\ cond \in [Rendezes -> {0, 1}]
    /\ notepending \in [Procs -> {0, 1}]
    /\ rp \in [Rendezes -> Procs \cup {None}]
    /\ pr \in [Procs -> Rendezes \cup {None}]
    /\ state \in [Procs -> {"Running", "Wakeme", "Ready"}]
    /\ rlk \in [Rendezes -> Threads \cup {None}]
    /\ plk \in [Procs -> Threads \cup {None}]
    /\ pc \in [Threads -> SleepPCs \cup WakePCs \cup NotePCs]
    /\ arg \in [Threads -> Rendezes \cup {None}]
    /\ tgt \in [Threads -> Procs \cup {None}]

(* The checks panic("wakeup: state") and panic("postnote: state") of       *)
(* wakeup and postnote never fail.                                         *)
NoPanic ==
    \A t \in Wakers \cup Posters : pc[t] # "panic"

(* "we lock both the process and the rendezvous to keep r->p and p->r      *)
(* synchronized" (proc.c): when the lock of r is free, r->p = p exactly    *)
(* if p->r = r, and then p is a committed sleeper.                         *)
Synchronised ==
    \A r \in Rendezes : rlk[r] = None =>
        /\ \A p \in Procs : rp[r] = p <=> pr[p] = r
        /\ rp[r] # None => pc[rp[r]] = "off" /\ state[rp[r]] = "Wakeme"

WakerFor(w, p) ==
    \/ pc[w] = "w_lockr" /\ arg[w] = pr[p]
    \/ pc[w] = "w_lockp" /\ tgt[w] = p

PosterFor(n, p) == pc[n] \in {"n_lockp", "n_canlock"} /\ tgt[n] = p

(* No lost wakeup: a process that has committed to sleep although its      *)
(* condition is true or a note is pending is about to be found by the      *)
(* thread that made it so.                                                 *)
NoLostWakeup ==
    \A p \in Procs : pr[p] # None =>
        /\ cond[pr[p]] = 1 => \E w \in Wakers : WakerFor(w, p)
        /\ notepending[p] = 1 => \E n \in Posters : PosterFor(n, p)

Readies(t, p) == tgt[t] = p /\ pc[t] \in {"w_unlockr", "w_ready", "n_ready"}

(* A sleeper taken off its Rendez is made ready exactly once, although     *)
(* wakeup and postnote may race for it: ready() twice would put it on the  *)
(* run queue twice, not at all would strand it.                            *)
ReadyOnce ==
    \A p \in Procs :
        /\ \A t, u \in Wakers \cup Posters : Readies(t, p) /\ Readies(u, p) => t = u
        /\ (\E t \in Wakers \cup Posters : Readies(t, p))
              <=> state[p] = "Wakeme" /\ pr[p] = None

(* A sleeper whose condition has become true, or that has been sent a      *)
(* note, wakes up.                                                         *)
WakesUp ==
    \A p \in Procs :
        pc[p] = "off" /\ (cond[arg[p]] = 1 \/ notepending[p] = 1) ~> pc[p] # "off"

(* "if two processes collide, the system will panic (double sleep)"        *)
(* (sleep(9)): sleep never publishes a process in a Rendez that holds      *)
(* another one.                                                            *)
DoubleSleepPanics ==
    [][\A r \in Rendezes : rp'[r] # rp[r] => rp[r] = None \/ rp'[r] = None]_vars
=============================================================================
