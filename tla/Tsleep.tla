-------------------------------- MODULE Tsleep --------------------------------
(***************************************************************************)
(* tsleep and twakeup (port/proc.c) with the timers of port/portclock.c:   *)
(* timeradd, timerdel and timerintr, which calls twakeup when the timer of *)
(* a process is due.                                                       *)
(*                                                                         *)
(* timerintr takes the timer off its list and clears t->tt under the lock  *)
(* of the list, then releases the lock to call twakeup.  From then on the  *)
(* sleeper and twakeup share p->trend without any lock.                    *)
(*                                                                         *)
(* The order of a list is left open: any timer on it may be the next one   *)
(* due.  sleep and wakeup are the atomic operations that SleepWakeup is    *)
(* checked to provide; notes and events may come at any time.              *)
(***************************************************************************)
EXTENDS Naturals

CONSTANTS Procs,      \* each has one Timer, in its Proc structure
          Machs,      \* each has a list of timers
          Rendezes,   \* the Rendezes that a process uses with tsleep
          None

(* A timer that timerintr has taken.                                       *)
Firing == [p : Procs, at : {"read", "clear", "wakeup"}, r : Rendezes \cup {None}]

ASSUME TsleepAssumption == None \notin Procs \cup Machs \cup Rendezes \cup Firing

VARIABLES timers,     \* timers[m]: the timers on m's list
          tt,         \* t->tt, the list that the timer is on
          trend,      \* p->trend
          event,      \* fn(arg) of the current tsleep
          pc, on,     \* where the process is, and the Rendez of its tsleep
          fire        \* the timer that timerintr on m has taken, how far
                      \* twakeup is, and the Rendez it has read

vars == <<timers, tt, trend, event, pc, on, fire>>

Init ==
    /\ timers = [m \in Machs |-> {}]
    /\ tt = [p \in Procs |-> None]
    /\ trend = [p \in Procs |-> None]
    /\ event = [p \in Procs |-> 0]
    /\ pc = [p \in Procs |-> "run"]
    /\ on = [p \in Procs |-> None]
    /\ fire = [m \in Machs |-> None]

Goto(p, l) == pc' = [pc EXCEPT ![p] = l]

(* tdel, with the timer and its list locked.                               *)
Tdel(p) ==
    /\ timers' = [m \in Machs |-> IF m = tt[p] THEN timers[m] \ {p} ELSE timers[m]]
    /\ tt' = [tt EXCEPT ![p] = None]
-----------------------------------------------------------------------------
(* tsleep(r, fn, arg, ms), up to timeradd.                                 *)
Tsleep(p, r) ==
    /\ pc[p] = "run"
    /\ trend' = [trend EXCEPT ![p] = r]
    /\ on' = [on EXCEPT ![p] = r]
    /\ event' = [event EXCEPT ![p] = 0]
    /\ Goto(p, "timeradd")
    /\ IF tt[p] = None THEN UNCHANGED <<timers, tt>> ELSE Tdel(p)
    /\ UNCHANGED fire

(* timeradd, on the processor that the process is running on.              *)
Timeradd(p, m) ==
    /\ pc[p] = "timeradd"
    /\ timers' = [timers EXCEPT ![m] = @ \cup {p}]
    /\ tt' = [tt EXCEPT ![p] = m]
    /\ Goto(p, "sleep")
    /\ UNCHANGED <<trend, event, on, fire>>

BugSleep(p) ==
    /\ pc[p] = "sleep"
    /\ Goto(p, IF event[p] = 1 THEN "awake" ELSE "asleep")
    /\ UNCHANGED <<timers, tt, trend, event, on, fire>>

(* sleep(r, tfn, arg): tfn is true if twakeup has been here.               *)
Sleep(p) ==
    /\ pc[p] = "sleep"
    /\ Goto(p, IF trend[p] = None \/ event[p] = 1 THEN "awake" ELSE "asleep")
    /\ UNCHANGED <<timers, tt, trend, event, on, fire>>

(* What the process waits for happens, and wakeup(r) is called.            *)
Event(p) ==
    /\ pc[p] \in {"timeradd", "sleep", "asleep"}
    /\ event' = [event EXCEPT ![p] = 1]
    /\ Goto(p, IF pc[p] = "asleep" THEN "awake" ELSE pc[p])
    /\ UNCHANGED <<timers, tt, trend, on, fire>>

(* A note makes sleep raise an error: timerdel(up), whatever up->tt is.    *)
Interrupt(p) ==
    /\ pc[p] \in {"sleep", "asleep", "awake"}
    /\ Goto(p, "timerdel")
    /\ UNCHANGED <<timers, tt, trend, event, on, fire>>

(* sleep has returned: if(up->tt) timerdel(up).                            *)
Awake(p) ==
    /\ pc[p] = "awake"
    /\ Goto(p, IF tt[p] = None THEN "run" ELSE "timerdel")
    /\ UNCHANGED <<timers, tt, trend, event, on, fire>>

(* timerdel: tdel looks at tt again once the list is locked.               *)
Timerdel(p) ==
    /\ pc[p] = "timerdel"
    /\ Tdel(p)
    /\ Goto(p, "run")
    /\ UNCHANGED <<trend, event, on, fire>>
-----------------------------------------------------------------------------
BugTimerintr(m, p) ==
    /\ fire[m] = None
    /\ p \in timers[m]
    /\ tt' = [tt EXCEPT ![p] = None]
    /\ fire' = [fire EXCEPT ![m] = [p |-> p, at |-> "read", r |-> None]]
    /\ UNCHANGED <<timers, trend, event, pc, on>>

(* timerintr finds a timer due: it takes it off the list, sets t->tt to    *)
(* nil and unlocks the list.                                               *)
Timerintr(m, p) ==
    /\ fire[m] = None
    /\ p \in timers[m]
    /\ timers' = [timers EXCEPT ![m] = @ \ {p}]
    /\ tt' = [tt EXCEPT ![p] = None]
    /\ fire' = [fire EXCEPT ![m] = [p |-> p, at |-> "read", r |-> None]]
    /\ UNCHANGED <<trend, event, pc, on>>

(* twakeup: trend = p->trend                                               *)
TwakeupRead(m) ==
    /\ fire[m] # None /\ fire[m].at = "read"
    /\ fire' = [fire EXCEPT ![m].at = "clear", ![m].r = trend[fire[m].p]]
    /\ UNCHANGED <<timers, tt, trend, event, pc, on>>

(* p->trend = 0                                                            *)
TwakeupClear(m) ==
    /\ fire[m] # None /\ fire[m].at = "clear"
    /\ trend' = [trend EXCEPT ![fire[m].p] = None]
    /\ fire' = [fire EXCEPT ![m].at = "wakeup"]
    /\ UNCHANGED <<timers, tt, event, pc, on>>

BugTwakeup(m) ==
    /\ fire[m] # None /\ fire[m].at = "wakeup"
    /\ fire' = [fire EXCEPT ![m] = None]
    /\ UNCHANGED <<timers, tt, trend, event, on, pc>>

(* if(trend) wakeup(trend)                                                 *)
Twakeup(m) ==
    /\ fire[m] # None /\ fire[m].at = "wakeup"
    /\ LET p == fire[m].p
       IN  Goto(p, IF pc[p] = "asleep" /\ on[p] = fire[m].r THEN "awake" ELSE pc[p])
    /\ fire' = [fire EXCEPT ![m] = None]
    /\ UNCHANGED <<timers, tt, trend, event, on>>
-----------------------------------------------------------------------------
(* A processor in timerintr runs nothing else; the others go on.           *)
Running(m) == fire[m] = None

ProcStep(p) ==
    \E m \in Machs :
        Running(m) /\ (Timeradd(p, m) \/ Sleep(p) \/ Awake(p) \/ Timerdel(p))

Calls(p) ==
    /\ \E m \in Machs : Running(m)
    /\ Event(p) \/ Interrupt(p) \/ \E r \in Rendezes : Tsleep(p, r)

MachStep(m) ==
    (\E p \in Procs : Timerintr(m, p)) \/ TwakeupRead(m) \/ TwakeupClear(m) \/ Twakeup(m)

Next ==
    \/ \E p \in Procs : ProcStep(p) \/ Calls(p)
    \/ \E m \in Machs : MachStep(m)

(* Processes run, and every timer on a list becomes due: the list is in    *)
(* the order of the times, and timerintr goes through it on every clock    *)
(* interrupt.  Nothing has to wake a sleeper but its timer.                *)
Fairness ==
    /\ \A p \in Procs : SF_vars(ProcStep(p))
    /\ \A m \in Machs : WF_vars(MachStep(m)) /\ \A p \in Procs : SF_vars(Timerintr(m, p))

Spec == Init /\ [][Next]_vars

FairSpec == Spec /\ Fairness
-----------------------------------------------------------------------------
TypeOK ==
    /\ timers \in [Machs -> SUBSET Procs]
    /\ tt \in [Procs -> Machs \cup {None}]
    /\ trend \in [Procs -> Rendezes \cup {None}]
    /\ event \in [Procs -> 0 .. 1]
    /\ pc \in [Procs -> {"run", "timeradd", "sleep", "asleep", "awake", "timerdel"}]
    /\ on \in [Procs -> Rendezes \cup {None}]
    /\ fire \in [Machs -> Firing \cup {None}]

(* t->tt says which list a timer is on, so tadd's assertion holds, tdel    *)
(* finds the timer it is asked to delete, and no timer is on two lists,    *)
(* although timerintr takes timers away without locking them.              *)
TimerListed ==
    /\ \A p \in Procs, m \in Machs : p \in timers[m] <=> tt[p] = m
    /\ \A p \in Procs : pc[p] = "timeradd" => tt[p] = None

(* twakeup is under way for p and will wake a sleeper on r.                *)
WillWake(m, p, r) ==
    /\ fire[m] # None /\ fire[m].p = p
    /\ \/ fire[m].at = "read" /\ trend[p] = r
       \/ fire[m].at # "read" /\ fire[m].r = r

(* A process asleep in tsleep always has its timeout to come: its timer is *)
(* on a list and will find p->trend, or twakeup is about to wake it.       *)
TimeoutToCome ==
    \A p \in Procs : pc[p] = "asleep" =>
        \/ trend[p] # None /\ tt[p] # None
        \/ \E m \in Machs : WillWake(m, p, on[p])

(* "if ... the caller does sleep, and nothing else wakes it within ms      *)
(* milliseconds, the system will wake it" (sleep(9)).                      *)
TsleepReturns ==
    \A p \in Procs : pc[p] = "asleep" ~> pc[p] # "asleep"

(* "any manipulation of t requires tdel(t) ... We have tt, so the tdel     *)
(* will wait until we're done" (timerintr): when tsleep has returned or is *)
(* setting its timer again, timerintr is done with it.                     *)
TimerQuiet ==
    \A p \in Procs, m \in Machs :
        pc[p] \in {"run", "timeradd"} => fire[m] = None \/ fire[m].p # p
=============================================================================
