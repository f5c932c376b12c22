------------------------------- MODULE Alarm --------------------------------
(***************************************************************************)
(* Alarms (port/alarm.c): processes set and clear them, the clock wakes    *)
(* alarmkproc, alarmkproc posts the notes.  Processes exit, also with an   *)
(* alarm set, and their Proc is used again; it may still be on the list.   *)
(*                                                                         *)
(* up->alarm is the number of ticks to go, 0 or less when the time has     *)
(* come, or Off for the code's 0.  Ticks are 32 bits wide and compared by  *)
(* the sign of a difference.  For two times that is the difference of the  *)
(* ticks to go; for a 0 it depends on the clock, which is in the lower     *)
(* (Half = 0) or the upper half of its range, each 248 days at HZ = 100.   *)
(* The list is changed only under qlock(&alarms), in one step by a         *)
(* process; clearing an alarm takes no lock.  A debugger may hold a        *)
(* process's debug lock, which alarmkproc only tries for.                  *)
(***************************************************************************)
EXTENDS Integers, Sequences

CONSTANTS Procs,
          Mortal,    \* bound: the processes that exit and are debugged
          MaxTime,   \* bound: the longest alarm
          MaxLate,   \* bound: the clock waits for an alarm this late
          Half,      \* the top bit of sys->ticks
          Off, None

ASSUME AlarmAssumption ==
    /\ MaxTime \in Nat \ {0} /\ MaxLate \in Nat /\ Half \in {0, 1}
    /\ Off \notin Int /\ None \notin Procs /\ Mortal \subseteq Procs

VARIABLES list,      \* alarms.head ...
          alarm,     \* p->alarm
          want,      \* the alarm of a process on its way to qlock(&alarms)
          life,      \* of the processes: alive, exiting or dead
          debug,     \* p->debug is held by a debugger
          kpc,       \* of alarmkproc; it holds the alarms lock in Locked
          lag,       \* the ticks since it read its now
          rp,        \* its rp
          forme      \* history: rp is still the process that set the alarm

vars == <<list, alarm, want, life, debug, kpc, lag, rp, forme>>

Locked == {"test", "post", "clear"}

Init ==
    /\ list = <<>>
    /\ alarm = [p \in Procs |-> Off] /\ want = [p \in Procs |-> Off]
    /\ life = [p \in Procs |-> "alive"] /\ debug = [p \in Procs |-> 0]
    /\ kpc = "now" /\ lag = 0 /\ rp = None /\ forme = 0

-----------------------------------------------------------------------------
(* procalarm: 0 clears the alarm at once.                                  *)
Clear(p) ==
    /\ life[p] = "alive" /\ want[p] = Off
    /\ alarm' = [alarm EXCEPT ![p] = Off]
    /\ UNCHANGED <<list, want, life, debug, kpc, lag, rp, forme>>

(* Another time: when = ms2tk(time)+sys->ticks, then qlock(&alarms).       *)
Ask(p, t) ==
    /\ life[p] = "alive" /\ want[p] = Off
    /\ want' = [want EXCEPT ![p] = t]
    /\ UNCHANGED <<list, alarm, life, debug, kpc, lag, rp, forme>>

(* (long)(f->alarm - when) >= 0                                            *)
Later(f, when) == IF alarm[f] = Off THEN Half = 1 ELSE alarm[f] >= when

(* The list l with p before the first alarm that is not earlier.           *)
Insert(l, p, when) ==
    LET at == CHOOSE k \in 1 .. Len(l) + 1 :
                  /\ k <= Len(l) => Later(l[k], when)
                  /\ \A j \in 1 .. k - 1 : ~Later(l[j], when)
    IN  [i \in 1 .. Len(l) + 1 |-> IF i < at THEN l[i] ELSE IF i = at THEN p ELSE l[i - 1]]

(* The list l without p.                                                   *)
Without(l, p) ==
    IF \A i \in 1 .. Len(l) : l[i] # p THEN l
    ELSE LET at == CHOOSE k \in 1 .. Len(l) : l[k] = p /\ \A j \in 1 .. k - 1 : l[j] # p
         IN  [i \in 1 .. Len(l) - 1 |-> IF i < at THEN l[i] ELSE l[i + 1]]

(* Take up off the list if it is there, and insert it.                     *)
Enlist(p) ==
    /\ want[p] # Off /\ kpc \notin Locked
    /\ list' = Insert(Without(list, p), p, want[p])
    /\ alarm' = [alarm EXCEPT ![p] = want[p]]
    /\ want' = [want EXCEPT ![p] = Off]
    /\ UNCHANGED <<life, debug, kpc, lag, rp, forme>>

(* pexit clears the alarm and then takes up->debug.                        *)
Exiting(p) ==
    /\ life[p] = "alive" /\ want[p] = Off
    /\ life' = [life EXCEPT ![p] = "exiting"]
    /\ alarm' = [alarm EXCEPT ![p] = Off]
    /\ forme' = IF rp = p THEN 0 ELSE forme
    /\ UNCHANGED <<list, want, debug, kpc, lag, rp>>

Exit(p) ==
    /\ life[p] = "exiting" /\ debug[p] = 0
    /\ life' = [life EXCEPT ![p] = "dead"]
    /\ UNCHANGED <<list, alarm, want, debug, kpc, lag, rp, forme>>

(* newproc does not look at alarm and palarm.                              *)
Newproc(p) ==
    /\ life[p] = "dead"
    /\ life' = [life EXCEPT ![p] = "alive"]
    /\ UNCHANGED <<list, alarm, want, debug, kpc, lag, rp, forme>>

Debugger(p) ==
    /\ life[p] # "dead"
    /\ debug' = [debug EXCEPT ![p] = 1 - @]
    /\ UNCHANGED <<list, alarm, want, life, kpc, lag, rp, forme>>
-----------------------------------------------------------------------------
(* What is left of a time after a tick.                                    *)
Less(t) == IF t = Off THEN Off ELSE t - 1

BugReachedEarly(t, late) == IF t = Off THEN Half = 0 ELSE t <= 1 - late

BugReachedCleared(t, late) == t # Off /\ t <= -late

(* (long)(now - t) >= 0, where now was read late ticks ago.                *)
Reached(t, late) == IF t = Off THEN Half = 0 ELSE t <= -late

BugCheckalarms ==
    kpc' = IF kpc = "asleep" /\ list # <<>> /\ alarm'[Head(list)] = 0 THEN "now" ELSE kpc

(* Is the head due at the new time?  Then wakeup(&alarmr).                 *)
checkalarms ==
    kpc' = IF kpc = "asleep" /\ list # <<>> /\ Reached(alarm'[Head(list)], 0) THEN "now" ELSE kpc

(* sys->ticks goes up and checkalarms is called.  At the bound only the    *)
(* second happens.                                                         *)
Tick ==
    /\ IF lag = MaxLate \/ \E p \in Procs : alarm[p] = -MaxLate \/ want[p] = -MaxLate
       THEN UNCHANGED <<alarm, want, lag>>
       ELSE /\ alarm' = [p \in Procs |-> Less(alarm[p])]
            /\ want' = [p \in Procs |-> Less(want[p])]
            /\ lag' = IF kpc \in Locked \cup {"lock"} THEN lag + 1 ELSE 0
    /\ checkalarms
    /\ UNCHANGED <<list, life, debug, rp, forme>>

(* alarmkproc: now = sys->ticks; qlock(&alarms)                            *)
Now ==
    /\ kpc = "now"
    /\ kpc' = "lock"
    /\ UNCHANGED <<list, alarm, want, life, debug, lag, rp, forme>>

Lock ==
    /\ kpc = "lock"
    /\ kpc' = "test"
    /\ UNCHANGED <<list, alarm, want, life, debug, lag, rp, forme>>

(* The test of the while: an alarm that was cleared just leaves the list.  *)
Test ==
    /\ kpc = "test"
    /\ IF list = <<>> \/ ~Reached(alarm[Head(list)], lag)
       THEN kpc' = "sleep" /\ lag' = 0 /\ UNCHANGED <<list, rp, forme>>
       ELSE IF alarm[Head(list)] = Off
       THEN list' = Tail(list) /\ UNCHANGED <<kpc, lag, rp, forme>>
       ELSE kpc' = "post" /\ rp' = Head(list) /\ forme' = 1 /\ UNCHANGED <<list, lag>>
    /\ UNCHANGED <<alarm, want, life, debug>>

(* canqlock(&rp->debug), postnote; or give up until the next tick.         *)
Post ==
    /\ kpc = "post"
    /\ kpc' = IF debug[rp] = 0 THEN "clear" ELSE "sleep"
    /\ lag' = IF debug[rp] = 0 THEN lag ELSE 0
    /\ rp' = IF debug[rp] = 0 THEN rp ELSE None
    /\ forme' = 0
    /\ UNCHANGED <<list, alarm, want, life, debug>>

(* rp->alarm = 0; alarms.head = rp->palarm                                 *)
ClearPosted ==
    /\ kpc = "clear"
    /\ alarm' = [alarm EXCEPT ![rp] = Off]
    /\ list' = Tail(list)
    /\ rp' = None
    /\ kpc' = "test"
    /\ UNCHANGED <<want, life, debug, lag, forme>>

Sleep ==
    /\ kpc = "sleep"
    /\ kpc' = "asleep"
    /\ UNCHANGED <<list, alarm, want, life, debug, lag, rp, forme>>

alarmkproc == Now \/ Lock \/ Test \/ Post \/ ClearPosted \/ Sleep
-----------------------------------------------------------------------------
Proc(p) ==
    \/ Clear(p) \/ (\E t \in 0 .. MaxTime : Ask(p, t)) \/ Enlist(p)

Life(p) == Exiting(p) \/ Exit(p) \/ Newproc(p) \/ Debugger(p)

Next == (\E p \in Procs : Proc(p)) \/ (\E p \in Mortal : Life(p)) \/ Tick \/ alarmkproc

Spec == Init /\ [][Next]_vars

(* The clock ticks and alarmkproc runs.                                    *)
FairSpec == Spec /\ WF_vars(Tick) /\ WF_vars(alarmkproc)
-----------------------------------------------------------------------------
Time == -MaxLate .. MaxTime \cup {Off}

(* The variables hold values of their types.                               *)
TypeOK ==
    /\ list \in Seq(Procs) /\ alarm \in [Procs -> Time] /\ want \in [Procs -> Time]
    /\ life \in [Procs -> {"alive", "exiting", "dead"}] /\ debug \in [Procs -> {0, 1}]
    /\ kpc \in Locked \cup {"now", "lock", "sleep", "asleep"}
    /\ lag \in 0 .. MaxLate /\ forme \in {0, 1}
    /\ IF kpc \in {"post", "clear"} THEN rp \in Procs ELSE rp = None

(* A Proc is on the list once at most, though it exits and is used again   *)
(* while it is there, and an alarm that is set is always on the list: what *)
(* procalarm's search for up and alarmkproc's removals are for.            *)
AlarmListed ==
    /\ \A i, j \in 1 .. Len(list) : i # j => list[i] # list[j]
    /\ \A p \in Procs : alarm[p] # Off => \E i \in 1 .. Len(list) : list[i] = p

(* The alarms that are set stay in the order of their times, whatever has  *)
(* been cleared, without the lock, between them: alarmkproc stops at the   *)
(* first that is not due.                                                  *)
Sorted ==
    \A i, j \in 1 .. Len(list) :
        i < j /\ alarm[list[i]] # Off /\ alarm[list[j]] # Off => alarm[list[i]] <= alarm[list[j]]

(* No alarm note is posted before its time: the alarm alarmkproc is about  *)
(* to post is due or has been cleared since, and it is still the head of   *)
(* the list that ClearPosted takes off.                                    *)
NotEarly ==
    kpc \in {"post", "clear"} =>
        /\ alarm[rp] = Off \/ alarm[rp] <= -lag
        /\ list # <<>> /\ Head(list) = rp

(* alarmkproc's loop stops only when no alarm that is due by its now is    *)
(* left on the list: "the odd test of now vs. rp->alarm is to cope with    *)
(* now wrapping around".                                                   *)
NoneLeft ==
    [][kpc = "test" /\ kpc' = "sleep" => \A p \in Procs : alarm[p] = Off \/ alarm[p] > -lag]_vars

Over(p) == alarm[p] # Off /\ alarm[p] <= 0

(* An alarm whose time has come is posted, cleared or set anew, though     *)
(* wakeup may find alarmkproc awake and canqlock may fail, unless debuggers *)
(* keep taking a process's debug lock.                                     *)
AlarmFires ==
    (\E p \in Procs : []<>(debug[p] = 1)) \/ \A p \in Procs : (Over(p) ~> ~Over(p) \/ want[p] # Off)

(* "to be sent to the invoking process": the note that alarmkproc is about *)
(* to post does not reach another process that has the Proc by now.        *)
AlarmBelongs == kpc = "post" /\ life[rp] = "alive" => forme = 1
=============================================================================
