------------------------------ MODULE Semaphore ------------------------------
(***************************************************************************)
(* The user-level semaphores of port/sysproc.c: semacquire, tsemacquire    *)
(* and semrelease on the semaphores of one segment.                        *)
(*                                                                         *)
(* A semaphore's value is in user memory and is changed by                 *)
(* compare-and-swap; the list of waiting acquirers is protected by the     *)
(* spin lock s->sema.  No lock covers both, nor Sema.waiting, by which an  *)
(* acquirer says that it wants to be woken.  Every access to shared state  *)
(* is a step of its own; sleep and wakeup on the acquirer's Sema are the   *)
(* atomic test-and-sleep and wake that SleepWakeup is checked to provide.  *)
(***************************************************************************)
EXTENDS Integers, Sequences, FiniteSets

CONSTANTS Procs, NoProc,
          Addrs,      \* the semaphores
          MaxValue,   \* bound on the value of a semaphore
          Timeouts    \* the kinds of ms that tsemacquire is called with

ASSUME SemAssumption ==
    /\ IsFiniteSet(Procs) /\ NoProc \notin Procs
    /\ Addrs # {}
    /\ MaxValue \in Nat \ {0}
    /\ Timeouts \subseteq {"positive", "zero", "negative"}

VARIABLES value,      \* *addr
          list,       \* the acquirers on the segment's list, s->sema.next first
          lk,         \* the holder of the list's lock
          waiting,    \* phore.waiting
          pc,
          addr,       \* the semaphore of the current call
          op,         \* the current call: "sem" blocks, "try" does not
          ms,         \* tsemacquire's remaining time
          acquired,   \* the call has decremented the semaphore
          n, at,      \* semwakeup: how many still to wake, and where it is in list
          ret         \* what the call returns; -1 is an error

vars == <<value, list, lk, waiting, pc, addr, op, ms, acquired, n, at, ret>>

Init ==
    /\ value = [a \in Addrs |-> 0]
    /\ list = <<>> /\ lk = NoProc
    /\ waiting = [p \in Procs |-> 0]
    /\ pc = [p \in Procs |-> "user"]
    /\ addr \in [Procs -> {CHOOSE a \in Addrs : TRUE}]
    /\ op = [p \in Procs |-> "sem"]
    /\ ms = [p \in Procs |-> "positive"]
    /\ acquired = [p \in Procs |-> 0]
    /\ n = [p \in Procs |-> 0]
    /\ at = [p \in Procs |-> 0]
    /\ ret = [p \in Procs |-> 0]

Goto(p, l) == pc' = [pc EXCEPT ![p] = l]
-----------------------------------------------------------------------------
(* syssemacquire, systsemacquire and syssemrelease, called by p.           *)
CallAcquire(p) ==
    /\ pc[p] = "user"
    /\ \E a \in Addrs : addr' = [addr EXCEPT ![p] = a]
    /\ \/ /\ \E o \in {"sem", "try"} : op' = [op EXCEPT ![p] = o]
          /\ UNCHANGED ms
       \/ /\ \E t \in Timeouts : ms' = [ms EXCEPT ![p] = t]
          /\ op' = [op EXCEPT ![p] = "tsem"]
    /\ Goto(p, "canacquire")
    /\ UNCHANGED <<value, list, lk, waiting, acquired, n, at, ret>>

(* semrelease: add delta, by compare-and-swap; then semwakeup(delta).      *)
Semrelease(p) ==
    /\ pc[p] = "user"
    /\ \E a \in Addrs, d \in 1 .. MaxValue :
           /\ value[a] + d <= MaxValue
           /\ value' = [value EXCEPT ![a] = @ + d]
           /\ addr' = [addr EXCEPT ![p] = a]
           /\ n' = [n EXCEPT ![p] = d]
    /\ op' = [op EXCEPT ![p] = "release"]
    /\ Goto(p, "semwakeup")
    /\ UNCHANGED <<list, lk, waiting, ms, acquired, at, ret>>
-----------------------------------------------------------------------------
BugTakes(a) ==
    /\ value[a] >= 0
    /\ value' = [value EXCEPT ![a] = @ - 1]

(* canacquire succeeds.                                                    *)
Takes(a) ==
    /\ value[a] > 0
    /\ value' = [value EXCEPT ![a] = @ - 1]

(* The first canacquire, and the return of calls that will not wait.       *)
Canacquire(p) ==
    /\ pc[p] = "canacquire"
    /\ \/ /\ Takes(addr[p])
          /\ acquired' = [acquired EXCEPT ![p] = 1]
          /\ ret' = [ret EXCEPT ![p] = 1]
          /\ Goto(p, "ret")
       \/ /\ value[addr[p]] <= 0
          /\ IF op[p] = "try" \/ (op[p] = "tsem" /\ ms[p] = "zero")
             THEN ret' = [ret EXCEPT ![p] = 0] /\ Goto(p, "ret")
             ELSE UNCHANGED ret /\ Goto(p, "semqueue")
          /\ UNCHANGED <<value, acquired>>
    /\ UNCHANGED <<list, lk, waiting, addr, op, ms, n, at>>

(* semqueue clears the Sema and puts it at the end of the list.            *)
Semqueue(p) ==
    /\ pc[p] = "semqueue"
    /\ lk = NoProc
    /\ waiting' = [waiting EXCEPT ![p] = 0]
    /\ list' = Append(list, p)
    /\ Goto(p, "setwaiting")
    /\ UNCHANGED <<value, lk, addr, op, ms, acquired, n, at, ret>>

(* phore.waiting = 1                                                       *)
SetWaiting(p) ==
    /\ pc[p] = "setwaiting"
    /\ waiting' = [waiting EXCEPT ![p] = 1]
    /\ Goto(p, "tryagain")
    /\ UNCHANGED <<value, list, lk, addr, op, ms, acquired, n, at, ret>>

(* The canacquire of the loop.                                             *)
TryAgain(p) ==
    /\ pc[p] = "tryagain"
    /\ \/ /\ Takes(addr[p])
          /\ acquired' = [acquired EXCEPT ![p] = 1]
          /\ Goto(p, "semdequeue")
       \/ /\ value[addr[p]] <= 0
          /\ Goto(p, "sleep")
          /\ UNCHANGED <<value, acquired>>
    /\ UNCHANGED <<list, lk, waiting, addr, op, ms, n, at, ret>>

(* sleep(&phore, semawoke, &phore)                                         *)
Sleep(p) ==
    /\ pc[p] = "sleep"
    /\ Goto(p, IF waiting[p] = 0 THEN "awake" ELSE "asleep")
    /\ UNCHANGED <<value, list, lk, waiting, addr, op, ms, acquired, n, at, ret>>

(* A note: sleep raises an error, now or instead of sleeping.              *)
Interrupt(p) ==
    /\ pc[p] \in {"sleep", "asleep", "awake"}
    /\ Goto(p, "semdequeue")
    /\ UNCHANGED <<value, list, lk, waiting, addr, op, ms, acquired, n, at, ret>>

(* tsleep's timer: twakeup clears up->trend and wakes the sleeper.         *)
Twakeup(p) ==
    /\ pc[p] = "asleep" /\ op[p] = "tsem"
    /\ Goto(p, "awake")
    /\ UNCHANGED <<value, list, lk, waiting, addr, op, ms, acquired, n, at, ret>>

(* sleep or tsleep has returned: go round the loop, unless tsemacquire's   *)
(* time is used up.                                                        *)
Awake(p) ==
    /\ pc[p] = "awake"
    /\ \/ /\ op[p] = "tsem" => ms[p] = "positive"
          /\ Goto(p, "setwaiting")
          /\ UNCHANGED ms
       \/ /\ op[p] = "tsem"
          /\ ms' = [ms EXCEPT ![p] = "zero"]
          /\ Goto(p, "semdequeue")
    /\ UNCHANGED <<value, list, lk, waiting, addr, op, acquired, n, at, ret>>

(* p's place in the list is known to its own links.                        *)
Unlink(p) ==
    \E i \in DOMAIN list :
        /\ list[i] = p
        /\ list' = SubSeq(list, 1, i - 1) \o SubSeq(list, i + 1, Len(list))

BugSemdequeue(p) ==
    /\ pc[p] = "semdequeue"
    /\ Unlink(p)
    /\ Goto(p, "passon")
    /\ UNCHANGED <<value, lk, waiting, addr, op, ms, acquired, n, at, ret>>

Semdequeue(p) ==
    /\ pc[p] = "semdequeue"
    /\ lk = NoProc
    /\ Unlink(p)
    /\ Goto(p, "passon")
    /\ UNCHANGED <<value, lk, waiting, addr, op, ms, acquired, n, at, ret>>

BugResult(p) ==
    IF acquired[p] = 1 \/ ms[p] = "zero" THEN 1 ELSE -1

(* What semacquire or tsemacquire returns in the end.                      *)
Result(p) ==
    IF op[p] = "tsem" /\ ms[p] # "positive" THEN 0
    ELSE IF acquired[p] = 1 THEN 1 ELSE -1

BugPassOn(p) ==
    /\ pc[p] = "passon"
    /\ ret' = [ret EXCEPT ![p] = Result(p)]
    /\ Goto(p, "ret")
    /\ UNCHANGED <<value, list, lk, waiting, addr, op, ms, acquired, n, at>>

(* A wakeup that came and was not used is passed on.                       *)
PassOn(p) ==
    /\ pc[p] = "passon"
    /\ ret' = [ret EXCEPT ![p] = Result(p)]
    /\ IF waiting[p] = 0
       THEN n' = [n EXCEPT ![p] = 1] /\ Goto(p, "semwakeup")
       ELSE UNCHANGED n /\ Goto(p, "ret")
    /\ UNCHANGED <<value, list, lk, waiting, addr, op, ms, acquired, at>>
-----------------------------------------------------------------------------
(* semwakeup: walk the list, with its lock held.                           *)
Semwakeup(p) ==
    /\ pc[p] = "semwakeup"
    /\ lk = NoProc
    /\ lk' = p
    /\ at' = [at EXCEPT ![p] = 1]
    /\ Goto(p, "walk")
    /\ UNCHANGED <<value, list, waiting, addr, op, ms, acquired, n, ret>>

(* One element: clear the waiting flag that asks for this wakeup; or step  *)
(* over the element; or unlock at the end.                                 *)
Walk(p) ==
    /\ pc[p] = "walk"
    /\ IF at[p] > Len(list) \/ n[p] = 0
       THEN /\ lk' = NoProc
            /\ at' = [at EXCEPT ![p] = 0]
            /\ n' = [n EXCEPT ![p] = 0]
            /\ Goto(p, "ret")
            /\ UNCHANGED waiting
       ELSE LET q == list[at[p]]
            IN  IF addr[q] = addr[p] /\ waiting[q] = 1
                THEN /\ waiting' = [waiting EXCEPT ![q] = 0]
                     /\ Goto(p, "wakeup")
                     /\ UNCHANGED <<lk, at, n>>
                ELSE /\ at' = [at EXCEPT ![p] = @ + 1]
                     /\ UNCHANGED <<lk, waiting, pc, n>>
    /\ UNCHANGED <<value, list, addr, op, ms, acquired, ret>>

(* wakeup(p) of the element whose flag was cleared.                        *)
Wakeup(p) ==
    /\ pc[p] = "wakeup"
    /\ LET q == list[at[p]]
       IN  pc' = [pc EXCEPT ![p] = "walk",
                            ![q] = IF pc[q] = "asleep" THEN "awake" ELSE @]
    /\ at' = [at EXCEPT ![p] = @ + 1]
    /\ n' = [n EXCEPT ![p] = @ - 1]
    /\ UNCHANGED <<value, list, lk, waiting, addr, op, ms, acquired, ret>>

(* The call returns and its local variables are gone.                      *)
Return(p) ==
    /\ pc[p] = "ret"
    /\ Goto(p, "user")
    /\ waiting' = [waiting EXCEPT ![p] = 0]
    /\ addr' = [addr EXCEPT ![p] = CHOOSE a \in Addrs : TRUE]
    /\ op' = [op EXCEPT ![p] = "sem"]
    /\ ms' = [ms EXCEPT ![p] = "positive"]
    /\ acquired' = [acquired EXCEPT ![p] = 0]
    /\ ret' = [ret EXCEPT ![p] = 0]
    /\ UNCHANGED <<value, list, lk, n, at>>

Calls(p) == CallAcquire(p) \/ Semrelease(p)

Step(p) ==
    \/ Canacquire(p) \/ Semqueue(p) \/ SetWaiting(p) \/ TryAgain(p) \/ Sleep(p)
    \/ Awake(p) \/ Semdequeue(p) \/ PassOn(p) \/ Semwakeup(p) \/ Walk(p)
    \/ Wakeup(p) \/ Return(p)

Next == \E p \in Procs : Calls(p) \/ Step(p) \/ Interrupt(p) \/ Twakeup(p)

Spec == Init /\ [][Next]_vars

-----------------------------------------------------------------------------
TypeOK ==
    /\ value \in [Addrs -> 0 .. MaxValue]
    /\ list \in Seq(Procs)
    /\ lk \in Procs \cup {NoProc}
    /\ waiting \in [Procs -> 0 .. 1]
    /\ pc \in [Procs -> {"user", "canacquire", "semqueue", "setwaiting", "tryagain",
                         "sleep", "asleep", "awake", "semdequeue", "passon",
                         "semwakeup", "walk", "wakeup", "ret"}]
    /\ addr \in [Procs -> Addrs]
    /\ op \in [Procs -> {"sem", "try", "tsem", "release"}]
    /\ ms \in [Procs -> {"positive", "zero", "negative"}]
    /\ acquired \in [Procs -> 0 .. 1]
    /\ n \in [Procs -> 0 .. MaxValue]
    /\ at \in [Procs -> Nat]
    /\ ret \in [Procs -> -1 .. 1]

Asleep(a) == {p \in Procs : pc[p] = "asleep" /\ addr[p] = a}

(* semrelease wakes one acquirer for each unit, and an acquirer passes on  *)
(* a wakeup it does not use, so units and sleepers do not pile up: when    *)
(* no call is in progress but the sleeping ones, a semaphore with sleepers *)
(* is zero.                                                                *)
NoStrandedAcquirer ==
    (\A p \in Procs : pc[p] \in {"user", "asleep"}) =>
        \A a \in Addrs : Asleep(a) # {} => value[a] = 0

(* A Sema is on its acquirer's kernel stack: while semwakeup looks at one, *)
(* or is about to wake it, it is on the list and its call has not          *)
(* returned.                                                               *)
SemaLive ==
    \A p \in Procs : pc[p] = "wakeup" =>
        /\ at[p] \in DOMAIN list
        /\ pc[list[at[p]]] \in {"setwaiting", "tryagain", "sleep", "asleep",
                                "awake", "semdequeue"}

(* "Both functions return 1 if the semaphore was acquired" and something   *)
(* else if not.                                                            *)
ReturnsAcquired ==
    \A p \in Procs : pc[p] = "ret" /\ op[p] # "release" =>
        (ret[p] = 1 <=> acquired[p] = 1)
=============================================================================
