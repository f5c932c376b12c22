---------------------------- MODULE SleepProofs ----------------------------
(***************************************************************************)
(* Proofs about SleepWakeup for any numbers of sleepers, wakers, posters   *)
(* and Rendezes, as long as the callers of sleep admit one process to a    *)
(* Rendez at a time: r->p and p->r stay synchronised, no wakeup is lost,   *)
(* a sleeper is made ready once, and the checks of wakeup and postnote do  *)
(* not panic.  And about Tsleep, for any number of processors: a timer is  *)
(* on the list that it names; and, on one processor, none outlives its     *)
(* call and every sleeper has its timeout to come.                         *)
(***************************************************************************)
EXTENDS SleepWakeup, TLAPS

(* Where each kind of thread can be.                                       *)
PlaceInv ==
    /\ \A p \in Procs : pc[p] \in SleepPCs
    /\ \A w \in Wakers : pc[w] \in WakePCs \ {"panic"}
    /\ \A n \in Posters : pc[n] \in NotePCs \ {"panic"}

(* What each thread works on; callers of sleep on one Rendez take turns.   *)
ArgInv ==
    /\ \A p \in Procs : pc[p] = "run" <=> arg[p] = None
    /\ \A p, q \in Procs : arg[p] = arg[q] /\ arg[p] # None => p = q
    /\ \A w \in Wakers : /\ pc[w] \in {"w_lockr", "w_lockp", "w_unlockr"} => arg[w] # None
                         /\ pc[w] \in {"w_lockp", "w_ready"} => tgt[w] # None
    /\ \A n \in Posters : /\ pc[n] = "n_canlock" => arg[n] # None
                          /\ pc[n] # "idle" => tgt[n] # None

(* t holds the lock of Rendez r.                                           *)
HoldsR(t, r) ==
    /\ arg[t] = r
    /\ \/ t \in Procs /\ pc[t] \in {"s_lockp", "s_f", "s_note", "s_commit", "s_cancel"}
       \/ t \in Wakers /\ pc[t] \in {"w_lockp", "w_unlockr"}

(* t holds the rlock of process p.                                         *)
HoldsP(t, p) ==
    \/ t \in Procs /\ t = p /\ pc[t] \in {"s_f", "s_note"}
    \/ t \in Posters /\ tgt[t] = p /\ pc[t] = "n_canlock"

(* Who holds the locks.                                                    *)
LockInv ==
    /\ \A r \in Rendezes : \A t \in Threads : rlk[r] = t <=> HoldsR(t, r)
    /\ \A p \in Procs : \A t \in Threads : plk[p] = t <=> HoldsP(t, p)

(* p->state and p->r of a process that has committed to sleep.             *)
StateInv ==
    \A p \in Procs :
        /\ state[p] # "Running" <=> pc[p] \in {"s_commit", "off"}
        /\ pc[p] = "s_commit" => pr[p] # None
        /\ pr[p] # None => pr[p] = arg[p] /\ rp[pr[p]] = p /\ state[p] = "Wakeme"

(* r->p is a process that tests its condition or has committed to sleep.   *)
RendezInv ==
    /\ \A p \in Procs : pc[p] \in {"s_f", "s_note"} => rp[arg[p]] = p
    /\ \A r \in Rendezes : rp[r] # None =>
           /\ arg[rp[r]] = r
           /\ pc[rp[r]] \in {"s_f", "s_note"} \/ pr[rp[r]] = r

(* A waker or poster that holds a lock works on what it read under it.     *)
TargetInv ==
    /\ \A w \in Wakers : pc[w] = "w_lockp" => rp[arg[w]] = tgt[w]
    /\ \A n \in Posters : pc[n] = "n_canlock" => pr[tgt[n]] = arg[n]

(* A condition that became true after sleep tested it has its waker still  *)
(* before the lock of the Rendez.                                          *)
TestInv ==
    \A p \in Procs : pc[p] = "s_note" /\ cond[arg[p]] = 1 =>
        \E w \in Wakers : pc[w] = "w_lockr" /\ arg[w] = arg[p]

(* The inductive invariant.                                                *)
Inv == /\ TypeOK /\ PlaceInv /\ ArgInv /\ LockInv /\ StateInv /\ RendezInv /\ TargetInv
       /\ TestInv /\ NoLostWakeup /\ ReadyOnce
-----------------------------------------------------------------------------
(* Nobody sleeps at first.                                                 *)
LEMMA InitInv == Init => Inv
<1> SUFFICES ASSUME Init PROVE Inv
  BY Zenon
<1> USE ThreadsAssumption DEF Init
<1>1. TypeOK
  BY Zenon DEF TypeOK, Threads, SleepPCs, WakePCs, NotePCs
<1>2. \A t \in Threads : /\ pc[t] \in {"run", "idle"} /\ arg[t] = None
                        /\ pc[t] = "run" <=> t \in Procs
  BY Zenon DEF Threads
<1>3. PlaceInv /\ ArgInv
  BY <1>2, Zenon DEF PlaceInv, ArgInv, Threads, SleepPCs, WakePCs, NotePCs
<1>4. LockInv
  BY <1>2, Zenon DEF LockInv, HoldsR, HoldsP, Threads
<1>5. StateInv /\ RendezInv /\ TargetInv /\ TestInv
  BY <1>2, Zenon DEF StateInv, RendezInv, TargetInv, TestInv, Threads
<1>6. NoLostWakeup /\ ReadyOnce
  BY <1>2, Zenon DEF NoLostWakeup, ReadyOnce, Readies, Threads
<1> QED BY <1>1, <1>3, <1>4, <1>5, <1>6, Zenon DEF Inv

(* A process that calls sleep finds nobody else at its Rendez.             *)
LEMMA SleepCallStep ==
    ASSUME Inv, NEW p \in Procs, NEW r \in Rendezes, SleepCall(p, r), Serialised
    PROVE  Inv'
<1> USE ThreadsAssumption DEF Inv, SleepCall, Goto
<1>1. TypeOK' /\ PlaceInv' /\ ArgInv'
  <2>1. TypeOK'
    BY SMTT(30) DEF TypeOK, PlaceInv, ArgInv, Threads, SleepPCs, WakePCs, NotePCs
  <2>2. PlaceInv'
    BY Zenon DEF TypeOK, PlaceInv, Threads, SleepPCs, WakePCs, NotePCs
  <2>3. ArgInv'
    BY Zenon DEF TypeOK, ArgInv, Threads
  <2> QED BY <2>1, <2>2, <2>3, Zenon
<1>2. LockInv'
  BY DEF TypeOK, LockInv, HoldsR, HoldsP, Threads
<1>3. StateInv'
  BY Zenon DEF TypeOK, StateInv, Threads
<1>4. RendezInv'
  BY DEF TypeOK, ArgInv, LockInv, HoldsR, HoldsP, StateInv, RendezInv, Threads
<1>5. TargetInv'
  BY Zenon DEF TypeOK, TargetInv, Threads
<1>6. TestInv'
  BY Zenon DEF TypeOK, TestInv, Threads
<1>7. NoLostWakeup'
  BY DEF TypeOK, NoLostWakeup, WakerFor, PosterFor, Threads
<1>8. ReadyOnce'
  BY SMTT(30) DEF TypeOK, ReadyOnce, Readies, Threads
<1> QED BY <1>1, <1>2, <1>3, <1>4, <1>5, <1>6, <1>7, <1>8, Zenon

(* sleep takes the lock of the Rendez.                                     *)
LEMMA SleepLockRStep ==
    ASSUME Inv, NEW p \in Procs, SleepLockR(p)
    PROVE  Inv'
<1> USE ThreadsAssumption DEF Inv, SleepLockR, Goto
<1>1. TypeOK' /\ PlaceInv' /\ ArgInv'
  <2>1. TypeOK'
    BY SMTT(30) DEF TypeOK, PlaceInv, ArgInv, Threads, SleepPCs, WakePCs, NotePCs
  <2>2. PlaceInv'
    BY Zenon DEF TypeOK, PlaceInv, Threads, SleepPCs, WakePCs, NotePCs
  <2>3. ArgInv'
    BY Zenon DEF TypeOK, ArgInv, Threads
  <2> QED BY <2>1, <2>2, <2>3, Zenon
<1>2. LockInv'
  BY DEF TypeOK, LockInv, HoldsR, HoldsP, Threads
<1>3. StateInv'
  BY Zenon DEF TypeOK, StateInv, Threads
<1>4. RendezInv'
  BY DEF TypeOK, RendezInv, Threads
<1>5. TargetInv'
  BY Zenon DEF TypeOK, TargetInv, Threads
<1>6. TestInv'
  BY Zenon DEF TypeOK, TestInv, Threads
<1>7. NoLostWakeup'
  BY DEF TypeOK, NoLostWakeup, WakerFor, PosterFor, Threads
<1>8. ReadyOnce'
  BY SMTT(30) DEF TypeOK, ReadyOnce, Readies, Threads
<1> QED BY <1>1, <1>2, <1>3, <1>4, <1>5, <1>6, <1>7, <1>8, Zenon

(* sleep takes p->rlock and publishes p in r->p.                           *)
LEMMA SleepLockPStep ==
    ASSUME Inv, NEW p \in Procs, SleepLockP(p)
    PROVE  Inv'
<1> USE ThreadsAssumption DEF Inv, SleepLockP, Goto
<1>1. TypeOK' /\ PlaceInv' /\ ArgInv'
  <2>1. TypeOK'
    BY SMTT(30) DEF TypeOK, PlaceInv, ArgInv, Threads, SleepPCs, WakePCs, NotePCs
  <2>2. PlaceInv'
    BY Zenon DEF TypeOK, PlaceInv, Threads, SleepPCs, WakePCs, NotePCs
  <2>3. ArgInv'
    BY Zenon DEF TypeOK, ArgInv, Threads
  <2> QED BY <2>1, <2>2, <2>3, Zenon
<1>2. LockInv'
  BY DEF TypeOK, LockInv, HoldsR, HoldsP, Threads
<1>3. StateInv'
  BY DEF TypeOK, ArgInv, LockInv, HoldsR, HoldsP, StateInv, Threads
<1>4. RendezInv'
  BY DEF TypeOK, ArgInv, LockInv, HoldsR, HoldsP, StateInv, RendezInv, Threads
<1>5. TargetInv'
  BY DEF TypeOK, ArgInv, LockInv, HoldsR, HoldsP, StateInv, TargetInv, Threads
<1>6. TestInv'
  BY Zenon DEF TypeOK, TestInv, Threads
<1>7. NoLostWakeup'
  BY DEF TypeOK, NoLostWakeup, WakerFor, PosterFor, Threads
<1>8. ReadyOnce'
  BY SMTT(30) DEF TypeOK, ReadyOnce, Readies, Threads
<1> QED BY <1>1, <1>2, <1>3, <1>4, <1>5, <1>6, <1>7, <1>8, Zenon

(* sleep tests the condition and withdraws if it holds.                    *)
LEMMA SleepTestFStep ==
    ASSUME Inv, NEW p \in Procs, SleepTestF(p)
    PROVE  Inv'
<1> USE ThreadsAssumption DEF Inv, SleepTestF, Goto, Withdraw
<1>1. TypeOK' /\ PlaceInv' /\ ArgInv'
  <2>1. TypeOK'
    BY SMTT(30) DEF TypeOK, PlaceInv, ArgInv, Threads, SleepPCs, WakePCs, NotePCs
  <2>2. PlaceInv'
    BY DEF TypeOK, PlaceInv, Threads, SleepPCs, WakePCs, NotePCs
  <2>3. ArgInv'
    BY DEF TypeOK, ArgInv, Threads
  <2> QED BY <2>1, <2>2, <2>3, Zenon
<1>2. LockInv'
  BY DEF TypeOK, LockInv, HoldsR, HoldsP, Threads
<1>3. StateInv'
  BY DEF TypeOK, ArgInv, LockInv, HoldsR, HoldsP, StateInv, Threads
<1>4. RendezInv'
  <2>0. arg[p] \in Rendezes /\ rp[arg[p]] = p /\ pc[p] \in {"s_f", "s_note"}
    BY DEF TypeOK, ArgInv, RendezInv, Threads
  <2>1. CASE cond[arg[p]] = 1
    <3>1. /\ rp' = [rp EXCEPT ![arg[p]] = None] /\ pr' = pr /\ arg' = arg
          /\ pc' = [pc EXCEPT ![p] = "s_cancel"]
      BY <2>1, Zenon
    <3> QED BY <2>0, <3>1 DEF TypeOK, ArgInv, RendezInv, StateInv, Threads
  <2>2. CASE cond[arg[p]] # 1
    <3>1. /\ rp' = rp /\ pr' = pr /\ arg' = arg /\ pc' = [pc EXCEPT ![p] = "s_note"]
      BY <2>2, Zenon
    <3> QED BY <2>0, <3>1 DEF TypeOK, ArgInv, RendezInv, StateInv, Threads
  <2> QED BY <2>1, <2>2, Zenon
<1>5. TargetInv'
  BY DEF TypeOK, ArgInv, LockInv, HoldsR, HoldsP, StateInv, TargetInv, Threads
<1>6. TestInv'
  BY DEF TypeOK, TestInv, Threads
<1>7. NoLostWakeup'
  BY DEF TypeOK, NoLostWakeup, WakerFor, PosterFor, Threads
<1>8. ReadyOnce'
  BY SMTT(30) DEF TypeOK, ReadyOnce, Readies, Threads
<1> QED BY <1>1, <1>2, <1>3, <1>4, <1>5, <1>6, <1>7, <1>8, Zenon

(* sleep tests notepending, and withdraws or commits.                      *)
LEMMA SleepTestNoteStep ==
    ASSUME Inv, NEW p \in Procs, SleepTestNote(p)
    PROVE  Inv'
<1> USE ThreadsAssumption DEF Inv, SleepTestNote, Goto, Withdraw
<1>1. TypeOK' /\ PlaceInv' /\ ArgInv'
  <2>1. TypeOK'
    BY SMTT(30) DEF TypeOK, PlaceInv, ArgInv, Threads, SleepPCs, WakePCs, NotePCs
  <2>2. PlaceInv'
    BY DEF TypeOK, PlaceInv, Threads, SleepPCs, WakePCs, NotePCs
  <2>3. ArgInv'
    BY DEF TypeOK, ArgInv, Threads
  <2> QED BY <2>1, <2>2, <2>3, Zenon
<1>2. LockInv'
  BY DEF TypeOK, LockInv, HoldsR, HoldsP, Threads
<1>3. StateInv'
  BY DEF TypeOK, ArgInv, StateInv, RendezInv, TargetInv, Threads
<1>4. RendezInv'
  <2>0. arg[p] \in Rendezes /\ rp[arg[p]] = p /\ pc[p] \in {"s_f", "s_note"}
    BY DEF TypeOK, ArgInv, RendezInv, Threads
  <2>1. CASE notepending[p] = 1
    <3>1. /\ rp' = [rp EXCEPT ![arg[p]] = None] /\ pr' = pr /\ arg' = arg
          /\ pc' = [pc EXCEPT ![p] = "s_cancel"]
      BY <2>1, Zenon
    <3> QED BY <2>0, <3>1 DEF TypeOK, ArgInv, RendezInv, StateInv, Threads
  <2>2. CASE notepending[p] # 1
    <3>1. /\ rp' = rp /\ pr' = [pr EXCEPT ![p] = arg[p]] /\ arg' = arg
          /\ pc' = [pc EXCEPT ![p] = "s_commit"]
      BY <2>2, Zenon
    <3> QED BY <2>0, <3>1 DEF TypeOK, ArgInv, RendezInv, StateInv, Threads
  <2> QED BY <2>1, <2>2, Zenon
<1>5. TargetInv'
  BY DEF TypeOK, ArgInv, LockInv, HoldsR, HoldsP, StateInv, TargetInv, Threads
<1>6. TestInv'
  BY DEF TypeOK, TestInv, Threads
<1>7. NoLostWakeup'
  <2>0. /\ cond' = cond /\ notepending' = notepending /\ tgt' = tgt /\ arg' = arg
        /\ \A t \in Wakers \cup Posters : pc'[t] = pc[t]
        /\ \A q \in Procs \ {p} : pr'[q] = pr[q]
    BY DEF TypeOK, Threads
  <2>1. ASSUME NEW q \in Procs, pr'[q] # None, q # p
        PROVE  /\ cond'[pr'[q]] = 1 => \E w \in Wakers : WakerFor(w, q)'
               /\ notepending'[q] = 1 => \E n \in Posters : PosterFor(n, q)'
    BY <2>0, <2>1 DEF NoLostWakeup, WakerFor, PosterFor
  <2>2. ASSUME pr'[p] # None
        PROVE  /\ cond'[pr'[p]] = 1 => \E w \in Wakers : WakerFor(w, p)'
               /\ notepending'[p] # 1
    <3>1. notepending[p] # 1 /\ pr'[p] = arg[p]
      BY <2>2 DEF TypeOK, StateInv
    <3> QED BY <2>0, <3>1 DEF TestInv, WakerFor
  <2> QED BY <2>0, <2>1, <2>2, Zenon DEF NoLostWakeup
<1>8. ReadyOnce'
  BY SMTT(30) DEF TypeOK, ArgInv, LockInv, HoldsR, HoldsP, StateInv, ReadyOnce, Readies, Threads
<1> QED BY <1>1, <1>2, <1>3, <1>4, <1>5, <1>6, <1>7, <1>8, Zenon

(* sleep releases the lock of the Rendez.                                  *)
LEMMA SleepUnlockRStep ==
    ASSUME Inv, NEW p \in Procs, SleepUnlockR(p)
    PROVE  Inv'
<1> USE ThreadsAssumption DEF Inv, SleepUnlockR, Goto
<1>1. TypeOK' /\ PlaceInv' /\ ArgInv'
  <2>1. TypeOK'
    BY SMTT(30) DEF TypeOK, PlaceInv, ArgInv, Threads, SleepPCs, WakePCs, NotePCs
  <2>2. PlaceInv'
    BY Zenon DEF TypeOK, PlaceInv, Threads, SleepPCs, WakePCs, NotePCs
  <2>3. ArgInv'
    BY Zenon DEF TypeOK, ArgInv, Threads
  <2> QED BY <2>1, <2>2, <2>3, Zenon
<1>2. LockInv'
  BY DEF TypeOK, LockInv, HoldsR, HoldsP, Threads
<1>3. StateInv'
  BY Zenon DEF TypeOK, StateInv, Threads
<1>4. RendezInv'
  BY DEF TypeOK, RendezInv, Threads
<1>5. TargetInv'
  BY Zenon DEF TypeOK, TargetInv, Threads
<1>6. TestInv'
  BY Zenon DEF TypeOK, TestInv, Threads
<1>7. NoLostWakeup'
  BY DEF TypeOK, NoLostWakeup, WakerFor, PosterFor, Threads
<1>8. ReadyOnce'
  BY SMTT(30) DEF TypeOK, ReadyOnce, Readies, Threads
<1> QED BY <1>1, <1>2, <1>3, <1>4, <1>5, <1>6, <1>7, <1>8, Zenon

(* A sleeper that was made ready runs.                                     *)
LEMMA ResumeStep ==
    ASSUME Inv, NEW p \in Procs, Resume(p)
    PROVE  Inv'
<1> USE ThreadsAssumption DEF Inv, Resume, Goto
<1>1. TypeOK' /\ PlaceInv' /\ ArgInv'
  <2>1. TypeOK'
    BY SMTT(30) DEF TypeOK, PlaceInv, ArgInv, Threads, SleepPCs, WakePCs, NotePCs
  <2>2. PlaceInv'
    BY Zenon DEF TypeOK, PlaceInv, Threads, SleepPCs, WakePCs, NotePCs
  <2>3. ArgInv'
    BY Zenon DEF TypeOK, ArgInv, Threads
  <2> QED BY <2>1, <2>2, <2>3, Zenon
<1>2. LockInv'
  BY DEF TypeOK, LockInv, HoldsR, HoldsP, Threads
<1>3. StateInv'
  BY DEF TypeOK, StateInv, Threads
<1>4. RendezInv'
  BY DEF TypeOK, RendezInv, Threads
<1>5. TargetInv'
  BY Zenon DEF TypeOK, TargetInv, Threads
<1>6. TestInv'
  BY Zenon DEF TypeOK, TestInv, Threads
<1>7. NoLostWakeup'
  BY DEF TypeOK, NoLostWakeup, WakerFor, PosterFor, Threads
<1>8. ReadyOnce'
  BY SMTT(30) DEF TypeOK, ReadyOnce, Readies, Threads
<1> QED BY <1>1, <1>2, <1>3, <1>4, <1>5, <1>6, <1>7, <1>8, Zenon

(* sleep returns or raises Eintr.                                          *)
LEMMA SleepDoneStep ==
    ASSUME Inv, NEW p \in Procs, SleepDone(p)
    PROVE  Inv'
<1> USE ThreadsAssumption DEF Inv, SleepDone, Goto
<1>1. TypeOK' /\ PlaceInv' /\ ArgInv'
  <2>1. TypeOK'
    BY SMTT(30) DEF TypeOK, PlaceInv, ArgInv, Threads, SleepPCs, WakePCs, NotePCs
  <2>2. PlaceInv'
    BY Zenon DEF TypeOK, PlaceInv, Threads, SleepPCs, WakePCs, NotePCs
  <2>3. ArgInv'
    BY Zenon DEF TypeOK, ArgInv, Threads
  <2> QED BY <2>1, <2>2, <2>3, Zenon
<1>2. LockInv'
  BY DEF TypeOK, LockInv, HoldsR, HoldsP, Threads
<1>3. StateInv'
  BY Zenon DEF TypeOK, StateInv, Threads
<1>4. RendezInv'
  BY SMTT(30) DEF TypeOK, ArgInv, LockInv, HoldsR, HoldsP, StateInv, RendezInv, Threads
<1>5. TargetInv'
  BY Zenon DEF TypeOK, TargetInv, Threads
<1>6. TestInv'
  BY SMTT(30) DEF TypeOK, ArgInv, LockInv, HoldsR, HoldsP, StateInv, TestInv, Threads
<1>7. NoLostWakeup'
  BY DEF TypeOK, NoLostWakeup, WakerFor, PosterFor, Threads
<1>8. ReadyOnce'
  BY SMTT(30) DEF TypeOK, ReadyOnce, Readies, Threads
<1> QED BY <1>1, <1>2, <1>3, <1>4, <1>5, <1>6, <1>7, <1>8, Zenon

(* A condition becomes true and its waker calls wakeup.                    *)
LEMMA WakeCallStep ==
    ASSUME Inv, NEW w \in Wakers, NEW r \in Rendezes, WakeCall(w, r)
    PROVE  Inv'
<1> USE ThreadsAssumption DEF Inv, WakeCall, Goto
<1>1. TypeOK' /\ PlaceInv' /\ ArgInv'
  <2>1. TypeOK'
    BY SMTT(30) DEF TypeOK, PlaceInv, ArgInv, Threads, SleepPCs, WakePCs, NotePCs
  <2>2. PlaceInv'
    BY DEF TypeOK, PlaceInv, Threads, SleepPCs, WakePCs, NotePCs
  <2>3. ArgInv'
    BY DEF TypeOK, ArgInv, Threads
  <2> QED BY <2>1, <2>2, <2>3, Zenon
<1>2. LockInv'
  BY DEF TypeOK, LockInv, HoldsR, HoldsP, Threads
<1>3. StateInv'
  BY Zenon DEF TypeOK, StateInv, Threads
<1>4. RendezInv'
  BY DEF TypeOK, RendezInv, Threads
<1>5. TargetInv'
  BY Zenon DEF TypeOK, TargetInv, Threads
<1>6. TestInv'
  BY DEF TypeOK, TestInv, Threads
<1>7. NoLostWakeup'
  BY DEF TypeOK, NoLostWakeup, WakerFor, PosterFor, Threads
<1>8. ReadyOnce'
  BY SMTT(30) DEF TypeOK, ReadyOnce, Readies, Threads
<1> QED BY <1>1, <1>2, <1>3, <1>4, <1>5, <1>6, <1>7, <1>8, Zenon

(* wakeup takes the lock of the Rendez and reads r->p.                     *)
LEMMA WakeLockRStep ==
    ASSUME Inv, NEW w \in Wakers, WakeLockR(w)
    PROVE  Inv'
<1> USE ThreadsAssumption DEF Inv, WakeLockR, Goto
<1>1. TypeOK' /\ PlaceInv' /\ ArgInv'
  <2>1. TypeOK'
    BY SMTT(30) DEF TypeOK, PlaceInv, ArgInv, Threads, SleepPCs, WakePCs, NotePCs
  <2>2. PlaceInv'
    BY Zenon DEF TypeOK, PlaceInv, Threads, SleepPCs, WakePCs, NotePCs
  <2>3. ArgInv'
    BY DEF TypeOK, ArgInv, Threads
  <2> QED BY <2>1, <2>2, <2>3, Zenon
<1>2. LockInv'
  BY DEF TypeOK, LockInv, HoldsR, HoldsP, Threads
<1>3. StateInv'
  BY Zenon DEF TypeOK, StateInv, Threads
<1>4. RendezInv'
  BY DEF TypeOK, RendezInv, Threads
<1>5. TargetInv'
  BY Zenon DEF TypeOK, TargetInv, Threads
<1>6. TestInv'
  BY DEF TypeOK, ArgInv, LockInv, HoldsR, HoldsP, StateInv, TestInv, Threads
<1>7. NoLostWakeup'
  BY DEF TypeOK, ArgInv, LockInv, HoldsR, HoldsP, StateInv, NoLostWakeup, WakerFor,
     PosterFor, Threads
<1>8. ReadyOnce'
  BY SMTT(30) DEF TypeOK, ReadyOnce, Readies, Threads
<1> QED BY <1>1, <1>2, <1>3, <1>4, <1>5, <1>6, <1>7, <1>8, Zenon

(* wakeup finds a committed sleeper in r->p and takes it off.              *)
LEMMA WakeClearStep ==
    ASSUME Inv, NEW w \in Wakers, WakeClear(w)
    PROVE  Inv'
<1> USE ThreadsAssumption DEF Inv
<1> PICK p \in Procs, r \in Rendezes : p = tgt[w] /\ r = arg[w]
  BY Zenon DEF WakeClear, TypeOK, ArgInv, Threads
<1>a. /\ pr[p] = r /\ rp[r] = p /\ arg[p] = r
      /\ state[p] = "Wakeme" /\ pc[w] = "w_lockp" /\ pc[p] = "off"
  <2>1. pc[w] = "w_lockp" /\ rp[r] = p /\ p # None
    BY Zenon DEF WakeClear, TargetInv
  <2>2. ~ HoldsR(p, r)
    BY <2>1 DEF LockInv, HoldsR, Threads
  <2>3. arg[p] = r /\ pr[p] = r
    BY <2>1, <2>2, SMTT(30) DEF RendezInv, HoldsR
  <2>4. state[p] = "Wakeme" /\ pc[p] = "off"
    BY <2>2, <2>3 DEF StateInv, HoldsR
  <2> QED BY <2>1, <2>3, <2>4, Zenon
<1>b. /\ rp' = [rp EXCEPT ![r] = None] /\ pr' = [pr EXCEPT ![p] = None]
      /\ pc' = [pc EXCEPT ![w] = "w_unlockr"] /\ plk[p] = None
      /\ cond' = cond /\ notepending' = notepending /\ state' = state /\ rlk' = rlk
      /\ plk' = plk /\ arg' = arg /\ tgt' = tgt
  BY <1>a, Zenon DEF WakeClear, Goto
<1>1. TypeOK' /\ PlaceInv' /\ ArgInv'
  <2>1. TypeOK'
    BY <1>a, <1>b, SMTT(30) DEF TypeOK, PlaceInv, ArgInv, Threads, SleepPCs, WakePCs, NotePCs
  <2>2. PlaceInv'
    BY <1>a, <1>b, Zenon DEF TypeOK, PlaceInv, Threads, SleepPCs, WakePCs, NotePCs
  <2>3. ArgInv'
    BY <1>a, <1>b DEF TypeOK, ArgInv, Threads
  <2> QED BY <2>1, <2>2, <2>3, Zenon
<1>2. LockInv'
  BY <1>a, <1>b DEF TypeOK, LockInv, HoldsR, HoldsP, Threads
<1>3. StateInv'
  BY <1>a, <1>b DEF TypeOK, StateInv, Threads
<1>4. RendezInv'
  BY <1>a, <1>b DEF TypeOK, RendezInv, Threads
<1>5. TargetInv'
  BY <1>a, <1>b DEF TypeOK, ArgInv, LockInv, HoldsR, HoldsP, StateInv, TargetInv, Threads
<1>6. TestInv'
  BY <1>a, <1>b DEF TypeOK, TestInv, Threads
<1>7. NoLostWakeup'
  BY <1>a, <1>b DEF TypeOK, NoLostWakeup, WakerFor, PosterFor, Threads
<1>8. ReadyOnce'
  <2>1. \A t \in Wakers \cup Posters : ~ Readies(t, p)
    BY <1>a, Zenon DEF ReadyOnce
  <2>2. \A t \in Wakers \cup Posters, q \in Procs :
            Readies(t, q)' <=> Readies(t, q) \/ (t = w /\ q = p)
    BY <1>a, <1>b, Zenon DEF TypeOK, Readies, Threads
  <2> QED BY <1>a, <1>b, <2>1, <2>2 DEF TypeOK, ReadyOnce
<1> QED BY <1>1, <1>2, <1>3, <1>4, <1>5, <1>6, <1>7, <1>8, Zenon

(* wakeup releases the lock of the Rendez.                                 *)
LEMMA WakeUnlockRStep ==
    ASSUME Inv, NEW w \in Wakers, WakeUnlockR(w)
    PROVE  Inv'
<1> USE ThreadsAssumption DEF Inv, WakeUnlockR, Goto
<1>1. TypeOK' /\ PlaceInv' /\ ArgInv'
  <2>1. TypeOK'
    BY SMTT(30) DEF TypeOK, PlaceInv, ArgInv, Threads, SleepPCs, WakePCs, NotePCs
  <2>2. PlaceInv'
    BY Zenon DEF TypeOK, PlaceInv, Threads, SleepPCs, WakePCs, NotePCs
  <2>3. ArgInv'
    BY DEF TypeOK, ArgInv, Threads
  <2> QED BY <2>1, <2>2, <2>3, Zenon
<1>2. LockInv'
  BY DEF TypeOK, LockInv, HoldsR, HoldsP, Threads
<1>3. StateInv'
  BY Zenon DEF TypeOK, StateInv, Threads
<1>4. RendezInv'
  BY DEF TypeOK, RendezInv, Threads
<1>5. TargetInv'
  BY Zenon DEF TypeOK, TargetInv, Threads
<1>6. TestInv'
  BY Zenon DEF TypeOK, TestInv, Threads
<1>7. NoLostWakeup'
  BY DEF TypeOK, NoLostWakeup, WakerFor, PosterFor, Threads
<1>8. ReadyOnce'
  BY SMTT(30) DEF TypeOK, ReadyOnce, Readies, Threads
<1> QED BY <1>1, <1>2, <1>3, <1>4, <1>5, <1>6, <1>7, <1>8, Zenon

(* wakeup or postnote makes the sleeper ready.                             *)
LEMMA ReadyStep ==
    ASSUME Inv, NEW t \in Wakers \cup Posters, Ready(t)
    PROVE  Inv'
<1> USE ThreadsAssumption DEF Inv, Ready, Goto
<1>1. TypeOK' /\ PlaceInv' /\ ArgInv'
  <2>1. TypeOK'
    BY SMTT(30) DEF TypeOK, PlaceInv, ArgInv, Threads, SleepPCs, WakePCs, NotePCs
  <2>2. PlaceInv'
    BY Zenon DEF TypeOK, PlaceInv, Threads, SleepPCs, WakePCs, NotePCs
  <2>3. ArgInv'
    BY Zenon DEF TypeOK, ArgInv, Threads
  <2> QED BY <2>1, <2>2, <2>3, Zenon
<1>2. LockInv'
  BY DEF TypeOK, LockInv, HoldsR, HoldsP, Threads
<1>3. StateInv'
  <2>1. PICK p \in Procs : p = tgt[t] /\ Readies(t, p)
    BY Zenon DEF TypeOK, PlaceInv, ArgInv, Readies, Threads, WakePCs, NotePCs
  <2>2. state[p] = "Wakeme" /\ pr[p] = None
    BY <2>1, Zenon DEF ReadyOnce
  <2> QED BY <2>1, <2>2 DEF TypeOK, PlaceInv, StateInv, Threads, SleepPCs
<1>4. RendezInv'
  BY DEF TypeOK, RendezInv, Threads
<1>5. TargetInv'
  BY Zenon DEF TypeOK, TargetInv, Threads
<1>6. TestInv'
  BY Zenon DEF TypeOK, TestInv, Threads
<1>7. NoLostWakeup'
  BY Zenon DEF TypeOK, NoLostWakeup, WakerFor, PosterFor, Threads
<1>8. ReadyOnce'
  BY SMTT(30) DEF TypeOK, ReadyOnce, Readies, Threads
<1> QED BY <1>1, <1>2, <1>3, <1>4, <1>5, <1>6, <1>7, <1>8, Zenon

(* A note is posted.                                                       *)
LEMMA NoteCallStep ==
    ASSUME Inv, NEW n \in Posters, NEW p \in Procs, NoteCall(n, p)
    PROVE  Inv'
<1> USE ThreadsAssumption DEF Inv, NoteCall, Goto
<1>1. TypeOK' /\ PlaceInv' /\ ArgInv'
  <2>1. TypeOK'
    BY SMTT(30) DEF TypeOK, PlaceInv, ArgInv, Threads, SleepPCs, WakePCs, NotePCs
  <2>2. PlaceInv'
    BY DEF TypeOK, PlaceInv, Threads, SleepPCs, WakePCs, NotePCs
  <2>3. ArgInv'
    BY Zenon DEF TypeOK, ArgInv, Threads
  <2> QED BY <2>1, <2>2, <2>3, Zenon
<1>2. LockInv'
  BY DEF TypeOK, LockInv, HoldsR, HoldsP, Threads
<1>3. StateInv'
  BY Zenon DEF TypeOK, StateInv, Threads
<1>4. RendezInv'
  BY DEF TypeOK, RendezInv, Threads
<1>5. TargetInv'
  BY Zenon DEF TypeOK, TargetInv, Threads
<1>6. TestInv'
  BY Zenon DEF TypeOK, TestInv, Threads
<1>7. NoLostWakeup'
  BY DEF TypeOK, NoLostWakeup, WakerFor, PosterFor, Threads
<1>8. ReadyOnce'
  BY SMTT(30) DEF TypeOK, ReadyOnce, Readies, Threads
<1> QED BY <1>1, <1>2, <1>3, <1>4, <1>5, <1>6, <1>7, <1>8, Zenon

(* postnote takes p->rlock and reads p->r.                                 *)
LEMMA NoteLockPStep ==
    ASSUME Inv, NEW n \in Posters, NoteLockP(n)
    PROVE  Inv'
<1> USE ThreadsAssumption DEF Inv, NoteLockP, Goto
<1>1. TypeOK' /\ PlaceInv' /\ ArgInv'
  <2>1. TypeOK'
    BY SMTT(30) DEF TypeOK, PlaceInv, ArgInv, Threads, SleepPCs, WakePCs, NotePCs
  <2>2. PlaceInv'
    BY DEF TypeOK, PlaceInv, Threads, SleepPCs, WakePCs, NotePCs
  <2>3. ArgInv'
    BY DEF TypeOK, ArgInv, Threads
  <2> QED BY <2>1, <2>2, <2>3, Zenon
<1>2. LockInv'
  BY DEF TypeOK, LockInv, HoldsR, HoldsP, Threads
<1>3. StateInv'
  BY DEF TypeOK, StateInv, Threads
<1>4. RendezInv'
  BY DEF TypeOK, RendezInv, Threads
<1>5. TargetInv'
  BY DEF TypeOK, TargetInv, Threads
<1>6. TestInv'
  BY DEF TypeOK, TestInv, Threads
<1>7. NoLostWakeup'
  BY DEF TypeOK, NoLostWakeup, WakerFor, PosterFor, Threads
<1>8. ReadyOnce'
  <2>1. /\ pr' = pr /\ state' = state
        /\ \A t \in Wakers \cup Posters, q \in Procs : Readies(t, q)' <=> Readies(t, q)
    BY DEF TypeOK, Readies, Threads
  <2>2. ReadyOnce
    BY Zenon
  <2> HIDE DEF Inv, NoteLockP, Goto, Readies
  <2> QED BY <2>1, <2>2, Zenon DEF ReadyOnce
<1> QED BY <1>1, <1>2, <1>3, <1>4, <1>5, <1>6, <1>7, <1>8, Zenon

(* postnote gives up and starts again, or takes the sleeper off its Rendez.*)
LEMMA NoteCanlockStep ==
    ASSUME Inv, NEW n \in Posters, NoteCanlock(n)
    PROVE  Inv'
<1> USE ThreadsAssumption DEF Inv
<1> PICK p \in Procs, r \in Rendezes : p = tgt[n] /\ r = arg[n]
  BY Zenon DEF NoteCanlock, TypeOK, ArgInv, Threads
<1>a. pc[n] = "n_canlock" /\ pr[p] = r /\ rp[r] = p /\ state[p] = "Wakeme" /\ plk[p] = n
  BY DEF NoteCanlock, TargetInv, StateInv, LockInv, HoldsP, Threads
<1>b. /\ plk' = [plk EXCEPT ![p] = None] /\ arg' = [arg EXCEPT ![n] = None]
      /\ \/ pc' = [pc EXCEPT ![n] = "n_lockp"] /\ rp' = rp /\ pr' = pr
         \/ /\ rlk[r] = None /\ pc' = [pc EXCEPT ![n] = "n_ready"]
            /\ pr' = [pr EXCEPT ![p] = None] /\ rp' = [rp EXCEPT ![r] = None]
      /\ cond' = cond /\ notepending' = notepending /\ state' = state /\ rlk' = rlk /\ tgt' = tgt
  BY <1>a, Zenon DEF NoteCanlock, Goto
<1>1. TypeOK' /\ PlaceInv' /\ ArgInv'
  <2>1. TypeOK'
    BY <1>a, <1>b, SMTT(30) DEF TypeOK, PlaceInv, ArgInv, Threads, SleepPCs, WakePCs, NotePCs
  <2>2. PlaceInv'
    BY <1>a, <1>b DEF TypeOK, PlaceInv, Threads, SleepPCs, WakePCs, NotePCs
  <2>3. ArgInv'
    BY <1>a, <1>b DEF TypeOK, ArgInv, Threads
  <2> QED BY <2>1, <2>2, <2>3, Zenon
<1>2. LockInv'
  BY <1>a, <1>b DEF TypeOK, LockInv, HoldsR, HoldsP, Threads
<1>3. StateInv'
  BY <1>a, <1>b DEF TypeOK, ArgInv, LockInv, HoldsR, HoldsP, StateInv, Threads
<1>4. RendezInv'
  <2>1. CASE rp' = rp /\ pr' = pr
    BY <1>a, <1>b, <2>1 DEF TypeOK, PlaceInv, RendezInv, Threads, SleepPCs
  <2>2. CASE rlk[r] = None /\ pr' = [pr EXCEPT ![p] = None] /\ rp' = [rp EXCEPT ![r] = None]
    <3>1. \A q \in Procs : pc[q] \in {"s_f", "s_note"} => arg[q] # r
      BY <2>2, SMTT(30) DEF LockInv, HoldsR, Threads
    <3>2. \A q \in Procs : pc'[q] = pc[q] /\ arg'[q] = arg[q]
      BY <1>b DEF TypeOK, Threads
    <3>3. \A x \in Rendezes : x # r => rp[x] # p
      BY <1>a DEF RendezInv, StateInv
    <3> QED BY <2>2, <3>1, <3>2, <3>3 DEF TypeOK, RendezInv
  <2> QED BY <1>b, <2>1, <2>2, Zenon
<1>5. TargetInv'
  BY <1>a, <1>b DEF TypeOK, ArgInv, LockInv, HoldsR, HoldsP, StateInv, TargetInv, Threads
<1>6. TestInv'
  BY <1>a, <1>b DEF TypeOK, TestInv, Threads
<1>7. NoLostWakeup'
  BY <1>a, <1>b DEF TypeOK, NoLostWakeup, WakerFor, PosterFor, Threads
<1>8. ReadyOnce'
  BY <1>a, <1>b, SMTT(30) DEF TypeOK, ArgInv, LockInv, HoldsR, HoldsP, StateInv, ReadyOnce, Readies,
     Threads
<1> QED BY <1>1, <1>2, <1>3, <1>4, <1>5, <1>6, <1>7, <1>8, Zenon

(* Every step preserves the invariant, if callers of sleep take turns.     *)
LEMMA NextInvariant == Serialised /\ Inv /\ [Next]_vars => Inv'
<1> SUFFICES ASSUME Serialised, Inv, [Next]_vars PROVE Inv'
  BY Zenon
<1>1. CASE UNCHANGED vars
  <2>0. /\ cond' = cond /\ notepending' = notepending /\ rp' = rp /\ pr' = pr /\ state' = state
        /\ rlk' = rlk /\ plk' = plk /\ pc' = pc /\ arg' = arg /\ tgt' = tgt
    BY <1>1, Zenon DEF vars
  <2>1. TypeOK'
    <3>1. TypeOK
      BY Zenon DEF Inv
    <3> QED BY <2>0, <3>1, Zenon DEF TypeOK
  <2>2. PlaceInv'
    <3>1. PlaceInv
      BY Zenon DEF Inv
    <3> QED BY <2>0, <3>1, Zenon DEF PlaceInv
  <2>3. ArgInv'
    <3>1. ArgInv
      BY Zenon DEF Inv
    <3> QED BY <2>0, <3>1, Zenon DEF ArgInv
  <2>4. LockInv'
    <3>1. LockInv
      BY Zenon DEF Inv
    <3> QED BY <2>0, <3>1, ZenonT(30) DEF LockInv, HoldsR, HoldsP
  <2>5. StateInv'
    <3>1. StateInv
      BY Zenon DEF Inv
    <3> QED BY <2>0, <3>1, Zenon DEF StateInv, HoldsR, HoldsP
  <2>6. TestInv'
    <3>1. TestInv
      BY Zenon DEF Inv
    <3> QED BY <2>0, <3>1, Zenon DEF TestInv
  <2>7. RendezInv'
    <3>1. RendezInv
      BY Zenon DEF Inv
    <3> QED BY <2>0, <3>1, Zenon DEF RendezInv, HoldsR, HoldsP
  <2>8. TargetInv'
    <3>1. TargetInv
      BY Zenon DEF Inv
    <3> QED BY <2>0, <3>1, Zenon DEF TargetInv
  <2>9. NoLostWakeup'
    <3>1. NoLostWakeup
      BY Zenon DEF Inv
    <3> QED BY <2>0, <3>1, SMTT(30) DEF NoLostWakeup, WakerFor, PosterFor
  <2>10. ReadyOnce'
    <3>1. ReadyOnce
      BY Zenon DEF Inv
    <3> QED BY <2>0, <3>1, SMTT(30) DEF ReadyOnce, Readies
  <2> QED BY <2>1, <2>2, <2>3, <2>4, <2>5, <2>6, <2>7, <2>8, <2>9, <2>10, Zenon DEF Inv
<1>2. ASSUME NEW p \in Procs, SleepStep(p) PROVE Inv'
  BY <1>2, SleepLockRStep, SleepLockPStep, SleepTestFStep, SleepTestNoteStep,
     SleepUnlockRStep, ResumeStep, SleepDoneStep, Zenon DEF SleepStep
<1>3. ASSUME NEW w \in Wakers, WakeStep(w) PROVE Inv'
  BY <1>3, WakeLockRStep, WakeClearStep, WakeUnlockRStep, ReadyStep, Zenon DEF WakeStep
<1>4. ASSUME NEW n \in Posters, NoteStep(n) PROVE Inv'
  BY <1>4, NoteLockPStep, NoteCanlockStep, ReadyStep, Zenon DEF NoteStep
<1> QED BY <1>1, <1>2, <1>3, <1>4, SleepCallStep, WakeCallStep, NoteCallStep, Zenon DEF Next

(* The invariant holds throughout.                                         *)
LEMMA InvHolds == Serialised /\ Spec => []Inv
<1>1. ASSUME Serialised PROVE Spec => []Inv
  <2>1. Inv /\ [Next]_vars => Inv'
    BY <1>1, NextInvariant, Zenon
  <2> QED BY <2>1, InitInv, PTL DEF Spec
<1> QED BY <1>1, Zenon

(* The type invariant of sleep, wakeup and postnote.                       *)
THEOREM TypeCorrect == Serialised /\ Spec => []TypeOK
BY InvHolds, PTL DEF Inv

(* The consistency checks of wakeup and postnote never panic.              *)
THEOREM NoPanicHolds == Serialised /\ Spec => []NoPanic
<1>1. Inv => NoPanic
  BY Zenon DEF Inv, PlaceInv, NoPanic
<1> QED BY <1>1, InvHolds, PTL

(* r->p and p->r agree whenever the lock of the Rendez is free.            *)
THEOREM SynchronisedHolds == Serialised /\ Spec => []Synchronised
<1>1. Inv => Synchronised
  <2> SUFFICES ASSUME Inv, NEW r \in Rendezes, rlk[r] = None
               PROVE  /\ \A p \in Procs : rp[r] = p <=> pr[p] = r
                      /\ rp[r] # None => pc[rp[r]] = "off" /\ state[rp[r]] = "Wakeme"
    BY Zenon DEF Synchronised
  <2> USE ThreadsAssumption
  <2>1. \A p \in Procs : ~ HoldsR(p, r)
    BY Zenon DEF Inv, LockInv, Threads
  <2>2. \A p \in Procs : rp[r] = p => pr[p] = r
    BY <2>1, SMTT(30) DEF Inv, RendezInv, HoldsR
  <2>3. \A p \in Procs : pr[p] = r => rp[r] = p
    BY DEF Inv, StateInv
  <2>4. ASSUME rp[r] # None PROVE pc[rp[r]] = "off" /\ state[rp[r]] = "Wakeme"
    <3>1. rp[r] \in Procs /\ pr[rp[r]] = r /\ r # None
      BY <2>2, <2>4, Zenon DEF Inv, TypeOK
    <3> QED BY <2>1, <3>1 DEF Inv, StateInv, HoldsR
  <2> QED BY <2>2, <2>3, <2>4, Zenon
<1> QED BY <1>1, InvHolds, PTL

(* No wakeup is lost between the tests of sleep and its commitment.        *)
THEOREM NoLostWakeupHolds == Serialised /\ Spec => []NoLostWakeup
BY InvHolds, PTL DEF Inv

(* wakeup and postnote make a sleeper ready exactly once.                  *)
THEOREM ReadyOnceHolds == Serialised /\ Spec => []ReadyOnce
BY InvHolds, PTL DEF Inv
-----------------------------------------------------------------------------
(* Tsleep, whose processes, Rendezes and None are those of SleepWakeup.    *)
CONSTANT Machs

VARIABLES timers, tt, trend, event, on, fire

(* The sleep with a time limit (tsleep, twakeup), over the same processes. *)
T == INSTANCE Tsleep

(* The inductive invariant of Tsleep.                                      *)
InvT == T!TypeOK /\ T!TimerListed

(* There is one processor.                                                 *)
OneMach == \A m, n \in Machs : m = n

(* On one processor no process runs while timerintr does, so that twakeup  *)
(* is done with a timer before its process goes on: a process that is      *)
(* going to sleep, or asleep, has its timer to come, or has been passed by *)
(* before it slept, or is about to be woken.                               *)
SleeperInv(p) ==
    /\ tt[p] # None => pc[p] \in {"sleep", "asleep", "awake", "timerdel"}
    /\ pc[p] \in {"timeradd", "sleep", "asleep"} => on[p] # None
    /\ pc[p] = "timeradd" => trend[p] = on[p]
    /\ pc[p] \in {"sleep", "asleep"} =>
           \/ tt[p] # None /\ trend[p] = on[p]
           \/ trend[p] = None /\ pc[p] = "sleep"
           \/ \E m \in Machs : T!WillWake(m, p, on[p])

(* More of it when there is one processor.                                 *)
OneInv ==
    /\ T!TimerQuiet
    /\ \A p \in Procs : SleeperInv(p)
    /\ \A m \in Machs : fire[m] # None =>
           tt[fire[m].p] = None /\ (fire[m].at = "wakeup" => trend[fire[m].p] = None)
-----------------------------------------------------------------------------
(* No timer is set at first.                                               *)
LEMMA InitInvT ==
    ASSUME T!TsleepAssumption
    PROVE  T!Init => InvT
BY DEF T!TsleepAssumption, T!Init, InvT, T!TypeOK, T!TimerListed

(* tdel leaves a timer on no list, and the others where they were.         *)
LEMMA TdelListed ==
    ASSUME T!TsleepAssumption, InvT, NEW p \in Procs, T!Tdel(p)
    PROVE  /\ timers' \in [Machs -> SUBSET Procs]
           /\ tt' \in [Procs -> Machs \cup {None}]
           /\ tt'[p] = None
           /\ \A q \in Procs \ {p} : tt'[q] = tt[q]
           /\ \A q \in Procs, m \in Machs : q \in timers'[m] <=> tt'[q] = m
BY DEF T!TsleepAssumption, InvT, T!TypeOK, T!TimerListed, T!Tdel

(* Every step of a process keeps timers where t->tt says.                  *)
LEMMA ProcInvariant ==
    ASSUME T!TsleepAssumption, InvT, NEW p \in Procs, T!ProcStep(p) \/ T!Calls(p)
    PROVE  InvT'
<1> USE DEF T!TsleepAssumption, InvT, T!Goto
<1>1. ASSUME NEW r \in Rendezes, T!Tsleep(p, r) PROVE InvT'
  <2>1. /\ timers' \in [Machs -> SUBSET Procs]
        /\ tt' \in [Procs -> Machs \cup {None}]
        /\ tt'[p] = None
        /\ \A q \in Procs \ {p} : tt'[q] = tt[q]
        /\ \A q \in Procs, m \in Machs : q \in timers'[m] <=> tt'[q] = m
    <3>1. CASE tt[p] = None
      BY <1>1, <3>1 DEF T!Tsleep, T!TypeOK, T!TimerListed
    <3>2. CASE tt[p] # None
      BY <1>1, <3>2, TdelListed, Zenon DEF T!Tsleep
    <3> QED BY <3>1, <3>2, Zenon
  <2>2. T!TypeOK'
    <3>1. /\ trend' = [trend EXCEPT ![p] = r] /\ on' = [on EXCEPT ![p] = r]
          /\ event' = [event EXCEPT ![p] = 0] /\ pc' = [pc EXCEPT ![p] = "timeradd"]
          /\ fire' = fire
      BY <1>1, Zenon DEF T!Tsleep
    <3> QED BY <2>1, <3>1 DEF T!TypeOK
  <2>3. T!TimerListed'
    BY <1>1, <2>1 DEF T!Tsleep, T!TypeOK, T!TimerListed
  <2> QED BY <2>2, <2>3, Zenon
<1>2. ASSUME NEW m \in Machs, T!Timeradd(p, m) PROVE InvT'
  BY <1>2 DEF T!Timeradd, T!TypeOK, T!TimerListed
<1>3. CASE T!Sleep(p) \/ T!Event(p) \/ T!Interrupt(p) \/ T!Awake(p)
  <2>1. T!TypeOK'
    BY <1>3 DEF T!Sleep, T!Event, T!Interrupt, T!Awake, T!TypeOK
  <2>2. T!TimerListed'
    BY <1>3 DEF T!Sleep, T!Event, T!Interrupt, T!Awake, T!TypeOK, T!TimerListed
  <2> QED BY <2>1, <2>2, Zenon
<1>4. CASE T!Timerdel(p)
  <2>1. T!TypeOK'
    BY <1>4, TdelListed, Zenon DEF T!Timerdel, T!TypeOK
  <2>2. T!TimerListed'
    BY <1>4, TdelListed DEF T!Timerdel, T!TypeOK, T!TimerListed
  <2> QED BY <2>1, <2>2, Zenon
<1> QED BY <1>1, <1>2, <1>3, <1>4, Zenon DEF T!ProcStep, T!Calls

(* So does every step of timerintr and twakeup.                            *)
LEMMA MachInvariant ==
    ASSUME T!TsleepAssumption, InvT, NEW m \in Machs, T!MachStep(m)
    PROVE  InvT'
<1> USE DEF T!TsleepAssumption, InvT, T!Goto
<1>1. ASSUME NEW p \in Procs, T!Timerintr(m, p) PROVE InvT'
  <2>1. T!TypeOK'
    BY <1>1, Zenon DEF T!Timerintr, T!TypeOK, T!Firing
  <2>2. T!TimerListed'
    BY <1>1 DEF T!Timerintr, T!TypeOK, T!TimerListed
  <2> QED BY <2>1, <2>2, Zenon
<1>2. ASSUME fire[m] # None
      PROVE  /\ fire[m] \in T!Firing
             /\ fire[m].p \in Procs
             /\ trend[fire[m].p] \in Rendezes \cup {None}
  BY <1>2, Zenon DEF T!TypeOK, T!Firing
<1>3. CASE T!TwakeupRead(m)
  <2>1. fire' \in [Machs -> T!Firing \cup {None}]
    BY <1>2, <1>3, Zenon DEF T!TwakeupRead, T!TypeOK, T!Firing
  <2> QED BY <1>3, <2>1, Zenon DEF T!TwakeupRead, T!TypeOK, T!TimerListed
<1>4. CASE T!TwakeupClear(m)
  <2>1. fire' \in [Machs -> T!Firing \cup {None}]
    BY <1>2, <1>4, Zenon DEF T!TwakeupClear, T!TypeOK, T!Firing
  <2> QED BY <1>2, <1>4, <2>1, Zenon DEF T!TwakeupClear, T!TypeOK, T!TimerListed
<1>5. CASE T!Twakeup(m)
  <2>1. T!TypeOK'
    BY <1>2, <1>5, Zenon DEF T!Twakeup, T!TypeOK
  <2>2. T!TimerListed'
    BY <1>2, <1>5 DEF T!Twakeup, T!TypeOK, T!TimerListed
  <2> QED BY <2>1, <2>2, Zenon
<1> QED BY <1>1, <1>3, <1>4, <1>5, Zenon DEF T!MachStep

(* The invariant holds throughout.                                         *)
LEMMA InvHoldsT ==
    ASSUME T!TsleepAssumption
    PROVE  T!Spec => []InvT
<1>1. InvT /\ [T!Next]_T!vars => InvT'
  <2>1. InvT /\ UNCHANGED T!vars => InvT'
    BY DEF InvT, T!TypeOK, T!TimerListed, T!vars
  <2> QED BY <2>1, ProcInvariant, MachInvariant, Zenon DEF T!Next
<1> QED BY <1>1, InitInvT, PTL DEF T!Spec

(* The type invariant of tsleep and its timers.                            *)
THEOREM TsleepTypeCorrect ==
    ASSUME T!TsleepAssumption
    PROVE  T!Spec => []T!TypeOK
BY InvHoldsT, PTL DEF InvT

(* t->tt is right on any number of processors, although timerintr takes    *)
(* timers off its list without locking them: tadd's assertion holds, and   *)
(* timerdel finds the timer.                                               *)
THEOREM TsleepTimerListedHolds ==
    ASSUME T!TsleepAssumption
    PROVE  T!Spec => []T!TimerListed
BY InvHoldsT, PTL DEF InvT
-----------------------------------------------------------------------------
(* At first nobody sleeps and no timer goes off.                           *)
LEMMA InitOne ==
    ASSUME T!TsleepAssumption
    PROVE  T!Init => OneInv
BY Zenon DEF T!TsleepAssumption, T!Init, OneInv, SleeperInv, T!TimerQuiet, T!WillWake

(* A process runs: the processor is not in timerintr.                      *)
LEMMA ProcOne ==
    ASSUME T!TsleepAssumption, OneMach, InvT, OneInv, NEW p \in Procs, T!ProcStep(p) \/ T!Calls(p)
    PROVE  OneInv'
<1> USE DEF T!Goto
<1>1. fire' = fire /\ \A m \in Machs : fire[m] = None
  <2>1. \E m \in Machs : fire[m] = None
    BY Zenon DEF T!ProcStep, T!Calls, T!Running
  <2>2. fire' = fire
    BY Zenon DEF T!ProcStep, T!Calls, T!Timeradd, T!Sleep, T!Awake, T!Timerdel, T!Event, T!Interrupt, T!Tsleep
  <2> QED BY <2>1, <2>2, Zenon DEF OneMach
<1>2. \A m \in Machs : \A q, r : ~ T!WillWake(m, q, r) /\ ~ T!WillWake(m, q, r)'
  BY <1>1, Zenon DEF T!WillWake
<1>3. \A q \in Procs \ {p} : /\ tt'[q] = tt[q] /\ trend'[q] = trend[q]
                             /\ pc'[q] = pc[q] /\ on'[q] = on[q]
  BY TdelListed DEF T!ProcStep, T!Calls, T!Timeradd, T!Sleep, T!Awake, T!Timerdel, T!Event, T!Interrupt, T!Tsleep,
     InvT, T!TypeOK
<1>4. \A q \in Procs \ {p} : SleeperInv(q)'
  BY <1>2, <1>3 DEF OneInv, SleeperInv
<1>5. SleeperInv(p)
  BY Zenon DEF OneInv
<1>6. SleeperInv(p)'
  <2>1. ASSUME NEW r \in Rendezes, T!Tsleep(p, r) PROVE SleeperInv(p)'
    <3>1. pc'[p] = "timeradd" /\ on'[p] = r /\ trend'[p] = r /\ r # None
      BY <2>1, Zenon DEF T!TsleepAssumption, T!Tsleep, InvT, T!TypeOK
    <3>2. tt'[p] = None
      BY <2>1, TdelListed, Zenon DEF T!Tsleep
    <3> QED BY <3>1, <3>2, Zenon DEF SleeperInv
  <2>2. ASSUME NEW m \in Machs, T!Timeradd(p, m) PROVE SleeperInv(p)'
    <3>1. pc'[p] = "sleep" /\ on'[p] = on[p] /\ trend'[p] = trend[p] /\ tt'[p] = m /\ m # None
      BY <2>2, Zenon DEF T!TsleepAssumption, T!Timeradd, InvT, T!TypeOK
    <3>2. pc[p] = "timeradd"
      BY <2>2, Zenon DEF T!Timeradd
    <3> QED BY <1>5, <3>1, <3>2, Zenon DEF SleeperInv
  <2>3. CASE T!Sleep(p)
    <3>1. /\ pc[p] = "sleep" /\ tt'[p] = tt[p] /\ on'[p] = on[p] /\ trend'[p] = trend[p]
          /\ pc'[p] \in {"asleep", "awake"} /\ (pc'[p] = "asleep" => trend[p] # None)
      BY <2>3, Zenon DEF T!Sleep, InvT, T!TypeOK
    <3> QED BY <1>2, <1>5, <3>1, Zenon DEF SleeperInv
  <2>4. CASE T!Event(p) \/ T!Interrupt(p)
    <3>1. /\ tt'[p] = tt[p] /\ on'[p] = on[p] /\ trend'[p] = trend[p]
          /\ \/ pc'[p] = pc[p]
             \/ pc'[p] \in {"awake", "timerdel"}
      BY <2>4, Zenon DEF T!Event, T!Interrupt, InvT, T!TypeOK
    <3> QED BY <1>2, <1>5, <3>1, Zenon DEF SleeperInv
  <2>5. CASE T!Awake(p)
    <3>1. tt'[p] = tt[p] /\ pc'[p] \in {"run", "timerdel"} /\ (pc'[p] = "run" => tt[p] = None)
      BY <2>5, Zenon DEF T!Awake, InvT, T!TypeOK
    <3> QED BY <3>1, Zenon DEF SleeperInv
  <2>6. CASE T!Timerdel(p)
    <3>1. tt'[p] = None /\ pc'[p] = "run"
      BY <2>6, TdelListed DEF T!Timerdel, InvT, T!TypeOK
    <3> QED BY <3>1, Zenon DEF SleeperInv
  <2> QED BY <2>1, <2>2, <2>3, <2>4, <2>5, <2>6, Zenon DEF T!ProcStep, T!Calls
<1>7. T!TimerQuiet'
  BY <1>1, Zenon DEF T!TimerQuiet
<1>8. \A m \in Machs : fire'[m] = None
  BY <1>1, Zenon
<1> QED BY <1>4, <1>6, <1>7, <1>8, Zenon DEF OneInv

(* timerintr and twakeup run, on the only processor.                       *)
LEMMA MachOne ==
    ASSUME T!TsleepAssumption, OneMach, InvT, OneInv, NEW m \in Machs, T!MachStep(m)
    PROVE  OneInv'
<1> USE DEF T!Goto
<1>1. ASSUME NEW p \in Procs, T!Timerintr(m, p) PROVE OneInv'
  <2> DEFINE f == [p |-> p, at |-> "read", r |-> None]
  <2>1. fire[m] = None /\ tt[p] = m /\ m # None
    BY <1>1, Zenon DEF T!TsleepAssumption, T!Timerintr, InvT, T!TimerListed
  <2>2. /\ fire'[m] = f /\ tt'[p] = None /\ \A q \in Procs \ {p} : tt'[q] = tt[q]
        /\ UNCHANGED <<trend, pc, on>>
    BY <1>1, Zenon DEF T!Timerintr, InvT, T!TypeOK
  <2>3. f \in T!Firing /\ f # None
    BY DEF T!TsleepAssumption, T!Firing
  <2>4. \A r : trend[p] = r => T!WillWake(m, p, r)'
    BY <2>2, <2>3 DEF T!WillWake
  <2>5. pc[p] \in {"sleep", "asleep", "awake", "timerdel"} /\ SleeperInv(p)
    BY <2>1, Zenon DEF OneInv, SleeperInv
  <2>6. \A n \in Machs : \A q, r : ~ T!WillWake(n, q, r)
    BY <2>1, Zenon DEF OneMach, T!WillWake
  <2>7. \A q \in Procs \ {p} : SleeperInv(q)'
    BY <2>2, <2>6, Zenon DEF OneInv, SleeperInv
  <2>8. SleeperInv(p)'
    <3>1. pc[p] \in {"sleep", "asleep"} /\ trend[p] = on[p] => T!WillWake(m, p, on[p])'
      BY <2>2, <2>4, Zenon
    <3> QED BY <2>2, <2>5, <2>6, <3>1, Zenon DEF SleeperInv
  <2>9. T!TimerQuiet'
    BY <2>2, <2>5 DEF OneMach, T!TimerQuiet
  <2>10. f.p = p /\ f.at # "wakeup"
    BY Zenon
  <2> HIDE DEF f
  <2>11. tt'[fire'[m].p] = None /\ fire'[m].at # "wakeup"
    BY <2>2, <2>10, Zenon
  <2>12. \A n \in Machs : tt'[fire'[n].p] = None /\ fire'[n].at # "wakeup"
    BY <2>11, Zenon DEF OneMach
  <2>13. \A q \in Procs : SleeperInv(q)'
    BY <2>7, <2>8, Zenon
  <2> QED BY <2>9, <2>12, <2>13, Zenon DEF OneInv
<1>2. ASSUME fire[m] # None
      PROVE  fire[m] \in T!Firing /\ fire[m].p \in Procs
  BY <1>2, Zenon DEF InvT, T!TypeOK, T!Firing
<1>3. CASE T!TwakeupRead(m)
  <2>1. /\ fire[m] # None /\ fire[m].at = "read" /\ fire[m] \in T!Firing /\ fire[m].p \in Procs
        /\ UNCHANGED <<tt, trend, pc, on>>
    BY <1>2, <1>3, Zenon DEF T!TwakeupRead
  <2>2. /\ fire'[m] \in T!Firing /\ fire'[m].p = fire[m].p /\ fire'[m].at = "clear"
        /\ fire'[m].r = trend[fire[m].p]
    BY <1>3, <2>1, Zenon DEF T!TwakeupRead, InvT, T!TypeOK, T!Firing
  <2>3. fire'[m] # None
    BY <2>2, Zenon DEF T!TsleepAssumption
  <2>4. \A n \in Machs : \A q, r : T!WillWake(n, q, r) => T!WillWake(n, q, r)'
    BY <2>1, <2>2, <2>3, Zenon DEF OneMach, T!WillWake
  <2>5. \A q \in Procs : SleeperInv(q)'
    BY <2>1, <2>4, Zenon DEF OneInv, SleeperInv
  <2>6. T!TimerQuiet'
    BY <2>1, <2>2 DEF OneInv, OneMach, T!TimerQuiet
  <2> QED BY <2>1, <2>2, <2>5, <2>6, Zenon DEF OneInv, OneMach
<1>4. CASE T!TwakeupClear(m)
  <2>1. /\ fire[m] # None /\ fire[m].at = "clear" /\ fire[m] \in T!Firing /\ fire[m].p \in Procs
        /\ UNCHANGED <<tt, pc, on>>
    BY <1>2, <1>4, Zenon DEF T!TwakeupClear
  <2>2. /\ fire'[m] \in T!Firing /\ fire'[m].p = fire[m].p /\ fire'[m].at = "wakeup"
        /\ fire'[m].r = fire[m].r
    BY <1>4, <2>1, Zenon DEF T!TwakeupClear, InvT, T!TypeOK, T!Firing
  <2>3. fire'[m] # None
    BY <2>2, Zenon DEF T!TsleepAssumption
  <2>4. \A n \in Machs : \A q, r : T!WillWake(n, q, r) => T!WillWake(n, q, r)'
    BY <2>1, <2>2, <2>3, Zenon DEF OneMach, T!WillWake
  <2>5. trend'[fire[m].p] = None /\ \A q \in Procs : q # fire[m].p => trend'[q] = trend[q]
    BY <1>4, <2>1, Zenon DEF T!TwakeupClear, InvT, T!TypeOK
  <2>6. ASSUME NEW q \in Procs PROVE SleeperInv(q)'
    <3>1. SleeperInv(q)
      BY Zenon DEF OneInv
    <3>2. CASE q # fire[m].p
      BY <2>1, <2>4, <2>5, <3>1, <3>2, Zenon DEF SleeperInv
    <3>3. CASE q = fire[m].p
      <4>1. tt[q] = None /\ pc[q] # "timeradd"
        BY <2>1, <3>3, Zenon DEF OneInv, T!TimerQuiet
      <4> QED BY <2>1, <2>4, <2>5, <3>1, <3>3, <4>1, Zenon DEF SleeperInv
    <3> QED BY <3>2, <3>3, Zenon
  <2>7. T!TimerQuiet'
    BY <2>1, <2>2 DEF OneInv, OneMach, T!TimerQuiet
  <2> QED BY <2>1, <2>2, <2>5, <2>6, <2>7, Zenon DEF OneInv, OneMach
<1>5. CASE T!Twakeup(m)
  <2>1. /\ fire[m] # None /\ fire[m].at = "wakeup" /\ fire[m] \in T!Firing /\ fire[m].p \in Procs
        /\ UNCHANGED <<tt, trend, on>>
    BY <1>2, <1>5, Zenon DEF T!Twakeup
  <2>2. trend[fire[m].p] = None
    BY <2>1, Zenon DEF OneInv
  <2>3. \A n \in Machs : fire'[n] = None
    BY <1>5, Zenon DEF T!Twakeup, InvT, T!TypeOK, OneMach
  <2>4. ASSUME NEW q \in Procs PROVE SleeperInv(q)'
    <3>1. SleeperInv(q)
      BY Zenon DEF OneInv
    <3>2. CASE q # fire[m].p
      <4>1. pc'[q] = pc[q] /\ \A n \in Machs : \A r : ~ T!WillWake(n, q, r)
        BY <1>5, <2>1, <3>2, Zenon DEF T!Twakeup, InvT, T!TypeOK, OneMach, T!WillWake
      <4> QED BY <2>1, <3>1, <4>1, Zenon DEF SleeperInv
    <3>3. CASE q = fire[m].p
      <4>1. /\ pc'[q] = IF pc[q] = "asleep" /\ on[q] = fire[m].r THEN "awake" ELSE pc[q]
            /\ \A n \in Machs : T!WillWake(n, q, on[q]) => on[q] = fire[m].r
        BY <1>5, <2>1, <3>3, Zenon DEF T!Twakeup, InvT, T!TypeOK, OneMach, T!WillWake
      <4>2. pc[q] # "timeradd"
        BY <2>1, <3>3, Zenon DEF OneInv, T!TimerQuiet
      <4>3. /\ pc'[q] \notin {"timeradd", "asleep"} /\ pc'[q] \in {pc[q], "awake"}
            /\ trend'[q] = None /\ tt'[q] = tt[q] /\ on'[q] = on[q]
        BY <2>1, <2>2, <3>1, <3>3, <4>1, <4>2, Zenon DEF SleeperInv
      <4> QED BY <3>1, <4>3, Zenon DEF SleeperInv
    <3> QED BY <3>2, <3>3, Zenon
  <2> QED BY <2>3, <2>4, Zenon DEF OneInv, T!TimerQuiet
<1> QED BY <1>1, <1>3, <1>4, <1>5, Zenon DEF T!MachStep

(* On one processor, the invariant holds throughout.                       *)
LEMMA OneHolds ==
    ASSUME T!TsleepAssumption, OneMach
    PROVE  T!Spec => []OneInv
<1>1. InvT /\ OneInv /\ [T!Next]_T!vars => OneInv'
  <2>1. ASSUME OneInv, UNCHANGED T!vars PROVE OneInv'
    <3>1. tt' = tt /\ trend' = trend /\ pc' = pc /\ on' = on /\ fire' = fire
      BY <2>1, Zenon DEF T!vars
    <3>2. \A p \in Procs : SleeperInv(p) <=> SleeperInv(p)'
      BY <3>1, Zenon DEF SleeperInv, T!WillWake
    <3>3. T!TimerQuiet'
      BY <2>1, <3>1, Zenon DEF OneInv, T!TimerQuiet
    <3> QED BY <2>1, <3>1, <3>2, <3>3, Zenon DEF OneInv
  <2> QED BY <2>1, ProcOne, MachOne, Zenon DEF T!Next
<1> QED BY <1>1, InitOne, InvHoldsT, PTL DEF T!Spec

(* On one processor a process asleep in tsleep has its timeout to come:    *)
(* its timer is on a list and will find p->trend, or twakeup is about to   *)
(* wake it.  With two processors this fails: tsleep_lost is the run.       *)
THEOREM TsleepTimeoutToComeHolds ==
    ASSUME T!TsleepAssumption, OneMach
    PROVE  T!Spec => []T!TimeoutToCome
<1>1. OneInv => T!TimeoutToCome
  BY Zenon DEF T!TsleepAssumption, OneInv, SleeperInv, T!TimeoutToCome
<1>2. T!Spec => []OneInv
  BY OneHolds, Zenon
<1> QED BY <1>1, <1>2, PTL

(* "We have tt, so the tdel will wait until we're done": on one processor  *)
(* timerintr is done with the timer of a process that has returned from    *)
(* tsleep or is setting its timer again.                                   *)
THEOREM TsleepTimerQuietHolds ==
    ASSUME T!TsleepAssumption, OneMach
    PROVE  T!Spec => []T!TimerQuiet
<1>1. OneInv => T!TimerQuiet
  BY Zenon DEF OneInv
<1>2. T!Spec => []OneInv
  BY OneHolds, Zenon
<1> QED BY <1>1, <1>2, PTL
=============================================================================
