--------------------------- MODULE SemaphoreProofs ---------------------------
(***************************************************************************)
(* Proofs about Semaphore for every set of processes and of semaphores and *)
(* every bound on their values.                                            *)
(***************************************************************************)
EXTENDS Semaphore, TLAPS

(* Where a call is while its Sema is on the list.                          *)
Inside == {"setwaiting", "tryagain", "sleep", "asleep", "awake", "semdequeue"}

(* The Sema of p is on the list.                                           *)
Listed(p) == \E i \in DOMAIN list : list[i] = p

(* The list has the Semas of the calls that wait, each once.               *)
ListInv ==
    /\ \A i, j \in DOMAIN list : list[i] = list[j] => i = j
    /\ \A p \in Procs : Listed(p) <=> pc[p] \in Inside

(* Who walks the list has its lock and is at a place in it.                *)
LockInv ==
    \A p \in Procs :
        /\ pc[p] \in {"walk", "wakeup"} <=> lk = p
        /\ pc[p] = "walk" => at[p] >= 1
        /\ pc[p] = "wakeup" => at[p] \in DOMAIN list /\ n[p] > 0

(* A sleeper that does not wait any more is about to be woken.             *)
SleepInv ==
    \A q \in Procs : pc[q] = "asleep" /\ waiting[q] = 0 =>
        \E p \in Procs : pc[p] = "wakeup" /\ list[at[p]] = q

(* The inductive invariant.                                                *)
SInv == TypeOK /\ ListInv /\ LockInv /\ SleepInv
-----------------------------------------------------------------------------
(* A sequence without its element i.                                       *)
LEMMA UnlinkedFacts ==
    ASSUME NEW S, NEW s \in Seq(S), NEW i \in 1 .. Len(s)
    PROVE  LET t == SubSeq(s, 1, i - 1) \o SubSeq(s, i + 1, Len(s))
           IN  /\ t \in Seq(S)
               /\ Len(t) = Len(s) - 1
               /\ \A j \in 1 .. Len(s) - 1 : t[j] = IF j < i THEN s[j] ELSE s[j + 1]
<1> DEFINE a == SubSeq(s, 1, i - 1)
           b == SubSeq(s, i + 1, Len(s))
<1>1. Len(s) \in Nat
  OBVIOUS
<1>2. a \in Seq(S) /\ Len(a) = i - 1 /\ \A j \in 1 .. i - 1 : a[j] = s[j]
  BY <1>1
<1>3. b \in Seq(S) /\ Len(b) = Len(s) - i /\ \A j \in 1 .. Len(s) - i : b[j] = s[i + j]
  <2>1. CASE i = Len(s)
    BY <1>1, <2>1
  <2>2. CASE i < Len(s)
    BY <1>1, <2>2
  <2> QED BY <1>1, <2>1, <2>2
<1> HIDE DEF a, b
<1>5. /\ a \o b \in Seq(S)
      /\ Len(a \o b) = Len(s) - 1
      /\ \A j \in 1 .. Len(s) - 1 : (a \o b)[j] = IF j < i THEN a[j] ELSE b[j - (i - 1)]
  <2>1. /\ a \o b \in Seq(S) /\ Len(a \o b) = Len(a) + Len(b)
        /\ \A j \in 1 .. Len(a) + Len(b) :
               (a \o b)[j] = IF j <= Len(a) THEN a[j] ELSE b[j - Len(a)]
    <3>0. a \in Seq(S) /\ b \in Seq(S)
      BY <1>2, <1>3, Zenon
    <3>1. a \o b \in Seq(S)
      BY <3>0
    <3>3. Len(a \o b) = Len(a) + Len(b)
      BY <3>0
    <3>2. \A j \in 1 .. Len(a) + Len(b) :
              (a \o b)[j] = IF j <= Len(a) THEN a[j] ELSE b[j - Len(a)]
      BY <3>0
    <3> QED BY <3>1, <3>2, <3>3, Zenon
  <2>2. Len(a) + Len(b) = Len(s) - 1 /\ Len(a) = i - 1
    BY <1>1, <1>2, <1>3
  <2>3. \A j \in 1 .. Len(s) - 1 : j <= i - 1 <=> j < i
    BY <1>1
  <2> QED BY <2>1, <2>2, <2>3, Zenon
<1>6. ASSUME NEW j \in 1 .. Len(s) - 1
      PROVE  (a \o b)[j] = IF j < i THEN s[j] ELSE s[j + 1]
  <2>1. CASE j < i
    BY <1>1, <1>2, <1>5, <2>1
  <2>2. CASE ~(j < i)
    <3>1. j - (i - 1) \in 1 .. Len(s) - i /\ i + (j - (i - 1)) = j + 1
      BY <1>1, <2>2
    <3> QED BY <1>3, <1>5, <2>2, <3>1, Zenon
  <2> QED BY <2>1, <2>2, Zenon
<1> QED BY <1>5, <1>6, Zenon DEF a, b

(* semdequeue takes p's Sema off the list and leaves the others.           *)
LEMMA ListUnlinked ==
    ASSUME list \in Seq(Procs), \A i, j \in DOMAIN list : list[i] = list[j] => i = j,
           NEW p, Unlink(p)
    PROVE  /\ list' \in Seq(Procs)
           /\ \A i, j \in DOMAIN list' : list'[i] = list'[j] => i = j
           /\ \A q : Listed(q)' <=> Listed(q) /\ q # p
<1>0. PICK i \in DOMAIN list :
          list[i] = p /\ list' = SubSeq(list, 1, i - 1) \o SubSeq(list, i + 1, Len(list))
  BY Zenon DEF Unlink
<1>1. DOMAIN list = 1 .. Len(list) /\ Len(list) \in Nat
  OBVIOUS
<1>2. /\ list' \in Seq(Procs) /\ Len(list') = Len(list) - 1
      /\ \A j \in 1 .. Len(list) - 1 : list'[j] = IF j < i THEN list[j] ELSE list[j + 1]
  <2>1. i \in 1 .. Len(list)
    BY <1>1, Zenon
  <2>2. LET t == SubSeq(list, 1, i - 1) \o SubSeq(list, i + 1, Len(list))
        IN  /\ t \in Seq(Procs) /\ Len(t) = Len(list) - 1
            /\ \A j \in 1 .. Len(list) - 1 : t[j] = IF j < i THEN list[j] ELSE list[j + 1]
    BY <2>1, UnlinkedFacts, Zenon
  <2> QED BY <1>0, <2>2, Zenon
<1>3. DOMAIN list' = 1 .. Len(list) - 1
  BY <1>2
<1>4. ASSUME NEW j \in DOMAIN list', NEW k \in DOMAIN list', list'[j] = list'[k]
      PROVE  j = k
  <2>1. PICK jj \in DOMAIN list : list'[j] = list[jj] /\ jj = IF j < i THEN j ELSE j + 1
    BY <1>1, <1>2, <1>3
  <2>2. PICK kk \in DOMAIN list : list'[k] = list[kk] /\ kk = IF k < i THEN k ELSE k + 1
    BY <1>1, <1>2, <1>3
  <2>3. jj = kk
    BY <1>4, <2>1, <2>2, Zenon
  <2> QED BY <1>1, <1>3, <2>1, <2>2, <2>3
<1>5. ASSUME NEW q PROVE Listed(q)' <=> Listed(q) /\ q # p
  <2>1. ASSUME Listed(q)' PROVE Listed(q) /\ q # p
    <3>1. PICK j \in DOMAIN list' : list'[j] = q
      BY <2>1, Zenon DEF Listed
    <3>2. PICK jj \in DOMAIN list : list'[j] = list[jj] /\ jj # i
      BY <1>1, <1>2, <1>3, SMTT(30)
    <3> QED BY <1>0, <3>1, <3>2, Zenon DEF Listed
  <2>2. ASSUME Listed(q), q # p PROVE Listed(q)'
    <3>1. PICK j \in DOMAIN list : list[j] = q /\ j # i
      BY <1>0, <2>2, Zenon DEF Listed
    <3>2. PICK jj \in DOMAIN list' : list'[jj] = list[j]
      <4>1. CASE j < i
        BY <1>1, <1>2, <1>3, <4>1
      <4>2. CASE j > i
        <5>1. j - 1 \in 1 .. Len(list) - 1 /\ (j - 1) + 1 = j /\ ~ (j - 1 < i)
          BY <1>1, <4>2
        <5> QED BY <1>2, <1>3, <5>1, Zenon
      <4> QED BY <1>1, <3>1, <4>1, <4>2
    <3> QED BY <3>1, <3>2, Zenon DEF Listed
  <2> QED BY <2>1, <2>2, Zenon
<1> QED BY <1>2, <1>4, <1>5, Zenon

(* semqueue puts p's Sema at the end of the list.                          *)
LEMMA ListAppended ==
    ASSUME list \in Seq(Procs), \A i, j \in DOMAIN list : list[i] = list[j] => i = j,
           NEW p \in Procs, ~ Listed(p), list' = Append(list, p)
    PROVE  /\ list' \in Seq(Procs)
           /\ \A i, j \in DOMAIN list' : list'[i] = list'[j] => i = j
           /\ \A q : Listed(q)' <=> Listed(q) \/ q = p
           /\ DOMAIN list \subseteq DOMAIN list' /\ \A i \in DOMAIN list : list'[i] = list[i]
<1>1. DOMAIN list = 1 .. Len(list) /\ Len(list) \in Nat
  OBVIOUS
<1>2. /\ list' \in Seq(Procs) /\ DOMAIN list' = 1 .. Len(list) + 1
      /\ \A i \in 1 .. Len(list) : list'[i] = list[i]
      /\ list'[Len(list) + 1] = p
  BY <1>1
<1>3. \A i, j \in DOMAIN list' : list'[i] = list'[j] => i = j
  BY <1>1, <1>2 DEF Listed
<1>4. ASSUME NEW q PROVE Listed(q)' <=> Listed(q) \/ q = p
  BY <1>1, <1>2 DEF Listed
<1> QED BY <1>1, <1>2, <1>3, <1>4
-----------------------------------------------------------------------------
(* Each step keeps the types.                                              *)
LEMMA TypeStep ==
    ASSUME SInv, NEW p \in Procs, Calls(p) \/ Step(p) \/ Interrupt(p) \/ Twakeup(p)
    PROVE  TypeOK'
<1> DEFINE Labels == Inside \cup {"user", "canacquire", "semqueue", "passon", "semwakeup", "walk",
                                  "wakeup", "ret"}
           Ops == {"sem", "try", "tsem", "release"}
           Times == {"positive", "zero", "negative"}
<1>0. TypeOK
  BY Zenon DEF SInv
<1>v. value \in [Addrs -> 0 .. MaxValue] /\ list \in Seq(Procs) /\ lk \in Procs \cup {NoProc}
  BY <1>0, Zenon DEF TypeOK
<1>waiting. waiting \in [Procs -> 0 .. 1]
  BY <1>0, Zenon DEF TypeOK
<1>pc. pc \in [Procs -> Labels]
  BY <1>0, Zenon DEF TypeOK, Inside
<1>addr. addr \in [Procs -> Addrs]
  BY <1>0, Zenon DEF TypeOK
<1>op. op \in [Procs -> Ops]
  BY <1>0, Zenon DEF TypeOK
<1>ms. ms \in [Procs -> Times]
  BY <1>0, Zenon DEF TypeOK
<1>acquired. acquired \in [Procs -> 0 .. 1]
  BY <1>0, Zenon DEF TypeOK
<1>n. n \in [Procs -> 0 .. MaxValue]
  BY <1>0, Zenon DEF TypeOK
<1>at. at \in [Procs -> Nat]
  BY <1>0, Zenon DEF TypeOK
<1>ret. ret \in [Procs -> -1 .. 1]
  BY <1>0, Zenon DEF TypeOK
<1> USE SemAssumption DEF Goto
<1>1. CASE CallAcquire(p)
  <2>1. PICK a \in Addrs, o \in Ops, t \in Times :
            /\ addr' = [addr EXCEPT ![p] = a] /\ op' = [op EXCEPT ![p] = o]
            /\ ms' = ms \/ ms' = [ms EXCEPT ![p] = t]
    <3>1. \E a \in Addrs : addr' = [addr EXCEPT ![p] = a]
      BY <1>1, Zenon DEF CallAcquire
    <3>2. \E o \in Ops : op' = [op EXCEPT ![p] = o]
      BY <1>1, Zenon DEF CallAcquire
    <3>3. \E t \in Times : ms' = ms \/ ms' = [ms EXCEPT ![p] = t]
      BY <1>1, Zenon DEF CallAcquire
    <3> QED BY <3>1, <3>2, <3>3, Zenon
  <2>2. pc' = [pc EXCEPT ![p] = "canacquire"] /\ UNCHANGED <<value, list, lk, waiting, acquired, n, at, ret>>
    BY <1>1, Zenon DEF CallAcquire
  <2>3. ms' \in [Procs -> Times] /\ addr' \in [Procs -> Addrs] /\ op' \in [Procs -> Ops]
    BY <1>ms, <1>addr, <1>op, <2>1, Zenon
  <2> QED BY <1>0, <2>2, <2>3, Zenon DEF TypeOK, Inside
<1>2. CASE Semrelease(p)
  <2>1. value' \in [Addrs -> 0 .. MaxValue]
    BY <1>v, <1>addr, <1>2 DEF Semrelease
  <2>2. pc' \in [Procs -> Labels]
    BY <1>pc, <1>2, Zenon DEF Semrelease, Inside
  <2>3. addr' \in [Procs -> Addrs]
    BY <1>addr, <1>2, Zenon DEF Semrelease
  <2>4. op' \in [Procs -> Ops]
    BY <1>op, <1>2, Zenon DEF Semrelease
  <2>5. n' \in [Procs -> 0 .. MaxValue]
    BY <1>n, <1>2 DEF Semrelease
  <2>6. UNCHANGED <<list, lk, waiting, ms, acquired, at, ret>>
    BY <1>2, Zenon DEF Semrelease
  <2> QED BY <1>0, <2>1, <2>2, <2>3, <2>4, <2>5, <2>6, Zenon DEF TypeOK, Inside
<1>3. CASE Canacquire(p)
  <2>1. PICK l \in Labels, r \in -1 .. 1 : pc' = [pc EXCEPT ![p] = l] /\ (ret' = ret \/ ret' = [ret EXCEPT ![p] = r])
    BY <1>3 DEF Canacquire
  <2>2. acquired' = acquired \/ acquired' = [acquired EXCEPT ![p] = 1]
    BY <1>3, Zenon DEF Canacquire
  <2>3. \/ value' = value
        \/ value[addr[p]] > 0 /\ value' = [value EXCEPT ![addr[p]] = value[addr[p]] - 1]
    BY <1>3, Zenon DEF Canacquire, Takes
  <2>4. UNCHANGED <<list, lk, waiting, addr, op, ms, n, at>>
    BY <1>3, Zenon DEF Canacquire
  <2>5. pc' \in [Procs -> Labels]
    BY <1>pc, <2>1, Zenon DEF Inside
  <2>6. ret' \in [Procs -> -1 .. 1]
    BY <1>ret, <2>1, Zenon
  <2>7. acquired' \in [Procs -> 0 .. 1]
    BY <1>acquired, <2>2
  <2>8. value' \in [Addrs -> 0 .. MaxValue]
    <3>1. addr[p] \in Addrs /\ value[addr[p]] \in 0 .. MaxValue
      BY <1>v, <1>addr, Zenon
    <3>2. value[addr[p]] > 0 => value[addr[p]] - 1 \in 0 .. MaxValue
      BY <1>v, <3>1
    <3> QED BY <1>v, <2>3, <3>1, <3>2, Zenon
  <2> QED BY <1>0, <2>4, <2>5, <2>6, <2>7, <2>8, Zenon DEF TypeOK, Inside
<1>4. CASE Semqueue(p)
  <2>1. list' \in Seq(Procs)
    BY <1>v, <1>4 DEF Semqueue
  <2>2. waiting' \in [Procs -> 0 .. 1]
    BY <1>waiting, <1>4 DEF Semqueue
  <2>3. pc' \in [Procs -> Labels]
    BY <1>pc, <1>4, Zenon DEF Semqueue, Inside
  <2>4. UNCHANGED <<value, lk, addr, op, ms, acquired, n, at, ret>>
    BY <1>4, Zenon DEF Semqueue
  <2> QED BY <1>0, <2>1, <2>2, <2>3, <2>4, Zenon DEF TypeOK, Inside
<1>5. CASE SetWaiting(p)
  <2>1. waiting' \in [Procs -> 0 .. 1]
    BY <1>waiting, <1>5 DEF SetWaiting
  <2>2. pc' \in [Procs -> Labels]
    BY <1>pc, <1>5, Zenon DEF SetWaiting, Inside
  <2>3. UNCHANGED <<value, list, lk, addr, op, ms, acquired, n, at, ret>>
    BY <1>5, Zenon DEF SetWaiting
  <2> QED BY <1>0, <2>1, <2>2, <2>3, Zenon DEF TypeOK, Inside
<1>6. CASE TryAgain(p)
  <2>1. PICK l \in Labels : pc' = [pc EXCEPT ![p] = l]
    BY <1>6, Zenon DEF TryAgain, Inside
  <2>2. acquired' = acquired \/ acquired' = [acquired EXCEPT ![p] = 1]
    BY <1>6, Zenon DEF TryAgain
  <2>3. \/ value' = value
        \/ value[addr[p]] > 0 /\ value' = [value EXCEPT ![addr[p]] = value[addr[p]] - 1]
    BY <1>6, Zenon DEF TryAgain, Takes
  <2>4. UNCHANGED <<list, lk, waiting, addr, op, ms, n, at, ret>>
    BY <1>6, Zenon DEF TryAgain
  <2>5. pc' \in [Procs -> Labels]
    BY <1>pc, <2>1, Zenon DEF Inside
  <2>6. acquired' \in [Procs -> 0 .. 1]
    BY <1>acquired, <2>2
  <2>7. value' \in [Addrs -> 0 .. MaxValue]
    <3>1. addr[p] \in Addrs /\ value[addr[p]] \in 0 .. MaxValue
      BY <1>v, <1>addr, Zenon
    <3>2. value[addr[p]] > 0 => value[addr[p]] - 1 \in 0 .. MaxValue
      BY <1>v, <3>1
    <3> QED BY <1>v, <2>3, <3>1, <3>2, Zenon
  <2> QED BY <1>0, <2>4, <2>5, <2>6, <2>7, Zenon DEF TypeOK, Inside
<1>7. CASE Sleep(p)
  <2>1. pc' \in [Procs -> Labels]
    BY <1>pc, <1>7, Zenon DEF Sleep, Inside
  <2>2. UNCHANGED <<value, list, lk, waiting, addr, op, ms, acquired, n, at, ret>>
    BY <1>7, Zenon DEF Sleep
  <2> QED BY <1>0, <2>1, <2>2, Zenon DEF TypeOK, Inside
<1>8. CASE Awake(p)
  <2>1. PICK l \in Labels : pc' = [pc EXCEPT ![p] = l]
    BY <1>8, Zenon DEF Awake, Inside
  <2>2. ms' = ms \/ ms' = [ms EXCEPT ![p] = "zero"]
    BY <1>8, Zenon DEF Awake
  <2>3. UNCHANGED <<value, list, lk, waiting, addr, op, acquired, n, at, ret>>
    BY <1>8, Zenon DEF Awake
  <2>4. pc' \in [Procs -> Labels] /\ ms' \in [Procs -> Times]
    BY <1>pc, <1>ms, <2>1, <2>2, Zenon DEF Inside
  <2> QED BY <1>0, <2>3, <2>4, Zenon DEF TypeOK, Inside
<1>9. CASE Semdequeue(p)
  <2>1. list' \in Seq(Procs)
    BY <1>v, <1>9, ListUnlinked, Zenon DEF Semdequeue, SInv, ListInv
  <2>2. pc' \in [Procs -> Labels]
    BY <1>pc, <1>9, Zenon DEF Semdequeue, Inside
  <2>3. UNCHANGED <<value, lk, waiting, addr, op, ms, acquired, n, at, ret>>
    BY <1>9, Zenon DEF Semdequeue
  <2> QED BY <1>0, <2>1, <2>2, <2>3, Zenon DEF TypeOK, Inside
<1>10. CASE PassOn(p)
  <2>1. Result(p) \in -1 .. 1
    BY DEF Result
  <2>2. PICK l \in Labels : pc' = [pc EXCEPT ![p] = l]
    BY <1>10, Zenon DEF PassOn
  <2>3. n' = n \/ n' = [n EXCEPT ![p] = 1]
    BY <1>10, Zenon DEF PassOn
  <2>4. ret' = [ret EXCEPT ![p] = Result(p)] /\ UNCHANGED <<value, list, lk, waiting, addr, op, ms, acquired, at>>
    BY <1>10, Zenon DEF PassOn
  <2>5. pc' \in [Procs -> Labels] /\ n' \in [Procs -> 0 .. MaxValue]
    BY <1>pc, <1>n, <2>2, <2>3 DEF Inside
  <2>6. ret' \in [Procs -> -1 .. 1]
    BY <1>ret, <2>1, <2>4, Zenon
  <2> QED BY <1>0, <2>4, <2>5, <2>6, Zenon DEF TypeOK, Inside
<1>11. CASE Semwakeup(p)
  <2>1. lk' \in Procs \cup {NoProc}
    BY <1>v, <1>11, Zenon DEF Semwakeup
  <2>2. pc' \in [Procs -> Labels]
    BY <1>pc, <1>11, Zenon DEF Semwakeup, Inside
  <2>3. at' \in [Procs -> Nat]
    BY <1>at, <1>11, Zenon DEF Semwakeup
  <2>4. UNCHANGED <<value, list, waiting, addr, op, ms, acquired, n, ret>>
    BY <1>11, Zenon DEF Semwakeup
  <2> QED BY <1>0, <2>1, <2>2, <2>3, <2>4, Zenon DEF TypeOK, Inside
<1>12. CASE Walk(p)
  <2>1. PICK l \in Labels : pc' = pc \/ pc' = [pc EXCEPT ![p] = l]
    BY <1>12, Zenon DEF Walk
  <2>2. n' = n \/ n' = [n EXCEPT ![p] = 0]
    BY <1>12, Zenon DEF Walk
  <2>3. at' = at \/ at' = [at EXCEPT ![p] = 0] \/ at' = [at EXCEPT ![p] = at[p] + 1]
    BY <1>12, Zenon DEF Walk
  <2>4. PICK q : waiting' = waiting \/ waiting' = [waiting EXCEPT ![q] = 0]
    BY <1>12, Zenon DEF Walk
  <2>5. (lk' = lk \/ lk' = NoProc) /\ UNCHANGED <<value, list, addr, op, ms, acquired, ret>>
    BY <1>12, Zenon DEF Walk
  <2>6. pc' \in [Procs -> Labels]
    BY <1>pc, <2>1, Zenon DEF Inside
  <2>7. n' \in [Procs -> 0 .. MaxValue]
    BY <1>n, <2>2
  <2>8. at' \in [Procs -> Nat]
    BY <1>at, <2>3
  <2>9. waiting' \in [Procs -> 0 .. 1]
    BY <1>waiting, <2>4
  <2> QED BY <1>0, <2>5, <2>6, <2>7, <2>8, <2>9, Zenon DEF TypeOK, Inside
<1>13. CASE Wakeup(p)
  <2>1. n[p] > 0
    BY <1>13, Zenon DEF SInv, LockInv, Wakeup
  <2>2. PICK q : pc' = [pc EXCEPT ![p] = "walk", ![q] = IF pc[q] = "asleep" THEN "awake" ELSE @]
    BY <1>13, Zenon DEF Wakeup
  <2>3. pc' \in [Procs -> Labels]
    BY <1>pc, <2>2, Zenon DEF Inside
  <2>4. n' \in [Procs -> 0 .. MaxValue]
    BY <1>n, <1>13, <2>1 DEF Wakeup
  <2>5. at' \in [Procs -> Nat]
    BY <1>at, <1>13 DEF Wakeup
  <2>6. UNCHANGED <<value, list, lk, waiting, addr, op, ms, acquired, ret>>
    BY <1>13, Zenon DEF Wakeup
  <2> QED BY <1>0, <2>3, <2>4, <2>5, <2>6, Zenon DEF TypeOK, Inside
<1>14. CASE Return(p)
  <2>1. (CHOOSE a \in Addrs : TRUE) \in Addrs
    BY Zenon
  <2>2. waiting' \in [Procs -> 0 .. 1]
    BY <1>waiting, <1>14, <2>1 DEF Return
  <2>3. pc' \in [Procs -> Labels]
    BY <1>pc, <1>14, <2>1, Zenon DEF Return, Inside
  <2>4. addr' \in [Procs -> Addrs]
    BY <1>addr, <1>14, <2>1, Zenon DEF Return
  <2>5. op' \in [Procs -> Ops]
    BY <1>op, <1>14, <2>1, Zenon DEF Return
  <2>6. ms' \in [Procs -> Times]
    BY <1>ms, <1>14, <2>1, Zenon DEF Return
  <2>7. acquired' \in [Procs -> 0 .. 1]
    BY <1>acquired, <1>14, <2>1 DEF Return
  <2>8. ret' \in [Procs -> -1 .. 1]
    BY <1>ret, <1>14, <2>1 DEF Return
  <2>9. UNCHANGED <<value, list, lk, n, at>>
    BY <1>14, Zenon DEF Return
  <2> QED BY <1>0, <2>2, <2>3, <2>4, <2>5, <2>6, <2>7, <2>8, <2>9, Zenon DEF TypeOK, Inside
<1>15. CASE Interrupt(p) \/ Twakeup(p)
  <2>1. PICK l \in {"semdequeue", "awake"} : pc' = [pc EXCEPT ![p] = l]
    BY <1>15, Zenon DEF Interrupt, Twakeup
  <2>2. pc' \in [Procs -> Labels]
    BY <1>pc, <2>1, Zenon DEF Inside
  <2>3. UNCHANGED <<value, list, lk, waiting, addr, op, ms, acquired, n, at, ret>>
    BY <1>15, Zenon DEF Interrupt, Twakeup
  <2> QED BY <1>0, <2>2, <2>3, Zenon DEF TypeOK, Inside
<1> QED BY <1>1, <1>2, <1>3, <1>4, <1>5, <1>6, <1>7, <1>8, <1>9, <1>10, <1>11, <1>12, <1>13,
           <1>14, <1>15, Zenon DEF Calls, Step
-----------------------------------------------------------------------------
(* What is known of r has not changed.                                     *)
Same(r) ==
    /\ pc'[r] = pc[r] /\ waiting'[r] = waiting[r] /\ n'[r] = n[r]
    /\ at'[r] = at[r] /\ addr'[r] = addr[r]

(* The steps that change nothing of another process.                       *)
Plain(p) ==
    \/ CallAcquire(p) \/ Semrelease(p) \/ Canacquire(p) \/ SetWaiting(p) \/ TryAgain(p)
    \/ Sleep(p) \/ Awake(p) \/ PassOn(p) \/ Return(p) \/ Interrupt(p) \/ Twakeup(p)

(* semwakeup changes flags and labels of other processes, the other steps  *)
(* only what belongs to their own.                                         *)
LEMMA OthersSame ==
    ASSUME TypeOK, NEW p \in Procs, Plain(p) \/ Semqueue(p) \/ Semdequeue(p) \/ Semwakeup(p),
           NEW r \in Procs, r # p
    PROVE  Same(r)
<1>0. /\ DOMAIN pc = Procs /\ DOMAIN waiting = Procs /\ DOMAIN n = Procs
      /\ DOMAIN at = Procs /\ DOMAIN addr = Procs
  BY Zenon DEF TypeOK
<1> USE DEF Goto, Same
<1>1. CASE CallAcquire(p)
  BY <1>0, <1>1, Zenon DEF CallAcquire
<1>2. CASE Semrelease(p)
  BY <1>0, <1>2, Zenon DEF Semrelease
<1>3. CASE Canacquire(p)
  BY <1>0, <1>3, Zenon DEF Canacquire
<1>4. CASE Semqueue(p)
  BY <1>0, <1>4, Zenon DEF Semqueue
<1>5. CASE SetWaiting(p)
  BY <1>0, <1>5, Zenon DEF SetWaiting
<1>6. CASE TryAgain(p)
  BY <1>0, <1>6, Zenon DEF TryAgain
<1>7. CASE Sleep(p)
  BY <1>0, <1>7, Zenon DEF Sleep
<1>8. CASE Awake(p)
  BY <1>0, <1>8, Zenon DEF Awake
<1>9. CASE Semdequeue(p)
  BY <1>0, <1>9, Zenon DEF Semdequeue
<1>10. CASE PassOn(p)
  BY <1>0, <1>10, Zenon DEF PassOn
<1>11. CASE Semwakeup(p)
  BY <1>0, <1>11, Zenon DEF Semwakeup
<1>12. CASE Return(p)
  BY <1>0, <1>12, Zenon DEF Return
<1>13. CASE Interrupt(p) \/ Twakeup(p)
  BY <1>0, <1>13, Zenon DEF Interrupt, Twakeup
<1> QED BY <1>1, <1>2, <1>3, <1>4, <1>5, <1>6, <1>7, <1>8, <1>9, <1>10, <1>11, <1>12, <1>13, Zenon
           DEF Plain

(* A plain step is on one side of the list's lock and of the list, and     *)
(* does not put a process to sleep that is not waiting.                    *)
LEMMA PlainFacts ==
    ASSUME TypeOK, NEW p \in Procs, Plain(p)
    PROVE  /\ list' = list /\ lk' = lk /\ at' = at
           /\ pc[p] \notin {"walk", "wakeup"} /\ pc'[p] \notin {"walk", "wakeup"}
           /\ pc[p] \in Inside <=> pc'[p] \in Inside
           /\ pc'[p] = "asleep" => waiting'[p] # 0
<1>0. DOMAIN pc = Procs
  BY Zenon DEF TypeOK
<1> USE DEF Goto, Inside
<1>1. CASE CallAcquire(p)
  BY <1>0, <1>1, Zenon DEF CallAcquire
<1>2. CASE Semrelease(p)
  BY <1>0, <1>2, Zenon DEF Semrelease
<1>3. CASE Canacquire(p)
  BY <1>0, <1>3, Zenon DEF Canacquire
<1>5. CASE SetWaiting(p)
  BY <1>0, <1>5, Zenon DEF SetWaiting
<1>6. CASE TryAgain(p)
  BY <1>0, <1>6, Zenon DEF TryAgain
<1>7. CASE Sleep(p)
  BY <1>0, <1>7, Zenon DEF Sleep
<1>8. CASE Awake(p)
  BY <1>0, <1>8, Zenon DEF Awake
<1>10. CASE PassOn(p)
  BY <1>0, <1>10, Zenon DEF PassOn
<1>12. CASE Return(p)
  BY <1>0, <1>12, Zenon DEF Return
<1>13. CASE Interrupt(p) \/ Twakeup(p)
  BY <1>0, <1>13, Zenon DEF Interrupt, Twakeup
<1> QED BY <1>1, <1>2, <1>3, <1>5, <1>6, <1>7, <1>8, <1>10, <1>12, <1>13, Zenon DEF Plain

(* A plain step keeps the invariants of the list and its lock.             *)
LEMMA PlainStep ==
    ASSUME SInv, NEW p \in Procs, Plain(p)
    PROVE  ListInv' /\ LockInv' /\ SleepInv'
<1>0. TypeOK /\ ListInv /\ LockInv /\ SleepInv
  BY Zenon DEF SInv
<1>1. \A r \in Procs : r # p => Same(r)
  BY <1>0, OthersSame, Zenon
<1>2. /\ list' = list /\ lk' = lk /\ at' = at
      /\ pc[p] \notin {"walk", "wakeup"} /\ pc'[p] \notin {"walk", "wakeup"}
      /\ pc[p] \in Inside <=> pc'[p] \in Inside
      /\ pc'[p] = "asleep" => waiting'[p] # 0
  BY <1>0, PlainFacts, Zenon
<1>3. ListInv'
  BY <1>0, <1>1, <1>2, Zenon DEF ListInv, Listed, Same
<1>4. LockInv'
  BY <1>0, <1>1, <1>2, Zenon DEF LockInv, Same
<1>5. SleepInv'
  <2> SUFFICES ASSUME NEW q \in Procs, pc'[q] = "asleep", waiting'[q] = 0
               PROVE  \E r \in Procs : pc'[r] = "wakeup" /\ list'[at'[r]] = q
    BY Zenon DEF SleepInv
  <2>1. q # p /\ pc[q] = "asleep" /\ waiting[q] = 0
    BY <1>1, <1>2, Zenon DEF Same
  <2>2. PICK r \in Procs : pc[r] = "wakeup" /\ list[at[r]] = q
    BY <1>0, <2>1, Zenon DEF SleepInv
  <2>3. pc'[r] = "wakeup"
    BY <1>1, <1>2, <2>2, Zenon DEF Same
  <2> QED BY <1>2, <2>2, <2>3, Zenon
<1> QED BY <1>3, <1>4, <1>5, Zenon

(* So does semqueue: nobody walks the list, which gets a new end.          *)
LEMMA SemqueueStep ==
    ASSUME SInv, NEW p \in Procs, Semqueue(p)
    PROVE  ListInv' /\ LockInv' /\ SleepInv'
<1>0. TypeOK /\ ListInv /\ LockInv /\ SleepInv
  BY Zenon DEF SInv
<1>1. \A r \in Procs : r # p => Same(r)
  BY <1>0, OthersSame, Zenon
<1>2. pc[p] = "semqueue" /\ pc'[p] = "setwaiting" /\ lk = NoProc /\ lk' = lk /\ list' = Append(list, p)
  BY <1>0, Zenon DEF Semqueue, Goto, TypeOK
<1>3. ~ Listed(p)
  BY <1>0, <1>2, Zenon DEF ListInv, Inside
<1>4. /\ \A i, j \in DOMAIN list' : list'[i] = list'[j] => i = j
      /\ \A q : Listed(q)' <=> Listed(q) \/ q = p
  BY <1>0, <1>2, <1>3, ListAppended, Zenon DEF ListInv, TypeOK
<1>5. \A q \in Procs : pc[q] \notin {"walk", "wakeup"} /\ pc'[q] \notin {"walk", "wakeup"}
  BY <1>0, <1>1, <1>2, SemAssumption, Zenon DEF LockInv, Same
<1>6. ListInv'
  <2>1. ASSUME NEW q \in Procs PROVE Listed(q)' <=> pc'[q] \in Inside
    <3>1. CASE q = p
      BY <1>2, <1>4, <3>1, Zenon DEF Inside
    <3>2. CASE q # p
      BY <1>0, <1>1, <1>4, <3>2, Zenon DEF ListInv, Same
    <3> QED BY <3>1, <3>2, Zenon
  <2> QED BY <1>4, <2>1, Zenon DEF ListInv
<1>7. LockInv'
  BY <1>2, <1>5, SemAssumption, Zenon DEF LockInv
<1>8. SleepInv'
  BY <1>0, <1>1, <1>2, <1>5 DEF SleepInv, Same
<1> QED BY <1>6, <1>7, <1>8, Zenon

(* And semdequeue, under the same lock.                                    *)
LEMMA SemdequeueStep ==
    ASSUME SInv, NEW p \in Procs, Semdequeue(p)
    PROVE  ListInv' /\ LockInv' /\ SleepInv'
<1>0. TypeOK /\ ListInv /\ LockInv /\ SleepInv
  BY Zenon DEF SInv
<1>1. \A r \in Procs : r # p => Same(r)
  BY <1>0, OthersSame, Zenon
<1>2. pc[p] = "semdequeue" /\ pc'[p] = "passon" /\ lk = NoProc /\ lk' = lk /\ Unlink(p)
  BY <1>0, Zenon DEF Semdequeue, Goto, TypeOK
<1>4. /\ \A i, j \in DOMAIN list' : list'[i] = list'[j] => i = j
      /\ \A q : Listed(q)' <=> Listed(q) /\ q # p
  BY <1>0, <1>2, ListUnlinked, Zenon DEF ListInv, TypeOK
<1>5. \A q \in Procs : pc[q] \notin {"walk", "wakeup"} /\ pc'[q] \notin {"walk", "wakeup"}
  BY <1>0, <1>1, <1>2, SemAssumption, Zenon DEF LockInv, Same
<1>6. ListInv'
  <2>1. ASSUME NEW q \in Procs PROVE Listed(q)' <=> pc'[q] \in Inside
    <3>1. CASE q = p
      BY <1>2, <1>4, <3>1, Zenon DEF Inside
    <3>2. CASE q # p
      BY <1>0, <1>1, <1>4, <3>2, Zenon DEF ListInv, Same
    <3> QED BY <3>1, <3>2, Zenon
  <2> QED BY <1>4, <2>1, Zenon DEF ListInv
<1>7. LockInv'
  BY <1>2, <1>5, SemAssumption, Zenon DEF LockInv
<1>8. SleepInv'
  BY <1>0, <1>1, <1>2, <1>5 DEF SleepInv, Same
<1> QED BY <1>6, <1>7, <1>8, Zenon

(* semwakeup takes the lock.                                               *)
LEMMA SemwakeupStep ==
    ASSUME SInv, NEW p \in Procs, Semwakeup(p)
    PROVE  ListInv' /\ LockInv' /\ SleepInv'
<1>0. TypeOK /\ ListInv /\ LockInv /\ SleepInv
  BY Zenon DEF SInv
<1>1. \A r \in Procs : r # p => Same(r)
  BY <1>0, OthersSame, Zenon
<1>2. /\ pc[p] = "semwakeup" /\ pc'[p] = "walk" /\ lk = NoProc /\ lk' = p /\ list' = list
      /\ at'[p] = 1
  BY <1>0, Zenon DEF Semwakeup, Goto, TypeOK
<1>5. \A q \in Procs : pc[q] \notin {"walk", "wakeup"} /\ (q # p => pc'[q] \notin {"walk", "wakeup"})
  BY <1>0, <1>1, <1>2, SemAssumption, Zenon DEF LockInv, Same
<1>6. ListInv'
  <2>1. ASSUME NEW q \in Procs PROVE Listed(q)' <=> pc'[q] \in Inside
    <3>0. Listed(q)' <=> Listed(q)
      BY <1>2, Zenon DEF Listed
    <3>1. CASE q = p
      BY <1>0, <1>2, <3>0, <3>1, Zenon DEF ListInv, Inside
    <3>2. CASE q # p
      BY <1>0, <1>1, <3>0, <3>2, Zenon DEF ListInv, Same
    <3> QED BY <3>1, <3>2, Zenon
  <2> QED BY <1>0, <1>2, <2>1, Zenon DEF ListInv
<1>7. LockInv'
  BY <1>2, <1>5 DEF LockInv
<1>8. SleepInv'
  BY <1>0, <1>1, <1>2, <1>5, Zenon DEF SleepInv, Same
<1> QED BY <1>6, <1>7, <1>8, Zenon

(* What a step of semwakeup's walk does.                                   *)
WalkEnd(p) ==
    /\ at[p] > Len(list) \/ n[p] = 0
    /\ lk' = NoProc /\ pc'[p] = "ret" /\ waiting' = waiting

(* It clears the waiting flag of a Sema and goes on to its wakeup.         *)
WalkClear(p) ==
    /\ at[p] \in DOMAIN list /\ n[p] > 0
    /\ addr[list[at[p]]] = addr[p] /\ waiting[list[at[p]]] = 1
    /\ waiting'[list[at[p]]] = 0
    /\ \A r \in Procs : r # list[at[p]] => waiting'[r] = waiting[r]
    /\ pc'[p] = "wakeup" /\ at'[p] = at[p] /\ n'[p] = n[p] /\ lk' = lk

(* It passes a Sema that is of another semaphore or does not wait.         *)
WalkOver(p) ==
    /\ at[p] \in DOMAIN list
    /\ addr[list[at[p]]] # addr[p] \/ waiting[list[at[p]]] # 1
    /\ pc'[p] = "walk" /\ at'[p] = at[p] + 1 /\ n'[p] = n[p] /\ lk' = lk /\ waiting' = waiting

(* The three ways on of semwakeup, pointwise.                              *)
LEMMA WalkFacts ==
    ASSUME TypeOK, LockInv, NEW p \in Procs, Walk(p)
    PROVE  /\ pc[p] = "walk" /\ list' = list /\ addr' = addr /\ value' = value
           /\ \A r \in Procs : r # p => pc'[r] = pc[r] /\ at'[r] = at[r] /\ n'[r] = n[r]
           /\ WalkEnd(p) \/ WalkClear(p) \/ WalkOver(p)
<1>0. /\ DOMAIN pc = Procs /\ waiting \in [Procs -> 0 .. 1] /\ at \in [Procs -> Nat]
      /\ n \in [Procs -> 0 .. MaxValue] /\ list \in Seq(Procs)
  BY Zenon DEF TypeOK
<1>1. pc[p] = "walk" /\ list' = list /\ addr' = addr /\ value' = value
  BY Zenon DEF Walk
<1>2. \A r \in Procs : r # p => pc'[r] = pc[r] /\ at'[r] = at[r] /\ n'[r] = n[r]
  BY <1>0, Zenon DEF Walk, Goto
<1>3. at[p] >= 1
  BY <1>1, Zenon DEF LockInv
<1>4. WalkEnd(p) \/ WalkClear(p) \/ WalkOver(p)
  <2>1. CASE at[p] > Len(list) \/ n[p] = 0
    BY <1>0, <2>1, Zenon DEF Walk, Goto, WalkEnd
  <2>2. CASE ~(at[p] > Len(list) \/ n[p] = 0)
    <3>1. at[p] \in DOMAIN list /\ n[p] > 0 /\ list[at[p]] \in Procs
      BY <1>0, <1>3, <2>2, SemAssumption
    <3>2. CASE addr[list[at[p]]] = addr[p] /\ waiting[list[at[p]]] = 1
      <4>1. /\ waiting' = [waiting EXCEPT ![list[at[p]]] = 0]
            /\ pc' = [pc EXCEPT ![p] = "wakeup"] /\ lk' = lk /\ at' = at /\ n' = n
        BY <2>2, <3>2, Zenon DEF Walk, Goto
      <4> QED BY <1>0, <3>1, <3>2, <4>1, Zenon DEF WalkClear
    <3>3. CASE ~(addr[list[at[p]]] = addr[p] /\ waiting[list[at[p]]] = 1)
      <4>1. at' = [at EXCEPT ![p] = at[p] + 1] /\ lk' = lk /\ waiting' = waiting /\ pc' = pc /\ n' = n
        BY <2>2, <3>3, Zenon DEF Walk
      <4> QED BY <1>0, <1>1, <3>1, <3>3, <4>1, Zenon DEF WalkOver
    <3> QED BY <3>2, <3>3, Zenon
  <2> QED BY <2>1, <2>2, Zenon
<1> QED BY <1>1, <1>2, <1>4, Zenon

(* The walk keeps the invariants: the flag it clears is that of the        *)
(* element it wakes next.                                                  *)
LEMMA WalkStep ==
    ASSUME SInv, NEW p \in Procs, Walk(p)
    PROVE  ListInv' /\ LockInv' /\ SleepInv'
<1>0. TypeOK /\ ListInv /\ LockInv /\ SleepInv
  BY Zenon DEF SInv
<1>1. /\ pc[p] = "walk" /\ list' = list
      /\ \A r \in Procs : r # p => pc'[r] = pc[r] /\ at'[r] = at[r] /\ n'[r] = n[r]
      /\ WalkEnd(p) \/ WalkClear(p) \/ WalkOver(p)
  BY <1>0, WalkFacts, Zenon
<1>2. lk = p /\ \A q \in Procs : q # p => pc[q] \notin {"walk", "wakeup"}
  BY <1>0, <1>1 DEF LockInv
<1>3. pc'[p] \in {"ret", "wakeup", "walk"} /\ lk' \in {lk, NoProc}
  BY <1>1, Zenon DEF WalkEnd, WalkClear, WalkOver
<1>4. ListInv'
  <2>1. ASSUME NEW q \in Procs PROVE Listed(q)' <=> pc'[q] \in Inside
    <3>0. Listed(q)' <=> Listed(q)
      BY <1>1, Zenon DEF Listed
    <3>1. CASE q = p
      BY <1>0, <1>1, <1>3, <3>0, <3>1, Zenon DEF ListInv, Inside
    <3>2. CASE q # p
      BY <1>0, <1>1, <3>0, <3>2, Zenon DEF ListInv
    <3> QED BY <3>1, <3>2, Zenon
  <2> QED BY <1>0, <1>1, <2>1, Zenon DEF ListInv
<1>5. LockInv'
  <2>1. CASE WalkEnd(p)
    BY <1>1, <1>2, <2>1, SemAssumption DEF LockInv, WalkEnd
  <2>2. CASE WalkClear(p)
    BY <1>1, <1>2, <2>2, Zenon DEF LockInv, WalkClear
  <2>3. CASE WalkOver(p)
    <3>1. at[p] >= 1 /\ at[p] \in Nat
      BY <1>0, <1>1, Zenon DEF LockInv, TypeOK
    <3> QED BY <1>1, <1>2, <2>3, <3>1 DEF LockInv, WalkOver
  <2> QED BY <1>1, <2>1, <2>2, <2>3, Zenon
<1>6. SleepInv'
  <2> SUFFICES ASSUME NEW q \in Procs, pc'[q] = "asleep", waiting'[q] = 0
               PROVE  \E r \in Procs : pc'[r] = "wakeup" /\ list'[at'[r]] = q
    BY Zenon DEF SleepInv
  <2>1. q # p /\ pc[q] = "asleep"
    BY <1>1, <1>3, Zenon
  <2>2. waiting[q] # 0
    BY <1>0, <1>1, <1>2, <2>1, Zenon DEF SleepInv
  <2>3. WalkClear(p) /\ q = list[at[p]]
    BY <1>1, <2>2, Zenon DEF WalkEnd, WalkClear, WalkOver
  <2> QED BY <1>1, <2>3, Zenon DEF WalkClear
<1> QED BY <1>4, <1>5, <1>6, Zenon

(* What the wakeup of an element does, pointwise.                          *)
LEMMA WakeupFacts ==
    ASSUME TypeOK, ListInv, LockInv, NEW p \in Procs, Wakeup(p)
    PROVE  /\ pc[p] = "wakeup" /\ pc'[p] = "walk"
           /\ at[p] \in DOMAIN list /\ list[at[p]] \in Procs /\ list[at[p]] # p
           /\ at[p] \in Nat /\ at'[p] = at[p] + 1
           /\ n[p] \in 1 .. MaxValue /\ n'[p] = n[p] - 1
           /\ \A r \in Procs : r # p => at'[r] = at[r] /\ n'[r] = n[r]
           /\ \A r \in Procs : r # p /\ r # list[at[p]] => pc'[r] = pc[r]
           /\ pc'[list[at[p]]] = IF pc[list[at[p]]] = "asleep" THEN "awake" ELSE pc[list[at[p]]]
           /\ list' = list /\ lk' = lk /\ waiting' = waiting /\ addr' = addr /\ value' = value
<1>0. /\ DOMAIN pc = Procs /\ at \in [Procs -> Nat]
      /\ n \in [Procs -> 0 .. MaxValue] /\ list \in Seq(Procs)
  BY Zenon DEF TypeOK
<1>1. pc[p] = "wakeup" /\ list' = list /\ lk' = lk /\ waiting' = waiting /\ addr' = addr /\ value' = value
  BY Zenon DEF Wakeup
<1>2. at[p] \in DOMAIN list /\ n[p] > 0
  BY <1>1, Zenon DEF LockInv
<1>3. list[at[p]] \in Procs /\ list[at[p]] # p
  <2>1. list[at[p]] \in Procs /\ Listed(list[at[p]])
    BY <1>0, <1>2 DEF Listed
  <2> QED BY <1>1, <2>1, Zenon DEF ListInv, Inside
<1>4. /\ at' = [at EXCEPT ![p] = at[p] + 1] /\ n' = [n EXCEPT ![p] = n[p] - 1]
      /\ pc' = [pc EXCEPT ![p] = "walk",
                          ![list[at[p]]] = IF pc[list[at[p]]] = "asleep" THEN "awake" ELSE @]
  BY Zenon DEF Wakeup
<1>5. /\ at'[p] = at[p] + 1 /\ n'[p] = n[p] - 1 /\ at[p] \in Nat /\ n[p] \in 1 .. MaxValue
      /\ \A r \in Procs : r # p => at'[r] = at[r] /\ n'[r] = n[r]
  BY <1>0, <1>2, <1>4, SemAssumption
<1>6. /\ pc'[p] = "walk"
      /\ \A r \in Procs : r # p /\ r # list[at[p]] => pc'[r] = pc[r]
      /\ pc'[list[at[p]]] = IF pc[list[at[p]]] = "asleep" THEN "awake" ELSE pc[list[at[p]]]
  BY <1>0, <1>3, <1>4, Zenon
<1> QED BY <1>1, <1>2, <1>3, <1>5, <1>6, Zenon

(* The wakeup keeps the invariants.                                        *)
LEMMA WakeupStep ==
    ASSUME SInv, NEW p \in Procs, Wakeup(p)
    PROVE  ListInv' /\ LockInv' /\ SleepInv'
<1>0. TypeOK /\ ListInv /\ LockInv /\ SleepInv
  BY Zenon DEF SInv
<1>1. PICK x \in Procs :
          /\ pc[p] = "wakeup" /\ pc'[p] = "walk" /\ x = list[at[p]] /\ x # p
          /\ at[p] \in Nat /\ at'[p] = at[p] + 1
          /\ \A r \in Procs : r # p /\ r # x => pc'[r] = pc[r]
          /\ pc'[x] = IF pc[x] = "asleep" THEN "awake" ELSE pc[x]
          /\ list' = list /\ lk' = lk /\ waiting' = waiting
  BY <1>0, WakeupFacts
<1>2. lk = p /\ \A q \in Procs : q # p => pc[q] \notin {"walk", "wakeup"}
  BY <1>0, <1>1, Zenon DEF LockInv
<1>3. \A q \in Procs : q # p => pc'[q] \notin {"walk", "wakeup"}
  BY <1>1, <1>2, Zenon
<1>4. ListInv'
  <2>1. ASSUME NEW q \in Procs PROVE Listed(q)' <=> pc'[q] \in Inside
    <3>0. Listed(q)' <=> Listed(q)
      BY <1>1, Zenon DEF Listed
    <3>1. pc'[q] \in Inside <=> pc[q] \in Inside
      BY <1>1, Zenon DEF Inside
    <3> QED BY <1>0, <3>0, <3>1, Zenon DEF ListInv
  <2> QED BY <1>0, <1>1, <2>1, Zenon DEF ListInv
<1>5. LockInv'
  BY <1>1, <1>2, <1>3 DEF LockInv
<1>6. SleepInv'
  <2> SUFFICES ASSUME NEW q \in Procs, pc'[q] = "asleep", waiting'[q] = 0 PROVE FALSE
    BY Zenon DEF SleepInv
  <2>1. q # p /\ q # x /\ pc[q] = "asleep" /\ waiting[q] = 0
    BY <1>1, Zenon
  <2> QED BY <1>0, <1>1, <1>2, <2>1, Zenon DEF SleepInv
<1> QED BY <1>4, <1>5, <1>6, Zenon

(* SInv holds at first.                                                    *)
LEMMA InitSInv == Init => SInv
<1> SUFFICES ASSUME Init PROVE SInv
  BY Zenon
<1>1. TypeOK
  BY SemAssumption DEF Init, TypeOK
<1>2. ListInv /\ LockInv /\ SleepInv
  BY SemAssumption DEF Init, ListInv, Listed, LockInv, SleepInv, Inside
<1> QED BY <1>1, <1>2, Zenon DEF SInv

(* SInv is inductive.                                                      *)
LEMMA NextSInv == SInv /\ [Next]_vars => SInv'
<1> SUFFICES ASSUME SInv, [Next]_vars PROVE SInv'
  BY Zenon
<1>1. CASE UNCHANGED vars
  <2>1. TypeOK /\ ListInv /\ LockInv /\ SleepInv
    BY Zenon DEF SInv
  <2>2. TypeOK'
    BY <1>1, <2>1, Zenon DEF TypeOK, vars
  <2>3. ListInv' /\ LockInv' /\ SleepInv'
    BY <1>1, <2>1, Zenon DEF ListInv, Listed, LockInv, SleepInv, vars
  <2> QED BY <2>2, <2>3, Zenon DEF SInv
<1>2. ASSUME NEW p \in Procs, Calls(p) \/ Step(p) \/ Interrupt(p) \/ Twakeup(p)
      PROVE  SInv'
  <2>1. TypeOK'
    BY <1>2, TypeStep, Zenon
  <2>2. ListInv' /\ LockInv' /\ SleepInv'
    BY <1>2, PlainStep, SemqueueStep, SemdequeueStep, SemwakeupStep, WalkStep, WakeupStep, Zenon
       DEF Calls, Step, Plain
  <2> QED BY <2>1, <2>2, Zenon DEF SInv
<1> QED BY <1>1, <1>2, Zenon DEF Next

(* The invariant holds in every reachable state.                           *)
LEMMA SInvHolds == Spec => []SInv
<1> QED BY InitSInv, NextSInv, PTL DEF Spec

(* The type invariant of the user semaphores.                              *)
THEOREM TypeCorrect == Spec => []TypeOK
<1>1. SInv => TypeOK
  BY Zenon DEF SInv
<1> QED BY <1>1, SInvHolds, PTL

(* semwakeup never touches a Sema whose call has returned.                 *)
THEOREM SemaLiveHolds == Spec => []SemaLive
<1>1. SInv => SemaLive
  <2> SUFFICES ASSUME TypeOK, ListInv, LockInv, NEW p \in Procs, pc[p] = "wakeup"
               PROVE  at[p] \in DOMAIN list /\ pc[list[at[p]]] \in Inside
    BY Zenon DEF SInv, SemaLive, Inside
  <2>1. at[p] \in DOMAIN list
    BY Zenon DEF LockInv
  <2>2. list[at[p]] \in Procs /\ Listed(list[at[p]])
    BY <2>1 DEF TypeOK, Listed
  <2> QED BY <2>1, <2>2, Zenon DEF ListInv
<1> QED BY <1>1, SInvHolds, PTL
-----------------------------------------------------------------------------
(* What semacquire and tsemacquire know of the semaphore and of their time *)
(* at each place.                                                          *)
RetOf(p) ==
    /\ pc[p] \in {"user", "canacquire", "semqueue", "setwaiting", "tryagain", "sleep", "asleep",
                  "awake"} => acquired[p] = 0
    /\ pc[p] = "user" => ms[p] = "positive"
    /\ pc[p] = "canacquire" => ms[p] # "negative"
    /\ pc[p] \in {"canacquire", "semqueue", "passon"} \cup Inside => op[p] # "release"
    /\ pc[p] \in {"semqueue", "setwaiting", "tryagain", "sleep", "asleep", "awake"} =>
           (op[p] = "tsem" => ms[p] = "positive")
    /\ pc[p] \in {"semdequeue", "passon"} => (op[p] = "tsem" => ms[p] = "positive" \/ acquired[p] = 0)
    /\ pc[p] \in {"semwakeup", "walk", "wakeup", "ret"} /\ op[p] # "release" =>
           (ret[p] = 1 <=> acquired[p] = 1)

(* RetOf of every process.                                                 *)
RetInv == \A p \in Procs : RetOf(p)

(* What RetOf speaks of is unchanged, but for a wakeup.                    *)
RetSame(r) ==
    /\ pc'[r] = pc[r] \/ (pc[r] = "asleep" /\ pc'[r] = "awake")
    /\ acquired'[r] = acquired[r] /\ ms'[r] = ms[r] /\ op'[r] = op[r] /\ ret'[r] = ret[r]

(* RetOf of a process that another one's step leaves alone.                *)
LEMMA RetKept ==
    ASSUME NEW r, RetOf(r), RetSame(r)
    PROVE  RetOf(r)'
BY Zenon DEF RetOf, RetSame, Inside

(* A call that is not in semwakeup changes only its own result.            *)
LEMMA RetStep ==
    ASSUME "negative" \notin Timeouts, SInv, RetInv, NEW p \in Procs,
           Calls(p) \/ Step(p) \/ Interrupt(p) \/ Twakeup(p)
    PROVE  RetInv'
<1>0. TypeOK /\ ListInv /\ LockInv
  BY Zenon DEF SInv
<1>t. /\ DOMAIN pc = Procs /\ DOMAIN acquired = Procs /\ DOMAIN ms = Procs /\ DOMAIN op = Procs
      /\ DOMAIN ret = Procs /\ acquired[p] \in 0 .. 1 /\ ms[p] \in {"positive", "zero", "negative"}
  BY <1>0, Zenon DEF TypeOK
<1>r. RetOf(p)
  BY Zenon DEF RetInv
<1>q. ASSUME \A r \in Procs : r # p => RetSame(r), RetOf(p)' PROVE RetInv'
  BY <1>q, RetKept, Zenon DEF RetInv
<1> USE DEF Goto
<1>1. CASE CallAcquire(p)
  <2>1. \A r \in Procs : r # p => RetSame(r)
    BY <1>t, <1>1, Zenon DEF CallAcquire, RetSame
  <2>2. /\ pc[p] = "user" /\ pc'[p] = "canacquire" /\ acquired'[p] = acquired[p]
        /\ op'[p] # "release" /\ (ms'[p] = ms[p] \/ ms'[p] \in Timeouts)
    BY <1>t, <1>1, Zenon DEF CallAcquire
  <2>3. RetOf(p)'
    BY <1>r, <2>2, Zenon DEF RetOf, Inside
  <2> QED BY <1>q, <2>1, <2>3, Zenon
<1>2. CASE Semrelease(p)
  <2>1. \A r \in Procs : r # p => RetSame(r)
    BY <1>t, <1>2, Zenon DEF Semrelease, RetSame
  <2>2. pc'[p] = "semwakeup" /\ op'[p] = "release"
    BY <1>t, <1>2, Zenon DEF Semrelease
  <2>3. RetOf(p)'
    BY <2>2, Zenon DEF RetOf, Inside
  <2> QED BY <1>q, <2>1, <2>3, Zenon
<1>3. CASE Canacquire(p)
  <2>1. \A r \in Procs : r # p => RetSame(r)
    BY <1>t, <1>3, Zenon DEF Canacquire, RetSame
  <2>2. /\ pc[p] = "canacquire" /\ op'[p] = op[p] /\ ms'[p] = ms[p]
        /\ \/ acquired'[p] = 1 /\ ret'[p] = 1 /\ pc'[p] = "ret"
           \/ acquired'[p] = acquired[p] /\ ret'[p] = 0 /\ pc'[p] = "ret"
           \/ /\ acquired'[p] = acquired[p] /\ pc'[p] = "semqueue"
              /\ ~(op[p] = "tsem" /\ ms[p] = "zero")
    BY <1>t, <1>3, Zenon DEF Canacquire
  <2>3. RetOf(p)'
    BY <1>r, <1>t, <2>2, Zenon DEF RetOf, Inside
  <2> QED BY <1>q, <2>1, <2>3, Zenon
<1>4. CASE Semqueue(p)
  <2>1. \A r \in Procs : r # p => RetSame(r)
    BY <1>t, <1>4, Zenon DEF Semqueue, RetSame
  <2>2. /\ pc[p] = "semqueue" /\ pc'[p] = "setwaiting" /\ op'[p] = op[p] /\ ms'[p] = ms[p]
        /\ acquired'[p] = acquired[p]
    BY <1>t, <1>4, Zenon DEF Semqueue
  <2>3. RetOf(p)'
    BY <1>r, <2>2, Zenon DEF RetOf, Inside
  <2> QED BY <1>q, <2>1, <2>3, Zenon
<1>5. CASE SetWaiting(p)
  <2>1. \A r \in Procs : r # p => RetSame(r)
    BY <1>t, <1>5, Zenon DEF SetWaiting, RetSame
  <2>2. /\ pc[p] = "setwaiting" /\ pc'[p] = "tryagain" /\ op'[p] = op[p] /\ ms'[p] = ms[p]
        /\ acquired'[p] = acquired[p]
    BY <1>t, <1>5, Zenon DEF SetWaiting
  <2>3. RetOf(p)'
    BY <1>r, <2>2, Zenon DEF RetOf, Inside
  <2> QED BY <1>q, <2>1, <2>3, Zenon
<1>6. CASE TryAgain(p)
  <2>1. \A r \in Procs : r # p => RetSame(r)
    BY <1>t, <1>6, Zenon DEF TryAgain, RetSame
  <2>2. /\ pc[p] = "tryagain" /\ op'[p] = op[p] /\ ms'[p] = ms[p]
        /\ pc'[p] = "semdequeue" \/ (pc'[p] = "sleep" /\ acquired'[p] = acquired[p])
    BY <1>t, <1>6, Zenon DEF TryAgain
  <2>3. RetOf(p)'
    BY <1>r, <2>2, Zenon DEF RetOf, Inside
  <2> QED BY <1>q, <2>1, <2>3, Zenon
<1>7. CASE Sleep(p) \/ Interrupt(p) \/ Twakeup(p)
  <2>1. \A r \in Procs : r # p => RetSame(r)
    BY <1>t, <1>7, Zenon DEF Sleep, Interrupt, Twakeup, RetSame
  <2>2. /\ pc[p] \in {"sleep", "asleep", "awake"} /\ pc'[p] \in {"asleep", "awake", "semdequeue"}
        /\ op'[p] = op[p] /\ ms'[p] = ms[p] /\ acquired'[p] = acquired[p]
    BY <1>t, <1>7, Zenon DEF Sleep, Interrupt, Twakeup
  <2>3. RetOf(p)'
    BY <1>r, <2>2, Zenon DEF RetOf, Inside
  <2> QED BY <1>q, <2>1, <2>3, Zenon
<1>8. CASE Awake(p)
  <2>1. \A r \in Procs : r # p => RetSame(r)
    BY <1>t, <1>8, Zenon DEF Awake, RetSame
  <2>2. /\ pc[p] = "awake" /\ op'[p] = op[p] /\ acquired'[p] = acquired[p]
        /\ (pc'[p] = "setwaiting" /\ ms'[p] = ms[p]) \/ pc'[p] = "semdequeue"
    BY <1>t, <1>8, Zenon DEF Awake
  <2>3. RetOf(p)'
    BY <1>r, <2>2, Zenon DEF RetOf, Inside
  <2> QED BY <1>q, <2>1, <2>3, Zenon
<1>9. CASE Semdequeue(p)
  <2>1. \A r \in Procs : r # p => RetSame(r)
    BY <1>t, <1>9, Zenon DEF Semdequeue, RetSame
  <2>2. /\ pc[p] = "semdequeue" /\ pc'[p] = "passon" /\ op'[p] = op[p] /\ ms'[p] = ms[p]
        /\ acquired'[p] = acquired[p]
    BY <1>t, <1>9, Zenon DEF Semdequeue
  <2>3. RetOf(p)'
    BY <1>r, <2>2, Zenon DEF RetOf, Inside
  <2> QED BY <1>q, <2>1, <2>3, Zenon
<1>10. CASE PassOn(p)
  <2>1. \A r \in Procs : r # p => RetSame(r)
    BY <1>t, <1>10, Zenon DEF PassOn, RetSame
  <2>2. /\ pc[p] = "passon" /\ pc'[p] \in {"semwakeup", "ret"} /\ op'[p] = op[p] /\ ms'[p] = ms[p]
        /\ acquired'[p] = acquired[p] /\ ret'[p] = Result(p)
    BY <1>t, <1>10, SMTT(30) DEF PassOn
  <2>3. Result(p) = 1 <=> acquired[p] = 1
    BY <1>r, <1>t, <2>2, SMTT(30) DEF Result, RetOf
  <2>4. RetOf(p)'
    BY <2>2, <2>3, Zenon DEF RetOf, Inside
  <2> QED BY <1>q, <2>1, <2>4, Zenon
<1>11. CASE Semwakeup(p) \/ Walk(p)
  <2>1. \A r \in Procs : r # p => RetSame(r)
    BY <1>t, <1>11, Zenon DEF Semwakeup, Walk, RetSame
  <2>2. /\ pc[p] \in {"semwakeup", "walk"} /\ pc'[p] \in {"walk", "wakeup", "ret"}
        /\ op' = op /\ ret' = ret /\ acquired' = acquired
    BY <1>t, <1>11, Zenon DEF Semwakeup, Walk
  <2>3. RetOf(p)'
    BY <1>r, <2>2, Zenon DEF RetOf, Inside
  <2> QED BY <1>q, <2>1, <2>3, Zenon
<1>12. CASE Wakeup(p)
  <2>0. /\ op' = op /\ ret' = ret /\ acquired' = acquired /\ ms' = ms
        /\ pc[p] = "wakeup" /\ pc'[p] = "walk"
        /\ \A r \in Procs : r # p =>
               pc'[r] = pc[r] \/ (pc[r] = "asleep" /\ pc'[r] = "awake")
    <3>1. op' = op /\ ret' = ret /\ acquired' = acquired /\ ms' = ms
      BY <1>12, Zenon DEF Wakeup
    <3>2. /\ pc[p] = "wakeup" /\ pc'[p] = "walk"
          /\ \A r \in Procs : r # p /\ r # list[at[p]] => pc'[r] = pc[r]
          /\ pc'[list[at[p]]] = IF pc[list[at[p]]] = "asleep" THEN "awake" ELSE pc[list[at[p]]]
      BY <1>0, <1>12, WakeupFacts, Zenon
    <3> QED BY <3>1, <3>2, Zenon
  <2>1. \A r \in Procs : r # p => RetSame(r)
    BY <2>0, Zenon DEF RetSame
  <2>2. RetOf(p)'
    BY <1>r, <2>0, Zenon DEF RetOf, Inside
  <2> QED BY <1>q, <2>1, <2>2, Zenon
<1>13. CASE Return(p)
  <2>1. \A r \in Procs : r # p => RetSame(r)
    BY <1>t, <1>13, Zenon DEF Return, RetSame
  <2>2. pc'[p] = "user" /\ acquired'[p] = 0 /\ ms'[p] = "positive"
    BY <1>t, <1>13, Zenon DEF Return
  <2>3. RetOf(p)'
    BY <2>2, Zenon DEF RetOf, Inside
  <2> QED BY <1>q, <2>1, <2>3, Zenon
<1> QED BY <1>1, <1>2, <1>3, <1>4, <1>5, <1>6, <1>7, <1>8, <1>9, <1>10, <1>11, <1>12, <1>13, Zenon
           DEF Calls, Step

(* A call returns 1 exactly when it has acquired the semaphore, as long as *)
(* no tsemacquire is made with a negative time.                            *)
THEOREM ReturnsAcquiredHolds ==
    ASSUME "negative" \notin Timeouts
    PROVE  Spec => []ReturnsAcquired
<1>1. Init => RetInv
  BY Zenon DEF Init, RetInv, RetOf, Inside
<1>2. SInv /\ RetInv /\ [Next]_vars => RetInv'
  <2> SUFFICES ASSUME SInv, RetInv, [Next]_vars PROVE RetInv'
    BY Zenon
  <2>1. CASE UNCHANGED vars
    BY <2>1, Zenon DEF RetInv, RetOf, Inside, vars
  <2> QED BY <2>1, RetStep, Zenon DEF Next
<1>3. RetInv => ReturnsAcquired
  BY Zenon DEF RetInv, RetOf, ReturnsAcquired
<1> QED BY <1>1, <1>2, <1>3, SInvHolds, PTL DEF Spec
-----------------------------------------------------------------------------
(* q is at place i of the list or behind it.                               *)
Ahead(q, i) == \E j \in DOMAIN list : j >= i /\ list[j] = q

(* What p will still do with the units of q's semaphore: pass on a wakeup, *)
(* or answer it by another turn of the loop (-1); try to acquire (0); wake *)
(* n[p] acquirers, if it has not gone past q yet.                          *)
Has(p, k, q) ==
    /\ addr[p] = addr[q]
    /\ \/ k = -1 /\ waiting[p] = 0 /\ pc[p] \in Inside \cup {"passon"}
       \/ k = 0 /\ pc[p] = "tryagain"
       \/ /\ k \in 1 .. n[p]
          /\ \/ pc[p] = "semwakeup"
             \/ pc[p] = "walk" /\ Ahead(q, at[p])
             \/ pc[p] = "wakeup" /\ k < n[p] /\ Ahead(q, at[p] + 1)

(* What can be pending at one process, besides the n[p] wakeups.           *)
Kinds == -1 .. MaxValue

(* q sleeps, or is about to, and nobody has told it to try again.          *)
Sleeper(q) == pc[q] \in {"sleep", "asleep"} /\ waiting[q] = 1

(* What a step may do to the units of q's semaphore and to what is pending *)
(* about them: nothing; one element for another; one unit used by what was *)
(* pending; d units, each with its element; or there is no unit left.      *)
Keeps(q) ==
    /\ Sleeper(q) /\ value'[addr'[q]] <= value[addr[q]]
    /\ \A r \in Procs, k \in Kinds : Has(r, k, q) => Has(r, k, q)'

(* One thing pending becomes another.                                      *)
Moves(q) ==
    /\ Sleeper(q) /\ value'[addr'[q]] <= value[addr[q]]
    /\ \E x, y \in Procs, kx, ky \in Kinds :
          /\ \A r \in Procs, k \in Kinds : Has(r, k, q) /\ ~(r = x /\ k = kx) => Has(r, k, q)'
          /\ ~ Has(y, ky, q) /\ Has(y, ky, q)'

(* A unit and one thing pending go together.                               *)
Spends(q) ==
    /\ Sleeper(q) /\ value'[addr'[q]] <= value[addr[q]] - 1
    /\ \E x \in Procs, kx \in Kinds :
          \A r \in Procs, k \in Kinds : Has(r, k, q) /\ ~(r = x /\ k = kx) => Has(r, k, q)'

(* semrelease gives d units and has as many wakeups to do.                 *)
Adds(q) ==
    /\ Sleeper(q)
    /\ \E p \in Procs, d \in 1 .. MaxValue :
          /\ value'[addr'[q]] <= value[addr[q]] + d
          /\ \A r \in Procs, k \in Kinds : Has(r, k, q) => Has(r, k, q)'
          /\ \A k \in 1 .. d : ~ Has(p, k, q) /\ Has(p, k, q)'

(* One of these, or the semaphore has no unit.                             *)
Balanced(q) == Keeps(q) \/ Moves(q) \/ Spends(q) \/ Adds(q) \/ value'[addr'[q]] <= 0

(* A step does one of these for every sleeper it leaves.                   *)
UnitStep == \A q \in Procs : Sleeper(q)' => Balanced(q)
-----------------------------------------------------------------------------
(* What a process has to do about q's semaphore stays if nothing of it and *)
(* nothing of the list changes.                                            *)
LEMMA HasSame ==
    ASSUME NEW r, NEW q, NEW k, Same(r), addr'[q] = addr[q], list' = list, Has(r, k, q)
    PROVE  Has(r, k, q)'
BY Zenon DEF Has, Same, Ahead

(* A process outside semacquire and semwakeup has nothing to do about it.  *)
LEMMA HasNot ==
    ASSUME NEW r, NEW q, NEW k, pc[r] \in {"user", "canacquire", "semqueue", "ret"}
    PROVE  ~ Has(r, k, q)
BY Zenon DEF Has, Inside

(* A step that makes nobody a sleeper, gives no units and takes nothing    *)
(* from what is pending.                                                   *)
LEMMA KeepStep ==
    ASSUME \A q \in Procs : Sleeper(q)' =>
               /\ Sleeper(q) /\ addr'[q] = addr[q] /\ value'[addr[q]] <= value[addr[q]]
               /\ \A r \in Procs, k \in Kinds : Has(r, k, q) => Has(r, k, q)'
    PROVE  UnitStep
BY Zenon DEF UnitStep, Balanced, Keeps

(* The steps of a call before it waits, and its return, change nothing     *)
(* that is pending; going to sleep, waking and being interrupted leave a   *)
(* wakeup that was not used to be used.                                    *)
LEMMA QuietStep ==
    ASSUME TypeOK, TypeOK', NEW p \in Procs,
           \/ CallAcquire(p) \/ Canacquire(p) \/ Return(p)
           \/ Sleep(p) \/ Awake(p) \/ Interrupt(p) \/ Twakeup(p)
    PROVE  UnitStep
<1>1. \A r \in Procs : r # p => Same(r)
  BY OthersSame, Zenon DEF Plain
<1>2. list' = list
  BY PlainFacts, Zenon DEF Plain
<1>3. \A a \in Addrs : value'[a] <= value[a]
  <2>1. value' = value \/ Takes(addr[p])
    BY Zenon DEF CallAcquire, Canacquire, Return, Sleep, Awake, Interrupt, Twakeup
  <2>2. value \in [Addrs -> Int]
    BY SemAssumption DEF TypeOK
  <2> QED BY <2>1, <2>2 DEF Takes
<1>4. CASE CallAcquire(p) \/ Canacquire(p) \/ Return(p)
  <2>1. pc[p] \in {"user", "canacquire", "semqueue", "ret"} /\ ~ Sleeper(p)'
    BY <1>4 DEF CallAcquire, Canacquire, Return, Goto, Sleeper, TypeOK
  <2>2. ASSUME NEW q \in Procs, Sleeper(q)'
        PROVE  /\ Sleeper(q) /\ addr'[q] = addr[q] /\ value'[addr[q]] <= value[addr[q]]
               /\ \A r \in Procs, k \in Kinds : Has(r, k, q) => Has(r, k, q)'
    <3>1. Same(q)
      BY <1>1, <2>1, <2>2, Zenon
    <3>2. Sleeper(q) /\ addr'[q] = addr[q]
      BY <2>2, <3>1, Zenon DEF Sleeper, Same
    <3>3. addr[q] \in Addrs
      BY Zenon DEF TypeOK
    <3>4. \A k \in Kinds : ~ Has(p, k, q)
      BY <2>1, HasNot
    <3> QED BY <1>1, <1>2, <1>3, <3>2, <3>3, <3>4, HasSame, Zenon
  <2> QED BY <2>2, KeepStep, Zenon
<1>5. CASE Sleep(p) \/ Awake(p) \/ Interrupt(p) \/ Twakeup(p)
  <2>1. /\ pc[p] \in {"sleep", "asleep", "awake"} /\ pc'[p] \in Inside
        /\ waiting'[p] = waiting[p] /\ addr'[p] = addr[p] /\ (Sleeper(p)' => Sleeper(p))
    BY <1>5 DEF Sleep, Awake, Interrupt, Twakeup, Goto, Sleeper, TypeOK, Inside
  <2>2. \A q \in Procs : addr'[q] = addr[q]
    BY <1>1, <2>1, Zenon DEF Same
  <2>3. ASSUME NEW q \in Procs, NEW k \in Kinds, Has(p, k, q) PROVE Has(p, k, q)'
    BY <2>1, <2>2, <2>3, Zenon DEF Has, Inside
  <2>4. ASSUME NEW q \in Procs, Sleeper(q)'
        PROVE  /\ Sleeper(q) /\ addr'[q] = addr[q] /\ value'[addr[q]] <= value[addr[q]]
               /\ \A r \in Procs, k \in Kinds : Has(r, k, q) => Has(r, k, q)'
    <3>1. Sleeper(q)
      BY <1>1, <2>1, <2>4, Zenon DEF Sleeper, Same
    <3>2. addr[q] \in Addrs
      BY Zenon DEF TypeOK
    <3> QED BY <1>1, <1>2, <1>3, <2>2, <2>3, <3>1, <3>2, HasSame, Zenon
  <2> QED BY <2>4, KeepStep, Zenon
<1> QED BY <1>4, <1>5, Zenon

(* semrelease: each unit it gives is a wakeup it still has to make.        *)
LEMMA SemreleaseStep ==
    ASSUME TypeOK, TypeOK', NEW p \in Procs, Semrelease(p)
    PROVE  UnitStep
<1>1. \A r \in Procs : r # p => Same(r)
  BY OthersSame, Zenon DEF Plain
<1>2. PICK a \in Addrs, d \in 1 .. MaxValue :
          /\ value' = [value EXCEPT ![a] = @ + d] /\ addr' = [addr EXCEPT ![p] = a]
          /\ n' = [n EXCEPT ![p] = d] /\ list' = list
          /\ pc[p] = "user" /\ pc' = [pc EXCEPT ![p] = "semwakeup"]
  BY Zenon DEF Semrelease, Goto
<1>3. pc'[p] = "semwakeup" /\ addr'[p] = a /\ n'[p] = d
  BY <1>2 DEF TypeOK
<1> SUFFICES ASSUME NEW q \in Procs, Sleeper(q)' PROVE Balanced(q)
  BY Zenon DEF UnitStep
<1>4. q # p /\ Same(q) /\ Sleeper(q) /\ addr'[q] = addr[q] /\ addr[q] \in Addrs
  BY <1>1, <1>3, Zenon DEF Sleeper, Same, TypeOK
<1>6. value'[addr'[q]] \in Int /\ value[addr[q]] \in Int
  BY SemAssumption DEF TypeOK
<1>7. \A r \in Procs, k \in Kinds : Has(r, k, q) => Has(r, k, q)'
  <2>1. \A k \in Kinds : ~ Has(p, k, q)
    BY <1>2, HasNot
  <2> QED BY <1>1, <1>2, <1>4, <2>1, HasSame, Zenon
<1>8. value \in [Addrs -> Int] /\ d \in Int
  BY SemAssumption DEF TypeOK
<1>9. CASE addr[q] = a
  <2>1. \A k \in 1 .. d : Has(p, k, q)'
    BY <1>3, <1>4, <1>9, Zenon DEF Has
  <2>2. \A k \in 1 .. d : ~ Has(p, k, q)
    BY <1>2, HasNot
  <2>3. value'[addr'[q]] <= value[addr[q]] + d
    BY <1>2, <1>4, <1>8, <1>9
  <2> QED BY <1>4, <1>6, <1>7, <2>1, <2>2, <2>3, Zenon DEF Balanced, Adds
<1>10. CASE addr[q] # a
  <2>1. value'[addr'[q]] <= value[addr[q]]
    BY <1>2, <1>4, <1>8, <1>10
  <2> QED BY <1>4, <1>6, <1>7, <2>1, Zenon DEF Balanced, Keeps
<1> QED BY <1>9, <1>10, Zenon

(* phore.waiting = 1: a wakeup that came is answered by trying to acquire. *)
LEMMA SetWaitingStep ==
    ASSUME TypeOK, TypeOK', NEW p \in Procs, SetWaiting(p)
    PROVE  UnitStep
<1>1. \A r \in Procs : r # p => Same(r)
  BY OthersSame, Zenon DEF Plain
<1>2. list' = list /\ value' = value /\ addr' = addr /\ pc[p] = "setwaiting"
  BY Zenon DEF SetWaiting
<1>3. pc'[p] = "tryagain" /\ waiting'[p] = 1
  BY DEF SetWaiting, Goto, TypeOK
<1> SUFFICES ASSUME NEW q \in Procs, Sleeper(q)' PROVE Balanced(q)
  BY Zenon DEF UnitStep
<1>4. q # p /\ Sleeper(q)
  BY <1>1, <1>3, Zenon DEF Sleeper, Same
<1>6. value'[addr'[q]] \in Int /\ value[addr[q]] \in Int /\ value'[addr'[q]] <= value[addr[q]]
  BY <1>2, SemAssumption DEF TypeOK
<1>7. \A r \in Procs, k \in Kinds : r # p /\ Has(r, k, q) => Has(r, k, q)'
  BY <1>1, <1>2, HasSame, Zenon
<1>8. CASE addr[p] = addr[q]
  <2>1. \A k \in Kinds : Has(p, k, q) => k = -1
    BY <1>2, SMTT(30) DEF Has
  <2>2. ~ Has(p, 0, q) /\ Has(p, 0, q)'
    BY <1>2, <1>3, <1>8 DEF Has
  <2>3. -1 \in Kinds /\ 0 \in Kinds
    BY SemAssumption DEF Kinds
  <2>4. \A r \in Procs, k \in Kinds : Has(r, k, q) /\ ~(r = p /\ k = -1) => Has(r, k, q)'
    BY <1>7, <2>1, Zenon
  <2> QED BY <1>4, <1>6, <2>2, <2>3, <2>4, Zenon DEF Balanced, Moves
<1>9. CASE addr[p] # addr[q]
  <2>1. \A k \in Kinds : ~ Has(p, k, q)
    BY <1>9, Zenon DEF Has
  <2> QED BY <1>4, <1>6, <1>7, <2>1, Zenon DEF Balanced, Keeps
<1> QED BY <1>8, <1>9, Zenon

(* The canacquire of the loop uses a unit, or finds that there is none.    *)
LEMMA TryAgainStep ==
    ASSUME TypeOK, TypeOK', NEW p \in Procs, TryAgain(p)
    PROVE  UnitStep
<1>1. \A r \in Procs : r # p => Same(r)
  BY OthersSame, Zenon DEF Plain
<1>2. list' = list /\ addr' = addr /\ waiting' = waiting /\ pc[p] = "tryagain"
  BY Zenon DEF TryAgain
<1>3. /\ value \in [Addrs -> Int] /\ \A a \in Addrs : value'[a] \in Int
      /\ \A r \in Procs : addr[r] \in Addrs
  <2>1. value \in [Addrs -> 0 .. MaxValue] /\ value' \in [Addrs -> 0 .. MaxValue]
    BY Zenon DEF TypeOK
  <2>2. value \in [Addrs -> Int] /\ \A a \in Addrs : value'[a] \in Int
    BY <2>1, SemAssumption
  <2> QED BY <2>2, Zenon DEF TypeOK
<1>4. \/ /\ pc'[p] = "semdequeue" /\ value' = [value EXCEPT ![addr[p]] = @ - 1]
      \/ pc'[p] = "sleep" /\ value[addr[p]] <= 0 /\ value' = value
  BY DEF TryAgain, Takes, Goto, TypeOK
<1> SUFFICES ASSUME NEW q \in Procs, Sleeper(q)' PROVE Balanced(q)
  BY Zenon DEF UnitStep
<1>5. \A r \in Procs, k \in Kinds : r # p /\ Has(r, k, q) => Has(r, k, q)'
  BY <1>1, <1>2, HasSame, Zenon
<1>6. \A k \in Kinds : Has(p, k, q) /\ k # 0 => Has(p, k, q)'
  <2>1. pc'[p] \in Inside
    BY <1>4, Zenon DEF Inside
  <2> QED BY <1>2, <2>1, Zenon DEF Has
<1>7. CASE addr[q] = addr[p] /\ value[addr[p]] <= 0 /\ value' = value
  <2>1. value'[addr'[q]] <= 0 /\ value'[addr'[q]] \in Int
    BY <1>2, <1>3, <1>7, Zenon
  <2> QED BY <2>1, Zenon DEF Balanced
<1>8. CASE addr[q] = addr[p] /\ pc'[p] = "semdequeue" /\ value' = [value EXCEPT ![addr[p]] = @ - 1]
  <2>1. q # p /\ Sleeper(q)
    BY <1>1, <1>8, Zenon DEF Sleeper, Same
  <2>3. /\ value'[addr'[q]] \in Int /\ value[addr[q]] \in Int
        /\ value'[addr'[q]] <= value[addr[q]] - 1
    BY <1>2, <1>3, <1>8
  <2>4. \A r \in Procs, k \in Kinds : Has(r, k, q) /\ ~(r = p /\ k = 0) => Has(r, k, q)'
    BY <1>5, <1>6, Zenon
  <2>5. 0 \in Kinds
    BY SemAssumption DEF Kinds
  <2> QED BY <2>1, <2>3, <2>4, <2>5, Zenon DEF Balanced, Spends
<1>9. CASE addr[q] # addr[p]
  <2>1. q # p /\ Sleeper(q)
    BY <1>1, <1>9, Zenon DEF Sleeper, Same
  <2>3. /\ value'[addr'[q]] \in Int /\ value[addr[q]] \in Int
        /\ value'[addr'[q]] <= value[addr[q]]
    BY <1>2, <1>3, <1>4, <1>9
  <2>4. \A r \in Procs, k \in Kinds : Has(r, k, q) => Has(r, k, q)'
    BY <1>5, <1>9, Zenon DEF Has
  <2> QED BY <2>1, <2>3, <2>4, Zenon DEF Balanced, Keeps
<1> QED BY <1>4, <1>7, <1>8, <1>9, Zenon

(* A wakeup that was not used is passed on.                                *)
LEMMA PassOnStep ==
    ASSUME TypeOK, TypeOK', NEW p \in Procs, PassOn(p)
    PROVE  UnitStep
<1>1. \A r \in Procs : r # p => Same(r)
  BY OthersSame, Zenon DEF Plain
<1>2. list' = list /\ value' = value /\ addr' = addr /\ waiting' = waiting /\ pc[p] = "passon"
  BY Zenon DEF PassOn
<1>3. /\ pc'[p] \in {"semwakeup", "ret"}
      /\ waiting[p] = 0 => pc'[p] = "semwakeup" /\ n'[p] = 1
  BY DEF PassOn, Goto, TypeOK
<1> SUFFICES ASSUME NEW q \in Procs, Sleeper(q)' PROVE Balanced(q)
  BY Zenon DEF UnitStep
<1>4. q # p /\ Sleeper(q)
  BY <1>1, <1>3, Zenon DEF Sleeper, Same
<1>6. value'[addr'[q]] \in Int /\ value[addr[q]] \in Int /\ value'[addr'[q]] <= value[addr[q]]
  BY <1>2, SemAssumption DEF TypeOK
<1>7. \A r \in Procs, k \in Kinds : r # p /\ Has(r, k, q) => Has(r, k, q)'
  BY <1>1, <1>2, HasSame, Zenon
<1>8. \A k \in Kinds : Has(p, k, q) => k = -1 /\ waiting[p] = 0 /\ addr[p] = addr[q]
  BY <1>2, Zenon DEF Has
<1>9. CASE addr[p] = addr[q] /\ waiting[p] = 0
  <2>2. ~ Has(p, 1, q) /\ Has(p, 1, q)'
    BY <1>2, <1>3, <1>9 DEF Has
  <2>3. -1 \in Kinds /\ 1 \in Kinds
    BY SemAssumption DEF Kinds
  <2>4. \A r \in Procs, k \in Kinds : Has(r, k, q) /\ ~(r = p /\ k = -1) => Has(r, k, q)'
    BY <1>7, <1>8, Zenon
  <2> QED BY <1>4, <1>6, <2>2, <2>3, <2>4, Zenon DEF Balanced, Moves
<1>10. CASE ~(addr[p] = addr[q] /\ waiting[p] = 0)
  <2>1. \A r \in Procs, k \in Kinds : Has(r, k, q) => Has(r, k, q)'
    BY <1>7, <1>8, <1>10, Zenon
  <2> QED BY <1>4, <1>6, <2>1, Zenon DEF Balanced, Keeps
<1> QED BY <1>9, <1>10, Zenon

(* While nobody walks the list, what is pending does not depend on it:     *)
(* semqueue and semdequeue.                                                *)
LEMMA QueueStep ==
    ASSUME TypeOK, TypeOK', LockInv, NEW p \in Procs, Semqueue(p) \/ Semdequeue(p)
    PROVE  UnitStep
<1>1. \A r \in Procs : r # p => Same(r)
  BY OthersSame, Zenon
<1>2. /\ value' = value /\ addr' = addr /\ lk = NoProc
      /\ pc[p] \in {"semqueue", "semdequeue"} /\ pc'[p] \in {"setwaiting", "passon"}
      /\ pc[p] = "semdequeue" => pc'[p] = "passon" /\ waiting'[p] = waiting[p]
  BY DEF Semqueue, Semdequeue, Goto, TypeOK
<1>3. \A r \in Procs : pc[r] \notin {"walk", "wakeup"}
  BY <1>2, SemAssumption, Zenon DEF LockInv
<1>4. ASSUME NEW q \in Procs, Sleeper(q)'
      PROVE  /\ Sleeper(q) /\ addr'[q] = addr[q] /\ value'[addr[q]] <= value[addr[q]]
             /\ \A r \in Procs, k \in Kinds : Has(r, k, q) => Has(r, k, q)'
  <2>1. Sleeper(q)
    BY <1>1, <1>2, <1>4, Zenon DEF Sleeper, Same
  <2>2. addr'[q] = addr[q] /\ value'[addr[q]] <= value[addr[q]]
    BY <1>2, SemAssumption DEF TypeOK
  <2>3. ASSUME NEW r \in Procs, NEW k \in Kinds, Has(r, k, q) PROVE Has(r, k, q)'
    <3>1. CASE r # p
      <4>1. Same(r) /\ pc[r] # "walk" /\ pc[r] # "wakeup"
        BY <1>1, <1>3, <3>1, Zenon
      <4> QED BY <1>2, <2>3, <4>1, Zenon DEF Has, Same
    <3>2. CASE r = p
      BY <1>2, <2>3, <3>2, Zenon DEF Has, Inside
    <3> QED BY <3>1, <3>2, Zenon
  <2> QED BY <2>1, <2>2, <2>3, Zenon
<1> QED BY <1>4, KeepStep, Zenon

(* semwakeup begins at the head of the list, which every sleeper is on.    *)
LEMMA SemwakeupUnits ==
    ASSUME SInv, TypeOK', NEW p \in Procs, Semwakeup(p)
    PROVE  UnitStep
<1>0. TypeOK /\ ListInv
  BY Zenon DEF SInv
<1>1. \A r \in Procs : r # p => Same(r)
  BY <1>0, OthersSame, Zenon
<1>2. /\ value' = value /\ addr' = addr /\ waiting' = waiting /\ n' = n /\ list' = list
      /\ pc[p] = "semwakeup" /\ pc'[p] = "walk" /\ at'[p] = 1
  BY <1>0 DEF Semwakeup, Goto, TypeOK
<1>3. ASSUME NEW q \in Procs, Sleeper(q)'
      PROVE  /\ Sleeper(q) /\ addr'[q] = addr[q] /\ value'[addr[q]] <= value[addr[q]]
             /\ \A r \in Procs, k \in Kinds : Has(r, k, q) => Has(r, k, q)'
  <2>1. Sleeper(q)
    BY <1>1, <1>2, <1>3, Zenon DEF Sleeper, Same
  <2>2. addr'[q] = addr[q] /\ value'[addr[q]] <= value[addr[q]]
    BY <1>0, <1>2, SemAssumption DEF TypeOK
  <2>3. Ahead(q, 1)'
    <3>1. Listed(q)
      BY <1>0, <2>1, Zenon DEF ListInv, Sleeper, Inside
    <3> QED BY <1>0, <1>2, <3>1 DEF Listed, Ahead, TypeOK
  <2>4. ASSUME NEW k \in Kinds, Has(p, k, q) PROVE Has(p, k, q)'
    <3>1. addr[p] = addr[q] /\ k \in 1 .. n[p]
      BY <1>2, <2>4, Zenon DEF Has, Inside
    <3> QED BY <1>2, <2>3, <3>1, Zenon DEF Has
  <2> QED BY <1>1, <1>2, <2>1, <2>2, <2>4, HasSame, Zenon
<1> QED BY <1>0, <1>3, KeepStep, Zenon

(* Its walk: the flag it clears stands for the wakeup it spends on it, and *)
(* it steps over no sleeper on its semaphore.                              *)
LEMMA WalkUnits ==
    ASSUME SInv, TypeOK', NEW p \in Procs, Walk(p)
    PROVE  UnitStep
<1>0. TypeOK /\ ListInv /\ LockInv
  BY Zenon DEF SInv
<1>1. /\ pc[p] = "walk" /\ list' = list /\ addr' = addr /\ value' = value
      /\ \A r \in Procs : r # p => pc'[r] = pc[r] /\ at'[r] = at[r] /\ n'[r] = n[r]
      /\ WalkEnd(p) \/ WalkClear(p) \/ WalkOver(p)
  BY <1>0, WalkFacts, Zenon
<1>2. /\ at[p] \in Nat /\ n[p] \in 0 .. MaxValue /\ DOMAIN list = 1 .. Len(list) /\ Len(list) \in Nat
      /\ \A r \in Procs : value[addr[r]] \in Int
  <2>1. value \in [Addrs -> 0 .. MaxValue] /\ addr \in [Procs -> Addrs]
    BY <1>0, Zenon DEF TypeOK
  <2>2. \A r \in Procs : value[addr[r]] \in Int
    BY <2>1, SemAssumption
  <2> QED BY <1>0, <2>2 DEF TypeOK
<1>3. pc'[p] \in {"ret", "wakeup", "walk"}
  BY <1>1, Zenon DEF WalkEnd, WalkClear, WalkOver
<1>4. CASE WalkEnd(p) \/ WalkOver(p)
  <2>1. ASSUME NEW q \in Procs, Sleeper(q)'
        PROVE  /\ Sleeper(q) /\ addr'[q] = addr[q] /\ value'[addr[q]] <= value[addr[q]]
               /\ \A r \in Procs, k \in Kinds : Has(r, k, q) => Has(r, k, q)'
    <3>1. waiting' = waiting
      BY <1>4, Zenon DEF WalkEnd, WalkOver
    <3>2. Sleeper(q)
      BY <1>1, <1>3, <2>1, <3>1, SMTT(30) DEF Sleeper
    <3>3. addr'[q] = addr[q] /\ value'[addr[q]] <= value[addr[q]]
      BY <1>1, <1>2
    <3>4. ASSUME NEW k \in Kinds, Has(p, k, q) PROVE Has(p, k, q)'
      <4>1. addr[p] = addr[q] /\ k \in 1 .. n[p] /\ Ahead(q, at[p])
        BY <1>1, <3>4, Zenon DEF Has, Inside
      <4>2. PICK j \in DOMAIN list : j >= at[p] /\ list[j] = q
        BY <4>1, Zenon DEF Ahead
      <4>3. WalkOver(p)
        BY <1>2, <1>4, <4>1, <4>2 DEF WalkEnd
      <4>4. j # at[p]
        BY <3>2, <4>1, <4>2, <4>3, Zenon DEF WalkOver, Sleeper
      <4>5. j >= at[p] + 1
        BY <1>2, <4>2, <4>4
      <4>6. Ahead(q, at[p])' /\ n'[p] = n[p] /\ pc'[p] = "walk"
        BY <1>1, <4>2, <4>3, <4>5, Zenon DEF Ahead, WalkOver
      <4> QED BY <1>1, <4>1, <4>6, Zenon DEF Has
    <3>5. ASSUME NEW r \in Procs, r # p PROVE Same(r)
      BY <1>1, <3>1, <3>5, Zenon DEF Same
    <3> QED BY <1>1, <3>2, <3>3, <3>4, <3>5, HasSame, Zenon
  <2> QED BY <1>0, <2>1, KeepStep, Zenon
<1>5. CASE WalkClear(p)
  <2>1. PICK x \in Procs :
            /\ x = list[at[p]] /\ addr[x] = addr[p] /\ waiting[x] = 1 /\ waiting'[x] = 0
            /\ \A r \in Procs : r # x => waiting'[r] = waiting[r]
    <3>1. list[at[p]] \in Procs
      BY <1>0, <1>5 DEF WalkClear, TypeOK
    <3> QED BY <1>5, <3>1, Zenon DEF WalkClear
  <2>2. at[p] \in DOMAIN list /\ n[p] > 0 /\ pc'[p] = "wakeup" /\ at'[p] = at[p] /\ n'[p] = n[p]
    BY <1>5, Zenon DEF WalkClear
  <2>3. pc[x] \in Inside /\ x # p
    <3>1. Listed(x)
      BY <2>1, <2>2, Zenon DEF Listed
    <3> QED BY <1>0, <1>1, <3>1, Zenon DEF ListInv, Inside
  <2>4. pc'[x] = pc[x]
    BY <1>1, <2>3, Zenon
  <2> SUFFICES ASSUME NEW q \in Procs, Sleeper(q)' PROVE Balanced(q)
    BY Zenon DEF UnitStep
  <2>5. q # p /\ q # x /\ Sleeper(q)
    BY <1>1, <2>1, <2>2 DEF Sleeper
  <2>7. value'[addr'[q]] \in Int /\ value[addr[q]] \in Int /\ value'[addr'[q]] <= value[addr[q]]
    BY <1>1, <1>2
  <2>8. ASSUME NEW r \in Procs, NEW k \in Kinds, r # p, Has(r, k, q) PROVE Has(r, k, q)'
    <3>1. CASE r = x
      <4>1. k # -1
        BY <2>1, <2>3, <2>8, <3>1, SMTT(30) DEF Has, Inside
      <4> QED BY <1>1, <2>3, <2>4, <2>8, <3>1, <4>1, SMTT(30) DEF Has, Inside
    <3>2. CASE r # x
      <4>1. Same(r)
        BY <1>1, <2>1, <2>8, <3>2, Zenon DEF Same
      <4> QED BY <1>1, <2>8, <4>1, HasSame, Zenon
    <3> QED BY <3>1, <3>2, Zenon
  <2>9. ASSUME NEW k \in Kinds, k # n[p], Has(p, k, q) PROVE Has(p, k, q)'
    <3>1. addr[p] = addr[q] /\ k \in 1 .. n[p] /\ Ahead(q, at[p])
      BY <1>1, <2>9, Zenon DEF Has, Inside
    <3>2. PICK j \in DOMAIN list : j >= at[p] /\ list[j] = q
      BY <3>1, Zenon DEF Ahead
    <3>3. j >= at[p] + 1
      BY <1>2, <2>1, <2>5, <3>2, SMTT(30)
    <3>4. Ahead(q, at[p] + 1)' /\ k < n'[p] /\ k \in 1 .. n'[p]
      BY <1>1, <1>2, <2>2, <2>9, <3>1, <3>2, <3>3, SMTT(30) DEF Ahead
    <3> QED BY <1>1, <2>2, <3>1, <3>4, Zenon DEF Has
  <2>10. CASE addr[q] = addr[p]
    <3>1. ~ Has(x, -1, q)
      BY <2>1, <2>3, SMTT(30) DEF Has, Inside
    <3>2. Has(x, -1, q)'
      BY <1>1, <2>1, <2>3, <2>4, <2>10, Zenon DEF Has
    <3>0. n[p] \in Kinds /\ -1 \in Kinds
      BY <1>2, SemAssumption DEF Kinds
    <3>3. PICK kn \in Kinds : kn = n[p]
      BY <3>0, Zenon
    <3>4. \A r \in Procs, k \in Kinds : Has(r, k, q) /\ ~(r = p /\ k = kn) => Has(r, k, q)'
      BY <2>8, <2>9, <3>3, Zenon
    <3>5. PICK km \in Kinds : km = -1
      BY <3>0, Zenon
    <3>6. ~ Has(x, km, q) /\ Has(x, km, q)'
      BY <3>1, <3>2, <3>5, Zenon
    <3> HIDE <3>3, <3>5
    <3> QED BY <2>5, <2>7, <3>4, <3>6, Zenon DEF Balanced, Moves
  <2>11. CASE addr[q] # addr[p]
    <3>1. \A k \in Kinds : ~ Has(p, k, q)
      BY <2>11, Zenon DEF Has
    <3>2. \A r \in Procs, k \in Kinds : Has(r, k, q) => Has(r, k, q)'
      BY <2>8, <3>1, Zenon
    <3> QED BY <2>5, <2>7, <3>2, Zenon DEF Balanced, Keeps
  <2> QED BY <2>10, <2>11, Zenon
<1> QED BY <1>1, <1>4, <1>5, Zenon

(* The wakeup: one done, and on to the next element.                       *)
LEMMA WakeupUnits ==
    ASSUME SInv, TypeOK', NEW p \in Procs, Wakeup(p)
    PROVE  UnitStep
<1>0. TypeOK /\ ListInv /\ LockInv
  BY Zenon DEF SInv
<1>1. PICK x \in Procs :
          /\ pc[p] = "wakeup" /\ pc'[p] = "walk" /\ x # p
          /\ at[p] \in Nat /\ at'[p] = at[p] + 1
          /\ n[p] \in 1 .. MaxValue /\ n'[p] = n[p] - 1
          /\ \A r \in Procs : r # p => at'[r] = at[r] /\ n'[r] = n[r]
          /\ \A r \in Procs : r # p /\ r # x => pc'[r] = pc[r]
          /\ pc'[x] = IF pc[x] = "asleep" THEN "awake" ELSE pc[x]
          /\ list' = list /\ waiting' = waiting /\ addr' = addr /\ value' = value
  BY <1>0, WakeupFacts
<1>2. ASSUME NEW q \in Procs, Sleeper(q)'
      PROVE  /\ Sleeper(q) /\ addr'[q] = addr[q] /\ value'[addr[q]] <= value[addr[q]]
             /\ \A r \in Procs, k \in Kinds : Has(r, k, q) => Has(r, k, q)'
  <2>1. Sleeper(q)
    BY <1>1, <1>2, SMTT(30) DEF Sleeper
  <2>2. addr'[q] = addr[q] /\ value'[addr[q]] <= value[addr[q]]
    BY <1>0, <1>1, SemAssumption DEF TypeOK
  <2>3. ASSUME NEW k \in Kinds, Has(p, k, q) PROVE Has(p, k, q)'
    <3>1. addr[p] = addr[q] /\ k \in 1 .. n[p] /\ k < n[p] /\ Ahead(q, at[p] + 1)
      BY <1>1, <2>3, Zenon DEF Has, Inside
    <3>2. Ahead(q, at[p])'
      BY <1>1, <3>1, Zenon DEF Ahead
    <3>3. k \in 1 .. n'[p]
      BY <1>1, <3>1, SemAssumption, SMTT(30)
    <3> QED BY <1>1, <3>1, <3>2, <3>3, Zenon DEF Has
  <2>4. ASSUME NEW k \in Kinds, Has(x, k, q) PROVE Has(x, k, q)'
    <3>1. CASE pc[x] = "asleep"
      BY <1>1, <2>4, <3>1, Zenon DEF Has, Inside
    <3>2. CASE pc[x] # "asleep"
      <4>1. Same(x)
        BY <1>1, <3>2, Zenon DEF Same
      <4> QED BY <1>1, <2>4, <4>1, HasSame, Zenon
    <3> QED BY <3>1, <3>2, Zenon
  <2>5. ASSUME NEW r \in Procs, r # p, r # x PROVE Same(r)
    BY <1>1, <2>5, Zenon DEF Same
  <2> QED BY <1>1, <2>1, <2>2, <2>3, <2>4, <2>5, HasSame, Zenon
<1> QED BY <1>0, <1>2, KeepStep, Zenon

(* Every step is one of these.                                             *)
LEMMA NextUnits ==
    ASSUME SInv, SInv', [Next]_vars
    PROVE  UnitStep
<1>1. TypeOK /\ TypeOK' /\ LockInv
  BY Zenon DEF SInv
<1>2. CASE UNCHANGED vars
  <2>1. \A r \in Procs : Same(r) /\ (Sleeper(r)' => Sleeper(r))
    BY <1>2, Zenon DEF Same, Sleeper, vars
  <2>2. list' = list /\ \A q \in Procs : addr'[q] = addr[q] /\ value'[addr[q]] <= value[addr[q]]
    BY <1>1, <1>2, SemAssumption DEF vars, TypeOK
  <2>3. \A q, r \in Procs, k \in Kinds : Has(r, k, q) => Has(r, k, q)'
    BY <2>1, <2>2, HasSame, Zenon
  <2> QED BY <1>1, <2>1, <2>2, <2>3, KeepStep, Zenon
<1>3. ASSUME NEW p \in Procs, Calls(p) \/ Step(p) \/ Interrupt(p) \/ Twakeup(p)
      PROVE  UnitStep
  BY <1>1, <1>3, QuietStep, SemreleaseStep, SetWaitingStep, TryAgainStep, PassOnStep, QueueStep,
     SemwakeupUnits, WalkUnits, WakeupUnits, Zenon DEF Calls, Step
<1> QED BY <1>2, <1>3, Zenon DEF Next

(* The value of a semaphore is a number.                                   *)
LEMMA UnitsAreNumbers ==
    ASSUME TypeOK, TypeOK', NEW q \in Procs
    PROVE  value'[addr'[q]] \in Int /\ value[addr[q]] \in Int
<1>1. 0 .. MaxValue \in SUBSET Int
  OBVIOUS
<1>2. /\ value \in [Addrs -> 0 .. MaxValue] /\ addr \in [Procs -> Addrs]
      /\ value' \in [Addrs -> 0 .. MaxValue] /\ addr' \in [Procs -> Addrs]
  BY Zenon DEF TypeOK
<1>3. addr[q] \in Addrs /\ addr'[q] \in Addrs
  BY <1>2, Zenon
<1> QED BY <1>1, <1>2, <1>3, Zenon
-----------------------------------------------------------------------------
(* Everything that is pending for q.                                       *)
Pending(q) == {t \in Procs \X Kinds : Has(t[1], t[2], q)}

(* As much is pending as the semaphore has units.                          *)
Covered(q) == value[addr[q]] <= Cardinality(Pending(q))

(* For every unit of a semaphore there is something that will be done      *)
(* about it before an acquirer is left asleep.                             *)
UnitInv == \A q \in Procs : Sleeper(q) => Covered(q)
-----------------------------------------------------------------------------
INSTANCE FiniteSetTheorems

(* Pending(q) is finite.                                                   *)
LEMMA PendingFinite ==
    ASSUME NEW q
    PROVE  IsFiniteSet(Pending(q)) /\ Cardinality(Pending(q)) \in Nat
<1>1. IsFiniteSet(Kinds)
  BY FS_Interval, SemAssumption DEF Kinds
<1>2. IsFiniteSet(Procs \X Kinds)
  BY <1>1, FS_Product, SemAssumption, Zenon
<1>3. Pending(q) \in SUBSET (Procs \X Kinds)
  BY Zenon DEF Pending
<1>4. IsFiniteSet(Pending(q))
  BY <1>2, <1>3, FS_Subset, Zenon
<1> QED BY <1>4, FS_CardinalityType, Zenon

(* The same in the next state.                                             *)
LEMMA PendingFiniteNext ==
    ASSUME NEW q
    PROVE  IsFiniteSet(Pending(q)') /\ Cardinality(Pending(q)') \in Nat
<1>1. IsFiniteSet(Kinds)
  BY FS_Interval, SemAssumption DEF Kinds
<1>2. IsFiniteSet(Procs \X Kinds)
  BY <1>1, FS_Product, SemAssumption, Zenon
<1>3. Pending(q)' \in SUBSET (Procs \X Kinds)
  BY Zenon DEF Pending
<1>4. IsFiniteSet(Pending(q)')
  BY <1>2, <1>3, FS_Subset, Zenon
<1> QED BY <1>4, FS_CardinalityType

(* A step that takes nothing from Pending(q).                              *)
LEMMA UnitsKept ==
    ASSUME NEW q, Covered(q), value'[addr'[q]] \in Int, value[addr[q]] \in Int,
           value'[addr'[q]] <= value[addr[q]],
           \A r \in Procs, k \in Kinds : Has(r, k, q) => Has(r, k, q)'
    PROVE  Covered(q)'
<1>1. Pending(q) \in SUBSET Pending(q)'
  BY Zenon DEF Pending
<1>2. Cardinality(Pending(q)) <= Cardinality(Pending(q)')
  BY <1>1, PendingFiniteNext, FS_Subset, Zenon
<1> QED BY <1>2, PendingFinite, PendingFiniteNext DEF Covered

(* A step that takes one element from Pending(q) and gives another.        *)
LEMMA UnitsMoved ==
    ASSUME NEW q, Covered(q), value'[addr'[q]] \in Int, value[addr[q]] \in Int,
           value'[addr'[q]] <= value[addr[q]],
           NEW x \in Procs, NEW kx \in Kinds, NEW y \in Procs, NEW ky \in Kinds,
           \A r \in Procs, k \in Kinds : Has(r, k, q) /\ ~(r = x /\ k = kx) => Has(r, k, q)',
           ~ Has(y, ky, q), Has(y, ky, q)'
    PROVE  Covered(q)'
<1> DEFINE P == Pending(q) \ {<<x, kx>>}
<1>1. P \cup {<<y, ky>>} \in SUBSET Pending(q)'
  BY DEF Pending
<1>2. <<y, ky>> \notin P
  BY Zenon DEF Pending
<1>3. IsFiniteSet(P) /\ Cardinality(P) >= Cardinality(Pending(q)) - 1 /\ Cardinality(P) \in Nat
  <2>1. IsFiniteSet(P) /\ Cardinality(P) = IF <<x, kx>> \in Pending(q)
                                           THEN Cardinality(Pending(q)) - 1
                                           ELSE Cardinality(Pending(q))
    BY PendingFinite, FS_RemoveElement, Zenon
  <2>2. Cardinality(P) \in Nat
    BY <2>1, FS_CardinalityType, Zenon
  <2> QED BY <2>1, <2>2, PendingFinite
<1> HIDE DEF P
<1>4. Cardinality(P \cup {<<y, ky>>}) = Cardinality(P) + 1
  BY <1>2, <1>3, FS_AddElement, Zenon
<1>5. Cardinality(P \cup {<<y, ky>>}) <= Cardinality(Pending(q)')
  BY <1>1, PendingFiniteNext, FS_Subset, Zenon
<1> QED BY <1>3, <1>4, <1>5, PendingFinite, PendingFiniteNext DEF Covered

(* A step that takes one element from Pending(q) and one unit.             *)
LEMMA UnitSpent ==
    ASSUME NEW q, Covered(q), value'[addr'[q]] \in Int, value[addr[q]] \in Int,
           value'[addr'[q]] <= value[addr[q]] - 1,
           NEW x \in Procs, NEW kx \in Kinds,
           \A r \in Procs, k \in Kinds : Has(r, k, q) /\ ~(r = x /\ k = kx) => Has(r, k, q)'
    PROVE  Covered(q)'
<1> DEFINE P == Pending(q) \ {<<x, kx>>}
<1>1. P \in SUBSET Pending(q)'
  BY DEF Pending
<1>2. Cardinality(P) >= Cardinality(Pending(q)) - 1 /\ Cardinality(P) \in Nat
  <2>1. IsFiniteSet(P) /\ Cardinality(P) = IF <<x, kx>> \in Pending(q)
                                           THEN Cardinality(Pending(q)) - 1
                                           ELSE Cardinality(Pending(q))
    BY PendingFinite, FS_RemoveElement, Zenon
  <2>2. Cardinality(P) \in Nat
    BY <2>1, FS_CardinalityType, Zenon
  <2> QED BY <2>1, <2>2, PendingFinite
<1> HIDE DEF P
<1>3. Cardinality(P) <= Cardinality(Pending(q)')
  BY <1>1, PendingFiniteNext, FS_Subset, Zenon
<1> QED BY <1>2, <1>3, PendingFinite, PendingFiniteNext DEF Covered

(* A step that gives d units and d elements of Pending(q).                 *)
LEMMA UnitsAdded ==
    ASSUME NEW q, Covered(q), value'[addr'[q]] \in Int, value[addr[q]] \in Int,
           NEW d \in 1 .. MaxValue, value'[addr'[q]] <= value[addr[q]] + d,
           NEW p \in Procs,
           \A r \in Procs, k \in Kinds : Has(r, k, q) => Has(r, k, q)',
           \A k \in 1 .. d : ~ Has(p, k, q) /\ Has(p, k, q)'
    PROVE  Covered(q)'
<1> DEFINE N == {p} \X (1 .. d)
<1>1. IsFiniteSet(N) /\ Cardinality(N) = d
  <2>1. IsFiniteSet(1 .. d) /\ Cardinality(1 .. d) = d
    BY FS_Interval, SemAssumption
  <2>2. IsFiniteSet({p}) /\ Cardinality({p}) = 1
    BY FS_Singleton, Zenon
  <2>3. IsFiniteSet(N) /\ Cardinality(N) = Cardinality({p}) * Cardinality(1 .. d)
    BY <2>1, <2>2, FS_Product, Zenon
  <2>4. Cardinality(N) = 1 * d
    BY <2>1, <2>2, <2>3, Zenon
  <2>5. 1 * d = d
    BY SemAssumption
  <2> QED BY <2>3, <2>4, <2>5, Zenon
<1>2. Pending(q) \cup N \in SUBSET Pending(q)'
  BY SemAssumption DEF Pending, Kinds
<1>3. Pending(q) \cap N = {}
  BY Zenon DEF Pending
<1> HIDE DEF N
<1>4. Cardinality(Pending(q) \cup N) = Cardinality(Pending(q)) + d
  <2>1. Cardinality(Pending(q) \cup N) =
            Cardinality(Pending(q)) + Cardinality(N) - Cardinality(Pending(q) \cap N)
    BY <1>1, PendingFinite, FS_Union, Zenon
  <2>2. Cardinality(Pending(q) \cap N) = 0
    BY <1>3, FS_EmptySet, Zenon
  <2> QED BY <1>1, <2>1, <2>2, PendingFinite
<1>5. Cardinality(Pending(q) \cup N) <= Cardinality(Pending(q)')
  BY <1>2, PendingFiniteNext, FS_Subset, Zenon
<1> QED BY <1>4, <1>5, PendingFinite, PendingFiniteNext DEF Covered

(* UnitInv is inductive, relative to SInv.                                 *)
LEMMA UnitInvHolds == Spec => []UnitInv
<1>1. Init => UnitInv
  BY Zenon DEF Init, UnitInv, Sleeper
<1>2. SInv /\ SInv' /\ UnitInv /\ [Next]_vars => UnitInv'
  <2> SUFFICES ASSUME SInv, SInv', UnitInv, [Next]_vars, NEW q \in Procs, Sleeper(q)'
               PROVE  Covered(q)'
    BY Zenon DEF UnitInv
  <2>1. Balanced(q)
    BY NextUnits, Zenon DEF UnitStep
  <2>2. Sleeper(q) => Covered(q)
    BY Zenon DEF UnitInv
  <2>3. value'[addr'[q]] \in Int /\ value[addr[q]] \in Int
    BY UnitsAreNumbers, Zenon DEF SInv
  <2>4. CASE Keeps(q)
    BY <2>2, <2>3, <2>4, UnitsKept, Zenon DEF Keeps
  <2>5. CASE Moves(q)
    <3>1. PICK x \in Procs, y \in Procs, kx \in Kinds, ky \in Kinds :
              /\ \A r \in Procs, k \in Kinds : Has(r, k, q) /\ ~(r = x /\ k = kx) => Has(r, k, q)'
              /\ ~ Has(y, ky, q) /\ Has(y, ky, q)'
      BY <2>5, Zenon DEF Moves
    <3>2. Sleeper(q) /\ value'[addr'[q]] <= value[addr[q]]
      BY <2>5, Zenon DEF Moves
    <3> QED BY <2>2, <2>3, <3>1, <3>2, UnitsMoved, SMTT(30)
  <2>6. CASE Spends(q)
    BY <2>2, <2>3, <2>6, UnitSpent, Zenon DEF Spends
  <2>7. CASE Adds(q)
    BY <2>2, <2>3, <2>7, UnitsAdded, Zenon DEF Adds
  <2>8. CASE value'[addr'[q]] <= 0
    BY <2>3, <2>8, PendingFiniteNext DEF Covered
  <2> QED BY <2>1, <2>4, <2>5, <2>6, <2>7, <2>8, Zenon DEF Balanced
<1> QED BY <1>1, <1>2, SInvHolds, PTL DEF Spec

(* No acquirer is left asleep beside a semaphore it could have.            *)
THEOREM NoStrandedAcquirerHolds == Spec => []NoStrandedAcquirer
<1>1. SInv /\ UnitInv => NoStrandedAcquirer
  <2> SUFFICES ASSUME SInv, UnitInv, \A p \in Procs : pc[p] \in {"user", "asleep"},
                      NEW a \in Addrs, NEW q \in Procs, pc[q] = "asleep", addr[q] = a
               PROVE  value[a] = 0
    BY Zenon DEF NoStrandedAcquirer, Asleep
  <2>1. waiting[q] = 1
    <3>1. waiting[q] \in 0 .. 1
      BY Zenon DEF SInv, TypeOK
    <3>2. waiting[q] # 0
      BY Zenon DEF SInv, SleepInv
    <3> QED BY <3>1, <3>2
  <2>2. Covered(q)
    BY <2>1, Zenon DEF UnitInv, Sleeper
  <2>3. ASSUME NEW r \in Procs, NEW k \in Kinds PROVE ~ Has(r, k, q)
    <3>1. CASE pc[r] = "user"
      BY <3>1, HasNot
    <3>2. CASE pc[r] = "asleep"
      <4>1. waiting[r] # 0
        BY <3>2, Zenon DEF SInv, SleepInv
      <4> QED BY <3>2, <4>1, Zenon DEF Has
    <3> QED BY <3>1, <3>2, Zenon
  <2>4. Pending(q) = {}
    BY <2>3, Zenon DEF Pending
  <2>5. Cardinality(Pending(q)) = 0
    BY <2>4, FS_EmptySet, Zenon
  <2>6. value[a] \in 0 .. MaxValue
    BY Zenon DEF SInv, TypeOK
  <2> QED BY <2>2, <2>5, <2>6, SemAssumption DEF Covered
<1> QED BY <1>1, SInvHolds, UnitInvHolds, PTL
=============================================================================
