----------------------------- MODULE AlarmProofs -----------------------------
(***************************************************************************)
(* Proofs about Alarm for every set of processes and every length of an    *)
(* alarm: the type invariant, that the list holds every alarm once, and,   *)
(* while the clock is in the lower half of its range, that it is in order  *)
(* and that alarmkproc leaves no alarm behind that is due.                 *)
(*                                                                         *)
(* And about Queue, for every set of readers and writers, every limit and  *)
(* every size of blocks and reads: the type invariant, and that no reader  *)
(* is left asleep beside data or a closed queue.  Both rest on LeastNat:   *)
(* procalarm's and qread's loops stop at the first place that will do.     *)
(***************************************************************************)
EXTENDS Alarm, SequenceTheorems, WellFoundedInduction, TLAPS

(* The list n is l with p at the place where procalarm's loop stops.       *)
InsertedAt(n, l, p, when, at) ==
    /\ at <= Len(l) => Later(l[at], when)
    /\ \A j \in 1 .. at - 1 : ~Later(l[j], when)
    /\ n = [i \in 1 .. Len(l) + 1 |-> IF i < at THEN l[i] ELSE IF i = at THEN p ELSE l[i - 1]]

(* Of some places in a list there is a first.                              *)
LEMMA LeastNat ==
    ASSUME NEW T \in SUBSET Nat, T # {}
    PROVE  \E k \in T : \A j \in T : k <= j
<1> DEFINE R == {ss \in Nat \X Nat : ss[1] < ss[2]}
<1>1. IsWellFoundedOn(R, Nat)
  BY NatLessThanWellFounded, Zenon DEF OpToRel
<1> HIDE DEF R
<1>2. PICK k \in T : \A j \in T : ~(<<j, k>> \in R)
  BY <1>1, WFMin, Zenon
<1>3. ASSUME NEW j \in T PROVE k <= j
  <2>1. j \in Nat /\ k \in Nat
    BY Zenon
  <2>2. ~(j < k)
    BY <1>2, <2>1, Zenon DEF R
  <2> QED BY <2>1, <2>2
<1> QED BY <1>3, Zenon

(* procalarm's second loop stops somewhere.                                *)
LEMMA InsertProperties ==
    ASSUME NEW l \in Seq(Procs), NEW p \in Procs, NEW when
    PROVE  \E at \in 1 .. Len(l) + 1 : InsertedAt(Insert(l, p, when), l, p, when, at)
<1> DEFINE Stops(k) == /\ k <= Len(l) => Later(l[k], when)
                       /\ \A j \in 1 .. k - 1 : ~Later(l[j], when)
           T == {k \in 1 .. Len(l) + 1 : k <= Len(l) => Later(l[k], when)}
<1>1. Len(l) \in Nat
  OBVIOUS
<1>2. Len(l) + 1 \in T /\ T \in SUBSET Nat
  BY <1>1
<1>3. PICK k \in T : \A j \in T : k <= j
  BY <1>2, LeastNat, Zenon
<1>4. k \in 1 .. Len(l) + 1 /\ Stops(k)
  BY <1>1, <1>3
<1> DEFINE at == CHOOSE n \in 1 .. Len(l) + 1 : Stops(n)
<1>5. at \in 1 .. Len(l) + 1 /\ Stops(at)
  BY <1>4, Zenon
<1>6. Insert(l, p, when) =
        [i \in 1 .. Len(l) + 1 |-> IF i < at THEN l[i] ELSE IF i = at THEN p ELSE l[i - 1]]
  BY Zenon DEF Insert
<1>7. InsertedAt(Insert(l, p, when), l, p, when, at)
  BY <1>5, <1>6, Zenon DEF InsertedAt
<1> HIDE DEF at
<1> QED BY <1>5, <1>7, Zenon

(* procalarm's first loop takes the process off the list and leaves the    *)
(* others on it, in their order.                                           *)
LEMMA WithoutProperties ==
    ASSUME NEW l \in Seq(Procs), NEW p \in Procs,
           \A i, j \in 1 .. Len(l) : i # j => l[i] # l[j]
    PROVE  /\ Without(l, p) \in Seq(Procs)
           /\ \A i \in 1 .. Len(Without(l, p)) : Without(l, p)[i] # p
           /\ \A i, j \in 1 .. Len(Without(l, p)) : i < j =>
                  \E a, b \in 1 .. Len(l) :
                      a < b /\ Without(l, p)[i] = l[a] /\ Without(l, p)[j] = l[b]
           /\ \A i \in 1 .. Len(l) : l[i] # p =>
                  \E j \in 1 .. Len(Without(l, p)) : Without(l, p)[j] = l[i]
<1>1. CASE \A i \in 1 .. Len(l) : l[i] # p
  BY <1>1, Zenon DEF Without
<1>2. CASE \E i \in 1 .. Len(l) : l[i] = p
  <2> DEFINE at == CHOOSE k \in 1 .. Len(l) : l[k] = p /\ \A j \in 1 .. k - 1 : l[j] # p
             w == [i \in 1 .. Len(l) - 1 |-> IF i < at THEN l[i] ELSE l[i + 1]]
  <2>1. at \in 1 .. Len(l) /\ l[at] = p
    BY <1>2
  <2>2. Without(l, p) = w
    BY <1>2, Zenon DEF Without
  <2> HIDE DEF at
  <2>3. Len(l) - 1 \in Nat /\ \A i \in 1 .. Len(l) - 1 : w[i] \in Procs
    BY <2>1, ElementOfSeq
  <2>4. w \in Seq(Procs) /\ Len(w) = Len(l) - 1
    BY <2>3, IsASeq
  <2>5. \A i \in 1 .. Len(w) : w[i] # p
    BY <2>1, <2>4
  <2>6. \A i, j \in 1 .. Len(w) : i < j =>
            \E a, b \in 1 .. Len(l) : a < b /\ w[i] = l[a] /\ w[j] = l[b]
    <3> SUFFICES ASSUME NEW i \in 1 .. Len(w), NEW j \in 1 .. Len(w), i < j
                 PROVE  \E a, b \in 1 .. Len(l) : a < b /\ w[i] = l[a] /\ w[j] = l[b]
      BY Zenon
    <3>1. i \in 1 .. Len(l) /\ i + 1 \in 1 .. Len(l) /\ j \in 1 .. Len(l) /\ j + 1 \in 1 .. Len(l)
      BY <2>3, <2>4
    <3>2. w[i] = (IF i < at THEN l[i] ELSE l[i + 1]) /\ w[j] = (IF j < at THEN l[j] ELSE l[j + 1])
      BY <2>4, Zenon
    <3> HIDE DEF w
    <3>3. CASE j < at
      BY <3>1, <3>2, <3>3, <2>1
    <3>4. CASE i < at /\ ~(j < at)
      BY <3>1, <3>2, <3>4, <2>1
    <3>5. CASE ~(i < at) /\ ~(j < at)
      BY <3>1, <3>2, <3>5, <2>1
    <3> QED BY <3>3, <3>4, <3>5, <2>1, Zenon
  <2>7. \A i \in 1 .. Len(l) : l[i] # p => \E j \in 1 .. Len(w) : w[j] = l[i]
    <3> SUFFICES ASSUME NEW i \in 1 .. Len(l), l[i] # p
                 PROVE  \E j \in 1 .. Len(w) : w[j] = l[i]
      BY Zenon
    <3>1. CASE i < at
      BY <3>1, <2>1, <2>3, <2>4
    <3>2. CASE i > at
      <4>1. i - 1 \in 1 .. Len(w) /\ ~(i - 1 < at)
        BY <3>2, <2>1, <2>3, <2>4
      <4>2. w[i - 1] = l[i]
        BY <4>1, <2>3, <2>4
      <4> HIDE DEF w
      <4> QED BY <4>1, <4>2, Zenon
    <3> HIDE DEF w
    <3>3. i < at \/ i > at
      BY <2>1
    <3> QED BY <3>1, <3>2, <3>3, Zenon
  <2> HIDE DEF w
  <2> QED BY <2>2, <2>4, <2>5, <2>6, <2>7
<1> QED BY <1>1, <1>2, Zenon
-----------------------------------------------------------------------------
(* The inductive invariant.  The order of the list needs the lower half of *)
(* the clock's range: in the upper half a cleared alarm stops the search   *)
(* for the place of a new one.                                             *)
Inv == TypeOK /\ AlarmListed /\ NotEarly /\ (Half = 0 => Sorted)

(* With no alarm set the invariant holds.                                  *)
LEMMA InitInv == Init => Inv
BY AlarmAssumption DEF Init, Inv, TypeOK, AlarmListed, NotEarly, Sorted, Time, Locked

(* Alarms that are cleared, with or without the lock, leave the list as it *)
(* should be.                                                              *)
LEMMA ListKept ==
    ASSUME Inv, list' = list, \A q \in Procs : alarm'[q] = alarm[q] \/ alarm'[q] = Off
    PROVE  AlarmListed' /\ (Half = 0 => Sorted')
<1>1. AlarmListed'
  BY Zenon DEF Inv, AlarmListed
<1>2. \A i \in 1 .. Len(list) : list[i] \in Procs
  BY ElementOfSeq, Zenon DEF Inv, TypeOK
<1>3. Half = 0 => Sorted'
  BY <1>2 DEF Inv, Sorted
<1> QED BY <1>1, <1>3, Zenon

(* So does taking the head off, once it is cleared.                        *)
LEMMA HeadTaken ==
    ASSUME Inv, list # <<>>, list' = Tail(list), alarm'[Head(list)] = Off,
           \A q \in Procs : alarm'[q] = alarm[q] \/ alarm'[q] = Off
    PROVE  list' \in Seq(Procs) /\ AlarmListed' /\ (Half = 0 => Sorted')
<1>1. /\ Len(list) \in Nat \ {0} /\ Tail(list) \in Seq(Procs) /\ Len(Tail(list)) = Len(list) - 1
      /\ \A i \in 1 .. Len(Tail(list)) : Tail(list)[i] = list[i + 1]
      /\ Head(list) = list[1]
  BY HeadTailProperties, EmptySeq DEF Inv, TypeOK
<1>2. \A i \in 1 .. Len(list) : list[i] \in Procs
  BY ElementOfSeq, Zenon DEF Inv, TypeOK
<1>3. \A i \in 1 .. Len(list') : i + 1 \in 1 .. Len(list) /\ list'[i] = list[i + 1]
  BY <1>1
<1>4. \A i, j \in 1 .. Len(list') : i # j => list'[i] # list'[j]
  BY <1>1, <1>3 DEF Inv, AlarmListed
<1>5. ASSUME NEW q \in Procs, alarm'[q] # Off
      PROVE  \E i \in 1 .. Len(list') : list'[i] = q
  <2>1. PICK i \in 1 .. Len(list) : list[i] = q
    BY <1>5, Zenon DEF Inv, AlarmListed
  <2>2. i # 1
    BY <1>1, <1>5, <2>1, Zenon
  <2>3. i - 1 \in 1 .. Len(list') /\ list'[i - 1] = q
    BY <1>1, <2>1, <2>2
  <2> QED BY <2>3, Zenon
<1>6. ASSUME Half = 0 PROVE Sorted'
  BY <1>1, <1>2, <1>3, <1>6 DEF Inv, Sorted
<1> QED BY <1>1, <1>4, <1>5, <1>6, Zenon DEF AlarmListed

(* procalarm puts the alarm in its place.                                  *)
LEMMA EnlistInv ==
    ASSUME Inv, NEW p \in Procs, Enlist(p)
    PROVE  Inv'
<1> DEFINE w == Without(list, p)
           when == want[p]
<1>1. /\ list \in Seq(Procs) /\ alarm \in [Procs -> Time] /\ want \in [Procs -> Time]
      /\ \A i, j \in 1 .. Len(list) : i # j => list[i] # list[j]
  BY Zenon DEF Inv, TypeOK, AlarmListed
<1>2. /\ w \in Seq(Procs)
      /\ \A i \in 1 .. Len(w) : w[i] # p
      /\ \A i, j \in 1 .. Len(w) : i < j =>
             \E a, b \in 1 .. Len(list) : a < b /\ w[i] = list[a] /\ w[j] = list[b]
      /\ \A i \in 1 .. Len(list) : list[i] # p => \E j \in 1 .. Len(w) : w[j] = list[i]
  BY <1>1, WithoutProperties
<1>3. /\ list' = Insert(w, p, when) /\ when \in Time \ {Off} /\ kpc \notin Locked
      /\ alarm' = [alarm EXCEPT ![p] = when] /\ want' = [want EXCEPT ![p] = Off]
      /\ UNCHANGED <<life, debug, kpc, lag, rp, forme>>
  BY <1>1, Zenon DEF Enlist
<1> HIDE DEF w, when
<1>4. w \in Seq(Procs) /\ list' = Insert(w, p, when)
  BY <1>2, <1>3, Zenon
<1>5. PICK at \in 1 .. Len(w) + 1 : InsertedAt(list', w, p, when, at)
  BY <1>4, InsertProperties, Zenon
<1>6. /\ at <= Len(w) => Later(w[at], when)
      /\ \A j \in 1 .. at - 1 : ~Later(w[j], when)
      /\ list' = [i \in 1 .. Len(w) + 1 |-> IF i < at THEN w[i] ELSE IF i = at THEN p ELSE w[i - 1]]
  BY <1>5, Zenon DEF InsertedAt
<1>7. /\ Len(w) \in Nat /\ list' \in Seq(Procs) /\ Len(list') = Len(w) + 1
      /\ \A i \in 1 .. Len(w) : w[i] \in Procs
  <2>1. Len(w) \in Nat /\ \A i \in 1 .. Len(w) : w[i] \in Procs
    BY <1>2, ElementOfSeq
  <2>2. \A i \in 1 .. Len(w) + 1 : list'[i] \in Procs
    BY <1>6, <2>1
  <2>3. DOMAIN list' = 1 .. Len(w) + 1
    BY <1>6, Zenon
  <2>4. list' \in [1 .. Len(w) + 1 -> Procs]
    BY <1>6, <2>2, Zenon
  <2> QED BY <2>1, <2>4, IsASeq
<1>8. \A i \in 1 .. Len(list') :
          \/ i < at /\ i \in 1 .. Len(w) /\ list'[i] = w[i]
          \/ i = at /\ list'[i] = p
          \/ i > at /\ i - 1 \in 1 .. Len(w) /\ list'[i] = w[i - 1]
  BY <1>6, <1>7
<1>9. TypeOK'
  <2>1. alarm' \in [Procs -> Time] /\ want' \in [Procs -> Time]
    BY <1>1, <1>3, Zenon DEF Time
  <2> QED BY <2>1, <1>3, <1>7, Zenon DEF Inv, TypeOK
<1>10. AlarmListed'
  <2>1. \A i, j \in 1 .. Len(w) : i # j => w[i] # w[j]
    BY <1>1, <1>2, <1>7
  <2>2. \A i, j \in 1 .. Len(list') : i # j => list'[i] # list'[j]
    <3> SUFFICES ASSUME NEW i \in 1 .. Len(list'), NEW j \in 1 .. Len(list'), i # j
                 PROVE  list'[i] # list'[j]
      BY Zenon
    <3>1. i \in Int /\ j \in Int /\ at \in Int
      BY <1>7
    <3>2. CASE i = at
      <4>1. list'[i] = p /\ \E k \in 1 .. Len(w) : list'[j] = w[k]
        BY <3>1, <3>2, <1>8, SMTT(30)
      <4> QED BY <4>1, <1>2, Zenon
    <3>7. CASE j = at
      <4>1. list'[j] = p /\ \E k \in 1 .. Len(w) : list'[i] = w[k]
        BY <3>1, <3>7, <1>8
      <4> QED BY <4>1, <1>2, Zenon
    <3>3. CASE i < at /\ j < at
      BY <3>1, <3>3, <2>1, <1>8
    <3>4. CASE i < at /\ j > at
      <4>1. i # j - 1 /\ j - 1 \in 1 .. Len(w) /\ i \in 1 .. Len(w)
        BY <3>1, <3>4, <1>8
      <4> QED BY <4>1, <3>1, <3>4, <2>1, <1>8
    <3>5. CASE i > at /\ j < at
      <4>1. i - 1 # j /\ i - 1 \in 1 .. Len(w) /\ j \in 1 .. Len(w)
        BY <3>1, <3>5, <1>8
      <4> QED BY <4>1, <3>1, <3>5, <2>1, <1>8
    <3>6. CASE i > at /\ j > at
      <4>1. i - 1 # j - 1 /\ i - 1 \in 1 .. Len(w) /\ j - 1 \in 1 .. Len(w)
        BY <3>1, <3>6, <1>8
      <4>2. list'[i] = w[i - 1] /\ list'[j] = w[j - 1]
        BY <3>1, <3>6, <1>8
      <4> QED BY <4>1, <4>2, <2>1, Zenon
    <3> QED BY <3>1, <3>2, <3>3, <3>4, <3>5, <3>6, <3>7
  <2>3. ASSUME NEW q \in Procs, alarm'[q] # Off
        PROVE  \E i \in 1 .. Len(list') : list'[i] = q
    <3>1. CASE q = p
      BY <3>1, <1>6, <1>7
    <3>2. CASE q # p
      <4>1. PICK i \in 1 .. Len(list) : list[i] = q
        BY <2>3, <3>2, <1>1, <1>3, Zenon DEF Inv, AlarmListed
      <4>2. PICK j \in 1 .. Len(w) : w[j] = q
        BY <4>1, <3>2, <1>2, Zenon
      <4>3. CASE j < at
        <5>1. j \in 1 .. Len(list') /\ j # at /\ ~(j > at)
          BY <4>3, <1>7
        <5> QED BY <5>1, <4>2, <1>8, Zenon
      <4>4. CASE ~(j < at)
        <5>1. j + 1 \in 1 .. Len(list') /\ ~(j + 1 < at) /\ j + 1 # at /\ (j + 1) - 1 = j
          BY <4>2, <4>4, <1>7
        <5>2. list'[j + 1] = w[j]
          BY <5>1, <1>6, <1>7, Zenon
        <5> QED BY <5>1, <5>2, <4>2, Zenon
      <4> QED BY <4>3, <4>4, Zenon
    <3> QED BY <3>1, <3>2, Zenon
  <2> QED BY <2>2, <2>3, Zenon DEF AlarmListed
<1>11. ASSUME Half = 0 PROVE Sorted'
  <2>1. \A i, j \in 1 .. Len(w) :
            i < j /\ alarm[w[i]] # Off /\ alarm[w[j]] # Off => alarm[w[i]] <= alarm[w[j]]
    <3> SUFFICES ASSUME NEW i \in 1 .. Len(w), NEW j \in 1 .. Len(w), i < j,
                        alarm[w[i]] # Off, alarm[w[j]] # Off
                 PROVE  alarm[w[i]] <= alarm[w[j]]
      BY Zenon
    <3>1. PICK a \in 1 .. Len(list), b \in 1 .. Len(list) :
              a < b /\ w[i] = list[a] /\ w[j] = list[b]
      BY <1>2, Zenon
    <3> QED BY <3>1, <1>11, Zenon DEF Inv, Sorted
  <2>2. \A i \in 1 .. Len(w) : alarm'[w[i]] = alarm[w[i]] /\ alarm[w[i]] \in Int \cup {Off}
    BY <1>1, <1>2, <1>3, <1>7, AlarmAssumption DEF Time
  <2>3. alarm'[p] = when /\ when \in Int
    BY <1>1, <1>3, AlarmAssumption DEF Time
  <2>4. \A i \in 1 .. Len(w) : i < at /\ alarm[w[i]] # Off => alarm[w[i]] <= when
    BY <1>6, <1>7, <1>11, <2>2, <2>3 DEF Later
  <2>5. at <= Len(w) => alarm[w[at]] # Off /\ when <= alarm[w[at]]
    BY <1>6, <1>11, <2>3 DEF Later
  <2>6. \A i \in 1 .. Len(w) : at <= i /\ alarm[w[i]] # Off => when <= alarm[w[i]]
    BY <2>1, <2>2, <2>3, <2>5, <1>6, <1>7
  <2> SUFFICES ASSUME NEW i \in 1 .. Len(list'), NEW j \in 1 .. Len(list'), i < j,
                      alarm'[list'[i]] # Off, alarm'[list'[j]] # Off
               PROVE  alarm'[list'[i]] <= alarm'[list'[j]]
    BY Zenon DEF Sorted
  <2>7. CASE i < at /\ j < at
    BY <2>7, <2>1, <2>2, <1>8, SMTT(30)
  <2>8. CASE i < at /\ j = at
    BY <2>8, <2>2, <2>3, <2>4, <1>8
  <2>9. CASE i < at /\ j > at
    <3>1. i < j - 1 /\ i \in 1 .. Len(w) /\ j - 1 \in 1 .. Len(w)
      BY <2>9, <1>7, <1>8
    <3>2. list'[i] = w[i] /\ list'[j] = w[j - 1]
      <4>1. ~(i > at) /\ i # at /\ ~(j < at) /\ j # at
        BY <2>9, <1>7
      <4> QED BY <2>9, <4>1, <1>8, Zenon
    <3> QED BY <3>1, <3>2, <2>1, <2>2, Zenon
  <2>10. CASE i = at
    BY <2>10, <2>2, <2>3, <2>6, <1>7, <1>8
  <2>11. CASE i > at
    <3>1. i - 1 < j - 1 /\ i - 1 \in 1 .. Len(w) /\ j - 1 \in 1 .. Len(w)
      BY <2>11, <1>7, <1>8
    <3>2. list'[i] = w[i - 1] /\ list'[j] = w[j - 1]
      BY <2>11, <1>7, <1>8
    <3> QED BY <3>1, <3>2, <2>1, <2>2, Zenon
  <2> QED BY <2>7, <2>8, <2>9, <2>10, <2>11, <1>7
<1>12. NotEarly'
  BY <1>3, Zenon DEF NotEarly, Locked
<1> QED BY <1>9, <1>10, <1>11, <1>12, Zenon DEF Inv

(* The clock makes every alarm one tick shorter.                           *)
LEMMA TickInv ==
    ASSUME Inv, Tick
    PROVE  Inv'
<1>1. /\ alarm \in [Procs -> Time] /\ want \in [Procs -> Time] /\ lag \in 0 .. MaxLate
      /\ kpc \in Locked \cup {"now", "lock", "sleep", "asleep"}
  BY Zenon DEF Inv, TypeOK
<1>2. /\ UNCHANGED <<list, life, debug, rp, forme>>
      /\ kpc' = kpc \/ (kpc = "asleep" /\ kpc' = "now")
  BY Zenon DEF Tick, checkalarms
<1>3. CASE UNCHANGED <<alarm, want, lag>>
  <2>1. TypeOK' /\ NotEarly'
    BY <1>1, <1>2, <1>3, Zenon DEF Inv, TypeOK, NotEarly, Locked
  <2>2. AlarmListed' /\ (Half = 0 => Sorted')
    BY <1>2, <1>3, ListKept, Zenon
  <2> QED BY <2>1, <2>2, Zenon DEF Inv
<1>4. CASE /\ ~(lag = MaxLate \/ \E p \in Procs : alarm[p] = -MaxLate \/ want[p] = -MaxLate)
           /\ alarm' = [p \in Procs |-> Less(alarm[p])]
           /\ want' = [p \in Procs |-> Less(want[p])]
           /\ lag' = IF kpc \in Locked \cup {"lock"} THEN lag + 1 ELSE 0
  <2>1. \A t \in Time : t # -MaxLate => Less(t) \in Time /\ (Less(t) = Off <=> t = Off) /\ (t # Off => Less(t) = t - 1)
    BY AlarmAssumption DEF Time, Less
  <2>2. /\ alarm' \in [Procs -> Time] /\ want' \in [Procs -> Time] /\ lag' \in 0 .. MaxLate
        /\ \A p \in Procs : /\ alarm'[p] = Off <=> alarm[p] = Off
                            /\ alarm[p] # Off => alarm'[p] = alarm[p] - 1 /\ alarm[p] \in Int
    <3>1. lag' \in 0 .. MaxLate
      BY <1>1, <1>4, AlarmAssumption
    <3>2. \A p \in Procs : alarm[p] \in Time /\ want[p] \in Time /\ alarm[p] # -MaxLate /\ want[p] # -MaxLate
      BY <1>1, <1>4, Zenon
    <3>3. \A p \in Procs : alarm[p] # Off => alarm[p] \in Int
      BY <3>2, AlarmAssumption DEF Time
    <3> QED BY <3>1, <3>2, <3>3, <1>4, <2>1, Zenon
  <2>3. TypeOK'
    BY <1>1, <1>2, <2>2, Zenon DEF Inv, TypeOK, Locked
  <2>4. AlarmListed'
    BY <1>2, <2>2, Zenon DEF Inv, AlarmListed
  <2>5. Half = 0 => Sorted'
    <3>1. \A i \in 1 .. Len(list) : list[i] \in Procs
      BY ElementOfSeq, Zenon DEF Inv, TypeOK
    <3> QED BY <3>1, <1>2, <2>2 DEF Inv, Sorted
  <2>6. NotEarly'
    <3> SUFFICES ASSUME kpc' \in {"post", "clear"} PROVE NotEarly'
      BY Zenon DEF NotEarly
    <3>1. kpc \in {"post", "clear"} /\ rp \in Procs /\ rp' = rp /\ list' = list /\ lag' = lag + 1
      BY <1>1, <1>2, <1>4, Zenon DEF Inv, TypeOK, Locked
    <3>2. (alarm[rp] = Off \/ alarm[rp] <= -lag) /\ list # <<>> /\ Head(list) = rp
      BY <3>1, Zenon DEF Inv, NotEarly
    <3>3. alarm'[rp] = Off \/ alarm'[rp] <= -(lag + 1)
      BY <3>1, <3>2, <2>2, <1>1, AlarmAssumption
    <3> QED BY <3>1, <3>2, <3>3, Zenon DEF NotEarly
  <2> QED BY <2>3, <2>4, <2>5, <2>6, Zenon DEF Inv
<1> QED BY <1>3, <1>4, Zenon DEF Tick

(* Clearing an alarm, exiting and being debugged.                          *)
LEMMA LifeInv ==
    ASSUME Inv, NEW p \in Procs,
           Clear(p) \/ (\E t \in 0 .. MaxTime : Ask(p, t)) \/ Life(p)
    PROVE  Inv'
<1>1. UNCHANGED <<list, kpc, lag, rp>> /\ forme' \in {0, 1}
  BY Zenon DEF Inv, TypeOK, Clear, Ask, Life, Exiting, Exit, Newproc, Debugger
<1>2. alarm' \in [Procs -> Time] /\ \A q \in Procs : alarm'[q] = alarm[q] \/ alarm'[q] = Off
  BY Zenon DEF Inv, TypeOK, Time, Clear, Ask, Life, Exiting, Exit, Newproc, Debugger
<1>3. want' \in [Procs -> Time]
  <2>1. \A t \in 0 .. MaxTime : t \in Time
    BY AlarmAssumption DEF Time
  <2> QED BY <2>1, Zenon DEF Inv, TypeOK, Clear, Ask, Life, Exiting, Exit, Newproc, Debugger
<1>4. life' \in [Procs -> {"alive", "exiting", "dead"}] /\ debug' \in [Procs -> {0, 1}]
  BY DEF Inv, TypeOK, Clear, Ask, Life, Exiting, Exit, Newproc, Debugger
<1>5. TypeOK'
  BY <1>1, <1>2, <1>3, <1>4, Zenon DEF Inv, TypeOK
<1>6. AlarmListed' /\ (Half = 0 => Sorted')
  BY <1>1, <1>2, ListKept, Zenon
<1>7. NotEarly'
  BY <1>1, <1>2, Zenon DEF Inv, TypeOK, NotEarly
<1> QED BY <1>5, <1>6, <1>7, Zenon DEF Inv

(* alarmkproc.                                                             *)
LEMMA KprocInv ==
    ASSUME Inv, alarmkproc
    PROVE  Inv'
<1> USE DEF Locked
<1>1. CASE Now \/ Lock \/ Sleep
  <2>1. /\ UNCHANGED <<list, alarm, want, life, debug, lag, rp, forme>>
        /\ kpc \notin {"post", "clear"} /\ kpc' \in {"lock", "test", "asleep"}
    BY <1>1, Zenon DEF Now, Lock, Sleep
  <2>2. TypeOK' /\ NotEarly'
    BY <2>1, Zenon DEF Inv, TypeOK, NotEarly
  <2> QED BY <2>1, <2>2, ListKept, Zenon DEF Inv
<1>2. CASE Test
  <2>1. kpc = "test" /\ UNCHANGED <<alarm, want, life, debug>>
    BY <1>2, Zenon DEF Test
  <2>2. CASE list = <<>> \/ ~Reached(alarm[Head(list)], lag)
    <3>1. kpc' = "sleep" /\ lag' = 0 /\ UNCHANGED <<list, rp, forme>>
      BY <1>2, <2>2, Zenon DEF Test
    <3>2. TypeOK' /\ NotEarly'
      BY <2>1, <3>1, AlarmAssumption DEF Inv, TypeOK, NotEarly
    <3> QED BY <2>1, <3>1, <3>2, ListKept, Zenon DEF Inv
  <2>3. CASE list # <<>> /\ Reached(alarm[Head(list)], lag) /\ alarm[Head(list)] = Off
    <3>1. list' = Tail(list) /\ UNCHANGED <<kpc, lag, rp, forme>>
      BY <1>2, <2>3, Zenon DEF Test
    <3>2. list' \in Seq(Procs) /\ AlarmListed' /\ (Half = 0 => Sorted')
      BY <2>1, <2>3, <3>1, HeadTaken, Zenon
    <3>3. TypeOK' /\ NotEarly'
      BY <2>1, <3>1, <3>2, Zenon DEF Inv, TypeOK, NotEarly
    <3> QED BY <3>2, <3>3, Zenon DEF Inv
  <2>4. CASE list # <<>> /\ Reached(alarm[Head(list)], lag) /\ alarm[Head(list)] # Off
    <3>1. kpc' = "post" /\ rp' = Head(list) /\ forme' = 1 /\ UNCHANGED <<list, lag>>
      BY <1>2, <2>4, Zenon DEF Test
    <3>2. Head(list) \in Procs
      BY <2>4, HeadTailProperties, Zenon DEF Inv, TypeOK
    <3>3. TypeOK' /\ NotEarly'
      BY <2>1, <2>4, <3>1, <3>2, Zenon DEF Inv, TypeOK, NotEarly, Reached
    <3> QED BY <2>1, <3>1, <3>3, ListKept, Zenon DEF Inv
  <2> QED BY <2>2, <2>3, <2>4, Zenon
<1>3. CASE Post
  <2>1. /\ kpc = "post" /\ UNCHANGED <<list, alarm, want, life, debug>> /\ forme' = 0
        /\ \/ kpc' = "clear" /\ lag' = lag /\ rp' = rp
           \/ kpc' = "sleep" /\ lag' = 0 /\ rp' = None
    BY <1>3, Zenon DEF Post
  <2>2. TypeOK' /\ NotEarly'
    BY <2>1, AlarmAssumption DEF Inv, TypeOK, NotEarly
  <2> QED BY <2>1, <2>2, ListKept, Zenon DEF Inv
<1>4. CASE ClearPosted
  <2>1. /\ kpc = "clear" /\ alarm' = [alarm EXCEPT ![rp] = Off] /\ list' = Tail(list)
        /\ rp' = None /\ kpc' = "test" /\ UNCHANGED <<want, life, debug, lag, forme>>
    BY <1>4, Zenon DEF ClearPosted
  <2>2. rp \in Procs /\ list # <<>> /\ Head(list) = rp /\ alarm \in [Procs -> Time]
    BY <2>1, Zenon DEF Inv, TypeOK, NotEarly
  <2>3. /\ alarm' \in [Procs -> Time] /\ alarm'[rp] = Off
        /\ \A q \in Procs : alarm'[q] = alarm[q] \/ alarm'[q] = Off
    BY <2>1, <2>2, Zenon DEF Time
  <2>4. list' \in Seq(Procs) /\ AlarmListed' /\ (Half = 0 => Sorted')
    BY <2>1, <2>2, <2>3, HeadTaken, Zenon
  <2>5. TypeOK' /\ NotEarly'
    BY <2>1, <2>3, <2>4, Zenon DEF Inv, TypeOK, NotEarly
  <2> QED BY <2>4, <2>5, Zenon DEF Inv
<1> QED BY <1>1, <1>2, <1>3, <1>4, Zenon DEF alarmkproc

(* Every step keeps the invariant.                                         *)
LEMMA NextInv == Inv /\ [Next]_vars => Inv'
<1> SUFFICES ASSUME Inv, [Next]_vars PROVE Inv'
  BY Zenon
<1>1. CASE UNCHANGED vars
  BY <1>1, Zenon DEF vars, Inv, TypeOK, AlarmListed, NotEarly, Sorted
<1>2. CASE \E p \in Procs : Proc(p)
  BY <1>2, LifeInv, EnlistInv, Zenon DEF Proc
<1>3. CASE \E p \in Mortal : Life(p)
  BY <1>3, LifeInv, AlarmAssumption, Zenon
<1>4. CASE Tick
  BY <1>4, TickInv, Zenon
<1>5. CASE alarmkproc
  BY <1>5, KprocInv, Zenon
<1> QED BY <1>1, <1>2, <1>3, <1>4, <1>5, Zenon DEF Next

(* The invariant holds in every behaviour.                                 *)
LEMMA InvHolds == Spec => []Inv
BY InitInv, NextInv, PTL DEF Spec

-----------------------------------------------------------------------------
(* The variables have their types.                                         *)
THEOREM TypeCorrect == Spec => []TypeOK
<1>1. Inv => TypeOK
  BY Zenon DEF Inv
<1> QED BY <1>1, InvHolds, PTL

(* alarm.c keeps every alarm that is set on the list, and no Proc twice,   *)
(* though processes exit and are used again while they are on it.          *)
THEOREM AlarmListedHolds == Spec => []AlarmListed
<1>1. Inv => AlarmListed
  BY Zenon DEF Inv
<1> QED BY <1>1, InvHolds, PTL

(* alarmkproc posts no alarm before its time, and the process it takes off *)
(* the list after the note is the one it posted to.                        *)
THEOREM NotEarlyHolds == Spec => []NotEarly
<1>1. Inv => NotEarly
  BY Zenon DEF Inv
<1> QED BY <1>1, InvHolds, PTL

(* In the first 248 days procalarm keeps the list in the order of the      *)
(* times, whatever is cleared without the lock.                            *)
THEOREM SortedHolds ==
    ASSUME Half = 0
    PROVE  Spec => []Sorted
<1>1. Inv => Sorted
  BY Zenon DEF Inv
<1> QED BY <1>1, InvHolds, PTL

(* Then alarmkproc never goes to sleep beside an alarm that was due when   *)
(* it read the clock.                                                      *)
THEOREM NoneLeftHolds ==
    ASSUME Half = 0
    PROVE  Spec => NoneLeft
<1>1. ASSUME Inv, [Next]_vars, kpc = "test", kpc' = "sleep", NEW p \in Procs
      PROVE  alarm[p] = Off \/ alarm[p] > -lag
  <2>1. Test
    BY <1>1, Zenon DEF Next, vars, Proc, Life, Clear, Ask, Enlist, Exiting, Exit, Newproc, Debugger,
       Tick, checkalarms, alarmkproc, Now, Lock, Post, ClearPosted, Sleep
  <2>2. list = <<>> \/ ~Reached(alarm[Head(list)], lag)
    BY <1>1, <2>1, Zenon DEF Test
  <2> SUFFICES ASSUME alarm[p] # Off PROVE alarm[p] > -lag
    BY Zenon
  <2>3. PICK i \in 1 .. Len(list) : list[i] = p
    BY <1>1, Zenon DEF Inv, AlarmListed
  <2>4. Len(list) \in Nat /\ list \in Seq(Procs) /\ list # <<>> /\ Head(list) = list[1] /\ 1 \in 1 .. Len(list)
    BY <1>1, <2>3, HeadTailProperties, EmptySeq DEF Inv, TypeOK
  <2>5. list[1] \in Procs
    BY <2>4, ElementOfSeq, Zenon
  <2>6. /\ alarm[list[1]] \in Int \cup {Off} /\ alarm[p] \in Int \cup {Off} /\ lag \in Int
    BY <1>1, <2>5, AlarmAssumption DEF Inv, TypeOK, Time
  <2>7. alarm[list[1]] # Off /\ alarm[list[1]] > -lag
    BY <2>2, <2>4, <2>6 DEF Reached
  <2>8. alarm[list[1]] <= alarm[p]
    BY <1>1, <2>3, <2>4, <2>6, <2>7 DEF Inv, Sorted
  <2> QED BY <2>6, <2>7, <2>8
<1>2. Inv /\ [Next]_vars =>
        [kpc = "test" /\ kpc' = "sleep" => \A p \in Procs : alarm[p] = Off \/ alarm[p] > -lag]_vars
  BY <1>1, Zenon
<1> QED BY <1>2, InvHolds, PTL DEF Spec, NoneLeft
-----------------------------------------------------------------------------
(* Queue: its constants and its variables.                                 *)
CONSTANTS Readers, Writers, Limit, Blocks, OutBlocks, ReadLens, MaxLen

VARIABLES use, mode, blocks, len, dlen, closed, starve, flow, noblock, eof, rlock, wlock, rr, wr,
          pc, data, hold, ipc, cpc, released

(* The I/O queues of port/qio.c.                                           *)
Q == INSTANCE Queue

(* A block: its data and the size of its allocation.                       *)
Block == [d : Seq(Q!Byte), alloc : Nat]

(* The blocks of a queue with a reader, and those in the reader's hands.   *)
DataInv ==
    /\ data \in [Q!Procs -> Seq(Q!Byte)]
    /\ use # "output" => blocks \in Seq(Block)
    /\ hold \in [bs : Seq(Block), n : Nat]

(* A process between the lock and the unlock of an end holds its lock, and *)
(* the Rendez of that end names it when it sleeps.                         *)
ReaderInv ==
    \A p \in Readers :
        /\ pc[p] \in {"idle", "qwait", "rsleep", "asleep", "copy", "wakewr"}
        /\ pc[p] # "idle" <=> rlock = p
        /\ pc[p] = "asleep" <=> rr = p
        /\ pc[p] = "copy" => hold.bs # <<>>
        /\ pc[p] # "idle" => use # "output"

(* The same of the writers.                                                *)
WriterInv ==
    \A p \in Writers :
        /\ pc[p] \in {"idle", "qbwrite", "wakerr", "flow", "setflow", "wsleep", "asleep"}
        /\ pc[p] # "idle" <=> wlock = p
        /\ pc[p] = "asleep" <=> wr = p

(* A wakeup of the reader is on its way.                                   *)
Waking == ipc = "wakerr" \/ cpc = "wakeboth" \/ \E p \in Writers : pc[p] = "wakerr"

(* Qstarve is set while a reader sleeps or is about to, unless there is    *)
(* something to wake up for.                                               *)
StarveInv ==
    /\ \A p \in Readers : pc[p] = "rsleep" => starve = 1 \/ Q!notempty
    /\ rr # None => (starve = 1 /\ ~Q!notempty) \/ Waking

(* The inductive invariant of Queue.                                       *)
InvQ == Q!TypeOK /\ DataInv /\ ReaderInv /\ WriterInv /\ StarveInv

(* The processes at the two ends are different ones.                       *)
LEMMA Ends ==
    ASSUME Q!QueueAssumption
    PROVE  /\ \A p \in Readers : p \in Q!Procs /\ p \notin Writers /\ p # None
           /\ \A p \in Writers : p \in Q!Procs /\ p \notin Readers /\ p # None
BY Zenon DEF Q!QueueAssumption, Q!Procs

(* A new queue satisfies the invariant.                                    *)
LEMMA InitInvQ ==
    ASSUME Q!QueueAssumption
    PROVE  Q!Init => InvQ
<1> SUFFICES ASSUME Q!Init PROVE InvQ
  BY Zenon
<1>1. Q!TypeOK
  <2>1. noblock \in 0 .. 1
    BY DEF Q!Init, Q!Kinds
  <2> QED BY <2>1 DEF Q!Init, Q!TypeOK
<1>2. DataInv
  BY DEF Q!Init, DataInv, Q!NoHold
<1>3. ReaderInv /\ WriterInv
  BY Ends, Zenon DEF Q!Init, ReaderInv, WriterInv
<1>4. StarveInv
  BY Ends, Zenon DEF Q!Init, StarveInv
<1> QED BY <1>1, <1>2, <1>3, <1>4, Zenon DEF InvQ

(* What a step puts in the queue is a list of blocks.                      *)
LEMMA AddType ==
    ASSUME NEW d \in Seq(Q!Byte), blocks \in Seq(Block), Q!Add(d)
    PROVE  blocks' \in Seq(Block) /\ blocks' # <<>>
<1>1. Q!NewBlock(d) \in Block
  BY DEF Q!NewBlock, Block
<1>2. blocks' = Append(blocks, Q!NewBlock(d))
  BY Zenon DEF Q!Add, Q!SetBlocks
<1> QED BY <1>1, <1>2

(* The number of blocks that qread takes.                                  *)
LEMMA GrabType ==
    ASSUME NEW n \in Nat, blocks \in Seq(Block), blocks # <<>>
    PROVE  Q!Grab(n) \in 1 .. Len(blocks)
<1> DEFINE fits == {m \in 1 .. Len(blocks) : Len(Q!Flat(SubSeq(blocks, 1, m))) <= n}
<1>1. Len(blocks) \in Nat \ {0}
  BY EmptySeq, Zenon
<1>2. CASE mode # "coalesce" \/ fits = {}
  BY <1>1, <1>2 DEF Q!Grab
<1>3. CASE ~(mode # "coalesce" \/ fits = {})
  <2>1. fits \subseteq 1 .. Len(blocks) /\ fits # {}
    BY <1>3, Zenon
  <2>2. Q!Grab(n) = CHOOSE m \in fits : \A k \in fits : k <= m
    BY <1>3, Zenon DEF Q!Grab
  <2> HIDE DEF fits
  <2> DEFINE T == {Len(blocks) - m : m \in fits}
  <2>3. T \in SUBSET Nat /\ T # {}
    <3>1. \A m \in fits : Len(blocks) - m \in Nat
      BY <1>1, <2>1
    <3> QED BY <2>1, <3>1, Zenon
  <2>4. PICK t \in T : \A j \in T : t <= j
    BY <2>3, LeastNat, Zenon
  <2>5. PICK m \in fits : t = Len(blocks) - m
    BY <2>4, Zenon
  <2>6. \A k \in fits : k <= m
    <3> SUFFICES ASSUME NEW k \in fits PROVE k <= m
      BY Zenon
    <3>1. t <= Len(blocks) - k
      BY <2>4, Zenon
    <3> QED BY <1>1, <2>1, <2>5, <3>1
  <2>7. Q!Grab(n) \in fits
    BY <2>2, <2>6, Zenon
  <2> QED BY <2>1, <2>7, Zenon
<1> QED BY <1>2, <1>3, Zenon

(* What a reader does with the queue and the two Rendezes keeps the        *)
(* invariant when it leaves itself somewhere other than asleep or about to *)
(* sleep.                                                                  *)
LEMMA ReaderMoves ==
    ASSUME Q!QueueAssumption, InvQ, NEW p \in Readers, rlock = p, pc[p] # "asleep",
           NEW l \in {"idle", "qwait", "copy", "wakewr"},
           pc' = [pc EXCEPT ![p] = l],
           rlock' = IF l = "idle" THEN None ELSE p,
           UNCHANGED <<wlock, rr, wr, use, ipc, cpc, data, closed, noblock, released, starve>>,
           flow' \in 0 .. 1, eof' \in 0 .. 4,
           use # "output" => blocks' \in Seq(Block),
           hold' \in [bs : Seq(Block), n : Nat],
           l = "copy" => hold'.bs # <<>>
    PROVE  InvQ'
<1> USE Ends DEF InvQ
<1>1. rr = None /\ \A q \in Readers : q # p => pc[q] = "idle"
  BY Zenon DEF Q!TypeOK, ReaderInv
<1>2. pc'[p] = l /\ \A q \in Q!Procs : q # p => pc'[q] = pc[q]
  BY Zenon DEF Q!TypeOK
<1>3. Q!TypeOK'
  BY <1>1, Zenon DEF Q!TypeOK
<1>4. DataInv'
  BY Zenon DEF DataInv
<1>5. ReaderInv'
  BY <1>1, <1>2, Zenon DEF ReaderInv
<1>6. WriterInv'
  BY <1>2, Zenon DEF WriterInv
<1>7. StarveInv'
  BY <1>1, <1>2, Zenon DEF StarveInv
<1> QED BY <1>3, <1>4, <1>5, <1>6, <1>7, Zenon

(* The steps of a reader keep the invariant.                               *)
LEMMA ReaderStep ==
    ASSUME Q!QueueAssumption, InvQ, NEW p \in Readers, Q!Rlock(p) \/ Q!Reader(p) \/ Q!Note(p)
    PROVE  InvQ'
<1> USE Ends DEF InvQ
<1>0. pc[p] # "idle" => rlock = p /\ use # "output" /\ blocks \in Seq(Block)
  BY Zenon DEF ReaderInv, DataInv
<1>1. CASE Q!Rlock(p)
  <2>1. rr = None /\ \A q \in Readers : pc[q] = "idle"
    BY <1>1, Zenon DEF Q!Rlock, Q!TypeOK, ReaderInv
  <2>2. pc'[p] = "qwait" /\ \A q \in Q!Procs : q # p => pc'[q] = pc[q]
    BY <1>1, Zenon DEF Q!Rlock, Q!Goto, Q!TypeOK
  <2>3. Q!TypeOK'
    BY <1>1, <2>1, Zenon DEF Q!Rlock, Q!Goto, Q!TypeOK, Q!svars, Q!cvars
  <2>4. DataInv'
    BY <1>1, Zenon DEF Q!Rlock, DataInv, Q!bvars, Q!cvars
  <2>5. ReaderInv' /\ WriterInv'
    BY <1>1, <2>1, <2>2 DEF Q!Rlock, ReaderInv, WriterInv, Q!cvars
  <2>6. StarveInv'
    BY <1>1, <2>1, <2>2, Zenon DEF Q!Rlock, StarveInv
  <2> QED BY <2>3, <2>4, <2>5, <2>6, Zenon
<1>2. CASE Q!Eof(p)
  <2>1. rlock = p /\ pc[p] = "qwait" /\ pc' = [pc EXCEPT ![p] = "idle"] /\ rlock' = None
    BY <1>0, <1>2, Zenon DEF Q!Eof, Q!Goto
  <2>2. eof' \in 0 .. 4
    BY <1>2 DEF Q!Eof, Q!TypeOK
  <2>3. (use # "output" => blocks' \in Seq(Block)) /\ hold' \in [bs : Seq(Block), n : Nat]
    BY <1>2, Zenon DEF Q!Eof, DataInv, Q!bvars
  <2> QED BY <1>2, <2>1, <2>2, <2>3, ReaderMoves, Zenon DEF Q!Eof, Q!TypeOK, Q!cvars
<1>3. CASE Q!Starve(p)
  <2>1. rr = None /\ \A q \in Readers : q # p => pc[q] = "idle"
    BY <1>0, <1>3, Zenon DEF Q!Starve, Q!TypeOK, ReaderInv
  <2>2. pc'[p] = "rsleep" /\ \A q \in Q!Procs : q # p => pc'[q] = pc[q]
    BY <1>3, Zenon DEF Q!Starve, Q!Goto, Q!TypeOK
  <2>3. Q!TypeOK'
    BY <1>3 DEF Q!Starve, Q!Goto, Q!TypeOK, Q!cvars, Q!lvars
  <2>4. DataInv'
    BY <1>3, Zenon DEF Q!Starve, DataInv, Q!bvars, Q!cvars
  <2>5. ReaderInv' /\ WriterInv'
    BY <1>0, <1>3, <2>1, <2>2, Zenon DEF Q!Starve, ReaderInv, WriterInv, Q!cvars, Q!lvars
  <2>6. StarveInv'
    BY <1>3, <2>1, <2>2, Zenon DEF Q!Starve, StarveInv, Q!lvars
  <2> QED BY <2>3, <2>4, <2>5, <2>6, Zenon
<1>4. CASE Q!Rsleep(p)
  <2>1. CASE Q!notempty
    BY <1>0, <1>4, <2>1, ReaderMoves, Zenon DEF Q!Rsleep, Q!Goto, Q!TypeOK, DataInv, Q!bvars, Q!cvars, Q!svars
  <2>2. CASE ~Q!notempty
    <3>1. rr = None /\ \A q \in Readers : q # p => pc[q] = "idle"
      BY <1>0, <1>4, Zenon DEF Q!Rsleep, Q!TypeOK, ReaderInv
    <3>2. pc'[p] = "asleep" /\ rr' = p /\ \A q \in Q!Procs : q # p => pc'[q] = pc[q]
      BY <1>4, <2>2, Zenon DEF Q!Rsleep, Q!Goto, Q!TypeOK
    <3>3. Q!TypeOK'
      BY <1>0, <1>4, <2>2, Zenon DEF Q!Rsleep, Q!Goto, Q!TypeOK, Q!cvars, Q!svars
    <3>4. DataInv'
      BY <1>4, Zenon DEF Q!Rsleep, DataInv, Q!bvars, Q!cvars
    <3>5. ReaderInv' /\ WriterInv'
      BY <1>0, <1>4, <3>1, <3>2, Zenon DEF Q!Rsleep, ReaderInv, WriterInv, Q!cvars
    <3>6. StarveInv'
      BY <1>4, <2>2, <3>1, <3>2, Zenon DEF Q!Rsleep, StarveInv, Q!bvars, Q!svars, Q!notempty
    <3> QED BY <3>3, <3>4, <3>5, <3>6, Zenon
  <2> QED BY <2>1, <2>2, Zenon
<1>5. CASE Q!Copied(p)
  <2> DEFINE b == Head(hold.bs)
             rest == [b EXCEPT !.d = SubSeq(b.d, hold.n + 1, Len(b.d))]
  <2>1. rlock = p /\ blocks \in Seq(Block) /\ hold.bs # <<>> /\ pc[p] = "copy"
    BY <1>0, <1>5, Zenon DEF Q!Copied, ReaderInv
  <2>2. b \in Block /\ hold.n \in Nat
    BY <2>1 DEF DataInv
  <2> HIDE DEF b
  <2>3. rest \in Block
    <3>1. PICK x \in Seq(Q!Byte) : x = SubSeq(b.d, hold.n + 1, Len(b.d))
      <4>1. PICK d \in Seq(Q!Byte) : d = b.d
        BY <2>2, Zenon DEF Block
      <4>2. SubSeq(d, hold.n + 1, Len(d)) \in Seq(Q!Byte)
        BY <2>2
      <4> QED BY <4>1, <4>2, Zenon
    <3>2. [b EXCEPT !.d = x] \in Block
      BY <2>2, Zenon DEF Block
    <3> QED BY <3>1, <3>2, Zenon
  <2>4. blocks' \in Seq(Block)
    <3>1. blocks' = <<rest>> \o blocks \/ blocks' = blocks
      BY <1>5, Zenon DEF Q!Copied, Q!SetBlocks, Q!bvars, b
    <3> HIDE DEF rest
    <3>2. <<rest>> \in Seq(Block)
      BY <2>3
    <3>3. <<rest>> \o blocks \in Seq(Block)
      BY <2>1, <3>2, ConcatProperties, Zenon
    <3> QED BY <2>1, <3>1, <3>3, Zenon
  <2>5. \E l \in {"idle", "wakewr"} :
            pc' = [pc EXCEPT ![p] = l] /\ rlock' = IF l = "idle" THEN None ELSE p
    BY <1>5, <2>1, Zenon DEF Q!Copied, Q!Restart, Q!Goto
  <2>6. flow' \in 0 .. 1
    BY <1>5 DEF Q!Copied, Q!Restart, Q!TypeOK
  <2>7. hold' \in [bs : Seq(Block), n : Nat]
    BY <1>5 DEF Q!Copied, Q!NoHold
  <2> QED BY <1>5, <2>1, <2>4, <2>5, <2>6, <2>7, ReaderMoves, Zenon DEF Q!Copied, Q!TypeOK, Q!cvars
<1>6. CASE Q!ReaderWakes(p)
  <2>0. rlock = p /\ use # "output" /\ pc[p] = "wakewr"
    BY <1>0, <1>6, Zenon DEF Q!ReaderWakes
  <2>1. rr = None /\ \A q \in Readers : q # p => pc[q] = "idle"
    BY <2>0, Zenon DEF Q!TypeOK, ReaderInv
  <2>2. \A q \in Q!Procs : pc'[q] = IF q = wr THEN "flow" ELSE IF q = p THEN "idle" ELSE pc[q]
    BY <1>6, Zenon DEF Q!ReaderWakes, Q!WakeWR, Q!TypeOK
  <2>3. wr \in Writers \cup {None} /\ wr' = None /\ rlock' = None
    BY <1>6, Zenon DEF Q!ReaderWakes, Q!WakeWR, Q!TypeOK
  <2>4. Q!TypeOK'
    <3>1. pc' \in [Q!Procs -> {"idle", "qwait", "rsleep", "copy", "wakewr", "asleep", "qbwrite",
                               "wakerr", "flow", "setflow", "wsleep"}]
      BY <1>6, Zenon DEF Q!ReaderWakes, Q!WakeWR, Q!TypeOK
    <3> QED BY <1>6, <2>1, <2>3, <3>1, Zenon DEF Q!ReaderWakes, Q!TypeOK, Q!svars, Q!cvars
  <2>5. DataInv'
    BY <1>6, Zenon DEF Q!ReaderWakes, DataInv, Q!bvars, Q!cvars
  <2>6. ReaderInv'
    BY <1>6, <2>0, <2>1, <2>2, <2>3, Zenon DEF Q!ReaderWakes, ReaderInv, Q!cvars
  <2>7. WriterInv'
    BY <1>6, <2>0, <2>2, <2>3, Zenon DEF Q!ReaderWakes, WriterInv
  <2>8. StarveInv'
    BY <1>6, <2>1, <2>2, <2>3, Zenon DEF Q!ReaderWakes, StarveInv
  <2> QED BY <2>4, <2>5, <2>6, <2>7, <2>8, Zenon
<1>7. ASSUME NEW n \in ReadLens, Q!qread(p, n) PROVE InvQ'
  <2> DEFINE empty == mode = "coalesce" /\ Head(blocks).d = <<>>
             m == IF empty THEN 1 ELSE Q!Grab(n)
  <2>0. rlock = p /\ blocks \in Seq(Block) /\ blocks # <<>> /\ pc[p] = "qwait" /\ n \in Nat
    BY <1>0, <1>7, Zenon DEF Q!QueueAssumption, Q!qread
  <2>1. m \in 1 .. Len(blocks) /\ Len(blocks) \in Nat
    BY <2>0, GrabType, EmptySeq
  <2>2. /\ blocks' = SubSeq(blocks, m + 1, Len(blocks))
        /\ hold' = IF empty THEN hold ELSE [bs |-> SubSeq(blocks, 1, m), n |-> n]
        /\ pc' = [pc EXCEPT ![p] = IF empty THEN "qwait" ELSE "copy"]
    BY <1>7, Zenon DEF Q!qread, Q!SetBlocks, Q!Goto
  <2> HIDE DEF m, empty
  <2>3. blocks' \in Seq(Block)
    BY <2>0, <2>1, <2>2
  <2>4. SubSeq(blocks, 1, m) \in Seq(Block) /\ SubSeq(blocks, 1, m) # <<>>
    <3>1. SubSeq(blocks, 1, m) \in Seq(Block) /\ Len(SubSeq(blocks, 1, m)) = m
      BY <2>0, <2>1
    <3> QED BY <2>1, <3>1
  <2>5. hold' \in [bs : Seq(Block), n : Nat] /\ (~empty => hold'.bs # <<>>)
    BY <2>0, <2>2, <2>4, Zenon DEF DataInv
  <2> QED BY <1>7, <2>0, <2>2, <2>3, <2>5, ReaderMoves, Zenon DEF Q!qread, Q!TypeOK, Q!svars, Q!cvars, Q!lvars
<1>8. ASSUME NEW n \in ReadLens, Q!qbread(p, n) PROVE InvQ'
  <2> DEFINE b == Head(blocks)
             rest == SubSeq(b.d, n + 1, Len(b.d))
  <2>0. rlock = p /\ blocks \in Seq(Block) /\ blocks # <<>> /\ pc[p] = "qwait" /\ n \in Nat
    BY <1>0, <1>8, Zenon DEF Q!QueueAssumption, Q!qbread
  <2>1. b \in Block
    BY <2>0
  <2>2. blocks' = <<Q!NewBlock(rest)>> \o Tail(blocks) \/ blocks' = <<>> \o Tail(blocks)
    BY <1>8, Zenon DEF Q!qbread, Q!SetBlocks
  <2>3. Tail(blocks) \in Seq(Block)
    BY <2>0
  <2> HIDE DEF b
  <2>4. rest \in Seq(Q!Byte)
    BY <2>0, <2>1 DEF Block
  <2> HIDE DEF rest
  <2>5. Q!NewBlock(rest) \in Block
    BY <2>4 DEF Q!NewBlock, Block
  <2>6. blocks' \in Seq(Block)
    <3>1. <<Q!NewBlock(rest)>> \in Seq(Block) /\ <<>> \in Seq(Block)
      BY <2>5
    <3> QED BY <2>2, <2>3, <3>1, ConcatProperties, Zenon
  <2>7. \E l \in {"idle", "wakewr"} :
            pc' = [pc EXCEPT ![p] = l] /\ rlock' = IF l = "idle" THEN None ELSE p
    BY <1>8, <2>0, Zenon DEF Q!qbread, Q!Restart, Q!Goto
  <2>8. flow' \in 0 .. 1
    BY <1>8 DEF Q!qbread, Q!Restart, Q!TypeOK
  <2>9. hold' \in [bs : Seq(Block), n : Nat]
    BY <1>8, Zenon DEF Q!qbread, DataInv
  <2> QED BY <1>8, <2>0, <2>6, <2>7, <2>8, <2>9, ReaderMoves, Zenon DEF Q!qbread, Q!TypeOK, Q!cvars
<1>9. CASE Q!Note(p)
  <2>1. /\ rlock = p /\ pc[p] \in {"rsleep", "asleep"}
        /\ wlock' = wlock /\ wr' = wr /\ rr' = None /\ rlock' = None
    BY <1>0, <1>9, Zenon DEF Q!Note, Q!TypeOK, ReaderInv
  <2>2. \A q \in Readers : q # p => pc[q] = "idle"
    BY <2>1, Zenon DEF Q!TypeOK, ReaderInv
  <2>3. pc'[p] = "idle" /\ \A q \in Q!Procs : q # p => pc'[q] = pc[q]
    BY <1>9, Zenon DEF Q!Note, Q!Goto, Q!TypeOK
  <2>4. Q!TypeOK'
    BY <1>9, <2>1, Zenon DEF Q!Note, Q!Goto, Q!TypeOK, Q!svars, Q!cvars
  <2>5. DataInv'
    BY <1>9, Zenon DEF Q!Note, DataInv, Q!bvars, Q!cvars
  <2>6. ReaderInv' /\ WriterInv'
    BY <1>9, <2>1, <2>2, <2>3, Zenon DEF Q!Note, ReaderInv, WriterInv, Q!cvars
  <2>7. StarveInv'
    BY <2>1, <2>2, <2>3, Zenon DEF StarveInv
  <2> QED BY <2>4, <2>5, <2>6, <2>7, Zenon
<1> QED BY <1>1, <1>2, <1>3, <1>4, <1>5, <1>6, <1>7, <1>8, <1>9, Zenon DEF Q!Reader

(* Likewise for a writer that leaves the queue's blocks alone.             *)
LEMMA WriterMoves ==
    ASSUME Q!QueueAssumption, InvQ, NEW p \in Writers,
           NEW l \in {"idle", "qbwrite", "flow", "setflow", "wsleep", "asleep"},
           pc' = [pc EXCEPT ![p] = l], pc[p] # "wakerr",
           wlock \in {p, None}, wr \in {p, None},
           wlock' = IF l = "idle" THEN None ELSE p,
           wr' = IF l = "asleep" THEN p ELSE None,
           UNCHANGED <<blocks, rlock, rr, use, ipc, cpc, hold, closed, noblock, released, starve, eof>>,
           flow' \in 0 .. 1, data' \in [Q!Procs -> Seq(Q!Byte)]
    PROVE  InvQ'
<1> USE Ends DEF InvQ
<1>1. pc'[p] = l /\ \A q \in Q!Procs : q # p => pc'[q] = pc[q]
  BY Zenon DEF Q!TypeOK
<1>2. \A q \in Writers : q # p => pc[q] = "idle"
  BY Zenon DEF WriterInv
<1>3. Q!TypeOK'
  BY Zenon DEF Q!TypeOK
<1>4. DataInv'
  BY Zenon DEF DataInv
<1>5. ReaderInv'
  BY <1>1, Zenon DEF ReaderInv
<1>6. WriterInv'
  BY <1>1, <1>2, Zenon DEF WriterInv
<1>7. Waking => Waking'
  BY <1>1, Zenon DEF Waking
<1>8. StarveInv'
  BY <1>1, <1>7, Zenon DEF StarveInv, Q!notempty
<1> QED BY <1>3, <1>4, <1>5, <1>6, <1>8, Zenon

(* The steps of a writer keep the invariant.                               *)
LEMMA WriterStep ==
    ASSUME Q!QueueAssumption, InvQ, NEW p \in Writers,
           (\E d \in Blocks : Q!Wlock(p, d)) \/ Q!Writer(p) \/ Q!Note(p)
    PROVE  InvQ'
<1> USE Ends DEF InvQ
<1>0. pc[p] # "idle" => wlock = p /\ (pc[p] # "asleep" => wr = None)
  BY Zenon DEF Q!TypeOK, WriterInv
<1>1. ASSUME NEW d \in Blocks, Q!Wlock(p, d) PROVE InvQ'
  <2>1. data' \in [Q!Procs -> Seq(Q!Byte)]
    BY <1>1, Zenon DEF Q!QueueAssumption, Q!Wlock, DataInv
  <2>2. wr = None
    BY <1>1, Zenon DEF Q!Wlock, Q!TypeOK
  <2> QED BY <1>1, <2>1, <2>2, WriterMoves, Zenon DEF Q!Wlock, Q!Goto, Q!TypeOK, Q!bvars, Q!svars, Q!cvars
<1>2. CASE Q!Refused(p)
  <2>1. data' \in [Q!Procs -> Seq(Q!Byte)]
    BY <1>2 DEF Q!Refused, DataInv
  <2> QED BY <1>0, <1>2, <2>1, WriterMoves, Zenon DEF Q!Refused, Q!Goto, Q!TypeOK, Q!bvars, Q!svars, Q!cvars
<1>3. CASE Q!qbwrite(p)
  <2>0. wlock = p /\ wr = None /\ pc[p] = "qbwrite"
    BY <1>0, <1>3, Zenon DEF Q!qbwrite
  <2>1. \A q \in Writers : q # p => pc[q] = "idle"
    BY <2>0, Zenon DEF WriterInv
  <2>2. /\ pc'[p] = (IF starve = 1 THEN "wakerr" ELSE "flow")
        /\ \A q \in Q!Procs : q # p => pc'[q] = pc[q]
    BY <1>3, Zenon DEF Q!qbwrite, Q!Goto, Q!TypeOK
  <2>3. use # "output" => blocks' \in Seq(Block) /\ blocks' # <<>>
    BY <1>3, AddType, Zenon DEF Q!qbwrite, DataInv
  <2>4. Q!TypeOK'
    BY <1>3, Zenon DEF Q!qbwrite, Q!Goto, Q!TypeOK, Q!cvars, Q!lvars
  <2>5. DataInv'
    BY <1>3, <2>3 DEF Q!qbwrite, DataInv, Q!cvars
  <2>6. ReaderInv'
    BY <1>3, <2>2, Zenon DEF Q!qbwrite, ReaderInv, Q!cvars, Q!lvars
  <2>7. WriterInv'
    BY <1>3, <2>0, <2>2, Zenon DEF Q!qbwrite, WriterInv, Q!lvars
  <2>8. StarveInv'
    <3>1. \A q \in Readers : pc'[q] = "rsleep" => Q!notempty'
      BY <2>2, <2>3, Zenon DEF ReaderInv, Q!notempty
    <3>2. CASE starve = 1
      BY <2>2, <3>1, <3>2, Zenon DEF StarveInv, Waking
    <3>3. CASE starve = 0
      <4>1. rr' # None => Waking
        BY <1>3, <3>3 DEF StarveInv, Q!qbwrite, Q!lvars
      <4>2. Waking => Waking'
        BY <1>3, <2>0, <2>2, Zenon DEF Waking, Q!qbwrite
      <4> QED BY <3>1, <4>1, <4>2, Zenon DEF StarveInv
    <3> QED BY <3>2, <3>3 DEF Q!TypeOK
  <2> QED BY <2>4, <2>5, <2>6, <2>7, <2>8, Zenon
<1>4. CASE Q!WriterWakes(p)
  <2>0. wlock = p /\ wr = None /\ pc[p] = "wakerr"
    BY <1>0, <1>4, Zenon DEF Q!WriterWakes
  <2>1. \A q \in Q!Procs : pc'[q] = IF q = rr THEN "qwait" ELSE IF q = p THEN "flow" ELSE pc[q]
    BY <1>4, Zenon DEF Q!WriterWakes, Q!WakeRR, Q!TypeOK
  <2>2. rr \in Readers \cup {None} /\ rr' = None
    BY <1>4, Zenon DEF Q!WriterWakes, Q!WakeRR, Q!TypeOK
  <2>3. Q!TypeOK'
    <3>1. pc' \in [Q!Procs -> {"idle", "qwait", "rsleep", "copy", "wakewr", "asleep", "qbwrite",
                               "wakerr", "flow", "setflow", "wsleep"}]
      BY <1>4, Zenon DEF Q!WriterWakes, Q!WakeRR, Q!TypeOK
    <3> QED BY <1>4, <2>2, <3>1, Zenon DEF Q!WriterWakes, Q!TypeOK, Q!svars, Q!cvars
  <2>4. DataInv'
    BY <1>4, Zenon DEF Q!WriterWakes, DataInv, Q!bvars, Q!cvars
  <2>5. ReaderInv'
    BY <1>4, <2>1, <2>2, Zenon DEF Q!WriterWakes, ReaderInv, Q!cvars
  <2>6. WriterInv'
    BY <1>4, <2>0, <2>1, <2>2, Zenon DEF Q!WriterWakes, WriterInv
  <2>7. StarveInv'
    BY <1>4, <2>1, <2>2, Zenon DEF Q!WriterWakes, StarveInv, Q!notempty, Q!bvars, Q!svars
  <2> QED BY <2>3, <2>4, <2>5, <2>6, <2>7, Zenon
<1>5. CASE Q!Flow(p)
  <2>1. \E l \in {"idle", "setflow"} :
            pc' = [pc EXCEPT ![p] = l] /\ wlock' = IF l = "idle" THEN None ELSE p
    BY <1>0, <1>5, Zenon DEF Q!Flow, Q!Goto
  <2> QED BY <1>0, <1>5, <2>1, WriterMoves, Zenon DEF Q!Flow, Q!TypeOK, DataInv, Q!bvars, Q!svars, Q!cvars
<1>6. CASE Q!SetFlow(p)
  <2>1. /\ wlock = p /\ wr = None /\ pc[p] = "setflow" /\ pc' = [pc EXCEPT ![p] = "wsleep"]
        /\ wlock' = p /\ wr' = None /\ flow' \in 0 .. 1 /\ data' \in [Q!Procs -> Seq(Q!Byte)]
    BY <1>0, <1>6 DEF Q!SetFlow, Q!Goto, DataInv, Q!lvars
  <2> QED BY <1>6, <2>1, WriterMoves, Zenon DEF Q!SetFlow, Q!bvars, Q!cvars, Q!lvars
<1>7. CASE Q!Wsleep(p)
  <2>1. \E l \in {"flow", "asleep"} :
            pc' = [pc EXCEPT ![p] = l] /\ wr' = IF l = "asleep" THEN p ELSE None
    BY <1>0, <1>7, Zenon DEF Q!Wsleep, Q!Goto
  <2> QED BY <1>0, <1>7, <2>1, WriterMoves, Zenon DEF Q!Wsleep, Q!TypeOK, DataInv, Q!bvars, Q!svars, Q!cvars
<1>8. CASE Q!Note(p)
  <2>1. /\ wlock = p /\ pc[p] \in {"wsleep", "asleep"} /\ wr \in {p, None}
        /\ rlock' = rlock /\ rr' = rr /\ wr' = None /\ wlock' = None
    BY <1>0, <1>8, Zenon DEF Q!Note, Q!TypeOK, WriterInv
  <2> QED BY <1>8, <2>1, WriterMoves, Zenon DEF Q!Note, Q!Goto, Q!TypeOK, DataInv, Q!bvars, Q!svars, Q!cvars
<1> QED BY <1>1, <1>2, <1>3, <1>4, <1>5, <1>6, <1>7, <1>8, Zenon DEF Q!Writer

(* What the interrupt side or a close does, which leaves the processes     *)
(* where they are, keeps the invariant when a reader that sleeps or is     *)
(* about to is taken care of.                                              *)
LEMMA SideMoves ==
    ASSUME InvQ, UNCHANGED <<pc, rlock, wlock, rr, wr, use, data, hold>>, Q!TypeOK',
           use # "output" => blocks' \in Seq(Block),
           \A p \in Readers : pc[p] = "rsleep" => starve' = 1 \/ Q!notempty',
           rr # None => (starve' = 1 /\ ~Q!notempty') \/ Waking'
    PROVE  InvQ'
<1> USE DEF InvQ
<1>1. DataInv' /\ ReaderInv' /\ WriterInv'
  BY Zenon DEF DataInv, ReaderInv, WriterInv
<1>2. StarveInv'
  BY Zenon DEF StarveInv
<1> QED BY <1>1, <1>2, Zenon

(* Nobody reads the queue of a device's output.                            *)
LEMMA NoReader ==
    ASSUME Q!QueueAssumption, InvQ, use = "output"
    PROVE  rr = None /\ \A p \in Readers : pc[p] = "idle"
BY Ends, Zenon DEF InvQ, Q!TypeOK, ReaderInv

(* The interrupt side keeps the invariant.                                 *)
LEMMA DeviceStep ==
    ASSUME Q!QueueAssumption, InvQ, Q!Device
    PROVE  InvQ'
<1> USE DEF InvQ
<1>1. ASSUME NEW d \in Blocks, use = "input", ipc = "idle", Q!Produce(d), flow' \in 0 .. 1
      PROVE  InvQ'
  <2>1. blocks' \in Seq(Block) /\ blocks' # <<>>
    BY <1>1, AddType, Zenon DEF Q!QueueAssumption, Q!Produce, DataInv
  <2>2. Q!TypeOK'
    BY <1>1 DEF Q!Produce, Q!TypeOK, Q!cvars, Q!lvars
  <2>3. rr # None => Waking'
    <3>1. CASE starve = 1
      BY <1>1, <3>1, Zenon DEF Q!Produce, Waking
    <3>2. CASE starve = 0
      <4>1. rr # None => Waking
        BY <3>2 DEF StarveInv
      <4>2. Waking => Waking'
        BY <1>1, Zenon DEF Waking, Q!Produce
      <4> QED BY <4>1, <4>2, Zenon
    <3> QED BY <3>1, <3>2 DEF Q!TypeOK
  <2>4. Q!notempty'
    BY <2>1, Zenon DEF Q!notempty
  <2> QED BY <1>1, <2>1, <2>2, <2>3, <2>4, SideMoves, Zenon DEF Q!Produce, Q!cvars, Q!lvars
<1>2. ASSUME NEW d \in Blocks, Q!qproduce(d) \/ Q!qpass(d) \/ Q!qpassnolim(d) \/ Q!qiwrite(d)
      PROVE  InvQ'
  <2>1. use = "input" /\ ipc = "idle" /\ Q!Produce(d)
    BY <1>2, Zenon DEF Q!qproduce, Q!qpass, Q!qpassnolim, Q!qiwrite
  <2>2. flow' \in 0 .. 1
    BY <1>2 DEF Q!qproduce, Q!qpass, Q!qpassnolim, Q!qiwrite, Q!TypeOK
  <2> QED BY <1>1, <2>1, <2>2, Zenon
<1>3. CASE Q!qproduceFull
  <2>1. Q!TypeOK'
    BY <1>3 DEF Q!qproduceFull, Q!TypeOK, Q!cvars, Q!lvars
  <2>2. blocks' = blocks /\ (Q!notempty' <=> Q!notempty) /\ (Waking' <=> Waking) /\ starve' = starve
    BY <1>3, Zenon DEF Q!qproduceFull, Q!bvars, Q!notempty, Waking
  <2> QED BY <1>3, <2>1, <2>2, SideMoves, Zenon DEF Q!qproduceFull, StarveInv, DataInv, Q!cvars, Q!lvars
<1>4. ASSUME use = "output", Q!TypeOK', UNCHANGED <<Q!cvars, Q!lvars, pc, data, hold>> PROVE InvQ'
  BY <1>4, NoReader, SideMoves, Zenon DEF Q!cvars, Q!lvars
<1>5. CASE use = "output" /\ Q!Consumed
  <2>1. Q!TypeOK'
    BY <1>5 DEF Q!Consumed, Q!TypeOK, Q!cvars, Q!lvars
  <2> QED BY <1>4, <1>5, <2>1, Zenon DEF Q!Consumed
<1>6. CASE Q!qgetEmpty
  <2>1. Q!TypeOK'
    BY <1>6 DEF Q!qgetEmpty, Q!TypeOK, Q!cvars, Q!lvars
  <2> QED BY <1>4, <1>6, <2>1, Zenon DEF Q!qgetEmpty
<1>7. ASSUME NEW n \in ReadLens, Q!qconsume(n) PROVE InvQ'
  <2>1. use = "output"
    BY <1>7, Zenon DEF Q!qconsume
  <2>2. CASE {i \in 1 .. Len(blocks) : blocks[i].d # <<>>} = {}
    <3>1. starve' = 1 /\ UNCHANGED <<closed, flow, noblock, eof, Q!cvars, Q!lvars, pc, data, hold, ipc, cpc>>
      BY <1>7, <2>2, Zenon DEF Q!qconsume
    <3>2. Q!TypeOK'
      BY <3>1 DEF Q!TypeOK, Q!cvars, Q!lvars
    <3> QED BY <1>4, <2>1, <3>1, <3>2, Zenon
  <2>3. CASE {i \in 1 .. Len(blocks) : blocks[i].d # <<>>} # {}
    <3>1. Q!Consumed
      BY <1>7, <2>3, Zenon DEF Q!qconsume
    <3> QED BY <1>5, <2>1, <3>1, Zenon
  <2> QED BY <2>2, <2>3, Zenon
<1> QED BY <1>2, <1>3, <1>5, <1>6, <1>7, Zenon DEF Q!Device, Q!qget, Q!qdiscard

(* So do a close, a hangup, a flush and a reopening.                       *)
LEMMA CloseStep ==
    ASSUME Q!QueueAssumption, InvQ, Q!qclose \/ Q!qhangup \/ Q!qflush \/ Q!qreopen
    PROVE  InvQ'
<1> USE DEF InvQ
<1>1. CASE Q!qclose
  <2>1. Q!TypeOK'
    BY <1>1 DEF Q!qclose, Q!TypeOK, Q!lvars
  <2>2. blocks' \in Seq(Block) /\ Q!notempty' /\ Waking'
    BY <1>1 DEF Q!qclose, Q!SetBlocks, Q!notempty, Waking
  <2> QED BY <1>1, <2>1, <2>2, SideMoves, Zenon DEF Q!qclose, Q!lvars
<1>2. CASE Q!qhangup
  <2>1. Q!TypeOK'
    BY <1>2 DEF Q!qhangup, Q!TypeOK, Q!cvars, Q!lvars
  <2>2. blocks' = blocks /\ Q!notempty' /\ Waking'
    BY <1>2, Zenon DEF Q!qhangup, Q!bvars, Q!notempty, Waking
  <2> QED BY <1>2, <2>1, <2>2, SideMoves, Zenon DEF Q!qhangup, DataInv, Q!cvars, Q!lvars
<1>3. CASE Q!qflush
  <2>1. Q!TypeOK'
    BY <1>3, Zenon DEF Q!qflush, Q!TypeOK, Q!svars, Q!cvars, Q!lvars
  <2>2. blocks' \in Seq(Block) /\ (Waking => Waking')
    BY <1>3 DEF Q!qflush, Q!SetBlocks, Waking
  <2>3. CASE use = "output"
    BY <1>3, <2>1, <2>2, <2>3, NoReader, SideMoves, Zenon DEF Q!qflush, Q!cvars, Q!lvars
  <2>4. CASE closed = 1
    <3>1. Q!notempty /\ Q!notempty'
      BY <1>3, <2>4, Zenon DEF Q!qflush, Q!svars, Q!notempty
    <3>2. rr # None => Waking'
      BY <2>2, <3>1, Zenon DEF StarveInv
    <3> QED BY <1>3, <2>1, <2>2, <3>1, <3>2, SideMoves, Zenon DEF Q!qflush, Q!cvars, Q!lvars
  <2> QED BY <1>3, <2>3, <2>4, Zenon DEF Q!qflush
<1>4. CASE Q!qreopen
  <2>1. Q!TypeOK'
    BY <1>4 DEF Q!qreopen, Q!TypeOK, Q!lvars
  <2>2. rr = None /\ \A p \in Readers : pc[p] = "idle"
    BY <1>4, Ends, Zenon DEF Q!qreopen, Q!Absent, Q!TypeOK, ReaderInv
  <2> QED BY <1>4, <2>1, <2>2, SideMoves, Zenon DEF Q!qreopen, DataInv, Q!bvars, Q!lvars
<1> QED BY <1>1, <1>2, <1>3, <1>4, Zenon

(* A wakeup of either Rendez, or of both, keeps the invariant when it does *)
(* not take away the one that a sleeping reader needs.                     *)
LEMMA WakeMoves ==
    ASSUME Q!QueueAssumption, InvQ, Q!TypeOK',
           UNCHANGED <<Q!bvars, Q!svars, Q!cvars, rlock, wlock, data, hold>>,
           rr' \in {rr, None}, wr' \in {wr, None},
           \A p \in Q!Procs : pc'[p] = IF p = rr /\ rr' = None THEN "qwait"
                                       ELSE IF p = wr /\ wr' = None THEN "flow" ELSE pc[p],
           rr' # None => (Waking => Waking')
    PROVE  InvQ'
<1> USE Ends DEF InvQ
<1>1. rr \in Readers \cup {None} /\ wr \in Writers \cup {None}
  BY Zenon DEF Q!TypeOK
<1>2. DataInv'
  BY Zenon DEF DataInv, Q!bvars, Q!cvars
<1>3. ReaderInv'
  BY <1>1 DEF ReaderInv, Q!cvars
<1>4. WriterInv'
  BY <1>1 DEF WriterInv
<1>5. StarveInv'
  <2>1. (Q!notempty' <=> Q!notempty) /\ starve' = starve
    BY Zenon DEF Q!notempty, Q!bvars, Q!svars
  <2>2. \A p \in Readers : pc'[p] = "rsleep" => pc[p] = "rsleep"
    BY <1>1, Zenon
  <2> QED BY <2>1, <2>2, Zenon DEF StarveInv
<1> QED BY <1>2, <1>3, <1>4, <1>5, Zenon

(* The wakeups that the interrupt side and the closer make.                *)
LEMMA WakeStep ==
    ASSUME Q!QueueAssumption, InvQ, Q!InterruptWakes \/ Q!CloserWakes
    PROVE  InvQ'
<1> USE Ends DEF InvQ
<1> DEFINE L == {"idle", "qwait", "rsleep", "copy", "wakewr", "asleep", "qbwrite",
                 "wakerr", "flow", "setflow", "wsleep"}
<1>0. /\ rr \in Readers \cup {None} /\ wr \in Writers \cup {None} /\ pc \in [Q!Procs -> L]
      /\ \A p \in Q!Procs : p # None
  BY Zenon DEF Q!QueueAssumption, Q!TypeOK, Q!Procs
<1>1. CASE Q!InterruptWakes
  <2>1. CASE ipc = "wakerr" /\ Q!WakeRR(pc) /\ UNCHANGED wr
    <3>1. /\ rr' = None /\ wr' = wr /\ pc' \in [Q!Procs -> L]
          /\ \A p \in Q!Procs : pc'[p] = IF p = rr THEN "qwait" ELSE pc[p]
      BY <1>0, <2>1, Zenon DEF Q!WakeRR
    <3>2. Q!TypeOK'
      BY <1>1, <3>1, Zenon DEF Q!InterruptWakes, Q!TypeOK, Q!svars, Q!cvars
    <3>3. \A p \in Q!Procs : pc'[p] = IF p = rr /\ rr' = None THEN "qwait"
                                      ELSE IF p = wr /\ wr' = None THEN "flow" ELSE pc[p]
      BY <1>0, <3>1, Zenon
    <3> QED BY <1>1, <3>1, <3>2, <3>3, WakeMoves, Zenon DEF Q!InterruptWakes
  <2>2. CASE ipc = "wakewr" /\ Q!WakeWR(pc) /\ UNCHANGED rr
    <3>1. /\ rr' = rr /\ wr' = None /\ pc' \in [Q!Procs -> L]
          /\ \A p \in Q!Procs : pc'[p] = IF p = wr THEN "flow" ELSE pc[p]
      BY <1>0, <2>2, Zenon DEF Q!WakeWR
    <3>2. Q!TypeOK'
      BY <1>1, <3>1, Zenon DEF Q!InterruptWakes, Q!TypeOK, Q!svars, Q!cvars
    <3>3. \A p \in Q!Procs : pc'[p] = IF p = rr /\ rr' = None THEN "qwait"
                                      ELSE IF p = wr /\ wr' = None THEN "flow" ELSE pc[p]
      BY <1>0, <3>1, Zenon
    <3>4. Waking => Waking'
      <4>1. \A p \in Writers : pc[p] = "wakerr" => pc'[p] = "wakerr"
        BY <3>1, Zenon DEF WriterInv
      <4> QED BY <1>1, <2>2, <4>1, Zenon DEF Q!InterruptWakes, Waking
    <3> QED BY <1>1, <3>1, <3>2, <3>3, <3>4, WakeMoves, Zenon DEF Q!InterruptWakes
  <2> QED BY <1>1, <2>1, <2>2, Zenon DEF Q!InterruptWakes
<1>2. CASE Q!CloserWakes
  <2>1. CASE cpc = "wakeboth"
    <3>1. /\ rr' = None /\ wr' = None /\ pc' \in [Q!Procs -> L]
          /\ \A p \in Q!Procs : pc'[p] = IF p = rr THEN "qwait" ELSE IF p = wr THEN "flow" ELSE pc[p]
      BY <1>0, <1>2, <2>1, Zenon DEF Q!CloserWakes
    <3>2. Q!TypeOK'
      BY <1>2, <3>1, Zenon DEF Q!CloserWakes, Q!TypeOK, Q!svars, Q!cvars
    <3> QED BY <1>2, <3>1, <3>2, WakeMoves, Zenon DEF Q!CloserWakes
  <2>2. CASE cpc = "wakewr" /\ Q!WakeWR(pc) /\ UNCHANGED rr
    <3>1. /\ rr' = rr /\ wr' = None /\ pc' \in [Q!Procs -> L]
          /\ \A p \in Q!Procs : pc'[p] = IF p = wr THEN "flow" ELSE pc[p]
      BY <1>0, <2>2, Zenon DEF Q!WakeWR
    <3>2. Q!TypeOK'
      BY <1>2, <3>1, Zenon DEF Q!CloserWakes, Q!TypeOK, Q!svars, Q!cvars
    <3>3. \A p \in Q!Procs : pc'[p] = IF p = rr /\ rr' = None THEN "qwait"
                                      ELSE IF p = wr /\ wr' = None THEN "flow" ELSE pc[p]
      BY <1>0, <3>1, Zenon
    <3>4. Waking => Waking'
      <4>1. \A p \in Writers : pc[p] = "wakerr" => pc'[p] = "wakerr"
        BY <3>1, Zenon DEF WriterInv
      <4> QED BY <1>2, <2>2, <4>1, Zenon DEF Q!CloserWakes, Waking
    <3> QED BY <1>2, <3>1, <3>2, <3>3, <3>4, WakeMoves DEF Q!CloserWakes
  <2> QED BY <1>2, <2>1, <2>2, Zenon DEF Q!CloserWakes
<1> QED BY <1>1, <1>2, Zenon

(* Every step keeps the invariant.                                         *)
LEMMA NextInvQ ==
    ASSUME Q!QueueAssumption
    PROVE  InvQ /\ [Q!Next]_Q!vars => InvQ'
<1> SUFFICES ASSUME InvQ, [Q!Next]_Q!vars PROVE InvQ'
  BY Zenon
<1>1. CASE UNCHANGED Q!vars
  <2>1. Q!TypeOK' /\ (Q!notempty' <=> Q!notempty) /\ (Waking' <=> Waking)
    BY <1>1, Zenon DEF InvQ, Q!TypeOK, Q!notempty, Waking, Q!vars, Q!bvars, Q!svars, Q!cvars, Q!lvars
  <2> QED BY <1>1, <2>1, SideMoves, Zenon DEF InvQ, DataInv, StarveInv, Q!vars, Q!bvars, Q!svars, Q!cvars, Q!lvars
<1> QED BY <1>1, ReaderStep, WriterStep, DeviceStep, CloseStep, WakeStep, Zenon DEF Q!Next

(* The invariant holds always.                                             *)
LEMMA InvHoldsQ ==
    ASSUME Q!QueueAssumption
    PROVE  Q!Spec => []InvQ
BY InitInvQ, NextInvQ, PTL DEF Q!Spec

(* The type invariant, for every instance.                                 *)
THEOREM QueueTypeCorrect ==
    ASSUME Q!QueueAssumption
    PROVE  Q!Spec => []Q!TypeOK
BY InvHoldsQ, PTL DEF InvQ

(* qwait's use of Qstarve and the wakeups of qbwrite, the producers,       *)
(* qclose and qhangup leave no reader asleep that has something to wake up *)
(* for, for any number of readers and writers and any limit.               *)
THEOREM QueueNoStrandedReaderHolds ==
    ASSUME Q!QueueAssumption
    PROVE  Q!Spec => []Q!NoStrandedReader
<1>1. InvQ => Q!NoStrandedReader
  BY Zenon DEF InvQ, StarveInv, Q!NoStrandedReader, Waking
<1> QED BY <1>1, InvHoldsQ, PTL
=============================================================================
