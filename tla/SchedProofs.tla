----------------------------- MODULE SchedProofs -----------------------------
(***************************************************************************)
(* Proofs about Sched for every set of processes and of processors and     *)
(* every number of priorities: the type invariant, that a process is never *)
(* on two processors, and that a ready process is in exactly one place     *)
(* where runproc will find it.                                             *)
(***************************************************************************)
EXTENDS Sched, SequenceTheorems, TLAPS

(* p is on a run queue.                                                    *)
Queued(p) == \E k \in Pris : \E i \in 1 .. Len(runq[k]) : runq[k][i] = p

(* The processor m is about to put p on a run queue.                       *)
Holds(m, p) == ~ Free(m) /\ hand[m].p = p

(* What a processor has in its hands goes with where it is.                *)
PcInv ==
    \A m \in Machs :
        /\ pc[m] \in {"run", "switch", "leave", "rebalance"} <=> up[m] # None
        /\ ~ Free(m) => pc[m] \in {"run", "loop", "leave"}
        /\ pc[m] \in {"found", "got", "rebalance"} <=> cand[m] # None

(* p->mach names the processor that uses p.  A process that has been taken *)
(* off its queue to be run has none, and is in the hands of one processor. *)
OwnInv ==
    /\ \A m \in Machs : up[m] # None =>
           mach[up[m]] = m /\ state[up[m]] \notin {"Scheding", "Dead"}
    /\ \A m \in Machs : pc[m] = "got" =>
           mach[cand[m].p] = None /\ state[cand[m].p] = "Scheding"
    /\ \A m, n \in Machs :
           pc[m] = "got" /\ pc[n] = "got" /\ cand[m].p = cand[n].p => m = n
    /\ \A p \in waiting : state[p] = "Blocked"

(* No process is twice on the run queues.                                  *)
ListInv ==
    \A k, l \in Pris : \A i \in 1 .. Len(runq[k]), j \in 1 .. Len(runq[l]) :
        runq[k][i] = runq[l][j] => k = l /\ i = j

(* The ready processes are those on a queue or about to be put on one ...  *)
ReadyInv ==
    \A p \in Procs :
        state[p] = "Ready" <=> Queued(p) \/ \E m \in Machs : Holds(m, p)

(* ... and not both, nor by two processors.                                *)
HandInv ==
    \A m \in Machs, p \in Procs : Holds(m, p) =>
        ~ Queued(p) /\ \A n \in Machs : Holds(n, p) => m = n

(* The inductive invariant.                                                *)
Inv == TypeOK /\ PcInv /\ OwnInv /\ ListInv /\ ReadyInv /\ HandInv
-----------------------------------------------------------------------------
(* Unlinking the process at place i of a list closes the gap.              *)
LEMMA UnlinkedFacts ==
    ASSUME NEW S, NEW s \in Seq(S), NEW i \in 1 .. Len(s)
    PROVE  LET t == SubSeq(s, 1, i - 1) \o SubSeq(s, i + 1, Len(s))
           IN  /\ t \in Seq(S)
               /\ Len(t) = Len(s) - 1
               /\ \A j \in 1 .. Len(s) - 1 : t[j] = IF j < i THEN s[j] ELSE s[j + 1]
<1> DEFINE a == SubSeq(s, 1, i - 1)
           b == SubSeq(s, i + 1, Len(s))
<1>1. Len(s) \in Nat
  OBVIOUS
<1>2. a \in Seq(S) /\ Len(a) = i - 1 /\ \A j \in 1 .. i - 1 : a[j] = s[j]
  BY <1>1
<1>3. b \in Seq(S) /\ Len(b) = Len(s) - i /\ \A j \in 1 .. Len(s) - i : b[j] = s[i + j]
  <2>1. CASE i = Len(s)
    BY <1>1, <2>1
  <2>2. CASE i < Len(s)
    BY <1>1, <2>2
  <2> QED BY <1>1, <2>1, <2>2
<1> HIDE DEF a, b
<1>5. /\ a \o b \in Seq(S)
      /\ Len(a \o b) = Len(s) - 1
      /\ \A j \in 1 .. Len(s) - 1 : (a \o b)[j] = IF j < i THEN a[j] ELSE b[j - (i - 1)]
  <2>1. /\ a \o b \in Seq(S) /\ Len(a \o b) = Len(a) + Len(b)
        /\ \A j \in 1 .. Len(a) + Len(b) :
               (a \o b)[j] = IF j <= Len(a) THEN a[j] ELSE b[j - Len(a)]
    BY <1>2, <1>3, ConcatProperties, Zenon
  <2>2. Len(a) + Len(b) = Len(s) - 1 /\ Len(a) = i - 1
    BY <1>1, <1>2, <1>3
  <2>3. \A j \in 1 .. Len(s) - 1 : j <= i - 1 <=> j < i
    BY <1>1
  <2> QED BY <2>1, <2>2, <2>3, Zenon
<1>6. ASSUME NEW j \in 1 .. Len(s) - 1
      PROVE  (a \o b)[j] = IF j < i THEN s[j] ELSE s[j + 1]
  <2>1. CASE j < i
    BY <1>1, <1>2, <1>5, <2>1
  <2>2. CASE ~(j < i)
    <3>1. j - (i - 1) \in 1 .. Len(s) - i /\ i + (j - (i - 1)) = j + 1
      BY <1>1, <2>2
    <3> QED BY <1>3, <1>5, <2>2, <3>1, Zenon
  <2> QED BY <2>1, <2>2, Zenon
<1> QED BY <1>5, <1>6, Zenon DEF a, b

(* Steps that leave the run queues alone.                                  *)
LEMMA SameQueues ==
    ASSUME runq' = runq
    PROVE  /\ \A p : Queued(p)' <=> Queued(p)
           /\ ListInv => ListInv'
BY DEF Queued, ListInv

(* dequeueproc takes p, and nobody else, off the queues.                   *)
LEMMA UnlinkStep ==
    ASSUME TypeOK, ListInv, NEW k \in Pris, NEW p \in Procs, Unlink(k, p)
    PROVE  /\ runq' \in [Pris -> Seq(Procs)]
           /\ Queued(p) /\ ~ Queued(p)'
           /\ \A q \in Procs \ {p} : Queued(q)' <=> Queued(q)
           /\ ListInv'
<1>1. runq \in [Pris -> Seq(Procs)]
  BY Zenon DEF TypeOK
<1>2. PICK i \in 1 .. Len(runq[k]) :
          /\ runq[k][i] = p
          /\ runq' = [runq EXCEPT ![k] = SubSeq(@, 1, i - 1) \o SubSeq(@, i + 1, Len(@))]
  <2>1. DOMAIN runq[k] = 1 .. Len(runq[k])
    BY <1>1
  <2> QED BY <2>1, Zenon DEF Unlink
<1> DEFINE s == runq[k]
           t == SubSeq(s, 1, i - 1) \o SubSeq(s, i + 1, Len(s))
<1>3. s \in Seq(Procs) /\ Len(s) \in Nat /\ i \in 1 .. Len(s)
  BY <1>1, <1>2
<1>4. /\ t \in Seq(Procs)
      /\ Len(t) = Len(s) - 1
      /\ \A j \in 1 .. Len(s) - 1 : t[j] = IF j < i THEN s[j] ELSE s[j + 1]
  BY <1>3, UnlinkedFacts, Zenon
<1>5. runq' = [runq EXCEPT ![k] = t]
  BY <1>2, Zenon
<1> HIDE DEF t
<1>6. runq' \in [Pris -> Seq(Procs)] /\ runq'[k] = t /\ \A l \in Pris \ {k} : runq'[l] = runq[l]
  BY <1>1, <1>4, <1>5, Zenon
(* Every place of the new queues is a place of the old ones.               *)
<1> DEFINE Old(l, j) == IF l = k /\ j >= i THEN j + 1 ELSE j
<1>7. ASSUME NEW l \in Pris, NEW j \in 1 .. Len(runq'[l])
      PROVE  /\ Old(l, j) \in 1 .. Len(runq[l])
             /\ runq'[l][j] = runq[l][Old(l, j)]
             /\ ~(l = k /\ Old(l, j) = i)
  <2>1. CASE l = k
    BY <1>3, <1>4, <1>6, <2>1
  <2>2. CASE l # k
    BY <1>6, <2>2, Zenon
  <2> QED BY <2>1, <2>2, Zenon
<1>8. ListInv'
  <2> SUFFICES ASSUME NEW l1 \in Pris, NEW l2 \in Pris, NEW j1 \in 1 .. Len(runq'[l1]),
                      NEW j2 \in 1 .. Len(runq'[l2]), runq'[l1][j1] = runq'[l2][j2]
               PROVE  l1 = l2 /\ j1 = j2
    BY Zenon DEF ListInv
  <2>1. Old(l1, j1) \in 1 .. Len(runq[l1]) /\ Old(l2, j2) \in 1 .. Len(runq[l2])
        /\ runq[l1][Old(l1, j1)] = runq[l2][Old(l2, j2)]
    BY <1>7, Zenon
  <2> HIDE DEF Old
  <2>2. l1 = l2 /\ Old(l1, j1) = Old(l2, j2)
    BY <2>1, SMTT(30) DEF ListInv
  <2> QED BY <1>3, <2>2 DEF Old
<1>9. ~ Queued(p)'
  <2> SUFFICES ASSUME NEW l \in Pris, NEW j \in 1 .. Len(runq'[l]), runq'[l][j] = p
               PROVE  FALSE
    BY Zenon DEF Queued
  <2>1. Old(l, j) \in 1 .. Len(runq[l]) /\ runq[l][Old(l, j)] = p /\ ~(l = k /\ Old(l, j) = i)
    BY <1>7, Zenon
  <2> HIDE DEF Old
  <2> QED BY <1>2, <2>1 DEF ListInv
<1>10. ASSUME NEW q \in Procs \ {p}, Queued(q)' PROVE Queued(q)
  <2>1. PICK l \in Pris : \E j \in 1 .. Len(runq'[l]) : runq'[l][j] = q
    BY <1>10, Zenon DEF Queued
  <2>2. PICK j \in 1 .. Len(runq'[l]) : runq'[l][j] = q
    BY <2>1, Zenon
  <2>3. Old(l, j) \in 1 .. Len(runq[l]) /\ runq[l][Old(l, j)] = q
    BY <1>7, <2>2, Zenon
  <2> QED BY <2>3, Zenon DEF Queued
<1>11. ASSUME NEW q \in Procs \ {p}, Queued(q) PROVE Queued(q)'
  <2>1. PICK l \in Pris : \E j \in 1 .. Len(runq[l]) : runq[l][j] = q
    BY <1>11, Zenon DEF Queued
  <2>2. PICK j \in 1 .. Len(runq[l]) : runq[l][j] = q
    BY <2>1, Zenon
  <2>3. CASE l # k
    BY <1>6, <2>2, <2>3, Zenon DEF Queued
  <2>4. CASE l = k /\ j < i
    <3>1. j \in 1 .. Len(t) /\ t[j] = q
      BY <1>3, <1>4, <2>2, <2>4
    <3> QED BY <1>6, <3>1, Zenon DEF Queued
  <2>5. CASE l = k /\ j > i
    <3>1. j - 1 \in 1 .. Len(t) /\ t[j - 1] = q
      BY <1>3, <1>4, <2>2, <2>5
    <3> QED BY <1>6, <3>1, Zenon DEF Queued
  <2>6. ~(l = k /\ j = i)
    BY <1>2, <2>2, Zenon
  <2> QED BY <1>3, <2>3, <2>4, <2>5, <2>6
<1>12. Queued(p)
  BY <1>2, Zenon DEF Queued
<1> QED BY <1>6, <1>8, <1>9, <1>10, <1>11, <1>12, Zenon

(* queueproc adds p, and nobody else, to the queues.                       *)
LEMMA AppendStep ==
    ASSUME TypeOK, ListInv, NEW k \in Pris, NEW p \in Procs, ~ Queued(p),
           runq' = [runq EXCEPT ![k] = Append(@, p)]
    PROVE  /\ runq' \in [Pris -> Seq(Procs)]
           /\ \A q \in Procs : Queued(q)' <=> Queued(q) \/ q = p
           /\ ListInv'
<1>1. runq \in [Pris -> Seq(Procs)] /\ runq[k] \in Seq(Procs) /\ Len(runq[k]) \in Nat
  BY DEF TypeOK
<1> DEFINE n == Len(runq[k])
           t == Append(runq[k], p)
<1>2. /\ t \in Seq(Procs) /\ Len(t) = n + 1 /\ t[n + 1] = p
      /\ \A j \in 1 .. n : t[j] = runq[k][j]
  BY <1>1
<1>3. runq' = [runq EXCEPT ![k] = t]
  BY Zenon
<1> HIDE DEF t
<1>4. runq' \in [Pris -> Seq(Procs)] /\ runq'[k] = t /\ \A l \in Pris \ {k} : runq'[l] = runq[l]
  BY <1>1, <1>2, <1>3, Zenon
<1>5. ASSUME NEW l \in Pris, NEW j \in 1 .. Len(runq'[l])
      PROVE  \/ l = k /\ j = n + 1 /\ runq'[l][j] = p
             \/ j \in 1 .. Len(runq[l]) /\ runq'[l][j] = runq[l][j] /\ runq'[l][j] # p
  <2>1. CASE l = k /\ j = n + 1
    BY <1>2, <1>4, <2>1, Zenon
  <2>2. CASE l # k \/ j # n + 1
    <3>1. j \in 1 .. Len(runq[l]) /\ runq'[l][j] = runq[l][j]
      BY <1>1, <1>2, <1>4, <2>2
    <3> QED BY <3>1, Zenon DEF Queued
  <2> QED BY <2>1, <2>2, Zenon
<1>6. ListInv'
  <2> SUFFICES ASSUME NEW l1 \in Pris, NEW l2 \in Pris, NEW j1 \in 1 .. Len(runq'[l1]),
                      NEW j2 \in 1 .. Len(runq'[l2]), runq'[l1][j1] = runq'[l2][j2]
               PROVE  l1 = l2 /\ j1 = j2
    BY Zenon DEF ListInv
  <2>1. CASE runq'[l1][j1] = p
    BY <1>5, <2>1
  <2>2. CASE runq'[l1][j1] # p
    <3>1. /\ j1 \in 1 .. Len(runq[l1]) /\ j2 \in 1 .. Len(runq[l2])
          /\ runq[l1][j1] = runq[l2][j2]
      BY <1>5, <2>2, Zenon
    <3> QED BY <3>1 DEF ListInv
  <2> QED BY <2>1, <2>2, Zenon
<1>7. ASSUME NEW q \in Procs, Queued(q)' PROVE Queued(q) \/ q = p
  BY <1>5, <1>7 DEF Queued
<1>8. ASSUME NEW q \in Procs, Queued(q) \/ q = p PROVE Queued(q)'
  <2>1. CASE q = p
    BY <1>1, <1>2, <1>4, <2>1 DEF Queued
  <2>2. CASE Queued(q)
    <3>1. PICK l \in Pris : \E j \in 1 .. Len(runq[l]) : runq[l][j] = q
      BY <2>2, Zenon DEF Queued
    <3>2. PICK j \in 1 .. Len(runq[l]) : runq[l][j] = q
      BY <3>1, Zenon
    <3>3. j \in 1 .. Len(runq'[l]) /\ runq'[l][j] = q
      BY <1>1, <1>2, <1>4, <3>2
    <3> QED BY <3>3, Zenon DEF Queued
  <2> QED BY <1>8, <2>1, <2>2, Zenon
<1> QED BY <1>4, <1>6, <1>7, <1>8, Zenon

(* Steps that leave what the processors have in their hands alone.         *)
LEMMA SameHands ==
    ASSUME hand' = hand
    PROVE  \A m, p : Holds(m, p)' <=> Holds(m, p)
BY Zenon DEF Holds, Free

(* Steps that change neither queues nor hands and make nobody ready or     *)
(* unready.                                                                *)
LEMMA QuietStep ==
    ASSUME ListInv, ReadyInv, HandInv, runq' = runq, hand' = hand,
           \A p \in Procs : state'[p] = "Ready" <=> state[p] = "Ready"
    PROVE  ListInv' /\ ReadyInv' /\ HandInv'
<1>1. ListInv' /\ \A p : Queued(p)' <=> Queued(p)
  BY SameQueues, Zenon
<1>2. \A m, p : Holds(m, p)' <=> Holds(m, p)
  BY SameHands, Zenon
<1>3. ReadyInv'
  BY <1>1, <1>2, Zenon DEF ReadyInv
<1>4. HandInv'
  BY <1>1, <1>2, Zenon DEF HandInv
<1> QED BY <1>1, <1>3, <1>4, Zenon

(* What is in the hands after a processor has put something there.         *)
LEMMA TakeInHand ==
    ASSUME TypeOK, NEW m \in Machs, NEW p \in Procs, NEW k \in Pris, Free(m),
           hand' = [hand EXCEPT ![m] = [p |-> p, k |-> k]]
    PROVE  \A n \in Machs, q \in Procs : Holds(n, q)' <=> Holds(n, q) \/ (n = m /\ q = p)
<1>1. hand \in [Machs -> [p : Procs, k : Pris] \cup {None}]
  BY Zenon DEF TypeOK
<1>2. hand'[m] = [p |-> p, k |-> k] /\ \A n \in Machs \ {m} : hand'[n] = hand[n]
  BY <1>1, Zenon
<1>3. hand'[m] \in [p : Procs, k : 0 .. Npriq]
  BY <1>2, SchedAssumption DEF Pris
<1>4. hand'[m] # None /\ hand'[m].p = p
  BY <1>2, <1>3, SchedAssumption
<1> QED BY <1>2, <1>4, Zenon DEF Holds, Free

(* ready(p): a process that was not ready comes into the hands of m.       *)
LEMMA ReadyStep ==
    ASSUME TypeOK, ListInv, ReadyInv, HandInv, NEW m \in Machs, NEW p \in Procs, NEW k \in Pris,
           Free(m), state[p] # "Ready", runq' = runq, ReadyProc(m, p, k)
    PROVE  ListInv' /\ ReadyInv' /\ HandInv'
<1>1. ListInv' /\ \A q : Queued(q)' <=> Queued(q)
  BY SameQueues, Zenon
<1>2. hand' = [hand EXCEPT ![m] = [p |-> p, k |-> k]] /\ state' = [state EXCEPT ![p] = "Ready"]
  BY Zenon DEF ReadyProc
<1>3. \A n \in Machs, q \in Procs : Holds(n, q)' <=> Holds(n, q) \/ (n = m /\ q = p)
  BY <1>2, TakeInHand, Zenon
<1>4. ~ Queued(p) /\ \A n \in Machs : ~ Holds(n, p)
  BY Zenon DEF ReadyInv
<1>5. state'[p] = "Ready" /\ \A q \in Procs \ {p} : state'[q] = state[q]
  BY <1>2, Zenon DEF TypeOK
<1>6. ReadyInv'
  BY <1>1, <1>3, <1>4, <1>5, Zenon DEF ReadyInv
<1>7. HandInv'
  BY <1>1, <1>3, <1>4 DEF HandInv
<1> QED BY <1>1, <1>6, <1>7, Zenon
-----------------------------------------------------------------------------
(* At first one processor runs the boot process.                           *)
LEMMA InitInv == Init => Inv
<1> SUFFICES ASSUME Init PROVE Inv
  BY Zenon
<1> USE SchedAssumption DEF Init
<1>1. TypeOK
  BY DEF TypeOK, Pris
<1>2. PcInv /\ OwnInv
  BY Zenon DEF PcInv, OwnInv, Free
<1>3. 0 \in Pris /\ runq[0] = <<Proc1>> /\ \A k \in Pris \ {0} : runq[k] = <<>>
  BY DEF Pris
<1>4. ListInv
  BY <1>3 DEF ListInv
<1>5. \A p \in Procs : Queued(p) <=> p = Proc1
  <2>1. 1 \in 1 .. Len(runq[0]) /\ runq[0][1] = Proc1
    BY <1>3
  <2>2. \A k \in Pris : \A i \in 1 .. Len(runq[k]) : runq[k][i] = Proc1
    BY <1>3
  <2> QED BY <1>3, <2>1, <2>2, Zenon DEF Queued
<1>6. \A m \in Machs, p \in Procs : ~ Holds(m, p)
  BY Zenon DEF Holds, Free
<1>7. ReadyInv
  BY <1>5, <1>6, Zenon DEF ReadyInv
<1>8. HandInv
  BY <1>6, Zenon DEF HandInv
<1> QED BY <1>1, <1>2, <1>4, <1>7, <1>8, Zenon DEF Inv

(* What a processor that runs a process, or has found one, has in hand.    *)
LEMMA Current ==
    ASSUME Inv, NEW m \in Machs
    PROVE  /\ pc[m] \in {"run", "switch", "leave", "rebalance"} => up[m] \in Procs /\ up[m] # None
           /\ pc[m] \in {"found", "got", "rebalance"} =>
                  /\ cand[m].p \in Procs /\ cand[m].k \in Pris
                  /\ cand[m] # None /\ Free(m)
           /\ ~ Free(m) => hand[m].p \in Procs /\ hand[m].k \in Pris
<1>1. /\ up[m] \in Procs \cup {None}
      /\ hand[m] \in [p : Procs, k : Pris] \cup {None}
      /\ cand[m] \in [p : Procs, k : Pris] \cup {None}
  BY Zenon DEF Inv, TypeOK
<1>2. pc[m] \in {"run", "switch", "leave", "rebalance"} => up[m] # None
  BY Zenon DEF Inv, PcInv
<1>3. pc[m] \in {"found", "got", "rebalance"} => cand[m] # None
  BY Zenon DEF Inv, PcInv
<1>4. ~ Free(m) => pc[m] \in {"run", "loop", "leave"}
  BY Zenon DEF Inv, PcInv
<1> QED BY <1>1, <1>2, <1>3, <1>4, Zenon DEF Free

(* queueproc: what was in a hand is on a queue.                            *)
LEMMA QueueprocInv ==
    ASSUME Inv, NEW m \in Machs, Queueproc(m)
    PROVE  Inv'
<1> DEFINE p == hand[m].p
           k == hand[m].k
<1>1. p \in Procs /\ k \in Pris /\ Holds(m, p)
  BY Current, Zenon DEF Queueproc, Holds
<1>2. /\ runq' = [runq EXCEPT ![k] = Append(@, p)]
      /\ pri' = [pri EXCEPT ![p] = k]
      /\ hand' = [hand EXCEPT ![m] = None]
      /\ UNCHANGED <<state, mach, mp, wired, waiting, pc, up, readied, cand>>
  BY Zenon DEF Queueproc
<1>3. ~ Queued(p) /\ state[p] = "Ready" /\ \A n \in Machs : Holds(n, p) => n = m
  BY <1>1 DEF Inv, HandInv, ReadyInv
<1> HIDE DEF p, k
<1>4. /\ runq' \in [Pris -> Seq(Procs)]
      /\ \A q \in Procs : Queued(q)' <=> Queued(q) \/ q = p
      /\ ListInv'
  BY <1>1, <1>2, <1>3, AppendStep, Zenon DEF Inv
<1>5. hand'[m] = None /\ \A n \in Machs \ {m} : hand'[n] = hand[n]
  BY <1>2, Zenon DEF Inv, TypeOK
<1>6. \A n \in Machs, q \in Procs : Holds(n, q)' <=> Holds(n, q) /\ n # m
  BY <1>5, Zenon DEF Holds, Free
<1>7. TypeOK'
  BY <1>1, <1>2, <1>4, Zenon DEF Inv, TypeOK
<1>8. PcInv'
  BY <1>2, <1>5, Zenon DEF Inv, PcInv, Free
<1>9. OwnInv'
  BY <1>2 DEF Inv, OwnInv
<1>10. \A q \in Procs : Holds(m, q) => q = p
  BY Zenon DEF Holds, p
<1>11. ReadyInv'
  BY <1>1, <1>2, <1>3, <1>4, <1>6, <1>10, Zenon DEF Inv, ReadyInv
<1>12. HandInv'
  BY <1>3, <1>4, <1>6 DEF Inv, HandInv
<1> QED BY <1>4, <1>7, <1>8, <1>9, <1>11, <1>12, Zenon DEF Inv

(* A process that blocks is not ready.                                     *)
LEMMA BlockInv ==
    ASSUME Inv, NEW m \in Machs, Block(m)
    PROVE  Inv'
<1> DEFINE p == up[m]
<1>1. p \in Procs /\ p # None /\ state[p] = "Running"
  BY Current, Zenon DEF Block
<1>2. /\ state' = [state EXCEPT ![p] = "Blocked"]
      /\ waiting' = waiting \cup {p}
      /\ UNCHANGED <<runq, mach, mp, wired, pri, pc, up, readied, hand, cand>>
  BY Zenon DEF Block
<1> HIDE DEF p
<1>3. state'[p] = "Blocked" /\ \A q \in Procs \ {p} : state'[q] = state[q]
  BY <1>1, <1>2, Zenon DEF Inv, TypeOK
<1>4. TypeOK'
  BY <1>1, <1>2, Zenon DEF Inv, TypeOK
<1>5. PcInv'
  BY <1>2, Zenon DEF Inv, PcInv, Free
<1>6. OwnInv'
  BY <1>1, <1>2, <1>3, Current DEF Inv, OwnInv, TypeOK
<1>7. ListInv' /\ ReadyInv' /\ HandInv'
  BY <1>1, <1>2, <1>3, QuietStep, Zenon DEF Inv
<1> QED BY <1>4, <1>5, <1>6, <1>7, Zenon DEF Inv

(* ready takes a process that waits into a hand.                           *)
LEMMA WakeInv ==
    ASSUME Inv, NEW m \in Machs, NEW p \in Procs, Wake(m, p)
    PROVE  Inv'
<1>1. state[p] = "Blocked" /\ Free(m) /\ pc[m] \in {"run", "loop"}
  BY Zenon DEF Wake, Inv, OwnInv
<1>2. PICK k \in Pris : ReadyProc(m, p, k)
  BY Zenon DEF Wake, Reprioritize
<1>3. /\ waiting' = waiting \ {p}
      /\ UNCHANGED <<runq, mach, mp, wired, pc, up, cand>>
  BY Zenon DEF Wake
<1>4. state'[p] = "Ready" /\ \A q \in Procs \ {p} : state'[q] = state[q]
  BY <1>2, Zenon DEF ReadyProc, Inv, TypeOK
<1>5. \A n \in Machs \ {m} : hand'[n] = hand[n]
  BY <1>2, Zenon DEF ReadyProc, Inv, TypeOK
<1>6. TypeOK'
  BY <1>2, <1>3, Zenon DEF ReadyProc, Inv, TypeOK
<1>7. PcInv'
  BY <1>1, <1>3, <1>5, Zenon DEF Inv, PcInv, Free
<1>8. OwnInv'
  BY <1>1, <1>3, <1>4, Current DEF Inv, OwnInv, TypeOK
<1>9. ListInv' /\ ReadyInv' /\ HandInv'
  BY <1>1, <1>2, <1>3, ReadyStep, Zenon DEF Inv
<1> QED BY <1>6, <1>7, <1>8, <1>9, Zenon DEF Inv

(* What OwnInv speaks of are processes.                                    *)
LEMMA Owned ==
    ASSUME Inv
    PROVE  /\ OwnInv /\ waiting \subseteq Procs
           /\ \A n \in Machs : /\ up[n] # None => up[n] \in Procs
                               /\ pc[n] = "got" => cand[n].p \in Procs
<1>1. \A n \in Machs : pc[n] = "got" => cand[n].p \in Procs
  BY Current, Zenon
<1>2. \A n \in Machs : up[n] # None => up[n] \in Procs
  BY Zenon DEF Inv, TypeOK
<1> QED BY <1>1, <1>2, Zenon DEF Inv, TypeOK

(* newproc uses a Proc that nobody has.                                    *)
LEMMA NewprocInv ==
    ASSUME Inv, NEW m \in Machs, NEW p \in Procs, Newproc(m, p)
    PROVE  Inv'
<1>1. state[p] = "Dead" /\ Free(m) /\ pc[m] = "run"
  BY Zenon DEF Newproc
<1>2. PICK k \in Pris : ReadyProc(m, p, k)
  BY Zenon DEF Newproc, Reprioritize
<1>3. /\ mach' = [mach EXCEPT ![p] = None]
      /\ mp' = [mp EXCEPT ![p] = None]
      /\ wired' = [wired EXCEPT ![p] = None]
      /\ UNCHANGED <<runq, waiting, pc, up, cand>>
  BY Zenon DEF Newproc
<1>4. state'[p] = "Ready" /\ \A q \in Procs \ {p} : state'[q] = state[q]
  BY <1>2, Zenon DEF ReadyProc, Inv, TypeOK
<1>5. \A n \in Machs \ {m} : hand'[n] = hand[n]
  BY <1>2, Zenon DEF ReadyProc, Inv, TypeOK
<1>6. \A q \in Procs \ {p} : mach'[q] = mach[q]
  BY <1>3, Zenon DEF Inv, TypeOK
<1>7. TypeOK'
  BY <1>2, <1>3 DEF ReadyProc, Inv, TypeOK
<1>8. PcInv'
  BY <1>1, <1>3, <1>5, Zenon DEF Inv, PcInv, Free
<1>9. OwnInv'
  <2>1. waiting' = waiting /\ pc' = pc /\ up' = up /\ cand' = cand
    BY <1>3, Zenon
  <2> QED BY <1>1, <1>4, <1>6, <2>1, Owned DEF OwnInv
<1>10. ListInv' /\ ReadyInv' /\ HandInv'
  BY <1>1, <1>2, <1>3, ReadyStep, Zenon DEF Inv
<1> QED BY <1>7, <1>8, <1>9, <1>10, Zenon DEF Inv

(* sched: the process is about to leave its processor.                     *)
LEMMA SchedInv ==
    ASSUME Inv, NEW m \in Machs, Sched(m)
    PROVE  Inv'
<1> DEFINE p == up[m]
<1>1. p \in Procs /\ p # None /\ Free(m) /\ pc[m] = "run"
  BY Current, Zenon DEF Sched
<1>2. /\ pc' = [pc EXCEPT ![m] = "switch"]
      /\ UNCHANGED <<runq, mach, mp, wired, pri, waiting, up, hand, cand>>
      /\ readied' = readied \/ readied' = [readied EXCEPT ![m] = None]
      /\ \/ state' = state
         \/ state[p] = "Running" /\ state' = [state EXCEPT ![p] = "Moribund"]
  BY Zenon DEF Sched, Goto
<1> HIDE DEF p
<1>3. pc'[m] = "switch" /\ \A n \in Machs \ {m} : pc'[n] = pc[n]
  BY <1>2, Zenon DEF Inv, TypeOK
<1>4. /\ \A q \in Procs \ {p} : state'[q] = state[q]
      /\ state'[p] = state[p] \/ (state[p] = "Running" /\ state'[p] = "Moribund")
  BY <1>1, <1>2, Zenon DEF Inv, TypeOK
<1>5. TypeOK'
  BY <1>1, <1>2, Zenon DEF Inv, TypeOK
<1>6. PcInv'
  BY <1>1, <1>2, <1>3, Zenon DEF Inv, PcInv, Free, p
<1>7. OwnInv'
  <2>1. waiting' = waiting /\ mach' = mach /\ up' = up /\ cand' = cand
    BY <1>2, Zenon
  <2> QED BY <1>1, <1>3, <1>4, <2>1, Owned DEF OwnInv
<1>8. ListInv' /\ ReadyInv' /\ HandInv'
  BY <1>1, <1>2, <1>4, QuietStep, Zenon DEF Inv
<1> QED BY <1>5, <1>6, <1>7, <1>8, Zenon DEF Inv

(* rebalance looks at a queue without its lock.                            *)
LEMMA RebalanceFindInv ==
    ASSUME Inv, NEW m \in Machs, NEW j \in Pris, RebalanceFind(m, j)
    PROVE  Inv'
<1> DEFINE c == [p |-> Head(runq[j]), k |-> j]
<1>1. pc[m] = "run" /\ Free(m)
  BY Zenon DEF RebalanceFind
<1>2. /\ cand' = [cand EXCEPT ![m] = c]
      /\ pc' = [pc EXCEPT ![m] = "rebalance"]
      /\ UNCHANGED <<runq, state, mach, mp, wired, pri, waiting, up, readied, hand>>
  BY Zenon DEF RebalanceFind, Goto
<1>3. Head(runq[j]) \in Procs
  BY DEF RebalanceFind, Inv, TypeOK
<1>4. c \in [p : Procs, k : Pris] /\ c # None
  BY <1>3, SchedAssumption DEF Pris
<1> HIDE DEF c
<1>5. /\ pc'[m] = "rebalance" /\ \A n \in Machs \ {m} : pc'[n] = pc[n]
      /\ cand'[m] = c /\ \A n \in Machs \ {m} : cand'[n] = cand[n]
  BY <1>2, Zenon DEF Inv, TypeOK
<1>6. TypeOK'
  BY <1>2, <1>4, Zenon DEF Inv, TypeOK
<1>7. PcInv'
  BY <1>1, <1>2, <1>4, <1>5 DEF Inv, PcInv, Free
<1>8. OwnInv'
  BY <1>1, <1>2, <1>5 DEF Inv, OwnInv
<1>9. ListInv' /\ ReadyInv' /\ HandInv'
  BY <1>2, QuietStep, Zenon DEF Inv
<1> QED BY <1>6, <1>7, <1>8, <1>9, Zenon DEF Inv

(* rebalance takes a process off its queue, if it is still there.          *)
LEMMA RebalanceInv ==
    ASSUME Inv, NEW m \in Machs, Rebalance(m)
    PROVE  Inv'
<1>1. pc[m] = "rebalance" /\ cand[m].p \in Procs /\ cand[m].k \in Pris /\ Free(m)
  BY Current, Zenon DEF Rebalance
<1>p. PICK p \in Procs : p = cand[m].p
  BY <1>1, Zenon
<1>j. PICK j \in Pris : j = cand[m].k
  BY <1>1, Zenon
<1>2. /\ cand' = [cand EXCEPT ![m] = None]
      /\ pc' = [pc EXCEPT ![m] = "run"]
      /\ UNCHANGED <<state, mach, mp, wired, pri, waiting, up, readied>>
  BY Zenon DEF Rebalance, Goto
<1>3. \/ UNCHANGED <<runq, hand>>
      \/ Unlink(j, p) /\ \E k \in Pris : hand' = [hand EXCEPT ![m] = [p |-> p, k |-> k]]
  BY <1>p, <1>j, Zenon DEF Rebalance, Reprioritize
<1>4. /\ pc'[m] = "run" /\ \A n \in Machs \ {m} : pc'[n] = pc[n]
      /\ cand'[m] = None /\ \A n \in Machs \ {m} : cand'[n] = cand[n]
  BY <1>2, Zenon DEF Inv, TypeOK
<1>5. OwnInv'
  BY <1>1, <1>2, <1>4 DEF Inv, OwnInv
<1>6. CASE UNCHANGED <<runq, hand>>
  <2>1. TypeOK'
    BY <1>2, <1>6, Zenon DEF Inv, TypeOK
  <2>2. PcInv'
    BY <1>1, <1>2, <1>4, <1>6 DEF Inv, PcInv, Free
  <2>3. ListInv' /\ ReadyInv' /\ HandInv'
    BY <1>2, <1>6, QuietStep, Zenon DEF Inv
  <2> QED BY <1>5, <2>1, <2>2, <2>3, Zenon DEF Inv
<1>7. CASE Unlink(j, p) /\ \E k \in Pris : hand' = [hand EXCEPT ![m] = [p |-> p, k |-> k]]
  <2>1. PICK k \in Pris : hand' = [hand EXCEPT ![m] = [p |-> p, k |-> k]]
    BY <1>7, Zenon
  <2>2. /\ runq' \in [Pris -> Seq(Procs)]
        /\ Queued(p) /\ ~ Queued(p)'
        /\ \A q \in Procs \ {p} : Queued(q)' <=> Queued(q)
        /\ ListInv'
    <3>1. TypeOK /\ ListInv /\ Unlink(j, p)
      BY <1>7, Zenon DEF Inv
    <3> QED BY <1>1, <3>1, UnlinkStep, Zenon
  <2>3. \A n \in Machs, q \in Procs : Holds(n, q)' <=> Holds(n, q) \/ (n = m /\ q = p)
    BY <1>1, <2>1, TakeInHand, Zenon DEF Inv
  <2>4. state[p] = "Ready" /\ \A n \in Machs : ~ Holds(n, p)
    BY <1>1, <2>2, Zenon DEF Inv, ReadyInv, HandInv
  <2>5. TypeOK'
    BY <1>1, <1>2, <2>1, <2>2, Zenon DEF Inv, TypeOK
  <2>6. PcInv'
    <3>1. \A n \in Machs \ {m} : hand'[n] = hand[n]
      BY <2>1, Zenon DEF Inv, TypeOK
    <3> QED BY <1>1, <1>2, <1>4, <3>1 DEF Inv, PcInv, Free
  <2>7. ReadyInv'
    BY <1>1, <1>2, <2>2, <2>3, <2>4, Zenon DEF Inv, ReadyInv
  <2>8. HandInv'
    <3> SUFFICES ASSUME NEW n \in Machs, NEW q \in Procs, Holds(n, q)'
                 PROVE  ~ Queued(q)' /\ \A x \in Machs : Holds(x, q)' => n = x
      BY Zenon DEF HandInv
    <3>1. CASE q = p
      BY <2>2, <2>3, <2>4, <3>1, Zenon
    <3>2. CASE q # p
      BY <2>2, <2>3, <3>2, Zenon DEF Inv, HandInv
    <3> QED BY <3>1, <3>2, Zenon
  <2> QED BY <1>5, <2>2, <2>5, <2>6, <2>7, <2>8, Zenon DEF Inv
<1> QED BY <1>3, <1>6, <1>7, Zenon

(* procpriority changes nothing that the invariant is about.               *)
LEMMA ProcpriorityInv ==
    ASSUME Inv, NEW m \in Machs, NEW p \in Procs, Procpriority(m, p)
    PROVE  Inv'
<1>1. PICK k \in Pris : pri' = [pri EXCEPT ![p] = k]
  BY Zenon DEF Procpriority
<1>2. UNCHANGED <<runq, state, mach, mp, wired, waiting, pc, up, readied, hand, cand>>
  BY Zenon DEF Procpriority
<1>3. TypeOK'
  BY <1>1, <1>2, Zenon DEF Inv, TypeOK
<1>4. PcInv' /\ OwnInv'
  BY <1>2 DEF Inv, PcInv, OwnInv, Free
<1>5. ListInv' /\ ReadyInv' /\ HandInv'
  BY <1>2, QuietStep, Zenon DEF Inv
<1> QED BY <1>3, <1>4, <1>5, Zenon DEF Inv

(* procwired changes nothing that the invariant is about.                  *)
LEMMA ProcwiredInv ==
    ASSUME Inv, NEW m \in Machs, NEW p \in Procs, NEW n \in Machs, Procwired(m, p, n)
    PROVE  Inv'
<1>1. /\ wired' = [wired EXCEPT ![p] = n] /\ mp' = [mp EXCEPT ![p] = n]
      /\ UNCHANGED <<runq, state, mach, pri, waiting, pc, up, readied, hand, cand>>
  BY Zenon DEF Procwired
<1>2. TypeOK'
  BY <1>1, Zenon DEF Inv, TypeOK
<1>3. PcInv' /\ OwnInv'
  BY <1>1 DEF Inv, PcInv, OwnInv, Free
<1>4. ListInv' /\ ReadyInv' /\ HandInv'
  BY <1>1, QuietStep, Zenon DEF Inv
<1> QED BY <1>2, <1>3, <1>4, Zenon DEF Inv

(* schedinit readies a process that still runs and frees a Moribund one.   *)
LEMMA SchedinitInv ==
    ASSUME Inv, NEW m \in Machs, Schedinit(m)
    PROVE  Inv'
<1> DEFINE p == up[m]
<1>1. p \in Procs /\ p # None /\ Free(m) /\ pc[m] = "switch" /\ mach[p] = m
  BY Current, Zenon DEF Schedinit, Inv, OwnInv
<1>2. UNCHANGED <<runq, mp, wired, waiting, cand>>
  BY Zenon DEF Schedinit
<1>3. \/ /\ state[p] = "Running"
         /\ \E k \in Pris : ReadyProc(m, p, k)
         /\ pc' = [pc EXCEPT ![m] = "leave"]
         /\ UNCHANGED <<mach, up>>
      \/ /\ state[p] = "Moribund"
         /\ state' = [state EXCEPT ![p] = "Dead"]
         /\ mach' = [mach EXCEPT ![p] = None]
         /\ up' = [up EXCEPT ![m] = None]
         /\ pc' = [pc EXCEPT ![m] = "runproc"]
         /\ UNCHANGED <<pri, readied, hand>>
      \/ /\ pc' = [pc EXCEPT ![m] = "leave"]
         /\ UNCHANGED <<state, mach, pri, up, readied, hand>>
  BY Zenon DEF Schedinit, Goto, Reprioritize
<1> HIDE DEF p
<1>4. \A n \in Machs \ {m} : pc'[n] = pc[n]
  BY <1>3, Zenon DEF Inv, TypeOK
<1>5. CASE /\ state[p] = "Running"
           /\ \E k \in Pris : ReadyProc(m, p, k)
           /\ pc' = [pc EXCEPT ![m] = "leave"]
           /\ UNCHANGED <<mach, up>>
  <2>1. PICK k \in Pris : ReadyProc(m, p, k)
    BY <1>5, Zenon
  <2>2. pc'[m] = "leave"
    BY <1>5, Zenon DEF Inv, TypeOK
  <2>3. state'[p] = "Ready" /\ \A q \in Procs \ {p} : state'[q] = state[q]
    BY <1>1, <2>1, Zenon DEF ReadyProc, Inv, TypeOK
  <2>4. \A n \in Machs \ {m} : hand'[n] = hand[n]
    BY <2>1, Zenon DEF ReadyProc, Inv, TypeOK
  <2>5. TypeOK'
    <3>1. [p |-> p, k |-> k] \in [p : Procs, k : Pris]
      BY <1>1
    <3> QED BY <1>1, <1>2, <1>5, <2>1, <3>1, Zenon DEF ReadyProc, Inv, TypeOK
  <2>6. PcInv'
    BY <1>1, <1>2, <1>4, <1>5, <2>2, <2>4 DEF Inv, PcInv, Free, p
  <2>7. OwnInv'
    <3>1. waiting' = waiting /\ mach' = mach /\ up' = up /\ cand' = cand /\ state[p] = "Running"
      BY <1>2, <1>5, Zenon
    <3> QED BY <1>1, <1>4, <2>2, <2>3, <3>1, Owned DEF OwnInv
  <2>8. ListInv' /\ ReadyInv' /\ HandInv'
    BY <1>1, <1>2, <1>5, <2>1, ReadyStep, Zenon DEF Inv
  <2> QED BY <2>5, <2>6, <2>7, <2>8, Zenon DEF Inv
<1>6. CASE /\ state[p] = "Moribund"
           /\ state' = [state EXCEPT ![p] = "Dead"]
           /\ mach' = [mach EXCEPT ![p] = None]
           /\ up' = [up EXCEPT ![m] = None]
           /\ pc' = [pc EXCEPT ![m] = "runproc"]
           /\ UNCHANGED <<pri, readied, hand>>
  <2>1. /\ pc'[m] = "runproc" /\ up'[m] = None /\ \A n \in Machs \ {m} : up'[n] = up[n]
        /\ state'[p] = "Dead" /\ \A q \in Procs \ {p} : state'[q] = state[q] /\ mach'[q] = mach[q]
    BY <1>1, <1>6, Zenon DEF Inv, TypeOK
  <2>2. \A n \in Machs \ {m} : up[n] # p
    BY <1>1, Zenon DEF Inv, OwnInv
  <2>3. TypeOK'
    BY <1>1, <1>2, <1>6, Zenon DEF Inv, TypeOK
  <2>4. PcInv'
    BY <1>1, <1>2, <1>4, <1>6, <2>1 DEF Inv, PcInv, Free
  <2>5. OwnInv'
    <3>1. waiting' = waiting /\ cand' = cand /\ state[p] = "Moribund"
      BY <1>2, <1>6, Zenon
    <3> QED BY <1>1, <1>4, <2>1, <2>2, <3>1, Owned DEF OwnInv
  <2>6. ListInv' /\ ReadyInv' /\ HandInv'
    BY <1>1, <1>2, <1>6, <2>1, QuietStep, Zenon DEF Inv
  <2> QED BY <2>3, <2>4, <2>5, <2>6, Zenon DEF Inv
<1>7. CASE /\ pc' = [pc EXCEPT ![m] = "leave"]
           /\ UNCHANGED <<state, mach, pri, up, readied, hand>>
  <2>1. pc'[m] = "leave"
    BY <1>7, Zenon DEF Inv, TypeOK
  <2>2. TypeOK'
    BY <1>2, <1>7, Zenon DEF Inv, TypeOK
  <2>3. PcInv'
    BY <1>1, <1>2, <1>4, <1>7, <2>1, Zenon DEF Inv, PcInv, Free, p
  <2>4. OwnInv'
    <3>1. waiting' = waiting /\ mach' = mach /\ up' = up /\ cand' = cand /\ state' = state
      BY <1>2, <1>7, Zenon
    <3> QED BY <1>4, <2>1, <3>1, Owned DEF OwnInv
  <2>5. ListInv' /\ ReadyInv' /\ HandInv'
    BY <1>2, <1>7, QuietStep, Zenon DEF Inv
  <2> QED BY <2>2, <2>3, <2>4, <2>5, Zenon DEF Inv
<1> QED BY <1>3, <1>5, <1>6, <1>7, Zenon

(* The processor is done with the process that it left.                    *)
LEMMA LeaveInv ==
    ASSUME Inv, NEW m \in Machs, Leave(m)
    PROVE  Inv'
<1> DEFINE p == up[m]
<1>1. p \in Procs /\ p # None /\ Free(m) /\ pc[m] = "leave" /\ mach[p] = m
  BY Current, Zenon DEF Leave, Inv, OwnInv
<1>2. /\ mach' = [mach EXCEPT ![p] = None]
      /\ up' = [up EXCEPT ![m] = None]
      /\ pc' = [pc EXCEPT ![m] = "runproc"]
      /\ UNCHANGED <<runq, state, mp, wired, pri, waiting, readied, hand, cand>>
  BY Zenon DEF Leave, Goto
<1>3. \A n \in Machs \ {m} : up[n] # p
  BY <1>1 DEF Inv, OwnInv
<1> HIDE DEF p
<1>4. /\ pc'[m] = "runproc" /\ up'[m] = None
      /\ \A n \in Machs \ {m} : up'[n] = up[n] /\ pc'[n] = pc[n]
      /\ mach'[p] = None /\ \A q \in Procs \ {p} : mach'[q] = mach[q]
  BY <1>1, <1>2, Zenon DEF Inv, TypeOK
<1>5. TypeOK'
  BY <1>1, <1>2, Zenon DEF Inv, TypeOK
<1>6. PcInv'
  BY <1>1, <1>2, <1>4 DEF Inv, PcInv, Free
<1>7. OwnInv'
  <2>1. waiting' = waiting /\ cand' = cand /\ state' = state
    BY <1>2, Zenon
  <2> QED BY <1>1, <1>3, <1>4, <2>1, Owned DEF OwnInv
<1>8. ListInv' /\ ReadyInv' /\ HandInv'
  BY <1>2, QuietStep, Zenon DEF Inv
<1> QED BY <1>5, <1>6, <1>7, <1>8, Zenon DEF Inv

(* runproc takes the process that was just made ready.                     *)
LEMMA RunReadiedInv ==
    ASSUME Inv, NEW m \in Machs, RunReadied(m)
    PROVE  Inv'
<1>1. pc[m] = "runproc"
  BY Zenon DEF RunReadied
<1>2. UNCHANGED <<runq, state, mach, mp, wired, pri, waiting, up, readied, hand>>
  BY Zenon DEF RunReadied
<1>3. Free(m)
  BY <1>1, Zenon DEF Inv, PcInv
<1>4. ListInv' /\ ReadyInv' /\ HandInv'
  BY <1>2, QuietStep, Zenon DEF Inv
<1>5. CASE pc' = [pc EXCEPT ![m] = "loop"] /\ cand' = cand
  <2>1. pc'[m] = "loop" /\ \A n \in Machs \ {m} : pc'[n] = pc[n]
    BY <1>5, Zenon DEF Inv, TypeOK
  <2>2. TypeOK'
    BY <1>2, <1>5, Zenon DEF Inv, TypeOK
  <2>3. PcInv'
    BY <1>1, <1>2, <1>3, <1>5, <2>1, Zenon DEF Inv, PcInv, Free
  <2>4. OwnInv'
    <3>1. waiting' = waiting /\ mach' = mach /\ up' = up /\ cand' = cand /\ state' = state
      BY <1>2, <1>5, Zenon
    <3> QED BY <2>1, <3>1, Owned DEF OwnInv
  <2> QED BY <1>4, <2>2, <2>3, <2>4, Zenon DEF Inv
<1>6. CASE /\ readied[m] # None
           /\ cand' = [cand EXCEPT ![m] = [p |-> readied[m], k |-> pri[readied[m]]]]
           /\ pc' = [pc EXCEPT ![m] = "found"]
  <2> DEFINE c == [p |-> readied[m], k |-> pri[readied[m]]]
  <2>1. c \in [p : Procs, k : Pris]
    BY <1>6, Zenon DEF Inv, TypeOK
  <2>2. c # None
    BY <2>1, SchedAssumption DEF Pris
  <2>3. cand' = [cand EXCEPT ![m] = c]
    BY <1>6, Zenon
  <2> HIDE DEF c
  <2>4. /\ pc'[m] = "found" /\ \A n \in Machs \ {m} : pc'[n] = pc[n]
        /\ cand'[m] = c /\ \A n \in Machs \ {m} : cand'[n] = cand[n]
    BY <1>6, <2>3, Zenon DEF Inv, TypeOK
  <2>5. TypeOK'
    <3>1. cand' \in [Machs -> [p : Procs, k : Pris] \cup {None}]
      BY <2>1, <2>3, Zenon DEF Inv, TypeOK
    <3>2. pc' \in [Machs -> {"run", "switch", "leave", "runproc", "loop", "found", "got",
                             "rebalance"}]
      BY <1>6, Zenon DEF Inv, TypeOK
    <3> QED BY <1>2, <3>1, <3>2, Zenon DEF Inv, TypeOK
  <2>6. PcInv'
    BY <1>1, <1>2, <1>3, <2>2, <2>4, Zenon DEF Inv, PcInv, Free
  <2>7. OwnInv'
    <3>1. waiting' = waiting /\ mach' = mach /\ up' = up /\ state' = state
      BY <1>2, Zenon
    <3> QED BY <2>4, <3>1, Owned DEF OwnInv
  <2> QED BY <1>4, <2>5, <2>6, <2>7, Zenon DEF Inv
<1> QED BY <1>5, <1>6, Zenon DEF RunReadied, Goto

(* runproc finds a candidate without the lock.                             *)
LEMMA SearchInv ==
    ASSUME Inv, NEW m \in Machs, Search(m)
    PROVE  Inv'
<1>1. pc[m] = "loop" /\ Free(m)
  BY Zenon DEF Search
<1>2. /\ pc' = [pc EXCEPT ![m] = "found"]
      /\ UNCHANGED <<runq, state, mach, mp, wired, pri, waiting, up, readied, hand>>
  BY Zenon DEF Search, Goto
<1>3. PICK k \in Pris : \E i \in DOMAIN runq[k] :
          cand' = [cand EXCEPT ![m] = [p |-> runq[k][i], k |-> k]]
  BY Zenon DEF Search
<1>4. PICK i \in DOMAIN runq[k] : cand' = [cand EXCEPT ![m] = [p |-> runq[k][i], k |-> k]]
  BY <1>3, Zenon
<1>5. runq[k][i] \in Procs
  BY DEF Inv, TypeOK
<1> DEFINE c == [p |-> runq[k][i], k |-> k]
<1>6. c \in [p : Procs, k : Pris] /\ c # None
  BY <1>5, SchedAssumption DEF Pris
<1>7. cand' = [cand EXCEPT ![m] = c]
  BY <1>4, Zenon
<1> HIDE DEF c
<1>8. /\ pc'[m] = "found" /\ \A n \in Machs \ {m} : pc'[n] = pc[n]
      /\ cand'[m] = c /\ \A n \in Machs \ {m} : cand'[n] = cand[n]
  BY <1>2, <1>7, Zenon DEF Inv, TypeOK
<1>9. TypeOK'
  BY <1>2, <1>6, <1>7, Zenon DEF Inv, TypeOK
<1>10. PcInv'
  <2>1. up' = up /\ hand' = hand /\ c # None
    BY <1>2, <1>6, Zenon
  <2> QED BY <1>1, <1>8, <2>1 DEF Inv, PcInv, Free
<1>11. OwnInv'
  <2>1. waiting' = waiting /\ mach' = mach /\ up' = up /\ state' = state
    BY <1>2, Zenon
  <2> QED BY <1>8, <2>1, Owned DEF OwnInv
<1>12. ListInv' /\ ReadyInv' /\ HandInv'
  BY <1>2, QuietStep, Zenon DEF Inv
<1> QED BY <1>9, <1>10, <1>11, <1>12, Zenon DEF Inv

(* dequeueproc takes the candidate only if it is queued and p->mach is     *)
(* nil.                                                                    *)
LEMMA DequeueprocInv ==
    ASSUME Inv, NEW m \in Machs, Dequeueproc(m)
    PROVE  Inv'
<1>1. pc[m] = "found" /\ cand[m].p \in Procs /\ cand[m].k \in Pris /\ cand[m] # None /\ Free(m)
  BY Current, Zenon DEF Dequeueproc
<1>2. UNCHANGED <<mach, wired, pri, waiting, up, readied, hand>>
  BY Zenon DEF Dequeueproc
<1>p. PICK p \in Procs : p = cand[m].p
  BY <1>1, Zenon
<1>k. PICK k \in Pris : k = cand[m].k
  BY <1>1, Zenon
<1>3. \/ /\ pc' = [pc EXCEPT ![m] = "loop"]
         /\ cand' = [cand EXCEPT ![m] = None]
         /\ UNCHANGED <<runq, state, mp>>
      \/ /\ Unlink(k, p)
         /\ mach[p] = None
         /\ state' = [state EXCEPT ![p] = "Scheding"]
         /\ mp' = [mp EXCEPT ![p] = m]
         /\ pc' = [pc EXCEPT ![m] = "got"]
         /\ cand' = cand
  BY <1>p, <1>k, Zenon DEF Dequeueproc, Goto
<1>4. CASE /\ pc' = [pc EXCEPT ![m] = "loop"]
           /\ cand' = [cand EXCEPT ![m] = None]
           /\ UNCHANGED <<runq, state, mp>>
  <2>1. /\ pc'[m] = "loop" /\ \A n \in Machs \ {m} : pc'[n] = pc[n]
        /\ cand'[m] = None /\ \A n \in Machs \ {m} : cand'[n] = cand[n]
    BY <1>4, Zenon DEF Inv, TypeOK
  <2>2. TypeOK'
    BY <1>2, <1>4, Zenon DEF Inv, TypeOK
  <2>3. PcInv'
    <3>1. up' = up /\ hand' = hand
      BY <1>2, Zenon
    <3> QED BY <1>1, <2>1, <3>1, Zenon DEF Inv, PcInv, Free
  <2>4. OwnInv'
    <3>1. waiting' = waiting /\ mach' = mach /\ up' = up /\ state' = state
      BY <1>2, <1>4, Zenon
    <3> QED BY <2>1, <3>1, Owned DEF OwnInv
  <2>5. ListInv' /\ ReadyInv' /\ HandInv'
    BY <1>2, <1>4, QuietStep, Zenon DEF Inv
  <2> QED BY <2>2, <2>3, <2>4, <2>5, Zenon DEF Inv
<1>5. CASE /\ Unlink(k, p)
           /\ mach[p] = None
           /\ state' = [state EXCEPT ![p] = "Scheding"]
           /\ mp' = [mp EXCEPT ![p] = m]
           /\ pc' = [pc EXCEPT ![m] = "got"]
           /\ cand' = cand
  <2>1. /\ pc'[m] = "got" /\ \A n \in Machs \ {m} : pc'[n] = pc[n]
        /\ state'[p] = "Scheding" /\ \A q \in Procs \ {p} : state'[q] = state[q]
    BY <1>5, Zenon DEF Inv, TypeOK
  <2>2. /\ runq' \in [Pris -> Seq(Procs)]
        /\ Queued(p) /\ ~ Queued(p)'
        /\ \A q \in Procs \ {p} : Queued(q)' <=> Queued(q)
        /\ ListInv'
    BY <1>5, UnlinkStep, Zenon DEF Inv
  <2>3. \A n, q : Holds(n, q)' <=> Holds(n, q)
    BY <1>2, SameHands, Zenon
  <2>4. state[p] = "Ready" /\ \A n \in Machs : ~ Holds(n, p)
    BY <2>2, Zenon DEF Inv, ReadyInv, HandInv
  <2>5. TypeOK'
    BY <1>2, <1>5, <2>2, Zenon DEF Inv, TypeOK
  <2>6. PcInv'
    <3>1. up' = up /\ hand' = hand /\ cand' = cand
      BY <1>2, <1>5, Zenon
    <3> QED BY <1>1, <2>1, <3>1, Zenon DEF Inv, PcInv, Free
  <2>7. \A n \in Machs : up[n] # p /\ (pc[n] = "got" => cand[n].p # p)
    <3>1. None \notin Machs /\ p # None
      BY SchedAssumption, Zenon
    <3> QED BY <1>5, <2>4, <3>1 DEF Inv, OwnInv
  <2>8. OwnInv'
    <3>1. waiting' = waiting /\ mach' = mach /\ up' = up /\ cand' = cand /\ mach[p] = None
      BY <1>2, <1>5, Zenon
    <3> QED BY <1>p, <2>1, <2>4, <2>7, <3>1, Owned DEF OwnInv
  <2>9. ReadyInv'
    BY <2>1, <2>2, <2>3, <2>4, Zenon DEF Inv, ReadyInv
  <2>10. HandInv'
    BY <2>2, <2>3, <2>4, Zenon DEF Inv, HandInv
  <2> QED BY <2>2, <2>5, <2>6, <2>8, <2>9, <2>10, Zenon DEF Inv
<1> QED BY <1>3, <1>4, <1>5, Zenon

(* The processor runs what it has taken.                                   *)
LEMMA RunInv ==
    ASSUME Inv, NEW m \in Machs, Run(m)
    PROVE  Inv'
<1>1. pc[m] = "got" /\ cand[m].p \in Procs /\ cand[m] # None /\ Free(m)
  BY Current, Zenon DEF Run
<1>p. PICK p \in Procs : p = cand[m].p
  BY <1>1, Zenon
<1>2. /\ state' = [state EXCEPT ![p] = "Running"]
      /\ mach' = [mach EXCEPT ![p] = m]
      /\ up' = [up EXCEPT ![m] = p]
      /\ readied' = [readied EXCEPT ![m] = None]
      /\ cand' = [cand EXCEPT ![m] = None]
      /\ pc' = [pc EXCEPT ![m] = "run"]
      /\ UNCHANGED <<runq, mp, wired, waiting, hand>>
  BY <1>p, Zenon DEF Run, Goto
<1>3. PICK k \in Pris : pri' = [pri EXCEPT ![p] = k]
  BY <1>p, Zenon DEF Run, Reprioritize
<1>4. mach[p] = None /\ state[p] = "Scheding"
  BY <1>1, <1>p, Zenon DEF Inv, OwnInv
<1>5. None \notin Machs /\ p # None
  BY SchedAssumption, Zenon
<1>6. \A n \in Machs : /\ up[n] # p
                       /\ n # m /\ pc[n] = "got" => cand[n].p # p
  BY <1>1, <1>p, <1>4, <1>5, Owned DEF OwnInv
<1>7. /\ pc'[m] = "run" /\ up'[m] = p /\ cand'[m] = None
      /\ \A n \in Machs \ {m} : pc'[n] = pc[n] /\ up'[n] = up[n] /\ cand'[n] = cand[n]
      /\ state'[p] = "Running" /\ mach'[p] = m
      /\ \A q \in Procs \ {p} : state'[q] = state[q] /\ mach'[q] = mach[q]
  BY <1>2, Zenon DEF Inv, TypeOK
<1>8. TypeOK'
  BY <1>2, <1>3, Zenon DEF Inv, TypeOK
<1>9. PcInv'
  <2>1. hand' = hand
    BY <1>2, Zenon
  <2> QED BY <1>1, <1>5, <1>7, <2>1 DEF Inv, PcInv, Free
<1>10. OwnInv'
  <2>1. waiting' = waiting
    BY <1>2, Zenon
  <2> QED BY <1>4, <1>6, <1>7, <2>1, Owned DEF OwnInv
<1>11. ListInv' /\ ReadyInv' /\ HandInv'
  BY <1>2, <1>4, <1>7, QuietStep, Zenon DEF Inv
<1> QED BY <1>8, <1>9, <1>10, <1>11, Zenon DEF Inv

(* Every step of a processor keeps the invariant.                          *)
LEMMA NextInv ==
    ASSUME Inv, [Next]_vars
    PROVE  Inv'
<1>1. CASE UNCHANGED vars
  <2>1. TypeOK' /\ PcInv' /\ OwnInv'
    BY <1>1 DEF Inv, TypeOK, PcInv, OwnInv, Free, vars
  <2>2. ListInv' /\ ReadyInv' /\ HandInv'
    BY <1>1, QuietStep, Zenon DEF Inv, vars
  <2> QED BY <2>1, <2>2, Zenon DEF Inv
<1>2. ASSUME NEW m \in Machs, MachStep(m) PROVE Inv'
  BY <1>2, QueueprocInv, BlockInv, SchedInv, SchedinitInv, LeaveInv, RunReadiedInv, SearchInv,
     DequeueprocInv, RunInv, RebalanceInv, WakeInv, NewprocInv, ProcpriorityInv, ProcwiredInv,
     RebalanceFindInv, Zenon DEF MachStep
<1> QED BY <1>1, <1>2, Zenon DEF Next

(* A process in use by two processors would have two values of p->mach;    *)
(* one in use and taken off its queue would have one and none.             *)
LEMMA InvOneProcessor == Inv => OneProcessor
<1> SUFFICES ASSUME Inv, NEW m \in Machs, NEW n \in Machs, NEW p \in Procs, Has(m, p), Has(n, p)
             PROVE  m = n
  BY Zenon DEF OneProcessor
<1>1. None \notin Machs /\ p # None
  BY SchedAssumption, Zenon
<1> QED BY <1>1 DEF Has, Inv, OwnInv

(* The place of a process on the queues, or in the hands, is the only one. *)
LEMMA InvReadyQueuedOnce == Inv => ReadyQueuedOnce
<1> SUFFICES ASSUME Inv, NEW p \in Procs
             PROVE  IF state[p] = "Ready" THEN \E x \in Places(p) : Places(p) = {x}
                                          ELSE Places(p) = {}
  BY Zenon DEF ReadyQueuedOnce
<1>1. \A k \in Pris : DOMAIN runq[k] = 1 .. Len(runq[k])
  BY DEF Inv, TypeOK
<1>2. \A x : x \in Places(p) <=>
          \/ \E k \in Pris : \E i \in 1 .. Len(runq[k]) : x = <<k, i>> /\ runq[k][i] = p
          \/ \E m \in Machs : x = <<m, 0>> /\ Holds(m, p)
  <2> TAKE x
  <2>1. x \in InHands(p) <=> \E m \in Machs : x = <<m, 0>> /\ Holds(m, p)
    BY Zenon DEF InHands, Holds
  <2>2. \A k : x \in OnQueue(p, k) <=> \E i \in DOMAIN runq[k] : x = <<k, i>> /\ runq[k][i] = p
    BY Zenon DEF OnQueue
  <2>3. x \in OnQueues(p) <=> \E k \in Pris : x \in OnQueue(p, k)
    BY Zenon DEF OnQueues
  <2>4. \A k \in Pris : x \in OnQueue(p, k)
                          <=> \E i \in 1 .. Len(runq[k]) : x = <<k, i>> /\ runq[k][i] = p
    BY <1>1, <2>2, Zenon
  <2>5. x \in Places(p) <=> x \in OnQueues(p) \/ x \in InHands(p)
    BY Zenon DEF Places
  <2> QED BY <2>1, <2>3, <2>4, <2>5, Zenon
<1>3. CASE state[p] # "Ready"
  <2>1. ~ Queued(p) /\ \A m \in Machs : ~ Holds(m, p)
    BY <1>3, Zenon DEF Inv, ReadyInv
  <2>2. \A x : x \notin Places(p)
    BY <1>2, <2>1, Zenon DEF Queued
  <2> QED BY <1>3, <2>2, Zenon
<1>4. CASE state[p] = "Ready" /\ Queued(p)
  <2>1. PICK k \in Pris : \E i \in 1 .. Len(runq[k]) : runq[k][i] = p
    BY <1>4, Zenon DEF Queued
  <2>2. PICK i \in 1 .. Len(runq[k]) : runq[k][i] = p
    BY <2>1, Zenon
  <2>3. \A m \in Machs : ~ Holds(m, p)
    BY <1>4, Zenon DEF Inv, HandInv
  <2>4. \A l \in Pris : \A j \in 1 .. Len(runq[l]) : runq[l][j] = p => l = k /\ j = i
    BY <2>2 DEF Inv, ListInv
  <2>5. \A x : x \in Places(p) <=> x = <<k, i>>
    BY <1>2, <2>2, <2>3, <2>4, Zenon
  <2>6. Places(p) = {<<k, i>>}
    BY <2>5, Zenon
  <2> QED BY <1>4, <2>5, <2>6, Zenon
<1>5. CASE state[p] = "Ready" /\ ~ Queued(p)
  <2>1. PICK m \in Machs : Holds(m, p)
    BY <1>5, Zenon DEF Inv, ReadyInv
  <2>2. \A n \in Machs : Holds(n, p) => n = m
    BY <2>1, Zenon DEF Inv, HandInv
  <2>3. \A x : x \in Places(p) <=> x = <<m, 0>>
    BY <1>2, <1>5, <2>1, <2>2, Zenon DEF Queued
  <2>4. Places(p) = {<<m, 0>>}
    BY <2>3, Zenon
  <2> QED BY <1>5, <2>3, <2>4, Zenon
<1> QED BY <1>3, <1>4, <1>5, Zenon

(* The invariant holds always.                                             *)
LEMMA InvHolds == Spec => []Inv
<1> QED BY InitInv, NextInv, PTL DEF Spec

(* Every variable of the scheduler keeps its type: no processor puts a     *)
(* process on a queue that does not exist, whatever it found unlocked.     *)
THEOREM TypeCorrect == Spec => []TypeOK
<1>1. Inv => TypeOK
  BY Zenon DEF Inv
<1> QED BY <1>1, InvHolds, PTL

(* p->mach and the run queues keep a process on one processor, on any      *)
(* number of processors: dequeueproc's test of p->mach under the lock is   *)
(* enough, though ready may queue a process whose stack is still in use.   *)
THEOREM OneProcessorHolds == Spec => []OneProcessor
BY InvOneProcessor, InvHolds, PTL

(* ready, rebalance and runproc neither lose a ready process nor queue it  *)
(* twice.                                                                  *)
THEOREM ReadyQueuedOnceHolds == Spec => []ReadyQueuedOnce
BY InvReadyQueuedOnce, InvHolds, PTL
=============================================================================
