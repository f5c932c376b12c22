-------------------------- MODULE RendezvousProofs --------------------------
(***************************************************************************)
(* Proofs about Rendezvous for every set of processes, of tags and of      *)
(* threads that post notes.                                                *)
(***************************************************************************)
EXTENDS Rendezvous, TLAPS

(* Where a process is goes with its state; the holder of the lock is the   *)
(* process that spins, and it has a partner in its hands.                  *)
PcInv ==
    /\ \A p \in Procs :
        /\ pc[p] \in {"user", "lock", "spin", "sched", "off", "ret"}
        /\ state[p] = "Running" <=> pc[p] \notin {"sched", "off"}
        /\ pc[p] = "spin" <=> lk = p
        /\ pc[p] = "spin" => tgt[p] \in Procs
    /\ \A n \in Posters : pc[n] \in {"test", "pull"} => tgt[n] \in Procs

(* No tag is in the chain twice.                                           *)
TagOnce == \A i, j \in DOMAIN chain : rendtag[chain[i]] = rendtag[chain[j]] => i = j

(* The process that spins has p in its hands.                              *)
Taken(p) == \E q \in Procs : pc[q] = "spin" /\ tgt[q] = p

(* A process waits in the chain or is taken off it by its partner.         *)
HeldInv ==
    \A p \in Procs :
        /\ state[p] = "Rendezvous" <=> Listed(p) \/ Taken(p)
        /\ ~ (Listed(p) /\ Taken(p))

(* What a waiting process will return.                                     *)
Due(p) == IF with[p] # None THEN with[p] ELSE IF state[p] = "Ready" THEN Interrupted ELSE p

(* What a process has in its hands agrees with the partner it has met.     *)
ValOf(p) ==
    /\ pc[p] = "lock" \/ Listed(p) => with[p] = None
    /\ Taken(p) => with[p] # None
    /\ pc[p] = "spin" => with[p] = tgt[p] /\ val[p] = tgt[p]
    /\ pc[p] \in {"sched", "off"} => rendval[p] = Due(p)
    /\ pc[p] = "ret" => val[p] = IF with[p] = None THEN Interrupted ELSE with[p]

(* ValOf of every process.                                                 *)
ValInv == \A p \in Procs : ValOf(p)

(* The inductive invariant.                                                *)
RInv == TypeOK /\ PcInv /\ TagOnce /\ HeldInv /\ ValInv
-----------------------------------------------------------------------------
(* A sequence without its element i.                                       *)
LEMMA UnlinkedFacts ==
    ASSUME NEW S, NEW s \in Seq(S), NEW i \in 1 .. Len(s)
    PROVE  LET t == SubSeq(s, 1, i - 1) \o SubSeq(s, i + 1, Len(s))
           IN  /\ t \in Seq(S)
               /\ Len(t) = Len(s) - 1
               /\ \A j \in 1 .. Len(s) - 1 : t[j] = IF j < i THEN s[j] ELSE s[j + 1]
<1> DEFINE a == SubSeq(s, 1, i - 1)
           b == SubSeq(s, i + 1, Len(s))
<1>1. Len(s) \in Nat
  OBVIOUS
<1>2. a \in Seq(S) /\ Len(a) = i - 1 /\ \A j \in 1 .. i - 1 : a[j] = s[j]
  BY <1>1
<1>3. b \in Seq(S) /\ Len(b) = Len(s) - i /\ \A j \in 1 .. Len(s) - i : b[j] = s[i + j]
  <2>1. CASE i = Len(s)
    BY <1>1, <2>1
  <2>2. CASE i < Len(s)
    BY <1>1, <2>2
  <2> QED BY <1>1, <2>1, <2>2
<1> HIDE DEF a, b
<1>5. /\ a \o b \in Seq(S)
      /\ Len(a \o b) = Len(s) - 1
      /\ \A j \in 1 .. Len(s) - 1 : (a \o b)[j] = IF j < i THEN a[j] ELSE b[j - (i - 1)]
  <2>1. /\ a \o b \in Seq(S) /\ Len(a \o b) = Len(a) + Len(b)
        /\ \A j \in 1 .. Len(a) + Len(b) :
               (a \o b)[j] = IF j <= Len(a) THEN a[j] ELSE b[j - Len(a)]
    <3>0. a \in Seq(S) /\ b \in Seq(S)
      BY <1>2, <1>3, Zenon
    <3>1. a \o b \in Seq(S)
      BY <3>0
    <3>3. Len(a \o b) = Len(a) + Len(b)
      BY <3>0
    <3>2. \A j \in 1 .. Len(a) + Len(b) :
              (a \o b)[j] = IF j <= Len(a) THEN a[j] ELSE b[j - Len(a)]
      BY <3>0
    <3> QED BY <3>1, <3>2, <3>3, Zenon
  <2>2. Len(a) + Len(b) = Len(s) - 1 /\ Len(a) = i - 1
    BY <1>1, <1>2, <1>3
  <2>3. \A j \in 1 .. Len(s) - 1 : j <= i - 1 <=> j < i
    BY <1>1
  <2> QED BY <2>1, <2>2, <2>3, Zenon
<1>6. ASSUME NEW j \in 1 .. Len(s) - 1
      PROVE  (a \o b)[j] = IF j < i THEN s[j] ELSE s[j + 1]
  <2>1. CASE j < i
    BY <1>1, <1>2, <1>5, <2>1
  <2>2. CASE ~(j < i)
    <3>1. j - (i - 1) \in 1 .. Len(s) - i /\ i + (j - (i - 1)) = j + 1
      BY <1>1, <2>2
    <3> QED BY <1>3, <1>5, <2>2, <3>1, Zenon
  <2> QED BY <2>1, <2>2, Zenon
<1> QED BY <1>5, <1>6, Zenon DEF a, b

(* Taking element i off the chain takes one process off and leaves the     *)
(* others; a tag that was there once is not there twice.                   *)
LEMMA ChainUnlinked ==
    ASSUME chain \in Seq(Procs), TagOnce, NEW i \in DOMAIN chain, chain' = Unlinked(i),
           rendtag' = rendtag
    PROVE  /\ chain' \in Seq(Procs) /\ TagOnce'
           /\ \A p : Listed(p)' <=> Listed(p) /\ p # chain[i]
<1>1. DOMAIN chain = 1 .. Len(chain) /\ Len(chain) \in Nat
  OBVIOUS
<1>2. /\ chain' \in Seq(Procs) /\ Len(chain') = Len(chain) - 1
      /\ \A j \in 1 .. Len(chain) - 1 : chain'[j] = IF j < i THEN chain[j] ELSE chain[j + 1]
  BY <1>1, UnlinkedFacts, Zenon DEF Unlinked
<1>3. DOMAIN chain' = 1 .. Len(chain) - 1
  BY <1>2
<1>4. TagOnce'
  <2> SUFFICES ASSUME NEW j \in DOMAIN chain', NEW k \in DOMAIN chain',
                      rendtag[chain'[j]] = rendtag[chain'[k]]
               PROVE  j = k
    BY Zenon DEF TagOnce
  <2>1. PICK jj \in DOMAIN chain : chain'[j] = chain[jj] /\ jj = IF j < i THEN j ELSE j + 1
    BY <1>1, <1>2, <1>3
  <2>2. PICK kk \in DOMAIN chain : chain'[k] = chain[kk] /\ kk = IF k < i THEN k ELSE k + 1
    BY <1>1, <1>2, <1>3
  <2>3. jj = kk
    BY <2>1, <2>2 DEF TagOnce
  <2> QED BY <1>1, <1>3, <2>1, <2>2, <2>3
<1>5. ASSUME NEW p PROVE Listed(p)' <=> Listed(p) /\ p # chain[i]
  <2>1. ASSUME Listed(p)' PROVE Listed(p) /\ p # chain[i]
    <3>1. PICK j \in DOMAIN chain' : chain'[j] = p
      BY <2>1, Zenon DEF Listed
    <3>2. PICK jj \in DOMAIN chain : chain'[j] = chain[jj] /\ jj # i
      <4>1. CASE j < i
        BY <1>1, <1>2, <1>3, <4>1
      <4>2. CASE ~(j < i)
        <5>1. j \in 1 .. Len(chain) - 1 /\ j + 1 \in DOMAIN chain /\ j + 1 # i
          BY <1>1, <1>3, <4>2
        <5> QED BY <1>2, <4>2, <5>1, Zenon
      <4> QED BY <4>1, <4>2, Zenon
    <3> QED BY <3>1, <3>2, Zenon DEF Listed, TagOnce
  <2>2. ASSUME Listed(p), p # chain[i] PROVE Listed(p)'
    <3>1. PICK j \in DOMAIN chain : chain[j] = p /\ j # i
      BY <2>2, Zenon DEF Listed
    <3>2. PICK jj \in DOMAIN chain' : chain'[jj] = chain[j]
      <4>1. CASE j < i
        BY <1>1, <1>2, <1>3, <4>1
      <4>2. CASE j > i
        <5>1. j - 1 \in 1 .. Len(chain) - 1 /\ (j - 1) + 1 = j /\ ~ (j - 1 < i)
          BY <1>1, <4>2
        <5> QED BY <1>2, <1>3, <5>1, Zenon
      <4> QED BY <1>1, <3>1, <4>1, <4>2
    <3> QED BY <3>1, <3>2, Zenon DEF Listed
  <2> QED BY <2>1, <2>2, Zenon
<1> QED BY <1>2, <1>4, <1>5, Zenon

(* A process that looks for its tag in vain goes to the end of the chain.  *)
LEMMA ChainAppended ==
    ASSUME chain \in Seq(Procs), TagOnce, NEW p \in Procs, chain' = Append(chain, p),
           \A i \in DOMAIN chain : rendtag[chain[i]] # rendtag[p], rendtag' = rendtag
    PROVE  /\ chain' \in Seq(Procs) /\ TagOnce'
           /\ \A q : Listed(q)' <=> Listed(q) \/ q = p
<1>1. DOMAIN chain = 1 .. Len(chain) /\ Len(chain) \in Nat
  OBVIOUS
<1>2. /\ chain' \in Seq(Procs) /\ DOMAIN chain' = 1 .. Len(chain) + 1
      /\ \A i \in 1 .. Len(chain) : chain'[i] = chain[i]
      /\ chain'[Len(chain) + 1] = p
  BY <1>1
<1>3. TagOnce'
  BY <1>1, <1>2 DEF TagOnce
<1>4. ASSUME NEW q PROVE Listed(q)' <=> Listed(q) \/ q = p
  BY <1>1, <1>2 DEF Listed
<1> QED BY <1>2, <1>3, <1>4, Zenon

(* postnote takes the process that it finds in its rendezvous off the      *)
(* chain.                                                                  *)
LEMMA ChainWithout ==
    ASSUME chain \in Seq(Procs), TagOnce, NEW p \in Procs, chain' = Without(p), rendtag' = rendtag
    PROVE  /\ chain' \in Seq(Procs) /\ TagOnce'
           /\ \A q : Listed(q)' <=> Listed(q) /\ q # p
<1>1. CASE Listed(p)
  <2>1. PICK k \in DOMAIN chain : chain[k] = p
    BY <1>1, Zenon DEF Listed
  <2>2. \A j \in 1 .. k - 1 : chain[j] # p
    BY <2>1 DEF TagOnce
  <2>3. PICK i \in DOMAIN chain : chain[i] = p /\ chain' = Unlinked(i)
    BY <1>1, <2>1, <2>2, Zenon DEF Without
  <2> QED BY <2>3, ChainUnlinked, Zenon
<1>2. CASE ~ Listed(p)
  BY <1>2, Zenon DEF Without, Listed, TagOnce
<1> QED BY <1>1, <1>2, Zenon
-----------------------------------------------------------------------------
(* A step of p that leaves the chain, the lock and the states alone, and   *)
(* begins or ends the call of p.                                           *)
LEMMA EdgeStep ==
    ASSUME RInv, NEW p \in Procs, (\E tag \in Tags : Call(p, tag)) \/ Return(p) \/ Notify(p)
    PROVE  RInv'
<1> USE RendezvousAssumption DEF Goto, Threads
<1>1. /\ chain' = chain /\ lk' = lk /\ state' = state /\ tgt' = tgt
      /\ pc' = [pc EXCEPT ![p] = pc'[p]]
      /\ pc[p] \in {"user", "ret"} /\ pc'[p] \in {"user", "lock"}
      /\ \A q \in Procs \ {p} : /\ rendtag'[q] = rendtag[q] /\ rendval'[q] = rendval[q]
                                /\ val'[q] = val[q] /\ with'[q] = with[q]
  BY DEF RInv, TypeOK, Call, Return, Notify
<1>2. TypeOK'
  <2>1. ASSUME NEW tag \in Tags, Call(p, tag) PROVE TypeOK'
    BY <2>1, Zenon DEF RInv, TypeOK, Call
  <2>2. CASE Return(p)
    BY <2>2 DEF RInv, TypeOK, Return
  <2>3. CASE Notify(p)
    BY <2>3 DEF RInv, TypeOK, Notify
  <2> QED BY <2>1, <2>2, <2>3, Zenon
<1>3. PcInv'
  BY <1>1 DEF RInv, PcInv, TypeOK
<1>4. ~ Listed(p) /\ \A q \in Procs : (Listed(q)' <=> Listed(q)) /\ (Taken(q)' <=> Taken(q))
  <2>1. state[p] = "Running"
    BY <1>1, Zenon DEF RInv, PcInv
  <2>2. ~ Listed(p)
    BY <2>1, Zenon DEF RInv, HeldInv
  <2>3. \A q \in Procs : Listed(q)' <=> Listed(q)
    BY <1>1, Zenon DEF Listed
  <2>4. \A q \in Procs : pc'[q] = "spin" <=> pc[q] = "spin"
    BY <1>1, Zenon DEF RInv, TypeOK
  <2>5. \A q \in Procs : Taken(q)' <=> Taken(q)
    BY <1>1, <2>4, Zenon DEF Taken
  <2> QED BY <2>2, <2>3, <2>5, Zenon
<1>5. TagOnce'
  BY <1>1, <1>4 DEF RInv, TypeOK, TagOnce, Listed
<1>6. HeldInv'
  BY <1>1, <1>4, Zenon DEF RInv, HeldInv
<1>7. ValInv'
  <2>1. ASSUME NEW q \in Procs \ {p}
        PROVE  ValOf(q)'
    BY <1>1, <1>4 DEF RInv, ValInv, ValOf, Due, TypeOK
  <2>2. ValOf(p)'
    <3>1. ~ Taken(p)
      BY <1>1, Zenon DEF RInv, PcInv, HeldInv
    <3> QED BY <1>1, <1>4, <3>1, Zenon DEF RInv, ValInv, ValOf, TypeOK, Call, Return, Notify
  <2> QED BY <2>1, <2>2, Zenon DEF ValInv
<1> QED BY <1>2, <1>3, <1>5, <1>6, <1>7, Zenon DEF RInv

(* The second process to come: it takes the first off the chain, holds the *)
(* lock and has both values exchanged.                                     *)
LEMMA MeetStep ==
    ASSUME RInv, NEW p \in Procs, Meet(p)
    PROVE  RInv'
<1> USE RendezvousAssumption DEF Goto, Threads
<1>1. PICK i \in DOMAIN chain : /\ chain' = Unlinked(i)
                                /\ tgt' = [tgt EXCEPT ![p] = chain[i]]
                                /\ val' = [val EXCEPT ![p] = rendval[chain[i]]]
                                /\ rendval' = [rendval EXCEPT ![chain[i]] = p]
                                /\ with' = [with EXCEPT ![p] = chain[i], ![chain[i]] = p]
  BY Zenon DEF Meet
<1>2. PICK q \in Procs : q = chain[i]
  BY DEF RInv, TypeOK
<1>3. /\ pc[p] = "lock" /\ lk = None /\ lk' = p /\ pc' = [pc EXCEPT ![p] = "spin"]
      /\ rendtag' = rendtag /\ state' = state /\ notepending' = notepending
  BY Zenon DEF Meet
<1>4. /\ chain' \in Seq(Procs) /\ TagOnce'
      /\ \A r : Listed(r)' <=> Listed(r) /\ r # q
  BY <1>1, <1>2, <1>3, ChainUnlinked, Zenon DEF RInv, TypeOK
<1>5. Listed(q) /\ state[q] = "Rendezvous" /\ with[q] = None /\ q # p /\ pc[q] \in {"sched", "off"}
  <2>1. Listed(q)
    BY <1>2, Zenon DEF Listed
  <2>2. state[q] = "Rendezvous" /\ with[q] = None
    BY <2>1, Zenon DEF RInv, HeldInv, ValInv, ValOf
  <2> QED BY <1>3, <2>1, <2>2, Zenon DEF RInv, PcInv
<1>6. rendval[q] = q
  BY <1>5, Zenon DEF RInv, ValInv, ValOf, Due
<1>7. TypeOK'
  BY <1>1, <1>2, <1>3, <1>4, Zenon DEF RInv, TypeOK
<1>8. PcInv'
  BY <1>1, <1>2, <1>3, Zenon DEF RInv, PcInv, TypeOK
<1>9. \A r \in Procs : ~ Taken(r) /\ (Taken(r)' <=> r = q)
  <2>1. \A r \in Procs : pc[r] # "spin"
    BY <1>3, Zenon DEF RInv, PcInv
  <2>2. \A r \in Procs : pc'[r] = "spin" <=> r = p
    BY <1>3, <2>1, Zenon DEF RInv, TypeOK
  <2>3. tgt'[p] = q
    BY <1>1, <1>2, Zenon DEF RInv, TypeOK
  <2> QED BY <2>1, <2>2, <2>3, Zenon DEF Taken
<1>10. HeldInv'
  BY <1>3, <1>4, <1>5, <1>9, Zenon DEF RInv, HeldInv
<1>11. ValInv'
  <2>1. ASSUME NEW r \in Procs \ {p, q} PROVE ValOf(r)'
    BY <1>1, <1>2, <1>3, <1>4, <1>9 DEF RInv, ValInv, ValOf, Due, TypeOK
  <2>2. ValOf(q)'
    BY <1>1, <1>2, <1>3, <1>4, <1>5, Zenon DEF RInv, ValOf, Due, TypeOK
  <2>3. ValOf(p)'
    <3>1. ~ Listed(p)
      BY <1>3, Zenon DEF RInv, PcInv, HeldInv
    <3> QED BY <1>1, <1>2, <1>3, <1>4, <1>5, <1>6, <1>9, <3>1, Zenon DEF RInv, ValOf, TypeOK
  <2> QED BY <2>1, <2>2, <2>3, Zenon DEF ValInv
<1> QED BY <1>4, <1>7, <1>8, <1>10, <1>11, Zenon DEF RInv

(* ready and the unlock.                                                   *)
LEMMA ReadyStep ==
    ASSUME RInv, NEW p \in Procs, Ready(p)
    PROVE  RInv'
<1> USE RendezvousAssumption DEF Goto, Threads
<1>1. PICK q \in Procs : q = tgt[p]
  BY Zenon DEF Ready, RInv, PcInv
<1>2. /\ pc[p] = "spin" /\ pc[q] = "off" /\ lk' = None /\ pc' = [pc EXCEPT ![p] = "ret"]
      /\ state' = [state EXCEPT ![q] = "Ready"] /\ tgt' = [tgt EXCEPT ![p] = None]
      /\ UNCHANGED <<chain, rendtag, rendval, notepending, val, with>>
  BY <1>1, Zenon DEF Ready
<1>3. lk = p /\ \A r \in Procs \ {p} : pc[r] # "spin"
  BY <1>2, Zenon DEF RInv, PcInv
<1>4. TypeOK'
  BY <1>2, Zenon DEF RInv, TypeOK
<1>5. PcInv'
  BY <1>1, <1>2, <1>3 DEF RInv, PcInv, TypeOK
<1>6. TagOnce' /\ \A r : Listed(r)' <=> Listed(r)
  BY <1>2, Zenon DEF RInv, TagOnce, Listed
<1>7. \A r \in Procs : ~ Taken(r)' /\ (Taken(r) <=> r = q)
  <2>1. \A r \in Procs : pc'[r] # "spin"
    BY <1>2, <1>3, Zenon DEF RInv, TypeOK
  <2> QED BY <1>1, <1>2, <1>3, <2>1, Zenon DEF Taken
<1>8. HeldInv'
  BY <1>2, <1>6, <1>7, Zenon DEF RInv, HeldInv, TypeOK
<1>9. ValInv'
  <2>1. with[q] # None
    BY <1>7, Zenon DEF RInv, ValInv, ValOf
  <2>2. ASSUME NEW r \in Procs \ {p} PROVE ValOf(r)'
    BY <1>2, <1>6, <1>7, <2>1, <2>2 DEF RInv, ValInv, ValOf, Due, TypeOK
  <2>3. ValOf(p)'
    <3>1. ~ Listed(p)
      BY <1>2, Zenon DEF RInv, PcInv, HeldInv
    <3>2. with'[p] = tgt[p] /\ val'[p] = tgt[p]
      BY <1>2, Zenon DEF RInv, ValInv, ValOf
    <3>3. pc'[p] = "ret"
      BY <1>2, Zenon DEF RInv, TypeOK
    <3> QED BY <1>1, <1>6, <1>7, <3>1, <3>2, <3>3, Zenon DEF ValOf
  <2> QED BY <2>2, <2>3, Zenon DEF ValInv
<1> QED BY <1>4, <1>5, <1>6, <1>8, <1>9, Zenon DEF RInv

(* The first process to come: it goes to the end of the chain.             *)
LEMMA WaitStep ==
    ASSUME RInv, NEW p \in Procs, Wait(p)
    PROVE  RInv'
<1> USE RendezvousAssumption DEF Goto, Threads
<1>1. /\ pc[p] = "lock" /\ lk = None /\ lk' = lk /\ tgt' = tgt
      /\ pc' = [pc EXCEPT ![p] = "sched"]
      /\ rendval' = [rendval EXCEPT ![p] = p]
      /\ state' = [state EXCEPT ![p] = "Rendezvous"]
      /\ UNCHANGED <<rendtag, notepending, val, with>>
  BY Zenon DEF Wait
<1>2. /\ chain' \in Seq(Procs) /\ TagOnce'
      /\ \A q : Listed(q)' <=> Listed(q) \/ q = p
  BY ChainAppended, Zenon DEF RInv, TypeOK, Wait
<1>3. TypeOK'
  BY <1>1, <1>2, Zenon DEF RInv, TypeOK
<1>4. PcInv'
  BY <1>1 DEF RInv, PcInv, TypeOK
<1>5. \A q \in Procs : ~ Taken(q) /\ ~ Taken(q)'
  <2>1. \A q \in Procs : pc[q] # "spin" /\ pc'[q] # "spin"
    BY <1>1 DEF RInv, PcInv, TypeOK
  <2> QED BY <2>1, Zenon DEF Taken
<1>6. HeldInv'
  BY <1>1, <1>2, <1>5, Zenon DEF RInv, HeldInv, TypeOK
<1>7. ValInv'
  BY <1>1, <1>2, <1>5, Zenon DEF RInv, ValInv, ValOf, Due, TypeOK
<1> QED BY <1>2, <1>3, <1>4, <1>6, <1>7, Zenon DEF RInv

(* The waiting process leaves its processor, and runs again.               *)
LEMMA SchedStep ==
    ASSUME RInv, NEW p \in Procs, Sched(p) \/ Resume(p)
    PROVE  RInv'
<1> USE RendezvousAssumption DEF Goto, Threads
<1>1. /\ pc' = [pc EXCEPT ![p] = pc'[p]]
      /\ \/ /\ pc[p] = "sched" /\ pc'[p] = "off" /\ state' = state /\ val' = val
         \/ /\ pc[p] = "off" /\ pc'[p] = "ret" /\ state[p] = "Ready"
            /\ state' = [state EXCEPT ![p] = "Running"] /\ val' = [val EXCEPT ![p] = rendval[p]]
      /\ UNCHANGED <<chain, lk, rendtag, rendval, notepending, tgt, with>>
  BY Zenon DEF RInv, TypeOK, Sched, Resume
<1>2. TypeOK'
  BY <1>1 DEF RInv, TypeOK
<1>3. PcInv'
  BY <1>1 DEF RInv, PcInv, TypeOK
<1>4. TagOnce' /\ \A q : Listed(q)' <=> Listed(q)
  BY <1>1, Zenon DEF RInv, TagOnce, Listed
<1>5. \A q \in Procs : Taken(q)' <=> Taken(q)
  <2>1. \A q \in Procs : pc'[q] = "spin" <=> pc[q] = "spin"
    BY <1>1, Zenon DEF RInv, TypeOK
  <2> QED BY <1>1, <2>1, Zenon DEF Taken
<1>6. HeldInv'
  BY <1>1, <1>4, <1>5, Zenon DEF RInv, HeldInv, TypeOK
<1>7. ValInv'
  BY <1>1, <1>4, <1>5 DEF RInv, ValInv, ValOf, Due, TypeOK
<1> QED BY <1>2, <1>3, <1>4, <1>6, <1>7, Zenon DEF RInv

(* postnote's steps before it has the lock.                                *)
LEMMA PostnoteStep ==
    ASSUME RInv, NEW n \in Posters, PostnoteTest(n) \/ \E p \in Procs : Postnote(n, p)
    PROVE  RInv'
<1> USE RendezvousAssumption DEF Goto, Threads
<1>1. /\ pc' = [pc EXCEPT ![n] = pc'[n]] /\ tgt' = [tgt EXCEPT ![n] = tgt'[n]]
      /\ \/ pc'[n] = "idle" /\ tgt'[n] = None
         \/ pc'[n] \in {"test", "pull"} /\ tgt'[n] \in Procs
      /\ UNCHANGED <<chain, lk, rendtag, rendval, state, val, with>>
  <2>1. CASE PostnoteTest(n)
    <3>1. tgt[n] \in Procs
      BY <2>1, Zenon DEF RInv, PcInv, PostnoteTest
    <3> QED BY <2>1, <3>1 DEF RInv, TypeOK, PostnoteTest
  <2>2. CASE \E p \in Procs : Postnote(n, p)
    BY <2>2, Zenon DEF RInv, TypeOK, Postnote
  <2> QED BY <2>1, <2>2, Zenon
<1>2. TypeOK'
  <2>1. notepending' \in [Procs -> 0 .. 1]
    BY DEF RInv, TypeOK, PostnoteTest, Postnote
  <2>2. pc'[n] \in {"idle", "test", "pull"} /\ tgt'[n] \in Procs \cup {None}
    BY <1>1, Zenon
  <2>3. pc' \in [Threads -> {"user", "lock", "spin", "sched", "off", "ret", "idle", "test",
                             "pull"}]
    BY <1>1, <2>2, Zenon DEF RInv, TypeOK
  <2>4. tgt' \in [Threads -> Procs \cup {None}]
    BY <1>1, <2>2, Zenon DEF RInv, TypeOK
  <2> QED BY <1>1, <2>1, <2>3, <2>4, Zenon DEF RInv, TypeOK
<1>3. PcInv'
  BY <1>1 DEF RInv, PcInv, TypeOK
<1>4. TagOnce' /\ \A q : Listed(q)' <=> Listed(q)
  BY <1>1, Zenon DEF RInv, TagOnce, Listed
<1>5. \A q \in Procs : pc'[q] = pc[q] /\ tgt'[q] = tgt[q]
  BY <1>1 DEF RInv, TypeOK
<1>6. \A q \in Procs : Taken(q)' <=> Taken(q)
  BY <1>5, Zenon DEF Taken
<1>7. HeldInv'
  BY <1>1, <1>4, <1>6, Zenon DEF RInv, HeldInv
<1>8. ValInv'
  BY <1>1, <1>4, <1>5, <1>6 DEF RInv, ValInv, ValOf, Due
<1> QED BY <1>2, <1>3, <1>4, <1>7, <1>8, Zenon DEF RInv

(* postnote with the lock: nobody spins, so a process in its rendezvous is *)
(* in the chain, and has met nobody.                                       *)
LEMMA PullStep ==
    ASSUME RInv, NEW n \in Posters, PostnotePull(n)
    PROVE  RInv'
<1> USE RendezvousAssumption DEF Goto, Threads
<1>1. PICK p \in Procs : p = tgt[n]
  BY Zenon DEF RInv, PcInv, PostnotePull
<1>2. /\ pc' = [pc EXCEPT ![n] = "idle"] /\ tgt' = [tgt EXCEPT ![n] = None] /\ lk = None
      /\ UNCHANGED <<lk, rendtag, notepending, val, with>>
  BY Zenon DEF PostnotePull
<1>3. \A q \in Procs : pc'[q] = pc[q] /\ tgt'[q] = tgt[q] /\ pc[q] # "spin"
  BY <1>2 DEF RInv, PcInv, TypeOK
<1>4. \A q \in Procs : ~ Taken(q) /\ ~ Taken(q)'
  BY <1>3, Zenon DEF Taken
<1>5. CASE state[p] = "Rendezvous"
  <2>1. /\ rendval' = [rendval EXCEPT ![p] = Interrupted] /\ chain' = Without(p)
        /\ state' = [state EXCEPT ![p] = "Ready"]
    BY <1>1, <1>5, Zenon DEF PostnotePull
  <2>2. /\ chain' \in Seq(Procs) /\ TagOnce'
        /\ \A q : Listed(q)' <=> Listed(q) /\ q # p
    BY <1>2, <2>1, ChainWithout, Zenon DEF RInv, TypeOK
  <2>3. Listed(p) /\ with[p] = None /\ pc[p] \in {"sched", "off"}
    BY <1>4, <1>5, Zenon DEF RInv, HeldInv, PcInv, ValInv, ValOf
  <2>4. TypeOK'
    BY <1>2, <2>1, <2>2, Zenon DEF RInv, TypeOK
  <2>5. PcInv'
    BY <1>2, <1>3, <2>1, <2>3 DEF RInv, PcInv, TypeOK
  <2>6. HeldInv'
    BY <1>4, <2>1, <2>2, Zenon DEF RInv, HeldInv, TypeOK
  <2>7. ValInv'
    BY <1>2, <1>3, <1>4, <2>1, <2>2, <2>3 DEF RInv, ValInv, ValOf, Due, TypeOK
  <2> QED BY <2>2, <2>4, <2>5, <2>6, <2>7, Zenon DEF RInv
<1>6. CASE state[p] # "Rendezvous"
  <2>1. UNCHANGED <<rendval, chain, state>>
    BY <1>1, <1>6, Zenon DEF PostnotePull
  <2>2. TagOnce' /\ \A q : Listed(q)' <=> Listed(q)
    BY <1>2, <2>1, Zenon DEF RInv, TagOnce, Listed
  <2>3. TypeOK' /\ PcInv'
    BY <1>2, <1>3, <2>1, Zenon DEF RInv, TypeOK, PcInv
  <2>4. HeldInv'
    BY <1>4, <2>1, <2>2, Zenon DEF RInv, HeldInv
  <2>5. ValInv'
    BY <1>2, <1>3, <1>4, <2>1, <2>2 DEF RInv, ValInv, ValOf, Due
  <2> QED BY <2>2, <2>3, <2>4, <2>5, Zenon DEF RInv
<1> QED BY <1>5, <1>6, Zenon
-----------------------------------------------------------------------------
(* RInv is inductive.                                                      *)
LEMMA Invariance == Spec => []RInv
<1>1. Init => RInv
  BY RendezvousAssumption DEF Init, RInv, TypeOK, PcInv, TagOnce, HeldInv, ValInv, ValOf, Listed,
     Taken, Threads
<1>2. RInv /\ [Next]_vars => RInv'
  <2> SUFFICES ASSUME RInv, [Next]_vars PROVE RInv'
    BY Zenon
  <2>1. CASE Next
    BY <2>1, EdgeStep, MeetStep, ReadyStep, WaitStep, SchedStep, PostnoteStep, PullStep, Zenon DEF Next, ProcStep, PostStep
  <2>2. CASE UNCHANGED vars
    BY <2>2 DEF vars, RInv, TypeOK, PcInv, TagOnce, HeldInv, ValInv, ValOf, Due, Listed, Taken
  <2> QED BY <2>1, <2>2, Zenon
<1> QED BY <1>1, <1>2, PTL DEF Spec

(* The fields of the Procs, the chain and the lock keep their types.       *)
THEOREM TypeCorrect == Spec => []TypeOK
<1>1. RInv => TypeOK
  BY Zenon DEF RInv
<1> QED BY <1>1, Invariance, PTL

(* sysrendezvous returns the partner's value to each of two processes that *)
(* meet, and ~0 only to one that met nobody, whatever notes come between.  *)
THEOREM ExchangedHolds == Spec => []Exchanged
<1>1. RInv => Exchanged
  BY Zenon DEF RInv, ValInv, ValOf, Exchanged
<1> QED BY <1>1, Invariance, PTL

(* No two processes wait for one tag, and a process in state Rendezvous    *)
(* can be found: by its partner in the chain, or it is in its hands.       *)
THEOREM WaitersListedHolds == Spec => []WaitersListed
<1>1. RInv => WaitersListed
  BY Zenon DEF RInv, TagOnce, HeldInv, Taken, WaitersListed
<1> QED BY <1>1, Invariance, PTL
=============================================================================
