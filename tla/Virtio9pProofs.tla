--------------------------- MODULE Virtio9pProofs ---------------------------
(***************************************************************************)
(* Proofs about Virtio9p for every set of clients and every finite set of  *)
(* slots, with two descriptors for each slot ("nslot <= size/2").          *)
(***************************************************************************)
EXTENDS Virtio9p, TLAPS

(* Where a slot can be, besides the free list and c->cur.                  *)
Held(s) == \E c \in Clients : slot[c] = s

(* A chain in the virtqueue carries the slot.                              *)
Flying(s) == \E d \in Descs : rock[d] = s

(* The slot is on c->donehd, waiting for getreply.                         *)
Done(s) == \E i \in 1 .. Len(donehd) : donehd[i] = s

(* A slot is in exactly one of its places, and there once.                 *)
PlaceInv ==
    /\ \A s \in Slots : s \in sfree \/ Held(s) \/ Flying(s) \/ Done(s) \/ s = cur
    /\ \A s \in Slots : s \in sfree => ~Held(s) /\ ~Flying(s) /\ ~Done(s) /\ s # cur
    /\ \A s \in Slots : Held(s) => ~Flying(s) /\ ~Done(s) /\ s # cur
    /\ \A s \in Slots : Flying(s) => ~Done(s) /\ s # cur
    /\ \A s \in Slots : Done(s) => s # cur
    /\ \A c, e \in Clients : slot[c] # None /\ slot[c] = slot[e] => c = e
    /\ \A d, e \in Descs : rock[d] # None /\ rock[d] = rock[e] => d = e
    /\ \A i, j \in 1 .. Len(donehd) : donehd[i] = donehd[j] => i = j

(* The chains: their heads are what the device or the used ring has, and   *)
(* the free list has every descriptor that is in none.                     *)
ChainInv ==
    /\ \A d \in Descs : rock[d] # None <=> d \in avail \/ \E i \in 1 .. Len(used) : used[i] = d
    /\ \A i \in 1 .. Len(used) : used[i] \notin avail
    /\ \A i, j \in 1 .. Len(used) : used[i] = used[j] => i = j
    /\ \A h \in Descs : rock[h] # None => next[h] \in Descs /\ next[h] # h /\ rock[next[h]] = None
    /\ \A h, g \in Descs : rock[h] # None /\ rock[g] # None /\ next[h] = next[g] => h = g
    /\ \A d \in Descs : d \in free <=>
           rock[d] = None /\ \A h \in Descs : rock[h] # None => next[h] # d

(* A client has a slot from getslot to submit; the one that the Rendez     *)
(* names is asleep; between conversations nobody is in the driver.         *)
ClientInv ==
    /\ \A c \in Clients : slot[c] # None <=> pc[c] = "submit"
    /\ wwait # None => pc[wwait] = "asleep"
    /\ inuse = 0 => \A c \in Clients : pc[c] = "idle" /\ opened[c] = 0

(* The slot carries a request that was submitted and not served.           *)
Busy(s) == Flying(s) \/ Done(s) \/ s = cur

(* The requests: a slot has one from submit until it is served, and its    *)
(* client waits for it unless the conversation was closed.                 *)
OpInv ==
    /\ \A s \in Slots : Busy(s) => op[s].who \in Clients
    /\ \A s \in Slots : ~Busy(s) => op[s] = NoOp
    /\ \A s \in Slots : op[s].who # None /\ op[s].old = 0 =>
           inuse = 1 /\ pc[op[s].who] = "sent"
    /\ \A s, t \in Slots :
           op[s].who # None /\ op[s].who = op[t].who /\ op[s].old = 0 /\ op[t].old = 0 => s = t

(* The offset kept for an open directory follows what its client has read, *)
(* unless the client rewinds.                                              *)
FidOK(c) == opened[c] = 1 => fids[c] \in Nat /\ (pos[c] = 0 \/ fids[c] = USize * pos[c])

(* What a request waits for, and what its reply has done to the fid.       *)
Unread(s, c) ==
    /\ op[s].type = "read" => /\ opened[c] = 1 /\ fids[c] = op[s].off
                              /\ op[s].off = USize * pos[c]
    /\ op[s].type = "open" => pos[c] = 0
    /\ op[s].type = "clunk" => opened[c] = 0
    /\ op[s].type # "read" => FidOK(c)

(* The same once rfixup has seen the reply, which is then c->cur.          *)
Fixed(s, c) ==
    /\ op[s].type = "read" => fids[c] = USize * (pos[c] + Returned(op[s].off))
    /\ op[s].type = "open" => pos[c] = 0 /\ fids[c] = 0
    /\ op[s].type \notin {"open", "read"} => FidOK(c)

(* In a conversation that began clean every open directory is at the       *)
(* offset that its client has read to, counting the reply in hand.         *)
OffInv ==
    inuse = 1 /\ dirty = 0 =>
        /\ \A s \in Slots : op[s].old = 0
        /\ \A c \in Clients : pc[c] # "sent" =>
               /\ FidOK(c)
               /\ pc[c] # "idle" /\ type[c] = "read" => opened[c] = 1
               /\ pc[c] # "idle" /\ type[c] = "open" => pos[c] = 0
               /\ pc[c] # "idle" /\ type[c] = "clunk" => opened[c] = 0
        /\ \A s \in Slots : op[s].who # None =>
               IF s = cur THEN Fixed(s, op[s].who) ELSE Unread(s, op[s].who)
-----------------------------------------------------------------------------
(* vqharvest moves the slots of the completed chains to the done queue.    *)
Harvested(s) == \E i \in 1 .. Len(used) : rock[used[i]] = s

(* Every chain on the used ring carries a slot.                            *)
LEMMA UsedSlots ==
    ASSUME TypeOK, ChainInv
    PROVE  \A i \in 1 .. Len(used) : rock[used[i]] \in Slots
<1>1. used \in Seq(Descs) /\ rock \in [Descs -> Slots \cup {None}]
  BY Zenon DEF TypeOK
<1> QED BY <1>1 DEF ChainInv

(* The sequence, the length and the elements that \o makes of two queues.   *)
LEMMA ConcatIsSeq ==
    ASSUME NEW S, NEW s \in Seq(S), NEW t \in Seq(S)
    PROVE  /\ s \o t \in Seq(S)
           /\ Len(s \o t) = Len(s) + Len(t)
           /\ \A i \in 1 .. Len(s) + Len(t) :
                  (s \o t)[i] = IF i <= Len(s) THEN s[i] ELSE t[i - Len(s)]
<1>1. s \o t \in Seq(S)
  OBVIOUS
<1>2. Len(s \o t) = Len(s) + Len(t)
  OBVIOUS
<1>3. ASSUME NEW i \in 1 .. Len(s) + Len(t)
      PROVE  (s \o t)[i] = IF i <= Len(s) THEN s[i] ELSE t[i - Len(s)]
  OBVIOUS
<1> QED BY <1>1, <1>2, <1>3, Zenon

(* What is put together from the done queue and a used ring.               *)
LEMMA Concat ==
    ASSUME NEW D \in Seq(Slots), NEW U \in Seq(Descs), NEW R, NEW C,
           \A i \in 1 .. Len(U) : R[U[i]] \in Slots,
           C = D \o [i \in 1 .. Len(U) |-> R[U[i]]]
    PROVE  /\ C \in Seq(Slots) /\ Len(C) = Len(D) + Len(U)
           /\ \A i \in 1 .. Len(C) : /\ i <= Len(D) => C[i] = D[i]
                                     /\ ~(i <= Len(D)) => C[i] = R[U[i - Len(D)]]
<1> DEFINE new == [i \in 1 .. Len(U) |-> R[U[i]]]
<1>1. new \in Seq(Slots) /\ Len(new) = Len(U) /\ \A i \in 1 .. Len(U) : new[i] = R[U[i]]
  OBVIOUS
<1> HIDE DEF new
<1>2. D \o new \in Seq(Slots) /\ Len(D \o new) = Len(D) + Len(new)
  BY <1>1, ConcatIsSeq, Zenon
<1>3. Len(D) \in Nat /\ Len(U) \in Nat
  OBVIOUS
<1>4. \A i \in 1 .. Len(D) + Len(U) : (D \o new)[i] = IF i <= Len(D) THEN D[i] ELSE new[i - Len(D)]
  <2>1. \A i \in 1 .. Len(D) + Len(new) :
            (D \o new)[i] = IF i <= Len(D) THEN D[i] ELSE new[i - Len(D)]
    BY <1>1, ConcatIsSeq, Zenon
  <2> QED BY <1>1, <2>1, Zenon
<1>5. \A i \in 1 .. Len(D) + Len(U) : ~(i <= Len(D)) => i - Len(D) \in 1 .. Len(U)
  BY <1>3
<1>6. /\ D \o new \in Seq(Slots) /\ Len(D \o new) = Len(D) + Len(U)
      /\ \A i \in 1 .. Len(D \o new) :
             /\ i <= Len(D) => (D \o new)[i] = D[i]
             /\ ~(i <= Len(D)) => (D \o new)[i] = R[U[i - Len(D)]]
  BY <1>1, <1>2, <1>3, <1>4, <1>5, Zenon
<1> QED BY <1>6, Zenon DEF new

(* The done queue after vqharvest: the old one, then the slots of the used *)
(* ring in the ring's order.                                               *)
LEMMA HarvestDone ==
    ASSUME TypeOK, ChainInv, vqharvest
    PROVE  /\ donehd' \in Seq(Slots) /\ Len(donehd') = Len(donehd) + Len(used)
           /\ \A i \in 1 .. Len(donehd) : donehd'[i] = donehd[i]
           /\ \A i \in 1 .. Len(used) : donehd'[Len(donehd) + i] = rock[used[i]]
           /\ \A i \in 1 .. Len(donehd') :
                  \/ i \in 1 .. Len(donehd)
                  \/ i - Len(donehd) \in 1 .. Len(used) /\ donehd'[i] = rock[used[i - Len(donehd)]]
           /\ \A s \in Slots : Done(s)' <=> Done(s) \/ Harvested(s)
<1>1. donehd \in Seq(Slots) /\ used \in Seq(Descs) /\ Len(donehd) \in Nat /\ Len(used) \in Nat
  BY DEF TypeOK
<1>2. \A i \in 1 .. Len(used) : rock[used[i]] \in Slots
  BY UsedSlots, Zenon
<1>4. donehd' = donehd \o [i \in 1 .. Len(used) |-> rock[used[i]]]
  BY Zenon DEF vqharvest
<1>5. donehd' \in Seq(Slots) /\ Len(donehd') = Len(donehd) + Len(used)
  BY <1>1, <1>2, <1>4, Concat
<1>6. \A i \in 1 .. Len(donehd') :
          /\ i <= Len(donehd) => donehd'[i] = donehd[i]
          /\ ~(i <= Len(donehd)) => donehd'[i] = rock[used[i - Len(donehd)]]
  BY <1>1, <1>2, <1>4, Concat
<1>7. Len(donehd) \in Nat /\ Len(used) \in Nat
  BY <1>1, Zenon
<1>8. \A i \in 1 .. Len(donehd) : donehd'[i] = donehd[i]
  BY <1>5, <1>6, <1>7
<1>9. \A i \in 1 .. Len(used) : donehd'[Len(donehd) + i] = rock[used[i]]
  BY <1>5, <1>6, <1>7
<1>10. \A i \in 1 .. Len(donehd') :
           \/ i \in 1 .. Len(donehd)
           \/ i - Len(donehd) \in 1 .. Len(used) /\ donehd'[i] = rock[used[i - Len(donehd)]]
  <2> TAKE i \in 1 .. Len(donehd')
  <2>1. CASE i <= Len(donehd)
    BY <1>5, <1>7, <2>1
  <2>2. CASE ~(i <= Len(donehd))
    <3>1. i - Len(donehd) \in 1 .. Len(used)
      BY <1>5, <1>7, <2>2
    <3> QED BY <1>6, <2>2, <3>1, Zenon
  <2> QED BY <2>1, <2>2, Zenon
<1>11. ASSUME NEW s \in Slots PROVE Done(s)' <=> Done(s) \/ Harvested(s)
  <2>1. Done(s)' => Done(s) \/ Harvested(s)
    BY <1>8, <1>10 DEF Done, Harvested
  <2>2. Done(s) => Done(s)'
    BY <1>5, <1>7, <1>8 DEF Done
  <2>3. Harvested(s) => Done(s)'
    <3> SUFFICES ASSUME NEW i \in 1 .. Len(used), rock[used[i]] = s PROVE Done(s)'
      BY Zenon DEF Harvested
    <3>1. Len(donehd) + i \in 1 .. Len(donehd') /\ donehd'[Len(donehd) + i] = s
      BY <1>5, <1>7, <1>9
    <3> QED BY <3>1, Zenon DEF Done
  <2> QED BY <2>1, <2>2, <2>3, Zenon
<1> QED BY <1>5, <1>8, <1>9, <1>10, <1>11, Zenon

(* The virtqueue after vqharvest: no chain but those the device still has, *)
(* and the descriptors of the others free.                                 *)
LEMMA HarvestQueue ==
    ASSUME TypeOK, PlaceInv, ChainInv, vqharvest
    PROVE  /\ used' = <<>> /\ avail' = avail
           /\ rock' \in [Descs -> Slots \cup {None}] /\ next' \in [Descs -> Descs \cup {0}]
           /\ free' \subseteq Descs
           /\ \A d \in Descs : d \in avail => rock'[d] = rock[d] /\ next'[d] = next[d]
           /\ \A d \in Descs : d \notin avail => rock'[d] = None
           /\ \A d \in Descs : d \in free' <=>
                  d \in free \/ \E h \in Descs : rock[h] # None /\ h \notin avail /\ d \in {h, next[h]}
           /\ \A s \in Slots : Flying(s)' <=> Flying(s) /\ ~Harvested(s)
<1> DEFINE heads == {used[i] : i \in 1 .. Len(used)}
<1>1. /\ used \in Seq(Descs) /\ rock \in [Descs -> Slots \cup {None}]
      /\ next \in [Descs -> Descs \cup {0}] /\ free \subseteq Descs /\ avail \subseteq Descs
  BY Zenon DEF TypeOK
<1>2. /\ heads \subseteq Descs
      /\ \A d \in Descs : d \in heads <=> rock[d] # None /\ d \notin avail
  BY <1>1 DEF ChainInv
<1>3. /\ free' = free \cup heads \cup {next[h] : h \in heads}
      /\ rock' = [d \in Descs |-> IF d \in heads THEN None ELSE rock[d]]
      /\ next' = [d \in Descs |-> IF d \in heads THEN 0 ELSE next[d]]
      /\ used' = <<>> /\ avail' = avail
  BY Zenon DEF vqharvest
<1>4. \A h \in heads : next[h] \in Descs
  BY <1>1, <1>2, Zenon DEF ChainInv
<1>5. \A s \in Slots : Harvested(s) <=> \E h \in heads : rock[h] = s
  BY Zenon DEF Harvested
<1> HIDE DEF heads
<1>6. rock' \in [Descs -> Slots \cup {None}] /\ next' \in [Descs -> Descs \cup {0}]
  BY <1>1, <1>3, Zenon
<1>7. free' \subseteq Descs
  BY <1>1, <1>2, <1>3, <1>4
<1>8. \A d \in Descs : d \in avail => rock'[d] = rock[d] /\ next'[d] = next[d]
  BY <1>2, <1>3, Zenon
<1>9. \A d \in Descs : d \notin avail => rock'[d] = None
  BY <1>2, <1>3, Zenon
<1>10. \A d \in Descs : d \in free' <=>
           d \in free \/ \E h \in Descs : rock[h] # None /\ h \notin avail /\ d \in {h, next[h]}
  BY <1>2, <1>3, Zenon
<1>11. ASSUME NEW s \in Slots PROVE Flying(s)' <=> Flying(s) /\ ~Harvested(s)
  <2>0. s # None
    BY Virtio9pAssumption, Zenon
  <2>1. Flying(s)' => Flying(s)
    BY <2>0, <1>3, Zenon DEF Flying
  <2>2. Flying(s)' /\ Harvested(s) => FALSE
    BY <2>0, <1>2, <1>3, <1>5 DEF Flying, PlaceInv
  <2>3. Flying(s) /\ ~Harvested(s) => Flying(s)'
    BY <1>3, <1>5, Zenon DEF Flying
  <2> QED BY <2>1, <2>2, <2>3, Zenon
<1> QED BY <1>3, <1>6, <1>7, <1>8, <1>9, <1>10, <1>11, Zenon

(* vqharvest moves each harvested slot from its chain to the done queue.   *)
LEMMA HarvestPlaces ==
    ASSUME TypeOK, PlaceInv, ChainInv, vqharvest, UNCHANGED <<sfree, cur, slot>>
    PROVE  PlaceInv'
<1>1. \A s \in Slots : Done(s)' <=> Done(s) \/ Harvested(s)
  BY HarvestDone, Zenon
<1>2. \A s \in Slots : Flying(s)' <=> Flying(s) /\ ~Harvested(s)
  BY HarvestQueue, Zenon
<1>3. \A s \in Slots : Harvested(s) => Flying(s)
  BY DEF Harvested, Flying, TypeOK
<1>4. \A s \in Slots : (Held(s)' <=> Held(s)) /\ sfree' = sfree /\ cur' = cur
  BY Zenon DEF Held
<1>5. \A d, e \in Descs : rock'[d] # None /\ rock'[d] = rock'[e] => d = e
  BY HarvestQueue DEF PlaceInv
<1>6. \A i, j \in 1 .. Len(donehd') : donehd'[i] = donehd'[j] => i = j
  <2>0. /\ donehd \in Seq(Slots) /\ used \in Seq(Descs) /\ rock \in [Descs -> Slots \cup {None}]
        /\ Len(donehd) \in Nat /\ Len(used) \in Nat
    BY DEF TypeOK
  <2>1. \A i, j \in 1 .. Len(used) : rock[used[i]] = rock[used[j]] => i = j
    BY <2>0 DEF PlaceInv, ChainInv
  <2>2. \A i \in 1 .. Len(donehd), j \in 1 .. Len(used) : donehd[i] # rock[used[j]]
    BY <2>0, <1>3 DEF PlaceInv, Harvested, Done
  <2>3. \A i, j \in 1 .. Len(donehd) : donehd[i] = donehd[j] => i = j
    BY Zenon DEF PlaceInv
  <2>4. /\ Len(donehd') = Len(donehd) + Len(used)
        /\ \A i \in 1 .. Len(donehd) : donehd'[i] = donehd[i]
        /\ \A i \in 1 .. Len(donehd') :
                  \/ i \in 1 .. Len(donehd)
                  \/ i - Len(donehd) \in 1 .. Len(used) /\ donehd'[i] = rock[used[i - Len(donehd)]]
    BY HarvestDone, Zenon
  <2> SUFFICES ASSUME NEW i \in 1 .. Len(donehd'), NEW j \in 1 .. Len(donehd'),
                      donehd'[i] = donehd'[j]
               PROVE  i = j
    BY Zenon
  <2> DEFINE H == Len(donehd)
             U == 1 .. Len(used)
  <2>old. ASSUME NEW k \in 1 .. H PROVE donehd'[k] = donehd[k]
    BY <2>4, Zenon
  <2>new. ASSUME NEW k \in 1 .. Len(donehd'), k \notin 1 .. H
          PROVE  k - H \in U /\ donehd'[k] = rock[used[k - H]]
    BY <2>4, <2>new, Zenon
  <2> HIDE DEF H, U
  <2>5. CASE i \in 1 .. H /\ j \in 1 .. H
    BY <2>3, <2>old, <2>5, Zenon DEF H
  <2>6. CASE i \in 1 .. H /\ j \notin 1 .. H
    <3>1. donehd[i] = rock[used[j - H]] /\ j - H \in U
      BY <2>old, <2>new, <2>6, Zenon
    <3> QED BY <2>2, <2>6, <3>1, Zenon DEF H, U
  <2>7. CASE i \notin 1 .. H /\ j \in 1 .. H
    <3>1. donehd[j] = rock[used[i - H]] /\ i - H \in U
      BY <2>old, <2>new, <2>7, Zenon
    <3> QED BY <2>2, <2>7, <3>1, Zenon DEF H, U
  <2>8. CASE i \notin 1 .. H /\ j \notin 1 .. H
    <3>1. /\ i - H \in U /\ j - H \in U
          /\ rock[used[i - H]] = rock[used[j - H]]
      BY <2>new, <2>8, Zenon
    <3>2. i - H = j - H
      BY <2>1, <3>1, Zenon DEF U
    <3>3. i \in Int /\ j \in Int /\ H \in Nat
      BY <2>0 DEF H
    <3> QED BY <3>2, <3>3
  <2> QED BY <2>5, <2>6, <2>7, <2>8, Zenon
<1>7. \A c, e \in Clients : slot'[c] # None /\ slot'[c] = slot'[e] => c = e
  BY Zenon DEF PlaceInv
<1> QED BY <1>1, <1>2, <1>3, <1>4, <1>5, <1>6, <1>7, Zenon DEF PlaceInv

(* vqharvest leaves no chain half free.                                    *)
LEMMA HarvestChains ==
    ASSUME TypeOK, PlaceInv, ChainInv, vqharvest
    PROVE  ChainInv'
<1>1. /\ used' = <<>> /\ avail' = avail /\ avail \subseteq Descs
      /\ \A d \in Descs : d \in avail => rock'[d] = rock[d] /\ next'[d] = next[d]
      /\ \A d \in Descs : d \notin avail => rock'[d] = None
  BY HarvestQueue, Zenon DEF TypeOK
<1>2. \A d \in Descs : d \in free' <=>
          d \in free \/ \E h \in Descs : rock[h] # None /\ h \notin avail /\ d \in {h, next[h]}
  BY HarvestQueue, Zenon
<1>3. \A d \in Descs : rock'[d] # None <=> d \in avail
  BY <1>1, Zenon DEF ChainInv
<1>4. \A d \in Descs : d \in free' <=>
          rock'[d] = None /\ \A h \in Descs : rock'[h] # None => next'[h] # d
  <2> SUFFICES ASSUME NEW d \in Descs
               PROVE  d \in free' <=> d \notin avail /\ \A h \in avail : next[h] # d
    BY <1>1, <1>3
  <2>1. ASSUME d \in free' PROVE d \notin avail /\ \A h \in avail : next[h] # d
    BY <1>1, <1>2, <1>3, <2>1 DEF ChainInv
  <2>2. ASSUME d \notin avail, \A h \in avail : next[h] # d PROVE d \in free'
    BY <1>1, <1>2, <2>2, Zenon DEF ChainInv
  <2> QED BY <2>1, <2>2, Zenon
<1> QED BY <1>1, <1>3, <1>4 DEF ChainInv
-----------------------------------------------------------------------------
(* submit finds two descriptors on the free list: what there being enough  *)
(* of them comes to in a step.                                             *)
Enough == \A c \in Clients : pc[c] = "submit" => \E d, e \in free : d # e

(* A slot goes from one place to the next.                                 *)
LEMMA GetSlotPlaces ==
    ASSUME TypeOK, PlaceInv, ClientInv, NEW c \in Clients, NEW t \in Slots, GetSlot(c, t)
    PROVE  PlaceInv'
<1>1. slot \in [Clients -> Slots \cup {None}] /\ None \notin Slots
  BY Virtio9pAssumption, Zenon DEF TypeOK
<1>2. /\ t \in sfree /\ sfree' = sfree \ {t} /\ slot' = [slot EXCEPT ![c] = t] /\ slot[c] = None
      /\ UNCHANGED <<donehd, cur, rock>>
  BY Zenon DEF GetSlot, qvars, ClientInv
<1>3. \A s \in Slots : Held(s)' <=> Held(s) \/ s = t
  BY <1>1, <1>2, Zenon DEF Held
<1>4. \A s \in Slots : (Done(s)' <=> Done(s)) /\ (Flying(s)' <=> Flying(s))
  BY <1>2, Zenon DEF Done, Flying
<1>5. \A d, e \in Clients : slot'[d] # None /\ slot'[d] = slot'[e] => d = e
  BY <1>1, <1>2, Zenon DEF PlaceInv, Held
<1> QED BY <1>2, <1>3, <1>4, <1>5 DEF PlaceInv

(* What submit does to the queue and to the slots.                         *)
LEMMA SubmitFacts ==
    ASSUME TypeOK, PlaceInv, ChainInv, ClientInv, Enough, NEW c \in Clients, Submit(c)
    PROVE  \E head, second \in free :
               /\ second # head /\ next' = [next EXCEPT ![head] = second]
               /\ rock' = [rock EXCEPT ![head] = slot[c]] /\ avail' = avail \cup {head}
               /\ free' = free \ {head, second} /\ rock[head] = None /\ slot[c] \in Slots
               /\ \A s \in Slots : Held(s)' <=> Held(s) /\ s # slot[c]
               /\ \A s \in Slots : Flying(s)' <=> Flying(s) \/ s = slot[c]
<1> DEFINE head == CHOOSE d \in free : TRUE
           second == CHOOSE d \in free \ {head} : TRUE
<1>1. pc[c] = "submit"
  BY Zenon DEF Submit
<1>2. head \in free /\ second \in free /\ second # head
  <2>1. \E d, e \in free : d # e
    BY <1>1, Zenon DEF Enough
  <2>2. head \in free
    BY <2>1, Zenon
  <2>3. \E e \in free \ {head} : TRUE
    <3> HIDE DEF head
    <3> QED BY <2>1, <2>2
  <2>4. second \in free \ {head}
    BY <2>3, Zenon
  <2> HIDE DEF head, second
  <2> QED BY <2>2, <2>4, Zenon
<1>3. /\ next' = [next EXCEPT ![head] = second]
      /\ rock' = [rock EXCEPT ![head] = slot[c]] /\ avail' = avail \cup {head}
      /\ free' = free \ {head, second} /\ slot' = [slot EXCEPT ![c] = None]
  BY Zenon DEF Submit
<1> HIDE DEF head, second
<1>4. /\ slot \in [Clients -> Slots \cup {None}] /\ rock \in [Descs -> Slots \cup {None}]
      /\ free \subseteq Descs /\ None \notin Slots
  BY Virtio9pAssumption, Zenon DEF TypeOK
<1>5. rock[head] = None /\ slot[c] \in Slots
  BY <1>1, <1>2, <1>4 DEF ChainInv, ClientInv
<1>6. \A s \in Slots : Held(s)' <=> Held(s) /\ s # slot[c]
  BY <1>3, <1>4, <1>5, Zenon DEF Held, PlaceInv
<1>7. \A s \in Slots : Flying(s)' <=> Flying(s) \/ s = slot[c]
  BY <1>2, <1>3, <1>4, <1>5, Zenon DEF Flying
<1> QED BY <1>2, <1>3, <1>5, <1>6, <1>7, Zenon

(* submit moves the writer's slot to a new chain of two free descriptors.  *)
LEMMA SubmitPlaces ==
    ASSUME TypeOK, PlaceInv, ChainInv, ClientInv, Enough, NEW c \in Clients, Submit(c)
    PROVE  PlaceInv' /\ ChainInv'
<1>1. PICK head \in free, second \in free :
               /\ second # head /\ next' = [next EXCEPT ![head] = second]
               /\ rock' = [rock EXCEPT ![head] = slot[c]] /\ avail' = avail \cup {head}
               /\ free' = free \ {head, second} /\ rock[head] = None /\ slot[c] \in Slots
               /\ \A s \in Slots : Held(s)' <=> Held(s) /\ s # slot[c]
               /\ \A s \in Slots : Flying(s)' <=> Flying(s) \/ s = slot[c]
  BY SubmitFacts, Zenon
<1>2. /\ slot \in [Clients -> Slots \cup {None}] /\ rock \in [Descs -> Slots \cup {None}]
      /\ free \subseteq Descs /\ None \notin Slots /\ next \in [Descs -> Descs \cup {0}]
  BY Virtio9pAssumption, Zenon DEF TypeOK
<1>3. UNCHANGED <<sfree, donehd, cur, used>> /\ slot' = [slot EXCEPT ![c] = None]
  BY Zenon DEF Submit
<1>4. PlaceInv'
  <2>1. \A s \in Slots : Done(s)' <=> Done(s)
    BY <1>3, Zenon DEF Done
  <2>2. \A d, e \in Clients : slot'[d] # None /\ slot'[d] = slot'[e] => d = e
    BY <1>2, <1>3, Zenon DEF PlaceInv
  <2>3. Held(slot[c])
    BY Zenon DEF Held
  <2>4. \A d, e \in Descs : rock'[d] # None /\ rock'[d] = rock'[e] => d = e
    BY <1>1, <1>2, <2>3 DEF PlaceInv, Flying
  <2>5. \A i, j \in 1 .. Len(donehd') : donehd'[i] = donehd'[j] => i = j
    BY <1>3, Zenon DEF PlaceInv
  <2>6. \A s \in Slots : /\ Held(s)' <=> Held(s) /\ s # slot[c]
                         /\ Flying(s)' <=> Flying(s) \/ s = slot[c]
    BY <1>1, Zenon
  <2> QED BY <1>3, <2>1, <2>2, <2>3, <2>4, <2>5, <2>6 DEF PlaceInv
<1>5. ChainInv'
  <2>0. head \in Descs /\ second \in Descs
    BY <1>1, <1>2, Zenon
  <2>1. \A d \in Descs : /\ rock'[d] = IF d = head THEN slot[c] ELSE rock[d]
                         /\ next'[d] = IF d = head THEN second ELSE next[d]
    BY <1>1, <1>2, Zenon
  <2>2. /\ \A d \in Descs : rock'[d] # None <=> rock[d] # None \/ d = head
        /\ rock[second] = None /\ second # head
    BY <1>1, <1>2, <2>1 DEF ChainInv
  <2>3. \A h \in Descs : rock[h] # None => next[h] # head /\ next[h] # second
    BY <1>1, <1>2, Zenon DEF ChainInv
  <2>4. used' = used /\ avail' = avail \cup {head} /\ free' = free \ {head, second}
    BY <1>1, <1>3, Zenon
  <2>5. \A d \in Descs :
            rock'[d] # None <=> d \in avail' \/ \E i \in 1 .. Len(used') : used'[i] = d
    BY <2>2, <2>4, Zenon DEF ChainInv
  <2>6. \A i \in 1 .. Len(used') : used'[i] \notin avail'
    <3>1. \A i \in 1 .. Len(used) : used[i] # head
      BY <1>1, <2>0, Zenon DEF ChainInv
    <3> QED BY <2>4, <3>1, Zenon DEF ChainInv
  <2>7. \A i, j \in 1 .. Len(used') : used'[i] = used'[j] => i = j
    BY <2>4 DEF ChainInv
  <2>8. \A h \in Descs : rock'[h] # None =>
            next'[h] \in Descs /\ next'[h] # h /\ rock'[next'[h]] = None
    BY <2>0, <2>1, <2>2, <2>3 DEF ChainInv
  <2>9. \A h, g \in Descs : rock'[h] # None /\ rock'[g] # None /\ next'[h] = next'[g] => h = g
    BY <2>0, <2>1, <2>2, <2>3 DEF ChainInv
  <2>10. \A d \in Descs : d \in free' <=>
             rock'[d] = None /\ \A h \in Descs : rock'[h] # None => next'[h] # d
    BY <2>0, <2>1, <2>2, <2>3, <2>4 DEF ChainInv
  <2> QED BY <2>5, <2>6, <2>7, <2>8, <2>9, <2>10, Zenon DEF ChainInv
<1> QED BY <1>4, <1>5, Zenon

(* The device moves a chain from the available to the used ring.           *)
LEMMA CompleteChains ==
    ASSUME TypeOK, ChainInv, NEW h \in avail, Complete(h)
    PROVE  ChainInv'
<1>1. /\ used \in Seq(Descs) /\ avail \subseteq Descs
      /\ avail' = avail \ {h} /\ used' = Append(used, h) /\ UNCHANGED <<rock, next, free>>
  BY Zenon DEF Complete, TypeOK
<1>2. /\ Len(used') = Len(used) + 1 /\ Len(used) \in Nat /\ used'[Len(used) + 1] = h
      /\ \A i \in 1 .. Len(used) : used'[i] = used[i]
  BY <1>1
<1>3. \A d \in Descs : (\E i \in 1 .. Len(used') : used'[i] = d) <=>
                           d = h \/ \E i \in 1 .. Len(used) : used[i] = d
  BY <1>2
<1>4. \A i \in 1 .. Len(used) : used[i] # h
  BY DEF ChainInv
<1>5. \A i \in 1 .. Len(used') : used'[i] \notin avail'
  BY <1>1, <1>2 DEF ChainInv
<1>6. \A i, j \in 1 .. Len(used') : used'[i] = used'[j] => i = j
  BY <1>2, <1>4 DEF ChainInv
<1>7. \A d \in Descs :
          rock'[d] # None <=> d \in avail' \/ \E i \in 1 .. Len(used') : used'[i] = d
  BY <1>1, <1>3 DEF ChainInv
<1> QED BY <1>1, <1>5, <1>6, <1>7 DEF ChainInv

(* What getreply does to the done queue.                                   *)
LEMMA GetReplyFacts ==
    ASSUME TypeOK, PlaceInv, GetReply
    PROVE  /\ cur = None /\ cur' \in Slots /\ Done(cur') /\ cur' = donehd[1] /\ cur' = Head(donehd)
           /\ donehd' \in Seq(Slots) /\ Len(donehd') = Len(donehd) - 1 /\ Len(donehd) \in Nat \ {0}
           /\ \A i \in 1 .. Len(donehd') : donehd'[i] = donehd[i + 1]
           /\ \A s \in Slots : Done(s)' <=> Done(s) /\ s # cur'
<1>1. /\ donehd \in Seq(Slots) /\ donehd # <<>> /\ cur = None
      /\ cur' = Head(donehd) /\ donehd' = Tail(donehd)
  BY Zenon DEF TypeOK, GetReply
<1>2. Len(donehd) \in Nat \ {0} /\ cur' = donehd[1] /\ cur' \in Slots
  BY <1>1
<1>3. /\ donehd' \in Seq(Slots) /\ Len(donehd') = Len(donehd) - 1
      /\ \A i \in 1 .. Len(donehd') : donehd'[i] = donehd[i + 1]
  BY <1>1, <1>2
<1>4. Done(cur')
  BY <1>2 DEF Done
<1>5. ASSUME NEW s \in Slots PROVE Done(s)' <=> Done(s) /\ s # cur'
  <2>1. ASSUME Done(s)' PROVE Done(s) /\ s # cur'
    <3>1. PICK i \in 1 .. Len(donehd') : donehd'[i] = s
      BY <2>1, Zenon DEF Done
    <3>2. i + 1 \in 1 .. Len(donehd) /\ donehd[i + 1] = s /\ 1 \in 1 .. Len(donehd) /\ i + 1 # 1
      BY <1>2, <1>3, <3>1
    <3> QED BY <1>2, <3>2, Zenon DEF Done, PlaceInv
  <2>2. ASSUME Done(s), s # cur' PROVE Done(s)'
    <3>1. PICK i \in 1 .. Len(donehd) : donehd[i] = s
      BY <2>2, Zenon DEF Done
    <3>2. i - 1 \in 1 .. Len(donehd') /\ donehd'[i - 1] = s
      BY <1>2, <1>3, <2>2, <3>1
    <3> QED BY <3>2, Zenon DEF Done
  <2> QED BY <2>1, <2>2, Zenon
<1> QED BY <1>1, <1>2, <1>3, <1>4, <1>5, Zenon

(* The reply in c->cur is the request, carried out, or an error.           *)
LEMMA ReplyFacts ==
    ASSUME TypeOK, PlaceInv, GetReply
    PROVE  \E o \in [who : Clients \cup {None}, type : ReplyTypes, off : Nat, old : {0, 1}] :
               /\ rfixup(o) /\ op' = [op EXCEPT ![cur'] = o]
               /\ o.who = op[cur'].who /\ o.old = op[cur'].old
               /\ o = op[cur'] \/ (o.type = "error" /\ op[cur'].type # "other")
<1>1. cur' \in Slots /\ cur' = Head(donehd)
  BY GetReplyFacts, Zenon
<1>2. PICK q : q = op[cur']
  BY Zenon
<1>3. q \in [who : Clients \cup {None}, type : ReplyTypes, off : Nat, old : {0, 1}]
  BY <1>1, <1>2, Zenon DEF TypeOK
<1>4. PICK o \in Replies(q) : rfixup(o) /\ op' = [op EXCEPT ![cur'] = o]
  BY <1>1, <1>2, Zenon DEF GetReply
<1> HIDE DEF rfixup
<1>5. \/ o = q
      \/ q.type # "other" /\ o = [who |-> q.who, type |-> "error", off |-> 0, old |-> q.old]
  BY <1>4, Zenon DEF Replies
<1>6. /\ o \in [who : Clients \cup {None}, type : ReplyTypes, off : Nat, old : {0, 1}]
      /\ o.who = q.who /\ o.old = q.old
      /\ o = q \/ (o.type = "error" /\ q.type # "other")
  <2>1. CASE o = q
    BY <1>3, <2>1, Zenon
  <2>2. CASE o # q
    <3>1. q.who \in Clients \cup {None} /\ q.old \in {0, 1}
      BY <1>3, Zenon
    <3>2. q.type # "other" /\ o = [who |-> q.who, type |-> "error", off |-> 0, old |-> q.old]
      BY <1>5, <2>2, Zenon
    <3>3. o.who = q.who /\ o.type = "error" /\ o.old = q.old
      BY <3>2, Zenon
    <3>4. o \in [who : Clients \cup {None}, type : ReplyTypes, off : Nat, old : {0, 1}]
      BY <3>1, <3>2, Zenon DEF ReplyTypes
    <3> QED BY <3>2, <3>3, <3>4, Zenon
  <2> QED BY <2>1, <2>2, Zenon
<1> QED BY <1>2, <1>4, <1>6, Zenon

(* getreply moves the first slot of the done queue to c->cur.              *)
LEMMA GetReplyPlaces ==
    ASSUME TypeOK, PlaceInv, GetReply
    PROVE  PlaceInv'
<1>1. UNCHANGED <<sfree, slot, rock>>
  BY Zenon DEF GetReply, cvars, qvars
<1>2. \A s \in Slots : (Held(s)' <=> Held(s)) /\ (Flying(s)' <=> Flying(s))
  BY <1>1, Zenon DEF Held, Flying
<1>3. \A s \in Slots : Done(s)' <=> Done(s) /\ s # cur'
  BY GetReplyFacts, Zenon
<1>4. cur = None /\ cur' \in Slots /\ Done(cur') /\ None \notin Slots
  BY GetReplyFacts, Virtio9pAssumption, Zenon
<1>5. \A i, j \in 1 .. Len(donehd') : donehd'[i] = donehd'[j] => i = j
  <2>1. /\ Len(donehd') = Len(donehd) - 1 /\ Len(donehd) \in Nat \ {0}
        /\ \A i \in 1 .. Len(donehd') : donehd'[i] = donehd[i + 1]
    BY GetReplyFacts, Zenon
  <2>2. \A i, j \in 1 .. Len(donehd) : donehd[i] = donehd[j] => i = j
    BY Zenon DEF PlaceInv
  <2>3. \A i \in 1 .. Len(donehd') : i + 1 \in 1 .. Len(donehd)
    BY <2>1
  <2>4. \A i, j \in 1 .. Len(donehd') : i + 1 = j + 1 => i = j
    BY <2>1
  <2> SUFFICES ASSUME NEW i \in 1 .. Len(donehd'), NEW j \in 1 .. Len(donehd'),
                      donehd'[i] = donehd'[j]
               PROVE  i = j
    BY Zenon
  <2> QED BY <2>1, <2>2, <2>3, <2>4, Zenon
<1>6. /\ \A c, e \in Clients : slot'[c] # None /\ slot'[c] = slot'[e] => c = e
      /\ \A d, e \in Descs : rock'[d] # None /\ rock'[d] = rock'[e] => d = e
  BY <1>1, Zenon DEF PlaceInv
<1> QED BY <1>1, <1>2, <1>3, <1>4, <1>5, <1>6 DEF PlaceInv

(* v9read puts the slot of the reply it has served on the free list.       *)
LEMMA ServePlaces ==
    ASSUME TypeOK, PlaceInv, Serve
    PROVE  PlaceInv'
<1>1. /\ UNCHANGED <<donehd, slot, rock>> /\ cur \in Slots /\ cur' = None
      /\ sfree' = sfree \cup {cur} /\ None \notin Slots
  BY Virtio9pAssumption, Zenon DEF Serve, qvars, TypeOK
<1>2. \A s \in Slots :
          (Held(s)' <=> Held(s)) /\ (Flying(s)' <=> Flying(s)) /\ (Done(s)' <=> Done(s))
  BY <1>1, Zenon DEF Held, Flying, Done
<1>3. /\ \A c, e \in Clients : slot'[c] # None /\ slot'[c] = slot'[e] => c = e
      /\ \A d, e \in Descs : rock'[d] # None /\ rock'[d] = rock'[e] => d = e
      /\ \A i, j \in 1 .. Len(donehd') : donehd'[i] = donehd'[j] => i = j
  BY <1>1, Zenon DEF PlaceInv
<1> QED BY <1>1, <1>2, <1>3, Zenon DEF PlaceInv

(* v9flush puts c->cur and the whole done queue on the free list.          *)
LEMMA FlushPlaces ==
    ASSUME TypeOK, PlaceInv, v9flush, UNCHANGED <<rock, slot>>
    PROVE  PlaceInv'
<1>1. cur' = None /\ donehd' = <<>> /\ None \notin Slots
  BY Virtio9pAssumption, Zenon DEF v9flush
<1>2. \A s \in Slots : s \in sfree' <=> s \in sfree \/ Done(s) \/ s = cur
  BY <1>1, Zenon DEF v9flush, Done
<1>3. \A s \in Slots : (Held(s)' <=> Held(s)) /\ (Flying(s)' <=> Flying(s))
  BY Zenon DEF Held, Flying
<1>4. \A s \in Slots : ~Done(s)' /\ s # cur'
  BY <1>1 DEF Done
<1>5. /\ \A c, e \in Clients : slot'[c] # None /\ slot'[c] = slot'[e] => c = e
      /\ \A d, e \in Descs : rock'[d] # None /\ rock'[d] = rock'[e] => d = e
      /\ \A i, j \in 1 .. Len(donehd') : donehd'[i] = donehd'[j] => i = j
  BY <1>1 DEF PlaceInv
<1> QED BY <1>2, <1>3, <1>4, <1>5, Zenon DEF PlaceInv
-----------------------------------------------------------------------------
(* The inductive invariant.                                                *)
VInv == TypeOK /\ PlaceInv /\ ChainInv /\ ClientInv /\ OpInv

(* Steps that move no slot, and steps that leave the queue alone.          *)
LEMMA PlaceStep ==
    ASSUME VInv, Enough, Next
    PROVE  PlaceInv'
<1>0. TypeOK /\ PlaceInv /\ ChainInv /\ ClientInv
  BY Zenon DEF VInv
<1>1. ASSUME UNCHANGED <<sfree, donehd, cur, slot, rock>> PROVE PlaceInv'
  BY <1>0, <1>1 DEF PlaceInv, Held, Flying, Done
<1>2. ASSUME NEW c \in Clients, Client(c) PROVE PlaceInv'
  <2>1. CASE \E s \in Slots : GetSlot(c, s)
    BY <1>0, <2>1, GetSlotPlaces, Zenon
  <2>2. CASE SleepSlot(c)
    BY <1>1, <2>2, Zenon DEF SleepSlot, qvars
  <2>3. CASE Retry(c)
    BY <1>0, <2>3, HarvestPlaces, Zenon DEF Retry
  <2>4. CASE Submit(c)
    BY <1>0, <2>4, SubmitPlaces, Zenon
  <2> QED BY <1>2, <2>1, <2>2, <2>3, <2>4, Zenon DEF Client
<1>3. ASSUME NEW c \in Clients, Timeout(c) PROVE PlaceInv'
  BY <1>1, <1>3, Zenon DEF Timeout, qvars
<1>4. ASSUME NEW c \in Clients, NEW t, Start(c, t) PROVE PlaceInv'
  BY <1>1, <1>4, Zenon DEF Start, qvars
<1>5. CASE SleepReply \/ ReadTimeout
  BY <1>1, <1>5, Zenon DEF SleepReply, ReadTimeout, qvars, cvars
<1>6. CASE ReadRetry
  <2>1. CASE donehd = <<>>
    BY <1>0, <1>6, <2>1, HarvestPlaces, Zenon DEF ReadRetry, cvars
  <2>2. CASE donehd # <<>>
    BY <1>1, <1>6, <2>2, Zenon DEF ReadRetry, qvars, cvars
  <2> QED BY <2>1, <2>2, Zenon
<1>7. CASE GetReply
  BY <1>0, <1>7, GetReplyPlaces, Zenon
<1>8. CASE Serve
  BY <1>0, <1>8, ServePlaces, Zenon
<1>9. CASE Interrupt
  BY <1>0, <1>9, HarvestPlaces, Zenon DEF Interrupt, cvars
<1>10. ASSUME NEW h \in avail, Complete(h) PROVE PlaceInv'
  BY <1>1, <1>10, Zenon DEF Complete, cvars
<1>11. CASE v9open
  BY <1>0, <1>11, FlushPlaces, Zenon DEF v9open, qvars, cvars
<1>12. CASE v9close
  BY <1>0, <1>12, FlushPlaces, Zenon DEF v9close, qvars
<1> QED BY <1>2, <1>3, <1>4, <1>5, <1>6, <1>7, <1>8, <1>9, <1>10, <1>11, <1>12, Zenon
           DEF Next, Reader

(* Every step keeps the chains apart: only submit, the device and          *)
(* vqharvest touch them.                                                   *)
LEMMA ChainStep ==
    ASSUME VInv, Enough, Next
    PROVE  ChainInv'
<1>0. TypeOK /\ PlaceInv /\ ChainInv /\ ClientInv
  BY Zenon DEF VInv
<1>1. ASSUME UNCHANGED qvars PROVE ChainInv'
  BY <1>0, <1>1 DEF ChainInv, qvars
<1>2. ASSUME vqharvest PROVE ChainInv'
  BY <1>0, <1>2, HarvestChains, Zenon
<1>3. ASSUME NEW c \in Clients, Client(c) PROVE ChainInv'
  <2>1. CASE Submit(c)
    BY <1>0, <2>1, SubmitPlaces, Zenon
  <2>2. CASE Retry(c)
    BY <1>2, <2>2, Zenon DEF Retry
  <2>3. CASE SleepSlot(c) \/ \E s \in Slots : GetSlot(c, s)
    BY <1>1, <2>3, Zenon DEF SleepSlot, GetSlot
  <2> QED BY <1>3, <2>1, <2>2, <2>3, Zenon DEF Client
<1>4. ASSUME NEW c \in Clients, NEW t, Timeout(c) \/ Start(c, t) PROVE ChainInv'
  BY <1>1, <1>4, Zenon DEF Timeout, Start
<1>5. CASE Reader \/ ReadTimeout
  BY <1>1, <1>2, <1>5, Zenon DEF Reader, ReadTimeout, SleepReply, ReadRetry, GetReply, Serve
<1>6. CASE Interrupt
  BY <1>2, <1>6, Zenon DEF Interrupt
<1>7. ASSUME NEW h \in avail, Complete(h) PROVE ChainInv'
  BY <1>0, <1>7, CompleteChains, Zenon
<1>8. CASE v9open \/ v9close
  BY <1>1, <1>8, Zenon DEF v9open, v9close
<1> QED BY <1>3, <1>4, <1>5, <1>6, <1>7, <1>8, Zenon DEF Next

(* Where the clients are when one has been woken: no writer is moved.      *)
LEMMA WokenFacts ==
    ASSUME NEW labels, DOMAIN labels = Clients, wwait \in Clients \cup {None}
    PROVE  /\ DOMAIN Woken(labels) = Clients
           /\ \A c \in Clients : Woken(labels)[c] = IF c = wwait THEN "awake" ELSE labels[c]
BY Virtio9pAssumption, Zenon DEF Woken

(* The request that v9read serves is awaited, or is an old one.            *)
LEMMA ServeFacts ==
    ASSUME TypeOK, ClientInv, OpInv, Serve
    PROVE  /\ cur \in Slots /\ op[cur].who \in Clients /\ inuse = 1 /\ wwait' = None
           /\ op' = [op EXCEPT ![cur] = NoOp] /\ DOMAIN pc' = Clients
           /\ \A c \in Clients : pc'[c] = IF c = wwait THEN "awake"
                                          ELSE IF c = op[cur].who /\ op[cur].old = 0 THEN "idle"
                                          ELSE pc[c]
           /\ op[cur].old = 0 => pc[op[cur].who] = "sent" /\ op[cur].who # wwait
           /\ wwait # None => pc[wwait] = "asleep"
<1>0. cur \in Slots /\ inuse = 1 /\ wwait' = None /\ op' = [op EXCEPT ![cur] = NoOp]
  BY Zenon DEF TypeOK, Serve
<1>1. op[cur].who \in Clients /\ op[cur].who # None
  BY <1>0, Virtio9pAssumption, Zenon DEF OpInv, Busy
<1>2. op[cur].old = 0 => pc[op[cur].who] = "sent"
  BY <1>0, <1>1, Zenon DEF OpInv
<1>3. DOMAIN pc = Clients /\ wwait \in Clients \cup {None}
  BY Zenon DEF TypeOK
<1>4. wwait # None => pc[wwait] = "asleep"
  BY Zenon DEF ClientInv
<1>5. pc' = Woken(IF op[cur].old = 0 THEN [pc EXCEPT ![op[cur].who] = "idle"] ELSE pc)
  BY Zenon DEF Serve
<1>6. /\ DOMAIN pc' = Clients
      /\ \A c \in Clients : pc'[c] = IF c = wwait THEN "awake"
                                     ELSE IF c = op[cur].who /\ op[cur].old = 0 THEN "idle"
                                     ELSE pc[c]
  BY <1>1, <1>3, <1>5, WokenFacts, Zenon
<1> QED BY <1>0, <1>1, <1>2, <1>4, <1>6, Virtio9pAssumption, Zenon

(* A slot is in the hands of the client that is about to submit.           *)
LEMMA ClientStep ==
    ASSUME VInv, Enough, Next
    PROVE  ClientInv'
<1>0. TypeOK /\ ClientInv /\ OpInv
  BY Zenon DEF VInv
<1>t. /\ slot \in [Clients -> Slots \cup {None}] /\ DOMAIN pc = Clients /\ inuse \in {0, 1}
      /\ wwait \in Clients \cup {None} /\ None \notin Slots /\ None \notin Clients
  BY <1>0, Virtio9pAssumption, Zenon DEF TypeOK
<1>1. ASSUME UNCHANGED <<pc, slot, wwait, inuse, opened>> PROVE ClientInv'
  BY <1>0, <1>1, Zenon DEF ClientInv
<1>2. ASSUME NEW c \in Clients, NEW s \in Slots, GetSlot(c, s) PROVE ClientInv'
  BY <1>0, <1>t, <1>2, Zenon DEF ClientInv, GetSlot, Goto
<1>3. ASSUME NEW c \in Clients, SleepSlot(c) PROVE ClientInv'
  BY <1>0, <1>t, <1>3, Zenon DEF ClientInv, SleepSlot, Goto
<1>4. ASSUME NEW c \in Clients, Retry(c) PROVE ClientInv'
  BY <1>0, <1>t, <1>4, Zenon DEF ClientInv, Retry, Goto
<1>5. ASSUME NEW c \in Clients, Submit(c) PROVE ClientInv'
  <2>1. /\ pc[c] = "submit" /\ pc' = [pc EXCEPT ![c] = "sent"]
        /\ slot' = [slot EXCEPT ![c] = None] /\ UNCHANGED <<wwait, inuse, opened>>
    BY <1>5, Zenon DEF Submit, Goto
  <2> QED BY <1>0, <1>t, <2>1, Zenon DEF ClientInv
<1>6. ASSUME NEW c \in Clients, Timeout(c) PROVE ClientInv'
  <2>1. /\ \A e \in Clients : pc'[e] = IF e = wwait THEN "awake" ELSE pc[e]
        /\ wwait' = None /\ UNCHANGED <<slot, inuse, opened>>
    BY <1>t, <1>6, WokenFacts, Zenon DEF Timeout
  <2> QED BY <1>0, <1>t, <2>1 DEF ClientInv
<1>7. ASSUME NEW c \in Clients, NEW t, Start(c, t) PROVE ClientInv'
  BY <1>0, <1>t, <1>7 DEF ClientInv, Start, Goto
<1>8. CASE Serve
  <2>1. UNCHANGED <<slot, inuse>>
    BY <1>8, Zenon DEF Serve
  <2> QED BY <1>0, <1>t, <1>8, <2>1, ServeFacts DEF ClientInv
<1>9. CASE v9open
  BY <1>0, <1>9, Zenon DEF ClientInv, v9open, cvars
<1>10. CASE v9close
  <2>1. /\ pc' = [c \in Clients |-> "idle"] /\ opened' = [c \in Clients |-> 0]
        /\ UNCHANGED <<slot, wwait>> /\ \A c \in Clients : pc[c] \in {"idle", "sent"}
    BY <1>10, Zenon DEF v9close
  <2> QED BY <1>0, <1>t, <2>1, Zenon DEF ClientInv
<1>11. CASE SleepReply \/ ReadRetry \/ GetReply \/ ReadTimeout \/ Interrupt
  BY <1>1, <1>11, Zenon DEF SleepReply, ReadRetry, GetReply, ReadTimeout, Interrupt, cvars
<1>12. ASSUME NEW h, Complete(h) PROVE ClientInv'
  BY <1>1, <1>12, Zenon DEF Complete, cvars
<1> QED BY <1>2, <1>3, <1>4, <1>5, <1>6, <1>7, <1>8, <1>9, <1>10, <1>11, <1>12, Zenon
           DEF Next, Client, Reader

(* A step that starts and ends no request.                                 *)
LEMMA OpKept ==
    ASSUME OpInv, \A s \in Slots : Busy(s)' <=> Busy(s), UNCHANGED <<op, inuse>>,
           \A c \in Clients : pc[c] = "sent" => pc'[c] = "sent"
    PROVE  OpInv'
<1>0. None \notin Clients /\ NoOp.who = None
  BY Virtio9pAssumption, Zenon DEF NoOp
<1>1. \A s \in Slots : op[s].who # None => op[s].who \in Clients
  BY <1>0, Zenon DEF OpInv
<1>2. \A s \in Slots : op[s].who # None /\ op[s].old = 0 => inuse' = 1 /\ pc'[op[s].who] = "sent"
  BY <1>1, Zenon DEF OpInv
<1> QED BY <1>2, Zenon DEF OpInv, NoOp

(* vqharvest starts and ends no request.                                   *)
LEMMA HarvestBusy ==
    ASSUME TypeOK, PlaceInv, ChainInv, vqharvest, cur' = cur
    PROVE  \A s \in Slots : Busy(s)' <=> Busy(s)
<1>1. \A s \in Slots : Done(s)' <=> Done(s) \/ Harvested(s)
  BY HarvestDone, Zenon
<1>2. \A s \in Slots : Flying(s)' <=> Flying(s) /\ ~Harvested(s)
  BY HarvestQueue, Zenon
<1>3. \A s \in Slots : Harvested(s) => Flying(s)
  BY DEF Harvested, Flying, TypeOK
<1> QED BY <1>1, <1>2, <1>3, Zenon DEF Busy

(* What submit does to the requests.                                       *)
LEMMA SubmitOps ==
    ASSUME VInv, Enough, NEW c \in Clients, Submit(c)
    PROVE  /\ pc[c] = "submit" /\ pc' = [pc EXCEPT ![c] = "sent"] /\ slot[c] \in Slots
           /\ inuse = 1 /\ inuse' = 1 /\ ~Busy(slot[c]) /\ DOMAIN op' = Slots
           /\ \A s \in Slots : Busy(s)' <=> Busy(s) \/ s = slot[c]
           /\ \A s \in Slots : s # slot[c] => op'[s] = op[s]
           /\ op'[slot[c]].who = c /\ op'[slot[c]].old = 0
<1>0. TypeOK /\ PlaceInv /\ ChainInv /\ ClientInv /\ OpInv
  BY Zenon DEF VInv
<1>1. pc[c] = "submit" /\ pc' = [pc EXCEPT ![c] = "sent"] /\ UNCHANGED <<inuse, donehd, cur>>
  BY Zenon DEF Submit, Goto
<1>2. inuse = 1
  BY <1>0, <1>1, Zenon DEF ClientInv, TypeOK
<1>3. /\ slot[c] \in Slots /\ \A s \in Slots : Flying(s)' <=> Flying(s) \/ s = slot[c]
  BY <1>0, SubmitFacts, Zenon
<1>4. \A s \in Slots : Busy(s)' <=> Busy(s) \/ s = slot[c]
  BY <1>1, <1>3, Zenon DEF Busy, Done
<1>5. ~Busy(slot[c])
  <2>1. Held(slot[c])
    BY Zenon DEF Held
  <2> QED BY <1>0, <1>3, <2>1, Zenon DEF Busy, PlaceInv
<1>6. DOMAIN op = Slots
  BY <1>0, Zenon DEF TypeOK
<1>7. \E x : op' = [op EXCEPT ![slot[c]] = [who |-> c, type |-> type[c], old |-> 0, off |-> x]]
  BY Zenon DEF Submit, dirsoffget
<1> QED BY <1>1, <1>2, <1>3, <1>4, <1>5, <1>6, <1>7

(* Every request in the driver has a client, and no two have the same.     *)
LEMMA OpStep ==
    ASSUME VInv, Enough, Next
    PROVE  OpInv'
<1>0. TypeOK /\ PlaceInv /\ ChainInv /\ ClientInv /\ OpInv
  BY Zenon DEF VInv
<1>t. /\ DOMAIN pc = Clients /\ DOMAIN op = Slots /\ wwait \in Clients \cup {None}
      /\ None \notin Slots /\ None \notin Clients /\ NoOp.who = None
  BY <1>0, Virtio9pAssumption, Zenon DEF TypeOK, NoOp
<1>w. \A s \in Slots : op[s].who # None => op[s].who \in Clients
  BY <1>0, <1>t, Zenon DEF OpInv
<1>1. ASSUME UNCHANGED <<op, inuse, rock, donehd, cur>>,
             \A c \in Clients : pc[c] = "sent" => pc'[c] = "sent"
      PROVE  OpInv'
  <2>1. \A s \in Slots : Busy(s)' <=> Busy(s)
    BY <1>1, Zenon DEF Busy, Flying, Done
  <2> QED BY <1>0, <1>1, <2>1, OpKept, Zenon
<1>2. ASSUME vqharvest, UNCHANGED <<op, inuse, cur>>,
             \A c \in Clients : pc[c] = "sent" => pc'[c] = "sent"
      PROVE  OpInv'
  <2>1. \A s \in Slots : Busy(s)' <=> Busy(s)
    BY <1>0, <1>2, HarvestBusy, Zenon
  <2> QED BY <1>0, <1>2, <2>1, OpKept, Zenon
<1>3. ASSUME NEW c \in Clients, SleepSlot(c) \/ \E s \in Slots : GetSlot(c, s) PROVE OpInv'
  <2>1. UNCHANGED <<op, inuse, rock, donehd, cur>>
    BY <1>3, Zenon DEF SleepSlot, GetSlot, qvars
  <2>2. \A e \in Clients : pc[e] = "sent" => pc'[e] = "sent"
    BY <1>3, <1>t, Zenon DEF SleepSlot, GetSlot, Goto
  <2> QED BY <1>1, <2>1, <2>2, Zenon
<1>4. ASSUME NEW c \in Clients, Retry(c) PROVE OpInv'
  <2>1. vqharvest /\ UNCHANGED <<op, inuse, cur>>
    BY <1>4, Zenon DEF Retry
  <2>2. \A e \in Clients : pc[e] = "sent" => pc'[e] = "sent"
    BY <1>4, <1>t, Zenon DEF Retry, Goto
  <2> QED BY <1>2, <2>1, <2>2, Zenon
<1>5. ASSUME NEW c \in Clients, Timeout(c) PROVE OpInv'
  <2>1. UNCHANGED <<op, inuse, rock, donehd, cur>>
    BY <1>5, Zenon DEF Timeout, qvars
  <2>2. \A e \in Clients : pc'[e] = IF e = wwait THEN "awake" ELSE pc[e]
    BY <1>t, <1>5, WokenFacts, Zenon DEF Timeout
  <2>3. \A e \in Clients : pc[e] = "sent" => pc'[e] = "sent"
    BY <1>0, <1>t, <2>2, Zenon DEF ClientInv
  <2> QED BY <1>1, <2>1, <2>3, Zenon
<1>6. ASSUME NEW c \in Clients, NEW t, Start(c, t) PROVE OpInv'
  <2>1. UNCHANGED <<op, inuse, rock, donehd, cur>>
    BY <1>6, Zenon DEF Start, qvars
  <2>2. \A e \in Clients : pc[e] = "sent" => pc'[e] = "sent"
    BY <1>6, <1>t, Zenon DEF Start, Goto
  <2> QED BY <1>1, <2>1, <2>2, Zenon
<1>7. CASE SleepReply \/ ReadTimeout \/ \E h \in avail : Complete(h)
  BY <1>1, <1>7, Zenon DEF SleepReply, ReadTimeout, Complete, qvars, cvars
<1>8. CASE Interrupt
  BY <1>2, <1>8, Zenon DEF Interrupt, cvars
<1>9. CASE ReadRetry
  <2>1. UNCHANGED <<op, inuse, cur, pc>> /\ (vqharvest \/ UNCHANGED <<rock, donehd>>)
    BY <1>9, Zenon DEF ReadRetry, cvars, qvars
  <2> QED BY <1>1, <1>2, <2>1, Zenon
<1>10. CASE GetReply
  <2>1. UNCHANGED <<inuse, pc, rock>>
    BY <1>10, Zenon DEF GetReply, cvars, qvars
  <2>2. \A s \in Slots : Done(s)' <=> Done(s) /\ s # cur'
    BY <1>0, <1>10, GetReplyFacts, Zenon
  <2>3. cur = None /\ cur' \in Slots /\ Done(cur')
    BY <1>0, <1>10, GetReplyFacts, Zenon
  <2>4. \A s \in Slots : Busy(s)' <=> Busy(s)
    BY <1>t, <2>1, <2>2, <2>3, Zenon DEF Busy, Flying
  <2>5. PICK x \in Slots : x = cur'
    BY <2>3, Zenon
  <2>6. PICK o : op' = [op EXCEPT ![x] = o] /\ o.who = op[x].who /\ o.old = op[x].old
    BY <1>0, <1>10, <2>5, ReplyFacts, Zenon
  <2>7. /\ \A s \in Slots : s # x => op'[s] = op[s]
        /\ op'[x].who = op[x].who /\ op'[x].old = op[x].old
    BY <1>t, <2>6, Zenon
  <2>8. \A s \in Slots : op'[s].who = op[s].who /\ op'[s].old = op[s].old
    BY <2>7, Zenon
  <2>9. /\ \A s \in Slots : Busy(s)' => op'[s].who \in Clients
        /\ \A s \in Slots : ~Busy(s)' => op'[s] = NoOp
    <3>1. Busy(x)
      BY <2>3, <2>5, Zenon DEF Busy
    <3> QED BY <1>0, <2>4, <2>7, <2>8, <3>1, Zenon DEF OpInv
  <2>10. \A s \in Slots : op'[s].who # None /\ op'[s].old = 0 =>
             inuse' = 1 /\ pc'[op'[s].who] = "sent"
    BY <1>0, <2>1, <2>8, Zenon DEF OpInv
  <2>11. \A s, u \in Slots :
             op'[s].who # None /\ op'[s].who = op'[u].who /\ op'[s].old = 0 /\ op'[u].old = 0
             => s = u
    <3> SUFFICES ASSUME NEW s \in Slots, NEW u \in Slots, op'[s].who # None,
                        op'[s].who = op'[u].who, op'[s].old = 0, op'[u].old = 0
                 PROVE  s = u
      BY Zenon
    <3>1. /\ op[s].who # None /\ op[s].who = op[u].who
          /\ op[s].old = 0 /\ op[u].old = 0
      BY <2>8, Zenon
    <3> QED BY <1>0, <3>1, Zenon DEF OpInv
  <2> QED BY <2>9, <2>10, <2>11, Zenon DEF OpInv, NoOp
<1>11. ASSUME NEW c \in Clients, Submit(c) PROVE OpInv'
  <2>1. /\ pc[c] = "submit" /\ pc' = [pc EXCEPT ![c] = "sent"] /\ slot[c] \in Slots
        /\ inuse = 1 /\ inuse' = 1 /\ ~Busy(slot[c])
        /\ \A s \in Slots : Busy(s)' <=> Busy(s) \/ s = slot[c]
        /\ \A s \in Slots : s # slot[c] => op'[s] = op[s]
        /\ op'[slot[c]].who = c /\ op'[slot[c]].old = 0
    BY <1>11, SubmitOps, Zenon
  <2>2. \A s \in Slots : Busy(s)' => op'[s].who \in Clients
    BY <1>0, <2>1, Zenon DEF OpInv
  <2>3. \A s \in Slots : ~Busy(s)' => op'[s] = NoOp
    BY <1>0, <2>1, Zenon DEF OpInv
  <2>4. \A s \in Slots : op[s].who # None /\ op[s].old = 0 =>
            pc[op[s].who] = "sent" /\ op[s].who # c
    BY <1>0, <2>1, Zenon DEF OpInv
  <2>5. \A s \in Slots : op'[s].who # None /\ op'[s].old = 0 =>
            inuse' = 1 /\ pc'[op'[s].who] = "sent"
    BY <1>t, <1>w, <2>1, <2>4
  <2>6. \A s, u \in Slots :
            op'[s].who # None /\ op'[s].who = op'[u].who /\ op'[s].old = 0 /\ op'[u].old = 0
            => s = u
    BY <1>0, <1>t, <2>1, <2>4 DEF OpInv
  <2> QED BY <2>2, <2>3, <2>5, <2>6, Zenon DEF OpInv, NoOp
<1>12. CASE Serve
  <2>1. /\ cur \in Slots /\ op[cur].who \in Clients /\ inuse = 1
        /\ op' = [op EXCEPT ![cur] = NoOp]
        /\ \A c \in Clients : pc'[c] = IF c = wwait THEN "awake"
                                       ELSE IF c = op[cur].who /\ op[cur].old = 0 THEN "idle"
                                       ELSE pc[c]
    BY <1>0, <1>12, ServeFacts, Zenon
  <2>2. UNCHANGED <<rock, donehd, inuse>> /\ cur' = None
    BY <1>12, Zenon DEF Serve, qvars
  <2>3. \A s \in Slots : Busy(s)' <=> Busy(s) /\ s # cur
    <3>1. ~Flying(cur) /\ ~Done(cur)
      BY <1>0, <2>1, Zenon DEF PlaceInv
    <3> QED BY <1>t, <2>1, <2>2, <3>1, Zenon DEF Busy, Flying, Done
  <2>4. \A s \in Slots : op'[s] = IF s = cur THEN NoOp ELSE op[s]
    BY <1>t, <2>1, Zenon
  <2>5. /\ \A s \in Slots : Busy(s)' => op'[s].who \in Clients
        /\ \A s \in Slots : ~Busy(s)' => op'[s] = NoOp
    BY <1>0, <2>3, <2>4, Zenon DEF OpInv
  <2>6. \A s \in Slots : op'[s].who # None /\ op'[s].old = 0 =>
            inuse' = 1 /\ pc'[op'[s].who] = "sent"
    <3> SUFFICES ASSUME NEW s \in Slots, op'[s].who # None, op'[s].old = 0
                 PROVE  inuse' = 1 /\ pc'[op'[s].who] = "sent"
      BY Zenon
    <3>1. s # cur /\ op'[s] = op[s] /\ op[s].who \in Clients /\ op[s].old = 0
      BY <1>t, <1>w, <2>4, Zenon
    <3>2. pc[op[s].who] = "sent" /\ op[s].who # wwait
      BY <1>0, <1>t, <3>1, Zenon DEF OpInv, ClientInv
    <3>3. ~(op[s].who = op[cur].who /\ op[cur].old = 0)
      BY <1>0, <1>t, <2>1, <3>1, Zenon DEF OpInv
    <3> QED BY <2>1, <2>2, <3>1, <3>2, <3>3, Zenon
  <2>7. \A s, u \in Slots :
            op'[s].who # None /\ op'[s].who = op'[u].who /\ op'[s].old = 0 /\ op'[u].old = 0
            => s = u
    BY <1>0, <1>t, <2>4 DEF OpInv
  <2> QED BY <2>5, <2>6, <2>7, Zenon DEF OpInv, NoOp
<1>13. CASE v9open \/ v9close
  <2>1. \A s \in Slots : s \in InFlight <=> Flying(s)
    BY <1>t, Zenon DEF InFlight, Flying
  <2>2. \A s \in Slots : Busy(s)' <=> Flying(s)
    BY <1>13, <1>t DEF v9open, v9close, v9flush, qvars, Busy, Flying, Done
  <2>3. \A s \in Slots : Flying(s) => op[s].who \in Clients
    BY <1>0, Zenon DEF OpInv, Busy
  <2>4. /\ \A s \in Slots : Flying(s) => op'[s].who = op[s].who /\ op'[s].old # 0
        /\ \A s \in Slots : ~Flying(s) => op'[s] = NoOp
    <3>1. CASE v9open
      <4>1. inuse = 0 /\ op' = [s \in Slots |-> IF s \in InFlight THEN op[s] ELSE NoOp]
        BY <3>1, Zenon DEF v9open
      <4>2. \A s \in Slots : Flying(s) => op[s].old # 0
        BY <1>0, <1>t, <2>3, <4>1 DEF OpInv
      <4> QED BY <2>1, <4>1, <4>2, Zenon
    <3>2. CASE v9close
      <4>1. op' = [s \in Slots |-> IF s \in InFlight THEN [op[s] EXCEPT !.old = 1] ELSE NoOp]
        BY <3>2, Zenon DEF v9close
      <4>2. \A s \in Slots : op[s] \in [who : Clients \cup {None}, type : ReplyTypes, off : Nat,
                                        old : {0, 1}]
        BY <1>0, Zenon DEF TypeOK
      <4> QED BY <2>1, <4>1, <4>2
    <3> QED BY <1>13, <3>1, <3>2, Zenon
  <2> QED BY <1>t, <2>2, <2>3, <2>4, Zenon DEF OpInv, NoOp
<1> QED BY <1>3, <1>4, <1>5, <1>6, <1>7, <1>8, <1>9, <1>10, <1>11, <1>12, <1>13, Zenon
           DEF Next, Client, Reader

(* What dirsoffget sends, and what it keeps.                               *)
LEMMA SubmitOffset ==
    ASSUME TypeOK, NEW c \in Clients, Submit(c)
    PROVE  LET dir == type[c] = "read" /\ fids[c] # None
               soff == IF pos[c] = 0 THEN 0 ELSE fids[c]
           IN  \E x \in Nat :
                   /\ op' = [op EXCEPT ![slot[c]] =
                                 [who |-> c, type |-> type[c], old |-> 0, off |-> x]]
                   /\ fids' = IF dir THEN [fids EXCEPT ![c] = soff] ELSE fids
                   /\ dir => x = soff
<1>0. fids[c] \in Nat \cup {None} /\ pos[c] \in Nat
  BY Zenon DEF TypeOK
<1>1. dirsoffget(c)
  BY Zenon DEF Submit
<1>2. CASE type[c] = "read" /\ fids[c] # None
  BY <1>0, <1>1, <1>2, Zenon DEF dirsoffget
<1>3. CASE ~(type[c] = "read" /\ fids[c] # None)
  BY <1>0, <1>1, <1>3, Zenon DEF dirsoffget
<1> QED BY <1>2, <1>3, Zenon

(* Types, in four groups of variables that few actions change together.    *)
TypeQ ==
    /\ free \subseteq Descs /\ next \in [Descs -> Descs \cup {0}]
    /\ rock \in [Descs -> Slots \cup {None}]
    /\ avail \subseteq Descs /\ used \in Seq(Descs)

(* The slots outside the virtqueue.                                        *)
TypeS == sfree \subseteq Slots /\ donehd \in Seq(Slots) /\ cur \in Slots \cup {None}

(* The requests and the directories' offsets.                              *)
TypeF ==
    /\ op \in [Slots -> [who : Clients \cup {None}, type : ReplyTypes, off : Nat, old : {0, 1}]]
    /\ fids \in [Clients -> Nat \cup {None}]

(* The conversation, its clients and its reader.                           *)
TypeC ==
    /\ inuse \in {0, 1} /\ dirty \in {0, 1} /\ wwait \in Clients \cup {None}
    /\ timer \in [Clients -> {0, 1}] /\ opened \in [Clients -> {0, 1}]
    /\ pc \in [Clients -> {"idle", "getslot", "asleep", "awake", "submit", "sent"}]
    /\ slot \in [Clients -> Slots \cup {None}] /\ type \in [Clients -> Types]
    /\ rpc \in {"idle", "asleep", "awake"}
    /\ pos \in [Clients -> Nat]

(* The four groups are all of TypeOK.                                      *)
LEMMA TypeParts ==
    /\ TypeOK <=> TypeQ /\ TypeS /\ TypeF /\ TypeC
    /\ TypeOK' <=> TypeQ' /\ TypeS' /\ TypeF' /\ TypeC'
BY Zenon DEF TypeOK, TypeQ, TypeS, TypeF, TypeC

(* Every step keeps the types of the virtqueue.                            *)
LEMMA TypeQStep ==
    ASSUME VInv, Enough, Next
    PROVE  TypeQ'
<1>0. TypeOK /\ PlaceInv /\ ChainInv /\ ClientInv /\ TypeQ
  BY TypeParts, Zenon DEF VInv
<1>1. ASSUME UNCHANGED qvars PROVE TypeQ'
  BY <1>0, <1>1, Zenon DEF TypeQ, qvars
<1>2. ASSUME vqharvest PROVE TypeQ'
  BY <1>0, <1>2, HarvestQueue DEF TypeQ
<1>3. ASSUME NEW c \in Clients, Client(c) PROVE TypeQ'
  <2>1. CASE Submit(c)
    <3>1. PICK head \in free, second \in free :
               /\ next' = [next EXCEPT ![head] = second]
               /\ rock' = [rock EXCEPT ![head] = slot[c]] /\ avail' = avail \cup {head}
               /\ free' = free \ {head, second} /\ slot[c] \in Slots
      BY <1>0, <2>1, SubmitFacts, Zenon
    <3>2. used' = used
      BY <2>1, Zenon DEF Submit
    <3> QED BY <1>0, <3>1, <3>2, Zenon DEF TypeQ
  <2>2. CASE Retry(c)
    BY <1>2, <2>2, Zenon DEF Retry
  <2>3. CASE SleepSlot(c) \/ \E s \in Slots : GetSlot(c, s)
    BY <1>1, <2>3, Zenon DEF SleepSlot, GetSlot
  <2> QED BY <1>3, <2>1, <2>2, <2>3, Zenon DEF Client
<1>4. ASSUME NEW c \in Clients, NEW t, Timeout(c) \/ Start(c, t) PROVE TypeQ'
  BY <1>1, <1>4, Zenon DEF Timeout, Start
<1>5. CASE Reader \/ ReadTimeout
  BY <1>1, <1>2, <1>5, Zenon DEF Reader, ReadTimeout, SleepReply, ReadRetry, GetReply, Serve
<1>6. CASE Interrupt
  BY <1>2, <1>6, Zenon DEF Interrupt
<1>7. ASSUME NEW h \in avail, Complete(h) PROVE TypeQ'
  BY <1>0, <1>7 DEF TypeQ, Complete
<1>8. CASE v9open \/ v9close
  BY <1>1, <1>8, Zenon DEF v9open, v9close
<1> QED BY <1>3, <1>4, <1>5, <1>6, <1>7, <1>8, Zenon DEF Next

(* Every step keeps the types of the free list, the done queue and c->cur. *)
LEMMA TypeSStep ==
    ASSUME VInv, Enough, Next
    PROVE  TypeS'
<1>0. TypeOK /\ PlaceInv /\ ChainInv /\ TypeS
  BY TypeParts, Zenon DEF VInv
<1>1. ASSUME UNCHANGED <<sfree, donehd, cur>> PROVE TypeS'
  BY <1>0, <1>1, Zenon DEF TypeS
<1>2. ASSUME vqharvest, UNCHANGED <<sfree, cur>> PROVE TypeS'
  BY <1>0, <1>2, HarvestDone, Zenon DEF TypeS
<1>3. ASSUME NEW c \in Clients, Client(c) PROVE TypeS'
  <2>1. CASE Submit(c) \/ SleepSlot(c)
    BY <1>1, <2>1, Zenon DEF Submit, SleepSlot
  <2>2. CASE Retry(c)
    BY <1>2, <2>2, Zenon DEF Retry
  <2>3. CASE \E s \in Slots : GetSlot(c, s)
    BY <1>0, <2>3, Zenon DEF TypeS, GetSlot
  <2> QED BY <1>3, <2>1, <2>2, <2>3, Zenon DEF Client
<1>4. ASSUME NEW c \in Clients, NEW t, Timeout(c) \/ Start(c, t) PROVE TypeS'
  BY <1>1, <1>4, Zenon DEF Timeout, Start
<1>5. CASE SleepReply \/ ReadTimeout \/ \E h \in avail : Complete(h)
  BY <1>1, <1>5, Zenon DEF SleepReply, ReadTimeout, Complete
<1>6. CASE Interrupt \/ ReadRetry
  BY <1>1, <1>2, <1>6, Zenon DEF Interrupt, ReadRetry
<1>7. CASE GetReply
  <2>1. sfree' = sfree
    BY <1>7, Zenon DEF GetReply
  <2> QED BY <1>0, <1>7, <2>1, GetReplyFacts, Zenon DEF TypeS
<1>8. CASE Serve
  BY <1>0, <1>8, Zenon DEF TypeS, Serve
<1>9. CASE v9open \/ v9close
  <2>1. v9flush
    BY <1>9, Zenon DEF v9open, v9close
  <2> QED BY <1>0, <2>1 DEF TypeS, v9flush
<1> QED BY <1>3, <1>4, <1>5, <1>6, <1>7, <1>8, <1>9, Zenon DEF Next, Reader

(* What rfixup does to the fid of a reply, which has a client.             *)
LEMMA FixupFacts ==
    ASSUME TypeOK, NEW o, o.who \in Clients, o.type \in ReplyTypes, rfixup(o)
    PROVE  /\ fids' \in [Clients -> Nat \cup {None}]
           /\ \A c \in Clients : c # o.who => fids'[c] = fids[c]
           /\ o.type = "open" => fids'[o.who] = 0
           /\ o.type \in {"other", "error"} => fids'[o.who] = fids[o.who]
           /\ o.type = "read" /\ fids[o.who] # None =>
                  fids'[o.who] = fids[o.who] + USize * Returned(o.off)
<1>0. fids \in [Clients -> Nat \cup {None}]
  BY Zenon DEF TypeOK
<1>1. USize * Returned(o.off) \in Nat
  BY DEF USize, Returned
<1>2. CASE o.type = "open"
  BY <1>0, <1>2, Zenon DEF rfixup, setdirfid
<1>3. CASE o.type = "clunk"
  BY <1>0, <1>3, Zenon DEF rfixup, setdirfid
<1>4. CASE o.type = "read" /\ fids[o.who] # None
  <2>1. fids' = [fids EXCEPT ![o.who] = @ + USize * Returned(o.off)]
    BY <1>4, Zenon DEF rfixup, isdirfid, dirsoffadv
  <2> HIDE DEF rfixup
  <2> QED BY <1>0, <1>1, <1>4, <2>1
<1>5. CASE o.type \in {"other", "error"} \/ (o.type = "read" /\ fids[o.who] = None)
  BY <1>0, <1>5, Zenon DEF rfixup, isdirfid
<1> QED BY <1>0, <1>2, <1>3, <1>4, <1>5, Zenon DEF Types, ReplyTypes

(* Every step keeps the types of the requests and of the offsets.          *)
LEMMA TypeFStep ==
    ASSUME VInv, Enough, Next
    PROVE  TypeF'
<1>0. TypeOK /\ PlaceInv /\ ChainInv /\ ClientInv /\ OpInv /\ TypeF
  BY TypeParts, Zenon DEF VInv
<1>1. ASSUME UNCHANGED <<op, fids>> PROVE TypeF'
  BY <1>0, <1>1, Zenon DEF TypeF
<1>n. NoOp \in [who : Clients \cup {None}, type : ReplyTypes, off : Nat, old : {0, 1}]
  BY Zenon DEF NoOp, Types, ReplyTypes
<1>2. ASSUME NEW c \in Clients, Client(c) PROVE TypeF'
  <2>1. CASE Submit(c)
    <3>1. type[c] \in Types /\ fids[c] \in Nat \cup {None}
      BY <1>0, Zenon DEF TypeOK
    <3>2. /\ op' \in [Slots -> [who : Clients \cup {None}, type : ReplyTypes, off : Nat, old : {0, 1}]]
      <4>1. PICK x \in Nat : op' = [op EXCEPT ![slot[c]] = [who |-> c, type |-> type[c],
                                                            old |-> 0, off |-> x]]
        BY <1>0, <2>1, SubmitOffset, Zenon
      <4>2. [who |-> c, type |-> type[c], old |-> 0, off |-> x] \in
                [who : Clients \cup {None}, type : ReplyTypes, off : Nat, old : {0, 1}]
        BY <3>1, Zenon DEF ReplyTypes
      <4> QED BY <1>0, <4>1, <4>2, Zenon DEF TypeF
    <3>3. fids' = fids \/ fids' = [fids EXCEPT ![c] = 0] \/ fids' = [fids EXCEPT ![c] = fids[c]]
      BY <1>0, <2>1, SubmitOffset, Zenon
    <3> QED BY <1>0, <3>1, <3>2, <3>3 DEF TypeF
  <2>2. CASE SleepSlot(c) \/ Retry(c) \/ \E s \in Slots : GetSlot(c, s)
    BY <1>1, <2>2, Zenon DEF SleepSlot, Retry, GetSlot
  <2> QED BY <1>2, <2>1, <2>2, Zenon DEF Client
<1>3. ASSUME NEW c \in Clients, NEW t, Timeout(c) \/ Start(c, t) PROVE TypeF'
  BY <1>1, <1>3, Zenon DEF Timeout, Start
<1>4. CASE SleepReply \/ ReadTimeout \/ ReadRetry \/ Interrupt \/ \E h \in avail : Complete(h)
  BY <1>1, <1>4, Zenon DEF SleepReply, ReadTimeout, ReadRetry, Interrupt, Complete
<1>5. CASE GetReply
  <2>1. PICK o \in [who : Clients \cup {None}, type : ReplyTypes, off : Nat, old : {0, 1}] :
            rfixup(o) /\ op' = [op EXCEPT ![cur'] = o] /\ o.who = op[cur'].who
    BY <1>0, <1>5, ReplyFacts, Zenon
  <2> HIDE DEF rfixup
  <2>2. cur' \in Slots /\ Done(cur')
    BY <1>0, <1>5, GetReplyFacts, Zenon
  <2>3. o.who \in Clients /\ o.type \in ReplyTypes
    BY <1>0, <2>1, <2>2, Zenon DEF OpInv, Busy
  <2>4. fids' \in [Clients -> Nat \cup {None}]
    BY <1>0, <2>1, <2>3, FixupFacts, Zenon
  <2>5. op' \in [Slots -> [who : Clients \cup {None}, type : ReplyTypes, off : Nat, old : {0, 1}]]
    BY <1>0, <2>1, Zenon DEF TypeF
  <2> QED BY <2>4, <2>5, Zenon DEF TypeF
<1>6. CASE Serve
  <2>1. op' = [op EXCEPT ![cur] = NoOp] /\ fids' = fids
    BY <1>6, Zenon DEF Serve
  <2> QED BY <1>0, <1>n, <2>1, Zenon DEF TypeF
<1>7. CASE v9open \/ v9close
  <2>1. fids' = [c \in Clients |-> None]
    BY <1>7, Zenon DEF v9open, v9close, v9flush, clearfids
  <2>2. \/ op' = [s \in Slots |-> IF s \in InFlight THEN op[s] ELSE NoOp]
        \/ op' = [s \in Slots |-> IF s \in InFlight THEN [op[s] EXCEPT !.old = 1] ELSE NoOp]
    BY <1>7, Zenon DEF v9open, v9close
  <2> QED BY <1>0, <1>n, <2>1, <2>2 DEF TypeF
<1> QED BY <1>2, <1>3, <1>4, <1>5, <1>6, <1>7, Zenon DEF Next, Reader

(* Every step keeps the types of the conversation and of its clients.      *)
LEMMA TypeCStep ==
    ASSUME VInv, Enough, Next
    PROVE  TypeC'
<1>0. TypeOK /\ ClientInv /\ OpInv /\ TypeC
  BY TypeParts, Zenon DEF VInv
<1>1. ASSUME UNCHANGED <<inuse, wwait, timer, cvars, dirty>>, rpc' \in {"idle", "asleep", "awake"}
      PROVE  TypeC'
  BY <1>0, <1>1, Zenon DEF TypeC, cvars
<1>r. rpc \in {"idle", "asleep", "awake"}
  BY <1>0, Zenon DEF TypeC
<1>2. ASSUME NEW c \in Clients, NEW s \in Slots, GetSlot(c, s) PROVE TypeC'
  BY <1>0, <1>2, Zenon DEF TypeC, GetSlot, Goto
<1>3. ASSUME NEW c \in Clients, SleepSlot(c) PROVE TypeC'
  BY <1>0, <1>3, Zenon DEF TypeC, SleepSlot, Goto
<1>4. ASSUME NEW c \in Clients, Retry(c) PROVE TypeC'
  BY <1>0, <1>4, Zenon DEF TypeC, Retry, Goto, WakeReader
<1>5. ASSUME NEW c \in Clients, Submit(c) PROVE TypeC'
  <2>1. /\ slot' = [slot EXCEPT ![c] = None] /\ type' = [type EXCEPT ![c] = "other"]
        /\ pc' = [pc EXCEPT ![c] = "sent"]
        /\ UNCHANGED <<inuse, wwait, timer, rpc, opened, pos, dirty>>
    BY <1>5, Zenon DEF Submit, Goto
  <2> QED BY <1>0, <2>1, Zenon DEF TypeC, Types
<1>w. ASSUME NEW labels \in [Clients -> {"idle", "getslot", "asleep", "awake", "submit", "sent"}]
      PROVE  Woken(labels) \in [Clients -> {"idle", "getslot", "asleep", "awake", "submit", "sent"}]
  BY Zenon DEF Woken
<1>6. ASSUME NEW c \in Clients, Timeout(c) PROVE TypeC'
  <2>1. pc' = Woken(pc) /\ wwait' = None /\ timer' = [timer EXCEPT ![c] = 0]
        /\ UNCHANGED <<inuse, slot, type, rpc, opened, pos, dirty>>
    BY <1>6, Zenon DEF Timeout
  <2>2. pc' \in [Clients -> {"idle", "getslot", "asleep", "awake", "submit", "sent"}]
    BY <1>0, <1>w, <2>1, Zenon DEF TypeC
  <2> QED BY <1>0, <2>1, <2>2, Zenon DEF TypeC
<1>7. ASSUME NEW c \in Clients, NEW t \in Types \cup {"rewind"}, Start(c, t) PROVE TypeC'
  <2>1. opened' \in [Clients -> {0, 1}]
    BY <1>0, <1>7, Zenon DEF TypeC, Start
  <2> QED BY <1>0, <1>7, <2>1, Zenon DEF TypeC, Start, Goto, Types
<1>8. CASE Serve
  <2> DEFINE o == op[cur]
             labels == IF o.old = 0 THEN [pc EXCEPT ![o.who] = "idle"] ELSE pc
  <2>1. /\ wwait' = None /\ pc' = Woken(labels)
        /\ UNCHANGED <<inuse, timer, slot, type, rpc, dirty>>
    BY <1>8, Zenon DEF Serve
  <2>2. opened' = opened \/ opened' = [opened EXCEPT ![o.who] = 1]
    BY <1>8, Zenon DEF Serve
  <2>3. pos' = pos \/ pos' = [pos EXCEPT ![o.who] = pos[o.who] + Returned(o.off)]
    BY <1>8, Zenon DEF Serve
  <2>4. Returned(o.off) \in Nat
    BY Zenon DEF Returned
  <2>5. pc' \in [Clients -> {"idle", "getslot", "asleep", "awake", "submit", "sent"}]
    <3>1. labels \in [Clients -> {"idle", "getslot", "asleep", "awake", "submit", "sent"}]
      BY <1>0, Zenon DEF TypeC
    <3> HIDE DEF labels
    <3> QED BY <1>w, <2>1, <3>1, Zenon
  <2>6. opened' \in [Clients -> {0, 1}]
    BY <1>0, <2>2, Zenon DEF TypeC
  <2>7. pos' \in [Clients -> Nat]
    BY <1>0, <2>3, <2>4 DEF TypeC
  <2> HIDE DEF o, labels
  <2> QED BY <1>0, <2>1, <2>5, <2>6, <2>7, Zenon DEF TypeC
<1>9. CASE v9open
  BY <1>0, <1>9, Zenon DEF TypeC, v9open, cvars
<1>10. CASE v9close
  BY <1>0, <1>10, Zenon DEF TypeC, v9close, Types
<1>11. CASE SleepReply \/ ReadRetry \/ GetReply \/ ReadTimeout
  <2>1. UNCHANGED <<inuse, wwait, timer, cvars, dirty>>
    BY <1>11, Zenon DEF SleepReply, ReadRetry, GetReply, ReadTimeout
  <2>2. rpc' \in {"idle", "asleep", "awake"}
    BY <1>11, <1>r, Zenon DEF SleepReply, ReadRetry, GetReply, ReadTimeout
  <2> QED BY <1>1, <2>1, <2>2, Zenon
<1>12. CASE Interrupt
  BY <1>1, <1>r, <1>12, Zenon DEF Interrupt, WakeReader
<1>13. ASSUME NEW h, Complete(h) PROVE TypeC'
  BY <1>1, <1>r, <1>13, Zenon DEF Complete
<1> QED BY <1>2, <1>3, <1>4, <1>5, <1>6, <1>7, <1>8, <1>9, <1>10, <1>11, <1>12, <1>13, Zenon
           DEF Next, Client, Reader

(* The invariant is inductive, as long as submit finds two descriptors.    *)
LEMMA VInvStep ==
    ASSUME VInv, Enough, [Next]_vars
    PROVE  VInv'
<1>1. CASE Next
  <2>1. TypeOK'
    BY <1>1, TypeQStep, TypeSStep, TypeFStep, TypeCStep, TypeParts, Zenon
  <2> QED BY <1>1, <2>1, PlaceStep, ChainStep, ClientStep, OpStep, Zenon DEF VInv
<1>2. CASE UNCHANGED vars
  <2>1. TypeOK'
    BY <1>2, Zenon DEF VInv, TypeOK, vars, qvars, cvars
  <2>2. PlaceInv'
    BY <1>2 DEF VInv, PlaceInv, Held, Flying, Done, vars, qvars, cvars
  <2>3. ChainInv'
    BY <1>2 DEF VInv, ChainInv, vars, qvars
  <2>4. ClientInv'
    BY <1>2, Zenon DEF VInv, ClientInv, vars, cvars
  <2>5. OpInv'
    <3>1. \A s \in Slots : Busy(s)' <=> Busy(s)
      BY <1>2, Zenon DEF Busy, Flying, Done, vars, qvars
    <3> QED BY <1>2, <3>1, OpKept, Zenon DEF VInv, vars, cvars
  <2> QED BY <2>1, <2>2, <2>3, <2>4, <2>5, Zenon DEF VInv
<1> QED BY <1>1, <1>2, Zenon

-----------------------------------------------------------------------------
(* OffInv, client by client and slot by slot.                              *)
ClientOff(c) ==
    pc[c] # "sent" =>
        /\ FidOK(c)
        /\ pc[c] # "idle" /\ type[c] = "read" => opened[c] = 1
        /\ pc[c] # "idle" /\ type[c] = "open" => pos[c] = 0
        /\ pc[c] # "idle" /\ type[c] = "clunk" => opened[c] = 0

(* What OffInv says of the request in a slot.                              *)
SlotOff(s) ==
    op[s].who # None => IF s = cur THEN Fixed(s, op[s].who) ELSE Unread(s, op[s].who)

(* The conversation is open and began with no request of an earlier one.   *)
Clean == inuse = 1 /\ dirty = 0

(* OffInv in these terms.                                                  *)
LEMMA OffParts ==
    /\ OffInv <=> (Clean => /\ \A s \in Slots : op[s].old = 0
                            /\ \A c \in Clients : ClientOff(c)
                            /\ \A s \in Slots : SlotOff(s))
    /\ OffInv' <=> (Clean' => /\ \A s \in Slots : op'[s].old = 0
                              /\ \A c \in Clients : ClientOff(c)'
                              /\ \A s \in Slots : SlotOff(s)')
BY Zenon DEF OffInv, Clean, ClientOff, SlotOff

(* A client's fid is unchanged.                                            *)
FidSame(c) == opened'[c] = opened[c] /\ fids'[c] = fids[c] /\ pos'[c] = pos[c]

(* What OffInv says of a client whose fid and request do not change.       *)
LEMMA ClientOffKept ==
    ASSUME NEW c \in Clients, ClientOff(c), FidSame(c), type'[c] = type[c],
           pc'[c] = pc[c] \/ (pc[c] \notin {"idle", "sent"} /\ pc'[c] # "idle")
    PROVE  ClientOff(c)'
BY Zenon DEF ClientOff, FidSame, FidOK, USize

(* What OffInv says of a request whose fid does not change.                *)
LEMMA SlotOffKept ==
    ASSUME NEW s \in Slots, SlotOff(s), op'[s] = op[s], s = cur <=> s = cur',
           op[s].who # None => FidSame(op[s].who)
    PROVE  SlotOff(s)'
BY Zenon DEF SlotOff, FidSame, Fixed, Unread, FidOK, USize, Returned

(* Steps that neither start nor end a request nor touch a fid.             *)
LEMMA OffKept ==
    ASSUME VInv, OffInv, UNCHANGED <<op, cur, fids, opened, inuse, dirty, pos, type>>,
           \A c \in Clients : pc'[c] = pc[c] \/ (pc[c] \notin {"idle", "sent"} /\ pc'[c] # "idle")
    PROVE  OffInv'
<1>1. \A c : FidSame(c)
  BY Zenon DEF FidSame
<1>2. Clean' <=> Clean
  BY Zenon DEF Clean
<1> QED BY <1>1, <1>2, ClientOffKept, SlotOffKept, OffParts, Zenon

(* Every action keeps the offsets: dirsoffget sends what rfixup kept, and  *)
(* rfixup adds what the reply returned.                                    *)
LEMMA OffStep ==
    ASSUME VInv, Enough, OffInv, Next
    PROVE  OffInv'
<1>0. TypeOK /\ PlaceInv /\ ChainInv /\ ClientInv /\ OpInv
  BY Zenon DEF VInv
<1>t. /\ DOMAIN pc = Clients /\ DOMAIN op = Slots /\ DOMAIN type = Clients /\ DOMAIN opened = Clients
      /\ wwait \in Clients \cup {None} /\ pos \in [Clients -> Nat]
      /\ fids \in [Clients -> Nat \cup {None}]
      /\ None \notin Slots /\ None \notin Clients /\ None \notin Nat /\ NoOp.who = None /\ NoOp.old = 0
  BY <1>0, Virtio9pAssumption, Zenon DEF TypeOK, NoOp
<1>w. \A s \in Slots : op[s].who # None => op[s].who \in Clients
  BY <1>0, <1>t, Zenon DEF OpInv
<1>1. ASSUME NEW c \in Clients, SleepSlot(c) \/ Retry(c) \/ \E s \in Slots : GetSlot(c, s)
      PROVE  OffInv'
  <2>1. UNCHANGED <<op, cur, fids, opened, inuse, dirty, pos, type>>
    BY <1>1, Zenon DEF SleepSlot, GetSlot, Retry
  <2>2. \A e \in Clients : pc'[e] = pc[e] \/ (pc[e] \notin {"idle", "sent"} /\ pc'[e] # "idle")
    BY <1>1, <1>t, Zenon DEF SleepSlot, GetSlot, Retry, Goto
  <2> QED BY <2>1, <2>2, OffKept, Zenon
<1>2. ASSUME NEW c \in Clients, Timeout(c) PROVE OffInv'
  <2>1. UNCHANGED <<op, cur, fids, opened, inuse, dirty, pos, type>>
    BY <1>2, Zenon DEF Timeout
  <2>2. \A e \in Clients : pc'[e] = IF e = wwait THEN "awake" ELSE pc[e]
    BY <1>t, <1>2, WokenFacts, Zenon DEF Timeout
  <2>3. \A e \in Clients : pc'[e] = pc[e] \/ (pc[e] \notin {"idle", "sent"} /\ pc'[e] # "idle")
    BY <1>0, <1>t, <2>2 DEF ClientInv
  <2> QED BY <2>1, <2>3, OffKept, Zenon
<1>3. CASE SleepReply \/ ReadRetry \/ ReadTimeout \/ Interrupt \/ \E h \in avail : Complete(h)
  <2>1. UNCHANGED <<op, cur, fids, opened, inuse, dirty, pos, type, pc>>
    BY <1>3, Zenon DEF SleepReply, ReadRetry, ReadTimeout, Interrupt, Complete, cvars
  <2> QED BY <2>1, OffKept, Zenon
<1>4. ASSUME NEW c \in Clients, NEW t \in Types \cup {"rewind"}, Start(c, t) PROVE OffInv'
  <2>1. UNCHANGED <<op, cur, fids, inuse, dirty>>
    BY <1>4, Zenon DEF Start
  <2>2. /\ pc[c] = "idle" /\ pc'[c] = "getslot"
        /\ \A e \in Clients : e # c => /\ pc'[e] = pc[e] /\ type'[e] = type[e]
                                       /\ pos'[e] = pos[e] /\ opened'[e] = opened[e]
    BY <1>4, <1>t, Zenon DEF Start, Goto
  <2>3. /\ type'[c] = "read" => opened'[c] = 1
        /\ type'[c] = "open" => pos'[c] = 0
        /\ type'[c] = "clunk" => opened'[c] = 0
        /\ pos'[c] = pos[c] \/ pos'[c] = 0
        /\ opened'[c] = opened[c] \/ opened'[c] = 0
    BY <1>4, <1>t, Zenon DEF Start
  <2> SUFFICES ASSUME Clean' PROVE OffInv'
    BY OffParts, Zenon
  <2>4. /\ \A s \in Slots : op[s].old = 0
        /\ \A e \in Clients : ClientOff(e)
        /\ \A s \in Slots : SlotOff(s)
    BY <2>1, OffParts, Zenon DEF Clean
  <2>5. ClientOff(c)'
    <3>1. FidOK(c)
      BY <2>2, <2>4, Zenon DEF ClientOff
    <3>2. FidOK(c)'
      <4>1. opened'[c] = 1 => opened[c] = 1
        BY <2>3
      <4> QED BY <2>1, <2>3, <3>1, <4>1, Zenon DEF FidOK, USize
    <3> QED BY <2>2, <2>3, <3>2, Zenon DEF ClientOff
  <2>6. \A e \in Clients : e # c => ClientOff(e)'
    BY <2>1, <2>2, <2>4, ClientOffKept, Zenon DEF FidSame
  <2>7. \A s \in Slots : op[s].who # c
    BY <1>0, <1>t, <2>2, <2>4 DEF OpInv
  <2>8. \A s \in Slots : SlotOff(s)'
    BY <1>w, <2>1, <2>2, <2>4, <2>7, SlotOffKept, Zenon DEF FidSame
  <2> QED BY <2>1, <2>4, <2>5, <2>6, <2>8, OffParts, Zenon
<1>5. ASSUME NEW c \in Clients, Submit(c) PROVE OffInv'
  <2>1. UNCHANGED <<cur, opened, inuse, dirty, pos>> /\ type' = [type EXCEPT ![c] = "other"]
    BY <1>5, Zenon DEF Submit
  <2>2. /\ pc[c] = "submit" /\ pc' = [pc EXCEPT ![c] = "sent"] /\ slot[c] \in Slots
        /\ ~Busy(slot[c]) /\ op'[slot[c]].who = c /\ op'[slot[c]].old = 0
        /\ \A s \in Slots : s # slot[c] => op'[s] = op[s]
    BY <1>5, SubmitOps, Zenon
  <2> DEFINE soff == IF pos[c] = 0 THEN 0 ELSE fids[c]
  <2>3. /\ op'[slot[c]].type = type[c]
        /\ \A e \in Clients : e # c => fids'[e] = fids[e]
        /\ type[c] = "read" /\ fids[c] # None => fids'[c] = soff /\ op'[slot[c]].off = soff
        /\ ~(type[c] = "read" /\ fids[c] # None) => fids'[c] = fids[c]
    <3>1. PICK x \in Nat :
             /\ op' = [op EXCEPT ![slot[c]] =
                           [who |-> c, type |-> type[c], old |-> 0, off |-> x]]
             /\ fids' = IF type[c] = "read" /\ fids[c] # None THEN [fids EXCEPT ![c] = soff]
                        ELSE fids
             /\ type[c] = "read" /\ fids[c] # None => x = soff
      BY <1>0, <1>5, SubmitOffset, Zenon
    <3> HIDE DEF soff
    <3> QED BY <1>t, <2>2, <3>1, Zenon
  <2> SUFFICES ASSUME Clean' PROVE OffInv'
    BY OffParts, Zenon
  <2>4. /\ \A s \in Slots : op[s].old = 0
        /\ \A e \in Clients : ClientOff(e)
        /\ \A s \in Slots : SlotOff(s)
    BY <2>1, OffParts, Zenon DEF Clean
  <2>5. \A s \in Slots : op'[s].old = 0
    BY <2>2, <2>4, Zenon
  <2>6. \A e \in Clients : ClientOff(e)'
    <3>1. ClientOff(c)'
      BY <1>t, <2>2, Zenon DEF ClientOff
    <3>2. ASSUME NEW e \in Clients, e # c PROVE ClientOff(e)'
      BY <1>t, <2>1, <2>2, <2>3, <2>4, <3>2, ClientOffKept, Zenon DEF FidSame
    <3> QED BY <3>1, <3>2, Zenon
  <2>7. \A s \in Slots : op[s].who # c
    BY <1>0, <1>t, <2>2, <2>4, Zenon DEF OpInv
  <2>x. PICK x \in Slots : x = slot[c]
    BY <2>2, Zenon
  <2>8. SlotOff(x)'
    <3>1. /\ FidOK(c)
          /\ type[c] = "read" => opened[c] = 1
          /\ type[c] = "open" => pos[c] = 0
          /\ type[c] = "clunk" => opened[c] = 0
      BY <2>2, <2>4, Zenon DEF ClientOff
    <3>2. x # cur'
      BY <2>1, <2>2, <2>x, Zenon DEF Busy
    <3>3. Unread(x, c)'
      <4>1. CASE type[c] = "read"
        <5>1. opened[c] = 1 /\ fids[c] \in Nat /\ soff = USize * pos[c]
          BY <1>t, <3>1, <4>1 DEF FidOK, USize
        <5> QED BY <1>t, <2>1, <2>x, <2>3, <4>1, <5>1, Zenon DEF Unread
      <4>2. CASE type[c] # "read"
        <5>1. FidOK(c)'
          BY <2>1, <2>3, <3>1, <4>2, Zenon DEF FidOK, USize
        <5> QED BY <2>1, <2>x, <2>3, <3>1, <4>2, <5>1, Zenon DEF Unread
      <4> QED BY <4>1, <4>2, Zenon
    <3> QED BY <2>2, <2>x, <3>2, <3>3, Zenon DEF SlotOff
  <2>9. ASSUME NEW s \in Slots, s # x PROVE SlotOff(s)'
    <3>1. op[s].who # None => FidSame(op[s].who)
      BY <1>w, <2>1, <2>3, <2>7, Zenon DEF FidSame
    <3>2. op'[s] = op[s] /\ cur' = cur
      BY <2>1, <2>2, <2>x, <2>9, Zenon
    <3> QED BY <2>4, <3>1, <3>2, SlotOffKept, Zenon
  <2> QED BY <2>5, <2>6, <2>8, <2>9, OffParts, Zenon
<1>6. CASE GetReply
  <2>1. UNCHANGED <<opened, inuse, dirty, pos, type, pc>>
    BY <1>6, Zenon DEF GetReply, cvars
  <2>2. cur = None /\ cur' \in Slots /\ Done(cur')
    BY <1>0, <1>6, GetReplyFacts, Zenon
  <2>3. PICK x \in Slots : x = cur'
    BY <2>2, Zenon
  <2>4. op[x].who \in Clients
    BY <1>0, <2>2, <2>3, Zenon DEF OpInv, Busy
  <2>5. PICK c \in Clients : c = op[x].who
    BY <2>4, Zenon
  <2>o. PICK o : /\ rfixup(o) /\ op' = [op EXCEPT ![x] = o] /\ o.type \in ReplyTypes
                 /\ o.who = c /\ o.old = op[x].old
                 /\ o = op[x] \/ (o.type = "error" /\ op[x].type # "other")
    BY <1>0, <1>6, <2>3, <2>5, ReplyFacts, Zenon
  <2> HIDE DEF rfixup
  <2>6. /\ \A e \in Clients : e # c => fids'[e] = fids[e]
        /\ o.type = "open" => fids'[c] = 0
        /\ o.type \in {"other", "error"} => fids'[c] = fids[c]
        /\ o.type = "read" /\ fids[c] # None => fids'[c] = fids[c] + USize * Returned(o.off)
    BY <1>0, <2>o, FixupFacts, Zenon
  <2>s. op'[x] = o /\ \A s \in Slots : s # x => op'[s] = op[s]
    BY <1>t, <2>o, Zenon
  <2> SUFFICES ASSUME Clean' PROVE OffInv'
    BY OffParts, Zenon
  <2>7. /\ \A s \in Slots : op[s].old = 0
        /\ \A e \in Clients : ClientOff(e)
        /\ \A s \in Slots : SlotOff(s)
    BY <2>1, OffParts, Zenon DEF Clean
  <2>8. /\ pc[c] = "sent" /\ \A s \in Slots : s # x => op[s].who # c
    BY <1>0, <1>t, <2>5, <2>7, Zenon DEF OpInv
  <2>9. \A e \in Clients : ClientOff(e)'
    <3>1. ClientOff(c)'
      BY <2>1, <2>8, Zenon DEF ClientOff
    <3>2. ASSUME NEW e \in Clients, e # c PROVE ClientOff(e)'
      BY <2>1, <2>6, <2>7, <3>2, ClientOffKept, Zenon DEF FidSame
    <3> QED BY <3>1, <3>2, Zenon
  <2>10. ASSUME NEW s \in Slots, s # x PROVE SlotOff(s)'
    <3>1. op[s].who # None => FidSame(op[s].who)
      BY <1>w, <2>1, <2>6, <2>8, <2>10, Zenon DEF FidSame
    <3>2. s # cur /\ s # cur' /\ op'[s] = op[s]
      BY <1>t, <2>2, <2>3, <2>s, <2>10, Zenon
    <3> QED BY <2>7, <3>1, <3>2, SlotOffKept, Zenon
  <2>11. SlotOff(x)'
    <3>1. Unread(x, c)
      BY <1>t, <2>2, <2>5, <2>7, Zenon DEF SlotOff
    <3>2. Fixed(x, c)'
      <4>1. CASE o.type = "read"
        <5>0. o = op[x]
          BY <2>o, <4>1
        <5>1. fids[c] = USize * pos[c] /\ pos[c] \in Nat /\ fids[c] # None
          BY <1>t, <3>1, <4>1, <5>0 DEF Unread, USize
        <5>2. Returned(o.off) \in Nat
          BY Zenon DEF Returned
        <5>3. fids'[c] = USize * (pos[c] + Returned(o.off))
          BY <2>6, <4>1, <5>1, <5>2 DEF USize
        <5> QED BY <2>1, <2>s, <4>1, <5>3, Zenon DEF Fixed, Returned
      <4>2. CASE o.type = "open"
        <5>1. o = op[x]
          BY <2>o, <4>2
        <5> QED BY <2>1, <2>6, <2>s, <3>1, <4>2, <5>1 DEF Fixed, Unread
      <4>3. CASE o.type = "clunk"
        <5>1. o = op[x]
          BY <2>o, <4>3
        <5> QED BY <2>1, <2>s, <3>1, <4>3, <5>1 DEF Fixed, Unread, FidOK
      <4>4. CASE o.type \in {"other", "error"}
        <5>1. FidOK(c)
          <6>1. CASE op[x].type = "read"
            BY <1>t, <3>1, <6>1 DEF Unread, FidOK, USize
          <6> QED BY <3>1, <6>1, Zenon DEF Unread
        <5>2. FidOK(c)'
          BY <2>1, <2>6, <4>4, <5>1, Zenon DEF FidOK, USize
        <5> QED BY <2>s, <4>4, <5>2 DEF Fixed
      <4> QED BY <2>o, <4>1, <4>2, <4>3, <4>4, Zenon DEF ReplyTypes, Types
    <3> QED BY <2>3, <2>s, <2>o, <3>2, Zenon DEF SlotOff
  <2>12. \A s \in Slots : op'[s].old = 0
    BY <2>7, <2>o, <2>s, Zenon
  <2> QED BY <2>9, <2>10, <2>11, <2>12, OffParts, Zenon
<1>7. CASE Serve
  <2>1. PICK x \in Slots : x = cur
    BY <1>0, <1>7, ServeFacts, Zenon
  <2>2. /\ op[x].who \in Clients /\ op' = [op EXCEPT ![x] = NoOp]
        /\ \A c \in Clients : pc'[c] = IF c = wwait THEN "awake"
                                       ELSE IF c = op[x].who /\ op[x].old = 0 THEN "idle"
                                       ELSE pc[c]
        /\ wwait # None => pc[wwait] = "asleep"
    BY <1>0, <1>7, <2>1, ServeFacts, Zenon
  <2>3. PICK c \in Clients : c = op[x].who
    BY <2>2, Zenon
  <2>4. UNCHANGED <<fids, inuse, dirty, type>> /\ cur' = None
    BY <1>7, Zenon DEF Serve
  <2> SUFFICES ASSUME Clean' PROVE OffInv'
    BY OffParts, Zenon
  <2>5. /\ \A s \in Slots : op[s].old = 0
        /\ \A e \in Clients : ClientOff(e)
        /\ \A s \in Slots : SlotOff(s)
    BY <2>4, OffParts, Zenon DEF Clean
  <2>6. /\ pc[c] = "sent" /\ \A s \in Slots : s # x => op[s].who # c
    BY <1>0, <1>t, <2>3, <2>5, Zenon DEF OpInv
  <2>7. /\ \A e \in Clients : e # c => opened'[e] = opened[e] /\ pos'[e] = pos[e]
        /\ opened'[c] = IF op[x].type = "open" THEN 1 ELSE opened[c]
        /\ pos'[c] = IF op[x].type = "read" THEN pos[c] + Returned(op[x].off) ELSE pos[c]
    BY <1>7, <1>t, <2>1, <2>3, <2>5, Zenon DEF Serve
  <2>8. \A s \in Slots : op'[s] = IF s = x THEN NoOp ELSE op[s]
    BY <1>t, <2>2, Zenon
  <2>9. Fixed(x, c)
    BY <1>t, <2>1, <2>3, <2>5, Zenon DEF SlotOff
  <2>10. ClientOff(c)'
    <3>1. pc'[c] = "idle"
      BY <1>t, <2>2, <2>3, <2>5, <2>6, Zenon
    <3>2. FidOK(c)'
      <4>0. pos[c] \in Nat /\ Returned(op[x].off) \in Nat
        BY <1>t, Zenon DEF Returned
      <4>1. CASE op[x].type = "read"
        <5>1. fids'[c] = USize * pos'[c] /\ pos'[c] \in Nat
          BY <2>4, <2>7, <2>9, <4>0, <4>1 DEF Fixed
        <5> QED BY <5>1 DEF FidOK, USize
      <4>2. CASE op[x].type = "open"
        BY <2>4, <2>7, <2>9, <4>2 DEF Fixed, FidOK
      <4>3. CASE op[x].type \notin {"read", "open"}
        <5>1. FidOK(c)
          BY <2>9, <4>3, Zenon DEF Fixed
        <5>2. opened'[c] = opened[c] /\ pos'[c] = pos[c]
          BY <2>7, <4>3, Zenon
        <5> QED BY <2>4, <5>1, <5>2, Zenon DEF FidOK, USize
      <4> QED BY <4>1, <4>2, <4>3, Zenon
    <3> QED BY <3>1, <3>2, Zenon DEF ClientOff
  <2>11. ASSUME NEW e \in Clients, e # c PROVE ClientOff(e)'
    <3>1. pc'[e] = pc[e] \/ (pc[e] \notin {"idle", "sent"} /\ pc'[e] # "idle")
      BY <1>t, <2>2, <2>3, <2>11, Zenon
    <3> QED BY <2>4, <2>5, <2>7, <2>11, <3>1, ClientOffKept, Zenon DEF FidSame
  <2>12. ASSUME NEW s \in Slots PROVE SlotOff(s)'
    <3>1. CASE s = x
      BY <1>t, <2>8, <3>1, Zenon DEF SlotOff
    <3>2. CASE s # x
      <4>1. op[s].who # None => FidSame(op[s].who)
        BY <1>w, <2>4, <2>6, <2>7, <3>2, Zenon DEF FidSame
      <4>2. s # cur /\ s # cur' /\ op'[s] = op[s]
        BY <1>t, <2>1, <2>4, <2>8, <3>2, Zenon
      <4> QED BY <2>5, <4>1, <4>2, SlotOffKept, Zenon
    <3> QED BY <3>1, <3>2, Zenon
  <2>13. \A s \in Slots : op'[s].old = 0
    BY <1>t, <2>5, <2>8, Zenon
  <2> QED BY <2>10, <2>11, <2>12, <2>13, OffParts, Zenon
<1>8. CASE v9open
  <2> SUFFICES ASSUME Clean' PROVE OffInv'
    BY OffParts, Zenon
  <2>1. /\ inuse = 0 /\ InFlight = {} /\ UNCHANGED <<pc, opened>>
        /\ op' = [s \in Slots |-> IF s \in InFlight THEN op[s] ELSE NoOp]
    BY <1>8 DEF v9open, cvars, Clean
  <2>2. \A s \in Slots : op'[s] = NoOp
    BY <2>1, Zenon
  <2>3. \A c \in Clients : pc'[c] = "idle" /\ opened'[c] = 0
    BY <1>0, <2>1, Zenon DEF ClientInv
  <2>4. \A c \in Clients : ClientOff(c)'
    BY <2>3 DEF ClientOff, FidOK
  <2>5. \A s \in Slots : SlotOff(s)' /\ op'[s].old = 0
    BY <1>t, <2>2, Zenon DEF SlotOff
  <2> QED BY <2>4, <2>5, OffParts, Zenon
<1>9. CASE v9close
  <2>1. ~Clean'
    BY <1>9 DEF v9close, Clean
  <2> QED BY <2>1, OffParts, Zenon
<1> QED BY <1>1, <1>2, <1>3, <1>4, <1>5, <1>6, <1>7, <1>8, <1>9, Zenon DEF Next, Client, Reader

(* So a request goes out with the offset that follows.                     *)
LEMMA OffNext ==
    ASSUME VInv, Enough, OffInv, [Next]_vars
    PROVE  OffInv'
<1>1. CASE UNCHANGED vars
  BY <1>1, OffKept, Zenon DEF vars, cvars
<1> QED BY <1>1, OffStep, Zenon

(* OffsetFollows is OffInv at the moment of the request.                   *)
LEMMA OffFollows ==
    ASSUME VInv, OffInv
    PROVE  OffsetFollows
<1> SUFFICES ASSUME Clean, NEW s \in Slots, op[s].type = "read", s # cur
             PROVE  op[s].off = USize * pos[op[s].who]
  BY Zenon DEF OffsetFollows, Clean
<1>1. SlotOff(s)
  BY OffParts, Zenon
<1>2. op[s].who # None
  BY Virtio9pAssumption DEF VInv, OpInv, NoOp
<1> QED BY <1>1, <1>2, Zenon DEF SlotOff, Unread
-----------------------------------------------------------------------------
(* The order of the replies: what a step may do to Completed.              *)
InOrder ==
    \/ Completed' = Completed
    \/ Completed # <<>> /\ cur' = Head(Completed) /\ Completed' = Tail(Completed)
    \/ Len(Completed') = Len(Completed) + 1 /\ SubSeq(Completed', 1, Len(Completed)) = Completed
    \/ inuse' # inuse

(* Completed, element by element.                                          *)
LEMMA CompletedIs ==
    ASSUME TypeOK, ChainInv
    PROVE  /\ Completed \in Seq(Slots) /\ Len(Completed) = Len(donehd) + Len(used)
           /\ \A i \in 1 .. Len(Completed) :
                  /\ i <= Len(donehd) => Completed[i] = donehd[i]
                  /\ ~(i <= Len(donehd)) => Completed[i] = rock[used[i - Len(donehd)]]
<1>1. donehd \in Seq(Slots) /\ used \in Seq(Descs)
  BY Zenon DEF TypeOK
<1>2. Completed = donehd \o [i \in 1 .. Len(used) |-> rock[used[i]]]
  BY Zenon DEF Completed
<1>3. \A i \in 1 .. Len(used) : rock[used[i]] \in Slots
  BY UsedSlots, Zenon
<1> QED BY <1>1, <1>2, <1>3, Concat

(* The same after a step.                                                  *)
LEMMA CompletedIsNext ==
    ASSUME TypeOK', ChainInv'
    PROVE  /\ Completed' \in Seq(Slots) /\ Len(Completed') = Len(donehd') + Len(used')
           /\ \A i \in 1 .. Len(Completed') :
                  /\ i <= Len(donehd') => Completed'[i] = donehd'[i]
                  /\ ~(i <= Len(donehd')) => Completed'[i] = rock'[used'[i - Len(donehd')]]
<1>1. donehd' \in Seq(Slots) /\ used' \in Seq(Descs) /\ rock' \in [Descs -> Slots \cup {None}]
  BY Zenon DEF TypeOK
<1>2. \A i \in 1 .. Len(used') : rock'[used'[i]] \in Slots
  BY <1>1 DEF ChainInv
<1>3. Completed' = donehd' \o [i \in 1 .. Len(used') |-> rock'[used'[i]]]
  BY Zenon DEF Completed
<1> QED BY <1>1, <1>2, <1>3, Concat

(* Two sequences of slots with the same elements are the same.             *)
LEMMA SameSeq ==
    ASSUME NEW s \in Seq(Slots), NEW t \in Seq(Slots), Len(s) = Len(t),
           \A i \in 1 .. Len(s) : s[i] = t[i]
    PROVE  s = t
OBVIOUS

(* Neither queue changes, or the used ring moves to the done queue.        *)
LEMMA OrderKept ==
    ASSUME TypeOK, ChainInv, UNCHANGED <<donehd, used>>,
           \A d \in Descs : rock[d] # None => rock'[d] = rock[d]
    PROVE  Completed' = Completed
<1>1. used \in Seq(Descs) /\ \A i \in 1 .. Len(used) : rock[used[i]] # None
  BY DEF TypeOK, ChainInv
<1>2. \A i \in 1 .. Len(used) : used[i] \in Descs
  BY <1>1
<1>3. \A i \in 1 .. Len(used) : rock'[used[i]] = rock[used[i]]
  BY <1>1, <1>2, Zenon
<1>4. [i \in 1 .. Len(used) |-> rock'[used[i]]] = [i \in 1 .. Len(used) |-> rock[used[i]]]
  BY <1>3, Zenon
<1> QED BY <1>4, Zenon DEF Completed

(* vqharvest changes where the completed slots are and not their order.    *)
LEMMA OrderHarvest ==
    ASSUME TypeOK, ChainInv, TypeOK', ChainInv', vqharvest
    PROVE  Completed' = Completed
<1>1. donehd' = Completed
  BY Zenon DEF vqharvest, Completed
<1>2. used' = <<>> /\ donehd' \in Seq(Slots) /\ Len(donehd') \in Nat
  BY DEF vqharvest, TypeOK
<1>3. /\ Completed' \in Seq(Slots) /\ Len(Completed') = Len(donehd')
      /\ \A i \in 1 .. Len(Completed') : Completed'[i] = donehd'[i]
  BY <1>2, CompletedIsNext
<1> QED BY <1>1, <1>2, <1>3, SameSeq, Zenon

(* A completion puts one slot behind the others.                           *)
LEMMA OrderComplete ==
    ASSUME TypeOK, ChainInv, TypeOK', ChainInv', NEW h \in avail, Complete(h)
    PROVE  InOrder
<1>1. /\ used \in Seq(Descs) /\ donehd \in Seq(Slots) /\ Len(used) \in Nat /\ Len(donehd) \in Nat
      /\ used' = Append(used, h) /\ donehd' = donehd /\ rock' = rock
  BY DEF Complete, TypeOK
<1>2. Len(used') = Len(used) + 1 /\ \A i \in 1 .. Len(used) : used'[i] = used[i]
  BY <1>1
<1>3. Len(Completed') = Len(Completed) + 1 /\ Len(Completed) \in Nat
  <2>1. Len(Completed) = Len(donehd) + Len(used) /\ Len(Completed') = Len(donehd) + Len(used')
    BY <1>1, CompletedIs, CompletedIsNext, Zenon
  <2> QED BY <1>1, <1>2, <2>1
<1>4. \A i \in 1 .. Len(Completed) : Completed'[i] = Completed[i]
  <2> TAKE i \in 1 .. Len(Completed)
  <2>1. i \in 1 .. Len(Completed') /\ Len(Completed) = Len(donehd) + Len(used)
    BY <1>3, CompletedIs
  <2>2. /\ i <= Len(donehd) => Completed[i] = donehd[i] /\ Completed'[i] = donehd[i]
        /\ ~(i <= Len(donehd)) => /\ Completed[i] = rock[used[i - Len(donehd)]]
                                  /\ Completed'[i] = rock[used'[i - Len(donehd)]]
    BY <1>1, <2>1, CompletedIs, CompletedIsNext, Zenon
  <2>3. ~(i <= Len(donehd)) => i - Len(donehd) \in 1 .. Len(used)
    BY <1>1, <2>1
  <2>4. CASE i <= Len(donehd)
    BY <2>2, <2>4, Zenon
  <2>5. CASE ~(i <= Len(donehd))
    <3>1. used'[i - Len(donehd)] = used[i - Len(donehd)]
      BY <1>2, <2>3, <2>5, Zenon
    <3> QED BY <2>2, <2>5, <3>1, Zenon
  <2> QED BY <2>4, <2>5, Zenon
<1>5. SubSeq(Completed', 1, Len(Completed)) = Completed
  <2>1. Completed \in Seq(Slots) /\ Completed' \in Seq(Slots)
    BY CompletedIs, CompletedIsNext, Zenon
  <2>2. PICK s \in Seq(Slots), t \in Seq(Slots) : s = Completed /\ t = Completed'
    BY <2>1, Zenon
  <2>3. Len(s) \in Nat /\ Len(t) = Len(s) + 1 /\ \A i \in 1 .. Len(s) : t[i] = s[i]
    BY <1>3, <1>4, <2>2, Zenon
  <2>4. /\ SubSeq(t, 1, Len(s)) \in Seq(Slots) /\ Len(SubSeq(t, 1, Len(s))) = Len(s)
        /\ \A i \in 1 .. Len(s) : SubSeq(t, 1, Len(s))[i] = s[i]
    BY <2>3
  <2>5. SubSeq(t, 1, Len(s)) = s
    BY <2>4, SameSeq, Zenon
  <2> QED BY <2>2, <2>5, Zenon
<1> QED BY <1>3, <1>5, Zenon DEF InOrder

(* getreply takes the first one, from the done queue or by a harvest.      *)
LEMMA OrderGetReply ==
    ASSUME VInv, VInv', GetReply
    PROVE  InOrder
<1>0. TypeOK /\ PlaceInv /\ ChainInv /\ TypeOK' /\ ChainInv'
  BY Zenon DEF VInv
<1>1. UNCHANGED <<used, rock>>
  BY Zenon DEF GetReply, qvars
<1>2. /\ cur' = donehd[1] /\ Len(donehd') = Len(donehd) - 1 /\ Len(donehd) \in Nat \ {0}
      /\ \A i \in 1 .. Len(donehd') : donehd'[i] = donehd[i + 1]
  BY <1>0, GetReplyFacts, Zenon
<1>3. PICK s \in Seq(Slots), t \in Seq(Slots) : s = Completed /\ t = Completed'
  BY <1>0, CompletedIs, CompletedIsNext, Zenon
<1>4. PICK u : u = Len(used)
  BY Zenon
<1>5. u \in Nat /\ Len(s) = Len(donehd) + u /\ Len(t) = Len(donehd) - 1 + u
  <2>1. used \in Seq(Descs)
    BY <1>0, Zenon DEF TypeOK
  <2>2. Len(used) \in Nat
    BY <2>1
  <2> QED BY <1>0, <1>1, <1>2, <1>3, <1>4, <2>2, CompletedIs, CompletedIsNext, Zenon
<1>6. /\ \A i \in 1 .. Len(s) :
             /\ i <= Len(donehd) => s[i] = donehd[i]
             /\ ~(i <= Len(donehd)) => s[i] = rock[used[i - Len(donehd)]]
      /\ \A i \in 1 .. Len(t) :
             /\ i <= Len(donehd) - 1 => t[i] = donehd'[i]
             /\ ~(i <= Len(donehd) - 1) => t[i] = rock[used[i - (Len(donehd) - 1)]]
  BY <1>0, <1>1, <1>2, <1>3, CompletedIs, CompletedIsNext, Zenon
<1>7. s # <<>> /\ s[1] = cur' /\ Head(s) = cur'
  BY <1>2, <1>5, <1>6
<1>8. \A i \in 1 .. Len(t) : t[i] = s[i + 1]
  <2> TAKE i \in 1 .. Len(t)
  <2>1. i + 1 \in 1 .. Len(s) /\ (i <= Len(donehd) - 1 <=> i + 1 <= Len(donehd))
        /\ i + 1 - Len(donehd) = i - (Len(donehd) - 1)
        /\ (i <= Len(donehd) - 1 => i \in 1 .. Len(donehd'))
    BY <1>2, <1>5
  <2>2. CASE i <= Len(donehd) - 1
    <3>1. t[i] = donehd'[i] /\ donehd'[i] = donehd[i + 1] /\ s[i + 1] = donehd[i + 1]
      BY <1>2, <1>6, <2>1, <2>2, Zenon
    <3> QED BY <3>1, Zenon
  <2>3. CASE ~(i <= Len(donehd) - 1)
    <3>1. t[i] = rock[used[i - (Len(donehd) - 1)]]
      BY <1>6, <2>3, Zenon
    <3>2. i + 1 \in 1 .. Len(s) /\ ~(i + 1 <= Len(donehd))
      BY <2>1, <2>3, Zenon
    <3>3. s[i + 1] = rock[used[i + 1 - Len(donehd)]]
      BY <1>6, <3>2
    <3>4. i + 1 - Len(donehd) = i - (Len(donehd) - 1)
      BY <2>1, Zenon
    <3> QED BY <3>1, <3>3, <3>4, Zenon
  <2> QED BY <2>2, <2>3, Zenon
<1>9. t = Tail(s)
  <2>1. /\ Tail(s) \in Seq(Slots) /\ Len(Tail(s)) = Len(t)
        /\ \A i \in 1 .. Len(t) : Tail(s)[i] = t[i]
    BY <1>2, <1>5, <1>7, <1>8
  <2> QED BY <2>1, SameSeq, Zenon
<1> QED BY <1>3, <1>7, <1>9, Zenon DEF InOrder

(* Every action keeps the order.                                           *)
LEMMA OrderStep ==
    ASSUME VInv, Enough, VInv', Next
    PROVE  InOrder
<1>0. TypeOK /\ PlaceInv /\ ChainInv /\ ClientInv /\ TypeOK' /\ ChainInv'
  BY Zenon DEF VInv
<1>1. ASSUME UNCHANGED <<donehd, used, rock>> PROVE InOrder
  BY <1>0, <1>1, OrderKept, Zenon DEF InOrder
<1>2. ASSUME vqharvest PROVE InOrder
  BY <1>0, <1>2, OrderHarvest, Zenon DEF InOrder
<1>3. ASSUME NEW c \in Clients, Client(c) PROVE InOrder
  <2>1. CASE Submit(c)
    <3>1. UNCHANGED <<donehd, used>>
      BY <2>1, Zenon DEF Submit
    <3>2. PICK head \in free : rock' = [rock EXCEPT ![head] = slot[c]] /\ rock[head] = None
      BY <1>0, <2>1, SubmitFacts, Zenon
    <3>3. \A d \in Descs : rock[d] # None => rock'[d] = rock[d]
      BY <1>0, <3>2, Zenon DEF TypeOK
    <3> QED BY <1>0, <3>1, <3>3, OrderKept, Zenon DEF InOrder
  <2>2. CASE Retry(c)
    BY <1>2, <2>2, Zenon DEF Retry
  <2>3. CASE SleepSlot(c) \/ \E s \in Slots : GetSlot(c, s)
    BY <1>1, <2>3, Zenon DEF SleepSlot, GetSlot, qvars
  <2> QED BY <1>3, <2>1, <2>2, <2>3, Zenon DEF Client
<1>4. ASSUME NEW c \in Clients, NEW t, Timeout(c) \/ Start(c, t) PROVE InOrder
  BY <1>1, <1>4, Zenon DEF Timeout, Start, qvars
<1>5. CASE SleepReply \/ ReadRetry \/ Serve \/ ReadTimeout
  BY <1>1, <1>2, <1>5, Zenon DEF ReadTimeout, SleepReply, ReadRetry, Serve, qvars
<1>6. CASE GetReply
  BY <1>6, OrderGetReply, Zenon
<1>7. CASE Interrupt
  BY <1>2, <1>7, Zenon DEF Interrupt
<1>8. ASSUME NEW h \in avail, Complete(h) PROVE InOrder
  BY <1>0, <1>8, OrderComplete, Zenon
<1>9. CASE v9open \/ v9close
  BY <1>9 DEF v9open, v9close, InOrder
<1> QED BY <1>3, <1>4, <1>5, <1>6, <1>7, <1>8, <1>9, Zenon DEF Next, Reader
-----------------------------------------------------------------------------
INSTANCE FunctionTheorems
INSTANCE FiniteSetTheorems

(* An injection into a finite set bounds its domain, a surjection from one *)
(* its range.                                                              *)
LEMMA InjectionBound ==
    ASSUME NEW S, NEW T, IsFiniteSet(T), NEW f \in [S -> T],
           \A x, y \in S : f[x] = f[y] => x = y
    PROVE  IsFiniteSet(S) /\ Cardinality(S) <= Cardinality(T)
<1>1. f \in Injection(S, T)
  BY Fun_IsInj, Zenon
<1> QED BY <1>1, FS_Injection, Zenon

(* The bound by a surjection.                                              *)
LEMMA SurjectionBound ==
    ASSUME NEW S, NEW T, IsFiniteSet(S), NEW f \in [S -> T],
           \A y \in T : \E x \in S : f[x] = y
    PROVE  IsFiniteSet(T) /\ Cardinality(T) <= Cardinality(S)
<1>1. f \in Surjection(S, T)
  BY Fun_IsSurj, Zenon
<1> QED BY <1>1, FS_Surjection, Zenon

(* The cardinality of a union and of a complement.                         *)
LEMMA UnionBound ==
    ASSUME NEW S, IsFiniteSet(S), NEW T, IsFiniteSet(T)
    PROVE  /\ IsFiniteSet(S \cup T) /\ Cardinality(S \cup T) <= Cardinality(S) + Cardinality(T)
           /\ S \cap T = {} => Cardinality(S \cup T) = Cardinality(S) + Cardinality(T)
<1>1. IsFiniteSet(S \cup T)
  BY FS_Union, Zenon
<1>2. Cardinality(S \cup T) = Cardinality(S) + Cardinality(T) - Cardinality(S \cap T)
  BY FS_Union, Zenon
<1>3. IsFiniteSet(S \cap T)
  BY FS_Intersection, Zenon
<1>4. S \cap T = {} => Cardinality(S \cap T) = 0
  BY FS_EmptySet, Zenon
<1>5. Cardinality(S) \in Nat /\ Cardinality(T) \in Nat /\ Cardinality(S \cap T) \in Nat
  BY <1>3, FS_CardinalityType, Zenon
<1> QED BY <1>1, <1>2, <1>4, <1>5

(* The cardinality of a complement.                                        *)
LEMMA Complement ==
    ASSUME NEW S, IsFiniteSet(S), NEW T \in SUBSET S
    PROVE  IsFiniteSet(S \ T) /\ Cardinality(S \ T) = Cardinality(S) - Cardinality(T)
<1>1. S \cap T = T
  BY Zenon
<1> QED BY <1>1, FS_Difference, Zenon

(* The clients that have a slot.                                           *)
Writers == {c \in Clients : pc[c] = "submit"}

(* "nslot <= size/2": there are two free descriptors for each client that  *)
(* has a slot, since every chain in flight has a slot of its own.          *)
LEMMA TwoForEach ==
    ASSUME TypeOK, PlaceInv, ChainInv, ClientInv
    PROVE  /\ IsFiniteSet(free) /\ IsFiniteSet(Writers)
           /\ Cardinality(free) >= 2 * Cardinality(Writers)
<1> DEFINE Heads == {d \in Descs : rock[d] # None}
           Seconds == {next[h] : h \in Heads}
           HeldSet == {s \in Slots : Held(s)}
           FlyingSet == {s \in Slots : Flying(s)}
<1>0. /\ IsFiniteSet(Slots) /\ Cardinality(Slots) \in Nat
  BY Virtio9pAssumption, FS_CardinalityType, Zenon
<1>1. IsFiniteSet(Descs) /\ Cardinality(Descs) = Size /\ Size \in Nat
  <2>1. Size \in Nat
    BY <1>0 DEF Size
  <2>2. IsFiniteSet(1 .. Size) /\ Cardinality(1 .. Size) = IF 1 > Size THEN 0 ELSE Size - 1 + 1
    BY <2>1, FS_Interval
  <2> QED BY <2>1, <2>2 DEF Descs
<1>2. IsFiniteSet(HeldSet) /\ IsFiniteSet(FlyingSet)
  BY <1>0, FS_Subset
<1>3. Cardinality(HeldSet) + Cardinality(FlyingSet) <= Cardinality(Slots)
  <2>1. HeldSet \cap FlyingSet = {} /\ HeldSet \cup FlyingSet \in SUBSET Slots
    BY Zenon DEF PlaceInv
  <2>2. Cardinality(HeldSet \cup FlyingSet) = Cardinality(HeldSet) + Cardinality(FlyingSet)
    BY <1>2, <2>1, UnionBound, Zenon
  <2>3. Cardinality(HeldSet \cup FlyingSet) <= Cardinality(Slots)
    BY <1>0, <2>1, FS_Subset
  <2> QED BY <2>2, <2>3
<1>4. IsFiniteSet(Writers) /\ Cardinality(Writers) <= Cardinality(HeldSet)
  <2> DEFINE f == [c \in Writers |-> slot[c]]
  <2>1. f \in [Writers -> HeldSet]
    BY Zenon DEF Writers, ClientInv, TypeOK, Held
  <2>2. \A c, e \in Writers : f[c] = f[e] => c = e
    BY Zenon DEF Writers, ClientInv, PlaceInv
  <2> HIDE DEF f
  <2> QED BY <1>2, <2>1, <2>2, InjectionBound
<1>5. IsFiniteSet(Heads) /\ Cardinality(Heads) <= Cardinality(FlyingSet)
  <2> DEFINE f == [d \in Heads |-> rock[d]]
  <2>1. f \in [Heads -> FlyingSet]
    BY DEF TypeOK, Flying
  <2>2. \A d, e \in Heads : f[d] = f[e] => d = e
    BY Zenon DEF PlaceInv
  <2> HIDE DEF f
  <2> QED BY <1>2, <2>1, <2>2, InjectionBound
<1>6. IsFiniteSet(Seconds) /\ Cardinality(Seconds) <= Cardinality(Heads)
  <2> DEFINE f == [d \in Heads |-> next[d]]
  <2>1. f \in [Heads -> Seconds]
    BY Zenon
  <2>2. \A y \in Seconds : \E x \in Heads : f[x] = y
    BY Zenon
  <2> HIDE DEF f
  <2> QED BY <1>5, <2>1, <2>2, SurjectionBound
<1>7. free = Descs \ (Heads \cup Seconds) /\ Heads \cup Seconds \in SUBSET Descs
  BY DEF ChainInv, TypeOK
<1> HIDE DEF Heads, Seconds, HeldSet, FlyingSet
<1>8. /\ IsFiniteSet(Heads \cup Seconds)
      /\ Cardinality(Heads \cup Seconds) <= Cardinality(Heads) + Cardinality(Seconds)
  BY <1>5, <1>6, UnionBound, Zenon
<1>9. IsFiniteSet(free) /\ Cardinality(free) = Size - Cardinality(Heads \cup Seconds)
  BY <1>1, <1>7, Complement, Zenon
<1>10. /\ Cardinality(Heads) \in Nat /\ Cardinality(Seconds) \in Nat
       /\ Cardinality(HeldSet) \in Nat /\ Cardinality(FlyingSet) \in Nat
       /\ Cardinality(Writers) \in Nat /\ Cardinality(Heads \cup Seconds) \in Nat
  BY <1>2, <1>4, <1>5, <1>6, <1>8, FS_CardinalityType, Zenon
<1> QED BY <1>0, <1>3, <1>4, <1>5, <1>6, <1>8, <1>9, <1>10 DEF Size

(* So submit finds two descriptors.                                        *)
LEMMA TwoFree ==
    ASSUME TypeOK, PlaceInv, ChainInv, ClientInv
    PROVE  Enough
<1> SUFFICES ASSUME NEW c \in Clients, pc[c] = "submit" PROVE \E d, e \in free : d # e
  BY Zenon DEF Enough
<1>1. Cardinality(Writers) \in Nat /\ Cardinality(Writers) # 0
  <2>1. IsFiniteSet(Writers) /\ Writers # {}
    BY TwoForEach DEF Writers
  <2> QED BY <2>1, FS_EmptySet, FS_CardinalityType
<1>2. IsFiniteSet(free) /\ Cardinality(free) \in Nat /\ Cardinality(free) >= 2
  BY <1>1, TwoForEach, FS_CardinalityType
<1>3. PICK d \in free : TRUE
  BY <1>2, FS_EmptySet
<1>4. free \ {d} # {}
  <2>1. IsFiniteSet(free \ {d}) /\ Cardinality(free \ {d}) >= 1
    <3>1. IsFiniteSet(free \ {d}) /\ Cardinality(free \ {d}) = IF d \in free THEN Cardinality(free) - 1
                                                                ELSE Cardinality(free)
      BY <1>2, FS_RemoveElement, Zenon
    <3> QED BY <1>2, <3>1
  <2> QED BY <2>1, FS_EmptySet
<1> QED BY <1>4, Zenon

(* One place for each slot.                                                *)
LEMMA OnePlace ==
    ASSUME TypeOK, PlaceInv
    PROVE  SlotsConserved
<1> SUFFICES ASSUME NEW s \in Slots PROVE Places(s) = 1
  BY Zenon DEF SlotsConserved
<1>0. s # None
  BY Virtio9pAssumption, Zenon
<1>1. Cardinality({c \in Clients : slot[c] = s}) = IF Held(s) THEN 1 ELSE 0
  <2>1. CASE Held(s)
    <3>1. PICK c \in Clients : slot[c] = s
      BY <2>1, Zenon DEF Held
    <3>2. {e \in Clients : slot[e] = s} = {c}
      BY <1>0, <3>1 DEF PlaceInv
    <3> QED BY <2>1, <3>2, FS_Singleton, Zenon
  <2>2. CASE ~Held(s)
    <3>1. {e \in Clients : slot[e] = s} = {}
      BY <2>2, Zenon DEF Held
    <3> QED BY <2>2, <3>1, FS_EmptySet, Zenon
  <2> QED BY <2>1, <2>2
<1>2. Cardinality({d \in Descs : rock[d] = s}) = IF Flying(s) THEN 1 ELSE 0
  <2>1. CASE Flying(s)
    <3>1. PICK d \in Descs : rock[d] = s
      BY <2>1, Zenon DEF Flying
    <3>2. {e \in Descs : rock[e] = s} = {d}
      BY <1>0, <3>1 DEF PlaceInv
    <3> QED BY <2>1, <3>2, FS_Singleton, Zenon
  <2>2. CASE ~Flying(s)
    <3>1. {e \in Descs : rock[e] = s} = {}
      BY <2>2, Zenon DEF Flying
    <3> QED BY <2>2, <3>1, FS_EmptySet, Zenon
  <2> QED BY <2>1, <2>2
<1>3. Cardinality({i \in 1 .. Len(donehd) : donehd[i] = s}) = IF Done(s) THEN 1 ELSE 0
  <2>1. CASE Done(s)
    <3>1. PICK i \in 1 .. Len(donehd) : donehd[i] = s
      BY <2>1, Zenon DEF Done
    <3>2. {j \in 1 .. Len(donehd) : donehd[j] = s} = {i}
      BY <3>1 DEF PlaceInv
    <3> QED BY <2>1, <3>2, FS_Singleton, Zenon
  <2>2. CASE ~Done(s)
    <3>1. {j \in 1 .. Len(donehd) : donehd[j] = s} = {}
      BY <2>2, Zenon DEF Done
    <3> QED BY <2>2, <3>1, FS_EmptySet
  <2> QED BY <2>1, <2>2
<1> QED BY <1>1, <1>2, <1>3 DEF Places, PlaceInv

(* The invariant holds: TwoFree discharges what VInvStep assumes.          *)
LEMMA VInvHolds == Spec => []VInv
<1>1. Init => VInv
  <2> SUFFICES ASSUME Init PROVE VInv
    BY Zenon
  <2>0. None \notin Slots /\ None \notin Clients /\ Cardinality(Slots) \in Nat
    BY Virtio9pAssumption, FS_CardinalityType
  <2>a. /\ donehd \in Seq(Slots) /\ used \in Seq(Descs)
        /\ NoOp \in [who : Clients \cup {None}, type : ReplyTypes, off : Nat, old : {0, 1}]
    BY DEF Init, NoOp, Types, ReplyTypes
  <2>b. 0 \in Nat /\ "other" \in Types
    BY DEF Types
  <2>1. TypeOK
    BY <2>a, <2>b, Zenon DEF Init, TypeOK
  <2>2. PlaceInv
    BY <2>0 DEF Init, PlaceInv, Held, Flying, Done
  <2>3. ChainInv
    BY DEF Init, ChainInv
  <2>4. ClientInv
    BY Zenon DEF Init, ClientInv
  <2>5. OpInv
    BY <2>0 DEF Init, OpInv, Busy, Flying, Done, NoOp
  <2> QED BY <2>1, <2>2, <2>3, <2>4, <2>5, Zenon DEF VInv
<1>e. VInv => Enough
  BY TwoFree, Zenon DEF VInv
<1>2. VInv /\ [Next]_vars => VInv'
  BY <1>e, VInvStep, Zenon
<1> QED BY <1>1, <1>2, PTL DEF Spec

(* Every variable keeps its type: submit never takes a descriptor that is  *)
(* not there.                                                              *)
THEOREM TypeCorrect == Spec => []TypeOK
<1>1. VInv => TypeOK
  BY DEF VInv
<1> QED BY <1>1, VInvHolds, PTL

(* getslot, submit, vqharvest, getreply, putslot and v9flush hand each     *)
(* slot on exactly once.                                                   *)
THEOREM SlotsConservedHolds == Spec => []SlotsConserved
<1>1. VInv => SlotsConserved
  BY OnePlace, Zenon DEF VInv
<1> QED BY <1>1, VInvHolds, PTL

(* Two free descriptors for each free slot: chains are never shared, and   *)
(* submit finds two descriptors for each writer that has a slot.           *)
THEOREM DescriptorsSufficeHolds == Spec => []DescriptorsSuffice
<1>1. VInv => DescriptorsSuffice
  <2> SUFFICES ASSUME VInv PROVE DescriptorsSuffice
    BY Zenon
  <2>0. TypeOK /\ PlaceInv /\ ChainInv /\ ClientInv
    BY Zenon DEF VInv
  <2>1. \A h \in Descs : rock[h] # None =>
            Chain(h) \cap free = {} /\ next[h] # h /\ next[h] \in Descs
    BY <2>0 DEF ChainInv, Chain
  <2>2. \A h \in Descs : rock[h] # None => Cardinality(Chain(h)) = 2
    <3> SUFFICES ASSUME NEW h \in Descs, rock[h] # None PROVE Cardinality(Chain(h)) = 2
      BY Zenon
    <3>1. Chain(h) = {h} \cup {next[h]} /\ next[h] \notin {h}
      BY <2>1, Zenon DEF Chain
    <3>2. IsFiniteSet({h}) /\ Cardinality({h}) = 1
      BY FS_Singleton, Zenon
    <3>3. Cardinality({h} \cup {next[h]}) = IF next[h] \in {h} THEN Cardinality({h})
                                            ELSE Cardinality({h}) + 1
      BY <3>2, FS_AddElement, Zenon
    <3> QED BY <3>1, <3>2, <3>3
  <2>3. \A h, g \in Descs : rock[h] # None /\ rock[g] # None /\ h # g => Chain(h) \cap Chain(g) = {}
    BY <2>0 DEF ChainInv, Chain
  <2>4. Cardinality(free) >= 2 * Cardinality({c \in Clients : pc[c] = "submit"})
    BY <2>0, TwoForEach, Zenon DEF Writers
  <2> QED BY <2>1, <2>2, <2>3, <2>4, Zenon DEF DescriptorsSuffice
<1> QED BY <1>1, VInvHolds, PTL
(* Each directory read goes out with the offset that follows what its      *)
(* client has read, in a conversation that began clean.                    *)
THEOREM OffsetFollowsHolds == Spec => []OffsetFollows
<1>1. Init => OffInv
  BY DEF Init, OffInv
<1>2. VInv /\ OffInv /\ [Next]_vars => OffInv'
  BY TwoFree, OffNext, Zenon DEF VInv
<1>3. VInv /\ OffInv => OffsetFollows
  BY OffFollows, Zenon
<1> QED BY <1>1, <1>2, <1>3, VInvHolds, PTL DEF Spec

(* Replies are served in the order in which the device completed them,     *)
(* however the harvests of vqharvest interleave.                           *)
THEOREM CompletionOrderHolds == Spec => CompletionOrder
<1>1. VInv /\ VInv' /\ [Next]_vars => [InOrder]_vars
  BY TwoFree, OrderStep, Zenon DEF VInv
<1> QED BY <1>1, VInvHolds, PTL DEF Spec, CompletionOrder, InOrder
=============================================================================
