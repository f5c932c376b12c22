---------------------------- MODULE MntMuxProofs ----------------------------
(***************************************************************************)
(* Proofs about MntMux for every set of processes and every number of      *)
(* tags: the type invariant, that the tag of a free Mntrpc is not in use   *)
(* at the server, that a call gets the reply to its own request, and that  *)
(* no call is left asleep with nobody to read for it.                      *)
(***************************************************************************)
EXTENDS MntMux, TLAPS

(* A Mntrpc belongs to one call, has a tag, and is not on the free list.   *)
ChainInv ==
    /\ \A p \in Procs : pc[p] = "idle" <=> Len(chain[p]) = 0
    /\ \A p \in Procs : \A i \in 1 .. Len(chain[p]) : chain[p][i] \in tagmask \ rpcfree
    /\ \A p, q \in Procs : \A i \in 1 .. Len(chain[p]), j \in 1 .. Len(chain[q]) :
           chain[p][i] = chain[q][j] => p = q /\ i = j

(* m->rip names the one that reads, whose own reply has not come.  A call  *)
(* fails only when the connection is hung up.                              *)
LabelInv ==
    /\ \A p \in Procs : pc[p] \in {"read", "wakeup", "mntgate"} => rip = p
    /\ \A p \in Procs : pc[p] \in {"read", "wakeup"} => done[r(p)] = 0
    /\ \A p \in Procs : pc[p] = "return" => Len(chain[p]) = 1 /\ done[r(p)] = 1
    /\ \A p \in Procs : pc[p] = "error" => failed[p] = 1
    /\ \A p \in Procs : failed[p] = 1 => hungup = 1

(* Who the reply to the i-th Mntrpc of p is for.                           *)
For(p, i) == IF i = 1 THEN p ELSE Rflush

(* A request at the server is that of a Mntrpc of a call.                  *)
PendingInv ==
    /\ hungup = 1 => pending = {}
    /\ \A m \in pending : \E p \in Procs :
           /\ m.nth \in 1 .. Len(chain[p]) /\ m.tag = chain[p][m.nth]
           /\ m.oldtag = (IF m.nth = 1 THEN 0 ELSE chain[p][1])
           /\ m.who = For(p, m.nth)

(* So is a reply on its way.                                               *)
RepliesInv ==
    \A a \in 1 .. Len(replies) : \E p \in Procs : \E i \in 1 .. Len(chain[p]) :
        replies[a].tag = chain[p][i] /\ replies[a].who = For(p, i)

(* A Mntrpc has one request or one reply.                                  *)
OnceInv ==
    \A a \in 1 .. Len(replies) :
        /\ \A b \in 1 .. Len(replies) : replies[a].tag = replies[b].tag => a = b
        /\ \A m \in pending : m.tag # replies[a].tag

(* After an Rflush nothing comes for what it has flushed.                  *)
OrderInv ==
    \A p \in Procs : \A i, j \in 1 .. Len(chain[p]) : j < i =>
        \A a \in 1 .. Len(replies) : replies[a].tag = chain[p][i] =>
            /\ \A b \in 1 .. Len(replies) : b > a => replies[b].tag # chain[p][j]
            /\ \A m \in pending : m.tag # chain[p][j]

(* Something with the tag t is at the server or on its way.                *)
Sent(t) ==
    \/ \E m \in pending : m.tag = t
    \/ \E a \in 1 .. Len(replies) : replies[a].tag = t

(* Nothing more comes for a Mntrpc that is done, nor for those before it;  *)
(* and nothing has come before the request is written.                     *)
DoneInv ==
    \A p \in Procs :
        /\ \A i \in 1 .. Len(chain[p]) : done[chain[p][i]] = 1 =>
               \A j \in 1 .. i : ~Sent(chain[p][j])
        /\ pc[p] = "write" => done[r(p)] = 0 /\ ~Sent(r(p))
        /\ pc[p] \in {"mntgate", "free", "return"} =>
               \A i \in 1 .. Len(chain[p]) : ~Sent(chain[p][i])

(* A call that can only fail: tags are used again after a hangup while old *)
(* replies may be left to read, but no request is accepted.                *)
Doomed(p) == hungup = 1 /\ (pc[p] \in {"write", "eintr", "error"} \/ failed[p] = 1)

(* A reply with the tag of a call's request is that call's.                *)
OwnInv ==
    \A p \in Procs : pc[p] # "idle" /\ ~Doomed(p) =>
        /\ \A a \in 1 .. Len(replies) : replies[a].tag = Original(p) => replies[a].who = p
        /\ done[Original(p)] = 1 => reply[Original(p)] \in {p, Rflush}

(* What holds of the messages while the connection is up.                  *)
MsgInv == hungup = 0 => RepliesInv /\ OnceInv /\ OrderInv /\ DoneInv

(* The inductive invariant.                                                *)
Inv == TypeOK /\ ChainInv /\ LabelInv /\ PendingInv /\ MsgInv /\ OwnInv
-----------------------------------------------------------------------------
(* A new mount satisfies the invariant.                                    *)
LEMMA InitInv == Init => Inv
<1> SUFFICES ASSUME Init PROVE Inv
  BY Zenon
<1> USE DEF Init
<1>1. TypeOK
  BY DEF TypeOK, Labels
<1>2. ChainInv
  BY DEF ChainInv
<1>3. LabelInv
  BY Zenon DEF LabelInv
<1>4. PendingInv /\ RepliesInv /\ OnceInv /\ OrderInv
  BY DEF PendingInv, RepliesInv, OnceInv, OrderInv
<1>5. DoneInv /\ OwnInv
  BY DEF DoneInv, OwnInv
<1> QED BY <1>1, <1>2, <1>3, <1>4, <1>5, Zenon DEF Inv, MsgInv

(* The Mntrpcs of a call, of which the last is the one that mountio works  *)
(* on.                                                                     *)
LEMMA ChainType ==
    ASSUME TypeOK, NEW p \in Procs
    PROVE  /\ chain[p] \in Seq(Tags) /\ Len(chain[p]) \in Nat
           /\ \A i \in 1 .. Len(chain[p]) : chain[p][i] \in Tags
           /\ Len(chain[p]) # 0 => Len(chain[p]) \in 1 .. Len(chain[p]) /\ 1 \in 1 .. Len(chain[p])
<1>1. chain[p] \in Seq(Tags)
  BY Zenon DEF TypeOK
<1> QED BY <1>1

(* A call that has an Mntrpc has a first one, and one less without its     *)
(* last.                                                                   *)
LEMMA CallLength ==
    \A k \in Nat : k # 0 => k - 1 \in Nat /\ 1 \in 1 .. k
  OBVIOUS

(* What is older than an Mntrpc of a call is one of the call's too.        *)
LEMMA OlderListed ==
    \A k \in Nat : \A i \in 1 .. k : \A j \in 1 .. i : j \in 1 .. k
  OBVIOUS

(* What mntralloc puts at the end of a call's Mntrpcs is its last one.     *)
LEMMA LastAppended ==
    ASSUME NEW c \in Seq(Tags), NEW t \in Tags
    PROVE  Append(c, t)[Len(Append(c, t))] = t
  OBVIOUS

(* A tag is in use by one call, once.                                      *)
LEMMA TagOnce ==
    ASSUME ChainInv, NEW p \in Procs, NEW q \in Procs,
           NEW i \in 1 .. Len(chain[p]), NEW j \in 1 .. Len(chain[q]),
           chain[p][i] = chain[q][j]
    PROVE  p = q /\ i = j
BY DEF ChainInv

(* Of a call's replies that of an older Mntrpc is not behind that of a     *)
(* younger one.                                                            *)
LEMMA RepliesOrdered ==
    ASSUME OrderInv, NEW p \in Procs, NEW i \in 1 .. Len(chain[p]), NEW j \in 1 .. Len(chain[p]),
           j < i, NEW a \in 1 .. Len(replies), replies[a].tag = chain[p][i]
    PROVE  /\ \A b \in 1 .. Len(replies) : b > a => replies[b].tag # chain[p][j]
           /\ \A m \in pending : m.tag # chain[p][j]
BY Zenon DEF OrderInv

(* Where messages and Mntrpcs stay, so does what is known of them.         *)
LEMMA SameMessages ==
    ASSUME replies' = replies, chain' = chain, pending' = pending
    PROVE  /\ RepliesInv => RepliesInv'
           /\ OnceInv => OnceInv'
           /\ OrderInv => OrderInv'
<1>1. RepliesInv => RepliesInv'
  BY DEF RepliesInv, For
<1>2. OnceInv => OnceInv'
  BY Zenon DEF OnceInv
<1>3. OrderInv => OrderInv'
  BY SMTT(30) DEF OrderInv
<1> QED BY <1>1, <1>2, <1>3, Zenon

(* A step that moves processes without touching the Mntrpcs or the         *)
(* messages.                                                               *)
LEMMA Moves ==
    ASSUME Inv, TypeOK', UNCHANGED <<done, avars, svars, chain>>,
           \A q \in Procs :
               /\ pc'[q] = "idle" <=> pc[q] = "idle"
               /\ pc'[q] \in {"read", "wakeup", "mntgate"} => rip' = q
               /\ pc'[q] \in {"read", "wakeup"} => done[r(q)] = 0
               /\ pc'[q] = "return" => pc[q] = "return"
               /\ pc'[q] = "write" => pc[q] = "write"
               /\ pc'[q] = "error" => failed'[q] = 1
               /\ failed'[q] = 1 => hungup = 1
               /\ pc'[q] \in {"mntgate", "free"} =>
                      pc[q] \in {"mntgate", "free"} \/ done[r(q)] = 1 \/ hungup = 1
               /\ Doomed(q) => Doomed(q)'
               /\ pc[q] # "idle" /\ done[Original(q)] = 1 => reply'[Original(q)] = reply[Original(q)]
    PROVE  Inv'
<1> USE SMTT(30) DEF Inv
<1>1. ChainInv'
  BY DEF ChainInv, avars
<1>2. LabelInv'
  BY Zenon DEF LabelInv, r, svars
<1>3. PendingInv'
  BY Zenon DEF PendingInv, For, svars
<1>4. MsgInv'
  <2> SUFFICES ASSUME hungup = 0 PROVE RepliesInv' /\ OnceInv' /\ OrderInv' /\ DoneInv'
    BY Zenon DEF MsgInv, svars
  <2>0. RepliesInv /\ OnceInv /\ OrderInv
    BY Zenon DEF MsgInv
  <2>1. RepliesInv' /\ OnceInv' /\ OrderInv'
    BY <2>0, SameMessages, Zenon DEF svars
  <2>2. \A t \in Tags : Sent(t)' <=> Sent(t)
    BY Zenon DEF Sent, svars
  <2>3. ASSUME NEW q \in Procs, NEW i \in 1 .. Len(chain[q]), done[chain[q][i]] = 1,
               NEW j \in 1 .. i
        PROVE  ~Sent(chain[q][j])'
    <3>1. chain[q][j] \in Tags
      BY ChainType
    <3> QED BY <2>2, <2>3, <3>1, Zenon DEF MsgInv, DoneInv
  <2>4. ASSUME NEW q \in Procs, pc'[q] = "write" PROVE done[r(q)] = 0 /\ ~Sent(r(q))'
    <3>1. r(q) \in Tags /\ pc[q] = "write" /\ r(q)' = r(q)
      BY <2>4, ChainType, Zenon DEF ChainInv, r
    <3> QED BY <2>2, <3>1, Zenon DEF MsgInv, DoneInv
  <2>5. ASSUME NEW q \in Procs, pc'[q] \in {"mntgate", "free", "return"},
               NEW i \in 1 .. Len(chain[q])
        PROVE  ~Sent(chain[q][i])'
    <3>1. chain[q][i] \in Tags
      BY ChainType, Zenon
    <3>2. CASE pc[q] \in {"mntgate", "free", "return"}
      BY <2>2, <3>1, <3>2, Zenon DEF MsgInv, DoneInv
    <3>3. CASE pc[q] \notin {"mntgate", "free", "return"}
      <4>1. done[r(q)] = 1
        BY <2>5, <3>3
      <4>2. Len(chain[q]) \in 1 .. Len(chain[q]) /\ i \in 1 .. Len(chain[q])
        BY ChainType
      <4> QED BY <2>2, <3>1, <4>1, <4>2, Zenon DEF MsgInv, DoneInv, r
    <3> QED BY <3>2, <3>3, Zenon
  <2>6. DoneInv'
    BY <2>3, <2>4, <2>5, Zenon DEF DoneInv, r
  <2> QED BY <2>1, <2>6, Zenon
<1>5. OwnInv'
  BY Zenon DEF OwnInv, Original, svars
<1> QED BY <1>1, <1>2, <1>3, <1>4, <1>5, Zenon

(* p goes to l, a sleeper may be woken, and the others stay.               *)
Settled(p, l) ==
    /\ pc' \in [Procs -> Labels]
    /\ pc'[p] = l
    /\ \A q \in Procs \ {p} : pc'[q] = pc[q] \/ (pc[q] = "asleep" /\ pc'[q] = "awake")

(* A process that goes on moves nobody else.                               *)
LEMMA GotoSettles ==
    ASSUME TypeOK, NEW p \in Procs, NEW l \in Labels, Goto(p, l)
    PROVE  Settled(p, l)
BY Zenon DEF TypeOK, Goto, Settled

(* mntgate wakes sleepers at most, and gives up m->rip.                    *)
LEMMA MntgateSettles ==
    ASSUME TypeOK, NEW p \in Procs, NEW l \in Labels, mntgate(p, l)
    PROVE  Settled(p, l) /\ rip' = None
<1>1. ASSUME NEW T, WakeAndGoto(Sleepers(T), p, l) PROVE Settled(p, l)
  BY <1>1, Zenon DEF TypeOK, WakeAndGoto, Sleepers, Settled, Labels
<1>2. Goto(p, l) \/ \E t \in queue : WakeAndGoto(Sleepers(t), p, l)
  BY Zenon DEF mntgate
<1> QED BY <1>1, <1>2, GotoSettles, Zenon DEF mntgate

(* An interrupt takes the note, an error is remembered.                    *)
LEMMA ErrorType ==
    ASSUME TypeOK, NEW p \in Procs
    PROVE  /\ Eintr(p) => note' \in [Procs -> 0 .. 1] /\ failed' = failed
           /\ Emountrpc(p) => note' = note /\ failed' \in [Procs -> 0 .. 1]
           /\ note \in [Procs -> 0 .. 1] /\ failed \in [Procs -> 0 .. 1]
<1>1. note \in [Procs -> 0 .. 1] /\ failed \in [Procs -> 0 .. 1]
  BY Zenon DEF TypeOK
<1> QED BY <1>1 DEF Eintr, Emountrpc

(* The steps that only move processes keep the invariant.                  *)
LEMMA MoveStep ==
    ASSUME Inv, NEW p \in Procs,
           Gate(p) \/ Sleep(p) \/ Awake(p) \/ Wakeup(p) \/ Leave(p) \/ Failed(p) \/ Postnote(p)
    PROVE  Inv'
<1> USE MntMuxAssumption, SMTT(30) DEF Inv, LabelInv
<1>0. /\ pc \in [Procs -> Labels] /\ done \in [Tags -> 0 .. 1]
      /\ \A q \in Procs : pc[q] # "idle" => r(q) \in Tags
  BY ChainType, Zenon DEF TypeOK, ChainInv, r
<1>1. CASE Gate(p)
  <2>1. CASE rip = None
    <3>1. rip' = p /\ Goto(p, IF done[r(p)] = 0 THEN "read" ELSE "mntgate") /\ pc[p] = "gate"
      BY <1>1, <2>1, Zenon DEF Gate
    <3>2. TypeOK'
      BY <1>1, <3>1, Zenon DEF Gate, Goto, TypeOK, Labels, avars, svars
    <3>3. \A q \in Procs : pc'[q] = IF q = p THEN (IF done[r(p)] = 0 THEN "read" ELSE "mntgate") ELSE pc[q]
      BY <1>0, <3>1, Zenon DEF Goto
    <3>4. done[r(p)] \in 0 .. 1
      BY <1>0, <3>1, Zenon
    <3> QED BY <1>1, <2>1, <3>1, <3>2, <3>3, <3>4, Moves DEF Gate, Doomed, avars, svars
  <2>2. CASE rip # None
    <3>1. rip' = rip /\ Goto(p, "sleep") /\ pc[p] = "gate"
      BY <1>1, <2>2, Zenon DEF Gate
    <3>2. TypeOK'
      BY <1>1, <3>1, Zenon DEF Gate, Goto, TypeOK, Labels, avars, svars
    <3>3. \A q \in Procs : pc'[q] = IF q = p THEN "sleep" ELSE pc[q]
      BY <1>0, <3>1, Zenon DEF Goto
    <3> QED BY <1>1, <3>1, <3>2, <3>3, Moves, Zenon DEF Gate, Doomed, avars, svars
  <2> QED BY <2>1, <2>2, Zenon
<1>2. CASE Sleep(p)
  <2>1. TypeOK'
    BY <1>2, Zenon DEF Sleep, Goto, TypeOK, Labels, mvars, avars, svars
  <2>2. \A q \in Procs : (q = p /\ pc[q] = "sleep" /\ pc'[q] \in {"awake", "asleep"}) \/ pc'[q] = pc[q]
    BY <1>0, <1>2, Zenon DEF Sleep, Goto
  <2> QED BY <1>2, <2>1, <2>2, Moves, Zenon DEF Sleep, Doomed, mvars, avars, svars
<1>3. CASE Awake(p)
  <2>1. TypeOK'
    <3>1. pc' \in [Procs -> Labels]
      BY <1>0, <1>3 DEF Awake, Eintr, Goto, Labels
    <3>2. note' \in [Procs -> 0 .. 1] /\ failed' = failed
      BY <1>3, ErrorType, Zenon DEF Awake
    <3> QED BY <1>3, <3>1, <3>2, Zenon DEF Awake, TypeOK, mvars, avars, svars
  <2>2. \A q \in Procs : \/ q = p /\ pc[q] = "awake" /\ pc'[q] \in {"eintr", "gate"}
                         \/ q = p /\ pc[q] = "awake" /\ pc'[q] = "free" /\ done[r(q)] = 1
                         \/ pc'[q] = pc[q]
    BY <1>0, <1>3, Zenon DEF Awake, Eintr, Goto
  <2>3. failed' = failed
    BY <1>3, Zenon DEF Awake, Eintr
  <2> QED BY <1>3, <2>1, <2>2, <2>3, Moves, Zenon DEF Awake, Doomed, mvars, avars, svars
<1>4. CASE Wakeup(p)
  <2>1. Settled(p, "read") /\ pc[p] = "wakeup"
    BY <1>0, <1>4, Zenon DEF Wakeup, WakeAndGoto, Sleepers, Settled, Labels
  <2>2. TypeOK'
    <3>1. tgt' \in [Procs -> Tags \cup {0}]
      BY <1>4, Zenon DEF Wakeup, TypeOK
    <3> QED BY <1>4, <2>1, <3>1, Zenon DEF Wakeup, Settled, TypeOK, mvars, avars, svars
  <2>3. \A q \in Procs : \/ q = p /\ pc[q] = "wakeup" /\ pc'[q] = "read"
                         \/ pc[q] = "asleep" /\ pc'[q] = "awake"
                         \/ pc'[q] = pc[q]
    BY <2>1, Zenon DEF Settled
  <2> QED BY <1>4, <2>2, <2>3, Moves, Zenon DEF Wakeup, Doomed, mvars, avars, svars
<1>5. CASE Leave(p)
  <2>1. Settled(p, "free") /\ rip' = None /\ pc[p] = "mntgate" /\ rip = p
    BY <1>5, MntgateSettles, Zenon DEF Leave, Labels
  <2>2. TypeOK'
    BY <1>5, <2>1, Zenon DEF Leave, Settled, TypeOK, avars, svars
  <2> QED BY <1>5, <2>1, <2>2, Moves, Zenon DEF Leave, Settled, Doomed, avars, svars
<1>6. CASE Failed(p)
  <2>1. Settled(p, "free") /\ pc[p] = "error" /\ rip' = IF rip = p THEN None ELSE rip
    BY <1>6, MntgateSettles, GotoSettles, Zenon DEF Failed, GiveUp, Labels
  <2>2. TypeOK'
    BY <1>6, <2>1, Zenon DEF Failed, Settled, TypeOK, avars, svars
  <2> QED BY <1>6, <2>1, <2>2, Moves, Zenon DEF Failed, Settled, Doomed, avars, svars
<1>7. CASE Postnote(p)
  <2>1. TypeOK'
    BY <1>7 DEF Postnote, TypeOK, Labels, mvars, avars, svars
  <2>2. \A q \in Procs : (pc[q] = "asleep" /\ pc'[q] = "awake") \/ pc'[q] = pc[q]
    BY <1>0, <1>7, Zenon DEF Postnote
  <2> QED BY <1>7, <2>1, <2>2, Moves, Zenon DEF Postnote, Doomed, mvars, avars, svars
<1> QED BY <1>1, <1>2, <1>3, <1>4, <1>5, <1>6, <1>7, Zenon

(* So do an interrupt or an error while the request is written or a reply  *)
(* is read.                                                                *)
LEMMA InterruptStep ==
    ASSUME Inv, NEW p \in Procs, pc[p] \in {"write", "read"}, Eintr(p) \/ Emountrpc(p),
           UNCHANGED <<queue, rip, done, avars, svars, chain, tgt>>,
           reply' = reply \/ (pc[p] = "read" /\ reply' = [reply EXCEPT ![r(p)] = None])
    PROVE  Inv'
<1> USE MntMuxAssumption, SMTT(30) DEF Inv, LabelInv
<1>0. /\ pc \in [Procs -> Labels]
      /\ \A q \in Procs : pc[q] # "idle" => r(q) \in Tags
  BY ChainType, Zenon DEF TypeOK, ChainInv, r
<1>1. TypeOK'
  <2>1. pc' \in [Procs -> Labels]
    <3>1. Goto(p, "eintr") \/ Goto(p, "error")
      BY Zenon DEF Eintr, Emountrpc
    <3> QED BY <1>0, <3>1, Zenon DEF Goto, Labels
  <2>2. note' \in [Procs -> 0 .. 1] /\ failed' \in [Procs -> 0 .. 1]
    BY ErrorType, Zenon
  <2>3. reply' \in [Tags -> Procs \cup {None, Rflush}]
    <3>1. reply \in [Tags -> Procs \cup {None, Rflush}]
      BY Zenon DEF TypeOK
    <3> QED BY <3>1, Zenon
  <2> QED BY <2>1, <2>2, <2>3, Zenon DEF TypeOK, avars, svars
<1>2. \A q \in Procs :
          \/ q = p /\ pc'[q] = "eintr" /\ failed'[q] = failed[q]
          \/ q = p /\ pc'[q] = "error" /\ failed'[q] = 1 /\ hungup = 1
          \/ q # p /\ pc'[q] = pc[q] /\ failed'[q] = failed[q]
  BY <1>0 DEF TypeOK, Eintr, Emountrpc, Goto
<1>3. ASSUME NEW q \in Procs, pc[q] # "idle", done[Original(q)] = 1
      PROVE  reply'[Original(q)] = reply[Original(q)]
  <2>1. CASE reply' = reply
    BY <2>1, Zenon
  <2>2. CASE pc[p] = "read" /\ reply' = [reply EXCEPT ![r(p)] = None]
    <3>1. Original(q) # r(p)
      BY <1>3, <2>2
    <3> QED BY <2>2, <3>1, SMTT(30) DEF TypeOK
  <2> QED BY <2>1, <2>2, Zenon
<1>4. ASSUME NEW q \in Procs, Doomed(q) PROVE Doomed(q)'
  BY <1>2, <1>4, Zenon DEF Doomed, svars
<1> QED BY <1>1, <1>2, <1>3, <1>4, Moves, Zenon DEF avars, svars

(* An accepted request keeps the invariant.                                *)
LEMMA SendStep ==
    ASSUME Inv, NEW p \in Procs, pc[p] = "write", hungup = 0,
           pending' = pending \cup {Request(p)},
           \/ Goto(p, "gate") /\ UNCHANGED <<note, failed>>
           \/ Eintr(p),
           UNCHANGED <<mvars, avars, replies, hungup, chain, tgt>>
    PROVE  Inv'
<1> USE MntMuxAssumption, SMTT(30) DEF Inv
<1> DEFINE n == Len(chain[p])
<1>0. n \in Nat \ {0} /\ n \in 1 .. n /\ 1 \in 1 .. n /\ r(p) = chain[p][n] /\ r(p) \in Tags
  BY ChainType, Zenon DEF ChainInv, r
<1>1. \E l \in {"gate", "eintr"} : pc' = [pc EXCEPT ![p] = l]
  BY Zenon DEF Goto, Eintr
<1>2. pc'[p] \in {"gate", "eintr"} /\ \A q \in Procs : q # p => pc'[q] = pc[q]
  BY <1>1, Zenon DEF TypeOK
<1>3. failed' = failed /\ note' \in [Procs -> 0 .. 1]
  BY ErrorType, Zenon
<1>4. /\ Request(p).tag = r(p) /\ Request(p).nth = n
      /\ Request(p).oldtag = (IF n = 1 THEN 0 ELSE chain[p][1])
      /\ Request(p).who = For(p, n)
      /\ Request(p) \in [tag : Tags, nth : Nat, oldtag : Tags \cup {0},
                         who : Procs \cup {None, Rflush}]
  BY <1>0, ChainType, Zenon DEF Request, For, Original
<1>5. TypeOK'
  <2>1. pc' \in [Procs -> Labels]
    BY <1>1, Zenon DEF TypeOK, Labels
  <2>2. pending' \subseteq [tag : Tags, nth : Nat, oldtag : Tags \cup {0},
                            who : Procs \cup {None, Rflush}]
    BY <1>4, Zenon DEF TypeOK
  <2> QED BY <1>3, <2>1, <2>2, ErrorType, Zenon DEF TypeOK, mvars, avars
<1>6. ChainInv'
  BY <1>2 DEF ChainInv, avars
<1>7. LabelInv'
  BY <1>2, <1>3, Zenon DEF LabelInv, r, mvars
<1>8. PendingInv'
  <2> SUFFICES ASSUME NEW m \in pending'
               PROVE  \E q \in Procs :
                          /\ m.nth \in 1 .. Len(chain[q]) /\ m.tag = chain[q][m.nth]
                          /\ m.oldtag = (IF m.nth = 1 THEN 0 ELSE chain[q][1])
                          /\ m.who = For(q, m.nth)
    BY DEF PendingInv, For
  <2>1. CASE m \in pending
    BY <2>1, Zenon DEF PendingInv
  <2>2. CASE m = Request(p)
    <3>1. /\ n \in 1 .. Len(chain[p]) /\ m.nth = n /\ m.tag = chain[p][n]
          /\ m.oldtag = (IF n = 1 THEN 0 ELSE chain[p][1])
          /\ m.who = For(p, n)
      BY <1>0, <1>4, <2>2, Zenon
    <3> QED BY <3>1, Zenon
  <2> QED BY <2>1, <2>2, Zenon
<1>9. RepliesInv /\ OnceInv /\ OrderInv /\ DoneInv
  BY Zenon DEF MsgInv
<1>10. ~Sent(r(p)) /\ done[r(p)] = 0
  BY <1>9, Zenon DEF DoneInv
<1>11. \A m \in pending' : m \in pending \/ m.tag = r(p)
  BY <1>4, Zenon
<1>12. RepliesInv'
  BY <1>9, Zenon DEF RepliesInv, For
<1>13. OnceInv'
  BY <1>9, <1>10, <1>11, Zenon DEF OnceInv, Sent
<1>14. OrderInv'
  <2> SUFFICES ASSUME NEW q \in Procs, NEW i \in 1 .. Len(chain[q]), NEW j \in 1 .. Len(chain[q]),
                      j < i, NEW a \in 1 .. Len(replies), replies[a].tag = chain[q][i]
               PROVE  /\ \A b \in 1 .. Len(replies) : b > a => replies[b].tag # chain[q][j]
                      /\ \A m \in pending' : m.tag # chain[q][j]
    BY DEF OrderInv
  <2>1. chain[q][j] # r(p)
    <3>1. SUFFICES ASSUME chain[q][j] = r(p) PROVE FALSE
      BY Zenon
    <3>2. q = p /\ j = n
      BY <1>0, <3>1 DEF ChainInv
    <3> QED BY <1>0, <3>2
  <2> QED BY <1>9, <1>11, <2>1, Zenon DEF OrderInv
<1>15. DoneInv'
  <2>1. \A t \in Tags \ {r(p)} : Sent(t)' <=> Sent(t)
    BY <1>4, Zenon DEF Sent
  <2>2. ASSUME NEW q \in Procs, NEW i \in 1 .. Len(chain[q]), done[chain[q][i]] = 1,
               NEW j \in 1 .. i
        PROVE  ~Sent(chain[q][j])'
    <3>1. chain[q][j] \in Tags /\ j \in 1 .. Len(chain[q])
      BY ChainType
    <3>2. chain[q][j] # r(p)
      <4>1. SUFFICES ASSUME chain[q][j] = r(p) PROVE FALSE
        BY Zenon
      <4>2. q = p /\ j = n
        BY <1>0, <3>1, <4>1 DEF ChainInv
      <4>3. i = n
        BY <1>0, <4>2
      <4> QED BY <1>0, <1>10, <2>2, <4>2, <4>3
    <3> QED BY <1>9, <2>1, <2>2, <3>1, <3>2, Zenon DEF DoneInv
  <2>3. ASSUME NEW q \in Procs, q # p, NEW i \in 1 .. Len(chain[q])
        PROVE  chain[q][i] \in Tags \ {r(p)}
    BY <1>0, <2>3, ChainType DEF ChainInv
  <2>4. ASSUME NEW q \in Procs, pc'[q] = "write" PROVE done[r(q)] = 0 /\ ~Sent(r(q))'
    <3>1. q # p /\ pc[q] = "write" /\ r(q)' = r(q)
      BY <1>2, <2>4, Zenon DEF r
    <3>2. r(q) \in Tags \ {r(p)}
      BY <2>3, <3>1, ChainType, Zenon DEF ChainInv, r
    <3> QED BY <1>9, <2>1, <3>1, <3>2, Zenon DEF DoneInv
  <2>5. ASSUME NEW q \in Procs, pc'[q] \in {"mntgate", "free", "return"},
               NEW i \in 1 .. Len(chain[q])
        PROVE  ~Sent(chain[q][i])'
    <3>1. q # p /\ pc[q] \in {"mntgate", "free", "return"}
      BY <1>2, <2>5, Zenon
    <3> QED BY <1>9, <2>1, <2>3, <3>1, Zenon DEF DoneInv
  <2> QED BY <2>2, <2>4, <2>5, Zenon DEF DoneInv, r, mvars
<1>16. OwnInv'
  BY <1>2, <1>3 DEF OwnInv, Original, Doomed, mvars
<1> QED BY <1>5, <1>6, <1>7, <1>8, <1>12, <1>13, <1>14, <1>15, <1>16, Zenon DEF MsgInv


(* The first reply is taken from the connection.                           *)
LEMMA ReplyTaken ==
    ASSUME TypeOK, mntrpcread
    PROVE  /\ Len(replies) \in Nat \ {0} /\ 1 \in 1 .. Len(replies)
           /\ replies' \in Seq([tag : Tags, who : Procs \cup {None, Rflush}])
           /\ Len(replies') = Len(replies) - 1
           /\ \A a \in 1 .. Len(replies') : a + 1 \in 1 .. Len(replies) /\ replies'[a] = replies[a + 1]
           /\ Head(replies) = replies[1]
           /\ replies[1] \in [tag : Tags, who : Procs \cup {None, Rflush}]
<1>1. /\ replies \in Seq([tag : Tags, who : Procs \cup {None, Rflush}])
      /\ replies # <<>> /\ replies' = Tail(replies)
  BY Zenon DEF TypeOK, mntrpcread
<1> HIDE DEF mntrpcread
<1>2. /\ Len(replies) \in Nat \ {0}
      /\ Tail(replies) \in Seq([tag : Tags, who : Procs \cup {None, Rflush}])
      /\ Len(Tail(replies)) = Len(replies) - 1
      /\ \A a \in 1 .. Len(Tail(replies)) : Tail(replies)[a] = replies[a + 1]
      /\ Head(replies) = replies[1]
  BY <1>1
<1>3. replies[1] \in [tag : Tags, who : Procs \cup {None, Rflush}]
  <2> DEFINE M == [tag : Tags, who : Procs \cup {None, Rflush}]
  <2>1. replies \in Seq(M) /\ 1 \in 1 .. Len(replies)
    BY <1>1, <1>2
  <2> HIDE DEF M
  <2>2. replies[1] \in M
    BY <2>1
  <2> QED BY <2>2, Zenon DEF M
<1> QED BY <1>1, <1>2, <1>3

(* What is left when the first reply has been taken: nothing more comes    *)
(* for its tag, nor for the Mntrpcs before it in its call.                 *)
LEMMA FirstTaken ==
    ASSUME RepliesInv, OnceInv, OrderInv, pending' = pending, chain' = chain,
           Len(replies) \in Nat, Len(replies') \in Nat, Len(replies) = Len(replies') + 1,
           \A a \in 1 .. Len(replies') : replies'[a] = replies[a + 1]
    PROVE  /\ RepliesInv' /\ OnceInv' /\ OrderInv'
           /\ \A t \in Tags : Sent(t)' => Sent(t)
           /\ Sent(replies[1].tag)
           /\ \A t \in Tags : t = replies[1].tag => ~Sent(t)'
           /\ \A p \in Procs : \A i, j \in 1 .. Len(chain[p]) :
                  j < i /\ chain[p][i] = replies[1].tag => ~Sent(chain[p][j])'
<1>1. 1 \in 1 .. Len(replies) /\ \A a \in 1 .. Len(replies') : a + 1 \in 1 .. Len(replies)
  OBVIOUS
<1>2. RepliesInv'
  <2> SUFFICES ASSUME NEW a \in 1 .. Len(replies')
               PROVE  \E p \in Procs : \E i \in 1 .. Len(chain[p]) :
                          replies'[a].tag = chain[p][i] /\ replies'[a].who = For(p, i)
    BY SMTT(30) DEF RepliesInv, For
  <2>1. \E p \in Procs : \E i \in 1 .. Len(chain[p]) :
            replies[a + 1].tag = chain[p][i] /\ replies[a + 1].who = For(p, i)
    BY <1>1, Zenon DEF RepliesInv
  <2> QED BY <2>1, Zenon
<1>3. OnceInv'
  <2>1. ASSUME NEW a \in 1 .. Len(replies'), NEW b \in 1 .. Len(replies'),
               replies'[a].tag = replies'[b].tag
        PROVE  a = b
    <3>1. a + 1 = b + 1
      BY <1>1, <2>1, SMTT(30) DEF OnceInv
    <3> QED BY <3>1
  <2>2. \A a \in 1 .. Len(replies') : \A m \in pending : m.tag # replies'[a].tag
    BY <1>1 DEF OnceInv
  <2> QED BY <2>1, <2>2, Zenon DEF OnceInv
<1>4. OrderInv'
  <2> SUFFICES ASSUME NEW p \in Procs, NEW i \in 1 .. Len(chain'[p]), NEW j \in 1 .. Len(chain'[p]),
                      j < i, NEW a \in 1 .. Len(replies'), replies'[a].tag = chain'[p][i]
               PROVE  /\ \A b \in 1 .. Len(replies') : b > a => replies'[b].tag # chain'[p][j]
                      /\ \A m \in pending' : m.tag # chain'[p][j]
    BY Zenon DEF OrderInv
  <2>0. a + 1 \in 1 .. Len(replies) /\ replies[a + 1].tag = chain[p][i]
    BY <1>1, Zenon
  <2>1. /\ \A b \in 1 .. Len(replies) : b > a + 1 => replies[b].tag # chain[p][j]
        /\ \A m \in pending : m.tag # chain[p][j]
    BY <2>0, Zenon DEF OrderInv
  <2>2. ASSUME NEW b \in 1 .. Len(replies'), b > a PROVE replies'[b].tag # chain[p][j]
    <3>1. b + 1 \in 1 .. Len(replies) /\ b + 1 > a + 1
      BY <2>2
    <3> QED BY <2>1, <3>1, Zenon
  <2> QED BY <2>1, <2>2, Zenon
<1>5. \A t \in Tags : Sent(t)' => Sent(t)
  BY <1>1, Zenon DEF Sent
<1>6. Sent(replies[1].tag)
  BY <1>1, Zenon DEF Sent
<1>7. ASSUME NEW t \in Tags, t = replies[1].tag PROVE ~Sent(t)'
  <2>1. \A m \in pending : m.tag # t
    BY <1>1, <1>7, Zenon DEF OnceInv
  <2>2. ASSUME NEW a \in 1 .. Len(replies'), replies'[a].tag = t PROVE FALSE
    <3>1. a + 1 = 1
      BY <1>1, <1>7, <2>2, Zenon DEF OnceInv
    <3> QED BY <3>1
  <2> QED BY <2>1, <2>2, Zenon DEF Sent
<1>8. ASSUME NEW p \in Procs, NEW i \in 1 .. Len(chain[p]), NEW j \in 1 .. Len(chain[p]),
             j < i, chain[p][i] = replies[1].tag
      PROVE  ~Sent(chain[p][j])'
  <2>1. /\ \A b \in 1 .. Len(replies) : b > 1 => replies[b].tag # chain[p][j]
        /\ \A m \in pending : m.tag # chain[p][j]
    BY <1>1, <1>8, Zenon DEF OrderInv
  <2>2. \A a \in 1 .. Len(replies') : a + 1 > 1
    OBVIOUS
  <2>3. \A a \in 1 .. Len(replies') : replies'[a].tag # chain[p][j]
    BY <1>1, <2>1, <2>2, Zenon
  <2> QED BY <2>1, <2>3, Zenon DEF Sent
<1> QED BY <1>2, <1>3, <1>4, <1>5, <1>6, <1>7, <1>8, Zenon

(* mountmux keeps the invariant.                                           *)
LEMMA ReadStep ==
    ASSUME Inv, NEW p \in Procs, pc[p] = "read", mntrpcread, mountmux(p, Head(replies)),
           UNCHANGED <<note, failed, rip, avars, pending, hungup, chain>>
    PROVE  Inv'
<1> USE MntMuxAssumption, SMTT(30) DEF Inv
<1> PICK m \in [tag : Tags, who : Procs \cup {None, Rflush}] : m = replies[1] /\ m = Head(replies)
  BY ReplyTaken, Zenon
<1>0. replies' \in Seq([tag : Tags, who : Procs \cup {None, Rflush}])
  BY ReplyTaken, Zenon
<1>1. /\ Len(replies) \in Nat \ {0} /\ 1 \in 1 .. Len(replies)
      /\ Len(replies') \in Nat /\ Len(replies) = Len(replies') + 1
      /\ \A a \in 1 .. Len(replies') : a + 1 \in 1 .. Len(replies) /\ replies'[a] = replies[a + 1]
  BY ReplyTaken
<1>2. m.tag \in Tags /\ m.who \in Procs \cup {None, Rflush}
  BY Zenon
<1>3. /\ rip = p /\ done[r(p)] = 0 /\ r(p) \in Tags
      /\ \A q \in Procs : q # p => pc[q] \notin {"read", "wakeup", "mntgate"}
  BY ChainType, Zenon DEF LabelInv, ChainInv, r
<1>4. /\ pc \in [Procs -> Labels] /\ done \in [Tags -> 0 .. 1]
      /\ reply \in [Tags -> Procs \cup {None, Rflush}] /\ tgt \in [Procs -> Tags \cup {0}]
  BY Zenon DEF TypeOK
<1>5. /\ \A q \in Procs : q # p => pc'[q] = pc[q]
      /\ \/ pc'[p] = "read" /\ done' = done
         \/ pc'[p] = "mntgate" /\ m.tag = r(p) /\ done'[r(p)] = 1
         \/ pc'[p] = "wakeup" /\ m.tag # r(p) /\ done' = [done EXCEPT ![m.tag] = 1]
  BY <1>2, <1>3, <1>4, Zenon DEF mountmux, Goto
<1>6. \A t \in Tags : done'[t] = done[t] \/ (t = m.tag /\ done'[t] = 1 /\ reply'[t] = m.who)
  BY <1>2, <1>3, <1>4 DEF mountmux
<1>7. \A t \in Tags : reply'[t] = reply[t] \/ t = r(p) \/ (t = m.tag /\ reply'[t] = m.who)
  BY <1>2, <1>3, <1>4 DEF mountmux
<1>8. TypeOK'
  <2>0. queue' \subseteq Tags
    BY Zenon DEF mountmux, TypeOK
  <2>1. pc' \in [Procs -> Labels] /\ tgt' \in [Procs -> Tags \cup {0}]
    BY <1>2, <1>4 DEF mountmux, Goto, Labels
  <2>2. /\ done' \in [Tags -> 0 .. 1]
        /\ reply' \in [Tags -> Procs \cup {None, Rflush}]
    BY <1>2, <1>4 DEF mountmux
  <2> QED BY <1>0, <2>0, <2>1, <2>2, Zenon DEF TypeOK, avars
<1>9. ChainInv'
  BY <1>3, <1>5 DEF ChainInv, avars
<1>10. LabelInv'
  <2>1. \A q \in Procs : r(q)' = r(q)
    BY Zenon DEF r
  <2>2. \A q \in Procs : pc'[q] \in {"read", "wakeup", "mntgate"} => rip' = q
    BY <1>3, <1>5, Zenon
  <2>3. \A q \in Procs : pc'[q] \in {"read", "wakeup"} => done'[r(q)] = 0
    BY <1>2, <1>3, <1>4, <1>5
  <2>4. \A q \in Procs : pc'[q] = "return" => Len(chain[q]) = 1 /\ done'[r(q)] = 1
    <3> SUFFICES ASSUME NEW q \in Procs, pc'[q] = "return"
                 PROVE  Len(chain[q]) = 1 /\ done'[r(q)] = 1
      BY Zenon
    <3>1. q # p /\ pc[q] = "return"
      BY <1>5, Zenon
    <3>2. Len(chain[q]) = 1 /\ done[r(q)] = 1
      BY <3>1, Zenon DEF LabelInv
    <3>3. r(q) \in Tags
      BY <3>2, ChainType DEF r
    <3> QED BY <1>6, <3>2, <3>3, Zenon
  <2>5. \A q \in Procs : pc'[q] = "error" => pc[q] = "error"
    BY <1>5, Zenon
  <2> QED BY <2>1, <2>2, <2>3, <2>4, <2>5 DEF LabelInv
<1>11. PendingInv'
  BY Zenon DEF PendingInv, For
<1>12. MsgInv'
  <2> SUFFICES ASSUME hungup = 0 PROVE RepliesInv' /\ OnceInv' /\ OrderInv' /\ DoneInv'
    BY Zenon DEF MsgInv
  <2>1. RepliesInv /\ OnceInv /\ OrderInv /\ DoneInv
    BY Zenon DEF MsgInv
  <2>2. RepliesInv' /\ OnceInv' /\ OrderInv'
    BY <1>1, <2>1, FirstTaken, Zenon
  <2>5. \A t \in Tags : Sent(t)' => Sent(t)
    BY <1>1, <2>1, FirstTaken, Zenon
  <2>6. ~Sent(m.tag)' /\ Sent(m.tag)
    BY <1>1, <1>2, <2>1, FirstTaken, Zenon
  <2>7. ASSUME NEW q \in Procs, NEW i \in 1 .. Len(chain[q]), done'[chain[q][i]] = 1,
               NEW j \in 1 .. i
        PROVE  ~Sent(chain[q][j])'
    <3>1. chain[q][j] \in Tags /\ chain[q][i] \in Tags /\ j \in 1 .. Len(chain[q])
      BY ChainType
    <3>2. CASE done[chain[q][i]] = 1
      BY <2>1, <2>5, <3>1, <3>2, Zenon DEF DoneInv
    <3>3. CASE done[chain[q][i]] # 1
      <4>1. chain[q][i] = m.tag
        BY <1>6, <2>7, <3>1, <3>3, Zenon
      <4>2. CASE j = i
        BY <2>6, <4>1, <4>2, Zenon
      <4>3. CASE j < i
        BY <1>1, <2>1, <3>1, <4>1, <4>3, FirstTaken, Zenon
      <4> QED BY <4>2, <4>3
    <3> QED BY <3>2, <3>3, Zenon
  <2>8. ASSUME NEW q \in Procs, pc'[q] = "write" PROVE done'[r(q)] = 0 /\ ~Sent(r(q))'
    <3>1. pc[q] = "write" /\ r(q)' = r(q) /\ r(q) \in Tags
      BY <1>5, <2>8, ChainType, Zenon DEF ChainInv, r
    <3>2. ~Sent(r(q)) /\ done[r(q)] = 0
      BY <2>1, <3>1, Zenon DEF DoneInv
    <3> QED BY <1>6, <2>5, <2>6, <3>1, <3>2, Zenon
  <2>9. ASSUME NEW q \in Procs, pc'[q] \in {"mntgate", "free", "return"},
               NEW i \in 1 .. Len(chain[q])
        PROVE  ~Sent(chain[q][i])'
    <3>1. CASE q = p
      <4>1. done'[chain[p][Len(chain[p])]] = 1
        BY <1>5, <2>9, <3>1, Zenon DEF r
      <4>2. Len(chain[p]) \in 1 .. Len(chain[p]) /\ i \in 1 .. Len(chain[p])
        BY <3>1, ChainType
      <4> QED BY <2>7, <3>1, <4>1, <4>2, Zenon
    <3>2. CASE q # p
      <4>1. ~Sent(chain[q][i]) /\ chain[q][i] \in Tags
        BY <1>5, <2>1, <2>9, <3>2, ChainType, Zenon DEF DoneInv
      <4> QED BY <2>5, <4>1, Zenon
    <3> QED BY <3>1, <3>2, Zenon
  <2>10. DoneInv'
    BY <2>7, <2>8, <2>9, Zenon DEF DoneInv, r
  <2> QED BY <2>2, <2>10, Zenon
<1>13. OwnInv'
  <2> SUFFICES ASSUME NEW q \in Procs, pc'[q] # "idle", ~Doomed(q)'
               PROVE  /\ \A a \in 1 .. Len(replies') : replies'[a].tag = Original(q) => replies'[a].who = q
                      /\ done'[Original(q)] = 1 => reply'[Original(q)] \in {q, Rflush}
    BY Zenon DEF OwnInv, Original
  <2>1. pc[q] # "idle" /\ ~Doomed(q)
    BY <1>5, Zenon DEF Doomed
  <2>2. /\ \A a \in 1 .. Len(replies) : replies[a].tag = Original(q) => replies[a].who = q
        /\ done[Original(q)] = 1 => reply[Original(q)] \in {q, Rflush}
    BY <2>1, Zenon DEF OwnInv
  <2>3. Original(q) \in Tags
    BY <2>1, ChainType, Zenon DEF ChainInv, Original
  <2>4. m.tag = Original(q) => m.who = q
    BY <1>1, <2>2, Zenon
  <2>5. ASSUME done'[Original(q)] = 1 PROVE reply'[Original(q)] \in {q, Rflush}
    <3>1. CASE done[Original(q)] = 1
      BY <1>3, <1>7, <2>2, <2>3, <2>4, <3>1
    <3>2. CASE done[Original(q)] # 1
      BY <1>6, <2>3, <2>4, <2>5, <3>2, Zenon
    <3> QED BY <3>1, <3>2, Zenon
  <2> QED BY <1>1, <2>2, <2>5
<1> QED BY <1>8, <1>9, <1>10, <1>11, <1>12, <1>13, Zenon

(* mntralloc gives p a Mntrpc whose tag nobody uses.                       *)
LEMMA Allocated ==
    ASSUME Inv, NEW p \in Procs, NEW t \in Tags, Mntralloc(p, t)
    PROVE  /\ t \notin tagmask \ rpcfree
           /\ rpcfree' \subseteq tagmask' /\ tagmask' \subseteq Tags
           /\ tagmask' \ rpcfree' = (tagmask \ rpcfree) \cup {t}
           /\ done' \in [Tags -> 0 .. 1] /\ done'[t] = 0
           /\ \A u \in Tags : u # t => done'[u] = done[u]
           /\ chain' \in [Procs -> Seq(Tags)]
           /\ Len(chain'[p]) = Len(chain[p]) + 1 /\ chain'[p][Len(chain[p]) + 1] = t
           /\ \A q \in Procs : q # p => Len(chain'[q]) = Len(chain[q])
           /\ \A q \in Procs : \A i \in 1 .. Len(chain[q]) : chain'[q][i] = chain[q][i] /\ chain[q][i] # t
           /\ hungup = 0 => ~Sent(t)
<1> USE SMTT(30) DEF Inv
<1>1. t \notin tagmask \ rpcfree
  BY Zenon DEF Mntralloc, Available
<1>2. rpcfree' \subseteq tagmask' /\ tagmask' \subseteq Tags
  BY Zenon DEF Mntralloc, TypeOK
<1>3. tagmask' \ rpcfree' = (tagmask \ rpcfree) \cup {t}
  BY Zenon DEF Mntralloc, TypeOK
<1>4. done' \in [Tags -> 0 .. 1] /\ done'[t] = 0 /\ \A u \in Tags : u # t => done'[u] = done[u]
  BY DEF Mntralloc, TypeOK
<1>5. \A q \in Procs : chain[q] \in Seq(Tags)
  BY ChainType, Zenon
<1>6. chain' = [chain EXCEPT ![p] = Append(chain[p], t)] /\ chain \in [Procs -> Seq(Tags)]
  BY Zenon DEF Mntralloc, TypeOK
<1>7. /\ Append(chain[p], t) \in Seq(Tags) /\ Len(Append(chain[p], t)) = Len(chain[p]) + 1
      /\ Append(chain[p], t)[Len(chain[p]) + 1] = t
      /\ \A i \in 1 .. Len(chain[p]) : Append(chain[p], t)[i] = chain[p][i]
  BY <1>5
<1>8. /\ chain' \in [Procs -> Seq(Tags)]
      /\ Len(chain'[p]) = Len(chain[p]) + 1 /\ chain'[p][Len(chain[p]) + 1] = t
      /\ \A q \in Procs : q # p => Len(chain'[q]) = Len(chain[q])
      /\ \A q \in Procs : \A i \in 1 .. Len(chain[q]) : chain'[q][i] = chain[q][i]
  BY <1>6, <1>7, Zenon
<1>9. \A q \in Procs : \A i \in 1 .. Len(chain[q]) : chain[q][i] # t
  BY <1>1 DEF ChainInv
<1>10. ASSUME hungup = 0 PROVE ~Sent(t)
  <2>1. \A m \in pending : m.tag # t
    BY <1>9, Zenon DEF PendingInv
  <2>2. \A a \in 1 .. Len(replies) : replies[a].tag # t
    BY <1>9, <1>10, Zenon DEF MsgInv, RepliesInv
  <2> QED BY <2>1, <2>2, Zenon DEF Sent
<1> QED BY <1>1, <1>2, <1>3, <1>4, <1>8, <1>9, <1>10, Zenon

(* A call that begins, or a flush that is added to it.                     *)
LEMMA AllocStep ==
    ASSUME Inv, NEW p \in Procs, NEW t \in Tags, Mntralloc(p, t), pc[p] \in {"idle", "eintr"},
           Settled(p, "write"), queue' = queue \cup {t},
           rip' = rip \/ (rip = p /\ rip' = None),
           UNCHANGED <<reply, tgt, note, failed, svars>>
    PROVE  Inv'
<1> USE MntMuxAssumption, SMTT(30) DEF Inv
<1> DEFINE n == Len(chain[p])
<1>0. /\ rpcfree' \subseteq tagmask' /\ tagmask' \subseteq Tags
      /\ done' \in [Tags -> 0 .. 1] /\ chain' \in [Procs -> Seq(Tags)]
  BY Allocated, Zenon
<1>a. /\ t \notin tagmask \ rpcfree
      /\ tagmask' \ rpcfree' = (tagmask \ rpcfree) \cup {t}
  BY Allocated, Zenon
<1>b. done'[t] = 0 /\ \A u \in Tags : u # t => done'[u] = done[u]
  BY Allocated, Zenon
<1>1. Len(chain'[p]) = n + 1 /\ chain'[p][n + 1] = t
  BY Allocated, Zenon
<1>e. \A q \in Procs : \A i \in 1 .. Len(chain[q]) : chain'[q][i] = chain[q][i] /\ chain[q][i] # t
  BY Allocated, Zenon
<1>f. \A q \in Procs : q # p => Len(chain'[q]) = Len(chain[q])
  BY Allocated, Zenon
<1>c. hungup = 0 => ~Sent(t)
  BY Allocated, Zenon
<1>2. n \in Nat /\ \A q \in Procs : \A i \in 1 .. Len(chain[q]) : chain[q][i] \in Tags
  BY ChainType, Zenon
<1>3. ASSUME NEW q \in Procs, NEW i \in 1 .. Len(chain'[q])
      PROVE  \/ i \in 1 .. Len(chain[q])
             \/ q = p /\ i = n + 1 /\ chain'[q][i] = t /\ i \notin 1 .. Len(chain[q])
  BY <1>1, <1>f, <1>2
<1>g. \A q \in Procs : \A i \in 1 .. Len(chain[q]) :
          1 \in 1 .. Len(chain[q]) /\ i \in 1 .. Len(chain'[q])
  <2>1. \A q \in Procs : Len(chain[q]) \in Nat /\ Len(chain'[q]) \in {Len(chain[q]), Len(chain[q]) + 1}
    BY <1>1, <1>f, ChainType, Zenon
  <2> QED BY <2>1
<1>4. \A q \in Procs : q # p => r(q)' = r(q) /\ (pc[q] # "idle" => r(q) \in Tags /\ r(q) # t)
  BY <1>e, <1>f, ChainType DEF ChainInv, r
<1>5. r(p)' = t
  BY <1>1, Zenon DEF r
<1>6. TypeOK'
  BY <1>0, Zenon DEF TypeOK, Settled, svars
<1>7. ChainInv'
  <2>1. \A q \in Procs : pc'[q] = "idle" <=> Len(chain'[q]) = 0
    BY <1>1, <1>f, <1>2 DEF ChainInv, Settled
  <2>2. ASSUME NEW q \in Procs, NEW i \in 1 .. Len(chain'[q])
        PROVE  chain'[q][i] \in tagmask' \ rpcfree'
    <3>1. chain'[q][i] = t \/ (i \in 1 .. Len(chain[q]) /\ chain'[q][i] = chain[q][i])
      BY <1>e, <1>3, Zenon
    <3> QED BY <1>a, <3>1, Zenon DEF ChainInv
  <2>3. ASSUME NEW q \in Procs, NEW x \in Procs, NEW i \in 1 .. Len(chain'[q]),
               NEW j \in 1 .. Len(chain'[x]), chain'[q][i] = chain'[x][j]
        PROVE  q = x /\ i = j
    <3>1. CASE i \in 1 .. Len(chain[q]) /\ j \in 1 .. Len(chain[x])
      <4>1. chain[q][i] = chain[x][j]
        BY <1>e, <2>3, <3>1, Zenon
      <4> QED BY <3>1, <4>1, TagOnce
    <3>2. CASE i \notin 1 .. Len(chain[q])
      <4>1. q = p /\ i = n + 1 /\ chain'[q][i] = t
        BY <1>3, <3>2, Zenon
      <4>2. chain'[x][j] = t
        BY <2>3, <4>1, Zenon
      <4>3. j \notin 1 .. Len(chain[x])
        BY <1>e, <4>2, Zenon
      <4> QED BY <1>3, <4>1, <4>3, Zenon
    <3>3. CASE j \notin 1 .. Len(chain[x])
      <4>1. x = p /\ j = n + 1 /\ chain'[x][j] = t
        BY <1>3, <3>3, Zenon
      <4>2. chain'[q][i] = t
        BY <2>3, <4>1, Zenon
      <4>3. i \notin 1 .. Len(chain[q])
        BY <1>e, <4>2, Zenon
      <4> QED BY <1>3, <4>1, <4>3, Zenon
    <3> QED BY <3>1, <3>2, <3>3, Zenon
  <2> QED BY <2>1, <2>2, <2>3, Zenon DEF ChainInv
<1>8. LabelInv'
  <2> SUFFICES ASSUME NEW q \in Procs
               PROVE  /\ pc'[q] \in {"read", "wakeup", "mntgate"} => rip' = q
                      /\ pc'[q] \in {"read", "wakeup"} => done'[r(q)'] = 0
                      /\ pc'[q] = "return" => Len(chain'[q]) = 1 /\ done'[r(q)'] = 1
                      /\ pc'[q] = "error" => failed[q] = 1
                      /\ failed[q] = 1 => hungup = 1
    BY Zenon DEF LabelInv, svars
  <2>1. CASE q = p
    BY <2>1, Zenon DEF Settled, LabelInv
  <2>2. CASE q # p
    BY <1>b, <1>f, <1>4, <2>2 DEF Settled, LabelInv
  <2> QED BY <2>1, <2>2, Zenon
<1>9. PendingInv'
  <2> SUFFICES ASSUME NEW m \in pending
               PROVE  \E q \in Procs :
                          /\ m.nth \in 1 .. Len(chain'[q]) /\ m.tag = chain'[q][m.nth]
                          /\ m.oldtag = (IF m.nth = 1 THEN 0 ELSE chain'[q][1])
                          /\ m.who = For(q, m.nth)
    BY Zenon DEF PendingInv, For, svars
  <2>1. PICK q \in Procs : /\ m.nth \in 1 .. Len(chain[q]) /\ m.tag = chain[q][m.nth]
                           /\ m.oldtag = (IF m.nth = 1 THEN 0 ELSE chain[q][1])
                           /\ m.who = For(q, m.nth)
    BY Zenon DEF PendingInv
  <2>2. 1 \in 1 .. Len(chain[q]) /\ m.nth \in 1 .. Len(chain'[q])
    BY <1>g, <2>1, Zenon
  <2> QED BY <1>e, <2>1, <2>2, Zenon
<1>10. MsgInv'
  <2> SUFFICES ASSUME hungup = 0 PROVE RepliesInv' /\ OnceInv' /\ OrderInv' /\ DoneInv'
    BY Zenon DEF MsgInv, svars
  <2>1. RepliesInv /\ OnceInv /\ OrderInv /\ DoneInv
    BY Zenon DEF MsgInv
  <2>2. RepliesInv'
    <3> SUFFICES ASSUME NEW a \in 1 .. Len(replies)
                 PROVE  \E q \in Procs : \E i \in 1 .. Len(chain'[q]) :
                            replies[a].tag = chain'[q][i] /\ replies[a].who = For(q, i)
      BY Zenon DEF RepliesInv, For, svars
    <3>1. PICK q \in Procs : \E i \in 1 .. Len(chain[q]) :
              replies[a].tag = chain[q][i] /\ replies[a].who = For(q, i)
      BY <2>1, Zenon DEF RepliesInv
    <3>2. \A i \in 1 .. Len(chain[q]) : i \in 1 .. Len(chain'[q])
      BY <1>g, Zenon
    <3> QED BY <1>e, <3>1, <3>2, Zenon
  <2>3. OnceInv'
    BY <2>1, Zenon DEF OnceInv, svars
  <2>4. \A u \in Tags : Sent(u)' <=> Sent(u)
    BY Zenon DEF Sent, svars
  <2>5. \A a \in 1 .. Len(replies) : replies[a].tag # t
    BY <1>c, Zenon DEF Sent
  <2>6. \A m \in pending : m.tag # t
    BY <1>c, Zenon DEF Sent
  <2>7. OrderInv'
    <3> SUFFICES ASSUME NEW q \in Procs, NEW i \in 1 .. Len(chain'[q]), NEW j \in 1 .. Len(chain'[q]),
                        j < i, NEW a \in 1 .. Len(replies), replies[a].tag = chain'[q][i]
                 PROVE  /\ \A b \in 1 .. Len(replies) : b > a => replies[b].tag # chain'[q][j]
                        /\ \A m \in pending : m.tag # chain'[q][j]
      <4>1. replies' = replies /\ pending' = pending
        BY Zenon DEF svars
      <4> QED BY <4>1, SMTT(30) DEF OrderInv
    <3>1. CASE j \in 1 .. Len(chain[q]) /\ i \in 1 .. Len(chain[q])
      <4>1. chain'[q][i] = chain[q][i] /\ chain'[q][j] = chain[q][j]
        BY <1>e, <3>1, Zenon
      <4> QED BY <2>1, <3>1, <4>1, RepliesOrdered, Zenon
    <3>2. CASE ~(j \in 1 .. Len(chain[q]) /\ i \in 1 .. Len(chain[q]))
      <4>1. chain'[q][j] = t \/ chain'[q][i] = t
        BY <1>3, <3>2, Zenon
      <4> QED BY <2>5, <2>6, <4>1, Zenon
    <3> QED BY <3>1, <3>2, Zenon
  <2>8. ASSUME NEW q \in Procs, NEW i \in 1 .. Len(chain'[q]), done'[chain'[q][i]] = 1,
               NEW j \in 1 .. i
        PROVE  ~Sent(chain[q][j])'
    <3>1. i \in 1 .. Len(chain[q])
      <4>1. done'[chain'[q][i]] # 0
        BY <2>8
      <4> QED BY <1>b, <1>3, <4>1, Zenon
    <3>2. j \in 1 .. Len(chain[q])
      BY <3>1, ChainType, OlderListed, Zenon
    <3>a. chain'[q][i] = chain[q][i] /\ chain[q][i] # t /\ chain[q][i] \in Tags
      BY <1>e, <1>2, <3>1, Zenon
    <3>b. done[chain[q][i]] = 1
      BY <1>b, <2>8, <3>a, Zenon
    <3>3. ~Sent(chain[q][j])
      BY <2>1, <3>1, <3>b, Zenon DEF DoneInv
    <3> QED BY <1>e, <1>2, <2>4, <3>2, <3>3, Zenon
  <2>9. ASSUME NEW q \in Procs, pc'[q] = "write" PROVE done'[r(q)'] = 0 /\ ~Sent(r(q))'
    <3>1. CASE q = p
      BY <1>b, <1>c, <1>5, <2>4, <3>1, Zenon
    <3>2. CASE q # p
      <4>1. pc[q] = "write" /\ done[r(q)] = 0 /\ ~Sent(r(q))
        BY <2>1, <2>9, <3>2, Zenon DEF DoneInv, Settled
      <4> QED BY <1>b, <1>4, <2>4, <3>2, <4>1, Zenon
    <3> QED BY <3>1, <3>2, Zenon
  <2>10. ASSUME NEW q \in Procs, pc'[q] \in {"mntgate", "free", "return"},
               NEW i \in 1 .. Len(chain'[q])
        PROVE  ~Sent(chain[q][i])'
    <3>1. q # p /\ pc[q] \in {"mntgate", "free", "return"} /\ i \in 1 .. Len(chain[q])
      BY <1>f, <2>10, Zenon DEF Settled
    <3>2. ~Sent(chain[q][i])
      BY <2>1, <3>1, Zenon DEF DoneInv
    <3> QED BY <1>e, <1>2, <2>4, <3>1, <3>2, Zenon
  <2>11. DoneInv'
    BY <2>8, <2>9, <2>10, Zenon DEF DoneInv
  <2> QED BY <2>2, <2>3, <2>7, <2>11, Zenon
<1>11. OwnInv'
  <2> SUFFICES ASSUME NEW q \in Procs, pc'[q] # "idle", ~Doomed(q)'
               PROVE  /\ \A a \in 1 .. Len(replies) : replies[a].tag = chain'[q][1] => replies[a].who = q
                      /\ done'[chain'[q][1]] = 1 => reply[chain'[q][1]] \in {q, Rflush}
    BY Zenon DEF OwnInv, Original, svars
  <2>1. CASE pc[q] = "idle"
    <3>1. q = p /\ n = 0 /\ chain'[q][1] = t
      BY <1>1, <2>1 DEF Settled, ChainInv
    <3>2. hungup = 0
      BY <3>1 DEF Settled, Doomed, svars, TypeOK
    <3> QED BY <1>b, <1>c, <3>1, <3>2 DEF Sent
  <2>2. CASE pc[q] # "idle"
    <3>1. 1 \in 1 .. Len(chain[q])
      BY <2>2, ChainType, Zenon DEF ChainInv
    <3>2. ~Doomed(q)
      BY <2>2, Zenon DEF Doomed, Settled, svars
    <3>3. chain'[q][1] = chain[q][1] /\ chain[q][1] # t /\ chain[q][1] \in Tags
      BY <1>e, <1>2, <3>1, Zenon
    <3> QED BY <1>b, <2>2, <3>2, <3>3 DEF OwnInv, Original
  <2> QED BY <2>1, <2>2, Zenon
<1> QED BY <1>6, <1>7, <1>8, <1>9, <1>10, <1>11, Zenon


(* mntfree keeps the tag with a Mntrpc on the free list or gives it up.    *)
LEMMA Freed ==
    ASSUME TypeOK, NEW t \in tagmask \ rpcfree, Mntfree(t)
    PROVE  /\ rpcfree' \subseteq tagmask' /\ tagmask' \subseteq Tags
           /\ tagmask' \ rpcfree' = (tagmask \ rpcfree) \ {t}
           /\ done' \in [Tags -> 0 .. 1] /\ reply' \in [Tags -> Procs \cup {None, Rflush}]
           /\ \A u \in Tags : u # t => done'[u] = done[u] /\ reply'[u] = reply[u]
<1>1. t \in Tags
  BY Zenon DEF TypeOK
<1>2. \/ tagmask' = tagmask \ {t} /\ rpcfree' = rpcfree
      \/ rpcfree' = rpcfree \cup {t} /\ tagmask' = tagmask
  BY Zenon DEF Mntfree
<1>3. rpcfree \subseteq tagmask /\ tagmask \subseteq Tags
  BY Zenon DEF TypeOK
<1>4. /\ rpcfree' \subseteq tagmask' /\ tagmask' \subseteq Tags
      /\ tagmask' \ rpcfree' = (tagmask \ rpcfree) \ {t}
  BY <1>2, <1>3, Zenon
<1>5. /\ done' = [done EXCEPT ![t] = 0] /\ done \in [Tags -> 0 .. 1]
      /\ reply' = [reply EXCEPT ![t] = None] /\ reply \in [Tags -> Procs \cup {None, Rflush}]
  BY Zenon DEF Mntfree, TypeOK
<1> QED BY <1>1, <1>4, <1>5

(* The last Mntrpc of a call has been freed: a flush, or the request       *)
(* itself, which ends the call.  Replies to p may be marked as nobody's.   *)
Shorter(p) ==
    /\ Len(chain'[p]) = Len(chain[p]) - 1
    /\ \A i \in 1 .. Len(chain[p]) - 1 : chain'[p][i] = chain[p][i]
    /\ \A q \in Procs : q # p => chain'[q] = chain[q]

(* What it leaves of the calls, the call's own part included.              *)
OthersStay(p) ==
    /\ \A q \in Procs : q # p => pc'[q] = pc[q] /\ failed'[q] = failed[q]
    /\ Len(chain[p]) = 1 => pc'[p] = "idle" /\ failed'[p] = 0
    /\ Len(chain[p]) # 1 => pc'[p] = "free" /\ failed'[p] = failed[p]

(* What it leaves of the messages.                                         *)
TagsStay(p) ==
    /\ hungup = 0 => pending' = pending /\ replies' = replies
    /\ hungup = 1 => pending' = {}
    /\ Len(chain[p]) # 1 => replies' = replies
    /\ Len(replies') = Len(replies)
    /\ \A a \in 1 .. Len(replies) :
           /\ replies'[a].tag = replies[a].tag
           /\ replies[a].who # p => replies'[a].who = replies[a].who

(* Freeing it keeps the invariant: nothing with its tag is on its way.     *)
LEMMA FreeStep ==
    ASSUME Inv, TypeOK', NEW p \in Procs, pc[p] \in {"free", "return"}, Mntfree(r(p)),
           Shorter(p), OthersStay(p), TagsStay(p), rip' = rip, hungup' = hungup
    PROVE  Inv'
<1> USE MntMuxAssumption, SMTT(30) DEF Inv
<1> DEFINE n == Len(chain[p])
<1>0. n \in Nat \ {0} /\ n \in 1 .. n /\ 1 \in 1 .. n /\ r(p) = chain[p][n] /\ r(p) \in tagmask \ rpcfree
  BY ChainType, Zenon DEF ChainInv, r
<1>1. /\ rpcfree' \subseteq tagmask' /\ tagmask' \subseteq Tags
      /\ tagmask' \ rpcfree' = (tagmask \ rpcfree) \ {r(p)}
      /\ \A u \in Tags : u # r(p) => done'[u] = done[u] /\ reply'[u] = reply[u]
  BY <1>0, Freed, Zenon
<1>2. \A q \in Procs : \A i \in 1 .. Len(chain[q]) : chain[q][i] \in Tags
  BY ChainType, Zenon
<1>3. ASSUME NEW q \in Procs, NEW i \in 1 .. Len(chain'[q])
      PROVE  i \in 1 .. Len(chain[q]) /\ chain'[q][i] = chain[q][i] /\ chain[q][i] # r(p)
  <2>1. CASE q = p
    <3>1. i \in 1 .. n - 1 /\ i \in 1 .. n /\ i # n /\ chain'[p][i] = chain[p][i]
      BY <1>0, <2>1 DEF Shorter
    <3> QED BY <1>0, <2>1, <3>1 DEF ChainInv
  <2>2. CASE q # p
    <3>1. chain'[q] = chain[q]
      BY <2>2, Zenon DEF Shorter
    <3> QED BY <1>0, <2>2, <3>1 DEF ChainInv
  <2> QED BY <2>1, <2>2, Zenon
<1>4. ASSUME NEW q \in Procs, NEW i \in 1 .. Len(chain[q])
      PROVE  i \in 1 .. Len(chain'[q]) \/ (q = p /\ i = n)
  BY <1>0 DEF Shorter
<1>5. ChainInv'
  <2>1. ASSUME NEW q \in Procs PROVE pc'[q] = "idle" <=> Len(chain'[q]) = 0
    <3>1. CASE q = p
      <4>1. CASE Len(chain[p]) = 1
        BY <3>1, <4>1 DEF Shorter, OthersStay
      <4>2. CASE Len(chain[p]) # 1
        <5>1. Len(chain'[p]) # 0 /\ pc'[p] = "free"
          BY <1>0, <4>2 DEF Shorter, OthersStay
        <5> QED BY <3>1, <5>1, Zenon
      <4> QED BY <4>1, <4>2, Zenon
    <3>2. CASE q # p
      <4>1. pc'[q] = pc[q] /\ Len(chain'[q]) = Len(chain[q])
        BY <3>2, Zenon DEF Shorter, OthersStay
      <4>2. pc[q] = "idle" <=> Len(chain[q]) = 0
        BY Zenon DEF ChainInv
      <4> QED BY <4>1, <4>2, Zenon
    <3> QED BY <3>1, <3>2, Zenon
  <2>2. \A q \in Procs : \A i \in 1 .. Len(chain'[q]) : chain'[q][i] \in tagmask' \ rpcfree'
    BY <1>1, <1>3 DEF ChainInv
  <2>3. ASSUME NEW q \in Procs, NEW x \in Procs, NEW i \in 1 .. Len(chain'[q]),
               NEW j \in 1 .. Len(chain'[x]), chain'[q][i] = chain'[x][j]
        PROVE  q = x /\ i = j
    BY <1>3, <2>3 DEF ChainInv
  <2> QED BY <2>1, <2>2, <2>3, Zenon DEF ChainInv
<1>6. \A q \in Procs : q # p => r(q)' = r(q) /\ (pc[q] # "idle" => r(q) \in Tags /\ r(q) # r(p))
  <2> SUFFICES ASSUME NEW q \in Procs, q # p
               PROVE  r(q)' = r(q) /\ (pc[q] # "idle" => r(q) \in Tags /\ r(q) # r(p))
    BY Zenon
  <2>1. r(q)' = r(q)
    BY Zenon DEF r, Shorter
  <2>2. ASSUME pc[q] # "idle" PROVE r(q) \in Tags /\ r(q) # r(p)
    <3>1. Len(chain[q]) \in 1 .. Len(chain[q])
      BY <2>2, ChainType, Zenon DEF ChainInv
    <3> QED BY <1>0, <1>2, <3>1, Zenon DEF ChainInv, r
  <2> QED BY <2>1, <2>2, Zenon
<1>7. LabelInv'
  <2> SUFFICES ASSUME NEW q \in Procs
               PROVE  /\ pc'[q] \in {"read", "wakeup", "mntgate"} => rip = q
                      /\ pc'[q] \in {"read", "wakeup"} => done'[r(q)'] = 0
                      /\ pc'[q] = "return" => Len(chain'[q]) = 1 /\ done'[r(q)'] = 1
                      /\ pc'[q] = "error" => failed'[q] = 1
                      /\ failed'[q] = 1 => hungup = 1
    BY Zenon DEF LabelInv
  <2>1. CASE q = p
    <3>1. pc'[p] \in {"idle", "free"} /\ failed'[p] \in {0, failed[p]}
      BY Zenon DEF OthersStay
    <3> QED BY <2>1, <3>1 DEF LabelInv
  <2>2. CASE q # p
    <3>1. pc'[q] = pc[q] /\ failed'[q] = failed[q] /\ chain'[q] = chain[q]
      BY <2>2, Zenon DEF OthersStay, Shorter
    <3>2. r(q)' = r(q) /\ (pc[q] # "idle" => done'[r(q)] = done[r(q)])
      BY <1>1, <1>6, <2>2, Zenon
    <3>3. "read" # "idle" /\ "wakeup" # "idle" /\ "return" # "idle"
      BY Zenon
    <3> QED BY <3>1, <3>2, <3>3, Zenon DEF LabelInv
  <2> QED BY <2>1, <2>2, Zenon
<1>8. hungup = 0 \/ hungup = 1
  BY DEF TypeOK
<1>9. ASSUME hungup = 0
      PROVE  /\ RepliesInv /\ OnceInv /\ OrderInv /\ DoneInv /\ ~Sent(r(p))
             /\ pending' = pending /\ replies' = replies
  BY <1>0, <1>9, Zenon DEF MsgInv, DoneInv, TagsStay
<1>13. \A q \in Procs : Len(chain'[q]) \in Nat
  <2>1. Len(chain'[p]) \in Nat
    BY <1>0, CallLength, Zenon DEF Shorter
  <2>2. \A q \in Procs \ {p} : Len(chain'[q]) \in Nat
    BY ChainType, Zenon DEF Shorter
  <2> QED BY <2>1, <2>2, Zenon
<1>10. PendingInv'
  <2>1. CASE hungup = 1
    BY <2>1, Zenon DEF PendingInv, TagsStay
  <2>2. CASE hungup = 0
    <3> SUFFICES ASSUME NEW m \in pending
                 PROVE  \E q \in Procs :
                            /\ m.nth \in 1 .. Len(chain'[q]) /\ m.tag = chain'[q][m.nth]
                            /\ m.oldtag = (IF m.nth = 1 THEN 0 ELSE chain'[q][1])
                            /\ m.who = For(q, m.nth)
      BY <1>9, <2>2, Zenon DEF PendingInv, For
    <3>1. PICK q \in Procs : /\ m.nth \in 1 .. Len(chain[q]) /\ m.tag = chain[q][m.nth]
                             /\ m.oldtag = (IF m.nth = 1 THEN 0 ELSE chain[q][1])
                             /\ m.who = For(q, m.nth)
      BY Zenon DEF PendingInv
    <3>2. ~(q = p /\ m.nth = n)
      BY <1>0, <1>9, <2>2, <3>1, Zenon DEF Sent
    <3>3. m.nth \in 1 .. Len(chain'[q])
      BY <1>4, <3>1, <3>2, Zenon
    <3>4. 1 \in 1 .. Len(chain'[q])
      BY <3>3, <1>13
    <3> QED BY <1>3, <3>1, <3>3, <3>4, Zenon
  <2> QED BY <1>8, <2>1, <2>2, Zenon
<1>11. MsgInv'
  <2> SUFFICES ASSUME hungup = 0 PROVE RepliesInv' /\ OnceInv' /\ OrderInv' /\ DoneInv'
    BY Zenon DEF MsgInv
  <2>1. RepliesInv'
    <3> SUFFICES ASSUME NEW a \in 1 .. Len(replies')
                 PROVE  \E q \in Procs : \E i \in 1 .. Len(chain'[q]) :
                            replies'[a].tag = chain'[q][i] /\ replies'[a].who = For(q, i)
      BY Zenon DEF RepliesInv, For
    <3>a. replies' = replies /\ a \in 1 .. Len(replies)
      BY <1>9, Zenon
    <3>0. PICK q \in Procs : \E i \in 1 .. Len(chain[q]) :
              replies[a].tag = chain[q][i] /\ replies[a].who = For(q, i)
      BY <1>9, <3>a, Zenon DEF RepliesInv
    <3>1. PICK i \in 1 .. Len(chain[q]) :
              replies[a].tag = chain[q][i] /\ replies[a].who = For(q, i)
      BY <3>0, Zenon
    <3>2. ~(q = p /\ i = n)
      BY <1>0, <1>9, <3>1, Zenon DEF Sent
    <3>3. i \in 1 .. Len(chain'[q])
      BY <1>4, <3>2, Zenon
    <3> QED BY <1>3, <3>a, <3>1, <3>3, Zenon
  <2>2. OnceInv'
    BY <1>9, Zenon DEF OnceInv
  <2>3. OrderInv'
    <3> SUFFICES ASSUME NEW q \in Procs, NEW i \in 1 .. Len(chain'[q]), NEW j \in 1 .. Len(chain'[q]),
                        j < i, NEW a \in 1 .. Len(replies'), replies'[a].tag = chain'[q][i]
                 PROVE  /\ \A b \in 1 .. Len(replies') : b > a => replies'[b].tag # chain'[q][j]
                        /\ \A m \in pending' : m.tag # chain'[q][j]
      BY Zenon DEF OrderInv
    <3>a. /\ replies' = replies /\ pending' = pending /\ OrderInv
          /\ a \in 1 .. Len(replies) /\ replies[a].tag = chain'[q][i]
      BY <1>9, Zenon
    <3>1. /\ i \in 1 .. Len(chain[q]) /\ chain'[q][i] = chain[q][i]
          /\ j \in 1 .. Len(chain[q]) /\ chain'[q][j] = chain[q][j]
      BY <1>3, Zenon
    <3>2. /\ \A b \in 1 .. Len(replies) : b > a => replies[b].tag # chain[q][j]
          /\ \A m \in pending : m.tag # chain[q][j]
      BY <3>a, <3>1, RepliesOrdered, Zenon
    <3> QED BY <3>a, <3>1, <3>2, Zenon
  <2>4. \A u \in Tags : Sent(u)' <=> Sent(u)
    BY <1>9, Zenon DEF Sent
  <2>5. ASSUME NEW q \in Procs, NEW i \in 1 .. Len(chain'[q]), done'[chain'[q][i]] = 1,
               NEW j \in 1 .. i
        PROVE  ~Sent(chain[q][j])'
    <3>1. i \in 1 .. Len(chain[q]) /\ chain'[q][i] = chain[q][i] /\ chain[q][i] # r(p)
      BY <1>3, Zenon
    <3>2. done[chain[q][i]] = 1
      BY <1>1, <1>2, <2>5, <3>1, Zenon
    <3>d. DoneInv
      BY <1>9, Zenon
    <3>3. ~Sent(chain[q][j])
      BY <3>d, <3>1, <3>2, Zenon DEF DoneInv
    <3>4. j \in 1 .. Len(chain'[q]) /\ j \in 1 .. Len(chain[q])
      BY <1>13, <3>1, ChainType, OlderListed, Zenon
    <3> QED BY <1>2, <1>3, <2>4, <3>3, <3>4, Zenon
  <2>6. ASSUME NEW q \in Procs, pc'[q] = "write" PROVE done'[r(q)'] = 0 /\ ~Sent(r(q))'
    <3>1. q # p /\ pc[q] = "write"
      BY <2>6, Zenon DEF OthersStay
    <3>2. pc[q] = "write" /\ done[r(q)] = 0 /\ ~Sent(r(q))
      BY <1>9, <3>1, Zenon DEF DoneInv
    <3> QED BY <1>1, <1>6, <2>4, <3>1, <3>2, Zenon
  <2>7. ASSUME NEW q \in Procs, pc'[q] \in {"mntgate", "free", "return"},
               NEW i \in 1 .. Len(chain'[q])
        PROVE  ~Sent(chain[q][i])'
    <3>1. pc[q] \in {"mntgate", "free", "return"}
      BY <2>7, Zenon DEF OthersStay
    <3>2. i \in 1 .. Len(chain[q]) /\ chain'[q][i] = chain[q][i]
      BY <1>3, Zenon
    <3>3. ~Sent(chain[q][i])
      BY <1>9, <3>1, <3>2, Zenon DEF DoneInv
    <3> QED BY <1>2, <2>4, <3>2, <3>3, Zenon
  <2>8. DoneInv'
    BY <2>5, <2>6, <2>7, Zenon DEF DoneInv
  <2> QED BY <2>1, <2>2, <2>3, <2>8, Zenon
<1>12. OwnInv'
  <2> SUFFICES ASSUME NEW q \in Procs, pc'[q] # "idle", ~Doomed(q)'
               PROVE  /\ \A a \in 1 .. Len(replies) : replies'[a].tag = chain'[q][1] => replies'[a].who = q
                      /\ done'[chain'[q][1]] = 1 => reply'[chain'[q][1]] \in {q, Rflush}
    BY Zenon DEF OwnInv, Original, TagsStay
  <2>1. pc[q] # "idle" /\ ~Doomed(q)
    BY Zenon DEF Doomed, OthersStay
  <2>2. 1 \in 1 .. Len(chain'[q])
    <3>1. Len(chain'[q]) # 0
      BY <1>5, Zenon DEF ChainInv
    <3> QED BY <1>13, <3>1, CallLength, Zenon
  <2>3. chain'[q][1] = chain[q][1] /\ chain[q][1] # r(p) /\ chain[q][1] \in Tags
    BY <1>2, <1>3, <2>2, Zenon
  <2>4. /\ \A a \in 1 .. Len(replies) : replies[a].tag = chain[q][1] => replies[a].who = q
        /\ done[chain[q][1]] = 1 => reply[chain[q][1]] \in {q, Rflush}
    BY <2>1, Zenon DEF OwnInv, Original
  <2>5. q = p => replies' = replies
    BY Zenon DEF OthersStay, TagsStay
  <2>6. \A a \in 1 .. Len(replies) : replies'[a].tag = chain'[q][1] => replies'[a].who = q
    BY <2>3, <2>4, <2>5, Zenon DEF TagsStay
  <2> QED BY <1>1, <2>3, <2>4, <2>6, Zenon
<1> QED BY <1>5, <1>7, <1>10, <1>11, <1>12, Zenon

(* mntflushfree keeps the invariant.                                       *)
LEMMA FlushfreeStep ==
    ASSUME Inv, NEW p \in Procs, Mntflushfree(p)
    PROVE  Inv'
<1> USE MntMuxAssumption, SMTT(30) DEF Inv
<1> DEFINE n == Len(chain[p])
<1>0. /\ pc[p] = "free" /\ n \in Nat \ {0} /\ 1 \in 1 .. n
      /\ r(p) = chain[p][n] /\ r(p) \in tagmask \ rpcfree /\ r(p) \in Tags
  BY ChainType, Zenon DEF ChainInv, r, Mntflushfree
<1>1. UNCHANGED <<rip, svars, tgt, note, failed>> /\ queue' \subseteq Tags
  BY Zenon DEF Mntflushfree, mntqrm, TypeOK
<1>2. CASE n > 1
  <2>1. Mntfree(r(p)) /\ chain' = [chain EXCEPT ![p] = SubSeq(chain[p], 1, n - 1)] /\ pc' = pc
    BY <1>2, Zenon DEF Mntflushfree
  <2>2. chain \in [Procs -> Seq(Tags)] /\ chain[p] \in Seq(Tags)
    BY Zenon DEF TypeOK
  <2>3. /\ SubSeq(chain[p], 1, n - 1) \in Seq(Tags) /\ Len(SubSeq(chain[p], 1, n - 1)) = n - 1
        /\ \A i \in 1 .. n - 1 : SubSeq(chain[p], 1, n - 1)[i] = chain[p][i]
    BY <1>0, <1>2, <2>2
  <2>4. /\ chain' \in [Procs -> Seq(Tags)] /\ Len(chain'[p]) = n - 1
        /\ \A i \in 1 .. n - 1 : chain'[p][i] = chain[p][i]
        /\ \A q \in Procs : q # p => chain'[q] = chain[q]
    BY <2>1, <2>2, <2>3, Zenon
  <2>5. /\ rpcfree' \subseteq tagmask' /\ tagmask' \subseteq Tags
        /\ done' \in [Tags -> 0 .. 1] /\ reply' \in [Tags -> Procs \cup {None, Rflush}]
    BY <1>0, <2>1, Freed, Zenon
  <2>6. TypeOK'
    BY <1>1, <2>1, <2>4, <2>5, Zenon DEF TypeOK, svars
  <2>7. hungup = 1 => pending' = {}
    BY <1>1, Zenon DEF PendingInv, svars
  <2>8. Shorter(p)
    BY <2>4, Zenon DEF Shorter
  <2>9. OthersStay(p)
    BY <1>0, <1>1, <1>2, <2>1 DEF OthersStay
  <2>10. TagsStay(p)
    BY <1>1, <2>7, Zenon DEF TagsStay, svars
  <2>11. rip' = rip /\ hungup' = hungup
    BY <1>1, Zenon DEF svars
  <2> QED BY <1>0, <2>1, <2>6, <2>8, <2>9, <2>10, <2>11, FreeStep, Zenon
<1>3. CASE n = 1
  <2>1. /\ done' = [done EXCEPT ![r(p)] = 1]
        /\ reply' = [reply EXCEPT ![r(p)] = IF done[r(p)] = 0 THEN Rflush ELSE @]
        /\ pc' = [pc EXCEPT ![p] = "return"]
        /\ UNCHANGED <<avars, chain>>
    BY <1>3 DEF Mntflushfree, Goto
  <2>2. /\ done \in [Tags -> 0 .. 1] /\ reply \in [Tags -> Procs \cup {None, Rflush}]
        /\ pc \in [Procs -> Labels]
    BY Zenon DEF TypeOK
  <2>3. /\ done' \in [Tags -> 0 .. 1] /\ reply' \in [Tags -> Procs \cup {None, Rflush}]
        /\ pc' \in [Procs -> Labels] /\ done'[r(p)] = 1
        /\ \A u \in Tags : u # r(p) => done'[u] = done[u] /\ reply'[u] = reply[u]
        /\ pc'[p] = "return" /\ \A q \in Procs : q # p => pc'[q] = pc[q]
    BY <1>0, <2>1, <2>2 DEF Labels
  <2>4. TypeOK'
    BY <1>1, <2>1, <2>3, Zenon DEF TypeOK, avars, svars
  <2>5. ChainInv'
    BY <1>0, <2>1, <2>3 DEF ChainInv, avars
  <2>6. \A q \in Procs : q # p /\ pc[q] # "idle" => r(q) \in Tags /\ r(q) # r(p)
    <3> SUFFICES ASSUME NEW q \in Procs, q # p, pc[q] # "idle" PROVE r(q) \in Tags /\ r(q) # r(p)
      BY Zenon
    <3>1. Len(chain[q]) \in 1 .. Len(chain[q]) /\ n \in 1 .. n
      BY <1>0, ChainType, Zenon DEF ChainInv
    <3> QED BY <1>0, <3>1, ChainType, Zenon DEF ChainInv, r
  <2>7. \A q \in Procs : r(q)' = r(q)
    BY <2>1, Zenon DEF r
  <2>8. LabelInv'
    <3> SUFFICES ASSUME NEW q \in Procs
                 PROVE  /\ pc'[q] \in {"read", "wakeup", "mntgate"} => rip = q
                        /\ pc'[q] \in {"read", "wakeup"} => done'[r(q)] = 0
                        /\ pc'[q] = "return" => Len(chain[q]) = 1 /\ done'[r(q)] = 1
                        /\ pc'[q] = "error" => failed[q] = 1
                        /\ failed[q] = 1 => hungup = 1
      BY <1>1, <2>1, <2>7 DEF LabelInv, svars
    <3>1. CASE q = p
      BY <1>3, <2>3, <3>1, Zenon DEF LabelInv
    <3>2. CASE q # p
      BY <2>3, <2>6, <3>2, Zenon DEF LabelInv
    <3> QED BY <3>1, <3>2, Zenon
  <2>9. PendingInv'
    BY <1>1, <2>1, Zenon DEF PendingInv, For, svars
  <2>10. MsgInv'
    <3> SUFFICES ASSUME hungup = 0 PROVE RepliesInv' /\ OnceInv' /\ OrderInv' /\ DoneInv'
      BY <1>1, Zenon DEF MsgInv, svars
    <3>0. RepliesInv /\ OnceInv /\ OrderInv /\ DoneInv
      BY Zenon DEF MsgInv
    <3>1. RepliesInv' /\ OnceInv' /\ OrderInv'
      BY <1>1, <2>1, <3>0, SameMessages, Zenon DEF svars
    <3>4. \A u \in Tags : Sent(u)' <=> Sent(u)
      BY <1>1, Zenon DEF Sent, svars
    <3>5. ASSUME NEW q \in Procs, NEW i \in 1 .. Len(chain[q]), done'[chain[q][i]] = 1,
                 NEW j \in 1 .. i
          PROVE  ~Sent(chain[q][j])
      <4>1. CASE done[chain[q][i]] = 1
        BY <3>0, <4>1, Zenon DEF DoneInv
      <4>2. CASE done[chain[q][i]] # 1
        <5>0. chain[q][i] \in Tags
          BY ChainType, Zenon
        <5>1. chain[q][i] = r(p)
          BY <2>3, <3>5, <4>2, <5>0, Zenon
        <5>a. chain[q][i] = chain[p][1]
          BY <1>0, <1>3, <5>1, Zenon
        <5>2. q = p /\ i = 1
          BY <1>0, <5>a, TagOnce
        <5>3. j \in 1 .. Len(chain[p])
          BY <1>0, <1>3, <5>2, Zenon
        <5> QED BY <1>0, <3>0, <5>2, <5>3, Zenon DEF DoneInv
      <4> QED BY <4>1, <4>2, Zenon
    <3>6. ASSUME NEW q \in Procs, pc'[q] = "write" PROVE done'[r(q)] = 0 /\ ~Sent(r(q)) /\ r(q) \in Tags
      <4>1. q # p /\ pc[q] = "write"
        BY <2>3, <3>6, Zenon
      <4> QED BY <2>3, <2>6, <3>0, <4>1, Zenon DEF DoneInv
    <3>7. ASSUME NEW q \in Procs, pc'[q] \in {"mntgate", "free", "return"},
                 NEW i \in 1 .. Len(chain[q])
          PROVE  ~Sent(chain[q][i])
      <4>1. pc[q] \in {"mntgate", "free", "return"}
        BY <1>0, <2>3, <3>7, Zenon
      <4> QED BY <3>0, <4>1, Zenon DEF DoneInv
    <3>8. \A q \in Procs : \A i \in 1 .. Len(chain[q]) : chain[q][i] \in Tags
      BY ChainType, Zenon
    <3>9. DoneInv'
      <4> SUFFICES ASSUME NEW q \in Procs
                   PROVE  /\ \A i \in 1 .. Len(chain[q]) : done'[chain[q][i]] = 1 =>
                                 \A j \in 1 .. i : ~Sent(chain[q][j])'
                          /\ pc'[q] = "write" => done'[r(q)] = 0 /\ ~Sent(r(q))'
                          /\ pc'[q] \in {"mntgate", "free", "return"} =>
                                 \A i \in 1 .. Len(chain[q]) : ~Sent(chain[q][i])'
        BY <2>1, <2>7, Zenon DEF DoneInv
      <4>1. ASSUME NEW i \in 1 .. Len(chain[q]), done'[chain[q][i]] = 1, NEW j \in 1 .. i
            PROVE  ~Sent(chain[q][j])'
        <5>1. j \in 1 .. Len(chain[q])
          BY ChainType
        <5> QED BY <2>1, <3>4, <3>5, <3>8, <4>1, <5>1, Zenon
      <4>2. ASSUME pc'[q] = "write" PROVE done'[r(q)] = 0 /\ ~Sent(r(q))'
        BY <2>7, <3>4, <3>6, <4>2, Zenon
      <4>3. ASSUME pc'[q] \in {"mntgate", "free", "return"}, NEW i \in 1 .. Len(chain[q])
            PROVE  ~Sent(chain[q][i])'
        BY <2>1, <3>4, <3>7, <3>8, <4>3, Zenon
      <4> QED BY <4>1, <4>2, <4>3, Zenon
    <3> QED BY <3>1, <3>9, Zenon
  <2>11. OwnInv'
    <3> SUFFICES ASSUME NEW q \in Procs, pc'[q] # "idle", ~Doomed(q)'
                 PROVE  /\ \A a \in 1 .. Len(replies) : replies[a].tag = Original(q) => replies[a].who = q
                        /\ done'[Original(q)] = 1 => reply'[Original(q)] \in {q, Rflush}
      BY <1>1, <2>1, Zenon DEF OwnInv, Original, svars
    <3>1. pc[q] # "idle" /\ ~Doomed(q)
      BY <1>0, <1>1, <2>3, Zenon DEF Doomed, svars
    <3>2. /\ \A a \in 1 .. Len(replies) : replies[a].tag = Original(q) => replies[a].who = q
          /\ done[Original(q)] = 1 => reply[Original(q)] \in {q, Rflush}
      BY <3>1, Zenon DEF OwnInv
    <3>3. Original(q) \in Tags /\ (q # p => Original(q) # r(p)) /\ (q = p => Original(q) = r(p))
      <4>1. 1 \in 1 .. Len(chain[q]) /\ n \in 1 .. n
        BY <1>0, <3>1, ChainType, Zenon DEF ChainInv
      <4> QED BY <1>0, <1>3, <4>1, ChainType, Zenon DEF ChainInv, Original
    <3>4. done[r(p)] = 0 \/ done[r(p)] = 1
      BY <1>0, <2>2
    <3>5. CASE q = p
      BY <1>0, <2>1, <2>2, <3>2, <3>3, <3>4, <3>5, Zenon
    <3>6. CASE q # p
      BY <2>3, <3>2, <3>3, <3>6, Zenon
    <3> QED BY <3>5, <3>6, Zenon
  <2> QED BY <2>4, <2>5, <2>8, <2>9, <2>10, <2>11, Zenon
<1>4. n = 1 \/ n > 1
  <2>1. n \in Nat \ {0}
    BY <1>0, Zenon
  <2> HIDE DEF n
  <2> QED BY <2>1
<1> QED BY <1>2, <1>3, <1>4, Zenon

(* The replies of a call that has returned are marked as nobody's: their   *)
(* tags are as before.                                                     *)
Reply == [tag : Tags, who : Procs \cup {None, Rflush}]

(* mntfree marks what is left to come for p.                               *)
MarksReplies(p) == replies' = [i \in DOMAIN replies |-> Stale(replies[i], p)]

(* What that leaves of the replies.                                        *)
RepliesMarked(p) ==
    /\ replies' \in Seq(Reply) /\ Len(replies') = Len(replies) /\ Len(replies) \in Nat
    /\ \A a \in 1 .. Len(replies) :
           /\ replies'[a].tag = replies[a].tag
           /\ replies[a].who # p => replies'[a].who = replies[a].who
    /\ (\A a \in 1 .. Len(replies) : replies[a].who # p) => replies' = replies

(* mntfree of a call that returns: what is left to come for it is          *)
(* nobody's.                                                               *)
LEMMA StaleReplies ==
    ASSUME NEW p \in Procs, replies \in Seq(Reply), MarksReplies(p)
    PROVE  RepliesMarked(p)
<1>1. /\ Len(replies) \in Nat /\ DOMAIN replies = 1 .. Len(replies)
      /\ \A a \in 1 .. Len(replies) : replies[a] \in Reply
  OBVIOUS
<1>2. \A m \in Reply : /\ Stale(m, p) \in Reply /\ Stale(m, p).tag = m.tag
                       /\ m.who # p => Stale(m, p) = m
  BY Zenon DEF Stale, Reply
<1>3. replies' = [i \in 1 .. Len(replies) |-> Stale(replies[i], p)]
  BY <1>1, Zenon DEF MarksReplies
<1>4. \A a \in 1 .. Len(replies) : Stale(replies[a], p) \in Reply
  BY <1>1, <1>2, Zenon
<1>5. PICK k \in Nat : k = Len(replies)
  BY <1>1, Zenon
<1>6. replies' = [i \in 1 .. k |-> Stale(replies[i], p)] /\ \A a \in 1 .. k : Stale(replies[a], p) \in Reply
  BY <1>3, <1>4, <1>5, Zenon
<1>7. replies' \in Seq(Reply) /\ Len(replies') = k
  BY <1>6
<1>8. \A a \in 1 .. Len(replies) :
          replies'[a].tag = replies[a].tag /\ (replies[a].who # p => replies'[a].who = replies[a].who)
  BY <1>1, <1>2, <1>3, Zenon
<1>9. ASSUME \A a \in 1 .. Len(replies) : replies[a].who # p PROVE replies' = replies
  <2>1. \A a \in 1 .. Len(replies) : Stale(replies[a], p) = replies[a]
    BY <1>1, <1>2, <1>9, Zenon
  <2>2. replies = [a \in 1 .. Len(replies) |-> replies[a]]
    BY <1>1
  <2> QED BY <1>3, <2>1, <2>2, Zenon
<1> QED BY <1>1, <1>5, <1>7, <1>8, <1>9, Zenon DEF RepliesMarked

(* The end of a call keeps the invariant.                                  *)
LEMMA ReturnStep ==
    ASSUME Inv, NEW p \in Procs, Return(p)
    PROVE  Inv'
<1> USE MntMuxAssumption, SMTT(30) DEF Inv
<1>0. /\ pc[p] = "return" /\ Len(chain[p]) = 1 /\ 1 \in 1 .. Len(chain[p])
      /\ r(p) = chain[p][1] /\ r(p) \in tagmask \ rpcfree
  BY DEF Return, LabelInv, ChainInv, r
<1>1. /\ Mntfree(r(p)) /\ chain' = [chain EXCEPT ![p] = <<>>]
      /\ note' = [note EXCEPT ![p] = 0] /\ failed' = [failed EXCEPT ![p] = 0]
      /\ pending' = {Stale(m, p) : m \in pending}
      /\ replies' = [i \in DOMAIN replies |-> Stale(replies[i], p)]
      /\ pc' = [pc EXCEPT ![p] = "idle"] /\ UNCHANGED <<queue, rip, hungup, tgt>>
  BY Zenon DEF Return, Goto
<1>2. /\ chain \in [Procs -> Seq(Tags)] /\ note \in [Procs -> 0 .. 1] /\ failed \in [Procs -> 0 .. 1]
      /\ pc \in [Procs -> Labels] /\ replies \in Seq(Reply)
  BY Zenon DEF TypeOK, Reply
<1>3. /\ chain' \in [Procs -> Seq(Tags)] /\ note' \in [Procs -> 0 .. 1] /\ failed' \in [Procs -> 0 .. 1]
      /\ pc' \in [Procs -> Labels] /\ chain'[p] = <<>> /\ pc'[p] = "idle" /\ failed'[p] = 0
      /\ \A q \in Procs : q # p => chain'[q] = chain[q] /\ pc'[q] = pc[q] /\ failed'[q] = failed[q]
  BY <1>1, <1>2 DEF Labels
<1>6. /\ replies' \in Seq(Reply) /\ Len(replies') = Len(replies) /\ Len(replies) \in Nat
      /\ \A a \in 1 .. Len(replies) :
             /\ replies'[a].tag = replies[a].tag
             /\ replies[a].who # p => replies'[a].who = replies[a].who
      /\ (\A a \in 1 .. Len(replies) : replies[a].who # p) => replies' = replies
  <2>1. MarksReplies(p)
    BY <1>1, Zenon DEF MarksReplies
  <2>2. replies \in Seq(Reply)
    BY <1>2, Zenon
  <2>3. RepliesMarked(p)
    BY <2>1, <2>2, StaleReplies, Zenon
  <2> QED BY <2>3, Zenon DEF RepliesMarked
<1>7. pending' \subseteq [tag : Tags, nth : Nat, oldtag : Tags \cup {0},
                          who : Procs \cup {None, Rflush}]
  <2>1. \A m \in [tag : Tags, nth : Nat, oldtag : Tags \cup {0}, who : Procs \cup {None, Rflush}] :
            Stale(m, p) \in [tag : Tags, nth : Nat, oldtag : Tags \cup {0},
                             who : Procs \cup {None, Rflush}]
    BY Zenon DEF Stale
  <2> QED BY <1>1, <2>1 DEF TypeOK
<1>8. /\ rpcfree' \subseteq tagmask' /\ tagmask' \subseteq Tags
      /\ done' \in [Tags -> 0 .. 1] /\ reply' \in [Tags -> Procs \cup {None, Rflush}]
  BY <1>0, <1>1, Freed, Zenon
<1>9. TypeOK'
  BY <1>1, <1>3, <1>6, <1>7, <1>8, Zenon DEF TypeOK, Reply
<1>10. ASSUME hungup = 0 PROVE pending' = pending /\ replies' = replies
  <2>1. ~Sent(chain[p][1])
    BY <1>0, <1>10, Zenon DEF MsgInv, DoneInv
  <2>2. \A m \in pending : m.who # p
    <3> SUFFICES ASSUME NEW m \in pending, m.who = p PROVE FALSE
      BY Zenon
    <3>1. PICK q \in Procs : /\ m.nth \in 1 .. Len(chain[q]) /\ m.tag = chain[q][m.nth]
                             /\ m.who = For(q, m.nth)
      BY Zenon DEF PendingInv
    <3>2. q = p /\ m.nth = 1
      BY <3>1, Zenon DEF For
    <3> QED BY <2>1, <3>1, <3>2, Zenon DEF Sent
  <2>3. \A a \in 1 .. Len(replies) : replies[a].who # p
    <3> SUFFICES ASSUME NEW a \in 1 .. Len(replies), replies[a].who = p PROVE FALSE
      BY Zenon
    <3>0. PICK q \in Procs : \E i \in 1 .. Len(chain[q]) :
              replies[a].tag = chain[q][i] /\ replies[a].who = For(q, i)
      BY <1>10, Zenon DEF MsgInv, RepliesInv
    <3>1. PICK i \in 1 .. Len(chain[q]) : replies[a].tag = chain[q][i] /\ replies[a].who = For(q, i)
      BY <3>0, Zenon
    <3>2. q = p /\ i = 1
      BY <3>1, Zenon DEF For
    <3> QED BY <2>1, <3>1, <3>2, Zenon DEF Sent
  <2>4. pending' = pending
    BY <1>1, <2>2, Zenon DEF Stale
  <2>6. replies' = replies
    BY <1>6, <2>3, Zenon
  <2> QED BY <2>4, <2>6, Zenon
<1>11. hungup = 1 => pending' = {}
  BY <1>1, Zenon DEF PendingInv
<1>12. Shorter(p)
  BY <1>0, <1>3 DEF Shorter
<1>13. OthersStay(p)
  BY <1>0, <1>3, Zenon DEF OthersStay
<1>14. TagsStay(p)
  BY <1>0, <1>6, <1>10, <1>11, Zenon DEF TagsStay
<1>15. Mntfree(r(p)) /\ rip' = rip /\ hungup' = hungup
  BY <1>1, Zenon
<1> QED BY <1>0, <1>9, <1>12, <1>13, <1>14, <1>15, FreeStep, Zenon

(* An answer of the server keeps the invariant.                            *)
LEMMA AnswerStep ==
    ASSUME Inv, NEW m \in pending, Answer(m)
    PROVE  Inv'
<1> USE MntMuxAssumption, SMTT(30) DEF Inv
<1> DEFINE M == [tag : Tags, who : Procs \cup {None, Rflush}]
           k == Len(replies)
           R == [tag |-> m.tag, who |-> m.who]
<1>0. /\ UNCHANGED <<mvars, avars, hungup, pc, chain, tgt, note, failed>>
      /\ replies' = Append(replies, R)
      /\ pending' \subseteq pending \ {m}
      /\ \A q \in pending' : \/ m.oldtag = 0 \/ m.oldtag \notin {q.tag, q.oldtag} \/ q.nth > m.nth
  BY Zenon DEF Answer
<1>1. hungup = 0
  BY DEF PendingInv, TypeOK
<1>2. m.tag \in Tags /\ m.who \in Procs \cup {None, Rflush} /\ m.nth \in Nat /\ R \in M
  BY Zenon DEF TypeOK
<1>a. replies \in Seq(M)
  BY Zenon DEF TypeOK
<1>4. R.tag = m.tag /\ R.who = m.who
  BY Zenon
<1> HIDE DEF M, R
<1>b. replies' \in Seq(M)
  BY <1>0, <1>2, <1>a
<1>3. /\ k \in Nat /\ Len(replies') = k + 1
      /\ \A a \in 1 .. k : replies'[a] = replies[a]
      /\ replies'[k + 1] = R
  BY <1>0, <1>2, <1>a
<1>5. TypeOK'
  BY <1>0, <1>b, Zenon DEF TypeOK, mvars, avars, M
<1>6. ChainInv' /\ LabelInv'
  <2>1. ChainInv'
    BY <1>0 DEF ChainInv, avars
  <2>2. LabelInv'
    BY <1>0, Zenon DEF LabelInv, r, mvars
  <2> QED BY <2>1, <2>2, Zenon
<1>7. PendingInv'
  BY <1>0, <1>1, Zenon DEF PendingInv, For
<1>8. RepliesInv /\ OnceInv /\ OrderInv /\ DoneInv
  BY <1>1, Zenon DEF MsgInv
<1>9. PICK p \in Procs : /\ m.nth \in 1 .. Len(chain[p]) /\ m.tag = chain[p][m.nth]
                         /\ m.oldtag = (IF m.nth = 1 THEN 0 ELSE chain[p][1])
                         /\ m.who = For(p, m.nth)
  BY Zenon DEF PendingInv
<1>10. \A q \in pending' : q \in pending /\ q.tag # m.tag
  <2> SUFFICES ASSUME NEW q \in pending', q.tag = m.tag PROVE FALSE
    BY <1>0, Zenon
  <2>1. q \in pending /\ q # m
    BY <1>0, Zenon
  <2>2. PICK x \in Procs : /\ q.nth \in 1 .. Len(chain[x]) /\ q.tag = chain[x][q.nth]
                           /\ q.oldtag = (IF q.nth = 1 THEN 0 ELSE chain[x][1])
                           /\ q.who = For(x, q.nth)
    BY <2>1, Zenon DEF PendingInv
  <2>3. x = p /\ q.nth = m.nth
    BY <1>9, <2>2, TagOnce
  <2>4. q.tag = m.tag /\ q.nth = m.nth /\ q.oldtag = m.oldtag /\ q.who = m.who
    BY <1>9, <2>2, <2>3, Zenon
  <2>5. q \in [tag : Tags, nth : Nat, oldtag : Tags \cup {0}, who : Procs \cup {None, Rflush}]
        /\ m \in [tag : Tags, nth : Nat, oldtag : Tags \cup {0}, who : Procs \cup {None, Rflush}]
    BY <2>1, Zenon DEF TypeOK
  <2>6. q = m
    BY <2>4, <2>5
  <2> QED BY <2>1, <2>6, Zenon
<1>11. ASSUME NEW a \in 1 .. k + 1 PROVE a \in 1 .. k \/ a = k + 1
  BY <1>3
<1>12. RepliesInv'
  <2> SUFFICES ASSUME NEW a \in 1 .. k + 1
               PROVE  \E q \in Procs : \E i \in 1 .. Len(chain[q]) :
                          replies'[a].tag = chain[q][i] /\ replies'[a].who = For(q, i)
    BY <1>0, <1>3 DEF RepliesInv, For
  <2>1. CASE a \in 1 .. k
    <3>1. \E q \in Procs : \E i \in 1 .. Len(chain[q]) :
              replies[a].tag = chain[q][i] /\ replies[a].who = For(q, i)
      BY <1>8, <2>1, Zenon DEF RepliesInv
    <3> QED BY <1>3, <2>1, <3>1, Zenon
  <2>2. CASE a = k + 1
    <3>1. replies'[a].tag = chain[p][m.nth] /\ replies'[a].who = For(p, m.nth)
      BY <1>3, <1>4, <1>9, <2>2, Zenon
    <3> QED BY <1>9, <3>1, Zenon
  <2> QED BY <1>11, <2>1, <2>2, Zenon
<1>13. OnceInv'
  <2> SUFFICES ASSUME NEW a \in 1 .. k + 1
               PROVE  /\ \A b \in 1 .. k + 1 : replies'[a].tag = replies'[b].tag => a = b
                      /\ \A q \in pending' : q.tag # replies'[a].tag
    BY <1>3, Zenon DEF OnceInv
  <2>1. \A b \in 1 .. k : replies[b].tag # m.tag
    BY <1>8, Zenon DEF OnceInv
  <2>2. ASSUME NEW b \in 1 .. k + 1, replies'[a].tag = replies'[b].tag PROVE a = b
    <3>1. CASE a \in 1 .. k /\ b \in 1 .. k
      BY <1>3, <1>8, <2>2, <3>1, Zenon DEF OnceInv
    <3>2. CASE a \in 1 .. k /\ b = k + 1
      BY <1>3, <1>4, <2>1, <2>2, <3>2, Zenon
    <3>3. CASE a = k + 1 /\ b \in 1 .. k
      BY <1>3, <1>4, <2>1, <2>2, <3>3, Zenon
    <3> QED BY <1>11, <3>1, <3>2, <3>3, Zenon
  <2>3. ASSUME NEW q \in pending' PROVE q.tag # replies'[a].tag
    <3>1. CASE a \in 1 .. k
      BY <1>3, <1>8, <1>10, <3>1, Zenon DEF OnceInv
    <3>2. CASE a = k + 1
      BY <1>3, <1>4, <1>10, <3>2, Zenon
    <3> QED BY <1>11, <3>1, <3>2, Zenon
  <2> QED BY <2>2, <2>3, Zenon
<1>14. OrderInv'
  <2> SUFFICES ASSUME NEW q \in Procs, NEW i \in 1 .. Len(chain[q]), NEW j \in 1 .. Len(chain[q]),
                      j < i, NEW a \in 1 .. k + 1, replies'[a].tag = chain[q][i]
               PROVE  /\ \A b \in 1 .. k + 1 : b > a => replies'[b].tag # chain[q][j]
                      /\ \A x \in pending' : x.tag # chain[q][j]
    BY <1>0, <1>3 DEF OrderInv
  <2>1. CASE a \in 1 .. k
    <3>1. /\ \A b \in 1 .. k : b > a => replies[b].tag # chain[q][j]
          /\ \A x \in pending : x.tag # chain[q][j]
      <4>1. replies[a].tag = chain[q][i]
        BY <1>3, <2>1, Zenon
      <4> QED BY <1>8, <2>1, <4>1, RepliesOrdered, Zenon
    <3>2. m.tag # chain[q][j]
      BY <3>1, Zenon
    <3>3. ASSUME NEW b \in 1 .. k + 1, b > a PROVE replies'[b].tag # chain[q][j]
      <4>1. CASE b \in 1 .. k
        BY <1>3, <3>1, <3>3, <4>1, Zenon
      <4>2. CASE b = k + 1
        BY <1>3, <1>4, <3>2, <4>2, Zenon
      <4> QED BY <1>11, <4>1, <4>2, Zenon
    <3> QED BY <1>10, <3>1, <3>3, Zenon
  <2>2. CASE a = k + 1
    <3>0. chain[q][i] = chain[p][m.nth]
      BY <1>3, <1>4, <1>9, <2>2, Zenon
    <3>1. q = p /\ i = m.nth
      BY <1>9, <3>0, TagOnce
    <3>2. \A b \in 1 .. k + 1 : ~(b > a)
      BY <1>3, <2>2
    <3>3. ASSUME NEW x \in pending', x.tag = chain[q][j] PROVE FALSE
      <4>1. x \in pending
        BY <1>0, Zenon
      <4>2. PICK y \in Procs : /\ x.nth \in 1 .. Len(chain[y]) /\ x.tag = chain[y][x.nth]
                               /\ x.oldtag = (IF x.nth = 1 THEN 0 ELSE chain[y][1])
        BY <4>1, Zenon DEF PendingInv
      <4>3. y = p /\ x.nth = j
        <5>1. j \in 1 .. Len(chain[p]) /\ chain[y][x.nth] = chain[p][j]
          BY <3>1, <3>3, <4>2, Zenon
        <5> QED BY <4>2, <5>1, TagOnce
      <4>4. m.oldtag = chain[p][1] /\ m.oldtag # 0
        <5>1. m.nth # 1 /\ 1 \in 1 .. Len(chain[p])
          BY <1>9, <3>1, ChainType
        <5>2. chain[p][1] \in Tags
          BY <5>1, ChainType, Zenon
        <5> QED BY <1>9, <5>1, <5>2 DEF Tags
      <4>5. m.oldtag \in {x.tag, x.oldtag}
        BY <4>2, <4>3, <4>4, Zenon
      <4>6. ~(x.nth > m.nth)
        BY <1>2, <3>1, <4>3
      <4> QED BY <1>0, <4>4, <4>5, <4>6, Zenon
    <3> QED BY <3>2, <3>3, Zenon
  <2> QED BY <1>11, <2>1, <2>2, Zenon
<1>15. DoneInv'
  <2>1. \A u \in Tags : Sent(u)' => Sent(u)
    <3> SUFFICES ASSUME NEW u \in Tags, Sent(u)' PROVE Sent(u)
      BY Zenon
    <3>1. CASE \E x \in pending' : x.tag = u
      BY <1>10, <3>1, Zenon DEF Sent
    <3>2. ASSUME NEW a \in 1 .. k + 1, replies'[a].tag = u PROVE Sent(u)
      <4>1. CASE a \in 1 .. k
        BY <1>3, <3>2, <4>1, Zenon DEF Sent
      <4>2. CASE a = k + 1
        BY <1>3, <1>4, <3>2, <4>2, Zenon DEF Sent
      <4> QED BY <1>11, <4>1, <4>2, Zenon
    <3> QED BY <1>3, <3>1, <3>2, Zenon DEF Sent
  <2> SUFFICES ASSUME NEW q \in Procs
               PROVE  /\ \A i \in 1 .. Len(chain[q]) : done[chain[q][i]] = 1 =>
                             \A j \in 1 .. i : ~Sent(chain[q][j])'
                      /\ pc[q] = "write" => done[r(q)] = 0 /\ ~Sent(r(q))'
                      /\ pc[q] \in {"mntgate", "free", "return"} =>
                             \A i \in 1 .. Len(chain[q]) : ~Sent(chain[q][i])'
    BY <1>0, Zenon DEF DoneInv, r, mvars
  <2>2. \A i \in 1 .. Len(chain[q]) : chain[q][i] \in Tags
    BY ChainType, Zenon
  <2>3. ASSUME NEW i \in 1 .. Len(chain[q]), done[chain[q][i]] = 1, NEW j \in 1 .. i
        PROVE  ~Sent(chain[q][j])'
    <3>1. ~Sent(chain[q][j])
      BY <1>8, <2>3, Zenon DEF DoneInv
    <3>2. j \in 1 .. Len(chain[q])
      BY ChainType
    <3> QED BY <1>0, <2>1, <2>2, <3>1, <3>2, Zenon
  <2>4. ASSUME pc[q] = "write" PROVE done[r(q)] = 0 /\ ~Sent(r(q))'
    <3>1. done[r(q)] = 0 /\ ~Sent(r(q))
      BY <1>8, <2>4, Zenon DEF DoneInv
    <3>2. r(q) \in Tags /\ r(q)' = r(q)
      BY <1>0, <2>4, ChainType, Zenon DEF ChainInv, r
    <3> QED BY <2>1, <3>1, <3>2, Zenon
  <2>5. ASSUME pc[q] \in {"mntgate", "free", "return"}, NEW i \in 1 .. Len(chain[q])
        PROVE  ~Sent(chain[q][i])'
    <3>1. ~Sent(chain[q][i])
      BY <1>8, <2>5, Zenon DEF DoneInv
    <3> QED BY <1>0, <2>1, <2>2, <3>1, Zenon
  <2> QED BY <2>3, <2>4, <2>5, Zenon
<1>16. OwnInv'
  <2> SUFFICES ASSUME NEW q \in Procs, pc[q] # "idle"
               PROVE  /\ \A a \in 1 .. k + 1 : replies'[a].tag = Original(q) => replies'[a].who = q
                      /\ done[Original(q)] = 1 => reply[Original(q)] \in {q, Rflush}
    BY <1>0, <1>3, Zenon DEF OwnInv, Original, mvars
  <2>1. ~Doomed(q)
    BY <1>1 DEF Doomed
  <2>2. /\ \A a \in 1 .. k : replies[a].tag = Original(q) => replies[a].who = q
        /\ done[Original(q)] = 1 => reply[Original(q)] \in {q, Rflush}
    BY <2>1, Zenon DEF OwnInv
  <2>3. m.tag = Original(q) => m.who = q
    <3>1. 1 \in 1 .. Len(chain[q])
      BY ChainType, Zenon DEF ChainInv
    <3>2. ASSUME m.tag = Original(q) PROVE p = q /\ m.nth = 1
      <4>1. chain[p][m.nth] = chain[q][1]
        BY <1>9, <3>2, Zenon DEF Original
      <4> QED BY <1>9, <3>1, <4>1, Zenon DEF ChainInv
    <3> QED BY <1>9, <3>2, Zenon DEF For
  <2>4. ASSUME NEW a \in 1 .. k + 1, replies'[a].tag = Original(q) PROVE replies'[a].who = q
    <3>1. CASE a \in 1 .. k
      BY <1>3, <2>2, <2>4, <3>1, Zenon
    <3>2. CASE a = k + 1
      BY <1>3, <1>4, <2>3, <2>4, <3>2, Zenon
    <3> QED BY <1>11, <3>1, <3>2, Zenon
  <2> QED BY <2>2, <2>4, Zenon
<1> QED BY <1>5, <1>6, <1>7, <1>12, <1>13, <1>14, <1>15, <1>16, Zenon DEF MsgInv

(* So does a hangup: what was not answered never will be.                  *)
LEMMA HangupStep ==
    ASSUME Inv, Hangup
    PROVE  Inv'
<1> USE SMTT(30) DEF Inv
<1>0. /\ UNCHANGED <<mvars, avars, replies, pc, chain, tgt, note, failed>>
      /\ hungup = 0 /\ hungup' = 1 /\ pending' = {}
  BY Zenon DEF Hangup
<1>1. TypeOK'
  <2>1. hungup' \in 0 .. 1
    BY <1>0
  <2> QED BY <1>0, <2>1, Zenon DEF TypeOK, mvars, avars
<1>2. ChainInv'
  <2>1. chain' = chain /\ pc' = pc /\ tagmask' = tagmask /\ rpcfree' = rpcfree
    BY <1>0, Zenon DEF avars
  <2> QED BY <2>1 DEF ChainInv
<1>3. LabelInv'
  BY <1>0, Zenon DEF LabelInv, r, mvars
<1>4. PendingInv' /\ MsgInv'
  BY <1>0 DEF PendingInv, MsgInv
<1>5. OwnInv'
  BY <1>0, Zenon DEF OwnInv, Original, Doomed, mvars
<1> QED BY <1>1, <1>2, <1>3, <1>4, <1>5, Zenon

(* Every step keeps the invariant.                                         *)
LEMMA NextInv == Inv /\ [Next]_vars => Inv'
<1> SUFFICES ASSUME Inv, [Next]_vars PROVE Inv'
  BY Zenon
<1>1. CASE UNCHANGED vars
  <2>1. TypeOK'
    BY <1>1, Zenon DEF Inv, TypeOK, vars, mvars, avars, svars
  <2> QED BY <1>1, <2>1, Moves, Zenon DEF Inv, LabelInv, Doomed, vars, mvars, avars, svars
<1>2. ASSUME NEW p \in Procs, Write(p) PROVE Inv'
  <2>1. CASE (Eintr(p) \/ Emountrpc(p)) /\ UNCHANGED pending
    BY <1>2, <2>1, InterruptStep, Zenon DEF Write, mvars, svars
  <2>2. CASE /\ hungup = 0 /\ pending' = pending \cup {Request(p)}
             /\ (Goto(p, "gate") /\ UNCHANGED <<note, failed>>) \/ Eintr(p)
    BY <1>2, <2>2, SendStep, Zenon DEF Write
  <2> QED BY <1>2, <2>1, <2>2, Zenon DEF Write
<1>3. ASSUME NEW p \in Procs, Read(p) PROVE Inv'
  <2>1. CASE mntrpcread /\ mountmux(p, Head(replies)) /\ UNCHANGED <<note, failed>>
    BY <1>3, <2>1, ReadStep, Zenon DEF Read
  <2>2. CASE doreadFails(p) /\ reply' = [reply EXCEPT ![r(p)] = None]
             /\ UNCHANGED <<queue, done, tgt>>
    <3>1. UNCHANGED <<queue, rip, done, avars, svars, chain, tgt>> /\ (Eintr(p) \/ Emountrpc(p))
      BY <1>3, <2>2, Zenon DEF Read, doreadFails, svars
    <3>2. pc[p] = "read"
      BY <1>3, Zenon DEF Read
    <3> QED BY <2>2, <3>1, <3>2, InterruptStep, Zenon
  <2> QED BY <1>3, <2>1, <2>2, Zenon DEF Read
<1>4. ASSUME NEW p \in Procs, NEW t \in Tags, Mountrpc(p, t) PROVE Inv'
  <2>1. Settled(p, "write")
    BY <1>4, GotoSettles, Zenon DEF Mountrpc, Inv, Labels
  <2> QED BY <1>4, <2>1, AllocStep, Zenon DEF Mountrpc
<1>5. ASSUME NEW p \in Procs, NEW t \in Tags, Interrupted(p, t) PROVE Inv'
  <2>1. Settled(p, "write") /\ (rip' = rip \/ (rip = p /\ rip' = None))
    BY <1>5, GotoSettles, MntgateSettles, Zenon DEF Interrupted, GiveUp, Inv, Labels
  <2> QED BY <1>5, <2>1, AllocStep, Zenon DEF Interrupted
<1>6. ASSUME NEW p \in Noted, Postnote(p) PROVE Inv'
  BY <1>6, MoveStep, MntMuxAssumption, Zenon
<1> QED BY <1>1, <1>2, <1>3, <1>4, <1>5, <1>6, MoveStep, FlushfreeStep, ReturnStep, AnswerStep,
           HangupStep, Zenon DEF Next, Step

(* The invariant holds always.                                             *)
LEMMA InvHolds == Spec => []Inv
BY InitInv, NextInv, PTL DEF Spec

(* The type invariant, for every instance.                                 *)
THEOREM TypeCorrect == Spec => []TypeOK
BY InvHolds, PTL DEF Inv

(* mntralloc never gives out a tag that the server may still answer, for   *)
(* any number of processes, notes and flushes (mntralloc, mntfree,         *)
(* mntflushalloc, mntflushfree).                                           *)
THEOREM FreeTagQuietHolds == Spec => []FreeTagQuiet
<1>1. Inv => FreeTagQuiet
  <2> SUFFICES ASSUME Inv, hungup = 0, NEW t \in (Tags \ tagmask) \cup rpcfree
               PROVE  /\ \A m \in pending : m.tag # t
                      /\ \A i \in DOMAIN replies : replies[i].tag # t
    BY Zenon DEF FreeTagQuiet
  <2> USE DEF Inv
  <2>1. \A p \in Procs : \A i \in 1 .. Len(chain[p]) : chain[p][i] # t
    BY DEF ChainInv
  <2>2. DOMAIN replies = 1 .. Len(replies)
    BY DEF TypeOK
  <2>3. \A m \in pending : m.tag # t
    BY <2>1, Zenon DEF PendingInv
  <2>4. \A i \in 1 .. Len(replies) : replies[i].tag # t
    BY <2>1, Zenon DEF MsgInv, RepliesInv
  <2> QED BY <2>2, <2>3, <2>4, Zenon
<1> QED BY <1>1, InvHolds, PTL

(* A call returns the reply to its own request or Rflush, whoever read the *)
(* reply in mountmux and however often it was interrupted, for any number  *)
(* of processes.                                                           *)
THEOREM OwnReplyHolds == Spec => []OwnReply
<1>1. Inv => OwnReply
  <2> SUFFICES ASSUME Inv, NEW p \in Procs, pc[p] = "return", failed[p] = 0
               PROVE  reply[Original(p)] \in {p, Rflush}
    BY Zenon DEF OwnReply
  <2>1. ~Doomed(p)
    BY DEF Doomed
  <2>2. done[Original(p)] = 1
    BY Zenon DEF Inv, LabelInv, Original, r
  <2> QED BY <2>1, <2>2, Zenon DEF Inv, OwnInv
<1> QED BY <1>1, InvHolds, PTL
-----------------------------------------------------------------------------
(* Where a call waits for its reply.                                       *)
Waiting == {"write", "gate", "sleep", "asleep", "awake"}

(* A process that waits for its reply has its Mntrpc on m->queue, where    *)
(* mountmux and mntgate look for it.                                       *)
QueuedInv ==
    \A p \in Procs : pc[p] \in Waiting /\ done[r(p)] = 0 => r(p) \in queue

(* NoStrandedCaller in two parts: one whose reply has come is about to be  *)
(* woken ...                                                               *)
WokenInv ==
    \A p \in Procs : pc[p] = "asleep" /\ done[r(p)] = 1 =>
        \E q \in Procs : pc[q] = "wakeup" /\ tgt[q] = r(p)

(* ... and while nobody reads, somebody is on the way to the gate.         *)
GateInv ==
    hungup = 0 /\ rip = None =>
        \A p \in Procs : pc[p] = "asleep" /\ done[r(p)] = 0 => \E q \in Procs : OnTheWay(q)

(* The invariant of those that wait, on top of the first.                  *)
WaitInv == QueuedInv /\ WokenInv /\ GateInv

(* The Mntrpc that mountio works on belongs to this call alone.            *)
LEMMA LastTag ==
    ASSUME Inv, NEW p \in Procs, pc[p] # "idle"
    PROVE  /\ r(p) \in Tags /\ r(p) \in tagmask \ rpcfree
           /\ \A q \in Procs \ {p} : pc[q] # "idle" => r(q) # r(p)
<1>1. \A q \in Procs : pc[q] # "idle" =>
          /\ Len(chain[q]) \in 1 .. Len(chain[q]) /\ r(q) = chain[q][Len(chain[q])]
          /\ r(q) \in Tags
  BY ChainType, Zenon DEF Inv, ChainInv, r
<1>2. r(p) \in tagmask \ rpcfree
  BY <1>1 DEF Inv, ChainInv
<1>3. \A q \in Procs \ {p} : pc[q] # "idle" => r(q) # r(p)
  BY <1>1, TagOnce DEF Inv
<1> QED BY <1>1, <1>2, <1>3, Zenon

(* A step of p that keeps the Mntrpcs of the others ...                    *)
Keeps(p) ==
    \A q \in Procs \ {p} :
        /\ r(q)' = r(q) /\ note'[q] = note[q] /\ tgt'[q] = tgt[q]
        /\ pc[q] # "idle" => done'[r(q)] = done[r(q)] /\ (r(q) \in queue => r(q) \in queue')

(* ... and leaves them where they are.                                     *)
Alone(p) == Keeps(p) /\ \A q \in Procs \ {p} : pc'[q] = pc[q]

(* A step that touches one Mntrpc, its own or a free one, keeps the others.*)
LEMMA TouchesOne ==
    ASSUME Inv, NEW p \in Procs, NEW t \in Tags,
           \A q \in Procs \ {p} : chain'[q] = chain[q] /\ note'[q] = note[q] /\ tgt'[q] = tgt[q],
           \A u \in Tags \ {t} : done'[u] = done[u] /\ (u \in queue => u \in queue'),
           t \notin tagmask \ rpcfree \/ (pc[p] # "idle" /\ t = r(p))
    PROVE  Keeps(p)
<1> SUFFICES ASSUME NEW q \in Procs \ {p}, pc[q] # "idle"
             PROVE  done'[r(q)] = done[r(q)] /\ (r(q) \in queue => r(q) \in queue')
  BY Zenon DEF Keeps, r
<1>1. r(q) \in Tags /\ r(q) # t
  BY LastTag, Zenon
<1> QED BY <1>1, Zenon

(* Such a step strands nobody if p itself does not lie down in vain.       *)
LEMMA AloneStep ==
    ASSUME WaitInv, NEW p \in Procs, Alone(p), hungup' = hungup, rip' = None => rip = None,
           pc[p] \notin {"asleep", "wakeup"},
           pc'[p] = "asleep" => done'[r(p)'] = 0 /\ rip' # None,
           pc'[p] \in Waiting /\ done'[r(p)'] = 0 => r(p)' \in queue',
           hungup = 0 /\ rip' = None /\ OnTheWay(p) => OnTheWay(p)'
    PROVE  WaitInv'
<1>1. QueuedInv'
  <2> SUFFICES ASSUME NEW q \in Procs, q # p, pc'[q] \in Waiting, done'[r(q)'] = 0
               PROVE  r(q)' \in queue'
    BY Zenon DEF QueuedInv
  <2> QED BY Zenon DEF Alone, Keeps, WaitInv, QueuedInv, Waiting
<1>2. WokenInv'
  <2> SUFFICES ASSUME NEW q \in Procs, q # p, pc'[q] = "asleep", done'[r(q)'] = 1
               PROVE  \E x \in Procs : pc'[x] = "wakeup" /\ tgt'[x] = r(q)'
    BY DEF WokenInv
  <2>1. pc[q] = "asleep" /\ done[r(q)] = 1 /\ r(q)' = r(q)
    BY Zenon DEF Alone, Keeps
  <2>2. PICK x \in Procs : pc[x] = "wakeup" /\ tgt[x] = r(q)
    BY <2>1, Zenon DEF WaitInv, WokenInv
  <2>3. x # p
    BY <2>2, Zenon
  <2> QED BY <2>1, <2>2, <2>3, Zenon DEF Alone, Keeps
<1>3. GateInv'
  <2> SUFFICES ASSUME hungup' = 0, rip' = None, NEW q \in Procs, pc'[q] = "asleep", done'[r(q)'] = 0
               PROVE  \E x \in Procs : OnTheWay(x)'
    BY Zenon DEF GateInv
  <2>1. q # p
    BY Zenon
  <2>2. pc[q] = "asleep" /\ done[r(q)] = 0
    BY <2>1, Zenon DEF Alone, Keeps
  <2>3. PICK x \in Procs : OnTheWay(x)
    BY <2>2, Zenon DEF WaitInv, GateInv
  <2>4. CASE x = p
    BY <2>3, <2>4, Zenon
  <2>5. CASE x # p
    BY <2>3, <2>5 DEF Alone, Keeps, OnTheWay
  <2> QED BY <2>4, <2>5, Zenon
<1> QED BY <1>1, <1>2, <1>3, Zenon DEF WaitInv

(* A step of p that only moves p, and perhaps makes it the reader.         *)
LEMMA PlainStep ==
    ASSUME Inv, WaitInv, NEW p \in Procs, NEW l \in Labels, pc' = [pc EXCEPT ![p] = l],
           UNCHANGED <<queue, done, chain, tgt, hungup>>,
           \A q \in Procs \ {p} : note'[q] = note[q], rip' \in {rip, p},
           pc[p] \notin {"idle", "asleep", "wakeup"},
           l = "asleep" => done[r(p)] = 0 /\ rip' # None,
           l \in Waiting => pc[p] \in Waiting,
           hungup = 0 /\ rip' = None /\ OnTheWay(p) => OnTheWay(p)'
    PROVE  WaitInv'
<1>1. pc'[p] = l /\ \A q \in Procs \ {p} : pc'[q] = pc[q]
  BY Zenon DEF Inv, TypeOK
<1>2. r(p)' = r(p) /\ p # None
  BY MntMuxAssumption, Zenon DEF r
<1>3. Alone(p)
  BY <1>1, LastTag, TouchesOne, Zenon DEF Alone
<1>4. pc'[p] \in Waiting /\ done'[r(p)'] = 0 => r(p)' \in queue'
  BY <1>1, <1>2, Zenon DEF WaitInv, QueuedInv
<1> QED BY <1>1, <1>2, <1>3, <1>4, AloneStep, Zenon

(* mntgate, after which nobody reads: all that sleep wait for a reply, and *)
(* one of them is woken.                                                   *)
LEMMA GateStep ==
    ASSUME Inv, WaitInv, NEW p \in Procs, NEW l \in {"free", "write"}, mntgate(p, l), rip = p,
           pc[p] \in {"mntgate", "eintr", "error"}, Keeps(p), hungup' = hungup,
           l = "write" => r(p)' \in queue'
    PROVE  WaitInv'
<1>1. \A q \in Procs : pc[q] # "wakeup"
  BY Zenon DEF Inv, LabelInv
<1>2. \A q \in Procs : pc[q] = "asleep" => q # p /\ done[r(q)] = 0 /\ r(q) \in queue
  <2>1. \A q \in Procs : pc[q] = "asleep" => done[r(q)] # 1
    BY <1>1, Zenon DEF WaitInv, WokenInv
  <2>2. \A q \in Procs : pc[q] = "asleep" => done[r(q)] \in 0 .. 1
    BY LastTag, Zenon DEF Inv, TypeOK
  <2> QED BY <2>1, <2>2 DEF WaitInv, QueuedInv, Waiting
<1>3. /\ pc'[p] = l
      /\ \A q \in Procs \ {p} : pc'[q] = pc[q] \/ (pc[q] = "asleep" /\ pc'[q] = "awake")
  BY Zenon DEF mntgate, WakeAndGoto, Sleepers, Goto, Inv, TypeOK
<1>4. \A q \in Procs \ {p} : pc[q] # "idle" =>
          r(q)' = r(q) /\ done'[r(q)] = done[r(q)] /\ (r(q) \in queue => r(q) \in queue')
  BY Zenon DEF Keeps
<1>5. QueuedInv'
  <2> SUFFICES ASSUME NEW q \in Procs, q # p, pc'[q] \in Waiting, done'[r(q)'] = 0
               PROVE  r(q)' \in queue'
    BY <1>3, Zenon DEF QueuedInv, Waiting
  <2>1. pc[q] \in Waiting
    BY <1>3, Zenon DEF Waiting
  <2> QED BY <1>4, <2>1, Zenon DEF WaitInv, QueuedInv, Waiting
<1>6. WokenInv'
  <2> SUFFICES ASSUME NEW q \in Procs, pc'[q] = "asleep", done'[r(q)'] = 1
               PROVE  FALSE
    BY Zenon DEF WokenInv
  <2>1. q # p /\ pc[q] = "asleep"
    BY <1>3, Zenon
  <2> QED BY <1>2, <1>4, <2>1
<1>7. GateInv'
  <2> SUFFICES ASSUME NEW q \in Procs, pc'[q] = "asleep"
               PROVE  \E x \in Procs : OnTheWay(x)'
    BY Zenon DEF GateInv
  <2>1. q # p /\ pc[q] = "asleep"
    BY <1>3, Zenon
  <2> DEFINE W == {t \in queue : done[t] = 0 /\ Sleepers(t) # {}}
  <2>2. r(q) \in W
    BY <1>2, <2>1, Zenon DEF Sleepers
  <2>3. PICK t \in W : WakeAndGoto(Sleepers(t), p, l)
    BY <2>2, Zenon DEF mntgate
  <2>4. PICK x \in Procs : pc[x] = "asleep" /\ r(x) = t
    BY <2>3, Zenon DEF Sleepers
  <2>5. x # p /\ pc'[x] = "awake"
    BY <2>3, <2>4, Zenon DEF WakeAndGoto, Sleepers
  <2>6. done'[r(x)'] = 0
    BY <1>2, <1>4, <2>4, <2>5, Zenon
  <2> QED BY <2>5, <2>6, Zenon DEF OnTheWay
<1> QED BY <1>5, <1>6, <1>7, Zenon DEF WaitInv

(* mntralloc and the queueing of the new Mntrpc.                           *)
LEMMA AllocKeeps ==
    ASSUME Inv, NEW p \in Procs, NEW t \in Tags, Mntralloc(p, t), queue' = queue \cup {t},
           UNCHANGED <<tgt, note>>
    PROVE  Keeps(p) /\ r(p)' = t
<1>1. t \notin tagmask \ rpcfree
  BY Zenon DEF Mntralloc, Available
<1>2. chain \in [Procs -> Seq(Tags)] /\ done \in [Tags -> 0 .. 1]
  BY Zenon DEF Inv, TypeOK
<1>3. /\ chain' = [chain EXCEPT ![p] = Append(chain[p], t)]
      /\ done' = [done EXCEPT ![t] = 0]
  BY Zenon DEF Mntralloc
<1>4. chain'[p] = Append(chain[p], t) /\ \A q \in Procs \ {p} : chain'[q] = chain[q]
  BY <1>2, <1>3, Zenon
<1>5. \A u \in Tags \ {t} : done'[u] = done[u]
  BY <1>2, <1>3, Zenon
<1>6. Keeps(p)
  BY <1>1, <1>4, <1>5, TouchesOne, Zenon
<1>7. chain[p] \in Seq(Tags)
  BY <1>2, Zenon
<1>8. r(p)' = t
  BY <1>4, <1>7, LastAppended, Zenon DEF r
<1> QED BY <1>6, <1>8, Zenon

(* A new Mntrpc of a process that does not read strands nobody.            *)
LEMMA AllocWait ==
    ASSUME Inv, WaitInv, NEW p \in Procs, NEW t \in Tags, Mntralloc(p, t), queue' = queue \cup {t},
           UNCHANGED <<tgt, note, rip, hungup>>, Goto(p, "write"), pc[p] \in {"idle", "eintr"}
    PROVE  WaitInv'
<1>1. Keeps(p) /\ r(p)' = t
  BY AllocKeeps, Zenon
<1>2. pc'[p] = "write" /\ \A q \in Procs \ {p} : pc'[q] = pc[q]
  BY Zenon DEF Goto, Inv, TypeOK
<1>3. Alone(p) /\ OnTheWay(p)'
  BY <1>1, <1>2, Zenon DEF Alone, OnTheWay
<1> QED BY <1>1, <1>2, <1>3, AloneStep, Zenon

(* Where an interrupt or an error of mountio leads.                        *)
LEMMA ErrorPlain ==
    ASSUME Inv, WaitInv, NEW p \in Procs, Eintr(p) \/ Emountrpc(p), rip' = rip,
           UNCHANGED <<queue, done, chain, tgt, hungup>>, pc[p] \notin {"idle", "asleep", "wakeup"}
    PROVE  WaitInv'
<1>1. PICK l \in {"eintr", "error"} : pc' = [pc EXCEPT ![p] = l]
  BY Zenon DEF Eintr, Emountrpc, Goto
<1>2. hungup = 0 => pc' = [pc EXCEPT ![p] = "eintr"]
  BY DEF Eintr, Emountrpc, Goto
<1>3. pc \in [Procs -> Labels] /\ note \in [Procs -> 0 .. 1]
  BY Zenon DEF Inv, TypeOK
<1>4. hungup = 0 => OnTheWay(p)'
  BY <1>2, <1>3, Zenon DEF OnTheWay
<1>5. \A q \in Procs \ {p} : note'[q] = note[q]
  BY <1>3, Zenon DEF Eintr, Emountrpc
<1>6. l \in Labels /\ l \notin Waiting /\ l # "asleep"
  BY Zenon DEF Labels, Waiting
<1> QED BY <1>1, <1>4, <1>5, <1>6, PlainStep, Zenon

(* The write of the request.                                               *)
LEMMA WriteWait ==
    ASSUME Inv, WaitInv, NEW p \in Procs, Write(p)
    PROVE  WaitInv'
<1>1. pc[p] = "write" /\ UNCHANGED <<queue, done, chain, tgt, hungup, rip>>
  BY Zenon DEF Write, mvars
<1>2. CASE Eintr(p) \/ Emountrpc(p)
  BY <1>1, <1>2, ErrorPlain, Zenon
<1>3. CASE Goto(p, "gate") /\ UNCHANGED note
  <2>1. pc \in [Procs -> Labels]
    BY Zenon DEF Inv, TypeOK
  <2>2. pc' = [pc EXCEPT ![p] = "gate"]
    BY <1>3, Zenon DEF Goto
  <2>3. OnTheWay(p)'
    BY <2>1, <2>2, Zenon DEF OnTheWay
  <2>4. PICK l \in Labels : l = "gate"
    BY Zenon DEF Labels
  <2>5. pc[p] \in Waiting
    BY <1>1, Zenon DEF Waiting
  <2> QED BY <1>1, <1>3, <2>2, <2>3, <2>4, <2>5, PlainStep, Zenon
<1> QED BY <1>2, <1>3, Zenon DEF Write

(* At the gate: a reader, or one that goes to sleep while another reads.   *)
LEMMA GateWait ==
    ASSUME Inv, WaitInv, NEW p \in Procs, Gate(p)
    PROVE  WaitInv'
<1>1. pc[p] = "gate" /\ UNCHANGED <<queue, done, chain, tgt, hungup, note>>
  BY Zenon DEF Gate, svars
<1>2. PICK l \in {"read", "mntgate", "sleep"} :
          pc' = [pc EXCEPT ![p] = l] /\ rip' \in {rip, p} /\ rip' # None
  BY MntMuxAssumption, Zenon DEF Gate, Goto
<1>3. l \in Labels /\ l # "asleep" /\ pc[p] \in Waiting
  BY <1>1, Zenon DEF Labels, Waiting
<1> QED BY <1>1, <1>2, <1>3, PlainStep, Zenon

(* sleep looks at rpcattn first.                                           *)
LEMMA SleepWait ==
    ASSUME Inv, WaitInv, NEW p \in Procs, Sleep(p)
    PROVE  WaitInv'
<1>1. pc[p] = "sleep" /\ UNCHANGED <<queue, done, chain, tgt, hungup, note, rip>>
  BY Zenon DEF Sleep, svars, mvars
<1>2. pc \in [Procs -> Labels] /\ done[r(p)] \in 0 .. 1
  BY <1>1, LastTag, Zenon DEF Inv, TypeOK
<1>3. PICK l \in {"awake", "asleep"} :
          /\ pc' = [pc EXCEPT ![p] = l]
          /\ l = "asleep" => done[r(p)] # 1 /\ rip # None
  BY Zenon DEF Sleep, Goto, rpcattn
<1>7. l = "asleep" => done[r(p)] = 0
  BY <1>2, <1>3
<1>4. l \in Labels /\ pc[p] \in Waiting
  BY <1>1, Zenon DEF Labels, Waiting
<1>5. r(p)' = r(p) /\ pc'[p] = l
  BY <1>1, <1>2, <1>3, Zenon DEF r
<1>6. rip' = None /\ OnTheWay(p) => OnTheWay(p)'
  BY <1>1, <1>2, <1>3, <1>5, Zenon DEF OnTheWay
<1> QED BY <1>1, <1>3, <1>4, <1>6, <1>7, PlainStep, Zenon

(* Awake: interrupted, answered, or back to the gate.                      *)
LEMMA AwakeWait ==
    ASSUME Inv, WaitInv, NEW p \in Procs, Awake(p)
    PROVE  WaitInv'
<1>1. pc[p] = "awake" /\ UNCHANGED <<queue, done, chain, tgt, hungup, rip>>
  BY Zenon DEF Awake, svars, mvars
<1>2. CASE Eintr(p)
  BY <1>1, <1>2, ErrorPlain, Zenon
<1>3. CASE ~Eintr(p)
  <2>1. pc \in [Procs -> Labels] /\ done[r(p)] \in 0 .. 1
    BY <1>1, LastTag, Zenon DEF Inv, TypeOK
  <2>2. PICK l \in {"free", "gate"} :
            /\ pc' = [pc EXCEPT ![p] = l] /\ note' = note /\ note[p] = 0
            /\ l = "free" => done[r(p)] = 1
    BY <1>3, Zenon DEF Awake, Goto
  <2>3. OnTheWay(p) => OnTheWay(p)'
    BY <1>1, <2>1, <2>2 DEF OnTheWay
  <2>4. l \in Labels /\ pc[p] \in Waiting /\ l # "asleep"
    BY <1>1, Zenon DEF Labels, Waiting
  <2> QED BY <1>1, <2>2, <2>3, <2>4, PlainStep, Zenon
<1> QED BY <1>2, <1>3, Zenon

(* The reader takes a message: its own reply, or one that it passes on     *)
(* before it calls wakeup.                                                 *)
LEMMA ReadWait ==
    ASSUME Inv, WaitInv, NEW p \in Procs, Read(p)
    PROVE  WaitInv'
<1>1. pc[p] = "read" /\ UNCHANGED <<rip, hungup, chain>>
  BY Zenon DEF Read
<1>2. rip = p /\ p # None /\ r(p) \in Tags
  BY <1>1, LastTag, MntMuxAssumption, Zenon DEF Inv, LabelInv
<1>3. CASE doreadFails(p) /\ UNCHANGED <<queue, done, tgt>>
  BY <1>1, <1>3, ErrorPlain, Zenon DEF doreadFails
<1>4. CASE mntrpcread /\ mountmux(p, Head(replies)) /\ UNCHANGED note
  <2>1. Head(replies).tag \in Tags
    <3>1. Head(replies) \in [tag : Tags, who : Procs \cup {None, Rflush}]
      BY <1>4, ReplyTaken, Zenon DEF Inv
    <3> QED BY <3>1, Zenon
  <2>2. PICK t \in Tags : t = Head(replies).tag
    BY <2>1, Zenon
  <2>3. /\ pc \in [Procs -> Labels] /\ done \in [Tags -> 0 .. 1] /\ tgt \in [Procs -> Tags \cup {0}]
    BY Zenon DEF Inv, TypeOK
  <2>4. CASE t \notin queue
    <3>1. UNCHANGED <<queue, done, tgt, pc>>
      BY <1>4, <2>2, <2>4, Zenon DEF mountmux
    <3>2. Alone(p)
      BY <1>1, <1>2, <1>4, <3>1, TouchesOne, Zenon DEF Alone
    <3> QED BY <1>1, <1>2, <3>1, <3>2, AloneStep, Zenon DEF Waiting
  <2>5. CASE t \in queue
    <3>1. /\ queue' = queue \ {t} /\ done' = [done EXCEPT ![t] = 1]
          /\ tgt' = [tgt EXCEPT ![p] = IF t = r(p) THEN 0 ELSE t]
          /\ pc' = [pc EXCEPT ![p] = IF t = r(p) THEN "mntgate" ELSE "wakeup"]
      BY <1>4, <2>2, <2>5, Zenon DEF mountmux, Goto
    <3>2. /\ \A q \in Procs \ {p} : pc'[q] = pc[q] /\ tgt'[q] = tgt[q] /\ r(q)' = r(q)
          /\ \A u \in Tags \ {t} : done'[u] = done[u] /\ (u \in queue => u \in queue')
          /\ done'[t] = 1
      BY <1>1, <2>3, <3>1, Zenon DEF r
    <3>3. CASE t = r(p)
      <4>1. Alone(p)
        BY <1>1, <1>2, <1>4, <3>2, <3>3, TouchesOne, Zenon DEF Alone
      <4>2. pc'[p] = "mntgate"
        BY <2>3, <3>1, <3>3, Zenon
      <4> QED BY <1>1, <1>2, <4>1, <4>2, AloneStep, Zenon DEF Waiting
    <3>4. CASE t # r(p)
      <4>1. pc'[p] = "wakeup" /\ tgt'[p] = t
        BY <2>3, <3>1, <3>4, Zenon
      <4>2. \A q \in Procs \ {p} : pc[q] # "idle" =>
                r(q) \in Tags /\ (r(q) # t => done'[r(q)] = done[r(q)] /\ (r(q) \in queue => r(q) \in queue'))
        BY <3>2, LastTag, Zenon
      <4>3. QueuedInv'
        <5> SUFFICES ASSUME NEW q \in Procs, q # p, pc'[q] \in Waiting, done'[r(q)'] = 0
                     PROVE  r(q)' \in queue'
          BY <4>1, Zenon DEF QueuedInv, Waiting
        <5>1. pc[q] \in Waiting /\ pc[q] # "idle" /\ r(q)' = r(q) /\ r(q) # t
          BY <3>2 DEF Waiting
        <5> QED BY <4>2, <5>1, Zenon DEF WaitInv, QueuedInv
      <4>4. WokenInv'
        <5> SUFFICES ASSUME NEW q \in Procs, pc'[q] = "asleep", done'[r(q)'] = 1
                     PROVE  r(q)' = t
          BY <4>1, Zenon DEF WokenInv
        <5>1. q # p /\ pc[q] = "asleep" /\ r(q)' = r(q)
          BY <3>2, <4>1, Zenon
        <5>2. \A x \in Procs : pc[x] # "wakeup"
          BY <1>1, <1>2, Zenon DEF Inv, LabelInv
        <5>3. done[r(q)] # 1
          BY <5>1, <5>2, Zenon DEF WaitInv, WokenInv
        <5> QED BY <4>2, <5>1, <5>3, Zenon
      <4>5. GateInv'
        BY <1>1, <1>2, Zenon DEF GateInv
      <4> QED BY <4>3, <4>4, <4>5, Zenon DEF WaitInv
    <3> QED BY <3>3, <3>4, Zenon
  <2> QED BY <2>4, <2>5, Zenon
<1> QED BY <1>3, <1>4, Zenon DEF Read

(* wakeup: nobody is left asleep on a Mntrpc that is done.                 *)
LEMMA WakeupWait ==
    ASSUME Inv, WaitInv, NEW p \in Procs, Wakeup(p)
    PROVE  WaitInv'
<1>1. pc[p] = "wakeup" /\ UNCHANGED <<queue, done, rip, hungup, chain>>
  BY Zenon DEF Wakeup, mvars, svars
<1>2. rip = p /\ p # None /\ \A x \in Procs : pc[x] = "wakeup" => x = p
  BY <1>1, MntMuxAssumption, Zenon DEF Inv, LabelInv
<1>3. /\ pc'[p] = "read"
      /\ \A q \in Procs \ {p} : \/ pc'[q] = pc[q] /\ ~(pc[q] = "asleep" /\ r(q) = tgt[p])
                                \/ pc[q] = "asleep" /\ pc'[q] = "awake"
  BY Zenon DEF Wakeup, WakeAndGoto, Sleepers
<1>4. \A q \in Procs : r(q)' = r(q)
  BY <1>1, Zenon DEF r
<1>5. QueuedInv'
  BY <1>1, <1>3, <1>4, Zenon DEF WaitInv, QueuedInv, Waiting
<1>6. WokenInv'
  <2> SUFFICES ASSUME NEW q \in Procs, pc'[q] = "asleep", done'[r(q)'] = 1
               PROVE  FALSE
    BY Zenon DEF WokenInv
  <2>1. q # p /\ pc[q] = "asleep" /\ done[r(q)] = 1 /\ r(q) # tgt[p]
    BY <1>1, <1>3, <1>4, Zenon
  <2> QED BY <1>2, <2>1, Zenon DEF WaitInv, WokenInv
<1>7. GateInv'
  BY <1>1, <1>2, Zenon DEF GateInv
<1> QED BY <1>5, <1>6, <1>7, Zenon DEF WaitInv

(* The reader leaves with its own reply.                                   *)
LEMMA LeaveWait ==
    ASSUME Inv, WaitInv, NEW p \in Procs, Leave(p)
    PROVE  WaitInv'
<1>1. pc[p] = "mntgate" /\ UNCHANGED <<queue, done, hungup, chain, tgt, note>> /\ mntgate(p, "free")
  BY Zenon DEF Leave, svars
<1>2. rip = p
  BY <1>1, Zenon DEF Inv, LabelInv
<1>3. Keeps(p)
  BY <1>1, Zenon DEF Keeps, r
<1> QED BY <1>1, <1>2, <1>3, GateStep, Zenon

(* mountio gives up after an error: the connection is hung up then.        *)
LEMMA FailedWait ==
    ASSUME Inv, WaitInv, NEW p \in Procs, Failed(p)
    PROVE  WaitInv'
<1>1. pc[p] = "error" /\ UNCHANGED <<queue, done, hungup, chain, tgt, note>>
  BY Zenon DEF Failed, svars
<1>2. CASE rip = p
  <2>1. mntgate(p, "free")
    BY <1>2, Zenon DEF Failed, GiveUp
  <2>2. Keeps(p)
    BY <1>1, Zenon DEF Keeps, r
  <2> QED BY <1>1, <1>2, <2>1, <2>2, GateStep, Zenon
<1>3. CASE rip # p
  <2>1. PICK l \in Labels : l = "free"
    BY Zenon DEF Labels
  <2>2. pc' = [pc EXCEPT ![p] = l] /\ rip' = rip
    BY <1>3, <2>1, Zenon DEF Failed, GiveUp, Goto
  <2>3. l \notin Waiting /\ l # "asleep" /\ ~OnTheWay(p)
    BY <1>1, <2>1, Zenon DEF Waiting, OnTheWay
  <2> QED BY <1>1, <2>2, <2>3, PlainStep, Zenon
<1> QED BY <1>2, <1>3, Zenon

(* mountio starts again with a flush, having given up reading.             *)
LEMMA InterruptedWait ==
    ASSUME Inv, WaitInv, NEW p \in Procs, NEW t \in Tags, Interrupted(p, t)
    PROVE  WaitInv'
<1>1. /\ pc[p] = "eintr" /\ UNCHANGED <<hungup, tgt, note>>
      /\ Mntralloc(p, t) /\ queue' = queue \cup {t}
  BY Zenon DEF Interrupted, svars
<1>2. CASE rip = p
  <2>1. mntgate(p, "write")
    BY <1>2, Zenon DEF Interrupted, GiveUp
  <2>2. Keeps(p) /\ r(p)' \in queue'
    BY <1>1, AllocKeeps, Zenon
  <2> QED BY <1>1, <1>2, <2>1, <2>2, GateStep, Zenon
<1>3. CASE rip # p
  <2>1. Goto(p, "write") /\ rip' = rip
    BY <1>3, Zenon DEF Interrupted, GiveUp
  <2> QED BY <1>1, <2>1, AllocWait, Zenon
<1> QED BY <1>2, <1>3, Zenon

(* A call that is over, or about to be, frees what was its own.            *)
LEMMA FreeWait ==
    ASSUME Inv, WaitInv, NEW p \in Procs, Mntflushfree(p) \/ Return(p)
    PROVE  WaitInv'
<1>1. pc[p] \in {"free", "return"} /\ UNCHANGED <<rip, hungup, tgt>>
  BY Zenon DEF Mntflushfree, Return, svars
<1>2. /\ pc \in [Procs -> Labels] /\ done \in [Tags -> 0 .. 1]
      /\ chain \in [Procs -> Seq(Tags)] /\ note \in [Procs -> 0 .. 1]
  BY Zenon DEF Inv, TypeOK
<1>3. r(p) \in Tags
  BY <1>1, LastTag, Zenon
<1>4. pc'[p] \in {"free", "return", "idle"} /\ \A q \in Procs \ {p} : pc'[q] = pc[q]
  BY <1>2, Zenon DEF Mntflushfree, Return, Goto
<1>5. \A q \in Procs \ {p} : chain'[q] = chain[q]
  BY <1>2, Zenon DEF Mntflushfree, Return
<1>6. \A q \in Procs \ {p} : note'[q] = note[q]
  BY <1>2, Zenon DEF Mntflushfree, Return
<1>7. \A u \in Tags \ {r(p)} : done'[u] = done[u]
  BY <1>2, <1>3, Zenon DEF Mntflushfree, Return, Mntfree
<1>8. \A u \in Tags \ {r(p)} : u \in queue => u \in queue'
  BY Zenon DEF Mntflushfree, Return, mntqrm
<1>9. Alone(p)
  BY <1>1, <1>3, <1>4, <1>5, <1>6, <1>7, <1>8, TouchesOne, Zenon DEF Alone
<1>10. ~OnTheWay(p) /\ pc'[p] \notin Waiting
  BY <1>1, <1>4, Zenon DEF OnTheWay, Waiting
<1> QED BY <1>1, <1>4, <1>9, <1>10, AloneStep, Zenon

(* A note wakes a process that sleeps.                                     *)
LEMMA PostnoteWait ==
    ASSUME Inv, WaitInv, NEW p \in Procs, Postnote(p)
    PROVE  WaitInv'
<1>1. UNCHANGED <<queue, done, rip, hungup, chain, tgt>>
  BY Zenon DEF Postnote, mvars, svars
<1>2. /\ \A q \in Procs : pc'[q] = pc[q] \/ (pc[q] = "asleep" /\ pc'[q] = "awake")
      /\ \A q \in Procs : note[q] = 1 => note'[q] = 1
  BY Zenon DEF Postnote, Inv, TypeOK
<1>3. \A q \in Procs : r(q)' = r(q)
  BY <1>1, Zenon DEF r
<1>4. QueuedInv'
  BY <1>1, <1>2, <1>3, Zenon DEF WaitInv, QueuedInv, Waiting
<1>5. WokenInv'
  BY <1>1, <1>2, <1>3 DEF WaitInv, WokenInv
<1>6. \A q \in Procs : OnTheWay(q) => OnTheWay(q)'
  BY <1>1, <1>2, <1>3, Zenon DEF OnTheWay
<1>7. GateInv'
  BY <1>1, <1>2, <1>3, <1>6, Zenon DEF WaitInv, GateInv
<1> QED BY <1>4, <1>5, <1>7, Zenon DEF WaitInv

(* What the server does, and what changes nothing.                         *)
LEMMA ServerWait ==
    ASSUME WaitInv, UNCHANGED <<queue, done, rip, pc, chain, tgt, note>>, hungup' \in {hungup, 1}
    PROVE  WaitInv'
<1>1. \A q \in Procs : r(q)' = r(q)
  BY Zenon DEF r
<1>2. QueuedInv'
  BY <1>1, Zenon DEF WaitInv, QueuedInv
<1>3. WokenInv'
  BY <1>1 DEF WaitInv, WokenInv
<1>4. \A q \in Procs : OnTheWay(q)' = OnTheWay(q)
  BY <1>1, Zenon DEF OnTheWay
<1>5. GateInv'
  BY <1>1, <1>4 DEF WaitInv, GateInv
<1> QED BY <1>2, <1>3, <1>5, Zenon DEF WaitInv

(* Every step strands nobody.                                              *)
LEMMA NextWait == Inv /\ WaitInv /\ [Next]_vars => WaitInv'
<1> SUFFICES ASSUME Inv, WaitInv, [Next]_vars
             PROVE  WaitInv'
  BY Zenon
<1>1. ASSUME NEW p \in Procs, NEW t \in Tags, Mountrpc(p, t) PROVE WaitInv'
  BY <1>1, AllocWait, Zenon DEF Mountrpc, svars
<1>2. ASSUME NEW p \in Noted, Postnote(p) PROVE WaitInv'
  BY <1>2, PostnoteWait, MntMuxAssumption, Zenon
<1>3. ASSUME NEW m \in pending, Answer(m) PROVE WaitInv'
  BY <1>3, ServerWait, Zenon DEF Answer, mvars
<1>4. CASE Hangup
  BY <1>4, ServerWait, Zenon DEF Hangup, mvars
<1>5. CASE UNCHANGED vars
  BY <1>5, ServerWait, Zenon DEF vars, mvars, svars
<1>6. ASSUME NEW p \in Procs, Step(p) PROVE WaitInv'
  BY <1>6, WriteWait, GateWait, SleepWait, AwakeWait, ReadWait, WakeupWait, LeaveWait, FailedWait,
     FreeWait, InterruptedWait, Zenon DEF Step
<1> QED BY <1>1, <1>2, <1>3, <1>4, <1>5, <1>6, Zenon DEF Next

(* No caller is stranded: while the connection is up, a process asleep in  *)
(* mountio has been answered and is about to be woken, or somebody reads   *)
(* or is on the way to the gate, for any number of processes and notes     *)
(* (mountmux, mntgate, rpcattn).                                           *)
THEOREM NoStrandedCallerHolds == Spec => []NoStrandedCaller
<1>1. Init => WaitInv
  BY Zenon DEF Init, WaitInv, QueuedInv, WokenInv, GateInv, Waiting
<1>2. Spec => [](Inv /\ WaitInv)
  BY <1>1, InvHolds, NextWait, PTL DEF Spec
<1>3. Inv /\ WaitInv => NoStrandedCaller
  <2> SUFFICES ASSUME Inv, WaitInv, NEW p \in Procs, pc[p] = "asleep"
               PROVE  IF done[r(p)] = 1
                      THEN \E q \in Procs : pc[q] = "wakeup" /\ tgt[q] = r(p)
                      ELSE hungup = 0 => rip # None \/ \E q \in Procs : OnTheWay(q)
    BY Zenon DEF NoStrandedCaller
  <2>1. done[r(p)] \in 0 .. 1
    BY LastTag, Zenon DEF Inv, TypeOK
  <2>2. CASE done[r(p)] = 1
    BY <2>2, Zenon DEF WaitInv, WokenInv
  <2>3. CASE done[r(p)] # 1
    <3>1. done[r(p)] = 0
      BY <2>1, <2>3
    <3> QED BY <2>3, <3>1, Zenon DEF WaitInv, GateInv
  <2> QED BY <2>2, <2>3, Zenon
<1> QED BY <1>2, <1>3, PTL
=============================================================================
