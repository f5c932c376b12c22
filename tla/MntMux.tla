------------------------------- MODULE MntMux -------------------------------
(***************************************************************************)
(* The multiplexer of the mount driver (port/devmnt.c, mountrpc to         *)
(* rpcattn): many processes make calls over one connection to a 9P server. *)
(* Each queues its Mntrpc and writes its request.  One at a time, named by *)
(* m->rip, reads the replies for everybody and passes the duty on when its *)
(* own reply has come.  A note makes a process flush its request: another  *)
(* Mntrpc is chained to the first and waits for its own reply.             *)
(*                                                                         *)
(* A Mntrpc is named by its tag, which it keeps while it is allocated and  *)
(* while it is on the free list.  Neither the order of m->queue nor that   *)
(* of the free list is modelled.  The server is external: it answers the   *)
(* requests in any order, with whole messages, and obeys flush(5).  sleep  *)
(* and wakeup are atomic (see SleepWakeup), and so are the sections under  *)
(* the locks of the Mnt and of mntalloc.  The allocations succeed.         *)
(***************************************************************************)
EXTENDS Naturals, Sequences, FiniteSets

CONSTANTS Procs,
          Noted,      \* bound: the processes to which notes are posted
          MaxTag,     \* tags are 1 .. MaxTag
          MaxFree,    \* how many Mntrpcs the free list keeps (10 in the code)
          MaxFlush,   \* bound: the notes and flushes at one time, so a call
                      \* has at most as many in a row
          None,
          Rflush      \* what a call returns that was flushed

ASSUME MntMuxAssumption ==
    /\ Noted \subseteq Procs
    /\ None \notin Procs /\ Rflush \notin Procs /\ None # Rflush
    /\ MaxTag \in Nat /\ MaxFree \in Nat /\ MaxFlush \in Nat

Tags == 1 .. MaxTag

VARIABLES queue,     \* the Mntrpcs on m->queue
          rip,       \* m->rip, the reader in progress
          done,      \* r->done
          reply,     \* r->reply: Rflush, or the process whose call it answers
          rpcfree,   \* the Mntrpcs on mntalloc.rpcfree
          tagmask,   \* mntalloc.tagmask: the tags of all Mntrpcs
          pc,
          chain,     \* the Mntrpc of the call and, after it, its flushes
          tgt,       \* the Mntrpc that mountmux is about to wake, or 0
          note,      \* up->notepending
          failed,    \* mountio leaves by nexterror
          pending,   \* the requests the server has not answered
          replies,   \* the replies on their way, in order
          hungup     \* the server has closed the connection

mvars == <<queue, rip, done, reply>>
avars == <<rpcfree, tagmask>>
svars == <<pending, replies, hungup>>
vars == <<mvars, avars, svars, pc, chain, tgt, note, failed>>

Init ==
    /\ queue = {} /\ rip = None
    /\ done = [t \in Tags |-> 0] /\ reply = [t \in Tags |-> None]
    /\ rpcfree = {} /\ tagmask = {}
    /\ pc = [p \in Procs |-> "idle"]
    /\ chain = [p \in Procs |-> <<>>]
    /\ tgt = [p \in Procs |-> 0]
    /\ note = [p \in Procs |-> 0] /\ failed = [p \in Procs |-> 0]
    /\ pending = {} /\ replies = <<>> /\ hungup = 0

Goto(p, l) == pc' = [pc EXCEPT ![p] = l]

(* The Mntrpc mountio works on, and the one of the call.                   *)
r(p) == chain[p][Len(chain[p])]
Original(p) == chain[p][1]
-----------------------------------------------------------------------------
(* mntralloc: from the free list, else new with the first free tag.        *)
Available ==
    IF rpcfree # {} THEN rpcfree
    ELSE {t \in Tags \ tagmask : \A u \in Tags \ tagmask : t <= u}

Mntralloc(p, t) ==
    /\ t \in Available
    /\ rpcfree' = rpcfree \ {t}
    /\ tagmask' = tagmask \cup {t}
    /\ done' = [done EXCEPT ![t] = 0]
    /\ chain' = [chain EXCEPT ![p] = Append(@, t)]

(* mntfree; what is left in a free Mntrpc is not looked at again.          *)
Mntfree(t) ==
    /\ IF Cardinality(rpcfree) >= MaxFree
       THEN tagmask' = tagmask \ {t} /\ UNCHANGED rpcfree
       ELSE rpcfree' = rpcfree \cup {t} /\ UNCHANGED tagmask
    /\ done' = [done EXCEPT ![t] = 0]
    /\ reply' = [reply EXCEPT ![t] = None]

(* A call begins: mntralloc, then mountio puts the Mntrpc on the queue.    *)
Mountrpc(p, t) ==
    /\ pc[p] = "idle"
    /\ Mntralloc(p, t)
    /\ queue' = queue \cup {t}
    /\ Goto(p, "write")
    /\ UNCHANGED <<rip, reply, tgt, note, failed, svars>>

(* The message convS2M makes, the n-th for the call.                       *)
Request(p) ==
    IF Len(chain[p]) = 1
    THEN [tag |-> r(p), nth |-> 1, oldtag |-> 0, who |-> p]
    ELSE [tag |-> r(p), nth |-> Len(chain[p]), oldtag |-> Original(p), who |-> Rflush]

Eintr(p) ==
    /\ note[p] = 1
    /\ note' = [note EXCEPT ![p] = 0]
    /\ Goto(p, "eintr")
    /\ UNCHANGED failed

Emountrpc(p) ==
    /\ hungup = 1
    /\ failed' = [failed EXCEPT ![p] = 1]
    /\ Goto(p, "error")
    /\ UNCHANGED note

(* The write of the request.  A note may interrupt it before or after the  *)
(* message has been taken; a connection that is hung up refuses it.        *)
Write(p) ==
    /\ pc[p] = "write"
    /\ \/ /\ hungup = 0
          /\ pending' = pending \cup {Request(p)}
          /\ \/ Goto(p, "gate") /\ UNCHANGED <<note, failed>>
             \/ Eintr(p)
       \/ (Eintr(p) \/ Emountrpc(p)) /\ UNCHANGED pending
    /\ UNCHANGED <<mvars, avars, replies, hungup, chain, tgt>>

(* Under the lock: become the reader, or go to sleep.  The reply may have  *)
(* come on the way here; then there is nothing to read.                    *)
Gate(p) ==
    /\ pc[p] = "gate"
    /\ IF rip = None
       THEN rip' = p /\ Goto(p, IF done[r(p)] = 0 THEN "read" ELSE "mntgate")
       ELSE UNCHANGED rip /\ Goto(p, "sleep")
    /\ UNCHANGED <<queue, done, reply, avars, svars, chain, tgt, note, failed>>

rpcattn(t) == done[t] = 1 \/ rip = None

(* sleep(&r->r, rpcattn, r)                                                *)
Sleep(p) ==
    /\ pc[p] = "sleep"
    /\ Goto(p, IF note[p] = 1 \/ rpcattn(r(p)) THEN "awake" ELSE "asleep")
    /\ UNCHANGED <<mvars, avars, svars, chain, tgt, note, failed>>

BugAwake(p) ==
    /\ pc[p] = "awake"
    /\ \/ Eintr(p)
       \/ note[p] = 0 /\ Goto(p, "gate") /\ UNCHANGED <<note, failed>>
    /\ UNCHANGED <<mvars, avars, svars, chain, tgt>>

(* The end of sleep: a note comes before everything else.                  *)
Awake(p) ==
    /\ pc[p] = "awake"
    /\ \/ Eintr(p)
       \/ /\ note[p] = 0
          /\ Goto(p, IF done[r(p)] = 1 THEN "free" ELSE "gate")
          /\ UNCHANGED <<note, failed>>
    /\ UNCHANGED <<mvars, avars, svars, chain, tgt>>
-----------------------------------------------------------------------------
(* mountmux: the reply m in r->reply goes to the Mntrpc with its tag.      *)
mountmux(p, m) ==
    IF m.tag \in queue
    THEN /\ queue' = queue \ {m.tag}
         /\ done' = [done EXCEPT ![m.tag] = 1]
         /\ reply' = [reply EXCEPT ![r(p)] = m.who, ![m.tag] = m.who]
         /\ tgt' = [tgt EXCEPT ![p] = IF m.tag = r(p) THEN 0 ELSE m.tag]
         /\ Goto(p, IF m.tag = r(p) THEN "mntgate" ELSE "wakeup")
    ELSE /\ reply' = [reply EXCEPT ![r(p)] = m.who]
         /\ UNCHANGED <<queue, done, tgt, pc>>

(* mntrpcread takes the next message.                                      *)
mntrpcread ==
    /\ replies # <<>>
    /\ replies' = Tail(replies)

(* It fails when there is none and the connection is hung up or a note     *)
(* interrupts the wait.                                                    *)
doreadFails(p) ==
    /\ replies = <<>>
    /\ Eintr(p) \/ Emountrpc(p)
    /\ UNCHANGED replies

(* One turn of the reader's loop: mntrpcread, then mountmux.               *)
Read(p) ==
    /\ pc[p] = "read"
    /\ \/ mntrpcread /\ mountmux(p, Head(replies)) /\ UNCHANGED <<note, failed>>
       \/ /\ doreadFails(p)
          /\ reply' = [reply EXCEPT ![r(p)] = None]
          /\ UNCHANGED <<queue, done, tgt>>
    /\ UNCHANGED <<rip, avars, pending, hungup, chain>>

Sleepers(t) == {p \in Procs : pc[p] = "asleep" /\ r(p) = t}

(* p goes on at l, and those in woken are ready.                           *)
WakeAndGoto(woken, p, l) ==
    pc' = [q \in Procs |-> IF q = p THEN l ELSE IF q \in woken THEN "awake" ELSE pc[q]]

(* wakeup(&q->r), after the lock has been released: q may be free by now.  *)
Wakeup(p) ==
    /\ pc[p] = "wakeup"
    /\ tgt' = [tgt EXCEPT ![p] = 0]
    /\ WakeAndGoto(Sleepers(tgt[p]), p, "read")
    /\ UNCHANGED <<mvars, avars, svars, chain, note, failed>>

(* mntgate: nobody reads now; one process that waits is woken.             *)
mntgate(p, l) ==
    /\ rip' = None
    /\ LET waiting == {t \in queue : done[t] = 0 /\ Sleepers(t) # {}}
       IN  IF waiting = {} THEN Goto(p, l)
           ELSE \E t \in waiting : WakeAndGoto(Sleepers(t), p, l)

BugLeave(p) ==
    /\ pc[p] = "mntgate"
    /\ rip' = None
    /\ Goto(p, "free")
    /\ UNCHANGED <<queue, done, reply, avars, svars, chain, tgt, note, failed>>

(* The reader has its own reply.                                           *)
Leave(p) ==
    /\ pc[p] = "mntgate"
    /\ mntgate(p, "free")
    /\ UNCHANGED <<queue, done, reply, avars, svars, chain, tgt, note, failed>>

(* The error handler of mountio: give up reading.                          *)
GiveUp(p, l) == IF rip = p THEN mntgate(p, l) ELSE Goto(p, l) /\ UNCHANGED rip

BugInterrupted(p, t) ==
    /\ pc[p] = "eintr"
    /\ GiveUp(p, "free")
    /\ UNCHANGED <<queue, done, reply, avars, svars, chain, tgt, note, failed>>

(* After an interrupt: mntflushalloc, and mountio once more with the flush *)
(* in place of the request.                                                *)
Interrupted(p, t) ==
    /\ pc[p] = "eintr"
    /\ GiveUp(p, "write")
    /\ Mntralloc(p, t)
    /\ queue' = queue \cup {t}
    /\ UNCHANGED <<reply, tgt, note, failed, svars>>

(* After any other error.                                                  *)
Failed(p) ==
    /\ pc[p] = "error"
    /\ GiveUp(p, "free")
    /\ UNCHANGED <<queue, done, reply, avars, svars, chain, tgt, note, failed>>

(* mntqrm: one that is done has left the queue before.                     *)
mntqrm(t) == queue' = queue \ {t}

BugFlushfree(p) ==
    /\ pc[p] = "free"
    /\ mntqrm(r(p))
    /\ IF Len(chain[p]) > 1
       THEN /\ Mntfree(r(p))
            /\ chain' = [chain EXCEPT ![p] = SubSeq(@, 1, Len(@) - 1)]
            /\ UNCHANGED pc
       ELSE /\ done' = [done EXCEPT ![r(p)] = 1]
            /\ Goto(p, "return")
            /\ UNCHANGED <<reply, avars, chain>>
    /\ UNCHANGED <<rip, svars, tgt, note, failed>>

(* One turn of mntflushfree: an unanswered Mntrpc leaves the queue, a      *)
(* flush is freed.                                                         *)
Mntflushfree(p) ==
    /\ pc[p] = "free"
    /\ mntqrm(r(p))
    /\ IF Len(chain[p]) > 1
       THEN /\ Mntfree(r(p))
            /\ chain' = [chain EXCEPT ![p] = SubSeq(@, 1, Len(@) - 1)]
            /\ UNCHANGED pc
       ELSE /\ done' = [done EXCEPT ![r(p)] = 1]
            /\ reply' = [reply EXCEPT ![r(p)] = IF done[r(p)] = 0 THEN Rflush ELSE @]
            /\ Goto(p, "return")
            /\ UNCHANGED <<avars, chain>>
    /\ UNCHANGED <<rip, svars, tgt, note, failed>>

(* mountrpc has looked at the reply; its caller frees the Mntrpc.  What is *)
(* still on its way for this call belongs to nobody.                       *)
Stale(m, p) == IF m.who = p THEN [m EXCEPT !.who = None] ELSE m

Return(p) ==
    /\ pc[p] = "return"
    /\ Mntfree(r(p))
    /\ chain' = [chain EXCEPT ![p] = <<>>]
    /\ note' = [note EXCEPT ![p] = 0]
    /\ failed' = [failed EXCEPT ![p] = 0]
    /\ pending' = {Stale(m, p) : m \in pending}
    /\ replies' = [i \in DOMAIN replies |-> Stale(replies[i], p)]
    /\ Goto(p, "idle")
    /\ UNCHANGED <<queue, rip, hungup, tgt>>
-----------------------------------------------------------------------------
(* postnote to a process in a call.                                        *)
Interrupts == {p \in Procs : note[p] = 1 \/ pc[p] = "eintr"}
Flushes == {t \in Tags : \E p \in Procs : \E i \in 2 .. Len(chain[p]) : chain[p][i] = t}

Postnote(p) ==
    /\ pc[p] # "idle" /\ note[p] = 0
    /\ Cardinality(Flushes) + Cardinality(Interrupts) < MaxFlush
    /\ note' = [note EXCEPT ![p] = 1]
    /\ pc' = IF pc[p] = "asleep" THEN [pc EXCEPT ![p] = "awake"] ELSE pc
    /\ UNCHANGED <<mvars, avars, svars, chain, tgt, failed>>

(* The server answers a request; with an Rflush it gives up the request    *)
(* that is flushed and the earlier flushes of it.                          *)
Answer(m) ==
    /\ replies' = Append(replies, [tag |-> m.tag, who |-> m.who])
    /\ pending' = {q \in pending \ {m} : \/ m.oldtag = 0
                                         \/ m.oldtag \notin {q.tag, q.oldtag}
                                         \/ q.nth > m.nth}
    /\ UNCHANGED <<mvars, avars, hungup, pc, chain, tgt, note, failed>>

Hangup ==
    /\ hungup = 0
    /\ hungup' = 1
    /\ pending' = {}
    /\ UNCHANGED <<mvars, avars, replies, pc, chain, tgt, note, failed>>
-----------------------------------------------------------------------------
Step(p) ==
    \/ Write(p) \/ Gate(p) \/ Sleep(p) \/ Awake(p) \/ Read(p) \/ Wakeup(p) \/ Leave(p)
    \/ Failed(p) \/ Mntflushfree(p) \/ Return(p) \/ \E t \in Tags : Interrupted(p, t)

Next ==
    \/ \E p \in Procs : Step(p) \/ \E t \in Tags : Mountrpc(p, t)
    \/ \E p \in Noted : Postnote(p)
    \/ \E m \in pending : Answer(m)
    \/ Hangup

Spec == Init /\ [][Next]_vars

(* A process in the kernel goes on, and the server answers every request.  *)
AnswerTag(t) == \E m \in pending : m.tag = t /\ Answer(m)

FairSpec ==
    /\ Spec
    /\ \A p \in Procs : WF_vars(Step(p))
    /\ \A t \in Tags : WF_vars(AnswerTag(t))
-----------------------------------------------------------------------------
Labels == {"idle", "write", "gate", "sleep", "asleep", "awake", "read", "wakeup", "mntgate",
           "eintr", "error", "free", "return"}

(* The variables hold values of their types, and a Mntrpc on the free list *)
(* keeps its tag.                                                          *)
TypeOK ==
    /\ queue \subseteq Tags /\ rip \in Procs \cup {None}
    /\ done \in [Tags -> 0 .. 1] /\ reply \in [Tags -> Procs \cup {None, Rflush}]
    /\ rpcfree \subseteq tagmask /\ tagmask \subseteq Tags
    /\ pc \in [Procs -> Labels]
    /\ chain \in [Procs -> Seq(Tags)] /\ tgt \in [Procs -> Tags \cup {0}]
    /\ note \in [Procs -> 0 .. 1] /\ failed \in [Procs -> 0 .. 1]
    /\ pending \subseteq [tag : Tags, nth : Nat, oldtag : Tags \cup {0},
                          who : Procs \cup {None, Rflush}]
    /\ replies \in Seq([tag : Tags, who : Procs \cup {None, Rflush}])
    /\ hungup \in 0 .. 1

(* A call that mountrpc lets succeed has the reply to its own request, and *)
(* one whose request got no reply before the Rflush returns Rflush,        *)
(* whoever read the reply and whatever tags were used again (flush(5)).    *)
OwnReply ==
    \A p \in Procs : pc[p] = "return" /\ failed[p] = 0 => reply[Original(p)] \in {p, Rflush}

(* "it must wait to receive the corresponding Rflush before reusing        *)
(* oldtag": while the connection is up, nothing that carries the tag of a  *)
(* free Mntrpc is at the server or on its way.                             *)
FreeTagQuiet ==
    hungup = 0 =>
        \A t \in (Tags \ tagmask) \cup rpcfree :
            /\ \A m \in pending : m.tag # t
            /\ \A i \in DOMAIN replies : replies[i].tag # t

(* A process that will come to the gate and find it open.                  *)
OnTheWay(p) ==
    \/ pc[p] \in {"eintr", "write", "gate"}
    \/ pc[p] \in {"sleep", "awake"} /\ (done[r(p)] = 0 \/ note[p] = 1)

(* Nobody sleeps in vain: while the connection is up, a sleeping process   *)
(* whose reply has come is about to be woken, and if one sleeps without a  *)
(* reply then somebody reads or is on the way to the gate.                 *)
NoStrandedCaller ==
    \A p \in Procs : pc[p] = "asleep" =>
        IF done[r(p)] = 1
        THEN \E q \in Procs : pc[q] = "wakeup" /\ tgt[q] = r(p)
        ELSE hungup = 0 => rip # None \/ \E q \in Procs : OnTheWay(q)

(* Every call returns, unless the connection is hung up.                   *)
CallReturns ==
    \A p \in Procs : (pc[p] # "idle") ~> (pc[p] = "idle" \/ hungup = 1)

(* "Gate readers onto the mount point one at a time": whoever sleeps       *)
(* without a reply has a reader or somebody on the way to the gate, also   *)
(* when the connection is hung up.                                         *)
NoneLeftAsleep ==
    \A p \in Procs : pc[p] = "asleep" /\ done[r(p)] = 0 =>
        rip # None \/ \E q \in Procs : OnTheWay(q)
=============================================================================
