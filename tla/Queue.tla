------------------------------- MODULE Queue --------------------------------
(***************************************************************************)
(* The I/O queues of port/qio.c.  A queue has a process or the interrupt   *)
(* side at each end: qread and qbread under rlock, qbwrite under wlock,    *)
(* and those that take only the queue's ilock (qproduce, qpass,            *)
(* qpassnolim, qiwrite; qget, qconsume, qdiscard).  Anybody may close,     *)
(* hang up or flush it meanwhile; TCP does so when a segment resets the    *)
(* connection.                                                             *)
(*                                                                         *)
(* A section under ilock is one step, and so are sleep's test of its       *)
(* condition with the commitment to sleep, and wakeup (SleepWakeup).  The  *)
(* wakeup that follows a section is a step of its own.  rlock and wlock    *)
(* are FifoMutex locks of which only the holder matters here.              *)
(***************************************************************************)
EXTENDS Naturals, Sequences

CONSTANTS Readers, Writers,
          Limit,      \* q->limit
          Blocks,     \* bound: the contents of the blocks that are written
          OutBlocks,  \* bound: those of them that are written to a device
          ReadLens,   \* bound: the sizes of a read
          MaxLen,     \* bound on len for interrupted writers and qiwrite,
                      \* which stops at a dlen of 16*1024
          None

Byte == UNION {{d[i] : i \in DOMAIN d} : d \in Blocks}

ASSUME QueueAssumption ==
    /\ Limit \in Nat /\ Limit > 1 /\ MaxLen \in Nat
    /\ Blocks # {} /\ Blocks \subseteq Seq(Byte) /\ OutBlocks \subseteq Blocks /\ ReadLens \subseteq Nat \ {0}
    /\ None \notin Readers \cup Writers /\ Readers \cap Writers = {}

VARIABLES use,       \* which ends are processes
          mode,      \* Qmsg, Qcoalesce or neither
          blocks,    \* q->bfirst ..., each with its data and BALLOC
          len, dlen,
          closed, starve, flow,      \* bits of q->state
          noblock, eof,
          rlock, wlock,
          rr, wr,    \* the processes asleep on q->rr and q->wr
          pc,
          data,      \* what a writer has to write
          hold,      \* the blocks that qread copies, unlocked, and its len
          ipc, cpc,  \* the wakeups that the interrupt side and the process
                     \* that closes or flushes have yet to make
          released   \* history: closed by qclose

bvars == <<blocks, len, dlen>>
svars == <<closed, starve, flow, noblock, eof>>
cvars == <<use, mode, released>>
lvars == <<rlock, wlock, rr, wr>>
vars == <<bvars, svars, cvars, lvars, pc, data, hold, ipc, cpc>>

Procs == Readers \cup Writers

(* BALLOC of a block: never 0                                              *)
NewBlock(d) == [d |-> d, alloc |-> IF d = <<>> THEN 1 ELSE Len(d)]

NoHold == [bs |-> <<>>, n |-> 0]

(* The bytes, and the sum of the sizes, of a list of blocks.               *)
Flat(bs) ==
    LET f[i \in 0 .. Len(bs)] == IF i = 0 THEN <<>> ELSE f[i - 1] \o bs[i].d
    IN  f[Len(bs)]

Alloc(bs) ==
    LET f[i \in 0 .. Len(bs)] == IF i = 0 THEN 0 ELSE f[i - 1] + bs[i].alloc
    IN  f[Len(bs)]

(* The queues that the kernel opens: a pipe, the input of a connection or  *)
(* a device, and the output, which may be made not to block.               *)
Kinds ==
    {<<"pipe", "stream", 0>>}
    \cup {"input"} \X {"stream", "msg", "coalesce"} \X {0}
    \cup {"output"} \X {"stream", "msg"} \X {0, 1}

(* qopen                                                                   *)
Init ==
    /\ \E k \in Kinds : use = k[1] /\ mode = k[2] /\ noblock = k[3]
    /\ blocks = <<>> /\ len = 0 /\ dlen = 0
    /\ closed = 0 /\ starve = 1 /\ flow = 0 /\ eof = 0
    /\ rlock = None /\ wlock = None /\ rr = None /\ wr = None
    /\ pc = [p \in Procs |-> "idle"]
    /\ data = [p \in Procs |-> <<>>]
    /\ hold = NoHold
    /\ ipc = "idle" /\ cpc = "idle" /\ released = 0

Goto(p, l) == pc' = [pc EXCEPT ![p] = l]

(* The list of blocks changes; qaddlist, qremove and qputback keep count.  *)
SetBlocks(bs, l, d) == blocks' = bs /\ len' = l /\ dlen' = d

Add(d) == SetBlocks(Append(blocks, NewBlock(d)), len + NewBlock(d).alloc, dlen + Len(d))

(* wakeup(&q->rr) and wakeup(&q->wr); l is where the processes are else.   *)
WakeRR(l) == rr' = None /\ pc' = [p \in Procs |-> IF p = rr THEN "qwait" ELSE l[p]]
WakeWR(l) == wr' = None /\ pc' = [p \in Procs |-> IF p = wr THEN "flow" ELSE l[p]]
-----------------------------------------------------------------------------
(* qread and qbread: qlock(&q->rlock), then qwait.                         *)
Rlock(p) ==
    /\ use # "output" /\ pc[p] = "idle" /\ rlock = None
    /\ rlock' = p
    /\ Goto(p, "qwait")
    /\ UNCHANGED <<bvars, svars, cvars, wlock, rr, wr, data, hold, ipc, cpc>>

BugEof(p) ==
    /\ pc[p] = "qwait" /\ blocks = <<>> /\ closed = 1
    /\ eof' = IF eof > 3 THEN eof ELSE eof + 1
    /\ Goto(p, "rsleep")
    /\ UNCHANGED <<bvars, closed, starve, flow, noblock, cvars, lvars, data, hold, ipc, cpc>>

(* qwait on a closed queue: after three ends of file an error.             *)
Eof(p) ==
    /\ pc[p] = "qwait" /\ blocks = <<>> /\ closed = 1
    /\ eof' = IF eof > 3 THEN eof ELSE eof + 1
    /\ rlock' = None
    /\ Goto(p, "idle")
    /\ UNCHANGED <<bvars, closed, starve, flow, noblock, cvars, wlock, rr, wr, data, hold, ipc, cpc>>

BugStarve(p) ==
    /\ pc[p] = "qwait" /\ blocks = <<>> /\ closed = 0
    /\ Goto(p, "rsleep")
    /\ UNCHANGED <<bvars, svars, cvars, lvars, data, hold, ipc, cpc>>

(* qwait on an empty queue: ask to be woken.                               *)
Starve(p) ==
    /\ pc[p] = "qwait" /\ blocks = <<>> /\ closed = 0
    /\ starve' = 1
    /\ Goto(p, "rsleep")
    /\ UNCHANGED <<bvars, closed, flow, noblock, eof, cvars, lvars, data, hold, ipc, cpc>>

notempty == closed = 1 \/ blocks # <<>>

Rsleep(p) ==
    /\ pc[p] = "rsleep"
    /\ Goto(p, IF notempty THEN "qwait" ELSE "asleep")
    /\ rr' = IF notempty THEN rr ELSE p
    /\ UNCHANGED <<bvars, svars, cvars, rlock, wlock, wr, data, hold, ipc, cpc>>

(* How many blocks qread takes: one, or when coalescing as many as fit.    *)
Grab(n) ==
    LET fits == {m \in 1 .. Len(blocks) : Len(Flat(SubSeq(blocks, 1, m))) <= n}
    IN  IF mode # "coalesce" \/ fits = {} THEN 1
        ELSE CHOOSE m \in fits : \A k \in fits : k <= m

(* qread takes blocks and leaves the lock to copy them.  Coalescing, it    *)
(* lets an empty first block go.                                           *)
qread(p, n) ==
    /\ pc[p] = "qwait" /\ blocks # <<>>
    /\ LET empty == mode = "coalesce" /\ Head(blocks).d = <<>>
           m == IF empty THEN 1 ELSE Grab(n)
           bs == SubSeq(blocks, 1, m)
       IN  /\ SetBlocks(SubSeq(blocks, m + 1, Len(blocks)), len - Alloc(bs), dlen - Len(Flat(bs)))
           /\ hold' = IF empty THEN hold ELSE [bs |-> bs, n |-> n]
           /\ Goto(p, IF empty THEN "qwait" ELSE "copy")
    /\ UNCHANGED <<svars, cvars, lvars, data, ipc, cpc>>

(* qwakeup_iunlock: restart a flow controlled writer, or leave.            *)
Restart(p) ==
    LET dowakeup == flow = 1 /\ len' < Limit \div 2
    IN  /\ flow' = IF dowakeup THEN 0 ELSE flow
        /\ rlock' = IF dowakeup THEN rlock ELSE None
        /\ Goto(p, IF dowakeup THEN "wakewr" ELSE "idle")

BugCopied(p) ==
    /\ pc[p] = "copy"
    /\ LET b == Head(hold.bs)
           rest == [b EXCEPT !.d = SubSeq(b.d, hold.n + 1, Len(b.d))]
       IN  IF Len(b.d) > hold.n /\ mode # "msg"
           THEN SetBlocks(Append(blocks, rest), len + rest.alloc, dlen + Len(rest.d))
           ELSE UNCHANGED bvars
    /\ Restart(p)
    /\ hold' = NoHold
    /\ UNCHANGED <<closed, starve, noblock, eof, cvars, wlock, rr, wr, data, ipc, cpc>>

(* bl2mem, then what is left of the block is put back or, of a message,    *)
(* freed.                                                                  *)
Copied(p) ==
    /\ pc[p] = "copy"
    /\ LET b == Head(hold.bs)
           rest == [b EXCEPT !.d = SubSeq(b.d, hold.n + 1, Len(b.d))]
       IN  IF Len(b.d) > hold.n /\ mode # "msg"
           THEN SetBlocks(<<rest>> \o blocks, len + rest.alloc, dlen + Len(rest.d))
           ELSE UNCHANGED bvars
    /\ Restart(p)
    /\ hold' = NoHold
    /\ UNCHANGED <<closed, starve, noblock, eof, cvars, wlock, rr, wr, data, ipc, cpc>>

BugQbread(p, n) ==
    /\ pc[p] = "qwait" /\ blocks # <<>>
    /\ LET b == Head(blocks)
           rest == SubSeq(b.d, n + 1, Len(b.d))
           split == Len(b.d) > n /\ mode # "msg"
       IN  SetBlocks((IF split THEN <<NewBlock(rest)>> ELSE <<>>) \o Tail(blocks),
                     len - b.alloc, dlen - Len(b.d))
    /\ Restart(p)
    /\ UNCHANGED <<closed, starve, noblock, eof, cvars, wlock, rr, wr, data, hold, ipc, cpc>>

(* qbread: one block, split if it is too long.                             *)
qbread(p, n) ==
    /\ pc[p] = "qwait" /\ blocks # <<>>
    /\ LET b == Head(blocks)
           rest == SubSeq(b.d, n + 1, Len(b.d))
           split == Len(b.d) > n /\ mode # "msg"
       IN  SetBlocks((IF split THEN <<NewBlock(rest)>> ELSE <<>>) \o Tail(blocks),
                     len - b.alloc + (IF split THEN NewBlock(rest).alloc ELSE 0),
                     dlen - Len(b.d) + (IF split THEN Len(rest) ELSE 0))
    /\ Restart(p)
    /\ UNCHANGED <<closed, starve, noblock, eof, cvars, wlock, rr, wr, data, hold, ipc, cpc>>

ReaderWakes(p) ==
    /\ pc[p] = "wakewr"
    /\ WakeWR([pc EXCEPT ![p] = "idle"])
    /\ rlock' = None
    /\ UNCHANGED <<bvars, svars, cvars, wlock, rr, data, hold, ipc, cpc>>
-----------------------------------------------------------------------------
(* qbwrite: qlock(&q->wlock).  The bound MaxLen keeps out writers that     *)
(* notes have made to write again and again.                               *)
Wlock(p, d) ==
    /\ use # "input" /\ pc[p] = "idle" /\ wlock = None
    /\ len < MaxLen /\ d \in (IF use = "output" THEN OutBlocks ELSE Blocks)
    /\ wlock' = p
    /\ data' = [data EXCEPT ![p] = d]
    /\ Goto(p, "qbwrite")
    /\ UNCHANGED <<bvars, svars, cvars, rlock, rr, wr, hold, ipc, cpc>>

(* The queue is closed, or full and not to be waited for: free the block.  *)
Refused(p) ==
    /\ pc[p] = "qbwrite"
    /\ closed = 1 \/ (len >= Limit /\ noblock = 1)
    /\ wlock' = None
    /\ data' = [data EXCEPT ![p] = <<>>]
    /\ Goto(p, "idle")
    /\ UNCHANGED <<bvars, svars, cvars, rlock, rr, wr, hold, ipc, cpc>>

qbwrite(p) ==
    /\ pc[p] = "qbwrite"
    /\ closed = 0 /\ (len < Limit \/ noblock = 0)
    /\ Add(data[p])
    /\ starve' = 0
    /\ data' = [data EXCEPT ![p] = <<>>]
    /\ Goto(p, IF starve = 1 THEN "wakerr" ELSE "flow")
    /\ UNCHANGED <<closed, flow, noblock, eof, cvars, lvars, hold, ipc, cpc>>

WriterWakes(p) ==
    /\ pc[p] = "wakerr"
    /\ WakeRR([pc EXCEPT ![p] = "flow"])
    /\ UNCHANGED <<bvars, svars, cvars, rlock, wlock, wr, data, hold, ipc, cpc>>

qnotfull == len < Limit \/ closed = 1

(* Flow control: the test is made without the lock.                        *)
Flow(p) ==
    /\ pc[p] = "flow"
    /\ LET go == noblock = 1 \/ qnotfull
       IN  /\ wlock' = IF go THEN None ELSE wlock
           /\ Goto(p, IF go THEN "idle" ELSE "setflow")
    /\ UNCHANGED <<bvars, svars, cvars, rlock, rr, wr, data, hold, ipc, cpc>>

BugSetFlow(p) ==
    /\ pc[p] = "setflow"
    /\ Goto(p, "wsleep")
    /\ UNCHANGED <<bvars, svars, cvars, lvars, data, hold, ipc, cpc>>

SetFlow(p) ==
    /\ pc[p] = "setflow"
    /\ flow' = 1
    /\ Goto(p, "wsleep")
    /\ UNCHANGED <<bvars, closed, starve, noblock, eof, cvars, lvars, data, hold, ipc, cpc>>

Wsleep(p) ==
    /\ pc[p] = "wsleep"
    /\ Goto(p, IF qnotfull THEN "flow" ELSE "asleep")
    /\ wr' = IF qnotfull THEN wr ELSE p
    /\ UNCHANGED <<bvars, svars, cvars, rlock, wlock, rr, data, hold, ipc, cpc>>

(* A note ends a sleep with an error.                                      *)
Note(p) ==
    /\ pc[p] \in {"rsleep", "wsleep", "asleep"}
    /\ rr' = IF rr = p THEN None ELSE rr
    /\ wr' = IF wr = p THEN None ELSE wr
    /\ rlock' = IF rlock = p THEN None ELSE rlock
    /\ wlock' = IF wlock = p THEN None ELSE wlock
    /\ Goto(p, "idle")
    /\ UNCHANGED <<bvars, svars, cvars, data, hold, ipc, cpc>>
-----------------------------------------------------------------------------
(* The interrupt side puts a block in the queue; the reader is then woken. *)
Produce(d) ==
    /\ Add(d)
    /\ starve' = 0
    /\ ipc' = IF starve = 1 THEN "wakerr" ELSE "idle"
    /\ UNCHANGED <<closed, noblock, eof, cvars, lvars, pc, data, hold, cpc>>

qproduce(d) ==
    /\ use = "input" /\ ipc = "idle" /\ len < Limit
    /\ Produce(d)
    /\ flow' = IF len' >= Limit THEN 1 ELSE flow

qproduceFull ==
    /\ use = "input" /\ ipc = "idle" /\ len >= Limit
    /\ flow' = 1
    /\ UNCHANGED <<bvars, closed, starve, noblock, eof, cvars, lvars, pc, data, hold, ipc, cpc>>

qpass(d) ==
    /\ use = "input" /\ ipc = "idle" /\ len < Limit /\ closed = 0
    /\ Produce(d)
    /\ flow' = IF len' >= Limit \div 2 THEN 1 ELSE flow

(* No limit but the bound.                                                 *)
qpassnolim(d) ==
    /\ use = "input" /\ ipc = "idle" /\ len < MaxLen /\ closed = 0
    /\ Produce(d)
    /\ flow' = IF len' >= Limit \div 2 THEN 1 ELSE flow

qiwrite(d) ==
    /\ use = "input" /\ ipc = "idle" /\ len < MaxLen
    /\ Produce(d)
    /\ UNCHANGED flow

(* The interrupt side takes from the queue; the writer is then restarted.  *)
Consumed ==
    LET dowakeup == flow = 1 /\ len' < Limit \div 2
    IN  /\ flow' = IF dowakeup THEN 0 ELSE flow
        /\ ipc' = IF dowakeup THEN "wakewr" ELSE "idle"
        /\ UNCHANGED <<closed, starve, noblock, eof, cvars, lvars, pc, data, hold, cpc>>

qget ==
    /\ use = "output" /\ ipc = "idle" /\ blocks # <<>>
    /\ SetBlocks(Tail(blocks), len - Head(blocks).alloc, dlen - Len(Head(blocks).d))
    /\ Consumed

qgetEmpty ==
    /\ use = "output" /\ ipc = "idle" /\ blocks = <<>>
    /\ starve' = 1
    /\ UNCHANGED <<bvars, closed, flow, noblock, eof, cvars, lvars, pc, data, hold, ipc, cpc>>

(* qconsume of n bytes from the first block that is not empty.  When there *)
(* is none it returns with the empty ones gone.                            *)
qconsume(n) ==
    /\ use = "output" /\ ipc = "idle" /\ blocks # <<>>
    /\ LET full == {i \in 1 .. Len(blocks) : blocks[i].d # <<>>}
           i == CHOOSE k \in full : \A l \in full : k <= l
           b == blocks[i]
           gone == Len(b.d) <= n \/ mode = "msg"
           after == SubSeq(blocks, i + 1, Len(blocks))
           rest == [b EXCEPT !.d = SubSeq(b.d, n + 1, Len(b.d))]
       IN  IF full = {}
           THEN /\ SetBlocks(<<>>, len - Alloc(blocks), dlen)
                /\ starve' = 1
                /\ UNCHANGED <<closed, flow, noblock, eof, cvars, lvars, pc, data, hold, ipc, cpc>>
           ELSE /\ SetBlocks(IF gone THEN after ELSE <<rest>> \o after,
                             len - Alloc(SubSeq(blocks, 1, IF gone THEN i ELSE i - 1)),
                             dlen - IF gone THEN Len(b.d) ELSE n)
                /\ Consumed

(* qdiscard: bytes of as many blocks as it takes.  It stops after n bytes, *)
(* before an empty block that follows.                                     *)
qdiscard(n) ==
    /\ use = "output" /\ ipc = "idle" /\ blocks # <<>>
    /\ LET whole == {m \in 0 .. Len(blocks) : /\ Len(Flat(SubSeq(blocks, 1, m))) <= n
                                              /\ m > 0 => Len(Flat(SubSeq(blocks, 1, m - 1))) < n}
           m == CHOOSE k \in whole : \A l \in whole : l <= k
           left == n - Len(Flat(SubSeq(blocks, 1, m)))
           b == blocks[m + 1]
       IN  SetBlocks(IF m = Len(blocks) THEN <<>>
                     ELSE <<[b EXCEPT !.d = SubSeq(b.d, left + 1, Len(b.d))]>>
                          \o SubSeq(blocks, m + 2, Len(blocks)),
                     len - Alloc(SubSeq(blocks, 1, m)),
                     IF m = Len(blocks) THEN dlen - (n - left) ELSE dlen - n)
    /\ Consumed

InterruptWakes ==
    /\ \/ ipc = "wakerr" /\ WakeRR(pc) /\ UNCHANGED wr
       \/ ipc = "wakewr" /\ WakeWR(pc) /\ UNCHANGED rr
    /\ ipc' = "idle"
    /\ UNCHANGED <<bvars, svars, cvars, rlock, wlock, data, hold, cpc>>
-----------------------------------------------------------------------------
Absent(procs) == \A p \in procs : pc[p] = "idle"

(* A pipe is closed by its last reader; TCP closes its queues beside them. *)
qclose ==
    /\ cpc = "idle" /\ released = 0
    /\ use = "pipe" => Absent(Readers)
    /\ closed' = 1 /\ flow' = 0 /\ starve' = 0 /\ noblock' = 0
    /\ SetBlocks(<<>>, 0, 0)
    /\ cpc' = "wakeboth" /\ released' = 1
    /\ UNCHANGED <<eof, use, mode, lvars, pc, data, hold, ipc>>

(* A pipe is hung up by its last writer.                                   *)
qhangup ==
    /\ cpc = "idle" /\ closed = 0
    /\ use = "pipe" => Absent(Writers)
    /\ closed' = 1
    /\ cpc' = "wakeboth"
    /\ UNCHANGED <<bvars, starve, flow, noblock, eof, cvars, lvars, pc, data, hold, ipc>>

(* The callers are the uart, for its output, and TCP, for a queue that it  *)
(* has hung up: a reader that is about to sleep on an open queue would     *)
(* miss the wakeup for a block that is flushed before it sleeps.           *)
qflush ==
    /\ cpc = "idle"
    /\ use = "output" \/ (use = "input" /\ closed = 1)
    /\ SetBlocks(<<>>, 0, 0)
    /\ cpc' = "wakewr"
    /\ UNCHANGED <<svars, cvars, lvars, pc, data, hold, ipc>>

(* The queue of a device or a connection that is opened anew, when nobody  *)
(* uses it.                                                                *)
qreopen ==
    /\ cpc = "idle" /\ closed = 1 /\ ipc = "idle"
    /\ Absent(Procs)
    /\ closed' = 0 /\ starve' = 1 /\ eof' = 0 /\ released' = 0
    /\ UNCHANGED <<bvars, flow, noblock, use, mode, lvars, pc, data, hold, ipc, cpc>>

CloserWakes ==
    /\ \/ /\ cpc = "wakeboth"
          /\ rr' = None /\ wr' = None
          /\ pc' = [p \in Procs |-> IF p = rr THEN "qwait" ELSE IF p = wr THEN "flow" ELSE pc[p]]
       \/ cpc = "wakewr" /\ WakeWR(pc) /\ UNCHANGED rr
    /\ cpc' = "idle"
    /\ UNCHANGED <<bvars, svars, cvars, rlock, wlock, data, hold, ipc>>
-----------------------------------------------------------------------------
Reader(p) ==
    \/ Eof(p) \/ Starve(p) \/ Rsleep(p) \/ Copied(p) \/ ReaderWakes(p)
    \/ \E n \in ReadLens : qread(p, n) \/ qbread(p, n)

Writer(p) ==
    \/ Refused(p) \/ qbwrite(p) \/ WriterWakes(p)
    \/ Flow(p) \/ SetFlow(p) \/ Wsleep(p)

Device ==
    \/ \E d \in Blocks : qproduce(d) \/ qpass(d) \/ qpassnolim(d) \/ qiwrite(d)
    \/ qproduceFull \/ qget \/ qgetEmpty
    \/ \E n \in ReadLens : qconsume(n) \/ qdiscard(n)

Next ==
    \/ \E p \in Readers : Rlock(p) \/ Reader(p) \/ Note(p)
    \/ \E p \in Writers : (\E d \in Blocks : Wlock(p, d)) \/ Writer(p) \/ Note(p)
    \/ Device \/ InterruptWakes
    \/ qclose \/ qhangup \/ qflush \/ qreopen \/ CloserWakes

Spec == Init /\ [][Next]_vars

(* What has begun goes on; nobody has to read, write or close.             *)
FairSpec ==
    /\ Spec
    /\ \A p \in Readers : WF_vars(Reader(p))
    /\ \A p \in Writers : WF_vars(Writer(p))
    /\ WF_vars(InterruptWakes) /\ WF_vars(CloserWakes)
-----------------------------------------------------------------------------
(* The variables hold values of their types.                               *)
TypeOK ==
    /\ eof \in 0 .. 4
    /\ closed \in 0 .. 1 /\ starve \in 0 .. 1 /\ flow \in 0 .. 1
    /\ noblock \in 0 .. 1 /\ released \in 0 .. 1
    /\ rlock \in Readers \cup {None} /\ rr \in {rlock, None}
    /\ wlock \in Writers \cup {None} /\ wr \in {wlock, None}
    /\ pc \in [Procs -> {"idle", "qwait", "rsleep", "copy", "wakewr", "asleep", "qbwrite",
                         "wakerr", "flow", "setflow", "wsleep"}]
    /\ ipc \in {"idle", "wakerr", "wakewr"} /\ cpc \in {"idle", "wakeboth", "wakewr"}

(* len and dlen count what is queued, through partial reads, blocks put    *)
(* back, messages cut short and a close or a flush during a copy: flow     *)
(* control and qlen rest on them.                                          *)
CountsExact == len = Alloc(blocks) /\ dlen = Len(Flat(blocks))

(* No reader sleeps on q->rr beside data or a closed queue unless the      *)
(* wakeup that its Qstarve bit or the close asks for is on its way.        *)
NoStrandedReader ==
    rr # None /\ notempty =>
        \/ ipc = "wakerr" \/ cpc = "wakeboth"
        \/ \E p \in Writers : pc[p] = "wakerr"

(* No writer sleeps on q->wr beside a queue that is less than half full or *)
(* closed unless a wakeup is on its way or a reader is still copying.      *)
NoStrandedWriter ==
    wr # None /\ (len < Limit \div 2 \/ closed = 1) =>
        \/ ipc = "wakewr" \/ cpc # "idle"
        \/ \E p \in Readers : pc[p] \in {"copy", "wakewr"}

(* A read returns, unless the queue stays empty and open or blocks that    *)
(* coalescing drops keep coming.  A write returns, unless the queue stays  *)
(* at least half full and open.                                            *)
IOReturns ==
    /\ \A p \in Readers :
           \/ []<>(pc[p] = "idle") \/ <>[](blocks = <<>> /\ closed = 0)
           \/ mode = "coalesce" /\ []<>(blocks # <<>> /\ Head(blocks).d = <<>>)
    /\ \A p \in Writers : []<>(pc[p] = "idle") \/ <>[](len >= Limit \div 2 /\ closed = 0)

(* The bytes that qread has in its hands come before those in the queue.   *)
S == INSTANCE Stream WITH pending <- Flat(hold.bs) \o Flat(blocks)

(* The queue implements the stream: no byte is lost from the middle, read  *)
(* twice or out of order, whatever happens while qread copies unlocked.    *)
ImplementsStream == S!Spec

(* "Mark a queue as closed.  No further IO is permitted.  All blocks are   *)
(* released.": after qclose the queue stays empty until it is reopened.    *)
ClosedEmpty == released = 1 => blocks = <<>>
=============================================================================
