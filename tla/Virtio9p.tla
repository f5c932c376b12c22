------------------------------ MODULE Virtio9p ------------------------------
(***************************************************************************)
(* The virtio 9P transport (k10/devvirtio9p.c): slots, the virtqueue, the  *)
(* queue of completed replies, conversations and the offsets of directory  *)
(* reads.  Clients are the callers of the mount driver: each has one       *)
(* request outstanding, writes it with v9write and gets its reply from the *)
(* one process that is in v9read (MntMux).  The device is external: it     *)
(* completes the chains in any order, and its interrupts may be lost.      *)
(*                                                                         *)
(* A client in DirClients opens, reads and clunks a directory under a fid  *)
(* of its own, which it shares with nobody; the others make requests that  *)
(* leave the driver's state alone ("other").  A read returns one entry or, *)
(* at the end, none.  Any request may fail.  The allocations succeed.      *)
(* Sections under ilock(q) are atomic, and so is going to sleep.  Several  *)
(* writers share the Rendez they tsleep on: the last sleeper is the one    *)
(* that wakeup finds (SleepWakeup).                                        *)
(***************************************************************************)
EXTENDS Integers, Sequences, FiniteSets

CONSTANTS Clients,
          DirClients, \* bound: the clients that read directories
          Slots,      \* c->slot; nslot is at least 1
          Entries,    \* bound: the entries of a directory
          None

ASSUME Virtio9pAssumption ==
    /\ None \notin Clients \cup Slots \cup Nat /\ DirClients \subseteq Clients
    /\ IsFiniteSet(Slots) /\ Entries \in Nat

(* The queue has two descriptors for each slot.                            *)
Size == 2 * Cardinality(Slots)
Descs == 1 .. Size

VARIABLES sfree,     \* the slots on c->sfree
          donehd,    \* the completed replies, oldest first
          cur,       \* c->cur, the reply that v9read serves
          free,      \* the descriptors on the free list
          next,      \* desc[].next of a descriptor in a chain
          rock,      \* q->rock: head of a chain -> slot
          avail,     \* heads the device has not completed
          used,      \* heads completed and not harvested, in order
          op,        \* the request of a slot, then its reply:
                     \* [who, type, off, old]
          fids,      \* the directory fids: client -> q's offset or None
          inuse,     \* c->inuse
          wwait,     \* c->wwait.p
          timer,     \* the timeout of a client's tsleep is to come
          pc,        \* of the clients
          slot,      \* the slot a client has got
          type,      \* the request a client makes
          rpc,       \* of the reader
          opened,    \* the client's fid is open
          pos,       \* entries the client has read since it rewound
          dirty      \* history: the conversation began with requests in flight

qvars == <<free, next, rock, avail, used>>
cvars == <<pc, slot, type, opened, pos>>
vars == <<sfree, donehd, cur, qvars, op, fids, inuse, wwait, timer, cvars, rpc, dirty>>

NoOp == [who |-> None, type |-> "other", off |-> 0, old |-> 0]

(* v9probe, mkvqueue                                                       *)
Init ==
    /\ sfree = Slots /\ donehd = <<>> /\ cur = None
    /\ free = Descs
    /\ next = [d \in Descs |-> 0]
    /\ rock = [d \in Descs |-> None] /\ avail = {} /\ used = <<>>
    /\ op = [s \in Slots |-> NoOp]
    /\ fids = [c \in Clients |-> None]
    /\ inuse = 0 /\ wwait = None
    /\ timer = [c \in Clients |-> 0]
    /\ pc = [c \in Clients |-> "idle"]
    /\ slot = [c \in Clients |-> None]
    /\ type = [c \in Clients |-> "other"]
    /\ rpc = "idle"
    /\ opened = [c \in Clients |-> 0] /\ pos = [c \in Clients |-> 0]
    /\ dirty = 0

Goto(c, l) == pc' = [pc EXCEPT ![c] = l]
-----------------------------------------------------------------------------
BugHarvestHeads ==
    LET heads == {used[i] : i \in 1 .. Len(used)}
    IN  /\ donehd' = donehd \o [i \in 1 .. Len(used) |-> rock[used[i]]]
        /\ free' = free \cup heads
        /\ rock' = [d \in Descs |-> IF d \in heads THEN None ELSE rock[d]]
        /\ next' = [d \in Descs |-> IF d \in heads THEN 0 ELSE next[d]]
        /\ used' = <<>>
        /\ UNCHANGED avail

BugHarvestOrder ==
    LET heads == {used[i] : i \in 1 .. Len(used)}
    IN  /\ donehd' = [i \in 1 .. Len(used) |-> rock[used[i]]] \o donehd
        /\ free' = free \cup heads \cup {next[h] : h \in heads}
        /\ rock' = [d \in Descs |-> IF d \in heads THEN None ELSE rock[d]]
        /\ next' = [d \in Descs |-> IF d \in heads THEN 0 ELSE next[d]]
        /\ used' = <<>>
        /\ UNCHANGED avail

(* vqharvest: take every completed chain off the used ring, put its        *)
(* descriptors back on the free list and its slot on the done queue.       *)
vqharvest ==
    LET heads == {used[i] : i \in 1 .. Len(used)}
    IN  /\ donehd' = donehd \o [i \in 1 .. Len(used) |-> rock[used[i]]]
        /\ free' = free \cup heads \cup {next[h] : h \in heads}
        /\ rock' = [d \in Descs |-> IF d \in heads THEN None ELSE rock[d]]
        /\ next' = [d \in Descs |-> IF d \in heads THEN 0 ELSE next[d]]
        /\ used' = <<>>
        /\ UNCHANGED avail

(* wakeup(&c->rwait)                                                       *)
WakeReader == rpc' = IF rpc = "asleep" THEN "awake" ELSE rpc

(* v9interrupt                                                             *)
Interrupt ==
    /\ used # <<>>
    /\ vqharvest
    /\ WakeReader
    /\ UNCHANGED <<sfree, cur, op, fids, inuse, wwait, timer, cvars, dirty>>

(* The device has carried out the request of a chain.                      *)
Complete(h) ==
    /\ avail' = avail \ {h}
    /\ used' = Append(used, h)
    /\ UNCHANGED <<sfree, donehd, cur, free, next, rock, op, fids, inuse, wwait, timer, cvars,
                   rpc, dirty>>
-----------------------------------------------------------------------------
(* v9write begins.  A fid must be open to be read, and a client gives it   *)
(* up when it sends the clunk, whatever the answer.                        *)
Start(c, t) ==
    /\ inuse = 1 /\ pc[c] = "idle"
    /\ t \in IF c \notin DirClients THEN {"other"}
             ELSE IF opened[c] = 1 THEN {"rewind", "read", "clunk"} ELSE {"open"}
    /\ type' = [type EXCEPT ![c] = IF t = "rewind" THEN "read" ELSE t]
    /\ pos' = [pos EXCEPT ![c] = IF t \in {"open", "rewind"} THEN 0 ELSE @]
    /\ opened' = [opened EXCEPT ![c] = IF t = "clunk" THEN 0 ELSE @]
    /\ Goto(c, "getslot")
    /\ UNCHANGED <<sfree, donehd, cur, qvars, op, fids, inuse, wwait, timer, slot, rpc, dirty>>

(* getslot: take a slot, or tsleep on c->wwait for at most a second.       *)
GetSlot(c, s) ==
    /\ pc[c] = "getslot"
    /\ s \in sfree
    /\ sfree' = sfree \ {s}
    /\ slot' = [slot EXCEPT ![c] = s]
    /\ Goto(c, "submit")
    /\ UNCHANGED <<donehd, cur, qvars, op, fids, inuse, wwait, timer, type, rpc, opened, pos,
                   dirty>>

SleepSlot(c) ==
    /\ pc[c] = "getslot"
    /\ sfree = {}
    /\ wwait' = c
    /\ timer' = [timer EXCEPT ![c] = 1]
    /\ Goto(c, "asleep")
    /\ UNCHANGED <<sfree, donehd, cur, qvars, op, fids, inuse, slot, type, rpc, opened, pos, dirty>>

(* wakeup(&c->wwait): where the clients are when the one that the Rendez   *)
(* names has been made ready.                                              *)
Woken(labels) == IF wwait = None THEN labels ELSE [labels EXCEPT ![wwait] = "awake"]

(* The second is over: twakeup calls wakeup for the Rendez.                *)
Timeout(c) ==
    /\ timer[c] = 1
    /\ timer' = [timer EXCEPT ![c] = 0]
    /\ wwait' = None
    /\ pc' = Woken(pc)
    /\ UNCHANGED <<sfree, donehd, cur, qvars, op, fids, inuse, slot, type, rpc, opened, pos, dirty>>

(* tsleep returns; vqharvest; around the loop.                             *)
Retry(c) ==
    /\ pc[c] = "awake"
    /\ timer' = [timer EXCEPT ![c] = 0]
    /\ vqharvest
    /\ WakeReader
    /\ Goto(c, "getslot")
    /\ UNCHANGED <<sfree, cur, op, fids, inuse, wwait, slot, type, opened, pos, dirty>>

(* dirsoffget: a read of a directory goes out with qemu's offset, which is *)
(* kept here and which a read at the client's offset 0 rewinds.            *)
dirsoffget(c) ==
    LET coff == IF type[c] = "read" THEN pos[c] ELSE 0
        dir == type[c] = "read" /\ fids[c] # None
        soff == IF coff = 0 THEN 0 ELSE fids[c]
    IN  /\ fids' = IF dir THEN [fids EXCEPT ![c] = soff] ELSE fids
        /\ op' = [op EXCEPT ![slot[c]] = [who |-> c, type |-> type[c], old |-> 0,
                                          off |-> IF dir THEN soff ELSE coff]]

(* The rest of v9write: submit takes two descriptors for the chain.  Which *)
(* two makes no difference.                                                *)
Submit(c) ==
    /\ pc[c] = "submit"
    /\ dirsoffget(c)
    /\ LET head == CHOOSE d \in free : TRUE
           second == CHOOSE d \in free \ {head} : TRUE
       IN  /\ next' = [next EXCEPT ![head] = second]
           /\ rock' = [rock EXCEPT ![head] = slot[c]]
           /\ avail' = avail \cup {head}
           /\ free' = free \ {head, second}
    /\ slot' = [slot EXCEPT ![c] = None]
    /\ type' = [type EXCEPT ![c] = "other"]
    /\ Goto(c, "sent")
    /\ UNCHANGED <<sfree, donehd, cur, used, inuse, wwait, timer, rpc, opened, pos, dirty>>
-----------------------------------------------------------------------------
(* v9read with nothing to serve: getreply waits on c->rwait for at most a  *)
(* second.                                                                 *)
SleepReply ==
    /\ inuse = 1 /\ rpc = "idle" /\ cur = None /\ donehd = <<>>
    /\ rpc' = "asleep"
    /\ UNCHANGED <<sfree, donehd, cur, qvars, op, fids, inuse, wwait, timer, cvars, dirty>>

ReadTimeout ==
    /\ rpc = "asleep"
    /\ rpc' = "awake"
    /\ UNCHANGED <<sfree, donehd, cur, qvars, op, fids, inuse, wwait, timer, cvars, dirty>>

BugReadRetry ==
    /\ rpc = "awake"
    /\ rpc' = "idle"
    /\ UNCHANGED <<sfree, donehd, cur, qvars, op, fids, inuse, wwait, timer, cvars, dirty>>

(* "in case the irq was missed"                                            *)
ReadRetry ==
    /\ rpc = "awake"
    /\ IF donehd = <<>> THEN vqharvest ELSE UNCHANGED <<qvars, donehd>>
    /\ rpc' = "idle"
    /\ UNCHANGED <<sfree, cur, op, fids, inuse, wwait, timer, cvars, dirty>>

(* The size of an entry in qemu's 9P2000.u.  The client counts 9P2000      *)
(* bytes, of which an entry has fewer: let that be 1.                      *)
USize == 2

(* What the device returns to a read at an offset: one entry or none.      *)
Returned(off) == IF off < USize * Entries THEN 1 ELSE 0

BugSetdirfid(f, isdir) == [fids EXCEPT ![f] = IF isdir THEN 0 ELSE 0 - 1]

(* The set of directory fids.  A client's fid has its name.                *)
setdirfid(f, isdir) == [fids EXCEPT ![f] = IF isdir THEN 0 ELSE None]

isdirfid(f) == fids[f] # None

BugDirsoffadv(f, n) == fids

dirsoffadv(f, n) == [fids EXCEPT ![f] = @ + n]

(* The replies to a request: it was carried out, or there was an error.    *)
(* Nobody looks at a reply before rfixup.  Where a request changes nothing *)
(* the two are the same.                                                   *)
Replies(o) ==
    IF o.type = "other" THEN {o}
    ELSE {o, [who |-> o.who, type |-> "error", off |-> 0, old |-> o.old]}

(* rfixup: maintain the set of directory fids and their offsets.  An       *)
(* Rerror, or a reply without a header, leaves them alone.                 *)
rfixup(o) ==
    fids' = CASE o.type = "open" -> setdirfid(o.who, TRUE)
              [] o.type = "clunk" -> setdirfid(o.who, FALSE)
              [] o.type = "read" /\ isdirfid(o.who) ->
                     dirsoffadv(o.who, USize * Returned(o.off))
              [] OTHER -> fids

(* getreply takes the oldest reply, which v9read then serves.              *)
GetReply ==
    /\ inuse = 1 /\ rpc = "idle" /\ cur = None /\ donehd # <<>>
    /\ cur' = Head(donehd)
    /\ donehd' = Tail(donehd)
    /\ \E o \in Replies(op[Head(donehd)]) :
           rfixup(o) /\ op' = [op EXCEPT ![Head(donehd)] = o]
    /\ UNCHANGED <<sfree, qvars, inuse, wwait, timer, cvars, rpc, dirty>>

(* The last byte of the reply is read: the client has it, the slot is free *)
(* (putslot).  A reply that no client of this conversation waits for is    *)
(* dropped by the reader.                                                  *)
Serve ==
    /\ inuse = 1 /\ rpc = "idle" /\ cur # None
    /\ cur' = None
    /\ sfree' = sfree \cup {cur}
    /\ LET o == op[cur]
           c == o.who
           mine == o.old = 0
       IN  /\ wwait' = None
           /\ pc' = Woken(IF mine THEN [pc EXCEPT ![c] = "idle"] ELSE pc)
           /\ opened' = IF mine /\ o.type = "open" THEN [opened EXCEPT ![c] = 1] ELSE opened
           /\ pos' = IF mine /\ o.type = "read" THEN [pos EXCEPT ![c] = @ + Returned(o.off)]
                     ELSE pos
    /\ op' = [op EXCEPT ![cur] = NoOp]
    /\ UNCHANGED <<donehd, qvars, fids, inuse, timer, slot, type, rpc, dirty>>
-----------------------------------------------------------------------------
clearfids == fids' = [c \in Clients |-> None]

BugFlush ==
    /\ sfree' = sfree \cup {donehd[i] : i \in 1 .. Len(donehd)}
    /\ cur' = None /\ donehd' = <<>>
    /\ clearfids

(* v9flush: the replies not yet served go back to the free list.           *)
v9flush ==
    /\ sfree' = sfree \cup {donehd[i] : i \in 1 .. Len(donehd)} \cup ({cur} \ {None})
    /\ cur' = None /\ donehd' = <<>>
    /\ clearfids

(* The slots whose chain the device or the used ring still has.            *)
InFlight == {rock[d] : d \in Descs} \ {None}

v9open ==
    /\ inuse = 0
    /\ inuse' = 1
    /\ v9flush
    /\ op' = [s \in Slots |-> IF s \in InFlight THEN op[s] ELSE NoOp]
    /\ dirty' = IF InFlight = {} THEN 0 ELSE 1
    /\ UNCHANGED <<qvars, wwait, timer, cvars, rpc>>

(* The conversation ends when nobody is in v9read or v9write.  The clients *)
(* give up the requests they have outstanding.                             *)
v9close ==
    /\ inuse = 1 /\ rpc = "idle"
    /\ \A c \in Clients : pc[c] \in {"idle", "sent"}
    /\ v9flush
    /\ inuse' = 0
    /\ op' = [s \in Slots |-> IF s \in InFlight THEN [op[s] EXCEPT !.old = 1] ELSE NoOp]
    /\ dirty' = 0
    /\ pc' = [c \in Clients |-> "idle"]
    /\ type' = [c \in Clients |-> "other"]
    /\ opened' = [c \in Clients |-> 0] /\ pos' = [c \in Clients |-> 0]
    /\ UNCHANGED <<qvars, wwait, timer, slot, rpc>>
-----------------------------------------------------------------------------
Client(c) == (\E s \in Slots : GetSlot(c, s)) \/ SleepSlot(c) \/ Retry(c) \/ Submit(c)

Reader == SleepReply \/ ReadRetry \/ GetReply \/ Serve

Types == {"open", "read", "clunk", "other"}
ReplyTypes == Types \cup {"error"}

Next ==
    \/ \E c \in Clients : Client(c) \/ Timeout(c) \/ \E t \in Types \cup {"rewind"} : Start(c, t)
    \/ Reader \/ ReadTimeout
    \/ Interrupt
    \/ \E h \in avail : Complete(h)
    \/ v9open \/ v9close

Spec == Init /\ [][Next]_vars

(* Processes run, the clock ticks and the device answers.  An interrupt is *)
(* never promised.                                                         *)
FairSpec ==
    /\ Spec
    /\ \A c \in Clients : WF_vars(Client(c)) /\ WF_vars(Timeout(c))
    /\ WF_vars(Reader) /\ WF_vars(ReadTimeout)
    /\ \A h \in Descs : WF_vars(h \in avail /\ Complete(h))
-----------------------------------------------------------------------------
(* The variables hold values of their types.                               *)
TypeOK ==
    /\ sfree \subseteq Slots /\ donehd \in Seq(Slots) /\ cur \in Slots \cup {None}
    /\ free \subseteq Descs /\ next \in [Descs -> Descs \cup {0}]
    /\ rock \in [Descs -> Slots \cup {None}]
    /\ avail \subseteq Descs /\ used \in Seq(Descs)
    /\ op \in [Slots -> [who : Clients \cup {None}, type : ReplyTypes,
                         off : Nat, old : {0, 1}]]
    /\ fids \in [Clients -> Nat \cup {None}]
    /\ inuse \in {0, 1} /\ dirty \in {0, 1} /\ wwait \in Clients \cup {None}
    /\ timer \in [Clients -> {0, 1}] /\ opened \in [Clients -> {0, 1}]
    /\ pc \in [Clients -> {"idle", "getslot", "asleep", "awake", "submit", "sent"}]
    /\ slot \in [Clients -> Slots \cup {None}] /\ type \in [Clients -> Types]
    /\ rpc \in {"idle", "asleep", "awake"}
    /\ pos \in [Clients -> Nat]

(* The number of places a slot is in: the free list, the hands of a        *)
(* writer, the virtqueue, the done queue, c->cur.                          *)
Places(s) ==
    Cardinality({c \in Clients : slot[c] = s}) + Cardinality({d \in Descs : rock[d] = s})
    + Cardinality({i \in 1 .. Len(donehd) : donehd[i] = s})
    + (IF s \in sfree THEN 1 ELSE 0) + (IF cur = s THEN 1 ELSE 0)

(* No slot is lost and none is in use twice, whatever is in flight when a  *)
(* conversation is flushed: getslot, submit, vqharvest, getreply, putslot  *)
(* and v9flush hand each slot on exactly once.                             *)
SlotsConserved == \A s \in Slots : Places(s) = 1

(* The chain that begins at a head.                                        *)
Chain(h) == {h, next[h]}

(* "nslot <= size/2, so a free slot guarantees >= 2 free descriptors":     *)
(* the free list and the chains in flight never share a descriptor, and    *)
(* submit always finds two.                                                *)
DescriptorsSuffice ==
    LET heads == {d \in Descs : rock[d] # None}
    IN  /\ \A h \in heads : Chain(h) \cap free = {} /\ Cardinality(Chain(h)) = 2
        /\ \A h, g \in heads : h # g => Chain(h) \cap Chain(g) = {}
        /\ Cardinality(free) >= 2 * Cardinality({c \in Clients : pc[c] = "submit"})

(* The completed replies that v9read has not served, oldest first.         *)
Completed == donehd \o [i \in 1 .. Len(used) |-> rock[used[i]]]

(* Replies reach the reader in the order in which the device completed     *)
(* them, whoever harvests them and however often: what the mount driver's  *)
(* flush protocol needs.  Only the flush of a conversation drops any.      *)
CompletionOrder ==
    [][ \/ Completed' = Completed
        \/ Completed # <<>> /\ cur' = Head(Completed) /\ Completed' = Tail(Completed)
        \/ Len(Completed') = Len(Completed) + 1 /\ SubSeq(Completed', 1, Len(Completed)) = Completed
        \/ inuse' # inuse ]_vars

(* A directory read goes out with the offset that follows what its client  *)
(* has read, so that each entry is read once: dirsoffget, and dirsoffadv   *)
(* before the reply is served.  It needs a conversation that began with no *)
(* request of an earlier one in flight.                                    *)
OffsetFollows ==
    inuse = 1 /\ dirty = 0 =>
        \A s \in Slots : op[s].type = "read" /\ s # cur => op[s].off = USize * pos[op[s].who]

(* A request that was submitted is answered, even if every interrupt is    *)
(* missed: getreply harvests after its second of sleep.                    *)
Answered == \A c \in Clients : pc[c] = "sent" ~> pc[c] = "idle"

(* "start the conversation clean": v9read serves no reply to a request of  *)
(* an earlier conversation.                                                *)
CleanConversation == cur # None => op[cur].old = 0

(* "take a free slot, blocking until one is available": a writer asleep in *)
(* getslot beside a free slot is woken.                                    *)
WriterWakes == \A c \in Clients : pc[c] = "asleep" /\ sfree # {} ~> pc[c] # "asleep"
=============================================================================
