------------------------------ MODULE LockProofs ------------------------------
(***************************************************************************)
(* Proofs about the two locks of port/qlock.c, for every finite set of     *)
(* processes. QLock: the type invariant, mutual exclusion, no stranded     *)
(* waiter, and that it implements the FIFO lock. RWLock: the type          *)
(* invariant, exclusion, exact counters, no waiter without a holder, that  *)
(* the panics of runlock and wunlock are not reached, and that the lock    *)
(* implements FifoRWLock.                                                  *)
(*                                                                         *)
(* The module extends RWLock; QLock has the same variables but for locked, *)
(* and its names are prefixed with Q!.                                     *)
(***************************************************************************)
EXTENDS RWLock, SequenceTheorems, TLAPS

(* The labels of a thread that is queued and not running.                  *)
Parked == {"rsched", "roff", "wsched", "woff"}

(* q->use is held exactly by the process inside its critical section.      *)
UseInv ==
    \A p \in Procs : pc[p] \in InUse <=> use = p

(* The queue holds no process twice, and its processes wait as readers or  *)
(* as writers, at or past the sched() of rlock or wlock.                   *)
QueueInv ==
    /\ IsInjective(queue)
    /\ \A p \in Range(queue) :
           \/ pc[p] \in {"rsched", "roff"} /\ state[p] = "QueueingR"
           \/ pc[p] \in {"wsched", "woff"} /\ state[p] = "QueueingW"

(* p->state is Running except between queueing and being resumed.          *)
StateInv ==
    \A p \in Procs : pc[p] \in Parked <=> state[p] # "Running"

(* The writer that runlock or wunlock is about to ready is off the queue,  *)
(* and nobody else will ready it.                                          *)
NextInv ==
    /\ \A q \in Procs : pc[q] = "ready" <=> next[q] # NoProc
    /\ \A q \in Procs : next[q] # NoProc =>
           /\ pc[next[q]] \in {"wsched", "woff"}
           /\ state[next[q]] = "QueueingW"
           /\ ~ Queued(next[q])
    /\ \A q, r \in Procs : next[q] = next[r] /\ next[q] # NoProc => q = r

(* p is a writer, or one that is waking readers and will clear q->writer.  *)
HasWriter(p) == Writes(p) \/ pc[p] = "wake_cs"

(* Sets of processes are counted as finite sets are.                       *)
Counting ==
    \A S \in SUBSET Procs :
        /\ Cardinality(S) \in Nat
        /\ Cardinality(S) = 0 <=> S = {}
        /\ \A x : x \notin S => Cardinality(S \cup {x}) = Cardinality(S) + 1
        /\ \A x : x \in S => Cardinality(S \ {x}) = Cardinality(S) - 1

(* q->readers is the number of threads that read.                          *)
CountInv == readers = Cardinality(Readers)

(* q->writer tells whether there is a writer; there is one at most, and    *)
(* no reader beside it.                                                    *)
WriterInv ==
    /\ writer = 1 <=> \E p \in Procs : HasWriter(p)
    /\ \A p, q \in Procs : HasWriter(p) /\ HasWriter(q) => p = q
    /\ \A p \in Procs : Writes(p) => readers = 0

(* Nobody queues for a free lock, and behind readers the first is a        *)
(* writer; wunlock wakes at least one reader.                              *)
HeadInv ==
    /\ queue # <<>> => /\ readers > 0 \/ writer = 1
                       /\ writer = 0 => state[Head(queue)] = "QueueingW"
    /\ \A p \in Procs : pc[p] = "wake_cs" => readers > 0 \/ HeadReads

(* The part of the invariant that needs no counting.                       *)
Control == TypeOK /\ UseInv /\ QueueInv /\ StateInv /\ NextInv /\ NoPanic

(* The inductive invariant.                                                *)
Inv == Control /\ CountInv /\ WriterInv /\ HeadInv
-----------------------------------------------------------------------------
(* Linking e at the tail adds e to the list and nobody else.               *)
LEMMA AppendRange ==
    ASSUME NEW S, NEW s \in Seq(S), NEW e \in S
    PROVE  Range(Append(s, e)) = Range(s) \cup {e}
BY AppendProperties DEF Range

(* A list without repetitions stays so when a new element is linked to it. *)
LEMMA AppendInjectiveList ==
    ASSUME NEW S, NEW s \in Seq(S), NEW e \in S, IsInjective(s), e \notin Range(s)
    PROVE  IsInjective(Append(s, e))
BY AppendProperties DEF Range, IsInjective

(* Taking the head off a list without repetitions removes it and nobody    *)
(* else.                                                                   *)
LEMMA TailRange ==
    ASSUME NEW S, NEW s \in Seq(S), s # <<>>, IsInjective(s)
    PROVE  /\ Range(Tail(s)) = Range(s) \ {Head(s)}
           /\ IsInjective(Tail(s))
           /\ Head(s) \in Range(s)
<1>1. /\ Len(s) \in Nat \ {0}
      /\ Tail(s) \in Seq(S)
      /\ Len(Tail(s)) = Len(s) - 1
      /\ \A i \in 1 .. Len(Tail(s)) : Tail(s)[i] = s[i + 1]
      /\ Head(s) = s[1]
  BY HeadTailProperties, EmptySeq
<1>2. DOMAIN s = 1 .. Len(s) /\ DOMAIN Tail(s) = 1 .. (Len(s) - 1)
  BY <1>1
<1>3. Head(s) \in Range(s)
  BY <1>1, <1>2 DEF Range
<1>4. IsInjective(Tail(s))
  BY <1>1, <1>2 DEF IsInjective
<1>5. Range(Tail(s)) \subseteq Range(s) \ {Head(s)}
  <2> SUFFICES ASSUME NEW i \in 1 .. (Len(s) - 1)
               PROVE  Tail(s)[i] \in Range(s) /\ Tail(s)[i] # Head(s)
    BY <1>2, Zenon DEF Range
  <2> QED BY <1>1, <1>2 DEF Range, IsInjective
<1>6. Range(s) \ {Head(s)} \subseteq Range(Tail(s))
  <2> SUFFICES ASSUME NEW i \in 1 .. Len(s), s[i] # s[1]
               PROVE  s[i] \in Range(Tail(s))
    BY <1>1, <1>2 DEF Range
  <2>1. i - 1 \in 1 .. (Len(s) - 1) /\ Tail(s)[i - 1] = s[i]
    BY <1>1
  <2> QED BY <2>1, <1>2, Zenon DEF Range
<1> QED BY <1>3, <1>4, <1>5, <1>6, Zenon

(* The empty list holds nobody.                                            *)
LEMMA EmptyRange ==
    Range(<<>>) = {} /\ IsInjective(<<>>)
BY DEF Range, IsInjective

(* What a step needs to show about holders if it changes neither counter.  *)
LEMMA SameHolders ==
    ASSUME CountInv, WriterInv, readers' = readers, writer' = writer,
           \A q \in Procs : (Reads(q)' <=> Reads(q)) /\ (Writes(q)' <=> Writes(q)),
           \A q \in Procs : HasWriter(q)' <=> HasWriter(q)
    PROVE  CountInv' /\ WriterInv'
<1>1. Readers' = Readers
  BY Zenon DEF Readers
<1>2. CountInv'
  BY <1>1, Zenon DEF CountInv
<1> QED BY <1>2, Zenon DEF WriterInv

(* One reader more.                                                        *)
LEMMA OneMore ==
    ASSUME Counting, CountInv, NEW h \in Procs, readers' = readers + 1, ~ Reads(h), Reads(h)',
           \A q \in Procs \ {h} : Reads(q)' <=> Reads(q)
    PROVE  CountInv'
<1>1. Readers' = Readers \cup {h} /\ h \notin Readers /\ Readers \in SUBSET Procs
  BY Zenon DEF Readers
<1>2. Cardinality(Readers \cup {h}) = Cardinality(Readers) + 1
  BY <1>1, Zenon DEF Counting
<1> QED BY <1>1, <1>2, Zenon DEF CountInv

(* The queue once rlock or wlock has linked p at its tail.                 *)
LEMMA AfterEnqueue ==
    ASSUME Control, NEW p \in Procs, pc[p] \in {"rlock_cs", "wlock_cs"},
           queue' = Append(queue, p)
    PROVE  /\ Range(queue') = Range(queue) \cup {p}
           /\ IsInjective(queue')
           /\ p \notin Range(queue)
           /\ queue' \in Seq(Procs)
           /\ Range(queue') \subseteq Procs
           /\ queue' # <<>>
           /\ queue # <<>> => Head(queue') = Head(queue) /\ Head(queue) \in Procs
           /\ queue = <<>> => Head(queue') = p
<1>1. p \notin Range(queue)
  BY Zenon DEF Control, QueueInv
<1>2. queue \in Seq(Procs) /\ IsInjective(queue)
  BY Zenon DEF Control, TypeOK, QueueInv
<1>3. /\ Range(queue') = Range(queue) \cup {p} /\ IsInjective(queue')
      /\ queue' \in Seq(Procs) /\ Range(queue') \subseteq Procs
  BY <1>1, <1>2, AppendRange, AppendInjectiveList, AppendProperties, RangeOfSeq
<1>4. queue' # <<>> /\ (queue # <<>> => Head(queue') = Head(queue) /\ Head(queue) \in Procs)
      /\ (queue = <<>> => Head(queue') = p)
  BY <1>2
<1> QED BY <1>1, <1>3, <1>4, Zenon

(* The queue once runlock or wunlock has taken its head off.               *)
LEMMA AfterDequeue ==
    ASSUME Control, queue # <<>>, queue' = Tail(queue)
    PROVE  /\ Range(queue') = Range(queue) \ {Head(queue)}
           /\ IsInjective(queue')
           /\ Head(queue) \in Range(queue)
           /\ Head(queue) \in Procs
           /\ queue' \in Seq(Procs)
           /\ Range(queue') \subseteq Procs
           /\ queue' # <<>> => Head(queue') \in Range(queue')
<1>1. queue \in Seq(Procs) /\ IsInjective(queue)
  BY Zenon DEF Control, TypeOK, QueueInv
<1>2. /\ Range(queue') = Range(queue) \ {Head(queue)} /\ IsInjective(queue')
      /\ Head(queue) \in Range(queue) /\ Head(queue) \in Procs
      /\ queue' \in Seq(Procs) /\ Range(queue') \subseteq Procs
  BY <1>1, TailRange, HeadTailProperties, RangeOfSeq, Zenon
<1>3. queue' # <<>> => Head(queue') \in Range(queue')
  BY <1>2, TailRange, Zenon
<1> QED BY <1>2, <1>3, Zenon

(* Steps that touch neither the counters nor the queue.                    *)
LEMMA PlainStep ==
    ASSUME Counting, Inv, NEW p \in Procs, Call(p) \/ LockUse(p) \/ Ready(p) \/ Sched(p) \/ Resume(p)
    PROVE  Inv'
<1> USE NoProcAssumption DEF Inv, Control
<1>1. readers' = readers /\ writer' = writer /\ queue' = queue /\ Range(queue') = Range(queue)
      /\ Range(queue) \subseteq Procs
  BY RangeOfSeq, Zenon DEF TypeOK, Call, LockUse, Ready, Sched, Resume
<1>2. CASE Call(p)
  <2>1. TypeOK' /\ UseInv' /\ StateInv' /\ NoPanic'
    BY <1>2 DEF Call, Goto, TypeOK, UseInv, StateInv, NoPanic, InUse, InRead, InWrite, PCs, Parked
  <2>2. QueueInv' /\ NextInv'
    BY <1>1, <1>2 DEF Call, Goto, TypeOK, QueueInv, StateInv, NextInv, Queued, Parked
  <2>3. CountInv' /\ WriterInv'
    BY <1>1, <1>2, SameHolders DEF Call, Goto, TypeOK, HasWriter, Reads, Writes, Queued, InRead, InWrite
  <2>4. HeadInv'
    BY <1>1, <1>2, Zenon DEF Call, Goto, TypeOK, HeadInv, HeadReads
  <2> QED BY <2>1, <2>2, <2>3, <2>4, Zenon
<1>3. CASE LockUse(p)
  <2>1. TypeOK' /\ UseInv' /\ StateInv' /\ NoPanic'
    BY <1>3 DEF LockUse, Goto, Entry, TypeOK, UseInv, StateInv, NoPanic, InUse, InRead, InWrite, PCs, Parked
  <2>2. QueueInv' /\ NextInv'
    BY <1>1, <1>3 DEF LockUse, Goto, Entry, TypeOK, QueueInv, StateInv, NextInv, Queued, Parked
  <2>3. CountInv' /\ WriterInv'
    BY <1>1, <1>3, SameHolders DEF LockUse, Goto, Entry, TypeOK, HasWriter, Reads, Writes, Queued, InRead, InWrite
  <2>4. HeadInv'
    BY <1>1, <1>3 DEF LockUse, Goto, Entry, TypeOK, HeadInv, HeadReads
  <2> QED BY <2>1, <2>2, <2>3, <2>4, Zenon
<1>4. CASE Ready(p)
  <2>1. TypeOK' /\ UseInv' /\ StateInv' /\ NoPanic'
    BY <1>4 DEF Ready, Goto, TypeOK, UseInv, StateInv, NextInv, NoPanic, InUse, InRead, InWrite, PCs, Parked
  <2>2. QueueInv' /\ NextInv'
    BY <1>1, <1>4 DEF Ready, Goto, TypeOK, QueueInv, StateInv, NextInv, Queued, Parked
  <2>3. CountInv' /\ WriterInv'
    BY <1>1, <1>4, SameHolders, Zenon DEF Ready, Goto, TypeOK, HasWriter, Reads, Writes, Queued, InRead, InWrite
  <2>4. HeadInv'
    BY <1>1, <1>4, TailRange DEF Ready, Goto, TypeOK, QueueInv, NextInv, Queued, HeadInv, HeadReads
  <2> QED BY <2>1, <2>2, <2>3, <2>4, Zenon
<1>5. CASE Sched(p)
  <2>1. TypeOK' /\ UseInv' /\ StateInv' /\ NoPanic'
    BY <1>5 DEF Sched, Goto, TypeOK, UseInv, StateInv, NoPanic, InUse, InRead, InWrite, PCs, Parked
  <2>2. QueueInv' /\ NextInv'
    BY <1>1, <1>5 DEF Sched, Goto, TypeOK, QueueInv, StateInv, NextInv, Queued, Parked
  <2>3. CountInv' /\ WriterInv'
    BY <1>1, <1>5, SameHolders DEF Sched, Goto, TypeOK, HasWriter, Reads, Writes, Queued, InRead, InWrite
  <2>4. HeadInv'
    BY <1>1, <1>5 DEF Sched, Goto, TypeOK, HeadInv, HeadReads
  <2> QED BY <2>1, <2>2, <2>3, <2>4, Zenon
<1>6. CASE Resume(p)
  <2>0. p \notin Range(queue)
    BY <1>6, Zenon DEF Resume, QueueInv
  <2>1. TypeOK' /\ UseInv' /\ StateInv' /\ NoPanic'
    BY <1>6 DEF Resume, Goto, TypeOK, UseInv, StateInv, NoPanic, InUse, InRead, InWrite, PCs, Parked
  <2>2. QueueInv' /\ NextInv'
    BY <1>1, <1>6, <2>0 DEF Resume, Goto, TypeOK, QueueInv, StateInv, NextInv, Queued, Parked
  <2>3. CountInv' /\ WriterInv'
    BY <1>1, <1>6, <2>0, SameHolders DEF Resume, Goto, TypeOK, HasWriter, Reads, Writes, Queued, InRead, InWrite
  <2>4. HeadInv'
    BY <1>1, <1>6, <2>0, TailRange, Zenon DEF Resume, Goto, TypeOK, QueueInv, HeadInv, HeadReads
  <2> QED BY <2>1, <2>2, <2>3, <2>4, Zenon
<1> QED BY <1>2, <1>3, <1>4, <1>5, <1>6, Zenon

(* rlock and canrlock share the lock.                                      *)
LEMMA ReadStep ==
    ASSUME Counting, Inv, NEW p \in Procs, pc[p] \in {"rlock_cs", "canrlock_cs"},
           writer = 0, queue = <<>>,
           use' = NoProc, readers' = readers + 1, pc' = [pc EXCEPT ![p] = "reading"],
           UNCHANGED <<writer, queue, state, next>>
    PROVE  Inv'
<1> USE NoProcAssumption DEF Inv, Control
<1>0. queue' = queue /\ Range(queue) = {}
  BY EmptyRange, Zenon
<1>1. TypeOK' /\ UseInv' /\ StateInv' /\ NoPanic'
  BY DEF TypeOK, UseInv, StateInv, NoPanic, InUse, InRead, InWrite, PCs, Parked
<1>2. QueueInv' /\ NextInv'
  BY <1>0 DEF TypeOK, QueueInv, StateInv, NextInv, Queued, Parked
<1>3. CountInv'
  BY <1>0, OneMore, Zenon DEF TypeOK, Reads, Queued, InRead
<1>4. WriterInv'
  BY <1>0 DEF TypeOK, WriterInv, HasWriter, Writes, Queued, InWrite
<1>5. HeadInv'
  BY <1>0 DEF TypeOK, HeadInv, HeadReads
<1> QED BY <1>1, <1>2, <1>3, <1>4, <1>5, Zenon

(* rlock and wlock join the queue of a lock that is held; behind readers   *)
(* alone only a writer is the first to.                                    *)
LEMMA JoinStep ==
    ASSUME Counting, Inv, NEW p \in Procs, pc[p] \in {"rlock_cs", "wlock_cs"},
           NEW s, NEW l, \/ s = "QueueingR" /\ l = "rsched"
                         \/ s = "QueueingW" /\ l = "wsched",
           readers > 0 \/ writer = 1 \/ queue # <<>>,
           queue = <<>> /\ writer = 0 => s = "QueueingW",
           use' = NoProc, queue' = Append(queue, p), state' = [state EXCEPT ![p] = s],
           pc' = [pc EXCEPT ![p] = l], UNCHANGED <<readers, writer, next>>
    PROVE  Inv'
<1> USE NoProcAssumption DEF Inv, Control
<1>0. /\ Range(queue') = Range(queue) \cup {p}
      /\ IsInjective(queue')
      /\ p \notin Range(queue)
      /\ queue' \in Seq(Procs)
      /\ Range(queue') \subseteq Procs
      /\ queue' # <<>>
      /\ queue # <<>> => Head(queue') = Head(queue) /\ Head(queue) \in Range(queue)
      /\ queue = <<>> => Head(queue') = p
  BY AfterEnqueue, TailRange, Zenon DEF TypeOK, QueueInv
<1>a. /\ use' = NoProc /\ readers' = readers /\ writer' = writer /\ next' = next
      /\ state' = [state EXCEPT ![p] = s] /\ pc' = [pc EXCEPT ![p] = l]
  BY Zenon
<1>1. TypeOK' /\ UseInv' /\ StateInv' /\ NoPanic'
  BY <1>0, <1>a DEF TypeOK, UseInv, StateInv, NoPanic, InUse, InRead, InWrite, PCs, Parked
<1>2. QueueInv'
  BY <1>0, <1>a DEF TypeOK, QueueInv
<1>3. NextInv'
  BY <1>0, <1>a DEF TypeOK, NextInv, Queued
<1>4. CountInv' /\ WriterInv'
  <2>1. \A q \in Procs : (Reads(q)' <=> Reads(q)) /\ (Writes(q)' <=> Writes(q))
    BY <1>0, <1>a, Zenon DEF TypeOK, Reads, Writes, Queued, InRead, InWrite
  <2>2. \A q \in Procs : HasWriter(q)' <=> HasWriter(q)
    BY <2>1, <1>a, Zenon DEF TypeOK, HasWriter
  <2> QED BY <1>a, <2>1, <2>2, SameHolders, Zenon
<1>5. HeadInv'
  <2>1. readers' > 0 \/ writer' = 1
    BY <1>a, Zenon DEF HeadInv
  <2>2. writer' = 0 => state'[Head(queue')] = "QueueingW"
    BY <1>0, <1>a DEF TypeOK, HeadInv
  <2>3. \A q \in Procs : pc'[q] # "wake_cs"
    BY <1>a, Zenon DEF TypeOK, UseInv, InUse
  <2> QED BY <2>1, <2>2, <2>3, Zenon DEF HeadInv
<1> QED BY <1>1, <1>2, <1>3, <1>4, <1>5, Zenon

(* rlock, canrlock and wlock.                                              *)
LEMMA LockStep ==
    ASSUME Counting, Inv, NEW p \in Procs, Rlock(p) \/ Canrlock(p) \/ Wlock(p)
    PROVE  Inv'
<1>1. CASE Rlock(p)
  <2>1. CASE writer = 0 /\ queue = <<>>
    BY <1>1, <2>1, ReadStep, Zenon DEF Rlock, Goto
  <2>2. CASE ~ (writer = 0 /\ queue = <<>>)
    <3>1. readers > 0 \/ writer = 1 \/ queue # <<>>
      BY <2>2, Zenon DEF Inv, Control, TypeOK
    <3> QED BY <1>1, <2>2, <3>1, JoinStep, Zenon DEF Rlock, Enqueue, Goto
  <2> QED BY <2>1, <2>2, Zenon
<1>2. CASE Canrlock(p)
  <2>1. CASE writer = 0 /\ queue = <<>>
    BY <1>2, <2>1, ReadStep, Zenon DEF Canrlock, Goto
  <2>2. CASE ~ (writer = 0 /\ queue = <<>>)
    <3> USE NoProcAssumption DEF Inv, Control
    <3>0. /\ use' = NoProc /\ readers' = readers /\ writer' = writer /\ queue' = queue
          /\ state' = state /\ next' = next /\ pc' = [pc EXCEPT ![p] = "idle"]
          /\ pc[p] = "canrlock_cs" /\ Range(queue) \subseteq Procs
      BY <1>2, <2>2, RangeOfSeq, Zenon DEF Canrlock, Goto, TypeOK
    <3>1. TypeOK' /\ UseInv' /\ StateInv' /\ NoPanic'
      BY <3>0 DEF TypeOK, UseInv, StateInv, NoPanic, InUse, InRead, InWrite, PCs, Parked
    <3>2. QueueInv' /\ NextInv'
      BY <3>0 DEF TypeOK, QueueInv, StateInv, NextInv, Queued, Parked
    <3>3. CountInv' /\ WriterInv'
      BY <3>0, SameHolders, Zenon DEF TypeOK, HasWriter, Reads, Writes, Queued, InRead, InWrite
    <3>4. HeadInv'
      BY <3>0, Zenon DEF TypeOK, HeadInv, HeadReads
    <3> QED BY <3>1, <3>2, <3>3, <3>4, Zenon
  <2> QED BY <2>1, <2>2, Zenon
<1>3. CASE Wlock(p)
  <2>1. CASE readers = 0 /\ writer = 0
    <3> USE NoProcAssumption DEF Inv, Control
    <3>0. /\ use' = NoProc /\ readers' = 0 /\ writer' = 1 /\ queue' = queue
          /\ state' = state /\ next' = next /\ pc' = [pc EXCEPT ![p] = "writing"]
          /\ pc[p] = "wlock_cs" /\ queue = <<>> /\ Range(queue) = {}
      BY <1>3, <2>1, EmptyRange DEF Wlock, Goto, HeadInv
    <3>1. TypeOK' /\ UseInv' /\ StateInv' /\ NoPanic'
      BY <3>0 DEF TypeOK, UseInv, StateInv, NoPanic, InUse, InRead, InWrite, PCs, Parked
    <3>2. QueueInv' /\ NextInv'
      BY <3>0 DEF TypeOK, QueueInv, StateInv, NextInv, Queued, Parked
    <3>3. CountInv'
      <4>1. \A q \in Procs : Reads(q)' <=> Reads(q)
        BY <3>0, Zenon DEF TypeOK, Reads, Queued, InRead
      <4>2. Readers' = Readers
        BY <4>1, Zenon DEF Readers
      <4> QED BY <2>1, <3>0, <4>2, Zenon DEF CountInv
    <3>4. WriterInv'
      BY <2>1, <3>0 DEF TypeOK, WriterInv, HasWriter, Writes, Queued, InWrite
    <3>5. HeadInv'
      BY <3>0, Zenon DEF TypeOK, HeadInv, HeadReads, UseInv, InUse
    <3> QED BY <3>1, <3>2, <3>3, <3>4, <3>5, Zenon
  <2>2. CASE ~ (readers = 0 /\ writer = 0)
    <3>1. readers > 0 \/ writer = 1
      BY <2>2 DEF Inv, Control, TypeOK
    <3> QED BY <1>3, <2>2, <3>1, JoinStep, Zenon DEF Wlock, Enqueue, Goto
  <2> QED BY <2>1, <2>2, Zenon
<1> QED BY <1>1, <1>2, <1>3, Zenon

(* runlock and wunlock hand a lock without readers to the writer at the    *)
(* head of the queue.                                                      *)
LEMMA HandOver ==
    ASSUME Counting, Inv, NEW p \in Procs, pc[p] \in {"runlock_cs", "wunlock_cs"},
           queue # <<>>, state[Head(queue)] = "QueueingW",
           \A q \in Procs : HasWriter(q) => q = p,
           \A q \in Procs : Reads(q) => q = p,
           use' = NoProc, readers' = 0, writer' = 1, queue' = Tail(queue), state' = state,
           next' = [next EXCEPT ![p] = Head(queue)], pc' = [pc EXCEPT ![p] = "ready"]
    PROVE  Inv'
<1> USE NoProcAssumption DEF Inv, Control
<1> PICK h \in Procs : h = Head(queue)
  BY AfterDequeue, Zenon
<1>0. /\ Range(queue') = Range(queue) \ {h} /\ IsInjective(queue')
      /\ h \in Range(queue) /\ queue' \in Seq(Procs) /\ Range(queue') \subseteq Procs
  BY AfterDequeue, Zenon
<1>1. /\ use' = NoProc /\ readers' = 0 /\ writer' = 1 /\ state' = state
      /\ next' = [next EXCEPT ![p] = h] /\ pc' = [pc EXCEPT ![p] = "ready"]
      /\ pc[p] \in {"runlock_cs", "wunlock_cs"} /\ next[p] = NoProc
  BY Zenon DEF NextInv
<1>2. pc[h] \in {"wsched", "woff"} /\ state[h] = "QueueingW" /\ \A q \in Procs : next[q] # h
  BY <1>0 DEF QueueInv, NextInv, Queued
<1>3. TypeOK' /\ UseInv' /\ StateInv' /\ NoPanic'
  BY <1>0, <1>1 DEF TypeOK, UseInv, StateInv, NoPanic, InUse, InRead, InWrite, PCs, Parked
<1>4. QueueInv'
  BY <1>0, <1>1 DEF TypeOK, QueueInv
<1>5. NextInv'
  BY <1>0, <1>1, <1>2 DEF TypeOK, NextInv, Queued
<1>6. CountInv'
  <2>1. \A q \in Procs : ~ Reads(q)'
    BY <1>0, <1>1, <1>2 DEF TypeOK, Reads, Queued, InRead
  <2>2. Readers' = {}
    BY <2>1, Zenon DEF Readers
  <2> QED BY <1>1, <2>2, Zenon DEF Counting, CountInv
<1>7. WriterInv'
  <2>1. \A q \in Procs : HasWriter(q)' <=> q = h
    BY <1>0, <1>1, <1>2 DEF TypeOK, HasWriter, Writes, Queued, InWrite
  <2> QED BY <1>1, <2>1 DEF WriterInv
<1>8. HeadInv'
  BY <1>1 DEF TypeOK, HeadInv, UseInv, InUse
<1> QED BY <1>3, <1>4, <1>5, <1>6, <1>7, <1>8, Zenon

(* A reader leaves.                                                        *)
LEMMA RunlockStep ==
    ASSUME Counting, Inv, NEW p \in Procs, Runlock(p)
    PROVE  Inv'
<1> USE NoProcAssumption DEF Inv, Control
<1>1. Reads(p) /\ pc[p] = "runlock_cs" /\ use = p /\ next[p] = NoProc
  BY Zenon DEF Runlock, Reads, InRead, UseInv, InUse, NextInv
<1>2. /\ Readers \in SUBSET Procs /\ p \in Readers
      /\ readers \in Nat /\ readers = Cardinality(Readers)
      /\ Cardinality(Readers \ {p}) = readers - 1 /\ readers > 0
  <2>1. Readers \in SUBSET Procs /\ p \in Readers
    BY <1>1, Zenon DEF Readers
  <2>2. Cardinality(Readers \ {p}) = Cardinality(Readers) - 1 /\ Cardinality(Readers) # 0
    BY <2>1, Zenon DEF Counting
  <2> QED BY <2>1, <2>2 DEF CountInv, TypeOK
<1>3. /\ \A q \in Procs : ~ HasWriter(q)
      /\ writer = 0
  BY <1>1, <1>2 DEF WriterInv, HasWriter, UseInv, InUse, TypeOK
<1>4. CASE readers' > 0 \/ queue = <<>>
  <2>0. /\ use' = NoProc /\ readers' = readers - 1 /\ writer' = 0 /\ queue' = queue
        /\ state' = state /\ next' = next /\ pc' = [pc EXCEPT ![p] = "idle"]
        /\ Range(queue) \subseteq Procs
    BY <1>3, <1>4, RangeOfSeq, Zenon DEF Runlock, Goto, TypeOK
  <2>1. TypeOK' /\ UseInv' /\ StateInv' /\ NoPanic'
    BY <1>1, <1>2, <2>0 DEF TypeOK, UseInv, StateInv, NoPanic, InUse, InRead, InWrite, PCs, Parked
  <2>2. QueueInv' /\ NextInv'
    BY <1>1, <2>0 DEF TypeOK, QueueInv, NextInv, Queued
  <2>3. CountInv'
    <3>1. \A q \in Procs : Reads(q)' <=> Reads(q) /\ q # p
      BY <1>1, <2>0, Zenon DEF TypeOK, Reads, Queued, InRead, QueueInv
    <3>2. Readers' = Readers \ {p}
      BY <3>1, Zenon DEF Readers
    <3> QED BY <1>2, <2>0, <3>2, Zenon DEF CountInv
  <2>4. WriterInv'
    <3>1. \A q \in Procs : ~ HasWriter(q)'
      BY <1>1, <1>3, <2>0, Zenon DEF TypeOK, HasWriter, Writes, Queued, InWrite
    <3> QED BY <2>0, <3>1 DEF WriterInv, HasWriter
  <2>5. HeadInv'
    BY <1>1, <1>3, <1>4, <2>0, Zenon DEF TypeOK, HeadInv, HasWriter
  <2> QED BY <2>1, <2>2, <2>3, <2>4, <2>5, Zenon
<1>5. CASE ~ (readers' > 0 \/ queue = <<>>)
  <2>1. readers' = readers - 1 /\ readers' = 0
    BY <1>2, <1>5 DEF Runlock
  <2>2. state[Head(queue)] = "QueueingW"
    BY <1>3, <1>5, Zenon DEF HeadInv
  <2>3. \A q \in Procs : Reads(q) => q = p
    <3>1. Readers \ {p} = {}
      BY <1>2, <2>1, Zenon DEF Counting
    <3> QED BY <3>1, Zenon DEF Readers
  <2>4. /\ use' = NoProc /\ writer' = 1 /\ queue' = Tail(queue) /\ state' = state
        /\ next' = [next EXCEPT ![p] = Head(queue)] /\ pc' = [pc EXCEPT ![p] = "ready"]
    BY <1>5, <2>2, Zenon DEF Runlock, Goto
  <2> QED BY <1>1, <1>3, <1>5, <2>1, <2>2, <2>3, <2>4, HandOver, Zenon
<1> QED BY <1>4, <1>5, Zenon

(* A writer leaves.                                                        *)
LEMMA WunlockStep ==
    ASSUME Counting, Inv, NEW p \in Procs, Wunlock(p)
    PROVE  Inv'
<1> USE NoProcAssumption DEF Inv, Control
<1>1. Writes(p) /\ HasWriter(p) /\ pc[p] = "wunlock_cs" /\ use = p /\ next[p] = NoProc
  BY Zenon DEF Wunlock, HasWriter, Writes, InWrite, UseInv, InUse, NextInv
<1>2. /\ readers = 0 /\ writer = 1
      /\ \A q \in Procs : HasWriter(q) => q = p
  BY <1>1, Zenon DEF WriterInv
<1>3. \A q \in Procs : ~ Reads(q)
  <2>1. Readers \in SUBSET Procs /\ Cardinality(Readers) = 0
    BY <1>2, Zenon DEF Readers, CountInv
  <2>2. Readers = {}
    BY <2>1, Zenon DEF Counting
  <2> QED BY <2>2, Zenon DEF Readers
<1>4. CASE queue = <<>>
  <2>0. /\ use' = NoProc /\ readers' = 0 /\ writer' = 0 /\ queue' = queue
        /\ state' = state /\ next' = next /\ pc' = [pc EXCEPT ![p] = "idle"]
        /\ Range(queue) = {}
    BY <1>2, <1>4, EmptyRange, Zenon DEF Wunlock, Goto
  <2>1. TypeOK' /\ UseInv' /\ StateInv' /\ NoPanic'
    BY <1>1, <2>0 DEF TypeOK, UseInv, StateInv, NoPanic, InUse, InRead, InWrite, PCs, Parked
  <2>2. QueueInv' /\ NextInv'
    BY <1>1, <2>0 DEF TypeOK, QueueInv, NextInv, Queued
  <2>3. CountInv'
    <3>1. \A q \in Procs : Reads(q)' <=> Reads(q)
      BY <1>1, <2>0, Zenon DEF TypeOK, Reads, Queued, InRead
    <3>2. Readers' = Readers
      BY <3>1, Zenon DEF Readers
    <3> QED BY <1>2, <2>0, <3>2, Zenon DEF CountInv
  <2>4. WriterInv'
    <3>1. \A q \in Procs : ~ HasWriter(q)'
      BY <1>1, <1>2, <2>0, Zenon DEF TypeOK, HasWriter, Writes, Queued, InWrite
    <3> QED BY <2>0, <3>1 DEF WriterInv, HasWriter
  <2>5. HeadInv'
    BY <1>1, <1>4, <2>0, Zenon DEF TypeOK, HeadInv, UseInv, InUse
  <2> QED BY <2>1, <2>2, <2>3, <2>4, <2>5, Zenon
<1>5. CASE queue # <<>> /\ state[Head(queue)] = "QueueingW"
  <2>1. /\ use' = NoProc /\ readers' = 0 /\ writer' = 1 /\ queue' = Tail(queue)
        /\ state' = state /\ next' = [next EXCEPT ![p] = Head(queue)]
        /\ pc' = [pc EXCEPT ![p] = "ready"]
    BY <1>2, <1>5, Zenon DEF Wunlock, Goto
  <2> QED BY <1>1, <1>2, <1>3, <1>5, <2>1, HandOver, Zenon
<1>6. CASE queue # <<>> /\ state[Head(queue)] # "QueueingW"
  <2>1. Head(queue) \in Range(queue) /\ Range(queue) \subseteq Procs
    BY <1>6, TailRange, RangeOfSeq, Zenon DEF TypeOK, QueueInv
  <2>2. state[Head(queue)] = "QueueingR"
    BY <1>6, <2>1, Zenon DEF QueueInv
  <2>0. /\ use' = use /\ readers' = readers /\ writer' = writer /\ queue' = queue
        /\ state' = state /\ next' = next /\ pc' = [pc EXCEPT ![p] = "wake_cs"]
    BY <1>6, <2>2, Zenon DEF Wunlock, Goto
  <2>3. TypeOK' /\ UseInv' /\ StateInv' /\ NoPanic'
    BY <1>1, <2>0, Zenon DEF TypeOK, UseInv, StateInv, NoPanic, InUse, InRead, InWrite, PCs, Parked
  <2>4. QueueInv' /\ NextInv'
    BY <1>1, <2>0, <2>1 DEF TypeOK, QueueInv, NextInv, Queued
  <2>5. CountInv'
    <3>1. \A q \in Procs : Reads(q)' <=> Reads(q)
      BY <1>1, <2>0, Zenon DEF TypeOK, Reads, Queued, InRead
    <3>2. Readers' = Readers
      BY <3>1, Zenon DEF Readers
    <3> QED BY <2>0, <3>2, Zenon DEF CountInv
  <2>6. WriterInv'
    <3>1. \A q \in Procs : HasWriter(q)' <=> q = p
      BY <1>1, <1>2, <2>0, Zenon DEF TypeOK, HasWriter, Writes, Queued, InWrite
    <3> QED BY <1>2, <2>0, <3>1, Zenon DEF WriterInv
  <2>7. HeadInv'
    BY <1>2, <1>6, <2>0, <2>2, Zenon DEF TypeOK, HeadInv, HeadReads
  <2> QED BY <2>3, <2>4, <2>5, <2>6, <2>7, Zenon
<1> QED BY <1>4, <1>5, <1>6, Zenon

(* The writer counts and readies one more reader, or is done.              *)
LEMMA WakeReaderStep ==
    ASSUME Counting, Inv, NEW p \in Procs, WakeReader(p)
    PROVE  Inv'
<1> USE NoProcAssumption DEF Inv, Control
<1>1. HasWriter(p) /\ pc[p] = "wake_cs" /\ use = p /\ ~ Writes(p)
  BY Zenon DEF WakeReader, HasWriter, Writes, InWrite, UseInv, InUse
<1>2. /\ writer = 1
      /\ \A q \in Procs : HasWriter(q) => q = p
      /\ \A q \in Procs : ~ Writes(q)
  BY <1>1, Zenon DEF WriterInv, HasWriter
<1>3. CASE HeadReads
  <2> PICK h \in Procs : h = Head(queue)
    BY <1>3, AfterDequeue, Zenon DEF HeadReads, WakeReader
  <2>0. /\ Range(queue') = Range(queue) \ {h} /\ IsInjective(queue')
        /\ h \in Range(queue) /\ queue' \in Seq(Procs) /\ Range(queue') \subseteq Procs
    BY <1>3, AfterDequeue, Zenon DEF HeadReads, WakeReader
  <2>1. /\ use' = use /\ readers' = readers + 1 /\ writer' = writer /\ pc' = pc
        /\ state' = [state EXCEPT ![h] = "Ready"] /\ next' = next
    BY <1>3, Zenon DEF WakeReader
  <2>2. pc[h] \in {"rsched", "roff"} /\ state[h] = "QueueingR"
    BY <1>3, <2>0, Zenon DEF HeadReads, QueueInv
  <2>3. TypeOK' /\ UseInv' /\ StateInv' /\ NoPanic'
    BY <2>0, <2>1, <2>2 DEF TypeOK, UseInv, StateInv, NoPanic, Parked
  <2>4. QueueInv'
    BY <2>0, <2>1, Zenon DEF TypeOK, QueueInv
  <2>5. NextInv'
    BY <2>0, <2>1, <2>2 DEF TypeOK, NextInv, Queued
  <2>6. CountInv'
    BY <2>0, <2>1, <2>2, OneMore, Zenon DEF TypeOK, Reads, Queued, InRead
  <2>7. WriterInv'
    <3>1. \A q \in Procs : Writes(q)' <=> Writes(q)
      BY <2>0, <2>1, <2>2, Zenon DEF TypeOK, Writes, Queued, InWrite
    <3>2. \A q \in Procs : HasWriter(q)' <=> HasWriter(q)
      BY <2>1, <3>1, Zenon DEF HasWriter
    <3> QED BY <1>2, <2>1, <3>1, <3>2, Zenon DEF WriterInv
  <2>8. HeadInv'
    BY <1>2, <2>1 DEF TypeOK, HeadInv
  <2> QED BY <2>3, <2>4, <2>5, <2>6, <2>7, <2>8, Zenon
<1>4. CASE ~ HeadReads
  <2>0. /\ use' = NoProc /\ readers' = readers /\ writer' = 0 /\ queue' = queue
        /\ state' = state /\ next' = next /\ pc' = [pc EXCEPT ![p] = "idle"]
        /\ Range(queue) \subseteq Procs
    BY <1>4, RangeOfSeq, Zenon DEF WakeReader, Goto, TypeOK
  <2>1. readers > 0 /\ (queue # <<>> => state[Head(queue)] = "QueueingW")
    BY <1>1, <1>4, TailRange, Zenon DEF HeadInv, HeadReads, QueueInv, TypeOK
  <2>2. TypeOK' /\ UseInv' /\ StateInv' /\ NoPanic'
    BY <1>1, <2>0 DEF TypeOK, UseInv, StateInv, NoPanic, InUse, InRead, InWrite, PCs, Parked
  <2>3. QueueInv' /\ NextInv'
    BY <1>1, <2>0 DEF TypeOK, QueueInv, NextInv, Queued
  <2>4. CountInv'
    <3>1. \A q \in Procs : Reads(q)' <=> Reads(q)
      BY <1>1, <2>0, Zenon DEF TypeOK, Reads, Queued, InRead
    <3>2. Readers' = Readers
      BY <3>1, Zenon DEF Readers
    <3> QED BY <2>0, <3>2, Zenon DEF CountInv
  <2>5. WriterInv'
    <3>1. \A q \in Procs : ~ HasWriter(q)'
      BY <1>1, <1>2, <2>0, Zenon DEF TypeOK, HasWriter, Writes, Queued, InWrite
    <3> QED BY <2>0, <3>1 DEF WriterInv, HasWriter
  <2>6. HeadInv'
    BY <1>1, <2>0, <2>1, Zenon DEF TypeOK, HeadInv, UseInv, InUse
  <2> QED BY <2>2, <2>3, <2>4, <2>5, <2>6, Zenon
<1> QED BY <1>3, <1>4, Zenon

(* Every step of the lock preserves the invariant.                         *)
LEMMA NextInvariant == Counting /\ Inv /\ [Next]_vars => Inv'
<1> SUFFICES ASSUME Counting, Inv, [Next]_vars PROVE Inv'
  BY Zenon
<1>1. CASE UNCHANGED vars
  <2>1. TypeOK' /\ UseInv' /\ QueueInv' /\ StateInv' /\ NextInv' /\ NoPanic' /\ HeadInv'
    BY <1>1, Zenon DEF vars, Inv, Control, TypeOK, UseInv, QueueInv, StateInv, NextInv, NoPanic,
       HeadInv, HeadReads, Queued
  <2>2. CountInv' /\ WriterInv'
    BY <1>1, SameHolders, Zenon DEF vars, Inv, Reads, Writes, HasWriter, Queued
  <2> QED BY <2>1, <2>2, Zenon DEF Inv, Control
<1>2. ASSUME NEW p \in Procs, Step(p) PROVE Inv'
  BY <1>2, PlainStep, LockStep, RunlockStep, WunlockStep, WakeReaderStep, Zenon DEF Step
<1> QED BY <1>1, <1>2, Zenon DEF Next
-----------------------------------------------------------------------------
(* The line of FifoRWLock is a list as long as the queue.                  *)
LEMMA LineType ==
    ASSUME Control
    PROVE  /\ queue \in Seq(Procs) /\ Len(queue) \in Nat
           /\ Line \in Seq(Procs \X {"R", "W"}) /\ Len(Line) = Len(queue)
           /\ Line = <<>> <=> queue = <<>>
<1>1. queue \in Seq(Procs) /\ Len(queue) \in Nat
  BY DEF Control, TypeOK
<1>2. \A i \in 1 .. Len(queue) : <<queue[i], Mode(queue[i])>> \in Procs \X {"R", "W"}
  BY <1>1, ElementOfSeq, Zenon DEF Mode
<1>3. Line \in Seq(Procs \X {"R", "W"}) /\ Len(Line) = Len(queue)
  BY <1>1, <1>2, IsASeq DEF Line
<1> QED BY <1>1, <1>3, EmptySeq, Zenon

(* A step that leaves the queue alone leaves the line alone.               *)
LEMMA LineSame ==
    ASSUME Control, queue' = queue, \A q \in Range(queue) : Mode(q)' = Mode(q)
    PROVE  Line' = Line
<1>1. \A i \in 1 .. Len(queue) : queue[i] \in Range(queue)
  BY LineType DEF Range
<1> QED BY <1>1, Zenon DEF Line

(* What has an element for each place up to n is a line of length n.       *)
LEMMA FunctionIsSeq ==
    ASSUME NEW S, NEW n \in Nat, NEW f \in [1 .. n -> S]
    PROVE  f \in Seq(S) /\ Len(f) = n
  OBVIOUS

(* Who joins the queue joins the line.                                     *)
LEMMA LineJoin ==
    ASSUME Control, NEW p \in Procs, p \notin Range(queue), queue' = Append(queue, p),
           \A q \in Range(queue) : Mode(q)' = Mode(q)
    PROVE  Line' = Append(Line, <<p, Mode(p)'>>)
<1>1. /\ queue \in Seq(Procs) /\ Len(queue) \in Nat
      /\ Line \in Seq(Procs \X {"R", "W"}) /\ Len(Line) = Len(queue)
  BY LineType, Zenon
<1>2. Len(queue') = Len(queue) + 1 /\ queue'[Len(queue) + 1] = p
      /\ \A i \in 1 .. Len(queue) : queue'[i] = queue[i] /\ queue[i] \in Range(queue)
  BY <1>1, AppendProperties DEF Range
<1>3. \A i \in 1 .. Len(queue) + 1 :
          Line'[i] = IF i = Len(queue) + 1 THEN <<p, Mode(p)'>> ELSE Line[i]
  BY <1>1, <1>2 DEF Line
<1> DEFINE S == Procs \X {"R", "W"}
           e == <<p, Mode(p)'>>
<1>4. e \in S /\ \A i \in 1 .. Len(queue) : Line[i] \in S
  BY <1>1, ElementOfSeq, Zenon DEF Mode
<1>5. \A i \in 1 .. Len(queue) + 1 : Line'[i] = (IF i = Len(queue) + 1 THEN e ELSE Line[i])
  BY <1>3, Zenon
<1> HIDE DEF S, e
<1>6. Line' \in Seq(S) /\ Len(Line') = Len(queue) + 1
  <2>1. \A i \in 1 .. Len(queue) + 1 : Line'[i] \in S
    BY <1>1, <1>4, <1>5
  <2>2. Line' = [i \in 1 .. Len(queue) + 1 |-> Line'[i]]
    BY <1>2, Zenon DEF Line
  <2>3. Line' \in [1 .. Len(queue) + 1 -> S] /\ Len(queue) + 1 \in Nat
    <3>1. Line' \in [1 .. Len(queue) + 1 -> S]
      BY <2>1, <2>2, Zenon
    <3>2. Len(queue) + 1 \in Nat
      BY <1>1
    <3> QED BY <3>1, <3>2, Zenon
  <2> QED BY <2>3, FunctionIsSeq, Zenon
<1>7. /\ Append(Line, e) \in Seq(S) /\ Len(Append(Line, e)) = Len(queue) + 1
      /\ \A i \in 1 .. Len(queue) + 1 : Append(Line, e)[i] = (IF i = Len(queue) + 1 THEN e ELSE Line[i])
  BY <1>1, <1>4, AppendProperties DEF S
<1> QED BY <1>5, <1>6, <1>7, SeqEqual, Zenon DEF e

(* Who is taken off the queue is the first of the line.                    *)
LEMMA LineServe ==
    ASSUME Control, queue # <<>>, queue' = Tail(queue),
           \A q \in Range(queue) \ {Head(queue)} : Mode(q)' = Mode(q)
    PROVE  Line # <<>> /\ Head(Line) = <<Head(queue), Mode(Head(queue))>> /\ Line' = Tail(Line)
<1>1. /\ queue \in Seq(Procs) /\ Len(queue) \in Nat
      /\ Line \in Seq(Procs \X {"R", "W"}) /\ Len(Line) = Len(queue) /\ Line # <<>>
  BY LineType, Zenon
<1>2. /\ Len(queue) > 0 /\ Head(queue) = queue[1] /\ Len(queue') = Len(queue) - 1
      /\ \A i \in 1 .. Len(queue) - 1 : queue'[i] = queue[i + 1]
      /\ Head(Line) = Line[1] /\ Len(Tail(Line)) = Len(queue) - 1
      /\ Tail(Line) \in Seq(Procs \X {"R", "W"})
      /\ \A i \in 1 .. Len(queue) - 1 : Tail(Line)[i] = Line[i + 1]
  BY <1>1, HeadTailProperties, EmptySeq
<1>3. \A i \in 1 .. Len(queue) - 1 : queue[i + 1] \in Range(queue) \ {queue[1]}
  <2>1. DOMAIN queue = 1 .. Len(queue) /\ \A a, b \in DOMAIN queue : queue[a] = queue[b] => a = b
    BY <1>1 DEF Control, QueueInv, IsInjective
  <2> SUFFICES ASSUME NEW i \in 1 .. Len(queue) - 1
               PROVE  queue[i + 1] \in Range(queue) \ {queue[1]}
    BY Zenon
  <2>2. i + 1 \in DOMAIN queue /\ 1 \in DOMAIN queue /\ i + 1 # 1
    BY <1>1, <1>2, <2>1
  <2>3. queue[i + 1] # queue[1]
    BY <2>1, <2>2, Zenon
  <2> QED BY <2>2, <2>3, Zenon DEF Range
<1>4. \A i \in 1 .. Len(queue) - 1 : Line'[i] = Line[i + 1]
  BY <1>1, <1>2, <1>3 DEF Line
<1> DEFINE S == Procs \X {"R", "W"}
<1>5. Line' \in Seq(S) /\ Len(Line') = Len(queue) - 1
  <2>1. \A i \in 1 .. Len(queue) - 1 : Line'[i] \in S
    BY <1>1, <1>4, ElementOfSeq
  <2>2. Line' = [i \in 1 .. Len(queue) - 1 |-> Line'[i]]
    BY <1>2, Zenon DEF Line
  <2>3. Len(queue) - 1 \in Nat
    BY <1>1, <1>2
  <2> HIDE DEF S
  <2> DEFINE n == Len(queue) - 1
  <2> HIDE DEF n
  <2>4. n \in Nat /\ (\A i \in 1 .. n : Line'[i] \in S) /\ Line' = [i \in 1 .. n |-> Line'[i]]
    BY <2>1, <2>2, <2>3, Zenon DEF n
  <2>5. Line' \in Seq(S) /\ Len(Line') = n
    BY <2>4
  <2> QED BY <2>5, Zenon DEF n
<1>6. Line' = Tail(Line)
  BY <1>2, <1>4, <1>5, SeqEqual, Zenon
<1>7. Head(Line) = <<Head(queue), Mode(Head(queue))>>
  BY <1>1, <1>2 DEF Line
<1> QED BY <1>1, <1>6, <1>7, Zenon

(* The writer, if there is one.                                            *)
LEMMA WritingIs ==
    ASSUME Counting, Inv
    PROVE  /\ \A p \in Procs : Writes(p) => Writing = p
           /\ (\A p \in Procs : ~Writes(p)) => Writing = NoProc
BY Zenon DEF Inv, WriterInv, HasWriter, Writing

(* The same of the writer after a step.                                    *)
LEMMA WritingIsNext ==
    ASSUME Inv'
    PROVE  /\ \A p \in Procs : Writes(p)' => Writing' = p
           /\ (\A p \in Procs : ~Writes(p)') => Writing' = NoProc
BY Zenon DEF Inv, WriterInv, HasWriter, Writing

(* A step with the same holders and the same queue is a stuttering step of *)
(* the abstract lock.                                                      *)
LEMMA SameLock ==
    ASSUME Counting, Inv, Inv', queue' = queue, \A q \in Range(queue) : Mode(q)' = Mode(q),
           \A q \in Procs : (Reads(q)' <=> Reads(q)) /\ (Writes(q)' <=> Writes(q))
    PROVE  UNCHANGED Fifo!vars
<1>1. Readers' = Readers
  BY Zenon DEF Readers
<1>2. Writing' = Writing
  <2>1. CASE \A q \in Procs : ~Writes(q)
    BY <2>1, WritingIs, WritingIsNext, Zenon
  <2>2. ASSUME NEW q \in Procs, Writes(q) PROVE Writing' = Writing
    BY <2>2, WritingIs, WritingIsNext, Zenon
  <2> QED BY <2>1, <2>2, Zenon
<1>3. Line' = Line
  BY LineSame, Zenon DEF Inv
<1> QED BY <1>1, <1>2, <1>3, Zenon DEF Fifo!vars

(* Calls, q->use, ready, sched and its return change neither.              *)
LEMMA PlainRefines ==
    ASSUME Counting, Inv, Inv', NEW p \in Procs, Call(p) \/ LockUse(p) \/ Ready(p) \/ Sched(p) \/ Resume(p)
    PROVE  UNCHANGED Fifo!vars
<1> USE DEF Inv, Control
<1>1. queue' = queue /\ Range(queue') = Range(queue) /\ Range(queue) \subseteq Procs
  BY RangeOfSeq, Zenon DEF TypeOK, Call, LockUse, Ready, Sched, Resume
<1>2. \A q \in Range(queue) : state'[q] = state[q]
  BY <1>1 DEF TypeOK, QueueInv, NextInv, Queued, Call, LockUse, Ready, Sched, Resume
<1>3. \A q \in Range(queue) : Mode(q)' = Mode(q)
  BY <1>2, Zenon DEF Mode
<1>4. \A q \in Procs : (Reads(q)' <=> Reads(q)) /\ (Writes(q)' <=> Writes(q))
  <2>1. CASE Call(p)
    BY <1>1, <2>1 DEF Call, Goto, TypeOK, Reads, Writes, Queued, InRead, InWrite
  <2>2. CASE LockUse(p)
    BY <1>1, <2>2 DEF LockUse, Goto, Entry, TypeOK, Reads, Writes, Queued, InRead, InWrite
  <2>3. CASE Ready(p)
    BY <1>1, <2>3, Zenon DEF Ready, Goto, TypeOK, Reads, Writes, Queued, InRead, InWrite
  <2>4. CASE Sched(p)
    BY <1>1, <2>4 DEF Sched, Goto, TypeOK, Reads, Writes, Queued, InRead, InWrite
  <2>5. CASE Resume(p)
    BY <1>1, <2>5 DEF Resume, Goto, TypeOK, QueueInv, Reads, Writes, Queued, InRead, InWrite
  <2> QED BY <2>1, <2>2, <2>3, <2>4, <2>5, Zenon
<1> QED BY <1>1, <1>3, <1>4, SameLock, Zenon

(* The abstract lock is free for a reader, or for a writer, when q->writer *)
(* and q->readers say so.                                                  *)
LEMMA FreeIs ==
    ASSUME Counting, Inv, \A q \in Procs : pc[q] # "wake_cs"
    PROVE  /\ writer = 0 <=> Writing = NoProc
           /\ readers = 0 <=> Readers = {}
<1>1. writer = 1 <=> \E q \in Procs : Writes(q)
  BY Zenon DEF Inv, WriterInv, HasWriter
<1>2. writer = 0 <=> Writing = NoProc
  BY <1>1, WritingIs, NoProcAssumption DEF Inv, Control, TypeOK
<1>3. readers = 0 <=> Readers = {}
  BY Zenon DEF Counting, Inv, CountInv, Readers
<1> QED BY <1>2, <1>3, Zenon

(* rlock and canrlock of a free lock enter.                                *)
LEMMA ReadRefines ==
    ASSUME Counting, Inv, Inv', NEW p \in Procs, pc[p] \in {"rlock_cs", "canrlock_cs"},
           writer = 0, queue = <<>>,
           pc' = [pc EXCEPT ![p] = "reading"], UNCHANGED <<writer, queue, state, next>>
    PROVE  Fifo!Enter(p, "R")
<1> USE DEF Inv, Control
<1>1. Range(queue) = {} /\ queue' = queue /\ Line = <<>> /\ Line' = Line
  BY EmptyRange, LineType, LineSame, Zenon
<1>2. \A q \in Procs : /\ Reads(q)' <=> Reads(q) \/ q = p
                       /\ Writes(q)' <=> Writes(q)
                       /\ ~Writes(q)
  BY <1>1 DEF TypeOK, WriterInv, HasWriter, Reads, Writes, Queued, InRead, InWrite
<1>3. Readers' = Readers \cup {p}
  BY <1>2, Zenon DEF Readers
<1>4. Writing = NoProc /\ Writing' = NoProc
  BY <1>2, WritingIs, WritingIsNext, Zenon
<1> QED BY <1>1, <1>3, <1>4, Zenon DEF Fifo!Enter, Fifo!Free, Fifo!Give

(* rlock and wlock of a lock that is not free join the line.               *)
LEMMA JoinRefines ==
    ASSUME Counting, Inv, Inv', NEW p \in Procs, NEW s, NEW l, NEW m,
           \/ pc[p] = "rlock_cs" /\ s = "QueueingR" /\ l = "rsched" /\ m = "R"
           \/ pc[p] = "wlock_cs" /\ s = "QueueingW" /\ l = "wsched" /\ m = "W",
           queue # <<>> \/ writer = 1 \/ (m = "W" /\ readers # 0),
           queue' = Append(queue, p), state' = [state EXCEPT ![p] = s],
           pc' = [pc EXCEPT ![p] = l], UNCHANGED <<readers, writer, next>>
    PROVE  Fifo!Join(p, m)
<1> USE DEF Inv, Control
<1>0. p \notin Range(queue) /\ Range(queue) \subseteq Procs /\ Range(queue') = Range(queue) \cup {p}
  BY AfterEnqueue, RangeOfSeq, Zenon DEF TypeOK
<1>1. Line' = Append(Line, <<p, m>>)
  <2>1. \A q \in Range(queue) : Mode(q)' = Mode(q)
    BY <1>0, Zenon DEF TypeOK, Mode
  <2>2. Mode(p)' = m
    BY Zenon DEF TypeOK, Mode
  <2> QED BY <1>0, <2>1, <2>2, LineJoin, Zenon
<1>2. \A q \in Procs : (Reads(q)' <=> Reads(q)) /\ (Writes(q)' <=> Writes(q))
  BY <1>0, Zenon DEF TypeOK, Reads, Writes, Queued, InRead, InWrite
<1>3. Readers' = Readers
  BY <1>2, Zenon DEF Readers
<1>4. Writing' = Writing
  <2>1. CASE \A q \in Procs : ~Writes(q)
    BY <2>1, <1>2, WritingIs, WritingIsNext, Zenon
  <2>2. ASSUME NEW q \in Procs, Writes(q) PROVE Writing' = Writing
    BY <2>2, <1>2, WritingIs, WritingIsNext, Zenon
  <2> QED BY <2>1, <2>2, Zenon
<1>5. Line # <<>> \/ ~Fifo!Free(m, Readers, Writing)
  <2>1. \A q \in Procs : pc[q] # "wake_cs"
    BY Zenon DEF UseInv, InUse
  <2> QED BY <2>1, FreeIs, LineType DEF TypeOK, Fifo!Free
<1>6. \A i \in 1 .. Len(Line) : Line[i][1] # p
  BY <1>0, LineType DEF Line, Range
<1>7. \A e \in Fifo!Range(Line) : e[1] # p
  BY <1>6, LineType DEF Fifo!Range
<1> QED BY <1>1, <1>3, <1>4, <1>5, <1>7, Zenon DEF Fifo!Join

(* rlock, canrlock and wlock.                                              *)
LEMMA LockRefines ==
    ASSUME Counting, Inv, Inv', NEW p \in Procs, Rlock(p) \/ Canrlock(p) \/ Wlock(p)
    PROVE  Fifo!Next \/ UNCHANGED Fifo!vars
<1>0. ASSUME NEW m \in {"R", "W"}, Fifo!Enter(p, m) \/ Fifo!Join(p, m) PROVE Fifo!Next
  BY <1>0, Zenon DEF Fifo!Next
<1>1. CASE Rlock(p)
  <2>1. CASE writer = 0 /\ queue = <<>>
    <3>1. Fifo!Enter(p, "R")
      BY <1>1, <2>1, ReadRefines, Zenon DEF Rlock, Goto
    <3> QED BY <3>1, <1>0, Zenon
  <2>2. CASE ~ (writer = 0 /\ queue = <<>>)
    <3>1. writer = 1 \/ queue # <<>>
      BY <2>2, Zenon DEF Inv, Control, TypeOK
    <3>2. Fifo!Join(p, "R")
      BY <1>1, <2>2, <3>1, JoinRefines, Zenon DEF Rlock, Enqueue, Goto
    <3> QED BY <3>2, <1>0, Zenon
  <2> QED BY <2>1, <2>2, Zenon
<1>2. CASE Canrlock(p)
  <2>1. CASE writer = 0 /\ queue = <<>>
    <3>1. Fifo!Enter(p, "R")
      BY <1>2, <2>1, ReadRefines, Zenon DEF Canrlock, Goto
    <3> QED BY <3>1, <1>0, Zenon
  <2>2. CASE ~ (writer = 0 /\ queue = <<>>)
    <3>1. /\ queue' = queue /\ state' = state /\ pc' = [pc EXCEPT ![p] = "idle"]
          /\ pc[p] = "canrlock_cs"
      BY <1>2, <2>2, Zenon DEF Canrlock, Goto
    <3>2. \A q \in Procs : (Reads(q)' <=> Reads(q)) /\ (Writes(q)' <=> Writes(q))
      BY <3>1, Zenon DEF Inv, Control, TypeOK, Reads, Writes, Queued, InRead, InWrite
    <3>3. \A q \in Range(queue) : Mode(q)' = Mode(q)
      BY <3>1, Zenon DEF Mode
    <3> QED BY <3>1, <3>2, <3>3, SameLock, Zenon
  <2> QED BY <2>1, <2>2, Zenon
<1>3. CASE Wlock(p)
  <2>1. CASE readers = 0 /\ writer = 0
    <3> USE DEF Inv, Control
    <3>1. /\ queue' = queue /\ state' = state /\ pc' = [pc EXCEPT ![p] = "writing"]
          /\ pc[p] = "wlock_cs" /\ queue = <<>> /\ Range(queue) = {}
      BY <1>3, <2>1, EmptyRange DEF Wlock, Goto, HeadInv
    <3>2. Line = <<>> /\ Line' = Line
      BY <3>1, LineType, LineSame, Zenon
    <3>3. \A q \in Procs : pc[q] # "wake_cs"
      BY <3>1, Zenon DEF UseInv, InUse
    <3>4. Readers = {} /\ Writing = NoProc
      BY <2>1, <3>3, FreeIs, Zenon
    <3>5. \A q \in Procs : Reads(q)' <=> Reads(q)
      BY <3>1, Zenon DEF TypeOK, Reads, Queued, InRead
    <3>6. Readers' = {}
      BY <3>4, <3>5, Zenon DEF Readers
    <3>7. Writing' = p
      BY <3>1, WritingIsNext, Zenon DEF TypeOK, Writes, InWrite
    <3>8. Fifo!Enter(p, "W")
      BY <3>2, <3>4, <3>6, <3>7, Zenon DEF Fifo!Enter, Fifo!Free, Fifo!Give
    <3> QED BY <3>8, <1>0, Zenon
  <2>2. CASE ~ (readers = 0 /\ writer = 0)
    <3>1. readers # 0 \/ writer = 1
      BY <2>2, Zenon DEF Inv, Control, TypeOK
    <3>2. Fifo!Join(p, "W")
      BY <1>3, <2>2, <3>1, JoinRefines, Zenon DEF Wlock, Enqueue, Goto
    <3> QED BY <3>2, <1>0, Zenon
  <2> QED BY <2>1, <2>2, Zenon
<1> QED BY <1>1, <1>2, <1>3, Zenon

(* runlock and wunlock hand the lock to the writer that waits first.       *)
LEMMA HandOverRefines ==
    ASSUME Counting, Inv, Inv', NEW p \in Procs, pc[p] \in {"runlock_cs", "wunlock_cs"},
           queue # <<>>, state[Head(queue)] = "QueueingW",
           \A q \in Procs : Writes(q) => q = p,
           \A q \in Procs : Reads(q) => q = p,
           Reads(p) \/ Writes(p), queue' = Tail(queue), state' = state, readers' = 0,
           pc' = [pc EXCEPT ![p] = "ready"]
    PROVE  Fifo!LeaveTo(p)
<1> USE NoProcAssumption DEF Inv, Control
<1> PICK h \in Procs : h = Head(queue)
  BY AfterDequeue, Zenon
<1>1. Line # <<>> /\ Head(Line) = <<h, Mode(h)>> /\ Line' = Tail(Line)
  BY LineServe, Zenon DEF Mode
<1>2. Mode(h) = "W" /\ pc[h] \in {"wsched", "woff"} /\ h \notin Range(queue')
  BY AfterDequeue, Zenon DEF Mode, QueueInv
<1>3. Writing' = h
  BY <1>2, WritingIsNext, Zenon DEF TypeOK, Writes, Queued
<1>4. Readers' = {}
  BY Zenon DEF Counting, CountInv, Readers
<1>5. Readers \ {p} = {}
  BY Zenon DEF Readers
<1>6. (p \in Readers \/ p = Writing) /\ (IF p = Writing THEN NoProc ELSE Writing) = NoProc
  <2>1. CASE Writes(p)
    BY <2>1, WritingIs, Zenon
  <2>2. CASE ~Writes(p)
    BY <2>2, WritingIs, Zenon DEF Readers
  <2> QED BY <2>1, <2>2, Zenon
<1>7. Head(Line)[1] = h /\ Head(Line)[2] = "W"
  BY <1>1, <1>2
<1> QED BY <1>1, <1>3, <1>4, <1>5, <1>6, <1>7, Zenon DEF Fifo!LeaveTo, Fifo!Free, Fifo!Give

(* runlock: the reader leaves, or leaves the lock to a writer.             *)
LEMMA RunlockRefines ==
    ASSUME Counting, Inv, Inv', NEW p \in Procs, Runlock(p)
    PROVE  Fifo!Next
<1> USE NoProcAssumption DEF Inv, Control
<1>1. Reads(p) /\ ~Writes(p) /\ pc[p] = "runlock_cs" /\ p \in Readers /\ readers > 0 /\ readers \in Nat
  <2>1. Reads(p) /\ ~Writes(p) /\ pc[p] = "runlock_cs" /\ p \in Readers /\ Readers \in SUBSET Procs
    BY Zenon DEF Runlock, Reads, Writes, InRead, InWrite, Readers
  <2> QED BY <2>1 DEF Counting, CountInv, TypeOK
<1>2. \A q \in Procs : ~Writes(q)
  BY <1>1 DEF WriterInv
<1>3. CASE readers' > 0 \/ queue = <<>>
  <2>1. queue' = queue /\ state' = state /\ pc' = [pc EXCEPT ![p] = "idle"]
    BY <1>3, Zenon DEF Runlock, Goto
  <2>2. Line' = Line
    BY <2>1, LineSame, Zenon DEF Mode
  <2>3. \A q \in Procs : /\ Reads(q)' <=> Reads(q) /\ q # p
                         /\ ~Writes(q)'
    BY <1>1, <1>2, <2>1 DEF TypeOK, Reads, Writes, Queued, InRead, InWrite, QueueInv
  <2>4. Readers' = Readers \ {p}
    BY <2>3, Zenon DEF Readers
  <2>5. Writing = NoProc /\ Writing' = NoProc
    BY <1>2, <2>3, WritingIs, WritingIsNext, Zenon
  <2>6. Fifo!Leave(p)
    BY <1>1, <2>2, <2>4, <2>5, Zenon DEF Fifo!Leave
  <2> QED BY <2>6, Zenon DEF Fifo!Next
<1>4. CASE ~ (readers' > 0 \/ queue = <<>>)
  <2>1. readers' = 0 /\ readers = 1 /\ queue # <<>>
    BY <1>1, <1>4 DEF Runlock
  <2>2. queue' = Tail(queue) /\ state' = state
        /\ pc' = [pc EXCEPT ![p] = IF state[Head(queue)] = "QueueingW" THEN "ready" ELSE "panic"]
    BY <1>4, Zenon DEF Runlock, Goto
  <2>3. state[Head(queue)] = "QueueingW"
    BY <2>2, Zenon DEF NoPanic, TypeOK
  <2>4. \A q \in Procs : Reads(q) => q = p
    <3>1. Readers \in SUBSET Procs /\ Cardinality(Readers) = 1 /\ p \in Readers
      BY <1>1, <2>1, Zenon DEF CountInv, Readers
    <3>2. Readers \ {p} \in SUBSET Procs /\ Cardinality(Readers \ {p}) = 0
      BY <3>1 DEF Counting
    <3>3. Readers \ {p} = {}
      BY <3>2, Zenon DEF Counting
    <3> QED BY <3>3, Zenon DEF Readers
  <2>5. Fifo!LeaveTo(p)
    BY <1>1, <1>2, <2>1, <2>2, <2>3, <2>4, HandOverRefines, Zenon
  <2> QED BY <2>5, Zenon DEF Fifo!Next
<1> QED BY <1>3, <1>4, Zenon

(* wunlock: the writer leaves, for nobody, a writer, or readers to come.   *)
LEMMA WunlockRefines ==
    ASSUME Counting, Inv, Inv', NEW p \in Procs, Wunlock(p)
    PROVE  Fifo!Next
<1> USE NoProcAssumption DEF Inv, Control
<1>1. Writes(p) /\ pc[p] = "wunlock_cs" /\ readers = 0
  BY Zenon DEF Wunlock, Writes, InWrite, WriterInv
<1>2. \A q \in Procs : Writes(q) => q = p
  BY <1>1, Zenon DEF WriterInv, HasWriter
<1>3. Readers = {}
  BY <1>1, Zenon DEF Counting, CountInv, Readers
<1>4. Writing = p
  BY <1>1, WritingIs, Zenon
<1>5. CASE queue # <<>> /\ state[Head(queue)] = "QueueingW"
  <2>1. queue' = Tail(queue) /\ state' = state /\ readers' = 0 /\ pc' = [pc EXCEPT ![p] = "ready"]
    BY <1>1, <1>5, Zenon DEF Wunlock, Goto
  <2>2. Fifo!LeaveTo(p)
    BY <1>1, <1>2, <1>3, <1>5, <2>1, HandOverRefines, Zenon DEF Readers
  <2> QED BY <2>2, Zenon DEF Fifo!Next
<1>6. CASE ~(queue # <<>> /\ state[Head(queue)] = "QueueingW")
  <2>1. queue' = queue /\ state' = state /\ \E l \in {"idle", "wake_cs", "panic"} : pc' = [pc EXCEPT ![p] = l]
    BY <1>6, Zenon DEF Wunlock, Goto
  <2>2. Line' = Line
    BY <2>1, LineSame, Zenon DEF Mode
  <2>3. \A q \in Procs : (Reads(q)' <=> Reads(q)) /\ ~Writes(q)'
    BY <1>1, <1>2, <2>1, Zenon DEF TypeOK, Reads, Writes, Queued, InRead, InWrite
  <2>4. Readers' = {}
    BY <1>3, <2>3, Zenon DEF Readers
  <2>5. Writing' = NoProc
    BY <2>3, WritingIsNext, Zenon
  <2>6. Fifo!Leave(p)
    BY <1>3, <1>4, <2>2, <2>4, <2>5, Zenon DEF Fifo!Leave
  <2> QED BY <2>6, Zenon DEF Fifo!Next
<1> QED BY <1>5, <1>6, Zenon

(* wunlock's loop: the lock is granted to a reader, or nothing is left to  *)
(* do.                                                                     *)
LEMMA WakeReaderRefines ==
    ASSUME Counting, Inv, Inv', NEW p \in Procs, WakeReader(p)
    PROVE  Fifo!Next \/ UNCHANGED Fifo!vars
<1> USE DEF Inv, Control
<1>1. pc[p] = "wake_cs" /\ \A q \in Procs : ~Writes(q)
  BY Zenon DEF WakeReader, WriterInv, HasWriter, Writes, InWrite
<1>2. CASE HeadReads
  <2> PICK h \in Procs : h = Head(queue)
    BY <1>2, AfterDequeue, Zenon DEF HeadReads, WakeReader
  <2>0. /\ Range(queue') = Range(queue) \ {h} /\ h \in Range(queue) /\ Range(queue') \subseteq Procs
    BY <1>2, AfterDequeue, Zenon DEF HeadReads, WakeReader
  <2>1. /\ queue # <<>> /\ queue' = Tail(queue) /\ pc' = pc /\ state[h] = "QueueingR"
        /\ state' = [state EXCEPT ![h] = "Ready"]
    BY <1>2, Zenon DEF WakeReader, HeadReads
  <2>2. pc[h] \in {"rsched", "roff"} /\ Mode(h) = "R"
    BY <2>0, <2>1, Zenon DEF QueueInv, Mode
  <2>3. Line # <<>> /\ Head(Line) = <<h, "R">> /\ Line' = Tail(Line)
    <3>1. \A q \in Range(queue) \ {h} : Mode(q)' = Mode(q)
      BY <2>0, <2>1, Zenon DEF TypeOK, Mode
    <3> QED BY <2>1, <2>2, <3>1, LineServe, Zenon
  <2>4. \A q \in Procs : /\ Reads(q)' <=> Reads(q) \/ q = h
                         /\ ~Writes(q)'
    BY <1>1, <2>0, <2>1, <2>2, Zenon DEF TypeOK, Reads, Writes, Queued, InRead, InWrite
  <2>5. Readers' = Readers \cup {h}
    BY <2>4, Zenon DEF Readers
  <2>6. Writing = NoProc /\ Writing' = NoProc
    BY <1>1, <2>4, WritingIs, WritingIsNext, Zenon
  <2>7. Head(Line)[1] = h /\ Head(Line)[2] = "R"
    BY <2>3
  <2>8. Fifo!Grant
    BY <2>3, <2>5, <2>6, <2>7, Zenon DEF Fifo!Grant, Fifo!Free, Fifo!Give
  <2> QED BY <2>8, Zenon DEF Fifo!Next
<1>3. CASE ~HeadReads
  <2>1. queue' = queue /\ state' = state /\ pc' = [pc EXCEPT ![p] = "idle"]
    BY <1>3, Zenon DEF WakeReader, Goto
  <2>2. \A q \in Procs : (Reads(q)' <=> Reads(q)) /\ (Writes(q)' <=> Writes(q))
    BY <1>1, <2>1, Zenon DEF TypeOK, Reads, Writes, Queued, InRead, InWrite
  <2> QED BY <2>1, <2>2, SameLock, Zenon DEF Mode
<1> QED BY <1>2, <1>3, Zenon

(* Every step is a step of the abstract lock or leaves it unchanged.       *)
LEMMA StepRefines == Counting /\ Inv /\ Inv' /\ [Next]_vars => [Fifo!Next]_Fifo!vars
<1> SUFFICES ASSUME Counting, Inv, Inv', [Next]_vars PROVE [Fifo!Next]_Fifo!vars
  BY Zenon
<1>1. CASE UNCHANGED vars
  BY <1>1, SameLock, Zenon DEF vars, Reads, Writes, Queued, Mode
<1>2. ASSUME NEW p \in Procs, Step(p) PROVE Fifo!Next \/ UNCHANGED Fifo!vars
  BY <1>2, PlainRefines, LockRefines, RunlockRefines, WunlockRefines, WakeReaderRefines, Zenon DEF Step
<1> QED BY <1>1, <1>2, Zenon DEF Next
-----------------------------------------------------------------------------
VARIABLE locked     \* QLock.locked

Q == INSTANCE QLock

(* q->use is held exactly by the process inside its critical section.      *)
UseInvQ ==
    \A p \in Procs : pc[p] \in Q!InUse <=> use = p

(* The queue holds no process twice, only processes marked Queueing that   *)
(* are at or past the sched() of qlock, and is empty unless q->locked.     *)
QueueInvQ ==
    /\ Q!IsInjective(queue)
    /\ \A p \in Q!Range(queue) :
           pc[p] \in {"sched", "off"} /\ state[p] = "Queueing"
    /\ queue # <<>> => locked = 1

(* p->state is Running except between queueing and being resumed.          *)
StateInvQ ==
    \A p \in Procs : pc[p] \in {"sched", "off"} <=> state[p] # "Running"

(* A process between dequeueing a waiter and readying it: the waiter is    *)
(* off the queue, still Queueing, and nobody else will ready it.           *)
NextInvQ ==
    /\ \A q \in Procs : pc[q] = "ready" <=> next[q] # NoProc
    /\ \A q \in Procs : next[q] # NoProc =>
           state[next[q]] = "Queueing" /\ ~ Q!Queued(next[q])
    /\ \A q, r \in Procs : next[q] = next[r] /\ next[q] # NoProc => q = r

(* The inductive invariant of QLock.                                       *)
InvQ == /\ Q!TypeOK /\ UseInvQ /\ QueueInvQ /\ StateInvQ /\ NextInvQ
        /\ Q!MutualExclusion /\ Q!NoStrandedWaiter
-----------------------------------------------------------------------------
(* The same of the lists of QLock, whose Range and IsInjective are those   *)
(* of the same library.                                                    *)
LEMMA QList ==
    ASSUME NEW s
    PROVE  Q!Range(s) = Range(s) /\ (Q!IsInjective(s) <=> IsInjective(s))
BY Zenon DEF Q!Range, Range, Q!IsInjective, IsInjective

(* The elements of a list of QLock.                                        *)
LEMMA RangeOfList ==
    ASSUME NEW S, NEW s \in Seq(S)
    PROVE  Q!Range(s) \in SUBSET S
<1>1. Q!Range(s) = Range(s)
  BY QList, Zenon
<1>2. Range(s) \in SUBSET S
  BY RangeOfSeq, Zenon
<1> QED BY <1>1, <1>2, Zenon

(* AppendRange for QLock's lists.                                          *)
LEMMA AppendRangeQ ==
    ASSUME NEW S, NEW s \in Seq(S), NEW e \in S
    PROVE  Q!Range(Append(s, e)) = Q!Range(s) \cup {e}
<1>1. Q!Range(Append(s, e)) = Range(Append(s, e)) /\ Q!Range(s) = Range(s)
  BY QList, Zenon
<1>2. Range(Append(s, e)) = Range(s) \cup {e}
  BY AppendRange
<1> QED BY <1>1, <1>2, Zenon

(* AppendInjectiveList for QLock's lists.                                  *)
LEMMA AppendInjectiveListQ ==
    ASSUME NEW S, NEW s \in Seq(S), NEW e \in S, Q!IsInjective(s), e \notin Q!Range(s)
    PROVE  Q!IsInjective(Append(s, e))
BY QList, AppendInjectiveList, Zenon

(* TailRange for QLock's lists.                                            *)
LEMMA TailRangeQ ==
    ASSUME NEW S, NEW s \in Seq(S), s # <<>>, Q!IsInjective(s)
    PROVE  /\ Q!Range(Tail(s)) = Q!Range(s) \ {Head(s)}
           /\ Q!IsInjective(Tail(s))
           /\ Head(s) \in Q!Range(s)
BY QList, TailRange, Zenon

(* EmptyRange for QLock's lists.                                           *)
LEMMA EmptyRangeQ ==
    Q!Range(<<>>) = {} /\ Q!IsInjective(<<>>)
BY QList, EmptyRange, Zenon

(* A new QLock satisfies the invariant.                                    *)
LEMMA InitInvQ == Q!Init => InvQ
<1> SUFFICES ASSUME Q!Init PROVE InvQ
  BY Zenon
<1>1. Q!TypeOK /\ UseInvQ /\ StateInvQ /\ NextInvQ
  BY NoProcAssumption DEF Q!Init, Q!TypeOK, UseInvQ, StateInvQ, NextInvQ, Q!InUse, Q!PCs, Q!InCrit
<1>2. QueueInvQ
  BY EmptyRangeQ, Zenon DEF Q!Init, QueueInvQ
<1>3. Q!MutualExclusion /\ Q!NoStrandedWaiter
  BY EmptyRangeQ DEF Q!Init, Q!MutualExclusion, Q!NoStrandedWaiter, Q!Owns, Q!Queued, Q!InCrit
<1> QED BY <1>1, <1>2, <1>3, Zenon DEF InvQ

(* The queue once qlock has linked p at its tail.                          *)
LEMMA QueueAfterQlock ==
    ASSUME InvQ, NEW p \in Procs, Q!Qlock(p), locked = 1
    PROVE  /\ Q!Range(queue') = Q!Range(queue) \cup {p}
           /\ Q!IsInjective(queue')
           /\ p \notin Q!Range(queue)
           /\ queue' \in Seq(Procs)
           /\ Q!Range(queue') \subseteq Procs
<1>1. p \notin Q!Range(queue)
  BY Zenon DEF InvQ, QueueInvQ, Q!Qlock
<1>2. queue' = Append(queue, p) /\ queue \in Seq(Procs) /\ Q!IsInjective(queue)
  BY DEF InvQ, Q!TypeOK, QueueInvQ, Q!Qlock
<1> QED BY <1>1, <1>2, AppendRangeQ, AppendInjectiveListQ, AppendProperties, RangeOfList

(* The queue once qunlock has taken its head off.                          *)
LEMMA QueueAfterQunlock ==
    ASSUME InvQ, NEW p \in Procs, Q!Qunlock(p), queue # <<>>
    PROVE  /\ Q!Range(queue') = Q!Range(queue) \ {Head(queue)}
           /\ Q!IsInjective(queue')
           /\ Head(queue) \in Q!Range(queue)
           /\ Head(queue) \in Procs
           /\ queue' \in Seq(Procs)
           /\ Q!Range(queue') \subseteq Procs
<1>1. queue' = Tail(queue) /\ queue \in Seq(Procs) /\ Q!IsInjective(queue)
  BY Zenon DEF InvQ, Q!TypeOK, QueueInvQ, Q!Qunlock
<1> QED BY <1>1, TailRangeQ, HeadTailProperties, RangeOfList, Zenon

(* Every step of qlock, canqlock and qunlock preserves the invariant.      *)
LEMMA NextInvariantQ == InvQ /\ [Q!Next]_Q!vars => InvQ'
<1> SUFFICES ASSUME InvQ, [Q!Next]_Q!vars PROVE InvQ'
  BY Zenon
<1> USE NoProcAssumption
<1>0. CASE UNCHANGED Q!vars
  BY <1>0 DEF Q!vars, InvQ, Q!TypeOK, UseInvQ, QueueInvQ, StateInvQ, NextInvQ, Q!MutualExclusion,
     Q!NoStrandedWaiter, Q!Owns, Q!Queued
<1>1. ASSUME NEW p \in Procs, Q!CallQlock(p) PROVE InvQ'
  <2>1. Q!TypeOK' /\ UseInvQ' /\ QueueInvQ' /\ StateInvQ'
    BY <1>1 DEF Q!CallQlock, Q!Goto, InvQ, Q!TypeOK, UseInvQ, QueueInvQ, StateInvQ, NextInvQ, Q!InUse, Q!InCrit, Q!PCs, Q!Queued
  <2>2. NextInvQ' /\ Q!NoStrandedWaiter'
    BY <1>1 DEF Q!CallQlock, Q!Goto, InvQ, Q!TypeOK, QueueInvQ, StateInvQ, NextInvQ, Q!NoStrandedWaiter, Q!Queued
  <2>3. Q!MutualExclusion'
    BY <1>1 DEF Q!CallQlock, Q!Goto, InvQ, Q!TypeOK, QueueInvQ, NextInvQ, StateInvQ, Q!MutualExclusion, Q!Owns, Q!Queued, Q!InCrit
  <2> QED BY <2>1, <2>2, <2>3, Zenon DEF InvQ
<1>2. ASSUME NEW p \in Procs, Q!CallQunlock(p) PROVE InvQ'
  <2>1. Q!TypeOK' /\ UseInvQ' /\ QueueInvQ' /\ StateInvQ'
    BY <1>2 DEF Q!CallQunlock, Q!Goto, InvQ, Q!TypeOK, UseInvQ, QueueInvQ, StateInvQ, NextInvQ, Q!InUse, Q!InCrit, Q!PCs, Q!Queued
  <2>2. NextInvQ' /\ Q!NoStrandedWaiter'
    BY <1>2 DEF Q!CallQunlock, Q!Goto, InvQ, Q!TypeOK, QueueInvQ, StateInvQ, NextInvQ, Q!NoStrandedWaiter, Q!Queued
  <2>3. Q!MutualExclusion'
    BY <1>2 DEF Q!CallQunlock, Q!Goto, InvQ, Q!TypeOK, QueueInvQ, NextInvQ, StateInvQ, Q!MutualExclusion, Q!Owns, Q!Queued, Q!InCrit
  <2> QED BY <2>1, <2>2, <2>3, Zenon DEF InvQ
<1>3. ASSUME NEW p \in Procs, Q!LockUse(p) PROVE InvQ'
  <2>1. Q!TypeOK' /\ UseInvQ' /\ QueueInvQ' /\ StateInvQ'
    BY <1>3 DEF Q!LockUse, Q!Goto, InvQ, Q!TypeOK, UseInvQ, QueueInvQ, StateInvQ, NextInvQ, Q!InUse, Q!InCrit, Q!PCs, Q!Queued
  <2>2. NextInvQ' /\ Q!NoStrandedWaiter'
    BY <1>3 DEF Q!LockUse, Q!Goto, InvQ, Q!TypeOK, QueueInvQ, StateInvQ, NextInvQ, Q!NoStrandedWaiter, Q!Queued
  <2>3. Q!MutualExclusion'
    BY <1>3 DEF Q!LockUse, Q!Goto, InvQ, Q!TypeOK, QueueInvQ, NextInvQ, StateInvQ, Q!MutualExclusion, Q!Owns, Q!Queued, Q!InCrit
  <2> QED BY <2>1, <2>2, <2>3, Zenon DEF InvQ
<1>4. ASSUME NEW p \in Procs, Q!Qlock(p) PROVE InvQ'
  <2>1. CASE locked = 0
    <3>0. /\ use' = NoProc /\ locked' = 1
          /\ queue' = queue /\ state' = state /\ next' = next
          /\ pc' = [pc EXCEPT ![p] = "crit"]
          /\ pc[p] = "qlock_cs"
      BY <1>4, <2>1, Zenon DEF Q!Qlock, Q!Goto
    <3>1. Q!TypeOK' /\ UseInvQ' /\ QueueInvQ' /\ StateInvQ'
      BY <2>1, <3>0 DEF InvQ, Q!TypeOK, UseInvQ, QueueInvQ, StateInvQ, Q!InUse, Q!InCrit, Q!PCs
    <3>2. NextInvQ' /\ Q!NoStrandedWaiter'
      BY <2>1, <3>0 DEF InvQ, Q!TypeOK, StateInvQ, NextInvQ, Q!NoStrandedWaiter, Q!Queued
    <3>3. Q!MutualExclusion'
      BY <2>1, <3>0 DEF InvQ, Q!TypeOK, Q!MutualExclusion, Q!Owns, Q!Queued, Q!InCrit
    <3> QED BY <3>1, <3>2, <3>3, Zenon DEF InvQ
  <2>2. CASE locked = 1
    <3>1. /\ Q!Range(queue') = Q!Range(queue) \cup {p}
          /\ Q!IsInjective(queue')
          /\ p \notin Q!Range(queue)
          /\ queue' \in Seq(Procs)
          /\ Q!Range(queue') \subseteq Procs
      BY <1>4, <2>2, QueueAfterQlock, Zenon
    <3>0. /\ use' = NoProc /\ locked' = 1 /\ next' = next
          /\ state' = [state EXCEPT ![p] = "Queueing"]
          /\ pc' = [pc EXCEPT ![p] = "sched"]
          /\ pc[p] = "qlock_cs"
      BY <1>4, <2>2 DEF Q!Qlock, Q!Goto
    <3>2. Q!TypeOK' /\ UseInvQ' /\ StateInvQ'
      BY <2>2, <3>0, <3>1 DEF InvQ, Q!TypeOK, UseInvQ, StateInvQ, Q!InUse, Q!InCrit, Q!PCs
    <3>3. QueueInvQ'
      BY <2>2, <3>0, <3>1, Zenon DEF InvQ, Q!TypeOK, QueueInvQ
    <3>4. NextInvQ'
      BY <2>2, <3>0, <3>1 DEF InvQ, Q!TypeOK, NextInvQ, StateInvQ, Q!Queued
    <3>5. Q!MutualExclusion'
      BY <2>2, <3>0, <3>1 DEF InvQ, Q!TypeOK, Q!MutualExclusion, Q!Owns, Q!Queued, Q!InCrit
    <3>6. Q!NoStrandedWaiter'
      BY <2>2, <3>0, <3>1 DEF InvQ, Q!TypeOK, NextInvQ, StateInvQ, Q!NoStrandedWaiter, Q!Queued
    <3> QED BY <3>2, <3>3, <3>4, <3>5, <3>6, Zenon DEF InvQ
  <2> QED BY <2>1, <2>2, Zenon DEF InvQ, Q!TypeOK
<1>5. ASSUME NEW p \in Procs, Q!CanlockUse(p) PROVE InvQ'
  <2>1. Q!TypeOK' /\ UseInvQ' /\ QueueInvQ' /\ StateInvQ'
    BY <1>5 DEF Q!CanlockUse, Q!Goto, InvQ, Q!TypeOK, UseInvQ, QueueInvQ, StateInvQ, NextInvQ, Q!InUse, Q!InCrit, Q!PCs, Q!Queued
  <2>2. NextInvQ' /\ Q!NoStrandedWaiter'
    BY <1>5 DEF Q!CanlockUse, Q!Goto, InvQ, Q!TypeOK, QueueInvQ, StateInvQ, NextInvQ, Q!NoStrandedWaiter, Q!Queued
  <2>3. Q!MutualExclusion'
    BY <1>5 DEF Q!CanlockUse, Q!Goto, InvQ, Q!TypeOK, QueueInvQ, NextInvQ, StateInvQ, Q!MutualExclusion, Q!Owns, Q!Queued, Q!InCrit
  <2> QED BY <2>1, <2>2, <2>3, Zenon DEF InvQ
<1>6. ASSUME NEW p \in Procs, Q!Canqlock(p) PROVE InvQ'
  <2>1. Q!TypeOK' /\ UseInvQ' /\ QueueInvQ' /\ StateInvQ'
    BY <1>6 DEF Q!Canqlock, Q!Goto, InvQ, Q!TypeOK, UseInvQ, QueueInvQ, StateInvQ, NextInvQ, Q!InUse, Q!InCrit, Q!PCs, Q!Queued
  <2>2. NextInvQ' /\ Q!NoStrandedWaiter'
    BY <1>6 DEF Q!Canqlock, Q!Goto, InvQ, Q!TypeOK, QueueInvQ, StateInvQ, NextInvQ, Q!NoStrandedWaiter, Q!Queued
  <2>3. Q!MutualExclusion'
    BY <1>6 DEF Q!Canqlock, Q!Goto, InvQ, Q!TypeOK, QueueInvQ, NextInvQ, StateInvQ, Q!MutualExclusion, Q!Owns, Q!Queued, Q!InCrit
  <2> QED BY <2>1, <2>2, <2>3, Zenon DEF InvQ
<1>7. ASSUME NEW p \in Procs, Q!Qunlock(p) PROVE InvQ'
  <2>1. CASE queue = <<>>
    <3>1. Q!Range(queue) = {}
      BY <2>1, EmptyRangeQ, Zenon
    <3>2. Q!TypeOK' /\ UseInvQ' /\ QueueInvQ' /\ StateInvQ'
      BY <1>7, <2>1, <3>1 DEF Q!Qunlock, Q!Goto, InvQ, Q!TypeOK, UseInvQ, QueueInvQ, StateInvQ, NextInvQ,
         Q!InUse, Q!InCrit, Q!PCs, Q!Queued
    <3>3. NextInvQ' /\ Q!NoStrandedWaiter'
      BY <1>7, <2>1, <3>1 DEF Q!Qunlock, Q!Goto, InvQ, Q!TypeOK, QueueInvQ, StateInvQ, NextInvQ,
         Q!NoStrandedWaiter, Q!Queued
    <3>4. Q!MutualExclusion'
      BY <1>7, <2>1, <3>1 DEF Q!Qunlock, Q!Goto, InvQ, Q!TypeOK, QueueInvQ, NextInvQ, StateInvQ,
         Q!MutualExclusion, Q!Owns, Q!Queued, Q!InCrit
    <3> QED BY <3>2, <3>3, <3>4, Zenon DEF InvQ
  <2>2. CASE queue # <<>>
    <3>1. /\ Q!Range(queue') = Q!Range(queue) \ {Head(queue)}
          /\ Q!IsInjective(queue')
          /\ Head(queue) \in Q!Range(queue)
          /\ Head(queue) \in Procs
          /\ queue' \in Seq(Procs)
          /\ Q!Range(queue') \subseteq Procs
      BY <1>7, <2>2, QueueAfterQunlock, Zenon
    <3>2. /\ pc[Head(queue)] \in {"sched", "off"}
          /\ state[Head(queue)] = "Queueing"
          /\ \A q \in Procs : next[q] # Head(queue)
          /\ next[p] = NoProc
          /\ locked = 1
      BY <1>7, <2>2, <3>1, Zenon DEF Q!Qunlock, InvQ, QueueInvQ, Q!NoStrandedWaiter, NextInvQ, Q!Queued
    <3>0. /\ use' = NoProc /\ locked' = locked /\ state' = state
          /\ next' = [next EXCEPT ![p] = Head(queue)]
          /\ pc' = [pc EXCEPT ![p] = "ready"]
          /\ pc[p] = "qunlock_cs"
      BY <1>7, <2>2, Zenon DEF Q!Qunlock, Q!Goto
    <3>3. Q!TypeOK' /\ UseInvQ' /\ StateInvQ'
      BY <3>0, <3>1 DEF InvQ, Q!TypeOK, UseInvQ, StateInvQ, Q!InUse, Q!InCrit, Q!PCs
    <3>4. QueueInvQ'
      BY <3>0, <3>1, <3>2, Zenon DEF InvQ, Q!TypeOK, QueueInvQ
    <3>5. NextInvQ'
      BY <3>0, <3>1, <3>2 DEF InvQ, Q!TypeOK, NextInvQ, Q!Queued
    <3>6. Q!MutualExclusion'
      BY <3>0, <3>1, <3>2 DEF InvQ, Q!TypeOK, Q!MutualExclusion, Q!Owns, Q!Queued, Q!InCrit
    <3>7. Q!NoStrandedWaiter'
      BY <3>0, <3>1, <3>2 DEF InvQ, Q!TypeOK, NextInvQ, Q!NoStrandedWaiter, Q!Queued
    <3> QED BY <3>3, <3>4, <3>5, <3>6, <3>7, Zenon DEF InvQ
  <2> QED BY <2>1, <2>2, Zenon
<1>8. ASSUME NEW p \in Procs, Q!Ready(p) PROVE InvQ'
  <2>1. Q!TypeOK' /\ UseInvQ' /\ QueueInvQ' /\ StateInvQ'
    BY <1>8 DEF Q!Ready, Q!Goto, InvQ, Q!TypeOK, UseInvQ, QueueInvQ, StateInvQ, NextInvQ, Q!InUse, Q!InCrit, Q!PCs, Q!Queued
  <2>2. NextInvQ' /\ Q!NoStrandedWaiter'
    BY <1>8 DEF Q!Ready, Q!Goto, InvQ, Q!TypeOK, QueueInvQ, StateInvQ, NextInvQ, Q!NoStrandedWaiter, Q!Queued
  <2>3. Q!MutualExclusion'
    BY <1>8 DEF Q!Ready, Q!Goto, InvQ, Q!TypeOK, QueueInvQ, NextInvQ, StateInvQ, Q!MutualExclusion, Q!Owns, Q!Queued, Q!InCrit
  <2> QED BY <2>1, <2>2, <2>3, Zenon DEF InvQ
<1>9. ASSUME NEW p \in Procs, Q!Sched(p) PROVE InvQ'
  <2>1. Q!TypeOK' /\ UseInvQ' /\ QueueInvQ' /\ StateInvQ'
    BY <1>9 DEF Q!Sched, Q!Goto, InvQ, Q!TypeOK, UseInvQ, QueueInvQ, StateInvQ, NextInvQ, Q!InUse, Q!InCrit, Q!PCs, Q!Queued
  <2>2. NextInvQ' /\ Q!NoStrandedWaiter'
    BY <1>9 DEF Q!Sched, Q!Goto, InvQ, Q!TypeOK, QueueInvQ, StateInvQ, NextInvQ, Q!NoStrandedWaiter, Q!Queued
  <2>3. Q!MutualExclusion'
    BY <1>9 DEF Q!Sched, Q!Goto, InvQ, Q!TypeOK, QueueInvQ, NextInvQ, StateInvQ, Q!MutualExclusion, Q!Owns, Q!Queued, Q!InCrit
  <2> QED BY <2>1, <2>2, <2>3, Zenon DEF InvQ
<1>10. ASSUME NEW p \in Procs, Q!Resume(p) PROVE InvQ'
  <2>1. Q!TypeOK' /\ UseInvQ' /\ QueueInvQ' /\ StateInvQ'
    BY <1>10 DEF Q!Resume, Q!Goto, InvQ, Q!TypeOK, UseInvQ, QueueInvQ, StateInvQ, NextInvQ, Q!InUse, Q!InCrit, Q!PCs, Q!Queued
  <2>2. NextInvQ' /\ Q!NoStrandedWaiter'
    BY <1>10 DEF Q!Resume, Q!Goto, InvQ, Q!TypeOK, QueueInvQ, StateInvQ, NextInvQ, Q!NoStrandedWaiter, Q!Queued
  <2>3. Q!MutualExclusion'
    BY <1>10 DEF Q!Resume, Q!Goto, InvQ, Q!TypeOK, QueueInvQ, NextInvQ, StateInvQ, Q!MutualExclusion, Q!Owns, Q!Queued, Q!InCrit
  <2> QED BY <2>1, <2>2, <2>3, Zenon DEF InvQ
<1> QED
  BY <1>0, <1>1, <1>2, <1>3, <1>4, <1>5, <1>6, <1>7, <1>8, <1>9, <1>10, Zenon DEF Q!Next, Q!Step

(* The invariant holds throughout.                                         *)
LEMMA InvHoldsQ == Q!Spec => []InvQ
BY InitInvQ, NextInvariantQ, PTL DEF Q!Spec

(* The type invariant holds for any processes.                             *)
THEOREM QLockTypeCorrect == Q!Spec => []Q!TypeOK
BY InvHoldsQ, PTL DEF InvQ

(* Two processes never own a QLock, and q->locked says whether one does.   *)
THEOREM QLockMutualExclusionHolds == Q!Spec => []Q!MutualExclusion
BY InvHoldsQ, PTL DEF InvQ

(* No ready() of qunlock is lost or repeated.                              *)
THEOREM QLockNoStrandedWaiterHolds == Q!Spec => []Q!NoStrandedWaiter
BY InvHoldsQ, PTL DEF InvQ
-----------------------------------------------------------------------------
(* The owner of the abstract lock is whoever owns the concrete one.        *)
LEMMA OwnerIs ==
    Q!MutualExclusion => /\ \A p \in Procs : Q!Owns(p) => Q!Owner = p
                         /\ (\A p \in Procs : ~ Q!Owns(p)) => Q!Owner = NoProc
BY Zenon DEF Q!MutualExclusion, Q!Owner

(* The same of the owner after a step.                                     *)
LEMMA OwnerIsNext ==
    Q!MutualExclusion' => /\ \A p \in Procs : Q!Owns(p)' => Q!Owner' = p
                          /\ (\A p \in Procs : ~ Q!Owns(p)') => Q!Owner' = NoProc
BY Zenon DEF Q!MutualExclusion, Q!Owner

(* A step after which the same processes own the lock and the queue is the *)
(* same is a stuttering step of the abstract lock.                         *)
LEMMA SameOwner ==
    ASSUME Q!MutualExclusion, Q!MutualExclusion', queue' = queue,
           \A q \in Procs : Q!Owns(q)' <=> Q!Owns(q)
    PROVE  UNCHANGED Q!Fifo!vars
<1>1. Q!Owner' = Q!Owner
  <2>1. CASE \A q \in Procs : ~ Q!Owns(q)
    BY <2>1, OwnerIs, OwnerIsNext, Zenon
  <2>2. ASSUME NEW q \in Procs, Q!Owns(q) PROVE Q!Owner' = Q!Owner
    BY <2>2, OwnerIs, OwnerIsNext, Zenon
  <2> QED BY <2>1, <2>2, Zenon
<1> QED BY <1>1, Zenon DEF Q!Fifo!vars

(* A process that finds the lock free, in qlock or canqlock, takes it.     *)
LEMMA FreeIsTake ==
    ASSUME InvQ, InvQ', NEW p \in Procs, locked = 0, Q!Owns(p)', queue' = queue
    PROVE  Q!Fifo!Take(p)
<1>1. \A q \in Procs : ~ Q!Owns(q)
  BY DEF InvQ, Q!MutualExclusion
<1> QED BY <1>1, OwnerIs, OwnerIsNext, Zenon DEF InvQ, Q!Fifo!Take

(* Every step is a step of the abstract lock or leaves it unchanged.       *)
LEMMA StepRefinesQ == InvQ /\ InvQ' /\ [Q!Next]_Q!vars => [Q!Fifo!Next]_Q!Fifo!vars
<1> SUFFICES ASSUME InvQ, InvQ', [Q!Next]_Q!vars PROVE [Q!Fifo!Next]_Q!Fifo!vars
  BY Zenon
<1> USE DEF InvQ
<1>0. CASE UNCHANGED Q!vars
  BY <1>0, SameOwner, Zenon DEF Q!vars, Q!Owns, Q!Queued
<1>1. ASSUME NEW p \in Procs, Q!CallQlock(p) PROVE UNCHANGED Q!Fifo!vars
  BY <1>1, SameOwner, Zenon DEF Q!CallQlock, Q!Goto, Q!TypeOK, Q!Owns, Q!Queued, Q!InCrit
<1>2. ASSUME NEW p \in Procs, Q!CallQunlock(p) PROVE UNCHANGED Q!Fifo!vars
  BY <1>2, SameOwner, Zenon DEF Q!CallQunlock, Q!Goto, Q!TypeOK, Q!Owns, Q!Queued, Q!InCrit
<1>3. ASSUME NEW p \in Procs, Q!LockUse(p) PROVE UNCHANGED Q!Fifo!vars
  BY <1>3, SameOwner, Zenon DEF Q!LockUse, Q!Goto, Q!TypeOK, Q!Owns, Q!Queued, Q!InCrit
<1>4. ASSUME NEW p \in Procs, Q!Qlock(p) PROVE Q!Fifo!Next
  <2>1. CASE locked = 0
    <3>1. Q!Owns(p)' /\ queue' = queue
      BY <1>4, <2>1, Zenon DEF Q!Qlock, Q!Goto, Q!TypeOK, Q!Owns, Q!InCrit
    <3> QED BY <2>1, <3>1, FreeIsTake, Zenon DEF Q!Fifo!Next
  <2>2. CASE locked = 1
    <3>0. /\ Q!Range(queue') = Q!Range(queue) \cup {p}
          /\ p \notin Q!Range(queue)
      BY <1>4, <2>2, QueueAfterQlock, Zenon
    <3>1. PICK q \in Procs : Q!Owns(q)
      BY <2>2, Zenon DEF Q!MutualExclusion
    <3>2. p # q
      BY <1>4, <3>1, <3>0, Zenon DEF Q!Qlock, Q!Owns, Q!InCrit
    <3>3. Q!Owns(q)'
      BY <1>4, <2>2, <3>0, <3>1, <3>2, Zenon DEF Q!Qlock, Q!Goto, Q!TypeOK, Q!Owns, Q!Queued
    <3>4. Q!Owner = q /\ Q!Owner' = q
      BY <3>1, <3>3, OwnerIs, OwnerIsNext, Zenon
    <3>5. queue' = Append(queue, p)
      BY <1>4, <2>2 DEF Q!Qlock
    <3> QED BY <3>0, <3>2, <3>4, <3>5, NoProcAssumption, Zenon DEF Q!Fifo!Join, Q!Fifo!Next, Q!Range, Q!Fifo!Range
  <2> QED BY <2>1, <2>2, Zenon DEF Q!TypeOK
<1>5. ASSUME NEW p \in Procs, Q!CanlockUse(p) PROVE UNCHANGED Q!Fifo!vars
  BY <1>5, SameOwner, Zenon DEF Q!CanlockUse, Q!Goto, Q!TypeOK, Q!Owns, Q!Queued, Q!InCrit
<1>6. ASSUME NEW p \in Procs, Q!Canqlock(p) PROVE Q!Fifo!Next \/ UNCHANGED Q!Fifo!vars
  <2>1. CASE locked = 0
    <3>1. Q!Owns(p)' /\ queue' = queue
      BY <1>6, <2>1 DEF Q!Canqlock, Q!Goto, Q!TypeOK, Q!Owns, Q!InCrit
    <3> QED BY <2>1, <3>1, FreeIsTake, Zenon DEF Q!Fifo!Next
  <2>2. CASE locked = 1
    BY <1>6, <2>2, SameOwner, Zenon DEF Q!Canqlock, Q!Goto, Q!TypeOK, Q!Owns, Q!Queued, Q!InCrit
  <2> QED BY <2>1, <2>2, Zenon DEF Q!TypeOK
<1>7. ASSUME NEW p \in Procs, Q!Qunlock(p) PROVE Q!Fifo!Next
  <2>0. Q!Owner = p /\ p # NoProc
    BY <1>7, OwnerIs, NoProcAssumption, Zenon DEF Q!Qunlock, Q!Owns, Q!InCrit
  <2>1. CASE queue = <<>>
    <3>1. \A q \in Procs : ~ Q!Owns(q)'
      BY <1>7, <2>1 DEF Q!Qunlock, Q!MutualExclusion
    <3>2. Q!Owner' = NoProc /\ queue' = queue
      BY <1>7, <2>1, <3>1, OwnerIsNext, Zenon DEF Q!Qunlock
    <3> QED BY <2>0, <2>1, <3>2, Zenon DEF Q!Fifo!Leave, Q!Fifo!Next
  <2>2. CASE queue # <<>>
    <3>1. /\ Head(queue) \in Procs
          /\ Head(queue) \in Q!Range(queue)
          /\ Q!Range(queue') = Q!Range(queue) \ {Head(queue)}
      BY <1>7, <2>2, QueueAfterQunlock, Zenon
    <3>. PICK h \in Procs : h = Head(queue)
      BY <3>1, Zenon
    <3>2. Q!Owns(h)'
      BY <1>7, <2>2, <3>1 DEF Q!Qunlock, Q!Goto, Q!TypeOK, QueueInvQ, Q!Owns, Q!Queued
    <3>3. Q!Owner' = Head(queue)
      BY <3>2, OwnerIsNext, Zenon
    <3>4. queue' = Tail(queue)
      BY <1>7, <2>2, Zenon DEF Q!Qunlock
    <3> QED BY <2>0, <2>2, <3>3, <3>4, Zenon DEF Q!Fifo!Leave, Q!Fifo!Next
  <2> QED BY <2>1, <2>2, Zenon
<1>8. ASSUME NEW p \in Procs, Q!Ready(p) PROVE UNCHANGED Q!Fifo!vars
  BY <1>8, SameOwner, Zenon DEF Q!Ready, Q!Goto, Q!TypeOK, Q!Owns, Q!Queued, Q!InCrit
<1>9. ASSUME NEW p \in Procs, Q!Sched(p) PROVE UNCHANGED Q!Fifo!vars
  BY <1>9, SameOwner, Zenon DEF Q!Sched, Q!Goto, Q!TypeOK, Q!Owns, Q!Queued, Q!InCrit
<1>10. ASSUME NEW p \in Procs, Q!Resume(p) PROVE UNCHANGED Q!Fifo!vars
  BY <1>10, SameOwner DEF Q!Resume, Q!Goto, Q!TypeOK, QueueInvQ, Q!Owns, Q!Queued, Q!InCrit
<1> QED
  BY <1>0, <1>1, <1>2, <1>3, <1>4, <1>5, <1>6, <1>7, <1>8, <1>9, <1>10 DEF Q!Next, Q!Step

(* qlock, canqlock and qunlock implement the FIFO lock of qlock(9).        *)
THEOREM QLockImplementsFifo == Q!Spec => Q!ImplementsFifo
<1>1. Q!Init => Q!Fifo!Init
  <2>1. ASSUME Q!Init PROVE \A p \in Procs : ~ Q!Owns(p)
    BY <2>1, Zenon DEF Q!Init, Q!Owns, Q!InCrit
  <2> QED BY <2>1, Zenon DEF Q!Init, Q!Fifo!Init, Q!Owner
<1> QED BY <1>1, InvHoldsQ, StepRefinesQ, PTL DEF Q!Spec, Q!ImplementsFifo, Q!Fifo!Spec
-----------------------------------------------------------------------------
INSTANCE FiniteSetTheorems

(* The processes are finitely many, and so are those of any set of them.   *)
LEMMA Count == Counting
<1> SUFFICES ASSUME NEW S \in SUBSET Procs
             PROVE  /\ Cardinality(S) \in Nat
                    /\ Cardinality(S) = 0 <=> S = {}
                    /\ \A x : x \notin S => Cardinality(S \cup {x}) = Cardinality(S) + 1
                    /\ \A x : x \in S => Cardinality(S \ {x}) = Cardinality(S) - 1
  BY Zenon DEF Counting
<1>1. IsFiniteSet(S)
  BY FiniteProcs, FS_Subset, Zenon
<1> QED BY <1>1, FS_CardinalityType, FS_EmptySet, FS_AddElement, FS_RemoveElement, Zenon

(* Nobody holds or queues for a new lock.                                  *)
LEMMA InitInv == Init => Inv
<1> SUFFICES ASSUME Init PROVE Inv
  BY Zenon
<1> USE NoProcAssumption
<1>1. Control
  BY EmptyRange DEF Init, Control, TypeOK, UseInv, QueueInv, StateInv, NextInv, NoPanic,
     InUse, InRead, InWrite, PCs, Parked
<1>2. \A p \in Procs : ~ Reads(p) /\ ~ HasWriter(p) /\ ~ Writes(p)
  BY Zenon DEF Init, Reads, Writes, HasWriter, InRead, InWrite
<1>3. CountInv
  <2>1. Readers = {}
    BY <1>2, Zenon DEF Readers
  <2> QED BY <2>1, FS_EmptySet, Zenon DEF CountInv, Init
<1>4. WriterInv /\ HeadInv
  BY <1>2 DEF WriterInv, HeadInv, HasWriter, Init
<1> QED BY <1>1, <1>3, <1>4, Zenon DEF Inv

(* The invariant holds throughout.                                         *)
LEMMA InvHolds == Spec => []Inv
BY InitInv, NextInvariant, Count, PTL DEF Spec

(* The type invariant of the RWlock holds for any processes.               *)
THEOREM TypeCorrect == Spec => []TypeOK
BY InvHolds, PTL DEF Inv, Control

(* Of rlock and wlock: a writer that has the lock, or was handed it by     *)
(* runlock or wunlock and has yet to run, excludes readers and writers.    *)
THEOREM ExclusionHolds == Spec => []Exclusion
<1>1. Inv => Exclusion
  <2> SUFFICES ASSUME Inv, NEW p \in Procs, NEW q \in Procs, Writes(p), Reads(q) \/ Writes(q)
               PROVE  p = q
    BY Zenon DEF Exclusion
  <2>1. CASE Writes(q)
    BY <2>1, Zenon DEF Inv, WriterInv, HasWriter
  <2>2. CASE Reads(q)
    <3>1. Readers \in SUBSET Procs /\ q \in Readers /\ Cardinality(Readers) = 0
      BY <2>2, Zenon DEF Readers, Inv, WriterInv, CountInv
    <3> QED BY <3>1, Count, Zenon DEF Counting
  <2> QED BY <2>1, <2>2, Zenon
<1> QED BY <1>1, InvHolds, PTL

(* q->readers and q->writer are exact, also while wunlock wakes readers    *)
(* one by one.                                                             *)
THEOREM CountsExactHolds == Spec => []CountsExact
<1>1. Inv => CountsExact
  BY Zenon DEF Inv, CountInv, WriterInv, CountsExact, Readers, HasWriter
<1> QED BY <1>1, InvHolds, PTL

(* Whoever queues in rlock or wlock waits for a holder whose unlock will   *)
(* come, and behind readers the first of the queue is a writer.            *)
THEOREM WaitersHaveWakerHolds == Spec => []WaitersHaveWaker
<1>1. Inv => WaitersHaveWaker
  <2> SUFFICES ASSUME Inv, use = NoProc, queue # <<>>
               PROVE  /\ \E p \in Procs : Reads(p) \/ Writes(p)
                      /\ readers > 0 => state[Head(queue)] = "QueueingW"
    BY Zenon DEF WaitersHaveWaker
  <2>1. \A p \in Procs : pc[p] # "wake_cs"
    BY NoProcAssumption, Zenon DEF Inv, Control, UseInv, InUse
  <2>2. CASE writer = 1
    <3>1. PICK p \in Procs : Writes(p)
      BY <2>1, <2>2, Zenon DEF Inv, WriterInv, HasWriter
    <3>2. readers = 0
      BY <3>1, Zenon DEF Inv, WriterInv
    <3> QED BY <3>1, <3>2
  <2>3. CASE writer = 0
    <3>1. readers > 0 /\ state[Head(queue)] = "QueueingW"
      BY <2>3 DEF Inv, HeadInv
    <3>2. Readers \in SUBSET Procs /\ Cardinality(Readers) # 0
      BY <3>1 DEF Readers, Inv, CountInv
    <3>3. Readers # {}
      BY <3>2, Count, Zenon DEF Counting
    <3> QED BY <3>1, <3>3, Zenon DEF Readers
  <2> QED BY <2>2, <2>3, Zenon DEF Inv, Control, TypeOK
<1> QED BY <1>1, InvHolds, PTL

(* runlock and wunlock never find the queue in a state they panic about.   *)
THEOREM NoPanicHolds == Spec => []NoPanic
BY InvHolds, PTL DEF Inv, Control

(* rlock, canrlock, wlock, runlock and wunlock implement the lock that is  *)
(* served strictly in order, for any finite set of processes.              *)
THEOREM RWLockImplementsFifo == Spec => ImplementsFifo
<1>1. Init => Fifo!Init
  <2> SUFFICES ASSUME Init PROVE Fifo!Init
    BY Zenon
  <2>1. \A p \in Procs : ~Reads(p) /\ ~Writes(p)
    BY Zenon DEF Init, Reads, Writes, InRead, InWrite
  <2>2. Readers = {} /\ Writing = NoProc
    BY <2>1, Zenon DEF Readers, Writing
  <2>3. Line = <<>>
    BY InitInv, LineType, Zenon DEF Init, Inv
  <2> QED BY <2>2, <2>3 DEF Fifo!Init
<1> QED BY <1>1, InvHolds, StepRefines, Count, PTL DEF Spec, ImplementsFifo, Fifo!Spec
===============================================================================
