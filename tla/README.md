# TLA+ models of the PeteleOS kernel core

PeteleOS is a Plan 9 system. Its live kernel is `src/sys/src/9k`: `port/` is
machine independent, `k10/` is for amd64. This directory holds TLA+ models of
the process synchronisation, the I/O queues, the mount driver and the virtio 9P
transport, the TLC configurations that check them, and machine-checked proofs of
the most important results. `PROJECT.json` maps each definition to the lines it
models and lists components, runs, mutants, findings, hazards and theorems.

## 1. The system and its parts

The kernel is a multiprocessor kernel. A process runs until it blocks, is
preempted, or an interrupt arrives. Spin locks (`taslock.c`) protect short
sections. Everything else blocks by marking the process and calling `sched()`.

| Part | State | Operations | Uses | What is hard |
|---|---|---|---|---|
| QLock (`qlock.c`) | `use`, `locked`, queue | `qlock`, `canqlock`, `qunlock` | spin lock, `sched`, `ready` | a waiter is handed the lock before it has left its processor |
| RWlock (`qlock.c`) | `use`, `readers`, `writer`, queue | `rlock`, `canrlock`, `wlock`, `runlock`, `wunlock` | same | readers are counted and readied one by one; order of readers and writers |
| Sleep/wakeup (`proc.c`) | `r->p`, `p->r`, `p->state`, two locks | `sleep`, `wakeup`, `postnote` | `sched`, `ready` | condition and note change at any moment; two lock orders |
| Scheduler (`proc.c`) | run queues, `p->mach`, `mp`, `wired`, `m->readied` | `ready`, `runproc`, `dequeueproc`, `rebalance`, `sched`, `schedinit` | all processors | lock-free search; a process is queued while its stack is in use |
| Timers (`portclock.c`), `tsleep` | timer lists, `t->tt`, `p->trend` | `timeradd`, `timerdel`, `timerintr`, `tsleep`, `twakeup` | sleep/wakeup | `twakeup` runs beside the process whose timer it was |
| User semaphores (`sysproc.c`) | value in user memory, wait list, `waiting` | `semacquire`, `tsemacquire`, `semrelease` | sleep/wakeup, tsleep | compare-and-swap and list are not under one lock; unused wakeups |
| Rendezvous (`sysproc.c`) | hash chain, `rendtag`, `rendval` | `rendezvous`, `postnote` | scheduler, notes | partner and note race for the waiter |
| Alarms (`alarm.c`) | alarm list, `p->alarm` | `procalarm`, `alarmkproc`, `checkalarms` | QLock, sleep/wakeup, notes | alarms are cleared without the lock; the ticks wrap around |
| Queues (`qio.c`), pipes (`devpipe.c`) | block list, counts, state bits | `qread`, `qbread`, `qbwrite`, `qproduce`, `qconsume`, `qclose`, ... | QLock, sleep/wakeup | flow control, close and hangup against sleepers; copying unlocked |
| Mount driver (`devmnt.c`) | outstanding RPCs, tags, `m->rip` | `mountrpc`, `mountio`, `mountmux`, `mntgate`, flush | sleep/wakeup, spin lock | one process reads for all; interrupts and flushes |
| Virtio 9P (`k10/devvirtio9p.c`) | slots, virtqueue, conversations, directory fids | `v9open`, `v9read`, `v9write`, `vqharvest`, `v9flush`, ... | tsleep, interrupts | lost interrupts; replies of an old conversation; shared slots |

`PROJECT.json` has the complete list, including the parts left out.

How the parts stack up: the mount driver sends its requests through a channel,
which may be a pipe (two queues) or the virtio transport. It needs from its
transport that the replies come in the order in which the server sent them
(`CompletionOrder` of `Virtio9p`, `ImplementsStream` of `Queue`); `MntMux` assumes it
and the flush protocol rests on it. Queues need QLock as a lock that returns
(`QlockReturns`) and sleep/wakeup without a lost wakeup (`NoLostWakeup`). Those need
`ready` and `sched` to run a process once (`OneProcessor`, `ReadyQueuedOnce`).

## 2. Modules

| Module | Models | Notes |
|---|---|---|
| `FifoMutex` | abstract | what a QLock promises: one owner, order of arrival |
| `QLock` | `port/qlock.c` 18-93 | implements `FifoMutex` |
| `FifoRWLock` | abstract | what an RWlock promises |
| `RWLock` | `port/qlock.c` 95-243 | implements `FifoRWLock` |
| `SleepWakeup` | `port/proc.c` 706-933 | `sleep`, `wakeup`, the first half of `postnote` |
| `Sched`, `MCSched` | `port/proc.c` 63-746 | `MCSched` adds a symmetry set |
| `Tsleep` | `port/proc.c` 783-863, `port/portclock.c` | |
| `Semaphore`, `MCSemaphore` | `port/sysproc.c` 976-1180 | `MCSemaphore` adds a symmetry set, of the processes and of the semaphores |
| `Rendezvous` | `port/sysproc.c` 843-891, `port/proc.c` 872-953, `k10/syscall.c` 121-201 and 316-318 | |
| `Alarm` | `port/alarm.c`; the ends of a Proc's life in `port/proc.c` | |
| `Stream` | abstract | what a queue promises: bytes in order, dropped only from the end |
| `Queue`, `MCQueue` | `port/qio.c`, the closing of pipes in `port/devpipe.c` | implements `Stream`; `MCQueue` gives the contents of blocks |
| `MntMux` | `port/devmnt.c`, `mountrpc` to `rpcattn` | |
| `Virtio9p` | `k10/devvirtio9p.c` | |
| `LockProofs` | – | proofs about `RWLock` and `QLock` |
| `SleepProofs` | – | proofs about `SleepWakeup` and `Tsleep` |
| `AlarmProofs` | – | proofs about `Alarm` and `Queue` |
| `SemaphoreProofs`, `RendezvousProofs`, `MntMuxProofs`, `SchedProofs`, `Virtio9pProofs` | – | proofs about the module they are named after |

### How code becomes actions

* A thread has a program counter `pc`. Its labels name functions and points in
  them (`"qlock_cs"` is `qlock` with `q->use` held).
* A step is one access to shared state, or one whole critical section of a spin
  lock when nothing outside the section can observe its middle.
* Where the order inside a section is visible, the lock is a variable (`use`,
  `rlk`, `plk`, `lk`) and the section has several steps. Examples are `wunlock`
  readying readers while `q->writer` is set, `semwakeup` walking its list and
  `sysrendezvous` spinning on `p->mach`.
* `ready(p)` outside `Sched` sets `p->state` to Ready, and `Resume` is the
  scheduler running the process again. `Sched` justifies this abstraction: a
  ready process is on exactly one run queue and runs on one processor.
* `sleep` and `wakeup` are atomic in `Semaphore`, `Tsleep`, `Alarm`, `Queue`, `MntMux` and
  `Virtio9p`; `SleepWakeup` justifies this: no wakeup is lost and none is given
  twice. The wakeup that follows a locked section is a step of its own.
* Interrupt handlers (`timerintr`, the interrupt side of a queue, `v9interrupt`)
  are actions that may come between any two steps of a process.
* Definitions named `Bug...` are faults in one operation. They are used only to
  show that a property notices them and are not part of any specification.

### What is left open or abstracted

* `SleepWakeup`: the condition of a Rendez is one bit. The caller "deals with the
  event" when `sleep` returns, so the bit is cleared then. Sleepers, wakers and
  posters are separate threads. `Serialised` says that callers admit one sleeper
  to a Rendez at a time, which sleep(9) demands of them.
* `Sched`: priorities are arbitrary, so every result of `reprioritize` and every
  order of search is covered. A blocked process is in state `Blocked`. `canlock`
  on the run queues may always fail. The boot process never exits (`pexit` panics
  for it). EDF, load and time accounting are left out.
* `Tsleep`: times are left out. Any timer on a list may be the next one due.
  A processor inside `timerintr` runs nothing else. Periodic timers are left out.
* `Semaphore`: the number of milliseconds is `positive`, `zero` or `negative`. The
  value is bounded by `MaxValue`. One segment; copying of user memory and faults
  are left out.
* `Rendezvous`: one group, one hash chain. Each process offers itself as its value.
  `notify`, on the way out of a system call or a trap, clears `notepending`. The queue
  of notes, the handler and the notes that end the process are left out, and so are the
  two calls after which `syscall` does not look for notes (`rfork`, `nsec`).
* `Alarm`: a time is the number of ticks to go. Comparing two such times is what the
  code's 32-bit difference does; comparing with the 0 of a cleared alarm depends on
  the top bit of the ticks, the constant `Half`. A Proc that exits may be used again
  while it is on the list; the history variable `forme` remembers whether the process
  that set the alarm is still there. What `procalarm` returns is left out.
* `Queue`: a block is its bytes and the size of its allocation; both counts (`len` of
  allocations, `dlen` of data) are kept. The variable `use` says which ends are
  processes and which are interrupt routines, `mode` whether the queue keeps message
  boundaries or coalesces. Kick routines, block management (`padblock`, `pullupblock`,
  `qcopy`) and running out of memory are left out.
* `MntMux`: a Mntrpc is its tag. A reply is named by the process whose request it
  answers. The server is external; it answers in any order, obeys flush(5), and may
  hang up at any time. Allocation does not fail, so the error inside
  `mntflushalloc` is left out. Reading a reply in parts and the contents of messages
  are left out.
* `Virtio9p`: the device is external. It completes chains in any order, and an interrupt
  may be lost. Requests are `open`, `read` and `clunk` of a directory or `other`. The
  conversion between 9P2000 and 9P2000.u is reduced to what the driver keeps between
  messages: the set of directory fids and their offsets. A request may fail: the reply
  is then an Rerror, or too short to have a header, and `rfixup` leaves the set alone.
  For a request of type `other` this makes no difference and is not told apart.
* Two cases of `Virtio9p` are left out. The `malloc` of `setdirfid` does not fail. If it did,
  the open directory would be missing from the set, its reads would be sent with the
  client's offset and `OffsetFollows` would not hold. And a client has one request at a
  time, under a fid of its own. Processes that share the fid of a directory could read it
  at the same time; what `fidlk` does for them is not explored.
* The modelled operations of the other modules allocate no memory.
* Memory is taken to be sequentially consistent. Locks end with `coherence()`, and
  `sysproc.c` calls it around `Sema.waiting`; weaker orders are not explored.

## 3. Runs

All checks explore every reachable state of the instance. Deadlock is checked in
every run.

| Run | Instance | What it shows |
|---|---|---|
| `qlock` | 3 processes | one owner at a time and arrival order (`ImplementsFifo`); `qlock` returns |
| `rwlock` | 3 processes | exclusion; arrival order (`ImplementsFifo`); no starvation |
| `sleep` | 2 sleepers, 2 Rendezes, 1 waker, 1 poster | no lost wakeup; ready once; a sleeper wakes |
| `sched` | 2 processes, 2 processors, 2 priorities | a process is on one processor; a ready process is queued exactly once |
| `semaphore` | 3 processes, 2 semaphores, value up to 2 | no unit beside a sleeper; no `Sema` used after return; the result tells what happened |
| `tsleep` | 2 processes, 1 processor, 2 Rendezes | a sleeper has its timeout to come; a timer is quiet when `tsleep` has returned; `tsleep` returns |
| `tsleep_lost` | 1 process, 2 processors, 2 Rendezes | the same liveness fails (section 5) |
| `rendezvous` | 3 processes, 1 poster, 1 tag | values are exchanged pairwise; waiters are listed; one who has met returns |
| `mntmux` | 2 processes, one of which gets notes, 4 tags, 2 flushes at a time | own reply or `Rflush`; unless the server hangs up, a free tag is quiet, nobody sleeps without a reader and a call returns |
| `virtio9p` | 2 clients, one reading a directory of 1 entry, 2 slots | slots and descriptors are conserved; replies keep their order; directory offsets follow, though requests fail; a request is answered even if every interrupt is lost |
| `queue` | 1 reader, 1 writer, an interrupt routine at either end, limit 3, blocks of 0, 1 and 2 bytes | exact counts; no reader or writer is stranded; bytes arrive in order (`ImplementsStream`); calls return |
| `alarm` | 3 processes, one of which exits, is used again and is debugged | no alarm is early; `alarmkproc` leaves none that is due; each fires |

The proofs of section 4 cover further properties of the same modules (the type
invariants, `MutualExclusion`, `NoStrandedWaiter`, `CountsExact` and `NoPanic` of the
locks, `Synchronised`, `TimerListed`, `AlarmListed`, `Sorted`). They are stated in the
modules and not repeated in the runs.

### Bounds

* Three processes are the fewest in which a lock has an owner, a waiter and a
  newcomer that could overtake. For QLock and RWlock the proofs remove the bound.
* Two sleepers and two Rendezes let a process that was woken sleep elsewhere while
  the waker or poster of its first sleep still works on it. The proofs remove it.
* Two processors are enough for one to take a process from under the other. Two
  priorities are needed for `rebalance` to move a process. The proofs remove the bound.
* Three processes on two semaphores give a releaser, an acquirer that gives up and
  another that must get its wakeup, with a different semaphore in the list. The proofs
  remove the bound for every property of the run.
* `tsleep` passes on one processor only, where `timerintr` is not interleaved with
  the process; on two processors it fails (section 5). For any number of processes on
  one processor the two invariants are proved.
* One tag is the hard case of a rendezvous chain: everybody looks for everybody. The
  proofs cover any number of tags and processes.
* In `mntmux` four tags are a call, two flushes of it and a call of the other
  process, which may be the one that reads. `MaxFlush` bounds the notes and flushes at
  one time. A flush is freed when its call ends, so one call has at most two of them,
  the second a flush of the first; over a run their number is not bounded. `MaxFree` is
  1 instead of 10, so that a Mntrpc is kept on the free list and another is returned.
  The proofs remove these bounds for safety.
* In `virtio9p` two slots make replies overtake each other, and two clients with one
  slot left make a writer wait. Three writers on one slot fail (section 5). For
  safety the proofs remove the bounds.
* In `queue` the limit of 3 makes "full", "less than half full" and "empty" different.
  A block of two bytes against a read of one makes `qread` put a rest back. The empty
  block is a message of no bytes. `MaxLen` bounds what may be queued past the limit
  by interrupted writers and by `qiwrite`.
* In `alarm` a process may be before, between and behind two others on the list. Times
  go from `-MaxLate` to `MaxTime`; the clock waits when an alarm is later than that,
  which no fair behaviour needs. The proofs remove these bounds for safety.

### Fairness

Each module that checks liveness states its fairness in `FairSpec`.

* A thread in the kernel takes its next step (weak fairness). These sections run at
  `splhi` or are short.
* A thread that spins on a lock, or retries, is not passed over for ever (strong
  fairness). `lock` gives no order, but each holder leaves after a bounded number of
  steps.
* A process that is ready runs. `rebalance` recomputes the priorities of those that
  wait, so none is left behind for good.
* An owner of a QLock or RWlock unlocks it. This is the caller's obligation.
* Each timer on a list becomes due, and the clock ticks.
* The 9P server answers each request, and the device completes each chain. Without
  this no call could return. An interrupt is never promised, and a server may hang up.
* Nobody is obliged to call `sleep`, `wakeup`, `postnote`, `qlock`, `qread`, `qclose` and so
  on. `IOReturns` says so in its disjuncts: a read may wait for ever for a writer.

`sched` and `semaphore` check safety only and use no fairness.

### Mutants

Each property of each passing run has a mutant: a definition with a plausible
fault that makes TLC report that property. `PROJECT.json` pairs them. For
example, a `wakeup` that gives up when the Rendez is locked loses a wakeup, a
`dequeueproc` that does not test `p->mach` runs a process on two processors, and a
`qwait` that does not set Qstarve leaves its reader asleep.

## 4. Proofs

The proofs hold for every value of the constants, not only the instance of the run.
TLAPS checks them to the last leaf. The inductive invariants were tried with TLC on the
instances of the runs before they were proved.

A proof module extends the component it is about. Three of them have a second component as an
instance: `Q == INSTANCE QLock` in `LockProofs` (the two locks of `qlock.c`), `T == INSTANCE Tsleep`
in `SleepProofs` (the two sleeps of `proc.c`) and `Q == INSTANCE Queue` in `AlarmProofs` (the two
share the lemma about the first place in a list). Constants and variables of the same name are
shared, and each theorem is about one of the two specifications only: its name begins with the
component's, and it speaks of `Q!Spec` and `Q!NoStrandedReader`. The assumption of an instance is a
hypothesis of its theorems (`ASSUME T!TsleepAssumption`); TLC evaluates it in the run of that module.

### QLock (`LockProofs`)

Assumption: that of `RWLock`, of which the proofs use that `NoProc` is not a process.
Results: `QLockTypeCorrect`, `QLockMutualExclusionHolds`, `QLockNoStrandedWaiterHolds` and
`QLockImplementsFifo` (the step-by-step lock implements `FifoMutex`).

The invariant `InvQ` adds four facts to the properties (their names end in `Q` in the module):

* `UseInv`: `q->use` is held by exactly the process in a critical section.
* `QueueInv`: the queue has no repetitions and holds only processes that wait; it is
  empty unless `q->locked`.
* `StateInv`: `p->state` is Running outside the wait.
* `NextInv`: a process about to be readied is off the queue and has one readier.

Mutual exclusion is not inductive alone: a waiter taken off the queue owns the lock
before it runs, so who owns it depends on the queue and on the readiers.
For the refinement, the owner of the abstract lock is whoever owns the concrete one.
`qunlock` is the abstract hand-over, and the rest are stuttering steps.

### RWLock (`LockProofs`)

Assumptions: `NoProc` is not a process; the set of processes is finite (needed to
count readers).
Results: `TypeCorrect`, `ExclusionHolds`, `CountsExactHolds`,
`WaitersHaveWakerHolds`, `NoPanicHolds` and `RWLockImplementsFifo`.

`Control` collects the facts about control and the queue, as for QLock.
Three further facts carry the argument:

* `CountInv`: `readers` is the number of readers, those just readied included.
* `WriterInv`: `writer` is set exactly while there is a writer or a `wunlock` that is
  waking readers; there is at most one such process; beside a writer `readers` is 0.
* `HeadInv`: nobody queues for a free lock; behind readers the head is a writer; a
  `wunlock` that wakes readers wakes at least one.

`HeadInv` is why `runlock` may panic on a reader at the head and never does: `rlock`
queues only behind a writer or a queue, so the first to queue behind readers is a
writer.

For the refinement (`Readers`, `Writing`, `Line` in `RWLock`) a process is an abstract
reader once `q->readers` counts it, and the abstract queue is the concrete one. There
is one lemma for each operation that changes the abstract lock: taking it or lining
up (`LockRefines`), handing it to a writer (`HandOverRefines`), the two unlocks, and
each reader that `wunlock` lets in (`WakeReaderRefines`). Every other step stutters.

`Counting` collects what the proof of a step needs of cardinalities. It is a hypothesis of the
step lemmas and is discharged once, from the finiteness of the set of processes.

### Sleep and wakeup (`SleepProofs`)

Assumptions: threads of different kinds are different, and `Serialised` (each
theorem has it as a hypothesis).
Results: `TypeCorrect`, `NoPanicHolds`, `SynchronisedHolds`, `NoLostWakeupHolds` and
`ReadyOnceHolds`.

The invariant says who holds the two locks (`LockInv`), what a committed sleeper
looks like (`StateInv`, `RendezInv`), and that a waker or poster with a lock still
sees what it read under it (`TargetInv`). `TestInv` is the heart of
`NoLostWakeup`: if the condition has become true between sleep's test and its
commitment, the waker has not passed the lock of the Rendez, so it will find the
sleeper in `r->p`.

### Scheduler (`SchedProofs`)

Assumptions: `None` is no process, processor, or pair of a process and a queue; the boot
process is a process; there is a priority.
Results: `TypeCorrect`, `OneProcessorHolds` and `ReadyQueuedOnceHolds`, for any numbers of
processes, processors and priorities.

* `OwnInv`: `p->mach` names the processor that uses the process. One that was taken off
  its queue to be run has none, and is in the hands of one processor. A candidate that
  `runproc` found without the lock is not owned at all; `dequeueproc` takes it only if
  it is still queued and `p->mach` is nil.
* `ListInv`: no queue holds a process twice and no two queues hold the same one.
* `ReadyInv`: the processes on the queues or in the hands of a processor that is about
  to queue them (`ready`, `rebalance`) are exactly the ready ones.
* `HandInv`: what is in such hands is on no queue, and in the hands of one processor only.
* `PcInv`: what a processor is doing agrees with the process it runs.

The queue of a priority is a list from which `dequeueproc` unlinks an element in the
middle; `UnlinkedFacts` says what is left. Every step is then one of four: it leaves
queues and hands alone, appends from a hand, takes into a hand, or unlinks.

### Timers (`SleepProofs`)

Assumption: `None` is no process, processor, Rendez or expired timer.
Results: `TsleepTypeCorrect` and `TsleepTimerListedHolds`, for any number of processors, while the
run has one. With the type invariant `TimerListed` is inductive: its second half
(`tt` is nil while `timeradd` is to come) is what keeps a timer off two lists.

On one processor (`OneMach`, a hypothesis of these two theorems) `TsleepTimeoutToComeHolds`
and `TsleepTimerQuietHolds`, for any numbers of processes and Rendezes. The hypothesis is needed: run
`tsleep_lost` refutes the consequence on two. While `timerintr` runs, no process does, so
what twakeup has read of `p->trend` stays true until it acts on it. `SleeperInv` says that a
process that is going to sleep or asleep has its timer on a list, or is about to be
woken, or has been passed by before it slept and then does not sleep.

### Alarms (`AlarmProofs`)

Assumptions: the bounds are numbers, `Off` is not one, `None` is no process.
Results: `TypeCorrect`, `AlarmListedHolds`, `NotEarlyHolds`; and, if `Half = 0` (the first
248 days after boot, then every other 248), `SortedHolds` and `NoneLeftHolds`.

The invariant is `TypeOK /\ AlarmListed /\ NotEarly /\ (Half = 0 => Sorted)`. The hard
step is `procalarm`'s insertion. `Insert` is defined by the first element that is
later; `LeastNat` (from well-founded induction on the naturals) shows
that the loop stops, and `InsertProperties` says where. A cleared alarm between two
others does not disturb the order because it is never "later" in the lower half of
the clock; this is where the assumption is needed, and section 5 shows what happens
without it. `NoneLeft` follows: if the head is not due then nothing behind it is.

### Queues (`AlarmProofs`)

Assumptions: the limit is above 1, blocks are sequences, readers and writers are
different processes, and `None` is neither.
Results: `QueueTypeCorrect` and `QueueNoStrandedReaderHolds`.

`NoStrandedReader` is not inductive: a reader that has decided to sleep and has not yet
slept must already be seen by writers. `StarveInv` says that from the moment a reader
heads for `sleep`, Qstarve is set or the condition it will test is true; and while one
sleeps, Qstarve is set and there is nothing to read, or a wakeup is on its way.
`ReaderInv` and `WriterInv` tie the Rendez to the holder of `rlock` or `wlock`, so that a
wakeup finds the one reader that matters. `DataInv` types the blocks, which a step
needs to know that a queue that was empty and gets a block is no longer empty.

### Mount driver (`MntMuxProofs`)

Assumptions: `None` and `Rflush` are different and no processes; the bounds are numbers.
Results: `TypeCorrect`, `FreeTagQuietHolds`, `OwnReplyHolds` and `NoStrandedCallerHolds`,
for any number of processes and tags and any number of flushes at a time.

* `ChainInv`: each Mntrpc in use belongs to one call, has a tag and is not free.
* `LabelInv`: `m->rip` names the reader, whose own reply has not come; only a hangup makes
  a call fail.
* `PendingInv`, `RepliesInv`: each message at the server or on its way is that of a
  Mntrpc in use, and is addressed to its call. `OnceInv`: it is the only one.
* `OrderInv`: behind an `Rflush` comes no reply to anything it has flushed. This is
  the server's promise in flush(5), carried through the queue of replies.
* `DoneInv`: for a Mntrpc that is done, and for all before it in its chain, nothing is
  under way. So when a call returns with its last flush answered, all its tags are
  quiet and may be freed: this is `FreeTagQuiet`.
* `OwnInv`: a reply with the tag of a call's request is that call's.

All but `ChainInv`, `LabelInv`, `PendingInv` and `OwnInv` hold only while the connection is
up. After a hangup tags are freed and used again while old replies may be left to be
read. `OwnReply` still holds because a call that begins then can only fail (`Doomed`).

`NoStrandedCaller` needs a second invariant, `WaitInv`, on top of the first:

* `QueuedInv`: one that waits without a reply has its Mntrpc on `m->queue`.
* `WokenInv`: one that sleeps though its reply has come is about to be woken by the reader.
* `GateInv`: while the connection is up and nobody reads, somebody is on the way to the
  gate if anybody sleeps without a reply.

The interesting step is `mntgate`, after which nobody reads. The process that leaves was
the reader, so no wakeup is under way (`LabelInv`) and by `WokenInv` all sleepers lack their
replies; by `QueuedInv` they are on the queue where `mntgate` looks, so it finds one of them
to wake, and that one is on its way to the gate. Steps of a process on its own Mntrpc or a
free one leave the others as they are (`TouchesOne`), because no Mntrpc is in two calls.

### User semaphores (`SemaphoreProofs`)

Assumptions: the set of processes is finite (what is pending is counted), `NoProc` is not one
of them, there is a semaphore, and the bound on the values is positive.
Results: `TypeCorrect`, `SemaLiveHolds`, `NoStrandedAcquirerHolds`, and `ReturnsAcquiredHolds` if no
call's time is above 2^31 ms (`"negative" \notin Timeouts`; section 5 shows the case left out).

`SInv` is the first invariant. The list holds the calls between `semqueue` and `semdequeue`, each
once (`ListInv`); whoever walks it has its lock and a place in it (`LockInv`); a sleeper whose
`waiting` is clear is about to be woken by a walker (`SleepInv`). `SemaLive` follows.
`RetInv` says what a call knows at each label of its time and of `acquired`.

`NoStrandedAcquirer` speaks of quiet states only and is far from inductive. `UnitInv` speaks of
every state. Let q be a process that sleeps, or is about to, with `waiting` set. `Pending(q)` is
the set of things still to be done about the units of its semaphore:

* a wakeup that its receiver has not used yet, by another turn of its loop or by passing it on;
* an acquirer about to try;
* each of the n wakeups left to a `semwakeup` that has not gone past q in the list.

`UnitInv` is that there are at least as many of these as the semaphore has units. In a quiet
state nothing is pending, so there is no unit. Each step does one of five things for each
sleeper (`Balanced`): it takes nothing from what is pending, replaces one thing by another, spends
one with a unit, adds as many things as units, or leaves no unit. `NextUnits` shows this for every
action without counting; the lemmas behind it count.

The interesting steps: `semwakeup` that stops at the end of the list may leave wakeups undone, but
then it has gone past every sleeper, and what it had left was not pending for those behind it. An
acquirer that is interrupted after it was woken keeps its element until `PassOn` turns it into a
wakeup for another one. `SetWaiting` exchanges an unused wakeup for a try, and a try that fails,
after which the process is a sleeper, has seen that there is no unit.

### Rendezvous (`RendezvousProofs`)

Assumption: processes and posters are different, and `None` is neither, nor a tag.
Results: `TypeCorrect`, `ExchangedHolds` and `WaitersListedHolds`, for
any numbers of processes, tags and posters.

* `PcInv`: the state of a process agrees with its label; the process that spins holds the lock.
* `TagOnce`, `HeldInv`: no tag is in the chain twice; a process whose state is Rendezvous is in the
  chain or in the hands of the process that spins, and never both.
* `ValInv`: what a process has in `rendval` or has read agrees with whom it has met.

The race is between the partner, which takes a process off the chain and then spins until it has
left its processor, and `postnote`, which sees the state Rendezvous in that time. `postnote` tests
again under the lock that the partner holds while it spins, so it finds the process in the chain
or not waiting at all; `HeldInv` says so.

### Virtio 9P (`Virtio9pProofs`)

Assumptions: `None` is no client, slot or number; the set of slots is finite; there are two
descriptors for each slot (`Size`).
Results: `TypeCorrect`, `SlotsConservedHolds`, `DescriptorsSufficeHolds`, `OffsetFollowsHolds` and the
action property `CompletionOrderHolds`, for any clients and slots, any directory and any device that
completes what it was given, in any order.

* `PlaceInv`: a slot is free, with a client, in the virtqueue, done, or being served: in one of
  these places, and once.
* `ChainInv`: a chain has two descriptors and a slot; no two chains share one; the free list has
  all the others.
* `ClientInv`, `OpInv`: a client has a slot exactly between `getslot` and `submit`; a slot has a request
  exactly from `submit` until it is served; its client waits for it, unless the request is of an
  earlier conversation.

`submit` takes two descriptors without testing that they are there. In the step lemmas that they are
is a hypothesis (`Enough`). `TwoForEach` discharges it by counting: every chain has a slot of its own
and every writer another, so twice the chains leaves two descriptors for each writer.

`OffInv` adds what the offset of a directory is while a read is under way: `Unread` before `rfixup` has
seen the reply, `Fixed` after. A read that fails moves neither the driver's offset nor the client's. A
client that has sent its clunk no longer counts on the fid, whether the clunk fails or not; the next
open starts from 0. `OffInv` holds in conversations that began clean; in others an old reply may move
the offset (section 5). For `CompletionOrder`, `Completed` is the done queue followed by the slots
on the used ring. A harvest moves the border between the two and leaves the whole as it is
(`OrderHarvest`), a completion adds one at the end, and `getreply` takes the first.

### Only model-checked

* Liveness (`QlockReturns`, `LockReturns`, `WakesUp`, `TsleepReturns`, `MetReturns`,
  `CallReturns`, `Answered`, `IOReturns`, `AlarmFires`): the prover has no support for
  fairness and ENABLED.
* `CountsExact`, `NoStrandedWriter` and `ImplementsStream` of `Queue`. They depend on sums
  and concatenations over the list of blocks, which are recursive functions, and facts
  about these need induction over data.

## 5. Faults found while modelling

Each has a configuration that ends in the counterexample. The first is the run
`tsleep_lost`, whose finding in `PROJECT.json` quotes the text that the code disagrees
with; the others are run by hand, for example
`tlc -config AlarmWrap.cfg Alarm`.

* `TsleepLost.cfg` (`Tsleep`): on two processors `twakeup` of one `tsleep` can clear
  `p->trend` of the next one. The new timeout then wakes nobody.
* `SleepCollide.cfg` (`SleepWakeup`): sleep(9) says that two sleepers on one Rendez panic
  the system. The code prints a message and overwrites `r->p`. The first sleeper stays
  asleep.
* `SchedWired.cfg` (`Sched`): `procwired` sets `p->wired` and `p->mp` without the run queue
  lock. A processor that has just found the process sets `p->mp` to itself, and from
  then on that processor and not the wired one runs it.
* `SemNegative.cfg` (`Semaphore`): `tsemacquire` keeps its unsigned time in an `int`. For a
  time above 2^31 ms it can take the semaphore and return 0.
* `RendezvousNote.cfg` (`Rendezvous`): `sysrendezvous` does not look at `notepending` before
  it waits. A note posted just before is not delivered until a partner comes.
* `AlarmWrap.cfg` (`Alarm`): "the odd test of now vs. rp->alarm is to cope with now
  wrapping around" (`alarm.c`). In the upper half of the ticks' range, from the 249th
  day, the 0 of a cleared alarm looks like a time to come. At the head of the list it
  stops `alarmkproc`, and the alarms behind it are not posted.
* `AlarmStray.cfg` (`Alarm`): sleep(2) says that the note of an alarm is "to be sent to the
  invoking process" (`src/sys/man/2/sleep:31`). A process may exit, and its Proc be used
  again, between `alarmkproc`'s test and its `postnote`; the new process gets the note.
* `MntMuxHangup.cfg` (`MntMux`): "Gate readers onto the mount point one at a time"
  (`devmnt.c`). The server hangs up; the reader leaves and `mntgate` wakes one sleeper. If
  that one has a note it flushes its request instead of reading. The write of the flush
  fails, and it leaves without calling `mntgate`, since it is not the reader. The other
  sleepers stay asleep until each gets a note: a later call fails in its write, too, and
  does not come to the gate.
  `NoStrandedCaller` and `CallReturns` speak only of a connection that is up.
* `Virtio9pClean.cfg` (`Virtio9p`): "start the conversation clean". A reply that the device
  completes after `v9open` has flushed is served in the new conversation.
* `Virtio9pWriter.cfg` (`Virtio9p`): "take a free slot, blocking until one is available".
  Writers share one Rendez; of several that sleep, `wakeup` finds the last, and the
  timeout of another one wakes that one too. Others stay asleep beside a free slot.
* `MCQueueEmpty.cfg` (`MCQueue`): a `qconsume` that removes only empty blocks returns before
  it tests for flow control. If these kept the queue above half its limit, the writer
  is not woken.
* `MCQueueClosed.cfg` (`MCQueue`): "No further IO is permitted. All blocks are released"
  (`qclose`). `qproduce` does not test Qclosed and leaves data on a closed queue.

## 6. Not modelled

* Process exit and wait (`pexit`, `pwait`, wait records) beyond what `Alarm` needs, and
  the spin locks themselves (`taslock.c`: `delaysched`, owner bookkeeping). These are the
  parts of the kernel core that remain.
* In modelled parts: EDF and load accounting in the scheduler, periodic timers, the
  note queue and note groups, kick routines and block management of `qio.c`, reference
  counts of pipe ends, `mntversion`, `mntauth` and the mount cache, and the conversion of
  messages in `devvirtio9p.c`.
* The real-time scheduler, memory management, name space and channels, block devices,
  the IP stack, the thread and 9P libraries and the user programs. `PROJECT.json`
  gives the reason for each. They are most of the source tree: this project covers
  the concurrent core of the kernel, not the system.
* Cache and memory-order effects, stack and register switching, and the contents of
  messages.
