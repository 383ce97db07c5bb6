# A TLA+ model of Kandelo's kernel entries, blocking calls, advisory locks and persistent overlay

Kandelo is a POSIX machine in WebAssembly: guest processes are wasm instances in
workers, one kernel instance (Rust, `crates/`) holds the state of the machine, and a
host (TypeScript, `host/src/`) moves system calls between them. This directory holds
TLA+ modules for the parts of it where the order of events decides correctness, TLC
configurations that check them on small instances, and TLAPS proofs of results for
every instance. `PROJECT.json` maps every definition to the lines it models and lists
the runs, their properties, a mutant for each property, the hazards they are for and
the findings.

To repeat a run: `tlc -config AdvisoryLockOwners.cfg MCAdvisoryLock`; to repeat a
proof: `tlapm AdvisoryLockProofs.tla`.

## 1. The system

### 1.1 How a system call blocks

A guest thread writes a request into its channel (a piece of shared memory), the host
enters the kernel with it, and the kernel answers or *parks* the thread: it stores what
the thread waits for (`Parks`, `wait_park.rs`) in the machine's `WaitQueue`
(`wait_queue.rs`) under a new channel *generation* and answers `PARKED`. The host keeps
only the generation. Later entries change state and leave notes (a signal was
generated, a child exited, a pipe changed, a lock changed). Each entry that answers
ends with *drains*: passes over the notes (announce exits, child waits, signal waits,
re-executed calls, expiry, the sweep for interrupted sleepers) that decide parks, and a
page of decisions for the host to *publish* into the channels whose generation still
matches. Publishing drains again, so settlements nest. One host timer covers the
earliest deadline. An entry that parks runs no drain, only
`kernel_wait_park_followup`.

The kernel and the host run on one thread, and entries never overlap: that is the promise
of the kernel entry gate (1.2), which `WaitPark` and `AdvisoryLock` take for granted and
`EntryGate` shows. The concurrency is between guests and between the steps of an entry: a batch of
records is stale by the time it is published, a cancellation or a signal meets a
decision that is already made, a pin outlives the call it was taken for.

### 1.2 How the kernel is entered

Every call of a kernel export goes through `KernelEntryGate`. Host code runs inside
exports (imports of the wasm module), inside callbacks and in later tasks, so a second
entry may be asked for at any depth. A call that needs a result fails when the gate is
busy; a *void ingress* is queued instead and begins in a microtask. An ingress holds a
scope, with which alone exports may be called while it runs, and may register *effects*
that run after the scope is revoked; the last of them may be a *transaction start*, which
runs in a microtask of its own and holds back all later ingress. An exception that may
have left the kernel's state incoherent poisons the gate: the queue is discarded and the
fatal handler is called once nothing holds authority any more.

### 1.3 How changes persist

A persistent machine appends its transactions to a journal. When the journal has grown,
the host writes the next *generation* to another slot (a compacted journal, then a seal
that vouches for it), moves the running kernel to it and publishes an *activation record*
naming it, in two control files written one after the other. A boot reads the records,
requires the generation they name to be there as it was sealed, repairs the records, and
may itself convert a journal into a new generation. Slots are used in turn and old ones
retired. Every write may be the last before a crash.

### 1.4 Inventory

| Component | State | Operations | Works with | What makes it correct |
|---|---|---|---|---|
| Wait queue (`wait_queue.rs`) | sleepers by age, deadline heap with stale entries, live generations, counters | park, wake, limited wake, requeue, expire, cancel, retire thread / process, reset, deadline of a timed call | parks, host timer | no deadline lost; an old timer or generation names nobody; oldest first |
| Parks (`wait_park.rs`, `wait_child.rs`, `wait_signal.rs`, `wait_retry.rs`) | what each sleeper resumes with, decisions, dirty notes, pins to release | park, decide by wake, child, signal, expiry, cancellation, re-execution; retire | wait queue, signals, process table, pipes, locks | every wait answered exactly once; none misses its event |
| Drains (`wasm_api.rs`, `wakeup.rs`) | wake events, pages of decisions | the passes and their order | parks, host | nothing decidable is left when an entry ends |
| Host settlement (`kernel-worker.ts`) | generation per channel, pending cancels, one timer, nested batches | park, settle, publish, cancel, stop / continue, arm and fire the timer | kernel entries, guests | one publication per request; the timer covers the earliest deadline |
| Signals (`signal.rs`, `process.rs`) | pending per process and thread, masks, saved masks | kill, tkill, sigprocmask, sigsuspend, delivery at an answer | parks, glue | an accepting sleeper is interrupted; masks come back |
| Process table (`process_table.rs`) | states, children, exit notices | exit, stop, continue, wait, reap | parks, signals | an exit is announced before it is reaped, and waited for |
| Pipes (`pipe.rs`) | fill, ends | transfer, close | re-executed calls, pins | a transfer whose answer changed does not sleep |
| Advisory locks (`lock.rs`) | sorted, normalised records | set, unlock, split, merge, conversion, removal of owners | parked requests, descriptors, exit | exactly the asked bytes; exclusion; no free lock slept on; locks end with their owners |
| Blocked-retry bindings (`blocked_retry.rs`) | pins of descriptions | pin at the park, activate, release | parks, descriptors | a parked call keeps its description, no longer |
| Descriptors (`fd.rs`, `ofd.rs`) | descriptors, open file descriptions, references | open, dup, close, fork, exec | nearly everything | references count the holders |
| Kernel entry gate (`kernel-entry-gate.ts`) | active export, scope, host operation, permit; phases; FIFO with dedupe keys; fatal latch | enter, run or defer ingress, register and run effects, transaction start, drain, fail, report | every host call, microtasks | one entry at a time; queued ingress begins once, in order and eventually; a failure is reported once, without authority |
| Host lifecycle gates (vfork, thread exit, owned jobs, fork replay, snapshot, process memory, storage close) | obligations between host promises | begin, settle, cancel | process lifecycle | no orphaned obligation, no double release |
| System V IPC, message queues (`ipc.rs`, `mqueue.rs`, `pshared.rs`) | queues, semaphores with undo, notifications | send, receive, semop, undo at exit | retry waits | undo and wake are exact |
| Persistent overlay (`overlay_*.rs`, `persistent_overlay.rs`, `host/src/vfs/overlay-generation-*.ts`) | two activation records; a journal and a seal per slot; the selected generation | commit, sync, boot, repair, convert, compact, hand off, publish, retire | storage, kernel mount, entry gate (a failed writer) | a crash at any write loses nothing acknowledged and refuses no boot; the predecessor stays readable |
| epoll, sockets, network readiness | interest lists, buffers, readiness | add, wait, wake | host-side retries | no lost readiness |
| Exchange (`exchange-controller.ts`) | streams between host and guest | open, transfer, cancel | channel, host promises | each stream ends once |
| Filesystems, terminals, instrumentation, SDK, ports | data | - | - | sequential data code, build tools |

The hard behaviours are: nested settlement; decisions racing cancellation, stop,
termination and thread exit; a signal that changes its target; deadlines racing wakes;
pages at their limit; a change announced to nobody because the entry parks; locks and
pins whose last owner is not the one that closed; non-atomic conversion; interrupted
storage commits. `hazards` in `PROJECT.json` lists them at their lines.

## 2. Modules

| Module | Models | Extends |
|---|---|---|
| `WaitQueue` | the wait queue and the global deadline authority | - |
| `WaitPark` | parks, drains, settlement, signals, children, one pipe | - (uses `WaitQueue`'s results) |
| `WaitContract` | abstract: what a blocking call promises | - |
| `LockTable` | `lock.rs` as operators on a set of records | - |
| `AdvisoryLock` | lock calls, parked requests, close, exit, pins, the passes | `LockTable` |
| `ByteLocks` | abstract: locks on single bytes | - |
| `EntryGate` | the kernel entry gate | - |
| `ActivationControls` | the two activation records, their rules, what a crash leaves | - |
| `Overlay` | boot, commits, conversion, compaction, publication, retirement | `ActivationControls` |
| `DurableLog` | abstract: a log of transactions that survives crashes up to the last sync | - |
| `WaitQueueProofs`, `WaitParkProofs`, `AdvisoryLockProofs`, `EntryGateProofs`, `ActivationControlsProofs` | theorems | the modules they prove about |
| `ByteLocksProofs`; `OverlayProofs`, `OverlayDurabilityProofs` | theorems | `AdvisoryLockProofs`; `Overlay` and `ActivationControlsProofs` |
| `MCWaitQueue`, `MCWaitPark`, `MCAdvisoryLock`, `MCEntryGate`, `MCOverlay` | constants of the runs | as named |

### 2.1 WaitQueue

`sleepers`, the heap, the live generations and the counters are the fields of the struct;
every public method is an action. The heap is a set of entries that may be stale, as in
the code, where a wake leaves its entry behind until `next_deadline_ns` prunes it
(`Pruned`). `OpenDeadline` and `OpenDeadlineOverflow` are the two ends of
`open_deadline`: the second is the early return through `EOVERFLOW`. Counters are bounded
by `MaxGen`, `MaxWaiter`, the clock by `MaxNow`, and a deadline above `MaxNs` overflows
(`i64` nanoseconds in the code). `handles` is what the host keeps of the waits it opened
(`channel.waitHandle`): it forgets one only when it closes it or the machine is reset, so
a handle outlives the expiry of its wait and the retirement of its process.

### 2.2 WaitPark

An entry is a sequence of steps; `ctl.pc` says where it is. A system call of a thread
(futex wait and wake, sleep, wait for a child, sigsuspend, sigtimedwait, transfer,
close, kill, tkill, sigprocmask, stop, continue, exit, thread exit, terminate,
pthread_cancel) or the timer starts one; `AnnounceExits`, `ChildRound`,
`SettleChildWait`, `SignalWaiters`, `SettleSignalWait`, `RetryRound`, `SettleRetryWait`,
`Expire`, `Sweep` and `Resume` are the passes in the order of `kernel_drain_*`;
`CollectRecords`, `PublishRecord`, `PublishArm` and `Commit` are the host's part.
`batch` is the stack of nested publications, `fresh` the page collected by the running
settle. `effects` is what a published answer does to its guest once the entry ends (a
handler runs, a mask is restored, the call returns). `delivered` holds the threads whose
channel carries a signal record: a publication or a resume takes a signal only where there
is none yet. `ArmTimer` converts as the host does: the wait is rounded up to
`Millisecond`s and cut at `MaxDelay` of them.

Abstractions: a park's waiter id and generation are minted together, so one number stands
for both. `Sig` holds the caught signals; others are discarded and the default actions
stop, continue and terminate are calls of their own. Running a handler is part of the
delivery: the handler's mask is in force and gone again within it, with the note that
change would leave (`install_caught_handler_mask_for`), and so handlers do not nest. Of
the mask's restoration (`cancel_signal_mask_wait_for` and its neighbours) only the saved
mask of a sigsuspend is kept, not the depth of handlers, the kinds of mask waits (ppoll
and pselect stay with the host's retries) or a `siglongjmp` out of a handler. A wait for
a child is for any child and reaps it: the pid filter, `WNOWAIT` and the `EFAULT` of a
report that cannot be stored are left out. A call reissued after `SA_RESTART` is a new
call. Parents wait for exits and are not told of stops (`SA_NOCLDSTOP`). One futex
address per process (requeue is `WaitQueue`'s `Retarget`). The clock advances only
between entries and during publication. The 64 rounds of `settle_retry_waits` are not
reached by one pipe and are not modelled. Exec, spawn publication and adoption of orphans
are left out, and pthreads' transfers stay with the host's retries, as in the code.

### 2.3 LockTable and AdvisoryLock

`LockTable` states `set_lock` as an equation on sets: what is removed (`Removed`), the
fragments left of other types on either side, and the replacement merged with its
neighbours. `Eof` is the number after the largest offset, so ends compare as numbers. The
code repeats its merge scan until nothing changes; under the normal form one scan finds
all neighbours, which the proof of `SetLockNormal` confirms. `Exhausted` is the record
limit, tested after the conflict and before any change.

`AdvisoryLock` adds `records`, the descriptors (`fds`), offsets, the parked requests,
and the entry's control. `Execute(q)` is one run of `sys_fcntl_lock_with_owner`, at
the call (`LockCall`) or as a re-execution (`Retry`): resolve the range against the
current offset, drop the old flock mode, test conflict and limit, commit, announce. A
call that answers continues with the passes: `ReleaseOrphaned`, rounds of `Retry` from
the oldest to the youngest while something is noted, and `Finish`, which ends an
interrupted request and releases the pins of decided ones, and runs the passes again when
it published something. A call that parks does not. `Final` and `AsksOrphanCheck` are the
two ways a reference ends: a host file knows its last description at once, a file of the
kernel's own filesystems only its last user, so the other closes ask for the orphan
check.

Abstractions: the runs start with descriptions already shared by dup and fork (fork,
dup, open and exec are not actions); all are open for reading and writing; `SEEK_END` is
left out; `EINVAL` and `EOVERFLOW` of a bad range are one outcome; the sorted order of
the vector decides only which blocker `F_GETLK` names and is dropped; `granted` is a
history variable. `F_GETLK` changes no state. `Final` takes the locks of every
unreferenced description of the file away at once: the code removes those of the
description that is closed and leaves another one, unreferenced because its last pin was
released, to the orphan check of the same entry, before any request is tried again.

### 2.4 EntryGate

The state is the private fields of the gate plus the JavaScript call stack: one frame for
each callback the gate has called or been called from, so that a call of the gate from any
depth is one action enabled in every host frame (`HostCall`), the return of a callback,
normally or by an exception, is another (`HostReturn`), and the gate's own loops over
effects and over the FIFO are steps of their frames (`GateLoop`). Host code may do
anything at any time: call every method, keep a scope after its ingress and use it later,
return a promise, throw, catch what the gate throws. A `finally` block is part of the
action that leaves the frame. `Settle`, `Latch` and `ScheduleDrain` are the three things
those blocks do and are written about the fields as the block leaves them. Microtasks
run in the order they were queued, when the stack is empty.

Abstractions: labels, argument checks and the hardening against patched intrinsics are
left out; a token is a number; `FailKernelInstance` is the worker poisoning the gate from
outside. `MaxCalls` bounds the calls and throws of a behaviour (and so the depth of the
stack), `MaxEffects` the effects of one ingress.

### 2.5 ActivationControls, Overlay and DurableLog

A file is what a reader sees (`cache`, `jcache`, `scache`) and what is on the medium
(`disk`, `jdisk`, `sdisk`). A write changes the first, a flush copies it. A process that
dies leaves both. A power loss leaves each file with one of the two, or, if the process
was in the middle of writing it, torn; digests make a torn record or seal recognisable.

`ActivationControls` is `OverlayActivationControlPair` call by call (`writeAllAt`,
`truncate`, `flush` for each file; the repair, with its final flush of both files) with
the rules of `overlay_activation.rs`. `committed` is a history variable, the record of the
last publication that returned. `Overlay` runs those steps inside the boot (`BootOpen`,
`Scan`, `Anchor`, `Enable`, `Confirm`, the collection) and the compaction
(`CompactOpen`, `CompactPrepare`, `CompactBegin`, nine stages of writing, `Activate`,
`Publish`, the clean-up). Guests commit where the code awaits and nowhere else. A
journal is the sequence of transactions it replays to; `id` stands for the bytes of its
sealed prefix, new for every attempt, as the digests are. `present`, `known` and
`reusable` are the inventory the host keeps of slots that have files, of generations and
of slots with a generation that was sealed and never published. Like the map of the code,
`reusable` is what the boot found: a slot stays in it after a staging that failed.

Each call on a file is a step where its order matters: a seal is emptied, then flushed;
the journal of a retired slot is removed before the seal's file; a staged journal is
truncated, then flushed, only after the invalid seal is on the medium. A compaction
flushes its source, a conversion only reads it.

Failures: any call of a repair, a compaction, a conversion, a publication, a retirement or
a commit may fail, with every outcome of the clean-up that follows (the seal emptied or
not, flushed or not, the journal emptied or not). A failure after the activation was
attempted stops the writer. After a failed commit (`CommitFails`) the code refuses all
further commits of the journal and the machine runs on until it is restarted; the model
goes to `poisoned` and only a restart follows. Nothing durable changes in between: a
compaction tried then fails when it prepares the source, as `StageFails` does. What the
failed commit wrote may be there after the restart, so it counts as seen (`last`).

Boundaries of the crash model: only the write in progress tears. A completed write that
the dead process never flushed stays whole or is undone, it is not torn later; otherwise
both records could become unreadable at once, and the boot would refuse (it would lose
nothing it acknowledged). For the same reason the properties of recovery speak of a
computer with a published record (`committed # Blank`): the very first record may be torn
in both files before its publication returns. Sealed generations without any activation
record come only from disks of earlier versions; the evidence rules for them
(`overlay_recovery.rs`) are not modelled, and `InventoryRefused` covers them by refusing.
The checkpoint index is written, sealed and removed with its journal and is one with it.

## 3. Runs

All bounds are named in the cfg files. Times are for two workers.

| Run | Size | Question |
|---|---|---|
| `wait_queue` | two processes (symmetric), two parks, three generations, clock 0..2, timeouts that overflow, wakes and requeues of 0..2 under every filter; 57 thousand states, 1 min | does the lazily pruned heap keep every sleeper's deadline, do stale entries name nobody, does a generation carry at most one wait, is expiry exact, does a handle ever name a later wait, do limited wakes and requeues take exactly the oldest that qualify |
| `park_signals` | two processes, three threads, one caught signal, three parks; 1.15 million states, 2 min | is every wait answered once and nothing left behind when an entry ends; does a signal whose target moves interrupt the right sleeper; is sigtimedwait served |
| `park_contract` | two processes, three threads with calls of their own, four kinds of parks and transfers on a pipe of one byte whose ends both processes hold, direct publication for one of them, two parks, pages of one record, caught SIGCHLD; 0.9 million states, 2 min | does the machine implement `WaitContract`; is no exit missed, reaped unannounced or waited for forever; does a re-executed transfer ever sleep though its answer changed; is each answered once, with stops, closes, exits and terminations |
| `park_liveness` | two threads, timeouts of 1 and 3, clock 0..4, a millisecond of two units, a longest delay of one, two parks, fair; 0.4 million states, 80 s | does every wait with a deadline end, and as `WaitContract` says; is the one host timer armed for less than a millisecond after the earliest deadline after every entry |
| `lock_ranges` | three processes with own descriptions of a file, record locks relative to the offset with negative, zero and positive lengths, and flock; seek, close, blocking and re-execution, offsets 0..2, three records; 35 thousand states, 90 s | normal form, exclusion, refinement of `ByteLocks` by calls and by re-executed grants, no deadlock of upgrades |
| `lock_owners` | a description dup'ed in one process, one shared with another, a file of the kernel's filesystems, two threads, close, exit, signals; 374 thousand states, 20 s | do locks end exactly with their owners, pins included, and do the sleepers notice |
| `entry_gate` | seven calls or throws of host code, two effects per ingress, one dedupe key, stacks as deep as that allows, fair; 87 thousand states, 40 s | is the kernel ever re-entered; do the flags say what is on the stack; is queued ingress neither lost nor doubled nor overtaken by what its effects owe; is a dropped duplicate covered; is a failure reported once and without authority; does queued ingress begin |
| `overlay` | four slots (the ring of three and one above), two transactions, six generations written, two crashes or failures; 0.5 million states, 45 s | do the records survive; does a boot ever refuse a published computer; is the predecessor whole; is the whole a durable log |

Why the bounds are enough. Three threads in two processes give every pair of relations
(same thread, sibling, other process) with a bystander; a third park or generation
only repeats one of the first two. Two clock units give a deadline before, at and after
another; in `park_liveness` a timeout of 1 makes the timer late by the rounding and one
of 3 is cut, so that its timer comes early and is armed again. Pages of one record make
every batch overflow. For ranges, three offsets and EOF give a
left remainder, a cut and a right remainder of a record, records that touch and records
with a gap, and an end at the largest offset and at EOF; the limit of three records is
met by splits. What these instances cannot show for larger sets is what the theorems are
for.

`lock_ranges` has a state constraint (`Apart` in `MCAdvisoryLock`): record locks and flock
locks live in namespaces that never conflict (`conflicts_in_namespace`), so a behaviour
uses one of the two kinds and their product is not explored. Flock is explored with three
processes that all may sleep, record locks with two, of which one may sleep, for the
range from its offset to EOF.

In `overlay`, six attempts are what it takes to have a slot above the ring active while
its predecessor sits in the first ring slot, the case where a wrong reuse loses the
predecessor; two failures allow a crash during the recovery from a crash. The run was also
done once with three (1.9 million states, no error).

Deadlock is not checked for `Overlay`, whose behaviours end when the bounds are spent,
nor for `WaitPark` and `AdvisoryLock`: their behaviours really end, when all processes
have exited, when every thread sleeps and nobody is left to wake them (a futex wait
without a waker, two record locks in a cycle, which the code does not detect), or at a
bound on the generations. `WaitQueue` and `EntryGate` are checked for deadlock.

Fairness of `entry_gate`: weak fairness of `HostReturn \/ GateLoop`, because callbacks are
synchronous and return (a callback that never does hangs the machine), and strong
fairness of `RunMicrotask`, because the event loop runs the queue of microtasks, in
order, whenever the stack is empty.

Fairness of `park_liveness`: weak fairness of the steps of the kernel and the
host (an entry that began runs to its end: it is straight-line code on one thread);
strong fairness of `TimerFires` (the event loop gives a due timer its turn between
entries) and of `Tick` (time passes between entries). Guests are not assumed to do
anything.

### 3.1 Disagreements found

Each is a run with `expect: violation` and a finding that quotes the text.

- `park_sigpipe`: SIGPIPE of a failed write is raised without the note every other signal
  generation leaves; a sleeping sibling that accepts it sleeps on.
- `park_stolen_signal`: sigsuspend is ended by the sweep for a signal that another
  thread's answer, published earlier, takes; it returns with its temporary mask.
- `lock_conversion`: a flock conversion drops its mode, announces it, and parks; the
  entry of a call that parks re-executes nothing, so a request the dropped mode blocked
  sleeps on until some later entry drains. It takes a description shared by two
  processes: the sleeper's own description, on which the other one converts.
- `lock_seek`: a parked `SEEK_CUR` request is granted the range its offset names when it
  is re-executed, not the range of the call.

Seen while modelling and part of the models, without a run of their own:

- a timed wait whose deadline overflows returns after its generation was made live and
  leaves it so, with nobody asleep on it and no handle given out (`OpenDeadlineOverflow`,
  `wait_queue.rs:868`), against the comment at `wait_queue.rs:689`, which has generations
  retired when their call completes; the properties of the queue hold regardless;
- the resume of a continued process takes a caught signal for every thread without a
  kernel park (`kernel-worker.ts:15239`) and puts it into the thread's channel. A thread
  that is running, or whose request is deferred, is not interrupted by that, and its next
  blocking call parks and sleeps with the handler still to run, which the comment at
  `kernel-worker.ts:15222` wants to avoid for threads already parked. In the model: `Stop`,
  `Kill`, `Continue`, `Resume`, then `FutexWait` of a thread in `delivered`;
- a transfer the kernel publishes directly resumes its guest before its pin is released
  (`wasm_api.rs:15821`), against the comment at `wasm_api.rs:15566`; `TransfersServed`
  holds regardless;
- a process lock granted to a parked request after a sibling closed the file stays until
  the process exits or closes another descriptor of the file.

## 4. Proofs

Every theorem holds for all values of the constants that satisfy the assumptions named
at the end of this section. Some hypotheses go beyond those, and are shown to be
necessary by a run that violates the property without it: `SigPipe \notin Sig` (run
`park_sigpipe`) and, about locks, `Undisturbed` (`lock_seek`) and the absence of flock
(`lock_conversion`). The theorem on upgrades has a hypothesis of its own, explained there.

### 4.1 WaitQueueProofs

For any processes, threads, sources, timeouts and bounds:

- `QueueInvariant`: the inductive invariant. The heap property alone is not inductive: an
  entry may be pruned when its waiter id is stale, so the invariant also says that the
  ids of sleepers and of heap entries are below the counter, that an entry naming a
  sleeper carries that sleeper's deadline, that a sleeper's generation is live, was
  minted and carries no second sleeper, and that handles are of minted generations.
- `NoDeadlineLost` (`HeapCoversSleepers`), `GenerationIdentity`
  (`GenerationsNameOneWait`: at most one wait for a generation, and for a handle only the
  one it was opened for), `StaleEntriesHarmless` (`StaleEntriesNameNobody`) and
  `QueueTyped` follow.
- `ExpiryExact` (`ExpireIsExactAndOrdered`) and `OldestAreFirst` (`OldestFirst`) need to
  know what the two sorts return. They are defined by what a sort is, a choice among the
  orderings of the set, so the lemmas show that one with the wanted order exists (a finite
  set has an enumeration, and the least element can be put first) instead of unfolding a
  recursion. `OldestAreFirst` is about every count and every filter: the sleepers chosen
  are those with fewer than `max` older ones that qualify, and counting shows that if one
  is left out, `max` were taken and all of them are older.

### 4.2 WaitParkProofs

For any processes, threads, signals, timeouts, pipe capacity, pages and bounds. An entry
is many steps, and in the middle of it most of what a run checks between entries is false.
The invariants therefore say of each point of an entry (`ctl.pc`) what may still be left
to do there. `Base` holds the types, the notes and where each may still be set
(`NotesInv`), which lists are empty where (`PassInv`), and that a park belongs to the
thread that sleeps in it (`ParksInv`).

- `WaitsTyped` (`TypeOK`) and `EntriesSettle` (`SettledWhenIdle`) follow from `Base`.
- `AnswersComeOnce` (`AnsweredOnce`): `AnswerInv` says that the records on their way
  (decided, collected, or in the stack of nested publications) have distinct generations,
  that each is of the generation its channel waits for and of no park, and that a blocked
  thread has a park, a record or an effect to come. That two of them never exist at once
  follows from the generations. A decision moves parks to records (`DecisionQueue`), a
  collection and a publication move records along (`CollectQueue`, `PublishQueue`).
- `TimerIsInTime` (`TimerCoversDeadlines`): the timer is due less than a millisecond after
  every deadline, or already, or the entry still has to arm it (`TimerInv`), for any length
  of a millisecond and any longest delay.
- `ChildrenAreServed` (`ChildrenServed`): a child wait that could be answered is noted, or
  ahead of the running round (`ChildrenInv`).
- `SleepersAreNotTargeted` (`NoTargetedSleeper`) and `SetsAreServed` (`SigtimedServed`),
  when SIGPIPE is not caught: a sleeper that a signal targets is in the scope of a sweep
  still to come (`TargetsInv`), a sigtimedwait that could be answered in that of the
  signal pass (`SetsInv`). What makes it hard is that a mask, an exit or a decided
  neighbour moves the target of a signal that is already pending.
- `TransfersAreServed` (`TransfersServed`): the pins are those of the sleeping transfers
  and of the decided ones until they are released (`PinsInv`); sleepers are all readers
  or all writers (`SidesInv`, also while a result the kernel published itself is not yet
  collected, since that starts no pass); and a transfer that would not block is going to
  be tried (`RetriesInv`), because the release of a pin, which may close an end after the
  passes, comes with a publication that runs them again.
- `WaitsKeepContract` (`KeepsContract`): every step is a step of `WaitContract`.
  `ViewsHold` reads the refinement mapping off the invariants: a thread with a park is
  shown waiting, one with a record decided, with that record's value, and one with an
  effect sent. `StepJudged` and `CallJudged` show that every decision has a result the
  contract allows at that moment (`Rightful`): a timeout only when the deadline is
  there, `ECHILD` only to a wait for a child, nothing but `EINTR` to a suspended thread.
  That, and the fault when the rest of a sleep cannot be stored, need `WaitsInv`: a
  suspended thread has no deadline, and only an interrupted sleep has a rest to store.

### 4.3 AdvisoryLockProofs and ByteLocksProofs

For any processes, descriptions, files, requests, offsets and limits:

- `MergedRange`: the merged range contains the request and its neighbours, and its ends
  are theirs. A minimum over the neighbours exists without induction, because under the
  normal form at most one neighbour reaches beyond the request on either side.
- `SetLockCases`: a record after `set_lock` is kept, a left or right remainder, or the
  merged request. From it, by pairs of cases, `SetLockNormal` (the normal form is kept)
  and `SetLockExclusive` (so is exclusion: the merged record adds only bytes its owner
  held for that type).
- `SetLockExact`: inside the request the owner holds the requested type, outside what
  it held before.
- `LockInvariant`: `TypeOK /\ Normalized /\ Exclusive` is inductive. Neither half stands
  alone: exclusion is preserved only from a normal table, and typing because a
  re-execution is of a well-formed request whose range is resolved again. Every release
  takes records away and adds none (`PartOfTable`). `LocksTyped`, `LocksNormalized` and
  `LocksExclusive` follow.
- `LockOwnersExist` (`OwnersExist`) and `LocksNeverTaken` (`LocksKept`): `OwnersInv` says
  that a lock's description is referred to or the orphan check is still to come, that
  a request that may yet be granted is of a living process, and where in an entry each
  of the passes' lists is empty.
- `RangesImplementBytes` (`ImplementsByteLocks`): the table implements `ByteLocks`. Under
  the normal form at most one record of an owner covers a byte, so the bytes are a
  function of the table (`HeldCovers`), and a step of it is a step on the bytes by
  `SetLockExact`. The theorem is about behaviours in which nobody moves the offset a
  sleeping `SEEK_CUR` request counts from (`Undisturbed`). `SteadyImplementsBytes` has no
  such hypothesis, for machines whose guests do not both lock relative to the offset and
  seek. `GrantsAreAsAsked` (`GrantedAsAsked`) is the same for what a grant is of.
- `NoLostLockWake`: a sleeping request is refused by the table, or a change has been noted
  and not looked at, or the running round still tries it (`WakeInv`); between entries,
  with no change noted, it is refused. `FcntlWaitersBlocked` (`NoGrantableWaiter`)
  concludes that for machines without flock nothing grantable sleeps: only a flock
  conversion changes the table in an entry that parks.
- `UpgradesDoNotDeadlock` (`NoUpgradeDeadlock`): a flock request that sleeps has dropped
  the mode its description held, and nobody takes it again (`DropInv`). It is about
  machines on which each description is used by one thread (`Private`), as in the run. Where
  two threads share one, the second may lock the description whose conversion by
  the first sleeps.

### 4.4 EntryGateProofs

For any keys and any number of calls and effects, so for stacks of any depth:

- `QueueIsExact` (`QueueLosesNothing`): what is queued and not yet begun is exactly the
  FIFO, in order, unless the gate has failed.
- `DroppedRequestsAreCovered` (`DuplicatesAreCovered`): a key in `deferredKeys` always
  belongs to a queued entry, so a request dropped as a duplicate is still to be served.
- `NoReentrancy` (`KernelNeverReentered`): an export or a host operation is never under
  another on the stack. It is not inductive alone; the invariant `StackInv` adds that
  such a frame, when it runs, is on top of the stack and owns the flag that makes every
  other entry refuse (`LeafOwnsGate`).
- `FlagsAreTrue` (`FlagsTellTheStack`): the invariant is the shape of the stack
  (`Shaped`: a task, a start or a drain at the bottom, on it one call of the gate, on it
  scopes and what they call, or one effect) and each flag as a function of the bottom, the
  second and the top frame; for the microtasks, that at most one drain is queued and that
  `pendingTransactionStarts` counts the starts (`LoopInv`). `EffectsComeFirst`
  (`EffectsPrecedeLaterIngress`) follows from both.
- `FailuresAreReportedOnce` (`FailureReportedOnce`) and `ReportsComeLast`
  (`ReportSeesNoAuthority`): a failure is latched before it is reported, and its report is
  due at the `finally` block that leaves nothing of the gate's on the stack
  (`FailureInv`). `GateTyped` is `TypeOK`.

### 4.5 ActivationControlsProofs, OverlayProofs and OverlayDurabilityProofs

For any identities, slots, transactions, attempts and faults:

- `PublishedRecordSurvives` (`PublishedSurvives`), with `ControlsTyped`. That the selected
  record is not older than the published one is not inductive: a crash may undo
  an unflushed write. The invariant says that at every moment some file is *firm* (a
  record in cache and on the medium, and not being written), that every record in a file
  is as new as the published one, that two with one sequence are the same, and that a
  record which never reached the medium is also in the other file (`Doubled`: without it
  a power loss could take the only copy). The rest ties the position of the loops to the
  files: what has been written when, and that a publication starts only from a pair both
  of whose files hold the current record on the medium.
- `OverlayImplementsControls`: a behaviour of `Overlay` is one of `ControlSpec`, so that
  the theorems above hold of it (`OverlayPublishedSurvives`, the `PublishedSurvives` that
  the run checks). The steps on the two files are the pair's own; what has to be proved is
  that whatever is published is an identity a record may name. The invariant `OInv` says
  that every seal that may verify, and the selected generation, was made by one of the
  attempts so far, and that the slot being written is one; for a compaction, that is that
  the ring always has a slot which is neither the active one nor its predecessor
  (`CompactionTargetIsSlot`). `OverlayTyped` is `TypeOK`.
- `BootsAreNeverRefused` (`BootNeverRefused`) and `PredecessorIsKept` (`PredecessorKept`):
  `KInv` says that the generation named by any record anywhere (in a file, on the medium,
  in the host's hands) verifies in cache and on the medium, and so does the one it was
  made from (`HeldKept`); that the selection is such a generation (`SelKept`); that while
  guests run or a slot is written over, the files name nothing but the published record
  (`QuietFiles`); and that the slot being written or retired is none of those
  (`TargetInv`), for which a boot's inventory has to be true until it writes (`KnownInv`).
  A boot then finds what the record it selects names.
- `LogIsDurable` (`KeepsDurableLog`): `Overlay` implements `DurableLog`. Every journal
  that a record or the selection names holds on the medium a beginning of what a reader
  sees, and that a beginning of the log, with at least what a sync acknowledged
  (`NamedRecover` in `LInv`); whatever a crash selects is therefore a boot of the log.

### 4.6 Assumptions

`IdentityAssumption`, `ContentAssumption` (a record is not a blank or torn content),
`OffsetAssumption` (there is at least one offset beyond 0), `DescriptionAssumption`,
`RequestAssumption`, `KeysAssumption` and the `Max...` assumptions (the constants have
their types), `SlotAssumption` (a slot above the ring of three), `IdentitySpace` (a record
may name the legacy journal and whatever an attempt can have sealed), `TaskAssumption`
(there are finitely many threads, named by positive numbers; the main thread of a process
has its number), `SignalAssumption`, `BoundAssumption` (bounds are naturals; a page holds
at least one record and a pipe one byte), and those named in `WaitQueue`. TLC evaluates
them in every run.

### 4.7 Only model-checked

Liveness, which is beyond the prover: `DeadlinesEndWaits`, `QueuedIngressBegins`.

## 5. Not modelled

The waits the host still retries itself (poll, select, FIFO opens, pthreads' transfers),
epoll, sockets' connection state, System V IPC and message queues, fork, exec and spawn,
the host's lifecycle gates and the exchange are not modelled yet. Of the persistent
overlay the journal's encoding and replay, the checkpoint index, quotas and the admission
of metadata, and disks without activation records are left out. Filesystems, terminals
and process memory are data, and the instrumentation tools, SDK, ports and demos have no
run-time control. The repository is far larger than what is mapped here: most of it is
ports, build tools, and sequential system-call code over such data.

## 6. Plan

1. Descriptors, open file descriptions, fork and exec, as actions under `AdvisoryLock`'s
   references; with them orphan adoption and spawn publication in the process table.
2. System V semaphores with undo and message queues with notification, whose waits are
   retried by the host; the host-side retry waits and epoll.
3. The host's lifecycle gates and the exchange.
