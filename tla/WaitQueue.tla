------------------------------ MODULE WaitQueue ------------------------------
(***************************************************************************)
(* The kernel's queue of sleeping tasks, crates/runtime-core/src/          *)
(* wait_queue.rs: struct WaitQueue under every call its two owners make of *)
(* it, the deadline authority (mod global: the finite timeouts of poll,    *)
(* select and epoll, which the host opens and closes by handle) and the    *)
(* kernel-owned parks (wait_park.rs).                                      *)
(*                                                                         *)
(* The BTreeMap of sleepers is the set `sleepers`; its key order is the    *)
(* order of `id`.  The deadline heap is the set `deadlines` of             *)
(* <<deadline, id>> pairs: like the heap it keeps the pairs of sleepers    *)
(* that are gone until a peek at the top discards them.  One step is one   *)
(* call: the kernel is entered by one caller at a time.                    *)
(***************************************************************************)
EXTENDS Integers, FiniteSets, SequencesExt

CONSTANTS
  Pids,        \* processes
  Tids,        \* thread ids
  Sources,     \* WakeSource values
  Shapes,      \* what a park may ask for: its sources, and whether it is signal-safe
  Spans,       \* the relative timeouts callers ask for
  MaxNs,       \* the largest representable instant (i64::MAX nanoseconds)
  MaxNow,      \* bound: the clock stops here
  MaxWaiter,   \* the largest WaiterId (i64::MAX in the code)
  MaxGen,      \* bound: no generation above this is minted
  MaxWake      \* bound: the largest count a wake or requeue asks for

ASSUME ShapesAssumption == Shapes \subseteq [sources : SUBSET Sources, signalSafe : BOOLEAN]
ASSUME SpansAssumption == Spans \subseteq Nat
ASSUME MaxNsAssumption == MaxNs \in Nat
ASSUME MaxNowAssumption == MaxNow \in Nat /\ MaxNow <= MaxNs
ASSUME MaxWaiterAssumption == MaxWaiter \in Nat
ASSUME MaxGenAssumption == MaxGen \in Nat
ASSUME MaxWakeAssumption == MaxWake \in Nat

None == -1    \* Option::None for a deadline

VARIABLES
  enabled,     \* the gate of the deadline authority
  nextWaiter, nextGeneration,
  sleepers,    \* set of Sleeper records
  deadlines,   \* the heap, stale entries included
  live,        \* live_channels
  now,         \* CLOCK_MONOTONIC, which every caller passes in
  handles,     \* the waits the host holds a handle of (channel.waitHandle)
  ret          \* what a bounded wake, a requeue or an expiry has just returned

vars == <<enabled, nextWaiter, nextGeneration, sleepers, deadlines, live, now, handles, ret>>

Sleeper == [id : Nat, pid : Pids, tid : Tids, channel : Nat,
            sources : SUBSET Sources, deadline : Nat \cup {None},
            signalSafe : BOOLEAN]

\* A handle, with the wait that was opened under it.
Handle == [channel : Nat, id : Nat, deadline : Nat \cup {None}]

TypeOK ==
  /\ enabled \in BOOLEAN
  /\ nextWaiter \in Nat
  /\ nextGeneration \in Nat
  /\ sleepers \subseteq Sleeper
  /\ deadlines \subseteq Nat \X Nat
  /\ live \subseteq Nat
  /\ now \in Nat
  /\ handles \subseteq Handle

\* The return values no property looks at.
Nothing == [op |-> "other", woken |-> <<>>]

Init ==
  /\ enabled = FALSE
  /\ nextWaiter = 1
  /\ nextGeneration = 1
  /\ sleepers = {}
  /\ deadlines = {}
  /\ live = {}
  /\ now = 0
  /\ handles = {}
  /\ ret = Nothing

-----------------------------------------------------------------------------
(* Helpers *)

\* into_wakeup: the tasks taken off the queue, in the order they are returned.
ById(S) == CHOOSE q \in SetToSeqs(S) : \A i, j \in DOMAIN q : i < j => q[i].id < q[j].id

Earlier(s, t) == s.deadline < t.deadline \/ (s.deadline = t.deadline /\ s.id < t.id)
ByDeadline(S) == CHOOSE q \in SetToSeqs(S) : \A i, j \in DOMAIN q : i < j => Earlier(q[i], q[j])
Returned(op, woken) == [op |-> op, woken |-> woken]

Matches(s, source) == source \in s.sources

\* Mutant: the newest are chosen.
NewestMutant(S, max) == {s \in S : Cardinality({o \in S : o.id > s.id}) < max}

\* The first `max` of S in queue order (iter().filter(..).take(max)).
Oldest(S, max) == {s \in S : Cardinality({o \in S : o.id < s.id}) < max}

\* A heap entry is stale when no sleeper carries both its id and its deadline.
Stale(e) == ~ \E s \in sleepers : s.id = e[2] /\ s.deadline = e[1]

\* Mutant: the loop pops the entry before it validates it.
PrunedMutant(h) == {e \in h : \E v \in h : ~Stale(v) /\
                        (v[1] < e[1] \/ (v[1] = e[1] /\ v[2] < e[2]))}

\* What next_deadline_ns leaves of the heap: stale entries are discarded from
\* the top until a real one is there.
Pruned(h) == {e \in h : \E v \in h : ~Stale(v) /\
                  (v[1] < e[1] \/ (v[1] = e[1] /\ v[2] <= e[2]))}

-----------------------------------------------------------------------------
(* open_channel, then park: a fresh generation and the one sleeper on it. *)

\* Mutant: the lowest generation that is not live is minted again.
ParkOnMutant(pid, tid, sources, deadline, signalSafe) ==
  LET channel == CHOOSE g \in 1..nextGeneration :
                   g \notin live /\ \A h \in 1..(g - 1) : h \in live
  IN /\ nextWaiter' = nextWaiter + 1
     /\ nextGeneration' = nextGeneration + 1
     /\ deadlines' = IF deadline = None THEN deadlines
                     ELSE deadlines \cup {<<deadline, nextWaiter>>}
     /\ sleepers' = sleepers \cup
          {[id |-> nextWaiter, pid |-> pid, tid |-> tid, channel |-> channel,
            sources |-> sources, deadline |-> deadline, signalSafe |-> signalSafe]}
     /\ live' = live \cup {channel}
     /\ UNCHANGED <<enabled, now>>

ParkOn(pid, tid, sources, deadline, signalSafe) ==
  /\ nextWaiter' = nextWaiter + 1
  /\ nextGeneration' = nextGeneration + 1
  /\ deadlines' = IF deadline = None THEN deadlines
                  ELSE deadlines \cup {<<deadline, nextWaiter>>}
  /\ sleepers' = sleepers \cup
       {[id |-> nextWaiter, pid |-> pid, tid |-> tid, channel |-> nextGeneration,
         sources |-> sources, deadline |-> deadline, signalSafe |-> signalSafe]}
  /\ live' = live \cup {nextGeneration}
  /\ UNCHANGED <<enabled, now>>

\* The park itself fails (EOVERFLOW) once the id space is used up; both owners
\* then give the generation they had just opened back.
ParkRefused ==
  /\ nextWaiter > MaxWaiter
  /\ nextGeneration <= MaxGen
  /\ nextGeneration' = nextGeneration + 1
  /\ ret' = Nothing
  /\ UNCHANGED <<enabled, nextWaiter, sleepers, deadlines, live, now, handles>>

\* Parks::park: any sources, an optional deadline computed by the caller.
Park(pid, tid) ==
  /\ nextGeneration <= MaxGen
  /\ nextWaiter <= MaxWaiter
  /\ \E shape \in Shapes, span \in Spans \cup {None} :
       /\ span # None => now + span <= MaxNs
       /\ ParkOn(pid, tid, shape.sources, IF span = None THEN None ELSE now + span,
                 shape.signalSafe)
  /\ ret' = Nothing
  /\ UNCHANGED handles

\* Mutant: a wrapping add in place of checked_add.
OpenDeadlineMutant(pid, tid) ==
  /\ enabled
  /\ nextGeneration <= MaxGen
  /\ nextWaiter <= MaxWaiter
  /\ \E span \in Spans :
       LET sum == now + span
       IN ParkOn(pid, tid, {}, IF sum > MaxNs THEN sum - 2 * (MaxNs + 1) ELSE sum, FALSE)
  /\ ret' = Nothing
  /\ UNCHANGED handles

\* global::open_deadline: ENOSYS while the gate is off.  The generation is the
\* handle the host keeps (waitRemainingMs).
OpenDeadline(pid, tid) ==
  /\ enabled
  /\ nextGeneration <= MaxGen
  /\ nextWaiter <= MaxWaiter
  /\ \E span \in Spans \cup {None} :
       LET deadline == IF span = None THEN None ELSE now + span
       IN /\ deadline <= MaxNs
          /\ ParkOn(pid, tid, {}, deadline, FALSE)
          /\ handles' = handles \cup
               {[channel |-> nextGeneration, id |-> nextWaiter, deadline |-> deadline]}
  /\ ret' = Nothing

\* global::open_deadline when now + timeout does not fit an i64: the early
\* return of checked_add leaves after open_channel has made the generation live.
OpenDeadlineOverflow ==
  /\ enabled
  /\ nextGeneration <= MaxGen
  /\ \E span \in Spans : now + span > MaxNs
  /\ nextGeneration' = nextGeneration + 1
  /\ live' = live \cup {nextGeneration}
  /\ ret' = Nothing
  /\ UNCHANGED <<enabled, nextWaiter, sleepers, deadlines, now, handles>>

-----------------------------------------------------------------------------
(* Taking sleepers off the queue *)

\* What every removal leaves: the heap keeps its stale entries.
TakeOff(S) == sleepers' = sleepers \ S

\* wake: every sleeper on `source`, narrowed by an optional pid, the
\* signal-safe ones held back when the caller asks for that.
Wake(source, pids, defer) ==
  LET hit == {s \in sleepers : s.pid \in pids /\ Matches(s, source)
                               /\ ~(defer /\ s.signalSafe)}
  IN /\ TakeOff(hit)
     /\ live' = live \ {s.channel : s \in hit}   \* the owner's release_channel
     /\ ret' = Nothing
     /\ UNCHANGED <<enabled, nextWaiter, nextGeneration, deadlines, now, handles>>

\* wake_limited: at most `max`, oldest first, among those the caller accepts.
WakeLimited(source, max, accept) ==
  LET hit == Oldest({s \in sleepers : Matches(s, source) /\ s.id \in accept}, max)
  IN /\ TakeOff(hit)
     /\ live' = live \ {s.channel : s \in hit}
     /\ ret' = Returned("wake_limited", ById(hit))
     /\ UNCHANGED <<enabled, nextWaiter, nextGeneration, deadlines, now, handles>>

\* retarget (FUTEX_REQUEUE): the oldest `max` sleepers on `from` move to `to`,
\* asleep, with their identity and deadline.
Retarget(from, to, max) ==
  LET hit == Oldest({s \in sleepers : Matches(s, from)}, max)
      Moved(s) == [s EXCEPT !.sources = (s.sources \ {from}) \cup {to}]
  IN /\ sleepers' = (sleepers \ hit) \cup {Moved(s) : s \in hit}
     /\ ret' = Returned("retarget", ById(hit))
     /\ UNCHANGED <<enabled, nextWaiter, nextGeneration, deadlines, live, now, handles>>

\* remove_with_reason and cancel: one sleeper the caller has looked at.
RemoveWithReason(s) ==
  /\ TakeOff({s})
  /\ live' = live \ {s.channel}
  /\ ret' = Nothing
  /\ UNCHANGED <<enabled, nextWaiter, nextGeneration, deadlines, now, handles>>

\* Mutant: a deadline equal to now is not due yet.
ExpireMutant ==
  LET due == {e \in deadlines : e[1] < now}
      hit == {s \in sleepers : <<s.deadline, s.id>> \in due}
  IN /\ TakeOff(hit)
     /\ deadlines' = deadlines \ due
     /\ live' = live \ {s.channel : s \in hit}
     /\ ret' = Returned("expire", ByDeadline(hit))
     /\ UNCHANGED <<enabled, nextWaiter, nextGeneration, now, handles>>

\* expire: pop every entry at or before now, skip the stale ones, return the
\* rest in deadline order.
Expire ==
  LET due == {e \in deadlines : e[1] <= now}
      hit == {s \in sleepers : <<s.deadline, s.id>> \in due}
  IN /\ TakeOff(hit)
     /\ deadlines' = deadlines \ due
     /\ live' = live \ {s.channel : s \in hit}
     /\ ret' = Returned("expire", ByDeadline(hit))
     /\ UNCHANGED <<enabled, nextWaiter, nextGeneration, now, handles>>

\* cancel_task: every sleeper of one task.
CancelTask(pid, tid) ==
  LET hit == {s \in sleepers : s.pid = pid /\ s.tid = tid}
  IN /\ TakeOff(hit)
     /\ live' = live \ {s.channel : s \in hit}
     /\ ret' = Nothing
     /\ UNCHANGED <<enabled, nextWaiter, nextGeneration, deadlines, now, handles>>

\* retire_channel, which is also global::close: the generation is no longer
\* live and whatever slept on it is dropped.  The host forgets its handle first
\* (closeWaitDeadline).
RetireChannel(channel) ==
  LET hit == {s \in sleepers : s.channel = channel}
  IN /\ live' = live \ {channel}
     /\ TakeOff(hit)
     /\ handles' = {h \in handles : h.channel # channel}
     /\ ret' = Nothing
     /\ UNCHANGED <<enabled, nextWaiter, nextGeneration, deadlines, now>>

\* retire_process: retire_channel for the channel of each of its sleepers.
RetireProcess(pid) ==
  LET channels == {s.channel : s \in {t \in sleepers : t.pid = pid}}
      hit == {s \in sleepers : s.channel \in channels}
  IN /\ live' = live \ channels
     /\ TakeOff(hit)
     /\ ret' = Nothing
     /\ UNCHANGED <<enabled, nextWaiter, nextGeneration, deadlines, now, handles>>

-----------------------------------------------------------------------------
(* The earliest deadline, the gate, teardown, time *)

\* next_deadline_ns: discards the stale entries above the answer.
NextDeadline ==
  /\ deadlines' = Pruned(deadlines)
  /\ ret' = Nothing
  /\ UNCHANGED <<enabled, nextWaiter, nextGeneration, sleepers, live, now, handles>>

\* global::set_enabled: EBUSY when turned off over sleeping tasks.
SetEnabled(on) ==
  /\ on \/ ~enabled \/ sleepers = {}
  /\ enabled' = on
  /\ ret' = Nothing
  /\ UNCHANGED <<nextWaiter, nextGeneration, sleepers, deadlines, live, now, handles>>

\* Mutant: the heap survives the reset.
ResetMutant ==
  /\ enabled' = FALSE
  /\ nextWaiter' = 1
  /\ nextGeneration' = 1
  /\ sleepers' = {}
  /\ live' = {}
  /\ ret' = Nothing
  /\ UNCHANGED <<deadlines, now, handles>>

\* global::reset: whole-machine teardown, the host's channels included.
Reset ==
  /\ enabled' = FALSE
  /\ nextWaiter' = 1
  /\ nextGeneration' = 1
  /\ sleepers' = {}
  /\ deadlines' = {}
  /\ live' = {}
  /\ handles' = {}
  /\ ret' = Nothing
  /\ UNCHANGED now

Tick ==
  /\ now < MaxNow
  /\ now' = now + 1
  /\ ret' = Nothing
  /\ UNCHANGED <<enabled, nextWaiter, nextGeneration, sleepers, deadlines, live, handles>>

\* A call that takes sleepers off the queue.
Removal ==
  \/ \E source \in Sources, pids \in {Pids} \cup {{p} : p \in Pids}, defer \in BOOLEAN :
       Wake(source, pids, defer)
  \/ \E source \in Sources, max \in 0..MaxWake, accept \in SUBSET {s.id : s \in sleepers} :
       WakeLimited(source, max, accept)
  \/ \E s \in sleepers : RemoveWithReason(s)
  \/ Expire
  \/ \E pid \in Pids, tid \in Tids : CancelTask(pid, tid)
  \/ \E channel \in 1..MaxGen : RetireChannel(channel)
  \/ \E pid \in Pids : RetireProcess(pid)

Next ==
  \/ \E pid \in Pids, tid \in Tids : Park(pid, tid) \/ OpenDeadline(pid, tid)
  \/ ParkRefused
  \/ OpenDeadlineOverflow
  \/ Removal
  \/ \E from, to \in Sources, max \in 0..MaxWake : Retarget(from, to, max)
  \/ NextDeadline
  \/ \E on \in BOOLEAN : SetEnabled(on)
  \/ Reset
  \/ Tick

Spec == Init /\ [][Next]_vars

-----------------------------------------------------------------------------
(* Properties *)

\* No deadline is ever lost to the lazy heap: whatever stale entries were
\* discarded on the way (next_deadline_ns, expire), every sleeper with a
\* deadline still has its own entry in the heap, so the machine's one timer
\* covers it.
HeapCoversSleepers ==
  \A s \in sleepers : s.deadline # None => <<s.deadline, s.id>> \in deadlines

\* "because WaiterId is never reused, a stale entry can never match a later
\* sleeper" (the deadlines field): an entry that names a sleeper at all names
\* it with that sleeper's own deadline, and names no id still to be minted.
StaleEntriesNameNobody ==
  \A e \in deadlines :
    /\ e[2] < nextWaiter
    /\ \A s \in sleepers : s.id = e[2] => s.deadline = e[1]

\* Execution-generation identity (invariants 1 and 2 of the module docs): a
\* sleeper's generation is live, was minted in the past, and carries no second
\* sleeper, so a handle closes exactly one wait.
OneWaitPerLiveGeneration ==
  \A s \in sleepers :
    /\ s.channel \in live /\ s.channel < nextGeneration
    /\ \A t \in sleepers : t.channel = s.channel \/ t.id = s.id => t = s

\* expire leaves nothing due behind and returns what it took in deadline
\* order, ties in queue order, each with a deadline that has passed.
ExpireIsExactAndOrdered ==
  ret.op = "expire" =>
    /\ \A s \in sleepers : s.deadline = None \/ s.deadline > now
    /\ \A i \in 1..Len(ret.woken) :
         /\ ret.woken[i].deadline \in 0..now
         /\ i < Len(ret.woken) =>
              \/ ret.woken[i].deadline < ret.woken[i + 1].deadline
              \/ /\ ret.woken[i].deadline = ret.woken[i + 1].deadline
                 /\ ret.woken[i].id < ret.woken[i + 1].id

\* A handle the host holds names the wait it was opened for or none: it is kept
\* while the process is retired or the deadline has passed, and no later wait,
\* of any process, is minted under it (invariant 1 of the module docs, and
\* ChannelInfo.waitHandle: "never reused, so a timer armed before an exec
\* cannot complete a request issued after it").
HandlesNameTheirWait ==
  \A h \in handles, s \in sleepers :
    s.channel = h.channel => s.id = h.id /\ s.deadline = h.deadline

\* A generation identifies one wait: no two sleepers share one, and what the host
\* holds of it, however old, reaches that wait or none.
GenerationsNameOneWait == OneWaitPerLiveGeneration /\ HandlesNameTheirWait

\* `q` lists the `max` oldest of S (all of S when it has no more), oldest first.
OldestOf(S, max, q) ==
  /\ Range(q) \subseteq S
  /\ Len(q) <= max
  /\ \A i, j \in DOMAIN q : i < j => q[i].id < q[j].id
  /\ \A s \in S \ Range(q) : Len(q) = max /\ \A i \in DOMAIN q : q[i].id < s.id

\* A bounded wake and a requeue are fair, for every count and every filter of
\* the caller (FUTEX_WAKE, with its bitset, and FUTEX_REQUEUE): exactly the
\* oldest of those that qualify are chosen, as many as asked for or all there
\* are, so no task is passed over for a younger one and none is left asleep
\* while fewer were woken than asked for.  A requeued sleeper keeps its
\* identity, generation and deadline, and only the chosen ones move.
OldestFirst ==
  [][ /\ ret'.op = "wake_limited" =>
           \A source \in Sources, max \in 0..MaxWake, accept \in SUBSET {s.id : s \in sleepers} :
             WakeLimited(source, max, accept) =>
               /\ OldestOf({s \in sleepers : Matches(s, source) /\ s.id \in accept}, max, ret'.woken)
               /\ sleepers \ sleepers' = Range(ret'.woken)
      /\ ret'.op = "retarget" =>
           \A from, to \in Sources, max \in 0..MaxWake :
             Retarget(from, to, max) =>
               /\ OldestOf({s \in sleepers : Matches(s, from)}, max, ret'.woken)
               /\ \A s \in sleepers : \E t \in sleepers' :
                    /\ s.id = t.id /\ s.channel = t.channel /\ s.deadline = t.deadline
                    /\ from # to => (s \in Range(ret'.woken) <=> Matches(s, from) /\ ~Matches(t, from))
    ]_vars

\* The inductive invariant.
QueueInv ==
  /\ TypeOK
  /\ nextWaiter >= 1 /\ nextGeneration >= 1
  /\ HeapCoversSleepers
  /\ StaleEntriesNameNobody
  /\ OneWaitPerLiveGeneration
  /\ HandlesNameTheirWait
  /\ \A s \in sleepers : s.id < nextWaiter
  /\ \A h \in handles : h.channel < nextGeneration
=============================================================================
