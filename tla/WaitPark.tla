------------------------------ MODULE WaitPark ------------------------------
(***************************************************************************)
(* Waits the kernel owns (crates/runtime-core/src/wait_park.rs): a blocking *)
(* system call parks its task inside the kernel, the kernel decides the    *)
(* result, and the host (host/src/kernel-worker.ts) collects the decisions *)
(* and publishes each into the channel whose request it answers.           *)
(*                                                                         *)
(* The kernel and the host run on one thread, one entry at a time.  An     *)
(* entry is a sequence of steps here, driven by ctl.pc: a system call (or  *)
(* the deadline timer), then the passes of kernel_drain_wakeup_events and  *)
(* kernel_drain_wait_completions in their order, then the publication of   *)
(* the records, which re-enters those passes.  Guests run between entries. *)
(*                                                                         *)
(* A park's WaiterId and its channel generation are minted together, so    *)
(* one number `gen` stands for both; that the queue's lazy heap loses no   *)
(* deadline is WaitQueue's result and is used here.                        *)
(***************************************************************************)
EXTENDS Integers, FiniteSets, SequencesExt

CONSTANTS
  Pids,        \* processes; a process's main thread has its pid as tid
  Tasks,       \* all threads: Pids is a subset
  PidOf,       \* [Tasks -> Pids]
  Parent,      \* [Pids -> Nat], 0 for a process nobody waits for
  Sig,         \* the caught signals; every other signal is discarded
  SigChld, SigPipe,  \* their numbers, in Sig when caught
  Sharing,     \* processes with a shared mapping (no direct publication)
  NoCldWait,   \* processes that discard their zombies
  Calls,       \* [Tasks -> SUBSET STRING], the system calls each thread makes
  Masks,       \* signal masks and sets the guests use
  Spans,       \* relative timeouts, in clock units
  MaxNow,      \* bound: the clock stops here
  MaxGen,      \* bound: no park after this many
  MaxRecords,  \* records one kernel_drain_wait_completions call returns
  Millisecond, \* clock units in the unit of the host's timers
  MaxDelay,    \* the longest host timer (2^31 - 1 ms)
  PipeCap,     \* capacity of the pipe
  EndsOf       \* [Pids -> SUBSET {"read", "write"}], the pipe ends held at start

None == -1     \* no deadline, no timer
NoTask == 0

ASSUME TaskAssumption ==
  /\ IsFiniteSet(Tasks) /\ Tasks \subseteq Nat \ {NoTask} /\ Pids \subseteq Tasks
  /\ PidOf \in [Tasks -> Pids] /\ \A p \in Pids : PidOf[p] = p
  /\ Parent \in [Pids -> Nat]
ASSUME SignalAssumption == Sig \subseteq Nat /\ Masks \subseteq SUBSET Sig
ASSUME BoundAssumption ==
  /\ Spans \subseteq Nat /\ MaxNow \in Nat /\ MaxGen \in Nat /\ MaxDelay \in Nat
  /\ MaxRecords \in Nat \ {0} /\ PipeCap \in Nat \ {0} /\ Millisecond \in Nat \ {0}

VARIABLES
  guest,       \* what each thread is doing: in its own code, in a call that is
               \* being served, asleep in one, about to undo a mask wait, gone
  waitGen,     \* the host's channel.kernelWaitGeneration, 0 for undefined
  shared, directed, blocked,   \* pending and blocked signals
  saved,       \* the mask-wait contexts of each thread, innermost last
  parks,       \* the sleeping tasks: queue and resume of Parks
  completions, \* decided, not yet drained
  released,    \* released_retry_bindings
  dirty,       \* what the next settle has to look at
  nextGen,
  pins,        \* <<task, pipe end>>: blocked-retry bindings pinning the end
  proc,        \* process states
  pipe,        \* the one pipe (or socket buffer): fill, and who holds its ends
  now,
  fresh,       \* records collected by the current settle
  batch,       \* records still to be published, nested settles in front
  effects,     \* how each task answered in this entry goes on when it ends;
               \* kept while its process is stopped
  delivered,   \* the tasks whose channel holds a signal record (CH_SIG_SIGNUM)
               \* the guest has not read yet
  cancels,     \* pendingCancels
  timerDue,    \* kernelWaitDueAt of the one host timer, None when unarmed
  ctl          \* where the current entry is

taskVars == <<guest, waitGen>>
sigVars == <<shared, directed, blocked, saved>>
parkVars == <<parks, completions, released>>
worldVars == <<nextGen, pins, proc, pipe, now>>
hostVars == <<fresh, batch, effects, delivered, cancels, timerDue>>
vars == <<taskVars, sigVars, parkVars, dirty, worldVars, hostVars, ctl>>

Ends == {"read", "write"}
Kinds == {"futex", "sleep", "child", "suspend", "sigtimed"} \cup Ends
Values == {"ok", "EINTR", "ETIMEDOUT", "EAGAIN", "ECHILD", "EPIPE", "EFAULT"}

Park == [gen : Nat, task : Tasks, kind : Kinds, deadline : Nat \cup {None},
         set : SUBSET Sig, rem : BOOLEAN, point : BOOLEAN]
Record == [gen : Nat, task : Tasks, kind : Kinds, value : Values,
           flag : {"none", "published", "cancelled"}, rem : BOOLEAN]

\* In `batch`: the arming of the timer that ends each settle.
ArmMark == [gen |-> 0, task |-> NoTask]

TypeOK ==
  /\ guest \in [Tasks -> {"user", "call", "blocked", "finish", "gone"}]
  /\ waitGen \in [Tasks -> Nat]
  /\ shared \in [Pids -> SUBSET Sig]
  /\ directed \in [Tasks -> SUBSET Sig]
  /\ blocked \in [Tasks -> SUBSET Sig]
  /\ DOMAIN saved = Tasks
  /\ parks \subseteq Park
  /\ Range(completions) \cup Range(fresh) \subseteq Record
  /\ released \subseteq Tasks
  /\ dirty \in [signals : BOOLEAN, pids : SUBSET Pids, children : BOOLEAN,
                notices : SUBSET Pids, pipe : BOOLEAN, continued : SUBSET Pids]
  /\ nextGen \in Nat
  /\ pins \subseteq Tasks \X Ends
  /\ proc \in [Pids -> {"running", "stopped", "exited", "reaped"}]
  /\ pipe \in [fill : 0..PipeCap, read : SUBSET Pids, write : SUBSET Pids]
  /\ now \in 0..MaxNow
  /\ Range(batch) \subseteq Record \cup {ArmMark}
  /\ effects \in [Tasks -> {"none", "user", "suspend", "finish"}]
  /\ delivered \subseteq Tasks /\ cancels \subseteq Tasks
  /\ timerDue \in Nat \cup {None}

Idle == [pc |-> "idle", pass |-> "events", caller |-> NoTask, target |-> NoTask, at |-> 0]

Init ==
  /\ guest = [t \in Tasks |-> "user"]
  /\ waitGen = [t \in Tasks |-> 0]
  /\ shared = [p \in Pids |-> {}]
  /\ directed = [t \in Tasks |-> {}]
  /\ blocked = [t \in Tasks |-> {}]
  /\ saved = [t \in Tasks |-> <<>>]
  /\ parks = {} /\ completions = <<>> /\ released = {}
  /\ dirty = [signals |-> FALSE, pids |-> {}, children |-> FALSE, notices |-> {},
              pipe |-> FALSE, continued |-> {}]
  /\ nextGen = 1 /\ pins = {}
  /\ proc = [p \in Pids |-> "running"]
  /\ pipe = [fill |-> 0, read |-> {p \in Pids : "read" \in EndsOf[p]},
             write |-> {p \in Pids : "write" \in EndsOf[p]}]
  /\ now = 0
  /\ fresh = <<>> /\ batch = <<>> /\ effects = [t \in Tasks |-> "none"]
  /\ delivered = {} /\ cancels = {} /\ timerDue = None
  /\ ctl = Idle

-----------------------------------------------------------------------------
(* Notes: what a later settle is asked to look at.  The signal and pipe    *)
(* notes are dropped while nothing is parked.                              *)

NoteSignal(d) == [d EXCEPT !.signals = @ \/ parks # {}]
NotePipe(d) == [d EXCEPT !.pipe = @ \/ parks # {}]
\* Mutant: the parent's waiters are not marked.
NoteExitMutant(d, p) == [d EXCEPT !.notices = @ \cup {p}]

NoteExit(d, p) == [d EXCEPT !.notices = @ \cup {p}, !.children = TRUE]

-----------------------------------------------------------------------------
(* Signals *)

Live(t) == guest[t] # "gone"
ThreadsOf(p) == {t \in Tasks : PidOf[t] = p /\ Live(t)}
Lowest(S) == CHOOSE s \in S : \A o \in S : s <= o

\* pick_thread_for_shared_signal: the main thread if it accepts the signal,
\* else the first thread that does; NoTask when all block it.
PickThread(p, s) ==
  LET accepting == {t \in ThreadsOf(p) : s \notin blocked[t]}
  IN CASE ~Live(p) \/ accepting = {} -> NoTask
       [] p \in accepting -> p
       [] OTHER -> Lowest(accepting)

\* signal_targets_task.
SignalTargets(t) ==
  LET p == PidOf[t]
  IN /\ proc[p] # "stopped"
     /\ \/ directed[t] \ blocked[t] # {}
        \/ \E s \in shared[p] \ blocked[t] : PickThread(p, s) = t

\* pending_for and next_deliverable_signal: the shared set counts for every
\* thread, and a stopped process keeps everything.
Pending(t) == directed[t] \cup shared[PidOf[t]]
NextSignal(t) ==
  IF proc[PidOf[t]] = "stopped" \/ Pending(t) \subseteq blocked[t] THEN {}
  ELSE {Lowest(Pending(t) \ blocked[t])}

\* consume_signal_for: the thread's own queue before the shared one.
Consume(t, S) ==
  /\ directed' = [directed EXCEPT ![t] = @ \ S]
  /\ shared' = [shared EXCEPT ![PidOf[t]] = @ \ (S \ directed[t])]

\* Mutant: only an unblocked signal is a note.
MaskNoteMutant(t, mask, d) ==
  IF (blocked[t] \ mask) \cap shared[PidOf[t]] # {} THEN NoteSignal(d) ELSE d

\* set_blocked_for: a changed mask over a pending shared signal is a note.
MaskNote(t, mask, d) ==
  IF ((blocked[t] \ mask) \cup (mask \ blocked[t])) \cap shared[PidOf[t]] # {}
  THEN NoteSignal(d) ELSE d

-----------------------------------------------------------------------------
(* Decisions *)

\* The moves of ctl: the next step of the entry, and the start of a pass.
At(pc) == ctl' = [ctl EXCEPT !.pc = pc]
BeginPass(pass) == ctl' = [ctl EXCEPT !.pc = "announce", !.pass = pass]

ByAge(S) == CHOOSE q \in SetToSeqs(S) : \A i, j \in DOMAIN q : i < j => q[i].gen < q[j].gen
Earlier(a, b) == a.deadline < b.deadline \/ (a.deadline = b.deadline /\ a.gen < b.gen)
ByDeadline(S) == CHOOSE q \in SetToSeqs(S) : \A i, j \in DOMAIN q : i < j => Earlier(q[i], q[j])
Eldest(S) == CHOOSE w \in S : \A o \in S : w.gen <= o.gen
ParksOf(S) == {w \in parks : w.task \in S}

Completion(w, value, flag, rem) ==
  [gen |-> w.gen, task |-> w.task, kind |-> w.kind, value |-> value, flag |-> flag,
   rem |-> rem]

\* deadline_value.
DeadlineValue(w) ==
  CASE w.kind = "sleep" -> "ok"
    [] w.kind = "futex" -> "ETIMEDOUT"
    [] OTHER -> "EAGAIN"

IsTransfer(w) == w.kind \in Ends

\* The tasks whose pins the decision of `ws` lists for release.
Unpinned(ws) == {w.task : w \in {v \in Range(ws) : IsTransfer(v)}}

\* finish_with: the parks `ws` leave the queue, their results `done` are queued.
Finish(ws, done) ==
  /\ parks' = parks \ Range(ws)
  /\ completions' = completions \o done
  /\ released' = released \cup Unpinned(ws)

FinishOne(w, value, flag) == Finish(<<w>>, <<Completion(w, value, flag, FALSE)>>)

\* Parks::park from a blocking call of `t`, and the host's PARKED branch: the
\* channel remembers the generation; a cancellation that came first ends the
\* park at once when the request is a wakeable cancellation point.
ParkTask(t, kind, deadline, set, rem, point, d) ==
  LET w == [gen |-> nextGen, task |-> t, kind |-> kind, deadline |-> deadline,
            set |-> set, rem |-> rem, point |-> point]
  IN /\ nextGen <= MaxGen
     /\ nextGen' = nextGen + 1
     /\ waitGen' = [waitGen EXCEPT ![t] = nextGen]
     /\ guest' = [guest EXCEPT ![t] = "blocked"]
     /\ dirty' = [d EXCEPT !.pids = @ \cup {PidOf[t]}]
     /\ parks' = parks \cup {w}
     /\ ctl' = [ctl EXCEPT !.pc = IF point /\ t \in cancels THEN "cancelnew" ELSE "followup",
                           !.caller = t]
     /\ UNCHANGED <<completions, released, now, hostVars>>

\* The guard of every system call of `t`: its channel is listened to.
Enters(t, call) ==
  /\ call \in Calls[t]
  /\ ctl.pc = "idle"
  /\ guest[t] = "user"
  /\ proc[PidOf[t]] = "running"

\* A call that answers at once: the caller stays in the call until the entry
\* ends; the host dequeues a signal for it next.
Answer(t, pc) ==
  /\ guest' = [guest EXCEPT ![t] = "call"]
  /\ ctl' = [ctl EXCEPT !.pc = pc, !.caller = t]
  /\ UNCHANGED <<waitGen, nextGen, now, hostVars>>

-----------------------------------------------------------------------------
(* Blocking system calls *)

Deadlines == {None} \cup {now + span : span \in Spans}

\* sys_futex FUTEX_WAIT: the word differs or the timeout is no time at all,
\* or the caller parks.
FutexWait(t) ==
  /\ Enters(t, "futex")
  /\ \/ Answer(t, "return") /\ UNCHANGED <<parkVars, dirty>>
     \/ \E deadline \in Deadlines \ {now}, point \in BOOLEAN :
          ParkTask(t, "futex", deadline, {}, FALSE, point, dirty)
  /\ UNCHANGED <<sigVars, pins, proc, pipe>>

\* park_sleep, of a relative sleep with or without a `rem` to fill.
Sleep(t) ==
  /\ Enters(t, "sleep")
  /\ \E deadline \in Deadlines \ {None}, rem \in BOOLEAN :
       IF deadline <= now
       THEN Answer(t, "return") /\ UNCHANGED <<parkVars, dirty>>
       ELSE ParkTask(t, "sleep", deadline, {}, rem, TRUE, dirty)
  /\ UNCHANGED <<sigVars, pins, proc, pipe>>

\* kernel_sigsuspend: install the mask (reusing an open context of the same
\* mask), answer EINTR when it lets a pending signal through, park otherwise.
Suspend(t) ==
  /\ Enters(t, "suspend")
  /\ \E mask \in Masks :
       LET open == saved[t] # <<>> /\ Last(saved[t]).repl = mask /\ blocked[t] = mask
           d == MaskNote(t, mask, dirty)
       IN /\ saved' = [saved EXCEPT ![t] =
                         IF open THEN @ ELSE Append(@, [mask |-> blocked[t], repl |-> mask])]
          /\ blocked' = [blocked EXCEPT ![t] = mask]
          /\ IF Pending(t) \ mask # {}
             THEN Answer(t, "returnsuspend") /\ dirty' = d /\ UNCHANGED parkVars
             ELSE ParkTask(t, "suspend", None, {}, FALSE, TRUE, d)
  /\ UNCHANGED <<shared, directed, pins, proc, pipe>>

\* channel_sigtimedwait: take the lowest pending member of the set, fail on a
\* zero timeout, park otherwise.
SigTimedWait(t) ==
  /\ Enters(t, "sigtimed")
  /\ \E set \in Masks \ {{}}, deadline \in Deadlines :
       LET ready == Pending(t) \cap set
       IN CASE ready # {} -> /\ Consume(t, {Lowest(ready)})
                             /\ Answer(t, "return")
                             /\ UNCHANGED <<parkVars, dirty>>
            [] ready = {} /\ deadline = now -> /\ Answer(t, "return")
                                               /\ UNCHANGED <<shared, directed, parkVars, dirty>>
            [] OTHER -> /\ ParkTask(t, "sigtimed", deadline, set, FALSE, TRUE, dirty)
                        /\ UNCHANGED <<shared, directed>>
  /\ UNCHANGED <<blocked, saved, pins, proc, pipe>>

-----------------------------------------------------------------------------
(* Children *)

\* announce_exit of every queued notice: the exits a live parent is told of
\* with SIGCHLD, and the ones reaped at once because it keeps no zombies.
Told == {p \in dirty.notices : /\ proc[p] = "exited"
                               /\ Parent[p] \in Pids
                               /\ proc[Parent[p]] \in {"running", "stopped"}}
AutoReaped == {p \in Told : Parent[p] \in NoCldWait}
SharedAfterNotices ==
  [q \in Pids |-> IF \E p \in Told : Parent[p] = q THEN shared[q] \cup ({SigChld} \cap Sig)
                  ELSE shared[q]]
ProcAfterNotices == [p \in Pids |-> IF p \in AutoReaped THEN "reaped" ELSE proc[p]]
DirtyAfterNotices ==
  LET d == [dirty EXCEPT !.notices = {}, !.children = @ \/ AutoReaped # {}]
  IN IF Told = {} THEN d ELSE NoteSignal(d)

\* poll_wait_event for the processes `pr`: the child reported, NoTask when
\* none has exited, None when there is no child at all.
PollChild(parent, pr) ==
  LET children == {q \in Pids : Parent[q] = parent /\ pr[q] # "reaped"}
      exited == {q \in children : pr[q] = "exited"}
  IN CASE children = {} -> None
       [] exited # {} -> Lowest(exited)
       [] OTHER -> NoTask

\* channel_wait_child: announce, poll, reap what is reported; park unless WNOHANG.
WaitChild(t) ==
  /\ Enters(t, "child")
  /\ shared' = SharedAfterNotices
  /\ LET child == PollChild(PidOf[t], ProcAfterNotices)
     IN \/ /\ child \in Pids
           /\ proc' = [ProcAfterNotices EXCEPT ![child] = "reaped"]
           /\ dirty' = [DirtyAfterNotices EXCEPT !.children = TRUE]
           /\ Answer(t, "return") /\ UNCHANGED parkVars
        \/ /\ child \notin Pids
           /\ proc' = ProcAfterNotices /\ dirty' = DirtyAfterNotices
           /\ Answer(t, "return") /\ UNCHANGED parkVars
        \/ /\ child = NoTask
           /\ proc' = ProcAfterNotices
           /\ ParkTask(t, "child", None, {}, FALSE, TRUE, DirtyAfterNotices)
  /\ UNCHANGED <<directed, blocked, saved, pins, pipe>>

-----------------------------------------------------------------------------
(* Transfers on the pipe, one unit at a time *)

\* A process holds an end while it has it open or a blocked transfer pins it.
Holders(end, pi, ps) == pi[end] \cup {PidOf[x[1]] : x \in {y \in ps : y[2] = end}}
Open(end, pi, ps) == Holders(end, pi, ps) # {}

\* Mutant: a write does not look at the room left.
AttemptedMutant(end) ==
  CASE end = "read" /\ (pipe.fill > 0 \/ ~Open("write", pipe, pins)) -> "ok"
    [] end = "write" /\ ~Open("read", pipe, pins) -> "EPIPE"
    [] end = "write" /\ Open("read", pipe, pins) -> "ok"
    [] OTHER -> "block"

Attempted(end) ==
  CASE end = "read" /\ (pipe.fill > 0 \/ ~Open("write", pipe, pins)) -> "ok"
    [] end = "write" /\ ~Open("read", pipe, pins) -> "EPIPE"
    [] end = "write" /\ Open("read", pipe, pins) /\ pipe.fill < PipeCap -> "ok"
    [] OTHER -> "block"

\* What an attempt that does not block does.  A write without readers raises
\* SIGPIPE into the process's own pending set, not through
\* prepare_signal_generation: no note.
Transferred(p, end, value) ==
  LET fill == IF value # "ok" THEN pipe.fill
              ELSE IF end = "write" THEN pipe.fill + 1
              ELSE IF pipe.fill > 0 THEN pipe.fill - 1 ELSE 0
  IN /\ pipe' = [pipe EXCEPT !.fill = fill]
     /\ dirty' = IF fill # pipe.fill THEN NotePipe(dirty) ELSE dirty
     /\ shared' = [shared EXCEPT ![p] = IF value = "EPIPE" THEN @ \cup ({SigPipe} \cap Sig)
                                        ELSE @]

\* read / write, and park_blocked_transfer: a descriptor that may not block
\* answers EAGAIN, a main thread parks (a pthread's blocking transfer stays with
\* the host's own retries).
Transfer(t, end) ==
  /\ Enters(t, "transfer")
  /\ PidOf[t] \in pipe[end]
  /\ \/ /\ Attempted(end) # "block"
        /\ Transferred(PidOf[t], end, Attempted(end))
        /\ Answer(t, "return")
        /\ UNCHANGED <<parkVars, pins>>
     \/ /\ Attempted(end) = "block"
        /\ Answer(t, "return")
        /\ UNCHANGED <<shared, parkVars, dirty, pins, pipe>>
     \/ /\ Attempted(end) = "block" /\ t \in Pids
        /\ \E deadline \in Deadlines \ {now} :
             ParkTask(t, end, deadline, {}, FALSE, TRUE, dirty)
        /\ pins' = pins \cup {<<t, end>>}
        /\ UNCHANGED <<shared, pipe>>
  /\ UNCHANGED <<directed, blocked, saved, proc>>

\* Mutant: closing an end tells nobody.
CloseEndsMutant(pi, ps, d) == pipe' = pi /\ pins' = ps /\ dirty' = d

\* Ends given up: each reference dropped is a readiness change for the other
\* side, and what nobody can read any more is discarded.
CloseEnds(pi, ps, d) ==
  /\ pipe' = IF Open("read", pi, ps) THEN pi ELSE [pi EXCEPT !.fill = 0]
  /\ pins' = ps
  /\ dirty' = IF \E end \in Ends : Holders(end, pi, ps) # Holders(end, pipe, pins)
              THEN NotePipe(d) ELSE d

Close(t, end) ==
  /\ Enters(t, "close")
  /\ PidOf[t] \in pipe[end]
  /\ CloseEnds([pipe EXCEPT ![end] = @ \ {PidOf[t]}], pins, dirty)
  /\ Answer(t, "return")
  /\ UNCHANGED <<sigVars, parkVars, proc>>

-----------------------------------------------------------------------------
(* The other system calls *)

\* Parks::futex_wake, oldest first.
Woken(p, n) ==
  LET ws == ByAge({w \in parks : w.kind = "futex" /\ PidOf[w.task] = p})
  IN SubSeq(ws, 1, IF n < Len(ws) THEN n ELSE Len(ws))
FutexWoken(ws) == Finish(ws, [i \in DOMAIN ws |-> Completion(ws[i], "ok", "none", FALSE)])

FutexWake(t) ==
  /\ Enters(t, "wake")
  /\ \E n \in {1, Cardinality(Tasks)} : FutexWoken(Woken(PidOf[t], n))
  /\ Answer(t, "return")
  /\ UNCHANGED <<sigVars, dirty, pins, proc, pipe>>

\* kill and tkill: a generation of a caught signal.
Kill(t, p, s) ==
  /\ Enters(t, "kill")
  /\ Live(p)
  /\ shared' = [shared EXCEPT ![p] = @ \cup {s}]
  /\ dirty' = NoteSignal(dirty)
  /\ Answer(t, "return")
  /\ UNCHANGED <<directed, blocked, saved, parkVars, pins, proc, pipe>>

Tkill(t, u, s) ==
  /\ Enters(t, "tkill")
  /\ Live(u)
  /\ directed' = [directed EXCEPT ![u] = @ \cup {s}]
  /\ dirty' = NoteSignal(dirty)
  /\ Answer(t, "return")
  /\ UNCHANGED <<shared, blocked, saved, parkVars, pins, proc, pipe>>

SigProcMask(t) ==
  /\ Enters(t, "mask")
  /\ \E mask \in Masks \ {blocked[t]} :
       /\ blocked' = [blocked EXCEPT ![t] = mask]
       /\ dirty' = MaskNote(t, mask, dirty)
  /\ Answer(t, "return")
  /\ UNCHANGED <<shared, directed, saved, parkVars, pins, proc, pipe>>

\* cancel_signal_mask_wait_for: the innermost saved mask comes back.
RestoreMask(t) ==
  LET mask == IF saved[t] = <<>> THEN blocked[t] ELSE Last(saved[t]).mask
  IN /\ saved' = [saved EXCEPT ![t] = IF @ = <<>> THEN @ ELSE Front(@)]
     /\ blocked' = [blocked EXCEPT ![t] = mask]
     /\ dirty' = MaskNote(t, mask, dirty)
     /\ UNCHANGED <<shared, directed>>

\* The libc glue after a handler interrupted a mask wait: SYS_THREAD_CANCEL of
\* oneself.
FinishMaskWait(t) ==
  /\ ctl.pc = "idle" /\ guest[t] = "finish" /\ proc[PidOf[t]] = "running"
  /\ RestoreMask(t)
  /\ Answer(t, "return")
  /\ UNCHANGED <<parkVars, pins, proc, pipe>>

\* kill with a stop signal or SIGCONT (the parent has SA_NOCLDSTOP and waits
\* for exits only).
Stop(t, p) ==
  /\ Enters(t, "stop")
  /\ proc[p] = "running"
  /\ proc' = [proc EXCEPT ![p] = "stopped"]
  /\ dirty' = [NoteSignal(dirty) EXCEPT !.children = TRUE]
  /\ Answer(t, "return")
  /\ UNCHANGED <<sigVars, parkVars, pins, pipe>>

Continue(t, p) ==
  /\ Enters(t, "stop")
  /\ proc[p] = "stopped"
  /\ proc' = [proc EXCEPT ![p] = "running"]
  /\ dirty' = [NoteSignal(dirty) EXCEPT !.children = TRUE, !.continued = @ \cup {p}]
  /\ Answer(t, "return")
  /\ UNCHANGED <<sigVars, parkVars, pins, pipe>>

\* What the end of the tasks `ts` takes from every part: retire_task or
\* retire_process in the kernel, the channels in the host.  `g` is what the
\* other guests do next.
Retire(ts, g) ==
  /\ guest' = [t \in Tasks |-> IF t \in ts THEN "gone" ELSE g[t]]
  /\ waitGen' = [t \in Tasks |-> IF t \in ts THEN 0 ELSE waitGen[t]]
  /\ effects' = [t \in Tasks |-> IF t \in ts THEN "none" ELSE effects[t]]
  /\ directed' = [t \in Tasks |-> IF t \in ts THEN {} ELSE directed[t]]
  /\ blocked' = [t \in Tasks |-> IF t \in ts THEN {} ELSE blocked[t]]
  /\ saved' = [t \in Tasks |-> IF t \in ts THEN <<>> ELSE saved[t]]
  /\ delivered' = delivered \ ts /\ cancels' = cancels \ ts
  /\ UNCHANGED <<nextGen, now, fresh, batch, timerDue>>

\* kernel_thread_exit: a pthread ends; clear_child_tid wakes one waiter.
ThreadExit(t) ==
  /\ Enters(t, "thread_exit") /\ t \notin Pids
  /\ Retire({t}, guest)
  /\ FutexWoken(Woken(PidOf[t], 1))
  /\ dirty' = IF shared[PidOf[t]] # {} THEN NoteSignal(dirty) ELSE dirty
  /\ BeginPass("events")
  /\ UNCHANGED <<shared, pins, proc, pipe>>

\* Mutant: the parks of the image stay.
RetireProcessMutant(p) == UNCHANGED parkVars

\* The entries of `q` at the places `keep`, in their order.
Restricted(q, keep) ==
  [i \in 1..Cardinality(keep) |->
     q[CHOOSE k \in keep : Cardinality({j \in keep : j <= k}) = i]]

\* The parks, queued decisions and releases of a process image that is gone.
RetireProcess(p) ==
  /\ parks' = {w \in parks : PidOf[w.task] # p}
  /\ completions' =
       Restricted(completions, {i \in DOMAIN completions : PidOf[completions[i].task] # p})
  /\ released' = {t \in released : PidOf[t] # p}

\* record_normal_exit and record_signal_exit, after the descriptors are closed.
Exited(p) ==
  /\ proc' = [proc EXCEPT ![p] = "exited"]
  /\ RetireProcess(p)
  /\ CloseEnds([pipe EXCEPT !.read = @ \ {p}, !.write = @ \ {p}],
               {x \in pins : PidOf[x[1]] # p}, NoteExit(dirty, p))
  /\ shared' = [shared EXCEPT ![p] = {}]

Exit(t) ==
  /\ Enters(t, "exit")
  /\ Exited(PidOf[t])
  /\ Retire(ThreadsOf(PidOf[t]), guest)
  /\ BeginPass("events")

\* kill with a signal whose default action terminates another process.
Terminate(t, p) ==
  /\ Enters(t, "terminate")
  /\ PidOf[t] # p /\ proc[p] \in {"running", "stopped"}
  /\ Exited(p)
  /\ Retire(ThreadsOf(p), [guest EXCEPT ![t] = "call"])
  /\ ctl' = [ctl EXCEPT !.pc = "return", !.caller = t]

\* handleThreadCancel of a sibling: the caller's call is completed first, with
\* the drain that follows every completion, then the target is looked at.
Cancel(t, u) ==
  /\ Enters(t, "cancel")
  /\ t # u /\ PidOf[t] = PidOf[u] /\ Live(u)
  /\ guest' = [guest EXCEPT ![t] = "call"]
  /\ effects' = [effects EXCEPT ![t] = "user"]
  /\ ctl' = [ctl EXCEPT !.pc = "announce", !.pass = "events", !.caller = t, !.target = u]
  /\ UNCHANGED <<waitGen, sigVars, parkVars, dirty, worldVars, fresh, batch, delivered, cancels, timerDue>>

\* cancel_host_owned_wait_for_live_tid: the mask comes back, the park ends.
CancelLiveTask(u) ==
  /\ RestoreMask(u)
  /\ IF ParksOf({u}) = {} THEN UNCHANGED parkVars
     ELSE FinishOne(Eldest(ParksOf({u})), "EINTR", "cancelled")

\* The rest of the PARKED branch when the cancellation came first.
CancelNewPark ==
  /\ ctl.pc = "cancelnew"
  /\ CancelLiveTask(ctl.caller)
  /\ At("followup")
  /\ UNCHANGED <<taskVars, worldVars, hostVars>>

\* Mutant: the target's call is completed by the host, its park left alone.
CancelTargetMutant ==
  /\ ctl.pc = "publish" /\ batch = <<>> /\ ctl.target # NoTask
  /\ effects' = IF \E w \in ParksOf({ctl.target}) : w.point
                THEN [effects EXCEPT ![ctl.target] = "user"] ELSE effects
  /\ cancels' = cancels \cup {ctl.target}
  /\ ctl' = [ctl EXCEPT !.target = NoTask]
  /\ UNCHANGED <<taskVars, sigVars, parkVars, dirty, worldVars, fresh, batch, delivered, timerDue>>

\* The rest of handleThreadCancel; only a wakeable cancellation point ends.
CancelTarget ==
  /\ ctl.pc = "publish" /\ batch = <<>> /\ ctl.target # NoTask
  /\ cancels' = cancels \cup {ctl.target}
  /\ IF \E w \in ParksOf({ctl.target}) : w.point
     THEN CancelLiveTask(ctl.target)
     ELSE UNCHANGED <<sigVars, parkVars, dirty>>
  /\ ctl' = [ctl EXCEPT !.target = NoTask, !.pass = "events",
                        !.pc = IF waitGen[ctl.target] # 0 THEN "announce" ELSE "publish"]
  /\ UNCHANGED <<taskVars, worldVars, fresh, batch, effects, delivered, timerDue>>

-----------------------------------------------------------------------------
(* The steps of an entry: the caller's answer *)

\* dequeueSignalForDelivery: `t` takes its next signal into its channel, unless
\* a resume has left a record there that the guest has not read yet.  A mask
\* wait that delivers a signal is left through the glue's post-handler cleanup.
\* The handler's own run (its mask on entry, restored on return) is part of the
\* delivery.
Dequeue(t, how) ==
  LET taken == IF t \in delivered THEN {} ELSE NextSignal(t)
  IN /\ Consume(t, taken)
     /\ delivered' = IF taken = {} THEN delivered ELSE delivered \cup {t}
     /\ effects' = [effects EXCEPT ![t] =
                      IF how = "suspend" /\ t \in delivered' THEN "finish" ELSE how]
     /\ UNCHANGED <<blocked, saved>>

\* completeChannel: dequeue, drain the wake events, publish when the entry ends.
Return ==
  /\ ctl.pc \in {"return", "returnsuspend"}
  /\ Dequeue(ctl.caller, IF ctl.pc = "return" THEN "user" ELSE "suspend")
  /\ BeginPass("events")
  /\ UNCHANGED <<taskVars, parkVars, dirty, worldVars, fresh, batch, cancels, timerDue>>

-----------------------------------------------------------------------------
(* The passes of kernel_drain_wakeup_events and kernel_drain_wait_completions *)

\* announce_exits.
AnnounceExits ==
  /\ ctl.pc = "announce"
  /\ shared' = SharedAfterNotices
  /\ proc' = ProcAfterNotices
  /\ dirty' = DirtyAfterNotices
  /\ At("child")
  /\ UNCHANGED <<taskVars, directed, blocked, saved, parkVars, nextGen, pins, pipe, now, hostVars>>

\* settle_child_waits: a round over the waiters, again while children changed.
ChildRound ==
  /\ ctl.pc = "child"
  /\ dirty' = [dirty EXCEPT !.children = FALSE]
  /\ ctl' = [ctl EXCEPT !.at = 0, !.pc = IF dirty.children THEN "children" ELSE "signal"]
  /\ UNCHANGED <<taskVars, sigVars, parkVars, worldVars, hostVars>>

ChildWaiters == {w \in parks : w.kind = "child" /\ w.gen > ctl.at}

SettleChildWait ==
  /\ ctl.pc = "children" /\ ChildWaiters # {}
  /\ LET w == Eldest(ChildWaiters)
         child == PollChild(PidOf[w.task], proc)
     IN /\ ctl' = [ctl EXCEPT !.at = w.gen]
        /\ CASE child \in Pids -> /\ proc' = [proc EXCEPT ![child] = "reaped"]
                                  /\ dirty' = [dirty EXCEPT !.children = TRUE]
                                  /\ FinishOne(w, "ok", "none")
             [] child = None -> /\ FinishOne(w, "ECHILD", "none")
                                /\ UNCHANGED <<proc, dirty>>
             [] OTHER -> UNCHANGED <<proc, dirty, parkVars>>
  /\ UNCHANGED <<taskVars, sigVars, nextGen, pins, pipe, now, hostVars>>

ChildRoundEnds ==
  /\ ctl.pc = "children" /\ ChildWaiters = {}
  /\ At("child")
  /\ UNCHANGED <<taskVars, sigVars, parkVars, dirty, worldVars, hostVars>>

\* Mutant: only signals the waiter does not block are offered.
SignalWaitersMutant ==
  {w \in parks : dirty.signals /\ w.kind = "sigtimed"
                 /\ (Pending(w.task) \cap w.set) \ blocked[w.task] # {}}

\* settle_signal_waits: after a generation, the signals in each set.
SignalWaiters ==
  {w \in parks : dirty.signals /\ w.kind = "sigtimed" /\ Pending(w.task) \cap w.set # {}}

SettleSignalWait ==
  /\ ctl.pc = "signal" /\ SignalWaiters # {}
  /\ LET w == Eldest(SignalWaiters)
     IN /\ Consume(w.task, {Lowest(Pending(w.task) \cap w.set)})
        /\ FinishOne(w, "ok", "none")
  /\ UNCHANGED <<taskVars, blocked, saved, dirty, worldVars, hostVars, ctl>>

SignalWaitsEnd ==
  /\ ctl.pc = "signal" /\ SignalWaiters = {}
  /\ At("retry")
  /\ UNCHANGED <<taskVars, sigVars, parkVars, dirty, worldVars, hostVars>>

\* settle_retry_waits: rounds of re-execution until the pipe stays quiet.
RetryRound ==
  /\ ctl.pc = "retry"
  /\ dirty' = [dirty EXCEPT !.pipe = FALSE]
  /\ ctl' = [ctl EXCEPT !.at = 0, !.pc = IF dirty.pipe THEN "retrying"
                                         ELSE IF ctl.pass = "drain" THEN "expire" ELSE "sweep"]
  /\ UNCHANGED <<taskVars, sigVars, parkVars, worldVars, hostVars>>

RetryWaiters == {w \in parks : IsTransfer(w) /\ w.gen > ctl.at}

\* publish_transfer_directly.
PublishedDirectly(w, value) ==
  /\ value = "ok"
  /\ proc[PidOf[w.task]] = "running"
  /\ ~SignalTargets(w.task)
  /\ PidOf[w.task] \notin Sharing

SettleRetryWait ==
  /\ ctl.pc = "retrying" /\ RetryWaiters # {}
  /\ LET w == Eldest(RetryWaiters)
         value == Attempted(w.kind)
         direct == PublishedDirectly(w, value)
     IN /\ ctl' = [ctl EXCEPT !.at = w.gen]
        /\ IF value = "block" THEN UNCHANGED <<guest, shared, pipe, dirty, parkVars>>
           ELSE /\ Transferred(PidOf[w.task], w.kind, value)
                /\ FinishOne(w, value, IF direct THEN "published" ELSE "none")
                /\ guest' = IF direct THEN [guest EXCEPT ![w.task] = "user"] ELSE guest
        /\ delivered' = IF value # "block" /\ direct THEN delivered \ {w.task} ELSE delivered
  /\ UNCHANGED <<waitGen, directed, blocked, saved, nextGen, pins, proc, now, fresh, batch,
                 effects, cancels, timerDue>>

RetryRoundEnds ==
  /\ ctl.pc = "retrying" /\ RetryWaiters = {}
  /\ At("retry")
  /\ UNCHANGED <<taskVars, sigVars, parkVars, dirty, worldVars, hostVars>>

\* Mutant: expires what the next tick would.
ExpireMutant ==
  /\ ctl.pc = "expire"
  /\ LET ws == ByDeadline({w \in parks : w.deadline # None /\ w.deadline <= now + 1})
     IN Finish(ws, [i \in DOMAIN ws |-> Completion(ws[i], DeadlineValue(ws[i]), "none", FALSE)])
  /\ At("sweep")
  /\ UNCHANGED <<taskVars, sigVars, dirty, worldVars, hostVars>>

\* Parks::expire.
Expire ==
  /\ ctl.pc = "expire"
  /\ LET ws == ByDeadline({w \in parks : w.deadline # None /\ w.deadline <= now})
     IN Finish(ws, [i \in DOMAIN ws |-> Completion(ws[i], DeadlineValue(ws[i]), "none", FALSE)])
  /\ At("sweep")
  /\ UNCHANGED <<taskVars, sigVars, dirty, worldVars, hostVars>>

\* Mutant: a signal ends every wait as a wake would.
SweptMutant ==
  LET scope == {w \in parks : dirty.signals \/ PidOf[w.task] \in dirty.pids}
      ws == ByAge({w \in scope : Live(w.task) /\ SignalTargets(w.task)})
  IN /\ parks' = parks \ (Range(ws) \cup {w \in scope : ~Live(w.task)})
     /\ completions' = completions \o
          [i \in DOMAIN ws |-> Completion(ws[i], "ok", "none", FALSE)]
     /\ released' = released \cup Unpinned(ws)
     /\ dirty' = [dirty EXCEPT !.signals = FALSE, !.pids = {}]

\* sweep_signals: every park after a generation, those of a process that just
\* parked otherwise.
Swept ==
  LET scope == {w \in parks : dirty.signals \/ PidOf[w.task] \in dirty.pids}
      ws == ByAge({w \in scope : Live(w.task) /\ SignalTargets(w.task)})
  IN /\ parks' = parks \ (Range(ws) \cup {w \in scope : ~Live(w.task)})
     /\ completions' = completions \o
          [i \in DOMAIN ws |-> Completion(ws[i], "EINTR", "none", ws[i].rem)]
     /\ released' = released \cup Unpinned(ws)
     /\ dirty' = [dirty EXCEPT !.signals = FALSE, !.pids = {}]

Sweep ==
  /\ ctl.pc = "sweep"
  /\ Swept
  /\ At(IF ctl.pass = "drain" THEN "out" ELSE "lifecycle")
  /\ UNCHANGED <<taskVars, sigVars, worldVars, hostVars>>

\* The lifecycle events, before any completion is collected: a continued
\* process is resumed thread by thread (resumeStoppedProcess).  Threads the
\* kernel holds parked are left to its sweep.
Resumable == {t \in Tasks : /\ PidOf[t] \in dirty.continued /\ Live(t)
                            /\ waitGen[t] = 0 /\ t > ctl.at}

Resume ==
  /\ ctl.pc = "lifecycle" /\ Resumable # {}
  /\ LET t == Lowest(Resumable)
     IN Dequeue(t, effects[t]) /\ ctl' = [ctl EXCEPT !.at = t]
  /\ UNCHANGED <<taskVars, parkVars, dirty, worldVars, fresh, batch, cancels, timerDue>>

\* Mutant: the WAIT_COMPLETE event is missed.
LifecycleEndsMutant ==
  /\ ctl.pc = "lifecycle" /\ Resumable = {}
  /\ dirty' = [dirty EXCEPT !.continued = {}]
  /\ At("publish")
  /\ UNCHANGED <<taskVars, sigVars, parkVars, worldVars, hostVars>>

\* A handled lifecycle event drains again; a WAIT_COMPLETE event settles.
LifecycleEnds ==
  /\ ctl.pc = "lifecycle" /\ Resumable = {}
  /\ dirty' = [dirty EXCEPT !.continued = {}]
  /\ IF dirty.continued # {} THEN BeginPass("events")
     ELSE IF completions # <<>> THEN BeginPass("drain") ELSE At("publish")
  /\ UNCHANGED <<taskVars, sigVars, parkVars, worldVars, hostVars>>

\* Parks::drain, then release_completed_retry_bindings.  A `rem` that cannot be
\* written turns the result into EFAULT.  A full page of records is followed by
\* another call; the pages of a settle go before what was being published.
CollectRecords ==
  /\ ctl.pc = "out"
  /\ LET count == IF Len(completions) < MaxRecords THEN Len(completions) ELSE MaxRecords
         page == SubSeq(completions, 1, count)
     IN \E bad \in SUBSET {i \in 1..count : page[i].rem} :
          LET records == fresh \o [i \in 1..count |->
                           [page[i] EXCEPT !.value = IF i \in bad THEN "EFAULT" ELSE @,
                                           !.rem = FALSE]]
          IN /\ completions' = SubSeq(completions, count + 1, Len(completions))
             /\ IF count = MaxRecords
                THEN BeginPass("drain") /\ fresh' = records /\ batch' = batch
                ELSE At("publish") /\ fresh' = <<>> /\ batch' = records \o <<ArmMark>> \o batch
  /\ CloseEnds(pipe, {x \in pins : x[1] \notin released}, dirty)
  /\ released' = {}
  /\ UNCHANGED <<taskVars, sigVars, parks, nextGen, proc, now, effects, delivered, cancels, timerDue>>

-----------------------------------------------------------------------------
(* Publication by the host *)

\* Mutant: an armed timer is kept, however late.
ArmTimerMutant ==
  LET timed == {w.deadline : w \in {v \in parks : v.deadline # None}}
  IN timerDue' = IF timed = {} \/ timerDue # None THEN timerDue
                 ELSE IF Lowest(timed) > now THEN Lowest(timed) ELSE now

\* armKernelWaitTimer(kernel_wait_next_timeout_ns): the host's timers count in
\* milliseconds, so what is left is rounded up, and no timer is longer than
\* MaxDelay of them; an earlier timer stays.
ArmTimer ==
  LET timed == {w.deadline : w \in {v \in parks : v.deadline # None}}
      wait == IF Lowest(timed) > now THEN Lowest(timed) - now ELSE 0
      delay == (wait + Millisecond - 1) \div Millisecond
      due == now + Millisecond * (IF delay < MaxDelay THEN delay ELSE MaxDelay)
  IN timerDue' = IF timed = {} \/ (timerDue # None /\ timerDue <= due) THEN timerDue ELSE due

\* kernel_wait_park_followup, right after a park: the sweep, then either the
\* collection of what is decided or just the timer.
Followup ==
  /\ ctl.pc = "followup"
  /\ Swept
  /\ IF completions' # <<>> THEN BeginPass("drain") /\ UNCHANGED timerDue
     ELSE At("publish") /\ ArmTimer
  /\ UNCHANGED <<taskVars, sigVars, worldVars, fresh, batch, effects, delivered, cancels>>

\* The record names the generation its channel still waits for.
Current(r) == Live(r.task) /\ waitGen[r.task] = r.gen

\* Mutant: a settle does not arm the timer again.
PublishArmMutant ==
  /\ ctl.pc = "publish" /\ batch # <<>> /\ Head(batch) = ArmMark
  /\ batch' = Tail(batch)
  /\ UNCHANGED <<taskVars, sigVars, parkVars, dirty, worldVars, fresh, effects, delivered, cancels, timerDue, ctl>>

PublishArm ==
  /\ ctl.pc = "publish" /\ batch # <<>> /\ Head(batch) = ArmMark
  /\ ArmTimer
  /\ batch' = Tail(batch)
  /\ UNCHANGED <<taskVars, sigVars, parkVars, dirty, worldVars, fresh, effects, delivered, cancels, ctl>>

\* A stale record is dropped; one the kernel already published only retires
\* the wait.
PublishNothing ==
  /\ ctl.pc = "publish" /\ batch # <<>> /\ Head(batch) # ArmMark
  /\ LET r == Head(batch)
     IN /\ ~Current(r) \/ r.flag = "published"
        /\ waitGen' = IF Current(r) THEN [waitGen EXCEPT ![r.task] = 0] ELSE waitGen
  /\ batch' = Tail(batch)
  /\ UNCHANGED <<guest, sigVars, parkVars, dirty, worldVars, fresh, effects, delivered, cancels, timerDue, ctl>>

\* Any other record answers its channel: a signal is dequeued for it, and the
\* completion drains the wake events again before the next record.
PublishRecord ==
  /\ ctl.pc = "publish" /\ batch # <<>> /\ Head(batch) # ArmMark
  /\ LET r == Head(batch)
     IN /\ Current(r) /\ r.flag # "published"
        /\ waitGen' = [waitGen EXCEPT ![r.task] = 0]
        /\ cancels' = IF r.flag = "cancelled" THEN cancels \ {r.task} ELSE cancels
        /\ Dequeue(r.task, IF r.kind = "suspend" /\ r.value = "EINTR" THEN "suspend" ELSE "user")
  /\ batch' = Tail(batch)
  /\ BeginPass("events")
  /\ UNCHANGED <<guest, parkVars, dirty, worldVars, fresh, timerDue>>

\* The end of an entry: the deferred publications wake the guests, except the
\* ones of a stopped process.
Commit ==
  /\ ctl.pc = "publish" /\ batch = <<>> /\ ctl.target = NoTask
  /\ LET freed == {t \in Tasks : effects[t] # "none" /\ proc[PidOf[t]] # "stopped"}
     IN /\ guest' = [t \in Tasks |-> IF t \notin freed THEN guest[t]
                                     ELSE IF effects[t] = "finish" THEN "finish" ELSE "user"]
        /\ effects' = [t \in Tasks |-> IF t \in freed THEN "none" ELSE effects[t]]
        /\ delivered' = delivered \ freed
  /\ ctl' = Idle
  /\ UNCHANGED <<waitGen, sigVars, parkVars, dirty, worldVars, fresh, batch, cancels, timerDue>>

\* The deadline timer's own entry.
TimerFires ==
  /\ ctl.pc = "idle" /\ timerDue # None /\ timerDue <= now
  /\ timerDue' = None
  /\ BeginPass("drain")
  /\ UNCHANGED <<taskVars, sigVars, parkVars, dirty, worldVars, fresh, batch, effects, delivered, cancels>>

\* Time passes between entries and while records are published.
Tick ==
  /\ ctl.pc \in {"idle", "publish"} /\ now < MaxNow
  /\ now' = now + 1
  /\ UNCHANGED <<taskVars, sigVars, parkVars, dirty, nextGen, pins, proc, pipe, hostVars, ctl>>

-----------------------------------------------------------------------------
SystemCall(t) ==
  \/ FutexWait(t) \/ Sleep(t) \/ Suspend(t) \/ SigTimedWait(t) \/ WaitChild(t)
  \/ \E end \in Ends : Transfer(t, end) \/ Close(t, end)
  \/ FutexWake(t) \/ SigProcMask(t) \/ FinishMaskWait(t) \/ ThreadExit(t) \/ Exit(t)
  \/ \E s \in Sig : (\E p \in Pids : Kill(t, p, s)) \/ (\E u \in Tasks : Tkill(t, u, s))
  \/ \E p \in Pids : Stop(t, p) \/ Continue(t, p) \/ Terminate(t, p)
  \/ \E u \in Tasks : Cancel(t, u)

Settle ==
  \/ AnnounceExits
  \/ ChildRound \/ SettleChildWait \/ ChildRoundEnds
  \/ SettleSignalWait \/ SignalWaitsEnd
  \/ RetryRound \/ SettleRetryWait \/ RetryRoundEnds
  \/ Expire \/ Sweep \/ CollectRecords

Host ==
  \/ Return \/ CancelNewPark \/ CancelTarget \/ Followup \/ Resume \/ LifecycleEnds
  \/ PublishArm \/ PublishNothing \/ PublishRecord \/ Commit

Next == (\E t \in Tasks : SystemCall(t)) \/ Settle \/ Host \/ TimerFires \/ Tick

Spec == Init /\ [][Next]_vars

-----------------------------------------------------------------------------
(* Properties *)

AtRest == ctl.pc = "idle"

\* The answers to `t` among the records that are on their way, as places.
OnTheWay == completions \o fresh \o batch
Unpublished(t) ==
  {i \in DOMAIN OnTheWay : OnTheWay[i].task = t /\ OnTheWay[i].flag # "published"}

\* A call that blocks is answered exactly once: from the park to the wake its
\* answer is in exactly one place (parked, decided, collected, or prepared by
\* the host) under the generation its channel waits for, and a thread that runs
\* or is gone has none, through nested settles, cancellation, stops and exits.
AnsweredOnce ==
  \A t \in Tasks :
    LET rs == Unpublished(t)
        places == Cardinality(ParksOf({t})) + Cardinality(rs) + (IF effects[t] = "none" THEN 0 ELSE 1)
    IN /\ guest[t] \in {"user", "finish", "gone"} => places = 0
       /\ guest[t] = "call" => ParksOf({t}) = {} /\ rs = {}
       /\ guest[t] = "blocked" =>
            /\ places = 1
            /\ \A g \in {w.gen : w \in ParksOf({t})} \cup {OnTheWay[i].gen : i \in rs} :
                 g = waitGen[t]

\* Nothing is left for an event that may never come: when an entry ends, every
\* decision has been collected and published, every exit announced and every
\* pin of a finished call released.
SettledWhenIdle ==
  AtRest => /\ completions = <<>> /\ fresh = <<>> /\ batch = <<>>
            /\ released = {} /\ dirty.notices = {} /\ ~dirty.children /\ ~dirty.signals

\* A pending signal never coexists with a sleeper it targets once the entry
\* that generated it, unblocked it or parked the sleeper has ended.
NoTargetedSleeper == AtRest => \A w \in parks : ~SignalTargets(w.task)

\* Nor with a sigtimedwait that asked for it.
SigtimedServed ==
  AtRest => \A w \in parks : w.kind = "sigtimed" => Pending(w.task) \cap w.set = {}

\* The one host timer is armed less than a millisecond after the earliest
\* deadline at the latest, whatever the rounding, the longest delay a timer can
\* have and the timers armed before.
TimerCoversDeadlines ==
  AtRest => \A w \in parks :
    w.deadline # None => timerDue # None /\ (timerDue < w.deadline + Millisecond \/ timerDue <= now)

\* A wait for a child sleeps only while a child exists and none has exited, and
\* no exit is reaped before it is announced.
ChildrenServed ==
  /\ AtRest => \A w \in parks : w.kind = "child" => PollChild(PidOf[w.task], proc) = NoTask
  /\ \A p \in Pids : proc[p] = "reaped" => p \notin dirty.notices

\* A transfer sleeps only while it would block, and exactly the sleeping
\* transfers pin their end: also when the pin of a finished call, released after
\* the passes, was the last reference to the end.
TransfersServed ==
  AtRest =>
    /\ \A w \in parks : IsTransfer(w) => Attempted(w.kind) = "block"
    /\ pins = {<<w.task, w.kind>> : w \in {v \in parks : IsTransfer(v)}}

\* The state of each task as its caller sees it.
Phase(t) ==
  IF guest[t] = "gone" THEN "gone"
  ELSE IF guest[t] # "blocked" THEN "run"
  ELSE IF ParksOf({t}) # {} THEN "wait"
  ELSE IF Unpublished(t) # {} THEN "decided" ELSE "sent"

C == INSTANCE WaitContract WITH
  phase <- [t \in Tasks |-> Phase(t)],
  ask <- [t \in Tasks |-> IF Phase(t) = "wait"
                          THEN LET w == Eldest(ParksOf({t}))
                               IN [kind |-> w.kind, due |-> w.deadline]
                          ELSE [kind |-> "none", due |-> None]],
  reply <- [t \in Tasks |-> IF Phase(t) = "decided" THEN OnTheWay[Lowest(Unpublished(t))].value
                            ELSE "none"],
  clock <- now

\* Parks, passes and publication together keep the contract of a blocking call.
KeepsContract == C!Spec

\* What docs/architecture.md says of sigsuspend: the mask of before the call is
\* back when the thread runs on.
SuspendMaskRestored == \A t \in Tasks : guest[t] = "user" => saved[t] = <<>>

\* Fairness: an entry runs to its end, the event loop gives a due timer its
\* turn, and time passes.
FairSpec ==
  /\ Spec
  /\ WF_vars(Settle \/ Host)
  /\ SF_vars(TimerFires)
  /\ SF_vars(Tick)

\* A wait with a deadline ends, whatever the other threads do, once the clock has
\* reached the millisecond after it.
DeadlinesEndWaits ==
  \A t \in Tasks :
    (\E w \in ParksOf({t}) : w.deadline # None /\ w.deadline + Millisecond <= MaxNow + 1)
      ~> guest[t] # "blocked"
=============================================================================
