---------------------------- MODULE AdvisoryLock ----------------------------
(***************************************************************************)
(* Advisory locks of a running machine: fcntl record locks, OFD locks and  *)
(* flock (sys_fcntl_lock_with_owner, sys_flock), the lock requests the     *)
(* kernel parks and re-executes (wait_retry.rs), and the releases by close *)
(* and exit, with the open file descriptions that own locks.               *)
(*                                                                         *)
(* One kernel entry runs at a time: a system call that answers is followed *)
(* by the passes of the drains (pc leaves "idle"), one that parks is not.  *)
(***************************************************************************)
EXTENDS LockTable

CONSTANTS
  Tasks,      \* threads
  PidOf,      \* [Tasks -> Pids]
  FileOf,     \* [Ofds -> Files]
  InodeFiles, \* files of the kernel's own filesystems; the others are host files
  Descriptors,\* [Pids -> [Ofds -> Nat]], the descriptors open at the start
  Kinds,      \* the kinds of owner the guests lock as
  Whences,    \* {"set"}, or {"set", "cur"}
  Starts, Lens,  \* l_start and l_len of the requests
  Waits,      \* whether calls block: SUBSET BOOLEAN
  Others      \* the other calls made: SUBSET {"seek", "close", "exit", "interrupt"}

ASSUME DescriptionAssumption ==
  /\ FileOf \in [Ofds -> Files] /\ PidOf \in [Tasks -> Pids]
  /\ Descriptors \in [Pids -> [Ofds -> Nat]]
ASSUME RequestAssumption ==
  /\ Starts \subseteq Int /\ Lens \subseteq Int
  /\ Kinds \subseteq {"process", "ofd", "flock"} /\ Whences \subseteq {"set", "cur"}

VARIABLES
  records,    \* AdvisoryLockManager.records
  fds,        \* descriptors: [Pids -> [Ofds -> Nat]]
  alive,      \* processes that have not exited
  offset,     \* file offset of each description
  parked,     \* the parked lock requests; each pins its description
  older,      \* <<t, u>>: both are parked, t for longer than u
  ended,      \* decided requests whose pins are not yet released
  noted,      \* WakeSource::AdvisoryLock is in dirty_sources
  orphans,    \* a close asked for the orphan check
  pc,         \* where the current entry is
  todo,       \* the requests the current round still re-executes
  hit,        \* the task a signal or a cancellation interrupts in this entry
  granted     \* history: the lock the last step granted, as the call asked for it

vars == <<records, fds, alive, offset, parked, older, ended, noted, orphans, pc, todo, hit,
          granted>>

NoGrant == <<>>
NoTask == 0

\* RetryOp::FcntlLock and RetryOp::Flock.  `asked` is the range at the call.
Request == [task : Tasks, ofd : Ofds, kind : {"process", "ofd", "flock"}, type : LockType,
            whence : {"set", "cur"}, start : Int, len : Int, asked : LockRange]

TypeOK ==
  /\ records \subseteq LockRecord
  /\ fds \in [Pids -> [Ofds -> Nat]]
  /\ alive \subseteq Pids
  /\ offset \in [Ofds -> 0..MaxOff]
  /\ parked \subseteq Request
  /\ older \subseteq Tasks \X Tasks
  /\ ended \subseteq Request
  /\ noted \in BOOLEAN
  /\ orphans \in BOOLEAN
  /\ pc \in {"idle", "orphans", "rounds", "retrying", "finish"}
  /\ todo \subseteq Request
  /\ hit \in Tasks \cup {NoTask}
  /\ granted \in LockRecord \cup {NoGrant}

Init ==
  /\ records = {}
  /\ fds = Descriptors
  /\ alive = Pids
  /\ offset = [o \in Ofds |-> 0]
  /\ parked = {} /\ older = {} /\ ended = {} /\ noted = FALSE /\ orphans = FALSE
  /\ pc = "idle" /\ todo = {} /\ hit = NoTask
  /\ granted = NoGrant

-----------------------------------------------------------------------------
(* References to open file descriptions *)

\* The descriptions in a process's table: open descriptors and pins Q.
Refers(p, o, F, Q) == F[p][o] > 0 \/ \E q \in Q : q.ofd = o /\ PidOf[q.task] = p
Referenced(o, F, Q) == \E p \in Pids : Refers(p, o, F, Q)

\* Mutant: a quiet step forgets an earlier note.
NotedMutant(changed) == noted' = (changed /\ parked # {})

\* note_advisory_lock_changed: dropped while nothing is parked.
Noted(changed) == noted' = (noted \/ (changed /\ parked # {}))

\* release_ofd_reference_impl, for descriptors F and pins Q that are left: the
\* descriptions whose last reference is known to be gone at once.  For a file
\* of the kernel's filesystems that is known only with its last description.
Final(F, Q) ==
  {o \in Ofds : IF FileOf[o] \in InodeFiles
                THEN \A x \in Ofds : FileOf[x] = FileOf[o] => ~Referenced(x, F, Q)
                ELSE ~Referenced(o, F, Q)}

\* Any other description a process stops referring to there asks for the check
\* of release_orphaned_ofd_locks.
AsksOrphanCheck(F, Q) ==
  \E p \in Pids, o \in Ofds : /\ FileOf[o] \in InodeFiles
                              /\ o \notin Final(F, Q)
                              /\ Refers(p, o, fds, parked \cup ended)
                              /\ ~Refers(p, o, F, Q)

\* Descriptors F and pins Q are left, the process-owned records of R are left.
Release(R, F, Q) ==
  /\ fds' = F
  /\ records' = RemoveOfds(R, Final(F, Q))
  /\ orphans' = (orphans \/ AsksOrphanCheck(F, Q))
  /\ Noted(RemoveOfds(R, Final(F, Q)) # records)

-----------------------------------------------------------------------------
(* One execution of a lock request: sys_fcntl_lock_with_owner *)

OwnerOf(q) ==
  [kind |-> q.kind, id |-> IF q.kind = "process" THEN PidOf[q.task] ELSE q.ofd]

Start(q) == IF q.whence = "cur" THEN offset[q.ofd] + q.start ELSE q.start

\* The range an execution acts on: whence and offset are looked at each time.
RangeOf(q) == Normalize(Start(q), q.len)

\* flock conversion drops the old mode first, unless it is the requested one.
Converts(q) == q.kind = "flock" /\ q.type # "unlock"
Settled(q) == Converts(q) /\ \E r \in Own(records, FileOf[q.ofd], OwnerOf(q)) : r.type = q.type

\* Mutant: the conversion keeps the old mode until the new one is granted.
BaseMutant(q) == records

Base(q) ==
  IF Converts(q) /\ ~Settled(q) THEN RemoveFileOwner(records, FileOf[q.ofd], OwnerOf(q))
  ELSE records

Outcome(q) ==
  LET f == FileOf[q.ofd]  o == OwnerOf(q)  g == RangeOf(q)
  IN CASE Settled(q) -> "ok"
       [] ~Settled(q) /\ ~Valid(Start(q), q.len) -> "EINVAL"
       [] ~Settled(q) /\ Valid(Start(q), q.len) /\ Conflict(Base(q), f, o, q.type, g) -> "EAGAIN"
       [] OTHER -> IF Exhausted(Base(q), f, o, q.type, g) THEN "ENOLCK" ELSE "ok"

\* The table after an execution, and whether it was announced.
After(q) ==
  IF Outcome(q) # "ok" \/ Settled(q) THEN Base(q)
  ELSE SetLock(Base(q), FileOf[q.ofd], OwnerOf(q), q.type, RangeOf(q))

Announced(q) ==
  \/ Base(q) # records
  \/ /\ Outcome(q) = "ok" /\ ~Settled(q)
     /\ MayUnblock(Base(q), FileOf[q.ofd], OwnerOf(q), q.type, RangeOf(q))

\* The grant of `q`, over the range the call asked for.
Grant(q) ==
  IF Outcome(q) = "ok" /\ q.type # "unlock"
  THEN [file |-> FileOf[q.ofd], owner |-> OwnerOf(q), type |-> q.type, lo |-> q.asked.lo,
        hi |-> q.asked.hi]
  ELSE NoGrant

Execute(q) ==
  /\ records' = After(q)
  /\ Noted(Announced(q))
  /\ granted' = Grant(q)

-----------------------------------------------------------------------------
(* System calls *)

\* The requests P stay parked.
Stay(P) ==
  /\ parked' = P
  /\ older' = {x \in older : {x[1], x[2]} \subseteq {q.task : q \in P}}

Sleeping(t) == \E q \in parked : q.task = t

Enters(t) == pc = "idle" /\ PidOf[t] \in alive /\ ~Sleeping(t)

\* channel_fcntl_lock and channel_flock: a blocking call that conflicts pins
\* its description and parks; the entry of a call that parks ends there.
LockCall(t, o, kind, type, whence, start, len, wait) ==
  LET q == [task |-> t, ofd |-> o, kind |-> kind, type |-> type, whence |-> whence,
            start |-> start, len |-> len,
            asked |-> Normalize(IF whence = "cur" THEN offset[o] + start ELSE start, len)]
      parks == Outcome(q) = "EAGAIN" /\ wait
  IN /\ Enters(t) /\ fds[PidOf[t]][o] > 0
     /\ Execute(q)
     /\ parked' = IF parks THEN parked \cup {q} ELSE parked
     /\ older' = IF parks THEN older \cup {<<x.task, t>> : x \in parked} ELSE older
     /\ pc' = IF parks THEN "idle" ELSE "orphans"
     /\ UNCHANGED <<fds, alive, offset, ended, orphans, todo, hit>>

\* flock locks the whole file.
Lock(t) ==
  \E o \in Ofds, kind \in Kinds, type \in LockType \cup {"unlock"}, wait \in Waits :
    IF kind = "flock" THEN LockCall(t, o, kind, type, "set", 0, 0, wait)
    ELSE \E whence \in Whences, start \in Starts, len \in Lens :
           LockCall(t, o, kind, type, whence, start, len, wait)

\* lseek.
Seek(t) ==
  /\ Enters(t) /\ "seek" \in Others
  /\ \E o \in Ofds, to \in 0..MaxOff :
       fds[PidOf[t]][o] > 0 /\ offset' = [offset EXCEPT ![o] = to]
  /\ granted' = NoGrant
  /\ pc' = "orphans"
  /\ UNCHANGED <<records, fds, alive, parked, older, ended, noted, orphans, todo, hit>>

\* sys_close_impl: closing any descriptor of a file ends all the process's
\* record locks on it, then one reference goes.
Close(t, o) ==
  LET p == PidOf[t]
      left == [fds EXCEPT ![p][o] = @ - 1]
  IN /\ Enters(t) /\ "close" \in Others /\ fds[p][o] > 0
     /\ Release(RemoveFileOwner(records, FileOf[o], ProcessOwner(p)), left, parked)
     /\ granted' = NoGrant
     /\ pc' = "orphans"
     /\ UNCHANGED <<alive, offset, parked, older, ended, todo, hit>>

\* cleanup_process_for_exit: the pins of the process's parks, its descriptors,
\* its record locks; its parks are retired.
Exit(t) ==
  LET p == PidOf[t]
      left == [fds EXCEPT ![p] = [o \in Ofds |-> 0]]
      others == {q \in parked : PidOf[q.task] # p}
  IN /\ Enters(t) /\ "exit" \in Others
     /\ Release(RemoveProcess(records, p), left, others)
     /\ Stay(others)
     /\ alive' = alive \ {p}
     /\ granted' = NoGrant
     /\ pc' = "orphans"
     /\ UNCHANGED <<offset, ended, todo, hit>>

\* A signal or a cancellation for a task asleep in a lock request, and any
\* other entry of the kernel (hit = NoTask): both run the passes.
OtherEntry(t) ==
  /\ pc = "idle" /\ "interrupt" \in Others
  /\ t # NoTask => Sleeping(t)
  /\ hit' = t
  /\ granted' = NoGrant
  /\ pc' = "orphans"
  /\ UNCHANGED <<records, fds, alive, offset, parked, older, ended, noted, orphans, todo>>

-----------------------------------------------------------------------------
(* The passes of an entry *)

Pins == parked \cup ended

\* Mutant: the check sees only what descriptors refer to.
ReleaseOrphanedMutant ==
  LET left == IF orphans THEN RemoveOfds(records, {o \in Ofds : ~Referenced(o, fds, {})})
              ELSE records
  IN /\ pc = "orphans"
     /\ records' = left
     /\ Noted(left # records)
     /\ orphans' = FALSE
     /\ granted' = NoGrant
     /\ pc' = "rounds"
     /\ UNCHANGED <<fds, alive, offset, parked, older, ended, todo, hit>>

\* release_orphaned_ofd_locks.
ReleaseOrphaned ==
  LET left == IF orphans THEN RemoveOfds(records, {o \in Ofds : ~Referenced(o, fds, Pins)})
              ELSE records
  IN /\ pc = "orphans"
     /\ records' = left
     /\ Noted(left # records)
     /\ orphans' = FALSE
     /\ granted' = NoGrant
     /\ pc' = "rounds"
     /\ UNCHANGED <<fds, alive, offset, parked, older, ended, todo, hit>>

\* settle_retry_waits, take_dirty_retry_waiters.
Round ==
  /\ pc = "rounds"
  /\ pc' = IF noted THEN "retrying" ELSE "finish"
  /\ todo' = IF noted THEN parked ELSE todo
  /\ noted' = FALSE
  /\ UNCHANGED <<records, fds, alive, offset, parked, older, ended, orphans, hit, granted>>

\* settle_retry_waits_once: re-execute the oldest request left; an
\* answer ends it.
Retry ==
  /\ pc = "retrying"
  /\ \E q \in todo :
       /\ \A x \in todo : <<x.task, q.task>> \notin older
       /\ Execute(q)
       /\ todo' = todo \ {q}
       /\ IF Outcome(q) = "EAGAIN" THEN UNCHANGED <<parked, older, ended>>
          ELSE Stay(parked \ {q}) /\ ended' = ended \cup {q}
  /\ UNCHANGED <<fds, alive, offset, orphans, pc, hit>>

RoundEnds ==
  /\ pc = "retrying" /\ todo = {}
  /\ pc' = "rounds"
  /\ UNCHANGED <<records, fds, alive, offset, parked, older, ended, noted, orphans, todo, hit, granted>>

\* Mutant: the pins of the decided requests are kept.
FinishMutant ==
  /\ pc = "finish"
  /\ Stay({q \in parked : q.task # hit})
  /\ ended' = {} /\ hit' = NoTask
  /\ pc' = "idle"
  /\ granted' = NoGrant
  /\ UNCHANGED <<records, fds, alive, offset, noted, orphans, todo>>

\* The sweep ends the interrupted request; release_completed_retry_bindings
\* releases the pins of all decided ones; publishing them drains again.
Finish ==
  LET stay == {q \in parked : q.task # hit}
  IN /\ pc = "finish"
     /\ Release(records, fds, stay)
     /\ Stay(stay)
     /\ ended' = {} /\ hit' = NoTask
     /\ pc' = IF ended # {} \/ stay # parked THEN "orphans" ELSE "idle"
     /\ granted' = NoGrant
     /\ UNCHANGED <<alive, offset, todo>>

-----------------------------------------------------------------------------
SystemCall(t) == Lock(t) \/ Seek(t) \/ (\E o \in Ofds : Close(t, o)) \/ Exit(t)

Settle == ReleaseOrphaned \/ Round \/ Retry \/ RoundEnds \/ Finish

Next == (\E t \in Tasks : SystemCall(t)) \/ (\E t \in Tasks \cup {NoTask} : OtherEntry(t)) \/ Settle

Spec == Init /\ [][Next]_vars

-----------------------------------------------------------------------------
(* Properties *)

\* The records are normal: those of one owner on one file never overlap, and
\* those of one type never touch, so that set_lock's one-fragment-per-side and
\* merge logic (lock.rs) is sound.
Normalized == NormalTable(records)

\* Two owners of one namespace never hold overlapping locks of which one is a
\* write lock (set_lock's conflict check, after any split, merge, conversion,
\* re-execution or release).
Exclusive == ExclusiveTable(records)

\* What each owner holds, byte by byte.
HeldType(f, o, b) ==
  LET here == {r \in Own(records, f, o) : r.lo <= b /\ b < r.hi}
  IN IF here = {} THEN "none" ELSE (CHOOSE r \in here : TRUE).type

Held == [f \in Files |-> [o \in Owner |-> [b \in 0..MaxOff |-> HeldType(f, o, b)]]]

Bytes == INSTANCE ByteLocks WITH held <- Held

\* The table of split and merged ranges implements locks on single bytes: a
\* grant sets exactly the bytes the call asked for and breaks no other lock.
ImplementsByteLocks == Bytes!Spec

\* A granted lock covers what the call asked for: wait_retry.rs gives a parked
\* request the values at the call.
GrantedAsAsked ==
  granted # NoGrant =>
    \A b \in granted.lo..(granted.hi - 1) :
      HeldType(granted.file, granted.owner, b) = granted.type

\* Between entries no request sleeps whose lock is free: every release or
\* downgrade re-executes the parked requests before its entry ends
\* (settle_retry_waits).
NoGrantableWaiter ==
  pc = "idle" => \A q \in parked : Outcome(q) = "EAGAIN"

\* Between entries every lock has an owner that can still release it: no lock
\* outlives its process or its open file description, pins included
\* (release_orphaned_ofd_locks, release_final_ofd_locks, remove_process).
OwnersExist ==
  pc = "idle" =>
    \A r \in records : IF r.owner.kind = "process" THEN r.owner.id \in alive
                       ELSE Referenced(r.owner.id, fds, Pins)

\* A close, an exit or the end of a request takes locks only from those that
\* give them up: processes that exit or close the file, and descriptions no
\* process and no pin refers to any more (release_ofd_reference_impl): never
\* from a parent or a sleeper that still shares the description.
GivenUp(r) ==
  IF r.owner.kind = "process"
  THEN \/ r.owner.id \notin alive'
       \/ \E o \in Ofds : FileOf[o] = r.file /\ fds'[r.owner.id][o] < fds[r.owner.id][o]
  ELSE ~Referenced(r.owner.id, fds', parked' \cup ended')
LocksKept ==
  [][(ReleaseOrphaned \/ Finish \/ \E t \in Tasks : Exit(t) \/ \E o \in Ofds : Close(t, o))
       => \A r \in records \ records' : GivenUp(r)]_vars

\* Sleepers that convert a flock do not block one another: each has dropped the
\* mode it held (sys_fcntl_lock_with_owner), so two shared holders that both
\* upgrade are not asleep forever.
NoUpgradeDeadlock ==
  pc = "idle" =>
    \A p, q \in parked :
      p.kind = "flock" /\ q.kind = "flock" =>
        ~\E r \in Own(records, FileOf[p.ofd], OwnerOf(p)) :
           Blocks(r, FileOf[q.ofd], OwnerOf(q), q.type, RangeOf(q))

=============================================================================
