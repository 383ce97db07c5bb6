------------------------------ MODULE LockTable ------------------------------
(***************************************************************************)
(* The machine's advisory-lock records and the operations on them          *)
(* (crates/runtime-core/src/lock.rs), as operators on a set of records.    *)
(*                                                                         *)
(* The file offsets are 0..MaxOff (i64).  A range is half open; the end    *)
(* LockRangeEnd::Eof is the number after the largest offset, so the order  *)
(* of ends is the order of numbers.  The code keeps the records sorted in  *)
(* a vector; the order only decides which blocker F_GETLK names.           *)
(***************************************************************************)
EXTENDS Integers, FiniteSets

CONSTANTS
  Pids,       \* processes
  Ofds,       \* open file descriptions
  Files,
  MaxOff,     \* the largest offset, i64::MAX
  MaxLocks    \* MAX_ADVISORY_LOCK_RECORDS

ASSUME OffsetAssumption == MaxOff \in Nat \ {0}

Eof == MaxOff + 1

\* LockOwner: a process, or an open file description in one of two namespaces.
Owner == [kind : {"process"}, id : Pids] \cup [kind : {"ofd", "flock"}, id : Ofds]

LockType == {"read", "write"}

LockRange == {g \in [lo : 0..MaxOff, hi : 1..Eof] : g.lo < g.hi}

LockRecord ==
  {r \in [file : Files, owner : Owner, type : LockType, lo : 0..MaxOff, hi : 1..Eof] : r.lo < r.hi}

-----------------------------------------------------------------------------
(* Ranges *)

\* Mutant: a negative length may reach before the file.
ValidMutant(start, len) == start \in 0..MaxOff /\ start + len <= MaxOff

\* LockRange::normalize: the pairs it accepts, and their range.  An end beyond
\* the largest offset is EOVERFLOW, a start before the file EINVAL.
Valid(start, len) == start \in 0..MaxOff /\ start + len \in 0..MaxOff

Normalize(start, len) ==
  CASE len = 0 -> [lo |-> start, hi |-> Eof]
    [] len > 0 -> [lo |-> start, hi |-> start + len]
    [] OTHER   -> [lo |-> start + len, hi |-> start]

Overlaps(a, b) == a.hi > b.lo /\ a.lo < b.hi

\* touches_or_overlaps.
Touches(a, b) == a.lo <= b.hi /\ b.lo <= a.hi

-----------------------------------------------------------------------------
(* AdvisoryLockManager::set_lock, for a file f, an owner o, a type t (a lock *)
(* type or "unlock") and a range g, on the records R                        *)

\* conflicts_in_namespace.
SameSpace(o, p) == (o.kind = "flock") <=> (p.kind = "flock")

\* Mutant: only a write request can be blocked.
BlocksMutant(r, f, o, t, g) ==
  r.file = f /\ r.owner # o /\ SameSpace(r.owner, o) /\ Overlaps(r, g) /\ t = "write"

\* The test both get_blocking_lock and set_lock apply.
Blocks(r, f, o, t, g) ==
  /\ r.file = f
  /\ r.owner # o
  /\ SameSpace(r.owner, o)
  /\ Overlaps(r, g)
  /\ r.type = "write" \/ t = "write"

\* Unlocking is never blocked.
Conflict(R, f, o, t, g) == t # "unlock" /\ \E r \in R : Blocks(r, f, o, t, g)

Own(R, f, o) == {r \in R : r.file = f /\ r.owner = o}

Cut(R, f, o, g) == {r \in Own(R, f, o) : Overlaps(r, g)}

\* What is left of a cut record on either side, when its type is not the
\* requested one: a fragment of that type is merged instead.
LeftFragments(R, f, o, t, g) ==
  {[r EXCEPT !.hi = g.lo] : r \in {c \in Cut(R, f, o, g) : c.lo < g.lo /\ c.type # t}}

\* Mutant: the right-hand remainder of a split is forgotten.
RightFragmentsMutant(R, f, o, t, g) == {}

RightFragments(R, f, o, t, g) ==
  {[r EXCEPT !.lo = g.hi] : r \in {c \in Cut(R, f, o, g) : g.hi < c.hi /\ c.type # t}}

\* The owner's neighbours of the requested type.
Neighbours(R, f, o, t, g) == {r \in Own(R, f, o) : r.type = t /\ Touches(r, g)}

\* The union with those neighbours.  The code repeats the scan until nothing
\* more is merged; records of one owner and type never touch each other, so
\* the first scan finds all of them.
Merged(R, f, o, t, g) ==
  LET near == {g} \cup Neighbours(R, f, o, t, g)
  IN [lo |-> CHOOSE n \in {r.lo : r \in near} : \A r \in near : n <= r.lo,
      hi |-> CHOOSE n \in {r.hi : r \in near} : \A r \in near : n >= r.hi]

\* Mutant: the records merged with the request stay beside the union.
RemovedMutant(R, f, o, t, g) == Cut(R, f, o, g)

\* should_remove.
Removed(R, f, o, t, g) ==
  {r \in Own(R, f, o) : \/ Overlaps(r, g)
                        \/ r.type = t /\ Touches(r, Merged(R, f, o, t, g))}

Replacement(R, f, o, t, g) ==
  {[file |-> f, owner |-> o, type |-> t, lo |-> Merged(R, f, o, t, g).lo,
    hi |-> Merged(R, f, o, t, g).hi] : x \in {t} \ {"unlock"}}

\* The committed table.
SetLock(R, f, o, t, g) ==
  (R \ Removed(R, f, o, t, g)) \cup LeftFragments(R, f, o, t, g)
    \cup Replacement(R, f, o, t, g) \cup RightFragments(R, f, o, t, g)

\* LockMutation::may_unblock.
MayUnblock(R, f, o, t, g) ==
  \/ t = "unlock" /\ Removed(R, f, o, t, g) # {}
  \/ t # "unlock" /\ \E r \in Cut(R, f, o, g) : r.type # t

\* ENOLCK.
Exhausted(R, f, o, t, g) == Cardinality(SetLock(R, f, o, t, g)) > MaxLocks

\* The normal form set_lock relies on and keeps: the records of one owner on
\* one file never overlap, and those of one type never touch.
NormalTable(R) ==
  \A r, s \in R :
    r # s /\ r.file = s.file /\ r.owner = s.owner =>
      ~Overlaps(r, s) /\ (r.type = s.type => ~Touches(r, s))

\* Overlapping locks of two owners of one namespace are read locks.
ExclusiveTable(R) ==
  \A r, s \in R :
    r.file = s.file /\ r.owner # s.owner /\ SameSpace(r.owner, s.owner) /\ Overlaps(r, s) =>
      r.type = "read" /\ s.type = "read"

-----------------------------------------------------------------------------
(* Removal of owners *)

\* remove_file_owner (and remove_process_file).
RemoveFileOwner(R, f, o) == R \ Own(R, f, o)

ProcessOwner(p) == [kind |-> "process", id |-> p]

\* remove_process.
RemoveProcess(R, p) == {r \in R : r.owner # ProcessOwner(p)}

\* remove_ofd of every description in S; remove_dead_ofd_owners with the dead S.
RemoveOfds(R, S) == {r \in R : r.owner.kind = "process" \/ r.owner.id \notin S}

=============================================================================
