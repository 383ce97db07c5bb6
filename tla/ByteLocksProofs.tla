--------------------------- MODULE ByteLocksProofs ---------------------------
(***************************************************************************)
(* The table of split and merged ranges implements locks on single bytes   *)
(* (AdvisoryLock!ImplementsByteLocks), for any processes, descriptions,    *)
(* files, requests and bounds.                                             *)
(*                                                                         *)
(* It does so only where a parked request is granted the range it asked    *)
(* for.  A request relative to the file offset that sleeps across a seek   *)
(* of its description is granted another range (the run                    *)
(* AdvisoryLockSeekCur), so the theorem is about the behaviours without    *)
(* such a seek.                                                            *)
(*                                                                         *)
(* The same condition gives the other half of the promise: a request that  *)
(* sleeps is one the table refuses (WakeInv).                              *)
(***************************************************************************)
EXTENDS AdvisoryLockProofs

\* No one moves the offset that a sleeping request is relative to.
Undisturbed == \A q \in parked : q.whence = "cur" => offset'[q.ofd] = offset[q.ofd]

\* Machines whose guests do not both lock relative to the offset and seek.
Steady == "cur" \notin Whences \/ "seek" \notin Others

\* Parked requests still mean the range they asked for, flock requests mean the
\* whole file, and a flock record is never split.
RequestsInv ==
  /\ \A q \in parked : /\ q.whence \in Whences \cup {"set"}
                       /\ q.asked = RangeOf(q)
                       /\ q.kind = "flock" => q.whence = "set" /\ q.start = 0 /\ q.len = 0
  /\ \A r \in records : r.owner.kind = "flock" => r.lo = 0 /\ r.hi = Eof

-----------------------------------------------------------------------------
(* Bytes of a table *)

\* HeldType, of any table.
HeldIn(R, f, o, b) ==
  LET here == {r \in Own(R, f, o) : r.lo <= b /\ b < r.hi}
  IN IF here = {} THEN "none" ELSE (CHOOSE r \in here : TRUE).type

\* In a normal table at most one record of an owner covers a byte, so what the
\* owner holds there is the type of that record.
LEMMA HeldCovers ==
  ASSUME NEW R, R \subseteq LockRecord, NormalTable(R),
         NEW f, NEW o, NEW b \in 0..MaxOff
  PROVE  /\ HeldIn(R, f, o, b) \in {"none"} \cup LockType
         /\ \A ty \in LockType : HeldIn(R, f, o, b) = ty <=> Covers(R, f, o, b, ty)
<1> DEFINE here == {r \in Own(R, f, o) : r.lo <= b /\ b < r.hi}
<1>1. HeldIn(R, f, o, b) = IF here = {} THEN "none" ELSE (CHOOSE r \in here : TRUE).type
  BY DEF HeldIn
<1>2. \A r \in here : /\ r \in R /\ r.file = f /\ r.owner = o /\ r.type \in LockType
                      /\ r.lo <= b /\ b < r.hi /\ r.lo \in Int /\ r.hi \in Int
  BY OffsetAssumption DEF Own, LockRecord, Eof
<1>3. \A r, s \in here : r = s
  <2> SUFFICES ASSUME NEW r \in here, NEW s \in here, r # s PROVE FALSE
    OBVIOUS
  <2>1. ~Overlaps(r, s)
    BY <1>2 DEF NormalTable
  <2>2. b \in Int
    BY OffsetAssumption
  <2> HIDE DEF here
  <2> QED BY <1>2, <2>1, <2>2 DEF Overlaps
<1>4. \A ty \in LockType : Covers(R, f, o, b, ty) <=> \E r \in here : r.type = ty
  BY DEF Covers, Own
<1> HIDE DEF here
<1>5. CASE here = {}
  BY <1>1, <1>4, <1>5 DEF LockType
<1>6. CASE here # {}
  <2> DEFINE c == CHOOSE r \in here : TRUE
  <2>1. c \in here
    BY <1>6
  <2>2. HeldIn(R, f, o, b) = c.type
    BY <1>1, <1>6
  <2> HIDE DEF c
  <2> QED BY <1>2, <1>3, <1>4, <2>1, <2>2
<1> QED BY <1>5, <1>6

\* Two normal tables that cover a byte alike hold it alike.
LEMMA SameCover ==
  ASSUME NEW R, R \subseteq LockRecord, NormalTable(R),
         NEW S, S \subseteq LockRecord, NormalTable(S),
         NEW f, NEW o, NEW b \in 0..MaxOff,
         \A ty \in LockType : Covers(R, f, o, b, ty) <=> Covers(S, f, o, b, ty)
  PROVE  HeldIn(R, f, o, b) = HeldIn(S, f, o, b)
<1>1. /\ HeldIn(R, f, o, b) \in {"none"} \cup LockType
      /\ \A ty \in LockType : HeldIn(R, f, o, b) = ty <=> Covers(R, f, o, b, ty)
  BY HeldCovers
<1>2. /\ HeldIn(S, f, o, b) \in {"none"} \cup LockType
      /\ \A ty \in LockType : HeldIn(S, f, o, b) = ty <=> Covers(S, f, o, b, ty)
  BY HeldCovers
<1> QED BY <1>1, <1>2

\* What an owner holds depends on its own records only.
LEMMA SameOwn ==
  ASSUME NEW R, NEW S, NEW f, NEW o, Own(R, f, o) = Own(S, f, o), NEW b
  PROVE  HeldIn(R, f, o, b) = HeldIn(S, f, o, b)
BY DEF HeldIn

\* The refinement mapping, before and after a step.
LEMMA HeldNow ==
  /\ Held = [f \in Files |-> [o \in Owner |-> [b \in 0..MaxOff |-> HeldIn(records, f, o, b)]]]
  /\ Held' = [f \in Files |-> [o \in Owner |-> [b \in 0..MaxOff |-> HeldIn(records', f, o, b)]]]
BY DEF Held, HeldType, HeldIn

-----------------------------------------------------------------------------
(* The steps of the byte locks *)

\* Owners that lose all their records on a file: a drop.
LEMMA DropStep ==
  ASSUME NEW gone, records' = {r \in records : <<r.file, r.owner>> \notin gone},
         granted' = NoGrant
  PROVE  Bytes!Next
<1> DEFINE S == gone \cap Bytes!Holders
           Rest(f, o) == IF <<f, o>> \in S THEN [b \in 0..MaxOff |-> "none"] ELSE Held[f][o]
<1>1. ASSUME NEW f \in Files, NEW o \in Owner, NEW b \in 0..MaxOff
      PROVE  HeldIn(records', f, o, b) = Rest(f, o)[b]
  <2>1. Held[f][o] = [c \in 0..MaxOff |-> HeldIn(records, f, o, c)]
    BY HeldNow
  <2>2. CASE <<f, o>> \in gone
    <3>1. Own(records', f, o) = {}
      BY <2>2 DEF Own
    <3>2. HeldIn(records', f, o, b) = "none"
      BY <3>1 DEF HeldIn
    <3>3. CASE <<f, o>> \in Bytes!Holders
      BY <2>2, <3>2, <3>3
    <3>4. CASE <<f, o>> \notin Bytes!Holders
      <4>1. Held[f][o][b] = "none"
        BY <3>4 DEF Bytes!Holders
      <4> QED BY <3>2, <3>4, <4>1
    <3> QED BY <3>3, <3>4
  <2>3. CASE <<f, o>> \notin gone
    <3>1. Own(records', f, o) = Own(records, f, o)
      BY <2>3 DEF Own
    <3> QED BY <2>1, <2>3, <3>1, SameOwn
  <2> QED BY <2>2, <2>3
<1>2. ASSUME NEW f \in Files, NEW o \in Owner
      PROVE  [b \in 0..MaxOff |-> HeldIn(records', f, o, b)] = Rest(f, o)
  <2>1. Rest(f, o) = [b \in 0..MaxOff |-> Rest(f, o)[b]]
    BY HeldNow
  <2> QED BY <1>1, <2>1
<1>3. Held' = [f \in Files |-> [o \in Owner |-> Rest(f, o)]]
  <2>1. Held' = [f \in Files |-> [o \in Owner |-> [b \in 0..MaxOff |-> HeldIn(records', f, o, b)]]]
    BY HeldNow
  <2> HIDE DEF Rest
  <2> QED BY <1>2, <2>1
<1>4. Bytes!Drop(S)
  BY <1>3 DEF Bytes!Drop, Bytes!NoGrant, NoGrant
<1> QED BY <1>4 DEF Bytes!Next

\* A step that leaves the table alone and grants nothing drops no one.
LEMMA StillStep ==
  ASSUME records' = records, granted' = NoGrant
  PROVE  Bytes!Next
<1> DEFINE gone == {}
<1>1. records' = {r \in records : <<r.file, r.owner>> \notin gone}
  OBVIOUS
<1> HIDE DEF gone
<1> QED BY <1>1, DropStep

\* One owner's bytes of one range set to one type: a put.
LEMMA PutStep ==
  ASSUME NEW f \in Files, NEW o \in Owner, NEW t, NEW lo, NEW hi,
         \A x \in Files, y \in Owner, b \in 0..MaxOff :
           HeldIn(records', x, y, b) =
             IF x = f /\ y = o /\ b \in lo..(hi - 1) THEN t ELSE HeldIn(records, x, y, b)
  PROVE  Bytes!Put(f, o, t, lo, hi)
<1> DEFINE Row(x, y) == [b \in 0..MaxOff |-> HeldIn(records, x, y, b)]
           Row1(x, y) == [b \in 0..MaxOff |-> HeldIn(records', x, y, b)]
           New == [b \in 0..MaxOff |-> IF b \in lo..(hi - 1) THEN t ELSE Held[f][o][b]]
<1>1. /\ Held = [x \in Files |-> [y \in Owner |-> Row(x, y)]]
      /\ Held' = [x \in Files |-> [y \in Owner |-> Row1(x, y)]]
  BY HeldNow
<1>2. Row1(f, o) = New
  <2>1. Held[f][o] = Row(f, o)
    BY <1>1
  <2> QED BY <2>1
<1>3. \A x \in Files, y \in Owner : ~(x = f /\ y = o) => Row1(x, y) = Row(x, y)
  OBVIOUS
<1> HIDE DEF Row, Row1, New
<1>4. Held' = [Held EXCEPT ![f][o] = New]
  BY <1>1, <1>2, <1>3
<1> QED BY <1>4 DEF Bytes!Put, New

\* set_lock touches no other owner and no other file.
LEMMA SetLockOthers ==
  ASSUME NEW R, NEW f, NEW o, NEW t, NEW g, Context(R, f, o, t, g),
         NEW x, NEW y, ~(x = f /\ y = o)
  PROVE  Own(SetLock(R, f, o, t, g), x, y) = Own(R, x, y)
<1>1. \A r \in SetLock(R, f, o, t, g) : r.file = x /\ r.owner = y => r \in R
  BY SetLockCases DEF Kept, LeftOf, RightOf, Requested
<1>2. \A r \in R : r.file = x /\ r.owner = y => r \in SetLock(R, f, o, t, g)
  BY DEF SetLock, Removed, Own
<1> QED BY <1>1, <1>2 DEF Own

\* set_lock, byte by byte.
LEMMA SetLockHeld ==
  ASSUME NEW R, NEW f, NEW o, NEW t, NEW g, Context(R, f, o, t, g), NEW b \in 0..MaxOff
  PROVE  HeldIn(SetLock(R, f, o, t, g), f, o, b) =
           IF b \in g.lo..(g.hi - 1) THEN (IF t = "unlock" THEN "none" ELSE t)
           ELSE HeldIn(R, f, o, b)
<1> DEFINE T == SetLock(R, f, o, t, g)
<1>1. /\ R \subseteq LockRecord /\ NormalTable(R) /\ t \in LockType \cup {"unlock"}
      /\ g.lo \in Int /\ g.hi \in Int
  BY OffsetAssumption DEF Context, LockRange, Eof
<1>2. T \subseteq LockRecord /\ NormalTable(T)
  BY SetLockCases, SetLockNormal
<1>3. b \in g.lo..(g.hi - 1) <=> g.lo <= b /\ b < g.hi
  BY <1>1, OffsetAssumption
<1>4. \A ty \in LockType : Covers(T, f, o, b, ty) <=>
        IF b \in g.lo..(g.hi - 1) THEN ty = t ELSE Covers(R, f, o, b, ty)
  BY <1>3, SetLockExact
<1> HIDE DEF T
<1>5. /\ HeldIn(T, f, o, b) \in {"none"} \cup LockType
      /\ \A ty \in LockType : HeldIn(T, f, o, b) = ty <=> Covers(T, f, o, b, ty)
  BY <1>2, HeldCovers
<1>6. CASE b \in g.lo..(g.hi - 1)
  BY <1>1, <1>4, <1>5, <1>6 DEF T, LockType
<1>7. CASE b \notin g.lo..(g.hi - 1)
  <2>1. HeldIn(T, f, o, b) = HeldIn(R, f, o, b)
    BY <1>1, <1>2, <1>4, <1>7, SameCover
  <2> QED BY <1>7, <2>1 DEF T
<1> QED BY <1>6, <1>7

\* Where no other owner of the namespace has a record in the way, every byte of
\* the range is compatible with the request.
LEMMA CompatibleBytes ==
  ASSUME LockInv, NEW f \in Files, NEW o \in Owner, NEW t \in LockType, NEW g \in LockRange,
         \A r \in records : ~Blocks(r, f, o, t, g)
  PROVE  \A b \in g.lo..(g.hi - 1) : Bytes!Compatible(f, o, t, b)
<1> SUFFICES ASSUME NEW b \in g.lo..(g.hi - 1), NEW p \in Owner, p # o,
                    (p.kind = "flock") <=> (o.kind = "flock")
             PROVE  Held[f][p][b] = "none" \/ (Held[f][p][b] = "read" /\ t = "read")
  BY DEF Bytes!Compatible
<1>1. /\ g.lo \in Int /\ g.hi \in Int /\ b \in Int /\ g.lo <= b /\ b < g.hi /\ b \in 0..MaxOff
  BY OffsetAssumption DEF LockRange, Eof
<1>2. Held[f][p][b] = HeldIn(records, f, p, b)
  BY <1>1, HeldNow
<1>3. records \subseteq LockRecord /\ NormalTable(records)
  BY DEF LockInv, TypeOK, Normalized
<1>4. /\ HeldIn(records, f, p, b) \in {"none"} \cup LockType
      /\ \A ty \in LockType : HeldIn(records, f, p, b) = ty <=> Covers(records, f, p, b, ty)
  BY <1>1, <1>3, HeldCovers
<1>5. ASSUME NEW ty \in LockType, HeldIn(records, f, p, b) = ty
      PROVE  ty = "read" /\ t = "read"
  <2>1. PICK r \in records : r.file = f /\ r.owner = p /\ r.type = ty /\ r.lo <= b /\ b < r.hi
    BY <1>4, <1>5 DEF Covers
  <2>2. r.lo \in Int /\ r.hi \in Int
    BY <1>3, OffsetAssumption DEF LockRecord, Eof
  <2>3. Overlaps(r, g)
    BY <1>1, <2>1, <2>2 DEF Overlaps
  <2>4. SameSpace(r.owner, o)
    BY <2>1 DEF SameSpace
  <2>5. ~(r.type = "write" \/ t = "write")
    BY <2>1, <2>3, <2>4 DEF Blocks
  <2> QED BY <2>1, <2>5 DEF LockType
<1> QED BY <1>2, <1>4, <1>5

\* A request that means the range it asked for, flock the whole file.
Exact(q) ==
  /\ q.asked = RangeOf(q)
  /\ q.kind = "flock" => q.whence = "set" /\ q.start = 0 /\ q.len = 0

WholeFlocks == \A r \in records : r.owner.kind = "flock" => r.lo = 0 /\ r.hi = Eof

\* A flock request is for the whole file.
LEMMA FlockRange ==
  ASSUME NEW q, Exact(q), q.kind = "flock"
  PROVE  /\ RangeOf(q) = [lo |-> 0, hi |-> Eof]
         /\ Valid(Start(q), q.len)
<1>1. Start(q) = 0 /\ q.len = 0
  BY DEF Exact, Start
<1> QED BY <1>1, OffsetAssumption DEF RangeOf, Normalize, Valid

\* A grant of a byte range, as the byte locks make it.
LEMMA GrantStep ==
  ASSUME LockInv, NEW f \in Files, NEW o \in Owner, NEW t \in LockType, NEW g \in LockRange,
         \A r \in records : ~Blocks(r, f, o, t, g),
         Bytes!Put(f, o, t, g.lo, g.hi),
         granted' = [file |-> f, owner |-> o, type |-> t, lo |-> g.lo, hi |-> g.hi]
  PROVE  Bytes!Next
<1>1. g.lo \in 0..MaxOff /\ g.hi \in (g.lo + 1)..(MaxOff + 1)
  BY OffsetAssumption DEF LockRange, Eof
<1>2. \A b \in g.lo..(g.hi - 1) : Bytes!Compatible(f, o, t, b)
  BY CompatibleBytes
<1>3. Bytes!Grant(f, o, t, g.lo, g.hi)
  BY <1>2 DEF Bytes!Grant
<1> QED BY <1>1, <1>3 DEF Bytes!Next, LockType

\* One execution of a request, at the call or after a wake, is a step of the
\* byte locks: a grant of what was asked, an unlock, the drop of a converted
\* flock, or nothing.
LEMMA ExecuteStep ==
  ASSUME LockInv, WholeFlocks, NEW q, WellFormed(q), Exact(q), Execute(q)
  PROVE  Bytes!Next
<1> DEFINE f == FileOf[q.ofd]
           o == OwnerOf(q)
           g == RangeOf(q)
           B == Base(q)
<1>0. f \in Files /\ o \in Owner /\ q.type \in LockType \cup {"unlock"} /\ o.kind = q.kind
  BY DescriptionAssumption DEF WellFormed, OwnerOf, Owner
<1>1. records' = After(q) /\ granted' = Grant(q)
  BY DEF Execute
<1>2. B = records \/ (q.kind = "flock" /\ q.type # "unlock" /\ ~Settled(q)
                       /\ B = RemoveFileOwner(records, f, o))
  BY DEF Base, Converts
<1>3. records \subseteq LockRecord /\ NormalTable(records) /\ ExclusiveTable(records)
  BY DEF LockInv, TypeOK, Normalized, Exclusive
<1>4. q.asked = g
  BY DEF Exact
<1>5. CASE Outcome(q) # "ok"
  <2>1. records' = B /\ granted' = NoGrant
    BY <1>1, <1>5 DEF After, Grant
  <2>2. CASE B = records
    BY <2>1, <2>2, StillStep
  <2>3. CASE B = RemoveFileOwner(records, f, o)
    <3>1. records' = {r \in records : <<r.file, r.owner>> \notin {<<f, o>>}}
      BY <2>1, <2>3 DEF RemoveFileOwner, Own
    <3> QED BY <2>1, <3>1, DropStep
  <2> QED BY <1>2, <2>2, <2>3
<1>6. CASE Settled(q)
  <2>1. Outcome(q) = "ok" /\ q.kind = "flock" /\ q.type \in LockType
    BY <1>0, <1>6 DEF Settled, Converts, Outcome
  <2>2. records' = records
    BY <1>1, <1>6 DEF After, Base
  <2>3. g = [lo |-> 0, hi |-> Eof] /\ g \in LockRange
    BY <2>1, FlockRange, OffsetAssumption DEF LockRange, Eof
  <2>4. granted' = [file |-> f, owner |-> o, type |-> q.type, lo |-> g.lo, hi |-> g.hi]
    BY <1>1, <1>4, <2>1 DEF Grant, LockType
  <2>5. PICK r \in records : /\ r.file = f /\ r.owner = o /\ r.type = q.type
                             /\ r.lo = 0 /\ r.hi = Eof
    BY <1>0, <1>6, <2>1 DEF Settled, Own, WholeFlocks
  <2> HIDE DEF f, o, g
  <2>6. ASSUME NEW s \in records, Blocks(s, f, o, q.type, g) PROVE FALSE
    <3>1. s \in LockRecord
      BY <1>3
    <3>2. Overlaps(r, s)
      BY <2>5, <3>1, OffsetAssumption DEF LockRecord, Overlaps, Eof
    <3>3. s.file = f /\ s.owner # o /\ SameSpace(r.owner, s.owner)
      BY <2>5, <2>6 DEF Blocks, SameSpace
    <3> QED BY <1>3, <2>5, <2>6, <3>2, <3>3 DEF ExclusiveTable, Blocks
  <2>7. ASSUME NEW x \in Files, NEW y \in Owner, NEW b \in 0..MaxOff
        PROVE  HeldIn(records', x, y, b) =
                 IF x = f /\ y = o /\ b \in g.lo..(g.hi - 1) THEN q.type
                 ELSE HeldIn(records, x, y, b)
    <3>1. Covers(records, f, o, b, q.type)
      BY <2>5, OffsetAssumption DEF Covers, Eof
    <3>2. HeldIn(records, f, o, b) = q.type
      BY <1>3, <2>1, <3>1, HeldCovers
    <3> QED BY <2>2, <3>2
  <2>8. Bytes!Put(f, o, q.type, g.lo, g.hi)
    BY <1>0, <2>7, PutStep
  <2> QED BY <1>0, <2>1, <2>3, <2>4, <2>6, <2>8, GrantStep
<1>7. CASE Outcome(q) = "ok" /\ ~Settled(q)
  <2>1. Valid(Start(q), q.len) /\ ~Conflict(B, f, o, q.type, g)
    BY <1>7, OutcomeCases
  <2>2. g \in LockRange
    <3>1. offset[q.ofd] \in Int /\ q.start \in Int /\ q.len \in Int
      BY OffsetAssumption DEF LockInv, TypeOK, WellFormed
    <3>2. Start(q) \in Int
      BY <3>1 DEF Start
    <3> QED BY <2>1, <3>1, <3>2, NormalizeRange DEF RangeOf
  <2>3. records' = SetLock(B, f, o, q.type, g)
    BY <1>1, <1>7 DEF After
  <2>4. B \subseteq records /\ \A r \in records \ B : r.file = f /\ r.owner = o
    BY <1>2 DEF RemoveFileOwner, Own
  <2>5. B # records => g.lo = 0 /\ g.hi = Eof /\ Own(B, f, o) = {}
    BY <1>2, FlockRange DEF RemoveFileOwner, Own
  <2>6. q.type # "unlock" =>
          granted' = [file |-> f, owner |-> o, type |-> q.type, lo |-> g.lo, hi |-> g.hi]
    BY <1>1, <1>4, <1>7 DEF Grant
  <2>7. q.type = "unlock" => granted' = NoGrant /\ B = records
    BY <1>1, <1>2 DEF Grant
  <2> HIDE DEF f, o, g, B
  <2>8. B \subseteq LockRecord /\ NormalTable(B)
    BY <1>3, <2>4, PartOfTable
  <2>9. Context(B, f, o, q.type, g)
    BY <1>0, <2>2, <2>8 DEF Context
  <2> DEFINE ty == IF q.type = "unlock" THEN "none" ELSE q.type
  <2>10. ASSUME NEW x \in Files, NEW y \in Owner, NEW b \in 0..MaxOff
         PROVE  HeldIn(records', x, y, b) =
                  IF x = f /\ y = o /\ b \in g.lo..(g.hi - 1) THEN ty
                  ELSE HeldIn(records, x, y, b)
    <3>1. CASE ~(x = f /\ y = o)
      <4>1. Own(records', x, y) = Own(B, x, y)
        BY <2>3, <2>9, <3>1, SetLockOthers
      <4>2. Own(B, x, y) = Own(records, x, y)
        BY <2>4, <3>1 DEF Own
      <4> QED BY <3>1, <4>1, <4>2, SameOwn
    <3>2. CASE x = f /\ y = o
      <4>1. HeldIn(records', f, o, b) = IF b \in g.lo..(g.hi - 1) THEN ty
                                        ELSE HeldIn(B, f, o, b)
        BY <2>3, <2>9, SetLockHeld
      <4>2. b \notin g.lo..(g.hi - 1) => B = records
        BY <2>5, OffsetAssumption DEF Eof
      <4> QED BY <3>2, <4>1, <4>2
    <3> QED BY <3>1, <3>2
  <2>11. Bytes!Put(f, o, ty, g.lo, g.hi)
    <3> HIDE DEF ty
    <3> QED BY <1>0, <2>10, PutStep
  <2>12. CASE q.type # "unlock"
    <3>1. q.type \in LockType
      BY <1>0, <2>12
    <3>2. \A r \in records : ~Blocks(r, f, o, q.type, g)
      BY <2>1, <2>4, <2>12 DEF Conflict, Blocks
    <3> QED BY <1>0, <2>2, <2>6, <2>11, <2>12, <3>1, <3>2, GrantStep
  <2>13. CASE q.type = "unlock"
    <3>1. Bytes!Put(f, o, "none", g.lo, g.hi) /\ granted' = NoGrant
      BY <2>7, <2>11, <2>13
    <3>2. g.lo \in 0..MaxOff /\ g.hi \in (g.lo + 1)..(MaxOff + 1)
      BY <2>2, OffsetAssumption DEF LockRange, Eof
    <3>3. CASE <<f, o>> \in Bytes!Holders
      <4>1. Bytes!Unlock(<<f, o>>[1], <<f, o>>[2], g.lo, g.hi)
        BY <3>1 DEF Bytes!Unlock, Bytes!NoGrant, NoGrant
      <4> QED BY <3>2, <3>3, <4>1 DEF Bytes!Next
    <3>4. CASE <<f, o>> \notin Bytes!Holders
      <4>1. \A b \in 0..MaxOff : HeldIn(records, f, o, b) = "none"
        BY <1>0, <3>4, HeldNow DEF Bytes!Holders
      <4>2. ASSUME NEW x \in Files, NEW y \in Owner, NEW b \in 0..MaxOff
            PROVE  HeldIn(records', x, y, b) = HeldIn(records, x, y, b)
        BY <2>10, <2>13, <4>1
      <4>3. Held' = Held
        BY <4>2, HeldNow
      <4>4. Bytes!Drop({})
        BY <3>1, <4>3, HeldNow DEF Bytes!Drop, Bytes!NoGrant, NoGrant
      <4> QED BY <4>4 DEF Bytes!Next
    <3> QED BY <3>3, <3>4
  <2> QED BY <2>12, <2>13
<1> QED BY <1>5, <1>6, <1>7

\* No execution splits a flock: its requests are for the whole file.
LEMMA ExecuteWhole ==
  ASSUME LockInv, WholeFlocks, NEW q, WellFormed(q), Exact(q), Execute(q)
  PROVE  WholeFlocks'
<1> DEFINE f == FileOf[q.ofd]
           o == OwnerOf(q)
           g == RangeOf(q)
           B == Base(q)
<1>1. records' = After(q)
  BY DEF Execute
<1>2. B \subseteq records
  BY ReleasesShrink DEF Base
<1>3. CASE Outcome(q) # "ok" \/ Settled(q)
  <2>1. records' = B
    BY <1>1, <1>3 DEF After
  <2> QED BY <1>2, <2>1 DEF WholeFlocks
<1>4. CASE Outcome(q) = "ok" /\ ~Settled(q)
  <2>1. records' = SetLock(B, f, o, q.type, g) /\ Valid(Start(q), q.len)
    BY <1>1, <1>4, OutcomeCases DEF After
  <2>2. g \in LockRange
    <3>1. offset[q.ofd] \in Int /\ q.start \in Int /\ q.len \in Int
      BY OffsetAssumption DEF LockInv, TypeOK, WellFormed
    <3>2. Start(q) \in Int
      BY <3>1 DEF Start
    <3> QED BY <2>1, <3>1, <3>2, NormalizeRange DEF RangeOf
  <2>3. f \in Files /\ o \in Owner /\ q.type \in LockType \cup {"unlock"} /\ o.kind = q.kind
    BY DescriptionAssumption DEF WellFormed, OwnerOf, Owner
  <2>4. o.kind = "flock" => g.lo = 0 /\ g.hi = Eof
    <3>1. q.kind = "flock" => g = [lo |-> 0, hi |-> Eof]
      BY FlockRange
    <3> QED BY <2>3, <3>1
  <2> HIDE DEF B, f, o, g
  <2>5. B \subseteq LockRecord /\ NormalTable(B)
    BY <1>2, PartOfTable DEF LockInv, TypeOK, Normalized
  <2>6. Context(B, f, o, q.type, g)
    BY <2>2, <2>3, <2>5 DEF Context
  <2> SUFFICES ASSUME NEW r \in records', r.owner.kind = "flock"
               PROVE  r.lo = 0 /\ r.hi = Eof
    BY DEF WholeFlocks
  <2>7. /\ r \in LockRecord
        /\ \/ Kept(B, f, o, q.type, g, r) \/ LeftOf(B, f, o, q.type, g, r)
           \/ RightOf(B, f, o, q.type, g, r) \/ Requested(B, f, o, q.type, g, r)
    BY <2>1, <2>6, SetLockCases
  <2>8. CASE Kept(B, f, o, q.type, g, r)
    BY <1>2, <2>8 DEF Kept, WholeFlocks
  <2>9. CASE LeftOf(B, f, o, q.type, g, r) \/ RightOf(B, f, o, q.type, g, r)
    <3>1. PICK c \in B : r.owner = o /\ (c.lo < g.lo \/ g.hi < c.hi)
      BY <2>9 DEF LeftOf, RightOf
    <3>2. c.lo \in 0..MaxOff /\ c.hi \in 1..Eof
      BY <2>5 DEF LockRecord
    <3> QED BY <2>4, <3>1, <3>2, OffsetAssumption DEF Eof
  <2>10. CASE Requested(B, f, o, q.type, g, r)
    <3> DEFINE m == Merged(B, f, o, q.type, g)
    <3>1. /\ r.owner = o /\ r.lo = m.lo /\ r.hi = m.hi
          /\ m.lo \in 0..MaxOff /\ m.hi \in 1..Eof /\ m.lo <= g.lo /\ g.hi <= m.hi
      BY <2>6, <2>10, MergedRange DEF Requested
    <3> HIDE DEF m
    <3> QED BY <2>4, <3>1, OffsetAssumption DEF Eof
  <2> QED BY <2>7, <2>8, <2>9, <2>10
<1> QED BY <1>3, <1>4

\* A release drops whole owners.
LEMMA ReleaseStep ==
  ASSUME LockInv, NEW gone, NEW F, NEW Q,
         Release({r \in records : <<r.file, r.owner>> \notin gone}, F, Q), granted' = NoGrant
  PROVE  Bytes!Next
<1> DEFINE lost == gone \cup {x \in Files \X Owner : x[2].kind # "process" /\ x[2].id \in Final(F, Q)}
<1>1. \A r \in records : <<r.file, r.owner>> \in Files \X Owner
  BY DEF LockInv, TypeOK, LockRecord
<1>2. records' = {r \in {x \in records : <<x.file, x.owner>> \notin gone} :
                    r.owner.kind = "process" \/ r.owner.id \notin Final(F, Q)}
  BY DEF Release, RemoveOfds
<1>3. \A r \in records : /\ <<r.file, r.owner>>[2] = r.owner
                         /\ <<r.file, r.owner>> \in lost <=>
                              \/ <<r.file, r.owner>> \in gone
                              \/ r.owner.kind # "process" /\ r.owner.id \in Final(F, Q)
  BY <1>1
<1>4. records' = {r \in records : <<r.file, r.owner>> \notin lost}
  <2> HIDE DEF lost
  <2> QED BY <1>2, <1>3
<1> HIDE DEF lost
<1> QED BY <1>4, DropStep

\* A lock call is a step of the byte locks, and parks only what it asked for.
LEMMA LockCallBytes ==
  ASSUME LockInv, RequestsInv, NEW t \in Tasks, NEW o \in Ofds,
         NEW kind \in {"process", "ofd", "flock"},
         NEW type \in LockType \cup {"unlock"}, NEW whence \in Whences \cup {"set"},
         NEW start \in Int, NEW len \in Int, NEW wait,
         kind = "flock" => whence = "set" /\ start = 0 /\ len = 0,
         LockCall(t, o, kind, type, whence, start, len, wait)
  PROVE  RequestsInv' /\ Bytes!Next
<1> DEFINE q == [task |-> t, ofd |-> o, kind |-> kind, type |-> type, whence |-> whence,
                 start |-> start, len |-> len,
                 asked |-> Normalize(IF whence = "cur" THEN offset[o] + start ELSE start, len)]
<1>1. /\ Execute(q) /\ UNCHANGED offset
      /\ parked' \subseteq parked \cup {q}
  BY DEF LockCall
<1>2. WellFormed(q) /\ q.whence = whence
  BY DEF WellFormed
<1>3. Exact(q)
  BY DEF Exact, RangeOf, Start
<1> HIDE DEF q
<1>4. WholeFlocks
  BY DEF RequestsInv, WholeFlocks
<1>5. WholeFlocks' /\ Bytes!Next
  BY <1>1, <1>2, <1>3, <1>4, ExecuteStep, ExecuteWhole
<1>6. \A x \in parked \cup {q} : /\ x.whence \in Whences \cup {"set"}
                                 /\ x.asked = RangeOf(x)'
                                 /\ x.kind = "flock" => x.whence = "set" /\ x.start = 0 /\ x.len = 0
  BY <1>1, <1>2, <1>3 DEF RequestsInv, Exact, RangeOf, Start
<1> QED BY <1>1, <1>5, <1>6 DEF RequestsInv, WholeFlocks

\* A step that parks nothing, moves no offset and adds no record keeps the rest.
LEMMA RequestsStay ==
  ASSUME RequestsInv, parked' \subseteq parked, UNCHANGED offset, WholeFlocks'
  PROVE  RequestsInv'
BY DEF RequestsInv, WholeFlocks, RangeOf, Start

\* Every step of the lock state is a step of the byte locks or changes nothing
\* they see.
LEMMA BytesStep ==
  ASSUME LockInv, OwnersInv, RequestsInv, [Next]_vars, [Undisturbed]_vars
  PROVE  RequestsInv' /\ [Bytes!Next]_<<Held, granted>>
<1>0. WholeFlocks
  BY DEF RequestsInv, WholeFlocks
<1>a. records' \subseteq records => WholeFlocks'
  BY <1>0 DEF WholeFlocks
<1>1. ASSUME NEW t \in Tasks, Lock(t) PROVE RequestsInv' /\ Bytes!Next
  <2>1. PICK o \in Ofds, kind \in Kinds, type \in LockType \cup {"unlock"}, wait \in Waits :
          IF kind = "flock" THEN LockCall(t, o, kind, type, "set", 0, 0, wait)
          ELSE \E whence \in Whences, start \in Starts, len \in Lens :
                 LockCall(t, o, kind, type, whence, start, len, wait)
    BY <1>1 DEF Lock
  <2>2. kind \in {"process", "ofd", "flock"}
    BY RequestAssumption
  <2>3. CASE kind = "flock"
    <3>1. LockCall(t, o, kind, type, "set", 0, 0, wait) /\ "set" \in Whences \cup {"set"}
      BY <2>1, <2>3
    <3>2. 0 \in Int
      OBVIOUS
    <3> QED BY <2>2, <3>1, <3>2, LockCallBytes
  <2>4. CASE kind # "flock"
    <3>1. PICK whence \in Whences, start \in Starts, len \in Lens :
            LockCall(t, o, kind, type, whence, start, len, wait)
      BY <2>1, <2>4
    <3>2. start \in Int /\ len \in Int
      BY RequestAssumption
    <3> QED BY <2>2, <2>4, <3>1, <3>2, LockCallBytes
  <2> QED BY <2>3, <2>4
<1>2. ASSUME NEW t \in Tasks, Seek(t) PROVE RequestsInv' /\ Bytes!Next
  <2>1. granted' = NoGrant /\ UNCHANGED <<records, parked>>
    BY <1>2 DEF Seek
  <2>2. \A q \in parked : q.whence = "cur" => offset'[q.ofd] = offset[q.ofd]
    <3>1. Undisturbed \/ offset' = offset
      BY DEF vars
    <3> QED BY <3>1 DEF Undisturbed
  <2>3. \A q \in parked : RangeOf(q)' = RangeOf(q)
    BY <2>2 DEF RangeOf, Start
  <2> QED BY <2>1, <2>3, StillStep DEF RequestsInv
<1>3. ASSUME NEW t \in Tasks, NEW o \in Ofds, Close(t, o) PROVE RequestsInv' /\ Bytes!Next
  <2> DEFINE p == PidOf[t]
             left == [fds EXCEPT ![p][o] = @ - 1]
             rest == RemoveFileOwner(records, FileOf[o], ProcessOwner(p))
             gone == {<<FileOf[o], ProcessOwner(p)>>}
  <2>1. /\ Release(rest, left, parked) /\ granted' = NoGrant /\ UNCHANGED <<parked, offset>>
    BY <1>3 DEF Close
  <2>2. rest = {r \in records : <<r.file, r.owner>> \notin gone} /\ rest \subseteq records
    BY DEF RemoveFileOwner, Own
  <2> HIDE DEF p, left, rest, gone
  <2>3. records' \subseteq records
    BY <2>1, <2>2, ReleasesShrink DEF Release
  <2> QED BY <1>a, <2>1, <2>2, <2>3, ReleaseStep, RequestsStay
<1>4. ASSUME NEW t \in Tasks, Exit(t) PROVE RequestsInv' /\ Bytes!Next
  <2> DEFINE p == PidOf[t]
             left == [fds EXCEPT ![p] = [o \in Ofds |-> 0]]
             others == {q \in parked : PidOf[q.task] # p}
             gone == Files \X {ProcessOwner(p)}
             rest == RemoveProcess(records, p)
  <2>1. /\ Release(rest, left, others) /\ parked' = others
        /\ granted' = NoGrant /\ UNCHANGED offset
    BY <1>4 DEF Exit, Stay
  <2>2. others \subseteq parked
    OBVIOUS
  <2>3. rest = {r \in records : <<r.file, r.owner>> \notin gone} /\ rest \subseteq records
    <3>1. \A r \in records : r.file \in Files
      BY DEF LockInv, TypeOK, LockRecord
    <3> QED BY <3>1 DEF RemoveProcess
  <2> HIDE DEF p, left, others, rest, gone
  <2>4. records' \subseteq records
    BY <2>1, <2>3, ReleasesShrink DEF Release
  <2> QED BY <1>a, <2>1, <2>2, <2>3, <2>4, ReleaseStep, RequestsStay
<1>5. ASSUME NEW t \in Tasks \cup {NoTask}, OtherEntry(t) PROVE RequestsInv' /\ Bytes!Next
  <2>1. granted' = NoGrant /\ UNCHANGED <<records, parked, offset>>
    BY <1>5 DEF OtherEntry
  <2> QED BY <1>a, <2>1, StillStep, RequestsStay
<1>6. CASE ReleaseOrphaned
  <2> DEFINE dead == {o \in Ofds : ~Referenced(o, fds, Pins)}
             gone == IF orphans THEN {x \in Files \X Owner : x[2].kind # "process" /\ x[2].id \in dead}
                     ELSE {}
  <2>1. /\ granted' = NoGrant /\ UNCHANGED <<parked, offset>>
        /\ records' = IF orphans THEN RemoveOfds(records, dead) ELSE records
    BY <1>6 DEF ReleaseOrphaned
  <2>2. records' \subseteq records
    BY <2>1, ReleasesShrink
  <2>3. \A r \in records : <<r.file, r.owner>> \in Files \X Owner /\ <<r.file, r.owner>>[2] = r.owner
    BY DEF LockInv, TypeOK, LockRecord
  <2> HIDE DEF dead
  <2>4. \A r \in records : r \in records' <=> <<r.file, r.owner>> \notin gone
    BY <2>1, <2>3 DEF RemoveOfds
  <2> HIDE DEF gone
  <2>5. records' = {r \in records : <<r.file, r.owner>> \notin gone}
    BY <2>2, <2>4
  <2> QED BY <1>a, <2>1, <2>2, <2>5, DropStep, RequestsStay
<1>7. CASE Round \/ RoundEnds \/ UNCHANGED vars
  <2>1. UNCHANGED <<records, parked, offset, granted>>
    BY <1>7 DEF Round, RoundEnds, vars
  <2>2. Held' = Held
    BY <2>1, HeldNow
  <2> QED BY <1>a, <2>1, <2>2, RequestsStay
<1>8. CASE Retry
  <2>1. PICK q \in todo :
          /\ Execute(q)
          /\ IF Outcome(q) = "EAGAIN" THEN UNCHANGED <<parked, older, ended>>
             ELSE Stay(parked \ {q}) /\ ended' = ended \cup {q}
    BY <1>8 DEF Retry
  <2>2. parked' \subseteq parked /\ UNCHANGED offset
    BY <1>8, <2>1 DEF Retry, Stay
  <2>3. q \in parked /\ q \in Request
    BY DEF OwnersInv, EntryInv, LockInv, TypeOK
  <2>4. WellFormed(q) /\ Exact(q)
    BY <2>3 DEF Request, WellFormed, Exact, RequestsInv
  <2>5. Bytes!Next /\ WholeFlocks'
    BY <1>0, <2>1, <2>4, ExecuteStep, ExecuteWhole
  <2> QED BY <2>2, <2>5, RequestsStay
<1>9. CASE Finish
  <2> DEFINE stay == {q \in parked : q.task # hit}
             gone == {}
  <2>1. Release(records, fds, stay) /\ parked' = stay /\ granted' = NoGrant /\ UNCHANGED offset
    BY <1>9 DEF Finish, Stay
  <2>2. stay \subseteq parked /\ records = {r \in records : <<r.file, r.owner>> \notin gone}
    OBVIOUS
  <2> HIDE DEF stay, gone
  <2>3. records' \subseteq records
    BY <2>1, ReleasesShrink DEF Release
  <2>4. Bytes!Next
    BY <2>1, <2>2, ReleaseStep
  <2> QED BY <1>a, <2>1, <2>2, <2>3, <2>4, RequestsStay
<1> QED
  BY <1>1, <1>2, <1>3, <1>4, <1>5, <1>6, <1>7, <1>8, <1>9 DEF Next, SystemCall, Settle

\* The initial tables hold nothing.
LEMMA InitBytes == Init => RequestsInv /\ Bytes!Init
<1> SUFFICES ASSUME Init PROVE RequestsInv /\ Bytes!Init
  OBVIOUS
<1>1. records = {} /\ parked = {} /\ granted = NoGrant
  BY DEF Init
<1>2. \A f, o, b : HeldIn(records, f, o, b) = "none"
  BY <1>1 DEF HeldIn, Own
<1> QED BY <1>1, <1>2, HeldNow DEF RequestsInv, Bytes!Init, Bytes!NoGrant, NoGrant

\* The table of split and merged ranges implements locks on single bytes, as
\* long as no one seeks under a sleeping request: every call, re-execution,
\* close and exit grants exactly the bytes asked for where no other owner is in
\* the way, unlocks exactly those, or drops whole owners.
THEOREM RangesImplementBytes == Spec /\ [][Undisturbed]_vars => ImplementsByteLocks
<1>1. LockInv /\ OwnersInv /\ RequestsInv /\ [Next]_vars /\ [Undisturbed]_vars =>
        RequestsInv' /\ [Bytes!Next]_<<Held, granted>>
  BY BytesStep
<1> QED BY <1>1, InitBytes, OwnersInvariant, PTL DEF Spec, ImplementsByteLocks, Bytes!Spec

\* Machines whose guests never seek, or never lock relative to the offset, need
\* no such proviso.
THEOREM SteadyImplementsBytes ==
  ASSUME Steady
  PROVE  Spec => ImplementsByteLocks
<1>1. ASSUME LockInv, OwnersInv, RequestsInv, [Next]_vars
      PROVE  [Undisturbed]_vars
  <2>1. offset' = offset \/ "seek" \in Others
    <3>1. ASSUME NEW t \in Tasks, SystemCall(t) PROVE offset' = offset \/ "seek" \in Others
      <4>1. Lock(t) => UNCHANGED offset
        <5>1. ASSUME NEW o, NEW kind, NEW type, NEW whence, NEW start, NEW len, NEW wait,
                     LockCall(t, o, kind, type, whence, start, len, wait)
              PROVE  UNCHANGED offset
          BY <5>1 DEF LockCall
        <5> QED BY <5>1 DEF Lock
      <4>2. Seek(t) => "seek" \in Others
        BY DEF Seek
      <4>3. \A o \in Ofds : Close(t, o) => UNCHANGED offset
        BY DEF Close
      <4>4. Exit(t) => UNCHANGED offset
        BY DEF Exit
      <4> QED BY <3>1, <4>1, <4>2, <4>3, <4>4 DEF SystemCall
    <3>2. ASSUME NEW t \in Tasks \cup {NoTask}, OtherEntry(t) PROVE offset' = offset
      BY <3>2 DEF OtherEntry
    <3>3. Settle => offset' = offset
      BY DEF Settle, ReleaseOrphaned, Round, Retry, RoundEnds, Finish
    <3>4. UNCHANGED vars => offset' = offset
      BY DEF vars
    <3> QED BY <1>1, <3>1, <3>2, <3>3, <3>4 DEF Next
  <2>2. "cur" \notin Whences => \A q \in parked : q.whence # "cur"
    BY <1>1 DEF RequestsInv
  <2> QED BY <2>1, <2>2 DEF Steady, Undisturbed
<1>2. LockInv /\ OwnersInv /\ RequestsInv /\ [Next]_vars =>
        RequestsInv' /\ [Bytes!Next]_<<Held, granted>>
  BY <1>1, BytesStep
<1> QED BY <1>2, InitBytes, OwnersInvariant, PTL DEF Spec, ImplementsByteLocks, Bytes!Spec

\* Likewise a granted lock covers what the call asked for until the next step
\* that changes the table: only a seek under a sleeping request can part the two.
THEOREM GrantsAreAsAsked == Spec /\ [][Undisturbed]_vars => []GrantedAsAsked
<1>1. Init => GrantedAsAsked
  BY DEF Init, GrantedAsAsked
<1>2. ASSUME GrantedAsAsked, [Bytes!Next]_<<Held, granted>>, LockInv, LockInv'
      PROVE  GrantedAsAsked'
  <2>0. \A x \in {granted'} \ {NoGrant} : x \in LockRecord
    BY <1>2 DEF LockInv, TypeOK
  <2>1. CASE UNCHANGED <<Held, granted>>
    <3> SUFFICES ASSUME granted' # NoGrant, NEW b \in granted'.lo..(granted'.hi - 1)
                 PROVE  HeldType(granted.file, granted.owner, b)' = granted'.type
      BY <2>1 DEF GrantedAsAsked
    <3>1. granted' \in LockRecord
      BY <2>0
    <3>2. /\ granted'.file \in Files /\ granted'.owner \in Owner /\ b \in 0..MaxOff
      BY <3>1, OffsetAssumption DEF LockRecord, Eof
    <3>3. HeldType(granted.file, granted.owner, b)' = Held'[granted'.file][granted'.owner][b]
      BY <3>2 DEF Held
    <3>4. HeldType(granted.file, granted.owner, b) = Held[granted.file][granted.owner][b]
      BY <2>1, <3>2 DEF Held
    <3> QED BY <1>2, <2>1, <3>3, <3>4 DEF GrantedAsAsked
  <2>2. CASE granted' = NoGrant
    BY <2>2 DEF GrantedAsAsked
  <2>3. ASSUME NEW f \in Files, NEW o \in Owner, NEW t, NEW lo \in 0..MaxOff,
               NEW hi \in (lo + 1)..(MaxOff + 1), Bytes!Grant(f, o, t, lo, hi)
        PROVE  GrantedAsAsked'
    <3>1. /\ granted' = [file |-> f, owner |-> o, type |-> t, lo |-> lo, hi |-> hi]
          /\ Held' = [Held EXCEPT ![f][o] =
                        [b \in 0..MaxOff |-> IF b \in lo..(hi - 1) THEN t ELSE Held[f][o][b]]]
      BY <2>3 DEF Bytes!Grant, Bytes!Put
    <3>2. ASSUME NEW b \in lo..(hi - 1)
          PROVE  HeldType(f, o, b)' = t
      <4>1. b \in 0..MaxOff
        BY OffsetAssumption
      <4>2. HeldType(f, o, b)' = Held'[f][o][b]
        BY <4>1 DEF Held
      <4>3. Held[f] \in [Owner -> [0..MaxOff -> {HeldType(f, y, c) : y \in Owner, c \in 0..MaxOff}]]
        BY DEF Held
      <4> QED BY <3>1, <4>1, <4>2, <4>3, HeldNow
    <3> QED BY <3>1, <3>2 DEF GrantedAsAsked
  <2>4. ASSUME Bytes!Next, granted' # NoGrant PROVE GrantedAsAsked'
    <3>1. \A S : ~Bytes!Drop(S)
      BY <2>4 DEF Bytes!Drop, Bytes!NoGrant, NoGrant
    <3>2. \A f, o, lo, hi : ~Bytes!Unlock(f, o, lo, hi)
      BY <2>4 DEF Bytes!Unlock, Bytes!NoGrant, NoGrant
    <3>3. PICK lo \in 0..MaxOff : \E hi \in (lo + 1)..(MaxOff + 1) :
            \E f \in Files, o \in Owner, t \in {"read", "write"} : Bytes!Grant(f, o, t, lo, hi)
      BY <2>4, <3>1, <3>2, Zenon DEF Bytes!Next
    <3> QED BY <2>3, <3>3
  <2> QED BY <1>2, <2>1, <2>2, <2>3, <2>4
<1>3. LockInv /\ OwnersInv /\ RequestsInv /\ [Next]_vars /\ [Undisturbed]_vars =>
        RequestsInv' /\ [Bytes!Next]_<<Held, granted>>
  BY BytesStep
<1> QED BY <1>1, <1>2, <1>3, InitBytes, OwnersInvariant, PTL DEF Spec

-----------------------------------------------------------------------------
(* Sleeping requests *)

\* Someone else's lock is in the way of q.
Blocked(q) == \E r \in records : Blocks(r, FileOf[q.ofd], OwnerOf(q), q.type, RangeOf(q))

\* No wake is lost: a sleeping request is blocked, or a change has been noted
\* and not yet looked at, or the current round still re-executes it.  Its range
\* is still valid.
WakeInv ==
  /\ \A q \in parked : Blocked(q) \/ noted \/ q \in todo
  /\ \A q \in parked : Valid(Start(q), q.len)
  /\ pc = "finish" => ~noted

\* A blocked request, executed now, would still block: conversion drops only the
\* request's own records, and a request that holds its mode already is not
\* blocked at all.
LEMMA BlockedOutcome ==
  ASSUME LockInv, WholeFlocks, NEW q \in Request, Exact(q), Blocked(q),
         Valid(Start(q), q.len)
  PROVE  Outcome(q) = "EAGAIN"
<1> DEFINE f == FileOf[q.ofd]
           o == OwnerOf(q)
           g == RangeOf(q)
<1>1. PICK r \in records : Blocks(r, f, o, q.type, g)
  BY DEF Blocked
<1>2. q.type \in LockType /\ q.type # "unlock" /\ o.kind = q.kind /\ g \in LockRange
  BY DEF Request, LockType, OwnerOf, Exact
<1>3. r \in Base(q)
  BY <1>1 DEF Base, RemoveFileOwner, Own, Blocks
<1>4. Conflict(Base(q), f, o, q.type, g)
  BY <1>1, <1>2, <1>3 DEF Conflict
<1>5. ~Settled(q)
  <2> SUFFICES ASSUME Settled(q) PROVE FALSE
    OBVIOUS
  <2>1. PICK s \in records : s.file = f /\ s.owner = o /\ s.type = q.type
    BY DEF Settled, Own
  <2>2. s.lo = 0 /\ s.hi = Eof
    BY <1>2, <2>1 DEF Settled, Converts, WholeFlocks
  <2>3. r \in LockRecord
    BY DEF LockInv, TypeOK
  <2>4. Overlaps(s, r)
    BY <2>2, <2>3, OffsetAssumption DEF Overlaps, LockRecord, Eof
  <2> HIDE DEF f, o, g
  <2>5. s.owner # r.owner /\ s.file = r.file /\ SameSpace(s.owner, r.owner)
    BY <1>1, <2>1 DEF Blocks, SameSpace
  <2>6. s.type = "read" /\ r.type = "read"
    BY <2>4, <2>5 DEF LockInv, Exclusive, ExclusiveTable
  <2> QED BY <1>1, <2>1, <2>6 DEF Blocks
<1> QED BY <1>4, <1>5 DEF Outcome

\* A set_lock that announces nothing takes no byte from anyone: whatever record
\* covered a byte is followed by one of its owner and type that does.
LEMMA QuietSetLock ==
  ASSUME NEW R, NEW f, NEW o, NEW t, NEW g, Context(R, f, o, t, g),
         ~MayUnblock(R, f, o, t, g),
         NEW r \in R, NEW b \in 0..MaxOff, r.lo <= b, b < r.hi
  PROVE  Covers(SetLock(R, f, o, t, g), r.file, r.owner, b, r.type)
<1>1. r \in LockRecord /\ g.lo \in Int /\ g.hi \in Int /\ b \in Int
  BY OffsetAssumption DEF Context, LockRange, Eof
<1>2. CASE ~(r.file = f /\ r.owner = o)
  <2>1. r \in Own(SetLock(R, f, o, t, g), r.file, r.owner)
    BY <1>2, SetLockOthers DEF Own
  <2> QED BY <2>1 DEF Own, Covers
<1>3. CASE r.file = f /\ r.owner = o /\ t = "unlock"
  <2>1. r \in SetLock(R, f, o, t, g)
    BY <1>3 DEF MayUnblock, SetLock
  <2> QED BY <2>1 DEF Covers
<1>4. CASE r.file = f /\ r.owner = o /\ t # "unlock"
  <2>1. Covers(R, f, o, b, r.type) /\ r.type \in LockType
    BY <1>1, <1>4 DEF Covers, LockRecord
  <2>2. g.lo <= b /\ b < g.hi => r.type = t
    <3> SUFFICES ASSUME g.lo <= b, b < g.hi PROVE r.type = t
      OBVIOUS
    <3>1. Overlaps(r, g)
      BY <1>1, OffsetAssumption DEF Overlaps, LockRecord, Eof
    <3> QED BY <1>4, <3>1 DEF MayUnblock, Cut, Own
  <2> QED BY <1>4, <2>1, <2>2, SetLockExact
<1> QED BY <1>2, <1>3, <1>4

\* Hence an execution that announces nothing unblocks nobody.
LEMMA QuietExecution ==
  ASSUME LockInv, NEW q, WellFormed(q), Execute(q), ~Announced(q),
         NEW x, RangeOf(x) \in LockRange, RangeOf(x)' = RangeOf(x), Blocked(x)
  PROVE  Blocked(x)'
<1> DEFINE h == RangeOf(x)
<1>1. PICK r \in records : Blocks(r, FileOf[x.ofd], OwnerOf(x), x.type, h)
  BY DEF Blocked
<1>2. /\ h.lo \in 0..MaxOff /\ h.hi \in 1..Eof /\ h.lo < h.hi /\ r \in LockRecord
  BY DEF LockRange, LockInv, TypeOK
<1> HIDE DEF h
<1>3. PICK b \in 0..MaxOff : r.lo <= b /\ b < r.hi /\ h.lo <= b /\ b < h.hi
  <2>1. /\ r.lo \in 0..MaxOff /\ r.hi \in 1..Eof /\ r.lo < r.hi /\ r.hi > h.lo /\ r.lo < h.hi
    BY <1>1, <1>2 DEF Blocks, Overlaps, LockRecord
  <2>2. CASE r.lo <= h.lo
    BY <1>2, <2>1, <2>2, OffsetAssumption
  <2>3. CASE h.lo <= r.lo
    BY <1>2, <2>1, <2>3, OffsetAssumption
  <2> QED BY <1>2, <2>1, <2>2, <2>3, OffsetAssumption
<1>4. Covers(records', r.file, r.owner, b, r.type)
  <2>1. Base(q) = records
    BY DEF Announced
  <2>2. CASE Outcome(q) = "ok" /\ ~Settled(q)
    <3>1. Valid(Start(q), q.len)
      BY <2>2, OutcomeCases
    <3>2. RangeOf(q) \in LockRange
      <4>1. offset[q.ofd] \in Int /\ q.start \in Int /\ q.len \in Int
        BY OffsetAssumption DEF LockInv, TypeOK, WellFormed
      <4>2. Start(q) \in Int
        BY <4>1 DEF Start
      <4> QED BY <3>1, <4>1, <4>2, NormalizeRange DEF RangeOf
    <3>3. FileOf[q.ofd] \in Files /\ OwnerOf(q) \in Owner
      BY DescriptionAssumption DEF WellFormed, OwnerOf, Owner
    <3>4. Context(records, FileOf[q.ofd], OwnerOf(q), q.type, RangeOf(q))
      BY <3>2, <3>3 DEF Context, WellFormed, LockInv, TypeOK, Normalized
    <3>5. ~MayUnblock(records, FileOf[q.ofd], OwnerOf(q), q.type, RangeOf(q))
      BY <2>1, <2>2 DEF Announced
    <3>6. records' = SetLock(records, FileOf[q.ofd], OwnerOf(q), q.type, RangeOf(q))
      BY <2>1, <2>2 DEF Execute, After
    <3> QED BY <1>3, <3>4, <3>5, <3>6, QuietSetLock
  <2>3. CASE ~(Outcome(q) = "ok" /\ ~Settled(q))
    <3>1. records' = records
      BY <2>1, <2>3 DEF Execute, After
    <3> QED BY <1>3, <3>1 DEF Covers
  <2> QED BY <2>2, <2>3
<1>5. PICK s \in records' : /\ s.file = r.file /\ s.owner = r.owner /\ s.type = r.type
                            /\ s.lo <= b /\ b < s.hi
  BY <1>4 DEF Covers
<1>6. s \in LockRecord
  BY ExecutionSafe DEF Execute
<1>7. Overlaps(s, h)
  BY <1>2, <1>3, <1>5, <1>6, OffsetAssumption DEF Overlaps, LockRecord, Eof
<1>8. Blocks(s, FileOf[x.ofd], OwnerOf(x), x.type, h)
  BY <1>1, <1>5, <1>7 DEF Blocks
<1> QED BY <1>8 DEF Blocked, h, OwnerOf

\* A request that blocks has someone in the way, after the conversion it begins
\* with.
LEMMA BlocksAfter ==
  ASSUME LockInv, NEW q, Execute(q), Outcome(q) = "EAGAIN", UNCHANGED offset
  PROVE  records' = Base(q) /\ Blocked(q)' /\ Valid(Start(q), q.len)
<1>1. records' = Base(q)
  BY DEF Execute, After
<1>2. Conflict(Base(q), FileOf[q.ofd], OwnerOf(q), q.type, RangeOf(q))
  <2>1. ~Settled(q)
    BY DEF Outcome
  <2>2. Valid(Start(q), q.len)
    BY OutcomeCases
  <2> QED BY <2>1, <2>2 DEF Outcome
<1>3. RangeOf(q)' = RangeOf(q)
  BY DEF RangeOf, Start
<1> QED BY <1>1, <1>2, <1>3, OutcomeCases DEF Conflict, Blocked, OwnerOf

\* No step loses a wake.
LEMMA WakeStep ==
  ASSUME LockInv, OwnersInv, RequestsInv, WakeInv, [Next]_vars, [Undisturbed]_vars
  PROVE  WakeInv'
<1>a. \A x \in parked : Start(x)' = Start(x) /\ RangeOf(x)' = RangeOf(x) /\ RangeOf(x) \in LockRange
  <2>1. Undisturbed \/ offset' = offset
    BY DEF vars
  <2>2. \A x \in parked : Start(x)' = Start(x)
    BY <2>1 DEF Undisturbed, Start
  <2>3. \A x \in parked : x.asked = RangeOf(x) /\ x.asked \in LockRange
    BY DEF RequestsInv, LockInv, TypeOK, Request
  <2> QED BY <2>2, <2>3 DEF RangeOf
<1>b. records' = records => \A x \in parked : Blocked(x) => Blocked(x)'
  BY <1>a DEF Blocked, OwnerOf
<1>c. ASSUME Noted(records' # records), parked' \subseteq parked, todo' = todo, pc' # "finish"
      PROVE  WakeInv'
  BY <1>a, <1>b, <1>c DEF WakeInv, Noted
<1>d. ASSUME NEW q, WellFormed(q), Execute(q), UNCHANGED offset,
             NEW x \in parked, Blocked(x) \/ noted
      PROVE  Blocked(x)' \/ noted'
  <2>1. noted' = (noted \/ (Announced(q) /\ parked # {}))
    BY <1>d DEF Execute, Noted
  <2>2. CASE noted \/ Announced(q)
    BY <2>1, <2>2
  <2>3. CASE ~noted /\ ~Announced(q)
    BY <1>a, <1>d, <2>3, QuietExecution
  <2> QED BY <2>2, <2>3
<1>e. ASSUME NEW t \in Tasks, NEW o \in Ofds, NEW kind \in {"process", "ofd", "flock"},
             NEW type \in LockType \cup {"unlock"}, NEW whence,
             NEW start \in Int, NEW len \in Int, NEW wait,
             LockCall(t, o, kind, type, whence, start, len, wait)
      PROVE  WakeInv'
  <2> DEFINE call == [task |-> t, ofd |-> o, kind |-> kind, type |-> type, whence |-> whence,
                      start |-> start, len |-> len,
                      asked |-> Normalize(IF whence = "cur" THEN offset[o] + start ELSE start, len)]
  <2>0. PICK q : q = call
    OBVIOUS
  <2>1. /\ Execute(q) /\ UNCHANGED <<offset, todo>>
        /\ parked' = parked \/ (parked' = parked \cup {q} /\ Outcome(q) = "EAGAIN")
        /\ pc' \in {"idle", "orphans"} /\ pc = "idle"
    BY <1>e, <2>0 DEF LockCall, Enters
  <2>2. WellFormed(q)
    BY <2>0 DEF WellFormed
  <2> HIDE DEF call
  <2>3. todo = {}
    BY <2>1 DEF OwnersInv, EntryInv
  <2>4. \A x \in parked : Blocked(x)' \/ noted'
    BY <1>d, <2>1, <2>2, <2>3 DEF WakeInv
  <2>5. \A x \in parked : Valid(Start(x), x.len)'
    BY <1>a DEF WakeInv
  <2>6. Outcome(q) = "EAGAIN" => Blocked(q)' /\ Valid(Start(q), q.len)'
    <3>1. Start(q)' = Start(q)
      BY <2>1 DEF Start
    <3>2. Outcome(q) = "EAGAIN" => Blocked(q)' /\ Valid(Start(q), q.len)
      BY <2>1, BlocksAfter
    <3> QED BY <3>1, <3>2
  <2>7. \A x \in parked' : Blocked(x)' \/ noted' \/ x \in todo'
    BY <2>1, <2>4, <2>6
  <2>8. \A x \in parked' : Valid(Start(x), x.len)'
    BY <2>1, <2>5, <2>6
  <2> QED BY <2>1, <2>7, <2>8 DEF WakeInv
<1>1. ASSUME NEW t \in Tasks, Lock(t) PROVE WakeInv'
  <2>1. PICK o \in Ofds, kind \in Kinds, type \in LockType \cup {"unlock"}, wait \in Waits :
          IF kind = "flock" THEN LockCall(t, o, kind, type, "set", 0, 0, wait)
          ELSE \E whence \in Whences, start \in Starts, len \in Lens :
                 LockCall(t, o, kind, type, whence, start, len, wait)
    BY <1>1 DEF Lock
  <2>2. kind \in {"process", "ofd", "flock"}
    BY RequestAssumption
  <2>3. CASE kind = "flock"
    <3>1. LockCall(t, o, kind, type, "set", 0, 0, wait) /\ 0 \in Int
      BY <2>1, <2>3
    <3> QED BY <1>e, <2>2, <3>1
  <2>4. CASE kind # "flock"
    <3>1. PICK whence \in Whences, start \in Starts, len \in Lens :
            LockCall(t, o, kind, type, whence, start, len, wait)
      BY <2>1, <2>4
    <3>2. start \in Int /\ len \in Int
      BY RequestAssumption
    <3> QED BY <1>e, <2>2, <3>1, <3>2
  <2> QED BY <2>3, <2>4
<1>2. ASSUME NEW t \in Tasks, Seek(t) PROVE WakeInv'
  <2>1. UNCHANGED <<records, parked, noted, todo>> /\ pc' = "orphans"
    BY <1>2 DEF Seek
  <2> QED BY <1>a, <1>b, <2>1 DEF WakeInv
<1>3. ASSUME NEW t \in Tasks, NEW o \in Ofds, Close(t, o) PROVE WakeInv'
  <2>1. Noted(records' # records) /\ UNCHANGED <<parked, todo>> /\ pc' = "orphans"
    BY <1>3 DEF Close, Release
  <2> QED BY <1>c, <2>1
<1>4. ASSUME NEW t \in Tasks, Exit(t) PROVE WakeInv'
  <2>1. Noted(records' # records) /\ parked' \subseteq parked /\ todo' = todo /\ pc' = "orphans"
    BY <1>4 DEF Exit, Release, Stay
  <2> QED BY <1>c, <2>1
<1>5. ASSUME NEW t \in Tasks \cup {NoTask}, OtherEntry(t) PROVE WakeInv'
  <2>1. UNCHANGED <<records, parked, noted, todo>> /\ pc' = "orphans"
    BY <1>5 DEF OtherEntry
  <2> QED BY <1>a, <1>b, <2>1 DEF WakeInv
<1>6. CASE ReleaseOrphaned
  <2>1. Noted(records' # records) /\ parked' = parked /\ todo' = todo /\ pc' = "rounds"
    BY <1>6 DEF ReleaseOrphaned
  <2> QED BY <1>c, <2>1
<1>7. CASE Round
  <2>1. /\ pc = "rounds" /\ UNCHANGED <<records, parked>>
        /\ todo' = (IF noted THEN parked ELSE todo) /\ noted' = FALSE
    BY <1>7 DEF Round
  <2>2. todo = {}
    BY <2>1 DEF OwnersInv, EntryInv
  <2>3. \A x \in parked' : Blocked(x)' \/ noted' \/ x \in todo'
    BY <1>b, <2>1, <2>2 DEF WakeInv
  <2> QED BY <1>a, <2>1, <2>3 DEF WakeInv
<1>8. CASE Retry
  <2>1. PICK q \in todo :
          /\ Execute(q) /\ todo' = todo \ {q}
          /\ IF Outcome(q) = "EAGAIN" THEN UNCHANGED <<parked, older, ended>>
             ELSE Stay(parked \ {q}) /\ ended' = ended \cup {q}
    BY <1>8 DEF Retry
  <2>2. pc = "retrying" /\ UNCHANGED <<offset, pc>>
    BY <1>8 DEF Retry
  <2>3. q \in Request
    BY DEF LockInv, TypeOK
  <2>4. WellFormed(q)
    BY <2>3 DEF Request, WellFormed
  <2>5. parked' \subseteq parked /\ (Outcome(q) # "EAGAIN" => q \notin parked')
    BY <2>1 DEF Stay
  <2>6. ASSUME NEW x \in parked' PROVE Blocked(x)' \/ noted' \/ x \in todo'
    <3>1. CASE x = q
      BY <2>1, <2>2, <2>5, <2>6, <3>1, BlocksAfter
    <3>2. CASE x # q
      BY <1>d, <2>1, <2>2, <2>4, <2>5, <2>6, <3>2 DEF WakeInv
    <3> QED BY <3>1, <3>2
  <2> QED BY <1>a, <2>2, <2>5, <2>6 DEF WakeInv
<1>9. CASE RoundEnds
  <2>1. UNCHANGED <<records, parked, noted, todo>> /\ pc' = "rounds"
    BY <1>9 DEF RoundEnds
  <2> QED BY <1>a, <1>b, <2>1 DEF WakeInv
<1>10. CASE Finish
  <2>1. /\ Noted(records' # records) /\ parked' \subseteq parked /\ todo' = todo
        /\ pc' \in {"orphans", "idle"}
    BY <1>10 DEF Finish, Release, Stay
  <2> QED BY <1>c, <2>1
<1>11. CASE UNCHANGED vars
  <2>1. UNCHANGED <<records, parked, noted, todo, pc>>
    BY <1>11 DEF vars
  <2> QED BY <1>a, <1>b, <2>1 DEF WakeInv
<1> QED
  BY <1>1, <1>2, <1>3, <1>4, <1>5, <1>6, <1>7, <1>8, <1>9, <1>10, <1>11
  DEF Next, SystemCall, Settle

\* The invariants of sleeping requests, together.
SleepInv == LockInv /\ OwnersInv /\ RequestsInv /\ WakeInv

\* They hold whenever no seek moves a request that waits.
LEMMA SleepInvariant == Spec /\ [][Undisturbed]_vars => []SleepInv
<1>1. Init => WakeInv
  BY DEF Init, WakeInv
<1>2. LockInv /\ OwnersInv /\ RequestsInv /\ WakeInv /\ [Next]_vars /\ [Undisturbed]_vars =>
        RequestsInv' /\ WakeInv'
  BY BytesStep, WakeStep
<1> QED BY <1>1, <1>2, InitBytes, OwnersInvariant, PTL DEF Spec, SleepInv

\* Between entries a sleeping request is one that would block again, unless a
\* change is noted.
LEMMA SleepersBlock ==
  ASSUME SleepInv, pc = "idle", ~noted, NEW q \in parked
  PROVE  Outcome(q) = "EAGAIN"
<1>1. q \in Request /\ Exact(q) /\ WholeFlocks
  BY DEF SleepInv, LockInv, TypeOK, RequestsInv, Exact, WholeFlocks
<1>2. todo = {}
  BY DEF SleepInv, OwnersInv, EntryInv
<1>3. Blocked(q) /\ Valid(Start(q), q.len)
  BY <1>2 DEF SleepInv, WakeInv
<1> QED BY <1>1, <1>3, BlockedOutcome DEF SleepInv

\* No lock that becomes free is lost on a sleeper: at the end of an entry every
\* request that could be granted has been, or the change that frees it is noted
\* and the next entry's drain looks at it.
THEOREM NoLostLockWake ==
  Spec /\ [][Undisturbed]_vars =>
    [](pc = "idle" /\ ~noted => \A q \in parked : Outcome(q) = "EAGAIN")
<1>1. SleepInv => (pc = "idle" /\ ~noted => \A q \in parked : Outcome(q) = "EAGAIN")
  BY SleepersBlock
<1> QED BY <1>1, SleepInvariant, PTL

\* Without flock no entry ends with a change noted (a call that parks has changed
\* nothing: only flock drops a mode before it blocks, the run
\* AdvisoryLockConversion), so that no fcntl or OFD request ever sleeps on a lock
\* that is free.
THEOREM FcntlWaitersBlocked ==
  ASSUME "flock" \notin Kinds
  PROVE  Spec /\ [][Undisturbed]_vars => []NoGrantableWaiter
<1> DEFINE Quiet == pc = "idle" => ~noted
<1>1. Init => Quiet
  BY DEF Init
<1>2. ASSUME SleepInv, Quiet, [Next]_vars PROVE Quiet'
  <2>1. ASSUME NEW t \in Tasks, Lock(t) PROVE Quiet'
    <3>1. PICK o \in Ofds, kind \in Kinds, type \in LockType \cup {"unlock"}, wait \in Waits :
            \E whence \in Whences, start \in Starts, len \in Lens :
              LockCall(t, o, kind, type, whence, start, len, wait)
      BY <2>1 DEF Lock
    <3>2. PICK whence \in Whences, start \in Starts, len \in Lens :
            LockCall(t, o, kind, type, whence, start, len, wait)
      BY <3>1
    <3> DEFINE call == [task |-> t, ofd |-> o, kind |-> kind, type |-> type, whence |-> whence,
                        start |-> start, len |-> len,
                        asked |-> Normalize(IF whence = "cur" THEN offset[o] + start ELSE start, len)]
    <3>3. PICK q : q = call
      OBVIOUS
    <3>4. /\ Execute(q) /\ pc = "idle"
          /\ pc' = "idle" => Outcome(q) = "EAGAIN"
      BY <3>2, <3>3 DEF LockCall, Enters
    <3>5. q.kind # "flock"
      BY <3>3
    <3> HIDE DEF call
    <3>6. Base(q) = records
      BY <3>5 DEF Base, Converts
    <3>7. Outcome(q) = "EAGAIN" => ~Announced(q)
      BY <3>6 DEF Announced
    <3> QED BY <1>2, <3>4, <3>7 DEF Execute, Noted
  <2>2. ASSUME NEW t \in Tasks, Seek(t) \/ Exit(t) \/ \E o \in Ofds : Close(t, o) PROVE Quiet'
    BY <2>2 DEF Seek, Exit, Close
  <2>3. ASSUME NEW t \in Tasks \cup {NoTask}, OtherEntry(t) PROVE Quiet'
    BY <2>3 DEF OtherEntry
  <2>4. CASE ReleaseOrphaned \/ Round \/ Retry \/ RoundEnds
    <3>1. pc' # "idle"
      BY <2>4 DEF ReleaseOrphaned, Round, Retry, RoundEnds
    <3> QED BY <3>1
  <2>5. CASE Finish
    <3> SUFFICES ASSUME pc' = "idle" PROVE ~noted'
      OBVIOUS
    <3> DEFINE stay == {q \in parked : q.task # hit}
    <3>1. /\ pc = "finish" /\ ended = {} /\ stay = parked /\ Release(records, fds, stay)
      BY <2>5 DEF Finish
    <3> HIDE DEF stay
    <3>2. ~noted /\ ~orphans
      BY <1>2, <3>1 DEF SleepInv, WakeInv, OwnersInv, EntryInv
    <3>3. RemoveOfds(records, Final(fds, stay)) = records
      <4>1. \A r \in records : r.owner.kind # "process" => Referenced(r.owner.id, fds, stay)
        BY <1>2, <3>1, <3>2 DEF SleepInv, OwnersInv, OwnedInv, Pins
      <4>2. \A r \in records : r.owner.kind # "process" => r.owner.id \notin Final(fds, stay)
        BY <4>1, FinalUnreferenced
      <4> QED BY <4>2 DEF RemoveOfds
    <3> QED BY <3>1, <3>2, <3>3 DEF Release, Noted
  <2>6. CASE UNCHANGED vars
    BY <1>2, <2>6 DEF vars
  <2> QED BY <1>2, <2>1, <2>2, <2>3, <2>4, <2>5, <2>6 DEF Next, SystemCall, Settle
<1>3. SleepInv /\ Quiet => NoGrantableWaiter
  BY SleepersBlock DEF NoGrantableWaiter
<1> QED BY <1>1, <1>2, <1>3, SleepInvariant, PTL DEF Spec

-----------------------------------------------------------------------------
(* Conversions *)

\* Every description is used by one thread.  Where two share one, the other may
\* take a lock for the description whose conversion sleeps (see the run
\* AdvisoryLockConversion).
Private ==
  \A t, u \in Tasks, o \in Ofds :
    Descriptors[PidOf[t]][o] > 0 /\ Descriptors[PidOf[u]][o] > 0 => t = u

\* A flock request that sleeps has dropped the mode it held, and it is its
\* thread's only request.
DropInv ==
  /\ \A p \in Pids, o \in Ofds : fds[p][o] > 0 => Descriptors[p][o] > 0
  /\ \A q \in parked : Descriptors[PidOf[q.task]][q.ofd] > 0
  /\ \A p, q \in parked : p.task = q.task => p = q
  /\ \A q \in parked : q.kind = "flock" => Own(records, FileOf[q.ofd], OwnerOf(q)) = {}

\* An execution leaves the other owners' records alone; a conversion that blocks
\* leaves its owner none.
LEMMA ExecutionOthers ==
  ASSUME LockInv, NEW q, WellFormed(q), Execute(q)
  PROVE  /\ \A f, o : o # OwnerOf(q) /\ Own(records, f, o) = {} => Own(records', f, o) = {}
         /\ q.kind = "flock" /\ Outcome(q) = "EAGAIN" =>
              Own(records', FileOf[q.ofd], OwnerOf(q)) = {}
<1>1. ASSUME NEW f, NEW o, o # OwnerOf(q), Own(records, f, o) = {} PROVE Own(records', f, o) = {}
  <2>1. Own(Base(q), f, o) = {} /\ Base(q) \in SUBSET records
    BY <1>1 DEF Base, RemoveFileOwner, Own
  <2>2. CASE Outcome(q) # "ok" \/ Settled(q)
    BY <2>1, <2>2 DEF Execute, After
  <2>3. CASE Outcome(q) = "ok" /\ ~Settled(q)
    <3>1. RangeOf(q) \in LockRange
      <4>1. offset[q.ofd] \in Int /\ q.start \in Int /\ q.len \in Int
        BY OffsetAssumption DEF LockInv, TypeOK, WellFormed
      <4>2. Start(q) \in Int /\ Valid(Start(q), q.len)
        BY <2>3, <4>1, OutcomeCases DEF Start
      <4> QED BY <4>1, <4>2, NormalizeRange DEF RangeOf
    <3>2. FileOf[q.ofd] \in Files /\ OwnerOf(q) \in Owner
      BY DescriptionAssumption DEF WellFormed, OwnerOf, Owner
    <3>3. NormalTable(Base(q)) /\ Base(q) \subseteq LockRecord
      BY <2>1, PartOfTable DEF LockInv, Normalized, TypeOK
    <3>4. Context(Base(q), FileOf[q.ofd], OwnerOf(q), q.type, RangeOf(q))
      BY <3>1, <3>2, <3>3 DEF Context, WellFormed
    <3>5. records' = SetLock(Base(q), FileOf[q.ofd], OwnerOf(q), q.type, RangeOf(q))
      BY <2>3 DEF Execute, After
    <3> QED BY <1>1, <2>1, <3>4, <3>5, SetLockOthers
  <2> QED BY <2>2, <2>3
<1>2. ASSUME q.kind = "flock", Outcome(q) = "EAGAIN"
      PROVE  Own(records', FileOf[q.ofd], OwnerOf(q)) = {}
  <2>1. records' = Base(q) /\ ~Settled(q) /\ Converts(q)
    BY <1>2, OutcomeCases DEF Execute, After, Outcome, Converts
  <2> QED BY <2>1 DEF Base, RemoveFileOwner, Own
<1> QED BY <1>1, <1>2

\* Two flock requests for one owner are of one description.
LEMMA FlockOwners ==
  ASSUME NEW p, NEW q, p.kind = "flock", OwnerOf(p) = OwnerOf(q)
  PROVE  p.ofd = q.ofd
<1>1. OwnerOf(p).kind = p.kind /\ OwnerOf(q).kind = q.kind
  BY DEF OwnerOf
<1>2. OwnerOf(p).id = p.ofd /\ OwnerOf(q).id = q.ofd
  BY <1>1 DEF OwnerOf
<1> QED BY <1>2

\* No step gives a sleeping conversion its mode back.
LEMMA SleepersDropped ==
  ASSUME Private
  PROVE  LockInv /\ OwnersInv /\ DropInv /\ [Next]_vars => DropInv'
<1> SUFFICES ASSUME LockInv, OwnersInv, DropInv, [Next]_vars PROVE DropInv'
  OBVIOUS
<1>a. ASSUME records' \subseteq records, parked' \subseteq parked,
             \A p \in Pids, o \in Ofds : fds'[p][o] > 0 => fds[p][o] > 0
      PROVE  DropInv'
  BY <1>a DEF DropInv, Own, OwnerOf
<1>b. \A q \in parked : WellFormed(q)
  BY DEF LockInv, TypeOK, Request, WellFormed
<1>c. ASSUME NEW q, WellFormed(q), Descriptors[PidOf[q.task]][q.ofd] > 0,
             NEW x \in parked, x.kind = "flock", OwnerOf(x) = OwnerOf(q)
      PROVE  x.task = q.task
  <2>1. x.ofd = q.ofd
    BY <1>c, FlockOwners
  <2>2. Descriptors[PidOf[x.task]][x.ofd] > 0 /\ x.task \in Tasks /\ x.ofd \in Ofds
    BY <1>b DEF DropInv, WellFormed
  <2> QED BY <1>c, <2>1, <2>2 DEF Private, WellFormed
<1>d. ASSUME NEW t \in Tasks, NEW o \in Ofds, NEW kind \in {"process", "ofd", "flock"},
             NEW type \in LockType \cup {"unlock"}, NEW whence,
             NEW start \in Int, NEW len \in Int, NEW wait,
             LockCall(t, o, kind, type, whence, start, len, wait)
      PROVE  DropInv'
  <2> DEFINE call == [task |-> t, ofd |-> o, kind |-> kind, type |-> type, whence |-> whence,
                      start |-> start, len |-> len,
                      asked |-> Normalize(IF whence = "cur" THEN offset[o] + start ELSE start, len)]
  <2>0. PICK q : q = call
    OBVIOUS
  <2>1. /\ Execute(q) /\ fds' = fds /\ ~Sleeping(t) /\ fds[PidOf[t]][o] > 0
        /\ parked' = parked \/ (parked' = parked \cup {q} /\ Outcome(q) = "EAGAIN")
    BY <1>d, <2>0 DEF LockCall, Enters
  <2>2. WellFormed(q) /\ q.task = t /\ q.ofd = o
    BY <2>0 DEF WellFormed
  <2> HIDE DEF call
  <2>3. Descriptors[PidOf[q.task]][q.ofd] > 0
    BY <2>1, <2>2, DescriptionAssumption DEF DropInv
  <2>4. \A x \in parked : x.task # q.task
    BY <2>1, <2>2 DEF Sleeping
  <2>5. ASSUME NEW x \in parked, x.kind = "flock"
        PROVE  Own(records', FileOf[x.ofd], OwnerOf(x)) = {}
    <3>1. OwnerOf(x) # OwnerOf(q)
      BY <1>c, <2>2, <2>3, <2>4, <2>5
    <3> QED BY <2>1, <2>2, <2>5, <3>1, ExecutionOthers DEF DropInv
  <2>6. q.kind = "flock" /\ Outcome(q) = "EAGAIN" => Own(records', FileOf[q.ofd], OwnerOf(q)) = {}
    BY <2>1, <2>2, ExecutionOthers
  <2> QED BY <2>1, <2>3, <2>4, <2>5, <2>6 DEF DropInv, OwnerOf
<1>1. ASSUME NEW t \in Tasks, Lock(t) PROVE DropInv'
  <2>1. PICK o \in Ofds, kind \in Kinds, type \in LockType \cup {"unlock"}, wait \in Waits :
          IF kind = "flock" THEN LockCall(t, o, kind, type, "set", 0, 0, wait)
          ELSE \E whence \in Whences, start \in Starts, len \in Lens :
                 LockCall(t, o, kind, type, whence, start, len, wait)
    BY <1>1 DEF Lock
  <2>2. kind \in {"process", "ofd", "flock"}
    BY RequestAssumption
  <2>3. CASE kind = "flock"
    <3>1. LockCall(t, o, kind, type, "set", 0, 0, wait) /\ 0 \in Int
      BY <2>1, <2>3
    <3> QED BY <1>d, <2>2, <3>1
  <2>4. CASE kind # "flock"
    <3>1. PICK whence \in Whences, start \in Starts, len \in Lens :
            LockCall(t, o, kind, type, whence, start, len, wait)
      BY <2>1, <2>4
    <3>2. start \in Int /\ len \in Int
      BY RequestAssumption
    <3> QED BY <1>d, <2>2, <3>1, <3>2
  <2> QED BY <2>3, <2>4
<1>2. ASSUME NEW t \in Tasks, NEW o \in Ofds, Close(t, o) PROVE DropInv'
  <2> DEFINE p == PidOf[t]
             left == [fds EXCEPT ![p][o] = @ - 1]
  <2>1. fds[p][o] > 0 /\ parked' = parked /\ fds' = left /\ records' \subseteq records
    BY <1>2 DEF Close, Release, RemoveOfds, RemoveFileOwner
  <2>2. ASSUME NEW i \in Pids, NEW d \in Ofds, fds'[i][d] > 0 PROVE fds[i][d] > 0
    <3>1. fds \in [Pids -> [Ofds -> Nat]] /\ p \in Pids
      BY DescriptionAssumption DEF LockInv, TypeOK
    <3> QED BY <2>1, <2>2, <3>1
  <2> QED BY <1>a, <2>1, <2>2
<1>3. ASSUME NEW t \in Tasks, Exit(t) PROVE DropInv'
  <2> DEFINE p == PidOf[t]
             left == [fds EXCEPT ![p] = [o \in Ofds |-> 0]]
  <2>1. parked' \subseteq parked /\ fds' = left /\ records' \subseteq records
    BY <1>3 DEF Exit, Release, RemoveOfds, RemoveProcess, Stay
  <2>2. ASSUME NEW i \in Pids, NEW d \in Ofds, fds'[i][d] > 0 PROVE fds[i][d] > 0
    <3>1. fds \in [Pids -> [Ofds -> Nat]] /\ p \in Pids
      BY DescriptionAssumption DEF LockInv, TypeOK
    <3> QED BY <2>1, <2>2, <3>1
  <2> QED BY <1>a, <2>1, <2>2
<1>4. CASE Retry
  <2>1. PICK q \in todo :
          /\ Execute(q)
          /\ IF Outcome(q) = "EAGAIN" THEN UNCHANGED <<parked, older, ended>>
             ELSE Stay(parked \ {q}) /\ ended' = ended \cup {q}
    BY <1>4 DEF Retry
  <2>2. q \in parked /\ fds' = fds
    BY <1>4 DEF Retry, OwnersInv, EntryInv
  <2>3. parked' \subseteq parked /\ (q \in parked' => Outcome(q) = "EAGAIN")
    BY <2>1 DEF Stay
  <2>4. WellFormed(q) /\ Descriptors[PidOf[q.task]][q.ofd] > 0
    BY <1>b, <2>2 DEF DropInv
  <2>5. ASSUME NEW x \in parked', x.kind = "flock"
        PROVE  Own(records', FileOf[x.ofd], OwnerOf(x)) = {}
    <3>1. CASE x = q
      BY <2>1, <2>3, <2>4, <2>5, <3>1, ExecutionOthers
    <3>2. CASE x # q
      <4>1. OwnerOf(x) # OwnerOf(q)
        BY <1>c, <2>2, <2>3, <2>4, <2>5, <3>2 DEF DropInv
      <4> QED BY <2>1, <2>3, <2>4, <2>5, <4>1, ExecutionOthers DEF DropInv
    <3> QED BY <3>1, <3>2
  <2> QED BY <2>2, <2>3, <2>5 DEF DropInv, OwnerOf
<1>5. ASSUME NEW t \in Tasks, Seek(t) PROVE DropInv'
  BY <1>5, <1>a DEF Seek
<1>6. ASSUME NEW t \in Tasks \cup {NoTask}, OtherEntry(t) PROVE DropInv'
  BY <1>6, <1>a DEF OtherEntry
<1>7. CASE ReleaseOrphaned \/ Round \/ RoundEnds \/ Finish \/ UNCHANGED vars
  <2>1. records' \subseteq records /\ parked' \subseteq parked /\ fds' = fds
    BY <1>7 DEF ReleaseOrphaned, Round, RoundEnds, Finish, Release, Stay, RemoveOfds, vars
  <2> QED BY <1>a, <2>1
<1> QED BY <1>1, <1>2, <1>3, <1>4, <1>5, <1>6, <1>7 DEF Next, SystemCall, Settle

\* Where no description is shared, sleeping flock requests do not block one
\* another: two shared holders that both upgrade are not asleep forever
\* (sys_fcntl_lock_with_owner drops the old mode of a conversion first).
THEOREM UpgradesDoNotDeadlock ==
  ASSUME Private
  PROVE  Spec => []NoUpgradeDeadlock
<1>1. Init => DropInv
  BY DEF Init, DropInv
<1>2. LockInv /\ OwnersInv /\ DropInv /\ [Next]_vars => DropInv'
  BY SleepersDropped
<1>3. DropInv => NoUpgradeDeadlock
  BY DEF DropInv, NoUpgradeDeadlock
<1> QED BY <1>1, <1>2, <1>3, OwnersInvariant, PTL DEF Spec

=============================================================================
