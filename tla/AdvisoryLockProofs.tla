------------------------- MODULE AdvisoryLockProofs -------------------------
(***************************************************************************)
(* Safety of the advisory-lock table for any processes, descriptions,      *)
(* files, requests and bounds: the records stay normal and exclusive, end  *)
(* with their owners, and nobody loses a lock to somebody else's calls.    *)
(***************************************************************************)
EXTENDS AdvisoryLock, TLAPS

\* The context of one set_lock: a normal table and a request.
Context(R, f, o, t, g) ==
  /\ R \subseteq LockRecord /\ NormalTable(R)
  /\ f \in Files /\ o \in Owner /\ t \in LockType \cup {"unlock"} /\ g \in LockRange

\* The merged range of set_lock is a range, contains the request and every
\* neighbour, and each of its ends is the request's or a neighbour's.
LEMMA MergedRange ==
  ASSUME NEW R, NEW f, NEW o, NEW t, NEW g, Context(R, f, o, t, g)
  PROVE  LET m == Merged(R, f, o, t, g)
             N == Neighbours(R, f, o, t, g)
         IN /\ m.lo \in 0..MaxOff /\ m.hi \in 1..Eof
            /\ m.lo <= g.lo /\ g.hi <= m.hi
            /\ \A r \in N : m.lo <= r.lo /\ r.hi <= m.hi
            /\ m.lo = g.lo \/ \E r \in N : r.lo = m.lo
            /\ m.hi = g.hi \/ \E r \in N : r.hi = m.hi
<1> DEFINE N == Neighbours(R, f, o, t, g)
           near == {g} \cup N
           m == Merged(R, f, o, t, g)
<1>1. /\ N \subseteq LockRecord
      /\ \A r \in N : Touches(r, g)
      /\ \A r, s \in N : r # s => ~Touches(r, s)
  BY DEF Context, Neighbours, Own, NormalTable
<1>2. /\ g.lo \in Int /\ g.hi \in Int /\ g.lo < g.hi
      /\ g.lo \in 0..MaxOff /\ g.hi \in 1..Eof
      /\ \A r \in N : /\ r.lo \in Int /\ r.hi \in Int /\ r.lo < r.hi
                      /\ r.lo \in 0..MaxOff /\ r.hi \in 1..Eof
  BY <1>1, OffsetAssumption DEF Context, LockRange, LockRecord, Eof
<1> HIDE DEF N
<1>3. \E n \in {r.lo : r \in near} : \A r \in near : n <= r.lo
  <2>1. CASE \E r \in N : r.lo < g.lo
    <3>1. PICK r \in N : r.lo < g.lo
      BY <2>1
    <3>2. \A s \in N : r.lo <= s.lo
      BY <1>1, <1>2, <3>1 DEF Touches
    <3> QED BY <1>2, <3>1, <3>2
  <2>2. CASE ~\E r \in N : r.lo < g.lo
    BY <1>2, <2>2
  <2> QED BY <2>1, <2>2
<1>4. \E n \in {r.hi : r \in near} : \A r \in near : n >= r.hi
  <2>1. CASE \E r \in N : r.hi > g.hi
    <3>1. PICK r \in N : r.hi > g.hi
      BY <2>1
    <3>2. \A s \in N : r.hi >= s.hi
      BY <1>1, <1>2, <3>1 DEF Touches
    <3> QED BY <1>2, <3>1, <3>2
  <2>2. CASE ~\E r \in N : r.hi > g.hi
    BY <1>2, <2>2
  <2> QED BY <2>1, <2>2
<1>5. /\ m.lo \in {r.lo : r \in near} /\ \A r \in near : m.lo <= r.lo
      /\ m.hi \in {r.hi : r \in near} /\ \A r \in near : m.hi >= r.hi
  BY <1>3, <1>4 DEF Merged, N
<1> HIDE DEF m
<1>6. /\ m.lo \in 0..MaxOff /\ m.hi \in 1..Eof
      /\ m.lo <= g.lo /\ g.hi <= m.hi
      /\ \A r \in N : m.lo <= r.lo /\ r.hi <= m.hi
      /\ m.lo = g.lo \/ \E r \in N : r.lo = m.lo
      /\ m.hi = g.hi \/ \E r \in N : r.hi = m.hi
  BY <1>2, <1>5
<1> QED
  BY <1>6 DEF m, N

\* What a record of the table after a set_lock can be: one that is kept, what is
\* left of one on either side of the request, or the merged request.
Kept(R, f, o, t, g, r) ==
  /\ r \in R
  /\ r.file = f /\ r.owner = o =>
       ~Overlaps(r, g) /\ ~(r.type = t /\ Touches(r, Merged(R, f, o, t, g)))
LeftOf(R, f, o, t, g, r) ==
  \E c \in R : /\ c.file = f /\ c.owner = o /\ Overlaps(c, g) /\ c.type # t /\ c.lo < g.lo
               /\ r.file = f /\ r.owner = o /\ r.type = c.type /\ r.lo = c.lo /\ r.hi = g.lo
RightOf(R, f, o, t, g, r) ==
  \E c \in R : /\ c.file = f /\ c.owner = o /\ Overlaps(c, g) /\ c.type # t /\ g.hi < c.hi
               /\ r.file = f /\ r.owner = o /\ r.type = c.type /\ r.lo = g.hi /\ r.hi = c.hi
Requested(R, f, o, t, g, r) ==
  /\ t # "unlock"
  /\ r.file = f /\ r.owner = o /\ r.type = t
  /\ r.lo = Merged(R, f, o, t, g).lo /\ r.hi = Merged(R, f, o, t, g).hi

\* Every record of the table after a set_lock has one of these shapes.
LEMMA SetLockCases ==
  ASSUME NEW R, NEW f, NEW o, NEW t, NEW g, Context(R, f, o, t, g),
         NEW r \in SetLock(R, f, o, t, g)
  PROVE  /\ r \in LockRecord
         /\ \/ Kept(R, f, o, t, g, r)
            \/ LeftOf(R, f, o, t, g, r)
            \/ RightOf(R, f, o, t, g, r)
            \/ Requested(R, f, o, t, g, r)
<1> DEFINE m == Merged(R, f, o, t, g)
<1>0. /\ R \subseteq LockRecord
      /\ g.lo \in 0..MaxOff /\ g.hi \in 1..Eof /\ g.lo < g.hi
      /\ f \in Files /\ o \in Owner /\ t \in LockType \cup {"unlock"}
  BY DEF Context, LockRange
<1>1. /\ m.lo \in 0..MaxOff /\ m.hi \in 1..Eof /\ m.lo <= g.lo /\ g.hi <= m.hi
  BY MergedRange
<1> HIDE DEF m
<1>a. CASE r \in R \ Removed(R, f, o, t, g)
  BY <1>0, <1>a DEF Removed, Own, Kept, m
<1>b. CASE r \in LeftFragments(R, f, o, t, g)
  <2>1. PICK c \in R : /\ c.file = f /\ c.owner = o /\ Overlaps(c, g) /\ c.type # t
                       /\ c.lo < g.lo /\ r = [c EXCEPT !.hi = g.lo]
    BY <1>b DEF LeftFragments, Cut, Own
  <2>2. r \in LockRecord /\ r.file = f /\ r.owner = o /\ r.type = c.type /\ r.lo = c.lo /\ r.hi = g.lo
    BY <1>0, <2>1, OffsetAssumption DEF LockRecord, Eof
  <2> QED BY <2>1, <2>2 DEF LeftOf
<1>c. CASE r \in RightFragments(R, f, o, t, g)
  <2>1. PICK c \in R : /\ c.file = f /\ c.owner = o /\ Overlaps(c, g) /\ c.type # t
                       /\ g.hi < c.hi /\ r = [c EXCEPT !.lo = g.hi]
    BY <1>c DEF RightFragments, Cut, Own
  <2>2. r \in LockRecord /\ r.file = f /\ r.owner = o /\ r.type = c.type /\ r.lo = g.hi /\ r.hi = c.hi
    BY <1>0, <2>1, OffsetAssumption DEF LockRecord, Eof
  <2> QED BY <2>1, <2>2 DEF RightOf
<1>d. CASE r \in Replacement(R, f, o, t, g)
  <2>1. t # "unlock" /\ r = [file |-> f, owner |-> o, type |-> t, lo |-> m.lo, hi |-> m.hi]
    BY <1>d DEF Replacement, m
  <2>2. r \in LockRecord
    BY <1>0, <1>1, <2>1, OffsetAssumption DEF LockRecord, Eof
  <2> QED BY <2>1, <2>2 DEF Requested, m
<1> QED
  BY <1>a, <1>b, <1>c, <1>d DEF SetLock

\* Two records of one owner and file as the normal form wants them.
Apart(r, s) == ~Overlaps(r, s) /\ (r.type = s.type => ~Touches(r, s))

\* set_lock keeps the normal form.
LEMMA SetLockNormal ==
  ASSUME NEW R, NEW f, NEW o, NEW t, NEW g, Context(R, f, o, t, g)
  PROVE  NormalTable(SetLock(R, f, o, t, g))
<1> DEFINE T == SetLock(R, f, o, t, g)
           N == Neighbours(R, f, o, t, g)
           m == Merged(R, f, o, t, g)
<1>0. /\ R \subseteq LockRecord
      /\ g.lo \in Int /\ g.hi \in Int /\ g.lo < g.hi
      /\ \A c, d \in R : c # d /\ c.file = d.file /\ c.owner = d.owner => Apart(c, d)
  BY OffsetAssumption DEF Context, LockRange, NormalTable, Apart, Eof
<1>1. /\ m.lo \in Int /\ m.hi \in Int /\ m.lo <= g.lo /\ g.hi <= m.hi
      /\ m.lo = g.lo \/ \E n \in N : n.lo = m.lo
      /\ m.hi = g.hi \/ \E n \in N : n.hi = m.hi
  BY MergedRange, OffsetAssumption DEF Eof
<1>2. \A n \in N : n \in R /\ n.file = f /\ n.owner = o /\ n.type = t /\ Touches(n, g)
  BY DEF Neighbours, Own
<1>3. \A r \in LockRecord : r.lo \in Int /\ r.hi \in Int /\ r.lo < r.hi
  BY OffsetAssumption DEF LockRecord, Eof
<1>4. \A r \in T : /\ r \in LockRecord
                   /\ \/ Kept(R, f, o, t, g, r) \/ LeftOf(R, f, o, t, g, r)
                      \/ RightOf(R, f, o, t, g, r) \/ Requested(R, f, o, t, g, r)
  BY SetLockCases
<1> HIDE DEF T, N
<1>5. ASSUME NEW r \in T, NEW s \in T, r # s, r.file = s.file, r.owner = s.owner,
             Kept(R, f, o, t, g, r)
      PROVE  Apart(r, s)
  <2>1. CASE Kept(R, f, o, t, g, s)
    BY <1>0, <1>5, <2>1 DEF Kept
  <2>2. CASE LeftOf(R, f, o, t, g, s)
    BY <1>0, <1>3, <1>4, <1>5, <2>2 DEF Kept, LeftOf, Apart, Overlaps, Touches
  <2>3. CASE RightOf(R, f, o, t, g, s)
    BY <1>0, <1>3, <1>4, <1>5, <2>3 DEF Kept, RightOf, Apart, Overlaps, Touches
  <2>4. CASE Requested(R, f, o, t, g, s)
    BY <1>0, <1>1, <1>2, <1>3, <1>4, <1>5, <2>4 DEF Kept, Requested, Apart, Overlaps, Touches
  <2> QED BY <1>4, <2>1, <2>2, <2>3, <2>4
<1>6. ASSUME NEW r \in T, NEW s \in T, r # s,
             LeftOf(R, f, o, t, g, r) \/ RightOf(R, f, o, t, g, r),
             LeftOf(R, f, o, t, g, s) \/ RightOf(R, f, o, t, g, s)
      PROVE  Apart(r, s)
  <2>1. CASE LeftOf(R, f, o, t, g, r) /\ LeftOf(R, f, o, t, g, s)
    <3>1. r.file = s.file /\ r.owner = s.owner /\ r.type = s.type /\ r.lo = s.lo /\ r.hi = s.hi
      BY <1>0, <1>3, <2>1 DEF LeftOf, Apart, Overlaps
    <3> QED BY <1>4, <1>6, <3>1 DEF LockRecord
  <2>2. CASE RightOf(R, f, o, t, g, r) /\ RightOf(R, f, o, t, g, s)
    <3>1. r.file = s.file /\ r.owner = s.owner /\ r.type = s.type /\ r.lo = s.lo /\ r.hi = s.hi
      BY <1>0, <1>3, <2>2 DEF RightOf, Apart, Overlaps
    <3> QED BY <1>4, <1>6, <3>1 DEF LockRecord
  <2>3. CASE LeftOf(R, f, o, t, g, r) /\ RightOf(R, f, o, t, g, s)
    BY <1>0, <1>3, <1>4, <2>3 DEF LeftOf, RightOf, Apart, Overlaps, Touches
  <2>4. CASE RightOf(R, f, o, t, g, r) /\ LeftOf(R, f, o, t, g, s)
    BY <1>0, <1>3, <1>4, <2>4 DEF LeftOf, RightOf, Apart, Overlaps, Touches
  <2> QED BY <1>6, <2>1, <2>2, <2>3, <2>4
<1>7. ASSUME NEW r \in T, NEW s \in T, Requested(R, f, o, t, g, r),
             LeftOf(R, f, o, t, g, s) \/ RightOf(R, f, o, t, g, s)
      PROVE  Apart(r, s)
  <2>1. CASE LeftOf(R, f, o, t, g, s)
    BY <1>0, <1>1, <1>2, <1>3, <1>4, <1>7, <2>1 DEF LeftOf, Requested, Apart, Overlaps, Touches
  <2>2. CASE RightOf(R, f, o, t, g, s)
    BY <1>0, <1>1, <1>2, <1>3, <1>4, <1>7, <2>2 DEF RightOf, Requested, Apart, Overlaps, Touches
  <2> QED BY <1>7, <2>1, <2>2
<1>8. ASSUME NEW r \in T, NEW s \in T, Requested(R, f, o, t, g, r), Requested(R, f, o, t, g, s)
      PROVE  r = s
  BY <1>4, <1>8 DEF Requested, LockRecord
<1>9. \A r, s \in T : Apart(r, s) => Apart(s, r)
  BY <1>3, <1>4 DEF Apart, Overlaps, Touches
<1>10. \A r, s \in T : r # s /\ r.file = s.file /\ r.owner = s.owner => Apart(r, s)
  BY <1>4, <1>5, <1>6, <1>7, <1>8, <1>9
<1> QED
  BY <1>10 DEF NormalTable, Apart, T

\* A set_lock that met no conflict leaves the table exclusive: the merged request
\* adds only bytes the owner already held for the same type.
LEMMA SetLockExclusive ==
  ASSUME NEW R, NEW f, NEW o, NEW t, NEW g, Context(R, f, o, t, g),
         ExclusiveTable(R), ~Conflict(R, f, o, t, g)
  PROVE  ExclusiveTable(SetLock(R, f, o, t, g))
<1> DEFINE T == SetLock(R, f, o, t, g)
           N == Neighbours(R, f, o, t, g)
           m == Merged(R, f, o, t, g)
           Shared(r, s) == r.type = "read" /\ s.type = "read"
           Meet(r, s) == /\ r.file = s.file /\ r.owner # s.owner
                         /\ SameSpace(r.owner, s.owner) /\ Overlaps(r, s)
<1>0. /\ R \subseteq LockRecord
      /\ g.lo \in Int /\ g.hi \in Int /\ g.lo < g.hi
      /\ t \in LockType \cup {"unlock"}
      /\ \A c, d \in R : Meet(c, d) => Shared(c, d)
      /\ t # "unlock" => \A c \in R : ~Blocks(c, f, o, t, g)
  BY OffsetAssumption DEF Context, LockRange, ExclusiveTable, Conflict, Eof
<1>1. /\ m.lo \in Int /\ m.hi \in Int /\ m.lo <= g.lo /\ g.hi <= m.hi
      /\ m.lo = g.lo \/ \E n \in N : n.lo = m.lo
      /\ m.hi = g.hi \/ \E n \in N : n.hi = m.hi
  BY MergedRange, OffsetAssumption DEF Eof
<1>2. \A n \in N : n \in R /\ n.file = f /\ n.owner = o /\ n.type = t /\ Touches(n, g)
  BY DEF Neighbours, Own
<1>3. \A r \in LockRecord : /\ r.lo \in Int /\ r.hi \in Int /\ r.lo < r.hi
                            /\ r.type \in LockType
  BY OffsetAssumption DEF LockRecord, Eof
<1>4. \A r \in T : /\ r \in LockRecord
                   /\ \/ Kept(R, f, o, t, g, r) \/ LeftOf(R, f, o, t, g, r)
                      \/ RightOf(R, f, o, t, g, r) \/ Requested(R, f, o, t, g, r)
  BY SetLockCases
<1> HIDE DEF T, N, m
<1>5. \A r \in T : r.file # f \/ r.owner # o => r \in R
  BY <1>4 DEF Kept, LeftOf, RightOf, Requested
<1>6. ASSUME NEW r \in T, NEW s \in R, r.file = f, r.owner = o, Meet(r, s)
      PROVE  Shared(r, s)
  <2>1. CASE Kept(R, f, o, t, g, r)
    BY <1>0, <1>6, <2>1 DEF Kept
  <2>2. CASE LeftOf(R, f, o, t, g, r)
    <3>1. PICK c \in R : /\ c.file = f /\ c.owner = o /\ Overlaps(c, g) /\ c.type = r.type
                         /\ c.lo = r.lo /\ r.hi = g.lo
      BY <2>2 DEF LeftOf
    <3>2. Overlaps(c, s)
      <4>1. c \in LockRecord /\ s \in LockRecord /\ r \in LockRecord
        BY <1>0, <1>4
      <4> QED BY <1>0, <1>3, <1>6, <3>1, <4>1 DEF Overlaps
    <3>3. Meet(c, s)
      BY <1>6, <3>1, <3>2
    <3> QED BY <1>0, <3>1, <3>3
  <2>3. CASE RightOf(R, f, o, t, g, r)
    <3>1. PICK c \in R : /\ c.file = f /\ c.owner = o /\ Overlaps(c, g) /\ c.type = r.type
                         /\ c.hi = r.hi /\ r.lo = g.hi
      BY <2>3 DEF RightOf
    <3>2. Overlaps(c, s)
      <4>1. c \in LockRecord /\ s \in LockRecord /\ r \in LockRecord
        BY <1>0, <1>4
      <4> QED BY <1>0, <1>3, <1>6, <3>1, <4>1 DEF Overlaps
    <3>3. Meet(c, s)
      BY <1>6, <3>1, <3>2
    <3> QED BY <1>0, <3>1, <3>3
  <2>4. CASE Requested(R, f, o, t, g, r)
    <3>1. t # "unlock" /\ r.type = t /\ r.lo = m.lo /\ r.hi = m.hi
      BY <2>4 DEF Requested, m
    <3>2. CASE Overlaps(s, g)
      <4>1. SameSpace(s.owner, o)
        BY <1>6 DEF SameSpace
      <4>2. s.type # "write" /\ t # "write"
        BY <1>0, <1>6, <3>1, <3>2, <4>1 DEF Blocks
      <4> QED BY <1>0, <1>3, <1>4, <3>1, <4>2 DEF LockType
    <3>3. CASE ~Overlaps(s, g)
      <4>1. PICK n \in N : Overlaps(n, s)
        BY <1>0, <1>1, <1>2, <1>3, <1>4, <1>6, <3>1, <3>3 DEF Overlaps, Touches
      <4>2. Meet(n, s)
        BY <1>2, <1>6, <4>1
      <4> QED BY <1>0, <1>2, <3>1, <4>2
    <3> QED BY <3>2, <3>3
  <2> QED BY <1>4, <2>1, <2>2, <2>3, <2>4
<1>7. \A r, s \in T : Meet(r, s) => Meet(s, r)
  BY <1>3, <1>4 DEF Overlaps, SameSpace
<1>8. ASSUME NEW r \in T, NEW s \in T, Meet(r, s)
      PROVE  Shared(r, s)
  <2>1. CASE r.file = f /\ r.owner = o
    BY <1>5, <1>6, <1>8, <2>1
  <2>2. CASE s.file = f /\ s.owner = o
    BY <1>5, <1>6, <1>7, <1>8, <2>2
  <2>3. CASE (r.file # f \/ r.owner # o) /\ (s.file # f \/ s.owner # o)
    BY <1>0, <1>5, <1>8, <2>3
  <2> QED BY <2>1, <2>2, <2>3
<1> QED
  BY <1>8 DEF ExclusiveTable, T

\* The type, if any, that R has for byte b of file f and owner o.
Covers(R, f, o, b, ty) == \E r \in R : /\ r.file = f /\ r.owner = o /\ r.type = ty
                                       /\ r.lo <= b /\ b < r.hi

\* set_lock changes exactly the requested bytes of its owner: inside the request
\* the owner holds the requested type, outside what it held before.
THEOREM SetLockExact ==
  ASSUME NEW R, NEW f, NEW o, NEW t, NEW g, Context(R, f, o, t, g),
         NEW b \in 0..MaxOff, NEW ty \in LockType
  PROVE  Covers(SetLock(R, f, o, t, g), f, o, b, ty)
           <=> IF g.lo <= b /\ b < g.hi THEN ty = t ELSE Covers(R, f, o, b, ty)
<1> DEFINE T == SetLock(R, f, o, t, g)
           N == Neighbours(R, f, o, t, g)
           m == Merged(R, f, o, t, g)
           Inside == g.lo <= b /\ b < g.hi
<1>0. /\ R \subseteq LockRecord
      /\ g.lo \in Int /\ g.hi \in Int /\ g.lo < g.hi /\ b \in Int
      /\ \A c, d \in R : c # d /\ c.file = d.file /\ c.owner = d.owner => Apart(c, d)
  BY OffsetAssumption DEF Context, LockRange, NormalTable, Apart, Eof
<1>1. /\ m.lo \in Int /\ m.hi \in Int /\ m.lo <= g.lo /\ g.hi <= m.hi
      /\ \A n \in N : m.lo <= n.lo /\ n.hi <= m.hi
      /\ m.lo = g.lo \/ \E n \in N : n.lo = m.lo
      /\ m.hi = g.hi \/ \E n \in N : n.hi = m.hi
  BY MergedRange, OffsetAssumption DEF Eof
<1>2. \A n \in N : n \in R /\ n.file = f /\ n.owner = o /\ n.type = t /\ Touches(n, g)
  BY DEF Neighbours, Own
<1>3. \A r \in LockRecord : r.lo \in Int /\ r.hi \in Int /\ r.lo < r.hi
  BY OffsetAssumption DEF LockRecord, Eof
<1>4. \A r \in T : /\ r \in LockRecord
                   /\ \/ Kept(R, f, o, t, g, r) \/ LeftOf(R, f, o, t, g, r)
                      \/ RightOf(R, f, o, t, g, r) \/ Requested(R, f, o, t, g, r)
  BY SetLockCases
<1>5. t # "unlock" =>
        [file |-> f, owner |-> o, type |-> t, lo |-> m.lo, hi |-> m.hi] \in T
  BY DEF SetLock, Replacement
<1>6. \A c \in R : c.file = f /\ c.owner = o /\ c.type # t /\ Overlaps(c, g) =>
        /\ c.lo < g.lo => [c EXCEPT !.hi = g.lo] \in T
        /\ g.hi < c.hi => [c EXCEPT !.lo = g.hi] \in T
  BY DEF SetLock, LeftFragments, RightFragments, Cut, Own
<1>7. \A c \in R : c.file = f /\ c.owner = o /\ ~Overlaps(c, g)
                     /\ ~(c.type = t /\ Touches(c, m)) => c \in T
  BY DEF SetLock, Removed
<1>8. \A c \in R : c.file = f /\ c.owner = o /\ c.type = t /\ Touches(c, g) => c \in N
  BY DEF Neighbours, Own
<1> HIDE DEF T, N, m
<1>a. ASSUME NEW r \in T, r.file = f, r.owner = o, r.type = ty, r.lo <= b, b < r.hi
      PROVE  IF Inside THEN ty = t ELSE Covers(R, f, o, b, ty)
  <2>1. CASE Kept(R, f, o, t, g, r)
    <3>1. ~Inside
      BY <1>0, <1>3, <1>4, <1>a, <2>1 DEF Kept, Overlaps
    <3> QED BY <1>a, <2>1, <3>1 DEF Kept, Covers
  <2>2. CASE LeftOf(R, f, o, t, g, r)
    <3>1. PICK c \in R : /\ c.file = f /\ c.owner = o /\ Overlaps(c, g) /\ c.type = r.type
                         /\ c.lo = r.lo /\ r.hi = g.lo
      BY <2>2 DEF LeftOf
    <3>2. ~Inside /\ c.lo <= b /\ b < c.hi
      BY <1>0, <1>3, <1>a, <3>1 DEF Overlaps
    <3> QED BY <1>a, <3>1, <3>2 DEF Covers
  <2>3. CASE RightOf(R, f, o, t, g, r)
    <3>1. PICK c \in R : /\ c.file = f /\ c.owner = o /\ Overlaps(c, g) /\ c.type = r.type
                         /\ c.hi = r.hi /\ r.lo = g.hi
      BY <2>3 DEF RightOf
    <3>2. ~Inside /\ c.lo <= b /\ b < c.hi
      BY <1>0, <1>3, <1>a, <3>1 DEF Overlaps
    <3> QED BY <1>a, <3>1, <3>2 DEF Covers
  <2>4. CASE Requested(R, f, o, t, g, r)
    <3>1. ty = t /\ r.lo = m.lo /\ r.hi = m.hi
      BY <1>a, <2>4 DEF Requested, m
    <3>2. CASE ~Inside
      <4>1. \E n \in N : n.lo <= b /\ b < n.hi
        BY <1>0, <1>1, <1>2, <1>3, <1>a, <3>1, <3>2 DEF Touches
      <4> QED BY <1>2, <3>1, <3>2, <4>1 DEF Covers
    <3> QED BY <3>1, <3>2
  <2> QED BY <1>4, <2>1, <2>2, <2>3, <2>4
<1>b. ASSUME Inside, ty = t
      PROVE  Covers(T, f, o, b, ty)
  <2> DEFINE new == [file |-> f, owner |-> o, type |-> t, lo |-> m.lo, hi |-> m.hi]
  <2>1. t # "unlock" /\ new \in T
    BY <1>5, <1>b DEF LockType
  <2>2. new.lo <= b /\ b < new.hi
    BY <1>0, <1>1, <1>b
  <2> QED BY <1>b, <2>1, <2>2 DEF Covers
<1>c. ASSUME ~Inside, NEW c \in R, c.file = f, c.owner = o, c.type = ty, c.lo <= b, b < c.hi
      PROVE  Covers(T, f, o, b, ty)
  <2>0. c.lo \in Int /\ c.hi \in Int /\ c.lo < c.hi /\ c \in LockRecord
    BY <1>0, <1>3
  <2>1. CASE c.type = t /\ (Overlaps(c, g) \/ Touches(c, m))
    <3>1. c \in N
      <4>1. CASE Touches(c, g)
        BY <1>8, <1>c, <2>1, <4>1
      <4>2. CASE ~Touches(c, g)
        <5>1. \E n \in N : Touches(c, n)
          BY <1>0, <1>1, <1>2, <1>3, <2>0, <2>1, <4>2 DEF Touches, Overlaps
        <5> QED BY <1>0, <1>2, <1>c, <2>1, <4>2, <5>1 DEF Apart
      <4> QED BY <4>1, <4>2
    <3> DEFINE new == [file |-> f, owner |-> o, type |-> t, lo |-> m.lo, hi |-> m.hi]
    <3>2. new \in T
      BY <1>5, <1>c, <2>1 DEF LockType
    <3>3. new.lo <= b /\ b < new.hi
      BY <1>0, <1>1, <1>c, <2>0, <3>1
    <3> QED BY <1>c, <2>1, <3>2, <3>3 DEF Covers
  <2>2. CASE c.type # t /\ Overlaps(c, g)
    <3>1. CASE b < g.lo
      <4> DEFINE d == [c EXCEPT !.hi = g.lo]
      <4>1. d \in T
        <5>1. c.lo < g.lo
          BY <1>0, <1>c, <2>0, <3>1
        <5> QED BY <1>6, <1>c, <2>2, <5>1, Zenon
      <4>2. d.file = f /\ d.owner = o /\ d.type = ty /\ d.lo = c.lo /\ d.hi = g.lo
        BY <1>c, <2>0 DEF LockRecord
      <4> HIDE DEF d
      <4>3. d.lo <= b /\ b < d.hi
        BY <1>c, <3>1, <4>2
      <4> QED BY <4>1, <4>2, <4>3 DEF Covers
    <3>2. CASE g.hi <= b
      <4> DEFINE d == [c EXCEPT !.lo = g.hi]
      <4>1. d \in T
        <5>1. g.hi < c.hi
          BY <1>0, <1>c, <2>0, <3>2
        <5> QED BY <1>6, <1>c, <2>2, <5>1, Zenon
      <4>2. d.file = f /\ d.owner = o /\ d.type = ty /\ d.lo = g.hi /\ d.hi = c.hi
        BY <1>c, <2>0 DEF LockRecord
      <4> HIDE DEF d
      <4>3. d.lo <= b /\ b < d.hi
        BY <1>c, <3>2, <4>2
      <4> QED BY <4>1, <4>2, <4>3 DEF Covers
    <3> QED BY <1>0, <1>c, <3>1, <3>2
  <2>3. CASE ~Overlaps(c, g) /\ ~(c.type = t /\ Touches(c, m))
    BY <1>7, <1>c, <2>3 DEF Covers
  <2> QED BY <2>1, <2>2, <2>3
<1>d. Covers(T, f, o, b, ty) => IF Inside THEN ty = t ELSE Covers(R, f, o, b, ty)
  BY <1>a DEF Covers
<1>e. (IF Inside THEN ty = t ELSE Covers(R, f, o, b, ty)) => Covers(T, f, o, b, ty)
  BY <1>b, <1>c DEF Covers
<1> QED
  BY <1>d, <1>e DEF T

-----------------------------------------------------------------------------
(* The state machine *)

\* The normal form and exclusion are inherited by any part of a table: every
\* release (close, exit, conversion, orphan check) only takes records away.
LEMMA PartOfTable ==
  ASSUME NEW R, NEW S \in SUBSET R
  PROVE  /\ NormalTable(R) => NormalTable(S)
         /\ ExclusiveTable(R) => ExclusiveTable(S)
BY DEF NormalTable, ExclusiveTable

\* Closing, exiting and the orphan check take records away and add none.
LEMMA ReleasesShrink ==
  ASSUME NEW R, NEW f, NEW o, NEW p, NEW S
  PROVE  /\ RemoveFileOwner(R, f, o) \subseteq R
         /\ RemoveProcess(R, p) \subseteq R
         /\ RemoveOfds(R, S) \subseteq R
BY DEF RemoveFileOwner, RemoveProcess, RemoveOfds

\* An accepted start and length make a range.
LEMMA NormalizeRange ==
  ASSUME NEW start \in Int, NEW len \in Int, Valid(start, len)
  PROVE  Normalize(start, len) \in LockRange
<1> DEFINE g == Normalize(start, len)
<1>1. CASE len = 0
  <2>1. g = [lo |-> start, hi |-> Eof]
    BY <1>1 DEF Normalize
  <2> QED BY <1>1, <2>1, OffsetAssumption DEF Valid, LockRange, Eof
<1>2. CASE len > 0
  <2>1. g = [lo |-> start, hi |-> start + len]
    BY <1>2 DEF Normalize
  <2> QED BY <1>2, <2>1, OffsetAssumption DEF Valid, LockRange, Eof
<1>3. CASE len < 0
  <2>1. g = [lo |-> start + len, hi |-> start]
    BY <1>3 DEF Normalize
  <2> QED BY <1>3, <2>1, OffsetAssumption DEF Valid, LockRange, Eof
<1> QED BY <1>1, <1>2, <1>3

\* The inductive invariant: the table is normal and exclusive, and the state is
\* typed (a re-execution is of a well-formed request).
LockInv == TypeOK /\ Normalized /\ Exclusive

\* A lock request as the guests and the re-executions make them.
WellFormed(q) ==
  /\ q.task \in Tasks /\ q.ofd \in Ofds /\ q.kind \in {"process", "ofd", "flock"}
  /\ q.type \in LockType \cup {"unlock"}
  /\ q.start \in Int /\ q.len \in Int

\* What the outcomes of an execution say: a request is granted a change of the
\* table, or blocked, only with a valid range and after the conflict check.
LEMMA OutcomeCases ==
  ASSUME NEW q
  PROVE  /\ Outcome(q) = "ok" /\ ~Settled(q) =>
              /\ Valid(Start(q), q.len)
              /\ ~Conflict(Base(q), FileOf[q.ofd], OwnerOf(q), q.type, RangeOf(q))
         /\ Outcome(q) = "EAGAIN" =>
              /\ Valid(Start(q), q.len)
              /\ q.type # "unlock"
<1> DEFINE C == Conflict(Base(q), FileOf[q.ofd], OwnerOf(q), q.type, RangeOf(q))
           V == Valid(Start(q), q.len)
<1>1. CASE Settled(q)
  <2>1. Outcome(q) = "ok"
    BY <1>1 DEF Outcome
  <2> QED BY <1>1, <2>1
<1>2. CASE ~Settled(q) /\ ~V
  <2>1. Outcome(q) = "EINVAL"
    BY <1>2 DEF Outcome
  <2> QED BY <2>1
<1>3. CASE ~Settled(q) /\ V /\ C
  <2>1. Outcome(q) = "EAGAIN"
    BY <1>3 DEF Outcome
  <2>2. q.type # "unlock"
    BY <1>3 DEF Conflict
  <2> QED BY <1>3, <2>1, <2>2
<1>4. CASE ~Settled(q) /\ V /\ ~C
  <2>1. Outcome(q) \in {"ENOLCK", "ok"}
    BY <1>4 DEF Outcome
  <2> QED BY <1>4, <2>1
<1> QED
  BY <1>1, <1>2, <1>3, <1>4

\* One execution of a request, at the call or after a wake, keeps the table
\* typed, normal and exclusive.
LEMMA ExecutionSafe ==
  ASSUME LockInv, NEW q, WellFormed(q)
  PROVE  After(q) \subseteq LockRecord /\ NormalTable(After(q)) /\ ExclusiveTable(After(q))
<1> DEFINE B == Base(q)
           f == FileOf[q.ofd]
           o == OwnerOf(q)
           g == RangeOf(q)
<1>1. B \subseteq records
  BY ReleasesShrink DEF Base
<1>2. B \subseteq LockRecord /\ NormalTable(B) /\ ExclusiveTable(B)
  <2>1. records \subseteq LockRecord /\ NormalTable(records) /\ ExclusiveTable(records)
    BY DEF LockInv, TypeOK, Normalized, Exclusive
  <2> HIDE DEF B
  <2> QED BY <1>1, <2>1, PartOfTable
<1>3. CASE Outcome(q) # "ok" \/ Settled(q)
  BY <1>2, <1>3 DEF After
<1>4. CASE Outcome(q) = "ok" /\ ~Settled(q)
  <2>1. Valid(Start(q), q.len) /\ ~Conflict(B, f, o, q.type, g)
    BY <1>4, OutcomeCases
  <2>2. Start(q) \in Int /\ q.len \in Int
    <3>1. offset[q.ofd] \in Int /\ q.start \in Int /\ q.len \in Int
      BY OffsetAssumption DEF LockInv, TypeOK, WellFormed
    <3> QED BY <3>1 DEF Start
  <2>3. g \in LockRange
    BY <2>1, <2>2, NormalizeRange DEF RangeOf
  <2>4. f \in Files /\ o \in Owner
    BY DescriptionAssumption DEF WellFormed, OwnerOf, Owner
  <2>5. After(q) = SetLock(B, f, o, q.type, g)
    BY <1>4 DEF After
  <2> HIDE DEF B, f, o, g
  <2>6. Context(B, f, o, q.type, g)
    BY <1>2, <2>3, <2>4 DEF Context, WellFormed
  <2>7. SetLock(B, f, o, q.type, g) \subseteq LockRecord
    BY <2>6, SetLockCases
  <2> QED BY <1>2, <2>1, <2>5, <2>6, <2>7, SetLockNormal, SetLockExclusive
<1> QED
  BY <1>3, <1>4

\* A grant is a record, over the range the call asked for.
LEMMA GrantTyped ==
  ASSUME NEW q, WellFormed(q), Outcome(q) = "ok" => q.asked \in LockRange
  PROVE  Grant(q) \in LockRecord \cup {NoGrant}
<1>1. CASE Outcome(q) = "ok" /\ q.type # "unlock"
  <2>1. q.asked.lo \in 0..MaxOff /\ q.asked.hi \in 1..Eof /\ q.asked.lo < q.asked.hi
    BY <1>1 DEF LockRange
  <2>2. FileOf[q.ofd] \in Files /\ OwnerOf(q) \in Owner /\ q.type \in LockType
    BY <1>1, DescriptionAssumption DEF WellFormed, OwnerOf, Owner
  <2>3. Grant(q) = [file |-> FileOf[q.ofd], owner |-> OwnerOf(q), type |-> q.type,
                    lo |-> q.asked.lo, hi |-> q.asked.hi]
    BY <1>1 DEF Grant
  <2> QED BY <2>1, <2>2, <2>3 DEF LockRecord
<1>2. CASE ~(Outcome(q) = "ok" /\ q.type # "unlock")
  BY <1>2 DEF Grant
<1> QED
  BY <1>1, <1>2

\* What a step does to the table and to the Boolean parts of the state, apart
\* from the rest of the typing.
TableSafe == /\ records \subseteq LockRecord /\ Normalized /\ Exclusive
             /\ noted \in BOOLEAN /\ orphans \in BOOLEAN

\* A release (close, exit, end of a request) keeps the table safe.
LEMMA ReleaseSafe ==
  ASSUME LockInv, NEW R \in SUBSET records, NEW F, NEW Q, Release(R, F, Q)
  PROVE  TableSafe'
<1>1. records' \subseteq records
  BY ReleasesShrink DEF Release
<1>2. records' \subseteq LockRecord /\ NormalTable(records') /\ ExclusiveTable(records')
  BY <1>1, PartOfTable DEF LockInv, TypeOK, Normalized, Exclusive
<1>3. noted' \in BOOLEAN
  BY Zenon DEF Release, Noted
<1>4. orphans' \in BOOLEAN
  BY Zenon DEF Release
<1> QED
  BY <1>2, <1>3, <1>4 DEF TableSafe, Normalized, Exclusive

\* An execution of a request keeps the table safe.
LEMMA ExecuteSafe ==
  ASSUME LockInv, NEW q, WellFormed(q), Execute(q), UNCHANGED orphans
  PROVE  TableSafe'
<1>1. records' \subseteq LockRecord /\ NormalTable(records') /\ ExclusiveTable(records')
  BY ExecutionSafe DEF Execute
<1>2. noted' \in BOOLEAN
  BY Zenon DEF Execute, Noted
<1>3. orphans' \in BOOLEAN
  BY Zenon DEF LockInv, TypeOK
<1> QED
  BY <1>1, <1>2, <1>3 DEF TableSafe, Normalized, Exclusive

\* A lock system call keeps the invariant.
LEMMA LockCallInv ==
  ASSUME LockInv, NEW t \in Tasks, NEW o \in Ofds, NEW kind \in {"process", "ofd", "flock"},
         NEW type \in LockType \cup {"unlock"}, NEW whence \in {"set", "cur"},
         NEW start \in Int, NEW len \in Int, NEW wait,
         kind = "flock" => whence = "set" /\ start = 0 /\ len = 0,
         LockCall(t, o, kind, type, whence, start, len, wait)
  PROVE  LockInv'
<1> DEFINE q == [task |-> t, ofd |-> o, kind |-> kind, type |-> type, whence |-> whence,
                 start |-> start, len |-> len,
                 asked |-> Normalize(IF whence = "cur" THEN offset[o] + start ELSE start, len)]
           parks == Outcome(q) = "EAGAIN" /\ wait
<1>1. /\ Execute(q)
      /\ parked' = IF parks THEN parked \cup {q} ELSE parked
      /\ older' = IF parks THEN older \cup {<<x.task, t>> : x \in parked} ELSE older
      /\ pc' = IF parks THEN "idle" ELSE "orphans"
      /\ UNCHANGED <<fds, alive, offset, ended, orphans, todo, hit>>
  BY DEF LockCall
<1>2. WellFormed(q)
  BY DEF WellFormed
<1>3. TableSafe'
  <2> HIDE DEF q
  <2> QED BY <1>1, <1>2, ExecuteSafe
<1>4. q.asked = Normalize(Start(q), q.len)
  BY DEF Start
<1>5. Start(q) \in Int /\ q.len \in Int
  <2>1. offset[o] \in Int
    BY OffsetAssumption DEF LockInv, TypeOK
  <2> QED BY <2>1 DEF Start
<1>6. Settled(q) => Valid(Start(q), q.len)
  <2>1. Settled(q) => Start(q) = 0 /\ q.len = 0
    BY DEF Settled, Converts, Start
  <2> QED BY <2>1, OffsetAssumption DEF Valid
<1>7. q.type = type /\ q.task = t
  OBVIOUS
<1>8. Outcome(q) \in {"ok", "EAGAIN"} => q.asked \in LockRange
  <2> HIDE DEF q
  <2> QED BY <1>4, <1>5, <1>6, OutcomeCases, NormalizeRange
<1>9. Outcome(q) = "EAGAIN" => q \in Request
  <2>1. Outcome(q) = "EAGAIN" => q.type # "unlock"
    BY OutcomeCases
  <2> QED BY <1>8, <2>1 DEF Request
<1>10. Grant(q) \in LockRecord \cup {NoGrant}
  <2> HIDE DEF q
  <2> QED BY <1>2, <1>8, GrantTyped
<1> HIDE DEF q
<1>11. parked' \subseteq Request
  BY <1>1, <1>9 DEF LockInv, TypeOK
<1>12. older' \subseteq Tasks \X Tasks
  BY <1>1 DEF LockInv, TypeOK, Request
<1>13. granted' \in LockRecord \cup {NoGrant}
  BY <1>1, <1>10 DEF Execute
<1> QED
  BY <1>1, <1>3, <1>11, <1>12, <1>13 DEF LockInv, TypeOK, TableSafe

\* Requests that leave the queue leave the rest of it typed.
LEMMA StayTyped ==
  ASSUME LockInv, NEW P \in SUBSET parked, Stay(P)
  PROVE  parked' \subseteq Request /\ older' \subseteq Tasks \X Tasks
BY DEF Stay, LockInv, TypeOK

\* Initially, and after every step, the table is typed, normal and exclusive.
THEOREM LockInvariant == Spec => []LockInv
<1>1. Init => LockInv
  <2> SUFFICES ASSUME Init PROVE LockInv
    OBVIOUS
  <2>1. TypeOK
    <3>1. offset \in [Ofds -> 0..MaxOff]
      BY OffsetAssumption DEF Init
    <3>2. noted \in BOOLEAN /\ orphans \in BOOLEAN
      BY Zenon DEF Init
    <3> QED BY <3>1, <3>2, DescriptionAssumption DEF Init, TypeOK
  <2>2. Normalized /\ Exclusive
    BY DEF Init, Normalized, NormalTable, Exclusive, ExclusiveTable
  <2> QED BY <2>1, <2>2 DEF LockInv
<1>2. LockInv /\ [Next]_vars => LockInv'
  <2> SUFFICES ASSUME LockInv, [Next]_vars PROVE LockInv'
    OBVIOUS
  <2>1. ASSUME NEW t \in Tasks, Lock(t) PROVE LockInv'
    <3>1. PICK o \in Ofds, kind \in Kinds, type \in LockType \cup {"unlock"}, wait \in Waits :
            IF kind = "flock" THEN LockCall(t, o, kind, type, "set", 0, 0, wait)
            ELSE \E whence \in Whences, start \in Starts, len \in Lens :
                   LockCall(t, o, kind, type, whence, start, len, wait)
      BY <2>1 DEF Lock
    <3>2. kind \in {"process", "ofd", "flock"}
      BY RequestAssumption
    <3>3. CASE kind = "flock"
      BY <3>1, <3>2, <3>3, LockCallInv
    <3>4. CASE kind # "flock"
      <4>1. PICK whence \in Whences, start \in Starts, len \in Lens :
              LockCall(t, o, kind, type, whence, start, len, wait)
        BY <3>1, <3>4
      <4>2. whence \in {"set", "cur"} /\ start \in Int /\ len \in Int
        BY RequestAssumption
      <4> QED BY <3>2, <3>4, <4>1, <4>2, LockCallInv
    <3> QED BY <3>3, <3>4
  <2>2. ASSUME NEW t \in Tasks, Seek(t) PROVE LockInv'
    <3>1. /\ offset' \in [Ofds -> 0..MaxOff] /\ granted' = NoGrant /\ pc' = "orphans"
          /\ UNCHANGED <<records, fds, alive, parked, older, ended, noted, orphans, todo, hit>>
      BY <2>2 DEF Seek, LockInv, TypeOK
    <3> QED BY <3>1, Zenon DEF LockInv, TypeOK, Normalized, Exclusive
  <2>3. ASSUME NEW t \in Tasks, NEW o \in Ofds, Close(t, o) PROVE LockInv'
    <3> DEFINE p == PidOf[t]
               left == [fds EXCEPT ![p][o] = @ - 1]
               rest == RemoveFileOwner(records, FileOf[o], ProcessOwner(p))
    <3>1. /\ fds[p][o] > 0 /\ Release(rest, left, parked)
          /\ granted' = NoGrant /\ pc' = "orphans"
          /\ UNCHANGED <<alive, offset, parked, older, ended, todo, hit>>
      BY <2>3 DEF Close
    <3>2. left \in [Pids -> [Ofds -> Nat]]
      BY <3>1, DescriptionAssumption DEF LockInv, TypeOK
    <3>3. rest \subseteq records
      BY ReleasesShrink
    <3> HIDE DEF p, left, rest
    <3>4. TableSafe' /\ fds' = left
      BY <3>1, <3>3, ReleaseSafe DEF Release
    <3> QED BY <3>1, <3>2, <3>4 DEF LockInv, TypeOK, TableSafe
  <2>4. ASSUME NEW t \in Tasks, Exit(t) PROVE LockInv'
    <3> DEFINE p == PidOf[t]
               left == [fds EXCEPT ![p] = [o \in Ofds |-> 0]]
               others == {q \in parked : PidOf[q.task] # p}
    <3>1. /\ Release(RemoveProcess(records, p), left, others) /\ Stay(others)
          /\ alive' = alive \ {p} /\ granted' = NoGrant /\ pc' = "orphans"
          /\ UNCHANGED <<offset, ended, todo, hit>>
      BY <2>4 DEF Exit
    <3>2. left \in [Pids -> [Ofds -> Nat]]
      BY DescriptionAssumption DEF LockInv, TypeOK
    <3>3. RemoveProcess(records, p) \subseteq records /\ others \subseteq parked
      BY ReleasesShrink
    <3> HIDE DEF p, left, others
    <3>4. TableSafe' /\ fds' = left
      BY <3>1, <3>3, ReleaseSafe DEF Release
    <3>5. parked' \subseteq Request /\ older' \subseteq Tasks \X Tasks
      BY <3>1, <3>3, StayTyped
    <3> QED BY <3>1, <3>2, <3>4, <3>5 DEF LockInv, TypeOK, TableSafe
  <2>5. ASSUME NEW t \in Tasks \cup {NoTask}, OtherEntry(t) PROVE LockInv'
    BY <2>5, Zenon DEF OtherEntry, LockInv, TypeOK, Normalized, Exclusive
  <2>6. CASE ReleaseOrphaned
    <3>1. records' \subseteq records
      BY <2>6, ReleasesShrink DEF ReleaseOrphaned
    <3>2. records' \subseteq LockRecord /\ NormalTable(records') /\ ExclusiveTable(records')
      BY <3>1, PartOfTable DEF LockInv, TypeOK, Normalized, Exclusive
    <3>3. noted' \in BOOLEAN
      BY <2>6, Zenon DEF ReleaseOrphaned, Noted
    <3>4. orphans' \in BOOLEAN
      BY <2>6 DEF ReleaseOrphaned
    <3>5. /\ granted' = NoGrant /\ pc' = "rounds"
          /\ UNCHANGED <<fds, alive, offset, parked, older, ended, todo, hit>>
      BY <2>6 DEF ReleaseOrphaned
    <3> QED BY <3>2, <3>3, <3>4, <3>5 DEF LockInv, TypeOK, Normalized, Exclusive
  <2>7. CASE Round
    <3>1. /\ pc' \in {"retrying", "finish"} /\ todo' \subseteq Request
          /\ noted' \in BOOLEAN
          /\ UNCHANGED <<records, fds, alive, offset, parked, older, ended, orphans, hit, granted>>
      BY <2>7 DEF Round, LockInv, TypeOK
    <3> QED BY <3>1 DEF LockInv, TypeOK, Normalized, Exclusive
  <2>8. CASE Retry
    <3>1. PICK q \in todo :
            /\ Execute(q) /\ todo' = todo \ {q}
            /\ IF Outcome(q) = "EAGAIN" THEN UNCHANGED <<parked, older, ended>>
               ELSE Stay(parked \ {q}) /\ ended' = ended \cup {q}
      BY <2>8 DEF Retry
    <3>2. UNCHANGED <<fds, alive, offset, orphans, pc, hit>>
      BY <2>8 DEF Retry
    <3>3. q \in Request
      BY DEF LockInv, TypeOK
    <3>4. WellFormed(q) /\ q.asked \in LockRange
      BY <3>3 DEF Request, WellFormed
    <3>5. TableSafe'
      BY <3>1, <3>2, <3>4, ExecuteSafe
    <3>6. granted' \in LockRecord \cup {NoGrant}
      BY <3>1, <3>4, GrantTyped DEF Execute
    <3>7. parked' \subseteq Request /\ older' \subseteq Tasks \X Tasks /\ ended' \subseteq Request
      <4>1. CASE Outcome(q) = "EAGAIN"
        BY <3>1, <4>1 DEF LockInv, TypeOK
      <4>2. CASE Outcome(q) # "EAGAIN"
        BY <3>1, <3>3, <4>2, StayTyped DEF LockInv, TypeOK
      <4> QED BY <4>1, <4>2
    <3>8. todo' \subseteq Request
      BY <3>1 DEF LockInv, TypeOK
    <3> QED BY <3>2, <3>5, <3>6, <3>7, <3>8 DEF LockInv, TypeOK, TableSafe
  <2>9. CASE RoundEnds
    BY <2>9, Zenon DEF RoundEnds, LockInv, TypeOK, Normalized, Exclusive
  <2>10. CASE Finish
    <3> DEFINE stay == {q \in parked : q.task # hit}
    <3>1. /\ Release(records, fds, stay) /\ Stay(stay)
          /\ ended' = {} /\ hit' = NoTask /\ granted' = NoGrant
          /\ pc' \in {"orphans", "idle"}
          /\ UNCHANGED <<alive, offset, todo>>
      BY <2>10 DEF Finish
    <3>2. stay \subseteq parked
      OBVIOUS
    <3> HIDE DEF stay
    <3>3. TableSafe' /\ fds' = fds
      BY <3>1, ReleaseSafe DEF Release
    <3>4. parked' \subseteq Request /\ older' \subseteq Tasks \X Tasks
      BY <3>1, <3>2, StayTyped
    <3> QED BY <3>1, <3>3, <3>4 DEF LockInv, TypeOK, TableSafe
  <2>11. CASE UNCHANGED vars
    BY <2>11, Zenon DEF vars, LockInv, TypeOK, Normalized, Exclusive
  <2> QED
    BY <2>1, <2>2, <2>3, <2>4, <2>5, <2>6, <2>7, <2>8, <2>9, <2>10, <2>11
    DEF Next, SystemCall, Settle
<1> QED
  BY <1>1, <1>2, PTL DEF Spec

\* The records of one owner never overlap and those of one type never touch.
THEOREM LocksNormalized == Spec => []Normalized
<1>1. LockInv => Normalized
  BY DEF LockInv
<1> QED BY <1>1, LockInvariant, PTL

\* Two owners of one namespace never hold overlapping locks of which one is a
\* write lock, whatever sequence of calls, wakes and releases came before.
THEOREM LocksExclusive == Spec => []Exclusive
<1>1. LockInv => Exclusive
  BY DEF LockInv
<1> QED BY <1>1, LockInvariant, PTL

\* Every variable of the lock state has its type in every reachable state.
THEOREM LocksTyped == Spec => []TypeOK
<1>1. LockInv => TypeOK
  BY DEF LockInv
<1> QED BY <1>1, LockInvariant, PTL

-----------------------------------------------------------------------------
(* The owners of locks *)

\* Where an entry is tells what is left to do: a decided request keeps its pin
\* until the entry's last step, and an asked-for orphan check comes first.
EntryInv ==
  /\ orphans => pc = "orphans"
  /\ todo # {} => pc = "retrying"
  /\ ended # {} => pc \in {"rounds", "retrying", "finish"}
  /\ todo \subseteq parked

\* No lock outlives its owner, or the orphan check is still to come; a request
\* that may yet be granted is of a living process.
OwnedInv ==
  /\ \A r \in records : r.owner.kind = "process" => r.owner.id \in alive
  /\ \A r \in records : r.owner.kind # "process" =>
                          orphans \/ Referenced(r.owner.id, fds, Pins)
  /\ \A q \in parked : PidOf[q.task] \in alive

OwnersInv == EntryInv /\ OwnedInv

\* References only grow with the pins.
LEMMA MorePins ==
  ASSUME NEW o, NEW F, NEW Q, NEW S, Q \subseteq S, Referenced(o, F, Q)
  PROVE  Referenced(o, F, S)
BY DEF Referenced, Refers

\* What a release leaves is still referred to, or the orphan check is asked for.
LEMMA ReleaseOwned ==
  ASSUME LockInv, OwnersInv, NEW R \in SUBSET records, NEW F, NEW Q, Release(R, F, Q)
  PROVE  \A r \in records' : r.owner.kind # "process" =>
                               orphans' \/ Referenced(r.owner.id, F, Q)
<1> SUFFICES ASSUME NEW r \in records', r.owner.kind # "process",
                    ~Referenced(r.owner.id, F, Q), ~orphans'
             PROVE  FALSE
  OBVIOUS
<1> DEFINE o == r.owner.id
<1>1. /\ r \in records /\ o \notin Final(F, Q) /\ ~orphans /\ ~AsksOrphanCheck(F, Q)
  BY DEF Release, RemoveOfds
<1>2. o \in Ofds
  <2>1. r \in LockRecord
    BY <1>1 DEF LockInv, TypeOK
  <2> QED BY <2>1 DEF LockRecord, Owner
<1>3. FileOf[o] \in InodeFiles
  BY <1>1, <1>2 DEF Final
<1>4. Referenced(o, fds, parked \cup ended)
  BY <1>1 DEF OwnersInv, OwnedInv, Pins
<1>5. PICK p \in Pids : Refers(p, o, fds, parked \cup ended)
  BY <1>4 DEF Referenced
<1>6. ~Refers(p, o, F, Q)
  BY DEF Referenced
<1> QED BY <1>1, <1>2, <1>3, <1>5, <1>6 DEF AsksOrphanCheck

\* An execution adds at most a record of the request's own owner.
LEMMA ExecutionOwner ==
  ASSUME LockInv, NEW q, WellFormed(q), NEW r \in After(q), r \notin records
  PROVE  r.owner = OwnerOf(q)
<1> DEFINE B == Base(q)
<1>1. B \subseteq records
  BY ReleasesShrink DEF Base
<1>2. After(q) = SetLock(B, FileOf[q.ofd], OwnerOf(q), q.type, RangeOf(q))
  BY <1>1 DEF After
<1>3. B \subseteq LockRecord
  BY <1>1 DEF LockInv, TypeOK
<1> HIDE DEF B
<1>4. \A c \in LockRecord : \A n : /\ [c EXCEPT !.hi = n].owner = c.owner
                                   /\ [c EXCEPT !.lo = n].owner = c.owner
  BY DEF LockRecord
<1> DEFINE f == FileOf[q.ofd]
           o == OwnerOf(q)
           g == RangeOf(q)
<1> HIDE DEF f, o, g
<1>5. After(q) = SetLock(B, f, o, q.type, g)
  BY <1>2 DEF f, o, g
<1>6. \/ r \in LeftFragments(B, f, o, q.type, g) \/ r \in RightFragments(B, f, o, q.type, g)
      \/ r \in Replacement(B, f, o, q.type, g)
  BY <1>1, <1>5 DEF SetLock
<1>7. CASE r \in Replacement(B, f, o, q.type, g)
  BY <1>7 DEF Replacement, o
<1>8. CASE r \in LeftFragments(B, f, o, q.type, g)
  <2>1. PICK c \in Cut(B, f, o, g) : r = [c EXCEPT !.hi = g.lo]
    BY <1>8 DEF LeftFragments
  <2>2. c \in LockRecord /\ c.owner = o
    BY <1>3, <2>1 DEF Cut, Own
  <2> QED BY <1>4, <2>1, <2>2 DEF o
<1>9. CASE r \in RightFragments(B, f, o, q.type, g)
  <2>1. PICK c \in Cut(B, f, o, g) : r = [c EXCEPT !.lo = g.hi]
    BY <1>9 DEF RightFragments
  <2>2. c \in LockRecord /\ c.owner = o
    BY <1>3, <2>1 DEF Cut, Own
  <2> QED BY <1>4, <2>1, <2>2 DEF o
<1> QED BY <1>6, <1>7, <1>8, <1>9

\* A request that is executed leaves locks of owners that exist: those there
\* were, and those of the process and the open file description that asked.
LEMMA ExecutionOwned ==
  ASSUME LockInv, OwnedInv, NEW q, WellFormed(q), Execute(q), PidOf[q.task] \in alive,
         UNCHANGED <<fds, alive, orphans>>, Pins \subseteq Pins',
         Referenced(q.ofd, fds, Pins')
  PROVE  /\ \A r \in records' : r.owner.kind = "process" => r.owner.id \in alive'
         /\ \A r \in records' : r.owner.kind # "process" =>
                                  orphans' \/ Referenced(r.owner.id, fds', Pins')
<1> SUFFICES ASSUME NEW r \in records'
             PROVE  /\ r.owner.kind = "process" => r.owner.id \in alive
                    /\ r.owner.kind # "process" =>
                         orphans \/ Referenced(r.owner.id, fds, Pins')
  OBVIOUS
<1>1. CASE r \in records
  BY <1>1, MorePins DEF OwnedInv
<1>2. CASE r \notin records
  <2>1. r.owner = OwnerOf(q)
    BY <1>2, ExecutionOwner DEF Execute
  <2> QED BY <2>1 DEF OwnerOf
<1> QED BY <1>1, <1>2

\* A lock call runs on a descriptor of a living process, and pins what it parks.
LEMMA LockCallOwned ==
  ASSUME LockInv, OwnersInv, NEW t \in Tasks, NEW o \in Ofds,
         NEW kind \in {"process", "ofd", "flock"},
         NEW type \in LockType \cup {"unlock"}, NEW whence \in {"set", "cur"},
         NEW start \in Int, NEW len \in Int, NEW wait,
         LockCall(t, o, kind, type, whence, start, len, wait)
  PROVE  OwnersInv'
<1> DEFINE q == [task |-> t, ofd |-> o, kind |-> kind, type |-> type, whence |-> whence,
                 start |-> start, len |-> len,
                 asked |-> Normalize(IF whence = "cur" THEN offset[o] + start ELSE start, len)]
           parks == Outcome(q) = "EAGAIN" /\ wait
<1>1. /\ Execute(q)
      /\ parked' = IF parks THEN parked \cup {q} ELSE parked
      /\ pc' = IF parks THEN "idle" ELSE "orphans"
      /\ UNCHANGED <<fds, alive, ended, orphans, todo>>
      /\ pc = "idle" /\ PidOf[t] \in alive /\ fds[PidOf[t]][o] > 0
  BY DEF LockCall, Enters
<1>2. WellFormed(q) /\ q.task = t /\ q.ofd = o
  BY DEF WellFormed
<1> HIDE DEF q, parks
<1>3. Pins \subseteq Pins'
  BY <1>1 DEF Pins
<1>4. Referenced(q.ofd, fds, Pins')
  BY <1>1, <1>2, DescriptionAssumption DEF Referenced, Refers
<1>5. EntryInv'
  BY <1>1 DEF OwnersInv, EntryInv
<1>6. \A x \in parked' : PidOf[x.task] \in alive'
  BY <1>1, <1>2 DEF OwnersInv, OwnedInv
<1> QED
  BY <1>1, <1>2, <1>3, <1>4, <1>5, <1>6, ExecutionOwned DEF OwnersInv, OwnedInv

\* Every step keeps the owners of the locks in existence.
LEMMA OwnersStep == LockInv /\ OwnersInv /\ [Next]_vars => OwnersInv'
<1> SUFFICES ASSUME LockInv, OwnersInv, [Next]_vars PROVE OwnersInv'
  OBVIOUS
<1>0. EntryInv /\ OwnedInv
  BY DEF OwnersInv
<1>1. ASSUME NEW t \in Tasks, Lock(t) PROVE OwnersInv'
  <2>1. PICK o \in Ofds, kind \in Kinds, type \in LockType \cup {"unlock"}, wait \in Waits :
          IF kind = "flock" THEN LockCall(t, o, kind, type, "set", 0, 0, wait)
          ELSE \E whence \in Whences, start \in Starts, len \in Lens :
                 LockCall(t, o, kind, type, whence, start, len, wait)
    BY <1>1 DEF Lock
  <2>2. kind \in {"process", "ofd", "flock"}
    BY RequestAssumption
  <2>3. CASE kind = "flock"
    BY <2>1, <2>2, <2>3, LockCallOwned
  <2>4. CASE kind # "flock"
    <3>1. PICK whence \in Whences, start \in Starts, len \in Lens :
            LockCall(t, o, kind, type, whence, start, len, wait)
      BY <2>1, <2>4
    <3>2. whence \in {"set", "cur"} /\ start \in Int /\ len \in Int
      BY RequestAssumption
    <3> QED BY <2>2, <3>1, <3>2, LockCallOwned
  <2> QED BY <2>3, <2>4
<1>2. ASSUME NEW t \in Tasks, Seek(t) PROVE OwnersInv'
  <2>1. /\ pc = "idle" /\ pc' = "orphans"
        /\ UNCHANGED <<records, fds, alive, parked, ended, orphans, todo>>
    BY <1>2 DEF Seek, Enters
  <2> QED BY <1>0, <2>1 DEF OwnersInv, EntryInv, OwnedInv, Pins
<1>3. ASSUME NEW t \in Tasks, NEW o \in Ofds, Close(t, o) PROVE OwnersInv'
  <2> DEFINE p == PidOf[t]
             left == [fds EXCEPT ![p][o] = @ - 1]
             rest == RemoveFileOwner(records, FileOf[o], ProcessOwner(p))
  <2>1. /\ pc = "idle" /\ pc' = "orphans" /\ Release(rest, left, parked)
        /\ UNCHANGED <<alive, parked, ended, todo>>
    BY <1>3 DEF Close, Enters
  <2>2. rest \subseteq records
    BY ReleasesShrink
  <2>3. records' \subseteq rest /\ fds' = left
    BY <2>1, ReleasesShrink DEF Release
  <2> HIDE DEF p, left, rest
  <2>4. ended = {} /\ Pins' = parked
    BY <1>0, <2>1 DEF EntryInv, Pins
  <2>5. \A r \in records' : r.owner.kind # "process" =>
                              orphans' \/ Referenced(r.owner.id, left, parked)
    BY <2>1, <2>2, ReleaseOwned
  <2> QED BY <1>0, <2>1, <2>2, <2>3, <2>4, <2>5 DEF OwnersInv, EntryInv, OwnedInv
<1>4. ASSUME NEW t \in Tasks, Exit(t) PROVE OwnersInv'
  <2> DEFINE p == PidOf[t]
             left == [fds EXCEPT ![p] = [o \in Ofds |-> 0]]
             others == {q \in parked : PidOf[q.task] # p}
  <2>1. /\ pc = "idle" /\ pc' = "orphans" /\ Release(RemoveProcess(records, p), left, others)
        /\ parked' = others /\ alive' = alive \ {p} /\ UNCHANGED <<ended, todo>>
    BY <1>4 DEF Exit, Enters, Stay
  <2>2. RemoveProcess(records, p) \subseteq records
    BY ReleasesShrink
  <2>3. records' \subseteq RemoveProcess(records, p) /\ fds' = left
    BY <2>1, ReleasesShrink DEF Release
  <2>4. \A q \in parked' : PidOf[q.task] \in alive'
    BY <1>0, <2>1 DEF OwnedInv
  <2>5. \A r \in records' : r.owner.kind = "process" => r.owner.id \in alive'
    <3> SUFFICES ASSUME NEW r \in records', r.owner.kind = "process" PROVE r.owner.id \in alive'
      OBVIOUS
    <3>1. r \in records /\ r.owner # ProcessOwner(p)
      BY <2>3 DEF RemoveProcess
    <3>2. r.owner \in [kind : {"process"}, id : Pids]
      <4>1. r \in LockRecord
        BY <3>1 DEF LockInv, TypeOK
      <4> QED BY <4>1 DEF LockRecord, Owner
    <3>3. r.owner.id # p
      BY <3>1, <3>2 DEF ProcessOwner
    <3> QED BY <1>0, <2>1, <3>1, <3>3 DEF OwnedInv
  <2> HIDE DEF p, left, others
  <2>6. todo = {} /\ ended = {} /\ Pins' = others
    BY <1>0, <2>1 DEF EntryInv, Pins
  <2>7. \A r \in records' : r.owner.kind # "process" =>
                              orphans' \/ Referenced(r.owner.id, left, others)
    BY <2>1, <2>2, ReleaseOwned
  <2> QED BY <2>1, <2>3, <2>4, <2>5, <2>6, <2>7 DEF OwnersInv, EntryInv, OwnedInv
<1>5. ASSUME NEW t \in Tasks \cup {NoTask}, OtherEntry(t) PROVE OwnersInv'
  <2>1. /\ pc = "idle" /\ pc' = "orphans"
        /\ UNCHANGED <<records, fds, alive, parked, ended, orphans, todo>>
    BY <1>5 DEF OtherEntry
  <2> QED BY <1>0, <2>1 DEF OwnersInv, EntryInv, OwnedInv, Pins
<1>6. CASE ReleaseOrphaned
  <2>1. /\ pc = "orphans" /\ pc' = "rounds" /\ orphans' = FALSE
        /\ UNCHANGED <<fds, alive, parked, ended, todo>>
        /\ records' = IF orphans THEN RemoveOfds(records, {o \in Ofds : ~Referenced(o, fds, Pins)})
                      ELSE records
    BY <1>6 DEF ReleaseOrphaned
  <2>2. records' \subseteq records /\ Pins' = Pins
    BY <2>1, ReleasesShrink DEF Pins
  <2>3. ASSUME NEW r \in records', r.owner.kind # "process"
        PROVE  Referenced(r.owner.id, fds, Pins)
    <3>1. r.owner.id \in Ofds
      <4>1. r \in LockRecord
        BY <2>2 DEF LockInv, TypeOK
      <4> QED BY <2>3, <4>1 DEF LockRecord, Owner
    <3> QED BY <1>0, <2>1, <2>3, <3>1 DEF OwnedInv, RemoveOfds
  <2> QED BY <1>0, <2>1, <2>2, <2>3 DEF OwnersInv, EntryInv, OwnedInv
<1>7. CASE Round
  <2>1. /\ pc = "rounds" /\ pc' = (IF noted THEN "retrying" ELSE "finish")
        /\ todo' = (IF noted THEN parked ELSE todo)
        /\ UNCHANGED <<records, fds, alive, parked, ended, orphans>>
    BY <1>7 DEF Round
  <2> QED BY <1>0, <2>1 DEF OwnersInv, EntryInv, OwnedInv, Pins
<1>8. CASE Retry
  <2>1. PICK q \in todo :
          /\ Execute(q) /\ todo' = todo \ {q}
          /\ IF Outcome(q) = "EAGAIN" THEN UNCHANGED <<parked, older, ended>>
             ELSE Stay(parked \ {q}) /\ ended' = ended \cup {q}
    BY <1>8 DEF Retry
  <2>2. pc = "retrying" /\ UNCHANGED <<fds, alive, orphans, pc>>
    BY <1>8 DEF Retry
  <2>3. q \in parked /\ q \in Request
    BY <1>0 DEF EntryInv, LockInv, TypeOK
  <2>4. WellFormed(q) /\ PidOf[q.task] \in alive
    BY <1>0, <2>3 DEF Request, WellFormed, OwnedInv
  <2>5. Pins' = Pins /\ q \in Pins
    BY <2>1, <2>3 DEF Pins, Stay
  <2>6. Referenced(q.ofd, fds, Pins')
    <3>1. PidOf[q.task] \in Pids
      BY <2>3, DescriptionAssumption DEF Request
    <3> QED BY <2>5, <3>1 DEF Referenced, Refers
  <2>7. EntryInv'
    BY <1>0, <2>1, <2>2 DEF EntryInv, Stay
  <2>8. \A x \in parked' : PidOf[x.task] \in alive'
    BY <1>0, <2>1, <2>2 DEF OwnedInv, Stay
  <2> QED
    BY <1>0, <2>1, <2>2, <2>4, <2>5, <2>6, <2>7, <2>8, ExecutionOwned DEF OwnersInv, OwnedInv
<1>9. CASE RoundEnds
  <2>1. /\ pc = "retrying" /\ todo = {} /\ pc' = "rounds"
        /\ UNCHANGED <<records, fds, alive, parked, ended, orphans, todo>>
    BY <1>9 DEF RoundEnds
  <2> QED BY <1>0, <2>1 DEF OwnersInv, EntryInv, OwnedInv, Pins
<1>10. CASE Finish
  <2> DEFINE stay == {q \in parked : q.task # hit}
  <2>1. /\ pc = "finish" /\ Release(records, fds, stay) /\ parked' = stay /\ ended' = {}
        /\ pc' = (IF ended # {} \/ stay # parked THEN "orphans" ELSE "idle")
        /\ UNCHANGED <<alive, todo>>
    BY <1>10 DEF Finish, Stay
  <2>2. stay \subseteq parked
    OBVIOUS
  <2> HIDE DEF stay
  <2>3. records' \subseteq records /\ fds' = fds /\ Pins' = stay
    BY <2>1, ReleasesShrink DEF Release, Pins
  <2>4. \A r \in records' : r.owner.kind # "process" =>
                              orphans' \/ Referenced(r.owner.id, fds, stay)
    BY <2>1, ReleaseOwned
  <2>5. orphans' => pc' = "orphans"
    <3>1. ~orphans
      BY <1>0, <2>1 DEF EntryInv
    <3>2. AsksOrphanCheck(fds, stay) => parked \cup ended # stay
      BY DEF AsksOrphanCheck
    <3> QED BY <2>1, <2>2, <3>1, <3>2 DEF Release
  <2> QED BY <1>0, <2>1, <2>2, <2>3, <2>4, <2>5 DEF OwnersInv, EntryInv, OwnedInv
<1>11. CASE UNCHANGED vars
  <2>1. UNCHANGED <<records, fds, alive, parked, ended, orphans, pc, todo>>
    BY <1>11 DEF vars
  <2> QED BY <1>0, <2>1 DEF OwnersInv, EntryInv, OwnedInv, Pins
<1> QED
  BY <1>1, <1>2, <1>3, <1>4, <1>5, <1>6, <1>7, <1>8, <1>9, <1>10, <1>11
  DEF Next, SystemCall, Settle

\* Requests and locks have an owner that exists, at every point of an entry.
LEMMA OwnersInvariant == Spec => [](LockInv /\ OwnersInv)
<1>1. Init => OwnersInv
  BY DEF Init, OwnersInv, EntryInv, OwnedInv
<1> QED BY <1>1, OwnersStep, LockInvariant, PTL DEF Spec

\* Between entries no lock outlives its process or its open file description,
\* whatever closes, exits, decided requests and orphan checks came before.
THEOREM LockOwnersExist == Spec => []OwnersExist
<1>1. OwnersInv => OwnersExist
  BY DEF OwnersInv, EntryInv, OwnedInv, OwnersExist
<1> QED BY <1>1, OwnersInvariant, PTL

\* The descriptions a release takes locks from are those no descriptor and no
\* pin that is left refers to.
LEMMA FinalUnreferenced ==
  ASSUME NEW F, NEW Q, NEW o \in Final(F, Q)
  PROVE  ~Referenced(o, F, Q)
BY DEF Final

\* What a release takes beyond the process-owned records, it takes from
\* descriptions that are given up.
LEMMA ReleaseGivenUp ==
  ASSUME NEW R, NEW F, NEW Q, Release(R, F, Q), NEW r \in R \ records'
  PROVE  r.owner.kind # "process" /\ ~Referenced(r.owner.id, F, Q)
BY FinalUnreferenced DEF Release, RemoveOfds

\* No close, exit, orphan check or end of a request takes a lock from anyone but
\* the processes that exit or close the file and the descriptions nothing refers
\* to any more.
THEOREM LocksNeverTaken == Spec => LocksKept
<1> DEFINE Lossless == \A r \in records \ records' : GivenUp(r)
<1>1. ASSUME LockInv, OwnersInv, NEW t \in Tasks, NEW o \in Ofds, Close(t, o)
      PROVE  Lossless
  <2> DEFINE p == PidOf[t]
             left == [fds EXCEPT ![p][o] = @ - 1]
             rest == RemoveFileOwner(records, FileOf[o], ProcessOwner(p))
  <2>1. /\ pc = "idle" /\ Release(rest, left, parked) /\ UNCHANGED <<parked, ended>>
        /\ fds' = left
    BY <1>1 DEF Close, Enters, Release
  <2>2. parked' \cup ended' = parked
    BY <1>1, <2>1 DEF OwnersInv, EntryInv
  <2>3. fds'[p][o] < fds[p][o]
    <3>1. p \in Pids /\ fds \in [Pids -> [Ofds -> Nat]]
      BY <1>1, DescriptionAssumption DEF LockInv, TypeOK
    <3> QED BY <2>1, <3>1
  <2> SUFFICES ASSUME NEW r \in records \ records' PROVE GivenUp(r)
    OBVIOUS
  <2>4. CASE r \in rest
    <3> HIDE DEF rest, left
    <3>1. r.owner.kind # "process" /\ ~Referenced(r.owner.id, left, parked)
      BY <2>1, <2>4, ReleaseGivenUp
    <3> QED BY <2>1, <2>2, <3>1 DEF GivenUp
  <2>5. CASE r \notin rest
    <3>1. r.file = FileOf[o] /\ r.owner.kind = "process" /\ r.owner.id = p
      BY <2>5 DEF RemoveFileOwner, Own, ProcessOwner
    <3> QED BY <2>3, <3>1 DEF GivenUp
  <2> QED BY <2>4, <2>5
<1>2. ASSUME LockInv, OwnersInv, NEW t \in Tasks, Exit(t)
      PROVE  Lossless
  <2> DEFINE p == PidOf[t]
             left == [fds EXCEPT ![p] = [o \in Ofds |-> 0]]
             others == {q \in parked : PidOf[q.task] # p}
  <2>1. /\ pc = "idle" /\ Release(RemoveProcess(records, p), left, others)
        /\ parked' = others /\ ended' = ended /\ fds' = left /\ alive' = alive \ {p}
    BY <1>2 DEF Exit, Enters, Stay, Release
  <2> HIDE DEF p, left, others
  <2>2. parked' \cup ended' = others
    BY <1>2, <2>1 DEF OwnersInv, EntryInv
  <2> SUFFICES ASSUME NEW r \in records \ records' PROVE GivenUp(r)
    OBVIOUS
  <2>3. CASE r \in RemoveProcess(records, p)
    <3>1. r.owner.kind # "process" /\ ~Referenced(r.owner.id, left, others)
      BY <2>1, <2>3, ReleaseGivenUp
    <3> QED BY <2>1, <2>2, <3>1 DEF GivenUp
  <2>4. CASE r \notin RemoveProcess(records, p)
    <3>1. r.owner.kind = "process" /\ r.owner.id = p
      BY <2>4 DEF RemoveProcess, ProcessOwner
    <3> QED BY <2>1, <3>1 DEF GivenUp
  <2> QED BY <2>3, <2>4
<1>3. ASSUME ReleaseOrphaned PROVE Lossless
  <2>1. /\ UNCHANGED <<fds, parked, ended>>
        /\ records' = IF orphans THEN RemoveOfds(records, {o \in Ofds : ~Referenced(o, fds, Pins)})
                      ELSE records
    BY <1>3 DEF ReleaseOrphaned
  <2> SUFFICES ASSUME NEW r \in records \ records' PROVE GivenUp(r)
    OBVIOUS
  <2>2. r.owner.kind # "process" /\ ~Referenced(r.owner.id, fds, Pins)
    BY <2>1 DEF RemoveOfds
  <2> QED BY <2>1, <2>2 DEF GivenUp, Pins
<1>4. ASSUME Finish PROVE Lossless
  <2> DEFINE stay == {q \in parked : q.task # hit}
  <2>1. Release(records, fds, stay) /\ parked' = stay /\ ended' = {} /\ fds' = fds
    BY <1>4 DEF Finish, Stay, Release
  <2> HIDE DEF stay
  <2> SUFFICES ASSUME NEW r \in records \ records' PROVE GivenUp(r)
    OBVIOUS
  <2>2. r.owner.kind # "process" /\ ~Referenced(r.owner.id, fds, stay)
    BY <2>1, ReleaseGivenUp
  <2> QED BY <2>1, <2>2 DEF GivenUp
<1>5. LockInv /\ OwnersInv =>
        [(ReleaseOrphaned \/ Finish \/ \E t \in Tasks : Exit(t) \/ \E o \in Ofds : Close(t, o))
           => \A r \in records \ records' : GivenUp(r)]_vars
  BY <1>1, <1>2, <1>3, <1>4
<1> QED BY <1>5, OwnersInvariant, PTL DEF LocksKept

=============================================================================
