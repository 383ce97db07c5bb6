--------------------------- MODULE WaitParkProofs ---------------------------
(***************************************************************************)
(* Safety of the waits the kernel owns, for any processes, threads,        *)
(* signals, timeouts and bounds.  The invariants say of each point of an   *)
(* entry (ctl.pc) what may still be left to do there, so that nothing is   *)
(* when the entry ends.                                                    *)
(***************************************************************************)
EXTENDS WaitPark, FiniteSetTheorems, TLAPS

-----------------------------------------------------------------------------
(* The invariants.                                                         *)

\* Types, a little stronger than TypeOK: what the contexts of a mask wait hold,
\* and where an entry can be.
SavedMask == [mask : SUBSET Sig, repl : SUBSET Sig]
Dirty == [signals : BOOLEAN, pids : SUBSET Pids, children : BOOLEAN, notices : SUBSET Pids,
          pipe : BOOLEAN, continued : SUBSET Pids]
Passing == {"announce", "child", "children", "signal", "retry", "retrying", "expire", "sweep"}
Called == {"return", "returnsuspend", "followup", "cancelnew"}
Points == Passing \cup Called \cup {"idle", "out", "lifecycle", "publish"}
Control == [pc : Points, pass : {"events", "drain"}, caller : Tasks \cup {NoTask},
            target : Tasks \cup {NoTask}, at : Nat]
GuestType ==
  /\ guest \in [Tasks -> {"user", "call", "blocked", "finish", "gone"}] /\ waitGen \in [Tasks -> Nat]
  /\ effects \in [Tasks -> {"none", "user", "suspend", "finish"}]
SignalType ==
  /\ shared \in [Pids -> SUBSET Sig] /\ directed \in [Tasks -> SUBSET Sig]
  /\ blocked \in [Tasks -> SUBSET Sig] /\ saved \in [Tasks -> Seq(SavedMask)]
ParkType ==
  /\ parks \subseteq Park /\ IsFiniteSet(parks)
  /\ completions \in Seq(Record) /\ released \subseteq Tasks /\ nextGen \in Nat \ {0}
DirtyType == dirty \in Dirty
ProcStates == {"running", "stopped", "exited", "reaped"}
Pipes == [fill : 0..PipeCap, read : SUBSET Pids, write : SUBSET Pids]
WorldType == pins \subseteq Tasks \X Ends /\ proc \in [Pids -> ProcStates] /\ pipe \in Pipes
HostType ==
  /\ fresh \in Seq(Record) /\ batch \in Seq(Record \cup {ArmMark})
  /\ cancels \subseteq Tasks /\ timerDue \in Nat \cup {None} /\ now \in 0..MaxNow
ControlType == ctl \in Control /\ (ctl.pc \in Called => ctl.caller \in Tasks)
TInv ==
  GuestType /\ SignalType /\ ParkType /\ DirtyType /\ WorldType /\ HostType /\ ControlType

\* How long the notes of an entry may stay unanswered.
NotesInv ==
  /\ dirty.notices # {} => ctl.pc \in {"return", "announce"}
  /\ dirty.children => ctl.pc \in {"return", "announce", "child", "children"}
  /\ dirty.signals => ctl.pc \in Called \cup Passing
  /\ dirty.pids # {} => ctl.pc \in {"followup", "cancelnew"}
PassInv ==
  /\ ctl.pc = "lifecycle" => ctl.pass = "events"
  /\ ctl.pc \in {"expire", "out"} => ctl.pass = "drain"
  /\ ctl.pc = "idle" => batch = <<>>
  /\ ctl.pc \in {"idle", "publish"} => completions = <<>>
  /\ fresh # <<>> => ctl.pass = "drain" /\ ctl.pc \in Passing \cup {"out"}
  /\ released \subseteq {completions[i].task : i \in DOMAIN completions}

\* Each park is the one that its thread sleeps in.
ParksInv ==
  /\ \A w \in parks : /\ 0 < w.gen /\ w.gen < nextGen /\ waitGen[w.task] = w.gen
                      /\ guest[w.task] = "blocked" /\ effects[w.task] = "none"
  /\ \A v, w \in parks : v.gen = w.gen => v = w
\* So is each record that is on its way, and no two answer the same wait.
Answers(r) ==
  /\ r.task \in Tasks /\ 0 < r.gen /\ r.gen < nextGen /\ waitGen[r.task] = r.gen
  /\ effects[r.task] = "none" /\ guest[r.task] = IF r.flag = "published" THEN "user" ELSE "blocked"
  /\ \A w \in parks : w.gen # r.gen
Queued == {r \in Range(OnTheWay) : r # ArmMark}
Single(q) == \A i, j \in DOMAIN q : i # j /\ q[i].gen # 0 => q[i].gen # q[j].gen
RecordsInv == Single(OnTheWay) /\ \A r \in Queued : Answers(r)
Awaited(t) ==
  /\ effects[t] # "none" => guest[t] \in {"call", "blocked"}
  /\ guest[t] = "blocked" =>
       \/ \E w \in parks : w.task = t
       \/ \E r \in Queued : r.task = t /\ r.flag # "published"
       \/ effects[t] # "none"
GuestsInv == \A t \in Tasks : Awaited(t)
CallerInv == ctl.pc \in {"return", "returnsuspend"} => guest[ctl.caller] = "call"
AnswerInv == RecordsInv /\ GuestsInv /\ CallerInv

\* The timer covers the deadlines, or is going to be armed.
Covered ==
  \A w \in parks :
    w.deadline # None => timerDue # None /\ (timerDue < w.deadline + Millisecond \/ timerDue <= now)
Rearming ==
  \/ ctl.pc \in {"followup", "cancelnew"}
  \/ ctl.pass = "drain" /\ ctl.pc \in Passing \cup {"out"}
  \/ \E i \in DOMAIN batch : batch[i] = ArmMark
TimerInv == Covered \/ Rearming

\* What a signal, a child or a set of signals may still have to be offered to.
TargetsInv ==
  \A w \in parks : SignalTargets(w.task) => dirty.signals \/ PidOf[w.task] \in dirty.pids
SetsInv ==
  \A w \in parks : w.kind = "sigtimed" /\ Pending(w.task) \cap w.set # {} =>
    /\ dirty.signals
    /\ ctl.pc \in {"return", "returnsuspend", "announce", "child", "children", "signal"}
ChildrenInv ==
  /\ \A w \in parks : w.kind = "child" /\ PollChild(PidOf[w.task], proc) # NoTask =>
       dirty.children \/ (ctl.pc = "children" /\ w.gen > ctl.at)
  /\ \A p \in Pids : proc[p] = "reaped" => p \notin dirty.notices

\* The pins are those of the sleeping transfers, and of the decided ones until
\* they are released.
PinsInv ==
  /\ \A w \in parks : IsTransfer(w) => <<w.task, w.kind>> \in pins
  /\ \A x \in pins :
       \/ \E w \in parks : w.task = x[1] /\ w.kind = x[2]
       \/ /\ x[1] \in released
          /\ \E i \in DOMAIN completions : completions[i].task = x[1] /\ completions[i].kind = x[2]
\* Only readers sleep, or only writers; also while a result that the kernel
\* published itself, which starts no pass, is not yet collected.
SidesInv ==
  /\ \A v, w \in parks : IsTransfer(v) /\ IsTransfer(w) => v.kind = w.kind
  /\ \A i \in DOMAIN completions : completions[i].flag = "published" =>
       \A w \in parks : IsTransfer(w) => w.kind = completions[i].kind
\* A transfer that would not block any more is going to be tried.
Retriable == {"return", "returnsuspend", "announce", "child", "children", "signal", "retry", "retrying"}
Unheard(r) == r # ArmMark /\ r.flag # "published"
RetryComes ==
  /\ dirty.pipe
  /\ ctl.pc \in Retriable \/ (ctl.pc = "publish" /\ \E i \in DOMAIN batch : Unheard(batch[i]))
RetriesInv ==
  \A w \in parks : IsTransfer(w) /\ Attempted(w.kind) # "block" =>
    RetryComes \/ (ctl.pc = "retrying" /\ w.gen > ctl.at)
TransferInv == PinsInv /\ SidesInv /\ RetriesInv

-----------------------------------------------------------------------------
(* Orders: the least of a set of numbers, and the parks of a set in order. *)

\* A set of naturals has the least element that Lowest chooses.
LEMMA LowestExists ==
  ASSUME NEW S \in SUBSET Nat, S # {}
  PROVE  Lowest(S) \in S /\ \A o \in S : Lowest(S) <= o
<1> DEFINE F == {0 .. x : x \in S}
<1>1. F # {} /\ \A A \in F : A \in SUBSET Int /\ IsFiniteSet(A)
  <2>1. PICK z \in S : TRUE
    OBVIOUS
  <2>2. 0 .. z \in F
    BY <2>1
  <2>3. ASSUME NEW A \in F PROVE A \in SUBSET Int /\ IsFiniteSet(A)
    <3>1. PICK x \in S : A = 0 .. x
      OBVIOUS
    <3>2. IsFiniteSet(0 .. x)
      BY FS_Interval
    <3> QED BY <3>1, <3>2
  <2> QED BY <2>2, <2>3
<1>2. PICK A \in F : \A B \in F : ~(<<B, A>> \in StrictSubsetOrdering(Int))
  <2> HIDE DEF F
  <2>1. IsWellFoundedOn(StrictSubsetOrdering(Int), FiniteSubsetsOf(Int))
    BY FS_StrictSubsetOrderingWellFounded
  <2>2. F \subseteq FiniteSubsetsOf(Int)
    BY <1>1 DEF FiniteSubsetsOf
  <2> QED BY <1>1, <2>1, <2>2, WFMin
<1>3. PICK x \in S : A = 0 .. x
  OBVIOUS
<1>4. \A y \in S : x <= y
  <2> SUFFICES ASSUME NEW y \in S, y < x PROVE FALSE
    OBVIOUS
  <2>1. x \in A /\ ~(x \in 0 .. y) /\ 0 .. y \subseteq A /\ A \subseteq Int
    BY <1>3
  <2>2. 0 .. y \in F
    OBVIOUS
  <2>3. <<0 .. y, A>> \in StrictSubsetOrdering(Int)
    BY <2>1 DEF StrictSubsetOrdering
  <2> QED BY <1>2, <2>2, <2>3
<1>5. \E s \in S : \A o \in S : s <= o
  BY <1>3, <1>4
<1> QED BY <1>5 DEF Lowest

\* A finite set under a strict total order R is in order as a sequence: each
\* element goes behind as many as there are before it.
LEMMA InOrder ==
  ASSUME NEW S, IsFiniteSet(S), NEW R,
         \A a \in S : <<a, a>> \notin R,
         \A a, b \in S : a # b => <<a, b>> \in R \/ <<b, a>> \in R,
         \A a, b, c \in S : <<a, b>> \in R /\ <<b, c>> \in R => <<a, c>> \in R
  PROVE  \E q \in SetToSeqs(S) : \A i, j \in DOMAIN q : i < j => <<q[i], q[j]>> \in R
<1> DEFINE n == Cardinality(S)
           Before(s) == {t \in S : <<t, s>> \in R}
           place == [s \in S |-> Cardinality(Before(s)) + 1]
           q == [i \in 1..n |-> CHOOSE s \in S : place[s] = i]
<1>1. n \in Nat /\ IsFiniteSet(1..n) /\ Cardinality(1..n) = n
  <2>1. n \in Nat
    BY FS_CardinalityType
  <2> QED BY <2>1, FS_Interval
<1>2. \A s \in S : IsFiniteSet(Before(s)) /\ Cardinality(Before(s)) \in Nat /\ Cardinality(Before(s)) < n
  <2> SUFFICES ASSUME NEW s \in S
               PROVE  /\ IsFiniteSet(Before(s)) /\ Cardinality(Before(s)) \in Nat
                      /\ Cardinality(Before(s)) < n
    OBVIOUS
  <2>1. Before(s) \in SUBSET S /\ Before(s) # S
    OBVIOUS
  <2> HIDE DEF Before
  <2>2. IsFiniteSet(Before(s)) /\ Cardinality(Before(s)) <= n /\ Cardinality(Before(s)) # n
    BY <2>1, FS_Subset
  <2>3. Cardinality(Before(s)) \in Nat
    BY <2>2, FS_CardinalityType
  <2> QED BY <1>1, <2>2, <2>3
<1>3. \A s, t \in S : <<s, t>> \in R => Cardinality(Before(s)) < Cardinality(Before(t))
  <2> SUFFICES ASSUME NEW s \in S, NEW t \in S, <<s, t>> \in R
               PROVE  Cardinality(Before(s)) < Cardinality(Before(t))
    OBVIOUS
  <2>1. Before(s) \in SUBSET Before(t) /\ Before(s) # Before(t)
    OBVIOUS
  <2> HIDE DEF Before
  <2>2. Cardinality(Before(s)) <= Cardinality(Before(t)) /\ Cardinality(Before(s)) # Cardinality(Before(t))
    BY <1>2, <2>1, FS_Subset
  <2> QED BY <1>2, <2>2
<1> HIDE DEF Before
<1>4. place \in [S -> 1..n] /\ \A s, t \in S : <<s, t>> \in R => place[s] < place[t]
  BY <1>1, <1>2, <1>3
<1> HIDE DEF place
<1>5. place \in Surjection(S, 1..n)
  <2>1. \A s, t \in S : place[s] = place[t] => s = t
    <3> SUFFICES ASSUME NEW s \in S, NEW t \in S, place[s] = place[t], s # t PROVE FALSE
      OBVIOUS
    <3>1. place[s] \in Int /\ place[t] \in Int
      BY <1>1, <1>4
    <3>2. place[s] < place[t] \/ place[t] < place[s]
      BY <1>4
    <3> QED BY <3>1, <3>2
  <2>2. place \in Injection(S, 1..n)
    BY <1>4, <2>1 DEF Injection, IsInjective
  <2> QED BY <1>1, <2>2, FS_Injection
<1>6. \A i \in 1..n : q[i] \in S /\ place[q[i]] = i
  BY <1>5 DEF Surjection
<1>7. q \in [1..n -> S] /\ DOMAIN q = 1..n
  BY <1>6
<1> HIDE DEF q
<1>8. \A i, j \in 1..n : i # j => q[i] # q[j]
  BY <1>6
<1>9. q \in SetToSeqs(S)
  BY <1>7, <1>8 DEF SetToSeqs
<1>10. \A i, j \in 1..n : i < j => <<q[i], q[j]>> \in R
  <2> SUFFICES ASSUME NEW i \in 1..n, NEW j \in 1..n, i < j, <<q[i], q[j]>> \notin R PROVE FALSE
    OBVIOUS
  <2>1. place[q[j]] < place[q[i]]
    BY <1>4, <1>6, <1>8
  <2> QED BY <1>6, <2>1
<1> QED BY <1>7, <1>9, <1>10

\* The sequences of a set hold each of its elements once.
LEMMA SequenceOfSet ==
  ASSUME NEW S, IsFiniteSet(S), NEW q \in SetToSeqs(S)
  PROVE  /\ q \in Seq(S) /\ DOMAIN q = 1..Len(q)
         /\ \A i, j \in 1..Len(q) : i # j => q[i] # q[j]
         /\ Range(q) = S
<1> DEFINE n == Cardinality(S)
<1>1. n \in Nat /\ IsFiniteSet(1..n) /\ Cardinality(1..n) = n
  <2>1. n \in Nat
    BY FS_CardinalityType
  <2> QED BY <2>1, FS_Interval
<1>2. q \in [1..n -> S] /\ \A i, j \in 1..n : i # j => q[i] # q[j]
  BY DEF SetToSeqs
<1>3. q \in Injection(1..n, S) /\ Cardinality(S) = n
  BY <1>2 DEF Injection, IsInjective
<1> HIDE DEF n
<1>4. q \in Seq(S)
  BY <1>1, <1>2
<1>5. Len(q) = n
  BY <1>1, <1>2, <1>4
<1>6. q \in Surjection(1..n, S)
  BY <1>1, <1>3, FS_Injection
<1>7. Range(q) = S
  BY <1>2, <1>6 DEF Surjection, Range
<1> QED BY <1>2, <1>4, <1>5, <1>7

\* Some of the parks, each once.
Picks(ws) == ws \in Seq(parks) /\ \A i, j \in 1..Len(ws) : i # j => ws[i] # ws[j]

\* What is known of the parks to sort them.
LEMMA ParkFacts ==
  ASSUME ParkType, NEW w \in parks
  PROVE  /\ w \in Park /\ w.gen \in Nat /\ w.task \in Tasks /\ w.kind \in Kinds
         /\ w.deadline \in Nat \cup {None} /\ w.set \in SUBSET Sig /\ w.rem \in BOOLEAN
BY DEF ParkType, Park

\* The parks of a set, oldest first.
LEMMA AgeOrder ==
  ASSUME ParkType, ParksInv, NEW S \in SUBSET parks
  PROVE  Picks(ByAge(S)) /\ Range(ByAge(S)) = S
<1> DEFINE R == {x \in S \X S : x[1].gen < x[2].gen}
<1>1. IsFiniteSet(S)
  BY FS_Subset DEF ParkType
<1>2. /\ \A s \in S : s.gen \in Nat
      /\ \A s, t \in S : s.gen = t.gen => s = t
  BY ParkFacts DEF ParksInv
<1>3. \A s, t \in S : <<s, t>> \in R <=> s.gen < t.gen
  OBVIOUS
<1> HIDE DEF R
<1>4. /\ \A a \in S : <<a, a>> \notin R
      /\ \A a, b \in S : a # b => <<a, b>> \in R \/ <<b, a>> \in R
      /\ \A a, b, c \in S : <<a, b>> \in R /\ <<b, c>> \in R => <<a, c>> \in R
  BY <1>2, <1>3
<1>5. PICK q \in SetToSeqs(S) : \A i, j \in DOMAIN q : i < j => <<q[i], q[j]>> \in R
  BY <1>1, <1>4, InOrder
<1>6. \A i \in DOMAIN q : q[i] \in S
  BY <1>1, SequenceOfSet
<1>7. \A i, j \in DOMAIN q : i < j => q[i].gen < q[j].gen
  BY <1>3, <1>5, <1>6
<1>8. ByAge(S) \in SetToSeqs(S)
  BY <1>7 DEF ByAge
<1> QED BY <1>1, <1>8, SequenceOfSet DEF Picks

\* The parks with a deadline, the earliest first.
LEMMA DeadlineOrder ==
  ASSUME ParkType, ParksInv, NEW S \in SUBSET parks, \A s \in S : s.deadline # None
  PROVE  Picks(ByDeadline(S)) /\ Range(ByDeadline(S)) = S
<1> DEFINE R == {x \in S \X S : Earlier(x[1], x[2])}
<1>1. IsFiniteSet(S)
  BY FS_Subset DEF ParkType
<1>2. /\ \A s \in S : s.gen \in Nat /\ s.deadline \in Nat
      /\ \A s, t \in S : s.gen = t.gen => s = t
  BY ParkFacts DEF ParksInv
<1>3. \A s, t \in S : <<s, t>> \in R <=> Earlier(s, t)
  OBVIOUS
<1> HIDE DEF R
<1>4. /\ \A a \in S : <<a, a>> \notin R
      /\ \A a, b \in S : a # b => <<a, b>> \in R \/ <<b, a>> \in R
      /\ \A a, b, c \in S : <<a, b>> \in R /\ <<b, c>> \in R => <<a, c>> \in R
  BY <1>2, <1>3 DEF Earlier
<1>5. PICK q \in SetToSeqs(S) : \A i, j \in DOMAIN q : i < j => <<q[i], q[j]>> \in R
  BY <1>1, <1>4, InOrder
<1>6. \A i \in DOMAIN q : q[i] \in S
  BY <1>1, SequenceOfSet
<1>7. \A i, j \in DOMAIN q : i < j => Earlier(q[i], q[j])
  BY <1>3, <1>5, <1>6
<1>8. ByDeadline(S) \in SetToSeqs(S)
  BY <1>7 DEF ByDeadline
<1> QED BY <1>1, <1>8, SequenceOfSet DEF Picks

\* The futex waiters that a wake takes.
LEMMA WokenPicks ==
  ASSUME ParkType, ParksInv, NEW p, NEW n \in Nat
  PROVE  /\ Picks(Woken(p, n)) /\ \A i \in 1..Len(Woken(p, n)) : Woken(p, n)[i].kind = "futex"
<1> DEFINE S == {w \in parks : w.kind = "futex" /\ PidOf[w.task] = p}
           ws == ByAge(S)
           m == IF n < Len(ws) THEN n ELSE Len(ws)
<1>1. Picks(ws) /\ Range(ws) = S
  BY AgeOrder
<1>2. Woken(p, n) = SubSeq(ws, 1, m)
  BY DEF Woken
<1>3. \A w \in S : w.kind = "futex"
  OBVIOUS
<1> HIDE DEF ws, S
<1>4. /\ ws \in Seq(parks) /\ Len(ws) \in Nat /\ m \in 0..Len(ws) /\ DOMAIN ws = 1..Len(ws)
      /\ \A i, j \in 1..Len(ws) : i # j => ws[i] # ws[j]
  BY <1>1 DEF Picks
<1> HIDE DEF m
<1>5. /\ SubSeq(ws, 1, m) \in Seq(parks) /\ Len(SubSeq(ws, 1, m)) = m
      /\ \A i \in 1..m : SubSeq(ws, 1, m)[i] = ws[i]
  BY <1>4
<1>6. \A i \in 1..m : ws[i] \in S
  BY <1>1, <1>4 DEF Range
<1> QED BY <1>2, <1>3, <1>4, <1>5, <1>6 DEF Picks

\* One park.
LEMMA OnePick ==
  ASSUME NEW w \in parks
  PROVE  Picks(<<w>>) /\ Len(<<w>>) = 1 /\ <<w>>[1] = w /\ Range(<<w>>) = {w}
BY DEF Picks, Range

\* The oldest park of a set.
LEMMA EldestExists ==
  ASSUME ParkType, NEW S \in SUBSET parks, S # {}
  PROVE  Eldest(S) \in S /\ \A o \in S : Eldest(S).gen <= o.gen
<1> DEFINE G == {w.gen : w \in S}
<1>1. G \in SUBSET Nat /\ G # {}
  BY ParkFacts
<1>2. Lowest(G) \in G /\ \A o \in G : Lowest(G) <= o
  <2> HIDE DEF G
  <2> QED BY <1>1, LowestExists
<1>3. PICK w \in S : w.gen = Lowest(G)
  BY <1>2
<1>4. \A o \in S : w.gen <= o.gen
  BY <1>2, <1>3
<1> QED BY <1>4 DEF Eldest

-----------------------------------------------------------------------------
(* Decisions.                                                              *)

\* The parks `ws` leave the queue, each with a result that names it.
Decision(ws, done) ==
  /\ Picks(ws) /\ done \in Seq(Record) /\ Len(done) = Len(ws)
  /\ \A i \in 1..Len(ws) :
       done[i].gen = ws[i].gen /\ done[i].task = ws[i].task /\ done[i].kind = ws[i].kind
  /\ parks' = parks \ Range(ws)
  /\ completions' = completions \o done
  /\ released' = released \cup Unpinned(ws)
\* Only a transfer's own completion may be published by the kernel.
Silent(done) == \A i \in 1..Len(done) : done[i].flag # "published"

\* A result is a record.
LEMMA CompletionTyped ==
  ASSUME ParkType, NEW w \in parks, NEW value \in Values,
         NEW flag \in {"none", "published", "cancelled"}, NEW rem \in BOOLEAN
  PROVE  /\ Completion(w, value, flag, rem) \in Record
         /\ Completion(w, value, flag, rem).gen = w.gen /\ Completion(w, value, flag, rem).task = w.task
         /\ Completion(w, value, flag, rem).flag = flag /\ Completion(w, value, flag, rem).kind = w.kind
BY ParkFacts DEF Completion, Record

\* Several parks with results of the same kind.
LEMMA FinishDecides ==
  ASSUME ParkType, NEW ws, Picks(ws), NEW done, done = [i \in DOMAIN ws |-> done[i]],
         \A i \in DOMAIN ws : \E value \in Values, rem \in BOOLEAN :
           done[i] = Completion(ws[i], value, "none", rem),
         parks' = parks \ Range(ws), completions' = completions \o done,
         released' = released \cup Unpinned(ws)
  PROVE  Decision(ws, done) /\ Silent(done)
<1>1. ws \in Seq(parks) /\ Len(ws) \in Nat /\ DOMAIN ws = 1..Len(ws)
  BY DEF Picks
<1>2. \A i \in 1..Len(ws) : /\ done[i] \in Record /\ done[i].gen = ws[i].gen /\ done[i].kind = ws[i].kind
                            /\ done[i].task = ws[i].task /\ done[i].flag = "none"
  <2> SUFFICES ASSUME NEW i \in 1..Len(ws)
               PROVE  /\ done[i] \in Record /\ done[i].gen = ws[i].gen /\ done[i].kind = ws[i].kind
                      /\ done[i].task = ws[i].task /\ done[i].flag = "none"
    OBVIOUS
  <2>1. ws[i] \in parks
    BY <1>1
  <2>2. PICK value \in Values, rem \in BOOLEAN : done[i] = Completion(ws[i], value, "none", rem)
    BY <1>1
  <2> QED BY <2>1, <2>2, CompletionTyped
<1>3. done \in Seq(Record) /\ Len(done) = Len(ws)
  BY <1>1, <1>2
<1> QED BY <1>2, <1>3 DEF Decision, Silent

\* One park.
LEMMA FinishOneDecides ==
  ASSUME ParkType, NEW w \in parks, NEW value \in Values,
         NEW flag \in {"none", "published", "cancelled"}, FinishOne(w, value, flag)
  PROVE  \E done : /\ Decision(<<w>>, done)
                   /\ Len(done) = 1 /\ done[1] = Completion(w, value, flag, FALSE)
<1>1. PICK r : r = Completion(w, value, flag, FALSE)
  OBVIOUS
<1>2. r \in Record /\ r.gen = w.gen /\ r.task = w.task /\ r.kind = w.kind
  BY <1>1, CompletionTyped
<1>3. PICK ws, done : ws = <<w>> /\ done = <<r>>
  OBVIOUS
<1>4. /\ parks' = parks \ Range(ws) /\ completions' = completions \o done
      /\ released' = released \cup Unpinned(ws)
  BY <1>1, <1>3 DEF FinishOne, Finish
<1>5. Picks(ws) /\ Len(ws) = 1 /\ ws[1] = w
  BY <1>3, OnePick
<1>6. done \in Seq(Record) /\ Len(done) = 1 /\ done[1] = r
  BY <1>2, <1>3
<1>7. \A i \in 1..Len(ws) : done[i].gen = ws[i].gen /\ done[i].task = ws[i].task /\ done[i].kind = ws[i].kind
  BY <1>2, <1>5, <1>6
<1>8. Decision(ws, done)
  BY <1>4, <1>5, <1>6, <1>7 DEF Decision
<1> QED BY <1>1, <1>3, <1>6, <1>8

\* A wake of futex waiters.
LEMMA WokenDecides ==
  ASSUME ParkType, ParksInv, NEW p, NEW n \in Nat, FutexWoken(Woken(p, n))
  PROVE  \E done : Decision(Woken(p, n), done) /\ Silent(done)
<1> DEFINE ws == Woken(p, n)
           done == [i \in DOMAIN ws |-> Completion(ws[i], "ok", "none", FALSE)]
<1>1. Picks(ws)
  BY WokenPicks
<1>2. /\ parks' = parks \ Range(ws) /\ completions' = completions \o done
      /\ released' = released \cup Unpinned(ws)
  BY DEF FutexWoken, Finish
<1> HIDE DEF ws
<1>3. /\ done = [i \in DOMAIN ws |-> done[i]]
      /\ \A i \in DOMAIN ws : \E value \in Values, rem \in BOOLEAN :
           done[i] = Completion(ws[i], value, "none", rem)
  BY DEF Values
<1> HIDE DEF done
<1>4. Decision(ws, done) /\ Silent(done)
  BY <1>1, <1>2, <1>3, FinishDecides
<1> QED BY <1>4 DEF ws

\* A sweep ends the parks in its scope that a signal targets, and no other.
SweptParks(ws) ==
  ws = ByAge({w \in parks : (dirty.signals \/ PidOf[w.task] \in dirty.pids) /\ SignalTargets(w.task)})
\* The decision of a sweep is of those parks, and says nothing but EINTR.
LEMMA SweptDecides ==
  ASSUME ParkType, ParksInv, Swept
  PROVE  \E ws, done : SweptParks(ws) /\ Decision(ws, done) /\ Silent(done)
<1> DEFINE scope == {w \in parks : dirty.signals \/ PidOf[w.task] \in dirty.pids}
           hit == {w \in scope : Live(w.task) /\ SignalTargets(w.task)}
           ws == ByAge(hit)
           done == [i \in DOMAIN ws |-> Completion(ws[i], "EINTR", "none", ws[i].rem)]
<1>1. \A w \in scope : Live(w.task)
  BY DEF ParksInv, Live
<1>2. /\ hit = {w \in parks : (dirty.signals \/ PidOf[w.task] \in dirty.pids) /\ SignalTargets(w.task)}
      /\ {w \in scope : ~Live(w.task)} = {} /\ hit \in SUBSET parks
  BY <1>1
<1>3. /\ parks' = parks \ (Range(ws) \cup {w \in scope : ~Live(w.task)})
      /\ completions' = completions \o done
      /\ released' = released \cup Unpinned(ws)
  BY DEF Swept
<1> HIDE DEF scope, hit
<1>4. Picks(ws)
  BY <1>2, AgeOrder
<1>5. parks' = parks \ Range(ws)
  BY <1>2, <1>3
<1>6. SweptParks(ws)
  BY <1>2 DEF SweptParks
<1> HIDE DEF ws
<1>7. /\ done = [i \in DOMAIN ws |-> done[i]]
      /\ \A i \in DOMAIN ws : \E value \in Values, rem \in BOOLEAN :
           done[i] = Completion(ws[i], value, "none", rem)
  <2>1. \A i \in DOMAIN ws : ws[i].rem \in BOOLEAN
    BY <1>4, ParkFacts DEF Picks
  <2> QED BY <2>1 DEF Values
<1> HIDE DEF done
<1>8. Decision(ws, done) /\ Silent(done)
  BY <1>3, <1>4, <1>5, <1>7, FinishDecides
<1> QED BY <1>6, <1>8

\* An expiry ends the parks whose deadline has come.
LEMMA ExpireDecides ==
  ASSUME ParkType, ParksInv, Expire
  PROVE  \E ws, done : Decision(ws, done) /\ Silent(done)
<1> DEFINE hit == {w \in parks : w.deadline # None /\ w.deadline <= now}
           ws == ByDeadline(hit)
           done == [i \in DOMAIN ws |-> Completion(ws[i], DeadlineValue(ws[i]), "none", FALSE)]
<1>1. /\ parks' = parks \ Range(ws) /\ completions' = completions \o done
      /\ released' = released \cup Unpinned(ws)
  BY DEF Expire, Finish
<1>2. Picks(ws)
  BY DeadlineOrder
<1> HIDE DEF ws, hit
<1>3. /\ done = [i \in DOMAIN ws |-> done[i]]
      /\ \A i \in DOMAIN ws : \E value \in Values, rem \in BOOLEAN :
           done[i] = Completion(ws[i], value, "none", rem)
  BY DEF Values, DeadlineValue
<1> HIDE DEF done
<1> QED BY <1>1, <1>2, <1>3, FinishDecides

-----------------------------------------------------------------------------
(* Types.                                                                  *)

\* The notes and what they leave alone.
SameNotes(d, e) ==
  /\ e.pids = d.pids /\ e.children = d.children /\ e.notices = d.notices /\ e.continued = d.continued
\* A signal is noted for the sweeps only where somebody sleeps.
LEMMA SignalNoted ==
  ASSUME NEW d \in Dirty
  PROVE  /\ NoteSignal(d) \in Dirty /\ SameNotes(d, NoteSignal(d)) /\ NoteSignal(d).pipe = d.pipe
         /\ NoteSignal(d).signals <=> (d.signals \/ parks # {})
<1>1. PICK b : b = (d.signals \/ parks # {})
  OBVIOUS
<1>2. b \in BOOLEAN
  BY <1>1
<1>3. NoteSignal(d) = [d EXCEPT !.signals = b]
  BY <1>1 DEF NoteSignal
<1>4. /\ [d EXCEPT !.signals = b] \in Dirty /\ SameNotes(d, [d EXCEPT !.signals = b])
      /\ [d EXCEPT !.signals = b].pipe = d.pipe /\ [d EXCEPT !.signals = b].signals = b
  BY <1>2 DEF Dirty, SameNotes
<1> QED BY <1>1, <1>3, <1>4
\* The note of a changed pipe.
LEMMA PipeNoted ==
  ASSUME NEW d \in Dirty
  PROVE  /\ NotePipe(d) \in Dirty /\ SameNotes(d, NotePipe(d)) /\ NotePipe(d).signals = d.signals
         /\ NotePipe(d).pipe <=> (d.pipe \/ parks # {})
<1>1. PICK b : b = (d.pipe \/ parks # {})
  OBVIOUS
<1>2. b \in BOOLEAN
  BY <1>1
<1>3. NotePipe(d) = [d EXCEPT !.pipe = b]
  BY <1>1 DEF NotePipe
<1>4. /\ [d EXCEPT !.pipe = b] \in Dirty /\ SameNotes(d, [d EXCEPT !.pipe = b])
      /\ [d EXCEPT !.pipe = b].signals = d.signals /\ [d EXCEPT !.pipe = b].pipe = b
  BY <1>2 DEF Dirty, SameNotes
<1> QED BY <1>1, <1>3, <1>4
\* A changed mask is a note of a signal, or none.
LEMMA MaskNoted ==
  ASSUME NEW d \in Dirty, NEW t, NEW mask
  PROVE  /\ MaskNote(t, mask, d) \in Dirty /\ SameNotes(d, MaskNote(t, mask, d))
         /\ MaskNote(t, mask, d).pipe = d.pipe
         /\ MaskNote(t, mask, d) = NoteSignal(d) \/ MaskNote(t, mask, d) = d
BY SignalNoted DEF MaskNote, SameNotes
\* The other notes.
LEMMA OtherNoted ==
  ASSUME NEW d \in Dirty, NEW p \in Pids
  PROVE  /\ NoteExit(d, p) \in Dirty /\ NoteExit(d, p).notices = d.notices \cup {p}
         /\ NoteExit(d, p).children /\ NoteExit(d, p).signals = d.signals
         /\ NoteExit(d, p).pids = d.pids /\ NoteExit(d, p).continued = d.continued
         /\ NoteExit(d, p).pipe = d.pipe
BY DEF NoteExit, Dirty

\* An answer leaves its caller in the call.
LEMMA AnswerTyped ==
  ASSUME TInv, NEW t \in Tasks, NEW pc \in {"return", "returnsuspend"}, Answer(t, pc)
  PROVE  /\ GuestType' /\ HostType' /\ ControlType' /\ nextGen' = nextGen
         /\ ctl'.pc = pc /\ ctl'.caller = t /\ ctl'.pass = ctl.pass /\ ctl'.target = ctl.target
         /\ ctl'.at = ctl.at
<1>1. ctl \in Control /\ ctl' = [ctl EXCEPT !.pc = pc, !.caller = t]
  BY DEF Answer, TInv, ControlType
<1>2. /\ ctl' \in Control /\ ctl'.pc = pc /\ ctl'.caller = t /\ ctl'.pass = ctl.pass
      /\ ctl'.target = ctl.target /\ ctl'.at = ctl.at
  BY <1>1 DEF Control, Points, Called
<1>3. GuestType' /\ HostType' /\ nextGen' = nextGen
  BY DEF Answer, TInv, GuestType, HostType, hostVars
<1> QED BY <1>2, <1>3 DEF ControlType

\* A park adds one to the queue.
NewPark(t, w) ==
  /\ w \in Park /\ w.gen = nextGen /\ w.task = t /\ nextGen' = nextGen + 1
  /\ parks' = parks \cup {w} /\ UNCHANGED <<completions, released>>
  /\ waitGen' = [waitGen EXCEPT ![t] = nextGen] /\ guest' = [guest EXCEPT ![t] = "blocked"]
  /\ ctl'.pc \in {"followup", "cancelnew"} /\ ctl'.caller = t /\ ctl'.pass = ctl.pass
  /\ ctl'.target = ctl.target
  /\ UNCHANGED <<now, hostVars>>
Parked(t, kind, deadline, set, d) ==
  \E rem \in BOOLEAN, point \in BOOLEAN : ParkTask(t, kind, deadline, set, rem, point, d)
\* A new park is well formed, and the follow-up of its entry is noted.
LEMMA ParkTyped ==
  ASSUME TInv, NEW t \in Tasks, NEW kind \in Kinds, NEW deadline \in Nat \cup {None},
         NEW set \in SUBSET Sig, NEW d \in Dirty, Parked(t, kind, deadline, set, d)
  PROVE  /\ GuestType' /\ HostType' /\ ControlType' /\ ParkType' /\ DirtyType'
         /\ dirty'.signals = d.signals /\ dirty'.children = d.children /\ dirty'.notices = d.notices
         /\ dirty'.pids = d.pids \cup {PidOf[t]} /\ dirty'.pipe = d.pipe /\ dirty'.continued = d.continued
         /\ \E w : NewPark(t, w) /\ w.kind = kind /\ w.deadline = deadline /\ w.set = set
<1> PICK rem \in BOOLEAN, point \in BOOLEAN : ParkTask(t, kind, deadline, set, rem, point, d)
  BY DEF Parked
<1>0. PICK w : w = [gen |-> nextGen, task |-> t, kind |-> kind, deadline |-> deadline,
                    set |-> set, rem |-> rem, point |-> point]
  OBVIOUS
<1>1. /\ nextGen \in Nat \ {0} /\ ctl \in Control /\ parks \subseteq Park /\ IsFiniteSet(parks)
      /\ completions \in Seq(Record) /\ released \subseteq Tasks
  BY DEF TInv, ParkType, ControlType
<1>2. /\ w \in Park /\ w.gen = nextGen /\ w.task = t /\ w.kind = kind /\ w.deadline = deadline
      /\ w.set = set
  BY <1>0, <1>1 DEF Park
<1>3. /\ nextGen' = nextGen + 1 /\ parks' = parks \cup {w} /\ UNCHANGED <<completions, released>>
      /\ waitGen' = [waitGen EXCEPT ![t] = nextGen] /\ guest' = [guest EXCEPT ![t] = "blocked"]
      /\ UNCHANGED <<now, hostVars>> /\ dirty' = [d EXCEPT !.pids = @ \cup {PidOf[t]}]
  BY <1>0 DEF ParkTask
<1>4. \E pc \in {"followup", "cancelnew"} : ctl' = [ctl EXCEPT !.pc = pc, !.caller = t]
  BY DEF ParkTask
<1>5. /\ ctl' \in Control /\ ctl'.pc \in {"followup", "cancelnew"} /\ ctl'.caller = t
      /\ ctl'.pass = ctl.pass /\ ctl'.target = ctl.target
  BY <1>1, <1>4 DEF Control, Points, Called
<1>6. PidOf[t] \in Pids
  BY TaskAssumption
<1>7. /\ DirtyType' /\ dirty'.signals = d.signals /\ dirty'.children = d.children
      /\ dirty'.notices = d.notices /\ dirty'.pids = d.pids \cup {PidOf[t]} /\ dirty'.pipe = d.pipe
      /\ dirty'.continued = d.continued
  BY <1>3, <1>6 DEF Dirty, DirtyType
<1>8. ParkType'
  <2>1. IsFiniteSet(parks \cup {w})
    BY <1>1, FS_AddElement
  <2> QED BY <1>1, <1>2, <1>3, <2>1 DEF ParkType
<1>9. GuestType' /\ HostType' /\ ControlType'
  BY <1>1, <1>3, <1>5 DEF TInv, GuestType, HostType, ControlType, hostVars
<1> QED BY <1>2, <1>3, <1>5, <1>7, <1>8, <1>9 DEF NewPark

\* The moves of ctl.
Moved(pc, pass) ==
  /\ ctl' \in Control /\ ctl'.pc = pc /\ ctl'.pass = pass
  /\ ctl'.caller = ctl.caller /\ ctl'.target = ctl.target
\* A step within a pass.
LEMMA AtMoved ==
  ASSUME ctl \in Control, NEW pc \in Points, At(pc)
  PROVE  Moved(pc, ctl.pass) /\ ctl'.at = ctl.at
BY DEF At, Moved, Control
\* The start of a pass.
LEMMA PassMoved ==
  ASSUME ctl \in Control, NEW pass \in {"events", "drain"}, BeginPass(pass)
  PROVE  Moved("announce", pass) /\ ctl'.at = ctl.at
BY DEF BeginPass, Moved, Control, Points, Passing

\* A signal is taken from the thread's own set or from its process's.
LEMMA ConsumeTyped ==
  ASSUME SignalType, NEW t \in Tasks, NEW S, Consume(t, S)
  PROVE  /\ shared' \in [Pids -> SUBSET Sig] /\ directed' \in [Tasks -> SUBSET Sig]
         /\ \A p \in Pids : shared'[p] \subseteq shared[p]
         /\ \A u \in Tasks : directed'[u] \subseteq directed[u]
BY DEF SignalType, Consume
\* A delivery: signals are taken and the thread's effect is known.
LEMMA DequeueTyped ==
  ASSUME SignalType, GuestType, NEW t \in Tasks, NEW how \in {"none", "user", "suspend", "finish"},
         Dequeue(t, how)
  PROVE  /\ SignalType' /\ effects' \in [Tasks -> {"none", "user", "suspend", "finish"}]
         /\ \A u \in Tasks : u # t => effects'[u] = effects[u]
         /\ effects'[t] = "none" <=> how = "none"
         /\ \A p \in Pids : shared'[p] \subseteq shared[p]
         /\ \A u \in Tasks : directed'[u] \subseteq directed[u]
         /\ blocked' = blocked
<1>1. /\ shared' \in [Pids -> SUBSET Sig] /\ directed' \in [Tasks -> SUBSET Sig]
      /\ \A p \in Pids : shared'[p] \subseteq shared[p]
      /\ \A u \in Tasks : directed'[u] \subseteq directed[u]
  <2>1. PICK S : S = IF t \in delivered THEN {} ELSE NextSignal(t)
    OBVIOUS
  <2>2. Consume(t, S)
    BY <2>1 DEF Dequeue
  <2> QED BY <2>2, ConsumeTyped
<1>2. PICK e : e = IF how = "suspend" /\ t \in delivered' THEN "finish" ELSE how
  OBVIOUS
<1>3. e \in {"none", "user", "suspend", "finish"} /\ (e = "none" <=> how = "none")
  BY <1>2
<1>4. effects' = [effects EXCEPT ![t] = e] /\ UNCHANGED <<blocked, saved>>
  BY <1>2 DEF Dequeue
<1>5. /\ effects' \in [Tasks -> {"none", "user", "suspend", "finish"}]
      /\ \A u \in Tasks : u # t => effects'[u] = effects[u]
      /\ effects'[t] = "none" <=> how = "none"
  BY <1>3, <1>4 DEF GuestType
<1> QED BY <1>1, <1>4, <1>5 DEF SignalType

\* The saved mask of a mask wait comes back.
LEMMA RestoreTyped ==
  ASSUME SignalType, DirtyType, NEW t \in Tasks, RestoreMask(t)
  PROVE  /\ SignalType' /\ DirtyType' /\ SameNotes(dirty, dirty') /\ dirty'.pipe = dirty.pipe
         /\ dirty'.signals => dirty.signals \/ parks # {}
         /\ \E mask \in SUBSET Sig : /\ blocked' = [blocked EXCEPT ![t] = mask]
                                     /\ dirty' = MaskNote(t, mask, dirty)
         /\ UNCHANGED <<shared, directed>>
<1>1. PICK mask : mask = IF saved[t] = <<>> THEN blocked[t] ELSE Last(saved[t]).mask
  OBVIOUS
<1>2. /\ saved' = [saved EXCEPT ![t] = IF @ = <<>> THEN @ ELSE Front(@)]
      /\ blocked' = [blocked EXCEPT ![t] = mask] /\ dirty' = MaskNote(t, mask, dirty)
      /\ UNCHANGED <<shared, directed>>
  BY <1>1 DEF RestoreMask
<1>3. PICK q : q = saved[t]
  OBVIOUS
<1>4. q \in Seq(SavedMask) /\ (q # <<>> => Len(q) \in Nat /\ Len(q) >= 1)
  BY <1>3 DEF SignalType
<1>5. q # <<>> => Last(q) \in SavedMask /\ Front(q) \in Seq(SavedMask)
  BY <1>4 DEF Last, Front
<1>6. mask \in SUBSET Sig
  BY <1>1, <1>3, <1>5 DEF SignalType, SavedMask
<1>7. SignalType'
  <2>1. saved' \in [Tasks -> Seq(SavedMask)]
    BY <1>2, <1>3, <1>4, <1>5 DEF SignalType
  <2> QED BY <1>2, <1>6, <2>1 DEF SignalType
<1>8. /\ MaskNote(t, mask, dirty) \in Dirty /\ SameNotes(dirty, MaskNote(t, mask, dirty))
      /\ MaskNote(t, mask, dirty).pipe = dirty.pipe
      /\ MaskNote(t, mask, dirty) = NoteSignal(dirty) \/ MaskNote(t, mask, dirty) = dirty
  BY MaskNoted DEF DirtyType
<1>9. NoteSignal(dirty).signals <=> (dirty.signals \/ parks # {})
  BY SignalNoted DEF DirtyType
<1> QED BY <1>2, <1>6, <1>7, <1>8, <1>9 DEF DirtyType

\* Pipe ends are given up.
LEMMA CloseTyped ==
  ASSUME WorldType, NEW pi \in Pipes, NEW ps \in SUBSET (Tasks \X Ends), NEW d \in Dirty,
         CloseEnds(pi, ps, d)
  PROVE  /\ pipe' \in Pipes /\ pins' = ps /\ dirty' \in Dirty /\ SameNotes(d, dirty')
         /\ dirty'.signals = d.signals
<1>1. [pi EXCEPT !.fill = 0] \in Pipes
  BY BoundAssumption DEF Pipes
<1>2. pipe' \in Pipes /\ pins' = ps
  BY <1>1 DEF CloseEnds
<1>3. dirty' = NotePipe(d) \/ dirty' = d
  BY DEF CloseEnds
<1>4. NotePipe(d) \in Dirty /\ SameNotes(d, NotePipe(d)) /\ NotePipe(d).signals = d.signals
  BY PipeNoted
<1> QED BY <1>2, <1>3, <1>4 DEF SameNotes

\* A transfer that does not block.
LEMMA TransferTyped ==
  ASSUME WorldType, DirtyType, SignalType, NEW p \in Pids, NEW end \in Ends,
         NEW value \in {"ok", "EPIPE"}, value = Attempted(end), Transferred(p, end, value)
  PROVE  /\ pipe' \in Pipes /\ DirtyType' /\ SameNotes(dirty, dirty') /\ dirty'.signals = dirty.signals
         /\ shared' \in [Pids -> SUBSET Sig]
         /\ (SigPipe \notin Sig => shared' = shared)
<1>0. PICK open : open = [e \in Ends |-> Open(e, pipe, pins)]
  OBVIOUS
<1>1. PICK fill : fill = IF value # "ok" THEN pipe.fill
                         ELSE IF end = "write" THEN pipe.fill + 1
                         ELSE IF pipe.fill > 0 THEN pipe.fill - 1 ELSE 0
  OBVIOUS
<1>2. /\ pipe' = [pipe EXCEPT !.fill = fill]
      /\ dirty' = IF fill # pipe.fill THEN NotePipe(dirty) ELSE dirty
      /\ shared' = [shared EXCEPT ![p] = IF value = "EPIPE" THEN @ \cup ({SigPipe} \cap Sig) ELSE @]
  BY <1>1 DEF Transferred
<1>3. value = "ok" /\ end = "write" => pipe.fill < PipeCap
  BY DEF Attempted
<1>4. fill \in 0..PipeCap
  <2>1. PICK n : n = pipe.fill
    OBVIOUS
  <2>2. n \in 0..PipeCap /\ PipeCap \in Nat
    BY <2>1, BoundAssumption DEF WorldType, Pipes
  <2>3. CASE value # "ok"
    BY <1>1, <2>1, <2>2, <2>3
  <2>4. CASE value = "ok" /\ end = "read"
    BY <1>1, <2>1, <2>2, <2>4
  <2>5. CASE value = "ok" /\ end = "write"
    <3>1. fill = n + 1 /\ n < PipeCap
      BY <1>1, <1>3, <2>1, <2>5
    <3> QED BY <2>2, <3>1
  <2> QED BY <2>3, <2>4, <2>5 DEF Ends
<1>5. pipe' \in Pipes
  BY <1>2, <1>4 DEF WorldType, Pipes
<1>6. NotePipe(dirty) \in Dirty /\ SameNotes(dirty, NotePipe(dirty)) /\ NotePipe(dirty).signals = dirty.signals
  BY PipeNoted DEF DirtyType
<1>7. /\ shared' \in [Pids -> SUBSET Sig]
      /\ (SigPipe \notin Sig => shared' = shared)
  BY <1>2 DEF SignalType
<1> QED BY <1>2, <1>5, <1>6, <1>7 DEF DirtyType, SameNotes

\* The announcement of the exits.
LEMMA NoticesTyped ==
  ASSUME WorldType, DirtyType, SignalType
  PROVE  /\ SharedAfterNotices \in [Pids -> SUBSET Sig] /\ ProcAfterNotices \in [Pids -> ProcStates]
         /\ DirtyAfterNotices \in Dirty /\ DirtyAfterNotices.notices = {}
         /\ DirtyAfterNotices.children <=> (dirty.children \/ AutoReaped # {})
         /\ DirtyAfterNotices.pids = dirty.pids /\ DirtyAfterNotices.pipe = dirty.pipe
         /\ DirtyAfterNotices.continued = dirty.continued
         /\ DirtyAfterNotices.signals <=> (dirty.signals \/ (Told # {} /\ parks # {}))
<1>1. PICK c : c = (dirty.children \/ AutoReaped # {})
  OBVIOUS
<1>2. c \in BOOLEAN
  BY <1>1
<1>3. PICK d : d = [dirty EXCEPT !.notices = {}, !.children = c]
  OBVIOUS
<1>4. /\ d \in Dirty /\ d.notices = {} /\ d.children = c /\ d.pids = dirty.pids /\ d.pipe = dirty.pipe
      /\ d.continued = dirty.continued /\ d.signals = dirty.signals
  BY <1>2, <1>3 DEF DirtyType, Dirty
<1>5. DirtyAfterNotices = IF Told = {} THEN d ELSE NoteSignal(d)
  BY <1>1, <1>3 DEF DirtyAfterNotices
<1>6. /\ NoteSignal(d) \in Dirty /\ SameNotes(d, NoteSignal(d)) /\ NoteSignal(d).pipe = d.pipe
      /\ NoteSignal(d).signals <=> (d.signals \/ parks # {})
  BY <1>4, SignalNoted
<1>7. SharedAfterNotices \in [Pids -> SUBSET Sig] /\ ProcAfterNotices \in [Pids -> ProcStates]
  BY DEF SharedAfterNotices, ProcAfterNotices, SignalType, WorldType, ProcStates
<1> QED BY <1>1, <1>4, <1>5, <1>6, <1>7 DEF SameNotes

\* A sequence after another.
LEMMA Joined ==
  ASSUME NEW S, NEW a \in Seq(S), NEW b \in Seq(S)
  PROVE  /\ a \o b \in Seq(S) /\ Len(a) \in Nat /\ Len(b) \in Nat /\ Len(a \o b) = Len(a) + Len(b)
         /\ DOMAIN a = 1..Len(a) /\ DOMAIN b = 1..Len(b) /\ DOMAIN (a \o b) = 1..(Len(a) + Len(b))
         /\ \A i \in 1..Len(a) : (a \o b)[i] = a[i]
         /\ \A i \in 1..Len(b) : (a \o b)[Len(a) + i] = b[i]
OBVIOUS

\* A decision keeps the types of the queue, and asks only for pins of decided calls.
LEMMA DecisionTyped ==
  ASSUME ParkType, NEW ws, NEW done, Decision(ws, done), nextGen' = nextGen,
         released \subseteq {completions[i].task : i \in DOMAIN completions}
  PROVE  /\ ParkType' /\ parks' \subseteq parks
         /\ released' \subseteq {completions'[i].task : i \in DOMAIN completions'}
         /\ Len(ws) > 0 => completions' # <<>>
<1>1. /\ ws \in Seq(parks) /\ done \in Seq(Record) /\ Len(done) = Len(ws) /\ Len(ws) \in Nat
      /\ DOMAIN ws = 1..Len(ws) /\ completions \in Seq(Record) /\ Len(completions) \in Nat
      /\ \A i \in 1..Len(ws) : done[i].task = ws[i].task
  BY DEF Decision, Picks, ParkType
<1>2. /\ parks' = parks \ Range(ws) /\ completions' = completions \o done
      /\ released' = released \cup Unpinned(ws)
  BY DEF Decision
<1>3. /\ completions' \in Seq(Record) /\ Len(completions') = Len(completions) + Len(done)
      /\ \A i \in 1..Len(completions) : completions'[i] = completions[i]
      /\ \A i \in 1..Len(done) : completions'[Len(completions) + i] = done[i]
  <2>1. PICK a, b : a = completions /\ b = done
    OBVIOUS
  <2>2. /\ a \o b \in Seq(Record) /\ Len(a \o b) = Len(a) + Len(b)
        /\ \A i \in 1..Len(a) : (a \o b)[i] = a[i]
        /\ \A i \in 1..Len(b) : (a \o b)[Len(a) + i] = b[i]
    BY <1>1, <2>1, Joined
  <2> QED BY <1>2, <2>1, <2>2
<1>4. Unpinned(ws) \subseteq {completions'[i].task : i \in DOMAIN completions'}
  <2> SUFFICES ASSUME NEW x \in Unpinned(ws)
               PROVE  \E i \in DOMAIN completions' : x = completions'[i].task
    OBVIOUS
  <2>1. PICK i \in 1..Len(ws) : x = ws[i].task
    BY <1>1 DEF Unpinned, Range
  <2>2. x = completions'[Len(completions) + i].task /\ Len(completions) + i \in DOMAIN completions'
    BY <1>1, <1>3, <2>1
  <2> QED BY <2>2
<1>5. released \subseteq {completions'[i].task : i \in DOMAIN completions'}
  <2> SUFFICES ASSUME NEW x \in released
               PROVE  \E i \in DOMAIN completions' : x = completions'[i].task
    OBVIOUS
  <2>1. PICK i \in DOMAIN completions : x = completions[i].task
    OBVIOUS
  <2>2. i \in 1..Len(completions) /\ DOMAIN completions' = 1..(Len(completions) + Len(done))
    BY <1>1, <1>3, <2>1
  <2>3. x = completions'[i].task /\ i \in DOMAIN completions'
    BY <1>1, <1>3, <2>1, <2>2
  <2> QED BY <2>3
<1>6. IsFiniteSet(parks') /\ parks' \subseteq parks
  BY <1>2, FS_Subset DEF ParkType
<1>7. Unpinned(ws) \subseteq Tasks
  <2>1. \A i \in 1..Len(ws) : ws[i].task \in Tasks
    BY <1>1, ParkFacts
  <2> QED BY <1>1, <2>1 DEF Unpinned, Range
<1>8. ParkType'
  BY <1>2, <1>3, <1>6, <1>7 DEF ParkType
<1>9. Len(ws) > 0 => completions' # <<>>
  BY <1>1, <1>3
<1> QED BY <1>2, <1>4, <1>5, <1>6, <1>8, <1>9

-----------------------------------------------------------------------------
(* Types and the flow of an entry: system calls.                           *)

FlowInv == NotesInv /\ PassInv
Base == TInv /\ FlowInv /\ ParksInv
\* The pins that are to be released are those of calls already decided.
ReleasesDecided == released \subseteq {completions[i].task : i \in DOMAIN completions}

\* Between entries nothing is left over.
LEMMA IdleFacts ==
  ASSUME Base, ctl.pc = "idle"
  PROVE  /\ completions = <<>> /\ fresh = <<>> /\ batch = <<>> /\ released = {}
         /\ dirty.notices = {} /\ dirty.children = FALSE /\ dirty.signals = FALSE /\ dirty.pids = {}
         /\ ReleasesDecided
<1>1. completions = <<>> /\ batch = <<>> /\ fresh = <<>> /\ ReleasesDecided
  BY DEF Base, FlowInv, PassInv, Passing, ReleasesDecided
<1>2. released = {}
  BY <1>1 DEF ReleasesDecided
<1>3. dirty.notices = {} /\ ~dirty.children /\ ~dirty.signals /\ dirty.pids = {}
  BY DEF Base, FlowInv, NotesInv, Passing, Called
<1>4. dirty.children \in BOOLEAN /\ dirty.signals \in BOOLEAN
  BY DEF Base, TInv, DirtyType, Dirty
<1> QED BY <1>1, <1>2, <1>3, <1>4

\* A call that answers keeps the flow.
LEMMA AnswerKeeps ==
  ASSUME Base, NEW t \in Tasks, ctl.pc = "idle", NEW pc \in {"return", "returnsuspend"},
         Answer(t, pc), SignalType', WorldType', DirtyType', ParkType', ReleasesDecided',
         dirty'.pids = {}, pc = "returnsuspend" => dirty'.notices = {} /\ dirty'.children = FALSE
  PROVE  TInv' /\ FlowInv'
<1>1. TInv
  BY DEF Base
<1>2. GuestType' /\ HostType' /\ ControlType' /\ ctl'.pc = pc
  BY <1>1, AnswerTyped
<1>3. TInv'
  BY <1>2 DEF TInv
<1>4. fresh' = <<>>
  BY IdleFacts DEF Answer, hostVars
<1>5. NotesInv'
  BY <1>2 DEF NotesInv, Called, Passing
<1>6. PassInv'
  BY <1>2, <1>4 DEF PassInv, ReleasesDecided
<1> QED BY <1>3, <1>5, <1>6 DEF FlowInv

\* So does a call that parks.
LEMMA ParkKeeps ==
  ASSUME Base, NEW t \in Tasks, ctl.pc = "idle", NEW kind \in Kinds,
         NEW deadline \in Nat \cup {None}, NEW set \in SUBSET Sig, NEW d \in Dirty,
         d.notices = {}, d.children = FALSE,
         Parked(t, kind, deadline, set, d), SignalType', WorldType'
  PROVE  TInv' /\ FlowInv'
<1>1. TInv
  BY DEF Base
<1>2. /\ GuestType' /\ HostType' /\ ControlType' /\ ParkType' /\ DirtyType'
      /\ dirty'.children = d.children /\ dirty'.notices = d.notices
      /\ \E w : NewPark(t, w) /\ w.kind = kind /\ w.deadline = deadline /\ w.set = set
  BY <1>1, ParkTyped
<1>3. TInv'
  BY <1>2 DEF TInv
<1>4. ctl'.pc \in {"followup", "cancelnew"} /\ UNCHANGED <<completions, released, fresh>>
  BY <1>2 DEF NewPark, hostVars
<1>5. NotesInv'
  BY <1>2, <1>4 DEF NotesInv, Called, Passing
<1>6. PassInv'
  BY <1>4, IdleFacts DEF PassInv, ReleasesDecided
<1> QED BY <1>3, <1>5, <1>6 DEF FlowInv

\* What a call leaves alone keeps its type.
LEMMA Unchanged ==
  ASSUME TInv
  PROVE  /\ UNCHANGED sigVars => SignalType'
         /\ UNCHANGED <<pins, proc, pipe>> => WorldType'
         /\ UNCHANGED dirty => DirtyType'
         /\ UNCHANGED <<parkVars, nextGen>> => ParkType'
         /\ UNCHANGED <<taskVars, effects>> => GuestType'
         /\ UNCHANGED <<now, hostVars>> => HostType'
         /\ ReleasesDecided /\ UNCHANGED parkVars => ReleasesDecided'
BY DEF TInv, SignalType, WorldType, DirtyType, ParkType, GuestType, HostType, ReleasesDecided,
       sigVars, parkVars, taskVars, hostVars

\* The deadlines of a call are natural numbers.
LEMMA DeadlinesTyped ==
  ASSUME HostType
  PROVE  Deadlines \subseteq Nat \cup {None}
BY BoundAssumption DEF HostType, Deadlines

\* Futex waits and sleeps.
LEMMA SleepKeeps ==
  ASSUME Base, NEW t \in Tasks, FutexWait(t) \/ Sleep(t)
  PROVE  TInv' /\ FlowInv'
<1>1. TInv /\ ctl.pc = "idle" /\ dirty \in Dirty
  BY DEF Base, TInv, DirtyType, FutexWait, Sleep, Enters
<1>2. ReleasesDecided /\ dirty.notices = {} /\ dirty.children = FALSE /\ dirty.pids = {}
  BY <1>1, IdleFacts
<1>3. SignalType' /\ WorldType'
  BY <1>1, Unchanged DEF FutexWait, Sleep
<1>4. CASE Answer(t, "return") /\ UNCHANGED <<parkVars, dirty>>
  <2>1. UNCHANGED nextGen
    BY <1>4 DEF Answer
  <2>2. DirtyType' /\ ParkType' /\ ReleasesDecided' /\ dirty'.pids = {}
    BY <1>1, <1>2, <1>4, <2>1, Unchanged DEF parkVars
  <2> QED BY <1>1, <1>3, <1>4, <2>2, AnswerKeeps
<1>5. CASE \E kind \in Kinds, deadline \in Nat \cup {None} : Parked(t, kind, deadline, {}, dirty)
  BY <1>1, <1>2, <1>3, <1>5, ParkKeeps
<1>6. Deadlines \subseteq Nat \cup {None}
  BY <1>1, DeadlinesTyped DEF TInv
<1>7. CASE FutexWait(t)
  BY <1>4, <1>5, <1>6, <1>7 DEF FutexWait, Kinds, Parked
<1>8. CASE Sleep(t)
  <2>1. PICK deadline \in Deadlines \ {None}, rem \in BOOLEAN :
          IF deadline <= now THEN Answer(t, "return") /\ UNCHANGED <<parkVars, dirty>>
          ELSE ParkTask(t, "sleep", deadline, {}, rem, TRUE, dirty)
    BY <1>8 DEF Sleep
  <2> QED BY <1>4, <1>5, <1>6, <2>1 DEF Kinds, Parked
<1> QED BY <1>7, <1>8

\* sigsuspend.
LEMMA SuspendKeeps ==
  ASSUME Base, NEW t \in Tasks, Suspend(t)
  PROVE  TInv' /\ FlowInv'
<1>1. TInv /\ ctl.pc = "idle" /\ dirty \in Dirty /\ SignalType
  BY DEF Base, TInv, DirtyType, Suspend, Enters
<1>2. ReleasesDecided /\ dirty.notices = {} /\ dirty.children = FALSE /\ dirty.pids = {}
  BY <1>1, IdleFacts
<1>3. WorldType' /\ UNCHANGED <<shared, directed>>
  BY <1>1, Unchanged DEF Suspend
<1>4. PICK mask \in Masks :
        LET open == saved[t] # <<>> /\ Last(saved[t]).repl = mask /\ blocked[t] = mask
            d == MaskNote(t, mask, dirty)
        IN /\ saved' = [saved EXCEPT ![t] =
                          IF open THEN @ ELSE Append(@, [mask |-> blocked[t], repl |-> mask])]
           /\ blocked' = [blocked EXCEPT ![t] = mask]
           /\ IF Pending(t) \ mask # {}
              THEN Answer(t, "returnsuspend") /\ dirty' = d /\ UNCHANGED parkVars
              ELSE ParkTask(t, "suspend", None, {}, FALSE, TRUE, d)
  BY DEF Suspend
<1>5. PICK d : d = MaskNote(t, mask, dirty)
  OBVIOUS
<1>6. d \in Dirty /\ d.notices = {} /\ d.children = FALSE /\ d.pids = {}
  BY <1>1, <1>2, <1>5, MaskNoted DEF SameNotes
<1>7. mask \in SUBSET Sig /\ blocked' = [blocked EXCEPT ![t] = mask]
  BY <1>4, SignalAssumption
<1>8. saved' \in [Tasks -> Seq(SavedMask)]
  <2>1. PICK m : m = [mask |-> blocked[t], repl |-> mask]
    OBVIOUS
  <2>2. m \in SavedMask /\ saved[t] \in Seq(SavedMask)
    BY <1>1, <1>7, <2>1 DEF SignalType, SavedMask
  <2>3. Append(saved[t], m) \in Seq(SavedMask)
    BY <2>2
  <2>4. saved' = [saved EXCEPT ![t] = saved[t]] \/ saved' = [saved EXCEPT ![t] = Append(saved[t], m)]
    BY <1>4, <2>1
  <2> QED BY <1>1, <2>2, <2>3, <2>4 DEF SignalType
<1>9. SignalType'
  BY <1>1, <1>3, <1>7, <1>8 DEF SignalType
<1>10. CASE Answer(t, "returnsuspend") /\ dirty' = d /\ UNCHANGED parkVars
  <2>1. UNCHANGED nextGen
    BY <1>10 DEF Answer
  <2>2. DirtyType' /\ ParkType' /\ ReleasesDecided'
    BY <1>1, <1>2, <1>6, <1>10, <2>1, Unchanged DEF parkVars, DirtyType
  <2> QED BY <1>1, <1>3, <1>6, <1>9, <1>10, <2>2, AnswerKeeps
<1>11. CASE ParkTask(t, "suspend", None, {}, FALSE, TRUE, d)
  <2>1. Parked(t, "suspend", None, {}, d)
    BY <1>11 DEF Parked
  <2> QED BY <1>1, <1>3, <1>6, <1>9, <2>1, ParkKeeps DEF Kinds
<1> QED BY <1>4, <1>5, <1>10, <1>11

\* sigtimedwait.
LEMMA SigTimedKeeps ==
  ASSUME Base, NEW t \in Tasks, SigTimedWait(t)
  PROVE  TInv' /\ FlowInv'
<1>1. TInv /\ ctl.pc = "idle" /\ dirty \in Dirty /\ SignalType
  BY DEF Base, TInv, DirtyType, SigTimedWait, Enters
<1>2. ReleasesDecided /\ dirty.notices = {} /\ dirty.children = FALSE /\ dirty.pids = {}
  BY <1>1, IdleFacts
<1>3. WorldType' /\ UNCHANGED <<blocked, saved>>
  BY <1>1, Unchanged DEF SigTimedWait
<1>4. PICK set \in Masks \ {{}}, deadline \in Deadlines :
        LET ready == Pending(t) \cap set
        IN CASE ready # {} -> /\ Consume(t, {Lowest(ready)})
                              /\ Answer(t, "return") /\ UNCHANGED <<parkVars, dirty>>
             [] ready = {} /\ deadline = now -> /\ Answer(t, "return")
                                                /\ UNCHANGED <<shared, directed, parkVars, dirty>>
             [] OTHER -> /\ ParkTask(t, "sigtimed", deadline, set, FALSE, TRUE, dirty)
                         /\ UNCHANGED <<shared, directed>>
  BY DEF SigTimedWait
<1>5. set \in SUBSET Sig /\ deadline \in Nat \cup {None}
  BY <1>1, DeadlinesTyped, SignalAssumption DEF TInv
<1>6. PICK s : s = {Lowest(Pending(t) \cap set)}
  OBVIOUS
<1>7. \/ Consume(t, s) /\ Answer(t, "return") /\ UNCHANGED <<parkVars, dirty>>
      \/ UNCHANGED <<shared, directed>> /\ Answer(t, "return") /\ UNCHANGED <<parkVars, dirty>>
      \/ UNCHANGED <<shared, directed>> /\ ParkTask(t, "sigtimed", deadline, set, FALSE, TRUE, dirty)
  BY <1>4, <1>6
<1>8. SignalType'
  BY <1>1, <1>3, <1>7, ConsumeTyped DEF SignalType
<1>9. CASE Answer(t, "return") /\ UNCHANGED <<parkVars, dirty>>
  <2>1. UNCHANGED nextGen
    BY <1>9 DEF Answer
  <2>2. DirtyType' /\ ParkType' /\ ReleasesDecided' /\ dirty'.pids = {}
    BY <1>1, <1>2, <1>9, <2>1, Unchanged DEF parkVars
  <2> QED BY <1>1, <1>3, <1>8, <1>9, <2>2, AnswerKeeps
<1>10. CASE ParkTask(t, "sigtimed", deadline, set, FALSE, TRUE, dirty)
  <2>1. Parked(t, "sigtimed", deadline, set, dirty)
    BY <1>10 DEF Parked
  <2> QED BY <1>1, <1>2, <1>3, <1>5, <1>8, <2>1, ParkKeeps DEF Kinds
<1> QED BY <1>7, <1>9, <1>10

\* waitpid.
LEMMA WaitChildKeeps ==
  ASSUME Base, NEW t \in Tasks, WaitChild(t)
  PROVE  TInv' /\ FlowInv'
<1>1. TInv /\ ctl.pc = "idle" /\ dirty \in Dirty /\ SignalType /\ WorldType /\ DirtyType
  BY DEF Base, TInv, DirtyType, WaitChild, Enters
<1>2. ReleasesDecided /\ dirty.notices = {} /\ dirty.children = FALSE /\ dirty.pids = {}
  BY <1>1, IdleFacts
<1>3. PICK d, pr : d = DirtyAfterNotices /\ pr = ProcAfterNotices
  OBVIOUS
<1>4. /\ pr \in [Pids -> ProcStates] /\ d \in Dirty /\ d.notices = {}
      /\ d.children <=> (dirty.children \/ AutoReaped # {})
      /\ d.pids = {} /\ SharedAfterNotices \in [Pids -> SUBSET Sig]
  BY <1>1, <1>2, <1>3, NoticesTyped
<1>5. AutoReaped = {}
  BY <1>2 DEF AutoReaped, Told
<1>6. d.children = FALSE
  BY <1>2, <1>4, <1>5 DEF Dirty
<1>7. UNCHANGED <<directed, blocked, saved, pins, pipe>> /\ shared' = SharedAfterNotices
  BY DEF WaitChild
<1>8. SignalType'
  BY <1>1, <1>4, <1>7 DEF SignalType
<1>9. PICK child : child = PollChild(PidOf[t], ProcAfterNotices)
  OBVIOUS
<1>10. \/ /\ child \in Pids /\ proc' = [pr EXCEPT ![child] = "reaped"]
          /\ dirty' = [d EXCEPT !.children = TRUE]
          /\ Answer(t, "return") /\ UNCHANGED parkVars
       \/ /\ proc' = pr /\ dirty' = d /\ Answer(t, "return") /\ UNCHANGED parkVars
       \/ /\ proc' = pr /\ Parked(t, "child", None, {}, d)
  BY <1>3, <1>9 DEF WaitChild, Parked
<1>11. WorldType'
  BY <1>1, <1>4, <1>7, <1>10 DEF WorldType, ProcStates
<1>12. CASE /\ dirty' = d \/ dirty' = [d EXCEPT !.children = TRUE]
            /\ Answer(t, "return") /\ UNCHANGED parkVars
  <2>1. UNCHANGED nextGen
    BY <1>12 DEF Answer
  <2>2. DirtyType' /\ dirty'.pids = {}
    BY <1>4, <1>12 DEF DirtyType, Dirty
  <2>3. ParkType' /\ ReleasesDecided'
    BY <1>1, <1>2, <1>12, <2>1, Unchanged DEF parkVars
  <2> QED BY <1>1, <1>8, <1>11, <1>12, <2>2, <2>3, AnswerKeeps
<1>13. CASE Parked(t, "child", None, {}, d)
  BY <1>1, <1>4, <1>6, <1>8, <1>11, <1>13, ParkKeeps DEF Kinds
<1> QED BY <1>10, <1>12, <1>13

\* read and write.
LEMMA TransferKeeps ==
  ASSUME Base, NEW t \in Tasks, NEW end \in Ends, Transfer(t, end)
  PROVE  TInv' /\ FlowInv'
<1>1. TInv /\ ctl.pc = "idle" /\ dirty \in Dirty /\ SignalType /\ WorldType /\ DirtyType
  BY DEF Base, TInv, DirtyType, Transfer, Enters
<1>2. ReleasesDecided /\ dirty.notices = {} /\ dirty.children = FALSE /\ dirty.pids = {}
  BY <1>1, IdleFacts
<1>3. UNCHANGED <<directed, blocked, saved, proc>> /\ PidOf[t] \in Pids
  BY TaskAssumption DEF Transfer
<1>4. PICK value : value = Attempted(end)
  OBVIOUS
<1>5. value \in {"ok", "EPIPE", "block"}
  BY <1>4 DEF Attempted
<1>6. \/ /\ value # "block" /\ Transferred(PidOf[t], end, value) /\ Answer(t, "return")
         /\ UNCHANGED <<parkVars, pins>>
      \/ Answer(t, "return") /\ UNCHANGED <<shared, parkVars, dirty, pins, pipe>>
      \/ /\ \E deadline \in Deadlines \ {now} : Parked(t, end, deadline, {}, dirty)
         /\ pins' = pins \cup {<<t, end>>} /\ UNCHANGED <<shared, pipe>>
  BY <1>4 DEF Transfer, Parked
<1>7. CASE Answer(t, "return") /\ UNCHANGED <<parkVars, pins>> /\ shared' \in [Pids -> SUBSET Sig]
           /\ DirtyType' /\ dirty'.pids = {} /\ pipe' \in Pipes
  <2>1. UNCHANGED nextGen
    BY <1>7 DEF Answer
  <2>2. ParkType' /\ ReleasesDecided'
    BY <1>1, <1>2, <1>7, <2>1, Unchanged DEF parkVars
  <2>3. SignalType' /\ WorldType'
    BY <1>1, <1>3, <1>7 DEF SignalType, WorldType
  <2> QED BY <1>1, <1>7, <2>2, <2>3, AnswerKeeps
<1>8. CASE /\ value # "block" /\ Transferred(PidOf[t], end, value) /\ Answer(t, "return")
           /\ UNCHANGED <<parkVars, pins>>
  <2>1. /\ pipe' \in Pipes /\ DirtyType' /\ SameNotes(dirty, dirty') /\ shared' \in [Pids -> SUBSET Sig]
    BY <1>1, <1>3, <1>4, <1>5, <1>8, TransferTyped
  <2> QED BY <1>2, <1>7, <1>8, <2>1 DEF SameNotes
<1>9. CASE Answer(t, "return") /\ UNCHANGED <<shared, parkVars, dirty, pins, pipe>>
  BY <1>1, <1>2, <1>7, <1>9 DEF SignalType, WorldType, DirtyType
<1>10. CASE /\ \E deadline \in Deadlines \ {now} : Parked(t, end, deadline, {}, dirty)
            /\ pins' = pins \cup {<<t, end>>} /\ UNCHANGED <<shared, pipe>>
  <2>1. PICK deadline \in Deadlines : Parked(t, end, deadline, {}, dirty)
    BY <1>10
  <2>2. deadline \in Nat \cup {None} /\ end \in Kinds
    BY <1>1, DeadlinesTyped DEF TInv, Kinds
  <2>3. SignalType' /\ WorldType'
    BY <1>1, <1>3, <1>10 DEF SignalType, WorldType
  <2> QED BY <1>1, <1>2, <2>1, <2>2, <2>3, ParkKeeps
<1> QED BY <1>6, <1>8, <1>9, <1>10

\* The calls that leave the queue alone.
LEMMA PlainKeeps ==
  ASSUME Base, NEW t \in Tasks, ctl.pc = "idle", Answer(t, "return"), UNCHANGED parkVars,
         SignalType', WorldType', DirtyType', dirty'.pids = dirty.pids
  PROVE  TInv' /\ FlowInv'
<1>1. UNCHANGED nextGen /\ TInv
  BY DEF Answer, Base
<1>2. ReleasesDecided /\ dirty.pids = {}
  BY IdleFacts
<1>3. ParkType' /\ ReleasesDecided'
  BY <1>1, <1>2, Unchanged DEF parkVars
<1> QED BY <1>2, <1>3, AnswerKeeps

\* close.
LEMMA CloseKeeps ==
  ASSUME Base, NEW t \in Tasks, NEW end \in Ends, Close(t, end)
  PROVE  TInv' /\ FlowInv'
<1>1. TInv /\ ctl.pc = "idle" /\ dirty \in Dirty /\ WorldType
  BY DEF Base, TInv, DirtyType, Close, Enters
<1>2. PICK pi : pi = [pipe EXCEPT ![end] = @ \ {PidOf[t]}]
  OBVIOUS
<1>3. pi \in Pipes
  BY <1>1, <1>2 DEF WorldType, Pipes, Ends
<1>4. CloseEnds(pi, pins, dirty) /\ UNCHANGED <<sigVars, parkVars, proc>> /\ Answer(t, "return")
  BY <1>2 DEF Close
<1>5. pipe' \in Pipes /\ pins' = pins /\ dirty' \in Dirty /\ SameNotes(dirty, dirty')
  BY <1>1, <1>3, <1>4, CloseTyped DEF WorldType
<1>6. SignalType' /\ WorldType' /\ DirtyType'
  BY <1>1, <1>4, <1>5, Unchanged DEF WorldType, DirtyType
<1> QED BY <1>1, <1>4, <1>5, <1>6, PlainKeeps DEF SameNotes

\* kill, tkill and sigprocmask.
LEMMA SignalKeeps ==
  ASSUME Base, NEW t \in Tasks,
         \/ \E s \in Sig, p \in Pids : Kill(t, p, s)
         \/ \E s \in Sig, u \in Tasks : Tkill(t, u, s)
         \/ SigProcMask(t) \/ FinishMaskWait(t)
  PROVE  TInv' /\ FlowInv'
<1>1. TInv /\ ctl.pc = "idle" /\ dirty \in Dirty /\ SignalType /\ DirtyType
  BY DEF Base, TInv, DirtyType, Kill, Tkill, SigProcMask, FinishMaskWait, Enters
<1>2. UNCHANGED <<parkVars, pins, proc, pipe>> /\ Answer(t, "return")
  BY DEF Kill, Tkill, SigProcMask, FinishMaskWait
<1>3. NoteSignal(dirty) \in Dirty /\ NoteSignal(dirty).pids = dirty.pids
  BY <1>1, SignalNoted DEF SameNotes
<1>4. SignalType' /\ DirtyType' /\ dirty'.pids = dirty.pids
  <2>1. ASSUME NEW s \in Sig, NEW p \in Pids, Kill(t, p, s)
        PROVE  SignalType' /\ DirtyType' /\ dirty'.pids = dirty.pids
    BY <1>1, <1>3, <2>1 DEF Kill, SignalType, DirtyType
  <2>2. ASSUME NEW s \in Sig, NEW u \in Tasks, Tkill(t, u, s)
        PROVE  SignalType' /\ DirtyType' /\ dirty'.pids = dirty.pids
    BY <1>1, <1>3, <2>2 DEF Tkill, SignalType, DirtyType
  <2>3. CASE SigProcMask(t)
    <3>1. PICK mask \in Masks : blocked' = [blocked EXCEPT ![t] = mask] /\ dirty' = MaskNote(t, mask, dirty)
      BY <2>3 DEF SigProcMask
    <3>2. mask \in SUBSET Sig /\ UNCHANGED <<shared, directed, saved>>
      BY <2>3, SignalAssumption DEF SigProcMask
    <3>3. MaskNote(t, mask, dirty) \in Dirty /\ SameNotes(dirty, MaskNote(t, mask, dirty))
      BY <1>1, MaskNoted
    <3> QED BY <1>1, <3>1, <3>2, <3>3 DEF SignalType, DirtyType, SameNotes
  <2>4. CASE FinishMaskWait(t)
    BY <1>1, <2>4, RestoreTyped DEF FinishMaskWait, SameNotes
  <2> QED BY <2>1, <2>2, <2>3, <2>4
<1>5. WorldType'
  BY <1>1, <1>2, Unchanged
<1> QED BY <1>1, <1>2, <1>4, <1>5, PlainKeeps

\* kill with a stop signal or SIGCONT.
LEMMA StopKeeps ==
  ASSUME Base, NEW t \in Tasks, NEW p \in Pids, Stop(t, p) \/ Continue(t, p)
  PROVE  TInv' /\ FlowInv'
<1>1. TInv /\ ctl.pc = "idle" /\ dirty \in Dirty /\ WorldType
  BY DEF Base, TInv, DirtyType, Stop, Continue, Enters
<1>2. UNCHANGED <<sigVars, parkVars, pins, pipe>> /\ Answer(t, "return")
  BY DEF Stop, Continue
<1>3. PICK d : d = NoteSignal(dirty)
  OBVIOUS
<1>4. d \in Dirty /\ d.pids = dirty.pids
  BY <1>1, <1>3, SignalNoted DEF SameNotes
<1>5. \/ dirty' = [d EXCEPT !.children = TRUE]
      \/ dirty' = [d EXCEPT !.children = TRUE, !.continued = @ \cup {p}]
  BY <1>3 DEF Stop, Continue
<1>6. DirtyType' /\ dirty'.pids = dirty.pids
  BY <1>4, <1>5 DEF DirtyType, Dirty
<1>7. SignalType' /\ WorldType'
  BY <1>1, <1>2, Unchanged DEF WorldType, ProcStates, Stop, Continue
<1> QED BY <1>1, <1>2, <1>6, <1>7, PlainKeeps

\* FUTEX_WAKE.
LEMMA WakeKeeps ==
  ASSUME Base, NEW t \in Tasks, FutexWake(t)
  PROVE  /\ TInv' /\ FlowInv'
         /\ \E ws, done : Decision(ws, done) /\ Silent(done)
<1>1. TInv /\ ctl.pc = "idle" /\ dirty \in Dirty /\ ParkType /\ ParksInv
  BY DEF Base, TInv, DirtyType, FutexWake, Enters
<1>2. ReleasesDecided /\ dirty.pids = {}
  BY <1>1, IdleFacts
<1>3. UNCHANGED <<sigVars, dirty, pins, proc, pipe, nextGen>> /\ Answer(t, "return")
  BY DEF FutexWake, Answer
<1>4. PICK n \in {1, Cardinality(Tasks)} : FutexWoken(Woken(PidOf[t], n))
  BY DEF FutexWake
<1>5. n \in Nat
  BY TaskAssumption, FS_CardinalityType
<1>6. PICK ws, done : Decision(ws, done) /\ Silent(done)
  BY <1>1, <1>4, <1>5, WokenDecides
<1>7. ParkType' /\ ReleasesDecided'
  BY <1>1, <1>2, <1>3, <1>6, DecisionTyped DEF ReleasesDecided
<1>8. SignalType' /\ WorldType' /\ DirtyType' /\ dirty'.pids = {}
  BY <1>1, <1>2, <1>3, Unchanged
<1> QED BY <1>1, <1>3, <1>6, <1>7, <1>8, AnswerKeeps

-----------------------------------------------------------------------------
(* Types and flow: the ends of threads and processes, cancellation.        *)

\* A pass begins.
LEMMA AnnounceFlow ==
  ASSUME NEW pass, Moved("announce", pass), dirty'.pids = {}, ReleasesDecided',
         fresh' # <<>> => pass = "drain"
  PROVE  FlowInv'
<1>1. NotesInv'
  BY DEF Moved, NotesInv, Passing
<1>2. PassInv'
  BY DEF Moved, PassInv, ReleasesDecided, Passing
<1> QED BY <1>1, <1>2 DEF FlowInv

\* ctl at the start of a pass.
LEMMA MovedTyped ==
  ASSUME ControlType, NEW pc, NEW pass, Moved(pc, pass), pc \in Called => ctl.pc \in Called
  PROVE  ControlType'
BY DEF ControlType, Moved

\* What a retirement leaves of the threads.
LEMMA RetireTyped ==
  ASSUME TInv, NEW ts, NEW g \in [Tasks -> {"user", "call", "blocked", "finish", "gone"}], Retire(ts, g)
  PROVE  /\ GuestType' /\ HostType' /\ nextGen' = nextGen
         /\ directed' \in [Tasks -> SUBSET Sig] /\ blocked' \in [Tasks -> SUBSET Sig]
         /\ saved' \in [Tasks -> Seq(SavedMask)] /\ fresh' = fresh /\ batch' = batch
<1>1. <<>> \in Seq(SavedMask)
  OBVIOUS
<1>2. saved' \in [Tasks -> Seq(SavedMask)]
  BY <1>1 DEF Retire, TInv, SignalType
<1>3. directed' \in [Tasks -> SUBSET Sig] /\ blocked' \in [Tasks -> SUBSET Sig]
  BY DEF Retire, TInv, SignalType
<1>4. GuestType'
  BY DEF Retire, TInv, GuestType
<1>5. HostType' /\ nextGen' = nextGen /\ fresh' = fresh /\ batch' = batch
  BY DEF Retire, TInv, HostType
<1> QED BY <1>2, <1>3, <1>4, <1>5

\* The end of a process between entries.
LEMMA ExitedTyped ==
  ASSUME Base, ctl.pc = "idle", NEW p \in Pids, Exited(p), nextGen' = nextGen
  PROVE  /\ ParkType' /\ WorldType' /\ DirtyType' /\ shared' \in [Pids -> SUBSET Sig]
         /\ completions' = <<>> /\ released' = {} /\ ReleasesDecided' /\ dirty'.pids = {}
         /\ dirty'.signals = FALSE /\ dirty'.children = TRUE
         /\ parks' = {w \in parks : PidOf[w.task] # p}
<1>1. TInv /\ dirty \in Dirty /\ WorldType /\ ParkType /\ SignalType
  BY DEF Base, TInv, DirtyType
<1>2. completions = <<>> /\ released = {} /\ dirty.pids = {} /\ dirty.signals = FALSE
  BY IdleFacts
<1>3. PICK d, pi, ps : /\ d = NoteExit(dirty, p) /\ pi = [pipe EXCEPT !.read = @ \ {p}, !.write = @ \ {p}]
                       /\ ps = {x \in pins : PidOf[x[1]] # p}
  OBVIOUS
<1>4. d \in Dirty /\ d.pids = {} /\ d.signals = FALSE /\ d.children = TRUE
  BY <1>1, <1>2, <1>3, OtherNoted DEF Dirty
<1>5. pi \in Pipes /\ ps \in SUBSET (Tasks \X Ends)
  BY <1>1, <1>3 DEF WorldType, Pipes
<1>6. CloseEnds(pi, ps, d)
  BY <1>3 DEF Exited
<1>7. /\ pipe' \in Pipes /\ pins' = ps /\ dirty' \in Dirty /\ SameNotes(d, dirty')
      /\ dirty'.signals = d.signals
  BY <1>1, <1>4, <1>5, <1>6, CloseTyped
<1>8. DirtyType' /\ dirty'.pids = {} /\ dirty'.signals = FALSE /\ dirty'.children = TRUE
  BY <1>4, <1>7 DEF DirtyType, SameNotes
<1>9. WorldType' /\ shared' \in [Pids -> SUBSET Sig]
  BY <1>1, <1>5, <1>7 DEF Exited, WorldType, ProcStates, SignalType
<1>10. completions' = <<>>
  <2>1. PICK keep : keep = {i \in DOMAIN completions : PidOf[completions[i].task] # p}
    OBVIOUS
  <2>2. keep = {} /\ completions' = Restricted(completions, keep)
    BY <1>2, <2>1 DEF Exited, RetireProcess
  <2>3. Cardinality(keep) = 0
    BY <2>2, FS_EmptySet
  <2>4. PICK f : f = [i \in 1..0 |-> completions[CHOOSE k \in keep : Cardinality({j \in keep : j <= k}) = i]]
    OBVIOUS
  <2>5. completions' = f
    BY <2>2, <2>3, <2>4 DEF Restricted
  <2>6. f = <<>>
    <3>1. DOMAIN f = 1..0 /\ 1..0 = {}
      BY <2>4
    <3>2. f = [i \in {} |-> f[i]]
      BY <2>4, <3>1
    <3>3. f \in Seq({})
      BY <3>1, <3>2
    <3> QED BY <3>3
  <2> QED BY <2>5, <2>6
<1>11. released' = {} /\ parks' = {w \in parks : PidOf[w.task] # p}
  BY <1>2 DEF Exited, RetireProcess
<1>12. ParkType'
  <2>1. IsFiniteSet(parks') /\ parks' \subseteq parks
    BY <1>1, <1>11, FS_Subset DEF ParkType
  <2>2. <<>> \in Seq(Record)
    OBVIOUS
  <2> QED BY <1>1, <1>10, <1>11, <2>1, <2>2 DEF ParkType
<1> QED BY <1>8, <1>9, <1>10, <1>11, <1>12 DEF ReleasesDecided

\* The end of a thread.
LEMMA ThreadExitKeeps ==
  ASSUME Base, NEW t \in Tasks, ThreadExit(t)
  PROVE  /\ TInv' /\ FlowInv'
         /\ \E ws, done : Decision(ws, done) /\ Silent(done)
<1>1. TInv /\ ctl.pc = "idle" /\ dirty \in Dirty /\ ParkType /\ ParksInv /\ ctl \in Control
  BY DEF Base, TInv, DirtyType, ControlType, ThreadExit, Enters
<1>2. ReleasesDecided /\ dirty.pids = {} /\ fresh = <<>>
  BY <1>1, IdleFacts
<1>3. Retire({t}, guest) /\ FutexWoken(Woken(PidOf[t], 1)) /\ UNCHANGED <<shared, pins, proc, pipe>>
  BY DEF ThreadExit
<1>4. /\ GuestType' /\ HostType' /\ nextGen' = nextGen
      /\ directed' \in [Tasks -> SUBSET Sig] /\ blocked' \in [Tasks -> SUBSET Sig]
      /\ saved' \in [Tasks -> Seq(SavedMask)] /\ fresh' = fresh
  BY <1>1, <1>3, RetireTyped DEF TInv, GuestType
<1>5. PICK ws, done : Decision(ws, done) /\ Silent(done)
  BY <1>1, <1>3, WokenDecides
<1>6. ParkType' /\ ReleasesDecided'
  BY <1>1, <1>2, <1>4, <1>5, DecisionTyped DEF ReleasesDecided
<1>7. dirty' = dirty \/ dirty' = NoteSignal(dirty)
  BY DEF ThreadExit
<1>8. DirtyType' /\ dirty'.pids = {}
  BY <1>1, <1>2, <1>7, SignalNoted DEF DirtyType, SameNotes
<1>9. Moved("announce", "events")
  BY <1>1, PassMoved DEF ThreadExit
<1>10. ControlType' /\ FlowInv'
  BY <1>1, <1>2, <1>4, <1>6, <1>8, <1>9, AnnounceFlow, MovedTyped DEF TInv, Called
<1>11. SignalType' /\ WorldType'
  BY <1>1, <1>3, <1>4, Unchanged DEF SignalType, TInv
<1> QED BY <1>4, <1>5, <1>6, <1>8, <1>10, <1>11 DEF TInv

\* The end of a process by its own call, or by another's signal.
LEMMA ExitKeeps ==
  ASSUME Base, NEW t \in Tasks, Exit(t) \/ \E p \in Pids : Terminate(t, p)
  PROVE  TInv' /\ FlowInv'
<1>1. TInv /\ ctl.pc = "idle" /\ ctl \in Control /\ ControlType /\ guest \in [Tasks -> {"user", "call", "blocked", "finish", "gone"}]
  BY DEF Base, TInv, ControlType, GuestType, Exit, Terminate, Enters
<1>2. fresh = <<>>
  BY <1>1, IdleFacts
<1>3. PidOf[t] \in Pids
  BY TaskAssumption
<1>4. PICK p \in Pids, g \in [Tasks -> {"user", "call", "blocked", "finish", "gone"}] :
        Exited(p) /\ Retire(ThreadsOf(p), g)
  <2>1. [guest EXCEPT ![t] = "call"] \in [Tasks -> {"user", "call", "blocked", "finish", "gone"}]
    BY <1>1
  <2> QED BY <1>1, <1>3, <2>1 DEF Exit, Terminate
<1>5. /\ GuestType' /\ HostType' /\ nextGen' = nextGen
      /\ directed' \in [Tasks -> SUBSET Sig] /\ blocked' \in [Tasks -> SUBSET Sig]
      /\ saved' \in [Tasks -> Seq(SavedMask)] /\ fresh' = fresh
  BY <1>1, <1>4, RetireTyped
<1>6. /\ ParkType' /\ WorldType' /\ DirtyType' /\ shared' \in [Pids -> SUBSET Sig]
      /\ ReleasesDecided' /\ dirty'.pids = {}
  BY <1>1, <1>4, <1>5, ExitedTyped
<1>7. SignalType'
  BY <1>5, <1>6 DEF SignalType
<1>8. CASE BeginPass("events")
  <2>1. Moved("announce", "events")
    BY <1>1, <1>8, PassMoved
  <2>2. ControlType' /\ FlowInv'
    BY <1>1, <1>2, <1>5, <1>6, <2>1, AnnounceFlow, MovedTyped DEF TInv, Called
  <2> QED BY <1>5, <1>6, <1>7, <2>2 DEF TInv
<1>9. CASE ctl' = [ctl EXCEPT !.pc = "return", !.caller = t]
  <2>1. ctl' \in Control /\ ctl'.pc = "return" /\ ctl'.caller = t
    BY <1>1, <1>9 DEF Control, Points, Called
  <2>2. NotesInv'
    BY <1>6, <2>1 DEF NotesInv, Called
  <2>3. PassInv'
    BY <1>2, <1>5, <1>6, <2>1 DEF PassInv, ReleasesDecided
  <2> QED BY <1>5, <1>6, <1>7, <2>1, <2>2, <2>3 DEF TInv, FlowInv, ControlType
<1> QED BY <1>8, <1>9 DEF Exit, Terminate

\* pthread_cancel of a sibling.
LEMMA CancelKeeps ==
  ASSUME Base, NEW t \in Tasks, NEW u \in Tasks, Cancel(t, u)
  PROVE  TInv' /\ FlowInv'
<1>1. TInv /\ ctl.pc = "idle" /\ ctl \in Control
  BY DEF Base, TInv, ControlType, Cancel, Enters
<1>2. ReleasesDecided /\ dirty.pids = {} /\ fresh = <<>>
  BY <1>1, IdleFacts
<1>3. UNCHANGED <<waitGen, sigVars, parkVars, dirty, worldVars, fresh, batch, cancels, timerDue>>
  BY DEF Cancel
<1>4. ctl' \in Control /\ ctl'.pc = "announce" /\ ctl'.pass = "events"
  BY <1>1 DEF Cancel, Control, Points, Passing
<1>5. SignalType' /\ WorldType' /\ DirtyType' /\ ParkType' /\ ReleasesDecided'
  BY <1>1, <1>2, <1>3, Unchanged DEF worldVars
<1>6. HostType'
  BY <1>1, <1>3 DEF TInv, HostType, worldVars
<1>7. GuestType'
  BY <1>1 DEF TInv, GuestType, Cancel
<1>8. ControlType'
  BY <1>4 DEF ControlType, Called
<1>9. NotesInv'
  BY <1>2, <1>3, <1>4 DEF NotesInv, Passing
<1>10. PassInv'
  BY <1>2, <1>3, <1>4, <1>5 DEF PassInv, ReleasesDecided
<1> QED BY <1>5, <1>6, <1>7, <1>8, <1>9, <1>10 DEF TInv, FlowInv

-----------------------------------------------------------------------------
(* Types and flow: the passes of the drains.                               *)

\* A step inside a pass.
LEMMA PassingFlow ==
  ASSUME Base, ctl.pc \in Passing, NEW pc \in Passing, Moved(pc, ctl.pass), UNCHANGED fresh,
         ReleasesDecided', dirty'.pids = dirty.pids, pc = "expire" => ctl.pass = "drain",
         dirty'.notices # {} => pc = "announce",
         dirty'.children => pc \in {"announce", "child", "children"}
  PROVE  FlowInv' /\ ControlType'
<1>1. dirty.pids = {}
  BY DEF Base, FlowInv, NotesInv, Passing
<1>2. NotesInv'
  BY <1>1 DEF Moved, NotesInv, Passing
<1>3. PassInv'
  BY DEF Base, FlowInv, Moved, PassInv, ReleasesDecided, Passing
<1>4. ControlType'
  BY DEF ControlType, Moved, Passing, Called
<1> QED BY <1>2, <1>3, <1>4 DEF FlowInv

\* announce_exits, and the rounds that decide nothing.
LEMMA RoundKeeps ==
  ASSUME Base, AnnounceExits \/ ChildRound \/ ChildRoundEnds \/ SignalWaitsEnd \/ RetryRound \/ RetryRoundEnds
  PROVE  TInv' /\ FlowInv'
<1>1. /\ TInv /\ ctl \in Control /\ dirty \in Dirty /\ ReleasesDecided /\ SignalType /\ WorldType /\ DirtyType
      /\ NotesInv
  BY DEF Base, TInv, ControlType, DirtyType, FlowInv, PassInv, ReleasesDecided
<1>2. UNCHANGED <<taskVars, parkVars, nextGen, pins, pipe, now, hostVars, directed, blocked, saved, effects, fresh>>
  BY DEF AnnounceExits, ChildRound, ChildRoundEnds, SignalWaitsEnd, RetryRound, RetryRoundEnds,
         sigVars, worldVars, hostVars
<1>3. GuestType' /\ ParkType' /\ HostType' /\ ReleasesDecided' /\ UNCHANGED fresh
  BY <1>1, <1>2, Unchanged
<1>4. CASE AnnounceExits
  <2>1. Moved("child", ctl.pass) /\ ctl.pc \in Passing
    BY <1>1, <1>4, AtMoved DEF AnnounceExits, Points, Passing
  <2>2. /\ shared' \in [Pids -> SUBSET Sig] /\ proc' \in [Pids -> ProcStates] /\ dirty' \in Dirty
        /\ dirty'.notices = {} /\ dirty'.pids = dirty.pids
    BY <1>1, <1>4, NoticesTyped DEF AnnounceExits
  <2>3. SignalType' /\ WorldType' /\ DirtyType'
    BY <1>1, <1>2, <2>2 DEF SignalType, WorldType, DirtyType
  <2>4. FlowInv' /\ ControlType'
    BY <1>3, <2>1, <2>2, PassingFlow DEF Passing
  <2> QED BY <1>3, <2>3, <2>4 DEF TInv
<1>5. ASSUME NEW pc \in Passing, Moved(pc, ctl.pass), ctl.pc \in Passing, UNCHANGED <<sigVars, pins, proc, pipe>>,
             dirty' \in Dirty, dirty'.pids = dirty.pids, pc = "expire" => ctl.pass = "drain",
             dirty'.notices = {}, dirty'.children => pc \in {"child", "children"}
      PROVE  TInv' /\ FlowInv'
  <2>1. SignalType' /\ WorldType' /\ DirtyType'
    BY <1>1, <1>5, Unchanged DEF DirtyType
  <2>2. FlowInv' /\ ControlType'
    BY <1>3, <1>5, PassingFlow
  <2> QED BY <1>3, <2>1, <2>2 DEF TInv
<1>6. ctl.pc \in {"child", "children", "signal", "retry", "retrying"} => dirty.notices = {}
  BY <1>1 DEF NotesInv
<1>7. CASE ChildRound
  <2>1. PICK pc \in {"children", "signal"} : ctl' = [ctl EXCEPT !.at = 0, !.pc = pc]
    BY <1>7 DEF ChildRound
  <2>2. Moved(pc, ctl.pass) /\ pc \in Passing
    BY <1>1, <2>1 DEF Moved, Control, Points, Passing
  <2>3. dirty' = [dirty EXCEPT !.children = FALSE] /\ UNCHANGED <<sigVars, pins, proc, pipe>> /\ ctl.pc = "child"
    BY <1>7 DEF ChildRound, worldVars
  <2>4. dirty' \in Dirty /\ dirty'.pids = dirty.pids /\ dirty'.notices = {} /\ dirty'.children = FALSE
    BY <1>1, <1>6, <2>3 DEF Dirty
  <2> QED BY <1>5, <2>1, <2>2, <2>3, <2>4 DEF Passing
<1>8. CASE RetryRound
  <2>1. PICK pc \in {"retrying", "expire", "sweep"} :
          ctl' = [ctl EXCEPT !.at = 0, !.pc = pc] /\ (pc = "expire" => ctl.pass = "drain")
    BY <1>8 DEF RetryRound
  <2>2. Moved(pc, ctl.pass) /\ pc \in Passing
    BY <1>1, <2>1 DEF Moved, Control, Points, Passing
  <2>3. dirty' = [dirty EXCEPT !.pipe = FALSE] /\ UNCHANGED <<sigVars, pins, proc, pipe>> /\ ctl.pc = "retry"
    BY <1>8 DEF RetryRound, worldVars
  <2>4. ~dirty.children
    BY <1>1, <2>3 DEF NotesInv
  <2>5. dirty' \in Dirty /\ dirty'.pids = dirty.pids /\ dirty'.notices = {} /\ ~dirty'.children
    BY <1>1, <1>6, <2>3, <2>4 DEF Dirty
  <2> QED BY <1>5, <2>1, <2>2, <2>3, <2>5 DEF Passing
<1>9. CASE ChildRoundEnds
  <2>1. ctl.pc = "children" /\ At("child") /\ UNCHANGED <<sigVars, pins, proc, pipe, dirty>>
    BY <1>9 DEF ChildRoundEnds, worldVars
  <2>2. Moved("child", ctl.pass)
    BY <1>1, <2>1, AtMoved DEF Points, Passing
  <2> QED BY <1>1, <1>5, <1>6, <2>1, <2>2 DEF Passing
<1>10. CASE SignalWaitsEnd \/ RetryRoundEnds
  <2>1. ctl.pc \in {"signal", "retrying"} /\ At("retry") /\ UNCHANGED <<sigVars, pins, proc, pipe, dirty>>
    BY <1>10 DEF SignalWaitsEnd, RetryRoundEnds, worldVars
  <2>2. Moved("retry", ctl.pass)
    BY <1>1, <2>1, AtMoved DEF Points, Passing
  <2>3. ~dirty.children
    BY <1>1, <2>1 DEF NotesInv
  <2> QED BY <1>1, <1>5, <1>6, <2>1, <2>2, <2>3 DEF Passing
<1> QED BY <1>4, <1>7, <1>8, <1>9, <1>10

\* What poll_wait_event reports.
LEMMA Polled ==
  ASSUME NEW p \in Pids, NEW pr \in [Pids -> ProcStates]
  PROVE  /\ PollChild(p, pr) \in Pids \cup {None, NoTask}
         /\ PollChild(p, pr) \in Pids =>
              pr[PollChild(p, pr)] = "exited" /\ Parent[PollChild(p, pr)] = p
         /\ (PollChild(p, pr) = NoTask) <=>
              /\ \E q \in Pids : Parent[q] = p /\ pr[q] # "reaped"
              /\ \A q \in Pids : Parent[q] = p => pr[q] # "exited"
<1> DEFINE children == {q \in Pids : Parent[q] = p /\ pr[q] # "reaped"}
           exited == {q \in children : pr[q] = "exited"}
<1>1. exited \in SUBSET Nat
  BY TaskAssumption
<1>2. exited # {} => Lowest(exited) \in exited
  <2> HIDE DEF exited
  <2> QED BY <1>1, LowestExists
<1>3. /\ children = {} => PollChild(p, pr) = None
      /\ children # {} /\ exited # {} => PollChild(p, pr) = Lowest(exited)
      /\ children # {} /\ exited = {} => PollChild(p, pr) = NoTask
  BY DEF PollChild
<1>4. NoTask \notin Pids /\ None \notin Pids /\ None # NoTask
  BY TaskAssumption DEF None, NoTask
<1>5. exited = {} <=> \A q \in Pids : Parent[q] = p => pr[q] # "exited"
  OBVIOUS
<1>6. children = {} <=> ~\E q \in Pids : Parent[q] = p /\ pr[q] # "reaped"
  OBVIOUS
<1>7. exited \subseteq children /\ \A q \in exited : q \in Pids /\ pr[q] = "exited" /\ Parent[q] = p
  OBVIOUS
<1> HIDE DEF children, exited
<1>8. CASE children = {}
  BY <1>3, <1>4, <1>6, <1>8
<1>9. CASE children # {} /\ exited # {}
  BY <1>2, <1>3, <1>4, <1>5, <1>7, <1>9
<1>10. CASE children # {} /\ exited = {}
  BY <1>3, <1>4, <1>5, <1>6, <1>10
<1> QED BY <1>7, <1>8, <1>9, <1>10

\* A child waiter is looked at.
LEMMA ChildWaitKeeps ==
  ASSUME Base, SettleChildWait
  PROVE  /\ TInv' /\ FlowInv'
         /\ UNCHANGED parkVars \/ \E ws, done : Decision(ws, done) /\ Silent(done)
<1>1. /\ TInv /\ ctl \in Control /\ dirty \in Dirty /\ ReleasesDecided /\ WorldType /\ ParkType /\ NotesInv
      /\ ctl.pc = "children" /\ ChildWaiters # {}
  BY DEF Base, TInv, ControlType, DirtyType, FlowInv, PassInv, ReleasesDecided, SettleChildWait
<1>2. PICK w : w = Eldest(ChildWaiters)
  OBVIOUS
<1>3. w \in parks /\ w.gen \in Nat /\ PidOf[w.task] \in Pids
  <2>1. ChildWaiters \in SUBSET parks
    BY DEF ChildWaiters
  <2>2. w \in parks
    BY <1>1, <1>2, <2>1, EldestExists
  <2> QED BY <1>1, <2>2, ParkFacts, TaskAssumption
<1>4. PICK child : child = PollChild(PidOf[w.task], proc)
  OBVIOUS
<1>5. /\ ctl' = [ctl EXCEPT !.at = w.gen]
      /\ \/ /\ child \in Pids /\ proc' = [proc EXCEPT ![child] = "reaped"]
            /\ dirty' = [dirty EXCEPT !.children = TRUE] /\ FinishOne(w, "ok", "none")
         \/ FinishOne(w, "ECHILD", "none") /\ UNCHANGED <<proc, dirty>>
         \/ UNCHANGED <<proc, dirty, parkVars>>
  BY <1>2, <1>4 DEF SettleChildWait
<1>6. UNCHANGED <<taskVars, sigVars, nextGen, pins, pipe, now, hostVars, effects, fresh>>
  BY DEF SettleChildWait, hostVars
<1>7. Moved("children", ctl.pass)
  BY <1>1, <1>3, <1>5 DEF Moved, Control
<1>8. UNCHANGED parkVars \/ \E done : Decision(<<w>>, done) /\ Len(done) = 1 /\ done[1].flag = "none"
  <2>1. ASSUME NEW value \in {"ok", "ECHILD"}, FinishOne(w, value, "none")
        PROVE  \E done : Decision(<<w>>, done) /\ Len(done) = 1 /\ done[1].flag = "none"
    <3>1. value \in Values
      BY DEF Values
    <3>2. PICK done : /\ Decision(<<w>>, done)
                      /\ Len(done) = 1 /\ done[1] = Completion(w, value, "none", FALSE)
      BY <1>1, <1>3, <2>1, <3>1, FinishOneDecides
    <3>3. Completion(w, value, "none", FALSE).flag = "none"
      BY DEF Completion
    <3> QED BY <3>2, <3>3
  <2> QED BY <1>5, <2>1
<1>9. UNCHANGED parkVars \/ \E ws, done : Decision(ws, done) /\ Silent(done)
  BY <1>8 DEF Silent
<1>10. ParkType' /\ ReleasesDecided'
  <2>1. CASE UNCHANGED parkVars
    BY <1>1, <1>6, <2>1, Unchanged
  <2>2. CASE \E ws, done : Decision(ws, done) /\ Silent(done)
    BY <1>1, <1>6, <2>2, DecisionTyped DEF ReleasesDecided
  <2> QED BY <1>9, <2>1, <2>2
<1>11. /\ dirty' \in Dirty /\ dirty'.pids = dirty.pids /\ dirty'.notices = dirty.notices
  BY <1>1, <1>5 DEF Dirty
<1>12. dirty.notices = {}
  BY <1>1 DEF NotesInv
<1>13. WorldType' /\ GuestType' /\ HostType' /\ SignalType' /\ DirtyType'
  BY <1>1, <1>5, <1>6, <1>11, Unchanged DEF WorldType, ProcStates, DirtyType
<1>14. FlowInv' /\ ControlType'
  BY <1>1, <1>6, <1>7, <1>10, <1>11, <1>12, PassingFlow DEF Passing
<1> QED BY <1>9, <1>10, <1>13, <1>14 DEF TInv

\* Some parks are decided, for the host to publish.
Decided == \E ws, done : Decision(ws, done) /\ Silent(done)

\* The pins of the parks that are decided are those of decided calls.
LEMMA DecidedReleases ==
  ASSUME Base, Decided, UNCHANGED nextGen
  PROVE  ParkType' /\ ReleasesDecided' /\ parks' \subseteq parks
<1>1. ParkType /\ ReleasesDecided
  BY DEF Base, TInv, FlowInv, PassInv, ReleasesDecided
<1> QED BY <1>1, DecisionTyped DEF Decided, ReleasesDecided

\* A sigtimedwait is served.
LEMMA SignalWaitKeeps ==
  ASSUME Base, SettleSignalWait
  PROVE  TInv' /\ FlowInv' /\ Decided
<1>1. /\ TInv /\ ctl \in Control /\ SignalType /\ ParkType /\ NotesInv
      /\ ctl.pc = "signal" /\ SignalWaiters # {}
  BY DEF Base, TInv, ControlType, FlowInv, SettleSignalWait
<1>2. PICK w : w = Eldest(SignalWaiters)
  OBVIOUS
<1>3. w \in parks /\ w.task \in Tasks
  <2>1. SignalWaiters \in SUBSET parks
    BY DEF SignalWaiters
  <2>2. w \in parks
    BY <1>1, <1>2, <2>1, EldestExists
  <2> QED BY <1>1, <2>2, ParkFacts
<1>4. PICK S : S = {Lowest(Pending(w.task) \cap w.set)}
  OBVIOUS
<1>5. /\ Consume(w.task, S) /\ FinishOne(w, "ok", "none")
      /\ UNCHANGED <<taskVars, blocked, saved, dirty, worldVars, hostVars, ctl>>
  BY <1>2, <1>4 DEF SettleSignalWait
<1>6. SignalType'
  BY <1>1, <1>3, <1>5, ConsumeTyped DEF SignalType
<1>7. Decided
  <2>1. PICK done : /\ Decision(<<w>>, done)
                    /\ Len(done) = 1 /\ done[1] = Completion(w, "ok", "none", FALSE)
    BY <1>1, <1>3, <1>5, FinishOneDecides DEF Values
  <2>2. Completion(w, "ok", "none", FALSE).flag = "none"
    BY DEF Completion
  <2>3. done[1].flag = "none" /\ Len(done) = 1
    BY <2>1, <2>2
  <2>4. Silent(done)
    BY <2>3 DEF Silent
  <2> QED BY <2>1, <2>4 DEF Decided
<1>8. UNCHANGED <<nextGen, fresh, effects, now, pins, proc, pipe>>
  BY <1>5 DEF worldVars, hostVars
<1>9. ParkType' /\ ReleasesDecided'
  BY <1>7, <1>8, DecidedReleases
<1>10. Moved("signal", ctl.pass)
  BY <1>1, <1>5 DEF Moved
<1>11. dirty' = dirty /\ dirty.notices = {} /\ ~dirty.children
  BY <1>1, <1>5 DEF NotesInv
<1>12. FlowInv' /\ ControlType'
  BY <1>1, <1>8, <1>9, <1>10, <1>11, PassingFlow DEF Passing
<1>13. GuestType' /\ WorldType' /\ HostType' /\ DirtyType'
  BY <1>1, <1>5, <1>8, Unchanged
<1> QED BY <1>6, <1>7, <1>9, <1>12, <1>13 DEF TInv

\* A transfer is decided: published by the kernel, or for the host to publish.
TransferDecided ==
  \E w \in parks : \E done :
    /\ Decision(<<w>>, done) /\ Len(done) = 1
    /\ \/ done[1].flag = "published" /\ guest' = [guest EXCEPT ![w.task] = "user"]
       \/ done[1].flag = "none" /\ guest' = guest

\* A transfer is tried again.
LEMMA RetryWaitKeeps ==
  ASSUME Base, SettleRetryWait
  PROVE  TInv' /\ FlowInv' /\ (UNCHANGED <<parkVars, guest>> \/ TransferDecided)
<1>1. /\ TInv /\ ctl \in Control /\ SignalType /\ ParkType /\ WorldType /\ DirtyType /\ NotesInv
      /\ ReleasesDecided /\ ctl.pc = "retrying" /\ RetryWaiters # {}
  BY DEF Base, TInv, ControlType, FlowInv, SettleRetryWait, PassInv, ReleasesDecided
<1>2. PICK w : w = Eldest(RetryWaiters)
  OBVIOUS
<1>3. w \in parks /\ w.task \in Tasks /\ w.gen \in Nat /\ PidOf[w.task] \in Pids /\ w.kind \in Ends
  <2>1. RetryWaiters \in SUBSET parks /\ \A v \in RetryWaiters : v.kind \in Ends
    BY DEF RetryWaiters, IsTransfer
  <2>2. w \in RetryWaiters
    BY <1>1, <1>2, <2>1, EldestExists
  <2> QED BY <1>1, <2>1, <2>2, ParkFacts, TaskAssumption
<1>4. PICK value : value = Attempted(w.kind)
  OBVIOUS
<1>5. value \in {"ok", "EPIPE", "block"}
  BY <1>4 DEF Attempted
<1>6. PICK flag \in {"published", "none"} :
        flag = IF PublishedDirectly(w, value) THEN "published" ELSE "none"
  OBVIOUS
<1>7. /\ ctl' = [ctl EXCEPT !.at = w.gen]
      /\ \/ UNCHANGED <<guest, shared, pipe, dirty, parkVars>>
         \/ /\ value # "block" /\ Transferred(PidOf[w.task], w.kind, value)
            /\ FinishOne(w, value, flag)
            /\ guest' = IF flag = "published" THEN [guest EXCEPT ![w.task] = "user"] ELSE guest
  BY <1>2, <1>4, <1>6 DEF SettleRetryWait
<1>8. UNCHANGED <<waitGen, directed, blocked, saved, nextGen, pins, proc, now, fresh, batch, effects, cancels, timerDue>>
  BY DEF SettleRetryWait
<1>9. Moved("retrying", ctl.pass)
  BY <1>1, <1>3, <1>7 DEF Moved, Control
<1>10. dirty.notices = {} /\ ~dirty.children
  BY <1>1 DEF NotesInv
<1>11. /\ ParkType' /\ ReleasesDecided' /\ (UNCHANGED <<parkVars, guest>> \/ TransferDecided)
       /\ DirtyType' /\ SameNotes(dirty, dirty') /\ pipe' \in Pipes /\ shared' \in [Pids -> SUBSET Sig]
  <2>1. CASE UNCHANGED <<guest, shared, pipe, dirty, parkVars>>
    <3>1. ParkType' /\ ReleasesDecided' /\ DirtyType'
      BY <1>1, <1>8, <2>1, Unchanged DEF parkVars
    <3>2. SameNotes(dirty, dirty') /\ pipe' \in Pipes /\ shared' \in [Pids -> SUBSET Sig]
      BY <1>1, <2>1 DEF SameNotes, WorldType, SignalType
    <3> QED BY <2>1, <3>1, <3>2
  <2>2. CASE /\ value # "block" /\ Transferred(PidOf[w.task], w.kind, value) /\ FinishOne(w, value, flag)
             /\ guest' = IF flag = "published" THEN [guest EXCEPT ![w.task] = "user"] ELSE guest
    <3>1. DirtyType' /\ SameNotes(dirty, dirty') /\ pipe' \in Pipes /\ shared' \in [Pids -> SUBSET Sig]
      BY <1>1, <1>3, <1>4, <1>5, <2>2, TransferTyped
    <3>2. PICK done : /\ Decision(<<w>>, done)
                      /\ Len(done) = 1 /\ done[1] = Completion(w, value, flag, FALSE)
      BY <1>1, <1>3, <1>5, <2>2, FinishOneDecides DEF Values
    <3>3. Completion(w, value, flag, FALSE).flag = flag
      BY DEF Completion
    <3>4. TransferDecided
      BY <1>3, <2>2, <3>2, <3>3 DEF TransferDecided
    <3>5. ParkType' /\ ReleasesDecided'
      BY <1>1, <1>8, <3>2, DecisionTyped DEF ReleasesDecided
    <3> QED BY <3>1, <3>4, <3>5
  <2> QED BY <1>7, <2>1, <2>2
<1>12. FlowInv' /\ ControlType'
  BY <1>1, <1>8, <1>9, <1>10, <1>11, PassingFlow DEF Passing, SameNotes
<1>13. GuestType'
  BY <1>1, <1>3, <1>7, <1>8 DEF TInv, GuestType
<1>14. WorldType' /\ SignalType'
  BY <1>1, <1>8, <1>11 DEF WorldType, SignalType
<1>15. HostType'
  BY <1>1, <1>8 DEF TInv, HostType
<1> QED BY <1>11, <1>12, <1>13, <1>14, <1>15 DEF TInv

\* The deadlines that have come.
LEMMA ExpireKeeps ==
  ASSUME Base, Expire
  PROVE  TInv' /\ FlowInv' /\ Decided
<1>1. TInv /\ ctl \in Control /\ ParkType /\ ParksInv /\ NotesInv /\ ctl.pc = "expire"
  BY DEF Base, TInv, ControlType, FlowInv, Expire
<1>2. Decided
  BY <1>1, ExpireDecides DEF Decided
<1>3. UNCHANGED <<taskVars, sigVars, dirty, worldVars, hostVars>> /\ At("sweep")
  BY DEF Expire
<1>4. UNCHANGED <<nextGen, fresh, effects, now, pins, proc, pipe>>
  BY <1>3 DEF worldVars, hostVars
<1>5. ParkType' /\ ReleasesDecided'
  BY <1>2, <1>4, DecidedReleases
<1>6. Moved("sweep", ctl.pass)
  BY <1>1, <1>3, AtMoved DEF Points, Passing
<1>7. dirty' = dirty /\ dirty.notices = {} /\ ~dirty.children
  BY <1>1, <1>3 DEF NotesInv
<1>8. FlowInv' /\ ControlType'
  BY <1>1, <1>4, <1>5, <1>6, <1>7, PassingFlow DEF Passing
<1>9. GuestType' /\ WorldType' /\ HostType' /\ DirtyType' /\ SignalType'
  BY <1>1, <1>3, <1>4, Unchanged
<1> QED BY <1>2, <1>5, <1>8, <1>9 DEF TInv

\* What a sweep does to the notes.
LEMMA SweptNotes ==
  ASSUME DirtyType, Swept
  PROVE  /\ DirtyType' /\ dirty'.signals = FALSE /\ dirty'.pids = {}
         /\ dirty'.children = dirty.children /\ dirty'.notices = dirty.notices
         /\ dirty'.pipe = dirty.pipe /\ dirty'.continued = dirty.continued
<1>1. dirty' = [dirty EXCEPT !.signals = FALSE, !.pids = {}]
  BY DEF Swept
<1> QED BY <1>1 DEF DirtyType, Dirty

\* The sweep of a pass.
LEMMA SweepKeeps ==
  ASSUME Base, Sweep
  PROVE  TInv' /\ FlowInv' /\ Decided
<1>1. TInv /\ ctl \in Control /\ ParkType /\ ParksInv /\ NotesInv /\ PassInv /\ DirtyType /\ ctl.pc = "sweep"
  BY DEF Base, TInv, ControlType, FlowInv, Sweep
<1>2. Decided
  BY <1>1, SweptDecides DEF Decided, Sweep
<1>3. UNCHANGED <<taskVars, sigVars, worldVars, hostVars>> /\ Swept
  BY DEF Sweep
<1>4. UNCHANGED <<nextGen, fresh, effects, now, pins, proc, pipe>>
  BY <1>3 DEF worldVars, hostVars
<1>5. ParkType' /\ ReleasesDecided'
  BY <1>2, <1>4, DecidedReleases
<1>6. /\ DirtyType' /\ dirty'.signals = FALSE /\ dirty'.pids = {} /\ dirty'.children = dirty.children
      /\ dirty'.notices = dirty.notices
  BY <1>1, <1>3, SweptNotes
<1>7. dirty.notices = {} /\ ~dirty.children /\ ctl.pass \in {"events", "drain"}
  BY <1>1 DEF NotesInv, Control
<1>8. PICK pc : pc = IF ctl.pass = "drain" THEN "out" ELSE "lifecycle"
  OBVIOUS
<1>9. Moved(pc, ctl.pass)
  BY <1>1, <1>8, AtMoved DEF Points, Sweep
<1>10. NotesInv'
  BY <1>6, <1>7 DEF NotesInv
<1>11. PassInv'
  BY <1>1, <1>4, <1>5, <1>7, <1>8, <1>9 DEF PassInv, Moved, ReleasesDecided, Passing
<1>12. ControlType'
  BY <1>8, <1>9 DEF ControlType, Moved, Called
<1>13. GuestType' /\ WorldType' /\ HostType' /\ SignalType'
  BY <1>1, <1>3, <1>4, Unchanged
<1> QED BY <1>2, <1>5, <1>6, <1>10, <1>11, <1>12, <1>13 DEF TInv, FlowInv

\* A page of decisions leaves the kernel; each record answers the same wait, with
\* the same result unless the rest of a sleep cannot be stored.
SameAnswer(r, c) ==
  /\ r.gen = c.gen /\ r.task = c.task /\ r.flag = c.flag
  /\ r = c \/ (~r.rem /\ (r.value = c.value \/ (c.rem /\ r.value = "EFAULT")))
Collected(out, rest) ==
  /\ out \in Seq(Record) /\ rest \in Seq(Record) /\ Len(completions) = Len(out) + Len(rest)
  /\ \A i \in 1..Len(out) : SameAnswer(out[i], completions[i])
  /\ \A i \in 1..Len(rest) : rest[i] = completions[Len(out) + i]
  /\ completions' = rest
  /\ \/ fresh' = fresh \o out /\ batch' = batch /\ ctl'.pc = "announce" /\ ctl'.pass = "drain"
     \/ /\ rest = <<>> /\ fresh' = <<>> /\ batch' = (fresh \o out) \o <<ArmMark>> \o batch
        /\ ctl'.pc = "publish"

\* The page that is collected.
LEMMA CollectPage ==
  ASSUME Base, CollectRecords
  PROVE  \E out, rest : Collected(out, rest)
<1>1. /\ completions \in Seq(Record) /\ Len(completions) \in Nat /\ MaxRecords \in Nat
      /\ ctl \in Control
  BY BoundAssumption DEF Base, TInv, ParkType, ControlType
<1>2. PICK count : count = IF Len(completions) < MaxRecords THEN Len(completions) ELSE MaxRecords
  OBVIOUS
<1>3. count \in Nat /\ count <= Len(completions) /\ (count # MaxRecords => count = Len(completions))
  BY <1>1, <1>2
<1>4. PICK page : page = SubSeq(completions, 1, count)
  OBVIOUS
<1>5. page \in Seq(Record) /\ Len(page) = count /\ \A i \in 1..count : page[i] = completions[i]
  BY <1>1, <1>3, <1>4
<1>6. PICK bad \in SUBSET {i \in 1..count : page[i].rem} :
        LET records == fresh \o [i \in 1..count |->
                         [page[i] EXCEPT !.value = IF i \in bad THEN "EFAULT" ELSE @, !.rem = FALSE]]
        IN /\ completions' = SubSeq(completions, count + 1, Len(completions))
           /\ IF count = MaxRecords
              THEN BeginPass("drain") /\ fresh' = records /\ batch' = batch
              ELSE At("publish") /\ fresh' = <<>> /\ batch' = records \o <<ArmMark>> \o batch
  BY <1>2, <1>4 DEF CollectRecords
<1>7. PICK out : out = [i \in 1..count |->
                    [page[i] EXCEPT !.value = IF i \in bad THEN "EFAULT" ELSE @, !.rem = FALSE]]
  OBVIOUS
<1>8. \A i \in 1..count : out[i] \in Record /\ SameAnswer(out[i], completions[i])
  <2> SUFFICES ASSUME NEW i \in 1..count PROVE out[i] \in Record /\ SameAnswer(out[i], completions[i])
    OBVIOUS
  <2>1. PICK r, v : r = page[i] /\ v = IF i \in bad THEN "EFAULT" ELSE r.value
    OBVIOUS
  <2>2. r \in Record /\ r = completions[i]
    BY <1>5, <2>1
  <2>3. v \in Values /\ (v = r.value \/ (r.rem /\ v = "EFAULT"))
    <3>1. i \in bad => r.rem
      BY <1>6, <2>1
    <3> QED BY <2>1, <2>2, <3>1 DEF Record, Values
  <2>4. out[i] = [r EXCEPT !.value = v, !.rem = FALSE]
    BY <1>7, <2>1
  <2>5. out[i] \in Record /\ SameAnswer(out[i], r)
    BY <2>2, <2>3, <2>4 DEF Record, SameAnswer
  <2> QED BY <2>2, <2>5
<1>9. out \in Seq(Record) /\ Len(out) = count
  <2>1. out = [i \in 1..count |-> out[i]]
    BY <1>7
  <2> QED BY <1>3, <1>8, <2>1
<1>10. PICK rest : rest = SubSeq(completions, count + 1, Len(completions))
  OBVIOUS
<1>11. /\ rest \in Seq(Record) /\ Len(rest) = Len(completions) - count
       /\ \A i \in 1..Len(rest) : rest[i] = completions[count + i]
  BY <1>1, <1>3, <1>10
<1>12. count # MaxRecords => rest = <<>>
  <2>1. count # MaxRecords => Len(rest) = 0
    BY <1>1, <1>3, <1>11
  <2> QED BY <1>11, <2>1
<1>13. /\ completions' = rest
       /\ \/ BeginPass("drain") /\ fresh' = fresh \o out /\ batch' = batch
          \/ /\ count # MaxRecords /\ At("publish") /\ fresh' = <<>>
             /\ batch' = (fresh \o out) \o <<ArmMark>> \o batch
  BY <1>6, <1>7, <1>10
<1>14. \/ ctl'.pc = "announce" /\ ctl'.pass = "drain" /\ fresh' = fresh \o out /\ batch' = batch
       \/ /\ count # MaxRecords /\ ctl'.pc = "publish" /\ fresh' = <<>>
          /\ batch' = (fresh \o out) \o <<ArmMark>> \o batch
  BY <1>1, <1>13, AtMoved, PassMoved DEF Moved, Points
<1>15. Len(completions) = Len(out) + Len(rest)
  BY <1>1, <1>3, <1>9, <1>11
<1> QED BY <1>8, <1>9, <1>11, <1>12, <1>13, <1>14, <1>15 DEF Collected

\* The collection of the records.
LEMMA CollectKeeps ==
  ASSUME Base, CollectRecords
  PROVE  TInv' /\ FlowInv'
<1>1. /\ TInv /\ ctl \in Control /\ ParkType /\ HostType /\ NotesInv /\ PassInv /\ DirtyType /\ WorldType
      /\ ctl.pc = "out"
  BY DEF Base, TInv, ControlType, FlowInv, CollectRecords
<1>2. PICK out, rest : Collected(out, rest)
  BY CollectPage
<1>3. /\ UNCHANGED <<taskVars, sigVars, parks, nextGen, proc, now, effects, cancels, timerDue>>
      /\ released' = {} /\ CloseEnds(pipe, {x \in pins : x[1] \notin released}, dirty)
  BY DEF CollectRecords
<1>4. /\ pipe' \in Pipes /\ pins' \subseteq Tasks \X Ends /\ dirty' \in Dirty /\ SameNotes(dirty, dirty')
      /\ dirty'.signals = dirty.signals
  <2>1. {x \in pins : x[1] \notin released} \in SUBSET (Tasks \X Ends) /\ pipe \in Pipes /\ dirty \in Dirty
    BY <1>1 DEF WorldType, DirtyType
  <2> QED BY <1>1, <1>3, <2>1, CloseTyped
<1>5. ctl' \in Control
  BY <1>1 DEF CollectRecords, BeginPass, At, Control, Points, Passing
<1>6. ctl'.pc \in {"announce", "publish"} /\ completions' = rest /\ rest \in Seq(Record) /\ out \in Seq(Record)
  BY <1>2 DEF Collected
<1>7. fresh' \in Seq(Record) /\ batch' \in Seq(Record \cup {ArmMark})
  <2>1. fresh \o out \in Seq(Record) /\ <<>> \in Seq(Record)
    BY <1>1, <1>6 DEF HostType
  <2>2. PICK a, b, c : a = fresh \o out /\ b = <<ArmMark>> /\ c = batch
    OBVIOUS
  <2>3. a \in Seq(Record \cup {ArmMark}) /\ b \in Seq(Record \cup {ArmMark}) /\ c \in Seq(Record \cup {ArmMark})
    BY <1>1, <2>1, <2>2 DEF HostType
  <2>4. a \o b \o c \in Seq(Record \cup {ArmMark})
    BY <2>3
  <2> QED BY <1>1, <1>2, <2>1, <2>2, <2>4 DEF Collected, HostType
<1>8. dirty.notices = {} /\ ~dirty.children /\ ~dirty.signals /\ dirty.pids = {}
  BY <1>1 DEF NotesInv, Called, Passing
<1>9. NotesInv'
  BY <1>4, <1>8 DEF NotesInv, SameNotes
<1>10. PassInv'
  BY <1>2, <1>3 DEF PassInv, Collected, Passing
<1>11. GuestType' /\ SignalType'
  BY <1>1, <1>3, Unchanged
<1>12. HostType' /\ ParkType'
  BY <1>1, <1>3, <1>6, <1>7 DEF HostType, ParkType
<1>13. WorldType' /\ DirtyType' /\ ControlType'
  BY <1>1, <1>3, <1>4, <1>5, <1>6 DEF WorldType, DirtyType, ControlType, Called
<1> QED BY <1>9, <1>10, <1>11, <1>12, <1>13 DEF TInv, FlowInv

-----------------------------------------------------------------------------
(* Types and flow: the host.                                               *)

\* The timer is armed less than a millisecond after any deadline, at the latest.
LEMMA ArmedTimer ==
  ASSUME ParkType, HostType, ArmTimer
  PROVE  /\ timerDue' \in Nat \cup {None}
         /\ \A w \in parks : w.deadline # None =>
              timerDue' # None /\ (timerDue' < w.deadline + Millisecond \/ timerDue' <= now)
<1>1. PICK timed : timed = {w.deadline : w \in {v \in parks : v.deadline # None}}
  OBVIOUS
<1>2. timed \in SUBSET Nat /\ \A w \in parks : w.deadline # None => w.deadline \in timed
  BY <1>1, ParkFacts
<1>3. PICK low : low = Lowest(timed)
  OBVIOUS
<1>4. timed # {} => low \in Nat /\ \A o \in timed : low <= o
  BY <1>2, <1>3, LowestExists
<1>5. PICK wait : wait = IF low > now THEN low - now ELSE 0
  OBVIOUS
<1>6. PICK delay : delay = (wait + Millisecond - 1) \div Millisecond
  OBVIOUS
<1>7. PICK d : d = IF delay < MaxDelay THEN delay ELSE MaxDelay
  OBVIOUS
<1>8. PICK due : due = now + Millisecond * d
  OBVIOUS
<1>9. timerDue' = IF timed = {} \/ (timerDue # None /\ timerDue <= due) THEN timerDue ELSE due
  BY <1>1, <1>3, <1>5, <1>6, <1>7, <1>8 DEF ArmTimer
<1>10. /\ now \in Nat /\ MaxDelay \in Nat /\ timerDue \in Nat \cup {None} /\ None \notin Nat
       /\ Millisecond \in Nat \ {0}
  BY BoundAssumption DEF HostType, None
<1>11. timed # {} => due \in Nat /\ (due < low + Millisecond \/ due <= now)
  <2> SUFFICES ASSUME timed # {} PROVE due \in Nat /\ (due < low + Millisecond \/ due <= now)
    OBVIOUS
  <2>1. wait \in Nat /\ low \in Nat
    BY <1>4, <1>5, <1>10
  <2>2. PICK m \in Nat \ {0} : m = Millisecond
    BY <1>10
  <2>3. PICK span \in Nat : span = m * d /\ span < wait + m
    <3>1. PICK a \in Nat : a = wait + m - 1
      BY <2>1
    <3>2. delay = a \div m
      BY <1>6, <2>2, <3>1
    <3>3. delay \in Nat /\ m * delay <= a
      BY <3>2
    <3>4. d \in Nat /\ d <= delay
      BY <1>7, <1>10, <3>3
    <3>5. PICK k \in Nat : k = delay - d
      BY <3>3, <3>4
    <3>6. delay = d + k
      BY <3>3, <3>4, <3>5
    <3>7. m * delay = m * d + m * k /\ m * d \in Nat /\ m * k \in Nat
      BY <3>4, <3>6
    <3> QED BY <2>1, <3>1, <3>3, <3>7
  <2>4. due = now + span
    BY <1>8, <2>2, <2>3
  <2>5. CASE low > now
    BY <1>5, <1>10, <2>1, <2>2, <2>3, <2>5, <2>4
  <2>6. CASE ~(low > now)
    <3>1. wait = 0 /\ low <= now
      BY <1>5, <1>10, <2>1, <2>6
    <3>2. delay = 0
      BY <1>6, <1>10, <3>1
    <3>3. d = 0
      BY <1>7, <1>10, <3>2
    <3>4. span = 0
      BY <2>3, <3>3
    <3> QED BY <1>10, <2>4, <3>4
  <2> QED BY <2>5, <2>6
<1>12. timerDue' \in Nat \cup {None}
  BY <1>9, <1>10, <1>11
<1>13. ASSUME NEW w \in parks, w.deadline # None
       PROVE  timerDue' # None /\ (timerDue' < w.deadline + Millisecond \/ timerDue' <= now)
  <2>1. timed # {} /\ w.deadline \in timed /\ w.deadline \in Nat
    BY <1>2, <1>13
  <2>2. low \in Nat /\ low <= w.deadline /\ due \in Nat /\ (due < low + Millisecond \/ due <= now)
    BY <1>4, <1>11, <2>1
  <2>3. timerDue' \in Nat /\ timerDue' <= due
    BY <1>9, <1>10, <2>1, <2>2
  <2> QED BY <1>10, <2>1, <2>2, <2>3
<1> QED BY <1>12, <1>13

\* A live task's wait is cancelled.
LEMMA CancelLiveTyped ==
  ASSUME Base, NEW u \in Tasks, CancelLiveTask(u), UNCHANGED nextGen
  PROVE  /\ SignalType' /\ DirtyType' /\ SameNotes(dirty, dirty') /\ dirty'.pipe = dirty.pipe
         /\ dirty'.signals => dirty.signals \/ parks # {}
         /\ \E mask \in SUBSET Sig : /\ blocked' = [blocked EXCEPT ![u] = mask]
                                     /\ dirty' = MaskNote(u, mask, dirty)
         /\ UNCHANGED <<shared, directed>>
         /\ ParkType' /\ ReleasesDecided' /\ (UNCHANGED parkVars \/ Decided)
<1>1. TInv /\ SignalType /\ DirtyType /\ ParkType /\ ReleasesDecided
  BY DEF Base, TInv, FlowInv, PassInv, ReleasesDecided
<1>2. RestoreMask(u)
  BY DEF CancelLiveTask
<1>3. UNCHANGED parkVars \/ Decided
  <2>1. CASE ParksOf({u}) = {}
    BY <2>1 DEF CancelLiveTask
  <2>2. CASE ParksOf({u}) # {}
    <3>1. PICK w : w = Eldest(ParksOf({u}))
      OBVIOUS
    <3>2. ParksOf({u}) \in SUBSET parks
      BY DEF ParksOf
    <3>3. w \in parks
      BY <1>1, <2>2, <3>1, <3>2, EldestExists
    <3>4. FinishOne(w, "EINTR", "cancelled")
      BY <2>2, <3>1 DEF CancelLiveTask
    <3>5. PICK done : /\ Decision(<<w>>, done)
                      /\ Len(done) = 1 /\ done[1] = Completion(w, "EINTR", "cancelled", FALSE)
      BY <1>1, <3>3, <3>4, FinishOneDecides DEF Values
    <3>6. Completion(w, "EINTR", "cancelled", FALSE).flag = "cancelled"
      BY DEF Completion
    <3>7. done[1].flag = "cancelled" /\ Len(done) = 1
      BY <3>5, <3>6
    <3>8. Silent(done)
      BY <3>7 DEF Silent
    <3> QED BY <3>5, <3>8 DEF Decided
  <2> QED BY <2>1, <2>2
<1>4. ParkType' /\ ReleasesDecided'
  <2>1. CASE UNCHANGED parkVars
    BY <1>1, <2>1, Unchanged
  <2>2. CASE Decided
    BY <2>2, DecidedReleases
  <2> QED BY <1>3, <2>1, <2>2
<1> QED BY <1>1, <1>2, <1>3, <1>4, RestoreTyped

\* A park that a cancellation was waiting for.
LEMMA CancelNewKeeps ==
  ASSUME Base, CancelNewPark
  PROVE  TInv' /\ FlowInv' /\ (UNCHANGED parkVars \/ Decided)
<1>1. /\ TInv /\ ctl \in Control /\ ControlType /\ NotesInv /\ PassInv /\ ctl.pc = "cancelnew"
  BY DEF Base, TInv, ControlType, FlowInv, CancelNewPark
<1>2. ctl.caller \in Tasks
  BY <1>1 DEF ControlType, Called
<1>3. CancelLiveTask(ctl.caller) /\ At("followup") /\ UNCHANGED <<taskVars, worldVars, hostVars>>
  BY DEF CancelNewPark
<1>4. UNCHANGED <<nextGen, fresh, effects, now, pins, proc, pipe>>
  BY <1>3 DEF worldVars, hostVars
<1>5. /\ SignalType' /\ DirtyType' /\ SameNotes(dirty, dirty') /\ ParkType' /\ ReleasesDecided'
      /\ (UNCHANGED parkVars \/ Decided)
  BY <1>2, <1>3, <1>4, CancelLiveTyped
<1>6. Moved("followup", ctl.pass)
  BY <1>1, <1>3, AtMoved DEF Points, Called
<1>7. dirty.notices = {} /\ ~dirty.children /\ fresh = <<>>
  BY <1>1 DEF NotesInv, PassInv, Passing
<1>8. NotesInv'
  BY <1>5, <1>6, <1>7 DEF NotesInv, SameNotes, Moved, Called
<1>9. PassInv'
  BY <1>4, <1>5, <1>6, <1>7 DEF PassInv, Moved, ReleasesDecided
<1>10. ControlType'
  BY <1>1, <1>6, MovedTyped DEF Called
<1>11. GuestType' /\ WorldType' /\ HostType'
  BY <1>1, <1>3, <1>4, Unchanged
<1> QED BY <1>5, <1>8, <1>9, <1>10, <1>11 DEF TInv, FlowInv

\* At a point of publication the notes are clean.
LEMMA PublishFacts ==
  ASSUME Base, ctl.pc \in {"publish", "lifecycle", "out"}
  PROVE  /\ dirty.notices = {} /\ ~dirty.children /\ ~dirty.signals /\ dirty.pids = {}
         /\ ctl.pc # "out" => fresh = <<>>
         /\ ctl.pc = "publish" => completions = <<>>
         /\ ReleasesDecided
<1>1. NotesInv /\ PassInv
  BY DEF Base, FlowInv
<1>2. dirty.notices = {} /\ ~dirty.children /\ ~dirty.signals /\ dirty.pids = {}
  BY <1>1 DEF NotesInv, Called, Passing
<1>3. (ctl.pc # "out" => fresh = <<>>) /\ (ctl.pc = "publish" => completions = <<>>) /\ ReleasesDecided
  BY <1>1 DEF PassInv, Passing, ReleasesDecided
<1> QED BY <1>2, <1>3

\* The target of a cancellation.
LEMMA CancelTargetKeeps ==
  ASSUME Base, CancelTarget
  PROVE  TInv' /\ FlowInv' /\ (UNCHANGED parkVars \/ Decided)
<1>1. /\ TInv /\ ctl \in Control /\ ctl.pc = "publish" /\ ctl.target \in Tasks /\ ParksInv /\ SignalType
      /\ DirtyType
  BY DEF Base, TInv, ControlType, CancelTarget, Control
<1>2. /\ dirty.notices = {} /\ ~dirty.children /\ ~dirty.signals /\ dirty.pids = {}
      /\ fresh = <<>> /\ completions = <<>> /\ ReleasesDecided
  BY <1>1, PublishFacts
<1>3. UNCHANGED <<taskVars, worldVars, fresh, batch, effects, timerDue, nextGen, now, pins, proc, pipe>>
  BY DEF CancelTarget, worldVars
<1>4. PICK pc : pc = IF waitGen[ctl.target] # 0 THEN "announce" ELSE "publish"
  OBVIOUS
<1>5. ctl' \in Control /\ ctl'.pc = pc /\ ctl'.pass = "events"
  BY <1>1, <1>4 DEF CancelTarget, Control, Points, Passing
<1>6. /\ SignalType' /\ DirtyType' /\ SameNotes(dirty, dirty') /\ ParkType' /\ ReleasesDecided'
      /\ (UNCHANGED parkVars \/ Decided)
      /\ pc # "announce" => dirty'.signals = dirty.signals /\ UNCHANGED parkVars
  <2>1. CASE \E w \in ParksOf({ctl.target}) : w.point
    <3>1. CancelLiveTask(ctl.target)
      BY <2>1 DEF CancelTarget
    <3>2. waitGen[ctl.target] # 0
      <4>1. PICK w \in parks : w.task = ctl.target
        BY <2>1 DEF ParksOf
      <4> QED BY <1>1, <4>1 DEF ParksInv
    <3> QED BY <1>1, <1>3, <1>4, <3>1, <3>2, CancelLiveTyped
  <2>2. CASE ~\E w \in ParksOf({ctl.target}) : w.point
    <3>1. UNCHANGED <<sigVars, parkVars, dirty>>
      BY <2>2 DEF CancelTarget
    <3>2. SignalType' /\ DirtyType' /\ ParkType' /\ ReleasesDecided'
      BY <1>1, <1>2, <1>3, <3>1, Unchanged
    <3> QED BY <3>1, <3>2 DEF SameNotes
  <2> QED BY <2>1, <2>2
<1>7. NotesInv'
  BY <1>2, <1>4, <1>5, <1>6 DEF NotesInv, SameNotes, Passing
<1>8. PassInv'
  <2>1. pc # "announce" => completions' = <<>>
    BY <1>2, <1>6 DEF parkVars
  <2> QED BY <1>2, <1>3, <1>4, <1>5, <1>6, <2>1 DEF PassInv, ReleasesDecided
<1>9. HostType'
  <2>1. cancels' \subseteq Tasks
    BY <1>1 DEF CancelTarget, TInv, HostType
  <2> QED BY <1>1, <1>3, <2>1 DEF TInv, HostType
<1>10. GuestType' /\ WorldType' /\ ControlType'
  BY <1>1, <1>3, <1>4, <1>5, Unchanged DEF ControlType, Called
<1> QED BY <1>6, <1>7, <1>8, <1>9, <1>10 DEF TInv, FlowInv

\* The follow-up of a park.
LEMMA FollowupKeeps ==
  ASSUME Base, Followup
  PROVE  TInv' /\ FlowInv' /\ Decided
<1>1. /\ TInv /\ ctl \in Control /\ ControlType /\ NotesInv /\ PassInv /\ ctl.pc = "followup" /\ ParkType
      /\ ParksInv /\ DirtyType /\ HostType
  BY DEF Base, TInv, ControlType, FlowInv, Followup
<1>2. Swept /\ UNCHANGED <<taskVars, sigVars, worldVars, fresh, batch, effects, cancels>>
  BY DEF Followup
<1>3. Decided
  BY <1>1, <1>2, SweptDecides DEF Decided
<1>4. UNCHANGED <<nextGen, now, pins, proc, pipe>>
  BY <1>2 DEF worldVars
<1>5. ParkType' /\ ReleasesDecided'
  BY <1>3, <1>4, DecidedReleases
<1>6. /\ DirtyType' /\ dirty'.signals = FALSE /\ dirty'.pids = {} /\ dirty'.children = dirty.children
      /\ dirty'.notices = dirty.notices
  BY <1>1, <1>2, SweptNotes
<1>7. dirty.notices = {} /\ ~dirty.children /\ fresh = <<>>
  BY <1>1 DEF NotesInv, PassInv, Passing
<1>8. timerDue' \in Nat \cup {None}
  BY <1>1, ArmedTimer DEF Followup, HostType
<1>9. PICK pc, pass : /\ Moved(pc, pass) /\ pc \in {"announce", "publish"}
                      /\ pc = "publish" => completions' = <<>>
  <2>1. CASE completions' # <<>>
    BY <1>1, <2>1, PassMoved DEF Followup
  <2>2. CASE completions' = <<>>
    BY <1>1, <2>2, AtMoved DEF Followup, Points
  <2> QED BY <2>1, <2>2
<1>10. NotesInv'
  BY <1>6, <1>7 DEF NotesInv
<1>11. PassInv'
  BY <1>2, <1>5, <1>7, <1>9 DEF PassInv, Moved, ReleasesDecided
<1>12. ControlType' /\ GuestType' /\ WorldType' /\ SignalType'
  BY <1>1, <1>2, <1>4, <1>9, Unchanged DEF ControlType, Moved, Called
<1>13. HostType'
  BY <1>1, <1>2, <1>4, <1>8 DEF HostType
<1> QED BY <1>3, <1>5, <1>6, <1>10, <1>11, <1>12, <1>13 DEF TInv, FlowInv

\* The thread whose turn it is to be resumed.
LEMMA ResumableTask ==
  ASSUME Resumable # {}
  PROVE  Lowest(Resumable) \in Resumable /\ Lowest(Resumable) \in Tasks
<1>1. Resumable \in SUBSET Tasks
  BY DEF Resumable
<1>2. Resumable \in SUBSET Nat
  BY <1>1, TaskAssumption
<1>3. Lowest(Resumable) \in Resumable
  BY <1>2, LowestExists
<1> QED BY <1>1, <1>3

\* The caller's answer, and the deliveries to the threads of a continued process.
LEMMA DeliverKeeps ==
  ASSUME Base, Return \/ Resume
  PROVE  TInv' /\ FlowInv'
<1>1. TInv /\ ctl \in Control /\ ControlType /\ NotesInv /\ PassInv /\ SignalType /\ GuestType /\ ReleasesDecided
  BY DEF Base, TInv, ControlType, FlowInv, PassInv, ReleasesDecided
<1>2. UNCHANGED <<taskVars, parkVars, dirty, worldVars, fresh, batch, cancels, timerDue, nextGen, now, pins, proc, pipe>>
  BY DEF Return, Resume, worldVars
<1>3. DirtyType' /\ WorldType' /\ ParkType' /\ ReleasesDecided'
  BY <1>1, <1>2, Unchanged
<1>4. HostType'
  BY <1>1, <1>2 DEF TInv, HostType
<1>5. ASSUME NEW t \in Tasks, NEW how \in {"none", "user", "suspend", "finish"}, Dequeue(t, how)
      PROVE  SignalType' /\ GuestType'
  <2>1. SignalType' /\ effects' \in [Tasks -> {"none", "user", "suspend", "finish"}]
    BY <1>1, <1>5, DequeueTyped
  <2> QED BY <1>1, <1>2, <2>1 DEF GuestType, taskVars
<1>6. CASE Return
  <2>1. ctl.pc \in Called /\ ctl.caller \in Tasks
    BY <1>1, <1>6 DEF Return, ControlType, Called
  <2>2. PICK how \in {"user", "suspend"} : Dequeue(ctl.caller, how)
    BY <1>6 DEF Return
  <2>3. SignalType' /\ GuestType'
    BY <1>5, <2>1, <2>2
  <2>4. Moved("announce", "events")
    BY <1>1, <1>6, PassMoved DEF Return
  <2>5. dirty'.pids = {} /\ fresh' = <<>>
    BY <1>1, <1>2, <1>6 DEF Return, NotesInv, PassInv, Passing
  <2>6. FlowInv' /\ ControlType'
    BY <1>1, <1>3, <2>4, <2>5, AnnounceFlow, MovedTyped DEF Called
  <2> QED BY <1>3, <1>4, <2>3, <2>6 DEF TInv
<1>7. CASE Resume
  <2>1. PICK t : t = Lowest(Resumable)
    OBVIOUS
  <2>2. t \in Tasks /\ t \in Nat
    BY <1>7, <2>1, ResumableTask, TaskAssumption DEF Resume
  <2>3. Dequeue(t, effects[t]) /\ ctl' = [ctl EXCEPT !.at = t] /\ ctl.pc = "lifecycle"
    BY <1>7, <2>1 DEF Resume
  <2>4. effects[t] \in {"none", "user", "suspend", "finish"}
    BY <1>1, <2>2 DEF GuestType
  <2>5. SignalType' /\ GuestType'
    BY <1>5, <2>2, <2>3, <2>4
  <2>6. Moved("lifecycle", ctl.pass)
    BY <1>1, <2>2, <2>3 DEF Moved, Control
  <2>7. NotesInv'
    BY <1>1, <1>2, <2>3, <2>6 DEF NotesInv, Moved
  <2>8. PassInv'
    BY <1>1, <1>2, <1>3, <2>3, <2>6 DEF PassInv, Moved, ReleasesDecided
  <2>9. ControlType'
    BY <2>6 DEF ControlType, Moved, Called
  <2> QED BY <1>3, <1>4, <2>5, <2>7, <2>8, <2>9 DEF TInv, FlowInv
<1> QED BY <1>6, <1>7

\* The end of the lifecycle events.
LEMMA LifecycleKeeps ==
  ASSUME Base, LifecycleEnds
  PROVE  TInv' /\ FlowInv'
<1>1. TInv /\ ctl \in Control /\ ctl.pc = "lifecycle" /\ dirty \in Dirty
  BY DEF Base, TInv, ControlType, DirtyType, LifecycleEnds
<1>2. /\ dirty.notices = {} /\ ~dirty.children /\ ~dirty.signals /\ dirty.pids = {}
      /\ fresh = <<>> /\ ReleasesDecided
  BY <1>1, PublishFacts
<1>3. /\ UNCHANGED <<taskVars, sigVars, parkVars, worldVars, hostVars>>
      /\ dirty' = [dirty EXCEPT !.continued = {}]
  BY DEF LifecycleEnds
<1>4. UNCHANGED <<nextGen, fresh, effects, now, pins, proc, pipe>>
  BY <1>3 DEF worldVars, hostVars
<1>5. DirtyType' /\ SameNotes([dirty EXCEPT !.continued = {}], dirty')
      /\ dirty'.notices = {} /\ ~dirty'.children /\ ~dirty'.signals /\ dirty'.pids = {}
  BY <1>1, <1>2, <1>3 DEF DirtyType, Dirty, SameNotes
<1>6. PICK pc, pass : /\ Moved(pc, pass) /\ pc \in {"announce", "publish"}
                      /\ pc = "publish" => completions = <<>>
  <2>1. CASE BeginPass("events") \/ BeginPass("drain")
    BY <1>1, <2>1, PassMoved
  <2>2. CASE At("publish") /\ completions = <<>>
    BY <1>1, <2>2, AtMoved DEF Points
  <2> QED BY <2>1, <2>2 DEF LifecycleEnds
<1>7. NotesInv'
  BY <1>5 DEF NotesInv
<1>8. SignalType' /\ WorldType' /\ ParkType' /\ GuestType' /\ HostType' /\ ReleasesDecided'
  BY <1>1, <1>2, <1>3, <1>4, Unchanged
<1>9. PassInv'
  BY <1>2, <1>3, <1>4, <1>6, <1>8 DEF PassInv, Moved, ReleasesDecided, parkVars
<1>10. ControlType'
  BY <1>6 DEF ControlType, Moved, Called
<1> QED BY <1>5, <1>7, <1>8, <1>9, <1>10 DEF TInv, FlowInv

\* The head and the tail of what is to be published.
LEMMA BatchParts ==
  ASSUME HostType, batch # <<>>
  PROVE  /\ Tail(batch) \in Seq(Record \cup {ArmMark}) /\ Head(batch) \in Record \cup {ArmMark}
         /\ Head(batch) # ArmMark => Head(batch) \in Record /\ Head(batch).task \in Tasks
<1>1. Tail(batch) \in Seq(Record \cup {ArmMark}) /\ Head(batch) \in Record \cup {ArmMark}
  BY DEF HostType
<1> QED BY <1>1 DEF Record

\* The publication of a record, or of the timer.
LEMMA PublishKeeps ==
  ASSUME Base, PublishArm \/ PublishNothing \/ PublishRecord
  PROVE  TInv' /\ FlowInv'
<1>1. /\ TInv /\ ctl \in Control /\ ControlType /\ ctl.pc = "publish" /\ batch # <<>> /\ HostType /\ GuestType
      /\ SignalType /\ ParkType
  BY DEF Base, TInv, ControlType, PublishArm, PublishNothing, PublishRecord
<1>2. /\ dirty.notices = {} /\ ~dirty.children /\ ~dirty.signals /\ dirty.pids = {}
      /\ fresh = <<>> /\ completions = <<>> /\ ReleasesDecided
  BY <1>1, PublishFacts
<1>3. /\ UNCHANGED <<guest, parkVars, dirty, worldVars, fresh, nextGen, now, pins, proc, pipe>>
      /\ batch' = Tail(batch)
  BY DEF PublishArm, PublishNothing, PublishRecord, worldVars, taskVars
<1>4. DirtyType' /\ WorldType' /\ ParkType' /\ ReleasesDecided'
  BY <1>1, <1>2, <1>3, Unchanged
<1>5. batch' \in Seq(Record \cup {ArmMark})
  BY <1>1, <1>3, BatchParts
<1>6. ASSUME UNCHANGED ctl
      PROVE  FlowInv' /\ ControlType'
  <2>1. NotesInv'
    BY <1>2, <1>3 DEF NotesInv
  <2>2. PassInv'
    BY <1>1, <1>2, <1>3, <1>4, <1>6 DEF PassInv, ReleasesDecided, parkVars
  <2> QED BY <1>1, <1>6, <2>1, <2>2 DEF FlowInv, ControlType
<1>7. CASE PublishArm
  <2>1. UNCHANGED <<taskVars, effects, sigVars, cancels, ctl>> /\ timerDue' \in Nat \cup {None}
    BY <1>1, <1>7, ArmedTimer DEF PublishArm
  <2>2. GuestType' /\ SignalType'
    BY <1>1, <2>1, Unchanged
  <2>3. HostType'
    BY <1>1, <1>3, <1>5, <2>1 DEF HostType
  <2>4. FlowInv' /\ ControlType'
    BY <1>1, <1>6, <2>1 DEF ControlType
  <2> QED BY <1>4, <2>2, <2>3, <2>4 DEF TInv
<1>8. CASE PublishNothing
  <2>1. UNCHANGED <<effects, sigVars, cancels, timerDue, ctl>>
    BY <1>8 DEF PublishNothing
  <2>2. waitGen' = waitGen \/ waitGen' = [waitGen EXCEPT ![Head(batch).task] = 0]
    BY <1>8 DEF PublishNothing
  <2>3. GuestType'
    BY <1>1, <1>3, <2>1, <2>2 DEF GuestType
  <2>4. HostType' /\ SignalType'
    BY <1>1, <1>3, <1>5, <2>1, Unchanged DEF HostType
  <2>5. FlowInv' /\ ControlType'
    BY <1>1, <1>6, <2>1 DEF ControlType
  <2> QED BY <1>4, <2>3, <2>4, <2>5 DEF TInv
<1>9. CASE PublishRecord
  <2>1. PICK r : r = Head(batch)
    OBVIOUS
  <2>2. r.task \in Tasks
    BY <1>1, <1>9, <2>1, BatchParts DEF PublishRecord
  <2>3. PICK how \in {"suspend", "user"} : Dequeue(r.task, how)
    BY <1>9, <2>1 DEF PublishRecord
  <2>4. SignalType' /\ effects' \in [Tasks -> {"none", "user", "suspend", "finish"}]
    BY <1>1, <2>2, <2>3, DequeueTyped
  <2>5. /\ waitGen' = [waitGen EXCEPT ![r.task] = 0] /\ UNCHANGED timerDue
        /\ cancels' = cancels \ {r.task} \/ cancels' = cancels
    BY <1>9, <2>1 DEF PublishRecord
  <2>6. GuestType' /\ HostType'
    BY <1>1, <1>3, <1>5, <2>4, <2>5 DEF GuestType, HostType
  <2>7. Moved("announce", "events")
    BY <1>1, <1>9, PassMoved DEF PublishRecord
  <2>8. dirty'.pids = {} /\ fresh' = <<>>
    BY <1>2, <1>3
  <2>9. FlowInv' /\ ControlType'
    BY <1>1, <1>4, <2>7, <2>8, AnnounceFlow, MovedTyped DEF Called
  <2> QED BY <1>4, <2>4, <2>6, <2>9 DEF TInv
<1> QED BY <1>7, <1>8, <1>9

\* The end of an entry, the deadline timer and the clock.
LEMMA RestKeeps ==
  ASSUME Base, Commit \/ TimerFires \/ Tick
  PROVE  TInv' /\ FlowInv'
<1>1. TInv /\ ctl \in Control /\ ControlType /\ GuestType /\ NotesInv /\ PassInv /\ HostType /\ ReleasesDecided
  BY DEF Base, TInv, ControlType, FlowInv, PassInv, ReleasesDecided
<1>2. UNCHANGED <<waitGen, sigVars, parkVars, dirty, nextGen, pins, proc, pipe, fresh, batch, cancels>>
  BY DEF Commit, TimerFires, Tick, worldVars, hostVars, taskVars
<1>3. SignalType' /\ DirtyType' /\ WorldType' /\ ParkType' /\ ReleasesDecided'
  BY <1>1, <1>2, Unchanged
<1>4. CASE Commit
  <2>1. ctl.pc = "publish" /\ batch = <<>> /\ ctl' = Idle /\ UNCHANGED <<now, timerDue>>
    BY <1>4 DEF Commit, worldVars
  <2>2. /\ dirty.notices = {} /\ ~dirty.children /\ ~dirty.signals /\ dirty.pids = {}
        /\ fresh = <<>> /\ completions = <<>>
    BY <2>1, PublishFacts
  <2>3. ctl' \in Control /\ ctl'.pc = "idle"
    BY <2>1 DEF Idle, Control, Points
  <2>4. GuestType'
    BY <1>1, <1>2, <1>4 DEF GuestType, Commit
  <2>5. HostType' /\ ControlType'
    BY <1>1, <1>2, <2>1, <2>3 DEF HostType, ControlType, Called
  <2>6. NotesInv'
    BY <1>2, <2>2 DEF NotesInv
  <2>7. PassInv'
    BY <1>2, <1>3, <2>1, <2>2, <2>3 DEF PassInv, ReleasesDecided, parkVars
  <2> QED BY <1>3, <2>4, <2>5, <2>6, <2>7 DEF TInv, FlowInv
<1>5. CASE TimerFires
  <2>1. ctl.pc = "idle" /\ timerDue' = None /\ UNCHANGED <<taskVars, effects, now>> /\ BeginPass("drain")
    BY <1>5 DEF TimerFires, worldVars
  <2>2. dirty.pids = {} /\ fresh = <<>>
    BY <2>1, IdleFacts
  <2>3. Moved("announce", "drain")
    BY <1>1, <2>1, PassMoved
  <2>4. FlowInv' /\ ControlType'
    BY <1>1, <1>2, <1>3, <2>2, <2>3, AnnounceFlow, MovedTyped DEF Called
  <2>5. GuestType' /\ HostType'
    BY <1>1, <1>2, <2>1, Unchanged DEF HostType
  <2> QED BY <1>3, <2>4, <2>5 DEF TInv
<1>6. CASE Tick
  <2>1. UNCHANGED <<taskVars, effects, timerDue, ctl>> /\ now' = now + 1 /\ now < MaxNow
    BY <1>6 DEF Tick, hostVars
  <2>2. GuestType' /\ HostType'
    BY <1>1, <1>2, <2>1, Unchanged, BoundAssumption DEF HostType
  <2>3. ControlType' /\ NotesInv' /\ PassInv'
    BY <1>1, <1>2, <2>1 DEF ControlType, NotesInv, PassInv, parkVars
  <2> QED BY <1>3, <2>2, <2>3 DEF TInv, FlowInv
<1> QED BY <1>4, <1>5, <1>6

\* Every step keeps the types and the flow of an entry.
LEMMA FlowStep ==
  ASSUME Base, [Next]_vars
  PROVE  TInv' /\ FlowInv'
<1>1. CASE \E t \in Tasks : SystemCall(t)
  <2>1. PICK t \in Tasks : SystemCall(t)
    BY <1>1
  <2>2. CASE FutexWait(t) \/ Sleep(t)
    BY <2>2, SleepKeeps
  <2>3. CASE Suspend(t)
    BY <2>3, SuspendKeeps
  <2>4. CASE SigTimedWait(t)
    BY <2>4, SigTimedKeeps
  <2>5. CASE WaitChild(t)
    BY <2>5, WaitChildKeeps
  <2>6. CASE \E end \in Ends : Transfer(t, end)
    BY <2>6, TransferKeeps
  <2>7. CASE \E end \in Ends : Close(t, end)
    BY <2>7, CloseKeeps
  <2>8. CASE FutexWake(t)
    BY <2>8, WakeKeeps
  <2>9. CASE \/ \E s \in Sig, p \in Pids : Kill(t, p, s)
             \/ \E s \in Sig, u \in Tasks : Tkill(t, u, s)
             \/ SigProcMask(t) \/ FinishMaskWait(t)
    BY <2>9, SignalKeeps
  <2>10. CASE ThreadExit(t)
    BY <2>10, ThreadExitKeeps
  <2>11. CASE Exit(t) \/ \E p \in Pids : Terminate(t, p)
    BY <2>11, ExitKeeps
  <2>12. CASE \E p \in Pids : Stop(t, p) \/ Continue(t, p)
    BY <2>12, StopKeeps
  <2>13. CASE \E u \in Tasks : Cancel(t, u)
    BY <2>13, CancelKeeps
  <2>14. \/ FutexWait(t) \/ Sleep(t) \/ Suspend(t) \/ SigTimedWait(t) \/ WaitChild(t)
         \/ (\E end \in Ends : Transfer(t, end)) \/ (\E end \in Ends : Close(t, end))
         \/ FutexWake(t) \/ SigProcMask(t) \/ FinishMaskWait(t) \/ ThreadExit(t) \/ Exit(t)
         \/ (\E s \in Sig, p \in Pids : Kill(t, p, s)) \/ (\E s \in Sig, u \in Tasks : Tkill(t, u, s))
         \/ (\E p \in Pids : Stop(t, p) \/ Continue(t, p)) \/ (\E p \in Pids : Terminate(t, p))
         \/ (\E u \in Tasks : Cancel(t, u))
    BY <2>1, Zenon DEF SystemCall
  <2> QED BY <2>2, <2>3, <2>4, <2>5, <2>6, <2>7, <2>8, <2>9, <2>10, <2>11, <2>12, <2>13, <2>14, Zenon
<1>2. CASE Settle
  BY <1>2, RoundKeeps, ChildWaitKeeps, SignalWaitKeeps, RetryWaitKeeps, ExpireKeeps, SweepKeeps,
     CollectKeeps DEF Settle
<1>3. CASE Host
  BY <1>3, DeliverKeeps, CancelNewKeeps, CancelTargetKeeps, FollowupKeeps, LifecycleKeeps, PublishKeeps,
     RestKeeps DEF Host
<1>4. CASE TimerFires \/ Tick
  BY <1>4, RestKeeps
<1>5. CASE UNCHANGED vars
  <2>1. TInv /\ NotesInv /\ PassInv
    BY DEF Base, FlowInv
  <2>2. UNCHANGED <<sigVars, pins, proc, pipe, dirty, parkVars, nextGen, taskVars, effects, now, hostVars, ctl, fresh, batch>>
    BY <1>5 DEF vars, worldVars, hostVars
  <2>3. SignalType' /\ WorldType' /\ DirtyType' /\ ParkType' /\ GuestType' /\ HostType'
    BY <2>1, <2>2, Unchanged
  <2>4. ControlType' /\ NotesInv' /\ PassInv'
    BY <2>1, <2>2 DEF TInv, ControlType, NotesInv, PassInv, parkVars
  <2> QED BY <2>3, <2>4 DEF TInv, FlowInv
<1> QED BY <1>1, <1>2, <1>3, <1>4, <1>5 DEF Next

-----------------------------------------------------------------------------
(* The answers: what is on its way, as a sequence and as a set.            *)

Mixed == Record \cup {ArmMark}
Apart(p, q) == \A i \in DOMAIN p, j \in DOMAIN q : p[i].gen # 0 => p[i].gen # q[j].gen

\* A sequence after another names each generation once when both do and share none.
LEMMA JoinedSingle ==
  ASSUME NEW a \in Seq(Mixed), NEW b \in Seq(Mixed)
  PROVE  /\ Range(a \o b) = Range(a) \cup Range(b)
         /\ Single(a \o b) <=> Single(a) /\ Single(b) /\ Apart(a, b)
<1>0. PICK q : q = a \o b
  OBVIOUS
<1>1. /\ q \in Seq(Mixed) /\ Len(a) \in Nat /\ Len(b) \in Nat /\ Len(q) = Len(a) + Len(b)
      /\ DOMAIN a = 1..Len(a) /\ DOMAIN b = 1..Len(b) /\ DOMAIN q = 1..(Len(a) + Len(b))
      /\ \A i \in 1..Len(a) : q[i] = a[i]
      /\ \A i \in 1..Len(b) : q[Len(a) + i] = b[i]
  BY <1>0, Joined
<1>2. \A k \in DOMAIN q : k \in DOMAIN a \/ \E j \in DOMAIN b : k = Len(a) + j
  <2> SUFFICES ASSUME NEW k \in DOMAIN q, k \notin DOMAIN a PROVE \E j \in DOMAIN b : k = Len(a) + j
    OBVIOUS
  <2>1. k - Len(a) \in DOMAIN b /\ k = Len(a) + (k - Len(a))
    BY <1>1
  <2> QED BY <2>1
<1>3. Range(q) = Range(a) \cup Range(b)
  <2>1. Range(q) \subseteq Range(a) \cup Range(b)
    BY <1>1, <1>2 DEF Range
  <2>2. Range(a) \subseteq Range(q)
    BY <1>1 DEF Range
  <2>3. Range(b) \subseteq Range(q)
    <3> SUFFICES ASSUME NEW j \in DOMAIN b PROVE b[j] \in Range(q)
      BY DEF Range
    <3>1. Len(a) + j \in DOMAIN q /\ q[Len(a) + j] = b[j]
      BY <1>1
    <3> QED BY <3>1 DEF Range
  <2> QED BY <2>1, <2>2, <2>3
<1>4. ASSUME Single(q) PROVE Single(a) /\ Single(b) /\ Apart(a, b)
  <2>1. Single(a)
    BY <1>1, <1>4 DEF Single
  <2>2. Single(b)
    <3> SUFFICES ASSUME NEW i \in DOMAIN b, NEW j \in DOMAIN b, i # j, b[i].gen # 0 PROVE b[i].gen # b[j].gen
      BY DEF Single
    <3>1. /\ Len(a) + i \in DOMAIN q /\ Len(a) + j \in DOMAIN q /\ Len(a) + i # Len(a) + j
          /\ q[Len(a) + i] = b[i] /\ q[Len(a) + j] = b[j]
      BY <1>1
    <3> QED BY <1>4, <3>1 DEF Single
  <2>3. Apart(a, b)
    <3> SUFFICES ASSUME NEW i \in DOMAIN a, NEW j \in DOMAIN b, a[i].gen # 0 PROVE a[i].gen # b[j].gen
      BY DEF Apart
    <3>1. /\ i \in DOMAIN q /\ Len(a) + j \in DOMAIN q /\ i # Len(a) + j
          /\ q[i] = a[i] /\ q[Len(a) + j] = b[j]
      BY <1>1
    <3> QED BY <1>4, <3>1 DEF Single
  <2> QED BY <2>1, <2>2, <2>3
<1>5. ASSUME Single(a), Single(b), Apart(a, b) PROVE Single(q)
  <2> SUFFICES ASSUME NEW i \in DOMAIN q, NEW j \in DOMAIN q, i # j, q[i].gen # 0, q[i].gen = q[j].gen
               PROVE  FALSE
    BY DEF Single
  <2>1. CASE i \in DOMAIN a /\ j \in DOMAIN a
    BY <1>1, <1>5, <2>1 DEF Single
  <2>2. CASE i \in DOMAIN a /\ j \notin DOMAIN a
    <3>1. PICK l \in DOMAIN b : j = Len(a) + l
      BY <1>2, <2>2
    <3> QED BY <1>1, <1>5, <2>2, <3>1 DEF Apart
  <2>3. CASE i \notin DOMAIN a /\ j \in DOMAIN a
    <3>1. PICK k \in DOMAIN b : i = Len(a) + k
      BY <1>2, <2>3
    <3>2. a[j].gen = b[k].gen /\ a[j].gen # 0
      BY <1>1, <2>3, <3>1
    <3> QED BY <1>5, <2>3, <3>2 DEF Apart
  <2>4. CASE i \notin DOMAIN a /\ j \notin DOMAIN a
    <3>1. PICK k \in DOMAIN b, l \in DOMAIN b : i = Len(a) + k /\ j = Len(a) + l
      BY <1>2, <2>4
    <3>2. k # l /\ b[k].gen = b[l].gen /\ b[k].gen # 0
      BY <1>1, <3>1
    <3> QED BY <1>5, <3>2 DEF Single
  <2> QED BY <2>1, <2>2, <2>3, <2>4
<1> QED BY <1>0, <1>3, <1>4, <1>5

\* Whether two sequences share a generation is a matter of their elements.
LEMMA ApartRange ==
  ASSUME NEW a, NEW b
  PROVE  /\ Apart(a, b) <=> \A r \in Range(a), s \in Range(b) : r.gen # 0 => r.gen # s.gen
         /\ Apart(a, b) <=> Apart(b, a)
BY DEF Apart, Range

\* The three parts of what is on its way.
LEMMA Parts ==
  ASSUME NEW a \in Seq(Mixed), NEW b \in Seq(Mixed), NEW c \in Seq(Mixed)
  PROVE  /\ a \o b \o c \in Seq(Mixed)
         /\ Range(a \o b \o c) = Range(a) \cup Range(b) \cup Range(c)
         /\ Single(a \o b \o c) <=> /\ Single(a) /\ Single(b) /\ Single(c)
                                    /\ Apart(a, b) /\ Apart(a, c) /\ Apart(b, c)
<1>1. PICK ab : ab = a \o b
  OBVIOUS
<1>2. /\ ab \in Seq(Mixed) /\ Range(ab) = Range(a) \cup Range(b)
      /\ Single(ab) <=> Single(a) /\ Single(b) /\ Apart(a, b)
  BY <1>1, JoinedSingle
<1>3. /\ ab \o c \in Seq(Mixed) /\ Range(ab \o c) = Range(ab) \cup Range(c)
      /\ Single(ab \o c) <=> Single(ab) /\ Single(c) /\ Apart(ab, c)
  BY <1>2, JoinedSingle
<1>4. Apart(ab, c) <=> Apart(a, c) /\ Apart(b, c)
  BY <1>2, ApartRange
<1> QED BY <1>1, <1>2, <1>3, <1>4

\* The parts of OnTheWay are sequences of records and arming marks.
LEMMA PartsTyped ==
  ASSUME TInv
  PROVE  completions \in Seq(Mixed) /\ fresh \in Seq(Mixed) /\ batch \in Seq(Mixed)
<1>1. completions \in Seq(Record) /\ fresh \in Seq(Record) /\ batch \in Seq(Mixed)
  BY DEF TInv, ParkType, HostType, Mixed
<1> QED BY <1>1 DEF Mixed

\* What is on its way, in its three parts.
LEMMA OnTheWayParts ==
  ASSUME TInv
  PROVE  /\ Range(OnTheWay) = Range(completions) \cup Range(fresh) \cup Range(batch)
         /\ OnTheWay \in Seq(Mixed)
         /\ Single(OnTheWay) <=> /\ Single(completions) /\ Single(fresh) /\ Single(batch)
                                 /\ Apart(completions, fresh) /\ Apart(completions, batch)
                                 /\ Apart(fresh, batch)
BY PartsTyped, Parts DEF OnTheWay

\* The records that are queued are records.
LEMMA QueuedTyped ==
  ASSUME TInv
  PROVE  Queued \subseteq Record /\ \A r \in Queued : r.task \in Tasks /\ r.gen \in Nat
<1>1. OnTheWay \in Seq(Mixed)
  BY OnTheWayParts
<1>2. \A r \in Queued : r \in Record
  BY <1>1 DEF Queued, Range, Mixed
<1> QED BY <1>2 DEF Record

-----------------------------------------------------------------------------
(* A step and the answers.                                                 *)

\* After the step nothing is on its way to `u`: it has its answer, or none to get.
Clear(u) ==
  /\ \A w \in parks' : w.task # u
  /\ \A r \in Queued' : r.task # u
  /\ effects'[u] # "none" => guest'[u] \in {"call", "blocked"}
  /\ guest'[u] = "blocked" => effects'[u] # "none"
\* The step leaves `u` in its wait, unless the kernel publishes its answer.
Kept(u) ==
  /\ waitGen'[u] = waitGen[u] /\ (effects'[u] = "none" <=> effects[u] = "none")
  /\ \/ guest'[u] = guest[u]
     \/ /\ guest'[u] = "user" /\ effects[u] = "none" /\ \A w \in parks' : w.task # u
        /\ \A r \in Queued' : r.task = u => r.flag = "published"

\* A step that adds no park keeps the answers when each thread is clear or kept.
LEMMA AnswersStep ==
  ASSUME TInv, TInv', ParksInv, AnswerInv, nextGen' = nextGen, Single(OnTheWay)', CallerInv',
         parks' \subseteq parks,
         \A u \in Tasks : Clear(u) \/ Kept(u),
         \A r \in Queued' : \/ \E c \in Queued : SameAnswer(r, c)
                            \/ \E w \in parks \ parks' :
                                 /\ r.gen = w.gen /\ r.task = w.task
                                 /\ r.flag = "published" => guest'[r.task] = "user",
         \A c \in Queued : Clear(c.task) \/ \E r \in Queued' : SameAnswer(r, c),
         \A w \in parks \ parks' : Clear(w.task) \/ \E r \in Queued' : r.task = w.task
  PROVE  ParksInv' /\ AnswerInv'
<1>1. ParkType /\ ParkType' /\ GuestType /\ GuestType'
  BY DEF TInv
<1>2. ParksInv'
  <2>1. ASSUME NEW w \in parks'
        PROVE  /\ 0 < w.gen /\ w.gen < nextGen' /\ waitGen'[w.task] = w.gen
               /\ guest'[w.task] = "blocked" /\ effects'[w.task] = "none"
    <3>1. w \in parks /\ w.task \in Tasks
      BY <1>1, <2>1, ParkFacts
    <3>2. Kept(w.task) /\ guest'[w.task] = guest[w.task]
      BY <2>1, <3>1 DEF Clear, Kept
    <3> QED BY <3>1, <3>2 DEF ParksInv, Kept
  <2>2. \A v, w \in parks' : v.gen = w.gen => v = w
    BY DEF ParksInv
  <2> QED BY <2>1, <2>2 DEF ParksInv
<1>3. ASSUME NEW r \in Queued' PROVE Answers(r)'
  <2>1. CASE \E c \in Queued : SameAnswer(r, c)
    <3>1. PICK c \in Queued : SameAnswer(r, c)
      BY <2>1
    <3>2. /\ r.task \in Tasks /\ 0 < r.gen /\ r.gen < nextGen /\ waitGen[r.task] = r.gen
          /\ effects[r.task] = "none"
          /\ guest[r.task] = IF r.flag = "published" THEN "user" ELSE "blocked"
          /\ \A w \in parks : w.gen # r.gen
      BY <3>1 DEF AnswerInv, RecordsInv, Answers, SameAnswer
    <3>3. Kept(r.task)
      BY <1>3, <3>2 DEF Clear
    <3>4. guest'[r.task] = IF r.flag = "published" THEN "user" ELSE "blocked"
      BY <1>3, <3>2, <3>3 DEF Kept
    <3> QED BY <3>2, <3>3, <3>4 DEF Answers, Kept
  <2>2. CASE \E w \in parks \ parks' : /\ r.gen = w.gen /\ r.task = w.task
                                       /\ r.flag = "published" => guest'[r.task] = "user"
    <3>1. PICK w \in parks \ parks' : /\ r.gen = w.gen /\ r.task = w.task
                                      /\ r.flag = "published" => guest'[r.task] = "user"
      BY <2>2
    <3>2. /\ r.task \in Tasks /\ 0 < r.gen /\ r.gen < nextGen /\ waitGen[r.task] = r.gen
          /\ effects[r.task] = "none" /\ guest[r.task] = "blocked"
      BY <1>1, <3>1, ParkFacts DEF ParksInv
    <3>3. Kept(r.task)
      BY <1>3, <3>2 DEF Clear
    <3>4. guest'[r.task] = IF r.flag = "published" THEN "user" ELSE "blocked"
      BY <1>3, <3>1, <3>2, <3>3 DEF Kept
    <3>5. \A v \in parks' : v.gen # r.gen
      BY <3>1 DEF ParksInv
    <3> QED BY <3>2, <3>3, <3>4, <3>5 DEF Answers, Kept
  <2> QED BY <1>3, <2>1, <2>2
<1>4. GuestsInv'
  <2> SUFFICES ASSUME NEW t \in Tasks PROVE Awaited(t)'
    BY DEF GuestsInv
  <2>1. CASE Clear(t)
    BY <2>1 DEF Clear, Awaited
  <2>2. CASE Kept(t) /\ ~Clear(t)
    <3>1. effects'[t] # "none" => guest'[t] \in {"call", "blocked"}
      BY <2>2 DEF Kept, AnswerInv, GuestsInv, Awaited
    <3>2. ASSUME guest'[t] = "blocked", effects'[t] = "none"
          PROVE  (\E w \in parks' : w.task = t) \/ \E r \in Queued' : r.task = t /\ r.flag # "published"
      <4>1. guest[t] = "blocked" /\ effects[t] = "none"
        BY <2>2, <3>2 DEF Kept
      <4>2. \A r \in Queued' : r.task = t => r.flag # "published"
        BY <1>3, <3>2 DEF Answers
      <4>3. CASE \E w \in parks : w.task = t
        BY <2>2, <4>2, <4>3
      <4>4. CASE \E c \in Queued : c.task = t /\ c.flag # "published"
        BY <2>2, <4>2, <4>4 DEF SameAnswer
      <4> QED BY <4>1, <4>3, <4>4 DEF AnswerInv, GuestsInv, Awaited
    <3> QED BY <3>1, <3>2 DEF Awaited
  <2> QED BY <2>1, <2>2
<1> QED BY <1>2, <1>3, <1>4 DEF AnswerInv, RecordsInv

\* An arming mark is not a record.
LEMMA MarkIsNoRecord == ArmMark \notin Record /\ ArmMark.gen = 0 /\ ArmMark.task = NoTask
BY TaskAssumption DEF ArmMark, Record, NoTask

\* What decisions add to the queue.
LEMMA DecisionQueue ==
  ASSUME TInv, TInv', ParksInv, RecordsInv, NEW ws, NEW done, Decision(ws, done), UNCHANGED <<fresh, batch>>
  PROVE  /\ Single(OnTheWay)' /\ Queued' = Queued \cup Range(done)
         /\ \A r \in Range(done) : \E w \in parks \ parks' : r.gen = w.gen /\ r.task = w.task
         /\ \A w \in parks \ parks' : \E r \in Range(done) : r.task = w.task
<1>1. /\ ws \in Seq(parks) /\ done \in Seq(Record) /\ Len(done) = Len(ws) /\ Len(ws) \in Nat
      /\ DOMAIN ws = 1..Len(ws) /\ DOMAIN done = 1..Len(ws)
      /\ \A i, j \in 1..Len(ws) : i # j => ws[i] # ws[j]
      /\ \A i \in 1..Len(ws) : done[i].gen = ws[i].gen /\ done[i].task = ws[i].task
  BY DEF Decision, Picks
<1>2. parks' = parks \ Range(ws) /\ completions' = completions \o done
  BY DEF Decision
<1>3. completions \in Seq(Mixed) /\ fresh \in Seq(Mixed) /\ batch \in Seq(Mixed) /\ done \in Seq(Mixed)
  BY <1>1, PartsTyped DEF Mixed
<1>4. \A i \in 1..Len(ws) : ws[i] \in parks
  BY <1>1
<1>5. \A r \in Range(done) : \E w \in parks \ parks' : r.gen = w.gen /\ r.task = w.task
  <2> SUFFICES ASSUME NEW i \in 1..Len(ws)
               PROVE  \E w \in parks \ parks' : done[i].gen = w.gen /\ done[i].task = w.task
    BY <1>1 DEF Range
  <2>1. ws[i] \in parks /\ ws[i] \in Range(ws)
    BY <1>1, <1>4 DEF Range
  <2>2. ws[i] \in parks \ parks'
    BY <1>2, <2>1
  <2> QED BY <1>1, <2>2
<1>6. \A w \in parks \ parks' : \E r \in Range(done) : r.task = w.task
  BY <1>1, <1>2 DEF Range
<1>7. Single(done)
  BY <1>1, <1>4 DEF Single, ParksInv
<1>8. \A q \in {completions, fresh, batch} : Apart(q, done)
  <2>1. \A r \in Range(done) : \E w \in parks : r.gen = w.gen
    BY <1>5
  <2>2. Range(OnTheWay) = Range(completions) \cup Range(fresh) \cup Range(batch)
    BY OnTheWayParts
  <2>3. \A r \in Range(OnTheWay) : r.gen # 0 => \A w \in parks : w.gen # r.gen
    BY MarkIsNoRecord DEF RecordsInv, Answers, Queued
  <2> QED BY <2>1, <2>2, <2>3, ApartRange
<1>9. /\ Single(completions) /\ Single(fresh) /\ Single(batch)
      /\ Apart(completions, fresh) /\ Apart(completions, batch) /\ Apart(fresh, batch)
  BY OnTheWayParts DEF RecordsInv
<1>10. /\ Range(completions') = Range(completions) \cup Range(done) /\ Single(completions')
       /\ Apart(completions', fresh) /\ Apart(completions', batch)
  <2>1. PICK a : a = completions \o done
    OBVIOUS
  <2>2. Range(a) = Range(completions) \cup Range(done) /\ Single(a)
    BY <1>3, <1>7, <1>8, <1>9, <2>1, JoinedSingle
  <2>3. Apart(done, fresh) /\ Apart(done, batch)
    BY <1>8, ApartRange
  <2>4. Apart(a, fresh) /\ Apart(a, batch)
    BY <1>9, <2>2, <2>3, ApartRange
  <2> QED BY <1>2, <2>1, <2>2, <2>4
<1>11. completions' \in Seq(Mixed)
  <2>1. completions' \in Seq(Record)
    BY DEF TInv, ParkType
  <2> QED BY <2>1 DEF Mixed
<1>12. PICK a : a = completions'
  OBVIOUS
<1>13. OnTheWay' = a \o fresh \o batch
  BY <1>12 DEF OnTheWay
<1>14. Single(a \o fresh \o batch) /\ Range(a \o fresh \o batch) = Range(a) \cup Range(fresh) \cup Range(batch)
  BY <1>3, <1>9, <1>10, <1>11, <1>12, Parts
<1>15. Single(OnTheWay)' /\ Range(OnTheWay') = Range(OnTheWay) \cup Range(done)
  BY <1>10, <1>12, <1>13, <1>14, OnTheWayParts DEF Single
<1>16. Queued' = Queued \cup Range(done)
  <2>1. \A r \in Range(done) : r # ArmMark
    BY <1>1, MarkIsNoRecord DEF Range
  <2>2. Queued' = {r \in Range(OnTheWay') : r # ArmMark}
    BY DEF Queued
  <2> QED BY <1>15, <2>1, <2>2 DEF Queued
<1> QED BY <1>5, <1>6, <1>15, <1>16

\* The step leaves `u` as it was.
Stays(u) ==
  /\ waitGen'[u] = waitGen[u] /\ guest'[u] = guest[u] /\ (effects'[u] = "none" <=> effects[u] = "none")
\* Nothing was on its way to `u`, and nothing is.
Quiet(u) ==
  /\ (\A w \in parks : w.task # u) /\ (\A r \in Queued : r.task # u)
  /\ effects'[u] # "none" => guest'[u] \in {"call", "blocked"}
  /\ guest'[u] = "blocked" => effects'[u] # "none"

\* A step that decides some parks, or none.
LEMMA SettleAnswers ==
  ASSUME TInv, TInv', ParksInv, AnswerInv, UNCHANGED <<parks, completions>> \/ Decided,
         UNCHANGED <<fresh, batch, nextGen>>, CallerInv', \A u \in Tasks : Stays(u) \/ Quiet(u)
  PROVE  ParksInv' /\ AnswerInv'
<1>1. CASE UNCHANGED <<parks, completions>>
  <2>1. OnTheWay' = OnTheWay /\ parks' = parks
    BY <1>1 DEF OnTheWay
  <2>2. Queued' = Queued /\ Single(OnTheWay)'
    BY <2>1 DEF Queued, AnswerInv, RecordsInv, Single
  <2>3. \A u \in Tasks : Clear(u) \/ Kept(u)
    BY <2>1, <2>2 DEF Stays, Quiet, Clear, Kept
  <2>4. \A r \in Queued : SameAnswer(r, r)
    BY DEF SameAnswer
  <2> QED BY <2>1, <2>2, <2>3, <2>4, AnswersStep
<1>2. CASE Decided
  <2>1. PICK ws, done : Decision(ws, done) /\ Silent(done)
    BY <1>2 DEF Decided
  <2>2. /\ Single(OnTheWay)' /\ Queued' = Queued \cup Range(done)
        /\ \A r \in Range(done) : \E w \in parks \ parks' : r.gen = w.gen /\ r.task = w.task
        /\ \A w \in parks \ parks' : \E r \in Range(done) : r.task = w.task
    BY <2>1, DecisionQueue DEF AnswerInv
  <2>3. \A r \in Range(done) : r.flag # "published"
    BY <2>1 DEF Decision, Silent, Range
  <2>4. parks' \subseteq parks
    BY <2>1 DEF Decision
  <2>5. \A u \in Tasks : Clear(u) \/ Kept(u)
    BY <2>2, <2>4 DEF Stays, Quiet, Clear, Kept
  <2>6. \A r \in Queued : SameAnswer(r, r)
    BY DEF SameAnswer
  <2>7. \A r \in Queued' : \/ \E c \in Queued : SameAnswer(r, c)
                           \/ \E w \in parks \ parks' :
                                /\ r.gen = w.gen /\ r.task = w.task
                                /\ r.flag = "published" => guest'[r.task] = "user"
    BY <2>2, <2>3, <2>6
  <2>8. \A c \in Queued : Clear(c.task) \/ \E r \in Queued' : SameAnswer(r, c)
    BY <2>2, <2>6
  <2>9. \A w \in parks \ parks' : Clear(w.task) \/ \E r \in Queued' : r.task = w.task
    BY <2>2
  <2> QED BY <2>2, <2>4, <2>5, <2>7, <2>8, <2>9, AnswersStep
<1> QED BY <1>1, <1>2

\* A transfer that is tried again.
LEMMA RetryAnswers ==
  ASSUME Base, TInv', AnswerInv, SettleRetryWait
  PROVE  ParksInv' /\ AnswerInv'
<1>1. TInv /\ ParksInv /\ UNCHANGED <<waitGen, effects, fresh, batch, nextGen>> /\ ctl.pc = "retrying"
  BY DEF Base, SettleRetryWait
<1>2. CallerInv'
  <2>1. ctl' = [ctl EXCEPT !.at = Eldest(RetryWaiters).gen] /\ ctl \in Control
    BY <1>1 DEF SettleRetryWait, TInv, ControlType
  <2>2. ctl'.pc = "retrying"
    BY <1>1, <2>1 DEF Control
  <2> QED BY <2>2 DEF CallerInv
<1>3. CASE UNCHANGED <<parkVars, guest>>
  BY <1>1, <1>2, <1>3, SettleAnswers DEF parkVars, Stays
<1>4. CASE TransferDecided
  <2>0. PICK w \in parks :
          \E done : /\ Decision(<<w>>, done) /\ Len(done) = 1
                    /\ \/ /\ done[1].flag = "published"
                          /\ guest' = [guest EXCEPT ![w.task] = "user"]
                       \/ done[1].flag = "none" /\ guest' = guest
    BY <1>4 DEF TransferDecided
  <2>1. PICK done :
          /\ Decision(<<w>>, done) /\ Len(done) = 1
          /\ \/ done[1].flag = "published" /\ guest' = [guest EXCEPT ![w.task] = "user"]
             \/ done[1].flag = "none" /\ guest' = guest
    BY <2>0
  <2>2. CASE done[1].flag = "none" /\ guest' = guest
    <3>1. Decided
      BY <2>1, <2>2 DEF Decided, Silent
    <3> QED BY <1>1, <1>2, <2>2, <3>1, SettleAnswers DEF Stays
  <2>3. CASE done[1].flag = "published" /\ guest' = [guest EXCEPT ![w.task] = "user"]
    <3>1. /\ Single(OnTheWay)' /\ Queued' = Queued \cup Range(done)
          /\ \A r \in Range(done) : \E v \in parks \ parks' : r.gen = v.gen /\ r.task = v.task
          /\ \A v \in parks \ parks' : \E r \in Range(done) : r.task = v.task
      BY <1>1, <2>1, DecisionQueue DEF AnswerInv
    <3>2. parks' = parks \ {w} /\ w.task \in Tasks /\ done[1].task = w.task /\ DOMAIN done = 1..1
      <4>1. PICK ws : ws = <<w>>
        OBVIOUS
      <4>2. Len(ws) = 1 /\ ws[1] = w /\ Range(ws) = {w}
        BY <4>1, OnePick
      <4> QED BY <1>1, <2>1, <4>1, <4>2, ParkFacts DEF Decision, TInv
    <3>3. \A r \in Range(done) : r.flag = "published" /\ r.task = w.task
      BY <2>3, <3>2 DEF Range
    <3>4. /\ guest[w.task] = "blocked" /\ effects[w.task] = "none" /\ waitGen[w.task] = w.gen
          /\ \A v \in parks : v.task = w.task => v.gen = w.gen
      BY DEF Base, ParksInv
    <3>5. \A v \in parks' : v.task # w.task
      BY <1>1, <3>2, <3>4 DEF ParksInv
    <3>6. \A r \in Queued : r.task # w.task
      BY <3>4 DEF AnswerInv, RecordsInv, Answers
    <3>7. guest'[w.task] = "user" /\ \A u \in Tasks : u # w.task => guest'[u] = guest[u]
      BY <1>1, <2>3, <3>2 DEF TInv, GuestType
    <3>8. \A u \in Tasks : Clear(u) \/ Kept(u)
      BY <1>1, <3>1, <3>3, <3>4, <3>5, <3>6, <3>7 DEF Kept
    <3>9. \A r \in Queued : SameAnswer(r, r)
      BY DEF SameAnswer
    <3>10. \A r \in Queued' : \/ \E c \in Queued : SameAnswer(r, c)
                              \/ \E v \in parks \ parks' :
                                   /\ r.gen = v.gen /\ r.task = v.task
                                   /\ r.flag = "published" => guest'[r.task] = "user"
      BY <3>1, <3>3, <3>7, <3>9
    <3>11. \A c \in Queued : Clear(c.task) \/ \E r \in Queued' : SameAnswer(r, c)
      BY <3>1, <3>9
    <3>12. \A v \in parks \ parks' : Clear(v.task) \/ \E r \in Queued' : r.task = v.task
      BY <3>1
    <3> QED BY <1>1, <1>2, <3>1, <3>2, <3>8, <3>10, <3>11, <3>12, AnswersStep
  <2> QED BY <2>1, <2>2, <2>3
<1> QED BY <1>3, <1>4, RetryWaitKeeps

\* Nothing is on its way in an empty sequence, nor in an arming mark.
LEMMA EmptyParts ==
  /\ <<>> \in Seq(Mixed) /\ Range(<<>>) = {} /\ Single(<<>>) /\ \A q : Apart(<<>>, q) /\ Apart(q, <<>>)
  /\ <<ArmMark>> \in Seq(Mixed) /\ Range(<<ArmMark>>) = {ArmMark} /\ Single(<<ArmMark>>)
  /\ \A q : Apart(<<ArmMark>>, q) /\ Apart(q, <<ArmMark>>)
<1>1. <<>> \in Seq(Mixed) /\ Range(<<>>) = {} /\ Single(<<>>) /\ \A q : Apart(<<>>, q) /\ Apart(q, <<>>)
  BY DEF Range, Single, Apart
<1>2. PICK m : m = ArmMark
  OBVIOUS
<1>3. PICK q : q = <<m>>
  OBVIOUS
<1>4. q \in Seq(Mixed) /\ DOMAIN q = {1} /\ q[1] = m /\ m.gen = 0
  BY <1>2, <1>3, MarkIsNoRecord DEF Mixed
<1>5. Range(q) = {m} /\ Single(q)
  BY <1>4 DEF Range, Single
<1>6. \A p : Apart(q, p) /\ Apart(p, q)
  BY <1>4, <1>5, ApartRange
<1> QED BY <1>1, <1>2, <1>3, <1>4, <1>5, <1>6

\* The records that are collected keep their answers apart.
LEMMA CollectQueue ==
  ASSUME TInv, TInv', RecordsInv, NEW out, NEW rest, Collected(out, rest)
  PROVE  /\ Single(OnTheWay)'
         /\ \A r \in Queued' : \E c \in Queued : SameAnswer(r, c)
         /\ \A c \in Queued : \E r \in Queued' : SameAnswer(r, c)
<1>1. /\ out \in Seq(Record) /\ rest \in Seq(Record) /\ Len(completions) = Len(out) + Len(rest)
      /\ Len(out) \in Nat /\ Len(rest) \in Nat /\ DOMAIN out = 1..Len(out) /\ DOMAIN rest = 1..Len(rest)
      /\ \A i \in 1..Len(out) : SameAnswer(out[i], completions[i])
      /\ \A i \in 1..Len(rest) : rest[i] = completions[Len(out) + i]
  BY DEF Collected
<1>2. /\ completions \in Seq(Mixed) /\ fresh \in Seq(Mixed) /\ batch \in Seq(Mixed)
      /\ out \in Seq(Mixed) /\ rest \in Seq(Mixed) /\ DOMAIN completions = 1..Len(completions)
  <2>1. completions \in Seq(Mixed) /\ fresh \in Seq(Mixed) /\ batch \in Seq(Mixed)
    BY PartsTyped
  <2> QED BY <1>1, <2>1 DEF Mixed
<1>3. /\ Single(completions) /\ Single(fresh) /\ Single(batch)
      /\ Apart(completions, fresh) /\ Apart(completions, batch) /\ Apart(fresh, batch)
      /\ Range(OnTheWay) = Range(completions) \cup Range(fresh) \cup Range(batch)
  BY OnTheWayParts DEF RecordsInv
<1>4. \A i \in DOMAIN out : i \in DOMAIN completions /\ SameAnswer(out[i], completions[i])
  BY <1>1, <1>2
<1>5. \A i \in DOMAIN rest : /\ Len(out) + i \in DOMAIN completions /\ Len(out) + i \notin DOMAIN out
                             /\ rest[i] = completions[Len(out) + i]
  BY <1>1, <1>2
<1>6. Single(out)
  BY <1>3, <1>4 DEF Single, SameAnswer
<1>7. Single(rest)
  <2> SUFFICES ASSUME NEW i \in DOMAIN rest, NEW j \in DOMAIN rest, i # j, rest[i].gen # 0
               PROVE  rest[i].gen # rest[j].gen
    BY DEF Single
  <2>1. Len(out) + i # Len(out) + j
    BY <1>1
  <2> QED BY <1>3, <1>5, <2>1 DEF Single
<1>8. Apart(out, rest)
  <2> SUFFICES ASSUME NEW i \in DOMAIN out, NEW j \in DOMAIN rest, out[i].gen # 0
               PROVE  out[i].gen # rest[j].gen
    BY DEF Apart
  <2>1. i # Len(out) + j
    BY <1>5
  <2> QED BY <1>3, <1>4, <1>5, <2>1 DEF Single, SameAnswer
<1>9. /\ \A r \in Range(out) : \E c \in Range(completions) : SameAnswer(r, c)
      /\ Range(rest) \subseteq Range(completions)
  BY <1>4, <1>5 DEF Range
<1>10. \A c \in Range(completions) : c \in Range(rest) \/ \E r \in Range(out) : SameAnswer(r, c)
  <2> SUFFICES ASSUME NEW i \in DOMAIN completions
               PROVE  completions[i] \in Range(rest) \/ \E r \in Range(out) : SameAnswer(r, completions[i])
    BY DEF Range
  <2>1. CASE i \in DOMAIN out
    BY <1>4, <2>1 DEF Range
  <2>2. CASE i \notin DOMAIN out
    <3>1. i - Len(out) \in DOMAIN rest /\ Len(out) + (i - Len(out)) = i
      BY <1>1, <1>2, <2>2
    <3>2. rest[i - Len(out)] = completions[i]
      BY <1>5, <3>1
    <3> QED BY <3>1, <3>2 DEF Range
  <2> QED BY <2>1, <2>2
<1>11. \A q \in {fresh, batch} : Apart(out, q) /\ Apart(rest, q)
  BY <1>3, <1>9, ApartRange DEF SameAnswer
<1>12. PICK fo : fo = fresh \o out
  OBVIOUS
<1>13. /\ fo \in Seq(Mixed) /\ Range(fo) = Range(fresh) \cup Range(out) /\ Single(fo)
  BY <1>2, <1>3, <1>6, <1>11, <1>12, ApartRange, JoinedSingle, Joined
<1>14. Apart(fo, batch) /\ Apart(rest, fo)
  BY <1>3, <1>8, <1>11, <1>13, ApartRange
<1>15. /\ Single(OnTheWay)'
       /\ \/ Range(OnTheWay') = Range(rest) \cup Range(fo) \cup Range(batch)
          \/ Range(OnTheWay') = Range(rest) \cup Range(fo) \cup Range(batch) \cup {ArmMark}
  <2>1. CASE fresh' = fresh \o out /\ batch' = batch
    <3>1. OnTheWay' = rest \o fo \o batch
      BY <1>12, <2>1 DEF OnTheWay, Collected
    <3>2. Single(rest \o fo \o batch) /\ Range(rest \o fo \o batch) = Range(rest) \cup Range(fo) \cup Range(batch)
      BY <1>2, <1>3, <1>7, <1>11, <1>13, <1>14, Parts
    <3> QED BY <3>1, <3>2 DEF Single
  <2>2. CASE rest = <<>> /\ fresh' = <<>> /\ batch' = (fresh \o out) \o <<ArmMark>> \o batch
    <3>1. PICK e, m, b : e = <<>> /\ m = <<ArmMark>> /\ b = fo \o m \o batch
      OBVIOUS
    <3>2. /\ e \in Seq(Mixed) /\ Range(e) = {} /\ Single(e) /\ \A q : Apart(e, q) /\ Apart(q, e)
          /\ m \in Seq(Mixed) /\ Range(m) = {ArmMark} /\ Single(m) /\ \A q : Apart(m, q) /\ Apart(q, m)
      BY <3>1, EmptyParts
    <3>3. b \in Seq(Mixed) /\ Single(b) /\ Range(b) = Range(fo) \cup Range(m) \cup Range(batch)
      <4>1. Apart(fo, m) /\ Apart(m, batch) /\ Single(m) /\ m \in Seq(Mixed)
        BY <3>2
      <4>2. /\ fo \in Seq(Mixed) /\ batch \in Seq(Mixed) /\ Single(fo) /\ Single(batch)
            /\ Apart(fo, batch)
        BY <1>2, <1>3, <1>13, <1>14
      <4>3. /\ fo \o m \o batch \in Seq(Mixed)
            /\ Range(fo \o m \o batch) = Range(fo) \cup Range(m) \cup Range(batch)
            /\ Single(fo \o m \o batch)
        BY <4>1, <4>2, Parts
      <4> QED BY <3>1, <4>3
    <3>4. OnTheWay' = e \o e \o b
      BY <1>12, <2>2, <3>1 DEF OnTheWay, Collected
    <3>5. Single(e \o e \o b) /\ Range(e \o e \o b) = Range(e) \cup Range(e) \cup Range(b)
      BY <3>2, <3>3, Parts
    <3>6. Range(rest) = {}
      BY <2>2, <3>1, <3>2
    <3> QED BY <3>2, <3>3, <3>4, <3>5, <3>6 DEF Single
  <2> QED BY <2>1, <2>2 DEF Collected
<1>16. /\ \A r \in Range(fresh) \cup Range(rest) \cup Range(batch) : SameAnswer(r, r)
       /\ \A r \in Range(completions) \cup Range(out) : r # ArmMark
  <2>1. Range(completions) \subseteq Record /\ Range(out) \subseteq Record
    BY <1>1 DEF TInv, ParkType, Range
  <2> QED BY <2>1, MarkIsNoRecord DEF SameAnswer
<1>17. Queued' = {r \in Range(rest) \cup Range(fo) \cup Range(batch) : r # ArmMark}
  BY <1>15 DEF Queued
<1>18. Queued = {r \in Range(completions) \cup Range(fresh) \cup Range(batch) : r # ArmMark}
  BY <1>3 DEF Queued
<1>19. ASSUME NEW r \in Queued' PROVE \E c \in Queued : SameAnswer(r, c)
  <2>1. r \in Range(out) \/ r \in Range(rest) \cup Range(fresh) \cup Range(batch)
    BY <1>13, <1>17, <1>19
  <2> QED BY <1>9, <1>16, <1>17, <1>18, <1>19, <2>1
<1>20. ASSUME NEW c \in Queued PROVE \E r \in Queued' : SameAnswer(r, c)
  <2>1. c \in Range(completions) \/ c \in Range(fresh) \cup Range(batch)
    BY <1>18, <1>20
  <2> QED BY <1>10, <1>13, <1>16, <1>17, <1>18, <1>20, <2>1
<1> QED BY <1>15, <1>19, <1>20

\* The collection of the records keeps the answers.
LEMMA CollectAnswers ==
  ASSUME Base, TInv', AnswerInv, CollectRecords
  PROVE  ParksInv' /\ AnswerInv'
<1>1. TInv /\ ParksInv /\ UNCHANGED <<guest, waitGen, effects, parks, nextGen>>
  BY DEF Base, CollectRecords, taskVars
<1>2. PICK out, rest : Collected(out, rest)
  BY CollectPage
<1>3. /\ Single(OnTheWay)'
      /\ \A r \in Queued' : \E c \in Queued : SameAnswer(r, c)
      /\ \A c \in Queued : \E r \in Queued' : SameAnswer(r, c)
  BY <1>1, <1>2, CollectQueue DEF AnswerInv
<1>4. CallerInv'
  BY <1>2 DEF CallerInv, Collected
<1>5. \A u \in Tasks : Clear(u) \/ Kept(u)
  BY <1>1 DEF Kept
<1> QED BY <1>1, <1>3, <1>4, <1>5, AnswersStep

\* A sequence is its head and its tail.
LEMMA HeadTail ==
  ASSUME NEW q \in Seq(Mixed), q # <<>>
  PROVE  /\ Range(q) = {Head(q)} \cup Range(Tail(q))
         /\ Single(q) => /\ Single(Tail(q))
                         /\ \A r \in Range(Tail(q)) : Head(q).gen # 0 => r.gen # Head(q).gen
<1>1. PICK h, t : h = Head(q) /\ t = Tail(q)
  OBVIOUS
<1>2. /\ Len(q) \in Nat \ {0} /\ DOMAIN q = 1..Len(q) /\ h = q[1] /\ t \in Seq(Mixed) /\ Len(t) = Len(q) - 1
      /\ DOMAIN t = 1..(Len(q) - 1) /\ \A i \in 1..(Len(q) - 1) : t[i] = q[i + 1]
  BY <1>1
<1>3. \A i \in DOMAIN t : i + 1 \in DOMAIN q /\ t[i] = q[i + 1] /\ i + 1 # 1
  BY <1>2
<1>4. \A k \in DOMAIN q : k = 1 \/ \E i \in DOMAIN t : k = i + 1
  <2> SUFFICES ASSUME NEW k \in DOMAIN q, k # 1 PROVE \E i \in DOMAIN t : k = i + 1
    OBVIOUS
  <2>1. k - 1 \in DOMAIN t /\ k = (k - 1) + 1
    BY <1>2
  <2> QED BY <2>1
<1>5. Range(q) = {h} \cup Range(t)
  <2>1. Range(q) \subseteq {h} \cup Range(t)
    BY <1>2, <1>3, <1>4 DEF Range
  <2>2. h \in Range(q) /\ Range(t) \subseteq Range(q)
    BY <1>2, <1>3 DEF Range
  <2> QED BY <2>1, <2>2
<1>6. ASSUME Single(q) PROVE Single(t) /\ \A r \in Range(t) : h.gen # 0 => r.gen # h.gen
  <2>1. Single(t)
    <3> SUFFICES ASSUME NEW i \in DOMAIN t, NEW j \in DOMAIN t, i # j, t[i].gen # 0 PROVE t[i].gen # t[j].gen
      BY DEF Single
    <3>1. i + 1 # j + 1
      BY <1>2
    <3> QED BY <1>3, <1>6, <3>1 DEF Single
  <2>2. \A i \in DOMAIN t : h.gen # 0 => t[i].gen # h.gen
    <3> SUFFICES ASSUME NEW i \in DOMAIN t, h.gen # 0 PROVE t[i].gen # h.gen
      OBVIOUS
    <3>1. 1 \in DOMAIN q /\ i + 1 \in DOMAIN q /\ i + 1 # 1 /\ t[i] = q[i + 1]
      BY <1>2, <1>3
    <3> QED BY <1>2, <1>6, <3>1 DEF Single
  <2> QED BY <2>1, <2>2 DEF Range
<1> QED BY <1>1, <1>5, <1>6

\* The first of what is to be published is taken away.
LEMMA PublishQueue ==
  ASSUME TInv, TInv', RecordsInv, completions = <<>>, fresh = <<>>, UNCHANGED <<completions, fresh>>,
         batch # <<>>, batch' = Tail(batch)
  PROVE  /\ Single(OnTheWay)' /\ Queued' \subseteq Queued /\ Queued \subseteq Queued' \cup {Head(batch)}
         /\ Head(batch) # ArmMark =>
              Head(batch) \in Queued /\ \A r \in Queued' : r.gen # Head(batch).gen
         /\ Head(batch) = ArmMark => Queued' = Queued
<1>1. PICK e, b : e = <<>> /\ b = Tail(batch)
  OBVIOUS
<1>2. /\ e \in Seq(Mixed) /\ Range(e) = {} /\ Single(e) /\ \A q : Apart(e, q) /\ Apart(q, e)
  BY <1>1, EmptyParts
<1>3. batch \in Seq(Mixed) /\ b \in Seq(Mixed)
  BY <1>1, PartsTyped
<1>4. OnTheWay = e \o e \o batch /\ OnTheWay' = e \o e \o b
  BY <1>1 DEF OnTheWay
<1>5. \A q \in Seq(Mixed) : Range(e \o e \o q) = Range(q) /\ (Single(e \o e \o q) <=> Single(q))
  <2> SUFFICES ASSUME NEW q \in Seq(Mixed)
               PROVE  Range(e \o e \o q) = Range(q) /\ (Single(e \o e \o q) <=> Single(q))
    OBVIOUS
  <2>1. <<>> \o <<>> = <<>> /\ <<>> \o q = q
    OBVIOUS
  <2>2. e \o e = e /\ e \o q = q
    BY <1>1, <2>1, Zenon
  <2> QED BY <2>2, Zenon
<1>6. /\ Range(OnTheWay) = Range(batch) /\ Single(batch) /\ Range(OnTheWay') = Range(b)
      /\ Single(b) => Single(OnTheWay)'
  BY <1>3, <1>4, <1>5 DEF RecordsInv, Single
<1>7. /\ Range(batch) = {Head(batch)} \cup Range(b) /\ Single(b)
      /\ \A r \in Range(b) : Head(batch).gen # 0 => r.gen # Head(batch).gen
  BY <1>1, <1>3, <1>6, HeadTail
<1>8. Queued' = {r \in Range(b) : r # ArmMark} /\ Queued = {r \in Range(batch) : r # ArmMark}
  BY <1>6 DEF Queued
<1>9. Head(batch) # ArmMark => Head(batch) \in Queued
  BY <1>7, <1>8
<1>10. Head(batch) # ArmMark => Head(batch).gen # 0
  <2>1. \A r \in Queued : r.gen # 0
    BY DEF RecordsInv, Answers
  <2> QED BY <1>9, <2>1
<1> QED BY <1>6, <1>7, <1>8, <1>9, <1>10

\* Publication keeps the answers: a record on its way is always the one its
\* channel waits for, and the thread it answers has no other.
LEMMA PublishAnswers ==
  ASSUME Base, TInv', AnswerInv, PublishArm \/ PublishNothing \/ PublishRecord
  PROVE  ParksInv' /\ AnswerInv'
<1>1. /\ TInv /\ ParksInv /\ ctl.pc = "publish" /\ batch # <<>> /\ batch' = Tail(batch) /\ GuestType /\ SignalType
      /\ UNCHANGED <<guest, parks, completions, fresh, nextGen>>
  BY DEF Base, TInv, PublishArm, PublishNothing, PublishRecord, taskVars, parkVars, worldVars
<1>2. completions = <<>> /\ fresh = <<>>
  BY <1>1, PublishFacts
<1>3. PICK r : r = Head(batch)
  OBVIOUS
<1>4. /\ Single(OnTheWay)' /\ Queued' \subseteq Queued /\ Queued \subseteq Queued' \cup {r}
      /\ r # ArmMark => r \in Queued /\ \A s \in Queued' : s.gen # r.gen
      /\ r = ArmMark => Queued' = Queued
  BY <1>1, <1>2, <1>3, PublishQueue DEF AnswerInv
<1>5. CallerInv'
  <2>1. CASE UNCHANGED ctl
    BY <1>1, <2>1 DEF CallerInv
  <2>2. CASE BeginPass("events")
    <3>1. ctl'.pc = "announce"
      BY <1>1, <2>2, PassMoved DEF Moved, TInv, ControlType
    <3> QED BY <3>1 DEF CallerInv
  <2> QED BY <2>1, <2>2 DEF PublishArm, PublishNothing, PublishRecord
<1>6. \A s \in Queued : SameAnswer(s, s)
  BY DEF SameAnswer
<1>7. ASSUME \A u \in Tasks : Clear(u) \/ Kept(u),
             r # ArmMark => Clear(r.task)
      PROVE  ParksInv' /\ AnswerInv'
  <2>1. \A s \in Queued' : \E c \in Queued : SameAnswer(s, c)
    BY <1>4, <1>6
  <2>2. \A c \in Queued : Clear(c.task) \/ \E s \in Queued' : SameAnswer(s, c)
    BY <1>4, <1>6, <1>7
  <2> QED BY <1>1, <1>4, <1>5, <1>7, <2>1, <2>2, AnswersStep
<1>8. CASE PublishArm
  <2>1. UNCHANGED <<waitGen, effects>> /\ r = ArmMark
    BY <1>3, <1>8 DEF PublishArm, taskVars
  <2> QED BY <1>1, <1>7, <2>1 DEF Kept
<1>9. CASE PublishNothing \/ PublishRecord
  <2>1. r # ArmMark /\ r \in Queued /\ Answers(r)
    BY <1>3, <1>4, <1>9 DEF PublishNothing, PublishRecord, AnswerInv, RecordsInv
  <2>2. r.task \in Tasks /\ waitGen[r.task] = r.gen /\ effects[r.task] = "none"
    BY <2>1 DEF Answers
  <2>3. Current(r)
    BY <2>1 DEF Answers, Current, Live
  <2>4. \A w \in parks' : w.task # r.task
    BY <1>1, <2>1, <2>2 DEF ParksInv, Answers
  <2>5. \A s \in Queued' : s.task # r.task
    BY <1>4, <2>1, <2>2 DEF AnswerInv, RecordsInv, Answers
  <2>6. waitGen' = [waitGen EXCEPT ![r.task] = 0]
    BY <1>3, <1>9, <2>3 DEF PublishNothing, PublishRecord
  <2>7. \A u \in Tasks : u # r.task => waitGen'[u] = waitGen[u]
    BY <1>1, <2>6 DEF GuestType
  <2>8. CASE PublishNothing
    <3>1. r.flag = "published" /\ UNCHANGED effects
      BY <1>3, <2>3, <2>8 DEF PublishNothing
    <3>2. Clear(r.task)
      BY <1>1, <2>1, <2>2, <2>4, <2>5, <3>1 DEF Clear, Answers
    <3>3. \A u \in Tasks : u # r.task => Kept(u)
      BY <1>1, <2>7, <3>1 DEF Kept
    <3> QED BY <1>7, <3>2, <3>3
  <2>9. CASE PublishRecord
    <3>1. PICK how \in {"suspend", "user"} : Dequeue(r.task, how)
      BY <1>3, <2>9 DEF PublishRecord
    <3>2. effects'[r.task] # "none" /\ \A u \in Tasks : u # r.task => effects'[u] = effects[u]
      BY <1>1, <2>2, <3>1, DequeueTyped
    <3>3. r.flag # "published"
      BY <1>3, <2>9 DEF PublishRecord
    <3>4. Clear(r.task)
      BY <1>1, <2>1, <2>4, <2>5, <3>2, <3>3 DEF Clear, Answers
    <3>5. \A u \in Tasks : u # r.task => Kept(u)
      BY <1>1, <2>7, <3>2 DEF Kept
    <3> QED BY <1>7, <3>4, <3>5
  <2> QED BY <1>9, <2>8, <2>9
<1> QED BY <1>8, <1>9

\* How a call leaves its caller: answered at once, or parked.
Answered(t) == \E pc \in {"return", "returnsuspend"} : Answer(t, pc)
Sleeping(t) == \E kind, deadline, set, d : Parked(t, kind, deadline, set, d)

\* A call that may block does one or the other.
LEMMA CallOutcome ==
  ASSUME NEW t \in Tasks,
         \/ FutexWait(t) \/ Sleep(t) \/ Suspend(t) \/ SigTimedWait(t) \/ WaitChild(t)
         \/ \E end \in Ends : Transfer(t, end)
  PROVE  /\ ctl.pc = "idle" /\ guest[t] = "user"
         /\ (Answered(t) /\ UNCHANGED parkVars) \/ Sleeping(t)
<1>1. CASE FutexWait(t)
  <2>1. \/ Answer(t, "return") /\ UNCHANGED parkVars
        \/ \E deadline : Parked(t, "futex", deadline, {}, dirty)
    BY <1>1 DEF FutexWait, Parked
  <2> QED BY <1>1, <2>1 DEF FutexWait, Enters, Answered, Sleeping
<1>2. CASE Sleep(t)
  <2>1. PICK deadline \in Deadlines \ {None}, rem \in BOOLEAN :
          IF deadline <= now THEN Answer(t, "return") /\ UNCHANGED <<parkVars, dirty>>
          ELSE ParkTask(t, "sleep", deadline, {}, rem, TRUE, dirty)
    BY <1>2 DEF Sleep
  <2>2. \/ Answer(t, "return") /\ UNCHANGED parkVars
        \/ Parked(t, "sleep", deadline, {}, dirty)
    BY <2>1 DEF Parked
  <2> QED BY <1>2, <2>2 DEF Sleep, Enters, Answered, Sleeping
<1>3. CASE Suspend(t)
  <2>1. PICK mask \in Masks :
          IF Pending(t) \ mask # {}
          THEN Answer(t, "returnsuspend") /\ dirty' = MaskNote(t, mask, dirty) /\ UNCHANGED parkVars
          ELSE ParkTask(t, "suspend", None, {}, FALSE, TRUE, MaskNote(t, mask, dirty))
    BY <1>3 DEF Suspend
  <2>2. \/ Answer(t, "returnsuspend") /\ UNCHANGED parkVars
        \/ Parked(t, "suspend", None, {}, MaskNote(t, mask, dirty))
    BY <2>1 DEF Parked
  <2> QED BY <1>3, <2>2 DEF Suspend, Enters, Answered, Sleeping
<1>4. CASE SigTimedWait(t)
  <2>1. PICK set \in Masks \ {{}}, deadline \in Deadlines :
          LET ready == Pending(t) \cap set
          IN CASE ready # {} -> /\ Consume(t, {Lowest(ready)})
                                /\ Answer(t, "return") /\ UNCHANGED <<parkVars, dirty>>
               [] ready = {} /\ deadline = now -> /\ Answer(t, "return")
                                                  /\ UNCHANGED <<shared, directed, parkVars, dirty>>
               [] OTHER -> /\ ParkTask(t, "sigtimed", deadline, set, FALSE, TRUE, dirty)
                           /\ UNCHANGED <<shared, directed>>
    BY <1>4 DEF SigTimedWait
  <2>2. \/ Answer(t, "return") /\ UNCHANGED parkVars
        \/ ParkTask(t, "sigtimed", deadline, set, FALSE, TRUE, dirty)
    BY <2>1
  <2>3. \/ Answer(t, "return") /\ UNCHANGED parkVars
        \/ Parked(t, "sigtimed", deadline, set, dirty)
    BY <2>2 DEF Parked
  <2> QED BY <1>4, <2>3 DEF SigTimedWait, Enters, Answered, Sleeping
<1>5. CASE WaitChild(t)
  <2>1. \/ Answer(t, "return") /\ UNCHANGED parkVars
        \/ ParkTask(t, "child", None, {}, FALSE, TRUE, DirtyAfterNotices)
    BY <1>5 DEF WaitChild
  <2>2. \/ Answer(t, "return") /\ UNCHANGED parkVars
        \/ Parked(t, "child", None, {}, DirtyAfterNotices)
    BY <2>1 DEF Parked
  <2> QED BY <1>5, <2>2 DEF WaitChild, Enters, Answered, Sleeping
<1>6. CASE \E end \in Ends : Transfer(t, end)
  <2>1. PICK end \in Ends : Transfer(t, end)
    BY <1>6
  <2>2. \/ Answer(t, "return") /\ UNCHANGED parkVars
        \/ \E deadline : Parked(t, end, deadline, {}, dirty)
    BY <2>1 DEF Transfer, Parked
  <2> QED BY <2>1, <2>2 DEF Transfer, Enters, Answered, Sleeping
<1> QED BY <1>1, <1>2, <1>3, <1>4, <1>5, <1>6

\* The calls that leave the parks alone answer.
LEMMA PlainOutcome ==
  ASSUME NEW t \in Tasks,
         \/ \E end \in Ends : Close(t, end)
         \/ \E s \in Sig, p \in Pids : Kill(t, p, s)
         \/ \E s \in Sig, u \in Tasks : Tkill(t, u, s)
         \/ SigProcMask(t) \/ FinishMaskWait(t)
         \/ \E p \in Pids : Stop(t, p) \/ Continue(t, p)
  PROVE  /\ ctl.pc = "idle" /\ guest[t] \in {"user", "finish"}
         /\ Answered(t) /\ UNCHANGED parkVars
<1>1. ctl.pc = "idle" /\ guest[t] \in {"user", "finish"} /\ Answer(t, "return") /\ UNCHANGED parkVars
  BY DEF Close, Kill, Tkill, SigProcMask, FinishMaskWait, Stop, Continue, Enters
<1> QED BY <1>1 DEF Answered

\* Between entries nothing is on its way to a thread that runs.
LEMMA IdleCaller ==
  ASSUME Base, AnswerInv, ctl.pc = "idle", NEW t \in Tasks, guest[t] \in {"user", "finish"}
  PROVE  /\ Queued = {} /\ effects[t] = "none" /\ \A w \in parks : w.task # t
<1>1. completions = <<>> /\ fresh = <<>> /\ batch = <<>>
  BY IdleFacts
<1>2. Range(OnTheWay) = {}
  BY <1>1, OnTheWayParts, EmptyParts DEF Base
<1>3. Queued = {}
  BY <1>2 DEF Queued
<1>4. effects[t] = "none"
  BY DEF AnswerInv, GuestsInv, Awaited
<1>5. \A w \in parks : w.task # t
  BY DEF Base, ParksInv
<1> QED BY <1>3, <1>4, <1>5

\* A call that answers keeps the answers, also when it wakes others.
LEMMA AnsweredAnswers ==
  ASSUME Base, TInv', AnswerInv, NEW t \in Tasks, ctl.pc = "idle", guest[t] \in {"user", "finish"},
         Answered(t), UNCHANGED parkVars \/ Decided
  PROVE  ParksInv' /\ AnswerInv'
<1>1. PICK pc \in {"return", "returnsuspend"} : Answer(t, pc)
  BY DEF Answered
<1>2. TInv /\ ParksInv /\ GuestType
  BY DEF Base, TInv
<1>3. /\ guest' = [guest EXCEPT ![t] = "call"] /\ UNCHANGED <<waitGen, nextGen, fresh, batch, effects>>
      /\ ctl'.pc = pc /\ ctl'.caller = t
  BY <1>1, <1>2, AnswerTyped DEF Answer, hostVars
<1>4. guest'[t] = "call" /\ \A u \in Tasks : u # t => guest'[u] = guest[u]
  BY <1>2, <1>3 DEF GuestType
<1>5. CallerInv'
  BY <1>3, <1>4 DEF CallerInv
<1>6. Quiet(t)
  BY <1>3, <1>4, IdleCaller DEF Quiet
<1>7. \A u \in Tasks : Stays(u) \/ Quiet(u)
  BY <1>3, <1>4, <1>6 DEF Stays
<1> QED BY <1>2, <1>3, <1>5, <1>7, SettleAnswers DEF parkVars

\* A call that parks has its park to wait for.
LEMMA SleepingAnswers ==
  ASSUME Base, TInv', AnswerInv, NEW t \in Tasks, ctl.pc = "idle", guest[t] = "user", Sleeping(t)
  PROVE  ParksInv' /\ AnswerInv'
<1>1. TInv /\ ParksInv /\ GuestType /\ ParkType /\ ctl \in Control
  BY DEF Base, TInv, ControlType
<1>2. Queued = {} /\ effects[t] = "none" /\ \A w \in parks : w.task # t
  BY IdleCaller
<1>3. PICK kind, deadline, set, d : Parked(t, kind, deadline, set, d)
  BY DEF Sleeping
<1>4. PICK rem \in BOOLEAN, point \in BOOLEAN : ParkTask(t, kind, deadline, set, rem, point, d)
  BY <1>3 DEF Parked
<1>5. PICK w : w = [gen |-> nextGen, task |-> t, kind |-> kind, deadline |-> deadline,
                    set |-> set, rem |-> rem, point |-> point]
  OBVIOUS
<1>6. /\ nextGen' = nextGen + 1 /\ parks' = parks \cup {w} /\ w.gen = nextGen /\ w.task = t
      /\ waitGen' = [waitGen EXCEPT ![t] = nextGen] /\ guest' = [guest EXCEPT ![t] = "blocked"]
      /\ UNCHANGED <<completions, fresh, batch, effects>>
  BY <1>4, <1>5 DEF ParkTask, hostVars
<1>7. \E pc \in {"followup", "cancelnew"} : ctl' = [ctl EXCEPT !.pc = pc, !.caller = t]
  BY <1>4 DEF ParkTask
<1>8. CallerInv'
  BY <1>1, <1>7 DEF CallerInv, Control
<1>9. /\ guest'[t] = "blocked" /\ waitGen'[t] = nextGen
      /\ \A u \in Tasks : u # t => guest'[u] = guest[u] /\ waitGen'[u] = waitGen[u]
  BY <1>1, <1>6 DEF GuestType
<1>10. nextGen \in Nat \ {0}
  BY <1>1 DEF ParkType
<1>11. ParksInv'
  <2>1. ASSUME NEW v \in parks'
        PROVE  /\ 0 < v.gen /\ v.gen < nextGen' /\ waitGen'[v.task] = v.gen
               /\ guest'[v.task] = "blocked" /\ effects'[v.task] = "none"
    <3>1. CASE v = w
      BY <1>2, <1>6, <1>9, <1>10, <3>1
    <3>2. CASE v \in parks
      <4>1. v.task \in Tasks /\ v.task # t /\ v.gen \in Nat
        BY <1>1, <1>2, <3>2, ParkFacts
      <4> QED BY <1>1, <1>6, <1>9, <1>10, <3>2, <4>1 DEF ParksInv
    <3> QED BY <1>6, <3>1, <3>2
  <2>2. \A v \in parks : v.gen # w.gen
    BY <1>1, <1>6, <1>10, ParkFacts DEF ParksInv
  <2>3. \A v, u \in parks' : v.gen = u.gen => v = u
    BY <1>1, <1>6, <2>2 DEF ParksInv
  <2> QED BY <2>1, <2>3 DEF ParksInv
<1>12. OnTheWay' = OnTheWay
  BY <1>6 DEF OnTheWay
<1>13. Queued' = {} /\ Single(OnTheWay)'
  BY <1>2, <1>12 DEF Queued, AnswerInv, RecordsInv, Single
<1>14. \A u \in Tasks : Awaited(u)'
  <2>1. Awaited(t)'
    BY <1>6, <1>9 DEF Awaited
  <2>2. ASSUME NEW u \in Tasks, u # t PROVE Awaited(u)'
    <3>1. Awaited(u)
      BY DEF AnswerInv, GuestsInv
    <3> QED BY <1>2, <1>6, <1>9, <2>2, <3>1 DEF Awaited
  <2> QED BY <2>1, <2>2
<1> QED BY <1>8, <1>11, <1>13, <1>14 DEF AnswerInv, RecordsInv, GuestsInv

\* A thread that ends has nothing to wait for.
LEMMA ThreadExitAnswers ==
  ASSUME Base, TInv', AnswerInv, NEW t \in Tasks, ThreadExit(t)
  PROVE  ParksInv' /\ AnswerInv'
<1>1. /\ TInv /\ ParksInv /\ GuestType /\ ctl \in Control /\ ctl.pc = "idle" /\ guest[t] = "user"
      /\ Retire({t}, guest) /\ BeginPass("events")
  BY DEF Base, TInv, ControlType, ThreadExit, Enters
<1>2. Queued = {} /\ effects[t] = "none" /\ \A w \in parks : w.task # t
  BY <1>1, IdleCaller
<1>3. CallerInv'
  BY <1>1, PassMoved DEF CallerInv, Moved
<1>4. /\ guest'[t] = "gone" /\ effects'[t] = "none" /\ UNCHANGED <<fresh, batch, nextGen>>
      /\ \A u \in Tasks : u # t => /\ guest'[u] = guest[u] /\ waitGen'[u] = waitGen[u]
                                   /\ effects'[u] = effects[u]
  BY <1>1 DEF Retire
<1>5. Quiet(t)
  BY <1>2, <1>4 DEF Quiet
<1>6. \A u \in Tasks : Stays(u) \/ Quiet(u)
  BY <1>4, <1>5 DEF Stays
<1>7. Decided
  BY ThreadExitKeeps DEF Decided
<1> QED BY <1>1, <1>3, <1>4, <1>6, <1>7, SettleAnswers

\* A process that ends takes its parks with it, and nothing is on its way.
LEMMA ExitAnswers ==
  ASSUME Base, TInv', AnswerInv, NEW t \in Tasks, Exit(t) \/ \E p \in Pids : Terminate(t, p)
  PROVE  ParksInv' /\ AnswerInv'
<1>1. /\ TInv /\ ParksInv /\ GuestType /\ ParkType /\ ctl \in Control /\ ctl.pc = "idle" /\ guest[t] = "user"
  BY DEF Base, TInv, ControlType, Exit, Terminate, Enters
<1>2. PICK p \in Pids :
        /\ Exited(p)
        /\ \/ PidOf[t] = p /\ Retire(ThreadsOf(p), guest) /\ BeginPass("events")
           \/ /\ PidOf[t] # p /\ Retire(ThreadsOf(p), [guest EXCEPT ![t] = "call"])
              /\ ctl' = [ctl EXCEPT !.pc = "return", !.caller = t]
  <2>1. PidOf[t] \in Pids
    BY TaskAssumption
  <2> QED BY <2>1 DEF Exit, Terminate
<1>3. Queued = {} /\ effects[t] = "none" /\ \A w \in parks : w.task # t
  BY <1>1, IdleCaller
<1>4. completions = <<>> /\ fresh = <<>> /\ batch = <<>>
  BY <1>1, IdleFacts
<1>5. nextGen' = nextGen /\ fresh' = <<>> /\ batch' = <<>>
  BY <1>2, <1>4 DEF Retire
<1>6. completions' = <<>> /\ parks' = {w \in parks : PidOf[w.task] # p}
  BY <1>1, <1>2, <1>5, ExitedTyped
<1>7. OnTheWay' = OnTheWay
  BY <1>4, <1>5, <1>6 DEF OnTheWay
<1>8. Queued' = {} /\ Single(OnTheWay)'
  BY <1>3, <1>7 DEF Queued, AnswerInv, RecordsInv, Single
<1>9. ASSUME NEW u \in Tasks, PidOf[u] = p
      PROVE  Clear(u)
  <2>1. effects'[u] = "none" /\ guest'[u] = "gone"
    <3>1. CASE u \in ThreadsOf(p)
      BY <1>2, <3>1 DEF Retire
    <3>2. CASE u \notin ThreadsOf(p)
      <4>1. guest[u] = "gone"
        BY <1>9, <3>2 DEF ThreadsOf, Live
      <4>2. effects[u] = "none"
        BY <4>1 DEF AnswerInv, GuestsInv, Awaited
      <4>3. u # t
        BY <1>1, <4>1
      <4>4. effects'[u] = effects[u] /\ guest'[u] = guest[u]
        BY <1>1, <1>2, <3>2, <4>3 DEF Retire, GuestType
      <4> QED BY <4>1, <4>2, <4>4
    <3> QED BY <3>1, <3>2
  <2> QED BY <1>6, <1>8, <1>9, <2>1 DEF Clear
<1>10. ASSUME NEW u \in Tasks, PidOf[u] # p, u # t
       PROVE  Kept(u)
  <2>1. u \notin ThreadsOf(p)
    BY <1>10 DEF ThreadsOf
  <2> QED BY <1>1, <1>2, <1>10, <2>1 DEF Retire, Kept, GuestType
<1>11. CASE PidOf[t] # p
  <2>1. t \notin ThreadsOf(p) /\ ctl' = [ctl EXCEPT !.pc = "return", !.caller = t]
    BY <1>2, <1>11 DEF ThreadsOf
  <2>2. effects'[t] = effects[t] /\ guest'[t] = "call"
    BY <1>1, <1>2, <1>11, <2>1 DEF Retire, GuestType
  <2>3. Clear(t)
    BY <1>3, <1>6, <1>8, <2>2 DEF Clear
  <2>4. CallerInv'
    BY <1>1, <2>1, <2>2 DEF CallerInv, Control
  <2>5. \A u \in Tasks : Clear(u) \/ Kept(u)
    BY <1>9, <1>10, <2>3
  <2>6. \A w \in parks \ parks' : Clear(w.task)
    BY <1>1, <1>6, <1>9, ParkFacts
  <2> QED BY <1>1, <1>3, <1>5, <1>6, <1>8, <2>4, <2>5, <2>6, AnswersStep
<1>12. CASE PidOf[t] = p
  <2>1. CallerInv'
    BY <1>1, <1>2, <1>12, PassMoved DEF CallerInv, Moved
  <2>2. \A u \in Tasks : Clear(u) \/ Kept(u)
    BY <1>9, <1>10, <1>12
  <2>3. \A w \in parks \ parks' : Clear(w.task)
    BY <1>1, <1>6, <1>9, ParkFacts
  <2> QED BY <1>1, <1>3, <1>5, <1>6, <1>8, <2>1, <2>2, <2>3, AnswersStep
<1> QED BY <1>11, <1>12

\* A cancellation answers its own caller first.
LEMMA CancelAnswers ==
  ASSUME Base, TInv', AnswerInv, NEW t \in Tasks, NEW v \in Tasks, Cancel(t, v)
  PROVE  ParksInv' /\ AnswerInv'
<1>1. /\ TInv /\ ParksInv /\ GuestType /\ ctl \in Control /\ ctl.pc = "idle" /\ guest[t] = "user"
      /\ guest' = [guest EXCEPT ![t] = "call"] /\ effects' = [effects EXCEPT ![t] = "user"]
      /\ ctl' = [ctl EXCEPT !.pc = "announce", !.pass = "events", !.caller = t, !.target = v]
      /\ UNCHANGED <<waitGen, parks, completions, fresh, batch, nextGen>>
  BY DEF Base, TInv, ControlType, Cancel, Enters, parkVars, worldVars
<1>2. Queued = {} /\ effects[t] = "none" /\ \A w \in parks : w.task # t
  BY <1>1, IdleCaller
<1>3. CallerInv'
  BY <1>1 DEF CallerInv, Control
<1>4. /\ guest'[t] = "call" /\ effects'[t] = "user"
      /\ \A u \in Tasks : u # t => guest'[u] = guest[u] /\ effects'[u] = effects[u]
  BY <1>1 DEF GuestType
<1>5. Quiet(t)
  BY <1>2, <1>4 DEF Quiet
<1>6. \A u \in Tasks : Stays(u) \/ Quiet(u)
  BY <1>1, <1>4, <1>5 DEF Stays
<1> QED BY <1>1, <1>3, <1>6, SettleAnswers

\* The steps of the passes leave the threads alone.
LEMMA PassAnswers ==
  ASSUME Base, TInv', AnswerInv, UNCHANGED parkVars \/ Decided,
         UNCHANGED <<guest, waitGen, effects, fresh, batch, nextGen>>,
         ctl'.pc \notin {"return", "returnsuspend"} \/ UNCHANGED ctl
  PROVE  ParksInv' /\ AnswerInv'
<1>1. TInv /\ ParksInv
  BY DEF Base
<1>2. CallerInv'
  BY DEF CallerInv, AnswerInv
<1>3. \A u \in Tasks : Stays(u) \/ Quiet(u)
  BY DEF Stays
<1> QED BY <1>1, <1>2, <1>3, SettleAnswers DEF parkVars

\* No step of a pass, nor of the host, makes a call that returns.
LEMMA NoReturn ==
  ASSUME ctl \in Control,
         \/ AnnounceExits \/ ChildRound \/ SettleChildWait \/ ChildRoundEnds
         \/ SettleSignalWait \/ SignalWaitsEnd \/ RetryRound \/ RetryRoundEnds
         \/ Expire \/ Sweep \/ CancelNewPark \/ CancelTarget \/ Followup
         \/ LifecycleEnds \/ TimerFires \/ Tick
  PROVE  ctl'.pc \notin {"return", "returnsuspend"}
<1>1. CASE AnnounceExits \/ ChildRoundEnds \/ SignalWaitsEnd \/ RetryRoundEnds \/ Expire \/ CancelNewPark
  BY <1>1 DEF AnnounceExits, ChildRoundEnds, SignalWaitsEnd, RetryRoundEnds, Expire, CancelNewPark, At, Control
<1>2. CASE ChildRound \/ RetryRound
  BY <1>2 DEF ChildRound, RetryRound, Control
<1>3. CASE SettleChildWait
  <2>1. ctl.pc = "children" /\ \E n : ctl' = [ctl EXCEPT !.at = n]
    BY <1>3 DEF SettleChildWait
  <2> QED BY <2>1 DEF Control
<1>4. CASE SettleSignalWait \/ Tick
  BY <1>4 DEF SettleSignalWait, Tick
<1>5. CASE Sweep \/ TimerFires
  BY <1>5 DEF Sweep, TimerFires, At, BeginPass, Control
<1>6. CASE CancelTarget
  <2>1. \E pc \in {"announce", "publish"} : ctl' = [ctl EXCEPT !.target = NoTask, !.pass = "events", !.pc = pc]
    BY <1>6 DEF CancelTarget
  <2> QED BY <2>1 DEF Control
<1>7. CASE Followup
  <2>1. BeginPass("drain") \/ At("publish")
    BY <1>7 DEF Followup
  <2> QED BY <2>1 DEF BeginPass, At, Control
<1>8. CASE LifecycleEnds
  <2>1. BeginPass("events") \/ BeginPass("drain") \/ At("publish")
    BY <1>8 DEF LifecycleEnds
  <2> QED BY <2>1 DEF BeginPass, At, Control
<1> QED BY <1>1, <1>2, <1>3, <1>4, <1>5, <1>6, <1>7, <1>8

\* The passes and the host's own steps keep the answers.
LEMMA StepAnswers ==
  ASSUME Base, TInv', AnswerInv,
         \/ AnnounceExits \/ ChildRound \/ SettleChildWait \/ ChildRoundEnds
         \/ SettleSignalWait \/ SignalWaitsEnd \/ RetryRound \/ RetryRoundEnds
         \/ Expire \/ Sweep \/ CancelNewPark \/ CancelTarget \/ Followup
         \/ LifecycleEnds \/ TimerFires \/ Tick
  PROVE  ParksInv' /\ AnswerInv'
<1>1. ctl'.pc \notin {"return", "returnsuspend"}
  BY NoReturn DEF Base, TInv, ControlType
<1>2. UNCHANGED <<guest, waitGen, effects, fresh, batch, nextGen>>
  BY DEF AnnounceExits, ChildRound, SettleChildWait, ChildRoundEnds, SettleSignalWait, SignalWaitsEnd,
         RetryRound, RetryRoundEnds, Expire, Sweep, CancelNewPark, CancelTarget, Followup, LifecycleEnds,
         TimerFires, Tick, taskVars, hostVars, worldVars
<1>3. UNCHANGED parkVars \/ Decided
  <2>1. CASE \/ AnnounceExits \/ ChildRound \/ ChildRoundEnds \/ SignalWaitsEnd \/ RetryRound
             \/ RetryRoundEnds \/ LifecycleEnds \/ TimerFires \/ Tick
    BY <2>1 DEF AnnounceExits, ChildRound, ChildRoundEnds, SignalWaitsEnd, RetryRound, RetryRoundEnds,
                LifecycleEnds, TimerFires, Tick
  <2>2. CASE SettleChildWait
    BY <2>2, ChildWaitKeeps DEF Decided
  <2>3. CASE SettleSignalWait \/ Expire \/ Sweep \/ CancelNewPark \/ CancelTarget \/ Followup
    BY <2>3, SignalWaitKeeps, ExpireKeeps, SweepKeeps, CancelNewKeeps, CancelTargetKeeps, FollowupKeeps
  <2> QED BY <2>1, <2>2, <2>3
<1> QED BY <1>1, <1>2, <1>3, PassAnswers

\* An answer goes to a caller nothing else is on its way to; a resumed thread
\* keeps the answer it has.
LEMMA DeliverAnswers ==
  ASSUME Base, TInv', AnswerInv, Return \/ Resume
  PROVE  ParksInv' /\ AnswerInv'
<1>1. /\ TInv /\ ParksInv /\ GuestType /\ SignalType /\ ctl \in Control /\ RecordsInv
      /\ ctl.pc \in Called => ctl.caller \in Tasks
  BY DEF Base, TInv, ControlType, AnswerInv
<1>2. UNCHANGED <<guest, waitGen, parks, completions, fresh, batch, nextGen>>
  BY DEF Return, Resume, taskVars, parkVars, worldVars
<1>3. CASE Return
  <2>1. PICK c : c = ctl.caller
    OBVIOUS
  <2>2. c \in Tasks /\ guest[c] = "call"
    BY <1>1, <1>3, <2>1 DEF Return, Called, AnswerInv, CallerInv
  <2>3. PICK how \in {"user", "suspend"} : Dequeue(c, how)
    BY <1>3, <2>1 DEF Return
  <2>4. \A u \in Tasks : u # c => effects'[u] = effects[u]
    BY <1>1, <2>2, <2>3, DequeueTyped
  <2>5. CallerInv'
    BY <1>1, <1>3, PassMoved DEF Return, CallerInv, Moved
  <2>6. \A w \in parks : w.task # c
    BY <1>1, <2>2 DEF ParksInv
  <2>7. \A r \in Queued : r.task # c
    BY <1>1, <2>2 DEF RecordsInv, Answers
  <2>8. Quiet(c)
    BY <1>2, <2>2, <2>6, <2>7 DEF Quiet
  <2>9. \A u \in Tasks : Stays(u) \/ Quiet(u)
    BY <1>2, <2>4, <2>8 DEF Stays
  <2> QED BY <1>1, <1>2, <2>5, <2>9, SettleAnswers
<1>4. CASE Resume
  <2>1. PICK t : t = Lowest(Resumable)
    OBVIOUS
  <2>2. t \in Tasks /\ Dequeue(t, effects[t]) /\ ctl' = [ctl EXCEPT !.at = t] /\ ctl.pc = "lifecycle"
    BY <1>4, <2>1, ResumableTask DEF Resume
  <2>3. PICK how : how = effects[t]
    OBVIOUS
  <2>4. how \in {"none", "user", "suspend", "finish"} /\ Dequeue(t, how)
    BY <1>1, <2>2, <2>3 DEF GuestType
  <2>5. /\ \A u \in Tasks : u # t => effects'[u] = effects[u]
        /\ effects'[t] = "none" <=> how = "none"
    BY <1>1, <2>2, <2>4, DequeueTyped
  <2>6. CallerInv'
    BY <1>1, <2>2 DEF CallerInv, Control
  <2>7. \A u \in Tasks : Stays(u) \/ Quiet(u)
    BY <1>2, <2>3, <2>5 DEF Stays
  <2> QED BY <1>1, <1>2, <2>6, <2>7, SettleAnswers
<1> QED BY <1>3, <1>4

\* The end of an entry frees the threads whose answer is prepared.
LEMMA CommitAnswers ==
  ASSUME Base, TInv', AnswerInv, Commit
  PROVE  ParksInv' /\ AnswerInv'
<1>1. TInv /\ ParksInv /\ RecordsInv
  BY DEF Base, AnswerInv
<1>2. UNCHANGED <<waitGen, parks, completions, fresh, batch, nextGen>> /\ ctl' = Idle
  BY DEF Commit, parkVars, worldVars
<1>3. CallerInv'
  BY <1>2 DEF CallerInv, Idle
<1>4. PICK freed : /\ freed = {t \in Tasks : effects[t] # "none" /\ proc[PidOf[t]] # "stopped"}
                   /\ guest' = [t \in Tasks |-> IF t \notin freed THEN guest[t]
                                                ELSE IF effects[t] = "finish" THEN "finish" ELSE "user"]
                   /\ effects' = [t \in Tasks |-> IF t \in freed THEN "none" ELSE effects[t]]
  BY DEF Commit
<1>5. ASSUME NEW u \in Tasks PROVE Stays(u) \/ Quiet(u)
  <2>1. CASE u \notin freed
    BY <1>2, <1>4, <2>1 DEF Stays
  <2>2. CASE u \in freed
    <3>1. effects[u] # "none" /\ guest'[u] \in {"finish", "user"} /\ effects'[u] = "none"
      BY <1>4, <2>2
    <3>2. (\A w \in parks : w.task # u) /\ (\A r \in Queued : r.task # u)
      BY <1>1, <3>1 DEF ParksInv, RecordsInv, Answers
    <3> QED BY <3>1, <3>2 DEF Quiet
  <2> QED BY <2>1, <2>2
<1> QED BY <1>1, <1>2, <1>3, <1>5, SettleAnswers

\* Every step keeps the answers.
LEMMA AnswerStep ==
  ASSUME Base, AnswerInv, [Next]_vars
  PROVE  Base' /\ AnswerInv'
<1>1. TInv' /\ FlowInv'
  BY FlowStep
<1> SUFFICES ParksInv' /\ AnswerInv'
  BY <1>1 DEF Base
<1>2. ASSUME NEW t \in Tasks, SystemCall(t) PROVE ParksInv' /\ AnswerInv'
  <2>1. CASE \/ FutexWait(t) \/ Sleep(t) \/ Suspend(t) \/ SigTimedWait(t) \/ WaitChild(t)
             \/ \E end \in Ends : Transfer(t, end)
    BY <1>1, <2>1, CallOutcome, AnsweredAnswers, SleepingAnswers
  <2>2. CASE \/ \E end \in Ends : Close(t, end)
             \/ \E s \in Sig, p \in Pids : Kill(t, p, s)
             \/ \E s \in Sig, u \in Tasks : Tkill(t, u, s)
             \/ SigProcMask(t) \/ FinishMaskWait(t)
             \/ \E p \in Pids : Stop(t, p) \/ Continue(t, p)
    BY <1>1, <2>2, PlainOutcome, AnsweredAnswers
  <2>3. CASE FutexWake(t)
    <3>1. Decided
      BY <2>3, WakeKeeps DEF Decided
    <3>2. ctl.pc = "idle" /\ guest[t] \in {"user", "finish"} /\ Answered(t)
      BY <2>3 DEF FutexWake, Enters, Answered
    <3> QED BY <1>1, <3>1, <3>2, AnsweredAnswers
  <2>4. CASE ThreadExit(t)
    BY <1>1, <2>4, ThreadExitAnswers
  <2>5. CASE Exit(t) \/ \E p \in Pids : Terminate(t, p)
    BY <1>1, <2>5, ExitAnswers
  <2>6. CASE \E u \in Tasks : Cancel(t, u)
    BY <1>1, <2>6, CancelAnswers
  <2>7. \/ FutexWait(t) \/ Sleep(t) \/ Suspend(t) \/ SigTimedWait(t) \/ WaitChild(t)
        \/ (\E end \in Ends : Transfer(t, end)) \/ (\E end \in Ends : Close(t, end))
        \/ FutexWake(t) \/ SigProcMask(t) \/ FinishMaskWait(t) \/ ThreadExit(t) \/ Exit(t)
        \/ (\E s \in Sig, p \in Pids : Kill(t, p, s)) \/ (\E s \in Sig, u \in Tasks : Tkill(t, u, s))
        \/ (\E p \in Pids : Stop(t, p) \/ Continue(t, p)) \/ (\E p \in Pids : Terminate(t, p))
        \/ (\E u \in Tasks : Cancel(t, u))
    BY <1>2, Zenon DEF SystemCall
  <2> QED BY <2>1, <2>2, <2>3, <2>4, <2>5, <2>6, <2>7, Zenon
<1>3. CASE Settle
  BY <1>1, <1>3, StepAnswers, RetryAnswers, CollectAnswers DEF Settle
<1>4. CASE Host
  BY <1>1, <1>4, StepAnswers, DeliverAnswers, PublishAnswers, CommitAnswers DEF Host
<1>5. CASE TimerFires \/ Tick
  BY <1>1, <1>5, StepAnswers
<1>6. CASE UNCHANGED vars
  <2>1. /\ UNCHANGED parkVars /\ UNCHANGED ctl
        /\ UNCHANGED <<guest, waitGen, effects, fresh, batch, nextGen>>
    BY <1>6 DEF vars, taskVars, hostVars, worldVars
  <2> QED BY <1>1, <2>1, PassAnswers
<1> QED BY <1>2, <1>3, <1>4, <1>5, <1>6, Zenon DEF Next

-----------------------------------------------------------------------------
(* What the invariants give.                                               *)

\* A set of at most one element.
LEMMA AtMostOne ==
  ASSUME NEW S, \A a, b \in S : a = b
  PROVE  (S = {} => Cardinality(S) = 0) /\ (S # {} => Cardinality(S) = 1)
<1>1. CASE S = {}
  BY <1>1, FS_EmptySet
<1>2. CASE S # {}
  <2>1. PICK a \in S : TRUE
    BY <1>2
  <2>2. S = {a}
    BY <2>1
  <2> QED BY <1>2, <2>2, FS_Singleton
<1> QED BY <1>1, <1>2

\* The invariant answers each call once.
LEMMA OneAnswer ==
  ASSUME Base, AnswerInv
  PROVE  AnsweredOnce
<1> SUFFICES ASSUME NEW t \in Tasks
             PROVE  LET rs == Unpublished(t)
                        places == Cardinality(ParksOf({t})) + Cardinality(rs) + (IF effects[t] = "none" THEN 0 ELSE 1)
                    IN /\ guest[t] \in {"user", "finish", "gone"} => places = 0
                       /\ guest[t] = "call" => ParksOf({t}) = {} /\ rs = {}
                       /\ guest[t] = "blocked" =>
                            /\ places = 1
                            /\ \A g \in {w.gen : w \in ParksOf({t})} \cup {OnTheWay[i].gen : i \in rs} :
                                 g = waitGen[t]
  BY DEF AnsweredOnce
<1>1. PICK rs : rs = Unpublished(t)
  OBVIOUS
<1>2. PICK P : P = ParksOf({t})
  OBVIOUS
<1>3. TInv /\ ParksInv /\ RecordsInv /\ t # NoTask
  BY TaskAssumption DEF Base, AnswerInv
<1>4. \A w \in P : /\ w \in parks /\ w.task = t /\ w.gen = waitGen[t] /\ guest[t] = "blocked"
                   /\ effects[t] = "none"
  BY <1>2, <1>3 DEF ParksOf, ParksInv
<1>5. \A w, v \in P : w = v
  BY <1>3, <1>4 DEF ParksInv
<1>6. ASSUME NEW i \in rs
      PROVE  /\ i \in DOMAIN OnTheWay /\ OnTheWay[i] \in Queued /\ 0 < OnTheWay[i].gen
             /\ OnTheWay[i].gen = waitGen[t] /\ guest[t] = "blocked" /\ effects[t] = "none" /\ P = {}
             /\ OnTheWay[i].gen \in Nat
  <2>1. PICK r : r = OnTheWay[i]
    OBVIOUS
  <2>2. i \in DOMAIN OnTheWay /\ r.task = t /\ r.flag # "published"
    BY <1>1, <1>6, <2>1 DEF Unpublished
  <2>3. r \in Queued
    BY <1>3, <2>1, <2>2, MarkIsNoRecord DEF Queued, Range
  <2>4. Answers(r) /\ r.gen \in Nat
    BY <1>3, <2>3, QueuedTyped DEF RecordsInv
  <2>5. P = {}
    BY <1>4, <2>2, <2>4 DEF Answers
  <2> QED BY <2>1, <2>2, <2>3, <2>4, <2>5 DEF Answers
<1>7. \A i, j \in rs : i = j
  <2> SUFFICES ASSUME NEW i \in rs, NEW j \in rs, i # j PROVE FALSE
    OBVIOUS
  <2>1. OnTheWay[i].gen = OnTheWay[j].gen /\ OnTheWay[i].gen # 0 /\ i \in DOMAIN OnTheWay /\ j \in DOMAIN OnTheWay
    BY <1>6
  <2> QED BY <1>3, <2>1 DEF RecordsInv, Single
<1>8. /\ (P = {} => Cardinality(P) = 0) /\ (P # {} => Cardinality(P) = 1)
      /\ (rs = {} => Cardinality(rs) = 0) /\ (rs # {} => Cardinality(rs) = 1)
  BY <1>5, <1>7, AtMostOne
<1>9. Awaited(t)
  BY DEF AnswerInv, GuestsInv
<1>10. ASSUME guest[t] = "blocked", effects[t] = "none" PROVE P # {} \/ rs # {}
  <2>1. CASE \E w \in parks : w.task = t
    BY <1>2, <2>1 DEF ParksOf
  <2>2. CASE \E r \in Queued : r.task = t /\ r.flag # "published"
    <3>1. PICK i \in DOMAIN OnTheWay : OnTheWay[i].task = t /\ OnTheWay[i].flag # "published"
      BY <2>2 DEF Queued, Range
    <3> QED BY <1>1, <3>1 DEF Unpublished
  <2> QED BY <1>9, <1>10, <2>1, <2>2 DEF Awaited
<1>11. guest[t] \in {"user", "finish", "gone"} => P = {} /\ rs = {} /\ effects[t] = "none"
  BY <1>4, <1>6, <1>9 DEF Awaited
<1>12. guest[t] = "call" => P = {} /\ rs = {}
  BY <1>4, <1>6
<1>13. guest[t] = "blocked" =>
         Cardinality(P) + Cardinality(rs) + (IF effects[t] = "none" THEN 0 ELSE 1) = 1
  <2>1. CASE effects[t] # "none"
    <3>1. P = {} /\ rs = {}
      BY <1>4, <1>6, <2>1
    <3> QED BY <1>8, <2>1, <3>1
  <2>2. CASE effects[t] = "none" /\ P # {}
    <3>1. rs = {}
      BY <1>6, <2>2
    <3> QED BY <1>8, <2>2, <3>1
  <2>3. CASE effects[t] = "none" /\ P = {}
    BY <1>8, <1>10, <2>3
  <2> QED BY <2>1, <2>2, <2>3
<1>14. \A g \in {w.gen : w \in P} \cup {OnTheWay[i].gen : i \in rs} : g = waitGen[t]
  BY <1>4, <1>6
<1>15. guest[t] \in {"user", "finish", "gone"} =>
         Cardinality(P) + Cardinality(rs) + (IF effects[t] = "none" THEN 0 ELSE 1) = 0
  BY <1>8, <1>11
<1> QED BY <1>1, <1>2, <1>12, <1>13, <1>14, <1>15, Zenon

\* Types as the runs check them.
LEMMA TypesHold ==
  ASSUME TInv, delivered \subseteq Tasks
  PROVE  TypeOK
<1>1. Range(completions) \cup Range(fresh) \subseteq Record /\ Range(batch) \subseteq Record \cup {ArmMark}
  BY DEF TInv, ParkType, HostType, Range
<1>2. DOMAIN saved = Tasks
  BY DEF TInv, SignalType
<1> QED BY <1>1, <1>2 DEF TInv, TypeOK, GuestType, SignalType, ParkType, DirtyType, Dirty, WorldType, ProcStates,
           Pipes, HostType

\* The first state.
LEMMA FirstState ==
  ASSUME Init
  PROVE  Base /\ AnswerInv
<1>1. GuestType
  BY DEF Init, GuestType
<1>2. SignalType
  BY DEF Init, SignalType
<1>3. ParkType
  BY FS_EmptySet DEF Init, ParkType
<1>4. DirtyType
  BY DEF Init, DirtyType, Dirty
<1>5. WorldType
  <2>1. pipe \in Pipes
    BY BoundAssumption DEF Init, Pipes
  <2>2. pins = {} /\ proc \in [Pids -> ProcStates]
    BY DEF Init, ProcStates
  <2> QED BY <2>1, <2>2 DEF WorldType
<1>6. HostType
  BY BoundAssumption DEF Init, HostType
<1>7. ControlType
  BY DEF Init, ControlType, Idle, Control, Points, Called
<1>8. TInv
  BY <1>1, <1>2, <1>3, <1>4, <1>5, <1>6, <1>7 DEF TInv
<1>9. FlowInv
  BY DEF Init, Idle, FlowInv, NotesInv, PassInv, Passing, Called
<1>10. ParksInv
  BY DEF Init, ParksInv
<1>11. Range(OnTheWay) = {}
  BY <1>8, OnTheWayParts, EmptyParts DEF Init
<1>12. Single(OnTheWay)
  BY <1>11 DEF Single, Range
<1>13. RecordsInv
  BY <1>11, <1>12 DEF RecordsInv, Queued
<1>14. GuestsInv /\ CallerInv
  BY DEF Init, Idle, GuestsInv, Awaited, CallerInv
<1> QED BY <1>8, <1>9, <1>10, <1>13, <1>14 DEF Base, AnswerInv

\* The invariant holds in every state.
LEMMA Invariance == Spec => [](Base /\ AnswerInv)
<1>1. Init => Base /\ AnswerInv
  BY FirstState
<1>2. Base /\ AnswerInv /\ [Next]_vars => (Base /\ AnswerInv)'
  BY AnswerStep
<1> QED BY <1>1, <1>2, PTL DEF Spec

\* Only a thread's channel takes a signal record.
LEMMA DeliveredStep ==
  ASSUME Base, delivered \subseteq Tasks, [Next]_vars
  PROVE  delivered' \subseteq Tasks
<1>1. TInv
  BY DEF Base
<1>2. ASSUME NEW t \in Tasks, NEW how, Dequeue(t, how) PROVE delivered' \subseteq Tasks
  BY <1>2 DEF Dequeue
<1>3. ASSUME NEW t \in Tasks, SystemCall(t) PROVE delivered' \subseteq Tasks
  <2>1. ASSUME NEW pc, Answer(t, pc) PROVE delivered' \subseteq Tasks
    BY <2>1 DEF Answer, hostVars
  <2>2. ASSUME NEW kind, NEW deadline, NEW set, NEW rem, NEW point, NEW d,
               ParkTask(t, kind, deadline, set, rem, point, d)
        PROVE  delivered' \subseteq Tasks
    BY <2>2 DEF ParkTask, hostVars
  <2>3. ASSUME NEW ts, NEW g, Retire(ts, g) PROVE delivered' \subseteq Tasks
    BY <2>3 DEF Retire
  <2>4. CASE FutexWait(t) \/ Sleep(t)
    BY <2>1, <2>2, <2>4 DEF FutexWait, Sleep
  <2>5. CASE Suspend(t)
    BY <2>1, <2>2, <2>5 DEF Suspend
  <2>6. CASE SigTimedWait(t)
    BY <2>1, <2>2, <2>6 DEF SigTimedWait
  <2>7. CASE WaitChild(t)
    BY <2>1, <2>2, <2>7 DEF WaitChild
  <2>8. ASSUME NEW end \in Ends, Transfer(t, end) PROVE delivered' \subseteq Tasks
    BY <2>1, <2>2, <2>8 DEF Transfer
  <2>9. ASSUME NEW end \in Ends, Close(t, end) PROVE delivered' \subseteq Tasks
    BY <2>1, <2>9 DEF Close
  <2>10. CASE FutexWake(t) \/ SigProcMask(t) \/ FinishMaskWait(t)
    BY <2>1, <2>10 DEF FutexWake, SigProcMask, FinishMaskWait
  <2>11. CASE ThreadExit(t) \/ Exit(t)
    BY <2>3, <2>11 DEF ThreadExit, Exit
  <2>12. ASSUME NEW s \in Sig, (\E p \in Pids : Kill(t, p, s)) \/ (\E u \in Tasks : Tkill(t, u, s))
         PROVE  delivered' \subseteq Tasks
    BY <2>1, <2>12 DEF Kill, Tkill
  <2>13. ASSUME NEW p \in Pids, Stop(t, p) \/ Continue(t, p) PROVE delivered' \subseteq Tasks
    BY <2>1, <2>13 DEF Stop, Continue
  <2>14. ASSUME NEW p \in Pids, Terminate(t, p) PROVE delivered' \subseteq Tasks
    BY <2>3, <2>14 DEF Terminate
  <2>15. ASSUME NEW u \in Tasks, Cancel(t, u) PROVE delivered' \subseteq Tasks
    BY <2>15 DEF Cancel
  <2> QED BY <1>3, <2>4, <2>5, <2>6, <2>7, <2>8, <2>9, <2>10, <2>11, <2>12, <2>13, <2>14, <2>15, Zenon
          DEF SystemCall
<1>4. CASE Settle
  <2>1. CASE SettleRetryWait
    BY <2>1 DEF SettleRetryWait
  <2>2. CASE CollectRecords
    BY <2>2 DEF CollectRecords
  <2>3. CASE AnnounceExits \/ ChildRound \/ SettleChildWait \/ ChildRoundEnds
    BY <2>3 DEF AnnounceExits, ChildRound, SettleChildWait, ChildRoundEnds, hostVars
  <2>4. CASE SettleSignalWait \/ SignalWaitsEnd \/ RetryRound \/ RetryRoundEnds
    BY <2>4 DEF SettleSignalWait, SignalWaitsEnd, RetryRound, RetryRoundEnds, hostVars
  <2>5. CASE Expire \/ Sweep
    BY <2>5 DEF Expire, Sweep, hostVars
  <2> QED BY <1>4, <2>1, <2>2, <2>3, <2>4, <2>5, Zenon DEF Settle
<1>5. CASE Host
  <2>1. CASE Return
    <3>1. ctl.caller \in Tasks
      BY <1>1, <2>1 DEF Return, TInv, ControlType, Called
    <3> QED BY <1>2, <2>1, <3>1 DEF Return
  <2>2. CASE Resume
    <3>1. Lowest(Resumable) \in Tasks
      <4>1. Resumable \in SUBSET Nat /\ Resumable # {} /\ Resumable \in SUBSET Tasks
        BY <2>2, TaskAssumption DEF Resume, Resumable
      <4> QED BY <4>1, LowestExists
    <3> QED BY <1>2, <2>2, <3>1 DEF Resume
  <2>3. CASE PublishRecord
    <3>1. Head(batch) \in Record
      BY <1>1, <2>3 DEF PublishRecord, TInv, HostType
    <3>2. Head(batch).task \in Tasks
      BY <3>1 DEF Record
    <3> QED BY <1>2, <2>3, <3>2 DEF PublishRecord
  <2>4. CASE Commit
    BY <2>4 DEF Commit
  <2>5. CASE CancelNewPark \/ LifecycleEnds
    BY <2>5 DEF CancelNewPark, LifecycleEnds, hostVars
  <2>6. CASE CancelTarget \/ Followup \/ PublishArm \/ PublishNothing
    BY <2>6 DEF CancelTarget, Followup, PublishArm, PublishNothing
  <2> QED BY <1>5, <2>1, <2>2, <2>3, <2>4, <2>5, <2>6, Zenon DEF Host
<1>6. CASE TimerFires \/ Tick \/ UNCHANGED vars
  BY <1>6 DEF TimerFires, Tick, vars, hostVars
<1> QED BY <1>3, <1>4, <1>5, <1>6, Zenon DEF Next

\* Types of the whole state, at every step of every entry (wait_park.rs and the
\* host's settle).
THEOREM WaitsTyped == Spec => []TypeOK
<1>1. Init => delivered \subseteq Tasks
  BY DEF Init
<1>2. Base /\ delivered \subseteq Tasks /\ [Next]_vars => (delivered \subseteq Tasks)'
  BY DeliveredStep
<1>3. Base /\ delivered \subseteq Tasks => TypeOK
  BY TypesHold DEF Base
<1> QED BY <1>1, <1>2, <1>3, Invariance, PTL DEF Spec

\* A call that blocks is answered exactly once: its answer is in one place from
\* the park to the wake (Parks::park, drain, and the host's publication), through
\* nested settles, cancellations, stops and exits.
THEOREM AnswersComeOnce == Spec => []AnsweredOnce
<1>1. Base /\ AnswerInv => AnsweredOnce
  BY OneAnswer
<1> QED BY <1>1, Invariance, PTL

\* When an entry ends nothing is left for an event that may never come: no
\* decision, no notice, no pin of a finished call (kernel_drain_wakeup_events
\* and kernel_drain_wait_completions).
THEOREM EntriesSettle == Spec => []SettledWhenIdle
<1>1. Base => SettledWhenIdle
  BY IdleFacts DEF SettledWhenIdle, AtRest
<1> QED BY <1>1, Invariance, PTL

-----------------------------------------------------------------------------
(* The deadline timer.                                                     *)

\* Between entries, and when all is published, the timer covers the deadlines.
LEMMA NothingToArm ==
  ASSUME TimerInv, batch = <<>>, ctl.pc \in {"idle", "publish"}
  PROVE  Covered
BY DEF TimerInv, Rearming, Passing

\* Fewer parks need no earlier timer.
LEMMA StillCovered ==
  ASSUME Covered, parks' \subseteq parks, UNCHANGED <<timerDue, now>>
  PROVE  Covered'
BY DEF Covered

\* A decision only takes parks away.
LEMMA DecidedFewer ==
  ASSUME UNCHANGED parkVars \/ Decided \/ TransferDecided
  PROVE  parks' \subseteq parks
BY DEF parkVars, Decided, TransferDecided, Decision

\* A pass goes on to its end.
LEMMA PassGoesOn ==
  ASSUME ctl \in Control,
         \/ AnnounceExits \/ ChildRound \/ SettleChildWait \/ ChildRoundEnds
         \/ SettleSignalWait \/ SignalWaitsEnd \/ RetryRound \/ SettleRetryWait \/ RetryRoundEnds
         \/ Expire \/ Sweep
  PROVE  /\ ctl'.pass = ctl.pass /\ ctl'.pc \in Passing \cup {"out", "lifecycle"}
         /\ ctl.pass = "drain" => ctl'.pc \in Passing \cup {"out"}
<1>1. CASE AnnounceExits \/ ChildRoundEnds \/ SignalWaitsEnd \/ RetryRoundEnds \/ Expire
  BY <1>1 DEF AnnounceExits, ChildRoundEnds, SignalWaitsEnd, RetryRoundEnds, Expire, At, Control, Passing
<1>2. CASE ChildRound \/ RetryRound
  <2>1. \E pc \in {"children", "signal", "retrying", "expire", "sweep"} : ctl' = [ctl EXCEPT !.at = 0, !.pc = pc]
    BY <1>2 DEF ChildRound, RetryRound
  <2> QED BY <2>1 DEF Control, Passing
<1>3. CASE SettleChildWait \/ SettleRetryWait
  <2>1. ctl.pc \in {"children", "retrying"} /\ \E n : ctl' = [ctl EXCEPT !.at = n]
    BY <1>3 DEF SettleChildWait, SettleRetryWait
  <2> QED BY <2>1 DEF Control, Passing
<1>4. CASE SettleSignalWait
  BY <1>4 DEF SettleSignalWait, Passing
<1>5. CASE Sweep
  BY <1>5 DEF Sweep, At, Control
<1> QED BY <1>1, <1>2, <1>3, <1>4, <1>5

\* What the host still has to arm stays in the batch when another record goes.
LEMMA MarkStays ==
  ASSUME HostType, batch # <<>>, Head(batch) # ArmMark, batch' = Tail(batch),
         \E i \in DOMAIN batch : batch[i] = ArmMark
  PROVE  \E i \in DOMAIN batch' : batch'[i] = ArmMark
<1>1. PICK q, m : q = batch /\ m = ArmMark
  OBVIOUS
<1>2. q \in Seq(Record \cup {m}) /\ q # <<>> /\ Head(q) # m /\ batch' = Tail(q)
  BY <1>1 DEF HostType
<1>3. PICK i \in DOMAIN q : q[i] = m
  BY <1>1
<1>4. i \in 2..Len(q)
  BY <1>2, <1>3
<1>5. i - 1 \in DOMAIN Tail(q) /\ Tail(q)[i - 1] = m
  BY <1>2, <1>3, <1>4
<1> QED BY <1>1, <1>2, <1>5

\* System calls are made between entries.
LEMMA CallsEnterIdle ==
  ASSUME NEW t \in Tasks, SystemCall(t)
  PROVE  ctl.pc = "idle"
BY DEF SystemCall, FutexWait, Sleep, Suspend, SigTimedWait, WaitChild, Transfer, Close, FutexWake,
       SigProcMask, FinishMaskWait, ThreadExit, Exit, Kill, Tkill, Stop, Continue, Terminate,
       Cancel, Enters

\* A system call parks, or leaves the timer with fewer parks to cover.
LEMMA CallTimer ==
  ASSUME Base, Covered, NEW t \in Tasks, SystemCall(t)
  PROVE  ctl.pc = "idle" /\ TimerInv'
<1>1. TInv
  BY DEF Base
<1>2. ASSUME Answered(t), UNCHANGED parkVars \/ Decided PROVE TimerInv'
  <2>1. UNCHANGED <<timerDue, now>>
    BY <1>2 DEF Answered, Answer, hostVars
  <2> QED BY <1>2, <2>1, DecidedFewer, StillCovered DEF TimerInv
<1>3. CASE \/ FutexWait(t) \/ Sleep(t) \/ Suspend(t) \/ SigTimedWait(t) \/ WaitChild(t)
           \/ \E end \in Ends : Transfer(t, end)
  <2>1. ctl.pc = "idle" /\ ((Answered(t) /\ UNCHANGED parkVars) \/ Sleeping(t))
    BY <1>3, CallOutcome
  <2>2. ASSUME Sleeping(t) PROVE TimerInv'
    <3>1. \E pc \in {"followup", "cancelnew"} : ctl' = [ctl EXCEPT !.pc = pc, !.caller = t]
      BY <2>2 DEF Sleeping, Parked, ParkTask
    <3>2. ctl'.pc \in {"followup", "cancelnew"}
      BY <1>1, <3>1 DEF TInv, ControlType, Control
    <3> QED BY <3>2 DEF TimerInv, Rearming
  <2> QED BY <1>2, <2>1, <2>2
<1>4. CASE \/ \E end \in Ends : Close(t, end)
           \/ \E s \in Sig, p \in Pids : Kill(t, p, s)
           \/ \E s \in Sig, u \in Tasks : Tkill(t, u, s)
           \/ SigProcMask(t) \/ FinishMaskWait(t)
           \/ \E p \in Pids : Stop(t, p) \/ Continue(t, p)
  BY <1>2, <1>4, PlainOutcome
<1>5. CASE FutexWake(t)
  <2>1. Decided
    BY <1>5, WakeKeeps DEF Decided
  <2>2. ctl.pc = "idle" /\ Answered(t)
    BY <1>5 DEF FutexWake, Enters, Answered
  <2> QED BY <1>2, <2>1, <2>2
<1>6. CASE ThreadExit(t)
  <2>1. Decided
    BY <1>6, ThreadExitKeeps DEF Decided
  <2>2. ctl.pc = "idle" /\ UNCHANGED <<timerDue, now>>
    BY <1>6 DEF ThreadExit, Enters, Retire
  <2> QED BY <2>1, <2>2, DecidedFewer, StillCovered DEF TimerInv
<1>7. CASE Exit(t) \/ \E p \in Pids : Terminate(t, p)
  <2>1. ctl.pc = "idle" /\ UNCHANGED <<timerDue, now>> /\ parks' \subseteq parks
    BY <1>7 DEF Exit, Terminate, Exited, RetireProcess, Enters, Retire
  <2> QED BY <2>1, StillCovered DEF TimerInv
<1>8. CASE \E u \in Tasks : Cancel(t, u)
  <2>1. ctl.pc = "idle" /\ UNCHANGED <<timerDue, now>> /\ parks' \subseteq parks
    BY <1>8 DEF Cancel, Enters, parkVars, worldVars
  <2> QED BY <2>1, StillCovered DEF TimerInv
<1>9. \/ FutexWait(t) \/ Sleep(t) \/ Suspend(t) \/ SigTimedWait(t) \/ WaitChild(t)
      \/ (\E end \in Ends : Transfer(t, end)) \/ (\E end \in Ends : Close(t, end))
      \/ FutexWake(t) \/ SigProcMask(t) \/ FinishMaskWait(t) \/ ThreadExit(t) \/ Exit(t)
      \/ (\E s \in Sig, p \in Pids : Kill(t, p, s)) \/ (\E s \in Sig, u \in Tasks : Tkill(t, u, s))
      \/ (\E p \in Pids : Stop(t, p) \/ Continue(t, p)) \/ (\E p \in Pids : Terminate(t, p))
      \/ (\E u \in Tasks : Cancel(t, u))
  BY Zenon DEF SystemCall
<1> QED BY <1>3, <1>4, <1>5, <1>6, <1>7, <1>8, <1>9, Zenon

\* Every step keeps the timer, or leaves it to be armed.
LEMMA TimerStep ==
  ASSUME Base, TimerInv, [Next]_vars
  PROVE  TimerInv'
<1>1. TInv /\ PassInv /\ ctl \in Control /\ HostType /\ ParkType
  BY DEF Base, FlowInv, TInv, ControlType
<1>2. ASSUME parks' \subseteq parks, UNCHANGED <<timerDue, now, batch>>,
             ctl.pc \notin {"followup", "cancelnew"},
             ctl.pass = "drain" /\ ctl.pc \in Passing \cup {"out"} =>
               ctl'.pass = "drain" /\ ctl'.pc \in Passing \cup {"out"}
      PROVE  TimerInv'
  BY <1>2, StillCovered DEF TimerInv, Rearming
<1>3. CASE \E t \in Tasks : SystemCall(t)
  <2>1. PICK t \in Tasks : SystemCall(t)
    BY <1>3
  <2>2. ctl.pc = "idle"
    BY <2>1, CallsEnterIdle
  <2>3. Covered
    BY <1>1, <2>2, NothingToArm DEF PassInv
  <2> QED BY <2>1, <2>3, CallTimer
<1>4. CASE \/ AnnounceExits \/ ChildRound \/ SettleChildWait \/ ChildRoundEnds
           \/ SettleSignalWait \/ SignalWaitsEnd \/ RetryRound \/ SettleRetryWait \/ RetryRoundEnds
           \/ Expire \/ Sweep
  <2>1. ctl'.pass = ctl.pass /\ (ctl.pass = "drain" => ctl'.pc \in Passing \cup {"out"})
    BY <1>1, <1>4, PassGoesOn
  <2>2. UNCHANGED <<timerDue, now, batch>> /\ ctl.pc \notin {"followup", "cancelnew"}
    BY <1>4 DEF AnnounceExits, ChildRound, SettleChildWait, ChildRoundEnds, SettleSignalWait, SignalWaitsEnd,
                RetryRound, SettleRetryWait, RetryRoundEnds, Expire, Sweep, hostVars, worldVars
  <2>3. parks' \subseteq parks
    <3>1. CASE \/ AnnounceExits \/ ChildRound \/ ChildRoundEnds \/ SignalWaitsEnd \/ RetryRound
               \/ RetryRoundEnds
      BY <3>1 DEF AnnounceExits, ChildRound, ChildRoundEnds, SignalWaitsEnd, RetryRound, RetryRoundEnds,
                  parkVars
    <3>2. CASE SettleChildWait
      BY <3>2, ChildWaitKeeps, DecidedFewer DEF Decided
    <3>3. CASE SettleSignalWait \/ Expire \/ Sweep
      BY <3>3, SignalWaitKeeps, ExpireKeeps, SweepKeeps, DecidedFewer
    <3>4. CASE SettleRetryWait
      BY <3>4, RetryWaitKeeps, DecidedFewer
    <3> QED BY <1>4, <3>1, <3>2, <3>3, <3>4
  <2> QED BY <1>2, <2>1, <2>2, <2>3
<1>5. CASE CollectRecords
  <2>1. PICK out, rest : Collected(out, rest)
    BY <1>5, CollectPage
  <2>2. CASE ctl'.pc = "announce" /\ ctl'.pass = "drain"
    BY <2>2 DEF TimerInv, Rearming, Passing
  <2>3. CASE batch' = (fresh \o out) \o <<ArmMark>> \o batch
    <3>1. PICK a, b, c : a = fresh \o out /\ b = <<ArmMark>> /\ c = batch
      OBVIOUS
    <3>2. a \in Seq(Record) /\ a \in Seq(Mixed) /\ b \in Seq(Mixed) /\ c \in Seq(Mixed)
      <4>1. fresh \in Seq(Record) /\ out \in Seq(Record)
        BY <1>1, <2>1 DEF HostType, Collected
      <4>2. a \in Seq(Record)
        BY <3>1, <4>1
      <4> QED BY <1>1, <3>1, <4>2, PartsTyped, EmptyParts DEF Mixed
    <3>3. Range(a \o b \o c) = Range(a) \cup Range(b) \cup Range(c)
      BY <3>2, Parts
    <3>4. ArmMark \in Range(batch')
      BY <2>3, <3>1, <3>3, EmptyParts
    <3>5. \E i \in DOMAIN batch' : batch'[i] = ArmMark
      BY <3>4 DEF Range
    <3> QED BY <3>5 DEF TimerInv, Rearming
  <2> QED BY <2>1, <2>2, <2>3 DEF Collected
<1>6. CASE CancelNewPark
  <2>1. ctl'.pc = "followup"
    BY <1>1, <1>6 DEF CancelNewPark, At, Control
  <2> QED BY <2>1 DEF TimerInv, Rearming
<1>7. CASE CancelTarget
  <2>1. Covered /\ UNCHANGED <<timerDue, now>>
    BY <1>7, NothingToArm DEF CancelTarget, worldVars
  <2>2. parks' \subseteq parks
    BY <1>7, CancelTargetKeeps, DecidedFewer
  <2> QED BY <2>1, <2>2, StillCovered DEF TimerInv
<1>8. CASE Followup
  <2>1. parks' \subseteq parks /\ UNCHANGED now
    BY <1>8, FollowupKeeps, DecidedFewer DEF Followup, worldVars
  <2>2. CASE BeginPass("drain")
    <3>1. ctl'.pc = "announce" /\ ctl'.pass = "drain"
      BY <1>1, <2>2, PassMoved DEF Moved
    <3> QED BY <3>1 DEF TimerInv, Rearming, Passing
  <2>3. CASE ArmTimer
    <3>1. \A w \in parks : w.deadline # None =>
            timerDue' # None /\ (timerDue' < w.deadline + Millisecond \/ timerDue' <= now)
      BY <1>1, <2>3, ArmedTimer
    <3> QED BY <2>1, <3>1 DEF TimerInv, Covered
  <2> QED BY <1>8, <2>2, <2>3 DEF Followup
<1>9. CASE Return \/ Resume \/ LifecycleEnds
  <2>1. UNCHANGED <<parks, timerDue, now, batch>> /\ ctl.pc \in {"return", "returnsuspend", "lifecycle"}
    BY <1>9 DEF Return, Resume, LifecycleEnds, parkVars, worldVars, hostVars
  <2> QED BY <1>2, <2>1 DEF Passing
<1>10. CASE PublishArm
  <2>1. \A w \in parks : w.deadline # None =>
          timerDue' # None /\ (timerDue' < w.deadline + Millisecond \/ timerDue' <= now)
    BY <1>1, <1>10, ArmedTimer DEF PublishArm
  <2>2. UNCHANGED <<parks, now>>
    BY <1>10 DEF PublishArm, parkVars, worldVars
  <2> QED BY <2>1, <2>2 DEF TimerInv, Covered
<1>11. CASE PublishNothing \/ PublishRecord
  <2>1. /\ UNCHANGED <<parks, timerDue, now>> /\ ctl.pc = "publish"
        /\ batch # <<>> /\ Head(batch) # ArmMark /\ batch' = Tail(batch)
    BY <1>11 DEF PublishNothing, PublishRecord, parkVars, worldVars
  <2>2. Covered \/ \E i \in DOMAIN batch : batch[i] = ArmMark
    BY <2>1 DEF TimerInv, Rearming, Passing
  <2>3. Covered' \/ \E i \in DOMAIN batch' : batch'[i] = ArmMark
    BY <1>1, <2>1, <2>2, MarkStays, StillCovered
  <2> QED BY <2>3 DEF TimerInv, Rearming
<1>12. CASE Commit
  <2>1. Covered /\ UNCHANGED <<timerDue, now, parks>>
    BY <1>12, NothingToArm DEF Commit, worldVars, parkVars
  <2> QED BY <2>1, StillCovered DEF TimerInv
<1>13. CASE TimerFires
  <2>1. ctl'.pc = "announce" /\ ctl'.pass = "drain"
    BY <1>1, <1>13, PassMoved DEF TimerFires, Moved
  <2> QED BY <2>1 DEF TimerInv, Rearming, Passing
<1>14. CASE Tick
  <2>1. UNCHANGED <<parks, timerDue, batch, ctl>> /\ now' = now + 1
    BY <1>14 DEF Tick, parkVars, hostVars
  <2>2. timerDue \in Nat \cup {None} /\ now \in Nat
    BY <1>1, BoundAssumption DEF HostType
  <2>3. Covered => Covered'
    BY <2>1, <2>2 DEF Covered, None
  <2> QED BY <2>1, <2>3 DEF TimerInv, Rearming
<1>15. CASE UNCHANGED vars
  BY <1>15 DEF vars, TimerInv, Covered, Rearming, parkVars, worldVars, hostVars
<1> QED BY <1>3, <1>4, <1>5, <1>6, <1>7, <1>8, <1>9, <1>10, <1>11, <1>12, <1>13, <1>14, <1>15, Zenon
        DEF Next, Settle, Host

\* The one host timer is armed less than a millisecond after the earliest deadline,
\* at the latest, whenever the kernel is at rest: with the rounding and the longest
\* delay of armKernelWaitTimer, over what kernel_wait_next_timeout_ns reports.
THEOREM TimerIsInTime == Spec => []TimerCoversDeadlines
<1>1. Init => TimerInv
  BY DEF Init, TimerInv, Covered
<1>2. Base /\ TimerInv /\ [Next]_vars => TimerInv'
  BY TimerStep
<1>3. Base /\ TimerInv => TimerCoversDeadlines
  <2> SUFFICES ASSUME Base, TimerInv, AtRest PROVE Covered
    BY DEF TimerCoversDeadlines, Covered
  <2> QED BY IdleFacts, NothingToArm DEF AtRest
<1> QED BY <1>1, <1>2, <1>3, Invariance, PTL DEF Spec

-----------------------------------------------------------------------------
(* What each call does to the notes and to the parks.                      *)

\* A call of kind `kind` with the notes `d` answers, or parks.
Outcome(t, kind, d) ==
  \/ Answered(t) /\ UNCHANGED parkVars /\ dirty' = d
  \/ \E deadline, set : Parked(t, kind, deadline, set, d)

\* The notes of a call that parks.
LEMMA ParkedNotes ==
  ASSUME TInv, NEW t \in Tasks, NEW kind, NEW deadline, NEW set, NEW d \in Dirty,
         Parked(t, kind, deadline, set, d)
  PROVE  /\ dirty'.signals = d.signals /\ dirty'.children = d.children /\ dirty'.notices = d.notices
         /\ dirty'.pids = d.pids \cup {PidOf[t]}
         /\ guest' = [guest EXCEPT ![t] = "blocked"] /\ ctl'.pc \in {"followup", "cancelnew"}
         /\ \E w : parks' = parks \cup {w} /\ w.task = t /\ w.kind = kind /\ w.set = set
<1>1. PICK rem \in BOOLEAN, point \in BOOLEAN : ParkTask(t, kind, deadline, set, rem, point, d)
  BY DEF Parked
<1>2. PICK w : w = [gen |-> nextGen, task |-> t, kind |-> kind, deadline |-> deadline,
                    set |-> set, rem |-> rem, point |-> point]
  OBVIOUS
<1>3. /\ parks' = parks \cup {w} /\ w.task = t /\ w.kind = kind /\ w.set = set
      /\ guest' = [guest EXCEPT ![t] = "blocked"] /\ dirty' = [d EXCEPT !.pids = @ \cup {PidOf[t]}]
  BY <1>1, <1>2 DEF ParkTask
<1>4. \E pc \in {"followup", "cancelnew"} : ctl' = [ctl EXCEPT !.pc = pc, !.caller = t]
  BY <1>1 DEF ParkTask
<1>5. ctl'.pc \in {"followup", "cancelnew"}
  BY <1>4 DEF TInv, ControlType, Control
<1>6. /\ dirty'.signals = d.signals /\ dirty'.children = d.children /\ dirty'.notices = d.notices
      /\ dirty'.pids = d.pids \cup {PidOf[t]}
  BY <1>3 DEF Dirty
<1> QED BY <1>3, <1>5, <1>6

\* Futex waits and sleeps.
LEMMA SleepNotes ==
  ASSUME NEW t \in Tasks, FutexWait(t) \/ Sleep(t)
  PROVE  /\ \E kind \in {"futex", "sleep"} : Outcome(t, kind, dirty)
         /\ UNCHANGED <<shared, directed, blocked, proc>>
<1>1. CASE FutexWait(t)
  <2>1. \/ Answer(t, "return") /\ UNCHANGED <<parkVars, dirty>>
        \/ \E deadline : Parked(t, "futex", deadline, {}, dirty)
    BY <1>1 DEF FutexWait, Parked
  <2> QED BY <1>1, <2>1 DEF FutexWait, Outcome, Answered, sigVars
<1>2. CASE Sleep(t)
  <2>1. PICK deadline \in Deadlines \ {None}, rem \in BOOLEAN :
          IF deadline <= now THEN Answer(t, "return") /\ UNCHANGED <<parkVars, dirty>>
          ELSE ParkTask(t, "sleep", deadline, {}, rem, TRUE, dirty)
    BY <1>2 DEF Sleep
  <2>2. \/ Answer(t, "return") /\ UNCHANGED <<parkVars, dirty>>
        \/ Parked(t, "sleep", deadline, {}, dirty)
    BY <2>1 DEF Parked
  <2> QED BY <1>2, <2>2 DEF Sleep, Outcome, Answered, sigVars
<1> QED BY <1>1, <1>2

\* sigsuspend.
LEMMA SuspendNotes ==
  ASSUME NEW t \in Tasks, Suspend(t)
  PROVE  /\ \E mask \in SUBSET Sig : /\ Outcome(t, "suspend", MaskNote(t, mask, dirty))
                                     /\ blocked' = [blocked EXCEPT ![t] = mask]
         /\ UNCHANGED <<shared, directed, proc>>
<1>1. PICK mask \in Masks :
        /\ blocked' = [blocked EXCEPT ![t] = mask]
        /\ IF Pending(t) \ mask # {}
           THEN Answer(t, "returnsuspend") /\ dirty' = MaskNote(t, mask, dirty) /\ UNCHANGED parkVars
           ELSE ParkTask(t, "suspend", None, {}, FALSE, TRUE, MaskNote(t, mask, dirty))
  BY DEF Suspend
<1>2. \/ Answer(t, "returnsuspend") /\ dirty' = MaskNote(t, mask, dirty) /\ UNCHANGED parkVars
      \/ Parked(t, "suspend", None, {}, MaskNote(t, mask, dirty))
  BY <1>1 DEF Parked
<1>3. Outcome(t, "suspend", MaskNote(t, mask, dirty))
  BY <1>2 DEF Outcome, Answered
<1>4. mask \in SUBSET Sig
  BY SignalAssumption
<1> QED BY <1>1, <1>3, <1>4 DEF Suspend

\* sigtimedwait: it parks only when no signal of its set is pending.
LEMMA SigTimedNotes ==
  ASSUME SignalType, NEW t \in Tasks, SigTimedWait(t)
  PROVE  /\ UNCHANGED <<blocked, proc>>
         /\ \/ /\ Answered(t) /\ UNCHANGED <<parkVars, dirty>>
               /\ \A p \in Pids : shared'[p] \subseteq shared[p]
               /\ \A u \in Tasks : directed'[u] \subseteq directed[u]
            \/ /\ UNCHANGED <<shared, directed>>
               /\ \E deadline, set : /\ Parked(t, "sigtimed", deadline, set, dirty)
                                     /\ Pending(t) \cap set = {}
<1>1. PICK set \in Masks \ {{}}, deadline \in Deadlines :
        LET ready == Pending(t) \cap set
        IN CASE ready # {} -> /\ Consume(t, {Lowest(ready)})
                              /\ Answer(t, "return") /\ UNCHANGED <<parkVars, dirty>>
             [] ready = {} /\ deadline = now -> /\ Answer(t, "return")
                                                /\ UNCHANGED <<shared, directed, parkVars, dirty>>
             [] OTHER -> /\ ParkTask(t, "sigtimed", deadline, set, FALSE, TRUE, dirty)
                         /\ UNCHANGED <<shared, directed>>
  BY DEF SigTimedWait
<1>2. \/ (\E S : Consume(t, S)) /\ Answer(t, "return") /\ UNCHANGED <<parkVars, dirty>>
      \/ Answer(t, "return") /\ UNCHANGED <<shared, directed, parkVars, dirty>>
      \/ /\ ParkTask(t, "sigtimed", deadline, set, FALSE, TRUE, dirty) /\ Pending(t) \cap set = {}
         /\ UNCHANGED <<shared, directed>>
  BY <1>1
<1>3. CASE (\E S : Consume(t, S)) /\ Answer(t, "return") /\ UNCHANGED <<parkVars, dirty>>
  <2>1. /\ \A p \in Pids : shared'[p] \subseteq shared[p]
        /\ \A u \in Tasks : directed'[u] \subseteq directed[u]
    BY <1>3, ConsumeTyped
  <2> QED BY <1>3, <2>1 DEF SigTimedWait, Answered
<1>4. CASE Answer(t, "return") /\ UNCHANGED <<shared, directed, parkVars, dirty>>
  BY <1>4 DEF SigTimedWait, Answered
<1>5. CASE /\ ParkTask(t, "sigtimed", deadline, set, FALSE, TRUE, dirty) /\ Pending(t) \cap set = {}
           /\ UNCHANGED <<shared, directed>>
  <2>1. Parked(t, "sigtimed", deadline, set, dirty)
    BY <1>5 DEF Parked
  <2> QED BY <1>5, <2>1 DEF SigTimedWait
<1> QED BY <1>2, <1>3, <1>4, <1>5

\* read and write.
LEMMA TransferNotes ==
  ASSUME TInv, NEW t \in Tasks, NEW end \in Ends, Transfer(t, end)
  PROVE  /\ UNCHANGED <<directed, blocked, proc>> /\ (SigPipe \notin Sig => shared' = shared)
         /\ \E d \in Dirty : SameNotes(dirty, d) /\ d.signals = dirty.signals /\ Outcome(t, end, d)
<1>1. PICK value : value = Attempted(end)
  OBVIOUS
<1>2. value \in {"ok", "EPIPE", "block"} /\ PidOf[t] \in Pids /\ dirty \in Dirty
  BY <1>1, TaskAssumption DEF Attempted, TInv, DirtyType
<1>3. \/ /\ value # "block" /\ Transferred(PidOf[t], end, value) /\ Answer(t, "return")
         /\ UNCHANGED <<parkVars, pins>>
      \/ Answer(t, "return") /\ UNCHANGED <<shared, parkVars, dirty, pins, pipe>>
      \/ /\ \E deadline \in Deadlines \ {now} : Parked(t, end, deadline, {}, dirty)
         /\ UNCHANGED shared
  BY <1>1 DEF Transfer, Parked
<1>4. UNCHANGED <<directed, blocked, proc>> /\ SameNotes(dirty, dirty)
  BY DEF Transfer, SameNotes
<1>5. CASE /\ value # "block" /\ Transferred(PidOf[t], end, value) /\ Answer(t, "return")
           /\ UNCHANGED <<parkVars, pins>>
  <2>1. /\ dirty' \in Dirty /\ SameNotes(dirty, dirty') /\ dirty'.signals = dirty.signals
        /\ (SigPipe \notin Sig => shared' = shared)
    BY <1>1, <1>2, <1>5, TransferTyped DEF TInv, DirtyType
  <2>2. Outcome(t, end, dirty')
    BY <1>5 DEF Outcome, Answered
  <2> QED BY <1>4, <2>1, <2>2
<1>6. CASE Answer(t, "return") /\ UNCHANGED <<shared, parkVars, dirty, pins, pipe>>
  <2>1. Outcome(t, end, dirty)
    BY <1>6 DEF Outcome, Answered
  <2> QED BY <1>2, <1>4, <1>6, <2>1
<1>7. CASE (\E deadline \in Deadlines \ {now} : Parked(t, end, deadline, {}, dirty)) /\ UNCHANGED shared
  <2>1. Outcome(t, end, dirty)
    BY <1>7 DEF Outcome
  <2> QED BY <1>2, <1>4, <1>7, <2>1
<1> QED BY <1>3, <1>5, <1>6, <1>7

\* Without a notice, the announcement changes nothing.
LEMMA NothingTold ==
  ASSUME TInv, dirty.notices = {}
  PROVE  /\ SharedAfterNotices = shared /\ ProcAfterNotices = proc /\ DirtyAfterNotices \in Dirty
         /\ SameNotes(dirty, DirtyAfterNotices) /\ DirtyAfterNotices.signals = dirty.signals
<1>1. Told = {} /\ AutoReaped = {}
  BY DEF AutoReaped, Told
<1>2. SharedAfterNotices = shared /\ ProcAfterNotices = proc
  BY <1>1 DEF SharedAfterNotices, ProcAfterNotices, TInv, SignalType, WorldType
<1>3. DirtyAfterNotices = [dirty EXCEPT !.notices = {}, !.children = @ \/ FALSE]
  BY <1>1 DEF DirtyAfterNotices
<1>4. dirty \in Dirty /\ dirty.children \in BOOLEAN
  BY DEF TInv, DirtyType, Dirty
<1>5. DirtyAfterNotices = dirty
  BY <1>3, <1>4 DEF Dirty
<1> QED BY <1>2, <1>4, <1>5 DEF SameNotes

\* waitpid, between entries.
LEMMA WaitChildNotes ==
  ASSUME Base, NEW t \in Tasks, WaitChild(t)
  PROVE  /\ UNCHANGED <<shared, directed, blocked>>
         /\ \/ /\ Answered(t) /\ UNCHANGED parkVars /\ SameNotes([dirty EXCEPT !.children = TRUE], dirty')
               /\ dirty'.signals = dirty.signals
               /\ \E child \in Pids : proc[child] = "exited" /\ proc' = [proc EXCEPT ![child] = "reaped"]
            \/ /\ UNCHANGED proc /\ Answered(t) /\ UNCHANGED parkVars /\ SameNotes(dirty, dirty')
               /\ dirty'.signals = dirty.signals
            \/ /\ UNCHANGED proc /\ PollChild(PidOf[t], proc) = NoTask
               /\ \E d \in Dirty : /\ SameNotes(dirty, d) /\ d.signals = dirty.signals
                                   /\ Parked(t, "child", None, {}, d)
<1>1. TInv /\ ctl.pc = "idle" /\ dirty \in Dirty
  BY DEF Base, TInv, DirtyType, WaitChild, Enters
<1>2. dirty.notices = {}
  BY <1>1, IdleFacts
<1>3. PICK d : d = DirtyAfterNotices
  OBVIOUS
<1>4. /\ SharedAfterNotices = shared /\ ProcAfterNotices = proc /\ d \in Dirty
      /\ SameNotes(dirty, d) /\ d.signals = dirty.signals
  BY <1>1, <1>2, <1>3, NothingTold
<1>5. UNCHANGED <<shared, directed, blocked>>
  BY <1>4 DEF WaitChild
<1>6. PICK child : child = PollChild(PidOf[t], proc)
  OBVIOUS
<1>7. \/ /\ child \in Pids /\ proc' = [proc EXCEPT ![child] = "reaped"]
         /\ dirty' = [d EXCEPT !.children = TRUE] /\ Answer(t, "return") /\ UNCHANGED parkVars
      \/ /\ proc' = proc /\ dirty' = d /\ Answer(t, "return") /\ UNCHANGED parkVars
      \/ /\ child = NoTask /\ proc' = proc /\ Parked(t, "child", None, {}, d)
  BY <1>3, <1>4, <1>6 DEF WaitChild, Parked
<1>8. CASE /\ child \in Pids /\ proc' = [proc EXCEPT ![child] = "reaped"]
           /\ dirty' = [d EXCEPT !.children = TRUE] /\ Answer(t, "return") /\ UNCHANGED parkVars
  <2>1. SameNotes([dirty EXCEPT !.children = TRUE], dirty') /\ dirty'.signals = dirty.signals
    BY <1>1, <1>4, <1>8 DEF SameNotes, Dirty
  <2>2. proc[child] = "exited"
    BY <1>1, <1>6, <1>8, Polled, TaskAssumption DEF TInv, WorldType
  <2> QED BY <1>5, <1>8, <2>1, <2>2 DEF Answered
<1>9. CASE proc' = proc /\ dirty' = d /\ Answer(t, "return") /\ UNCHANGED parkVars
  BY <1>4, <1>5, <1>9 DEF Answered
<1>10. CASE child = NoTask /\ proc' = proc /\ Parked(t, "child", None, {}, d)
  BY <1>4, <1>5, <1>6, <1>10
<1> QED BY <1>7, <1>8, <1>9, <1>10

\* The calls that leave the parks, and mostly the notes, alone.
LEMMA PlainNotes ==
  ASSUME TInv, NEW t \in Tasks,
         \/ \E end \in Ends : Close(t, end)
         \/ \E s \in Sig, p \in Pids : Kill(t, p, s)
         \/ \E s \in Sig, u \in Tasks : Tkill(t, u, s)
         \/ SigProcMask(t) \/ FinishMaskWait(t) \/ FutexWake(t) \/ ThreadExit(t)
         \/ \E u \in Tasks : Cancel(t, u)
  PROVE  SameNotes(dirty, dirty') /\ (dirty.signals => dirty'.signals) /\ proc' = proc
<1>1. dirty \in Dirty /\ WorldType /\ SameNotes(dirty, dirty) /\ SignalType /\ DirtyType
  BY DEF TInv, DirtyType, SameNotes
<1>2. SameNotes(dirty, NoteSignal(dirty)) /\ (dirty.signals => NoteSignal(dirty).signals)
  BY <1>1, SignalNoted
<1>3. ASSUME dirty' = dirty \/ dirty' = NoteSignal(dirty)
      PROVE  SameNotes(dirty, dirty') /\ (dirty.signals => dirty'.signals)
  BY <1>1, <1>2, <1>3
<1>4. CASE \E end \in Ends : Close(t, end)
  <2>1. proc' = proc /\ (dirty' = dirty \/ dirty' = NotePipe(dirty))
    BY <1>4 DEF Close, CloseEnds
  <2> QED BY <1>1, <2>1, PipeNoted
<1>5. CASE (\E s \in Sig, p \in Pids : Kill(t, p, s)) \/ \E s \in Sig, u \in Tasks : Tkill(t, u, s)
  BY <1>3, <1>5 DEF Kill, Tkill
<1>6. CASE SigProcMask(t)
  <2>1. proc' = proc /\ \E mask : dirty' = MaskNote(t, mask, dirty)
    BY <1>6 DEF SigProcMask
  <2> QED BY <1>1, <1>3, <2>1, MaskNoted
<1>7. CASE FinishMaskWait(t)
  <2>1. proc' = proc /\ \E mask : dirty' = MaskNote(t, mask, dirty)
    BY <1>7 DEF FinishMaskWait, RestoreMask
  <2> QED BY <1>1, <1>3, <2>1, MaskNoted
<1>8. CASE FutexWake(t) \/ \E u \in Tasks : Cancel(t, u)
  BY <1>3, <1>8 DEF FutexWake, Cancel, worldVars
<1>9. CASE ThreadExit(t)
  BY <1>3, <1>9 DEF ThreadExit
<1> QED BY <1>4, <1>5, <1>6, <1>7, <1>8, <1>9

\* The end of a process.
LEMMA ExitNotes ==
  ASSUME TInv, NEW p \in Pids, Exited(p)
  PROVE  /\ proc' = [proc EXCEPT ![p] = "exited"] /\ dirty'.notices = dirty.notices \cup {p}
         /\ dirty'.children = TRUE /\ dirty'.signals = dirty.signals /\ dirty'.pids = dirty.pids
<1>1. PICK d : d = NoteExit(dirty, p)
  OBVIOUS
<1>2. /\ d \in Dirty /\ d.notices = dirty.notices \cup {p} /\ d.children = TRUE
      /\ d.signals = dirty.signals /\ d.pids = dirty.pids
  BY <1>1 DEF NoteExit, TInv, DirtyType, Dirty
<1>3. dirty' = d \/ dirty' = NotePipe(d)
  BY <1>1 DEF Exited, CloseEnds
<1> QED BY <1>2, <1>3, PipeNoted DEF SameNotes, Exited

-----------------------------------------------------------------------------
(* Waits for children.                                                     *)

\* A step that changes neither the processes nor the note of the children.
LEMMA ChildrenKept ==
  ASSUME ChildrenInv, ctl.pc # "children", proc' = proc,
         dirty'.children = dirty.children, dirty'.notices = dirty.notices,
         \A w \in parks' : w \in parks \/ w.kind # "child" \/ PollChild(PidOf[w.task], proc) = NoTask
  PROVE  ChildrenInv'
BY DEF ChildrenInv

\* A system call.
LEMMA CallChildren ==
  ASSUME Base, ChildrenInv, NEW t \in Tasks, SystemCall(t), ctl.pc = "idle"
  PROVE  ChildrenInv'
<1>1. TInv /\ dirty \in Dirty
  BY DEF Base, TInv, DirtyType
<1>2. dirty.notices = {}
  BY IdleFacts
<1>3. ASSUME NEW kind \in Kinds, kind # "child", NEW d \in Dirty, SameNotes(dirty, d), Outcome(t, kind, d),
             proc' = proc
      PROVE  ChildrenInv'
  <2>1. CASE UNCHANGED parkVars /\ dirty' = d
    BY <1>3, <2>1, ChildrenKept DEF parkVars, SameNotes
  <2>2. CASE \E deadline, set : Parked(t, kind, deadline, set, d)
    <3>1. /\ dirty'.children = d.children /\ dirty'.notices = d.notices
          /\ \E w : parks' = parks \cup {w} /\ w.kind = kind
      BY <1>1, <1>3, <2>2, ParkedNotes
    <3> QED BY <1>3, <3>1, ChildrenKept DEF SameNotes
  <2> QED BY <1>3, <2>1, <2>2 DEF Outcome
<1>4. SameNotes(dirty, dirty) /\ \A mask : MaskNote(t, mask, dirty) \in Dirty /\ SameNotes(dirty, MaskNote(t, mask, dirty))
  BY <1>1, MaskNoted DEF SameNotes
<1>5. CASE FutexWait(t) \/ Sleep(t)
  <2>1. PICK kind \in {"futex", "sleep"} : Outcome(t, kind, dirty) /\ proc' = proc
    BY <1>5, SleepNotes
  <2> QED BY <1>1, <1>3, <1>4, <2>1 DEF Kinds
<1>6. CASE Suspend(t)
  <2>1. PICK mask : Outcome(t, "suspend", MaskNote(t, mask, dirty)) /\ proc' = proc
    BY <1>6, SuspendNotes
  <2> QED BY <1>3, <1>4, <2>1 DEF Kinds
<1>7. CASE SigTimedWait(t)
  <2>1. proc' = proc /\ Outcome(t, "sigtimed", dirty)
    BY <1>1, <1>7, SigTimedNotes DEF Outcome, TInv
  <2> QED BY <1>1, <1>3, <1>4, <2>1 DEF Kinds
<1>8. CASE \E end \in Ends : Transfer(t, end)
  <2>1. PICK end \in Ends : Transfer(t, end)
    BY <1>8
  <2>2. PICK d \in Dirty : proc' = proc /\ SameNotes(dirty, d) /\ Outcome(t, end, d)
    BY <1>1, <2>1, TransferNotes
  <2> QED BY <1>3, <2>2 DEF Kinds, Ends
<1>9. CASE WaitChild(t)
  <2>1. CASE /\ SameNotes([dirty EXCEPT !.children = TRUE], dirty')
             /\ \E child \in Pids : proc' = [proc EXCEPT ![child] = "reaped"]
    <3>1. dirty'.children = TRUE /\ dirty'.notices = {}
      BY <1>1, <1>2, <2>1 DEF SameNotes, Dirty
    <3> QED BY <3>1 DEF ChildrenInv
  <2>2. CASE UNCHANGED proc /\ UNCHANGED parkVars /\ SameNotes(dirty, dirty')
    BY <2>2, ChildrenKept DEF parkVars, SameNotes
  <2>3. CASE /\ UNCHANGED proc /\ PollChild(PidOf[t], proc) = NoTask
             /\ \E d \in Dirty : SameNotes(dirty, d) /\ Parked(t, "child", None, {}, d)
    <3>1. PICK d \in Dirty : SameNotes(dirty, d) /\ Parked(t, "child", None, {}, d)
      BY <2>3
    <3>2. /\ dirty'.children = d.children /\ dirty'.notices = d.notices
          /\ \E w : parks' = parks \cup {w} /\ w.task = t
      BY <1>1, <3>1, ParkedNotes
    <3> QED BY <2>3, <3>1, <3>2, ChildrenKept DEF SameNotes
  <2> QED BY <1>9, <2>1, <2>2, <2>3, WaitChildNotes
<1>10. CASE \/ \E end \in Ends : Close(t, end)
            \/ \E s \in Sig, p \in Pids : Kill(t, p, s)
            \/ \E s \in Sig, u \in Tasks : Tkill(t, u, s)
            \/ SigProcMask(t) \/ FinishMaskWait(t) \/ FutexWake(t) \/ ThreadExit(t)
            \/ \E u \in Tasks : Cancel(t, u)
  <2>1. SameNotes(dirty, dirty') /\ proc' = proc
    BY <1>1, <1>10, PlainNotes
  <2>2. parks' \subseteq parks
    <3>1. CASE \/ \E end \in Ends : Close(t, end)
               \/ \E s \in Sig, p \in Pids : Kill(t, p, s)
               \/ \E s \in Sig, u \in Tasks : Tkill(t, u, s)
               \/ SigProcMask(t) \/ FinishMaskWait(t)
      BY <3>1, PlainOutcome DEF parkVars
    <3>2. CASE FutexWake(t) \/ ThreadExit(t)
      BY <3>2, WakeKeeps, ThreadExitKeeps, DecidedFewer DEF Decided
    <3>3. CASE \E u \in Tasks : Cancel(t, u)
      BY <3>3 DEF Cancel, parkVars
    <3> QED BY <1>10, <3>1, <3>2, <3>3, Zenon
  <2> QED BY <2>1, <2>2, ChildrenKept DEF SameNotes
<1>11. CASE \E p \in Pids : Stop(t, p) \/ Continue(t, p)
  <2>1. PICK d : d = NoteSignal(dirty)
    OBVIOUS
  <2>2. d \in Dirty /\ d.notices = {}
    BY <1>1, <1>2, <2>1, SignalNoted DEF SameNotes
  <2>3. \E c \in SUBSET Pids : dirty' = [d EXCEPT !.children = TRUE, !.continued = c]
    <3>1. d.continued \in SUBSET Pids
      BY <2>2 DEF Dirty
    <3>2. CASE \E p \in Pids : Stop(t, p)
      <4>1. dirty' = [d EXCEPT !.children = TRUE]
        BY <2>1, <3>2 DEF Stop
      <4>2. [d EXCEPT !.children = TRUE] = [d EXCEPT !.children = TRUE, !.continued = d.continued]
        BY <2>2 DEF Dirty
      <4> QED BY <3>1, <4>1, <4>2
    <3>3. CASE \E p \in Pids : Continue(t, p)
      <4>1. PICK p \in Pids : dirty' = [d EXCEPT !.children = TRUE, !.continued = @ \cup {p}]
        BY <2>1, <3>3 DEF Continue
      <4>2. d.continued \cup {p} \in SUBSET Pids
        BY <3>1
      <4> QED BY <4>1, <4>2
    <3> QED BY <1>11, <3>2, <3>3
  <2>4. dirty'.children = TRUE /\ dirty'.notices = {}
    BY <2>2, <2>3 DEF Dirty
  <2> QED BY <2>4 DEF ChildrenInv
<1>12. CASE Exit(t) \/ \E p \in Pids : Terminate(t, p)
  <2>1. PICK p \in Pids : Exited(p)
    <3>1. PidOf[t] \in Pids
      BY TaskAssumption
    <3> QED BY <1>12, <3>1 DEF Exit, Terminate
  <2>2. proc' = [proc EXCEPT ![p] = "exited"] /\ dirty'.notices = {p} /\ dirty'.children = TRUE
    BY <1>1, <1>2, <2>1, ExitNotes
  <2>3. proc'[p] = "exited"
    BY <1>1, <2>2 DEF TInv, WorldType
  <2> QED BY <2>2, <2>3 DEF ChildrenInv
<1>13. \/ FutexWait(t) \/ Sleep(t) \/ Suspend(t) \/ SigTimedWait(t) \/ WaitChild(t)
       \/ (\E end \in Ends : Transfer(t, end)) \/ (\E end \in Ends : Close(t, end))
       \/ FutexWake(t) \/ SigProcMask(t) \/ FinishMaskWait(t) \/ ThreadExit(t) \/ Exit(t)
       \/ (\E s \in Sig, p \in Pids : Kill(t, p, s)) \/ (\E s \in Sig, u \in Tasks : Tkill(t, u, s))
       \/ (\E p \in Pids : Stop(t, p) \/ Continue(t, p)) \/ (\E p \in Pids : Terminate(t, p))
       \/ (\E u \in Tasks : Cancel(t, u))
  BY Zenon DEF SystemCall
<1> QED BY <1>5, <1>6, <1>7, <1>8, <1>9, <1>10, <1>11, <1>12, <1>13, Zenon

\* The steps after the waits for children leave the notes of the children alone.
LEMMA LaterNotes ==
  ASSUME Base,
         \/ SettleSignalWait \/ SignalWaitsEnd \/ RetryRound \/ SettleRetryWait \/ RetryRoundEnds
         \/ Expire \/ Sweep \/ CollectRecords \/ Host \/ TimerFires \/ Tick
  PROVE  /\ dirty'.children = dirty.children /\ dirty'.notices = dirty.notices
         /\ proc' = proc /\ parks' \subseteq parks /\ ctl.pc # "children"
<1>1. /\ TInv /\ dirty \in Dirty /\ WorldType /\ SignalType /\ DirtyType /\ ParkType
      /\ ctl \in Control /\ (ctl.pc \in Called => ctl.caller \in Tasks)
  BY DEF Base, TInv, DirtyType, ControlType
<1>2. CASE \/ SignalWaitsEnd \/ RetryRoundEnds \/ Return \/ Resume \/ PublishArm \/ PublishNothing
           \/ PublishRecord \/ Commit \/ TimerFires \/ Tick
  BY <1>2 DEF SignalWaitsEnd, RetryRoundEnds, Return, Resume, PublishArm, PublishNothing, PublishRecord,
              Commit, TimerFires, Tick, parkVars, worldVars
<1>3. CASE RetryRound \/ LifecycleEnds
  <2>1. UNCHANGED <<parks, proc>> /\ ctl.pc # "children"
    BY <1>3 DEF RetryRound, LifecycleEnds, parkVars, worldVars
  <2>2. dirty' = [dirty EXCEPT !.pipe = FALSE] \/ dirty' = [dirty EXCEPT !.continued = {}]
    BY <1>3 DEF RetryRound, LifecycleEnds
  <2> QED BY <1>1, <2>1, <2>2 DEF Dirty
<1>4. CASE SettleSignalWait \/ Expire
  <2>1. UNCHANGED <<dirty, proc>> /\ ctl.pc # "children"
    BY <1>4 DEF SettleSignalWait, Expire, worldVars
  <2>2. parks' \subseteq parks
    BY <1>4, SignalWaitKeeps, ExpireKeeps, DecidedFewer
  <2> QED BY <2>1, <2>2
<1>5. CASE Sweep \/ Followup
  <2>1. UNCHANGED proc /\ ctl.pc # "children" /\ dirty' = [dirty EXCEPT !.signals = FALSE, !.pids = {}]
    BY <1>5 DEF Sweep, Followup, Swept, worldVars
  <2>2. parks' \subseteq parks
    BY <1>5, SweepKeeps, FollowupKeeps, DecidedFewer
  <2> QED BY <1>1, <2>1, <2>2 DEF Dirty
<1>6. CASE SettleRetryWait
  <2>1. UNCHANGED proc /\ ctl.pc # "children"
    BY <1>6 DEF SettleRetryWait
  <2>2. parks' \subseteq parks
    BY <1>6, RetryWaitKeeps, DecidedFewer
  <2>3. UNCHANGED dirty \/ dirty' = NotePipe(dirty)
    BY <1>6 DEF SettleRetryWait, Transferred
  <2> QED BY <1>1, <2>1, <2>2, <2>3, PipeNoted DEF SameNotes
<1>7. CASE CollectRecords
  <2>1. UNCHANGED <<parks, proc>> /\ ctl.pc # "children" /\ (UNCHANGED dirty \/ dirty' = NotePipe(dirty))
    BY <1>7 DEF CollectRecords, CloseEnds
  <2> QED BY <1>1, <2>1, PipeNoted DEF SameNotes
<1>8. CASE CancelNewPark
  <2>1. UNCHANGED <<proc, nextGen>> /\ ctl.pc = "cancelnew" /\ CancelLiveTask(ctl.caller) /\ ctl.caller \in Tasks
    BY <1>1, <1>8 DEF CancelNewPark, worldVars, Called
  <2>2. SameNotes(dirty, dirty')
    BY <2>1, CancelLiveTyped
  <2>3. parks' \subseteq parks
    BY <1>8, CancelNewKeeps, DecidedFewer
  <2> QED BY <2>1, <2>2, <2>3 DEF SameNotes
<1>9. CASE CancelTarget
  <2>1. UNCHANGED <<proc, nextGen>> /\ ctl.pc = "publish" /\ ctl.target \in Tasks
    BY <1>1, <1>9 DEF CancelTarget, worldVars, Control
  <2>2. CancelLiveTask(ctl.target) \/ UNCHANGED dirty
    BY <1>9 DEF CancelTarget
  <2>3. dirty'.children = dirty.children /\ dirty'.notices = dirty.notices
    BY <2>1, <2>2, CancelLiveTyped DEF SameNotes
  <2>4. parks' \subseteq parks
    BY <1>9, CancelTargetKeeps, DecidedFewer
  <2> QED BY <2>1, <2>3, <2>4
<1> QED BY <1>2, <1>3, <1>4, <1>5, <1>6, <1>7, <1>8, <1>9, Zenon DEF Host

\* A round over the waits for children.
LEMMA RoundChildren ==
  ASSUME Base, ChildrenInv, AnnounceExits \/ ChildRound \/ SettleChildWait \/ ChildRoundEnds
  PROVE  ChildrenInv'
<1>1. /\ TInv /\ dirty \in Dirty /\ WorldType /\ SignalType /\ DirtyType /\ ParkType /\ ParksInv /\ ctl \in Control
      /\ ctl.pc \in {"child", "children"} => dirty.notices = {}
  BY DEF Base, TInv, DirtyType, ControlType, FlowInv, NotesInv
<1>2. CASE AnnounceExits
  <2>1. /\ proc' = ProcAfterNotices /\ dirty' = DirtyAfterNotices /\ UNCHANGED parks /\ ctl.pc = "announce"
    BY <1>2 DEF AnnounceExits, parkVars
  <2>2. dirty'.notices = {} /\ (dirty'.children <=> (dirty.children \/ AutoReaped # {}))
    BY <1>1, <2>1, NoticesTyped
  <2>3. CASE AutoReaped # {}
    BY <2>2, <2>3 DEF ChildrenInv
  <2>4. CASE AutoReaped = {}
    <3>1. proc' = proc
      BY <1>1, <2>1, <2>4 DEF ProcAfterNotices, WorldType
    <3> QED BY <2>1, <2>2, <3>1 DEF ChildrenInv
  <2> QED BY <2>3, <2>4
<1>3. CASE ChildRound
  <2>1. /\ UNCHANGED <<parks, proc>> /\ ctl.pc = "child" /\ dirty' = [dirty EXCEPT !.children = FALSE]
        /\ ctl' = [ctl EXCEPT !.at = 0, !.pc = IF dirty.children THEN "children" ELSE "signal"]
    BY <1>3 DEF ChildRound, parkVars, worldVars
  <2>2. dirty'.notices = {} /\ ctl'.at = 0 /\ (dirty.children => ctl'.pc = "children")
    BY <1>1, <2>1 DEF Dirty, Control
  <2>3. \A w \in parks : w.gen > 0
    BY <1>1 DEF ParksInv
  <2> QED BY <2>1, <2>2, <2>3 DEF ChildrenInv
<1>4. CASE ChildRoundEnds
  <2>1. UNCHANGED <<parks, proc, dirty>> /\ ctl.pc = "children" /\ ChildWaiters = {}
    BY <1>4 DEF ChildRoundEnds, parkVars, worldVars
  <2> QED BY <2>1 DEF ChildrenInv, ChildWaiters
<1>5. CASE SettleChildWait
  <2>1. PICK w : w = Eldest(ChildWaiters)
    OBVIOUS
  <2>2. /\ w \in ChildWaiters /\ w \in parks /\ w.gen \in Nat /\ PidOf[w.task] \in Pids
        /\ \A o \in ChildWaiters : w.gen <= o.gen
    <3>1. ChildWaiters \in SUBSET parks /\ ChildWaiters # {}
      BY <1>5 DEF ChildWaiters, SettleChildWait
    <3>2. w \in ChildWaiters /\ \A o \in ChildWaiters : w.gen <= o.gen
      BY <1>1, <2>1, <3>1, EldestExists
    <3> QED BY <1>1, <3>1, <3>2, ParkFacts, TaskAssumption
  <2>3. PICK child : child = PollChild(PidOf[w.task], proc)
    OBVIOUS
  <2>4. child \in Pids \cup {None, NoTask}
    BY <1>1, <2>2, <2>3, Polled DEF WorldType
  <2>5. /\ ctl' = [ctl EXCEPT !.at = w.gen] /\ ctl.pc = "children"
        /\ \/ child \in Pids /\ dirty' = [dirty EXCEPT !.children = TRUE]
           \/ child = None /\ FinishOne(w, "ECHILD", "none") /\ UNCHANGED <<proc, dirty>>
           \/ child = NoTask /\ UNCHANGED <<proc, dirty, parkVars>>
    BY <2>1, <2>3, <2>4, <1>5 DEF SettleChildWait
  <2>6. ctl'.at = w.gen /\ ctl'.pc = "children"
    BY <1>1, <2>5 DEF Control
  <2>7. CASE child \in Pids /\ dirty' = [dirty EXCEPT !.children = TRUE]
    <3>1. dirty'.children = TRUE /\ dirty'.notices = {}
      BY <1>1, <2>5, <2>7 DEF Dirty
    <3> QED BY <3>1 DEF ChildrenInv
  <2>8. ASSUME UNCHANGED <<proc, dirty>>, parks' \subseteq parks,
               w \in parks' => PollChild(PidOf[w.task], proc) = NoTask
        PROVE  ChildrenInv'
    <3>1. ASSUME NEW v \in parks', v.kind = "child", PollChild(PidOf[v.task], proc) # NoTask, ~dirty.children
          PROVE  v.gen > ctl'.at
      <4>1. v \in parks /\ v # w /\ v.gen > ctl.at
        BY <2>5, <2>8, <3>1 DEF ChildrenInv
      <4>2. v \in ChildWaiters /\ v.gen \in Nat
        BY <1>1, <3>1, <4>1, ParkFacts DEF ChildWaiters
      <4>3. v.gen # w.gen
        BY <1>1, <2>2, <4>1 DEF ParksInv
      <4> QED BY <2>2, <2>6, <4>2, <4>3
    <3> QED BY <2>6, <2>8, <3>1 DEF ChildrenInv
  <2>9. CASE child = None /\ FinishOne(w, "ECHILD", "none") /\ UNCHANGED <<proc, dirty>>
    <3>1. parks' = parks \ Range(<<w>>)
      BY <2>9 DEF FinishOne, Finish
    <3>2. parks' \subseteq parks /\ w \notin parks'
      BY <2>2, <3>1, OnePick
    <3> QED BY <2>8, <2>9, <3>2
  <2>10. CASE child = NoTask /\ UNCHANGED <<proc, dirty, parkVars>>
    BY <2>3, <2>8, <2>10 DEF parkVars
  <2> QED BY <2>5, <2>7, <2>9, <2>10
<1> QED BY <1>2, <1>3, <1>4, <1>5

\* A wait for a child sleeps, at rest, only while a child exists and none has
\* exited; no exit is reaped before it is announced (settle_child_waits,
\* announce_exits).
THEOREM ChildrenAreServed == Spec => []ChildrenServed
<1>1. Init => ChildrenInv
  BY DEF Init, ChildrenInv
<1>2. ASSUME Base, ChildrenInv, [Next]_vars PROVE ChildrenInv'
  <2>1. CASE \E t \in Tasks : SystemCall(t)
    <3>1. PICK t \in Tasks : SystemCall(t)
      BY <2>1
    <3>2. ctl.pc = "idle"
      BY <3>1, CallsEnterIdle
    <3> QED BY <1>2, <3>1, <3>2, CallChildren
  <2>2. CASE AnnounceExits \/ ChildRound \/ SettleChildWait \/ ChildRoundEnds
    BY <1>2, <2>2, RoundChildren
  <2>3. CASE \/ SettleSignalWait \/ SignalWaitsEnd \/ RetryRound \/ SettleRetryWait \/ RetryRoundEnds
             \/ Expire \/ Sweep \/ CollectRecords \/ Host \/ TimerFires \/ Tick
    BY <1>2, <2>3, LaterNotes, ChildrenKept
  <2>4. CASE UNCHANGED vars
    BY <1>2, <2>4 DEF vars, parkVars, worldVars, ChildrenInv
  <2> QED BY <1>2, <2>1, <2>2, <2>3, <2>4, Zenon DEF Next, Settle
<1>3. Base /\ ChildrenInv => ChildrenServed
  <2> SUFFICES ASSUME Base, ChildrenInv, AtRest
               PROVE  \A w \in parks : w.kind = "child" => PollChild(PidOf[w.task], proc) = NoTask
    BY DEF ChildrenServed, ChildrenInv
  <2> QED BY IdleFacts DEF AtRest, ChildrenInv
<1> QED BY <1>1, <1>2, <1>3, Invariance, PTL DEF Spec

-----------------------------------------------------------------------------
(* Signals.                                                                *)

\* Where a signal that a set asks for may still be offered to it.
Offering == {"return", "returnsuspend", "announce", "child", "children", "signal"}
\* A step that generates no signal, changes no mask and ends no thread, and
\* keeps the notes of the signals.
Calm ==
  /\ \A p \in Pids : shared'[p] \subseteq shared[p] /\ (proc[p] = "stopped" <=> proc'[p] = "stopped")
  /\ \A u \in Tasks : directed'[u] \subseteq directed[u] /\ (guest[u] = "gone" <=> guest'[u] = "gone")
  /\ blocked' = blocked
  /\ (dirty.signals => dirty'.signals) /\ dirty.pids \subseteq dirty'.pids

\* A thread that a signal targets after a step was one before, unless its masks,
\* its process or the threads beside it changed.
LEMMA TargetBefore ==
  ASSUME NEW u \in Tasks, guest[u] # "gone",
         proc[PidOf[u]] = "stopped" => proc'[PidOf[u]] = "stopped",
         directed'[u] \ blocked'[u] \subseteq directed[u] \ blocked[u],
         shared'[PidOf[u]] \subseteq shared[PidOf[u]],
         \A x \in Tasks : PidOf[x] = PidOf[u] =>
           /\ guest[x] = "gone" <=> guest'[x] = "gone"
           /\ \A s \in shared'[PidOf[u]] : guest[x] # "gone" => (s \in blocked'[x] <=> s \in blocked[x]),
         SignalTargets(u)'
  PROVE  SignalTargets(u)
<1>1. PICK p : p = PidOf[u]
  OBVIOUS
<1>2. p \in Pids /\ p \in Tasks /\ PidOf[p] = p
  BY <1>1, TaskAssumption
<1>3. \A s \in shared'[p] : PickThread(p, s)' = PickThread(p, s)
  <2> SUFFICES ASSUME NEW s \in shared'[p] PROVE PickThread(p, s)' = PickThread(p, s)
    OBVIOUS
  <2>1. PICK A : A = {x \in Tasks : PidOf[x] = p /\ guest[x] # "gone" /\ s \notin blocked[x]}
    OBVIOUS
  <2>2. {x \in ThreadsOf(p) : s \notin blocked[x]} = A
    BY <2>1 DEF ThreadsOf, Live
  <2>3. {x \in ThreadsOf(p) : s \notin blocked[x]}' = A
    BY <1>1, <2>1 DEF ThreadsOf, Live
  <2>4. PickThread(p, s) = CASE guest[p] = "gone" \/ A = {} -> NoTask
                             [] p \in A -> p
                             [] OTHER -> Lowest(A)
    BY <2>2 DEF PickThread, Live
  <2>5. PickThread(p, s)' = CASE guest'[p] = "gone" \/ A = {} -> NoTask
                              [] p \in A -> p
                              [] OTHER -> Lowest(A)
    BY <2>3 DEF PickThread, Live
  <2>6. guest[p] = "gone" <=> guest'[p] = "gone"
    BY <1>1, <1>2
  <2> QED BY <2>4, <2>5, <2>6
<1>4. proc'[p] # "stopped" /\ proc[p] # "stopped"
  BY <1>1 DEF SignalTargets
<1>5. CASE directed'[u] \ blocked'[u] # {}
  BY <1>1, <1>4, <1>5 DEF SignalTargets
<1>6. CASE \E s \in shared'[p] \ blocked'[u] : PickThread(p, s)' = u
  <2>1. PICK s \in shared'[p] \ blocked'[u] : PickThread(p, s)' = u
    BY <1>6
  <2>2. s \in shared[p] \ blocked[u] /\ PickThread(p, s) = u
    BY <1>1, <1>3, <2>1
  <2> QED BY <1>1, <1>4, <2>2 DEF SignalTargets
<1> QED BY <1>1, <1>5, <1>6 DEF SignalTargets

\* A calm step targets nobody new.
LEMMA CalmTargets ==
  ASSUME ParkType, ParksInv, Calm, NEW w \in parks, SignalTargets(w.task)'
  PROVE  SignalTargets(w.task)
<1>1. PICK u : u = w.task
  OBVIOUS
<1>2. u \in Tasks /\ guest[u] # "gone" /\ PidOf[u] \in Pids
  BY <1>1, ParkFacts, TaskAssumption DEF ParksInv
<1>3. SignalTargets(u)'
  BY <1>1
<1>4. SignalTargets(u)
  BY <1>2, <1>3, TargetBefore DEF Calm
<1> QED BY <1>1, <1>4

\* Nor does it leave a sleeper targeted without a note.
LEMMA CalmStep ==
  ASSUME ParkType, ParksInv, Calm, TargetsInv,
         \A w \in parks' : w \in parks \/ PidOf[w.task] \in dirty'.pids
  PROVE  TargetsInv'
<1> SUFFICES ASSUME NEW w \in parks', SignalTargets(w.task)'
             PROVE  dirty'.signals \/ PidOf[w.task] \in dirty'.pids
  BY DEF TargetsInv
<1>1. CASE w \in parks
  BY <1>1, CalmTargets DEF TargetsInv, Calm
<1> QED BY <1>1

\* A step that generates no signal leaves no set with one it asked for.
LEMMA SetsStep ==
  ASSUME ParkType, SetsInv, \A p \in Pids : shared'[p] \subseteq shared[p],
         \A u \in Tasks : directed'[u] \subseteq directed[u],
         ctl.pc \in Offering => ctl'.pc \in Offering /\ (dirty.signals => dirty'.signals),
         \A w \in parks' : \/ w \in parks \/ w.kind # "sigtimed"
                           \/ w.task \in Tasks /\ Pending(w.task) \cap w.set = {}
  PROVE  SetsInv'
<1> SUFFICES ASSUME NEW w \in parks', w.kind = "sigtimed", (Pending(w.task) \cap w.set # {})'
             PROVE  dirty'.signals /\ ctl'.pc \in Offering
  BY DEF SetsInv, Offering
<1>1. w.task \in Tasks /\ PidOf[w.task] \in Pids
  BY ParkFacts, TaskAssumption
<1>2. Pending(w.task)' \subseteq Pending(w.task)
  BY <1>1 DEF Pending
<1>3. Pending(w.task) \cap w.set # {} /\ w \in parks
  BY <1>2
<1>4. dirty.signals /\ ctl.pc \in Offering
  BY <1>3 DEF SetsInv, Offering
<1> QED BY <1>4

\* A mask that changes over no pending shared signal targets nobody else.
LEMMA MaskTargets ==
  ASSUME TInv, ParksInv, NEW t \in Tasks, NEW mask, blocked' = [blocked EXCEPT ![t] = mask],
         UNCHANGED <<shared, directed, proc>>, \A u \in Tasks : guest[u] = "gone" <=> guest'[u] = "gone",
         MaskNote(t, mask, dirty).signals => dirty'.signals,
         NEW w \in parks, w.task # t, SignalTargets(w.task)'
  PROVE  dirty'.signals \/ SignalTargets(w.task)
<1>1. PICK u : u = w.task
  OBVIOUS
<1>2. u \in Tasks /\ guest[u] # "gone" /\ u # t /\ SignalTargets(u)' /\ dirty \in Dirty /\ SignalType
  BY <1>1, ParkFacts DEF ParksInv, TInv, DirtyType
<1>3. CASE ((blocked[t] \ mask) \cup (mask \ blocked[t])) \cap shared[PidOf[t]] # {}
  <2>1. MaskNote(t, mask, dirty) = NoteSignal(dirty)
    BY <1>3 DEF MaskNote
  <2> QED BY <1>2, <2>1, SignalNoted
<1>4. CASE ((blocked[t] \ mask) \cup (mask \ blocked[t])) \cap shared[PidOf[t]] = {}
  <2>1. \A x \in Tasks : x # t => blocked'[x] = blocked[x]
    BY <1>2 DEF SignalType
  <2>2. blocked'[t] = mask /\ \A s \in shared[PidOf[t]] : s \in mask <=> s \in blocked[t]
    BY <1>2, <1>4 DEF SignalType
  <2>3. ASSUME NEW x \in Tasks, PidOf[x] = PidOf[u]
        PROVE  \A s \in shared'[PidOf[u]] : s \in blocked'[x] <=> s \in blocked[x]
    BY <2>1, <2>2, <2>3
  <2>4. SignalTargets(u)
    BY <1>2, <2>1, <2>3, TargetBefore
  <2> QED BY <1>1, <2>4
<1> QED BY <1>3, <1>4

\* Both together.
SignalsInv == TargetsInv /\ SetsInv

\* Between entries no sleeper is targeted and no set has a signal pending.
LEMMA IdleSignals ==
  ASSUME Base, SignalsInv, ctl.pc = "idle"
  PROVE  \A w \in parks : /\ ~SignalTargets(w.task)
                          /\ w.kind = "sigtimed" => Pending(w.task) \cap w.set = {}
<1>1. dirty.signals = FALSE /\ dirty.pids = {}
  BY IdleFacts
<1> QED BY <1>1 DEF SignalsInv, TargetsInv, SetsInv

\* A call that generates no signal.
LEMMA CallSignals ==
  ASSUME Base, SignalsInv, ctl.pc = "idle",
         \A p \in Pids : shared'[p] \subseteq shared[p],
         \A u \in Tasks : directed'[u] \subseteq directed[u],
         \A w \in parks' :
           \/ w \in parks /\ (SignalTargets(w.task)' => dirty'.signals \/ SignalTargets(w.task))
           \/ /\ PidOf[w.task] \in dirty'.pids
              /\ w.kind = "sigtimed" => w.task \in Tasks /\ Pending(w.task) \cap w.set = {}
  PROVE  SignalsInv'
<1>1. ParkType
  BY DEF Base, TInv
<1>2. TargetsInv'
  BY IdleSignals DEF TargetsInv
<1>3. SetsInv'
  BY <1>1, SetsStep DEF Offering, SignalsInv
<1> QED BY <1>2, <1>3 DEF SignalsInv

\* A call whose notes ask for every sleeper to be looked at.
LEMMA NotedSignals ==
  ASSUME parks' = {} \/ (dirty'.signals /\ ctl'.pc \in Offering)
  PROVE  SignalsInv'
BY DEF SignalsInv, TargetsInv, SetsInv, Offering

\* The caller of a call that answers or parks is alive before and after.
LEMMA CallerLives ==
  ASSUME GuestType, NEW t \in Tasks, guest[t] # "gone", NEW state, state # "gone",
         guest' = [guest EXCEPT ![t] = state]
  PROVE  \A u \in Tasks : guest[u] = "gone" <=> guest'[u] = "gone"
BY DEF GuestType

\* What a call that may park does to the threads, the parks and the notes.
LEMMA OutcomeSignals ==
  ASSUME TInv, NEW t \in Tasks, guest[t] # "gone", NEW kind, NEW d \in Dirty, Outcome(t, kind, d)
  PROVE  /\ \A u \in Tasks : guest[u] = "gone" <=> guest'[u] = "gone"
         /\ dirty'.signals = d.signals
         /\ \A w \in parks' : w \in parks \/ (w.task = t /\ w.kind = kind /\ PidOf[t] \in dirty'.pids)
<1>1. GuestType
  BY DEF TInv
<1>2. CASE Answered(t) /\ UNCHANGED parkVars /\ dirty' = d
  <2>1. guest' = [guest EXCEPT ![t] = "call"] /\ parks' = parks
    BY <1>2 DEF Answered, Answer, parkVars
  <2> QED BY <1>1, <1>2, <2>1, CallerLives
<1>3. CASE \E deadline, set : Parked(t, kind, deadline, set, d)
  <2>1. PICK deadline, set : Parked(t, kind, deadline, set, d)
    BY <1>3
  <2>2. /\ dirty'.signals = d.signals /\ dirty'.pids = d.pids \cup {PidOf[t]}
        /\ guest' = [guest EXCEPT ![t] = "blocked"]
        /\ \E w : parks' = parks \cup {w} /\ w.task = t /\ w.kind = kind
    BY <2>1, ParkedNotes
  <2> QED BY <1>1, <2>2, CallerLives
<1> QED BY <1>2, <1>3 DEF Outcome

\* A call that neither generates a signal nor changes a mask.
LEMMA QuietCall ==
  ASSUME Base, SignalsInv, ctl.pc = "idle", UNCHANGED blocked,
         \A p \in Pids : shared'[p] \subseteq shared[p] /\ (proc[p] = "stopped" <=> proc'[p] = "stopped"),
         \A u \in Tasks : directed'[u] \subseteq directed[u] /\ (guest[u] = "gone" <=> guest'[u] = "gone"),
         \A w \in parks' : \/ w \in parks
                           \/ /\ PidOf[w.task] \in dirty'.pids
                              /\ w.kind = "sigtimed" => w.task \in Tasks /\ Pending(w.task) \cap w.set = {}
  PROVE  SignalsInv'
<1>1. ParkType /\ ParksInv /\ dirty.signals = FALSE /\ dirty.pids = {}
  BY IdleFacts DEF Base, TInv
<1>2. Calm
  BY <1>1 DEF Calm
<1>3. \A w \in parks : SignalTargets(w.task)' => SignalTargets(w.task)
  BY <1>1, <1>2, CalmTargets
<1> QED BY <1>3, CallSignals

\* A call that changes the caller's mask.
LEMMA MaskCall ==
  ASSUME Base, AnswerInv, SignalsInv, ctl.pc = "idle", NEW t \in Tasks, guest[t] \in {"user", "finish"},
         NEW mask, blocked' = [blocked EXCEPT ![t] = mask], UNCHANGED <<shared, directed, proc>>,
         MaskNote(t, mask, dirty).signals => dirty'.signals,
         \A u \in Tasks : guest[u] = "gone" <=> guest'[u] = "gone",
         \A w \in parks' : \/ w \in parks
                           \/ w.kind # "sigtimed" /\ PidOf[w.task] \in dirty'.pids
  PROVE  SignalsInv'
<1>1. TInv /\ ParksInv /\ \A w \in parks : w.task # t
  BY IdleCaller DEF Base
<1>2. \A w \in parks : SignalTargets(w.task)' => dirty'.signals \/ SignalTargets(w.task)
  BY <1>1, MaskTargets
<1> QED BY <1>2, CallSignals

\* The calls that may park.
LEMMA BlockingSignals ==
  ASSUME Base, AnswerInv, SignalsInv, SigPipe \notin Sig, NEW t \in Tasks,
         \/ FutexWait(t) \/ Sleep(t) \/ Suspend(t) \/ SigTimedWait(t) \/ WaitChild(t)
         \/ \E end \in Ends : Transfer(t, end)
  PROVE  SignalsInv'
<1>1. TInv /\ dirty \in Dirty /\ SignalType /\ WorldType /\ GuestType
  BY DEF Base, TInv, DirtyType
<1>2. ctl.pc = "idle" /\ guest[t] = "user"
  BY CallOutcome
<1>3. ASSUME NEW kind, kind # "sigtimed", NEW d \in Dirty, Outcome(t, kind, d),
             UNCHANGED <<blocked, directed, proc, shared>>
      PROVE  SignalsInv'
  <2>1. /\ \A u \in Tasks : guest[u] = "gone" <=> guest'[u] = "gone"
        /\ \A w \in parks' : w \in parks \/ (w.task = t /\ w.kind = kind /\ PidOf[t] \in dirty'.pids)
    BY <1>1, <1>2, <1>3, OutcomeSignals
  <2> QED BY <1>2, <1>3, <2>1, QuietCall
<1>4. CASE FutexWait(t) \/ Sleep(t)
  <2>1. PICK kind \in {"futex", "sleep"} :
          Outcome(t, kind, dirty) /\ UNCHANGED <<blocked, directed, proc, shared>>
    BY <1>4, SleepNotes
  <2> QED BY <1>1, <1>3, <2>1
<1>5. CASE \E end \in Ends : Transfer(t, end)
  <2>1. PICK end \in Ends : Transfer(t, end)
    BY <1>5
  <2>2. PICK d \in Dirty : Outcome(t, end, d) /\ UNCHANGED <<blocked, directed, proc, shared>>
    BY <1>1, <2>1, TransferNotes
  <2>3. end # "sigtimed"
    BY DEF Ends
  <2> QED BY <1>3, <2>2, <2>3
<1>6. CASE Suspend(t)
  <2>1. PICK mask \in SUBSET Sig : /\ Outcome(t, "suspend", MaskNote(t, mask, dirty))
                                   /\ blocked' = [blocked EXCEPT ![t] = mask]
                                   /\ UNCHANGED <<shared, directed, proc>>
    BY <1>6, SuspendNotes
  <2>2. PICK d : d = MaskNote(t, mask, dirty)
    OBVIOUS
  <2>3. d \in Dirty
    BY <1>1, <2>2, MaskNoted
  <2>4. /\ \A u \in Tasks : guest[u] = "gone" <=> guest'[u] = "gone"
        /\ dirty'.signals = d.signals
        /\ \A w \in parks' : w \in parks \/ (w.task = t /\ w.kind = "suspend" /\ PidOf[t] \in dirty'.pids)
    BY <1>1, <1>2, <2>1, <2>2, <2>3, OutcomeSignals
  <2> QED BY <1>2, <2>1, <2>2, <2>4, MaskCall
<1>7. CASE SigTimedWait(t)
  <2>1. Outcome(t, "sigtimed", dirty) /\ UNCHANGED <<blocked, proc>>
    BY <1>1, <1>7, SigTimedNotes DEF Outcome
  <2>2. /\ \A u \in Tasks : guest[u] = "gone" <=> guest'[u] = "gone"
        /\ \A w \in parks' : w \in parks \/ (w.task = t /\ w.kind = "sigtimed" /\ PidOf[t] \in dirty'.pids)
    BY <1>1, <1>2, <2>1, OutcomeSignals
  <2>3. CASE /\ UNCHANGED <<parkVars, dirty>>
             /\ \A p \in Pids : shared'[p] \subseteq shared[p]
             /\ \A u \in Tasks : directed'[u] \subseteq directed[u]
    BY <1>2, <2>1, <2>2, <2>3, QuietCall DEF parkVars
  <2>4. CASE /\ UNCHANGED <<shared, directed>>
             /\ \E deadline, set : Parked(t, "sigtimed", deadline, set, dirty) /\ Pending(t) \cap set = {}
    <3>1. PICK deadline, set : Parked(t, "sigtimed", deadline, set, dirty) /\ Pending(t) \cap set = {}
      BY <2>4
    <3>2. PICK w : parks' = parks \cup {w} /\ w.task = t /\ w.set = set
      BY <1>1, <3>1, ParkedNotes
    <3> QED BY <1>2, <2>1, <2>2, <2>4, <3>1, <3>2, QuietCall
  <2> QED BY <1>1, <1>7, <2>3, <2>4, SigTimedNotes
<1>8. CASE WaitChild(t)
  <2>1. UNCHANGED <<shared, directed, blocked>>
    BY <1>8, WaitChildNotes
  <2>2. /\ \A u \in Tasks : guest[u] = "gone" <=> guest'[u] = "gone"
        /\ \A w \in parks' : w \in parks \/ (w.kind = "child" /\ PidOf[w.task] \in dirty'.pids)
    <3>1. CASE Answered(t) /\ UNCHANGED parkVars
      <4>1. guest' = [guest EXCEPT ![t] = "call"] /\ parks' = parks
        BY <3>1 DEF Answered, Answer, parkVars
      <4> QED BY <1>1, <1>2, <4>1, CallerLives
    <3>2. CASE \E d \in Dirty : Parked(t, "child", None, {}, d)
      <4>1. PICK d \in Dirty : Parked(t, "child", None, {}, d)
        BY <3>2
      <4>2. Outcome(t, "child", d)
        BY <4>1 DEF Outcome
      <4> QED BY <1>1, <1>2, <4>2, OutcomeSignals
    <3> QED BY <1>8, <3>1, <3>2, WaitChildNotes
  <2>3. \A p \in Pids : proc[p] = "stopped" <=> proc'[p] = "stopped"
    <3>1. \/ UNCHANGED proc
          \/ \E child \in Pids : proc[child] = "exited" /\ proc' = [proc EXCEPT ![child] = "reaped"]
      BY <1>8, WaitChildNotes
    <3> QED BY <1>1, <3>1 DEF WorldType
  <2> QED BY <1>2, <2>1, <2>2, <2>3, QuietCall
<1> QED BY <1>4, <1>5, <1>6, <1>7, <1>8

\* The calls that answer and leave the signals alone.
LEMMA AnsweredSignals ==
  ASSUME Base, AnswerInv, SignalsInv, NEW t \in Tasks,
         \/ \E end \in Ends : Close(t, end)
         \/ FutexWake(t) \/ \E u \in Tasks : Cancel(t, u)
  PROVE  SignalsInv'
<1>1. GuestType
  BY DEF Base, TInv
<1>2. ctl.pc = "idle" /\ guest[t] = "user" /\ UNCHANGED <<shared, directed, blocked, proc>>
  BY DEF Close, FutexWake, Cancel, Enters, sigVars, worldVars
<1>3. guest' = [guest EXCEPT ![t] = "call"]
  BY DEF Close, FutexWake, Cancel, Answer
<1>4. \A u \in Tasks : guest[u] = "gone" <=> guest'[u] = "gone"
  BY <1>1, <1>2, <1>3, CallerLives
<1>5. parks' \subseteq parks
  <2>1. CASE (\E end \in Ends : Close(t, end)) \/ \E u \in Tasks : Cancel(t, u)
    BY <2>1 DEF Close, Cancel, parkVars
  <2>2. CASE FutexWake(t)
    BY <2>2, WakeKeeps, DecidedFewer DEF Decided
  <2> QED BY <2>1, <2>2
<1> QED BY <1>2, <1>4, <1>5, QuietCall

\* The calls that change a mask.
LEMMA MaskedSignals ==
  ASSUME Base, AnswerInv, SignalsInv, NEW t \in Tasks, SigProcMask(t) \/ FinishMaskWait(t)
  PROVE  SignalsInv'
<1>1. GuestType /\ SignalType /\ DirtyType
  BY DEF Base, TInv
<1>2. /\ ctl.pc = "idle" /\ guest[t] \in {"user", "finish"} /\ guest' = [guest EXCEPT ![t] = "call"]
      /\ UNCHANGED <<parks, proc, shared, directed>>
  BY DEF SigProcMask, FinishMaskWait, Enters, Answer, RestoreMask, parkVars
<1>3. PICK mask : blocked' = [blocked EXCEPT ![t] = mask] /\ dirty' = MaskNote(t, mask, dirty)
  BY DEF SigProcMask, FinishMaskWait, RestoreMask
<1>4. \A u \in Tasks : guest[u] = "gone" <=> guest'[u] = "gone"
  BY <1>1, <1>2, CallerLives
<1> QED BY <1>2, <1>3, <1>4, MaskCall

\* The calls that generate a signal.
LEMMA GeneratedSignals ==
  ASSUME Base, NEW t \in Tasks,
         \/ \E s \in Sig, p \in Pids : Kill(t, p, s)
         \/ \E s \in Sig, u \in Tasks : Tkill(t, u, s)
         \/ \E p \in Pids : Stop(t, p) \/ Continue(t, p)
  PROVE  SignalsInv'
<1>1. ctl \in Control /\ dirty \in Dirty
  BY DEF Base, TInv, ControlType, DirtyType
<1>2. Answer(t, "return") /\ parks' = parks
  BY DEF Kill, Tkill, Stop, Continue, parkVars
<1>3. ctl'.pc \in Offering
  BY <1>1, <1>2 DEF Answer, Control, Offering
<1>4. PICK d : d = NoteSignal(dirty)
  OBVIOUS
<1>5. d \in Dirty /\ (d.signals <=> dirty.signals \/ parks # {})
  BY <1>1, <1>4, SignalNoted
<1>6. \/ dirty' = d \/ dirty' = [d EXCEPT !.children = TRUE]
      \/ \E p \in Pids : dirty' = [d EXCEPT !.children = TRUE, !.continued = @ \cup {p}]
  BY <1>4 DEF Kill, Tkill, Stop, Continue
<1>7. dirty'.signals = d.signals
  BY <1>5, <1>6 DEF Dirty
<1> QED BY <1>2, <1>3, <1>5, <1>7, NotedSignals

\* The end of a thread: its process's signals are offered to the others.
LEMMA ThreadExitSignals ==
  ASSUME Base, AnswerInv, SignalsInv, NEW t \in Tasks, ThreadExit(t)
  PROVE  SignalsInv'
<1>1. GuestType /\ SignalType /\ ParkType /\ ParksInv /\ dirty \in Dirty /\ ctl \in Control /\ PidOf[t] \in Pids
  BY TaskAssumption DEF Base, TInv, DirtyType, ControlType
<1>2. /\ ctl.pc = "idle" /\ guest[t] = "user" /\ UNCHANGED <<shared, proc>>
      /\ dirty' = IF shared[PidOf[t]] # {} THEN NoteSignal(dirty) ELSE dirty
  BY DEF ThreadExit, Enters
<1>3. /\ guest' = [u \in Tasks |-> IF u \in {t} THEN "gone" ELSE guest[u]]
      /\ directed' = [u \in Tasks |-> IF u \in {t} THEN {} ELSE directed[u]]
      /\ blocked' = [u \in Tasks |-> IF u \in {t} THEN {} ELSE blocked[u]]
  BY DEF ThreadExit, Retire
<1>4. parks' \subseteq parks
  BY ThreadExitKeeps, DecidedFewer DEF Decided
<1>5. ctl'.pc \in Offering
  <2>1. Moved("announce", "events")
    BY <1>1, PassMoved DEF ThreadExit
  <2> QED BY <2>1 DEF Moved, Offering
<1>6. CASE shared[PidOf[t]] # {}
  <2>1. dirty'.signals \/ parks = {}
    BY <1>1, <1>2, <1>6, SignalNoted
  <2> QED BY <1>4, <1>5, <2>1, NotedSignals
<1>7. CASE shared[PidOf[t]] = {}
  <2>1. ASSUME NEW u \in Tasks, u # t, guest[u] # "gone", SignalTargets(u)' PROVE SignalTargets(u)
    <3>1. directed'[u] = directed[u] /\ blocked'[u] = blocked[u] /\ PidOf[u] \in Pids
      BY <1>3, <2>1, TaskAssumption
    <3>2. CASE PidOf[u] = PidOf[t]
      BY <1>2, <1>7, <2>1, <3>1, <3>2 DEF SignalTargets
    <3>3. CASE PidOf[u] # PidOf[t]
      <4>1. \A x \in Tasks : PidOf[x] = PidOf[u] => guest'[x] = guest[x] /\ blocked'[x] = blocked[x]
        BY <1>3, <3>3
      <4> QED BY <1>2, <2>1, <3>1, <4>1, TargetBefore
    <3> QED BY <3>2, <3>3
  <2>2. ASSUME NEW w \in parks, SignalTargets(w.task)' PROVE SignalTargets(w.task)
    <3>1. PICK u : u = w.task
      OBVIOUS
    <3>2. u \in Tasks /\ u # t /\ guest[u] # "gone" /\ SignalTargets(u)'
      BY <1>1, <1>2, <2>2, <3>1, IdleCaller, ParkFacts DEF ParksInv
    <3>3. SignalTargets(u)
      BY <2>1, <3>2
    <3> QED BY <3>1, <3>3
  <2>3. \A u \in Tasks : directed'[u] \subseteq directed[u]
    BY <1>3
  <2> QED BY <1>2, <1>4, <2>2, <2>3, CallSignals
<1> QED BY <1>6, <1>7

\* The end of a process: nothing changes for the others.
LEMMA ExitSignals ==
  ASSUME Base, SignalsInv, NEW t \in Tasks, Exit(t) \/ \E p \in Pids : Terminate(t, p)
  PROVE  SignalsInv'
<1>1. GuestType /\ SignalType /\ ParkType /\ ParksInv /\ WorldType
  BY DEF Base, TInv
<1>2. ctl.pc = "idle" /\ guest[t] = "user"
  BY DEF Exit, Terminate, Enters
<1>3. PICK p \in Pids : /\ Exited(p)
                        /\ \/ Retire(ThreadsOf(p), guest)
                           \/ Retire(ThreadsOf(p), [guest EXCEPT ![t] = "call"])
  <2>1. PidOf[t] \in Pids
    BY TaskAssumption
  <2> QED BY <2>1 DEF Exit, Terminate
<1>4. PICK g : /\ Retire(ThreadsOf(p), g) /\ \A u \in Tasks : guest[u] = "gone" <=> g[u] = "gone"
  <2>1. \A u \in Tasks : guest[u] = "gone" <=> [guest EXCEPT ![t] = "call"][u] = "gone"
    BY <1>1, <1>2 DEF GuestType
  <2> QED BY <1>3, <2>1
<1>5. /\ \A u \in Tasks : directed'[u] \subseteq directed[u]
      /\ \A u \in Tasks : PidOf[u] # p =>
           directed'[u] = directed[u] /\ blocked'[u] = blocked[u] /\ guest'[u] = g[u]
  BY <1>4 DEF Retire, ThreadsOf
<1>6. /\ proc' = [proc EXCEPT ![p] = "exited"] /\ shared' = [shared EXCEPT ![p] = {}]
      /\ parks' = {w \in parks : PidOf[w.task] # p}
  BY <1>3 DEF Exited, RetireProcess
<1>7. \A q \in Pids : shared'[q] \subseteq shared[q] /\ (q # p => shared'[q] = shared[q] /\ proc'[q] = proc[q])
  BY <1>1, <1>6 DEF SignalType, WorldType
<1>8. ASSUME NEW w \in parks', SignalTargets(w.task)' PROVE SignalTargets(w.task)
  <2>1. PICK u : u = w.task
    OBVIOUS
  <2>2. /\ u \in Tasks /\ guest[u] # "gone" /\ SignalTargets(u)' /\ PidOf[u] # p /\ PidOf[u] \in Pids
    BY <1>1, <1>6, <1>8, <2>1, ParkFacts, TaskAssumption DEF ParksInv
  <2>3. \A x \in Tasks : PidOf[x] = PidOf[u] => (guest[x] = "gone" <=> guest'[x] = "gone") /\ blocked'[x] = blocked[x]
    BY <1>4, <1>5, <2>2
  <2>4. SignalTargets(u)
    BY <1>5, <1>7, <2>2, <2>3, TargetBefore
  <2> QED BY <2>1, <2>4
<1> QED BY <1>2, <1>5, <1>6, <1>7, <1>8, CallSignals

\* A system call keeps them.
LEMMA EnteredSignals ==
  ASSUME Base, AnswerInv, SignalsInv, SigPipe \notin Sig, NEW t \in Tasks, SystemCall(t)
  PROVE  SignalsInv'
<1>1. CASE \/ FutexWait(t) \/ Sleep(t) \/ Suspend(t) \/ SigTimedWait(t) \/ WaitChild(t)
           \/ \E end \in Ends : Transfer(t, end)
  BY <1>1, BlockingSignals
<1>2. CASE (\E end \in Ends : Close(t, end)) \/ FutexWake(t) \/ \E u \in Tasks : Cancel(t, u)
  BY <1>2, AnsweredSignals
<1>3. CASE SigProcMask(t) \/ FinishMaskWait(t)
  BY <1>3, MaskedSignals
<1>4. CASE \/ \E s \in Sig, p \in Pids : Kill(t, p, s)
           \/ \E s \in Sig, u \in Tasks : Tkill(t, u, s)
           \/ \E p \in Pids : Stop(t, p) \/ Continue(t, p)
  BY <1>4, GeneratedSignals
<1>5. CASE ThreadExit(t)
  BY <1>5, ThreadExitSignals
<1>6. CASE Exit(t) \/ \E p \in Pids : Terminate(t, p)
  BY <1>6, ExitSignals
<1>7. \/ FutexWait(t) \/ Sleep(t) \/ Suspend(t) \/ SigTimedWait(t) \/ WaitChild(t)
      \/ (\E end \in Ends : Transfer(t, end)) \/ (\E end \in Ends : Close(t, end))
      \/ FutexWake(t) \/ SigProcMask(t) \/ FinishMaskWait(t) \/ ThreadExit(t) \/ Exit(t)
      \/ (\E s \in Sig, p \in Pids : Kill(t, p, s)) \/ (\E s \in Sig, u \in Tasks : Tkill(t, u, s))
      \/ (\E p \in Pids : Stop(t, p) \/ Continue(t, p)) \/ (\E p \in Pids : Terminate(t, p))
      \/ (\E u \in Tasks : Cancel(t, u))
  BY Zenon DEF SystemCall
<1> QED BY <1>1, <1>2, <1>3, <1>4, <1>5, <1>6, <1>7, Zenon

\* A calm step of an entry.
LEMMA CalmSignals ==
  ASSUME Base, SignalsInv, Calm, parks' \subseteq parks, ctl.pc \in Offering => ctl'.pc \in Offering
  PROVE  SignalsInv'
<1>1. ParkType /\ ParksInv
  BY DEF Base, TInv
<1>2. TargetsInv'
  BY <1>1, CalmStep DEF SignalsInv
<1>3. SetsInv'
  BY <1>1, SetsStep DEF SignalsInv, Calm
<1> QED BY <1>2, <1>3 DEF SignalsInv

\* The announcement of the exits, which may send SIGCHLD.
LEMMA AnnounceSignals ==
  ASSUME Base, SignalsInv, AnnounceExits
  PROVE  SignalsInv'
<1>1. TInv /\ SignalType /\ WorldType /\ DirtyType /\ ctl \in Control
  BY DEF Base, TInv, ControlType
<1>2. /\ shared' = SharedAfterNotices /\ proc' = ProcAfterNotices /\ dirty' = DirtyAfterNotices
      /\ UNCHANGED <<guest, directed, blocked, parks>> /\ At("child")
  BY DEF AnnounceExits, taskVars, parkVars
<1>3. ctl'.pc \in Offering
  BY <1>1, <1>2 DEF At, Control, Offering
<1>4. dirty'.pids = dirty.pids /\ (dirty'.signals <=> (dirty.signals \/ (Told # {} /\ parks # {})))
  BY <1>1, <1>2, NoticesTyped
<1>5. CASE Told # {}
  BY <1>2, <1>3, <1>4, <1>5, NotedSignals
<1>6. CASE Told = {}
  <2>1. shared' = shared /\ proc' = proc
    BY <1>1, <1>2, <1>6 DEF SharedAfterNotices, ProcAfterNotices, AutoReaped, SignalType, WorldType
  <2>2. Calm
    BY <1>2, <1>4, <2>1 DEF Calm
  <2> QED BY <1>2, <1>3, <2>2, CalmSignals
<1> QED BY <1>5, <1>6

\* The rounds over the waits for children.
LEMMA RoundSignals ==
  ASSUME Base, SignalsInv, ChildRound \/ SettleChildWait \/ ChildRoundEnds
  PROVE  SignalsInv'
<1>1. TInv /\ WorldType /\ ParkType /\ ParksInv /\ dirty \in Dirty /\ ctl \in Control
  BY DEF Base, TInv, ControlType, DirtyType
<1>2. UNCHANGED <<guest, shared, directed, blocked>>
  BY DEF ChildRound, SettleChildWait, ChildRoundEnds, taskVars, sigVars
<1>3. ctl'.pc \in Offering
  <2>1. \/ \E pc \in {"children", "signal"} : ctl' = [ctl EXCEPT !.at = 0, !.pc = pc]
        \/ ctl.pc = "children" /\ \E n : ctl' = [ctl EXCEPT !.at = n]
        \/ At("child")
    BY DEF ChildRound, SettleChildWait, ChildRoundEnds
  <2> QED BY <1>1, <2>1 DEF At, Control, Offering
<1>4. parks' \subseteq parks
  <2>1. CASE ChildRound \/ ChildRoundEnds
    BY <2>1 DEF ChildRound, ChildRoundEnds, parkVars
  <2>2. CASE SettleChildWait
    BY <2>2, ChildWaitKeeps, DecidedFewer DEF Decided
  <2> QED BY <2>1, <2>2
<1>5. /\ \A p \in Pids : proc[p] = "stopped" <=> proc'[p] = "stopped"
      /\ dirty'.signals = dirty.signals /\ dirty'.pids = dirty.pids
  <2>1. CASE ChildRound \/ ChildRoundEnds
    <3>1. proc' = proc /\ (dirty' = dirty \/ dirty' = [dirty EXCEPT !.children = FALSE])
      BY <2>1 DEF ChildRound, ChildRoundEnds, worldVars
    <3> QED BY <1>1, <3>1 DEF Dirty
  <2>2. CASE SettleChildWait
    <3>1. PICK w : w = Eldest(ChildWaiters)
      OBVIOUS
    <3>2. w \in parks /\ PidOf[w.task] \in Pids
      <4>1. ChildWaiters \in SUBSET parks /\ ChildWaiters # {}
        BY <2>2 DEF ChildWaiters, SettleChildWait
      <4>2. w \in parks
        BY <1>1, <3>1, <4>1, EldestExists
      <4> QED BY <1>1, <4>2, ParkFacts, TaskAssumption
    <3>3. PICK child : child = PollChild(PidOf[w.task], proc)
      OBVIOUS
    <3>4. child \in Pids \cup {None, NoTask} /\ (child \in Pids => proc[child] = "exited")
      BY <1>1, <3>2, <3>3, Polled DEF WorldType
    <3>5. \/ child \in Pids /\ proc' = [proc EXCEPT ![child] = "reaped"] /\ dirty' = [dirty EXCEPT !.children = TRUE]
          \/ UNCHANGED <<proc, dirty>>
      BY <2>2, <3>1, <3>3, <3>4 DEF SettleChildWait
    <3> QED BY <1>1, <3>4, <3>5 DEF WorldType, Dirty
  <2> QED BY <2>1, <2>2
<1>6. Calm
  BY <1>2, <1>5 DEF Calm
<1> QED BY <1>3, <1>4, <1>6, CalmSignals

\* The signals of the sets are offered until none is left.
LEMMA OfferSignals ==
  ASSUME Base, SignalsInv, SettleSignalWait \/ SignalWaitsEnd
  PROVE  SignalsInv'
<1>1. TInv /\ SignalType /\ ParkType /\ ParksInv
  BY DEF Base, TInv
<1>2. CASE SettleSignalWait
  <2>1. UNCHANGED <<guest, blocked, dirty, proc, ctl>> /\ SignalWaiters # {}
    BY <1>2 DEF SettleSignalWait, taskVars, worldVars
  <2>2. PICK w : w = Eldest(SignalWaiters)
    OBVIOUS
  <2>3. w \in parks /\ w.task \in Tasks
    <3>1. SignalWaiters \in SUBSET parks
      BY DEF SignalWaiters
    <3>2. w \in parks
      BY <1>1, <2>1, <2>2, <3>1, EldestExists
    <3> QED BY <1>1, <3>2, ParkFacts
  <2>4. \E S : Consume(w.task, S)
    BY <1>2, <2>2 DEF SettleSignalWait
  <2>5. /\ \A p \in Pids : shared'[p] \subseteq shared[p]
        /\ \A u \in Tasks : directed'[u] \subseteq directed[u]
    BY <1>1, <2>3, <2>4, ConsumeTyped
  <2>6. Calm
    BY <2>1, <2>5 DEF Calm
  <2>7. parks' \subseteq parks
    BY <1>2, SignalWaitKeeps, DecidedFewer
  <2> QED BY <2>1, <2>6, <2>7, CalmSignals
<1>3. CASE SignalWaitsEnd
  <2>1. UNCHANGED <<guest, shared, directed, blocked, parks, dirty, proc>> /\ SignalWaiters = {}
    BY <1>3 DEF SignalWaitsEnd, taskVars, sigVars, parkVars, worldVars
  <2>2. TargetsInv'
    <3>1. Calm
      BY <2>1 DEF Calm
    <3> QED BY <1>1, <2>1, <3>1, CalmStep DEF SignalsInv
  <2>3. \A w \in parks : w.kind = "sigtimed" => Pending(w.task) \cap w.set = {}
    BY <2>1 DEF SignalsInv, SetsInv, SignalWaiters
  <2>4. SetsInv'
    BY <2>1, <2>3 DEF SetsInv, Pending
  <2> QED BY <2>2, <2>4 DEF SignalsInv
<1> QED BY <1>2, <1>3

\* A sweep leaves no sleeper targeted.
LEMMA SweptSignals ==
  ASSUME Base, SignalsInv, Sweep \/ Followup
  PROVE  SignalsInv'
<1>1. TInv /\ SignalType /\ ParkType /\ ParksInv
  BY DEF Base, TInv
<1>2. /\ UNCHANGED <<guest, shared, directed, blocked, proc>> /\ Swept /\ ctl.pc \notin Offering
  BY DEF Sweep, Followup, taskVars, sigVars, worldVars, Offering
<1>3. PICK S : S = {w \in parks : (dirty.signals \/ PidOf[w.task] \in dirty.pids) /\ SignalTargets(w.task)}
  OBVIOUS
<1>4. parks' = parks \ S
  <2>1. PICK ws, done : SweptParks(ws) /\ Decision(ws, done)
    BY <1>1, <1>2, SweptDecides
  <2>2. ws = ByAge(S)
    BY <1>3, <2>1 DEF SweptParks
  <2>3. Range(ws) = S
    BY <1>1, <1>3, <2>2, AgeOrder
  <2> QED BY <2>1, <2>3 DEF Decision
<1>5. \A w \in parks' : ~SignalTargets(w.task)
  BY <1>3, <1>4 DEF SignalsInv, TargetsInv
<1>6. ASSUME NEW w \in parks' PROVE ~SignalTargets(w.task)'
  <2>1. PICK u : u = w.task
    OBVIOUS
  <2>2. u \in Tasks /\ guest[u] # "gone" /\ ~SignalTargets(u)
    BY <1>1, <1>4, <1>5, <1>6, <2>1, ParkFacts DEF ParksInv
  <2>3. ~SignalTargets(u)'
    BY <1>2, <2>2, TargetBefore
  <2> QED BY <2>1, <2>3
<1>7. TargetsInv'
  BY <1>6 DEF TargetsInv
<1>8. SetsInv'
  BY <1>1, <1>2, <1>4, SetsStep DEF SignalsInv
<1> QED BY <1>7, <1>8 DEF SignalsInv

\* A thread sleeps in one park only.
LEMMA OnePark ==
  ASSUME ParksInv, NEW v \in parks, NEW w \in parks, v.task = w.task
  PROVE  v = w
BY DEF ParksInv

\* A cancelled thread's mask comes back, and it sleeps no more.
LEMMA CancelSignals ==
  ASSUME Base, SignalsInv, NEW u \in Tasks, CancelLiveTask(u), UNCHANGED <<guest, proc, nextGen>>,
         ctl.pc \notin Offering
  PROVE  SignalsInv'
<1>1. TInv /\ ParkType /\ ParksInv /\ dirty \in Dirty
  BY DEF Base, TInv, DirtyType
<1>2. PICK mask \in SUBSET Sig : blocked' = [blocked EXCEPT ![u] = mask] /\ dirty' = MaskNote(u, mask, dirty)
  BY CancelLiveTyped
<1>3. UNCHANGED <<shared, directed>> /\ dirty'.pids = dirty.pids
  BY CancelLiveTyped DEF SameNotes
<1>4. parks' \subseteq parks /\ \A w \in parks' : w.task # u
  <2>1. CASE ParksOf({u}) = {}
    BY <2>1 DEF CancelLiveTask, ParksOf, parkVars
  <2>2. CASE ParksOf({u}) # {}
    <3>1. PICK v : v = Eldest(ParksOf({u}))
      OBVIOUS
    <3>2. ParksOf({u}) \in SUBSET parks
      BY DEF ParksOf
    <3>3. v \in ParksOf({u})
      BY <1>1, <2>2, <3>1, <3>2, EldestExists
    <3>4. v \in parks /\ v.task = u
      BY <3>3 DEF ParksOf
    <3>5. FinishOne(v, "EINTR", "cancelled")
      BY <2>2, <3>1 DEF CancelLiveTask
    <3>6. parks' = parks \ {v}
      BY <3>4, <3>5, OnePick DEF FinishOne, Finish
    <3> QED BY <1>1, <3>4, <3>6, OnePark
  <2> QED BY <2>1, <2>2
<1>5. dirty.signals => dirty'.signals
  BY <1>1, <1>2, MaskNoted, SignalNoted
<1>6. \A w \in parks' : SignalTargets(w.task)' => dirty'.signals \/ SignalTargets(w.task)
  BY <1>1, <1>2, <1>3, <1>4, MaskTargets
<1>7. TargetsInv'
  BY <1>3, <1>4, <1>5, <1>6 DEF SignalsInv, TargetsInv
<1>8. SetsInv'
  BY <1>1, <1>3, <1>4, SetsStep DEF SignalsInv
<1> QED BY <1>7, <1>8 DEF SignalsInv

\* The two cancellations.
LEMMA CancelledSignals ==
  ASSUME Base, SignalsInv, CancelNewPark \/ CancelTarget
  PROVE  SignalsInv'
<1>1. TInv /\ ctl \in Control /\ (ctl.pc \in Called => ctl.caller \in Tasks)
  BY DEF Base, TInv, ControlType
<1>2. UNCHANGED <<guest, proc, nextGen>> /\ ctl.pc \in {"cancelnew", "publish"} /\ ctl.pc \notin Offering
  BY DEF CancelNewPark, CancelTarget, taskVars, worldVars, Offering
<1>3. CASE CancelNewPark
  <2>1. CancelLiveTask(ctl.caller) /\ ctl.caller \in Tasks
    BY <1>1, <1>3 DEF CancelNewPark, Called
  <2> QED BY <1>2, <2>1, CancelSignals
<1>4. CASE CancelTarget
  <2>1. ctl.target \in Tasks /\ (CancelLiveTask(ctl.target) \/ UNCHANGED <<sigVars, parkVars, dirty>>)
    BY <1>1, <1>4 DEF CancelTarget, Control
  <2>2. CASE CancelLiveTask(ctl.target)
    BY <1>2, <2>1, <2>2, CancelSignals
  <2>3. CASE UNCHANGED <<sigVars, parkVars, dirty>>
    <3>1. UNCHANGED <<shared, directed, blocked, parks, dirty>>
      BY <2>3 DEF sigVars, parkVars
    <3>2. Calm
      BY <1>2, <3>1 DEF Calm
    <3> QED BY <1>2, <3>1, <3>2, CalmSignals
  <2> QED BY <2>1, <2>2, <2>3
<1> QED BY <1>3, <1>4

\* The retries of the transfers.
LEMMA RetrySignals ==
  ASSUME Base, SignalsInv, SigPipe \notin Sig, SettleRetryWait
  PROVE  SignalsInv'
<1>1. TInv /\ GuestType /\ SignalType /\ WorldType /\ DirtyType /\ ParkType /\ ParksInv
  BY DEF Base, TInv
<1>2. ctl.pc \notin Offering /\ UNCHANGED <<directed, blocked, proc>> /\ RetryWaiters # {}
  BY DEF SettleRetryWait, Offering
<1>3. parks' \subseteq parks
  BY RetryWaitKeeps, DecidedFewer
<1>4. PICK w : w = Eldest(RetryWaiters)
  OBVIOUS
<1>5. w \in parks /\ w.task \in Tasks /\ PidOf[w.task] \in Pids /\ w.kind \in Ends /\ guest[w.task] = "blocked"
  <2>1. RetryWaiters \in SUBSET parks
    BY DEF RetryWaiters
  <2>2. w \in RetryWaiters
    BY <1>1, <1>2, <1>4, <2>1, EldestExists
  <2>3. w \in parks /\ w.kind \in Ends
    BY <2>2 DEF RetryWaiters, IsTransfer
  <2> QED BY <1>1, <2>3, ParkFacts, TaskAssumption DEF ParksInv
<1>6. PICK value : value = Attempted(w.kind)
  OBVIOUS
<1>7. \/ UNCHANGED <<guest, shared, dirty>>
      \/ /\ value # "block" /\ Transferred(PidOf[w.task], w.kind, value)
         /\ guest' = [guest EXCEPT ![w.task] = "user"] \/ guest' = guest
  BY <1>4, <1>6 DEF SettleRetryWait
<1>8. value \in {"ok", "EPIPE", "block"}
  BY <1>5, <1>6 DEF Attempted, Ends
<1>9. shared' = shared /\ dirty'.signals = dirty.signals /\ dirty'.pids = dirty.pids
  BY <1>1, <1>5, <1>6, <1>7, <1>8, TransferTyped DEF SameNotes
<1>10. \A u \in Tasks : guest[u] = "gone" <=> guest'[u] = "gone"
  BY <1>1, <1>5, <1>7, CallerLives
<1>11. Calm
  BY <1>2, <1>9, <1>10 DEF Calm
<1> QED BY <1>2, <1>3, <1>11, CalmSignals

\* The steps that deliver a signal.
LEMMA DeliveredSignals ==
  ASSUME Base, SignalsInv, Return \/ Resume \/ PublishRecord
  PROVE  SignalsInv'
<1>1. /\ TInv /\ GuestType /\ SignalType /\ HostType /\ ctl \in Control
      /\ (ctl.pc \in Called => ctl.caller \in Tasks)
  BY DEF Base, TInv, ControlType
<1>2. UNCHANGED <<guest, parks, dirty, proc>>
  BY DEF Return, Resume, PublishRecord, taskVars, parkVars, worldVars
<1>3. PICK t \in Tasks, how \in {"none", "user", "suspend", "finish"} : Dequeue(t, how)
  <2>1. CASE Return
    BY <1>1, <2>1 DEF Return, Called
  <2>2. CASE Resume
    <3>1. Lowest(Resumable) \in Tasks /\ Dequeue(Lowest(Resumable), effects[Lowest(Resumable)])
      BY <2>2, ResumableTask DEF Resume
    <3> QED BY <1>1, <3>1 DEF GuestType
  <2>3. CASE PublishRecord
    <3>1. Head(batch).task \in Tasks
      BY <1>1, <2>3, BatchParts DEF PublishRecord
    <3> QED BY <2>3, <3>1 DEF PublishRecord
  <2> QED BY <2>1, <2>2, <2>3
<1>4. /\ \A p \in Pids : shared'[p] \subseteq shared[p]
      /\ \A u \in Tasks : directed'[u] \subseteq directed[u]
      /\ blocked' = blocked
  BY <1>1, <1>3, DequeueTyped
<1>5. Calm
  BY <1>2, <1>4 DEF Calm
<1>6. ctl.pc \in Offering => ctl'.pc \in Offering
  <2>1. CASE Return \/ PublishRecord
    <3>1. Moved("announce", "events")
      BY <1>1, <2>1, PassMoved DEF Return, PublishRecord
    <3> QED BY <3>1 DEF Moved, Offering
  <2>2. CASE Resume
    BY <2>2 DEF Resume, Offering
  <2> QED BY <2>1, <2>2
<1> QED BY <1>2, <1>5, <1>6, CalmSignals

\* The other steps.
LEMMA OtherSignals ==
  ASSUME Base, AnswerInv, SignalsInv,
         \/ RetryRound \/ RetryRoundEnds \/ Expire \/ CollectRecords \/ LifecycleEnds
         \/ PublishArm \/ PublishNothing \/ Commit \/ TimerFires \/ Tick
  PROVE  SignalsInv'
<1>1. TInv /\ GuestType /\ dirty \in Dirty
  BY DEF Base, TInv, DirtyType
<1>2. UNCHANGED <<shared, directed, blocked, proc>> /\ ctl.pc \notin Offering
  BY DEF RetryRound, RetryRoundEnds, Expire, CollectRecords, LifecycleEnds, PublishArm, PublishNothing,
         Commit, TimerFires, Tick, sigVars, worldVars, Offering
<1>3. parks' \subseteq parks
  <2>1. CASE Expire
    BY <2>1, ExpireKeeps, DecidedFewer
  <2>2. CASE \/ RetryRound \/ RetryRoundEnds \/ CollectRecords \/ LifecycleEnds
             \/ PublishArm \/ PublishNothing \/ Commit \/ TimerFires \/ Tick
    BY <2>2 DEF RetryRound, RetryRoundEnds, CollectRecords, LifecycleEnds, PublishArm, PublishNothing,
                Commit, TimerFires, Tick, parkVars
  <2> QED BY <2>1, <2>2
<1>4. \A u \in Tasks : guest[u] = "gone" <=> guest'[u] = "gone"
  <2>1. CASE Commit
    <3>1. \A u \in Tasks : effects[u] # "none" => guest[u] # "gone"
      BY DEF AnswerInv, GuestsInv, Awaited
    <3>2. \A u \in Tasks : \/ guest'[u] = guest[u]
                           \/ effects[u] # "none" /\ guest'[u] \in {"finish", "user"}
      BY <2>1 DEF Commit
    <3> QED BY <3>1, <3>2
  <2>2. CASE \/ RetryRound \/ RetryRoundEnds \/ Expire \/ CollectRecords \/ LifecycleEnds
             \/ PublishArm \/ PublishNothing \/ TimerFires \/ Tick
    BY <2>2 DEF RetryRound, RetryRoundEnds, Expire, CollectRecords, LifecycleEnds, PublishArm, PublishNothing,
                TimerFires, Tick, taskVars
  <2> QED BY <2>1, <2>2
<1>5. dirty'.signals = dirty.signals /\ dirty'.pids = dirty.pids
  <2>1. \/ dirty' = dirty \/ dirty' = NotePipe(dirty)
        \/ dirty' = [dirty EXCEPT !.pipe = FALSE] \/ dirty' = [dirty EXCEPT !.continued = {}]
    BY DEF RetryRound, RetryRoundEnds, Expire, CollectRecords, CloseEnds, LifecycleEnds, PublishArm,
           PublishNothing, Commit, TimerFires, Tick
  <2>2. NotePipe(dirty).signals = dirty.signals /\ NotePipe(dirty).pids = dirty.pids
    BY <1>1, PipeNoted DEF SameNotes
  <2> QED BY <1>1, <2>1, <2>2 DEF Dirty
<1>6. Calm
  BY <1>2, <1>4, <1>5 DEF Calm
<1> QED BY <1>2, <1>3, <1>6, CalmSignals

\* Every step keeps them.
LEMMA SignalsStep ==
  ASSUME Base, AnswerInv, SignalsInv, SigPipe \notin Sig, [Next]_vars
  PROVE  SignalsInv'
<1>1. CASE \E t \in Tasks : SystemCall(t)
  BY <1>1, EnteredSignals
<1>2. CASE AnnounceExits \/ ChildRound \/ SettleChildWait \/ ChildRoundEnds
  BY <1>2, AnnounceSignals, RoundSignals
<1>3. CASE SettleSignalWait \/ SignalWaitsEnd \/ SettleRetryWait \/ Sweep \/ Followup
  BY <1>3, OfferSignals, RetrySignals, SweptSignals
<1>4. CASE CancelNewPark \/ CancelTarget \/ Return \/ Resume \/ PublishRecord
  BY <1>4, CancelledSignals, DeliveredSignals
<1>5. CASE \/ RetryRound \/ RetryRoundEnds \/ Expire \/ CollectRecords \/ LifecycleEnds
           \/ PublishArm \/ PublishNothing \/ Commit \/ TimerFires \/ Tick
  BY <1>5, OtherSignals
<1>6. CASE UNCHANGED vars
  <2>1. UNCHANGED <<guest, shared, directed, blocked, parks, dirty, proc, ctl>>
    BY <1>6 DEF vars, taskVars, sigVars, parkVars, worldVars
  <2>2. Calm
    BY <2>1 DEF Calm
  <2> QED BY <2>1, <2>2, CalmSignals
<1> QED BY <1>1, <1>2, <1>3, <1>4, <1>5, <1>6, Zenon DEF Next, Settle, Host

\* From the first state on.
LEMMA SignalsHold ==
  ASSUME SigPipe \notin Sig
  PROVE  Spec => [](Base /\ SignalsInv)
<1>1. Init => SignalsInv
  BY DEF Init, SignalsInv, TargetsInv, SetsInv
<1>2. Base /\ AnswerInv /\ SignalsInv /\ [Next]_vars => SignalsInv'
  BY SignalsStep
<1> QED BY <1>1, <1>2, Invariance, PTL DEF Spec

\* Once the entry that generated a signal, unblocked it or parked a thread has
\* ended, no sleeping thread is one that a pending signal targets
\* (signal_targets_task, sweep_signals).  SIGPIPE must be ignored: raised by a
\* write without readers, it makes no note.
THEOREM SleepersAreNotTargeted ==
  ASSUME SigPipe \notin Sig
  PROVE  Spec => []NoTargetedSleeper
<1>1. Base /\ SignalsInv => NoTargetedSleeper
  BY IdleSignals DEF NoTargetedSleeper, AtRest
<1> QED BY <1>1, SignalsHold, PTL

\* Nor does a sigtimedwait sleep on while a signal of its set is pending
\* (channel_sigtimedwait, settle_signal_waits), under the same condition.
THEOREM SetsAreServed ==
  ASSUME SigPipe \notin Sig
  PROVE  Spec => []SigtimedServed
<1>1. Base /\ SignalsInv => SigtimedServed
  BY IdleSignals DEF SigtimedServed, AtRest
<1> QED BY <1>1, SignalsHold, PTL

-----------------------------------------------------------------------------
(* Transfers.                                                              *)

\* When a transfer blocks.
LEMMA BlockedWhen ==
  ASSUME WorldType
  PROVE  /\ Attempted("read") = "block" <=> pipe.fill = 0 /\ Open("write", pipe, pins)
         /\ Attempted("write") = "block" <=> pipe.fill = PipeCap /\ Open("read", pipe, pins)
<1>1. PICK n, r, w : n = pipe.fill /\ r = Open("read", pipe, pins) /\ w = Open("write", pipe, pins)
  OBVIOUS
<1>2. n \in Nat /\ n <= PipeCap /\ PipeCap \in Nat
  BY <1>1, BoundAssumption DEF WorldType, Pipes
<1>3. r \in BOOLEAN /\ w \in BOOLEAN
  BY <1>1 DEF Open
<1>4. Attempted("read") = IF n > 0 \/ ~w THEN "ok" ELSE "block"
  BY <1>1 DEF Attempted
<1>5. Attempted("write") = IF ~r THEN "EPIPE" ELSE IF n < PipeCap THEN "ok" ELSE "block"
  BY <1>1, <1>3 DEF Attempted
<1> QED BY <1>1, <1>2, <1>3, <1>4, <1>5

\* Parks are decided: their pins are listed for release.
LEMMA DecidedPins ==
  ASSUME Base, PinsInv, SidesInv, UNCHANGED pins, NEW ws, NEW done, Decision(ws, done),
         \A i \in 1..Len(ws) : done[i].flag = "published" => IsTransfer(ws[i])
  PROVE  PinsInv' /\ SidesInv'
<1>1. /\ completions \in Seq(Record) /\ done \in Seq(Record) /\ Len(done) = Len(ws)
      /\ ws \in Seq(parks) /\ DOMAIN ws = 1..Len(ws) /\ Len(ws) \in Nat
  BY DEF Base, TInv, ParkType, Decision, Picks
<1>2. /\ parks' = parks \ Range(ws) /\ completions' = completions \o done
      /\ released' = released \cup Unpinned(ws)
      /\ \A i \in 1..Len(ws) : done[i].task = ws[i].task /\ done[i].kind = ws[i].kind /\ ws[i] \in parks
  BY <1>1 DEF Decision
<1>3. /\ DOMAIN completions' = 1..(Len(completions) + Len(ws))
      /\ \A i \in DOMAIN completions : i \in DOMAIN completions' /\ completions'[i] = completions[i]
      /\ \A i \in 1..Len(ws) :
           Len(completions) + i \in DOMAIN completions' /\ completions'[Len(completions) + i] = done[i]
      /\ \A i \in DOMAIN completions' :
           \/ i \in DOMAIN completions /\ completions'[i] = completions[i]
           \/ \E j \in 1..Len(ws) : completions'[i] = done[j]
  <2>1. PICK q, c, m, n : q = completions' /\ c = completions /\ m = Len(completions) /\ n = Len(ws)
    OBVIOUS
  <2>2. /\ c \in Seq(Record) /\ done \in Seq(Record) /\ q = c \o done /\ m = Len(c) /\ n = Len(done)
        /\ m \in Nat /\ n \in Nat
    BY <1>1, <1>2, <2>1
  <2>3. DOMAIN q = 1..(m + n) /\ DOMAIN c = 1..m
    BY <2>2
  <2>4. /\ \A i \in 1..m : q[i] = c[i]
        /\ \A i \in 1..n : q[m + i] = done[i] /\ m + i \in 1..(m + n)
    BY <2>2
  <2>5. \A i \in 1..(m + n) : i \in 1..m \/ \E j \in 1..n : i = m + j
    <3> SUFFICES ASSUME NEW i \in 1..(m + n), i \notin 1..m PROVE \E j \in 1..n : i = m + j
      OBVIOUS
    <3>1. i - m \in 1..n /\ i = m + (i - m)
      BY <2>2
    <3> QED BY <3>1
  <2>6. \A i \in DOMAIN q : \/ i \in DOMAIN c /\ q[i] = c[i]
                           \/ \E j \in 1..n : q[i] = done[j]
    BY <2>3, <2>4, <2>5
  <2>7. \A i \in DOMAIN c : i \in DOMAIN q /\ q[i] = c[i]
    BY <2>2, <2>3, <2>4
  <2>8. \A i \in 1..n : m + i \in DOMAIN q /\ q[m + i] = done[i]
    BY <2>3, <2>4
  <2> QED BY <2>1, <2>3, <2>6, <2>7, <2>8
<1>4. PinsInv'
  <2>1. \A w \in parks' : IsTransfer(w) => <<w.task, w.kind>> \in pins'
    BY <1>2 DEF PinsInv
  <2>2. ASSUME NEW x \in pins
        PROVE  \/ \E w \in parks' : w.task = x[1] /\ w.kind = x[2]
               \/ /\ x[1] \in released'
                  /\ \E i \in DOMAIN completions' : completions'[i].task = x[1] /\ completions'[i].kind = x[2]
    <3>1. x[2] \in Ends
      BY DEF Base, TInv, WorldType
    <3>2. CASE \E w \in parks' : w.task = x[1] /\ w.kind = x[2]
      BY <3>2
    <3>3. CASE \E w \in Range(ws) : w.task = x[1] /\ w.kind = x[2]
      <4>1. PICK w \in Range(ws) : w.task = x[1] /\ w.kind = x[2]
        BY <3>3
      <4>2. PICK i \in 1..Len(ws) : ws[i] = w
        BY <1>1 DEF Range
      <4>3. x[1] \in Unpinned(ws)
        BY <3>1, <4>1 DEF Unpinned, IsTransfer
      <4>4. done[i].task = x[1] /\ done[i].kind = x[2]
        BY <1>2, <4>1, <4>2
      <4>5. PICK k \in DOMAIN completions' : completions'[k] = done[i]
        BY <1>3
      <4> QED BY <1>2, <4>3, <4>4, <4>5
    <3>4. CASE /\ x[1] \in released
               /\ \E i \in DOMAIN completions : completions[i].task = x[1] /\ completions[i].kind = x[2]
      BY <1>2, <1>3, <3>4
    <3> QED BY <1>2, <3>2, <3>3, <3>4 DEF PinsInv
  <2> QED BY <2>1, <2>2 DEF PinsInv
<1>5. SidesInv'
  <2>1. \A v, w \in parks' : IsTransfer(v) /\ IsTransfer(w) => v.kind = w.kind
    BY <1>2 DEF SidesInv
  <2>2. ASSUME NEW i \in DOMAIN completions', completions'[i].flag = "published", NEW w \in parks', IsTransfer(w)
        PROVE  w.kind = completions'[i].kind
    <3>1. CASE i \in DOMAIN completions /\ completions'[i] = completions[i]
      BY <1>2, <2>2, <3>1 DEF SidesInv
    <3>2. CASE \E j \in 1..Len(ws) : completions'[i] = done[j]
      BY <1>2, <2>2, <3>2 DEF SidesInv
    <3> QED BY <1>3, <3>1, <3>2
  <2> QED BY <2>1, <2>2 DEF SidesInv
<1> QED BY <1>4, <1>5

\* Decisions that the host publishes, or none.
LEMMA SilentPins ==
  ASSUME Base, PinsInv, SidesInv, UNCHANGED pins, UNCHANGED parkVars \/ Decided
  PROVE  PinsInv' /\ SidesInv' /\ parks' \subseteq parks
<1>1. CASE UNCHANGED parkVars
  BY <1>1 DEF parkVars, PinsInv, SidesInv
<1>2. CASE Decided
  <2>1. PICK ws, done : Decision(ws, done) /\ Silent(done)
    BY <1>2 DEF Decided
  <2>2. \A i \in 1..Len(ws) : done[i].flag # "published"
    BY <2>1 DEF Silent, Decision
  <2> QED BY <1>2, <2>1, <2>2, DecidedPins, DecidedFewer
<1> QED BY <1>1, <1>2

\* A step that leaves the pipe alone.
LEMMA SteadyTransfers ==
  ASSUME Base, TransferInv, UNCHANGED <<pins, pipe>>, UNCHANGED parkVars \/ Decided,
         ctl.pc # "retrying", RetryComes => RetryComes'
  PROVE  TransferInv'
<1>1. PinsInv' /\ SidesInv' /\ parks' \subseteq parks
  BY SilentPins DEF TransferInv
<1>2. \A end : Attempted(end)' = Attempted(end)
  BY DEF Attempted, Open, Holders
<1>3. RetriesInv'
  BY <1>1, <1>2 DEF TransferInv, RetriesInv
<1> QED BY <1>1, <1>3 DEF TransferInv

\* Where no retry is coming every sleeping transfer would block.
LEMMA QuietTransfers ==
  ASSUME TransferInv, ctl.pc \notin Retriable, ctl.pc = "publish" => batch = <<>>
  PROVE  ~RetryComes /\ \A w \in parks : IsTransfer(w) => Attempted(w.kind) = "block"
<1>1. ~RetryComes /\ ctl.pc # "retrying"
  BY DEF RetryComes, Retriable
<1> QED BY <1>1 DEF TransferInv, RetriesInv

\* The passes before the retries keep the note of the pipe, and lead to them.
LEMMA EarlyTransfers ==
  ASSUME Base, TransferInv,
         \/ AnnounceExits \/ ChildRound \/ SettleChildWait \/ ChildRoundEnds
         \/ SettleSignalWait \/ SignalWaitsEnd \/ Return
  PROVE  TransferInv'
<1>1. TInv /\ dirty \in Dirty /\ ctl \in Control
  BY DEF Base, TInv, DirtyType, ControlType
<1>2. UNCHANGED <<pins, pipe>> /\ ctl.pc # "retrying"
  BY DEF AnnounceExits, ChildRound, SettleChildWait, ChildRoundEnds, SettleSignalWait, SignalWaitsEnd,
         Return, worldVars
<1>3. UNCHANGED parkVars \/ Decided
  <2>1. CASE AnnounceExits \/ ChildRound \/ ChildRoundEnds \/ SignalWaitsEnd \/ Return
    BY <2>1 DEF AnnounceExits, ChildRound, ChildRoundEnds, SignalWaitsEnd, Return
  <2>2. CASE SettleChildWait \/ SettleSignalWait
    BY <2>2, ChildWaitKeeps, SignalWaitKeeps DEF Decided
  <2> QED BY <2>1, <2>2
<1>4. dirty'.pipe = dirty.pipe
  <2>1. CASE AnnounceExits
    <3>1. PICK d, b : d = [dirty EXCEPT !.notices = {}, !.children = b] /\ b = (dirty.children \/ AutoReaped # {})
      OBVIOUS
    <3>2. d \in Dirty /\ d.pipe = dirty.pipe
      <4>1. b \in BOOLEAN
        BY <3>1
      <4> QED BY <1>1, <3>1, <4>1 DEF Dirty
    <3>3. dirty' = d \/ dirty' = NoteSignal(d)
      BY <2>1, <3>1 DEF AnnounceExits, DirtyAfterNotices
    <3> QED BY <3>2, <3>3, SignalNoted
  <2>2. CASE ChildRound \/ SettleChildWait
    <3>1. \/ dirty' = dirty \/ dirty' = [dirty EXCEPT !.children = FALSE]
          \/ dirty' = [dirty EXCEPT !.children = TRUE]
      BY <2>2 DEF ChildRound, SettleChildWait
    <3> QED BY <1>1, <3>1 DEF Dirty
  <2>3. CASE ChildRoundEnds \/ SettleSignalWait \/ SignalWaitsEnd \/ Return
    BY <2>3 DEF ChildRoundEnds, SettleSignalWait, SignalWaitsEnd, Return
  <2> QED BY <2>1, <2>2, <2>3
<1>5. ctl'.pc \in Retriable
  <2>1. CASE AnnounceExits \/ ChildRoundEnds \/ SignalWaitsEnd \/ Return
    BY <1>1, <2>1 DEF AnnounceExits, ChildRoundEnds, SignalWaitsEnd, Return, At, BeginPass, Control, Retriable
  <2>2. CASE ChildRound
    BY <1>1, <2>2 DEF ChildRound, Control, Retriable
  <2>3. CASE SettleChildWait
    <3>1. ctl.pc = "children" /\ \E n : ctl' = [ctl EXCEPT !.at = n]
      BY <2>3 DEF SettleChildWait
    <3> QED BY <1>1, <3>1 DEF Control, Retriable
  <2>4. CASE SettleSignalWait
    BY <2>4 DEF SettleSignalWait, Retriable
  <2> QED BY <2>1, <2>2, <2>3, <2>4
<1>6. RetryComes => RetryComes'
  BY <1>4, <1>5 DEF RetryComes
<1> QED BY <1>2, <1>3, <1>6, SteadyTransfers

\* After the retries no transfer is waited for.
LEMMA LateTransfers ==
  ASSUME Base, TransferInv,
         \/ Expire \/ Sweep \/ Followup \/ CancelNewPark \/ CancelTarget \/ Resume \/ LifecycleEnds
         \/ Commit \/ TimerFires
  PROVE  TransferInv'
<1>1. UNCHANGED <<pins, pipe>> /\ ctl.pc \notin Retriable /\ (ctl.pc = "publish" => batch = <<>>)
  BY DEF Expire, Sweep, Followup, CancelNewPark, CancelTarget, Resume, LifecycleEnds, Commit, TimerFires,
         worldVars, Retriable
<1>2. UNCHANGED parkVars \/ Decided
  <2>1. CASE Resume \/ LifecycleEnds \/ Commit \/ TimerFires
    BY <2>1 DEF Resume, LifecycleEnds, Commit, TimerFires
  <2>2. CASE Expire \/ Sweep \/ Followup \/ CancelNewPark \/ CancelTarget
    BY <2>2, ExpireKeeps, SweepKeeps, CancelNewKeeps, CancelTargetKeeps, FollowupKeeps
  <2> QED BY <2>1, <2>2
<1>3. ~RetryComes /\ ctl.pc # "retrying"
  BY <1>1, QuietTransfers DEF Retriable
<1> QED BY <1>1, <1>2, <1>3, SteadyTransfers

\* Time, and nothing at all.
LEMMA StillTransfers ==
  ASSUME TransferInv, UNCHANGED <<parkVars, pins, pipe, dirty, batch, ctl>>
  PROVE  TransferInv'
<1>1. PinsInv' /\ SidesInv'
  BY DEF TransferInv, PinsInv, SidesInv, parkVars
<1>2. (RetryComes <=> RetryComes') /\ \A end : Attempted(end)' = Attempted(end)
  BY DEF RetryComes, Attempted, Open, Holders
<1>3. RetriesInv'
  BY <1>2 DEF TransferInv, RetriesInv, parkVars
<1> QED BY <1>1, <1>3 DEF TransferInv

\* A record that starts a pass stays in the batch while others go.
LEMMA UnheardStays ==
  ASSUME HostType, batch # <<>>, ~Unheard(Head(batch)), batch' = Tail(batch),
         \E i \in DOMAIN batch : Unheard(batch[i])
  PROVE  \E i \in DOMAIN batch' : Unheard(batch'[i])
<1>1. PICK q : q = batch
  OBVIOUS
<1>2. q \in Seq(Mixed) /\ q # <<>> /\ batch' = Tail(q) /\ ~Unheard(Head(q))
  BY <1>1 DEF HostType, Mixed
<1>3. PICK i \in DOMAIN q : Unheard(q[i])
  BY <1>1
<1>4. i \in 2..Len(q)
  BY <1>2, <1>3
<1>5. i - 1 \in DOMAIN Tail(q) /\ Tail(q)[i - 1] = q[i]
  BY <1>2, <1>3, <1>4
<1> QED BY <1>1, <1>2, <1>3, <1>5

\* Publication: a result the kernel published itself starts no pass, any other does.
LEMMA PublishTransfers ==
  ASSUME Base, AnswerInv, TransferInv, PublishArm \/ PublishNothing \/ PublishRecord
  PROVE  TransferInv'
<1>1. /\ TInv /\ HostType /\ ctl.pc = "publish" /\ ctl.pc # "retrying" /\ batch # <<>> /\ batch' = Tail(batch)
      /\ UNCHANGED <<pins, pipe, dirty>> /\ UNCHANGED parkVars /\ ctl \in Control
  BY DEF Base, TInv, ControlType, PublishArm, PublishNothing, PublishRecord, worldVars
<1>2. (~Unheard(Head(batch)) /\ UNCHANGED ctl) \/ ctl'.pc = "announce"
  <2>1. CASE PublishArm
    BY <2>1 DEF PublishArm, Unheard
  <2>2. CASE PublishNothing
    <3>1. Head(batch) # ArmMark /\ (~Current(Head(batch)) \/ Head(batch).flag = "published") /\ UNCHANGED ctl
      BY <2>2 DEF PublishNothing
    <3>2. Head(batch) \in Queued
      <4>1. Range(batch) \subseteq Range(OnTheWay)
        BY <1>1, OnTheWayParts
      <4>2. Head(batch) \in Range(batch)
        BY <1>1, PartsTyped, HeadTail
      <4> QED BY <3>1, <4>1, <4>2 DEF Queued
    <3>3. Answers(Head(batch))
      BY <3>2 DEF AnswerInv, RecordsInv
    <3>4. Current(Head(batch))
      BY <3>3 DEF Answers, Current, Live
    <3> QED BY <3>1, <3>4 DEF Unheard
  <2>3. CASE PublishRecord
    BY <1>1, <2>3 DEF PublishRecord, BeginPass, Control
  <2> QED BY <2>1, <2>2, <2>3
<1>3. RetryComes => RetryComes'
  <2>1. CASE ctl'.pc = "announce"
    BY <1>1, <2>1 DEF RetryComes, Retriable
  <2>2. CASE ~Unheard(Head(batch)) /\ UNCHANGED ctl
    BY <1>1, <2>2, UnheardStays DEF RetryComes, Retriable
  <2> QED BY <1>2, <2>1, <2>2
<1> QED BY <1>1, <1>3, SteadyTransfers

\* The start and the end of a round of retries.
LEMMA RetryRounds ==
  ASSUME Base, TransferInv, RetryRound \/ RetryRoundEnds
  PROVE  TransferInv'
<1>1. TInv /\ dirty \in Dirty /\ ctl \in Control /\ ParksInv /\ ParkType
  BY DEF Base, TInv, DirtyType, ControlType
<1>2. UNCHANGED <<pins, pipe>> /\ UNCHANGED parkVars
  BY DEF RetryRound, RetryRoundEnds, worldVars
<1>3. PinsInv' /\ SidesInv' /\ parks' = parks
  BY <1>2 DEF TransferInv, PinsInv, SidesInv, parkVars
<1>4. \A end : Attempted(end)' = Attempted(end)
  BY <1>2 DEF Attempted, Open, Holders
<1>5. RetriesInv'
  <2>1. CASE RetryRound /\ dirty.pipe
    <3>1. ctl'.pc = "retrying" /\ ctl'.at = 0
      BY <1>1, <2>1 DEF RetryRound, Control
    <3>2. \A w \in parks : w.gen > 0
      BY <1>1, ParkFacts DEF ParksInv
    <3> QED BY <1>3, <3>1, <3>2 DEF RetriesInv
  <2>2. CASE RetryRound /\ ~dirty.pipe
    BY <1>3, <1>4, <2>2 DEF RetryRound, TransferInv, RetriesInv, RetryComes
  <2>3. CASE RetryRoundEnds
    <3>1. ctl'.pc = "retry" /\ UNCHANGED dirty /\ RetryWaiters = {}
      BY <1>1, <2>3 DEF RetryRoundEnds, At, Control
    <3>2. \A w \in parks : IsTransfer(w) /\ Attempted(w.kind) # "block" => RetryComes
      BY <3>1 DEF TransferInv, RetriesInv, RetryWaiters
    <3>3. RetryComes => RetryComes'
      BY <3>1 DEF RetryComes, Retriable
    <3> QED BY <1>3, <1>4, <3>2, <3>3 DEF RetriesInv
  <2> QED BY <2>1, <2>2, <2>3
<1> QED BY <1>3, <1>5 DEF TransferInv

\* A transfer is tried again: a change of the pipe calls for another round.
LEMMA RetriedTransfers ==
  ASSUME Base, TransferInv, SettleRetryWait
  PROVE  TransferInv'
<1>1. TInv /\ dirty \in Dirty /\ ctl \in Control /\ ParksInv /\ ParkType /\ ctl.pc = "retrying" /\ RetryWaiters # {}
  BY DEF Base, TInv, DirtyType, ControlType, SettleRetryWait
<1>2. PICK w : w = Eldest(RetryWaiters)
  OBVIOUS
<1>3. w \in parks /\ w.gen \in Nat /\ IsTransfer(w) /\ \A v \in RetryWaiters : w.gen <= v.gen
  <2>1. RetryWaiters \in SUBSET parks /\ \A v \in RetryWaiters : IsTransfer(v)
    BY DEF RetryWaiters
  <2>2. w \in RetryWaiters /\ \A v \in RetryWaiters : w.gen <= v.gen
    BY <1>1, <1>2, <2>1, EldestExists
  <2> QED BY <1>1, <2>1, <2>2, ParkFacts
<1>4. PICK value : value = Attempted(w.kind)
  OBVIOUS
<1>5. value \in {"ok", "EPIPE", "block"}
  BY <1>4 DEF Attempted
<1>6. PICK flag \in {"published", "none"} :
        flag = IF PublishedDirectly(w, value) THEN "published" ELSE "none"
  OBVIOUS
<1>7. /\ ctl' = [ctl EXCEPT !.at = w.gen]
      /\ \/ value = "block" /\ UNCHANGED <<pipe, dirty>> /\ UNCHANGED parkVars
         \/ /\ value # "block" /\ Transferred(PidOf[w.task], w.kind, value) /\ FinishOne(w, value, flag)
  BY <1>2, <1>4, <1>6 DEF SettleRetryWait
<1>8. UNCHANGED pins /\ ctl'.pc = "retrying" /\ ctl'.at = w.gen
  BY <1>1, <1>3, <1>7 DEF SettleRetryWait, Control
\* The parks after this one are those that stay.
<1>9. ASSUME parks' \subseteq parks, UNCHANGED <<pipe, dirty>>, value = "block" \/ w \notin parks'
      PROVE  RetriesInv'
  <2>1. \A end : Attempted(end)' = Attempted(end)
    BY <1>8, <1>9 DEF Attempted, Open, Holders
  <2> SUFFICES ASSUME NEW v \in parks', IsTransfer(v), Attempted(v.kind)' # "block", ~RetryComes'
               PROVE  v.gen > w.gen
    BY <1>8 DEF RetriesInv
  <2>2. ~RetryComes
    BY <1>1, <1>8, <1>9 DEF RetryComes, Retriable
  <2>3. v \in RetryWaiters
    BY <1>9, <2>1, <2>2 DEF TransferInv, RetriesInv, RetryWaiters
  <2>4. v # w
    BY <1>4, <1>9, <2>1
  <2>5. v.gen # w.gen /\ w.gen <= v.gen /\ v.gen \in Nat
    BY <1>1, <1>3, <1>9, <2>3, <2>4, ParkFacts DEF ParksInv
  <2> QED BY <1>3, <2>5
<1>10. CASE value = "block" /\ UNCHANGED <<pipe, dirty>> /\ UNCHANGED parkVars
  BY <1>8, <1>9, <1>10 DEF TransferInv, PinsInv, SidesInv, parkVars
<1>11. CASE value # "block" /\ Transferred(PidOf[w.task], w.kind, value) /\ FinishOne(w, value, flag)
  <2>1. PICK done : Decision(<<w>>, done)
    BY <1>1, <1>3, <1>5, <1>11, FinishOneDecides DEF Values
  <2>2. Len(<<w>>) = 1 /\ <<w>>[1] = w /\ Range(<<w>>) = {w}
    BY <1>3, OnePick
  <2>3. PICK ws : ws = <<w>>
    OBVIOUS
  <2>4. \A i \in 1..Len(ws) : IsTransfer(ws[i])
    BY <1>3, <2>2, <2>3
  <2>5. PinsInv' /\ SidesInv'
    BY <1>8, <2>1, <2>3, <2>4, DecidedPins DEF TransferInv
  <2>6. parks' = parks \ {w}
    BY <2>1, <2>2 DEF Decision
  <2>7. PICK fill : /\ pipe' = [pipe EXCEPT !.fill = fill]
                    /\ dirty' = IF fill # pipe.fill THEN NotePipe(dirty) ELSE dirty
    BY <1>11 DEF Transferred
  <2>8. CASE fill = pipe.fill
    <3>1. pipe' = pipe /\ dirty' = dirty
      BY <1>1, <2>7, <2>8 DEF TInv, WorldType, Pipes
    <3> QED BY <1>9, <2>5, <2>6, <3>1 DEF TransferInv
  <2>9. CASE fill # pipe.fill
    <3>1. dirty'.pipe
      BY <1>1, <1>3, <2>7, <2>9, PipeNoted
    <3>2. RetryComes'
      BY <1>8, <3>1 DEF RetryComes, Retriable
    <3> QED BY <2>5, <3>2 DEF TransferInv, RetriesInv
  <2> QED BY <2>8, <2>9
<1> QED BY <1>7, <1>10, <1>11

\* Ends are given up where no retry was coming: one comes, or nothing that a
\* sleeping transfer looks at has changed.
LEMMA ClosedTransfers ==
  ASSUME WorldType, NEW pi \in Pipes, NEW ps \in SUBSET (Tasks \X Ends), NEW d \in Dirty,
         CloseEnds(pi, ps, d), pi.fill = pipe.fill,
         NEW w \in parks, w.kind \in Ends, <<w.task, w.kind>> \in ps, Attempted(w.kind) = "block",
         \/ ~dirty'.pipe
         \/ \A end \in Ends : end # w.kind => Holders(end, pi, ps) = Holders(end, pipe, pins)
  PROVE  Attempted(w.kind)' = "block"
<1>1. PICK end \in Ends : end # w.kind
  BY DEF Ends
<1>2. Holders(end, pi, ps) = Holders(end, pipe, pins)
  <2>1. CASE ~dirty'.pipe
    <3>1. dirty' # NotePipe(d)
      BY <2>1, PipeNoted
    <3> QED BY <3>1 DEF CloseEnds
  <2> QED BY <1>1, <2>1
<1>3. Holders(w.kind, pi, ps) # {}
  BY DEF Holders
<1>4. Open(w.kind, pi, ps) /\ (Open(end, pi, ps) <=> Open(end, pipe, pins))
  BY <1>2, <1>3 DEF Open
<1>5. Open(end, pipe, pins)
  BY <1>1, BlockedWhen DEF Ends
<1>6. Open("read", pi, ps)
  BY <1>1, <1>4, <1>5 DEF Ends
<1>7. pipe' = pi /\ pins' = ps
  BY <1>6 DEF CloseEnds
<1>8. CASE w.kind = "read"
  <2>1. end = "write" /\ pipe.fill = 0
    BY <1>1, <1>8, BlockedWhen DEF Ends
  <2>2. pipe'.fill = 0 /\ Open("write", pipe', pins')
    BY <1>4, <1>5, <1>7, <2>1
  <2>3. Attempted("read")' = "block"
    BY <2>2 DEF Attempted
  <2> QED BY <1>8, <2>3
<1>9. CASE w.kind = "write"
  <2>1. end = "read" /\ pipe.fill = PipeCap
    BY <1>1, <1>9, BlockedWhen DEF Ends
  <2>2. pipe'.fill = PipeCap /\ Open("read", pipe', pins')
    BY <1>4, <1>5, <1>7, <2>1
  <2>3. Attempted("write")' = "block"
    BY <2>2, BoundAssumption DEF Attempted
  <2> QED BY <1>9, <2>3
<1> QED BY <1>8, <1>9 DEF Ends

\* The task of a decided call sleeps no more.
LEMMA ReleasedAwake ==
  ASSUME Base, AnswerInv, NEW w \in parks
  PROVE  w.task \notin released
<1> SUFFICES ASSUME w.task \in released PROVE FALSE
  OBVIOUS
<1>1. TInv /\ PassInv /\ ParksInv
  BY DEF Base, FlowInv
<1>2. PICK i \in DOMAIN completions : completions[i].task = w.task
  BY <1>1 DEF PassInv
<1>3. completions[i] \in Record /\ completions[i] \in Range(completions)
  BY <1>1 DEF TInv, ParkType, Range
<1>4. completions[i] \in Queued
  BY <1>1, <1>3, OnTheWayParts, MarkIsNoRecord DEF Queued
<1>5. Answers(completions[i])
  BY <1>4 DEF AnswerInv, RecordsInv
<1>6. waitGen[w.task] = w.gen
  BY <1>1 DEF ParksInv
<1> QED BY <1>2, <1>5, <1>6 DEF Answers

\* The collection of the records releases the pins of the decided calls.
LEMMA CollectTransfers ==
  ASSUME Base, AnswerInv, TransferInv, CollectRecords
  PROVE  TransferInv'
<1>1. /\ TInv /\ WorldType /\ DirtyType /\ HostType /\ ParkType /\ ctl.pc = "out"
      /\ completions \in Seq(Record) /\ fresh \in Seq(Record) /\ batch \in Seq(Mixed)
  BY DEF Base, TInv, CollectRecords, HostType, ParkType, Mixed
<1>2. PICK out, rest : Collected(out, rest)
  BY CollectPage
<1>3. PICK ps : ps = {x \in pins : x[1] \notin released}
  OBVIOUS
<1>4. CloseEnds(pipe, ps, dirty) /\ parks' = parks /\ released' = {} /\ pins' = ps
  BY <1>3 DEF CollectRecords, CloseEnds
<1>5. \A w \in parks : IsTransfer(w) => <<w.task, w.kind>> \in ps
  BY <1>3, ReleasedAwake DEF TransferInv, PinsInv
<1>6. PinsInv'
  <2>1. \A x \in ps : \E w \in parks : w.task = x[1] /\ w.kind = x[2]
    BY <1>3 DEF TransferInv, PinsInv
  <2> QED BY <1>4, <1>5, <2>1 DEF PinsInv
<1>7. SidesInv'
  <2>1. completions' = rest /\ rest \in Seq(Record) /\ out \in Seq(Record) /\ Len(completions) = Len(out) + Len(rest)
        /\ \A i \in 1..Len(rest) : rest[i] = completions[Len(out) + i]
    BY <1>2 DEF Collected
  <2>2. \A i \in DOMAIN completions' : \E j \in DOMAIN completions : completions'[i] = completions[j]
    <3> SUFFICES ASSUME NEW i \in DOMAIN rest PROVE \E j \in DOMAIN completions : rest[i] = completions[j]
      BY <2>1
    <3>1. i \in 1..Len(rest) /\ Len(out) \in Nat /\ Len(rest) \in Nat
      BY <2>1
    <3>2. Len(out) + i \in DOMAIN completions
      BY <1>1, <2>1, <3>1
    <3> QED BY <2>1, <3>1, <3>2
  <2> QED BY <1>4, <2>2 DEF TransferInv, SidesInv
<1>8. RetriesInv'
  <2> SUFFICES ASSUME NEW w \in parks, IsTransfer(w), Attempted(w.kind)' # "block" PROVE RetryComes'
    BY <1>4 DEF RetriesInv
  <2>1. Attempted(w.kind) = "block" /\ w.kind \in Ends /\ <<w.task, w.kind>> \in ps
    BY <1>1, <1>5, QuietTransfers DEF Retriable, IsTransfer
  <2>2. ps \in SUBSET (Tasks \X Ends) /\ pipe \in Pipes /\ dirty \in Dirty
    BY <1>1, <1>3 DEF WorldType, DirtyType
  <2>3. dirty'.pipe /\ \E end \in Ends : end # w.kind /\ Holders(end, pipe, ps) # Holders(end, pipe, pins)
    BY <1>1, <1>4, <2>1, <2>2, ClosedTransfers
  <2>4. PICK end \in Ends : end # w.kind /\ Holders(end, pipe, ps) # Holders(end, pipe, pins)
    BY <2>3
  <2>5. PICK x \in pins : x[2] = end /\ x \notin ps
    <3>1. ps \subseteq pins
      BY <1>3
    <3> QED BY <2>4, <3>1 DEF Holders
  <2>6. PICK i \in DOMAIN completions : completions[i].task = x[1] /\ completions[i].kind = end
    <3>1. x[1] \in released
      BY <1>3, <2>5
    <3>2. \A v \in parks : v.task # x[1]
      BY <3>1, ReleasedAwake
    <3> QED BY <2>5, <3>2 DEF TransferInv, PinsInv
  <2>7. completions[i].flag # "published"
    BY <2>4, <2>6 DEF TransferInv, SidesInv
  <2>8. CASE ctl'.pc = "announce"
    BY <2>3, <2>8 DEF RetryComes, Retriable
  <2>9. CASE rest = <<>> /\ batch' = (fresh \o out) \o <<ArmMark>> \o batch /\ ctl'.pc = "publish"
    <3>1. /\ out \in Seq(Record) /\ Len(out) = Len(completions)
          /\ \A k \in 1..Len(out) : SameAnswer(out[k], completions[k])
      BY <1>2, <2>9 DEF Collected
    <3>2. i \in 1..Len(out) /\ out[i] \in Record /\ out[i].flag # "published"
      BY <1>1, <2>7, <3>1 DEF SameAnswer
    <3>3. Unheard(out[i])
      BY <3>2, MarkIsNoRecord DEF Unheard
    <3>4. PICK a, b, c : a = fresh \o out /\ b = <<ArmMark>> /\ c = batch
      OBVIOUS
    <3>5. a \in Seq(Mixed) /\ b \in Seq(Mixed) /\ c \in Seq(Mixed) /\ out[i] \in Range(a)
      <4>1. a \in Seq(Record) /\ Len(fresh) + i \in DOMAIN a /\ a[Len(fresh) + i] = out[i]
        BY <1>1, <3>1, <3>2, <3>4
      <4>2. out[i] \in Range(a)
        BY <4>1 DEF Range
      <4> QED BY <1>1, <3>4, <4>1, <4>2 DEF Mixed
    <3>6. out[i] \in Range(batch')
      <4>1. Range(a \o b \o c) = Range(a) \cup Range(b) \cup Range(c)
        BY <3>5, Parts
      <4>2. batch' = a \o b \o c
        BY <2>9, <3>4
      <4>3. out[i] \in Range(a \o b \o c)
        BY <3>5, <4>1
      <4> QED BY <4>2, <4>3, Zenon
    <3>7. PICK k \in DOMAIN batch' : batch'[k] = out[i]
      BY <3>6 DEF Range
    <3> QED BY <2>3, <2>9, <3>3, <3>7 DEF RetryComes
  <2> QED BY <1>2, <2>8, <2>9 DEF Collected
<1> QED BY <1>6, <1>7, <1>8 DEF TransferInv

\* A call that moves nothing, and parks at most a wait that is no transfer.
LEMMA IdleTransfers ==
  ASSUME TransferInv, ctl.pc = "idle", UNCHANGED <<pins, pipe, completions, released>>,
         parks \subseteq parks', \A w \in parks' : w \in parks \/ ~IsTransfer(w)
  PROVE  TransferInv'
<1>1. \A w \in parks : IsTransfer(w) => Attempted(w.kind) = "block"
  BY QuietTransfers DEF Retriable
<1>2. PinsInv'
  BY DEF TransferInv, PinsInv
<1>3. SidesInv'
  BY DEF TransferInv, SidesInv
<1>4. \A end : Attempted(end)' = Attempted(end)
  BY DEF Attempted, Open, Holders
<1>5. RetriesInv'
  BY <1>1, <1>4 DEF RetriesInv
<1> QED BY <1>2, <1>3, <1>5 DEF TransferInv

\* How the park of a call joins the queue.
LEMMA ParkedQueue ==
  ASSUME NEW t, NEW kind, NEW deadline, NEW set, NEW d, Parked(t, kind, deadline, set, d)
  PROVE  /\ UNCHANGED <<completions, released>>
         /\ \E w : parks' = parks \cup {w} /\ w.task = t /\ w.kind = kind
<1>1. PICK rem \in BOOLEAN, point \in BOOLEAN : ParkTask(t, kind, deadline, set, rem, point, d)
  BY DEF Parked
<1>2. PICK w : w = [gen |-> nextGen, task |-> t, kind |-> kind, deadline |-> deadline,
                    set |-> set, rem |-> rem, point |-> point]
  OBVIOUS
<1>3. parks' = parks \cup {w} /\ w.task = t /\ w.kind = kind /\ UNCHANGED <<completions, released>>
  BY <1>1, <1>2 DEF ParkTask
<1> QED BY <1>3

\* The calls that have nothing to do with the pipe.
LEMMA OtherCallsTransfers ==
  ASSUME Base, TransferInv, NEW t \in Tasks,
         \/ FutexWait(t) \/ Sleep(t) \/ Suspend(t) \/ SigTimedWait(t) \/ WaitChild(t)
         \/ \E s \in Sig, p \in Pids : Kill(t, p, s)
         \/ \E s \in Sig, u \in Tasks : Tkill(t, u, s)
         \/ SigProcMask(t) \/ FinishMaskWait(t)
         \/ \E p \in Pids : Stop(t, p) \/ Continue(t, p)
         \/ \E u \in Tasks : Cancel(t, u)
  PROVE  TransferInv'
<1>1. ctl.pc = "idle" /\ UNCHANGED <<pins, pipe>>
  BY DEF FutexWait, Sleep, Suspend, SigTimedWait, WaitChild, Kill, Tkill, SigProcMask, FinishMaskWait,
         Stop, Continue, Cancel, Enters, worldVars
<1>2. \/ UNCHANGED parkVars
      \/ \E kind \in {"futex", "sleep", "suspend", "sigtimed", "child"} :
           \E deadline, set, d : Parked(t, kind, deadline, set, d)
  <2>1. CASE FutexWait(t) \/ Sleep(t)
    BY <2>1, SleepNotes DEF Outcome
  <2>2. CASE Suspend(t)
    BY <2>2, SuspendNotes DEF Outcome
  <2>3. CASE SigTimedWait(t)
    BY <2>3, SigTimedNotes DEF Base, TInv
  <2>4. CASE WaitChild(t)
    BY <2>4, WaitChildNotes
  <2>5. CASE \/ \E s \in Sig, p \in Pids : Kill(t, p, s)
             \/ \E s \in Sig, u \in Tasks : Tkill(t, u, s)
             \/ SigProcMask(t) \/ FinishMaskWait(t)
             \/ \E p \in Pids : Stop(t, p) \/ Continue(t, p)
    BY <2>5, PlainOutcome
  <2>6. CASE \E u \in Tasks : Cancel(t, u)
    BY <2>6 DEF Cancel
  <2> QED BY <2>1, <2>2, <2>3, <2>4, <2>5, <2>6
<1>3. CASE UNCHANGED parkVars
  BY <1>1, <1>3, IdleTransfers DEF parkVars
<1>4. CASE \E kind \in {"futex", "sleep", "suspend", "sigtimed", "child"} :
             \E deadline, set, d : Parked(t, kind, deadline, set, d)
  <2>1. PICK kind \in {"futex", "sleep", "suspend", "sigtimed", "child"} :
          \E deadline, set, d : Parked(t, kind, deadline, set, d)
    BY <1>4
  <2>2. UNCHANGED <<completions, released>> /\ \E w : parks' = parks \cup {w} /\ w.kind = kind
    BY <2>1, ParkedQueue
  <2>3. kind \notin Ends
    BY DEF Ends
  <2> QED BY <1>1, <2>2, <2>3, IdleTransfers DEF IsTransfer
<1> QED BY <1>2, <1>3, <1>4

\* The calls that wake futex waiters.
LEMMA WakingTransfers ==
  ASSUME Base, TransferInv, NEW t \in Tasks, FutexWake(t) \/ ThreadExit(t)
  PROVE  TransferInv'
<1>1. ctl.pc = "idle" /\ UNCHANGED <<pins, pipe>>
  BY DEF FutexWake, ThreadExit, Enters
<1>2. ~RetryComes /\ ctl.pc # "retrying"
  BY <1>1, QuietTransfers DEF Retriable
<1>3. Decided
  BY WakeKeeps, ThreadExitKeeps DEF Decided
<1> QED BY <1>1, <1>2, <1>3, SteadyTransfers

\* read and write: a transfer parks next to others of its side only, and any
\* change of the pipe is noted for them.
LEMMA CalledTransfers ==
  ASSUME Base, TransferInv, NEW t \in Tasks, NEW end \in Ends, Transfer(t, end)
  PROVE  TransferInv'
<1>1. TInv /\ WorldType /\ dirty \in Dirty /\ ctl \in Control /\ ctl.pc = "idle" /\ PidOf[t] \in pipe[end]
  BY DEF Base, TInv, DirtyType, ControlType, Transfer, Enters
<1>2. \A w \in parks : IsTransfer(w) => Attempted(w.kind) = "block"
  BY <1>1, QuietTransfers DEF Retriable
<1>3. completions = <<>>
  BY <1>1, IdleFacts
<1>4. CASE /\ Transferred(PidOf[t], end, Attempted(end)) /\ Answer(t, "return")
           /\ UNCHANGED <<parkVars, pins>>
  <2>1. PICK fill : /\ pipe' = [pipe EXCEPT !.fill = fill]
                    /\ dirty' = IF fill # pipe.fill THEN NotePipe(dirty) ELSE dirty
    BY <1>4 DEF Transferred
  <2>2. UNCHANGED <<pins, completions, released, parks>>
    BY <1>4 DEF parkVars
  <2>3. CASE fill = pipe.fill
    <3>1. pipe' = pipe
      BY <1>1, <2>1, <2>3 DEF WorldType, Pipes
    <3> QED BY <1>1, <2>2, <3>1, IdleTransfers
  <2>4. CASE fill # pipe.fill
    <3>1. PinsInv' /\ SidesInv'
      BY <2>2 DEF TransferInv, PinsInv, SidesInv
    <3>2. ctl'.pc = "return"
      BY <1>1, <1>4, AnswerTyped
    <3>3. parks # {} => dirty'.pipe
      BY <1>1, <2>1, <2>4, PipeNoted
    <3>4. parks # {} => RetryComes'
      BY <3>2, <3>3 DEF RetryComes, Retriable
    <3> QED BY <2>2, <3>1, <3>4 DEF TransferInv, RetriesInv
  <2> QED BY <2>3, <2>4
<1>5. CASE UNCHANGED <<shared, parkVars, dirty, pins, pipe>>
  BY <1>1, <1>5, IdleTransfers DEF parkVars
<1>6. CASE /\ Attempted(end) = "block" /\ pins' = pins \cup {<<t, end>>} /\ UNCHANGED pipe
           /\ \E deadline : Parked(t, end, deadline, {}, dirty)
  <2>1. PICK w : parks' = parks \cup {w} /\ w.task = t /\ w.kind = end
    BY <1>6, ParkedQueue
  <2>2. UNCHANGED <<completions, released>>
    BY <1>6, ParkedQueue
  <2>3. \A e \in Ends : Holders(e, pipe', pins') = Holders(e, pipe, pins)
    <3> SUFFICES ASSUME NEW e \in Ends PROVE Holders(e, pipe', pins') = Holders(e, pipe, pins)
      OBVIOUS
    <3>1. <<t, end>>[1] = t /\ <<t, end>>[2] = end
      OBVIOUS
    <3>2. {PidOf[x[1]] : x \in {y \in pins' : y[2] = e}}
            \subseteq {PidOf[x[1]] : x \in {y \in pins : y[2] = e}} \cup (IF e = end THEN {PidOf[t]} ELSE {})
      BY <1>6, <3>1
    <3>3. {PidOf[x[1]] : x \in {y \in pins : y[2] = e}} \subseteq {PidOf[x[1]] : x \in {y \in pins' : y[2] = e}}
      BY <1>6
    <3>4. pipe' = pipe /\ PidOf[t] \in pipe[end]
      BY <1>1, <1>6
    <3> QED BY <3>2, <3>3, <3>4 DEF Holders
  <2>4. Open("read", pipe', pins') = Open("read", pipe, pins) /\ Open("write", pipe', pins') = Open("write", pipe, pins)
    BY <2>3 DEF Open, Ends
  <2>5. \A e \in Ends : Attempted(e)' = Attempted(e)
    BY <1>6, <2>4 DEF Attempted
  <2>6. \A v \in parks' : IsTransfer(v) => Attempted(v.kind) = "block" /\ v.kind \in Ends
    BY <1>2, <1>6, <2>1 DEF IsTransfer
  <2>7. RetriesInv'
    BY <2>5, <2>6 DEF RetriesInv
  <2>8. Attempted("read") # "block" \/ Attempted("write") # "block"
    <3>1. PICK n : n = pipe.fill
      OBVIOUS
    <3>2. PipeCap # 0
      BY BoundAssumption
    <3> QED BY <1>1, <3>1, <3>2, BlockedWhen
  <2>9. \A u, v \in parks' : IsTransfer(u) /\ IsTransfer(v) => u.kind = v.kind
    BY <2>6, <2>8 DEF Ends
  <2>10. SidesInv'
    BY <1>3, <2>2, <2>9 DEF SidesInv
  <2>11. PinsInv'
    <3>1. \A v \in parks' : IsTransfer(v) => <<v.task, v.kind>> \in pins'
      BY <1>6, <2>1 DEF TransferInv, PinsInv
    <3>2. <<t, end>>[1] = t /\ <<t, end>>[2] = end
      OBVIOUS
    <3>3. \A x \in pins' : x \in pins \/ (x[1] = w.task /\ x[2] = w.kind /\ w \in parks')
      BY <1>6, <2>1, <3>2
    <3>4. parks \subseteq parks'
      BY <2>1
    <3> QED BY <2>2, <3>1, <3>3, <3>4 DEF TransferInv, PinsInv
  <2> QED BY <2>7, <2>10, <2>11 DEF TransferInv
<1>7. \/ /\ Transferred(PidOf[t], end, Attempted(end)) /\ Answer(t, "return")
         /\ UNCHANGED <<parkVars, pins>>
      \/ UNCHANGED <<shared, parkVars, dirty, pins, pipe>>
      \/ /\ Attempted(end) = "block" /\ pins' = pins \cup {<<t, end>>} /\ UNCHANGED pipe
         /\ \E deadline : Parked(t, end, deadline, {}, dirty)
  BY DEF Transfer, Parked
<1> QED BY <1>4, <1>5, <1>6, <1>7

\* Ends are given up by a call, and the passes follow.
LEMMA GivenUp ==
  ASSUME TransferInv, WorldType, ctl.pc = "idle", NEW pi \in Pipes, NEW ps \in SUBSET (Tasks \X Ends),
         NEW d \in Dirty, CloseEnds(pi, ps, d), pi.fill = pipe.fill, parks' \subseteq parks,
         \A w \in parks' : IsTransfer(w) => <<w.task, w.kind>> \in ps,
         ctl'.pc \in {"return", "announce"}
  PROVE  RetriesInv'
<1> SUFFICES ASSUME NEW w \in parks', IsTransfer(w), Attempted(w.kind)' # "block" PROVE RetryComes'
  BY DEF RetriesInv
<1>1. Attempted(w.kind) = "block" /\ w.kind \in Ends /\ w \in parks /\ <<w.task, w.kind>> \in ps
  BY QuietTransfers DEF Retriable, IsTransfer
<1>2. dirty'.pipe
  BY <1>1, ClosedTransfers
<1> QED BY <1>2 DEF RetryComes, Retriable

\* close.
LEMMA CloseTransfers ==
  ASSUME Base, TransferInv, NEW t \in Tasks, NEW end \in Ends, Close(t, end)
  PROVE  TransferInv'
<1>1. TInv /\ WorldType /\ dirty \in Dirty /\ ctl.pc = "idle" /\ pins \in SUBSET (Tasks \X Ends)
  BY DEF Base, TInv, DirtyType, WorldType, Close, Enters
<1>2. PICK pi : pi = [pipe EXCEPT ![end] = @ \ {PidOf[t]}]
  OBVIOUS
<1>3. pi \in Pipes /\ pi.fill = pipe.fill
  BY <1>1, <1>2 DEF WorldType, Pipes, Ends
<1>4. CloseEnds(pi, pins, dirty) /\ UNCHANGED parkVars /\ Answer(t, "return")
  BY <1>2 DEF Close
<1>5. pins' = pins /\ UNCHANGED <<parks, completions, released>>
  BY <1>4 DEF CloseEnds, parkVars
<1>6. PinsInv' /\ SidesInv'
  BY <1>5 DEF TransferInv, PinsInv, SidesInv
<1>7. ctl'.pc = "return"
  BY <1>1, <1>4, AnswerTyped
<1>8. \A w \in parks' : IsTransfer(w) => <<w.task, w.kind>> \in pins
  BY <1>5 DEF TransferInv, PinsInv
<1>9. RetriesInv'
  BY <1>1, <1>3, <1>4, <1>5, <1>7, <1>8, GivenUp
<1> QED BY <1>6, <1>9 DEF TransferInv

\* The end of a process takes its parks with their pins.
LEMMA ExitTransfers ==
  ASSUME Base, TransferInv, NEW t \in Tasks, Exit(t) \/ \E p \in Pids : Terminate(t, p)
  PROVE  TransferInv'
<1>1. TInv /\ WorldType /\ dirty \in Dirty /\ ctl.pc = "idle" /\ ctl \in Control /\ pins \in SUBSET (Tasks \X Ends)
  BY DEF Base, TInv, DirtyType, WorldType, ControlType, Exit, Terminate, Enters
<1>2. PICK p \in Pids : Exited(p) /\ nextGen' = nextGen /\ ctl'.pc \in {"return", "announce"}
  <2>1. CASE Exit(t)
    <3>1. Exited(PidOf[t]) /\ nextGen' = nextGen /\ BeginPass("events")
      BY <2>1 DEF Exit, Retire
    <3>2. ctl'.pc = "announce"
      BY <1>1, <3>1 DEF BeginPass, Control
    <3> QED BY <3>1, <3>2, TaskAssumption
  <2>2. CASE \E q \in Pids : Terminate(t, q)
    <3>1. PICK q \in Pids : Terminate(t, q)
      BY <2>2
    <3>2. Exited(q) /\ nextGen' = nextGen /\ ctl' = [ctl EXCEPT !.pc = "return", !.caller = t]
      BY <3>1 DEF Terminate, Retire
    <3>3. ctl'.pc = "return"
      BY <1>1, <3>2 DEF Control
    <3> QED BY <3>2, <3>3
  <2> QED BY <2>1, <2>2
<1>3. completions' = <<>> /\ released' = {} /\ parks' = {w \in parks : PidOf[w.task] # p}
  BY <1>1, <1>2, ExitedTyped
<1>4. completions = <<>>
  BY <1>1, IdleFacts
<1>5. PICK d, pi, ps : /\ d = NoteExit(dirty, p) /\ pi = [pipe EXCEPT !.read = @ \ {p}, !.write = @ \ {p}]
                       /\ ps = {x \in pins : PidOf[x[1]] # p}
  OBVIOUS
<1>6. CloseEnds(pi, ps, d) /\ pins' = ps
  BY <1>2, <1>5 DEF Exited, CloseEnds
<1>7. d \in Dirty /\ pi \in Pipes /\ pi.fill = pipe.fill /\ ps \in SUBSET (Tasks \X Ends)
  BY <1>1, <1>5, OtherNoted DEF WorldType, Pipes
<1>8. \A w \in parks' : IsTransfer(w) => <<w.task, w.kind>> \in ps
  BY <1>3, <1>5 DEF TransferInv, PinsInv
<1>9. PinsInv'
  <2>1. \A x \in ps : \E w \in parks' : w.task = x[1] /\ w.kind = x[2]
    BY <1>3, <1>4, <1>5 DEF TransferInv, PinsInv
  <2> QED BY <1>6, <1>8, <2>1 DEF PinsInv
<1>10. SidesInv'
  BY <1>3 DEF TransferInv, SidesInv
<1>11. RetriesInv'
  <2>1. parks' \subseteq parks
    BY <1>3
  <2> QED BY <1>1, <1>2, <1>6, <1>7, <1>8, <2>1, GivenUp
<1> QED BY <1>9, <1>10, <1>11 DEF TransferInv

\* Every step keeps them.
LEMMA TransfersStep ==
  ASSUME Base, AnswerInv, TransferInv, [Next]_vars
  PROVE  TransferInv'
<1>1. CASE \E t \in Tasks : SystemCall(t)
  <2>1. PICK t \in Tasks : SystemCall(t)
    BY <1>1
  <2>2. CASE \/ FutexWait(t) \/ Sleep(t) \/ Suspend(t) \/ SigTimedWait(t) \/ WaitChild(t)
             \/ \E s \in Sig, p \in Pids : Kill(t, p, s)
             \/ \E s \in Sig, u \in Tasks : Tkill(t, u, s)
             \/ SigProcMask(t) \/ FinishMaskWait(t)
             \/ \E p \in Pids : Stop(t, p) \/ Continue(t, p)
             \/ \E u \in Tasks : Cancel(t, u)
    BY <2>2, OtherCallsTransfers
  <2>3. CASE \E end \in Ends : Transfer(t, end)
    BY <2>3, CalledTransfers
  <2>4. CASE \E end \in Ends : Close(t, end)
    BY <2>4, CloseTransfers
  <2>5. CASE FutexWake(t) \/ ThreadExit(t)
    BY <2>5, WakingTransfers
  <2>6. CASE Exit(t) \/ \E p \in Pids : Terminate(t, p)
    BY <2>6, ExitTransfers
  <2>7. \/ FutexWait(t) \/ Sleep(t) \/ Suspend(t) \/ SigTimedWait(t) \/ WaitChild(t)
        \/ (\E end \in Ends : Transfer(t, end)) \/ (\E end \in Ends : Close(t, end))
        \/ FutexWake(t) \/ SigProcMask(t) \/ FinishMaskWait(t) \/ ThreadExit(t) \/ Exit(t)
        \/ (\E s \in Sig, p \in Pids : Kill(t, p, s)) \/ (\E s \in Sig, u \in Tasks : Tkill(t, u, s))
        \/ (\E p \in Pids : Stop(t, p) \/ Continue(t, p)) \/ (\E p \in Pids : Terminate(t, p))
        \/ (\E u \in Tasks : Cancel(t, u))
    BY <2>1, Zenon DEF SystemCall
  <2> QED BY <2>2, <2>3, <2>4, <2>5, <2>6, <2>7, Zenon
<1>2. CASE \/ AnnounceExits \/ ChildRound \/ SettleChildWait \/ ChildRoundEnds
           \/ SettleSignalWait \/ SignalWaitsEnd \/ Return
  BY <1>2, EarlyTransfers
<1>3. CASE RetryRound \/ SettleRetryWait \/ RetryRoundEnds
  BY <1>3, RetryRounds, RetriedTransfers
<1>4. CASE \/ Expire \/ Sweep \/ Followup \/ CancelNewPark \/ CancelTarget \/ Resume \/ LifecycleEnds
           \/ Commit \/ TimerFires
  BY <1>4, LateTransfers
<1>5. CASE CollectRecords
  BY <1>5, CollectTransfers
<1>6. CASE PublishArm \/ PublishNothing \/ PublishRecord
  BY <1>6, PublishTransfers
<1>7. CASE Tick \/ UNCHANGED vars
  <2>1. UNCHANGED <<parkVars, pins, pipe, dirty, batch, ctl>>
    BY <1>7 DEF Tick, vars, worldVars, hostVars
  <2> QED BY <2>1, StillTransfers
<1> QED BY <1>1, <1>2, <1>3, <1>4, <1>5, <1>6, <1>7, Zenon DEF Next, Settle, Host

\* When an entry has ended, a transfer sleeps only while it would block, and
\* exactly the sleeping transfers pin their end of the pipe: settle_retry_waits
\* tried every other one, also when the pin of a finished call, released after
\* the passes (release_completed_retry_bindings), was the last reference to the
\* other end.
THEOREM TransfersAreServed == Spec => []TransfersServed
<1>1. Init => TransferInv
  BY DEF Init, TransferInv, PinsInv, SidesInv, RetriesInv
<1>2. Base /\ AnswerInv /\ TransferInv /\ [Next]_vars => TransferInv'
  BY TransfersStep
<1>3. Base /\ TransferInv => TransfersServed
  <2> SUFFICES ASSUME Base, TransferInv, ctl.pc = "idle"
               PROVE  /\ \A w \in parks : IsTransfer(w) => Attempted(w.kind) = "block"
                      /\ pins = {<<w.task, w.kind>> : w \in {v \in parks : IsTransfer(v)}}
    BY DEF TransfersServed, AtRest
  <2>1. \A w \in parks : IsTransfer(w) => Attempted(w.kind) = "block"
    BY QuietTransfers DEF Retriable
  <2>2. released = {}
    BY IdleFacts
  <2>3. \A x \in pins : x \in Tasks \X Ends /\ \E w \in parks : w.task = x[1] /\ w.kind = x[2]
    BY <2>2 DEF TransferInv, PinsInv, Base, TInv, WorldType
  <2>4. \A x \in pins : \E w \in parks : IsTransfer(w) /\ x = <<w.task, w.kind>>
    BY <2>3 DEF IsTransfer
  <2>5. \A w \in parks : IsTransfer(w) => <<w.task, w.kind>> \in pins
    BY DEF TransferInv, PinsInv
  <2> QED BY <2>1, <2>4, <2>5
<1> QED BY <1>1, <1>2, <1>3, Invariance, PTL DEF Spec

-----------------------------------------------------------------------------
(* The contract of a blocking call: every step of the kernel and the host  *)
(* moves each thread as WaitContract allows.                               *)

\* What the contract says of `t`, as the refinement mapping gives it.
Ask(t) == IF Phase(t) = "wait"
          THEN LET w == Eldest(ParksOf({t})) IN [kind |-> w.kind, due |-> w.deadline]
          ELSE [kind |-> "none", due |-> None]
Reply(t) == IF Phase(t) = "decided" THEN OnTheWay[Lowest(Unpublished(t))].value ELSE "none"

NoAsk == [kind |-> "none", due |-> None]
Seen(t, phase, ask, reply) == Phase(t) = phase /\ Ask(t) = ask /\ Reply(t) = reply

\* Where `t` is, from the invariant's point of view.
Viewed(t) ==
  /\ guest[t] = "gone" => Seen(t, "gone", NoAsk, "none")
  /\ guest[t] \notin {"gone", "blocked"} => Seen(t, "run", NoAsk, "none")
  /\ \A w \in parks : w.task = t => Seen(t, "wait", [kind |-> w.kind, due |-> w.deadline], "none")
  /\ \A r \in Queued : r.task = t /\ guest[t] = "blocked" => Seen(t, "decided", NoAsk, r.value)
  /\ guest[t] = "blocked" /\ effects[t] # "none" => Seen(t, "sent", NoAsk, "none")
Views == \A t \in Tasks : Viewed(t)

\* The mapping shows exactly that.
LEMMA ViewsHold ==
  ASSUME Base, AnswerInv
  PROVE  Views
<1> SUFFICES ASSUME NEW t \in Tasks PROVE Viewed(t)
  BY DEF Views
<1>1. TInv /\ ParksInv /\ RecordsInv /\ ParkType /\ t # NoTask
  BY TaskAssumption DEF Base, AnswerInv, TInv
<1>2. PICK rs : rs = Unpublished(t)
  OBVIOUS
<1>3. PICK P : P = ParksOf({t})
  OBVIOUS
<1>4. PICK q : q = OnTheWay
  OBVIOUS
<1>5. /\ guest[t] = "gone" => Phase(t) = "gone"
      /\ guest[t] \notin {"gone", "blocked"} => Phase(t) = "run"
      /\ guest[t] = "blocked" /\ P # {} => Phase(t) = "wait"
      /\ guest[t] = "blocked" /\ P = {} /\ rs # {} => Phase(t) = "decided"
      /\ guest[t] = "blocked" /\ P = {} /\ rs = {} => Phase(t) = "sent"
  BY <1>2, <1>3 DEF Phase
<1>6. /\ Phase(t) # "wait" => Ask(t) = NoAsk
      /\ Phase(t) # "decided" => Reply(t) = "none"
      /\ Phase(t) = "wait" => Ask(t) = [kind |-> Eldest(P).kind, due |-> Eldest(P).deadline]
      /\ Phase(t) = "decided" => Reply(t) = q[Lowest(rs)].value
  BY <1>2, <1>3, <1>4 DEF Ask, Reply, NoAsk
<1>7. \A w \in parks : (w \in P <=> w.task = t)
  BY <1>3 DEF ParksOf
<1>8. P \in SUBSET parks /\ \A v, w \in P : v = w
  BY <1>1, <1>3 DEF ParksOf, ParksInv
<1>9. rs = {i \in DOMAIN q : q[i].task = t /\ q[i].flag # "published"}
  BY <1>2, <1>4 DEF Unpublished
<1>10. q \in Seq(Mixed)
  BY <1>1, <1>4, OnTheWayParts
<1>11. ASSUME NEW i \in rs
       PROVE  q[i] \in Queued /\ Answers(q[i]) /\ i \in DOMAIN q
  <2>1. i \in DOMAIN q /\ q[i].task = t
    BY <1>9
  <2>2. q[i] \in Queued
    BY <1>1, <1>4, <2>1, MarkIsNoRecord DEF Queued, Range
  <2> QED BY <1>1, <2>1, <2>2 DEF RecordsInv
<1>12. \A i, j \in rs : i = j
  <2> SUFFICES ASSUME NEW i \in rs, NEW j \in rs, i # j PROVE FALSE
    OBVIOUS
  <2>1. q[i].gen = waitGen[t] /\ q[j].gen = waitGen[t] /\ 0 < q[i].gen /\ i \in DOMAIN q /\ j \in DOMAIN q
    BY <1>9, <1>11 DEF Answers
  <2>2. q[i].gen # 0
    BY <1>1, <1>11, <2>1, QueuedTyped
  <2> QED BY <1>1, <1>4, <2>1, <2>2 DEF RecordsInv, Single
<1>13. ASSUME NEW w \in parks, w.task = t
       PROVE  Seen(t, "wait", [kind |-> w.kind, due |-> w.deadline], "none")
  <2>1. guest[t] = "blocked" /\ w \in P
    BY <1>1, <1>7, <1>13 DEF ParksInv
  <2>2. Eldest(P) = w
    BY <1>1, <1>8, <2>1, EldestExists
  <2> QED BY <1>5, <1>6, <2>1, <2>2 DEF Seen
<1>14. ASSUME NEW r \in Queued, r.task = t, guest[t] = "blocked"
       PROVE  Seen(t, "decided", NoAsk, r.value)
  <2>1. Answers(r) /\ r.flag # "published"
    BY <1>1, <1>14 DEF RecordsInv, Answers
  <2>2. P = {}
    BY <1>1, <1>7, <1>8, <1>14, <2>1 DEF ParksInv, Answers
  <2>3. PICK i \in DOMAIN q : q[i] = r
    BY <1>4 DEF Queued, Range
  <2>4. i \in rs
    BY <1>9, <1>14, <2>1, <2>3
  <2>5. rs = {i} /\ i \in Nat
    BY <1>10, <1>12, <2>4
  <2>6. Lowest(rs) = i
    BY <2>5, LowestExists
  <2> QED BY <1>5, <1>6, <1>14, <2>2, <2>3, <2>4, <2>6 DEF Seen
<1>15. guest[t] = "blocked" /\ effects[t] # "none" => Seen(t, "sent", NoAsk, "none")
  <2> SUFFICES ASSUME guest[t] = "blocked", effects[t] # "none" PROVE Seen(t, "sent", NoAsk, "none")
    OBVIOUS
  <2>1. P = {}
    BY <1>1, <1>7, <1>8 DEF ParksInv
  <2>2. rs = {}
    BY <1>9, <1>11 DEF Answers
  <2> QED BY <1>5, <1>6, <2>1, <2>2 DEF Seen
<1>16. /\ guest[t] = "gone" => Seen(t, "gone", NoAsk, "none")
       /\ guest[t] \notin {"gone", "blocked"} => Seen(t, "run", NoAsk, "none")
  BY <1>5, <1>6 DEF Seen
<1> QED BY <1>13, <1>14, <1>15, <1>16 DEF Viewed

\* A result that the contract allows the wait of `w` now.
Rightful(w, value) ==
  /\ value \in {"ETIMEDOUT", "EAGAIN"} => w.deadline # None /\ w.deadline <= now
  /\ w.kind = "sleep" /\ value = "ok" => w.deadline # None /\ w.deadline <= now
  /\ w.kind = "suspend" => value = "EINTR"
  /\ value = "ECHILD" => w.kind = "child"
  /\ value = "EPIPE" => w.kind = "write"

\* The moves of the contract, in terms of what is shown before and after.
LEMMA MapStep ==
  ASSUME NEW t \in Tasks
  PROVE  /\ Phase(t)' = Phase(t) /\ Ask(t)' = Ask(t) /\ Reply(t)' = Reply(t) => C!Stays(t)
         /\ Seen(t, "gone", NoAsk, "none")' => C!Leaves(t)
         /\ Phase(t) = "sent" /\ Seen(t, "run", NoAsk, "none")' => C!Wakes(t)
         /\ Phase(t) = "decided" /\ Seen(t, "sent", NoAsk, "none")' => C!Sent(t)
         /\ Phase(t) = "decided" /\ Reply(t) = "EINTR" /\ Seen(t, "decided", NoAsk, "EFAULT")' => C!Faults(t)
         /\ \A w : /\ Phase(t) = "run" /\ Seen(t, "wait", [kind |-> w.kind, due |-> w.deadline], "none")'
                   /\ w.kind # "none" /\ (w.deadline # None => w.deadline > now)
                   => C!Waits(t)
         /\ \A w : /\ Seen(t, "wait", [kind |-> w.kind, due |-> w.deadline], "none") /\ w.kind \in Ends
                   /\ Seen(t, "run", NoAsk, "none")'
                   => C!WakesAtOnce(t)
         /\ \A w, value : /\ Seen(t, "wait", [kind |-> w.kind, due |-> w.deadline], "none")
                          /\ Rightful(w, value) /\ Seen(t, "decided", NoAsk, value)'
                          => C!Decided(t)
<1>1. Phase(t)' = Phase(t) /\ Ask(t)' = Ask(t) /\ Reply(t)' = Reply(t) => C!Stays(t)
  BY DEF C!Stays, Ask, Reply
<1>2. Seen(t, "gone", NoAsk, "none")' => C!Leaves(t)
  BY DEF C!Leaves, C!NoAsk, C!NoReply, NoAsk, Ask, Reply, Seen
<1>3. Phase(t) = "sent" /\ Seen(t, "run", NoAsk, "none")' => C!Wakes(t)
  BY DEF C!Wakes, C!Runs, C!NoAsk, C!NoReply, NoAsk, Ask, Reply, Seen
<1>4. Phase(t) = "decided" /\ Seen(t, "sent", NoAsk, "none")' => C!Sent(t)
  BY DEF C!Sent, C!NoAsk, C!NoReply, NoAsk, Ask, Reply, Seen
<1>5. Phase(t) = "decided" /\ Reply(t) = "EINTR" /\ Seen(t, "decided", NoAsk, "EFAULT")' => C!Faults(t)
  BY DEF C!Faults, C!NoAsk, C!NoReply, NoAsk, Ask, Reply, Seen
<1>6. ASSUME NEW w, Phase(t) = "run", Seen(t, "wait", [kind |-> w.kind, due |-> w.deadline], "none")',
             w.kind # "none", w.deadline # None => w.deadline > now
      PROVE  C!Waits(t)
  BY <1>6 DEF C!Waits, C!NoReply, Ask, Reply, Seen
<1>7. ASSUME NEW w, Seen(t, "wait", [kind |-> w.kind, due |-> w.deadline], "none"), w.kind \in Ends,
             Seen(t, "run", NoAsk, "none")'
      PROVE  C!WakesAtOnce(t)
  BY <1>7 DEF C!WakesAtOnce, C!Runs, C!NoAsk, C!NoReply, NoAsk, Ask, Reply, Seen, Ends
<1>8. ASSUME NEW w, NEW value, Seen(t, "wait", [kind |-> w.kind, due |-> w.deadline], "none"),
             Rightful(w, value), Seen(t, "decided", NoAsk, value)'
      PROVE  C!Decided(t)
  BY <1>8 DEF C!Decided, C!MayReply, C!TimeIsUp, C!NoAsk, NoAsk, Ask, Reply, Seen, Rightful
<1> QED BY <1>1, <1>2, <1>3, <1>4, <1>5, <1>6, <1>7, <1>8

\* A suspended thread waits for no time, and only an interrupted sleep has a rest
\* to store.
WaitsInv ==
  /\ \A w \in parks : w.kind = "suspend" => w.deadline = None
  /\ \A r \in Queued : r.rem => r.value = "EINTR"

\* Some parks are decided, each with a result that the contract allows.
JudgedAs(ws, done) ==
  /\ Decision(ws, done)
  /\ \A i \in 1..Len(ws) : Rightful(ws[i], done[i].value) /\ (done[i].rem => done[i].value = "EINTR")
Judged == \E ws, done : JudgedAs(ws, done)

\* One park.
LEMMA JudgedOne ==
  ASSUME ParkType, NEW w \in parks, NEW value \in Values,
         NEW flag \in {"none", "published", "cancelled"}, FinishOne(w, value, flag), Rightful(w, value)
  PROVE  Judged
<1>1. PICK done : Decision(<<w>>, done) /\ Len(done) = 1 /\ done[1] = Completion(w, value, flag, FALSE)
  BY FinishOneDecides
<1>2. done[1].value = value /\ done[1].rem = FALSE
  BY <1>1 DEF Completion
<1>3. PICK ws : ws = <<w>>
  OBVIOUS
<1>4. Decision(ws, done) /\ Len(ws) = 1 /\ ws[1] = w
  BY <1>1, <1>3, OnePick
<1>5. JudgedAs(ws, done)
  BY <1>2, <1>4 DEF JudgedAs
<1> QED BY <1>5 DEF Judged

\* Several.
LEMMA JudgedMany ==
  ASSUME ParkType, NEW ws, Picks(ws), NEW done, done = [i \in DOMAIN ws |-> done[i]],
         \A i \in DOMAIN ws : \E value \in Values, rem \in BOOLEAN :
           /\ done[i] = Completion(ws[i], value, "none", rem)
           /\ Rightful(ws[i], value) /\ (rem => value = "EINTR"),
         parks' = parks \ Range(ws), completions' = completions \o done,
         released' = released \cup Unpinned(ws)
  PROVE  Judged
<1>1. Decision(ws, done)
  BY FinishDecides
<1>2. DOMAIN ws = 1..Len(ws)
  BY DEF Picks
<1>3. ASSUME NEW i \in 1..Len(ws)
      PROVE  Rightful(ws[i], done[i].value) /\ (done[i].rem => done[i].value = "EINTR")
  <2>1. PICK value \in Values, rem \in BOOLEAN :
          /\ done[i] = Completion(ws[i], value, "none", rem)
          /\ Rightful(ws[i], value) /\ (rem => value = "EINTR")
    BY <1>2
  <2>2. done[i].value = value /\ done[i].rem = rem
    BY <2>1 DEF Completion
  <2> QED BY <2>1, <2>2
<1>4. JudgedAs(ws, done)
  BY <1>1, <1>3 DEF JudgedAs
<1> QED BY <1>4 DEF Judged

\* Any wait may be interrupted.
LEMMA Interrupted ==
  ASSUME NEW w
  PROVE  Rightful(w, "EINTR")
BY DEF Rightful

\* A wake of futex waiters.
LEMMA WokenJudged ==
  ASSUME ParkType, ParksInv, NEW p, NEW n \in Nat, FutexWoken(Woken(p, n))
  PROVE  Judged
<1> DEFINE ws == Woken(p, n)
           done == [i \in DOMAIN ws |-> Completion(ws[i], "ok", "none", FALSE)]
<1>1. Picks(ws) /\ \A i \in 1..Len(ws) : ws[i].kind = "futex"
  BY WokenPicks
<1>2. /\ parks' = parks \ Range(ws) /\ completions' = completions \o done
      /\ released' = released \cup Unpinned(ws)
  BY DEF FutexWoken, Finish
<1> HIDE DEF ws
<1>3. \A i \in DOMAIN ws : Rightful(ws[i], "ok")
  BY <1>1 DEF Rightful, Picks
<1>4. /\ done = [i \in DOMAIN ws |-> done[i]]
      /\ \A i \in DOMAIN ws : \E value \in Values, rem \in BOOLEAN :
           /\ done[i] = Completion(ws[i], value, "none", rem)
           /\ Rightful(ws[i], value) /\ (rem => value = "EINTR")
  BY <1>3 DEF Values
<1> HIDE DEF done
<1> QED BY <1>1, <1>2, <1>4, JudgedMany

\* A sweep.
LEMMA SweptJudged ==
  ASSUME ParkType, ParksInv, Swept
  PROVE  Judged
<1> DEFINE scope == {w \in parks : dirty.signals \/ PidOf[w.task] \in dirty.pids}
           hit == {w \in scope : Live(w.task) /\ SignalTargets(w.task)}
           ws == ByAge(hit)
           done == [i \in DOMAIN ws |-> Completion(ws[i], "EINTR", "none", ws[i].rem)]
<1>1. \A w \in scope : Live(w.task)
  BY DEF ParksInv, Live
<1>2. {w \in scope : ~Live(w.task)} = {} /\ hit \in SUBSET parks
  BY <1>1
<1>3. /\ parks' = parks \ (Range(ws) \cup {w \in scope : ~Live(w.task)})
      /\ completions' = completions \o done
      /\ released' = released \cup Unpinned(ws)
  BY DEF Swept
<1> HIDE DEF scope, hit
<1>4. Picks(ws)
  BY <1>2, AgeOrder
<1>5. parks' = parks \ Range(ws)
  BY <1>2, <1>3
<1> HIDE DEF ws
<1>6. \A i \in DOMAIN ws : ws[i].rem \in BOOLEAN /\ Rightful(ws[i], "EINTR")
  BY <1>4, ParkFacts, Interrupted DEF Picks
<1>7. /\ done = [i \in DOMAIN ws |-> done[i]]
      /\ \A i \in DOMAIN ws : \E value \in Values, rem \in BOOLEAN :
           /\ done[i] = Completion(ws[i], value, "none", rem)
           /\ Rightful(ws[i], value) /\ (rem => value = "EINTR")
  BY <1>6 DEF Values
<1> HIDE DEF done
<1> QED BY <1>3, <1>4, <1>5, <1>7, JudgedMany

\* An expiry: the deadline has passed.
LEMMA ExpireJudged ==
  ASSUME ParkType, ParksInv, WaitsInv, Expire
  PROVE  Judged
<1> DEFINE hit == {w \in parks : w.deadline # None /\ w.deadline <= now}
           ws == ByDeadline(hit)
           done == [i \in DOMAIN ws |-> Completion(ws[i], DeadlineValue(ws[i]), "none", FALSE)]
<1>1. /\ parks' = parks \ Range(ws) /\ completions' = completions \o done
      /\ released' = released \cup Unpinned(ws)
  BY DEF Expire, Finish
<1>2. Picks(ws) /\ Range(ws) = hit
  BY DeadlineOrder
<1>3. \A w \in hit : DeadlineValue(w) \in Values /\ Rightful(w, DeadlineValue(w))
  <2> SUFFICES ASSUME NEW w \in hit
               PROVE  DeadlineValue(w) \in Values /\ Rightful(w, DeadlineValue(w))
    OBVIOUS
  <2>1. w \in parks /\ w.deadline # None /\ w.deadline <= now
    OBVIOUS
  <2>2. w.kind # "suspend"
    BY <2>1 DEF WaitsInv
  <2>3. DeadlineValue(w) \in {"ok", "ETIMEDOUT", "EAGAIN"}
    BY DEF DeadlineValue
  <2> QED BY <2>1, <2>2, <2>3 DEF Rightful, Values
<1> HIDE DEF hit, ws
<1>4. \A i \in DOMAIN ws : DeadlineValue(ws[i]) \in Values /\ Rightful(ws[i], DeadlineValue(ws[i]))
  BY <1>2, <1>3 DEF Range
<1>5. /\ done = [i \in DOMAIN ws |-> done[i]]
      /\ \A i \in DOMAIN ws : \E value \in Values, rem \in BOOLEAN :
           /\ done[i] = Completion(ws[i], value, "none", rem)
           /\ Rightful(ws[i], value) /\ (rem => value = "EINTR")
  BY <1>4
<1> HIDE DEF done
<1> QED BY <1>1, <1>2, <1>5, JudgedMany

\* The steps that decide waits, decide them as the contract allows.
LEMMA StepJudged ==
  ASSUME Base, WaitsInv,
         \/ SettleChildWait \/ SettleSignalWait \/ SettleRetryWait \/ Expire \/ Sweep
         \/ CancelNewPark \/ CancelTarget \/ Followup
  PROVE  UNCHANGED <<parks, completions>> \/ Judged
<1>1. ParkType /\ ParksInv
  BY DEF Base, TInv
<1>2. CASE SettleChildWait
  <2>1. PICK w : w = Eldest(ChildWaiters)
    OBVIOUS
  <2>2. ChildWaiters \in SUBSET parks /\ \A v \in ChildWaiters : v.kind = "child"
    BY DEF ChildWaiters
  <2>3. w \in parks /\ w.kind = "child"
    BY <1>1, <1>2, <2>1, <2>2, EldestExists DEF SettleChildWait
  <2>4. FinishOne(w, "ok", "none") \/ FinishOne(w, "ECHILD", "none") \/ UNCHANGED <<parks, completions>>
    BY <1>2, <2>1 DEF SettleChildWait, parkVars
  <2>5. Rightful(w, "ok") /\ Rightful(w, "ECHILD")
    BY <2>3 DEF Rightful
  <2> QED BY <1>1, <2>3, <2>4, <2>5, JudgedOne DEF Values
<1>3. CASE SettleSignalWait
  <2>1. PICK w : w = Eldest(SignalWaiters)
    OBVIOUS
  <2>2. SignalWaiters \in SUBSET parks /\ \A v \in SignalWaiters : v.kind = "sigtimed"
    BY DEF SignalWaiters
  <2>3. w \in parks /\ w.kind = "sigtimed"
    BY <1>1, <1>3, <2>1, <2>2, EldestExists DEF SettleSignalWait
  <2>4. FinishOne(w, "ok", "none") /\ Rightful(w, "ok")
    BY <1>3, <2>1, <2>3 DEF SettleSignalWait, Rightful
  <2> QED BY <1>1, <2>3, <2>4, JudgedOne DEF Values
<1>4. CASE SettleRetryWait
  <2>1. PICK w : w = Eldest(RetryWaiters)
    OBVIOUS
  <2>2. RetryWaiters \in SUBSET parks /\ \A v \in RetryWaiters : v.kind \in Ends
    BY DEF RetryWaiters, IsTransfer
  <2>3. w \in parks /\ w.kind \in Ends
    BY <1>1, <1>4, <2>1, <2>2, EldestExists DEF SettleRetryWait
  <2>4. PICK value, flag : /\ value = Attempted(w.kind)
                           /\ flag = IF PublishedDirectly(w, value) THEN "published" ELSE "none"
    OBVIOUS
  <2>5. UNCHANGED <<parks, completions>> \/ (value # "block" /\ FinishOne(w, value, flag))
    BY <1>4, <2>1, <2>4 DEF SettleRetryWait, parkVars
  <2>6. value # "block" => value \in {"ok", "EPIPE"} /\ (value = "EPIPE" => w.kind = "write")
    BY <2>4 DEF Attempted
  <2>7. value # "block" => Rightful(w, value) /\ value \in Values
    BY <2>3, <2>6 DEF Rightful, Values, Ends
  <2>8. flag \in {"none", "published", "cancelled"}
    BY <2>4
  <2> QED BY <1>1, <2>3, <2>5, <2>7, <2>8, JudgedOne
<1>5. CASE Expire
  BY <1>1, <1>5, ExpireJudged
<1>6. CASE Sweep \/ Followup
  BY <1>1, <1>6, SweptJudged DEF Sweep, Followup
<1>7. ASSUME NEW u, CancelLiveTask(u) PROVE UNCHANGED <<parks, completions>> \/ Judged
  <2>1. CASE ParksOf({u}) = {}
    BY <1>7, <2>1 DEF CancelLiveTask, parkVars
  <2>2. CASE ParksOf({u}) # {}
    <3>1. PICK w : w = Eldest(ParksOf({u}))
      OBVIOUS
    <3>2. ParksOf({u}) \in SUBSET parks
      BY DEF ParksOf
    <3>3. w \in parks /\ FinishOne(w, "EINTR", "cancelled")
      BY <1>1, <1>7, <2>2, <3>1, <3>2, EldestExists DEF CancelLiveTask
    <3> QED BY <1>1, <3>3, JudgedOne, Interrupted DEF Values
  <2> QED BY <2>1, <2>2
<1>8. CASE CancelNewPark
  BY <1>7, <1>8 DEF CancelNewPark
<1>9. CASE CancelTarget
  BY <1>7, <1>9 DEF CancelTarget, parkVars
<1> QED BY <1>2, <1>3, <1>4, <1>5, <1>6, <1>8, <1>9

\* So do the wakes of a futex.
LEMMA CallJudged ==
  ASSUME Base, NEW t \in Tasks, FutexWake(t) \/ ThreadExit(t)
  PROVE  Judged
<1>1. ParkType /\ ParksInv /\ Cardinality(Tasks) \in Nat
  BY TaskAssumption, FS_CardinalityType DEF Base, TInv
<1>2. PICK n \in {1, Cardinality(Tasks)} : FutexWoken(Woken(PidOf[t], n))
  BY DEF FutexWake, ThreadExit
<1> QED BY <1>1, <1>2, WokenJudged

\* What such a decision adds to the queue.
LEMMA JudgedQueue ==
  ASSUME TInv, TInv', ParksInv, RecordsInv, Judged, UNCHANGED <<fresh, batch>>
  PROVE  /\ parks' \subseteq parks /\ Queued \subseteq Queued'
         /\ \A w \in parks : w \in parks' \/ \E r \in Queued' : r.task = w.task /\ Rightful(w, r.value)
         /\ WaitsInv => WaitsInv'
<1>1. PICK ws, done : JudgedAs(ws, done)
  BY DEF Judged
<1>2. Decision(ws, done)
  BY <1>1 DEF JudgedAs
<1>3. Queued' = Queued \cup Range(done)
  BY <1>2, DecisionQueue
<1>4. /\ parks' = parks \ Range(ws) /\ Len(done) = Len(ws) /\ Len(ws) \in Nat
      /\ DOMAIN ws = 1..Len(ws) /\ DOMAIN done = 1..Len(ws)
      /\ \A i \in 1..Len(ws) : done[i].task = ws[i].task
  BY <1>2 DEF Decision, Picks
<1>5. ASSUME NEW w \in parks, w \notin parks'
      PROVE  \E r \in Queued' : r.task = w.task /\ Rightful(w, r.value)
  <2>1. PICK i \in 1..Len(ws) : w = ws[i]
    BY <1>4, <1>5 DEF Range
  <2>2. done[i] \in Queued' /\ done[i].task = w.task
    BY <1>3, <1>4, <2>1 DEF Range
  <2>3. Rightful(w, done[i].value)
    BY <1>1, <2>1 DEF JudgedAs
  <2> QED BY <2>2, <2>3
<1>6. \A r \in Range(done) : r.rem => r.value = "EINTR"
  BY <1>1, <1>4 DEF JudgedAs, Range
<1>7. WaitsInv => WaitsInv'
  BY <1>3, <1>4, <1>6 DEF WaitsInv
<1> QED BY <1>3, <1>4, <1>5, <1>7

\* All that a step of the contract is derived from.
Steady == Base /\ AnswerInv /\ Views

\* A thread the step does not touch, except that its wait may be decided.
LEMMA HeldMoves ==
  ASSUME Steady, Steady', NEW u \in Tasks, guest'[u] = guest[u],
         effects'[u] = "none" <=> effects[u] = "none",
         \A w \in parks : w.task = u =>
           w \in parks' \/ \E r \in Queued' : r.task = u /\ Rightful(w, r.value),
         \A c \in Queued : c.task = u =>
           \E r \in Queued' : r.task = u /\ (r.value = c.value \/ (c.value = "EINTR" /\ r.value = "EFAULT"))
  PROVE  C!Move(u)
<1>1. Viewed(u) /\ Viewed(u)'
  BY DEF Steady, Views
<1>2. CASE guest[u] # "blocked"
  <2>1. \E p : Seen(u, p, NoAsk, "none") /\ Seen(u, p, NoAsk, "none")'
    BY <1>1, <1>2 DEF Viewed
  <2>2. Phase(u)' = Phase(u) /\ Ask(u)' = Ask(u) /\ Reply(u)' = Reply(u)
    BY <2>1 DEF Seen
  <2> QED BY <2>2, MapStep DEF C!Move
<1>3. CASE guest[u] = "blocked" /\ \E w \in parks : w.task = u
  <2>1. PICK w \in parks : w.task = u
    BY <1>3
  <2>2. Seen(u, "wait", [kind |-> w.kind, due |-> w.deadline], "none")
    BY <1>1, <2>1 DEF Viewed
  <2>3. CASE w \in parks'
    <3>1. Seen(u, "wait", [kind |-> w.kind, due |-> w.deadline], "none")'
      BY <1>1, <2>1, <2>3 DEF Viewed
    <3>2. Phase(u)' = Phase(u) /\ Ask(u)' = Ask(u) /\ Reply(u)' = Reply(u)
      BY <2>2, <3>1 DEF Seen
    <3> QED BY <3>2, MapStep DEF C!Move
  <2>4. CASE w \notin parks'
    <3>1. PICK r \in Queued' : r.task = u /\ Rightful(w, r.value)
      BY <2>1, <2>4
    <3>2. Seen(u, "decided", NoAsk, r.value)'
      BY <1>1, <1>3, <3>1 DEF Viewed
    <3>3. C!Decided(u)
      BY <2>2, <3>1, <3>2, MapStep
    <3> QED BY <3>3 DEF C!Move
  <2> QED BY <2>3, <2>4
<1>4. CASE guest[u] = "blocked" /\ \E c \in Queued : c.task = u /\ c.flag # "published"
  <2>1. PICK c \in Queued : c.task = u
    BY <1>4
  <2>2. Seen(u, "decided", NoAsk, c.value)
    BY <1>1, <1>4, <2>1 DEF Viewed
  <2>3. PICK r \in Queued' : r.task = u /\ (r.value = c.value \/ (c.value = "EINTR" /\ r.value = "EFAULT"))
    BY <2>1
  <2>4. Seen(u, "decided", NoAsk, r.value)'
    BY <1>1, <1>4, <2>3 DEF Viewed
  <2>5. CASE r.value = c.value
    <3>1. Phase(u)' = Phase(u) /\ Ask(u)' = Ask(u) /\ Reply(u)' = Reply(u)
      BY <2>2, <2>4, <2>5 DEF Seen
    <3> QED BY <3>1, MapStep DEF C!Move
  <2>6. CASE c.value = "EINTR" /\ r.value = "EFAULT"
    <3>1. Phase(u) = "decided" /\ Reply(u) = "EINTR" /\ Seen(u, "decided", NoAsk, "EFAULT")'
      BY <2>2, <2>4, <2>6 DEF Seen
    <3> QED BY <3>1, MapStep DEF C!Move
  <2> QED BY <2>3, <2>5, <2>6
<1>5. CASE guest[u] = "blocked" /\ effects[u] # "none"
  <2>1. Seen(u, "sent", NoAsk, "none") /\ Seen(u, "sent", NoAsk, "none")'
    BY <1>1, <1>5 DEF Viewed
  <2>2. Phase(u)' = Phase(u) /\ Ask(u)' = Ask(u) /\ Reply(u)' = Reply(u)
    BY <2>1 DEF Seen
  <2> QED BY <2>2, MapStep DEF C!Move
<1>6. Awaited(u)
  BY DEF Steady, AnswerInv, GuestsInv
<1> QED BY <1>2, <1>3, <1>4, <1>5, <1>6 DEF Awaited

\* The step lets a thread run on, frees it at the end of an entry or by the
\* kernel's own publication, or ends it.
Running(g) == g \notin {"gone", "blocked"}
Freed(u) ==
  \/ guest'[u] = "gone"
  \/ /\ Running(guest'[u])
     /\ \/ Running(guest[u])
        \/ guest[u] = "blocked" /\ effects[u] # "none"
        \/ \E w \in parks : w.task = u /\ w.kind \in Ends
\* Such a thread runs on as the contract allows.
LEMMA FreedMoves ==
  ASSUME Steady, Steady', NEW u \in Tasks, Freed(u)
  PROVE  C!Move(u)
<1>1. Viewed(u) /\ Viewed(u)'
  BY DEF Steady, Views
<1>2. CASE guest'[u] = "gone"
  <2>1. Seen(u, "gone", NoAsk, "none")'
    BY <1>1, <1>2 DEF Viewed
  <2> QED BY <2>1, MapStep DEF C!Move
<1>3. CASE Running(guest'[u])
  <2>1. Seen(u, "run", NoAsk, "none")'
    BY <1>1, <1>3 DEF Viewed, Running
  <2>2. CASE Running(guest[u])
    <3>1. Seen(u, "run", NoAsk, "none")
      BY <1>1, <2>2 DEF Viewed, Running
    <3>2. Phase(u)' = Phase(u) /\ Ask(u)' = Ask(u) /\ Reply(u)' = Reply(u)
      BY <2>1, <3>1 DEF Seen
    <3> QED BY <3>2, MapStep DEF C!Move
  <2>3. CASE guest[u] = "blocked" /\ effects[u] # "none"
    <3>1. Phase(u) = "sent"
      BY <1>1, <2>3 DEF Viewed, Seen
    <3> QED BY <2>1, <3>1, MapStep DEF C!Move
  <2>4. CASE \E w \in parks : w.task = u /\ w.kind \in Ends
    <3>1. PICK w \in parks : w.task = u /\ w.kind \in Ends
      BY <2>4
    <3>2. Seen(u, "wait", [kind |-> w.kind, due |-> w.deadline], "none")
      BY <1>1, <3>1 DEF Viewed
    <3>3. C!WakesAtOnce(u)
      BY <2>1, <3>1, <3>2, MapStep
    <3> QED BY <3>3 DEF C!Move
  <2> QED BY <1>2, <1>3, <2>2, <2>3, <2>4 DEF Freed, Running
<1> QED BY <1>2, <1>3 DEF Freed

\* The step leaves a thread where it is.
Idles(u) == guest'[u] = guest[u] /\ (effects'[u] = "none" <=> effects[u] = "none")
\* A step that decides waits, or none, and leaves the threads alone or frees them.
LEMMA DecidingMoves ==
  ASSUME Steady, Steady', WaitsInv, UNCHANGED <<fresh, batch>>, UNCHANGED <<parks, completions>> \/ Judged,
         \A u \in Tasks : Idles(u) \/ Freed(u)
  PROVE  WaitsInv' /\ \A u \in Tasks : C!Move(u)
<1>1. TInv /\ TInv' /\ ParksInv /\ RecordsInv
  BY DEF Steady, Base, AnswerInv
<1>2. /\ Queued \subseteq Queued'
      /\ \A w \in parks : w \in parks' \/ \E r \in Queued' : r.task = w.task /\ Rightful(w, r.value)
      /\ WaitsInv'
  <2>1. CASE UNCHANGED <<parks, completions>>
    <3>1. Queued' = Queued
      BY <2>1 DEF Queued, OnTheWay
    <3> QED BY <2>1, <3>1 DEF WaitsInv
  <2>2. CASE Judged
    BY <1>1, <2>2, JudgedQueue
  <2> QED BY <2>1, <2>2
<1>3. ASSUME NEW u \in Tasks PROVE C!Move(u)
  <2>1. CASE Freed(u)
    BY <2>1, FreedMoves
  <2>2. CASE Idles(u)
    <3>1. \A w \in parks : w.task = u =>
            w \in parks' \/ \E r \in Queued' : r.task = u /\ Rightful(w, r.value)
      BY <1>2
    <3>2. \A c \in Queued : c.task = u =>
            \E r \in Queued' : r.task = u /\ (r.value = c.value \/ (c.value = "EINTR" /\ r.value = "EFAULT"))
      BY <1>2
    <3> QED BY <2>2, <3>1, <3>2, HeldMoves DEF Idles
  <2> QED BY <2>1, <2>2
<1> QED BY <1>2, <1>3

\* A new park: its deadline is still to come.
Sleeps(t) ==
  \E kind \in Kinds : \E deadline, set, d :
    /\ Parked(t, kind, deadline, set, d)
    /\ deadline # None => deadline > now
    /\ kind = "suspend" => deadline = None
\* A call that may block answers at once, or parks until a later time.
LEMMA CallSleeps ==
  ASSUME Base, NEW t \in Tasks,
         \/ FutexWait(t) \/ Sleep(t) \/ Suspend(t) \/ SigTimedWait(t) \/ WaitChild(t)
         \/ \E end \in Ends : Transfer(t, end)
  PROVE  (Answered(t) /\ UNCHANGED parkVars) \/ Sleeps(t)
<1>1. now \in Nat /\ None \notin Nat
  BY DEF Base, TInv, HostType, None
<1>2. \A d \in Deadlines : d # None /\ d # now => d > now
  BY <1>1, BoundAssumption DEF Deadlines
<1>3. CASE FutexWait(t)
  <2>1. \/ Answer(t, "return") /\ UNCHANGED parkVars
        \/ \E deadline \in Deadlines \ {now} : Parked(t, "futex", deadline, {}, dirty)
    BY <1>3 DEF FutexWait, Parked
  <2> QED BY <1>2, <2>1 DEF Answered, Sleeps, Kinds
<1>4. CASE Sleep(t)
  <2>1. PICK deadline \in Deadlines \ {None}, rem \in BOOLEAN :
          IF deadline <= now THEN Answer(t, "return") /\ UNCHANGED <<parkVars, dirty>>
          ELSE ParkTask(t, "sleep", deadline, {}, rem, TRUE, dirty)
    BY <1>4 DEF Sleep
  <2>2. \/ Answer(t, "return") /\ UNCHANGED parkVars
        \/ ~(deadline <= now) /\ Parked(t, "sleep", deadline, {}, dirty)
    BY <2>1 DEF Parked
  <2>3. ~(deadline <= now) => deadline > now
    BY <1>1, <1>2, <2>1
  <2> QED BY <2>2, <2>3 DEF Answered, Sleeps, Kinds
<1>5. CASE Suspend(t)
  <2>1. PICK mask \in Masks :
          IF Pending(t) \ mask # {}
          THEN Answer(t, "returnsuspend") /\ dirty' = MaskNote(t, mask, dirty) /\ UNCHANGED parkVars
          ELSE ParkTask(t, "suspend", None, {}, FALSE, TRUE, MaskNote(t, mask, dirty))
    BY <1>5 DEF Suspend
  <2>2. \/ Answer(t, "returnsuspend") /\ UNCHANGED parkVars
        \/ Parked(t, "suspend", None, {}, MaskNote(t, mask, dirty))
    BY <2>1 DEF Parked
  <2> QED BY <2>2 DEF Answered, Sleeps, Kinds
<1>6. CASE SigTimedWait(t)
  <2>1. PICK set \in Masks \ {{}}, deadline \in Deadlines :
          LET ready == Pending(t) \cap set
          IN CASE ready # {} -> /\ Consume(t, {Lowest(ready)})
                                /\ Answer(t, "return") /\ UNCHANGED <<parkVars, dirty>>
               [] ready = {} /\ deadline = now -> /\ Answer(t, "return")
                                                  /\ UNCHANGED <<shared, directed, parkVars, dirty>>
               [] OTHER -> /\ ParkTask(t, "sigtimed", deadline, set, FALSE, TRUE, dirty)
                           /\ UNCHANGED <<shared, directed>>
    BY <1>6 DEF SigTimedWait
  <2>2. \/ Answer(t, "return") /\ UNCHANGED parkVars
        \/ deadline # now /\ ParkTask(t, "sigtimed", deadline, set, FALSE, TRUE, dirty)
    BY <2>1
  <2>3. \/ Answer(t, "return") /\ UNCHANGED parkVars
        \/ deadline # now /\ Parked(t, "sigtimed", deadline, set, dirty)
    BY <2>2 DEF Parked
  <2> QED BY <1>2, <2>3 DEF Answered, Sleeps, Kinds
<1>7. CASE WaitChild(t)
  <2>1. \/ Answer(t, "return") /\ UNCHANGED parkVars
        \/ ParkTask(t, "child", None, {}, FALSE, TRUE, DirtyAfterNotices)
    BY <1>7 DEF WaitChild
  <2>2. \/ Answer(t, "return") /\ UNCHANGED parkVars
        \/ Parked(t, "child", None, {}, DirtyAfterNotices)
    BY <2>1 DEF Parked
  <2> QED BY <2>2 DEF Answered, Sleeps, Kinds
<1>8. CASE \E end \in Ends : Transfer(t, end)
  <2>1. PICK end \in Ends : Transfer(t, end)
    BY <1>8
  <2>2. \/ Answer(t, "return") /\ UNCHANGED parkVars
        \/ \E deadline \in Deadlines \ {now} : Parked(t, end, deadline, {}, dirty)
    BY <2>1 DEF Transfer, Parked
  <2>3. end \in Kinds /\ end # "suspend"
    BY DEF Kinds, Ends
  <2> QED BY <1>2, <2>2, <2>3 DEF Answered, Sleeps
<1> QED BY <1>3, <1>4, <1>5, <1>6, <1>7, <1>8

\* A call that blocks.
LEMMA SleepMoves ==
  ASSUME Steady, Steady', WaitsInv, NEW t \in Tasks, ctl.pc = "idle", guest[t] = "user", Sleeps(t)
  PROVE  WaitsInv' /\ \A u \in Tasks : C!Move(u)
<1>1. Base /\ AnswerInv /\ GuestType /\ Viewed(t) /\ Viewed(t)'
  BY DEF Steady, Base, TInv, Views
<1>2. Queued = {} /\ effects[t] = "none" /\ \A w \in parks : w.task # t
  BY <1>1, IdleCaller
<1>3. PICK kind \in Kinds : \E deadline, set, d :
        /\ Parked(t, kind, deadline, set, d)
        /\ deadline # None => deadline > now
        /\ kind = "suspend" => deadline = None
  BY DEF Sleeps
<1>4. PICK deadline, set, d :
        /\ Parked(t, kind, deadline, set, d)
        /\ deadline # None => deadline > now
        /\ kind = "suspend" => deadline = None
  BY <1>3
<1>5. PICK rem \in BOOLEAN, point \in BOOLEAN : ParkTask(t, kind, deadline, set, rem, point, d)
  BY <1>4 DEF Parked
<1>6. PICK w : w = [gen |-> nextGen, task |-> t, kind |-> kind, deadline |-> deadline,
                    set |-> set, rem |-> rem, point |-> point]
  OBVIOUS
<1>7. /\ parks' = parks \cup {w} /\ w.task = t /\ w.kind = kind /\ w.deadline = deadline
      /\ guest' = [guest EXCEPT ![t] = "blocked"] /\ UNCHANGED <<completions, fresh, batch, effects>>
  BY <1>5, <1>6 DEF ParkTask, hostVars
<1>8. Queued' = Queued
  BY <1>7 DEF Queued, OnTheWay
<1>9. WaitsInv'
  BY <1>2, <1>4, <1>7, <1>8 DEF WaitsInv
<1>10. C!Move(t)
  <2>1. Phase(t) = "run"
    BY <1>1 DEF Viewed, Seen
  <2>2. Seen(t, "wait", [kind |-> w.kind, due |-> w.deadline], "none")'
    BY <1>1, <1>7 DEF Viewed
  <2>3. w.kind # "none"
    BY <1>7 DEF Kinds, Ends
  <2>4. C!Waits(t)
    BY <1>4, <1>7, <2>1, <2>2, <2>3, MapStep
  <2> QED BY <2>4 DEF C!Move
<1>11. ASSUME NEW u \in Tasks, u # t PROVE C!Move(u)
  <2>1. guest'[u] = guest[u] /\ effects'[u] = effects[u]
    BY <1>1, <1>7, <1>11 DEF GuestType
  <2>2. \A v \in parks : v \in parks'
    BY <1>7
  <2> QED BY <1>2, <2>1, <2>2, HeldMoves
<1> QED BY <1>9, <1>10, <1>11

\* Any other call: the caller goes on, and others may be woken.
LEMMA AnsweredMoves ==
  ASSUME Steady, Steady', WaitsInv, NEW t \in Tasks, guest[t] \in {"user", "finish"},
         Answered(t), UNCHANGED parkVars \/ Judged
  PROVE  WaitsInv' /\ \A u \in Tasks : C!Move(u)
<1>1. GuestType
  BY DEF Steady, Base, TInv
<1>2. PICK pc \in {"return", "returnsuspend"} : Answer(t, pc)
  BY DEF Answered
<1>3. guest' = [guest EXCEPT ![t] = "call"] /\ UNCHANGED <<fresh, batch, effects>>
  BY <1>2 DEF Answer, hostVars
<1>4. \A u \in Tasks : Idles(u) \/ Freed(u)
  BY <1>1, <1>3 DEF Idles, Freed, Running, GuestType
<1> QED BY <1>3, <1>4, DecidingMoves DEF parkVars

\* The end of a thread, and a cancellation.
LEMMA EndMoves ==
  ASSUME Steady, Steady', WaitsInv, NEW t \in Tasks, ThreadExit(t) \/ \E v \in Tasks : Cancel(t, v)
  PROVE  WaitsInv' /\ \A u \in Tasks : C!Move(u)
<1>1. GuestType /\ Base
  BY DEF Steady, Base, TInv
<1>2. UNCHANGED <<fresh, batch>> /\ (UNCHANGED <<parks, completions>> \/ Judged)
  <2>1. CASE ThreadExit(t)
    BY <1>1, <2>1, CallJudged DEF ThreadExit, Retire
  <2>2. CASE \E v \in Tasks : Cancel(t, v)
    BY <2>2 DEF Cancel, parkVars
  <2> QED BY <2>1, <2>2
<1>3. guest[t] = "user" /\ \A u \in Tasks : Idles(u) \/ Freed(u)
  <2>1. CASE ThreadExit(t)
    BY <1>1, <2>1 DEF ThreadExit, Enters, Retire, Idles, Freed
  <2>2. CASE \E v \in Tasks : Cancel(t, v)
    BY <1>1, <2>2 DEF Cancel, Enters, Idles, Freed, Running, GuestType
  <2> QED BY <2>1, <2>2
<1> QED BY <1>2, <1>3, DecidingMoves

\* The end of a process.
LEMMA ExitMoves ==
  ASSUME Steady, Steady', WaitsInv, NEW t \in Tasks, Exit(t) \/ \E p \in Pids : Terminate(t, p)
  PROVE  WaitsInv' /\ \A u \in Tasks : C!Move(u)
<1>1. /\ Base /\ AnswerInv /\ TInv /\ ParksInv /\ GuestType /\ ParkType /\ ctl.pc = "idle" /\ guest[t] = "user"
  BY DEF Steady, Base, TInv, Exit, Terminate, Enters
<1>2. PICK p \in Pids :
        /\ Exited(p)
        /\ \/ PidOf[t] = p /\ Retire(ThreadsOf(p), guest)
           \/ PidOf[t] # p /\ Retire(ThreadsOf(p), [guest EXCEPT ![t] = "call"])
  <2>1. PidOf[t] \in Pids
    BY TaskAssumption
  <2> QED BY <2>1 DEF Exit, Terminate
<1>3. Queued = {} /\ \A w \in parks : w.task # t
  BY <1>1, IdleCaller
<1>4. completions = <<>> /\ fresh = <<>> /\ batch = <<>>
  BY <1>1, IdleFacts
<1>5. nextGen' = nextGen /\ fresh' = <<>> /\ batch' = <<>>
  BY <1>2, <1>4 DEF Retire
<1>6. completions' = <<>> /\ parks' = {w \in parks : PidOf[w.task] # p}
  BY <1>1, <1>2, <1>5, ExitedTyped
<1>7. Queued' = Queued
  BY <1>4, <1>5, <1>6 DEF Queued, OnTheWay
<1>8. WaitsInv'
  BY <1>6, <1>7 DEF WaitsInv
<1>9. ASSUME NEW u \in Tasks PROVE C!Move(u)
  <2>1. CASE u \in ThreadsOf(p) \/ (u = t /\ u \notin ThreadsOf(p))
    <3>1. Freed(u)
      BY <1>1, <1>2, <2>1 DEF Retire, Freed, Running, ThreadsOf, Live, GuestType
    <3> QED BY <3>1, FreedMoves
  <2>2. CASE u \notin ThreadsOf(p) /\ u # t
    <3>1. guest'[u] = guest[u] /\ effects'[u] = effects[u]
      BY <1>1, <1>2, <2>2 DEF Retire, GuestType
    <3>2. \A w \in parks : w.task = u => w \in parks'
      BY <1>1, <1>6, <2>2 DEF ThreadsOf, Live, ParksInv
    <3> QED BY <1>3, <3>1, <3>2, HeldMoves
  <2> QED BY <2>1, <2>2
<1> QED BY <1>8, <1>9

\* The steps of the passes and of the host that leave the threads alone.
LEMMA StepMoves ==
  ASSUME Steady, Steady', WaitsInv,
         \/ AnnounceExits \/ ChildRound \/ SettleChildWait \/ ChildRoundEnds
         \/ SettleSignalWait \/ SignalWaitsEnd \/ RetryRound \/ RetryRoundEnds
         \/ Expire \/ Sweep \/ CancelNewPark \/ CancelTarget \/ Followup
         \/ LifecycleEnds \/ TimerFires \/ Tick
  PROVE  WaitsInv' /\ \A u \in Tasks : C!Move(u)
<1>1. UNCHANGED <<guest, effects, fresh, batch>>
  BY DEF AnnounceExits, ChildRound, SettleChildWait, ChildRoundEnds, SettleSignalWait, SignalWaitsEnd,
         RetryRound, RetryRoundEnds, Expire, Sweep, CancelNewPark, CancelTarget, Followup, LifecycleEnds,
         TimerFires, Tick, taskVars, hostVars
<1>2. UNCHANGED <<parks, completions>> \/ Judged
  <2>1. CASE \/ AnnounceExits \/ ChildRound \/ ChildRoundEnds \/ SignalWaitsEnd \/ RetryRound
             \/ RetryRoundEnds \/ LifecycleEnds \/ TimerFires \/ Tick
    BY <2>1 DEF AnnounceExits, ChildRound, ChildRoundEnds, SignalWaitsEnd, RetryRound, RetryRoundEnds,
                LifecycleEnds, TimerFires, Tick, parkVars
  <2>2. CASE \/ SettleChildWait \/ SettleSignalWait \/ Expire \/ Sweep \/ CancelNewPark \/ CancelTarget
             \/ Followup
    BY <2>2, StepJudged DEF Steady
  <2> QED BY <2>1, <2>2
<1>3. \A u \in Tasks : Idles(u)
  BY <1>1 DEF Idles
<1> QED BY <1>1, <1>2, <1>3, DecidingMoves

\* A transfer that is tried again: it may run on at once.
LEMMA RetryMoves ==
  ASSUME Steady, Steady', WaitsInv, SettleRetryWait
  PROVE  WaitsInv' /\ \A u \in Tasks : C!Move(u)
<1>1. UNCHANGED <<effects, fresh, batch>> /\ ParkType /\ GuestType /\ Base
  BY DEF SettleRetryWait, Steady, Base, TInv
<1>2. PICK w : w = Eldest(RetryWaiters)
  OBVIOUS
<1>3. w \in parks /\ w.kind \in Ends
  <2>1. RetryWaiters \in SUBSET parks /\ \A v \in RetryWaiters : v.kind \in Ends
    BY DEF RetryWaiters, IsTransfer
  <2> QED BY <1>1, <1>2, <2>1, EldestExists DEF SettleRetryWait
<1>4. guest' = guest \/ guest' = [guest EXCEPT ![w.task] = "user"]
  BY <1>2 DEF SettleRetryWait
<1>5. \A u \in Tasks : Idles(u) \/ Freed(u)
  <2> SUFFICES ASSUME NEW u \in Tasks PROVE Idles(u) \/ Freed(u)
    OBVIOUS
  <2>1. CASE guest'[u] = guest[u]
    BY <1>1, <2>1 DEF Idles
  <2>2. CASE guest'[u] # guest[u]
    <3>1. u = w.task /\ guest'[u] = "user"
      BY <1>1, <1>4, <2>2 DEF GuestType
    <3> QED BY <1>3, <3>1 DEF Freed, Running
  <2> QED BY <2>1, <2>2
<1>6. UNCHANGED <<parks, completions>> \/ Judged
  BY <1>1, StepJudged
<1> QED BY <1>1, <1>5, <1>6, DecidingMoves

\* The records are collected; the rest of a sleep may not be storable.
LEMMA CollectMoves ==
  ASSUME Steady, Steady', WaitsInv, CollectRecords
  PROVE  WaitsInv' /\ \A u \in Tasks : C!Move(u)
<1>1. TInv /\ TInv' /\ Base /\ RecordsInv /\ UNCHANGED <<guest, effects, parks>>
  BY DEF Steady, Base, AnswerInv, CollectRecords, taskVars
<1>2. PICK out, rest : Collected(out, rest)
  BY <1>1, CollectPage
<1>3. /\ \A r \in Queued' : \E c \in Queued : SameAnswer(r, c)
      /\ \A c \in Queued : \E r \in Queued' : SameAnswer(r, c)
  BY <1>1, <1>2, CollectQueue
<1>4. WaitsInv'
  BY <1>1, <1>3 DEF WaitsInv, SameAnswer
<1>5. ASSUME NEW u \in Tasks PROVE C!Move(u)
  <2>1. \A c \in Queued : c.task = u =>
          \E r \in Queued' : r.task = u /\ (r.value = c.value \/ (c.value = "EINTR" /\ r.value = "EFAULT"))
    BY <1>3 DEF WaitsInv, SameAnswer
  <2> QED BY <1>1, <2>1, HeldMoves
<1> QED BY <1>4, <1>5

\* A record is published, or dropped when the kernel did.
LEMMA PublishMoves ==
  ASSUME Steady, Steady', WaitsInv, PublishArm \/ PublishNothing \/ PublishRecord
  PROVE  WaitsInv' /\ \A u \in Tasks : C!Move(u)
<1>1. /\ Base /\ TInv /\ TInv' /\ RecordsInv /\ GuestType /\ SignalType
      /\ ctl.pc = "publish" /\ batch # <<>> /\ batch' = Tail(batch)
      /\ UNCHANGED <<guest, parks, completions, fresh>>
  BY DEF Steady, Base, TInv, AnswerInv, PublishArm, PublishNothing, PublishRecord, taskVars, parkVars
<1>2. completions = <<>> /\ fresh = <<>>
  BY <1>1, PublishFacts
<1>3. PICK r : r = Head(batch)
  OBVIOUS
<1>4. /\ Queued' \subseteq Queued /\ Queued \subseteq Queued' \cup {r}
      /\ r # ArmMark => r \in Queued
      /\ r = ArmMark => Queued' = Queued
  BY <1>1, <1>2, <1>3, PublishQueue
<1>5. WaitsInv'
  BY <1>1, <1>4 DEF WaitsInv
<1>6. ASSUME NEW u \in Tasks, effects'[u] = effects[u], r # ArmMark => r.task # u
      PROVE  C!Move(u)
  <2>1. \A c \in Queued : c.task = u => c \in Queued'
    BY <1>4, <1>6
  <2> QED BY <1>1, <1>6, <2>1, HeldMoves
<1>7. CASE PublishArm
  <2>1. UNCHANGED effects /\ r = ArmMark
    BY <1>3, <1>7 DEF PublishArm
  <2> QED BY <1>5, <1>6, <2>1
<1>8. CASE PublishNothing \/ PublishRecord
  <2>1. r # ArmMark /\ r \in Queued /\ Answers(r) /\ r.task \in Tasks
    BY <1>1, <1>3, <1>4, <1>8 DEF PublishNothing, PublishRecord, RecordsInv, Answers
  <2>2. Current(r)
    BY <2>1 DEF Answers, Current, Live
  <2>3. CASE PublishNothing
    <3>1. r.flag = "published" /\ UNCHANGED effects
      BY <1>3, <2>2, <2>3 DEF PublishNothing
    <3>2. Freed(r.task)
      BY <1>1, <2>1, <3>1 DEF Answers, Freed, Running
    <3>3. C!Move(r.task)
      BY <2>1, <3>2, FreedMoves
    <3> QED BY <1>5, <1>6, <3>1, <3>3
  <2>4. CASE PublishRecord
    <3>1. PICK how \in {"suspend", "user"} : Dequeue(r.task, how)
      BY <1>3, <2>4 DEF PublishRecord
    <3>2. effects'[r.task] # "none" /\ \A u \in Tasks : u # r.task => effects'[u] = effects[u]
      BY <1>1, <2>1, <3>1, DequeueTyped
    <3>3. guest[r.task] = "blocked" /\ guest'[r.task] = "blocked"
      BY <1>1, <1>3, <2>1, <2>4 DEF PublishRecord, Answers
    <3>4. Viewed(r.task) /\ Viewed(r.task)'
      BY <2>1 DEF Steady, Views
    <3>5. Phase(r.task) = "decided" /\ Seen(r.task, "sent", NoAsk, "none")'
      BY <2>1, <3>2, <3>3, <3>4 DEF Viewed, Seen
    <3>6. C!Move(r.task)
      BY <2>1, <3>5, MapStep DEF C!Move
    <3> QED BY <1>5, <1>6, <3>2, <3>6
  <2> QED BY <1>8, <2>3, <2>4
<1> QED BY <1>7, <1>8

\* The caller's answer is prepared, threads are resumed, and the end of the entry
\* frees the threads whose answer is prepared.
LEMMA DeliverMoves ==
  ASSUME Steady, Steady', WaitsInv, Return \/ Resume \/ Commit
  PROVE  WaitsInv' /\ \A u \in Tasks : C!Move(u)
<1>1. /\ GuestType /\ SignalType
      /\ ctl.pc \in Called => ctl.caller \in Tasks
      /\ UNCHANGED <<parks, completions, fresh, batch>>
  BY DEF Steady, Base, TInv, ControlType, Return, Resume, Commit, parkVars
<1>2. CASE Return
  <2>1. PICK c : c = ctl.caller
    OBVIOUS
  <2>2. c \in Tasks /\ guest[c] = "call" /\ guest' = guest
    BY <1>1, <1>2, <2>1 DEF Return, Called, Steady, AnswerInv, CallerInv, taskVars
  <2>3. PICK how \in {"user", "suspend"} : Dequeue(c, how)
    BY <1>2, <2>1 DEF Return
  <2>4. \A u \in Tasks : u # c => effects'[u] = effects[u]
    BY <1>1, <2>2, <2>3, DequeueTyped
  <2>5. \A u \in Tasks : Idles(u) \/ Freed(u)
    BY <2>2, <2>4 DEF Idles, Freed, Running
  <2> QED BY <1>1, <2>5, DecidingMoves
<1>3. CASE Resume
  <2>1. PICK t : t = Lowest(Resumable)
    OBVIOUS
  <2>2. t \in Tasks /\ Dequeue(t, effects[t]) /\ guest' = guest
    BY <1>3, <2>1, ResumableTask DEF Resume, taskVars
  <2>3. PICK how : how = effects[t]
    OBVIOUS
  <2>4. how \in {"none", "user", "suspend", "finish"} /\ Dequeue(t, how)
    BY <1>1, <2>2, <2>3 DEF GuestType
  <2>5. /\ \A u \in Tasks : u # t => effects'[u] = effects[u]
        /\ effects'[t] = "none" <=> how = "none"
    BY <1>1, <2>2, <2>4, DequeueTyped
  <2>6. \A u \in Tasks : Idles(u)
    BY <2>2, <2>3, <2>5 DEF Idles
  <2> QED BY <1>1, <2>6, DecidingMoves
<1>4. CASE Commit
  <2>1. PICK freed : /\ freed = {t \in Tasks : effects[t] # "none" /\ proc[PidOf[t]] # "stopped"}
                     /\ guest' = [t \in Tasks |-> IF t \notin freed THEN guest[t]
                                                  ELSE IF effects[t] = "finish" THEN "finish" ELSE "user"]
                     /\ effects' = [t \in Tasks |-> IF t \in freed THEN "none" ELSE effects[t]]
    BY <1>4 DEF Commit
  <2>2. ASSUME NEW u \in Tasks PROVE Idles(u) \/ Freed(u)
    <3>1. CASE u \notin freed
      BY <2>1, <3>1 DEF Idles
    <3>2. CASE u \in freed
      <4>1. effects[u] # "none" /\ guest'[u] \in {"finish", "user"}
        BY <2>1, <3>2
      <4>2. guest[u] \in {"call", "blocked"}
        BY <4>1 DEF Steady, AnswerInv, GuestsInv, Awaited
      <4> QED BY <4>1, <4>2 DEF Freed, Running
    <3> QED BY <3>1, <3>2
  <2> QED BY <1>1, <2>2, DecidingMoves
<1> QED BY <1>2, <1>3, <1>4

\* Every step moves each thread as the contract allows.
LEMMA MovesStep ==
  ASSUME Steady, Steady', WaitsInv, [Next]_vars
  PROVE  WaitsInv' /\ \A u \in Tasks : C!Move(u)
<1>1. Base
  BY DEF Steady
<1>2. ASSUME NEW t \in Tasks, SystemCall(t) PROVE WaitsInv' /\ \A u \in Tasks : C!Move(u)
  <2>1. CASE \/ FutexWait(t) \/ Sleep(t) \/ Suspend(t) \/ SigTimedWait(t) \/ WaitChild(t)
             \/ \E end \in Ends : Transfer(t, end)
    BY <1>1, <2>1, CallOutcome, CallSleeps, AnsweredMoves, SleepMoves
  <2>2. CASE \/ \E end \in Ends : Close(t, end)
             \/ \E s \in Sig, p \in Pids : Kill(t, p, s)
             \/ \E s \in Sig, u \in Tasks : Tkill(t, u, s)
             \/ SigProcMask(t) \/ FinishMaskWait(t)
             \/ \E p \in Pids : Stop(t, p) \/ Continue(t, p)
    BY <2>2, PlainOutcome, AnsweredMoves
  <2>3. CASE FutexWake(t)
    <3>1. Judged
      BY <1>1, <2>3, CallJudged
    <3>2. guest[t] \in {"user", "finish"} /\ Answered(t)
      BY <2>3 DEF FutexWake, Enters, Answered
    <3> QED BY <3>1, <3>2, AnsweredMoves
  <2>4. CASE ThreadExit(t) \/ \E u \in Tasks : Cancel(t, u)
    BY <2>4, EndMoves
  <2>5. CASE Exit(t) \/ \E p \in Pids : Terminate(t, p)
    BY <2>5, ExitMoves
  <2>6. \/ FutexWait(t) \/ Sleep(t) \/ Suspend(t) \/ SigTimedWait(t) \/ WaitChild(t)
        \/ (\E end \in Ends : Transfer(t, end)) \/ (\E end \in Ends : Close(t, end))
        \/ FutexWake(t) \/ SigProcMask(t) \/ FinishMaskWait(t) \/ ThreadExit(t) \/ Exit(t)
        \/ (\E s \in Sig, p \in Pids : Kill(t, p, s)) \/ (\E s \in Sig, u \in Tasks : Tkill(t, u, s))
        \/ (\E p \in Pids : Stop(t, p) \/ Continue(t, p)) \/ (\E p \in Pids : Terminate(t, p))
        \/ (\E u \in Tasks : Cancel(t, u))
    BY <1>2, Zenon DEF SystemCall
  <2> QED BY <2>1, <2>2, <2>3, <2>4, <2>5, <2>6, Zenon
<1>3. CASE Settle
  BY <1>3, StepMoves, RetryMoves, CollectMoves DEF Settle
<1>4. CASE Host
  BY <1>4, StepMoves, DeliverMoves, PublishMoves DEF Host
<1>5. CASE TimerFires \/ Tick
  BY <1>5, StepMoves
<1>6. CASE UNCHANGED vars
  <2>1. UNCHANGED <<parks, completions, fresh, batch, guest, effects>>
    BY <1>6 DEF vars, taskVars, parkVars, hostVars
  <2>2. \A u \in Tasks : Idles(u)
    BY <2>1 DEF Idles
  <2> QED BY <2>1, <2>2, DecidingMoves
<1> QED BY <1>2, <1>3, <1>4, <1>5, <1>6, Zenon DEF Next

\* Time never goes back.
LEMMA ClockStep ==
  ASSUME Base, [Next]_vars
  PROVE  now' >= now
<1>1. now \in Nat
  BY DEF Base, TInv, HostType
<1>2. ASSUME NEW t \in Tasks, SystemCall(t) PROVE now' = now
  <2>1. \/ \E pc : Answer(t, pc)
        \/ \E kind, deadline, set, rem, point, d : ParkTask(t, kind, deadline, set, rem, point, d)
        \/ \E ts, g : Retire(ts, g)
        \/ \E u : Cancel(t, u)
    BY <1>2 DEF SystemCall, FutexWait, Sleep, Suspend, SigTimedWait, WaitChild, Transfer, Close, FutexWake,
                SigProcMask, FinishMaskWait, ThreadExit, Exit, Kill, Tkill, Stop, Continue, Terminate
  <2> QED BY <2>1 DEF Answer, ParkTask, Retire, Cancel, worldVars
<1>3. ASSUME Settle \/ Host \/ TimerFires PROVE now' = now
  BY <1>3 DEF Settle, Host, TimerFires, AnnounceExits, ChildRound, SettleChildWait, ChildRoundEnds,
              SettleSignalWait, SignalWaitsEnd, RetryRound, SettleRetryWait, RetryRoundEnds, Expire, Sweep,
              CollectRecords, Return, CancelNewPark, CancelTarget, Followup, Resume, LifecycleEnds, PublishArm,
              PublishNothing, PublishRecord, Commit, worldVars
<1>4. Tick => now' = now + 1
  BY DEF Tick
<1>5. UNCHANGED vars => now' = now
  BY DEF vars, worldVars
<1> QED BY <1>1, <1>2, <1>3, <1>4, <1>5 DEF Next

\* The contract of a blocking call is kept: each wait is decided once, no decision
\* is taken back, a timeout is never early, and the answer reaches the thread
\* before it runs (wait_park.rs, the passes of kernel_drain_wait_completions and
\* the host's publication).
THEOREM WaitsKeepContract == Spec => KeepsContract
<1>1. Init => C!Init
  <2> SUFFICES ASSUME Init PROVE C!Init
    OBVIOUS
  <2>1. \A t \in Tasks : Phase(t) = "run"
    BY DEF Init, Phase
  <2>2. /\ [t \in Tasks |-> Phase(t)] = [t \in Tasks |-> "run"] /\ now = 0
        /\ [t \in Tasks |-> Ask(t)] = [t \in Tasks |-> NoAsk]
        /\ [t \in Tasks |-> Reply(t)] = [t \in Tasks |-> "none"]
    BY <2>1 DEF Init, Ask, Reply, NoAsk
  <2> QED BY <2>2 DEF C!Init, C!NoAsk, C!NoReply, NoAsk, Ask, Reply
<1>2. Init => WaitsInv
  <2> SUFFICES ASSUME Init PROVE WaitsInv
    OBVIOUS
  <2>1. Base /\ AnswerInv /\ parks = {} /\ ctl.pc = "idle"
    BY FirstState DEF Init, Idle
  <2>2. completions = <<>> /\ fresh = <<>> /\ batch = <<>>
    BY DEF Init
  <2>3. Queued = {}
    BY <2>1, <2>2, OnTheWayParts, EmptyParts DEF Queued, Base
  <2> QED BY <2>1, <2>3 DEF WaitsInv
<1>3. Base /\ AnswerInv => Views
  BY ViewsHold
<1>4. /\ Base /\ AnswerInv /\ Views /\ WaitsInv /\ [Next]_vars /\ (Base /\ AnswerInv)' /\ Views'
      => WaitsInv' /\ [C!Next]_C!vars
  <2> SUFFICES ASSUME Base, AnswerInv, Views, WaitsInv, [Next]_vars, (Base /\ AnswerInv)', Views'
               PROVE  WaitsInv' /\ C!Next
    OBVIOUS
  <2>1. Steady /\ Steady'
    BY DEF Steady
  <2>2. WaitsInv' /\ \A u \in Tasks : C!Move(u)
    BY <2>1, MovesStep
  <2>3. now' >= now
    BY ClockStep
  <2> QED BY <2>2, <2>3 DEF C!Next
<1> QED BY <1>1, <1>2, <1>3, <1>4, Invariance, PTL DEF Spec, KeepsContract, C!Spec
=============================================================================
