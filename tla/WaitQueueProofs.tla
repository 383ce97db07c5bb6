--------------------------- MODULE WaitQueueProofs ---------------------------
(***************************************************************************)
(* Safety of the wait queue for any processes, sources, timeouts and       *)
(* bounds.  QueueInv is inductive.  HeapCoversSleepers alone is not: expire *)
(* and next_deadline_ns drop heap entries, and that those are never the    *)
(* entry of another sleeper needs StaleEntriesNameNobody, which in turn    *)
(* needs every id in use to lie below nextWaiter.  What an expiry and a    *)
(* bounded wake return follows from what the two sorts return.             *)
(***************************************************************************)
EXTENDS WaitQueue, FiniteSetTheorems, TLAPS

\* A fresh queue satisfies the invariant.
LEMMA InitQueueInv == Init => QueueInv
<1> SUFFICES ASSUME Init PROVE QueueInv
  OBVIOUS
<1>0. enabled \in BOOLEAN
  BY Zenon DEF Init
<1>1. TypeOK /\ nextWaiter >= 1 /\ nextGeneration >= 1
  <2>1. /\ nextWaiter = 1 /\ nextGeneration = 1 /\ now = 0
        /\ sleepers = {} /\ deadlines = {} /\ live = {} /\ handles = {}
    BY DEF Init
  <2> QED BY <1>0, <2>1 DEF TypeOK
<1>2. /\ HeapCoversSleepers /\ StaleEntriesNameNobody /\ OneWaitPerLiveGeneration
      /\ HandlesNameTheirWait
      /\ \A s \in sleepers : s.id < nextWaiter
      /\ \A h \in handles : h.channel < nextGeneration
  BY DEF Init, HeapCoversSleepers, StaleEntriesNameNobody, OneWaitPerLiveGeneration,
     HandlesNameTheirWait
<1> QED
  BY <1>1, <1>2 DEF QueueInv

\* Taking sleepers off the queue with their generations, the heap untouched:
\* the shape shared by wake, wake_limited, remove_with_reason, cancel_task,
\* retire_channel and retire_process.  It needs no generation of a remaining
\* sleeper to be retired.
LEMMA RemovalKeepsInv ==
  ASSUME QueueInv,
         NEW hit \in SUBSET sleepers,
         NEW gone,
         sleepers' = sleepers \ hit,
         live' = live \ gone,
         \A s \in sleepers \ hit : s.channel \notin gone,
         handles' \subseteq handles,
         UNCHANGED <<enabled, nextWaiter, nextGeneration, deadlines, now>>
  PROVE  QueueInv'
  BY DEF QueueInv, TypeOK, HeapCoversSleepers, StaleEntriesNameNobody,
         OneWaitPerLiveGeneration, HandlesNameTheirWait

\* The same for removals that release exactly the generations of the sleepers
\* they take: one generation carries one sleeper, so no other one loses its own.
LEMMA ReleaseKeepsInv ==
  ASSUME QueueInv,
         NEW hit \in SUBSET sleepers,
         sleepers' = sleepers \ hit,
         live' = live \ {s.channel : s \in hit},
         UNCHANGED <<enabled, nextWaiter, nextGeneration, deadlines, now, handles>>
  PROVE  QueueInv'
<1>1. \A s \in sleepers \ hit : s.channel \notin {t.channel : t \in hit}
  BY DEF QueueInv, OneWaitPerLiveGeneration
<1> QED
  BY <1>1, RemovalKeepsInv

\* A park mints an id and a generation nothing in the queue carries yet.
LEMMA ParkOnKeepsInv ==
  ASSUME QueueInv,
         NEW pid \in Pids, NEW tid \in Tids, NEW sources \in SUBSET Sources,
         NEW deadline \in Nat \cup {None}, NEW safe \in BOOLEAN,
         ParkOn(pid, tid, sources, deadline, safe),
         handles' \subseteq handles \cup
           {[channel |-> nextGeneration, id |-> nextWaiter, deadline |-> deadline]}
  PROVE  QueueInv'
<1> DEFINE new == [id |-> nextWaiter, pid |-> pid, tid |-> tid,
                   channel |-> nextGeneration, sources |-> sources,
                   deadline |-> deadline, signalSafe |-> safe]
<1>1. /\ new \in Sleeper /\ sleepers' = sleepers \cup {new}
      /\ new.id = nextWaiter /\ new.channel = nextGeneration
      /\ new.deadline = deadline
  BY DEF ParkOn, QueueInv, TypeOK, Sleeper
<1> HIDE DEF new
<1>2. /\ nextWaiter' = nextWaiter + 1 /\ nextGeneration' = nextGeneration + 1
      /\ live' = live \cup {nextGeneration}
      /\ deadlines' = IF deadline = None THEN deadlines
                      ELSE deadlines \cup {<<deadline, nextWaiter>>}
      /\ enabled' = enabled /\ now' = now
  BY DEF ParkOn
<1>3. /\ nextWaiter \in Nat /\ nextGeneration \in Nat
      /\ \A s \in sleepers : /\ s.id \in Nat /\ s.id < nextWaiter
                             /\ s.channel \in Nat /\ s.channel < nextGeneration
                             /\ s.channel \in live
  BY DEF QueueInv, TypeOK, OneWaitPerLiveGeneration, Sleeper
<1>4. TypeOK'
  <2>1. handles' \subseteq Handle
    BY DEF QueueInv, TypeOK, Handle
  <2> QED BY <1>1, <1>2, <2>1 DEF QueueInv, TypeOK, None
<1>5. HeapCoversSleepers'
  BY <1>1, <1>2 DEF QueueInv, HeapCoversSleepers
<1>6. StaleEntriesNameNobody'
  <2>1. \A e \in deadlines : e \in Nat \X Nat /\ e[2] < nextWaiter
    BY DEF QueueInv, TypeOK, StaleEntriesNameNobody
  <2>2. ASSUME NEW e \in deadlines'
        PROVE  /\ e[2] < nextWaiter'
               /\ \A s \in sleepers' : s.id = e[2] => s.deadline = e[1]
    <3>1. CASE e \in deadlines
      BY <1>1, <1>2, <1>3, <2>1, <3>1 DEF QueueInv, StaleEntriesNameNobody
    <3>2. CASE deadline # None /\ e = <<deadline, nextWaiter>>
      BY <1>1, <1>2, <1>3, <3>2
    <3> QED BY <1>2, <3>1, <3>2
  <2> QED BY <2>2 DEF StaleEntriesNameNobody
<1>7. OneWaitPerLiveGeneration'
  BY <1>1, <1>2, <1>3 DEF QueueInv, OneWaitPerLiveGeneration
<1>8. /\ (nextWaiter >= 1 /\ nextGeneration >= 1)'
      /\ (\A s \in sleepers : s.id < nextWaiter)'
  BY <1>1, <1>2, <1>3 DEF QueueInv
<1>9. HandlesNameTheirWait' /\ (\A h \in handles : h.channel < nextGeneration)'
  <2> DEFINE opened == [channel |-> nextGeneration, id |-> nextWaiter, deadline |-> deadline]
  <2>1. /\ opened.channel = nextGeneration /\ opened.id = nextWaiter /\ opened.deadline = deadline
        /\ handles' \subseteq handles \cup {opened}
    OBVIOUS
  <2> HIDE DEF opened
  <2>2. \A h \in handles : h.channel \in Nat /\ h.channel < nextGeneration
    BY DEF QueueInv, TypeOK, Handle
  <2> QED BY <1>1, <1>2, <1>3, <2>1, <2>2 DEF QueueInv, HandlesNameTheirWait
<1> QED
  BY <1>4, <1>5, <1>6, <1>7, <1>8, <1>9 DEF QueueInv

\* expire pops exactly the due entries; a sleeper that stays is not due, so its
\* entry stays too.
LEMMA ExpireKeepsInv == QueueInv /\ Expire => QueueInv'
<1> SUFFICES ASSUME QueueInv, Expire PROVE QueueInv'
  OBVIOUS
<1> DEFINE due == {e \in deadlines : e[1] <= now}
           hit == {s \in sleepers : <<s.deadline, s.id>> \in due}
<1>1. /\ sleepers' = sleepers \ hit /\ deadlines' = deadlines \ due
      /\ live' = live \ {s.channel : s \in hit}
      /\ UNCHANGED <<enabled, nextWaiter, nextGeneration, now, handles>>
  BY DEF Expire, TakeOff
<1>2. \A s \in sleepers \ hit : s.channel \notin {t.channel : t \in hit}
  BY DEF QueueInv, OneWaitPerLiveGeneration
<1>3. HeapCoversSleepers'
  BY <1>1 DEF QueueInv, HeapCoversSleepers
<1>4. TypeOK' /\ StaleEntriesNameNobody'
  BY <1>1 DEF QueueInv, TypeOK, StaleEntriesNameNobody
<1>5. OneWaitPerLiveGeneration' /\ HandlesNameTheirWait'
  BY <1>1, <1>2 DEF QueueInv, OneWaitPerLiveGeneration, HandlesNameTheirWait
<1> QED
  BY <1>1, <1>3, <1>4, <1>5 DEF QueueInv

\* next_deadline_ns discards only entries no sleeper answers to.
LEMMA NextDeadlineKeepsInv == QueueInv /\ NextDeadline => QueueInv'
<1> SUFFICES ASSUME QueueInv, NextDeadline PROVE QueueInv'
  OBVIOUS
<1>1. /\ deadlines' = Pruned(deadlines)
      /\ UNCHANGED <<enabled, nextWaiter, nextGeneration, sleepers, live, now, handles>>
  BY DEF NextDeadline
<1>2. deadlines' \subseteq deadlines
  BY <1>1 DEF Pruned
<1>3. ASSUME NEW s \in sleepers, s.deadline # None
      PROVE  <<s.deadline, s.id>> \in deadlines'
  <2> DEFINE e == <<s.deadline, s.id>>
  <2>1. e \in deadlines /\ e \in Nat \X Nat
    BY <1>3 DEF QueueInv, HeapCoversSleepers, TypeOK, Sleeper
  <2>2. ~Stale(e)
    BY DEF Stale
  <2>3. e[1] = e[1] /\ e[2] <= e[2]
    BY <2>1
  <2> QED BY <1>1, <2>1, <2>2, <2>3 DEF Pruned
<1> QED
  BY <1>1, <1>2, <1>3 DEF QueueInv, TypeOK, HeapCoversSleepers,
     StaleEntriesNameNobody, OneWaitPerLiveGeneration, HandlesNameTheirWait

\* A requeued sleeper keeps its id, generation and deadline.
LEMMA RetargetKeepsInv ==
  ASSUME QueueInv, NEW from \in Sources, NEW to \in Sources, NEW max,
         Retarget(from, to, max)
  PROVE  QueueInv'
<1> DEFINE hit == Oldest({s \in sleepers : Matches(s, from)}, max)
           Moved(s) == [s EXCEPT !.sources = (s.sources \ {from}) \cup {to}]
<1>1. /\ sleepers' = (sleepers \ hit) \cup {Moved(s) : s \in hit}
      /\ UNCHANGED <<enabled, nextWaiter, nextGeneration, deadlines, live, now, handles>>
  BY DEF Retarget
<1>2. hit \subseteq sleepers
  BY DEF Oldest
<1>3. \A s \in hit : /\ Moved(s) \in Sleeper /\ Moved(s).id = s.id
                     /\ Moved(s).channel = s.channel
                     /\ Moved(s).deadline = s.deadline
  BY <1>2 DEF QueueInv, TypeOK, Sleeper
<1> HIDE DEF hit, Moved
<1>4. \A t \in sleepers' : \E s \in sleepers :
        /\ t.id = s.id /\ t.channel = s.channel /\ t.deadline = s.deadline
        /\ (s \in hit /\ t = Moved(s)) \/ (s \notin hit /\ t = s)
  BY <1>1, <1>2, <1>3
<1>5. TypeOK'
  BY <1>1, <1>3 DEF QueueInv, TypeOK
<1>6. HeapCoversSleepers' /\ StaleEntriesNameNobody'
  BY <1>1, <1>4 DEF QueueInv, HeapCoversSleepers, StaleEntriesNameNobody
<1>7. OneWaitPerLiveGeneration' /\ HandlesNameTheirWait'
  BY <1>1, <1>4 DEF QueueInv, OneWaitPerLiveGeneration, HandlesNameTheirWait
<1> QED
  BY <1>1, <1>4, <1>5, <1>6, <1>7 DEF QueueInv

\* Every call keeps the invariant.
LEMMA NextKeepsInv == QueueInv /\ [Next]_vars => QueueInv'
<1> SUFFICES ASSUME QueueInv, [Next]_vars PROVE QueueInv'
  OBVIOUS
<1>1. ASSUME NEW pid \in Pids, NEW tid \in Tids, Park(pid, tid)
      PROVE  QueueInv'
  <2>1. PICK shape \in Shapes, span \in Spans \cup {None} :
          /\ ParkOn(pid, tid, shape.sources, IF span = None THEN None ELSE now + span,
                    shape.signalSafe)
          /\ handles' = handles
    BY <1>1 DEF Park
  <2>2. /\ shape.sources \in SUBSET Sources /\ shape.signalSafe \in BOOLEAN
        /\ (IF span = None THEN None ELSE now + span) \in Nat \cup {None}
    BY ShapesAssumption, SpansAssumption DEF QueueInv, TypeOK
  <2> QED BY <2>1, <2>2, ParkOnKeepsInv
<1>2. ASSUME NEW pid \in Pids, NEW tid \in Tids, OpenDeadline(pid, tid)
      PROVE  QueueInv'
  <2>1. PICK span \in Spans \cup {None} :
          LET deadline == IF span = None THEN None ELSE now + span
          IN /\ ParkOn(pid, tid, {}, deadline, FALSE)
             /\ handles' = handles \cup
                  {[channel |-> nextGeneration, id |-> nextWaiter, deadline |-> deadline]}
    BY <1>2 DEF OpenDeadline
  <2> DEFINE due == IF span = None THEN None ELSE now + span
  <2>2. due \in Nat \cup {None}
    BY SpansAssumption DEF QueueInv, TypeOK
  <2>3. /\ ParkOn(pid, tid, {}, due, FALSE)
        /\ handles' = handles \cup
             {[channel |-> nextGeneration, id |-> nextWaiter, deadline |-> due]}
    BY <2>1
  <2> HIDE DEF due
  <2> QED BY <2>2, <2>3, ParkOnKeepsInv
<1>3. CASE ParkRefused
  BY <1>3 DEF ParkRefused, QueueInv, TypeOK, HeapCoversSleepers,
     StaleEntriesNameNobody, OneWaitPerLiveGeneration, HandlesNameTheirWait, Sleeper, Handle
<1>4. CASE OpenDeadlineOverflow
  BY <1>4 DEF OpenDeadlineOverflow, QueueInv, TypeOK, HeapCoversSleepers,
     StaleEntriesNameNobody, OneWaitPerLiveGeneration, HandlesNameTheirWait, Sleeper, Handle
<1>5. CASE Removal
  <2>1. ASSUME NEW source \in Sources, NEW pids, NEW defer \in BOOLEAN,
               Wake(source, pids, defer)
        PROVE  QueueInv'
    BY <2>1, ReleaseKeepsInv DEF Wake, TakeOff
  <2>2. ASSUME NEW source \in Sources, NEW max, NEW accept,
               WakeLimited(source, max, accept)
        PROVE  QueueInv'
    BY <2>2, ReleaseKeepsInv DEF WakeLimited, TakeOff, Oldest
  <2>3. ASSUME NEW s \in sleepers, RemoveWithReason(s)
        PROVE  QueueInv'
    <3>1. /\ live' = live \ {s.channel} /\ sleepers' = sleepers \ {s}
          /\ UNCHANGED <<enabled, nextWaiter, nextGeneration, deadlines, now, handles>>
      BY <2>3 DEF RemoveWithReason, TakeOff
    <3>2. \A t \in sleepers \ {s} : t.channel \notin {s.channel}
      BY DEF QueueInv, OneWaitPerLiveGeneration
    <3> QED BY <3>1, <3>2, RemovalKeepsInv
  <2>4. CASE Expire
    BY <2>4, ExpireKeepsInv
  <2>5. ASSUME NEW pid \in Pids, NEW tid \in Tids, CancelTask(pid, tid)
        PROVE  QueueInv'
    BY <2>5, ReleaseKeepsInv DEF CancelTask, TakeOff
  <2>6. ASSUME NEW channel \in 1..MaxGen, RetireChannel(channel)
        PROVE  QueueInv'
    <3> DEFINE hit == {s \in sleepers : s.channel = channel}
    <3>1. /\ sleepers' = sleepers \ hit /\ live' = live \ {channel}
          /\ UNCHANGED <<enabled, nextWaiter, nextGeneration, deadlines, now>>
          /\ handles' \subseteq handles
      BY <2>6 DEF RetireChannel, TakeOff
    <3>2. \A s \in sleepers \ hit : s.channel \notin {channel}
      OBVIOUS
    <3>3. hit \in SUBSET sleepers
      OBVIOUS
    <3> HIDE DEF hit
    <3> QED BY <3>1, <3>2, <3>3, RemovalKeepsInv
  <2>7. ASSUME NEW pid \in Pids, RetireProcess(pid)
        PROVE  QueueInv'
    <3> DEFINE channels == {s.channel : s \in {t \in sleepers : t.pid = pid}}
               hit == {s \in sleepers : s.channel \in channels}
    <3>1. /\ sleepers' = sleepers \ hit /\ live' = live \ channels
          /\ UNCHANGED <<enabled, nextWaiter, nextGeneration, deadlines, now, handles>>
      BY <2>7 DEF RetireProcess, TakeOff
    <3>2. \A s \in sleepers \ hit : s.channel \notin channels
      OBVIOUS
    <3> HIDE DEF channels, hit
    <3>3. hit \in SUBSET sleepers
      BY DEF hit
    <3> QED BY <3>1, <3>2, <3>3, RemovalKeepsInv
  <2> QED
    BY <1>5, <2>1, <2>2, <2>3, <2>4, <2>5, <2>6, <2>7 DEF Removal
<1>6. ASSUME NEW from \in Sources, NEW to \in Sources, NEW max \in 0..MaxWake,
             Retarget(from, to, max)
      PROVE  QueueInv'
  BY <1>6, RetargetKeepsInv
<1>7. CASE NextDeadline
  BY <1>7, NextDeadlineKeepsInv
<1>8. ASSUME NEW on \in BOOLEAN, SetEnabled(on)
      PROVE  QueueInv'
  BY <1>8 DEF SetEnabled, QueueInv, TypeOK, HeapCoversSleepers,
     StaleEntriesNameNobody, OneWaitPerLiveGeneration, HandlesNameTheirWait
<1>9. CASE Reset
  <2>1. enabled' \in BOOLEAN
    BY <1>9, Zenon DEF Reset
  <2>2. /\ nextWaiter' = 1 /\ nextGeneration' = 1 /\ now' = now
        /\ sleepers' = {} /\ deadlines' = {} /\ live' = {} /\ handles' = {}
    BY <1>9 DEF Reset
  <2> QED
    BY <2>1, <2>2 DEF QueueInv, TypeOK, HeapCoversSleepers,
       StaleEntriesNameNobody, OneWaitPerLiveGeneration, HandlesNameTheirWait
<1>10. CASE Tick
  BY <1>10 DEF Tick, QueueInv, TypeOK, HeapCoversSleepers,
     StaleEntriesNameNobody, OneWaitPerLiveGeneration, HandlesNameTheirWait
<1>11. CASE UNCHANGED vars
  BY <1>11 DEF vars, QueueInv, TypeOK, HeapCoversSleepers,
     StaleEntriesNameNobody, OneWaitPerLiveGeneration, HandlesNameTheirWait
<1> QED
  BY <1>1, <1>2, <1>3, <1>4, <1>5, <1>6, <1>7, <1>8, <1>9, <1>10, <1>11 DEF Next

\* The wait queue keeps its inductive invariant in every behaviour.
THEOREM QueueInvariant == Spec => []QueueInv
  BY InitQueueInv, NextKeepsInv, PTL DEF Spec

\* No sleeper's deadline is ever lost by the lazily pruned heap of
\* wait_queue.rs (next_deadline_ns, expire), whatever the processes, sources
\* and timeouts.
THEOREM NoDeadlineLost == Spec => []HeapCoversSleepers
<1>1. QueueInv => HeapCoversSleepers
  BY DEF QueueInv
<1> QED BY <1>1, QueueInvariant, PTL

\* Every sleeper owns its live generation alone, and a handle the host still
\* holds never names a wait opened later: a handle that is closed or a completion
\* that quotes a generation reaches at most one wait, the one it is of.
THEOREM GenerationIdentity == Spec => []GenerationsNameOneWait
<1>1. QueueInv => GenerationsNameOneWait
  BY DEF QueueInv, GenerationsNameOneWait
<1> QED BY <1>1, QueueInvariant, PTL

\* Every variable of the queue has its type in every reachable state.
THEOREM QueueTyped == Spec => []TypeOK
<1>1. QueueInv => TypeOK
  BY DEF QueueInv
<1> QED BY <1>1, QueueInvariant, PTL

\* No stale heap entry ever matches a sleeper parked later: ids are not reused.
THEOREM StaleEntriesHarmless == Spec => []StaleEntriesNameNobody
<1>1. QueueInv => StaleEntriesNameNobody
  BY DEF QueueInv
<1> QED BY <1>1, QueueInvariant, PTL

-----------------------------------------------------------------------------
(* The order in which tasks are returned *)

\* The elements of a set that come before `s` in the order R.
Below(S, R, s) == {t \in S : <<t, s>> \in R}

\* In a finite set with a strict total order R, an element's place is one more
\* than the number of those before it: the places are 1 to the size of the set.
LEMMA Ranks ==
  ASSUME NEW S, IsFiniteSet(S), NEW R,
         \A a \in S : <<a, a>> \notin R,
         \A a, b \in S : a # b => <<a, b>> \in R \/ <<b, a>> \in R,
         \A a, b, c \in S : <<a, b>> \in R /\ <<b, c>> \in R => <<a, c>> \in R
  PROVE  LET rank == [s \in S |-> Cardinality(Below(S, R, s)) + 1]
         IN /\ rank \in Bijection(S, 1..Cardinality(S))
            /\ \A s, t \in S : <<s, t>> \in R => rank[s] < rank[t]
<1> DEFINE n == Cardinality(S)
           rank == [s \in S |-> Cardinality(Below(S, R, s)) + 1]
<1>1. n \in Nat /\ IsFiniteSet(1..n) /\ Cardinality(1..n) = n
  <2>1. n \in Nat
    BY FS_CardinalityType
  <2> QED BY <2>1, FS_Interval
<1>2. \A s \in S : /\ IsFiniteSet(Below(S, R, s)) /\ Cardinality(Below(S, R, s)) \in Nat
                   /\ Cardinality(Below(S, R, s)) < n
  <2> SUFFICES ASSUME NEW s \in S
               PROVE  /\ IsFiniteSet(Below(S, R, s)) /\ Cardinality(Below(S, R, s)) \in Nat
                      /\ Cardinality(Below(S, R, s)) < n
    OBVIOUS
  <2>1. Below(S, R, s) \in SUBSET S /\ Below(S, R, s) # S
    BY DEF Below
  <2>2. /\ IsFiniteSet(Below(S, R, s)) /\ Cardinality(Below(S, R, s)) <= n
        /\ Cardinality(Below(S, R, s)) # n
    BY <2>1, FS_Subset
  <2>3. Cardinality(Below(S, R, s)) \in Nat
    BY <2>2, FS_CardinalityType
  <2> QED BY <1>1, <2>2, <2>3
<1>3. \A s, t \in S : <<s, t>> \in R =>
        Cardinality(Below(S, R, s)) < Cardinality(Below(S, R, t))
  <2> SUFFICES ASSUME NEW s \in S, NEW t \in S, <<s, t>> \in R
               PROVE  Cardinality(Below(S, R, s)) < Cardinality(Below(S, R, t))
    OBVIOUS
  <2>1. Below(S, R, s) \in SUBSET Below(S, R, t) /\ Below(S, R, s) # Below(S, R, t)
    BY DEF Below
  <2>2. /\ Cardinality(Below(S, R, s)) <= Cardinality(Below(S, R, t))
        /\ Cardinality(Below(S, R, s)) # Cardinality(Below(S, R, t))
    BY <1>2, <2>1, FS_Subset
  <2> QED BY <1>2, <2>2
<1>4. /\ rank \in [S -> 1..n]
      /\ \A s, t \in S : <<s, t>> \in R => rank[s] < rank[t]
  BY <1>1, <1>2, <1>3
<1> HIDE DEF rank
<1>5. \A s, t \in S : rank[s] = rank[t] => s = t
  <2> SUFFICES ASSUME NEW s \in S, NEW t \in S, rank[s] = rank[t], s # t PROVE FALSE
    OBVIOUS
  <2>1. rank[s] \in Int /\ rank[t] \in Int
    BY <1>1, <1>4
  <2>2. rank[s] < rank[t] \/ rank[t] < rank[s]
    BY <1>4
  <2> QED BY <2>1, <2>2
<1>6. rank \in Injection(S, 1..n)
  BY <1>4, <1>5 DEF Injection, IsInjective
<1>7. rank \in Surjection(S, 1..n)
  BY <1>1, <1>6, FS_Injection
<1>8. rank \in Bijection(S, 1..n)
  BY <1>6, <1>7 DEF Bijection
<1> QED BY <1>4, <1>8 DEF rank

\* Such a set has a sequence in that order.
LEMMA SortExists ==
  ASSUME NEW S, IsFiniteSet(S), NEW R,
         \A a \in S : <<a, a>> \notin R,
         \A a, b \in S : a # b => <<a, b>> \in R \/ <<b, a>> \in R,
         \A a, b, c \in S : <<a, b>> \in R /\ <<b, c>> \in R => <<a, c>> \in R
  PROVE  \E q \in SetToSeqs(S) : \A i, j \in DOMAIN q : i < j => <<q[i], q[j]>> \in R
<1> DEFINE n == Cardinality(S)
           rank == [s \in S |-> Cardinality(Below(S, R, s)) + 1]
           q == [i \in 1..n |-> CHOOSE s \in S : rank[s] = i]
<1>1. /\ rank \in Bijection(S, 1..n)
      /\ \A s, t \in S : <<s, t>> \in R => rank[s] < rank[t]
  BY Ranks
<1>2. n \in Nat
  BY FS_CardinalityType
<1> HIDE DEF rank
<1>3. \A i \in 1..n : q[i] \in S /\ rank[q[i]] = i
  BY <1>1 DEF Bijection, Surjection
<1>4. q \in [1..n -> S] /\ DOMAIN q = 1..n
  BY <1>3
<1> HIDE DEF q
<1>5. \A i, j \in 1..n : i # j => q[i] # q[j]
  BY <1>3
<1>6. q \in SetToSeqs(S)
  BY <1>4, <1>5 DEF SetToSeqs
<1>7. \A i, j \in 1..n : i < j => <<q[i], q[j]>> \in R
  <2> SUFFICES ASSUME NEW i \in 1..n, NEW j \in 1..n, i < j, <<q[i], q[j]>> \notin R PROVE FALSE
    OBVIOUS
  <2>1. <<q[j], q[i]>> \in R
    BY <1>3, <1>5
  <2>2. rank[q[j]] < rank[q[i]]
    BY <1>1, <1>3, <2>1
  <2> QED BY <1>3, <2>2
<1> QED BY <1>4, <1>6, <1>7

\* A queue has finitely many sleepers: their ids are distinct and bounded.
LEMMA FinitelyMany ==
  ASSUME QueueInv, NEW S \in SUBSET sleepers
  PROVE  IsFiniteSet(S)
<1> DEFINE f == [s \in sleepers |-> s.id]
<1>1. f \in Injection(sleepers, 0..nextWaiter)
  BY DEF QueueInv, TypeOK, Sleeper, OneWaitPerLiveGeneration, Injection, IsInjective
<1>2. IsFiniteSet(0..nextWaiter)
  BY FS_Interval DEF QueueInv, TypeOK
<1>3. IsFiniteSet(sleepers)
  BY <1>1, <1>2, FS_Injection
<1> QED BY <1>3, FS_Subset

\* The sequences of a set are sequences of its elements, each in some place.
LEMMA SequencesOf ==
  ASSUME NEW S, IsFiniteSet(S), NEW q \in SetToSeqs(S)
  PROVE  /\ DOMAIN q = 1..Len(q) /\ Len(q) \in Nat
         /\ \A i \in 1..Len(q) : q[i] \in S
<1> DEFINE n == Cardinality(S)
<1>1. n \in Nat
  BY FS_CardinalityType
<1>2. q \in [1..n -> S]
  BY DEF SetToSeqs
<1> HIDE DEF n
<1>3. q \in Seq(S)
  BY <1>1, <1>2
<1>4. Len(q) = n
  BY <1>1, <1>2, <1>3
<1> QED BY <1>1, <1>2, <1>4

\* What a bounded wake or a requeue returns is in queue order.
LEMMA ByIdOrdered ==
  ASSUME QueueInv, NEW S \in SUBSET sleepers
  PROVE  /\ ById(S) \in SetToSeqs(S)
         /\ \A i, j \in DOMAIN ById(S) : i < j => ById(S)[i].id < ById(S)[j].id
<1> DEFINE R == {x \in S \X S : x[1].id < x[2].id}
<1>1. IsFiniteSet(S)
  BY FinitelyMany
<1>2. /\ \A s \in S : s.id \in Nat
      /\ \A s, t \in S : s.id = t.id => s = t
  BY DEF QueueInv, TypeOK, Sleeper, OneWaitPerLiveGeneration
<1>3. \A s, t \in S : <<s, t>> \in R <=> s.id < t.id
  OBVIOUS
<1> HIDE DEF R
<1>4. /\ \A a \in S : <<a, a>> \notin R
      /\ \A a, b \in S : a # b => <<a, b>> \in R \/ <<b, a>> \in R
      /\ \A a, b, c \in S : <<a, b>> \in R /\ <<b, c>> \in R => <<a, c>> \in R
  BY <1>2, <1>3
<1>5. PICK q \in SetToSeqs(S) : \A i, j \in DOMAIN q : i < j => <<q[i], q[j]>> \in R
  BY <1>1, <1>4, SortExists
<1>6. \A i \in DOMAIN q : q[i] \in S
  BY <1>1, SequencesOf
<1>7. \A i, j \in DOMAIN q : i < j => q[i].id < q[j].id
  BY <1>3, <1>5, <1>6
<1> QED BY <1>7 DEF ById

\* What expire returns is in deadline order, ties in queue order.
LEMMA ByDeadlineOrdered ==
  ASSUME QueueInv, NEW S \in SUBSET sleepers, \A s \in S : s.deadline \in Nat
  PROVE  /\ ByDeadline(S) \in SetToSeqs(S)
         /\ \A i, j \in DOMAIN ByDeadline(S) : i < j => Earlier(ByDeadline(S)[i], ByDeadline(S)[j])
<1> DEFINE R == {x \in S \X S : Earlier(x[1], x[2])}
<1>1. IsFiniteSet(S)
  BY FinitelyMany
<1>2. /\ \A s \in S : s.id \in Nat /\ s.deadline \in Nat
      /\ \A s, t \in S : s.id = t.id => s = t
  BY DEF QueueInv, TypeOK, Sleeper, OneWaitPerLiveGeneration
<1>3. \A s, t \in S : <<s, t>> \in R <=> Earlier(s, t)
  OBVIOUS
<1> HIDE DEF R
<1>4. /\ \A a \in S : <<a, a>> \notin R
      /\ \A a, b \in S : a # b => <<a, b>> \in R \/ <<b, a>> \in R
      /\ \A a, b, c \in S : <<a, b>> \in R /\ <<b, c>> \in R => <<a, c>> \in R
  BY <1>2, <1>3 DEF Earlier
<1>5. PICK q \in SetToSeqs(S) : \A i, j \in DOMAIN q : i < j => <<q[i], q[j]>> \in R
  BY <1>1, <1>4, SortExists
<1>6. \A i \in DOMAIN q : q[i] \in S
  BY <1>1, SequencesOf
<1>7. \A i, j \in DOMAIN q : i < j => Earlier(q[i], q[j])
  BY <1>3, <1>5, <1>6
<1> QED BY <1>7 DEF ByDeadline

\* An expiry takes exactly what is due and returns it in order.
LEMMA ExpireExact == QueueInv /\ Expire => ExpireIsExactAndOrdered'
<1> SUFFICES ASSUME QueueInv, Expire PROVE ExpireIsExactAndOrdered'
  OBVIOUS
<1> DEFINE due == {e \in deadlines : e[1] <= now}
           hit == {s \in sleepers : <<s.deadline, s.id>> \in due}
           q == ByDeadline(hit)
<1>1. /\ sleepers' = sleepers \ hit /\ now' = now /\ ret' = [op |-> "expire", woken |-> q]
  BY DEF Expire, TakeOff, Returned
<1>2. \A s \in hit : s.deadline \in 0..now
  BY DEF QueueInv, TypeOK
<1>3. ASSUME NEW s \in sleepers' PROVE s.deadline = None \/ s.deadline > now
  <2>1. s \in sleepers /\ s \notin hit /\ s.deadline \in Nat \cup {None} /\ now \in Nat
    BY <1>1 DEF QueueInv, TypeOK, Sleeper
  <2>2. s.deadline # None => <<s.deadline, s.id>> \in deadlines
    BY <2>1 DEF QueueInv, HeapCoversSleepers
  <2> QED BY <2>1, <2>2
<1>4. hit \in SUBSET sleepers
  OBVIOUS
<1> HIDE DEF due, hit, q
<1>5. IsFiniteSet(hit)
  BY <1>4, FinitelyMany
<1>6. \A s \in hit : s.deadline \in Nat
  BY <1>2 DEF QueueInv, TypeOK
<1>7. q \in SetToSeqs(hit) /\ \A i, j \in DOMAIN q : i < j => Earlier(q[i], q[j])
  BY <1>4, <1>6, ByDeadlineOrdered DEF q
<1>8. DOMAIN q = 1..Len(q) /\ Len(q) \in Nat /\ \A i \in 1..Len(q) : q[i] \in hit
  BY <1>5, <1>7, SequencesOf
<1>9. ASSUME NEW i \in 1..Len(q)
      PROVE  q[i].deadline \in 0..now /\ (i < Len(q) => Earlier(q[i], q[i + 1]))
  <2>1. i < Len(q) => i + 1 \in 1..Len(q) /\ i < i + 1
    BY <1>8
  <2> QED BY <1>2, <1>7, <1>8, <2>1
<1>10. ret'.woken = q
  BY <1>1
<1> QED BY <1>1, <1>3, <1>9, <1>10 DEF ExpireIsExactAndOrdered, Earlier

\* Every expiry leaves nothing due behind and returns what it took in deadline
\* order, whatever stale entries lie in the heap.
THEOREM ExpiryExact == Spec => []ExpireIsExactAndOrdered
<1>1. Init => ExpireIsExactAndOrdered
  BY DEF Init, ExpireIsExactAndOrdered, Nothing
<1>2. ASSUME Next, ~Expire PROVE ret'.op # "expire"
  <2>1. CASE \E pid \in Pids, tid \in Tids : Park(pid, tid) \/ OpenDeadline(pid, tid)
    <3>1. ret' = Nothing
      BY <2>1 DEF Park, OpenDeadline
    <3> QED BY <3>1 DEF Nothing
  <2>2. CASE ParkRefused \/ OpenDeadlineOverflow
    BY <2>2 DEF ParkRefused, OpenDeadlineOverflow, Nothing
  <2>3. CASE Removal
    <3>1. ASSUME NEW source, NEW pids, NEW defer, Wake(source, pids, defer) PROVE ret' = Nothing
      BY <3>1 DEF Wake
    <3>2. ASSUME NEW source, NEW max, NEW accept, WakeLimited(source, max, accept)
          PROVE  ret'.op = "wake_limited"
      BY <3>2 DEF WakeLimited, Returned
    <3>3. ASSUME NEW s, RemoveWithReason(s) PROVE ret' = Nothing
      BY <3>3 DEF RemoveWithReason
    <3>4. ASSUME NEW pid, NEW tid, CancelTask(pid, tid) PROVE ret' = Nothing
      BY <3>4 DEF CancelTask
    <3>5. ASSUME NEW x, RetireChannel(x) \/ RetireProcess(x) PROVE ret' = Nothing
      BY <3>5 DEF RetireChannel, RetireProcess
    <3> QED BY <1>2, <2>3, <3>1, <3>2, <3>3, <3>4, <3>5 DEF Removal, Nothing
  <2>4. CASE \E from, to \in Sources, max \in 0..MaxWake : Retarget(from, to, max)
    <3>1. PICK from, to \in Sources, max \in 0..MaxWake : Retarget(from, to, max)
      BY <2>4
    <3>2. ret' = Returned("retarget", ById(Oldest({s \in sleepers : Matches(s, from)}, max)))
      BY <3>1 DEF Retarget
    <3> QED BY <3>2 DEF Returned
  <2>5. CASE NextDeadline \/ (\E on \in BOOLEAN : SetEnabled(on)) \/ Reset \/ Tick
    BY <2>5 DEF NextDeadline, SetEnabled, Reset, Tick, Nothing
  <2> QED BY <1>2, <2>1, <2>2, <2>3, <2>4, <2>5 DEF Next
<1>3. ASSUME QueueInv, ExpireIsExactAndOrdered, [Next]_vars PROVE ExpireIsExactAndOrdered'
  <2>1. CASE Expire
    BY <1>3, <2>1, ExpireExact
  <2>2. CASE Next /\ ~Expire
    BY <1>2, <2>2 DEF ExpireIsExactAndOrdered
  <2>3. CASE UNCHANGED vars
    BY <1>3, <2>3 DEF vars, ExpireIsExactAndOrdered
  <2> QED BY <1>3, <2>1, <2>2, <2>3
<1> QED BY <1>1, <1>3, QueueInvariant, PTL DEF Spec

\* The sequences of a set list all of it, each element once.
LEMMA SequencesCover ==
  ASSUME NEW S, IsFiniteSet(S), NEW q \in SetToSeqs(S)
  PROVE  Range(q) = S /\ Len(q) = Cardinality(S)
<1> DEFINE n == Cardinality(S)
<1>1. n \in Nat /\ IsFiniteSet(1..n) /\ Cardinality(1..n) = n
  <2>1. n \in Nat
    BY FS_CardinalityType
  <2> QED BY <2>1, FS_Interval
<1>2. q \in [1..n -> S] /\ \A i, j \in 1..n : i # j => q[i] # q[j]
  BY DEF SetToSeqs
<1>3. Len(q) = n
  <2>1. q \in Seq(S)
    BY <1>1, <1>2
  <2> QED BY <1>1, <1>2, <2>1
<1>4. q \in Injection(1..n, S)
  BY <1>2 DEF Injection, IsInjective
<1>5. q \in Surjection(1..n, S)
  BY <1>1, <1>4, FS_Injection
<1>6. Range(q) = S
  BY <1>2, <1>5 DEF Range, Surjection
<1> QED BY <1>3, <1>6

\* How many the oldest `max` of a set are, and that they are the oldest: the
\* others come after all of them, and there are others only when `max` are taken.
LEMMA OldestOnes ==
  ASSUME QueueInv, NEW S \in SUBSET sleepers, NEW max \in Nat
  PROVE  /\ Oldest(S, max) \in SUBSET S /\ IsFiniteSet(Oldest(S, max))
         /\ Cardinality(Oldest(S, max)) <= max
         /\ \A s \in S \ Oldest(S, max) :
              /\ Cardinality(Oldest(S, max)) = max
              /\ \A h \in Oldest(S, max) : h.id < s.id
<1> DEFINE n == Cardinality(S)
           hit == Oldest(S, max)
           R == {x \in S \X S : x[1].id < x[2].id}
           rank == [s \in S |-> Cardinality(Below(S, R, s)) + 1]
           count == IF max < n THEN max ELSE n
<1>1. IsFiniteSet(S)
  BY FinitelyMany
<1>2. n \in Nat
  BY <1>1, FS_CardinalityType
<1>3. /\ \A s \in S : s.id \in Nat
      /\ \A s, t \in S : s.id = t.id => s = t
  BY DEF QueueInv, TypeOK, Sleeper, OneWaitPerLiveGeneration
<1>4. \A s, t \in S : <<s, t>> \in R <=> s.id < t.id
  OBVIOUS
<1>5. \A s \in S : Below(S, R, s) = {o \in S : o.id < s.id}
  BY DEF Below
<1> HIDE DEF R
<1>6. /\ \A a \in S : <<a, a>> \notin R
      /\ \A a, b \in S : a # b => <<a, b>> \in R \/ <<b, a>> \in R
      /\ \A a, b, c \in S : <<a, b>> \in R /\ <<b, c>> \in R => <<a, c>> \in R
  BY <1>3, <1>4
<1>7. /\ rank \in Bijection(S, 1..n)
      /\ \A s, t \in S : <<s, t>> \in R => rank[s] < rank[t]
  BY <1>1, <1>6, Ranks
<1>8. \A s \in S : rank[s] = Cardinality({o \in S : o.id < s.id}) + 1
  BY <1>5
<1> HIDE DEF rank
<1>9. /\ rank \in [S -> 1..n]
      /\ \A s, t \in S : rank[s] = rank[t] => s = t
      /\ \A i \in 1..n : \E s \in S : rank[s] = i
  BY <1>7 DEF Bijection, Injection, IsInjective, Surjection
<1>10. hit \in SUBSET S
  BY DEF Oldest
<1>11. \A s \in S : s \in hit <=> rank[s] <= max
  <2> SUFFICES ASSUME NEW s \in S PROVE s \in hit <=> rank[s] <= max
    OBVIOUS
  <2> DEFINE k == Cardinality({o \in S : o.id < s.id})
  <2>1. s \in hit <=> k < max
    BY DEF Oldest
  <2>2. rank[s] = k + 1 /\ rank[s] \in 1..n
    BY <1>8, <1>9
  <2>3. k \in Nat
    <3>1. IsFiniteSet({o \in S : o.id < s.id})
      BY <1>1, FS_Subset
    <3> QED BY <3>1, FS_CardinalityType
  <2> HIDE DEF k
  <2> QED BY <2>1, <2>2, <2>3
<1> HIDE DEF hit
<1>12. count \in Nat /\ count <= max /\ count <= n
  BY <1>2
<1>13. IsFiniteSet(hit) /\ Cardinality(hit) = count
  <2> DEFINE f == [s \in hit |-> rank[s]]
  <2>1. f \in [hit -> 1..count] /\ \A s \in hit : f[s] = rank[s]
    BY <1>2, <1>9, <1>10, <1>11
  <2>2. \A i \in 1..count : \E s \in hit : f[s] = i
    <3> SUFFICES ASSUME NEW i \in 1..count PROVE \E s \in hit : f[s] = i
      OBVIOUS
    <3>1. i \in 1..n /\ i <= max
      BY <1>2, <1>12
    <3>2. PICK s \in S : rank[s] = i
      BY <1>9, <3>1
    <3> QED BY <1>11, <2>1, <3>1, <3>2
  <2> HIDE DEF f
  <2>3. f \in Bijection(hit, 1..count)
    BY <1>9, <1>10, <2>1, <2>2 DEF Bijection, Injection, IsInjective, Surjection
  <2>4. IsFiniteSet(hit)
    BY <1>1, <1>10, FS_Subset
  <2>5. Cardinality(hit) = Cardinality(1..count)
    <3>1. ExistsBijection(hit, 1..count)
      BY <2>3 DEF ExistsBijection
    <3> QED BY <2>4, <3>1, FS_Bijection
  <2>6. Cardinality(1..count) = count
    <3> HIDE DEF count
    <3>1. Cardinality(1..count) = IF 1 > count THEN 0 ELSE count - 1 + 1
      BY <1>12, FS_Interval
    <3> QED BY <1>12, <3>1
  <2> QED BY <2>4, <2>5, <2>6
<1>14. ASSUME NEW s \in S \ hit
       PROVE  Cardinality(hit) = max /\ \A h \in hit : h.id < s.id
  <2>1. rank[s] \in 1..n /\ rank[s] > max
    BY <1>9, <1>11, <1>2
  <2>2. count = max
    BY <1>2, <2>1
  <2>3. ASSUME NEW h \in hit PROVE h.id < s.id
    <3>1. h \in S /\ rank[h] <= max /\ rank[h] \in 1..n
      BY <1>9, <1>10, <1>11
    <3>2. <<s, h>> \notin R
      <4>1. ~(rank[s] < rank[h])
        BY <1>2, <2>1, <3>1
      <4> QED BY <1>7, <3>1, <4>1
    <3> QED BY <1>3, <1>4, <3>1, <3>2
  <2> QED BY <1>13, <2>2, <2>3
<1> QED BY <1>10, <1>12, <1>13, <1>14 DEF hit

\* What a bounded wake or a requeue returns.
LEMMA TakenOldest ==
  ASSUME QueueInv, NEW S \in SUBSET sleepers, NEW max \in Nat
  PROVE  /\ OldestOf(S, max, ById(Oldest(S, max)))
         /\ Range(ById(Oldest(S, max))) = Oldest(S, max)
<1> DEFINE hit == Oldest(S, max)
           q == ById(hit)
<1>1. /\ hit \in SUBSET S /\ hit \in SUBSET sleepers /\ IsFiniteSet(hit)
      /\ Cardinality(hit) <= max
      /\ \A s \in S \ hit : Cardinality(hit) = max /\ \A h \in hit : h.id < s.id
  BY OldestOnes
<1> HIDE DEF hit
<1>2. q \in SetToSeqs(hit) /\ \A i, j \in DOMAIN q : i < j => q[i].id < q[j].id
  BY <1>1, ByIdOrdered
<1> HIDE DEF q
<1>3. Range(q) = hit /\ Len(q) = Cardinality(hit)
  BY <1>1, <1>2, SequencesCover
<1>4. \A i \in DOMAIN q : q[i] \in hit
  BY <1>3 DEF Range
<1>5. OldestOf(S, max, q)
  BY <1>1, <1>2, <1>3, <1>4 DEF OldestOf
<1> QED BY <1>3, <1>5 DEF hit, q

\* A bounded wake (wake_limited) and a requeue (retarget) take exactly the
\* oldest that qualify, for every count and every filter, and a requeued
\* sleeper keeps its identity, its generation and its deadline.
THEOREM OldestAreFirst == Spec => OldestFirst
<1>1. ASSUME QueueInv, NEW source \in Sources, NEW max \in 0..MaxWake, NEW accept,
             WakeLimited(source, max, accept)
      PROVE  /\ OldestOf({s \in sleepers : Matches(s, source) /\ s.id \in accept}, max, ret'.woken)
             /\ sleepers \ sleepers' = Range(ret'.woken)
  <2> DEFINE S == {s \in sleepers : Matches(s, source) /\ s.id \in accept}
             hit == Oldest(S, max)
  <2>1. sleepers' = sleepers \ hit /\ ret' = [op |-> "wake_limited", woken |-> ById(hit)]
    BY <1>1 DEF WakeLimited, TakeOff, Returned
  <2>2. max \in Nat /\ S \in SUBSET sleepers
    BY MaxWakeAssumption
  <2> HIDE DEF S
  <2>3. hit \in SUBSET S
    BY DEF Oldest
  <2>4. OldestOf(S, max, ById(hit)) /\ Range(ById(hit)) = hit
    BY <1>1, <2>2, TakenOldest
  <2> HIDE DEF hit
  <2>5. ret'.woken = ById(hit)
    BY <2>1
  <2>6. sleepers \ sleepers' = hit
    BY <2>1, <2>2, <2>3
  <2> QED BY <2>4, <2>5, <2>6 DEF S
<1>2. ASSUME QueueInv, NEW from \in Sources, NEW to \in Sources, NEW max \in 0..MaxWake,
             Retarget(from, to, max)
      PROVE  /\ OldestOf({s \in sleepers : Matches(s, from)}, max, ret'.woken)
             /\ \A s \in sleepers : \E t \in sleepers' :
                  /\ s.id = t.id /\ s.channel = t.channel /\ s.deadline = t.deadline
                  /\ from # to => (s \in Range(ret'.woken) <=> Matches(s, from) /\ ~Matches(t, from))
  <2> DEFINE S == {x \in sleepers : Matches(x, from)}
             hit == Oldest(S, max)
             Moved(x) == [x EXCEPT !.sources = (x.sources \ {from}) \cup {to}]
  <2>1. sleepers' = (sleepers \ hit) \cup {Moved(x) : x \in hit}
        /\ ret' = [op |-> "retarget", woken |-> ById(hit)]
    BY <1>2 DEF Retarget, Returned
  <2>2. max \in Nat /\ S \in SUBSET sleepers
    BY MaxWakeAssumption
  <2>3. \A x \in sleepers : /\ Moved(x).id = x.id /\ Moved(x).channel = x.channel
                            /\ Moved(x).deadline = x.deadline
                            /\ Moved(x).sources = (x.sources \ {from}) \cup {to}
    BY <1>2 DEF QueueInv, TypeOK, Sleeper
  <2>4. hit \in SUBSET S /\ \A x \in hit : Matches(x, from)
    BY DEF Oldest
  <2>5. \A x \in sleepers : x \in S <=> Matches(x, from)
    OBVIOUS
  <2> HIDE DEF S, Moved
  <2>6. OldestOf(S, max, ById(hit)) /\ Range(ById(hit)) = hit
    BY <1>2, <2>2, TakenOldest
  <2> HIDE DEF hit
  <2>7. ret'.woken = ById(hit)
    BY <2>1
  <2>8. ASSUME NEW s \in sleepers
        PROVE  \E t \in sleepers' :
                 /\ s.id = t.id /\ s.channel = t.channel /\ s.deadline = t.deadline
                 /\ from # to => (s \in hit <=> Matches(s, from) /\ ~Matches(t, from))
    <3>1. CASE s \in hit
      <4>1. Moved(s) \in sleepers'
        BY <2>1, <3>1
      <4>2. from # to => ~Matches(Moved(s), from)
        BY <2>3 DEF Matches
      <4> QED BY <2>3, <2>4, <3>1, <4>1, <4>2
    <3>2. CASE s \notin hit
      BY <2>1, <3>2
    <3> QED BY <3>1, <3>2
  <2> QED BY <2>6, <2>7, <2>8 DEF S
<1> DEFINE Fair ==
      /\ ret'.op = "wake_limited" =>
           \A source \in Sources, max \in 0..MaxWake, accept \in SUBSET {s.id : s \in sleepers} :
             WakeLimited(source, max, accept) =>
               /\ OldestOf({s \in sleepers : Matches(s, source) /\ s.id \in accept}, max, ret'.woken)
               /\ sleepers \ sleepers' = Range(ret'.woken)
      /\ ret'.op = "retarget" =>
           \A from, to \in Sources, max \in 0..MaxWake :
             Retarget(from, to, max) =>
               /\ OldestOf({s \in sleepers : Matches(s, from)}, max, ret'.woken)
               /\ \A s \in sleepers : \E t \in sleepers' :
                    /\ s.id = t.id /\ s.channel = t.channel /\ s.deadline = t.deadline
                    /\ from # to => (s \in Range(ret'.woken) <=> Matches(s, from) /\ ~Matches(t, from))
<1>3. QueueInv => Fair
  <2>1. ASSUME QueueInv, ret'.op = "wake_limited"
        PROVE  \A source \in Sources, max \in 0..MaxWake, accept \in SUBSET {s.id : s \in sleepers} :
                 WakeLimited(source, max, accept) =>
                   /\ OldestOf({s \in sleepers : Matches(s, source) /\ s.id \in accept}, max, ret'.woken)
                   /\ sleepers \ sleepers' = Range(ret'.woken)
    BY <1>1, <2>1, Zenon
  <2>2. ASSUME QueueInv, ret'.op = "retarget"
        PROVE  \A from, to \in Sources, max \in 0..MaxWake :
                 Retarget(from, to, max) =>
                   /\ OldestOf({s \in sleepers : Matches(s, from)}, max, ret'.woken)
                   /\ \A s \in sleepers : \E t \in sleepers' :
                        /\ s.id = t.id /\ s.channel = t.channel /\ s.deadline = t.deadline
                        /\ from # to => (s \in Range(ret'.woken) <=> Matches(s, from) /\ ~Matches(t, from))
    BY <1>2, <2>2, Zenon
  <2> QED BY <2>1, <2>2, Zenon
<1>4. QueueInv => [Fair]_vars
  BY <1>3, Zenon
<1> QED BY <1>4, QueueInvariant, PTL DEF OldestFirst

=============================================================================
