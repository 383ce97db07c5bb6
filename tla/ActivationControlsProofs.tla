---------------------- MODULE ActivationControlsProofs ----------------------
(***************************************************************************)
(* Proofs about ActivationControls: whatever the number of publications,   *)
(* repairs, deaths of the process and power losses, the two files keep the *)
(* record of the last publication that returned, or a later one.           *)
(***************************************************************************)
EXTENDS ActivationControls, TLAPS

Other(r) == 1 - r

\* Records that are not older than the committed one and do not contend with it.
Sound(x) ==
  /\ x.sequence >= committed.sequence
  /\ x.sequence = committed.sequence => x = committed
Agree(x, y) == x \in Records /\ y \in Records /\ x.sequence = y.sequence => x = y

\* A replica that no crash can take away: whatever is left of it is a record.
Firm(r) == cache[r] \in Records /\ disk[r] \in Records /\ ~InFlight(r)

\* The files, once a publication has returned.
EverySound ==
  \A r \in Replicas : /\ cache[r] \in Records => Sound(cache[r])
                      /\ disk[r] \in Records => Sound(disk[r])
EveryAgrees ==
  \A r, q \in Replicas : /\ Agree(cache[r], cache[q])
                         /\ Agree(cache[r], disk[q])
                         /\ Agree(disk[r], disk[q])
SomeFirm == \E r \in Replicas : Firm(r)
\* A record that has never reached the medium is also in the other file.
Doubled ==
  \A r \in Replicas : cache[r] \in Records /\ disk[r] \notin Records => cache[Other(r)] = cache[r]
FilesInv == committed # Blank => EverySound /\ EveryAgrees /\ SomeFirm /\ Doubled

\* What the open pair knows of the files.
CurrentInv ==
  mode = "open" /\ committed # Blank =>
    /\ current \in Records /\ Sound(current)
    /\ \A r \in Replicas : Agree(current, cache[r]) /\ Agree(current, disk[r])
ClosedInv == mode # "open" => task = "none" /\ current = Blank /\ repaired = FALSE
UnrepairedInv ==
  mode = "open" /\ current \in Records /\ ~repaired =>
    /\ task # "publish"
    /\ \E r \in Replicas : seen[r] = current
    /\ \A r \in Replicas :
         /\ seen[r] = current => cache[r] = current
         /\ seen[r] # current /\ committed # Blank => disk[Other(r)] \in Records
\* Once repaired, both files hold the current record, on the medium too.
SettledInv ==
  repaired =>
    /\ current \in Records /\ task \in {"none", "publish"}
    /\ task = "none" => \A r \in Replicas : cache[r] = current /\ disk[r] = current

\* The loops.
LoopInv ==
  /\ task # "none" => record \in Records
  /\ Writing /\ step = "flush" => cache[at] = record
RepairInv ==
  task \in {"repair", "settle"} =>
    /\ record = current /\ ~repaired
    /\ at = 1 \/ task = "settle" => seen[0] = current
    /\ step # "write" /\ task = "repair" => seen[at] # current
    /\ task = "settle" => seen[1] = current
    /\ task = "settle" /\ at = 1 => disk[0] = current
PublishInv ==
  task = "publish" =>
    /\ at = 1 => cache[0] = record /\ disk[0] = record
    /\ current \in Records =>
         /\ repaired /\ record.sequence = current.sequence + 1
         /\ disk[at] = current
         /\ step = "write" => cache[at] = current
         /\ at = 0 => cache[1] = current /\ disk[1] = current

IInv ==
  /\ ControlTypeOK
  /\ FilesInv /\ CurrentInv /\ ClosedInv /\ UnrepairedInv /\ SettledInv
  /\ LoopInv /\ RepairInv /\ PublishInv

-----------------------------------------------------------------------------

\* Records are numbered from one, and are neither a blank nor a torn replica.
LEMMA RecordFacts ==
  /\ \A x \in Records : x.sequence \in Nat /\ x.sequence >= 1
  /\ Blank \notin Records /\ Torn \notin Records /\ Blank # Torn
BY ContentAssumption DEF Records

\* The invariant is what the property needs: one replica is a record whatever
\* happens, and no other content competes with it.
LEMMA InvariantKeepsPublished == IInv => PublishedSurvives
<1> SUFFICES ASSUME IInv, committed # Blank
             PROVE  /\ Keeps(cache)
                    /\ \A a \in Outcomes(0), b \in Outcomes(1) :
                         Keeps([r \in Replicas |-> IF r = 0 THEN a ELSE b])
  BY DEF PublishedSurvives
<1>1. /\ EverySound /\ EveryAgrees /\ committed \in Records
      /\ cache \in [Replicas -> Content] /\ disk \in [Replicas -> Content]
  BY DEF IInv, FilesInv, ControlTypeOK
<1>2. PICK f \in Replicas : Firm(f)
  BY DEF IInv, FilesInv, SomeFirm
<1>3. ASSUME NEW c \in [Replicas -> Content], c[f] \in Records, Agree(c[0], c[1]),
             \A r \in Replicas : c[r] \in Records => Sound(c[r])
      PROVE  Keeps(c)
  BY <1>1, <1>3, RecordFacts
  DEF Keeps, SelectRefuses, Ambiguous, Unreadable, SelectActivation, Replicas, Agree, Sound
<1>4. Keeps(cache)
  BY <1>1, <1>2, <1>3 DEF Firm, EverySound, EveryAgrees, Replicas
<1>5. ASSUME NEW a \in Outcomes(0), NEW b \in Outcomes(1)
      PROVE  Keeps([r \in Replicas |-> IF r = 0 THEN a ELSE b])
  <2> DEFINE c == [r \in Replicas |-> IF r = 0 THEN a ELSE b]
  <2>1. c[0] = a /\ c[1] = b
    BY DEF Replicas
  <2>2. /\ a \in {cache[0], disk[0], Torn} /\ b \in {cache[1], disk[1], Torn}
        /\ InFlight(0) \/ a \in {cache[0], disk[0]}
        /\ InFlight(1) \/ b \in {cache[1], disk[1]}
    BY DEF Outcomes
  <2>3. c \in [Replicas -> Content]
    BY <1>1, <2>2 DEF Content, Replicas
  <2>4. c[f] \in Records
    BY <1>2, <2>1, <2>2 DEF Firm, Replicas
  <2>5. Agree(c[0], c[1])
    BY <1>1, <2>1, <2>2, RecordFacts DEF EveryAgrees, Agree, Replicas
  <2>6. \A r \in Replicas : c[r] \in Records => Sound(c[r])
    BY <1>1, <2>1, <2>2, RecordFacts DEF EverySound, Replicas
  <2> HIDE DEF c
  <2>7. Keeps(c)
    BY <1>3, <2>3, <2>4, <2>5, <2>6
  <2> QED BY <2>7 DEF c
<1> QED BY <1>4, <1>5

\* The invariant holds of a disk on which no control has been written.
LEMMA InvariantInit == ControlInit => IInv
BY RecordFacts, IdentityAssumption
DEF ControlInit, IInv, ControlTypeOK, Content, FilesInv, CurrentInv, ClosedInv, UnrepairedInv,
    SettledInv, LoopInv, RepairInv, PublishInv, Writing, Replicas

\* Which replica is safe while the other one is written.
LEMMA OtherIsFirm ==
  ASSUME IInv, committed # Blank, Writing, task = "repair" => seen[at] # record
  PROVE  /\ cache[Other(at)] \in Records /\ disk[Other(at)] \in Records
         /\ disk[at] \in Records \/ task = "repair"
         /\ task = "repair" => cache[Other(at)] = record
<1>1. mode = "open" /\ current \in Records /\ record \in Records
  BY DEF IInv, ClosedInv, CurrentInv, LoopInv, Writing
<1>2. CASE task = "repair"
  <2>1. record = current /\ ~repaired
    BY <1>2 DEF IInv, RepairInv
  <2> QED
    BY <1>1, <1>2, <2>1 DEF IInv, ControlTypeOK, UnrepairedInv, Other, Replicas
<1>3. CASE task = "publish"
  BY <1>1, <1>3 DEF IInv, ControlTypeOK, PublishInv, Other, Replicas
<1> QED BY <1>2, <1>3 DEF Writing

\* Writing a replica keeps the invariant.
LEMMA WriteKeeps == IInv /\ WriteAllAt => IInv'
<1> SUFFICES ASSUME IInv, WriteAllAt PROVE IInv'
  OBVIOUS
<1> USE DEF Replicas, Writing
<1>1. ControlTypeOK'
  BY DEF IInv, ControlTypeOK, WriteAllAt, pair, Content
<1>2. FilesInv'
  <2> SUFFICES ASSUME committed # Blank
               PROVE  EverySound' /\ EveryAgrees' /\ SomeFirm' /\ Doubled'
    BY DEF WriteAllAt, FilesInv
  <2>1. /\ cache' = [cache EXCEPT ![at] = Torn] /\ UNCHANGED <<disk, task, at, committed>>
        /\ cache \in [Replicas -> Content] /\ disk \in [Replicas -> Content] /\ at \in Replicas
    BY DEF WriteAllAt, IInv, ControlTypeOK
  <2>2. /\ cache[Other(at)] \in Records /\ disk[Other(at)] \in Records
        /\ disk[at] \in Records \/ task = "repair"
        /\ task = "repair" => cache[Other(at)] = record
    BY OtherIsFirm DEF WriteAllAt, Skipped
  <2>3. EverySound'
    BY <2>1, RecordFacts DEF IInv, FilesInv, EverySound, Sound
  <2>4. EveryAgrees'
    BY <2>1, RecordFacts DEF IInv, FilesInv, EveryAgrees, Agree
  <2>5. SomeFirm'
    BY <2>1, <2>2 DEF SomeFirm, Firm, InFlight, Other
  <2>6. Doubled'
    BY <2>1, <2>2, RecordFacts DEF Doubled, Other
  <2> QED BY <2>3, <2>4, <2>5, <2>6
<1>3. CurrentInv'
  BY RecordFacts DEF IInv, ControlTypeOK, WriteAllAt, pair, CurrentInv, Agree, Sound
<1>4. ClosedInv' /\ LoopInv' /\ SettledInv'
  BY RecordFacts DEF IInv, ControlTypeOK, WriteAllAt, pair, ClosedInv, LoopInv, SettledInv
<1>5. UnrepairedInv'
  BY RecordFacts DEF IInv, ControlTypeOK, WriteAllAt, pair, UnrepairedInv, Other, Skipped, RepairInv, PublishInv
<1>6. RepairInv' /\ PublishInv'
  BY RecordFacts DEF IInv, ControlTypeOK, WriteAllAt, pair, RepairInv, PublishInv, Skipped
<1> QED
  BY <1>1, <1>2, <1>3, <1>4, <1>5, <1>6 DEF IInv

\* Cutting the file to the length of its record keeps it.
LEMMA TruncateKeeps == IInv /\ TruncateRecord => IInv'
<1> SUFFICES ASSUME IInv, TruncateRecord PROVE IInv'
  OBVIOUS
<1> USE DEF Replicas, Writing
<1>1. ControlTypeOK'
  BY DEF IInv, ControlTypeOK, TruncateRecord, pair, Content, LoopInv
<1>2. FilesInv'
  <2> SUFFICES ASSUME committed # Blank
               PROVE  EverySound' /\ EveryAgrees' /\ SomeFirm' /\ Doubled'
    BY DEF TruncateRecord, FilesInv
  <2>1. /\ cache' = [cache EXCEPT ![at] = record] /\ UNCHANGED <<disk, task, at, committed>>
        /\ cache \in [Replicas -> Content] /\ disk \in [Replicas -> Content] /\ at \in Replicas
    BY DEF TruncateRecord, IInv, ControlTypeOK
  <2>2. /\ cache[Other(at)] \in Records /\ disk[Other(at)] \in Records
        /\ disk[at] \in Records \/ task = "repair"
        /\ task = "repair" => cache[Other(at)] = record
    BY OtherIsFirm DEF TruncateRecord, RepairInv, IInv
  <2>3. /\ mode = "open" /\ record \in Records
        /\ current \in Records /\ Sound(current)
        /\ \A r \in Replicas : Agree(current, cache[r]) /\ Agree(current, disk[r])
    BY DEF IInv, ClosedInv, CurrentInv, LoopInv, TruncateRecord
  <2>4. CASE task = "repair"
    <3>1. record = current
      BY <2>4 DEF IInv, RepairInv
    <3>3. EverySound'
      BY <2>1, <2>3, <3>1, RecordFacts DEF IInv, FilesInv, EverySound, Sound
    <3>4. EveryAgrees'
      BY <2>1, <2>3, <3>1, RecordFacts DEF IInv, FilesInv, EveryAgrees, Agree
    <3>5. SomeFirm'
      BY <2>1, <2>2 DEF SomeFirm, Firm, InFlight, Other
    <3>6. Doubled'
      BY <2>1, <2>2, <2>4, RecordFacts DEF Doubled, Other
    <3> QED BY <3>3, <3>4, <3>5, <3>6
  <2>5. CASE task = "publish"
    <3>1. /\ record.sequence = current.sequence + 1
          /\ disk[at] = current
          /\ at = 0 => cache[1] = current /\ disk[1] = current
          /\ at = 1 => cache[0] = record /\ disk[0] = record
      BY <2>3, <2>5 DEF IInv, PublishInv
    <3>2. record.sequence \in Nat /\ current.sequence \in Nat /\ committed.sequence \in Nat
      BY <2>3, RecordFacts DEF IInv, ControlTypeOK
    <3>3. EverySound'
      BY <2>1, <2>3, <3>1, <3>2 DEF EverySound, Sound
    <3>4. EveryAgrees'
      BY <2>1, <2>3, <3>1, <3>2 DEF EveryAgrees, Agree
    <3>5. SomeFirm'
      BY <2>1, <2>2 DEF SomeFirm, Firm, InFlight, Other
    <3>6. Doubled'
      BY <2>1, <2>2, <2>5, RecordFacts DEF Doubled, Other
    <3> QED BY <3>3, <3>4, <3>5, <3>6
  <2> QED BY <2>4, <2>5 DEF TruncateRecord
<1>3. CurrentInv'
  BY RecordFacts DEF IInv, ControlTypeOK, TruncateRecord, pair, CurrentInv, Agree, Sound, RepairInv, PublishInv
<1>4. ClosedInv' /\ LoopInv' /\ SettledInv'
  BY RecordFacts DEF IInv, ControlTypeOK, TruncateRecord, pair, ClosedInv, LoopInv, SettledInv
<1>5. UnrepairedInv'
  BY RecordFacts DEF IInv, ControlTypeOK, TruncateRecord, pair, UnrepairedInv, Other, RepairInv, PublishInv
<1>6. RepairInv' /\ PublishInv'
  BY RecordFacts DEF IInv, ControlTypeOK, TruncateRecord, pair, RepairInv, PublishInv
<1> QED
  BY <1>1, <1>2, <1>3, <1>4, <1>5, <1>6 DEF IInv

\* Passing over a replica that was read as the current record keeps it.
LEMMA SkipKeeps == IInv /\ SkipReplica => IInv'
<1> SUFFICES ASSUME IInv, SkipReplica PROVE IInv'
  OBVIOUS
<1> USE DEF Replicas, Writing
<1>1. ControlTypeOK'
  BY DEF IInv, ControlTypeOK, SkipReplica, NextReplica, files, pair
<1>2. FilesInv'
  BY DEF IInv, FilesInv, EverySound, EveryAgrees, SomeFirm, Doubled, Firm, InFlight, Sound,
     SkipReplica, NextReplica, files
<1>3. CurrentInv'
  BY DEF IInv, CurrentInv, Sound, SkipReplica, files, pair
<1>4. ClosedInv' /\ LoopInv' /\ SettledInv'
  BY DEF IInv, ClosedInv, LoopInv, SettledInv, SkipReplica, Skipped, NextReplica, pair
<1>5. UnrepairedInv'
  BY DEF IInv, UnrepairedInv, SkipReplica, NextReplica, files, pair
<1>6. RepairInv' /\ PublishInv'
  BY DEF IInv, ControlTypeOK, RepairInv, PublishInv, SkipReplica, Skipped, NextReplica, pair
<1> QED
  BY <1>1, <1>2, <1>3, <1>4, <1>5, <1>6 DEF IInv

\* Flushing a replica at the end of a repair keeps it.
LEMMA SettleKeeps == IInv /\ SettleReplica => IInv'
<1> SUFFICES ASSUME IInv, SettleReplica PROVE IInv'
  OBVIOUS
<1> USE DEF Replicas, Writing
<1>1. ControlTypeOK'
  BY DEF IInv, ControlTypeOK, SettleReplica
<1>2. FilesInv'
  BY DEF IInv, FilesInv, EverySound, EveryAgrees, SomeFirm, Doubled, Firm, InFlight, Agree,
     Sound, SettleReplica
<1>3. CurrentInv'
  BY DEF IInv, CurrentInv, Sound, SettleReplica
<1>4. ClosedInv' /\ LoopInv' /\ SettledInv'
  BY DEF IInv, ControlTypeOK, ClosedInv, LoopInv, SettledInv, RepairInv, UnrepairedInv,
     SettleReplica
<1>5. UnrepairedInv'
  BY DEF IInv, UnrepairedInv, RepairInv, SettleReplica
<1>6. RepairInv' /\ PublishInv'
  BY DEF IInv, ControlTypeOK, RepairInv, PublishInv, ClosedInv, LoopInv, UnrepairedInv,
     SettleReplica
<1> QED
  BY <1>1, <1>2, <1>3, <1>4, <1>5, <1>6 DEF IInv

\* Starting a repair keeps it.
LEMMA PrepareKeeps == IInv /\ PrepareControls => IInv'
<1> SUFFICES ASSUME IInv, PrepareControls PROVE IInv'
  OBVIOUS
<1> USE DEF Replicas, Writing
<1>1. ControlTypeOK'
  BY DEF IInv, ControlTypeOK, PrepareControls, files, pair
<1>2. FilesInv'
  BY DEF IInv, FilesInv, EverySound, EveryAgrees, SomeFirm, Doubled, Firm, InFlight, Sound,
     PrepareControls, files
<1>3. CurrentInv'
  BY DEF IInv, CurrentInv, Sound, PrepareControls, files, pair
<1>4. ClosedInv' /\ LoopInv' /\ SettledInv'
  BY DEF IInv, ControlTypeOK, ClosedInv, LoopInv, SettledInv, PrepareControls, Unrepaired,
     pair
<1>5. UnrepairedInv'
  BY DEF IInv, UnrepairedInv, PrepareControls, files, pair
<1>6. RepairInv' /\ PublishInv'
  BY DEF RepairInv, PublishInv, PrepareControls, Unrepaired, pair
<1> QED
  BY <1>1, <1>2, <1>3, <1>4, <1>5, <1>6 DEF IInv

\* Closing the pair keeps it.
LEMMA CloseKeeps == IInv /\ CloseControls => IInv'
<1> SUFFICES ASSUME IInv, CloseControls PROVE IInv'
  OBVIOUS
<1> USE DEF Replicas, Writing
<1>1. ControlTypeOK'
  BY DEF IInv, ControlTypeOK, CloseControls, GiveUp, files
<1>2. FilesInv'
  BY DEF IInv, FilesInv, EverySound, EveryAgrees, SomeFirm, Doubled, Firm, InFlight, Sound,
     CloseControls, GiveUp, files
<1>3. CurrentInv'
  BY DEF CurrentInv, CloseControls, GiveUp
<1>4. ClosedInv' /\ LoopInv' /\ SettledInv'
  BY DEF ClosedInv, LoopInv, SettledInv, CloseControls, GiveUp
<1>5. UnrepairedInv'
  BY DEF UnrepairedInv, CloseControls, GiveUp
<1>6. RepairInv' /\ PublishInv'
  BY DEF RepairInv, PublishInv, CloseControls, GiveUp
<1> QED
  BY <1>1, <1>2, <1>3, <1>4, <1>5, <1>6 DEF IInv

\* Giving the pair up keeps it.
LEMMA LostKeeps == IInv /\ ControlsLost => IInv'
<1> SUFFICES ASSUME IInv, ControlsLost PROVE IInv'
  OBVIOUS
<1> USE DEF Replicas, Writing
<1>1. ControlTypeOK'
  BY DEF IInv, ControlTypeOK, ControlsLost, GiveUp, files
<1>2. FilesInv'
  BY DEF IInv, FilesInv, EverySound, EveryAgrees, SomeFirm, Doubled, Firm, InFlight, Sound,
     ControlsLost, GiveUp, files
<1>3. CurrentInv'
  BY DEF CurrentInv, ControlsLost, GiveUp
<1>4. ClosedInv' /\ LoopInv' /\ SettledInv'
  BY DEF ClosedInv, LoopInv, SettledInv, ControlsLost, GiveUp
<1>5. UnrepairedInv'
  BY DEF UnrepairedInv, ControlsLost, GiveUp
<1>6. RepairInv' /\ PublishInv'
  BY DEF RepairInv, PublishInv, ControlsLost, GiveUp
<1> QED
  BY <1>1, <1>2, <1>3, <1>4, <1>5, <1>6 DEF IInv

\* The flush of a replica has three cases: a repair, the first replica of a
\* publication, and the second one, with which publish returns.
LEMMA FlushKeeps == IInv /\ FlushRecord => IInv'
<1> SUFFICES ASSUME IInv, FlushRecord PROVE IInv'
  OBVIOUS
<1> USE DEF Replicas, Writing
<1>1. /\ cache \in [Replicas -> Content] /\ disk \in [Replicas -> Content] /\ at \in Replicas
      /\ seen \in [Replicas -> Records \cup {Blank}]
      /\ record \in Records /\ cache[at] = record /\ mode = "open"
      /\ disk' = [disk EXCEPT ![at] = record] /\ cache' = cache /\ mode' = mode
      /\ record' = record
  BY DEF IInv, ControlTypeOK, LoopInv, ClosedInv, FlushRecord, NextReplica
<1>2. CASE task = "repair"
  <2>1. /\ record = current /\ ~repaired /\ seen[at] # current
        /\ at = 1 => seen[0] = current
    BY <1>2 DEF IInv, RepairInv, FlushRecord
  <2>2. /\ seen' = [seen EXCEPT ![at] = record]
        /\ current' = current /\ repaired' = repaired /\ committed' = committed
        /\ at = 0 => at' = 1 /\ step' = "write" /\ task' = task
        /\ at = 1 => task' = "settle" /\ at' = 0 /\ step' = "flush"
    BY <1>2 DEF FlushRecord, NextReplica, PublishReturns, IInv, ControlTypeOK
  <2>3. FilesInv'
    <3> SUFFICES ASSUME committed # Blank
                 PROVE  EverySound' /\ EveryAgrees' /\ SomeFirm' /\ Doubled'
      BY <2>2 DEF FilesInv
    <3>1. /\ EverySound /\ EveryAgrees /\ Doubled
          /\ Sound(current) /\ \A r \in Replicas : Agree(current, cache[r]) /\ Agree(current, disk[r])
      BY <1>1 DEF IInv, FilesInv, CurrentInv
    <3>2. EverySound'
      BY <1>1, <2>1, <2>2, <3>1 DEF EverySound, Sound
    <3>3. EveryAgrees'
      BY <1>1, <2>1, <2>2, <3>1 DEF EveryAgrees, Agree
    <3>4. SomeFirm'
      BY <1>1, <2>2 DEF SomeFirm, Firm, InFlight
    <3>5. Doubled'
      BY <1>1, <2>2, <3>1 DEF Doubled
    <3> QED BY <3>2, <3>3, <3>4, <3>5
  <2>4. CurrentInv'
    BY <1>1, <2>1, <2>2 DEF IInv, CurrentInv, Agree, Sound
  <2>5. UnrepairedInv'
    BY <1>1, <1>2, <2>1, <2>2 DEF IInv, UnrepairedInv, Other
  <2>6. RepairInv'
    BY <1>1, <1>2, <2>1, <2>2 DEF RepairInv
  <2>7. ControlTypeOK'
    BY <1>1, <1>2, <2>2 DEF IInv, ControlTypeOK, Content
  <2>8. ClosedInv' /\ SettledInv' /\ LoopInv' /\ PublishInv'
    BY <1>1, <1>2, <2>1, <2>2 DEF IInv, ClosedInv, SettledInv, LoopInv, PublishInv
  <2> QED BY <2>3, <2>4, <2>5, <2>6, <2>7, <2>8 DEF IInv
<1>3. CASE task = "publish" /\ at = 0
  <2>1. /\ UNCHANGED <<seen, current, repaired, committed, task>>
        /\ at' = 1 /\ step' = "write"
    BY <1>3 DEF FlushRecord, NextReplica, PublishReturns, IInv, ControlTypeOK
  <2>2. current \in Records =>
          /\ repaired /\ record.sequence = current.sequence + 1
          /\ disk[0] = current /\ cache[1] = current /\ disk[1] = current
    BY <1>3 DEF IInv, PublishInv
  <2>3. committed # Blank => current \in Records /\ Sound(current)
    BY <1>1 DEF IInv, CurrentInv
  <2>4. /\ \A x \in Records : x.sequence \in Nat
        /\ committed \in Records \cup {Blank}
    BY RecordFacts DEF IInv, ControlTypeOK
  <2>5. FilesInv'
    <3> SUFFICES ASSUME committed # Blank
                 PROVE  EverySound' /\ EveryAgrees' /\ SomeFirm' /\ Doubled'
      BY <2>1 DEF FilesInv
    <3>1. EverySound'
      BY <1>1, <1>3, <2>1, <2>2, <2>3, <2>4 DEF EverySound, Sound
    <3>2. EveryAgrees'
      BY <1>1, <1>3, <2>1, <2>2, <2>3, <2>4 DEF EveryAgrees, Agree
    <3>3. SomeFirm'
      BY <1>1, <1>3, <2>1 DEF SomeFirm, Firm, InFlight
    <3>4. Doubled'
      BY <1>1, <1>3, <2>1, <2>2, <2>3 DEF Doubled
    <3> QED BY <3>1, <3>2, <3>3, <3>4
  <2>6. CurrentInv'
    BY <1>1, <1>3, <2>1, <2>2, <2>3, <2>4 DEF CurrentInv, Agree, Sound
  <2>7. ControlTypeOK'
    BY <1>1, <1>3, <2>1 DEF IInv, ControlTypeOK, Content
  <2>8. PublishInv'
    BY <1>1, <1>3, <2>1, <2>2 DEF PublishInv
  <2>9. /\ ClosedInv' /\ UnrepairedInv' /\ SettledInv' /\ LoopInv' /\ RepairInv'
    BY <1>1, <1>3, <2>1, <2>2
    DEF IInv, ClosedInv, UnrepairedInv, SettledInv, LoopInv, RepairInv
  <2> QED BY <2>5, <2>6, <2>7, <2>8, <2>9 DEF IInv
<1>4. CASE task = "publish" /\ at = 1
  <2>0. repaired' = TRUE
    BY <1>4, Zenon DEF FlushRecord, PublishReturns
  <2>1. /\ seen' = [r \in Replicas |-> record]
        /\ current' = record /\ repaired' = TRUE /\ committed' = record
        /\ task' = "none" /\ at' = 0 /\ step' = "write"
    BY <1>4, <2>0 DEF FlushRecord, NextReplica, PublishReturns
  <2>2. /\ cache'[0] = record /\ cache'[1] = record
        /\ disk'[0] = record /\ disk'[1] = record
    BY <1>1, <1>4 DEF IInv, PublishInv
  <2>3. record.sequence \in Nat
    BY <1>1, RecordFacts
  <2>4. FilesInv'
    BY <1>1, <2>1, <2>2, <2>3
    DEF FilesInv, EverySound, EveryAgrees, SomeFirm, Doubled, Firm, InFlight, Other, Agree, Sound
  <2>5. CurrentInv'
    BY <1>1, <2>1, <2>2, <2>3 DEF CurrentInv, Agree, Sound
  <2>6. ControlTypeOK'
    BY <1>1, <2>1 DEF IInv, ControlTypeOK, Content
  <2>7. /\ ClosedInv' /\ UnrepairedInv' /\ SettledInv' /\ LoopInv' /\ RepairInv' /\ PublishInv'
    BY <1>1, <2>1, <2>2
    DEF ClosedInv, UnrepairedInv, SettledInv, LoopInv, RepairInv, PublishInv
  <2> QED BY <2>4, <2>5, <2>6, <2>7 DEF IInv
<1> QED BY <1>1, <1>2, <1>3, <1>4 DEF FlushRecord

\* What select_activation returns is one of the files' records.
LEMMA SelectedIsStored ==
  ASSUME NEW c \in [Replicas -> Content], SelectActivation(c) # Blank
  PROVE  /\ SelectActivation(c) \in Records
         /\ \E r \in Replicas : c[r] = SelectActivation(c)
BY RecordFacts DEF SelectActivation, Replicas, Content

\* An open selects a record that is in one of the files; the other one is not
\* needed to read it.
LEMMA OpenKeeps == IInv /\ OpenControls => IInv'
<1> SUFFICES ASSUME IInv, OpenControls PROVE IInv'
  OBVIOUS
<1> USE DEF Replicas
<1>1. /\ cache \in [Replicas -> Content] /\ disk \in [Replicas -> Content]
      /\ UNCHANGED <<cache, disk, task, record, at, step, committed>>
      /\ task = "none" /\ repaired' = FALSE
      /\ seen' = [r \in Replicas |-> IF cache[r] = Torn THEN Blank ELSE cache[r]]
  BY DEF IInv, ControlTypeOK, ClosedInv, OpenControls, files, loop
<1>2. CASE SelectRefuses(cache)
  <2>1. mode' = "refused" /\ current' = Blank
    BY <1>2 DEF OpenControls
  <2>2. ControlTypeOK'
    BY <1>1, <2>1 DEF IInv, ControlTypeOK, Content
  <2>3. FilesInv'
    BY <1>1 DEF IInv, FilesInv, EverySound, EveryAgrees, SomeFirm, Doubled, Firm, InFlight,
                Writing, Sound
  <2> QED
    BY <1>1, <2>1, <2>2, <2>3
    DEF IInv, CurrentInv, ClosedInv, UnrepairedInv, SettledInv, LoopInv, RepairInv, PublishInv,
        Writing
<1>3. CASE ~SelectRefuses(cache)
  <2>1. mode' = "open" /\ current' = SelectActivation(cache)
    BY <1>3 DEF OpenControls
  <2>2. current' # Blank => /\ current' \in Records
                            /\ \E r \in Replicas : cache[r] = current'
    BY <1>1, <2>1, SelectedIsStored
  <2>3. ControlTypeOK'
    BY <1>1, <2>1, <2>2 DEF IInv, ControlTypeOK, Content
  <2>4. FilesInv'
    BY <1>1 DEF IInv, FilesInv, EverySound, EveryAgrees, SomeFirm, Doubled, Firm, InFlight,
                Writing, Sound
  <2>5. CurrentInv'
    <3> SUFFICES ASSUME committed # Blank
                 PROVE  /\ current' \in Records /\ Sound(current')
                        /\ \A r \in Replicas : Agree(current', cache[r]) /\ Agree(current', disk[r])
      BY <1>1 DEF CurrentInv, Sound
    <3>1. Keeps(cache)
      BY InvariantKeepsPublished DEF PublishedSurvives
    <3>2. current' \in Records
      BY <2>1, <3>1 DEF Keeps
    <3>3. PICK q \in Replicas : cache[q] = current'
      BY <2>2, <3>2, RecordFacts
    <3> QED
      BY <3>2, <3>3 DEF IInv, FilesInv, EverySound, EveryAgrees
  <2>6. UnrepairedInv'
    <3> SUFFICES ASSUME current' \in Records
                 PROVE  /\ \E r \in Replicas : seen'[r] = current'
                        /\ \A r \in Replicas :
                             /\ seen'[r] = current' => cache[r] = current'
                             /\ seen'[r] # current' /\ committed # Blank => disk[Other(r)] \in Records
      BY <1>1 DEF UnrepairedInv
    <3>1. PICK q \in Replicas : cache[q] = current'
      BY <2>2, RecordFacts
    <3>2. \A r \in Replicas : seen'[r] = current' <=> cache[r] = current'
      BY <1>1, RecordFacts
    <3>3. ASSUME NEW r \in Replicas, seen'[r] # current', committed # Blank
          PROVE  disk[Other(r)] \in Records
      <4>1. Other(r) = q
        BY <3>1, <3>2, <3>3 DEF Other
      <4>2. cache[Other(q)] # cache[q]
        BY <3>1, <3>2, <3>3, <4>1 DEF Other
      <4> QED
        BY <3>1, <3>3, <4>1, <4>2 DEF IInv, FilesInv, Doubled
    <3> QED BY <3>1, <3>2, <3>3
  <2>7. /\ ClosedInv' /\ SettledInv' /\ LoopInv' /\ RepairInv' /\ PublishInv'
    BY <1>1, <2>1 DEF ClosedInv, SettledInv, LoopInv, RepairInv, PublishInv, Writing
  <2> QED BY <2>3, <2>4, <2>5, <2>6, <2>7 DEF IInv
<1> QED BY <1>2, <1>3

\* A publication starts from two files that hold the current record, or from a
\* pair that has no record yet.
LEMMA PublishKeeps ==
  ASSUME IInv, NEW identity \in Identities, PublishRecord(identity)
  PROVE  IInv'
<1> DEFINE next == NextActivation(current, identity)
<1> USE DEF Replicas
<1>1. /\ mode = "open" /\ task = "none" /\ MayFollow(current, identity)
      /\ UNCHANGED <<cache, disk, mode, current, seen, repaired>>
      /\ current \in Records \cup {Blank}
      /\ current = Blank \/ repaired
  BY DEF PublishRecord, Unrepaired, files, pair, IInv, ControlTypeOK
<1>2. current \in Records =>
        /\ repaired
        /\ cache[0] = current /\ cache[1] = current
        /\ disk[0] = current /\ disk[1] = current
  BY <1>1, RecordFacts DEF IInv, SettledInv
<1>3. CASE next = current
  <2>1. committed' = current /\ UNCHANGED <<task, record, at, step>>
    BY <1>3 DEF PublishRecord, loop
  <2>2. current \in Records
    BY <1>1, <1>3, RecordFacts, IdentityAssumption DEF NextActivation, Records
  <2>3. current.sequence \in Nat
    BY <2>2, RecordFacts
  <2>4. ControlTypeOK'
    BY <1>1, <2>1, <2>2 DEF IInv, ControlTypeOK
  <2>5. FilesInv'
    BY <1>1, <1>2, <2>1, <2>2, <2>3
    DEF FilesInv, EverySound, EveryAgrees, SomeFirm, Doubled, Firm, InFlight, Writing, Agree,
        Sound, Other
  <2>6. CurrentInv'
    BY <1>1, <1>2, <2>1, <2>2, <2>3 DEF CurrentInv, Agree, Sound
  <2>7. /\ ClosedInv' /\ UnrepairedInv' /\ SettledInv' /\ LoopInv' /\ RepairInv' /\ PublishInv'
    BY <1>1, <1>2, <2>1, <2>2
    DEF IInv, ClosedInv, UnrepairedInv, SettledInv, LoopInv, RepairInv, PublishInv, Writing
  <2> QED BY <2>4, <2>5, <2>6, <2>7 DEF IInv
<1>4. CASE next # current
  <2>1. /\ task' = "publish" /\ record' = next /\ at' = 0 /\ step' = "write"
        /\ committed' = committed
    BY <1>4 DEF PublishRecord
  <2>2. /\ next \in Records
        /\ current \in Records => next.sequence = current.sequence + 1
    <3>1. CASE current = Blank
      BY <3>1, RecordFacts, IdentityAssumption DEF NextActivation, Records
    <3>2. CASE current \in Records
      <4>1. current = [sequence |-> current.sequence, identity |-> current.identity]
        BY <3>2 DEF Records
      <4>2. current.identity # identity
        BY <1>4, <4>1, <3>2, RecordFacts DEF NextActivation
      <4>3. current.sequence \in 1 .. MaxSequence /\ current.sequence < MaxSequence
        BY <1>1, <3>2, <4>2, RecordFacts DEF MayFollow, Records
      <4> QED
        BY <3>2, <4>2, <4>3, RecordFacts, IdentityAssumption DEF NextActivation, Records
    <3> QED BY <1>1, <3>1, <3>2
  <2> HIDE DEF next
  <2>3. ControlTypeOK'
    BY <1>1, <2>1, <2>2 DEF IInv, ControlTypeOK
  <2>4. FilesInv'
    BY <1>1, <2>1
    DEF IInv, FilesInv, EverySound, EveryAgrees, SomeFirm, Doubled, Firm, InFlight, Writing, Sound
  <2>5. CurrentInv'
    BY <1>1, <2>1 DEF IInv, CurrentInv, Sound
  <2>6. /\ ClosedInv' /\ UnrepairedInv' /\ SettledInv' /\ LoopInv' /\ RepairInv' /\ PublishInv'
    BY <1>1, <1>2, <2>1, <2>2, RecordFacts
    DEF IInv, ClosedInv, UnrepairedInv, SettledInv, LoopInv, RepairInv, PublishInv, Writing
  <2> QED BY <2>3, <2>4, <2>5, <2>6 DEF IInv
<1> QED BY <1>3, <1>4

\* A power loss leaves each file with something it had, or torn if it was being
\* written; the firm replica was not.
LEMMA PowerKeeps == IInv /\ LosePower => IInv'
<1> SUFFICES ASSUME IInv, LosePower PROVE IInv'
  OBVIOUS
<1> USE DEF Replicas
<1>1. PICK a \in Outcomes(0), b \in Outcomes(1) :
        disk' = [r \in Replicas |-> IF r = 0 THEN a ELSE b]
  BY DEF LosePower
<1>2. /\ cache' = disk' /\ disk'[0] = a /\ disk'[1] = b
      /\ a \in {cache[0], disk[0], Torn} /\ b \in {cache[1], disk[1], Torn}
      /\ InFlight(0) \/ a \in {cache[0], disk[0]}
      /\ InFlight(1) \/ b \in {cache[1], disk[1]}
  BY <1>1 DEF LosePower, Outcomes
<1>3. /\ mode' = "closed" /\ current' = Blank /\ repaired' = FALSE /\ committed' = committed
      /\ seen' = [r \in Replicas |-> Blank]
      /\ task' = "none" /\ record' = Blank /\ at' = 0 /\ step' = "write"
  BY DEF LosePower, GiveUp
<1>4. ControlTypeOK'
  BY <1>1, <1>2, <1>3 DEF IInv, ControlTypeOK, Content
<1>5. FilesInv'
  <2> SUFFICES ASSUME committed # Blank
               PROVE  EverySound' /\ EveryAgrees' /\ SomeFirm' /\ Doubled'
    BY <1>3 DEF FilesInv
  <2>1. EverySound /\ EveryAgrees /\ SomeFirm
    BY DEF IInv, FilesInv
  <2>2. EverySound'
    BY <1>2, <1>3, <2>1, RecordFacts DEF EverySound, Sound
  <2>3. EveryAgrees'
    BY <1>2, <2>1, RecordFacts DEF EveryAgrees, Agree
  <2>4. SomeFirm'
    BY <1>2, <1>3, <2>1 DEF SomeFirm, Firm, InFlight, Writing
  <2>5. Doubled'
    BY <1>2 DEF Doubled
  <2> QED BY <2>2, <2>3, <2>4, <2>5
<1>6. /\ CurrentInv' /\ ClosedInv' /\ UnrepairedInv' /\ SettledInv' /\ LoopInv'
      /\ RepairInv' /\ PublishInv'
  BY <1>3 DEF CurrentInv, ClosedInv, UnrepairedInv, SettledInv, LoopInv, RepairInv, PublishInv,
              Writing
<1> QED BY <1>4, <1>5, <1>6 DEF IInv

\* Every step of the controls keeps it.
LEMMA InvariantStep == IInv /\ [ControlNext]_controls => IInv'
<1> SUFFICES ASSUME IInv, [ControlNext]_controls PROVE IInv'
  OBVIOUS
<1>1. CASE UNCHANGED controls
  <2>1. UNCHANGED <<cache, disk, mode, current, seen, repaired, task, record, at, step, committed>>
    BY <1>1 DEF controls, files, loop, pair
  <2>2. ControlTypeOK' /\ FilesInv'
    BY <2>1 DEF IInv, ControlTypeOK, FilesInv, EverySound, EveryAgrees, SomeFirm, Doubled, Firm,
                InFlight, Writing, Sound
  <2> QED
    BY <2>1, <2>2 DEF IInv, CurrentInv, ClosedInv, UnrepairedInv, SettledInv, LoopInv, RepairInv,
                      PublishInv, Writing, Sound
<1>2. CASE OpenControls
  BY <1>2, OpenKeeps
<1>3. CASE PrepareControls
  BY <1>3, PrepareKeeps
<1>4. CASE LoopStep
  BY <1>4, WriteKeeps, TruncateKeeps, FlushKeeps, SkipKeeps, SettleKeeps DEF LoopStep
<1>5. CASE CloseControls
  BY <1>5, CloseKeeps
<1>6. CASE \E identity \in Identities : PublishRecord(identity)
  BY <1>6, PublishKeeps
<1>7. CASE ControlsLost
  BY <1>7, LostKeeps
<1>8. CASE LosePower
  BY <1>8, PowerKeeps
<1> QED
  BY <1>1, <1>2, <1>3, <1>4, <1>5, <1>6, <1>7, <1>8 DEF ControlNext

-----------------------------------------------------------------------------
\* The state of the pair is always one its code can handle: a loop only ever
\* writes records, at one of the two replicas.
THEOREM ControlsTyped == ControlSpec => []ControlTypeOK
<1>1. ControlSpec => []IInv
  BY InvariantInit, InvariantStep, PTL DEF ControlSpec
<1>2. IInv => ControlTypeOK
  BY DEF IInv
<1> QED BY <1>1, <1>2, PTL

\* However often the process dies and the power goes, at whatever point of a
\* publication or of a repair, the next open accepts the two files and selects
\* the record of the last publish that returned, or a later one.
THEOREM PublishedRecordSurvives == ControlSpec => []PublishedSurvives
<1>1. ControlSpec => []IInv
  BY InvariantInit, InvariantStep, PTL DEF ControlSpec
<1> QED BY <1>1, InvariantKeepsPublished, PTL

=============================================================================
