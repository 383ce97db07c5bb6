--------------------------- MODULE OverlayProofs ---------------------------
(***************************************************************************)
(* Overlay uses the pair of activation records only as ActivationControls  *)
(* says, so what is proved of the pair holds of the overlay, for any       *)
(* number of slots, transactions, attempts and faults.                     *)
(***************************************************************************)
EXTENDS Overlay, ActivationControlsProofs, FiniteSetTheorems

\* A seal that may verify was made by one of the attempts so far.
SealBounded(x) ==
  /\ x.id \in Int /\ x.generation \in Nat /\ x.source \in Int
  /\ x.id > 0 => x.id \in 2 .. attempts + 1 /\ x.generation \in 1 .. attempts
SealsInv ==
  /\ DOMAIN scache = Slots /\ DOMAIN sdisk = Slots
  /\ \A s \in Slots : SealBounded(scache[s]) /\ SealBounded(sdisk[s])
\* The selected generation is the legacy journal or was made by an attempt.
Selection == [slot : Places, generation : Nat, id : Int, source : Int,
              known : [Slots -> Int], reusable : SUBSET [generation : Int, slot : Slots]]
SelInv ==
  /\ sel \in Selection
  /\ sel.slot = Legacy => sel.generation = 0
  /\ sel.slot \in Slots => sel.id \in 2 .. attempts + 1 /\ sel.generation \in 1 .. attempts
\* The slot being written is one, and the attempt that writes it is counted.
StageInv ==
  /\ pc \in {"compact", "stage", "convert"} => target \in Slots
  /\ pc = "compact" => attempts < MaxAttempts
  /\ Staging => sel.generation < attempts
OInv == attempts \in 0 .. MaxAttempts /\ SealsInv /\ SelInv /\ StageInv

-----------------------------------------------------------------------------
(* Least and greatest slots.                                               *)

\* A family of finite sets has a member none of the others is strictly inside.
LEMMA SmallestMember ==
  ASSUME NEW F, F # {}, \A A \in F : A \in SUBSET Int /\ IsFiniteSet(A)
  PROVE  \E A \in F : \A B \in F : B \subseteq A => B = A
<1>1. IsWellFoundedOn(StrictSubsetOrdering(Int), FiniteSubsetsOf(Int))
  BY FS_StrictSubsetOrderingWellFounded
<1>2. F \subseteq FiniteSubsetsOf(Int)
  BY DEF FiniteSubsetsOf
<1>3. PICK A \in F : \A B \in F : ~(<<B, A>> \in StrictSubsetOrdering(Int))
  BY <1>1, <1>2, WFMin
<1> QED BY <1>3 DEF StrictSubsetOrdering

\* A set of naturals has the least element that Min chooses.
LEMMA LeastExists ==
  ASSUME NEW S \in SUBSET Nat, S # {}
  PROVE  Min(S) \in S
<1> DEFINE F == {0 .. x : x \in S}
<1>1. F # {} /\ \A A \in F : A \in SUBSET Int /\ IsFiniteSet(A)
  <2>1. F # {}
    <3>1. PICK z \in S : TRUE
      OBVIOUS
    <3>2. 0 .. z \in F
      BY <3>1
    <3> QED BY <3>2
  <2>2. ASSUME NEW A \in F PROVE A \in SUBSET Int /\ IsFiniteSet(A)
    <3>1. PICK z \in S : A = 0 .. z
      OBVIOUS
    <3>2. IsFiniteSet(0 .. z)
      BY FS_Interval
    <3> QED BY <3>1, <3>2
  <2> QED BY <2>1, <2>2
<1>2. PICK A \in F : \A B \in F : B \subseteq A => B = A
  <2> HIDE DEF F
  <2> QED BY <1>1, SmallestMember
<1>3. PICK x \in S : A = 0 .. x
  OBVIOUS
<1>4. \A y \in S : x <= y
  <2> SUFFICES ASSUME NEW y \in S, y < x PROVE FALSE
    OBVIOUS
  <2>1. 0 .. y \subseteq A /\ 0 .. y # A
    <3>1. x \in A /\ ~(x \in 0 .. y)
      BY <1>3
    <3> QED BY <1>3, <3>1
  <2> QED BY <1>2, <2>1
<1> QED BY <1>4 DEF Min

\* A bounded one has the greatest element that Max chooses.
LEMMA GreatestExists ==
  ASSUME NEW n \in Nat, NEW S \in SUBSET (0 .. n), S # {}
  PROVE  Max(S) \in S
<1> DEFINE F == {x .. n : x \in S}
<1>1. F # {} /\ \A A \in F : A \in SUBSET Int /\ IsFiniteSet(A)
  <2>1. F # {}
    <3>1. PICK z \in S : TRUE
      OBVIOUS
    <3>2. z .. n \in F
      BY <3>1
    <3> QED BY <3>2
  <2>2. ASSUME NEW A \in F PROVE A \in SUBSET Int /\ IsFiniteSet(A)
    <3>1. PICK z \in S : A = z .. n
      OBVIOUS
    <3>2. IsFiniteSet(z .. n)
      BY FS_Interval
    <3> QED BY <3>1, <3>2
  <2> QED BY <2>1, <2>2
<1>2. PICK A \in F : \A B \in F : B \subseteq A => B = A
  <2> HIDE DEF F
  <2> QED BY <1>1, SmallestMember
<1>3. PICK x \in S : A = x .. n
  OBVIOUS
<1>4. \A y \in S : x >= y
  <2> SUFFICES ASSUME NEW y \in S, y > x PROVE FALSE
    OBVIOUS
  <2>1. y .. n \subseteq A /\ y .. n # A
    <3>1. x \in A /\ ~(x \in y .. n)
      BY <1>3
    <3> QED BY <1>3, <3>1
  <2> QED BY <1>2, <2>1
<1> QED BY <1>4 DEF Max

-----------------------------------------------------------------------------
(* What the invariant says of the values the actions use.                  *)

\* The parts of the selection have their types.
LEMMA SelectionFacts ==
  ASSUME OInv
  PROVE  /\ sel.slot \in Int /\ sel.source \in Int /\ sel.generation \in Nat
         /\ sel.generation <= attempts /\ attempts \in Nat
         /\ sel.known \in [Slots -> Int] /\ sel.reusable \in SUBSET [generation : Int, slot : Slots]
BY SlotAssumption, BoundAssumption DEF OInv, SelInv, Selection, Places, Slots, Legacy

\* What is published names the legacy journal or a generation of an attempt.
LEMMA SelectedIsIdentity == OInv => SelectedIdentity \in Identities
<1> SUFFICES ASSUME OInv PROVE SelectedIdentity \in Identities
  OBVIOUS
<1>1. CASE sel.slot = Legacy
  BY <1>1, IdentitySpace DEF SelectedIdentity
<1>2. CASE sel.slot \in Slots
  <2>1. sel.id \in 2 .. MaxAttempts + 1 /\ sel.generation \in 1 .. MaxAttempts
    BY <1>2, BoundAssumption DEF OInv, SelInv
  <2>2. sel.slot # Legacy
    BY <1>2, SlotAssumption DEF Slots, Legacy
  <2> QED BY <1>2, <2>1, <2>2, IdentitySpace DEF SelectedIdentity
<1> QED BY <1>1, <1>2 DEF OInv, SelInv, Selection, Places

\* There is always a slot to compact into: of the three of the ring at most two
\* are the active one and its predecessor.
LEMMA CompactionTargetIsSlot == OInv => CompactionTarget \in Slots /\ MayStage(CompactionTarget)
<1> SUFFICES ASSUME OInv PROVE CompactionTarget \in Slots /\ MayStage(CompactionTarget)
  OBVIOUS
<1>1. CASE Reusable # {}
  <2>1. Reusable \in SUBSET (0 .. MaxSlot)
    BY SelectionFacts DEF Reusable, Slots
  <2>2. Max(Reusable) \in Reusable
    BY <1>1, <2>1, SlotAssumption, GreatestExists
  <2>3. MayStage(Max(Reusable))
    BY <2>2 DEF Reusable
  <2> QED BY <1>1, <2>1, <2>2, <2>3 DEF CompactionTarget, Slots
<1>2. CASE Reusable = {}
  <2> DEFINE offsets == {offset \in 1 .. Ring : MayStage(RingSlot(offset))}
             base == IF sel.slot < Ring THEN sel.slot ELSE -1
  <2>1. base \in {-1, 0, 1, 2}
    BY SelectionFacts, SlotAssumption DEF OInv, SelInv, Selection, Places, Slots, Legacy, Ring
  <2>2. \A offset \in {1, 2, 3} : RingSlot(offset) = (base + offset) % 3
    BY DEF RingSlot, Ring
  <2>3. /\ RingSlot(1) \in 0 .. 2 /\ RingSlot(2) \in 0 .. 2 /\ RingSlot(3) \in 0 .. 2
        /\ RingSlot(1) # RingSlot(2) /\ RingSlot(1) # RingSlot(3) /\ RingSlot(2) # RingSlot(3)
    <3> HIDE DEF base
    <3> QED BY <2>1, <2>2
  <2>4. PICK offset \in {1, 2, 3} : MayStage(RingSlot(offset))
    BY <2>3 DEF MayStage
  <2>5. offsets # {} /\ offsets \in SUBSET Nat
    <3>1. offset \in offsets
      BY <2>4 DEF Ring
    <3> QED BY <3>1
  <2>6. Min(offsets) \in 1 .. 3 /\ MayStage(RingSlot(Min(offsets)))
    <3>1. Min(offsets) \in offsets
      <4> HIDE DEF offsets
      <4> QED BY <2>5, LeastExists
    <3> QED BY <3>1 DEF Ring
  <2>7. RingSlot(Min(offsets)) \in 0 .. 2
    <3> HIDE DEF offsets
    <3>1. Min(offsets) = 1 \/ Min(offsets) = 2 \/ Min(offsets) = 3
      BY <2>6
    <3> QED BY <2>3, <3>1
  <2>8. CompactionTarget = RingSlot(Min(offsets))
    BY <1>2 DEF CompactionTarget
  <2> HIDE DEF offsets
  <2> QED BY <2>6, <2>7, <2>8, SlotAssumption DEF Slots
<1> QED BY <1>1, <1>2

\* A conversion that finds a target writes to a slot.
LEMMA ConversionTargetIsSlot ==
  OInv /\ ConversionTargets # {} =>
    Min(ConversionTargets) \in Slots /\ Min(ConversionTargets) \in ConversionTargets
<1> SUFFICES ASSUME OInv, ConversionTargets # {}
             PROVE  Min(ConversionTargets) \in Slots /\ Min(ConversionTargets) \in ConversionTargets
  OBVIOUS
<1>1. ConversionTargets \in SUBSET Slots
  BY SelectionFacts DEF ConversionTargets, Reusable
<1>2. ConversionTargets \in SUBSET Nat
  BY <1>1, SlotAssumption DEF Slots
<1>3. Min(ConversionTargets) \in ConversionTargets
  BY <1>2, LeastExists
<1> QED BY <1>1, <1>3

-----------------------------------------------------------------------------
(* The invariant.                                                          *)

\* An empty computer, with no attempt yet.
LEMMA OverlayInit == Init => OInv
<1> SUFFICES ASSUME Init PROVE OInv
  OBVIOUS
<1>1. /\ scache = [s \in Slots |-> NoSeal] /\ sdisk = scache /\ sel = NoSelection
      /\ pc = "down" /\ attempts = 0
  BY DEF Init
<1>2. SealsInv
  BY <1>1 DEF SealsInv, SealBounded, NoSeal, NoSlot
<1>3. SelInv
  BY <1>1, SlotAssumption DEF SelInv, Selection, NoSelection, NoSlot, Places, Legacy, Slots
<1> QED BY <1>1, <1>2, <1>3, BoundAssumption DEF OInv, StageInv, Staging

\* The actions that neither touch a seal nor select, nor start a generation.
LEMMA Frame ==
  ASSUME OInv, UNCHANGED <<scache, sdisk, sel, attempts>>,
         pc' \in {"compact", "stage", "convert"} => pc' = pc /\ target' = target
  PROVE  OInv'
BY DEF OInv, SealsInv, SealBounded, SelInv, StageInv, Staging

\* A seal that is written in place: emptied, torn, or copied from the other
\* content of its file.
LEMMA SealsKept ==
  ASSUME SealsInv, DOMAIN scache' = Slots, DOMAIN sdisk' = Slots, attempts' = attempts,
         \A s \in Slots : /\ scache'[s] \in {scache[s], sdisk[s], NoSeal, TornSeal}
                          /\ sdisk'[s] \in {scache[s], sdisk[s], NoSeal, TornSeal}
  PROVE  SealsInv'
<1>1. /\ \A s \in Slots : SealBounded(scache[s]) /\ SealBounded(sdisk[s])
      /\ SealBounded(NoSeal) /\ SealBounded(TornSeal)
  BY DEF SealsInv, SealBounded, NoSeal, TornSeal, NoSlot
<1>2. \A s \in Slots : SealBounded(scache'[s]) /\ SealBounded(sdisk'[s])
  BY <1>1
<1> QED BY <1>2 DEF SealsInv, SealBounded

\* A boot selects the legacy journal or a slot whose seal verifies.
LEMMA ScanKeeps == OInv /\ Scan => OInv'
<1> SUFFICES ASSUME OInv, Scan PROVE OInv'
  OBVIOUS
<1> DEFINE s == IF Anchored THEN current.identity.slot ELSE Legacy
<1>1. /\ UNCHANGED <<scache, sdisk, target, attempts>>
      /\ pc' \in {"refused", "enable", "anchor"}
  BY DEF Scan, slots
<1>2. SealsInv'
  BY <1>1 DEF OInv, SealsInv, SealBounded
<1>3. SelInv'
  <2>1. Anchored => s \in Slots /\ scache[s].id > 0 /\ SealBounded(scache[s])
    BY DEF Anchored, Found, Verified, OInv, SealsInv
  <2>2. /\ \A t \in Slots : scache[t].generation \in Nat
        /\ \A g : Unpublished(s, g) \in SUBSET [generation : Int, slot : Slots]
    BY DEF OInv, SealsInv, SealBounded, Unpublished, Found
  <2>3. /\ sel'.slot = s
        /\ sel'.generation = IF Anchored THEN scache[s].generation ELSE 0
        /\ sel'.id = IF Anchored THEN scache[s].id ELSE 0
        /\ sel'.source = IF Anchored THEN scache[s].source ELSE NoSlot
    BY DEF Scan
  <2>4. sel' \in Selection
    BY <2>1, <2>2 DEF Scan, Selection, SealBounded, Places, NoSlot
  <2>5. ~Anchored => s = Legacy
    OBVIOUS
  <2>6. Legacy \notin Slots
    BY SlotAssumption DEF Slots, Legacy
  <2> HIDE DEF s
  <2> QED BY <1>1, <2>1, <2>3, <2>4, <2>5, <2>6 DEF SelInv, SealBounded
<1> QED BY <1>1, <1>2, <1>3 DEF OInv, StageInv, Staging

\* A retirement only takes seals away.
LEMMA RetireKeeps == OInv /\ (RetireSeal \/ RetireFiles) => OInv'
<1> SUFFICES ASSUME OInv, RetireSeal \/ RetireFiles PROVE OInv'
  OBVIOUS
<1>1. /\ UNCHANGED <<target, attempts, pc>> /\ pc \in {"collect", "cleanup"}
  BY DEF RetireSeal, RetireFiles, host
<1>2. SealsInv'
  BY <1>1, SealsKept DEF RetireSeal, RetireFiles, OInv, SealsInv
<1>3. SelInv'
  BY <1>1 DEF RetireSeal, RetireFiles, OInv, SelInv, Selection, host
<1> QED BY <1>1, <1>2, <1>3 DEF OInv, StageInv, Staging

\* A generation begins: its attempt is counted and its slot is chosen.
LEMMA BeginKeeps == OInv /\ (CompactOpen \/ CompactBegin \/ ConvertBegin) => OInv'
<1> SUFFICES ASSUME OInv, CompactOpen \/ CompactBegin \/ ConvertBegin PROVE OInv'
  OBVIOUS
<1>1. CASE CompactOpen
  <2>1. /\ UNCHANGED <<scache, sdisk, sel, attempts>> /\ target' \in Slots /\ pc' = "compact"
        /\ attempts < MaxAttempts
    BY <1>1, CompactionTargetIsSlot DEF CompactOpen, slots
  <2> QED BY <2>1 DEF OInv, SealsInv, SealBounded, SelInv, StageInv, Staging
<1>2. CASE CompactBegin \/ ConvertBegin
  <2>1. /\ UNCHANGED <<scache, sdisk>> /\ attempts' = attempts + 1 /\ target' \in Slots
        /\ pc' \in {"stage", "convert"} /\ attempts < MaxAttempts
    BY <1>2, ConversionTargetIsSlot DEF CompactBegin, ConvertBegin, Begin, OInv, StageInv
  <2>2. /\ sel' \in Selection /\ sel'.slot = sel.slot /\ sel'.generation = sel.generation
        /\ sel'.id = sel.id
    BY <1>2, <2>1 DEF CompactBegin, ConvertBegin, OInv, SelInv, Selection
  <2>3. attempts \in Nat /\ sel.generation \in Nat /\ sel.generation <= attempts
    BY SelectionFacts
  <2>4. SealsInv'
    BY <2>1, <2>3 DEF OInv, SealsInv, SealBounded
  <2>5. SelInv'
    BY <2>1, <2>2, <2>3 DEF OInv, SelInv
  <2>6. attempts' \in 0 .. MaxAttempts
    BY <2>1, <2>3, BoundAssumption
  <2> QED BY <2>1, <2>2, <2>3, <2>4, <2>5, <2>6 DEF OInv, StageInv, Staging
<1> QED BY <1>1, <1>2

\* The new generation is written: its seal names the attempt.
LEMMA StageKeeps ==
  OInv /\ (StageInvalidate \/ StageFlushSeal \/ StageSeal) => OInv'
<1> SUFFICES ASSUME OInv, StageInvalidate \/ StageFlushSeal \/ StageSeal PROVE OInv'
  OBVIOUS
<1>1. UNCHANGED <<sel, target, attempts, pc>> /\ Staging
  BY DEF StageInvalidate, StageFlushSeal, StageSeal, Staged
<1>2. target \in Slots /\ SealsInv
  BY <1>1 DEF OInv, StageInv, Staging
<1>3. SealsInv'
  <2>1. CASE StageInvalidate \/ StageFlushSeal \/ (StageSeal /\ stage = 6)
    BY <1>1, <1>2, <2>1, SealsKept DEF StageInvalidate, StageFlushSeal, StageSeal, SealsInv
  <2>2. CASE StageSeal /\ stage # 6
    <3>1. scache' = [scache EXCEPT ![target] = NewSeal] /\ sdisk' = sdisk
      BY <2>2 DEF StageSeal
    <3>2. SealBounded(NewSeal)
      BY <1>1, SelectionFacts DEF OInv, StageInv, SealBounded, NewSeal, NewId, LegacyId
    <3>3. /\ DOMAIN scache' = Slots /\ DOMAIN sdisk' = Slots
          /\ \A s \in Slots : scache'[s] \in {scache[s], NewSeal} /\ sdisk'[s] = sdisk[s]
      BY <1>2, <3>1 DEF SealsInv
    <3>4. \A s \in Slots : SealBounded(scache'[s]) /\ SealBounded(sdisk'[s])
      BY <1>2, <3>2, <3>3 DEF SealsInv
    <3> QED BY <1>1, <3>3, <3>4 DEF SealsInv, SealBounded
  <2> QED BY <2>1, <2>2
<1> QED BY <1>1, <1>3 DEF OInv, SelInv, StageInv, Staging

\* The new selection is the attempt's own.
LEMMA ActivateKeeps == OInv /\ Activate => OInv'
<1> SUFFICES ASSUME OInv, Activate PROVE OInv'
  OBVIOUS
<1>1. /\ UNCHANGED <<scache, sdisk, attempts>> /\ sel' = NewSelection
      /\ pc' \in {"publish", "confirm"} /\ target \in Slots /\ sel.generation < attempts
  BY DEF Activate, slots, OInv, StageInv, Staging
<1>2. SealsInv'
  BY <1>1 DEF OInv, SealsInv, SealBounded
<1>3. SelInv'
  <2>1. NewSelection \in Selection
    BY <1>1, SelectionFacts DEF NewSelection, NewId, LegacyId, Selection, Places
  <2>2. /\ NewSelection.slot = target /\ NewSelection.generation = sel.generation + 1
        /\ NewSelection.id = attempts + 1
    BY DEF NewSelection, NewId, LegacyId
  <2>3. target # Legacy
    BY <1>1, SlotAssumption DEF Slots, Legacy
  <2> QED BY <1>1, <2>1, <2>2, <2>3, SelectionFacts DEF SelInv
<1> QED BY <1>1, <1>2, <1>3 DEF OInv, StageInv, Staging

\* A failure or a crash empties, tears or rolls back seals.
LEMMA FailureKeeps ==
  OInv /\ (CompactFails \/ StageFails \/ ConvertFails \/ ProcessDies \/ PowerFails) => OInv'
<1> SUFFICES ASSUME OInv,
                    CompactFails \/ StageFails \/ ConvertFails \/ ProcessDies \/ PowerFails
             PROVE  OInv'
  OBVIOUS
<1>1. attempts' = attempts /\ pc' \in {"up", "confirm", "down"}
  BY DEF CompactFails, StageFails, ConvertFails, ProcessDies, PowerFails, Stopped
<1>2. SealsInv
  BY DEF OInv
<1>3. SealsInv'
  <2>1. CASE CompactFails \/ ProcessDies
    BY <1>1, <1>2, <2>1, SealsKept DEF CompactFails, ProcessDies, slots, SealsInv
  <2>2. CASE StageFails \/ ConvertFails
    BY <1>1, <1>2, <2>2, SealsKept DEF StageFails, ConvertFails, SealDiscarded, SealKept, SealsInv
  <2>3. CASE PowerFails
    BY <1>1, <1>2, <2>3, SealsKept DEF PowerFails, SealsInv
  <2> QED BY <2>1, <2>2, <2>3
<1>4. SelInv'
  <2>1. CASE CompactFails \/ StageFails \/ ConvertFails
    BY <1>1, <2>1 DEF CompactFails, StageFails, ConvertFails, OInv, SelInv
  <2>2. CASE ProcessDies \/ PowerFails
    <3>1. sel' = NoSelection
      BY <2>2 DEF ProcessDies, PowerFails, Stopped
    <3> QED
      BY <3>1, SlotAssumption DEF SelInv, Selection, NoSelection, NoSlot, Places, Legacy, Slots
  <2> QED BY <2>1, <2>2
<1> QED BY <1>1, <1>3, <1>4 DEF OInv, StageInv, Staging

\* Every step keeps the invariant.
LEMMA OverlayStep == OInv /\ [Next]_vars => OInv'
<1> SUFFICES ASSUME OInv, [Next]_vars PROVE OInv'
  OBVIOUS
<1>1. CASE UNCHANGED vars
  BY <1>1, Frame DEF vars, slots, host
<1>2. CASE CommitWrite \/ FlushJournal \/ CommitFails \/ BootOpen \/ Anchor \/ AnchorDone
  BY <1>2, Frame
  DEF CommitWrite, FlushJournal, CommitFails, BootOpen, Anchor, AnchorDone, slots, host
<1>3. CASE Enable \/ Confirm \/ ConfirmDone \/ RetireFails \/ BootDone
  BY <1>3, Frame DEF Enable, Confirm, ConfirmDone, RetireFails, BootDone, slots, host
<1>4. CASE CompactPrepare \/ StageTruncate \/ StagePrepare \/ StageFlushJournal
  BY <1>4, Frame
  DEF CompactPrepare, StageTruncate, StagePrepare, StageFlushJournal, Staged, slots, host
<1>5. CASE Publish \/ PublishDone \/ CleanupDone \/ LegacyRetireFails \/ ControlStep \/ PublishFails
  BY <1>5, Frame
  DEF Publish, PublishDone, CleanupDone, LegacyRetireFails, ControlStep, PublishFails, slots, host
<1>6. CASE Scan
  BY <1>6, ScanKeeps
<1>7. CASE RetireSeal \/ RetireFiles
  BY <1>7, RetireKeeps
<1>8. CASE CompactOpen \/ CompactBegin \/ ConvertBegin
  BY <1>8, BeginKeeps
<1>9. CASE StageInvalidate \/ StageFlushSeal \/ StageSeal
  BY <1>9, StageKeeps
<1>10. CASE Activate
  BY <1>10, ActivateKeeps
<1>11. CASE CompactFails \/ StageFails \/ ConvertFails \/ ProcessDies \/ PowerFails
  BY <1>11, FailureKeeps
<1> QED
  BY <1>1, <1>2, <1>3, <1>4, <1>5, <1>6, <1>7, <1>8, <1>9, <1>10, <1>11 DEF Next

-----------------------------------------------------------------------------
(* The overlay and the pair of records.                                    *)

\* Every step of the overlay is one of the pair, or leaves it alone.
LEMMA StepControls == OInv /\ [Next]_vars => [ControlNext]_controls
<1> SUFFICES ASSUME OInv, [Next]_vars PROVE [ControlNext]_controls
  OBVIOUS
<1>1. CASE UNCHANGED controls
  BY <1>1
<1>2. CASE PublishRecord(SelectedIdentity)
  BY <1>2, SelectedIsIdentity DEF ControlNext
<1>3. CASE \/ OpenControls \/ PrepareControls \/ LoopStep \/ CloseControls
           \/ ControlsLost \/ LosePower
  BY <1>3 DEF ControlNext
<1>4. CASE UNCHANGED vars
  BY <1>1, <1>4 DEF vars
<1>5. CASE CommitWrite \/ FlushJournal \/ Scan \/ AnchorDone \/ Enable \/ BootDone
  BY <1>1, <1>5 DEF CommitWrite, FlushJournal, Scan, AnchorDone, Enable, BootDone
<1>6. CASE RetireSeal \/ RetireFiles \/ RetireFails \/ CleanupDone \/ LegacyRetireFails
  BY <1>1, <1>6 DEF RetireSeal, RetireFiles, RetireFails, CleanupDone, LegacyRetireFails
<1>7. CASE CompactBegin \/ ConvertBegin \/ Activate \/ ConvertFails
  BY <1>1, <1>7 DEF CompactBegin, ConvertBegin, Activate, ConvertFails
<1>8. CASE \/ StageInvalidate \/ StageFlushSeal \/ StageTruncate \/ StagePrepare
           \/ StageFlushJournal \/ StageSeal
  BY <1>1, <1>8
  DEF StageInvalidate, StageFlushSeal, StageTruncate, StagePrepare, StageFlushJournal, StageSeal,
      Staged
<1>9. CASE Anchor \/ Confirm \/ Publish
  BY <1>2, <1>3, <1>9 DEF Anchor, Confirm, Publish
<1>10. CASE \/ CommitFails \/ BootOpen \/ ConfirmDone \/ CompactOpen \/ CompactPrepare
            \/ PublishDone \/ ControlStep
  BY <1>3, <1>10
  DEF CommitFails, BootOpen, ConfirmDone, CompactOpen, CompactPrepare, PublishDone, ControlStep
<1>11. CASE CompactFails \/ StageFails \/ PublishFails \/ ProcessDies \/ PowerFails
  BY <1>3, <1>11 DEF CompactFails, StageFails, PublishFails, ProcessDies, PowerFails
<1> QED
  BY <1>4, <1>5, <1>6, <1>7, <1>8, <1>9, <1>10, <1>11 DEF Next

\* The overlay uses the pair of records as OverlayActivationControlPair asks to
\* be used: whatever generation a boot or a compaction publishes, at whatever
\* point it fails, its steps on the two files are those of the pair.
THEOREM OverlayImplementsControls == Spec => ControlSpec
<1>1. Spec => []OInv
  BY OverlayInit, OverlayStep, PTL DEF Spec
<1>2. Init => ControlInit
  BY DEF Init
<1> QED BY <1>1, <1>2, StepControls, PTL DEF Spec, ControlSpec

\* However the boots, compactions, conversions and clean-ups of an overlay are
\* cut short, the record of its last publication that returned, or a later one,
\* is what the next open selects.
THEOREM OverlayPublishedSurvives == Spec => []PublishedSurvives
BY OverlayImplementsControls, PublishedRecordSurvives, PTL

-----------------------------------------------------------------------------
(* Types.                                                                  *)

\* A journal holds transactions that were begun, under the id of an attempt.
Journals == [id : Nat, txs : Seq(Nat)]
JournalBounded(j, tries, next) == j \in Journals /\ j.id <= tries + 1 /\ Len(j.txs) < next
JournalsInv ==
  /\ DOMAIN jcache = Places /\ DOMAIN jdisk = Places
  /\ \A p \in Places : /\ JournalBounded(jcache[p], attempts, nextTx)
                       /\ JournalBounded(jdisk[p], attempts, nextTx)
\* What a seal says of the journal it was made for.
Sealed(x) == x.sealed \in Seq(Nat) /\ x.generation \in 0 .. MaxAttempts
SealedInv ==
  /\ DOMAIN scache = Slots /\ DOMAIN sdisk = Slots
  /\ \A s \in Slots : Sealed(scache[s]) /\ Sealed(sdisk[s])
HostInv ==
  /\ present \subseteq Slots /\ todo \subseteq Slots
  /\ sel.known \in [Slots -> -1 .. MaxAttempts]
  /\ target \in Slots \cup {NoSlot} /\ stage \in 0 .. 9
GuestsInv == dirty \in BOOLEAN /\ synced \in 0 .. MaxTx /\ nextTx \in 1 .. MaxTx + 1
FaultsInv == faults \in 0 .. MaxFaults
TInv == JournalsInv /\ SealedInv /\ HostInv /\ GuestsInv /\ FaultsInv

\* An empty computer has no journal and no seal.
LEMMA TypedInit == Init => TInv
<1> SUFFICES ASSUME Init PROVE TInv
  OBVIOUS
<1>0. <<>> \in Seq(Nat) /\ Len(<<>>) = 0
  OBVIOUS
<1>1. /\ jcache = [p \in Places |-> NoJournal] /\ jdisk = jcache /\ nextTx = 1 /\ attempts = 0
      /\ scache = [s \in Slots |-> NoSeal] /\ sdisk = scache
  BY DEF Init
<1>2. JournalBounded(NoJournal, 0, 1)
  <2>1. NoJournal \in Journals /\ NoJournal.id = 0 /\ NoJournal.txs = <<>>
    BY <1>0 DEF Journals, NoJournal
  <2> QED BY <1>0, <2>1 DEF JournalBounded
<1>3. JournalsInv
  <2> HIDE DEF NoJournal
  <2> QED BY <1>1, <1>2 DEF JournalsInv
<1>4. SealedInv
  <2>1. NoSeal.sealed = <<>> /\ NoSeal.generation = 0
    BY DEF NoSeal
  <2>2. Sealed(NoSeal)
    BY <1>0, <2>1, BoundAssumption DEF Sealed
  <2> HIDE DEF NoSeal
  <2> QED BY <1>1, <2>2 DEF SealedInv
<1>5. HostInv
  <2>1. /\ sel.known = [s \in Slots |-> -1] /\ present = {} /\ todo = {}
        /\ target = NoSlot /\ stage = 0
    BY DEF Init, NoSelection
  <2> QED BY <2>1, BoundAssumption DEF HostInv
<1>6. GuestsInv /\ FaultsInv
  <2>1. dirty = FALSE /\ synced = 0 /\ nextTx = 1 /\ faults = 0
    BY DEF Init
  <2>2. dirty \in BOOLEAN
    BY <2>1
  <2>3. synced \in 0 .. MaxTx /\ nextTx \in 1 .. MaxTx + 1 /\ faults \in 0 .. MaxFaults
    BY <2>1, BoundAssumption
  <2> QED BY <2>2, <2>3 DEF GuestsInv, FaultsInv
<1> QED BY <1>3, <1>4, <1>5, <1>6 DEF TInv

\* A journal that is emptied, or copied from the other content of its file.
LEMMA JournalsKept ==
  ASSUME JournalsInv, DOMAIN jcache' = Places, DOMAIN jdisk' = Places,
         attempts \in Nat, attempts' \in Nat, attempts' >= attempts, nextTx' = nextTx, nextTx \in Nat \ {0},
         \A p \in Places : /\ jcache'[p] \in {jcache[p], jdisk[p], NoJournal}
                           /\ jdisk'[p] \in {jcache[p], jdisk[p], NoJournal}
  PROVE  JournalsInv'
<1>0. <<>> \in Seq(Nat) /\ Len(<<>>) = 0
  OBVIOUS
<1>1. NoJournal \in Journals /\ NoJournal.id = 0 /\ NoJournal.txs = <<>>
  BY <1>0 DEF Journals, NoJournal
<1>2. ASSUME NEW j, JournalBounded(j, attempts, nextTx) \/ j = NoJournal
      PROVE  JournalBounded(j, attempts', nextTx')
  <2>1. j \in Journals /\ j.id <= attempts + 1 /\ Len(j.txs) < nextTx
    BY <1>0, <1>1, <1>2 DEF JournalBounded
  <2>2. j.id \in Nat
    BY <2>1 DEF Journals
  <2>3. j.id <= attempts' + 1
    BY <2>1, <2>2
  <2> QED BY <2>1, <2>3 DEF JournalBounded
<1>3. \A p \in Places : /\ JournalBounded(jcache'[p], attempts', nextTx')
                         /\ JournalBounded(jdisk'[p], attempts', nextTx')
  BY <1>2 DEF JournalsInv
<1> QED BY <1>3 DEF JournalsInv

\* A seal that is emptied, torn or copied from the other content of its file.
LEMMA SealedKept ==
  ASSUME SealedInv, DOMAIN scache' = Slots, DOMAIN sdisk' = Slots,
         \A s \in Slots : /\ scache'[s] \in {scache[s], sdisk[s], NoSeal, TornSeal}
                          /\ sdisk'[s] \in {scache[s], sdisk[s], NoSeal, TornSeal}
  PROVE  SealedInv'
<1>0. <<>> \in Seq(Nat)
  OBVIOUS
<1>1. /\ NoSeal.sealed = <<>> /\ NoSeal.generation = 0
      /\ TornSeal.sealed = <<>> /\ TornSeal.generation = 0
  BY DEF NoSeal, TornSeal
<1>2. Sealed(NoSeal) /\ Sealed(TornSeal)
  BY <1>0, <1>1, BoundAssumption DEF Sealed
<1>3. \A s \in Slots : Sealed(scache'[s]) /\ Sealed(sdisk'[s])
  BY <1>2 DEF SealedInv
<1> QED BY <1>3 DEF SealedInv

\* A step that writes no journal and no seal of its own.
LEMMA TypesFrame ==
  ASSUME TInv, OInv, UNCHANGED <<jcache, jdisk, scache, sdisk, nextTx>>,
         attempts' \in {attempts, attempts + 1},
         HostInv', GuestsInv', FaultsInv'
  PROVE  TInv'
<1>1. attempts \in Nat /\ nextTx \in Nat \ {0}
  BY SelectionFacts DEF TInv, GuestsInv
<1>2. JournalsInv'
  BY <1>1, JournalsKept DEF TInv, JournalsInv
<1>3. SealedInv'
  BY SealedKept DEF TInv, SealedInv
<1> QED BY <1>2, <1>3 DEF TInv

\* A step of the guests: only their journal changes.
LEMMA GuestsTyped ==
  TInv /\ OInv /\ (CommitWrite \/ FlushJournal \/ CommitFails) => TInv'
<1> SUFFICES ASSUME TInv, OInv, CommitWrite \/ FlushJournal \/ CommitFails PROVE TInv'
  OBVIOUS
<1>1. UNCHANGED <<scache, sdisk, present, sel, target, stage, todo, attempts>>
  BY DEF CommitWrite, FlushJournal, CommitFails, slots, host
<1>2. SealedInv'
  BY <1>1, SealedKept DEF TInv, SealedInv
<1>3. HostInv'
  BY <1>1 DEF TInv, HostInv
<1>4. sel.slot \in Places /\ attempts \in Nat
  BY SelectionFacts DEF OInv, SelInv, Selection
<1>5. /\ JournalBounded(jcache[sel.slot], attempts, nextTx)
      /\ nextTx \in 1 .. MaxTx + 1 /\ MaxTx \in Nat
  BY <1>4, BoundAssumption DEF TInv, JournalsInv, GuestsInv
<1>6. FaultsInv'
  BY BoundAssumption DEF CommitWrite, FlushJournal, CommitFails, TInv, FaultsInv
<1>7. CASE CommitWrite
  <2>1. GuestsInv'
    BY <1>5, <1>7 DEF CommitWrite, TInv, GuestsInv
  <2>2. PICK j : j = jcache[sel.slot]
    OBVIOUS
  <2>3. j \in [id : Nat, txs : Seq(Nat)] /\ j.id <= attempts + 1 /\ Len(j.txs) < nextTx
    BY <1>5, <2>2 DEF JournalBounded, Journals
  <2>4. PICK txs \in Seq(Nat) : txs = Append(j.txs, nextTx)
    <3>1. j.txs \in Seq(Nat) /\ nextTx \in Nat
      BY <1>5, <2>3
    <3>2. Append(j.txs, nextTx) \in Seq(Nat)
      BY <3>1
    <3> QED BY <3>2
  <2>a. PICK new : new = [j EXCEPT !.txs = txs]
    OBVIOUS
  <2>5. new.id = j.id /\ new.txs = txs /\ new \in Journals
    BY <2>3, <2>a DEF Journals
  <2>6. Len(new.txs) = Len(j.txs) + 1 /\ Len(j.txs) \in Nat
    BY <1>5, <2>3, <2>4, <2>5
  <2>7. JournalBounded(new, attempts, nextTx + 1)
    BY <1>5, <2>3, <2>5, <2>6 DEF JournalBounded
  <2>8. ASSUME NEW q, JournalBounded(q, attempts, nextTx) PROVE JournalBounded(q, attempts, nextTx + 1)
    <3>1. q.txs \in Seq(Nat) /\ Len(q.txs) < nextTx
      BY <2>8 DEF JournalBounded, Journals
    <3>2. Len(q.txs) \in Nat
      BY <3>1
    <3>3. Len(q.txs) < nextTx + 1
      BY <1>5, <3>1, <3>2
    <3> QED BY <2>8, <3>3 DEF JournalBounded
  <2>9. jcache' = [jcache EXCEPT ![sel.slot] = new] /\ jdisk' = jdisk /\ nextTx' = nextTx + 1
    BY <1>7, <2>2, <2>4, <2>a DEF CommitWrite
  <2>10. JournalsInv'
    <3>1. DOMAIN jcache' = Places /\ \A p \in Places : jcache'[p] = jcache[p] \/ jcache'[p] = new
      BY <1>4, <2>9 DEF TInv, JournalsInv
    <3> QED BY <1>1, <2>7, <2>8, <2>9, <3>1 DEF TInv, JournalsInv
  <2> QED BY <1>2, <1>3, <1>6, <2>1, <2>10 DEF TInv
<1>8. CASE FlushJournal \/ CommitFails
  <2>1. UNCHANGED <<jcache, nextTx>> /\ jdisk' \in {jdisk, [jdisk EXCEPT ![sel.slot] = jcache[sel.slot]]}
    BY <1>8 DEF FlushJournal, CommitFails, slots
  <2>2. JournalsInv'
    BY <1>1, <1>4, <1>5, <2>1, JournalsKept DEF TInv, JournalsInv
  <2>3. jcache[sel.slot].txs \in Seq(Nat) /\ Len(jcache[sel.slot].txs) < nextTx
    BY <1>5 DEF JournalBounded, Journals
  <2>4. Len(jcache[sel.slot].txs) \in Nat
    BY <2>3
  <2>5. synced' \in {synced, Len(jcache[sel.slot].txs)} /\ dirty' = FALSE
    BY <1>8 DEF FlushJournal, CommitFails, Visible
  <2>6. synced' \in 0 .. MaxTx /\ nextTx' \in 1 .. MaxTx + 1
    BY <1>5, <2>1, <2>3, <2>4, <2>5 DEF TInv, GuestsInv
  <2>7. dirty' \in BOOLEAN
    BY <2>5
  <2>8. GuestsInv'
    BY <2>6, <2>7 DEF GuestsInv
  <2> QED BY <1>2, <1>3, <1>6, <2>2, <2>8 DEF TInv
<1> QED BY <1>7, <1>8

\* The steps that only open, publish, wait or give up: the files of the slots
\* stay as they are.
LEMMA QuietTyped ==
  /\ TInv /\ OInv
  /\ \/ BootOpen \/ Anchor \/ AnchorDone \/ Confirm \/ ConfirmDone \/ RetireFails \/ BootDone
     \/ CompactOpen \/ CompactPrepare \/ Publish \/ PublishDone \/ LegacyRetireFails \/ ControlStep
     \/ CompactFails \/ PublishFails \/ ProcessDies
  => TInv'
<1> SUFFICES ASSUME TInv, OInv,
       \/ BootOpen \/ Anchor \/ AnchorDone \/ Confirm \/ ConfirmDone \/ RetireFails \/ BootDone
       \/ CompactOpen \/ CompactPrepare \/ Publish \/ PublishDone \/ LegacyRetireFails \/ ControlStep
       \/ CompactFails \/ PublishFails \/ ProcessDies
    PROVE TInv'
  OBVIOUS
<1>1. /\ UNCHANGED <<jcache, jdisk, scache, sdisk, present, nextTx, synced, attempts>>
      /\ dirty' = dirty \/ dirty' = FALSE
      /\ sel' = sel \/ sel' = NoSelection
      /\ stage' = stage \/ stage' = 0
      /\ faults' = faults \/ (faults < MaxFaults /\ faults' = faults + 1)
  BY DEF BootOpen, Anchor, AnchorDone, Confirm, ConfirmDone, RetireFails, BootDone, CompactOpen,
         CompactPrepare, Publish, PublishDone, LegacyRetireFails, ControlStep, CompactFails,
         PublishFails, ProcessDies, Stopped, Fault, slots, guests, host
<1>2. target' = target \/ target' = NoSlot \/ target' = CompactionTarget
  BY DEF BootOpen, Anchor, AnchorDone, Confirm, ConfirmDone, RetireFails, BootDone, CompactOpen,
         CompactPrepare, Publish, PublishDone, LegacyRetireFails, ControlStep, CompactFails,
         PublishFails, ProcessDies, Stopped, host
<1>3. todo' = todo \/ todo' = Obsolete(sel) \/ todo' = todo \ {Min(todo)} \/ todo' = {}
  BY DEF BootOpen, Anchor, AnchorDone, Confirm, ConfirmDone, RetireFails, BootDone, CompactOpen,
         CompactPrepare, Publish, PublishDone, LegacyRetireFails, ControlStep, CompactFails,
         PublishFails, ProcessDies, Stopped, host
<1>4. HostInv'
  <2>1. sel'.known \in [Slots -> -1 .. MaxAttempts]
    <3>1. NoSelection.known = [s \in Slots |-> -1]
      BY DEF NoSelection
    <3>2. NoSelection.known \in [Slots -> -1 .. MaxAttempts]
      BY <3>1, BoundAssumption
    <3> QED BY <1>1, <3>2 DEF TInv, HostInv
  <2>2. target' \in Slots \cup {NoSlot}
    BY <1>2, CompactionTargetIsSlot DEF TInv, HostInv
  <2>3. todo' \subseteq Slots
    BY <1>3 DEF TInv, HostInv, Obsolete
  <2>4. stage' \in 0 .. 9 /\ present' \subseteq Slots
    BY <1>1 DEF TInv, HostInv
  <2> QED BY <2>1, <2>2, <2>3, <2>4 DEF HostInv
<1>5. GuestsInv'
  <2>1. dirty' \in BOOLEAN
    BY <1>1 DEF TInv, GuestsInv
  <2> QED BY <1>1, <2>1 DEF TInv, GuestsInv
<1>6. FaultsInv'
  BY <1>1, BoundAssumption DEF TInv, FaultsInv
<1> QED BY <1>1, <1>4, <1>5, <1>6, TypesFrame

\* A boot, or a generation that begins or takes over, records generations that
\* attempts have made.
LEMMA SelectTyped ==
  TInv /\ OInv /\ (Scan \/ CompactBegin \/ ConvertBegin \/ Activate) => TInv'
<1> SUFFICES ASSUME TInv, OInv, Scan \/ CompactBegin \/ ConvertBegin \/ Activate PROVE TInv'
  OBVIOUS
<1>1. /\ UNCHANGED <<jcache, jdisk, scache, sdisk, nextTx, synced, dirty, faults, todo>>
      /\ attempts' \in {attempts, attempts + 1}
  BY DEF Scan, CompactBegin, ConvertBegin, Activate, Begin, slots, guests
<1>2. GuestsInv' /\ FaultsInv'
  BY <1>1 DEF TInv, GuestsInv, FaultsInv
<1>3. MaxAttempts \in Nat /\ sel.known \in [Slots -> -1 .. MaxAttempts]
  BY BoundAssumption DEF TInv, HostInv
<1>4. HostInv'
  <2>1. CASE Scan
    <3>1. /\ sel'.known = [t \in Slots |-> IF t \in Found THEN scache[t].generation
                                           ELSE IF t \in present THEN 0 ELSE -1]
          /\ UNCHANGED <<present, target, stage>>
      BY <2>1 DEF Scan, slots
    <3>2. \A t \in Slots : scache[t].generation \in 0 .. MaxAttempts
      BY DEF TInv, SealedInv, Sealed
    <3>3. sel'.known \in [Slots -> -1 .. MaxAttempts]
      BY <1>3, <3>1, <3>2
    <3> QED BY <1>1, <3>1, <3>3 DEF TInv, HostInv
  <2>2. CASE CompactBegin
    BY <1>1, <2>2 DEF CompactBegin, Begin, TInv, HostInv, OInv, StageInv
  <2>3. CASE ConvertBegin
    <3>1. target' \in Slots
      BY <2>3, ConversionTargetIsSlot DEF ConvertBegin
    <3>2. sel'.known = [sel.known EXCEPT ![target'] = 0]
      BY <2>3 DEF ConvertBegin, OInv, SelInv, Selection
    <3>3. sel'.known \in [Slots -> -1 .. MaxAttempts]
      BY <1>3, <3>1, <3>2
    <3>4. stage' = 1 /\ present' = present \cup {target'}
      BY <2>3 DEF ConvertBegin, Begin
    <3> QED BY <1>1, <3>1, <3>3, <3>4 DEF TInv, HostInv
  <2>4. CASE Activate
    <3>1. sel'.known = [sel.known EXCEPT ![target] = sel.generation + 1]
      BY <2>4 DEF Activate, NewSelection
    <3>a. sel.generation < attempts /\ attempts <= MaxAttempts
      BY <1>3, <2>4 DEF Activate, OInv, StageInv
    <3>2. sel.generation + 1 \in 0 .. MaxAttempts
      BY <1>3, <3>a, SelectionFacts
    <3>b. 0 .. MaxAttempts \subseteq -1 .. MaxAttempts
      BY <1>3
    <3>3. sel'.known \in [Slots -> -1 .. MaxAttempts]
      BY <1>3, <3>1, <3>2, <3>b
    <3>4. UNCHANGED present /\ target' = NoSlot /\ stage' = 0
      BY <2>4 DEF Activate, slots
    <3> QED BY <1>1, <3>3, <3>4 DEF TInv, HostInv
  <2> QED BY <2>1, <2>2, <2>3, <2>4
<1> QED BY <1>1, <1>2, <1>4, TypesFrame

\* The steps that write the files of a slot, and the crash that leaves them with
\* one of their contents.
LEMMA FilesTyped ==
  /\ TInv /\ OInv
  /\ \/ Enable \/ RetireSeal \/ RetireFiles \/ StageInvalidate \/ StageFlushSeal \/ StageTruncate
     \/ StageFlushJournal \/ CleanupDone \/ StageFails \/ ConvertFails \/ PowerFails
     \/ StagePrepare \/ StageSeal
  => TInv'
<1> SUFFICES ASSUME TInv, OInv,
       \/ Enable \/ RetireSeal \/ RetireFiles \/ StageInvalidate \/ StageFlushSeal \/ StageTruncate
       \/ StageFlushJournal \/ CleanupDone \/ StageFails \/ ConvertFails \/ PowerFails
       \/ StagePrepare \/ StageSeal
    PROVE TInv'
  OBVIOUS
<1>1. /\ UNCHANGED <<nextTx, synced, attempts>>
      /\ dirty' = dirty \/ dirty' = FALSE
      /\ faults' = faults \/ (faults < MaxFaults /\ faults' = faults + 1)
      /\ present' = present \/ present' = present \ {Min(todo)}
      /\ stage' = stage \/ stage' = 0 \/ (stage < 9 /\ stage' = stage + 1)
      /\ target' = target \/ target' = NoSlot
      /\ todo' = todo \/ todo' = {} \/ todo' = todo \ {Min(todo)}
  <2>1. CASE Enable \/ RetireSeal \/ RetireFiles \/ CleanupDone
    BY <2>1 DEF Enable, RetireSeal, RetireFiles, CleanupDone, guests, host
  <2>2. CASE \/ StageInvalidate \/ StageFlushSeal \/ StageTruncate \/ StagePrepare
             \/ StageFlushJournal \/ StageSeal
    BY <2>2
    DEF StageInvalidate, StageFlushSeal, StageTruncate, StagePrepare, StageFlushJournal, StageSeal,
        Staged, guests, host
  <2>3. CASE StageFails \/ ConvertFails \/ PowerFails
    BY <2>3 DEF StageFails, ConvertFails, PowerFails, Stopped, Fault, guests
  <2> QED BY <2>1, <2>2, <2>3
<1>2. /\ attempts \in Nat /\ nextTx \in Nat \ {0} /\ sel.slot \in Places
      /\ pc \in {"stage", "convert"} => target \in Slots
      /\ Slots \subseteq Places /\ Legacy \in Places
      /\ JournalsInv /\ SealedInv
  BY SelectionFacts DEF OInv, SelInv, StageInv, Selection, TInv, GuestsInv, Places
<1>3. GuestsInv'
  <2>1. dirty' \in BOOLEAN
    BY <1>1 DEF TInv, GuestsInv
  <2> QED BY <1>1, <2>1 DEF TInv, GuestsInv
<1>4. FaultsInv'
  BY <1>1, BoundAssumption DEF TInv, FaultsInv
<1>5. HostInv'
  <2>1. \/ sel' = sel \/ sel' = NoSelection
        \/ sel' = [sel EXCEPT !.known[Min(todo)] = -1]
    <3>1. CASE Enable \/ RetireSeal \/ RetireFiles \/ CleanupDone
      BY <3>1 DEF Enable, RetireSeal, RetireFiles, CleanupDone, host
    <3>2. CASE \/ StageInvalidate \/ StageFlushSeal \/ StageTruncate \/ StagePrepare
               \/ StageFlushJournal \/ StageSeal
      BY <3>2
      DEF StageInvalidate, StageFlushSeal, StageTruncate, StagePrepare, StageFlushJournal,
          StageSeal, Staged, host
    <3>3. CASE StageFails \/ ConvertFails \/ PowerFails
      BY <3>3 DEF StageFails, ConvertFails, PowerFails, Stopped
    <3> QED BY <3>1, <3>2, <3>3
  <2>2. sel'.known \in [Slots -> -1 .. MaxAttempts]
    <3>1. NoSelection.known = [s \in Slots |-> -1]
      BY DEF NoSelection
    <3>2. MaxAttempts \in Nat /\ sel.known \in [Slots -> -1 .. MaxAttempts]
      BY BoundAssumption DEF TInv, HostInv
    <3>3. NoSelection.known \in [Slots -> -1 .. MaxAttempts]
      BY <3>1, <3>2
    <3>4. sel \in Selection
      BY DEF OInv, SelInv
    <3>5. ASSUME NEW t PROVE [sel EXCEPT !.known[t] = -1].known = [sel.known EXCEPT ![t] = -1]
      BY <3>4 DEF Selection
    <3>6. ASSUME NEW t PROVE [sel.known EXCEPT ![t] = -1] \in [Slots -> -1 .. MaxAttempts]
      <4>1. -1 \in -1 .. MaxAttempts
        BY <3>2
      <4> QED BY <3>2, <4>1
    <3> HIDE DEF NoSelection
    <3>7. CASE sel' = [sel EXCEPT !.known[Min(todo)] = -1]
      BY <3>5, <3>6, <3>7
    <3> QED BY <2>1, <3>2, <3>3, <3>7
  <2>3. stage' \in 0 .. 9 /\ present' \subseteq Slots /\ todo' \subseteq Slots
        /\ target' \in Slots \cup {NoSlot}
    BY <1>1 DEF TInv, HostInv
  <2> QED BY <2>2, <2>3 DEF HostInv
<1>6. SealedInv'
  <2>1. CASE Enable \/ RetireSeal \/ RetireFiles \/ CleanupDone
    BY <1>2, <2>1, SealedKept DEF Enable, RetireSeal, RetireFiles, CleanupDone, SealedInv
  <2>2. CASE \/ StageInvalidate \/ StageFlushSeal \/ StageTruncate \/ StagePrepare
             \/ StageFlushJournal \/ (StageSeal /\ stage = 6)
    BY <1>2, <2>2, SealedKept
    DEF StageInvalidate, StageFlushSeal, StageTruncate, StagePrepare, StageFlushJournal, StageSeal,
        Staging, SealedInv
  <2>3. CASE StageSeal /\ stage # 6
    <3>1. scache' = [scache EXCEPT ![target] = NewSeal] /\ sdisk' = sdisk /\ target \in Slots
      BY <1>2, <2>3 DEF StageSeal, Staging
    <3>2. sel.generation < attempts /\ attempts <= MaxAttempts
      BY <2>3, BoundAssumption DEF StageSeal, OInv, StageInv
    <3>3. NewSeal.generation = sel.generation + 1 /\ NewSeal.sealed = jcache[target].txs
      BY DEF NewSeal
    <3>4. jcache[target].txs \in Seq(Nat)
      BY <1>2, <3>1 DEF JournalsInv, JournalBounded, Journals
    <3>5. Sealed(NewSeal)
      BY <3>2, <3>3, <3>4, SelectionFacts, BoundAssumption DEF Sealed
    <3>6. DOMAIN scache' = Slots /\ \A s \in Slots : scache'[s] = scache[s] \/ scache'[s] = NewSeal
      BY <1>2, <3>1 DEF SealedInv
    <3> QED BY <1>2, <3>1, <3>5, <3>6 DEF SealedInv
  <2>4. CASE StageFails \/ ConvertFails
    BY <1>2, <2>4, SealedKept DEF StageFails, ConvertFails, SealDiscarded, SealKept, SealedInv
  <2>5. CASE PowerFails
    BY <1>2, <2>5, SealedKept DEF PowerFails, SealedInv
  <2> QED BY <2>1, <2>2, <2>3, <2>4, <2>5
<1>7. JournalsInv'
  <2>1. CASE RetireSeal \/ RetireFiles \/ CleanupDone
    BY <1>1, <1>2, <2>1, JournalsKept DEF RetireSeal, RetireFiles, CleanupDone, JournalsInv
  <2>2. CASE StageInvalidate \/ StageFlushSeal \/ StageTruncate \/ StageFlushJournal \/ StageSeal
    BY <1>1, <1>2, <2>2, JournalsKept
    DEF StageInvalidate, StageFlushSeal, StageTruncate, StageFlushJournal, StageSeal,
        Staging, JournalsInv
  <2>3. CASE StageFails \/ ConvertFails
    BY <1>1, <1>2, <2>3, JournalsKept
    DEF StageFails, ConvertFails, SealDiscarded, SealKept, JournalsInv
  <2>4. CASE PowerFails
    BY <1>1, <1>2, <2>4, JournalsKept DEF PowerFails, JournalsInv
  <2>5. CASE StagePrepare
    <3>1. PICK new : new = [id |-> NewId, txs |-> Visible]
      OBVIOUS
    <3>2. /\ jcache' = [jcache EXCEPT ![target] = new] /\ target \in Slots
          /\ jdisk' = [jdisk EXCEPT ![sel.slot] = jcache[sel.slot]] \/ jdisk' = jdisk
      BY <1>2, <2>5, <3>1 DEF StagePrepare, Staging
    <3>3. JournalBounded(new, attempts, nextTx)
      <4>1. JournalBounded(jcache[sel.slot], attempts, nextTx)
        BY <1>2 DEF JournalsInv
      <4>2. jcache[sel.slot].txs \in Seq(Nat) /\ Len(jcache[sel.slot].txs) < nextTx
        BY <4>1 DEF JournalBounded, Journals
      <4>3. new.id = attempts + 1 /\ new.txs = jcache[sel.slot].txs /\ new \in Journals
        BY <1>2, <3>1, <4>2 DEF NewId, LegacyId, Visible, Journals
      <4> QED BY <1>2, <4>2, <4>3 DEF JournalBounded
    <3>4. /\ DOMAIN jcache' = Places /\ DOMAIN jdisk' = Places
          /\ \A p \in Places : jcache'[p] = jcache[p] \/ jcache'[p] = new
          /\ \A p \in Places : jdisk'[p] = jdisk[p] \/ jdisk'[p] = jcache[p]
      BY <1>2, <3>2 DEF JournalsInv
    <3> QED BY <1>1, <1>2, <3>3, <3>4 DEF JournalsInv
  <2>6. CASE Enable
    <3>1. CASE jcache[sel.slot] = NoJournal
      <4>1. /\ jcache' = [jcache EXCEPT ![sel.slot].id = LegacyId]
            /\ jdisk' = [jdisk EXCEPT ![sel.slot].id = LegacyId]
        BY <2>6, <3>1 DEF Enable
      <4>2. ASSUME NEW j, JournalBounded(j, attempts, nextTx)
            PROVE  JournalBounded([j EXCEPT !.id = LegacyId], attempts, nextTx)
        <5>1. PICK new : new = [j EXCEPT !.id = LegacyId]
          OBVIOUS
        <5>2. new \in Journals /\ new.id = 1 /\ new.txs = j.txs
          BY <4>2, <5>1 DEF JournalBounded, Journals, LegacyId
        <5> QED BY <1>2, <4>2, <5>1, <5>2 DEF JournalBounded
      <4>3. /\ DOMAIN jcache' = Places /\ DOMAIN jdisk' = Places
            /\ \A p \in Places : /\ jcache'[p] = jcache[p] \/ jcache'[p] = [jcache[p] EXCEPT !.id = LegacyId]
                                 /\ jdisk'[p] = jdisk[p] \/ jdisk'[p] = [jdisk[p] EXCEPT !.id = LegacyId]
        BY <1>2, <4>1 DEF JournalsInv
      <4> QED BY <1>1, <1>2, <4>2, <4>3 DEF JournalsInv
    <3>2. CASE jcache[sel.slot] # NoJournal
      BY <1>1, <1>2, <2>6, <3>2, JournalsKept DEF Enable, JournalsInv
    <3> QED BY <3>1, <3>2
  <2> QED BY <2>1, <2>2, <2>3, <2>4, <2>5, <2>6
<1> QED BY <1>3, <1>4, <1>5, <1>6, <1>7 DEF TInv

\* Every step keeps the types.
LEMMA TypedStep == TInv /\ OInv /\ [Next]_vars => TInv'
<1> SUFFICES ASSUME TInv, OInv, [Next]_vars PROVE TInv'
  OBVIOUS
<1>1. CASE UNCHANGED vars
  <2>1. /\ UNCHANGED <<jcache, jdisk, scache, sdisk, nextTx, attempts>>
        /\ UNCHANGED <<present, sel, target, stage, todo, dirty, synced, faults>>
    BY <1>1 DEF vars, slots, guests, host
  <2> QED BY <2>1, TypesFrame DEF TInv, HostInv, GuestsInv, FaultsInv
<1>2. CASE CommitWrite \/ FlushJournal \/ CommitFails
  BY <1>2, GuestsTyped
<1>3. CASE \/ BootOpen \/ Anchor \/ AnchorDone \/ Confirm \/ ConfirmDone \/ RetireFails \/ BootDone
           \/ CompactOpen \/ CompactPrepare \/ Publish \/ PublishDone \/ LegacyRetireFails
           \/ ControlStep \/ CompactFails \/ PublishFails \/ ProcessDies
  BY <1>3, QuietTyped
<1>4. CASE Scan \/ CompactBegin \/ ConvertBegin \/ Activate
  BY <1>4, SelectTyped
<1>5. CASE \/ Enable \/ RetireSeal \/ RetireFiles \/ StageInvalidate \/ StageFlushSeal
           \/ StageTruncate \/ StageFlushJournal \/ CleanupDone \/ StageFails \/ ConvertFails
           \/ PowerFails \/ StagePrepare \/ StageSeal
  BY <1>5, FilesTyped
<1> QED BY <1>1, <1>2, <1>3, <1>4, <1>5 DEF Next

\* The counters stay within their bounds and the parts of the state have their
\* types: what is sealed, selected and known was made by an attempt.
THEOREM OverlayTyped == Spec => []TypeOK
<1>1. Spec => [](OInv /\ TInv)
  BY OverlayInit, OverlayStep, TypedInit, TypedStep, PTL DEF Spec
<1>2. ASSUME OInv, TInv, ControlTypeOK PROVE TypeOK
  <2>1. attempts \in Nat /\ attempts \in 0 .. MaxAttempts /\ MaxAttempts \in Nat
    BY BoundAssumption, SelectionFacts, <1>2 DEF OInv
  <2>2. \A p \in Places : /\ jcache[p].id \in 0 .. MaxAttempts + LegacyId
                          /\ jdisk[p].id \in 0 .. MaxAttempts + LegacyId
    <3>1. ASSUME NEW j, JournalBounded(j, attempts, nextTx) PROVE j.id \in 0 .. MaxAttempts + LegacyId
      <4>1. j.id \in Nat /\ j.id <= attempts + 1
        BY <3>1 DEF JournalBounded, Journals
      <4> QED BY <2>1, <4>1 DEF LegacyId
    <3> QED BY <1>2, <3>1 DEF TInv, JournalsInv
  <2>3. /\ \A s \in Slots : /\ scache[s].generation \in 0 .. MaxAttempts
                            /\ sdisk[s].generation \in 0 .. MaxAttempts
    BY <1>2 DEF TInv, SealedInv, Sealed
  <2>4. sel.slot \in Places /\ sel.generation \in 0 .. MaxAttempts /\ sel.reusable \subseteq [generation : Int, slot : Slots]
    BY <1>2, <2>1, SelectionFacts DEF OInv, SelInv, Selection
  <2> QED BY <1>2, <2>1, <2>2, <2>3, <2>4 DEF TypeOK, TInv, HostInv, GuestsInv, FaultsInv
<1> QED BY <1>1, <1>2, OverlayImplementsControls, ControlsTyped, PTL

=============================================================================
