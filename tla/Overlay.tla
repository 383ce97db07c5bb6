------------------------------ MODULE Overlay ------------------------------
(***************************************************************************)
(* Generations of a persistent overlay                                     *)
(* (host/src/vfs/overlay-generation-selection.ts, with the policy of       *)
(* crates/runtime-core/src/overlay_generation_policy.rs and the journal of *)
(* persistent_overlay.rs): the boot that selects one, the conversion and   *)
(* the compaction that write the next one, the handoff of the writer, its  *)
(* publication through ActivationControls, and the retirement of old ones. *)
(*                                                                         *)
(* Every slot has a journal and a seal.  A journal is the sequence of the  *)
(* transactions it replays to; `id` stands for the bytes of its sealed     *)
(* prefix, a new one for every attempt to write a generation, so that a    *)
(* seal and an activation record name the attempt they were made for.  The *)
(* checkpoint index is written, sealed and removed with its journal and is *)
(* one with it here.  Files behave as in ActivationControls.               *)
(*                                                                         *)
(* One thread runs the host and the kernel.  What happens between two      *)
(* awaits is not interrupted by guests, but by crashes at every step.      *)
(***************************************************************************)
EXTENDS ActivationControls, SequencesExt, FiniteSetsExt

CONSTANTS
  MaxSlot,      \* the highest sealed slot, at least 3
  MaxTx,        \* bound: transactions the guests commit
  MaxAttempts,  \* bound: generations written, finished or not
  MaxFaults     \* bound: crashes and failed calls

ASSUME SlotAssumption == MaxSlot \in Nat /\ MaxSlot >= 3

Legacy == -1                \* the unsealed journal
NoSlot == -2
Slots == 0 .. MaxSlot       \* g0, g1, ...
Ring == 3                   \* COMPACTION_SLOTS: g0, g1 and g2
Places == Slots \cup {Legacy}

NoJournal == [id |-> 0, txs |-> <<>>]
NoSeal == [id |-> 0, generation |-> 0, sealed |-> <<>>, source |-> NoSlot]
TornSeal == [NoSeal EXCEPT !.id = -1]
LegacyId == 1               \* id of the legacy journal; attempts start at 2

VARIABLES
  jcache, jdisk,  \* [Places -> journal]
  scache, sdisk,  \* [Slots -> seal]
  present,        \* slots that have files, empty ones included
  pc,             \* where the host is
  sel,            \* the SelectedOverlayGeneration, in memory
  target, stage,  \* the slot a new generation is written to, and how far it is
  todo,           \* slots the collection still has to retire
  dirty,          \* a commit has written and not yet flushed
  last,           \* history: what the guests saw last
  synced,         \* history: how much of it was acknowledged
  nextTx, attempts, faults

slots == <<jcache, jdisk, scache, sdisk, present>>
guests == <<dirty, last, synced, nextTx>>
host == <<sel, target, stage, todo>>
vars == <<controls, slots, guests, host, pc, attempts, faults>>

Verified(journals, seals, s) ==
  /\ seals[s].id > 0 /\ journals[s].id = seals[s].id
  /\ IsPrefix(seals[s].sealed, journals[s].txs)
IdentityOf(s) == [slot |-> s, generation |-> scache[s].generation, seal |-> scache[s].id]
LegacyIdentity == [slot |-> Legacy, generation |-> 0, seal |-> 0]
ASSUME BoundAssumption == MaxTx \in Nat /\ MaxAttempts \in Nat /\ MaxFaults \in Nat
\* A record may name whatever the attempts can have sealed.
ASSUME IdentitySpace ==
  /\ LegacyIdentity \in Identities
  /\ [slot : Slots, generation : 1 .. MaxAttempts, seal : 2 .. MaxAttempts + 1] \subseteq Identities

\* selectedActivationIdentity
SelectedIdentity ==
  IF sel.slot = Legacy THEN LegacyIdentity
  ELSE [slot |-> sel.slot, generation |-> sel.generation, seal |-> sel.id]

NoSelection == [slot |-> Legacy, generation |-> 0, id |-> 0, source |-> NoSlot,
                known |-> [s \in Slots |-> -1], reusable |-> {}]

Alive == pc \in {"up", "compact", "stage", "publish", "cleanup"}
Visible == jcache[sel.slot].txs

Init ==
  /\ ControlInit
  /\ jcache = [p \in Places |-> NoJournal] /\ jdisk = jcache
  /\ scache = [s \in Slots |-> NoSeal] /\ sdisk = scache
  /\ present = {} /\ pc = "down" /\ sel = NoSelection
  /\ target = NoSlot /\ stage = 0 /\ todo = {}
  /\ dirty = FALSE /\ last = <<>> /\ synced = 0 /\ nextTx = 1
  /\ attempts = 0 /\ faults = 0

-----------------------------------------------------------------------------
(* The guests: a commit writes its transaction at the end of the journal   *)
(* and flushes it; fsync flushes.                                          *)

GuestsRun == pc \in {"up", "compact", "cleanup"} /\ task = "none"

CommitWrite ==
  /\ GuestsRun /\ ~dirty /\ nextTx <= MaxTx
  /\ jcache' = [jcache EXCEPT ![sel.slot].txs = Append(@, nextTx)]
  /\ dirty' = TRUE /\ nextTx' = nextTx + 1
  /\ UNCHANGED <<controls, jdisk, scache, sdisk, present, host, pc, last, synced, attempts, faults>>
FlushJournal ==
  /\ GuestsRun /\ (dirty \/ jdisk[sel.slot] # jcache[sel.slot])
  /\ jdisk' = [jdisk EXCEPT ![sel.slot] = jcache[sel.slot]]
  /\ dirty' = FALSE /\ synced' = Len(Visible)
  /\ UNCHANGED <<controls, jcache, scache, sdisk, present, host, pc, last, nextTx, attempts, faults>>
\* A failed write or flush: the journal refuses everything from then on.
CommitFails ==
  /\ dirty /\ faults < MaxFaults /\ faults' = faults + 1
  /\ pc' = "poisoned" /\ dirty' = FALSE /\ last' = Visible
  /\ ControlsLost
  /\ UNCHANGED <<slots, host, synced, nextTx, attempts>>

-----------------------------------------------------------------------------
(* Boot: enableBestOverlayGeneration and collectBootOverlayGenerations.    *)

BootOpen ==
  /\ pc = "down" /\ OpenControls
  /\ pc' = IF SelectRefuses(cache) THEN "refused" ELSE "scan"
  /\ UNCHANGED <<slots, guests, host, attempts, faults>>

\* candidateRole and requireInventory: the record's generation must be there
\* as it was activated; without a record nothing unexplained may be there.
Found == {s \in Slots : Verified(jcache, scache, s)}
Anchored == current # Blank /\ current.identity.slot \in Found
InventoryRefused ==
  IF current = Blank
  THEN \E s \in Slots : jcache[s] # NoJournal \/ scache[s].id # 0
  ELSE IF Anchored THEN IdentityOf(current.identity.slot) # current.identity
  ELSE current.identity.slot # Legacy
LegacyRefused ==
  ~Anchored /\ jcache[Legacy] = NoJournal /\ (present # {} \/ current # Blank)

\* reusableSlots: the slots with an unpublished generation, one per generation.
Unpublished(active, generation) ==
  {[generation |-> scache[s].generation, slot |-> s] :
     s \in {t \in Found : /\ t # active /\ scache[t].generation > generation
                          /\ \A u \in Found \ {active} :
                               scache[u].generation = scache[t].generation => u <= t}}

\* enableBestOverlayGenerationInner up to the anchor.
Scan ==
  /\ pc = "scan"
  /\ LET s == IF Anchored THEN current.identity.slot ELSE Legacy
         g == IF Anchored THEN scache[s].generation ELSE 0 IN
     /\ sel' = [slot |-> s, generation |-> g,
                id |-> IF Anchored THEN scache[s].id ELSE 0,
                source |-> IF Anchored THEN scache[s].source ELSE NoSlot,
                known |-> [t \in Slots |-> IF t \in Found THEN scache[t].generation
                                           ELSE IF t \in present THEN 0 ELSE -1],
                reusable |-> Unpublished(s, g)]
     /\ pc' = IF InventoryRefused \/ LegacyRefused THEN "refused"
              ELSE IF s = Legacy /\ jcache[Legacy] = NoJournal THEN "enable"
              ELSE "anchor"
  /\ UNCHANGED <<controls, slots, guests, target, stage, todo, attempts, faults>>

\* anchor: repair the records, or publish the first one, before anything else
\* is written.
Anchor ==
  /\ pc = "anchor"
  /\ IF current = Blank /\ task = "none" THEN PublishRecord(SelectedIdentity) ELSE PrepareControls
  /\ UNCHANGED <<slots, guests, host, pc, attempts, faults>>
AnchorDone ==
  /\ pc = "anchor" /\ task = "none" /\ current # Blank /\ ~Unrepaired
  /\ pc' = "enable"
  /\ UNCHANGED <<controls, slots, guests, host, attempts, faults>>

\* enable: the kernel opens the journal and gives a new one its header.
Enable ==
  /\ pc = "enable"
  /\ IF jcache[sel.slot] = NoJournal
     THEN /\ jcache' = [jcache EXCEPT ![sel.slot].id = LegacyId]
          /\ jdisk' = [jdisk EXCEPT ![sel.slot].id = LegacyId]
     ELSE UNCHANGED <<jcache, jdisk>>
  /\ pc' = "confirm"
  /\ UNCHANGED <<controls, scache, sdisk, present, guests, host, attempts, faults>>

Confirmed == current # Blank /\ current.identity = SelectedIdentity /\ committed = current
Confirm ==
  /\ pc = "confirm" /\ ~Confirmed
  /\ PublishRecord(SelectedIdentity)
  /\ UNCHANGED <<slots, guests, host, pc, attempts, faults>>

\* mayRetire and mayReclaimUnpublished: with a slot above the ring in use,
\* everything older than the predecessor of the active generation.
Obsolete(s) ==
  IF /\ s.source \in Slots /\ s.known[s.source] > 0 /\ s.known[s.source] + 1 = s.generation
     /\ \E t \in Slots : t >= Ring /\ s.known[t] >= 0
  THEN {t \in Slots \ {s.slot, s.source} : s.known[t] >= 0 /\ s.known[t] < s.known[s.source]}
  ELSE {}
ConfirmDone ==
  /\ pc = "confirm" /\ Confirmed /\ CloseControls
  /\ todo' = Obsolete(sel) /\ pc' = "collect"
  /\ UNCHANGED <<slots, guests, sel, target, stage, attempts, faults>>

\* retireGeneration: the seal is emptied, then flushed, before the journal is
\* removed, and the seal's file goes last.
RetireSeal ==
  /\ pc \in {"collect", "cleanup"} /\ todo # {} /\ ~dirty
  /\ LET s == Min(todo) IN
     \/ /\ scache[s].id # 0
        /\ scache' = [scache EXCEPT ![s] = NoSeal] /\ UNCHANGED sdisk
     \/ /\ scache[s].id = 0 /\ sdisk[s].id # 0
        /\ sdisk' = [sdisk EXCEPT ![s] = NoSeal] /\ UNCHANGED scache
  /\ UNCHANGED <<controls, jcache, jdisk, present, guests, host, pc, attempts, faults>>
RetireFiles ==
  /\ pc \in {"collect", "cleanup"} /\ todo # {} /\ ~dirty
  /\ LET s == Min(todo) IN
     /\ scache[s].id = 0 /\ sdisk[s].id = 0
     /\ \/ /\ {jcache[s], jdisk[s]} # {NoJournal}
           /\ jcache' = [jcache EXCEPT ![s] = NoJournal]
           /\ jdisk' = [jdisk EXCEPT ![s] = NoJournal]
           /\ UNCHANGED <<present, todo, sel>>
        \/ /\ {jcache[s], jdisk[s]} = {NoJournal}
           /\ present' = present \ {s} /\ todo' = todo \ {s}
           /\ sel' = [sel EXCEPT !.known[s] = -1]
           /\ UNCHANGED <<jcache, jdisk>>
  /\ UNCHANGED <<controls, scache, sdisk, guests, target, stage, pc, attempts, faults>>
RetireFails ==
  /\ pc \in {"collect", "cleanup"} /\ todo # {} /\ ~dirty
  /\ faults < MaxFaults /\ faults' = faults + 1
  /\ todo' = todo \ {Min(todo)}
  /\ UNCHANGED <<controls, slots, guests, sel, target, stage, pc, attempts>>
BootDone ==
  /\ pc = "collect" /\ todo = {}
  /\ pc' = "up" /\ last' = Visible
  /\ UNCHANGED <<controls, slots, dirty, synced, nextTx, host, attempts, faults>>

-----------------------------------------------------------------------------
(* A new generation: compaction of a live one or conversion at boot.       *)

\* Mutant: the predecessor's slot may be written over.
MayStageMutant(s) == s # sel.slot
\* mayStage: never the active slot, never the one it was made from.
MayStage(s) == s # sel.slot /\ s # sel.source
\* The slot the boot found with a generation of this number, as its map has it.
Reusable ==
  {r.slot : r \in {q \in sel.reusable : q.generation = sel.generation + 1 /\ MayStage(q.slot)}}

\* Mutant: the ring does not wrap.
RingSlotMutant(offset) == sel.slot + offset
\* compactOverlayGenerationInner
RingSlot(offset) == ((IF sel.slot < Ring THEN sel.slot ELSE -1) + offset) % Ring
CompactionTarget ==
  IF Reusable # {} THEN Max(Reusable)
  ELSE RingSlot(Min({offset \in 1 .. Ring : MayStage(RingSlot(offset))}))
\* conversionTarget, for a legacy journal with g0 as its default
ConversionTargets ==
  IF Reusable # {} THEN Reusable
  ELSE {s \in Slots : sel.known[s] <= 0 /\ MayStage(s)}

CompactOpen ==
  /\ pc = "up" /\ ~dirty /\ attempts < MaxAttempts
  /\ OpenControls
  /\ target' = CompactionTarget /\ pc' = "compact"
  /\ UNCHANGED <<slots, guests, sel, stage, todo, attempts, faults>>
CompactPrepare ==
  /\ pc = "compact" /\ ~dirty /\ PrepareControls
  /\ UNCHANGED <<slots, guests, host, pc, attempts, faults>>
Begin(where) ==
  /\ stage' = 1 /\ attempts' = attempts + 1 /\ pc' = where
  /\ present' = present \cup {target'}
CompactBegin ==
  /\ pc = "compact" /\ ~dirty /\ task = "none" /\ ~Unrepaired
  /\ current # Blank /\ current.identity = SelectedIdentity
  /\ UNCHANGED target /\ Begin("stage")
  /\ UNCHANGED <<controls, jcache, jdisk, scache, sdisk, guests, sel, todo, faults>>
ConvertBegin ==
  /\ pc = "enable" /\ jcache[sel.slot] # NoJournal /\ attempts < MaxAttempts
  /\ ConversionTargets # {} /\ target' = Min(ConversionTargets) /\ Begin("convert")
  /\ sel' = [sel EXCEPT !.known[target'] = 0]
  /\ UNCHANGED <<controls, jcache, jdisk, scache, sdisk, guests, todo, faults>>

Staging == pc \in {"stage", "convert"}
NewId == attempts + LegacyId
NewSeal == [id |-> NewId, generation |-> sel.generation + 1, sealed |-> jcache[target].txs,
            source |-> sel.slot]
Staged == /\ stage' = stage + 1
          /\ UNCHANGED <<controls, present, guests, sel, target, todo, pc, attempts, faults>>

\* The target's seal is invalidated before its journal is touched, and the new
\* seal is written after the journal is on the medium.
StageInvalidate ==
  /\ Staging /\ stage = 1 /\ Staged
  /\ scache' = [scache EXCEPT ![target] = NoSeal] /\ UNCHANGED <<jcache, jdisk, sdisk>>
\* Mutant: the new seal is not flushed.
StageFlushSealMutant ==
  /\ Staging /\ stage \in {2, 8} /\ Staged
  /\ UNCHANGED <<jcache, jdisk, scache, sdisk>>
StageFlushSeal ==
  /\ Staging /\ stage \in {2, 8} /\ Staged
  /\ sdisk' = [sdisk EXCEPT ![target] = scache[target]] /\ UNCHANGED <<jcache, jdisk, scache>>
\* The journal is truncated, then flushed.
StageTruncate ==
  /\ Staging /\ stage = 3
  /\ \/ /\ jcache[target] # NoJournal
        /\ jcache' = [jcache EXCEPT ![target] = NoJournal]
        /\ UNCHANGED <<controls, jdisk, scache, sdisk, present, guests, host, pc, attempts, faults>>
     \/ /\ jcache[target] = NoJournal /\ Staged
        /\ jdisk' = [jdisk EXCEPT ![target] = NoJournal]
        /\ UNCHANGED <<jcache, scache, sdisk>>
\* prepare_persistence_compaction syncs the source and copies its state; a
\* conversion at boot only reads it.
StagePrepare ==
  /\ Staging /\ stage = 4 /\ Staged
  /\ jdisk' = IF pc = "stage" THEN [jdisk EXCEPT ![sel.slot] = jcache[sel.slot]] ELSE jdisk
  /\ jcache' = [jcache EXCEPT ![target] = [id |-> NewId, txs |-> Visible]]
  /\ UNCHANGED <<scache, sdisk>>
StageFlushJournal ==
  /\ Staging /\ stage = 5 /\ Staged
  /\ jdisk' = [jdisk EXCEPT ![target] = jcache[target]] /\ UNCHANGED <<jcache, scache, sdisk>>
StageSeal ==
  /\ Staging /\ stage \in {6, 7} /\ Staged
  /\ scache' = [scache EXCEPT ![target] = IF stage = 6 THEN TornSeal ELSE NewSeal]
  /\ UNCHANGED <<jcache, jdisk, sdisk>>

\* The kernel's mount moves to the target (activate_persistence_compaction, or
\* enable after a conversion); withReusableSlots and withKnownGenerations.
NewSelection ==
  [slot |-> target, generation |-> sel.generation + 1, id |-> NewId, source |-> sel.slot,
   known |-> [sel.known EXCEPT ![target] = sel.generation + 1],
   reusable |-> {r \in sel.reusable : r.slot # target /\ r.generation > sel.generation + 1}]
Activate ==
  /\ Staging /\ stage = 9 /\ Verified(jcache, scache, target)
  /\ sel' = NewSelection /\ target' = NoSlot /\ stage' = 0
  /\ pc' = IF pc = "stage" THEN "publish" ELSE "confirm"
  /\ UNCHANGED <<controls, slots, guests, todo, attempts, faults>>

Publish ==
  /\ pc = "publish" /\ ~Confirmed /\ PublishRecord(SelectedIdentity)
  /\ UNCHANGED <<slots, guests, host, pc, attempts, faults>>
PublishDone ==
  /\ pc = "publish" /\ Confirmed /\ CloseControls
  /\ todo' = Obsolete(sel) /\ pc' = "cleanup"
  /\ UNCHANGED <<slots, guests, sel, target, stage, attempts, faults>>
\* retireLegacySource: the second generation retires the legacy journal that
\* the first was made from, if it still is what that one's seal says.
LegacyRetirable ==
  /\ sel.generation = 2 /\ sel.source \in Slots /\ scache[sel.source].source = Legacy
  /\ jcache[Legacy] # NoJournal /\ jcache[Legacy].txs = scache[sel.source].sealed
CleanupDone ==
  /\ pc = "cleanup" /\ todo = {} /\ ~dirty /\ pc' = "up"
  /\ IF LegacyRetirable
     THEN /\ jcache' = [jcache EXCEPT ![Legacy] = NoJournal]
          /\ jdisk' = [jdisk EXCEPT ![Legacy] = NoJournal]
     ELSE UNCHANGED <<jcache, jdisk>>
  /\ UNCHANGED <<controls, scache, sdisk, present, guests, host, attempts, faults>>
\* An error there is only reported.
LegacyRetireFails ==
  /\ pc = "cleanup" /\ todo = {} /\ ~dirty /\ LegacyRetirable
  /\ faults < MaxFaults /\ faults' = faults + 1
  /\ pc' = "up"
  /\ UNCHANGED <<controls, slots, guests, host, attempts>>

\* Loops of the control pair run wherever the host waits for them.
ControlStep ==
  /\ LoopStep
  /\ UNCHANGED <<slots, guests, host, pc, attempts, faults>>

-----------------------------------------------------------------------------
(* Failures.                                                               *)

Fault == faults < MaxFaults /\ faults' = faults + 1

\* A failed repair, or a compactor told to stop, before the target is touched.
CompactFails ==
  /\ pc = "compact" /\ ~dirty /\ Fault /\ ControlsLost
  /\ pc' = "up" /\ target' = NoSlot
  /\ UNCHANGED <<slots, guests, sel, stage, todo, attempts>>

\* A failure before the activation: the target's seal is emptied and flushed,
\* then its journal.  The clean-up may fail as well: the seal is then as it was,
\* or emptied and not flushed, and the journal is left alone; an error of the
\* journal's own clean-up is only reported.
SealDiscarded ==
  /\ scache' = [scache EXCEPT ![target] = NoSeal] /\ sdisk' = [sdisk EXCEPT ![target] = NoSeal]
  /\ \/ /\ jcache' = [jcache EXCEPT ![target] = NoJournal]
        /\ jdisk' = [jdisk EXCEPT ![target] = NoJournal]
     \/ UNCHANGED <<jcache, jdisk>>
SealKept ==
  /\ scache' \in {scache, [scache EXCEPT ![target] = NoSeal]}
  /\ UNCHANGED <<sdisk, jcache, jdisk>>
\* A live writer goes on with the source.  A seal whose flush had not returned
\* (targetTouched) is not cleaned up.
StageFails ==
  /\ pc = "stage" /\ Fault /\ ControlsLost
  /\ (stage > 2 /\ SealDiscarded) \/ SealKept
  /\ pc' = "up" /\ target' = NoSlot /\ stage' = 0
  /\ UNCHANGED <<present, guests, sel, todo, attempts>>
\* A boot does so if the target was not opened or its seal is gone, and is over
\* otherwise (ProcessDies).
ConvertFails ==
  /\ pc = "convert" /\ Fault
  /\ SealDiscarded \/ (stage = 1 /\ UNCHANGED <<jcache, jdisk, scache, sdisk>>)
  /\ pc' = "confirm" /\ target' = NoSlot /\ stage' = 0
  /\ UNCHANGED <<controls, present, guests, sel, todo, attempts>>

\* Mutant: the failure is reported and the writer goes on.
PublishFailsMutant ==
  /\ pc = "publish" /\ Fault /\ ControlsLost
  /\ pc' = "up"
  /\ UNCHANGED <<slots, guests, host, attempts>>
\* A failure once the activation was attempted: handoff.fail stops the writer.
PublishFails ==
  /\ pc = "publish" \/ (pc = "stage" /\ stage = 9)
  /\ Fault /\ ControlsLost
  /\ pc' = "poisoned" /\ last' = Visible
  /\ UNCHANGED <<slots, dirty, synced, nextTx, host, attempts>>

\* The process ends (or a boot fails): the files keep what was written.
Stopped ==
  /\ pc' = "down" /\ sel' = NoSelection /\ target' = NoSlot /\ stage' = 0 /\ todo' = {}
  /\ dirty' = FALSE /\ last' = IF Alive THEN Visible ELSE last
  /\ UNCHANGED <<present, synced, nextTx, attempts>>
ProcessDies ==
  /\ pc \notin {"down", "refused"} /\ Fault /\ ControlsLost /\ Stopped
  /\ UNCHANGED <<jcache, jdisk, scache, sdisk>>

\* The power goes: every file is left with one of its contents, a seal that
\* was being written perhaps with neither.
SealInFlight(s) == Staging /\ s = target /\ stage \in {7, 8}
PowerFails ==
  /\ pc # "refused" /\ Fault /\ LosePower /\ Stopped
  /\ \E kept \in SUBSET {p \in Places : jcache[p] # jdisk[p]} :
       jdisk' = [p \in Places |-> IF p \in kept THEN jcache[p] ELSE jdisk[p]]
  /\ jcache' = jdisk'
  /\ \E kept \in SUBSET {s \in Slots : scache[s] # sdisk[s]} :
     \E torn \in SUBSET {s \in Slots : SealInFlight(s)} :
       sdisk' = [s \in Slots |-> IF s \in torn THEN TornSeal
                                 ELSE IF s \in kept THEN scache[s] ELSE sdisk[s]]
  /\ scache' = sdisk'

Next ==
  \/ CommitWrite \/ FlushJournal \/ CommitFails
  \/ BootOpen \/ Scan \/ Anchor \/ AnchorDone \/ Enable \/ Confirm \/ ConfirmDone
  \/ RetireSeal \/ RetireFiles \/ RetireFails \/ BootDone
  \/ CompactOpen \/ CompactPrepare \/ CompactBegin \/ ConvertBegin
  \/ StageInvalidate \/ StageFlushSeal \/ StageTruncate \/ StagePrepare
  \/ StageFlushJournal \/ StageSeal \/ Activate \/ Publish \/ PublishDone \/ CleanupDone
  \/ LegacyRetireFails \/ ControlStep
  \/ CompactFails \/ StageFails \/ ConvertFails \/ PublishFails \/ ProcessDies \/ PowerFails
Spec == Init /\ [][Next]_vars

-----------------------------------------------------------------------------
TypeOK ==
  /\ ControlTypeOK
  /\ \A p \in Places : jcache[p].id \in 0 .. MaxAttempts + LegacyId /\ jdisk[p].id \in 0 .. MaxAttempts + LegacyId
  /\ \A s \in Slots : scache[s].generation \in 0 .. MaxAttempts /\ sdisk[s].generation \in 0 .. MaxAttempts
  /\ present \subseteq Slots /\ sel.slot \in Places /\ sel.generation \in 0 .. MaxAttempts
  /\ sel.reusable \subseteq [generation : Int, slot : Slots] /\ sel.known \in [Slots -> -1 .. MaxAttempts]
  /\ target \in Slots \cup {NoSlot} /\ stage \in 0 .. 9 /\ todo \subseteq Slots
  /\ dirty \in BOOLEAN /\ synced \in 0 .. MaxTx /\ nextTx \in 1 .. MaxTx + 1
  /\ attempts \in 0 .. MaxAttempts /\ faults \in 0 .. MaxFaults

\* Once a generation has been published, no crash, failed call or interrupted
\* conversion, compaction or retirement makes a later boot refuse the computer
\* (NoValidOverlayGenerationError).
BootNeverRefused == committed # Blank => pc # "refused"

\* The generation the published one was made from stays on the medium, whole,
\* until a further one is published (mayStage, mayRetire, mayRetireUnsealed).
PredecessorKept ==
  committed # Blank /\ committed.identity.generation >= 1 =>
    IF committed.identity.generation = 1 THEN jdisk[Legacy] # NoJournal
    ELSE \E s \in Slots \ {committed.identity.slot} :
           /\ Verified(jdisk, sdisk, s)
           /\ sdisk[s].generation + 1 = committed.identity.generation

\* The machine keeps the promise of DurableLog: what guests see only grows
\* while they run, compactions included, and a boot brings back every
\* transaction a sync acknowledged, in order and with nothing in between.
D == INSTANCE DurableLog WITH
       Transactions <- 1 .. MaxTx, up <- Alive, log <- IF Alive THEN Visible ELSE last
KeepsDurableLog == D!Spec

=============================================================================
