----------------------- MODULE OverlayDurabilityProofs -----------------------
(***************************************************************************)
(* Proofs about what an overlay never loses: the generation that any       *)
(* record of the pair names is whole, in memory and on the medium, and so  *)
(* is the one it was made from, so that a boot always finds what it needs. *)
(***************************************************************************)
EXTENDS OverlayProofs

-----------------------------------------------------------------------------
(* The invariant.                                                          *)

\* A slot that verifies, and still does whatever a power loss leaves of it.
Whole(s) == scache[s] = sdisk[s] /\ Verified(jcache, scache, s) /\ Verified(jdisk, sdisk, s)
LegacyWhole == jcache[Legacy].id = LegacyId /\ jdisk[Legacy].id = LegacyId
\* The generation a slot was made from is still there.
SourceWhole(s) ==
  IF scache[s].generation = 1 THEN scache[s].source = Legacy /\ LegacyWhole
  ELSE /\ scache[s].source \in Slots \ {s} /\ Whole(scache[s].source)
       /\ scache[scache[s].source].generation + 1 = scache[s].generation
Kept(i) ==
  IF i.slot = Legacy THEN i = LegacyIdentity /\ LegacyWhole
  ELSE i.slot \in Slots /\ i = IdentityOf(i.slot) /\ Whole(i.slot) /\ SourceWhole(i.slot)
\* The places Kept(i) does not depend on.
Avoids(p, i) == i.slot # p /\ (i.slot \in Slots => scache[i.slot].source # p)

\* Every record that a file or the host holds names a generation that is kept.
Held(x) ==
  /\ x \in Records
  /\ \/ x \in {cache[0], cache[1], disk[0], disk[1], current, committed}
     \/ task # "none" /\ x = record
HeldKept == \A x : Held(x) => Kept(x.identity) /\ x.sequence = x.identity.generation + 1

\* So does the selection, from the scan to the end of the process.
Selecting ==
  \/ pc \in {"anchor", "convert", "confirm", "collect", "up", "compact", "stage", "publish",
             "cleanup"}
  \/ pc = "enable" /\ jcache[sel.slot] # NoJournal
SelKept ==
  Selecting => /\ Kept(SelectedIdentity)
               /\ sel.slot \in Slots => sel.source = scache[sel.slot].source
\* While guests run and while slots are written over, the files name nothing else.
QuietFiles ==
  pc \in {"collect", "up", "compact", "stage", "cleanup"} =>
    /\ committed \in Records /\ committed.identity = SelectedIdentity
    /\ \A r \in Replicas : cache[r] = committed /\ disk[r] = committed
    /\ pc \in {"collect", "up", "cleanup"} => mode = "closed"
    /\ pc \in {"compact", "stage"} => mode = "open" /\ current = committed
    /\ pc = "compact" => task # "publish" /\ \A r \in Replicas : seen[r] = committed
    /\ pc = "stage" => task = "none" /\ repaired
\* What the pair of records has been brought to at each point of a boot.
PhaseInv ==
  /\ pc \in {"down", "poisoned"} => mode = "closed"
  /\ pc \in {"scan", "anchor", "enable", "convert", "confirm", "publish"} => mode = "open"
  /\ pc \in {"scan", "enable", "convert", "refused"} => task = "none"
  /\ pc \in {"anchor", "confirm"} /\ current = Blank => sel.slot = Legacy
  /\ pc = "anchor" /\ current # Blank => current.identity = SelectedIdentity
  /\ pc = "anchor" /\ task = "publish" => record.identity = SelectedIdentity
  /\ pc = "enable" /\ jcache[sel.slot] = NoJournal => sel.slot = Legacy /\ current = Blank
  /\ pc = "convert" \/ (pc = "enable" /\ jcache[sel.slot] # NoJournal) =>
       current \in Records /\ repaired /\ current.identity = SelectedIdentity
  /\ pc = "confirm" /\ current # Blank => repaired
  /\ pc = "publish" => current \in Records /\ repaired /\ committed # Blank
\* What a boot knows of the slots until it writes to one.
KnownInv ==
  pc \in {"anchor", "enable"} =>
    /\ \A s \in Slots : Verified(jcache, scache, s) => sel.known[s] = scache[s].generation
    /\ \A r \in sel.reusable : scache[r.slot].generation = r.generation
    /\ committed # Blank => committed.identity.generation <= sel.generation
\* The slots that are written over or retired are none of those.
TargetInv ==
  /\ pc = "compact" \/ Staging => Avoids(target, SelectedIdentity)
  /\ Staging => \A x : Held(x) => Avoids(target, x.identity)
  /\ pc \in {"collect", "cleanup"} => \A t \in todo : Avoids(t, SelectedIdentity)
\* The legacy journal is there, with its header, or it is not.
LegacyInv == LegacyWhole \/ (jcache[Legacy] = NoJournal /\ jdisk[Legacy] = NoJournal)
\* How far the new generation is.
WrittenInv ==
  Staging =>
    /\ stage >= 5 => jcache[target] = [id |-> NewId, txs |-> Visible]
    /\ stage >= 6 => jdisk[target] = jcache[target]
    /\ stage >= 8 => scache[target] = NewSeal
    /\ stage = 9 => sdisk[target] = scache[target]

KInv ==
  /\ OInv /\ TInv /\ IInv
  /\ HeldKept /\ SelKept /\ QuietFiles /\ PhaseInv /\ KnownInv /\ TargetInv /\ LegacyInv /\ WrittenInv

-----------------------------------------------------------------------------
(* Slots that stay whole.                                                  *)

\* A place is a slot or the legacy journal, which is none.
LEMMA PlaceFacts == Legacy \notin Slots /\ Slots \subseteq Places /\ Legacy \in Places
BY SlotAssumption DEF Places, Slots, Legacy

\* A generation is kept as long as its own slot and its source's stay whole.
LEMMA KeptUnder ==
  ASSUME NEW i, Kept(i),
         \A s \in Slots : Whole(s) /\ ~Avoids(s, i) => Whole(s)' /\ scache'[s] = scache[s],
         LegacyWhole /\ ~Avoids(Legacy, i) => LegacyWhole'
  PROVE  Kept(i)' /\ (i.slot \in Slots => scache'[i.slot] = scache[i.slot])
<1>1. CASE i.slot = Legacy
  BY <1>1, PlaceFacts DEF Kept, Avoids, LegacyIdentity
<1>2. CASE i.slot # Legacy
  <2>1. i.slot \in Slots /\ i = IdentityOf(i.slot) /\ Whole(i.slot) /\ SourceWhole(i.slot)
    BY <1>2 DEF Kept
  <2>2. Whole(i.slot)' /\ scache'[i.slot] = scache[i.slot]
    BY <2>1 DEF Avoids
  <2>3. SourceWhole(i.slot)'
    <3>1. CASE scache[i.slot].generation = 1
      BY <2>1, <2>2, <3>1 DEF SourceWhole, Avoids
    <3>2. CASE scache[i.slot].generation # 1
      BY <2>1, <2>2, <3>2 DEF SourceWhole, Avoids
    <3> QED BY <3>1, <3>2
  <2>4. (i = IdentityOf(i.slot))'
    BY <2>1, <2>2 DEF IdentityOf
  <2> QED BY <1>2, <2>1, <2>2, <2>3, <2>4 DEF Kept
<1> QED BY <1>1, <1>2

\* A step on the files of one place keeps what avoids it.
OnlyAt(t) ==
  /\ \A p \in Places \ {t} : jcache'[p] = jcache[p] /\ jdisk'[p] = jdisk[p]
  /\ \A s \in Slots \ {t} : scache'[s] = scache[s] /\ sdisk'[s] = sdisk[s]
\* What is kept on such a step.
LEMMA KeptElsewhere ==
  ASSUME NEW t, OnlyAt(t), NEW i, Kept(i), Avoids(t, i)
  PROVE  Kept(i)' /\ (i.slot \in Slots => scache'[i.slot] = scache[i.slot])
<1>1. ASSUME NEW s \in Slots, Whole(s), ~Avoids(s, i) PROVE Whole(s)' /\ scache'[s] = scache[s]
  <2>1. s # t
    BY <1>1
  <2>2. /\ jcache'[s] = jcache[s] /\ jdisk'[s] = jdisk[s]
        /\ scache'[s] = scache[s] /\ sdisk'[s] = sdisk[s]
    BY <2>1, PlaceFacts DEF OnlyAt
  <2> QED BY <1>1, <2>2 DEF Whole, Verified
<1>2. ASSUME LegacyWhole, ~Avoids(Legacy, i) PROVE LegacyWhole'
  <2>1. Legacy # t
    BY <1>2
  <2> QED BY <1>2, <2>1, PlaceFacts DEF OnlyAt, LegacyWhole
<1> QED BY <1>1, <1>2, KeptUnder

\* A longer journal has the prefixes of the one it continues.
LEMMA PrefixGrows ==
  ASSUME NEW s \in Seq(Nat), NEW t \in Seq(Nat), NEW n \in Nat, IsPrefix(s, t)
  PROVE  IsPrefix(s, Append(t, n))
<1>1. Len(s) \in Nat /\ Len(t) \in Nat /\ Len(s) <= Len(t) /\ SubSeq(s, 1, Len(s)) = SubSeq(t, 1, Len(s))
  BY DEF IsPrefix
<1>2. Len(Append(t, n)) = Len(t) + 1 /\ \A k \in 1 .. Len(t) : Append(t, n)[k] = t[k]
  OBVIOUS
<1>3. SubSeq(Append(t, n), 1, Len(s)) = SubSeq(t, 1, Len(s))
  BY <1>1, <1>2
<1> QED BY <1>1, <1>2, <1>3 DEF IsPrefix

\* A step that leaves the files of the slots alone.
LEMMA KeptStill ==
  ASSUME UNCHANGED <<jcache, jdisk, scache, sdisk>>, NEW i, Kept(i)
  PROVE  Kept(i)' /\ (i.slot \in Slots => scache'[i.slot] = scache[i.slot])
BY DEF Kept, LegacyWhole, Whole, SourceWhole, Verified, IdentityOf

\* A commit makes a journal longer, and a flush copies it.
LEMMA KeptByGuests ==
  ASSUME OInv, TInv, CommitWrite \/ FlushJournal, NEW i, Kept(i)
  PROVE  Kept(i)' /\ (i.slot \in Slots => scache'[i.slot] = scache[i.slot])
<1>0. /\ UNCHANGED <<scache, sdisk>> /\ sel.slot \in Places /\ nextTx \in Nat
      /\ JournalsInv /\ SealedInv
  BY DEF CommitWrite, FlushJournal, OInv, SelInv, Selection, TInv, GuestsInv
<1>1. CASE CommitWrite
  <2>1. jcache' = [jcache EXCEPT ![sel.slot].txs = Append(@, nextTx)] /\ jdisk' = jdisk
    BY <1>1 DEF CommitWrite
  <2>2. ASSUME NEW p \in Places
        PROVE  /\ jcache'[p].id = jcache[p].id
               /\ jcache'[p].txs = jcache[p].txs \/ jcache'[p].txs = Append(jcache[p].txs, nextTx)
               /\ jcache[p].txs \in Seq(Nat)
    <3>1. DOMAIN jcache = Places /\ jcache[p] \in Journals
      BY <1>0 DEF JournalsInv, JournalBounded
    <3> QED BY <2>1, <3>1 DEF Journals
  <2>3. ASSUME NEW s \in Slots, Whole(s) PROVE Whole(s)' /\ scache'[s] = scache[s]
    <3>1. IsPrefix(scache[s].sealed, jcache[s].txs) /\ scache[s].sealed \in Seq(Nat)
      BY <1>0, <2>3 DEF Whole, Verified, SealedInv, Sealed
    <3>2. IsPrefix(scache[s].sealed, jcache'[s].txs)
      BY <1>0, <2>2, <3>1, PrefixGrows, PlaceFacts
    <3>3. jcache'[s].id = jcache[s].id
      BY <2>2, PlaceFacts
    <3> QED BY <1>0, <2>1, <2>3, <3>2, <3>3 DEF Whole, Verified
  <2>4. LegacyWhole => LegacyWhole'
    BY <2>1, <2>2, PlaceFacts DEF LegacyWhole
  <2> QED BY <2>3, <2>4, KeptUnder
<1>2. CASE FlushJournal
  <2>1. jdisk' = [jdisk EXCEPT ![sel.slot] = jcache[sel.slot]] /\ jcache' = jcache
    BY <1>2 DEF FlushJournal
  <2>2. \A p \in Places : jdisk'[p] = jdisk[p] \/ jdisk'[p] = jcache[p]
    BY <1>0, <2>1 DEF JournalsInv
  <2>3. ASSUME NEW s \in Slots, Whole(s) PROVE Whole(s)' /\ scache'[s] = scache[s]
    BY <1>0, <2>1, <2>2, <2>3, PlaceFacts DEF Whole, Verified
  <2>4. LegacyWhole => LegacyWhole'
    BY <2>1, <2>2, PlaceFacts DEF LegacyWhole
  <2> QED BY <2>3, <2>4, KeptUnder
<1> QED BY <1>1, <1>2

\* A compaction flushes its source and writes its target, a conversion only the
\* target.
LEMMA KeptByPrepare ==
  ASSUME OInv, TInv, StagePrepare, NEW i, Kept(i), Avoids(target, i)
  PROVE  Kept(i)' /\ (i.slot \in Slots => scache'[i.slot] = scache[i.slot])
<1>0. /\ UNCHANGED <<scache, sdisk>> /\ sel.slot \in Places /\ JournalsInv
      /\ jdisk' = [jdisk EXCEPT ![sel.slot] = jcache[sel.slot]] \/ jdisk' = jdisk
      /\ \A p \in Places \ {target} : jcache'[p] = jcache[p]
  BY DEF StagePrepare, OInv, SelInv, Selection, TInv, JournalsInv
<1>2. \A p \in Places : jdisk'[p] = jdisk[p] \/ jdisk'[p] = jcache[p]
  BY <1>0 DEF JournalsInv
<1>3. ASSUME NEW s \in Slots, Whole(s), ~Avoids(s, i) PROVE Whole(s)' /\ scache'[s] = scache[s]
  <2>1. s # target /\ s \in Places
    BY <1>3, PlaceFacts
  <2> QED BY <1>0, <1>2, <1>3, <2>1 DEF Whole, Verified
<1>4. ASSUME LegacyWhole, ~Avoids(Legacy, i) PROVE LegacyWhole'
  <2>1. Legacy # target /\ Legacy \in Places
    BY <1>4, PlaceFacts
  <2> QED BY <1>0, <1>2, <1>4, <2>1 DEF LegacyWhole
<1> QED BY <1>3, <1>4, KeptUnder

\* The kernel gives a new legacy journal its header.
LEMMA KeptByEnable ==
  ASSUME OInv, TInv, Enable, jcache[sel.slot] = NoJournal => sel.slot = Legacy, NEW i, Kept(i)
  PROVE  Kept(i)' /\ (i.slot \in Slots => scache'[i.slot] = scache[i.slot])
<1>0. UNCHANGED <<scache, sdisk>> /\ JournalsInv
  BY DEF Enable, TInv
<1>1. CASE jcache[sel.slot] = NoJournal
  <2>1. /\ jcache' = [jcache EXCEPT ![Legacy].id = LegacyId]
        /\ jdisk' = [jdisk EXCEPT ![Legacy].id = LegacyId]
    BY <1>1 DEF Enable
  <2>2. OnlyAt(Legacy)
    BY <1>0, <2>1 DEF OnlyAt, JournalsInv
  <2>3. LegacyWhole'
    <3>1. /\ DOMAIN jcache = Places /\ jcache[Legacy] \in Journals
          /\ DOMAIN jdisk = Places /\ jdisk[Legacy] \in Journals
      BY <1>0, PlaceFacts DEF JournalsInv, JournalBounded
    <3> QED BY <2>1, <3>1, PlaceFacts DEF LegacyWhole, Journals
  <2>4. ASSUME NEW s \in Slots, Whole(s) PROVE Whole(s)' /\ scache'[s] = scache[s]
    BY <1>0, <2>2, <2>4, PlaceFacts DEF OnlyAt, Whole, Verified
  <2> QED BY <2>3, <2>4, KeptUnder
<1>2. CASE jcache[sel.slot] # NoJournal
  BY <1>0, <1>2, KeptStill DEF Enable
<1> QED BY <1>1, <1>2

\* The power goes: only a seal in flight can be torn.
LEMMA KeptByPower ==
  ASSUME OInv, TInv, PowerFails, NEW i, Kept(i), Staging => Avoids(target, i)
  PROVE  Kept(i)' /\ (i.slot \in Slots => scache'[i.slot] = scache[i.slot])
<1>1. /\ \A p \in Places : jdisk'[p] = jdisk[p] \/ jdisk'[p] = jcache[p]
      /\ jcache' = jdisk' /\ scache' = sdisk'
      /\ \A s \in Slots : \/ sdisk'[s] = scache[s] \/ sdisk'[s] = sdisk[s]
                          \/ SealInFlight(s)
  BY DEF PowerFails
<1>2. ASSUME NEW s \in Slots, Whole(s), ~Avoids(s, i) PROVE Whole(s)' /\ scache'[s] = scache[s]
  <2>1. ~SealInFlight(s) /\ s \in Places
    BY <1>2, PlaceFacts DEF SealInFlight
  <2>2. sdisk'[s] = scache[s] /\ scache'[s] = scache[s] /\ sdisk[s] = scache[s]
    BY <1>1, <1>2, <2>1 DEF Whole
  <2> QED BY <1>1, <1>2, <2>1, <2>2 DEF Whole, Verified
<1>3. LegacyWhole => LegacyWhole'
  BY <1>1, PlaceFacts DEF LegacyWhole
<1> QED BY <1>2, <1>3, KeptUnder

-----------------------------------------------------------------------------
(* What the records of the pair name.                                      *)

\* Whatever the pair does to its files, it only moves the records it holds.
LEMMA HeldMoves ==
  ASSUME IInv, NEW x, Held(x)',
         \/ UNCHANGED controls \/ OpenControls \/ PrepareControls \/ LoopStep
         \/ CloseControls \/ ControlsLost \/ LosePower
  PROVE  Held(x)
<1>0. /\ x \in Records /\ x # Blank /\ x # Torn
      /\ cache \in [Replicas -> Content] /\ disk \in [Replicas -> Content]
      /\ at \in Replicas /\ Replicas = {0, 1}
  BY RecordFacts DEF Held, IInv, ControlTypeOK, Replicas
<1>1. CASE UNCHANGED controls
  BY <1>1 DEF Held, controls, files, loop, pair
<1>2. CASE OpenControls
  <2>1. SelectActivation(cache) \in {cache[0], cache[1], Blank}
    BY DEF SelectActivation
  <2> QED BY <1>0, <1>2, <2>1 DEF OpenControls, Held, files, loop
<1>3. CASE PrepareControls
  BY <1>0, <1>3 DEF PrepareControls, Held, files, pair
<1>4. CASE LoopStep
  <2>1. CASE WriteAllAt
    BY <1>0, <2>1 DEF WriteAllAt, Held, pair
  <2>2. CASE TruncateRecord
    BY <1>0, <2>2 DEF TruncateRecord, Held, pair, Writing
  <2>3. CASE FlushRecord
    BY <1>0, <2>3 DEF FlushRecord, NextReplica, PublishReturns, Held, Writing
  <2>4. CASE SkipReplica
    BY <1>0, <2>4 DEF SkipReplica, NextReplica, Held, files, pair, Writing
  <2>5. CASE SettleReplica
    BY <1>0, <2>5 DEF SettleReplica, Held
  <2> QED BY <1>4, <2>1, <2>2, <2>3, <2>4, <2>5 DEF LoopStep
<1>5. CASE CloseControls \/ ControlsLost
  BY <1>0, <1>5 DEF CloseControls, ControlsLost, GiveUp, Held, files
<1>6. CASE LosePower
  <2>1. /\ disk'[0] \in {cache[0], disk[0], Torn} /\ disk'[1] \in {cache[1], disk[1], Torn}
        /\ cache' = disk'
    BY <1>0, <1>6 DEF LosePower, Outcomes
  <2> QED BY <1>0, <1>6, <2>1 DEF LosePower, GiveUp, Held
<1> QED BY <1>1, <1>2, <1>3, <1>4, <1>5, <1>6

\* A publication adds the record it writes.
LEMMA HeldPublished ==
  ASSUME NEW identity, PublishRecord(identity), NEW x, Held(x)'
  PROVE  Held(x) \/ x = NextActivation(current, identity)
BY DEF PublishRecord, Held, files, loop, pair

\* While guests run, only the published record is held.
LEMMA QuietHeld ==
  ASSUME KInv, pc \in {"collect", "up", "compact", "stage", "cleanup"}, NEW x, Held(x)
  PROVE  x = committed /\ x.identity = SelectedIdentity
<1>1. /\ committed.identity = SelectedIdentity /\ 0 \in Replicas /\ 1 \in Replicas
      /\ \A r \in Replicas : cache[r] = committed /\ disk[r] = committed
  BY DEF KInv, QuietFiles, Replicas
<1>2. x # Blank /\ x \in Records
  BY RecordFacts DEF Held
<1>3. current = Blank \/ current = committed
  BY DEF KInv, QuietFiles, IInv, ClosedInv
<1>4. task # "none" => record = committed
  <2>1. CASE mode = "closed"
    BY <2>1 DEF KInv, IInv, ClosedInv
  <2>2. CASE mode # "closed"
    <3>1. current = committed /\ task # "publish"
      BY <2>2 DEF KInv, QuietFiles
    <3>2. task \in {"none", "repair", "settle"}
      BY <3>1 DEF KInv, IInv, ControlTypeOK
    <3> QED BY <3>1, <3>2 DEF KInv, IInv, RepairInv
  <2> QED BY <2>1, <2>2
<1> QED BY <1>1, <1>2, <1>3, <1>4 DEF Held

\* The generations that a record or the selection names.
Guarded(i) == (\E x : Held(x) /\ x.identity = i) \/ (Selecting /\ i = SelectedIdentity)

\* They are kept now.
LEMMA GuardedIsKept ==
  ASSUME KInv, NEW i, Guarded(i)
  PROVE  Kept(i)
BY DEF Guarded, KInv, HeldKept, SelKept

\* The slot being written over is in none of them.
LEMMA GuardedAvoids ==
  ASSUME KInv, Staging, NEW i, Guarded(i)
  PROVE  Avoids(target, i)
BY DEF Guarded, KInv, TargetInv

\* Nor are the slots to be retired; the legacy journal is only retired when
\* nothing is made from it.
LEMMA GuardedIsSelected ==
  ASSUME KInv, pc \in {"collect", "cleanup"}, NEW i, Guarded(i)
  PROVE  i = SelectedIdentity /\ \A t \in todo : Avoids(t, i)
<1>1. i = SelectedIdentity
  BY QuietHeld DEF Guarded
<1> QED BY <1>1 DEF KInv, TargetInv

\* Whatever happens to the slots, no step takes away a generation that a record
\* or the selection names.
LEMMA GuardedKept ==
  ASSUME KInv, [Next]_vars, NEW i, Guarded(i)
  PROVE  Kept(i)' /\ (i.slot \in Slots => scache'[i.slot] = scache[i.slot])
<1>0. Kept(i) /\ OInv /\ TInv
  BY GuardedIsKept DEF KInv
<1>1. CASE \/ UNCHANGED vars \/ CommitFails \/ BootOpen \/ Scan \/ Anchor \/ AnchorDone \/ Confirm
           \/ ConfirmDone \/ RetireFails \/ BootDone \/ CompactOpen \/ CompactPrepare
  <2>1. UNCHANGED <<jcache, jdisk, scache, sdisk>>
    BY <1>1 DEF vars, slots, CommitFails, BootOpen, Scan, Anchor, AnchorDone, Confirm, ConfirmDone,
                RetireFails, BootDone, CompactOpen, CompactPrepare
  <2> QED BY <1>0, <2>1, KeptStill
<1>2. CASE \/ CompactBegin \/ ConvertBegin \/ Activate \/ Publish \/ PublishDone
           \/ LegacyRetireFails \/ ControlStep \/ CompactFails \/ PublishFails \/ ProcessDies
  <2>1. UNCHANGED <<jcache, jdisk, scache, sdisk>>
    BY <1>2 DEF slots, CompactBegin, ConvertBegin, Activate, Publish, PublishDone,
                LegacyRetireFails, ControlStep, CompactFails, PublishFails, ProcessDies
  <2> QED BY <1>0, <2>1, KeptStill
<1>3. CASE CommitWrite \/ FlushJournal
  BY <1>0, <1>3, KeptByGuests
<1>4. CASE Enable
  BY <1>0, <1>4, KeptByEnable DEF Enable, KInv, PhaseInv
<1>5. CASE RetireSeal \/ RetireFiles
  <2> DEFINE t == Min(todo)
  <2>1. todo # {} /\ todo \subseteq Slots /\ pc \in {"collect", "cleanup"}
    BY <1>0, <1>5 DEF RetireSeal, RetireFiles, TInv, HostInv
  <2>2. t \in todo
    <3>1. todo \in SUBSET Nat
      BY <2>1, SlotAssumption DEF Slots
    <3> QED BY <2>1, <3>1, LeastExists
  <2>3. OnlyAt(t)
    <3> HIDE DEF t
    <3>1. /\ DOMAIN jcache = Places /\ DOMAIN jdisk = Places
          /\ DOMAIN scache = Slots /\ DOMAIN sdisk = Slots
      BY <1>0 DEF TInv, JournalsInv, SealedInv
    <3> QED BY <1>5, <3>1 DEF RetireSeal, RetireFiles, OnlyAt, t
  <2> HIDE DEF t
  <2> QED BY <1>0, <2>1, <2>2, <2>3, GuardedIsSelected, KeptElsewhere
<1>6. CASE \/ StageInvalidate \/ StageFlushSeal \/ StageTruncate \/ StageFlushJournal
           \/ StageSeal \/ StageFails \/ ConvertFails
  <2>1. Staging
    BY <1>6 DEF StageInvalidate, StageFlushSeal, StageTruncate, StageFlushJournal, StageSeal,
                StageFails, ConvertFails, Staging
  <2>2. OnlyAt(target)
    <3>1. /\ DOMAIN jcache = Places /\ DOMAIN jdisk = Places
          /\ DOMAIN scache = Slots /\ DOMAIN sdisk = Slots
      BY <1>0 DEF TInv, JournalsInv, SealedInv
    <3>2. CASE StageFails \/ ConvertFails
      BY <3>1, <3>2 DEF StageFails, ConvertFails, SealDiscarded, SealKept, OnlyAt
    <3>3. CASE StageInvalidate \/ StageFlushSeal \/ StageTruncate \/ StageFlushJournal \/ StageSeal
      BY <3>1, <3>3 DEF StageInvalidate, StageFlushSeal, StageTruncate, StageFlushJournal, StageSeal, OnlyAt
    <3> QED BY <1>6, <3>2, <3>3
  <2> QED BY <1>0, <2>1, <2>2, GuardedAvoids, KeptElsewhere
<1>7. CASE StagePrepare
  BY <1>0, <1>7, GuardedAvoids, KeptByPrepare DEF StagePrepare
<1>8. CASE CleanupDone
  <2>1. CASE LegacyRetirable
    <3>1. OnlyAt(Legacy)
      BY <1>0, <1>8, <2>1 DEF CleanupDone, OnlyAt, TInv, JournalsInv
    <3>2. i = SelectedIdentity
      BY <1>8, GuardedIsSelected DEF CleanupDone
    <3>3. sel.generation = 2 /\ sel.source \in Slots
      BY <2>1 DEF LegacyRetirable
    <3>4. sel.slot # Legacy
      BY <1>0, <3>3 DEF OInv, SelInv
    <3>5. i.slot = sel.slot /\ sel.slot \in Slots
      BY <1>0, <3>2, <3>4 DEF SelectedIdentity, OInv, SelInv, Selection, Places
    <3>6. sel.source = scache[sel.slot].source
      BY <1>8, <3>5 DEF CleanupDone, KInv, SelKept, Selecting
    <3>7. Avoids(Legacy, i)
      BY <3>3, <3>4, <3>5, <3>6, PlaceFacts DEF Avoids
    <3> QED BY <1>0, <3>1, <3>7, KeptElsewhere
  <2>2. CASE ~LegacyRetirable
    BY <1>0, <1>8, <2>2, KeptStill DEF CleanupDone
  <2> QED BY <2>1, <2>2
<1>9. CASE PowerFails
  BY <1>0, <1>9, GuardedAvoids, KeptByPower
<1> QED BY <1>1, <1>2, <1>3, <1>4, <1>5, <1>6, <1>7, <1>8, <1>9 DEF Next

\* What a step does to the pair: it moves the records that are held, or a boot
\* or a compaction publishes the selection.
PairMoves ==
  \/ UNCHANGED controls \/ OpenControls \/ PrepareControls \/ LoopStep
  \/ CloseControls \/ ControlsLost \/ LosePower
\* Every step is one of these.
LEMMA PairSteps ==
  ASSUME KInv, [Next]_vars
  PROVE  \/ PairMoves
         \/ /\ Anchor \/ Confirm \/ Publish
            /\ PublishRecord(SelectedIdentity) /\ Selecting
            /\ current = Blank => sel.slot = Legacy
<1>1. CASE UNCHANGED vars
  BY <1>1 DEF vars, PairMoves
<1>2. CASE CommitWrite \/ FlushJournal \/ Scan \/ AnchorDone \/ Enable \/ BootDone
  BY <1>2 DEF CommitWrite, FlushJournal, Scan, AnchorDone, Enable, BootDone, PairMoves
<1>3. CASE RetireSeal \/ RetireFiles \/ RetireFails \/ CleanupDone \/ LegacyRetireFails
  BY <1>3 DEF RetireSeal, RetireFiles, RetireFails, CleanupDone, LegacyRetireFails, PairMoves
<1>4. CASE CompactBegin \/ ConvertBegin \/ Activate \/ ConvertFails
  BY <1>4 DEF CompactBegin, ConvertBegin, Activate, ConvertFails, PairMoves
<1>5. CASE \/ StageInvalidate \/ StageFlushSeal \/ StageTruncate \/ StagePrepare
           \/ StageFlushJournal \/ StageSeal
  BY <1>5
  DEF StageInvalidate, StageFlushSeal, StageTruncate, StagePrepare, StageFlushJournal, StageSeal,
      Staged, PairMoves
<1>6. CASE \/ CommitFails \/ BootOpen \/ ConfirmDone \/ CompactOpen \/ CompactPrepare
           \/ PublishDone \/ ControlStep
  BY <1>6
  DEF CommitFails, BootOpen, ConfirmDone, CompactOpen, CompactPrepare, PublishDone, ControlStep,
      PairMoves
<1>7. CASE CompactFails \/ StageFails \/ PublishFails \/ ProcessDies \/ PowerFails
  BY <1>7 DEF CompactFails, StageFails, PublishFails, ProcessDies, PowerFails, PairMoves
<1>8. CASE Anchor
  BY <1>8 DEF Anchor, PairMoves, Selecting, KInv, PhaseInv
<1>9. CASE Confirm
  BY <1>9 DEF Confirm, Selecting, KInv, PhaseInv
<1>10. CASE Publish
  <2>1. current # Blank
    BY <1>10, RecordFacts DEF Publish, KInv, PhaseInv
  <2> QED BY <1>10, <2>1 DEF Publish, Selecting
<1> QED
  BY <1>1, <1>2, <1>3, <1>4, <1>5, <1>6, <1>7, <1>8, <1>9, <1>10 DEF Next

\* Every record that is held names a generation that is kept.
LEMMA HeldKeptStep == KInv /\ [Next]_vars => HeldKept'
<1> SUFFICES ASSUME KInv, [Next]_vars, NEW x, Held(x)'
             PROVE  Kept(x.identity)' /\ x.sequence = x.identity.generation + 1
  BY DEF HeldKept
<1>1. CASE Held(x)
  <2>1. Guarded(x.identity)
    BY <1>1 DEF Guarded
  <2>2. x.sequence = x.identity.generation + 1
    BY <1>1 DEF KInv, HeldKept
  <2> QED BY <2>1, <2>2, GuardedKept
<1>2. CASE ~Held(x)
  <2>1. /\ PublishRecord(SelectedIdentity) /\ Selecting /\ (current = Blank => sel.slot = Legacy)
        /\ x = NextActivation(current, SelectedIdentity)
    BY <1>2, PairSteps, HeldMoves, HeldPublished DEF PairMoves, KInv
  <2>2. x.identity = SelectedIdentity
    BY <2>1 DEF NextActivation
  <2>3. Kept(x.identity)'
    BY <2>1, <2>2, GuardedKept DEF Guarded
  <2>4. x.sequence = x.identity.generation + 1
    <3>1. CASE current = Blank
      <4>1. SelectedIdentity.generation = 0 /\ x.sequence = 1
        BY <2>1, <3>1 DEF SelectedIdentity, LegacyIdentity, NextActivation
      <4> QED BY <2>2, <4>1
    <3>2. CASE current # Blank
      <4>1. Held(current) /\ current \in Records
        BY <3>2 DEF Held, KInv, IInv, ControlTypeOK
      <4>2. current.sequence = current.identity.generation + 1
        BY <4>1 DEF KInv, HeldKept
      <4>3. current.identity.generation \in Nat
        BY <4>1, IdentityAssumption DEF Records
      <4>4. /\ current.identity = SelectedIdentity => x.sequence = current.sequence
            /\ current.identity # SelectedIdentity =>
                 /\ x.sequence = current.sequence + 1
                 /\ SelectedIdentity.generation = current.identity.generation + 1
        BY <2>1, <3>2 DEF NextActivation, PublishRecord, MayFollow
      <4> QED BY <2>2, <4>2, <4>3, <4>4
    <3> QED BY <3>1, <3>2
  <2> QED BY <2>3, <2>4
<1> QED BY <1>1, <1>2

\* A boot selects what the record names, or the legacy journal if there is none.
LEMMA ScanSelects ==
  ASSUME KInv, Scan, pc' # "refused"
  PROVE  /\ current # Blank => SelectedIdentity' = current.identity
         /\ current = Blank => sel'.slot = Legacy /\ SelectedIdentity' = LegacyIdentity
         /\ sel'.slot \in Slots => sel'.source = scache[sel'.slot].source
         /\ sel'.generation = SelectedIdentity'.generation
         /\ pc' = "enable" <=> sel'.slot = Legacy /\ jcache[Legacy] = NoJournal
         /\ pc' = "enable" => current = Blank
<1> DEFINE s == IF Anchored THEN current.identity.slot ELSE Legacy
<1>1. /\ sel'.slot = s
      /\ sel'.generation = IF Anchored THEN scache[s].generation ELSE 0
      /\ sel'.id = IF Anchored THEN scache[s].id ELSE 0
      /\ sel'.source = IF Anchored THEN scache[s].source ELSE NoSlot
  BY DEF Scan
<1>2. /\ ~InventoryRefused /\ ~LegacyRefused
      /\ pc' = IF s = Legacy /\ jcache[Legacy] = NoJournal THEN "enable" ELSE "anchor"
  BY DEF Scan
<1>3. CASE Anchored
  <2>1. s = current.identity.slot /\ s \in Slots /\ s # Legacy /\ current # Blank
    BY <1>3, PlaceFacts DEF Anchored, Found
  <2>2. current.identity = IdentityOf(s)
    BY <1>2, <1>3, <2>1 DEF InventoryRefused
  <2>3. SelectedIdentity' = IdentityOf(s)
    BY <1>1, <1>3, <2>1 DEF SelectedIdentity, IdentityOf
  <2>4. IdentityOf(s).generation = scache[s].generation
    BY DEF IdentityOf
  <2> HIDE DEF s
  <2> QED BY <1>1, <1>2, <1>3, <2>1, <2>2, <2>3, <2>4
<1>4. CASE ~Anchored
  <2>1. s = Legacy /\ sel'.slot = Legacy /\ sel'.generation = 0
    BY <1>1, <1>4
  <2>2. SelectedIdentity' = LegacyIdentity
    BY <2>1 DEF SelectedIdentity, LegacyIdentity
  <2>3. LegacyIdentity.generation = 0
    BY DEF LegacyIdentity
  <2>4. current # Blank => current.identity = LegacyIdentity
    <3> SUFFICES ASSUME current # Blank PROVE current.identity = LegacyIdentity
      OBVIOUS
    <3>1. current.identity.slot = Legacy
      BY <1>2, <1>4 DEF InventoryRefused
    <3>2. Held(current)
      BY DEF Held, KInv, IInv, ControlTypeOK
    <3> QED BY <3>1, <3>2 DEF KInv, HeldKept, Kept
  <2>5. jcache[Legacy] = NoJournal => current = Blank
    BY <1>2, <1>4 DEF LegacyRefused
  <2> HIDE DEF s
  <2> QED BY <1>2, <2>1, <2>2, <2>3, <2>4, <2>5, PlaceFacts
<1> QED BY <1>3, <1>4

\* No other step but the activation selects.
LEMMA SelectionStays ==
  ASSUME KInv, [Next]_vars, Selecting', ~Scan, ~Activate, ~Enable
  PROVE  /\ Selecting /\ SelectedIdentity' = SelectedIdentity
         /\ sel'.slot = sel.slot /\ sel'.source = sel.source /\ sel'.generation = sel.generation
<1>0. sel \in Selection
  BY DEF KInv, OInv, SelInv
<1>1. ~BootOpen /\ ~CommitFails /\ ~PublishFails /\ ~ProcessDies /\ ~PowerFails
  <2>1. Selecting' => pc' \notin {"scan", "refused", "poisoned", "down"}
    BY DEF Selecting
  <2> QED BY <2>1 DEF BootOpen, CommitFails, PublishFails, ProcessDies, PowerFails, Stopped
<1>2. sel' = sel \/ \E t, v : sel' = [sel EXCEPT !.known[t] = v]
  <2>1. CASE UNCHANGED vars \/ CommitWrite \/ FlushJournal \/ Anchor \/ AnchorDone \/ Confirm
    BY <2>1 DEF vars, host, CommitWrite, FlushJournal, Anchor, AnchorDone, Confirm
  <2>2. CASE \/ ConfirmDone \/ RetireSeal \/ RetireFiles \/ RetireFails \/ BootDone
             \/ CompactOpen \/ CompactPrepare \/ CompactBegin \/ ConvertBegin
    BY <2>2 DEF host, ConfirmDone, RetireSeal, RetireFiles, RetireFails, BootDone, CompactOpen,
                CompactPrepare, CompactBegin, ConvertBegin
  <2>3. CASE \/ StageInvalidate \/ StageFlushSeal \/ StageTruncate \/ StagePrepare
             \/ StageFlushJournal \/ StageSeal
    BY <2>3 DEF StageInvalidate, StageFlushSeal, StageTruncate, StagePrepare, StageFlushJournal,
                StageSeal, Staged, host
  <2>4. CASE \/ Publish \/ PublishDone \/ CleanupDone \/ LegacyRetireFails \/ ControlStep
             \/ CompactFails \/ StageFails \/ ConvertFails
    BY <2>4 DEF host, Publish, PublishDone, CleanupDone, LegacyRetireFails, ControlStep,
                CompactFails, StageFails, ConvertFails
  <2> QED BY <1>1, <2>1, <2>2, <2>3, <2>4 DEF Next
<1>3. /\ sel'.slot = sel.slot /\ sel'.source = sel.source /\ sel'.generation = sel.generation
      /\ sel'.id = sel.id
  BY <1>0, <1>2 DEF Selection
<1>4. SelectedIdentity' = SelectedIdentity
  BY <1>3 DEF SelectedIdentity
<1>5. Selecting
  <2>1. CASE UNCHANGED vars \/ CommitWrite \/ FlushJournal \/ Anchor \/ AnchorDone \/ Confirm
    BY <1>3, <2>1
    DEF vars, slots, CommitWrite, FlushJournal, Anchor, AnchorDone, Confirm, Selecting, GuestsRun
  <2>2. CASE \/ ConfirmDone \/ RetireSeal \/ RetireFiles \/ RetireFails \/ BootDone
             \/ CompactOpen \/ CompactPrepare \/ CompactBegin \/ ConvertBegin
    BY <2>2 DEF ConfirmDone, RetireSeal, RetireFiles, RetireFails, BootDone, CompactOpen,
                CompactPrepare, CompactBegin, ConvertBegin, Selecting
  <2>3. CASE \/ StageInvalidate \/ StageFlushSeal \/ StageTruncate \/ StagePrepare
             \/ StageFlushJournal \/ StageSeal
    BY <2>3 DEF StageInvalidate, StageFlushSeal, StageTruncate, StagePrepare, StageFlushJournal,
                StageSeal, Staging, Selecting
  <2>4. CASE \/ Publish \/ PublishDone \/ CleanupDone \/ LegacyRetireFails \/ ControlStep
             \/ CompactFails \/ StageFails \/ ConvertFails
    BY <1>3, <2>4 DEF slots, Publish, PublishDone, CleanupDone, LegacyRetireFails, ControlStep,
                CompactFails, StageFails, ConvertFails, Selecting
  <2> QED BY <1>1, <2>1, <2>2, <2>3, <2>4 DEF Next
<1> QED BY <1>3, <1>4, <1>5

-----------------------------------------------------------------------------
(* The selection.                                                          *)

\* A journal is a prefix of itself.
LEMMA PrefixOfItself == ASSUME NEW t \in Seq(Nat) PROVE IsPrefix(t, t)
BY DEF IsPrefix

\* The new generation is whole when the mount moves to it, and so is the one it
\* was made from.
LEMMA ActivateSelects ==
  ASSUME KInv, Activate
  PROVE  /\ Kept(SelectedIdentity)' /\ sel'.slot = target /\ target \in Slots
         /\ sel'.source = scache'[target].source /\ sel'.source = sel.slot
<1>0. /\ UNCHANGED <<jcache, jdisk, scache, sdisk>> /\ Staging /\ stage = 9
      /\ target \in Slots /\ target # Legacy /\ target \in Places
      /\ sel'.slot = target /\ sel'.generation = sel.generation + 1 /\ sel'.id = NewId
      /\ sel'.source = sel.slot
  BY PlaceFacts DEF Activate, NewSelection, slots, KInv, OInv, StageInv, Staging
<1>1. /\ jcache[target] = [id |-> NewId, txs |-> Visible] /\ jdisk[target] = jcache[target]
      /\ scache[target] = NewSeal /\ sdisk[target] = scache[target]
  BY <1>0 DEF KInv, WrittenInv
<1>2. /\ jcache[target].id = NewId /\ NewSeal.id = NewId /\ NewSeal.sealed = jcache[target].txs
      /\ NewSeal.generation = sel.generation + 1 /\ NewSeal.source = sel.slot
      /\ NewId > 0
  <2>1. NewId = attempts + 1 /\ attempts \in Nat
    BY SelectionFacts DEF KInv, NewId, LegacyId
  <2> QED BY <1>1, <2>1 DEF NewSeal
<1>3. Whole(target)
  <2>1. jcache[target].txs \in Seq(Nat)
    BY <1>0 DEF KInv, TInv, JournalsInv, JournalBounded, Journals
  <2>2. IsPrefix(jcache[target].txs, jcache[target].txs)
    BY <2>1, PrefixOfItself
  <2> HIDE DEF NewSeal
  <2> QED BY <1>1, <1>2, <2>2 DEF Whole, Verified
<1>4. Kept(SelectedIdentity)
  BY <1>0 DEF KInv, SelKept, Selecting, Staging
<1>5. SourceWhole(target)
  <2>1. CASE sel.slot = Legacy
    <3>1. sel.generation = 0 /\ LegacyWhole
      BY <1>4, <2>1 DEF KInv, OInv, SelInv, SelectedIdentity, LegacyIdentity, Kept
    <3> HIDE DEF NewSeal
    <3> QED BY <1>1, <1>2, <2>1, <3>1 DEF SourceWhole
  <2>2. CASE sel.slot # Legacy
    <3>1. SelectedIdentity = [slot |-> sel.slot, generation |-> sel.generation, seal |-> sel.id]
      BY <2>2 DEF SelectedIdentity
    <3>2. sel.slot \in Slots /\ Whole(sel.slot) /\ SelectedIdentity = IdentityOf(sel.slot)
      BY <1>4, <2>2, <3>1 DEF Kept
    <3>3. scache[sel.slot].generation = sel.generation
      BY <3>1, <3>2 DEF IdentityOf
    <3>4. sel.slot # target
      BY <1>0, <3>1 DEF KInv, TargetInv, Avoids
    <3>5. sel.generation \in 1 .. attempts
      BY <3>2 DEF KInv, OInv, SelInv
    <3>6. sel.generation + 1 # 1
      BY <3>5
    <3> HIDE DEF NewSeal
    <3> QED BY <1>1, <1>2, <3>2, <3>3, <3>4, <3>6 DEF SourceWhole
  <2> QED BY <2>1, <2>2
<1>6. SelectedIdentity' = IdentityOf(target)
  <2> HIDE DEF NewSeal
  <2> QED BY <1>0, <1>1, <1>2 DEF SelectedIdentity, IdentityOf
<1>7. PICK i : i = IdentityOf(target)
  OBVIOUS
<1>8. Kept(i)
  <2>1. i.slot = target
    BY <1>7 DEF IdentityOf
  <2> QED BY <1>0, <1>3, <1>5, <1>7, <2>1 DEF Kept
<1>9. Kept(i)'
  BY <1>0, <1>8, KeptStill
<1>10. Kept(SelectedIdentity)'
  BY <1>6, <1>7, <1>9 DEF Kept, LegacyWhole, Whole, SourceWhole, Verified, IdentityOf
<1> HIDE DEF NewSeal
<1> QED BY <1>0, <1>1, <1>2, <1>10

\* The legacy journal comes and goes as one.
LEMMA LegacyStep == KInv /\ [Next]_vars => LegacyInv'
<1> SUFFICES ASSUME KInv, [Next]_vars PROVE LegacyInv'
  OBVIOUS
<1>0. OInv /\ TInv /\ LegacyInv /\ JournalsInv
  BY DEF KInv, TInv
<1>1. CASE jcache'[Legacy] = jcache[Legacy] /\ jdisk'[Legacy] = jdisk[Legacy]
  BY <1>0, <1>1 DEF LegacyInv, LegacyWhole
<1>2. CASE \/ UNCHANGED vars \/ CommitFails \/ BootOpen \/ Scan \/ Anchor \/ AnchorDone \/ Confirm
           \/ ConfirmDone \/ RetireFails \/ BootDone \/ CompactOpen \/ CompactPrepare
  BY <1>1, <1>2 DEF vars, slots, CommitFails, BootOpen, Scan, Anchor, AnchorDone, Confirm,
                    ConfirmDone, RetireFails, BootDone, CompactOpen, CompactPrepare
<1>3. CASE \/ CompactBegin \/ ConvertBegin \/ Activate \/ Publish \/ PublishDone
           \/ LegacyRetireFails \/ ControlStep \/ CompactFails \/ PublishFails \/ ProcessDies
  BY <1>1, <1>3 DEF slots, CompactBegin, ConvertBegin, Activate, Publish, PublishDone,
                    LegacyRetireFails, ControlStep, CompactFails, PublishFails, ProcessDies
<1>4. CASE CommitWrite \/ FlushJournal
  <2>1. CASE sel.slot # Legacy
    BY <1>0, <1>1, <1>4, <2>1, PlaceFacts DEF CommitWrite, FlushJournal, JournalsInv
  <2>2. CASE sel.slot = Legacy
    <3>1. Guarded(LegacyIdentity)
      BY <1>4, <2>2 DEF CommitWrite, FlushJournal, GuestsRun, Guarded, Selecting, SelectedIdentity
    <3>2. Kept(LegacyIdentity)'
      BY <3>1, GuardedKept
    <3>3. LegacyIdentity.slot = Legacy
      BY DEF LegacyIdentity
    <3> QED BY <3>2, <3>3 DEF Kept, LegacyInv, LegacyIdentity
  <2> QED BY <2>1, <2>2
<1>5. CASE Enable
  <2>1. CASE jcache[sel.slot] = NoJournal
    <3>1. sel.slot = Legacy
      BY <1>5, <2>1 DEF Enable, KInv, PhaseInv
    <3>2. /\ jcache' = [jcache EXCEPT ![Legacy].id = LegacyId]
          /\ jdisk' = [jdisk EXCEPT ![Legacy].id = LegacyId]
      BY <1>5, <2>1, <3>1 DEF Enable
    <3>3. /\ DOMAIN jcache = Places /\ jcache[Legacy] \in Journals
          /\ DOMAIN jdisk = Places /\ jdisk[Legacy] \in Journals
      BY <1>0, PlaceFacts DEF JournalsInv, JournalBounded
    <3>4. LegacyWhole'
      BY <3>2, <3>3, PlaceFacts DEF LegacyWhole, Journals
    <3> QED BY <3>4 DEF LegacyInv
  <2>2. CASE jcache[sel.slot] # NoJournal
    BY <1>1, <1>5, <2>2 DEF Enable
  <2> QED BY <2>1, <2>2
<1>6. CASE RetireSeal \/ RetireFiles
  <2>1. todo # {} /\ todo \subseteq Slots
    BY <1>0, <1>6 DEF RetireSeal, RetireFiles, TInv, HostInv
  <2>2. Min(todo) # Legacy
    <3>1. todo \in SUBSET Nat
      BY <2>1, SlotAssumption DEF Slots
    <3>2. Min(todo) \in todo
      BY <2>1, <3>1, LeastExists
    <3> QED BY <2>1, <3>2, PlaceFacts
  <2> QED BY <1>0, <1>1, <1>6, <2>2, PlaceFacts DEF RetireSeal, RetireFiles, JournalsInv
<1>7. CASE \/ StageInvalidate \/ StageFlushSeal \/ StageTruncate \/ StageFlushJournal
           \/ StageSeal \/ StageFails \/ ConvertFails
  <2>1. target # Legacy
    BY <1>0, <1>7, PlaceFacts
    DEF StageInvalidate, StageFlushSeal, StageTruncate, StageFlushJournal, StageSeal,
        StageFails, ConvertFails, Staging, OInv, StageInv
  <2> QED
    BY <1>0, <1>1, <1>7, <2>1, PlaceFacts
    DEF StageInvalidate, StageFlushSeal, StageTruncate, StageFlushJournal, StageSeal,
        StageFails, ConvertFails, SealDiscarded, SealKept, JournalsInv
<1>8. CASE StagePrepare
  <2>1. target # Legacy
    BY <1>0, <1>8, PlaceFacts DEF StagePrepare, Staging, OInv, StageInv
  <2>2. jcache'[Legacy] = jcache[Legacy] /\ jdisk'[Legacy] \in {jcache[Legacy], jdisk[Legacy]}
    BY <1>0, <1>8, <2>1, PlaceFacts DEF StagePrepare, JournalsInv
  <2> QED BY <1>0, <2>2 DEF LegacyInv, LegacyWhole
<1>9. CASE CleanupDone
  <2>1. CASE LegacyRetirable
    BY <1>0, <1>9, <2>1, PlaceFacts DEF CleanupDone, LegacyInv, JournalsInv
  <2>2. CASE ~LegacyRetirable
    BY <1>1, <1>9, <2>2 DEF CleanupDone
  <2> QED BY <2>1, <2>2
<1>10. CASE PowerFails
  <2>1. jdisk'[Legacy] \in {jcache[Legacy], jdisk[Legacy]} /\ jcache' = jdisk'
    BY <1>10, PlaceFacts DEF PowerFails
  <2> QED BY <1>0, <2>1 DEF LegacyInv, LegacyWhole
<1> QED BY <1>2, <1>3, <1>4, <1>5, <1>6, <1>7, <1>8, <1>9, <1>10 DEF Next

\* The selection is kept from the scan on.
LEMMA SelKeptStep == KInv /\ [Next]_vars => SelKept'
<1> SUFFICES ASSUME KInv, [Next]_vars, Selecting'
             PROVE  /\ Kept(SelectedIdentity)'
                    /\ sel'.slot \in Slots => sel'.source = scache'[sel'.slot].source
  BY DEF SelKept
<1>1. CASE Scan
  <2>0. pc' # "refused" /\ UNCHANGED <<jcache, jdisk, scache, sdisk>>
    BY <1>1 DEF Selecting, Scan, slots
  <2>1. /\ current # Blank => SelectedIdentity' = current.identity
        /\ current = Blank => sel'.slot = Legacy /\ SelectedIdentity' = LegacyIdentity
        /\ sel'.slot \in Slots => sel'.source = scache[sel'.slot].source
        /\ pc' = "enable" <=> sel'.slot = Legacy /\ jcache[Legacy] = NoJournal
    BY <1>1, <2>0, ScanSelects
  <2>2. PICK i : i = SelectedIdentity'
    OBVIOUS
  <2>3. Kept(i)
    <3>1. CASE current # Blank
      <4>1. Held(current)
        BY <3>1 DEF Held, KInv, IInv, ControlTypeOK
      <4> QED BY <2>1, <2>2, <3>1, <4>1 DEF KInv, HeldKept
    <3>2. CASE current = Blank
      <4>1. jcache[Legacy] # NoJournal
        BY <2>0, <2>1, <3>2 DEF Selecting
      <4>2. LegacyWhole
        BY <4>1 DEF KInv, LegacyInv
      <4> QED BY <2>1, <2>2, <3>2, <4>2 DEF Kept, LegacyIdentity
    <3> QED BY <3>1, <3>2
  <2>4. Kept(i)'
    BY <2>0, <2>3, KeptStill
  <2> QED BY <2>0, <2>1, <2>2, <2>4 DEF Kept, LegacyWhole, Whole, SourceWhole, Verified, IdentityOf
<1>2. CASE Activate
  BY <1>2, ActivateSelects
<1>3. CASE Enable
  <2>1. sel' = sel /\ UNCHANGED <<scache, sdisk>> /\ pc = "enable" /\ SelectedIdentity' = SelectedIdentity
    BY <1>3 DEF Enable, host, SelectedIdentity
  <2>2. CASE jcache[sel.slot] # NoJournal
    <3>1. Selecting
      BY <2>1, <2>2 DEF Selecting
    <3>2. PICK i : i = SelectedIdentity
      OBVIOUS
    <3>3. Kept(i)'
      BY <3>1, <3>2, GuardedKept DEF Guarded
    <3>4. sel.slot \in Slots => sel.source = scache[sel.slot].source
      BY <3>1 DEF KInv, SelKept
    <3> QED BY <2>1, <3>2, <3>3, <3>4 DEF Kept, LegacyWhole, Whole, SourceWhole, Verified, IdentityOf
  <2>3. CASE jcache[sel.slot] = NoJournal
    <3>1. sel.slot = Legacy
      BY <2>1, <2>3 DEF KInv, PhaseInv
    <3>2. LegacyInv' /\ jcache'[Legacy] # NoJournal
      <4>1. jcache[Legacy] \in Journals /\ DOMAIN jcache = Places
        BY PlaceFacts DEF KInv, TInv, JournalsInv, JournalBounded
      <4>2. jcache'[Legacy].id = LegacyId /\ NoJournal.id = 0
        BY <1>3, <2>3, <3>1, <4>1, PlaceFacts DEF Enable, Journals, NoJournal
      <4> QED BY <4>2, LegacyStep DEF LegacyId
    <3>3. LegacyWhole'
      BY <3>2 DEF LegacyInv
    <3>4. SelectedIdentity' = LegacyIdentity
      BY <2>1, <3>1 DEF SelectedIdentity
    <3> QED BY <2>1, <3>1, <3>3, <3>4, PlaceFacts DEF Kept, LegacyIdentity
  <2> QED BY <2>2, <2>3
<1>4. CASE ~Scan /\ ~Activate /\ ~Enable
  <2>1. /\ Selecting /\ SelectedIdentity' = SelectedIdentity
        /\ sel'.slot = sel.slot /\ sel'.source = sel.source
    BY <1>4, SelectionStays
  <2>2. PICK i : i = SelectedIdentity
    OBVIOUS
  <2>3. Kept(i)' /\ (i.slot \in Slots => scache'[i.slot] = scache[i.slot])
    BY <2>1, <2>2, GuardedKept DEF Guarded
  <2>4. i.slot = sel.slot
    BY <2>2 DEF SelectedIdentity, LegacyIdentity
  <2>5. sel.slot \in Slots => sel.source = scache[sel.slot].source
    BY <2>1 DEF KInv, SelKept
  <2>6. Kept(SelectedIdentity)'
    BY <2>1, <2>2, <2>3 DEF Kept, LegacyWhole, Whole, SourceWhole, Verified, IdentityOf
  <2> QED BY <2>1, <2>3, <2>4, <2>5, <2>6
<1> QED BY <1>1, <1>2, <1>3, <1>4

-----------------------------------------------------------------------------
(* The pair of records at each point of the host.                          *)

\* The slot of the selection and its generation.
LEMMA SelectedParts ==
  ASSUME KInv
  PROVE  SelectedIdentity.slot = sel.slot /\ SelectedIdentity.generation = sel.generation
BY DEF KInv, OInv, SelInv, SelectedIdentity, LegacyIdentity

\* What is selected has a journal.
LEMMA SelectedHasJournal ==
  ASSUME KInv, Selecting
  PROVE  jcache[sel.slot] # NoJournal
<1>1. Kept(SelectedIdentity) /\ SelectedIdentity.slot = sel.slot
  BY SelectedParts DEF KInv, SelKept
<1>2. NoJournal.id = 0
  BY DEF NoJournal
<1>3. CASE sel.slot = Legacy
  BY <1>1, <1>2, <1>3 DEF Kept, LegacyWhole, LegacyId
<1>4. CASE sel.slot # Legacy
  <2>1. Verified(jcache, scache, sel.slot)
    BY <1>1, <1>4 DEF Kept, Whole
  <2>2. jcache[sel.slot].id > 0
    BY <2>1 DEF Verified
  <2> QED BY <1>2, <2>2
<1> QED BY <1>3, <1>4

\* The loops of the pair stand still unless it has a task.
LEMMA NoTaskNoLoop == LoopStep => task # "none"
BY DEF LoopStep, WriteAllAt, TruncateRecord, FlushRecord, SkipReplica, SettleReplica, Writing

\* What a loop can change: a publication ends, a repair ends, or nothing that
\* the host looks at.
LEMMA LoopEffects ==
  ASSUME IInv, LoopStep
  PROVE  /\ mode' = mode
         /\ \/ current' = current /\ committed' = committed /\ (repaired => repaired')
            \/ /\ task = "publish" /\ current' = record /\ committed' = record /\ repaired' = TRUE
               /\ record \in Records
         /\ task' = "publish" => task = "publish" /\ record' = record
<1>0. task # "none" => record \in Records
  BY DEF IInv, LoopInv
<1>1. CASE WriteAllAt \/ TruncateRecord \/ SkipReplica
  BY <1>1 DEF WriteAllAt, TruncateRecord, SkipReplica, NextReplica, pair
<1>2. CASE FlushRecord
  BY <1>0, <1>2 DEF FlushRecord, NextReplica, PublishReturns
<1>3. CASE SettleReplica
  BY <1>3 DEF SettleReplica
<1> QED BY <1>1, <1>2, <1>3 DEF LoopStep

\* Opening a pair of two equal records selects it.
LEMMA OpenQuiet ==
  ASSUME KInv, CompactOpen
  PROVE  /\ mode' = "open" /\ current' = committed /\ task' = "none"
         /\ \A r \in Replicas : seen'[r] = committed
         /\ UNCHANGED <<cache, disk, committed>>
<1>1. /\ pc = "up" /\ mode = "closed" /\ committed \in Records
      /\ cache[0] = committed /\ cache[1] = committed /\ task = "none"
  BY DEF CompactOpen, KInv, QuietFiles, IInv, ClosedInv, Replicas
<1>2. ~SelectRefuses(cache) /\ SelectActivation(cache) = committed
  <2>1. ~Ambiguous(cache)
    BY <1>1 DEF Ambiguous
  <2>2. ~Unreadable(cache)
    BY <1>1 DEF Unreadable
  <2>3. SelectActivation(cache) = committed
    BY <1>1 DEF SelectActivation
  <2> QED BY <2>1, <2>2, <2>3 DEF SelectRefuses
<1>3. committed # Torn
  BY <1>1, RecordFacts
<1> QED BY <1>1, <1>2, <1>3 DEF CompactOpen, OpenControls, Replicas, files, loop

\* A repair that follows writes nothing: both files are right.
LEMMA RepairQuiet ==
  ASSUME KInv, LoopStep, pc \in {"collect", "up", "compact", "stage", "cleanup"}
  PROVE  /\ pc = "compact" /\ UNCHANGED <<cache, mode, current, seen, committed>>
         /\ disk'[0] = committed /\ disk'[1] = committed /\ task' # "publish"
<1>1. task # "none"
  BY NoTaskNoLoop
<1>2. pc = "compact"
  BY <1>1 DEF KInv, QuietFiles, IInv, ClosedInv
<1>3. /\ current = committed /\ task # "publish" /\ task \in {"repair", "settle"}
      /\ \A r \in Replicas : seen[r] = committed /\ cache[r] = committed /\ disk[r] = committed
      /\ at \in Replicas /\ disk \in [Replicas -> Content]
  BY <1>1, <1>2 DEF KInv, QuietFiles, IInv, ControlTypeOK
<1>4. record = current /\ seen[at] = record
  BY <1>3 DEF KInv, IInv, RepairInv
<1>5. CASE WriteAllAt \/ TruncateRecord \/ FlushRecord
  <2>1. task = "repair" /\ (step = "write" => ~Skipped)
    BY <1>3, <1>5 DEF WriteAllAt, TruncateRecord, FlushRecord, Writing
  <2>2. step = "write"
    BY <1>4, <2>1 DEF KInv, IInv, RepairInv
  <2> QED BY <1>4, <2>1, <2>2 DEF Skipped
<1>6. CASE SkipReplica
  BY <1>2, <1>3, <1>6 DEF SkipReplica, NextReplica, files, pair, Replicas
<1>7. CASE SettleReplica
  BY <1>2, <1>3, <1>7 DEF SettleReplica, Replicas
<1> QED BY <1>5, <1>6, <1>7 DEF LoopStep

\* A publication or a confirmation that is done has left its record in both files.
LEMMA DoneQuiet ==
  ASSUME KInv, ConfirmDone \/ PublishDone
  PROVE  /\ committed \in Records /\ committed.identity = SelectedIdentity
         /\ \A r \in Replicas : cache[r] = committed /\ disk[r] = committed
         /\ mode' = "closed" /\ UNCHANGED <<cache, disk, committed, sel>>
         /\ pc' \in {"collect", "cleanup"}
<1>1. /\ Confirmed /\ CloseControls /\ pc \in {"confirm", "publish"} /\ sel' = sel
      /\ pc' \in {"collect", "cleanup"}
  BY DEF ConfirmDone, PublishDone
<1>2. current # Blank /\ current.identity = SelectedIdentity /\ committed = current /\ task = "none"
  BY <1>1 DEF Confirmed, CloseControls
<1>3. repaired
  BY <1>1, <1>2 DEF KInv, PhaseInv
<1>4. current \in Records /\ \A r \in Replicas : cache[r] = current /\ disk[r] = current
  BY <1>2, <1>3 DEF KInv, IInv, SettledInv
<1> QED BY <1>1, <1>2, <1>4 DEF CloseControls, GiveUp, files

\* While guests run the two files hold the published record and nothing else.
LEMMA QuietStep == KInv /\ [Next]_vars => QuietFiles'
<1> SUFFICES ASSUME KInv, [Next]_vars, pc' \in {"collect", "up", "compact", "stage", "cleanup"}
             PROVE  QuietFiles'
  BY DEF QuietFiles
<1>0. /\ ~BootOpen /\ ~Scan /\ ~Anchor /\ ~AnchorDone /\ ~Enable /\ ~Confirm /\ ~CommitFails
      /\ ~ConvertBegin /\ ~Activate /\ ~Publish /\ ~ConvertFails /\ ~PublishFails /\ ~ProcessDies
      /\ ~PowerFails
  BY DEF BootOpen, Scan, Anchor, AnchorDone, Enable, Confirm, CommitFails, ConvertBegin, Begin,
         Activate, Publish, ConvertFails, PublishFails, ProcessDies, PowerFails, Stopped
<1>1. SelectedIdentity' = SelectedIdentity
  <2>1. Selecting'
    BY DEF Selecting
  <2> QED BY <1>0, <2>1, SelectionStays
<1>2. CASE ConfirmDone \/ PublishDone
  BY <1>1, <1>2, DoneQuiet DEF QuietFiles
<1>3. CASE CompactOpen
  <2>1. pc = "up" /\ pc' = "compact"
    BY <1>3 DEF CompactOpen
  <2> QED BY <1>1, <1>3, <2>1, OpenQuiet DEF QuietFiles, KInv
<1>4. CASE ControlStep
  <2>1. LoopStep /\ pc' = pc
    BY <1>4 DEF ControlStep
  <2>2. /\ pc = "compact" /\ UNCHANGED <<cache, mode, current, seen, committed>>
        /\ disk'[0] = committed /\ disk'[1] = committed /\ task' # "publish"
    BY <2>1, RepairQuiet
  <2> QED BY <1>1, <2>1, <2>2 DEF QuietFiles, KInv, Replicas
<1>5. CASE CompactPrepare
  <2>1. pc = "compact" /\ pc' = "compact" /\ UNCHANGED <<files, pair, committed>> /\ task' = "repair"
    BY <1>5 DEF CompactPrepare, PrepareControls
  <2> QED BY <1>1, <2>1 DEF QuietFiles, KInv, files, pair
<1>6. CASE CompactBegin
  <2>1. /\ pc = "compact" /\ pc' = "stage" /\ UNCHANGED <<files, pair, loop, committed>>
        /\ task = "none" /\ repaired = TRUE
    <3>1. repaired \in BOOLEAN
      BY DEF KInv, IInv, ControlTypeOK
    <3> QED BY <1>6, <3>1 DEF CompactBegin, Begin, Unrepaired, controls
  <2> QED BY <1>1, <2>1 DEF QuietFiles, KInv, files, pair, loop
<1>7. CASE CompactFails \/ StageFails
  <2>1. pc \in {"compact", "stage"} /\ pc' = "up" /\ ControlsLost
    BY <1>7 DEF CompactFails, StageFails
  <2> QED BY <1>1, <2>1 DEF QuietFiles, KInv, ControlsLost, GiveUp, files
<1>8. CASE /\ UNCHANGED controls
           /\ pc' = pc \/ (pc \in {"collect", "cleanup"} /\ pc' = "up")
  BY <1>1, <1>8 DEF QuietFiles, KInv, controls, files, pair, loop
<1>9. CASE UNCHANGED vars \/ CommitWrite \/ FlushJournal
  BY <1>8, <1>9 DEF vars, CommitWrite, FlushJournal
<1>10. CASE \/ RetireSeal \/ RetireFiles \/ RetireFails \/ BootDone \/ CleanupDone
            \/ LegacyRetireFails
  BY <1>8, <1>10 DEF RetireSeal, RetireFiles, RetireFails, BootDone, CleanupDone, LegacyRetireFails
<1>11. CASE \/ StageInvalidate \/ StageFlushSeal \/ StageTruncate \/ StagePrepare
            \/ StageFlushJournal \/ StageSeal
  BY <1>8, <1>11
  DEF StageInvalidate, StageFlushSeal, StageTruncate, StagePrepare, StageFlushJournal, StageSeal,
      Staged
<1> QED
  BY <1>0, <1>2, <1>3, <1>4, <1>5, <1>6, <1>7, <1>9, <1>10, <1>11 DEF Next

\* Each point of a boot and of a publication has brought the pair where the
\* next one needs it.
LEMMA PhaseStep == KInv /\ [Next]_vars => PhaseInv'
<1> SUFFICES ASSUME KInv, [Next]_vars PROVE PhaseInv'
  OBVIOUS
<1>0. /\ current \in Records \cup {Blank} /\ repaired \in BOOLEAN /\ Blank \notin Records
      /\ mode # "open" => task = "none"
  BY RecordFacts DEF KInv, IInv, ControlTypeOK, ClosedInv
<1>1. CASE CommitFails \/ PublishFails \/ ProcessDies \/ PowerFails
  <2>1. GiveUp /\ pc' \in {"down", "poisoned"}
    BY <1>1 DEF CommitFails, PublishFails, ProcessDies, PowerFails, Stopped, ControlsLost, LosePower
  <2> QED BY <2>1 DEF PhaseInv, GiveUp
<1>2. CASE BootOpen
  <2>1. /\ mode = "closed" /\ task' = task /\ task = "none"
        /\ \/ pc' = "refused"
           \/ pc' = "scan" /\ mode' = "open"
    BY <1>0, <1>2 DEF BootOpen, OpenControls, loop
  <2> QED BY <2>1 DEF PhaseInv
<1>3. CASE Scan
  <2>1. /\ mode = "open" /\ task = "none" /\ UNCHANGED <<mode, task, current, jcache>>
        /\ pc' \in {"refused", "enable", "anchor"}
    BY <1>3 DEF Scan, KInv, PhaseInv, controls, loop, pair, slots
  <2>2. CASE pc' = "refused"
    BY <2>1, <2>2 DEF PhaseInv
  <2>3. CASE pc' # "refused"
    <3>1. /\ current # Blank => SelectedIdentity' = current.identity
          /\ current = Blank => sel'.slot = Legacy
          /\ pc' = "enable" => sel'.slot = Legacy /\ jcache[Legacy] = NoJournal /\ current = Blank
      BY <1>3, <2>3, ScanSelects
    <3>2. CASE pc' = "enable"
      BY <2>1, <3>1, <3>2 DEF PhaseInv
    <3>3. CASE pc' = "anchor"
      BY <2>1, <3>1, <3>3 DEF PhaseInv
    <3> QED BY <2>1, <2>3, <3>2, <3>3
  <2> QED BY <2>2, <2>3
<1>4. CASE Anchor
  <2>1. /\ pc = "anchor" /\ pc' = "anchor" /\ UNCHANGED <<mode, current, sel>>
        /\ PublishRecord(SelectedIdentity) \/ PrepareControls
    BY <1>4 DEF Anchor, PublishRecord, PrepareControls, pair, host
  <2>2. SelectedIdentity' = SelectedIdentity
    BY <2>1 DEF SelectedIdentity
  <2>3. task' = "publish" => record'.identity = SelectedIdentity
    BY <2>1 DEF PublishRecord, PrepareControls, NextActivation, loop
  <2> QED BY <2>1, <2>2, <2>3 DEF PhaseInv, KInv
<1>5. CASE AnchorDone
  <2>1. /\ pc = "anchor" /\ pc' = "enable" /\ UNCHANGED <<mode, current, repaired, task, sel, jcache>>
        /\ task = "none" /\ current \in Records /\ repaired = TRUE
    BY <1>0, <1>5 DEF AnchorDone, Unrepaired, controls, pair, loop, host, slots
  <2>2. SelectedIdentity' = SelectedIdentity
    BY <2>1 DEF SelectedIdentity
  <2>3. jcache[sel.slot] # NoJournal
    BY <2>1, SelectedHasJournal DEF Selecting
  <2>4. current.identity = SelectedIdentity /\ mode = "open"
    BY <1>0, <2>1 DEF KInv, PhaseInv
  <2> QED BY <2>1, <2>2, <2>3, <2>4 DEF PhaseInv
<1>6. CASE Enable
  <2>1. pc = "enable" /\ pc' = "confirm" /\ UNCHANGED <<mode, current, repaired, sel>>
    BY <1>6 DEF Enable, controls, pair, host
  <2> QED BY <1>0, <2>1 DEF PhaseInv, KInv
<1>7. CASE Confirm
  <2>1. pc = "confirm" /\ pc' = "confirm" /\ UNCHANGED <<mode, current, repaired, sel>>
    BY <1>7 DEF Confirm, PublishRecord, pair, host
  <2> QED BY <2>1 DEF PhaseInv, KInv
<1>8. CASE ConvertBegin
  <2>1. /\ pc = "enable" /\ pc' = "convert" /\ jcache[sel.slot] # NoJournal
        /\ UNCHANGED <<mode, current, repaired, task>>
    BY <1>8 DEF ConvertBegin, Begin, controls, pair, loop
  <2>2. SelectedIdentity' = SelectedIdentity
    BY <1>8, <2>1, SelectionStays DEF Selecting, Scan, Activate, Enable, Staging
  <2> QED BY <2>1, <2>2 DEF PhaseInv, KInv
<1>9. CASE Activate
  <2>1. /\ pc \in {"stage", "convert"} /\ pc' = IF pc = "stage" THEN "publish" ELSE "confirm"
        /\ UNCHANGED <<mode, current, repaired, committed>>
    BY <1>9 DEF Activate, Staging, controls, pair
  <2>2. mode = "open" /\ current \in Records /\ repaired
    BY <2>1 DEF KInv, QuietFiles, PhaseInv
  <2>3. pc = "stage" => committed # Blank
    BY <1>0 DEF KInv, QuietFiles
  <2> QED BY <1>0, <2>1, <2>2, <2>3 DEF PhaseInv
<1>10. CASE ConvertFails
  <2>1. pc = "convert" /\ pc' = "confirm" /\ UNCHANGED <<mode, current, repaired>>
    BY <1>10 DEF ConvertFails, controls, pair
  <2> QED BY <1>0, <2>1 DEF PhaseInv, KInv
<1>11. CASE Publish
  <2>1. /\ pc = "publish" /\ pc' = "publish" /\ UNCHANGED <<mode, current, repaired>>
        /\ committed' = committed \/ committed' = current
    BY <1>11 DEF Publish, PublishRecord, pair
  <2> QED BY <1>0, <2>1 DEF PhaseInv, KInv
<1>12. CASE ControlStep
  <2>1. /\ LoopStep /\ pc' = pc /\ sel' = sel /\ jcache' = jcache /\ task # "none"
    BY <1>12, NoTaskNoLoop DEF ControlStep, host, slots
  <2>2. SelectedIdentity' = SelectedIdentity
    BY <2>1 DEF SelectedIdentity
  <2>3. /\ mode' = mode
        /\ \/ current' = current /\ committed' = committed /\ (repaired => repaired')
           \/ /\ task = "publish" /\ current' = record /\ committed' = record /\ repaired' = TRUE
              /\ record \in Records
        /\ task' = "publish" => task = "publish" /\ record' = record
    BY <2>1, LoopEffects DEF KInv
  <2>4. mode = "open" /\ pc \notin {"scan", "enable", "convert", "refused", "down", "poisoned"}
    BY <1>0, <2>1 DEF KInv, PhaseInv
  <2>5. CASE pc = "anchor"
    BY <1>0, <2>1, <2>2, <2>3, <2>4, <2>5 DEF PhaseInv, KInv
  <2>6. CASE pc \in {"confirm", "publish"}
    BY <1>0, <2>1, <2>3, <2>4, <2>6 DEF PhaseInv, KInv
  <2>7. CASE pc \notin {"anchor", "confirm", "publish"}
    BY <2>1, <2>4, <2>7 DEF PhaseInv
  <2> QED BY <2>5, <2>6, <2>7
<1>13. CASE pc' \in {"collect", "up", "compact", "stage", "cleanup"}
  BY <1>13 DEF PhaseInv
<1>14. CASE \/ RetireSeal \/ RetireFiles \/ RetireFails \/ BootDone \/ CleanupDone
            \/ LegacyRetireFails \/ ConfirmDone \/ PublishDone \/ CompactOpen \/ CompactPrepare
            \/ CompactBegin \/ CompactFails \/ StageFails \/ CommitWrite \/ FlushJournal
  BY <1>13, <1>14
  DEF RetireSeal, RetireFiles, RetireFails, BootDone, CleanupDone, LegacyRetireFails, ConfirmDone,
      PublishDone, CompactOpen, CompactPrepare, CompactBegin, Begin, CompactFails, StageFails,
      CommitWrite, FlushJournal, GuestsRun
<1>15. CASE \/ StageInvalidate \/ StageFlushSeal \/ StageTruncate \/ StagePrepare
            \/ StageFlushJournal \/ StageSeal
  <2>1. pc' = pc /\ pc \in {"stage", "convert"} /\ UNCHANGED <<mode, current, repaired, task, sel>>
    BY <1>15
    DEF StageInvalidate, StageFlushSeal, StageTruncate, StagePrepare, StageFlushJournal, StageSeal,
        Staged, Staging, controls, pair, loop, host
  <2>2. SelectedIdentity' = SelectedIdentity
    BY <2>1 DEF SelectedIdentity
  <2> QED BY <2>1, <2>2 DEF PhaseInv, KInv
<1>16. CASE UNCHANGED vars
  <2>1. /\ UNCHANGED <<pc, mode, current, repaired, task, record, committed, sel, jcache>>
    BY <1>16 DEF vars, controls, pair, loop, host, slots
  <2>2. SelectedIdentity' = SelectedIdentity
    BY <2>1 DEF SelectedIdentity
  <2> QED BY <2>1, <2>2 DEF PhaseInv, KInv
<1> QED
  BY <1>1, <1>2, <1>3, <1>4, <1>5, <1>6, <1>7, <1>8, <1>9, <1>10, <1>11, <1>12, <1>14, <1>15,
     <1>16
  DEF Next

\* What a boot knows of the slots is so until it writes to one, and the record it
\* selected is not older than the published one.
LEMMA KnownStep == KInv /\ [Next]_vars => KnownInv'
<1> SUFFICES ASSUME KInv, [Next]_vars, pc' \in {"anchor", "enable"} PROVE KnownInv'
  BY DEF KnownInv
<1>0. committed \in Records \cup {Blank} /\ current \in Records \cup {Blank} /\ Blank \notin Records
  BY RecordFacts DEF KInv, IInv, ControlTypeOK
<1>1. CASE Scan
  <2>1. /\ UNCHANGED <<jcache, scache, committed, current>> /\ pc' # "refused" /\ mode = "open"
    BY <1>1 DEF Scan, slots, controls, pair, KInv, PhaseInv
  <2>2. \A s \in Slots : Verified(jcache, scache, s) => sel'.known[s] = scache[s].generation
    BY <1>1 DEF Scan, Found
  <2>3. \A r \in sel'.reusable : scache[r.slot].generation = r.generation
    BY <1>1 DEF Scan, Unpublished
  <2>4. ASSUME committed # Blank PROVE committed.identity.generation <= sel'.generation
    <3>1. current \in Records /\ Sound(current)
      BY <2>1, <2>4 DEF KInv, IInv, CurrentInv
    <3>2. Held(current) /\ Held(committed)
      BY <1>0, <2>4, <3>1 DEF Held
    <3>3. /\ current.sequence = current.identity.generation + 1
          /\ committed.sequence = committed.identity.generation + 1
      BY <3>2 DEF KInv, HeldKept
    <3>4. current.identity.generation \in Nat /\ committed.identity.generation \in Nat
      BY <1>0, <2>4, <3>1, IdentityAssumption DEF Records
    <3>5. sel'.generation = current.identity.generation
      BY <1>0, <1>1, <2>1, <3>1, ScanSelects
    <3> QED BY <3>1, <3>3, <3>4, <3>5 DEF Sound
  <2> QED BY <2>1, <2>2, <2>3, <2>4 DEF KnownInv, Verified
<1>2. CASE /\ pc \in {"anchor", "enable"} /\ UNCHANGED <<jcache, scache, sel>>
           /\ \/ committed' = committed
              \/ committed' \in Records /\ committed'.identity = SelectedIdentity
  <2>1. SelectedIdentity.generation = sel.generation /\ sel.generation \in Nat
    BY SelectedParts, SelectionFacts DEF KInv
  <2>2. committed'.identity.generation <= sel.generation \/ committed' = Blank
    BY <1>2, <2>1 DEF KInv, KnownInv
  <2> QED BY <1>2, <2>2 DEF KnownInv, KInv, Verified
<1>3. CASE Anchor
  <2>1. pc = "anchor" /\ UNCHANGED <<jcache, scache, sel>>
    BY <1>3 DEF Anchor, slots, host
  <2>2. committed' = committed \/ (current # Blank /\ committed' = current)
    <3>1. NextActivation(current, SelectedIdentity) = current /\ current = Blank
            => committed' = committed
      <4>1. NextActivation(Blank, SelectedIdentity) # Blank
        <5>1. SelectedIdentity \in Identities
          BY SelectedIsIdentity DEF KInv
        <5>2. NextActivation(Blank, SelectedIdentity) \in Records
          BY <5>1, IdentityAssumption DEF NextActivation, Records
        <5> QED BY <1>0, <5>2
      <4> QED BY <4>1
    <3> QED BY <1>3, <3>1 DEF Anchor, PublishRecord, PrepareControls
  <2>3. current # Blank => current \in Records /\ current.identity = SelectedIdentity
    BY <1>0, <2>1 DEF KInv, PhaseInv
  <2> QED BY <1>2, <2>1, <2>2, <2>3
<1>4. CASE AnchorDone \/ UNCHANGED vars
  <2>1. pc \in {"anchor", "enable"} /\ UNCHANGED <<jcache, scache, sel, committed>>
    BY <1>4 DEF AnchorDone, vars, controls, slots, host
  <2> QED BY <1>2, <2>1
<1>5. CASE ControlStep
  <2>1. /\ LoopStep /\ pc \in {"anchor", "enable"} /\ UNCHANGED <<jcache, scache, sel>>
        /\ task # "none"
    BY <1>5, NoTaskNoLoop DEF ControlStep, slots, host
  <2>2. pc = "anchor"
    BY <2>1 DEF KInv, PhaseInv
  <2>3. committed' = committed \/ (task = "publish" /\ committed' = record /\ record \in Records)
    BY <2>1, LoopEffects DEF KInv
  <2>4. task = "publish" => record.identity = SelectedIdentity
    BY <2>2 DEF KInv, PhaseInv
  <2> QED BY <1>2, <2>1, <2>3, <2>4
<1>6. ~(\/ CommitWrite \/ FlushJournal \/ CommitFails \/ BootOpen \/ Enable \/ Confirm
        \/ ConfirmDone \/ RetireSeal \/ RetireFiles \/ RetireFails \/ BootDone
        \/ CompactOpen \/ CompactPrepare \/ CompactBegin \/ ConvertBegin)
  BY DEF CommitWrite, FlushJournal, CommitFails, BootOpen, Enable, Confirm, ConfirmDone, RetireSeal,
         RetireFiles, RetireFails, BootDone, CompactOpen, CompactPrepare, CompactBegin,
         ConvertBegin, Begin, GuestsRun
<1>7. ~(\/ StageInvalidate \/ StageFlushSeal \/ StageTruncate \/ StagePrepare
        \/ StageFlushJournal \/ StageSeal \/ Activate \/ Publish \/ PublishDone \/ CleanupDone
        \/ LegacyRetireFails \/ CompactFails \/ StageFails \/ ConvertFails \/ PublishFails
        \/ ProcessDies \/ PowerFails)
  BY DEF StageInvalidate, StageFlushSeal, StageTruncate, StagePrepare, StageFlushJournal,
         StageSeal, Staged, Staging, Activate, Publish, PublishDone, CleanupDone,
         LegacyRetireFails, CompactFails, StageFails, ConvertFails, PublishFails, ProcessDies,
         PowerFails, Stopped
<1> QED BY <1>1, <1>3, <1>4, <1>5, <1>6, <1>7 DEF Next

-----------------------------------------------------------------------------
(* The slots that are written over.                                        *)

\* A slot that may be staged is in nothing the selection needs.
LEMMA MayStageAvoids ==
  ASSUME KInv, Selecting, NEW t \in Slots, t # sel.slot, t # sel.source
  PROVE  Avoids(t, SelectedIdentity)
<1>1. SelectedIdentity.slot = sel.slot
  BY SelectedParts
<1> QED BY <1>1 DEF Avoids, KInv, SelKept

\* A conversion takes a slot that does not verify or holds a later generation,
\* never one that the published record needs, though that may be older than the
\* selection.
LEMMA ConversionAvoids ==
  ASSUME KInv, ConvertBegin, NEW x, Held(x)
  PROVE  Avoids(target', x.identity)
<1>0. /\ pc = "enable" /\ jcache[sel.slot] # NoJournal /\ Selecting /\ ConversionTargets # {}
      /\ target' = Min(ConversionTargets)
  BY DEF ConvertBegin, Selecting
<1>1. target' \in Slots /\ target' \in ConversionTargets
  BY <1>0, ConversionTargetIsSlot DEF KInv
<1>2. /\ MayStage(target')
      /\ scache[target'].generation = sel.generation + 1 \/ sel.known[target'] <= 0
  <2>1. CASE target' \in Reusable
    <3>1. PICK r \in sel.reusable : /\ r.slot = target' /\ MayStage(r.slot)
                                     /\ r.generation = sel.generation + 1
      BY <2>1 DEF Reusable
    <3> QED BY <1>0, <3>1 DEF KInv, KnownInv
  <2>2. CASE target' \notin Reusable
    BY <1>1, <2>2 DEF ConversionTargets
  <2> QED BY <2>1, <2>2
<1>3. Avoids(target', SelectedIdentity)
  BY <1>0, <1>1, <1>2, MayStageAvoids DEF MayStage
<1>4. current \in Records /\ repaired /\ current.identity = SelectedIdentity /\ task = "none"
  BY <1>0 DEF KInv, PhaseInv
<1>5. cache[0] = current /\ cache[1] = current /\ disk[0] = current /\ disk[1] = current
  BY <1>4 DEF KInv, IInv, SettledInv, Replicas
<1>6. x = current \/ x = committed
  BY <1>4, <1>5 DEF Held
<1>7. CASE x = committed
  <2> DEFINE c == x.identity.slot
             p == scache[c].source
  <2>1. Kept(x.identity) /\ committed # Blank
    BY <1>7, RecordFacts DEF KInv, HeldKept, Held
  <2>2. x.identity.generation <= sel.generation /\ sel.generation \in Nat
    BY <1>0, <1>7, <2>1, SelectionFacts DEF KInv, KnownInv
  <2>3. ASSUME NEW s \in Slots, Whole(s), scache[s].generation <= sel.generation
        PROVE  target' # s
    <3>1. Verified(jcache, scache, s)
      BY <2>3 DEF Whole
    <3>2. sel.known[s] = scache[s].generation
      BY <1>0, <3>1 DEF KInv, KnownInv
    <3>3. scache[s].generation \in Nat /\ scache[s].generation >= 1
      BY <3>1, SelectionFacts DEF Verified, KInv, OInv, SealsInv, SealBounded
    <3> QED BY <1>2, <2>2, <2>3, <3>2, <3>3
  <2>4. CASE c = Legacy
    BY <1>1, <2>4, PlaceFacts DEF Avoids
  <2>5. CASE c # Legacy
    <3>1. /\ c \in Slots /\ Whole(c) /\ SourceWhole(c)
          /\ x.identity = IdentityOf(c)
      BY <2>1, <2>5 DEF Kept
    <3>2. scache[c].generation = x.identity.generation
      BY <3>1 DEF IdentityOf
    <3>3. target' # c
      BY <2>2, <2>3, <3>1, <3>2
    <3>4. target' # p
      <4>1. CASE scache[c].generation = 1
        BY <1>1, <3>1, <4>1, PlaceFacts DEF SourceWhole
      <4>2. CASE scache[c].generation # 1
        <5>1. p \in Slots /\ Whole(p) /\ scache[p].generation + 1 = scache[c].generation
          BY <3>1, <4>2 DEF SourceWhole
        <5>2. scache[p].generation \in Nat
          BY <5>1 DEF KInv, OInv, SealsInv, SealBounded
        <5>3. scache[p].generation <= sel.generation
          BY <2>2, <3>2, <5>1, <5>2
        <5> QED BY <2>3, <5>1, <5>3
      <4> QED BY <4>1, <4>2
    <3> QED BY <3>3, <3>4 DEF Avoids
  <2> QED BY <2>4, <2>5
<1> QED BY <1>3, <1>4, <1>6, <1>7

\* A slot that is avoided stays so.
LEMMA AvoidsStays ==
  ASSUME KInv, [Next]_vars, NEW i, Guarded(i), NEW t, Avoids(t, i)
  PROVE  Avoids(t, i)'
BY GuardedKept DEF Avoids

\* The slots written over or retired are never those that a record or the
\* selection needs.
LEMMA TargetStep == KInv /\ [Next]_vars => TargetInv'
<1> SUFFICES ASSUME KInv, [Next]_vars PROVE TargetInv'
  OBVIOUS
<1>1. ASSUME pc' = "compact" \/ Staging' PROVE Avoids(target, SelectedIdentity)'
  <2>1. /\ Selecting /\ SelectedIdentity' = SelectedIdentity /\ Guarded(SelectedIdentity)
    <3>1. Selecting' /\ ~Scan /\ ~Activate /\ ~Enable
      BY <1>1 DEF Selecting, Staging, Scan, Activate, Enable
    <3> QED BY <3>1, SelectionStays DEF Guarded
  <2>2. PICK i : i = SelectedIdentity
    OBVIOUS
  <2>3. Guarded(i) /\ SelectedIdentity' = i
    BY <2>1, <2>2
  <2>4. Avoids(target', i)
    <3>1. CASE CompactOpen
      <4>1. target' = CompactionTarget /\ CompactionTarget \in Slots /\ MayStage(CompactionTarget)
        BY <3>1, CompactionTargetIsSlot DEF CompactOpen, KInv
      <4> QED BY <2>1, <2>2, <4>1, MayStageAvoids DEF MayStage
    <3>2. CASE ConvertBegin
      <4>1. target' \in Slots /\ target' \in ConversionTargets
        BY <3>2, ConversionTargetIsSlot DEF ConvertBegin, KInv
      <4>2. MayStage(target')
        BY <4>1 DEF ConversionTargets, Reusable
      <4> QED BY <2>1, <2>2, <4>1, <4>2, MayStageAvoids DEF MayStage
    <3>3. CASE target' = target /\ (pc = "compact" \/ Staging)
      BY <2>2, <3>3 DEF KInv, TargetInv
    <3>4. CASE UNCHANGED vars \/ CommitWrite \/ FlushJournal \/ ControlStep
      BY <1>1, <3>3, <3>4 DEF vars, host, CommitWrite, FlushJournal, ControlStep, Staging
    <3>5. CASE CompactPrepare \/ CompactBegin
      BY <3>3, <3>5 DEF CompactPrepare, CompactBegin, host
    <3>6. CASE \/ StageInvalidate \/ StageFlushSeal \/ StageTruncate \/ StagePrepare
               \/ StageFlushJournal \/ StageSeal
      BY <3>3, <3>6
      DEF StageInvalidate, StageFlushSeal, StageTruncate, StagePrepare, StageFlushJournal,
          StageSeal, Staged, host
    <3>7. ~(\/ CommitFails \/ BootOpen \/ Scan \/ Anchor \/ AnchorDone \/ Enable \/ Confirm
            \/ ConfirmDone \/ RetireSeal \/ RetireFiles \/ RetireFails \/ BootDone)
      BY <1>1 DEF CommitFails, BootOpen, Scan, Anchor, AnchorDone, Enable, Confirm, ConfirmDone,
                  RetireSeal, RetireFiles, RetireFails, BootDone, Staging
    <3>8. ~(\/ Activate \/ Publish \/ PublishDone \/ CleanupDone \/ LegacyRetireFails \/ CompactFails
            \/ StageFails \/ ConvertFails \/ PublishFails \/ ProcessDies \/ PowerFails)
      BY <1>1 DEF Activate, Publish, PublishDone, CleanupDone, LegacyRetireFails, CompactFails,
                  StageFails, ConvertFails, PublishFails, ProcessDies, PowerFails, Stopped, Staging
    <3> QED BY <3>1, <3>2, <3>4, <3>5, <3>6, <3>7, <3>8 DEF Next
  <2>5. PICK t : t = target'
    OBVIOUS
  <2>6. Avoids(t, i)'
    BY <2>3, <2>4, <2>5, AvoidsStays
  <2> QED BY <2>3, <2>5, <2>6 DEF Avoids
<1>2. ASSUME Staging', NEW x, Held(x)' PROVE Avoids(target, x.identity)'
  <2>1. CASE CompactBegin \/ ConvertBegin
    <3>1. Held(x)
      BY <1>2, <2>1 DEF CompactBegin, ConvertBegin, controls, files, loop, pair, Held
    <3>2. Avoids(target', x.identity)
      <4>1. CASE CompactBegin
        <5>1. x.identity = SelectedIdentity /\ target' = target /\ pc = "compact"
          BY <3>1, <4>1, QuietHeld DEF CompactBegin
        <5> QED BY <5>1 DEF KInv, TargetInv
      <4> QED BY <2>1, <3>1, <4>1, ConversionAvoids
    <3> QED BY <3>1, <3>2, AvoidsStays DEF Guarded
  <2>2. CASE Staging /\ target' = target /\ UNCHANGED controls
    <3>1. Held(x)
      BY <1>2, <2>2 DEF controls, files, loop, pair, Held
    <3>2. Avoids(target, x.identity)
      BY <2>2, <3>1 DEF KInv, TargetInv
    <3> QED BY <2>2, <3>1, <3>2, AvoidsStays DEF Guarded
  <2>3. CASE UNCHANGED vars
    BY <1>2, <2>2, <2>3 DEF vars, host, Staging
  <2>4. CASE \/ StageInvalidate \/ StageFlushSeal \/ StageTruncate \/ StagePrepare
             \/ StageFlushJournal \/ StageSeal
    BY <2>2, <2>4
    DEF StageInvalidate, StageFlushSeal, StageTruncate, StagePrepare, StageFlushJournal,
        StageSeal, Staged, host
  <2>5. ~ControlStep
    <3>1. SUFFICES ASSUME ControlStep PROVE FALSE
      OBVIOUS
    <3>2. Staging /\ task # "none"
      BY <1>2, <3>1, NoTaskNoLoop DEF ControlStep, Staging
    <3> QED BY <3>2 DEF Staging, KInv, QuietFiles, PhaseInv
  <2>6. ~(\/ CommitWrite \/ FlushJournal \/ CommitFails \/ BootOpen \/ Scan \/ Anchor \/ AnchorDone
          \/ Enable \/ Confirm \/ ConfirmDone \/ RetireSeal \/ RetireFiles \/ RetireFails
          \/ BootDone \/ CompactOpen \/ CompactPrepare)
    BY <1>2 DEF CommitWrite, FlushJournal, GuestsRun, CommitFails, BootOpen, Scan, Anchor,
                AnchorDone, Enable, Confirm, ConfirmDone, RetireSeal, RetireFiles, RetireFails,
                BootDone, CompactOpen, CompactPrepare, Staging
  <2>7. ~(\/ Activate \/ Publish \/ PublishDone \/ CleanupDone \/ LegacyRetireFails \/ CompactFails
          \/ StageFails \/ ConvertFails \/ PublishFails \/ ProcessDies \/ PowerFails)
    BY <1>2 DEF Activate, Publish, PublishDone, CleanupDone, LegacyRetireFails, CompactFails,
                StageFails, ConvertFails, PublishFails, ProcessDies, PowerFails, Stopped, Staging
  <2> QED BY <2>1, <2>3, <2>4, <2>5, <2>6, <2>7 DEF Next
<1>3. ASSUME pc' \in {"collect", "cleanup"}, NEW t \in todo' PROVE Avoids(t, SelectedIdentity)'
  <2>1. /\ Selecting /\ SelectedIdentity' = SelectedIdentity /\ Guarded(SelectedIdentity)
    <3>1. Selecting' /\ ~Scan /\ ~Activate /\ ~Enable
      BY <1>3 DEF Selecting, Scan, Activate, Enable
    <3> QED BY <3>1, SelectionStays DEF Guarded
  <2>2. PICK i : i = SelectedIdentity
    OBVIOUS
  <2>3. Avoids(t, i)
    <3>1. CASE ConfirmDone \/ PublishDone
      <4>1. t \in Obsolete(sel)
        BY <1>3, <3>1 DEF ConfirmDone, PublishDone
      <4>2. t \in Slots \ {sel.slot, sel.source}
        BY <4>1 DEF Obsolete
      <4> QED BY <2>1, <2>2, <4>2, MayStageAvoids
    <3>2. CASE t \in todo /\ pc \in {"collect", "cleanup"}
      BY <2>2, <3>2 DEF KInv, TargetInv
    <3>3. CASE UNCHANGED vars \/ CommitWrite \/ FlushJournal \/ ControlStep
      BY <1>3, <3>2, <3>3 DEF vars, host, CommitWrite, FlushJournal, ControlStep
    <3>4. CASE RetireSeal \/ RetireFiles \/ RetireFails
      BY <1>3, <3>2, <3>4 DEF RetireSeal, RetireFiles, RetireFails, host
    <3>5. ~(\/ CommitFails \/ BootOpen \/ Scan \/ Anchor \/ AnchorDone \/ Enable \/ Confirm
            \/ BootDone \/ CompactOpen \/ CompactPrepare \/ CompactBegin \/ ConvertBegin)
      BY <1>3 DEF CommitFails, BootOpen, Scan, Anchor, AnchorDone, Enable, Confirm, BootDone,
                  CompactOpen, CompactPrepare, CompactBegin, ConvertBegin, Begin
    <3>6. ~(\/ StageInvalidate \/ StageFlushSeal \/ StageTruncate \/ StagePrepare
            \/ StageFlushJournal \/ StageSeal)
      BY <1>3
      DEF StageInvalidate, StageFlushSeal, StageTruncate, StagePrepare, StageFlushJournal,
          StageSeal, Staged, Staging
    <3>7. ~(\/ Activate \/ Publish \/ CleanupDone \/ LegacyRetireFails \/ CompactFails
            \/ StageFails \/ ConvertFails \/ PublishFails \/ ProcessDies \/ PowerFails)
      BY <1>3 DEF Activate, Publish, CleanupDone, LegacyRetireFails, CompactFails,
                  StageFails, ConvertFails, PublishFails, ProcessDies, PowerFails, Stopped
    <3> QED BY <3>1, <3>3, <3>4, <3>5, <3>6, <3>7 DEF Next
  <2>4. Avoids(t, i)'
    BY <2>1, <2>2, <2>3, AvoidsStays
  <2> QED BY <2>1, <2>2, <2>4 DEF Avoids
<1> QED BY <1>1, <1>2, <1>3 DEF TargetInv

\* The new generation grows as its stage says.
LEMMA WrittenStep == KInv /\ [Next]_vars => WrittenInv'
<1> SUFFICES ASSUME KInv, [Next]_vars, Staging' PROVE WrittenInv'
  BY DEF WrittenInv
<1>0. /\ stage \in 0 .. 9
      /\ DOMAIN jcache = Places /\ DOMAIN jdisk = Places
      /\ DOMAIN scache = Slots /\ DOMAIN sdisk = Slots
      /\ Staging => target \in Slots
  BY DEF KInv, TInv, HostInv, JournalsInv, SealedInv, OInv, StageInv, Staging
<1>1. CASE /\ Staging /\ UNCHANGED <<sel, target, stage, attempts, jcache, jdisk, scache, sdisk>>
  <2>1. NewSeal' = NewSeal /\ NewId' = NewId /\ Visible' = Visible
    BY <1>1 DEF NewSeal, NewId, Visible
  <2> QED BY <1>1, <2>1 DEF WrittenInv, KInv
<1>2. CASE UNCHANGED vars \/ ControlStep
  BY <1>1, <1>2 DEF vars, slots, host, ControlStep, Staging
<1>3. CASE CompactBegin \/ ConvertBegin
  <2>1. stage' = 1
    BY <1>3 DEF CompactBegin, ConvertBegin, Begin
  <2> QED BY <2>1 DEF WrittenInv
<1>4. CASE StageInvalidate \/ StageTruncate
  <2>1. stage' \in {2, 3, 4}
    BY <1>4 DEF StageInvalidate, StageTruncate, Staged, host
  <2> QED BY <2>1 DEF WrittenInv
<1>5. CASE StageFlushSeal \/ StageFlushJournal \/ StageSeal
  <2>1. /\ Staging /\ stage' = stage + 1 /\ target \in Slots /\ target \in Places
        /\ UNCHANGED <<sel, target, attempts, jcache>>
    BY <1>0, <1>5, PlaceFacts DEF StageFlushSeal, StageFlushJournal, StageSeal, Staged
  <2>2. NewSeal' = NewSeal /\ NewId' = NewId /\ Visible' = Visible
    BY <2>1 DEF NewSeal, NewId, Visible
  <2>3. /\ stage >= 5 => jcache[target] = [id |-> NewId, txs |-> Visible]
        /\ stage >= 6 => jdisk[target] = jcache[target]
        /\ stage >= 8 => scache[target] = NewSeal
    BY <2>1 DEF KInv, WrittenInv
  <2>4. CASE StageFlushSeal
    <3>1. /\ stage \in {2, 8} /\ UNCHANGED <<jdisk, scache>> /\ sdisk'[target] = scache[target]
      BY <1>0, <2>1, <2>4 DEF StageFlushSeal
    <3> HIDE DEF NewSeal
    <3>2. CASE stage = 2
      BY <2>1, <3>2 DEF WrittenInv
    <3>3. CASE stage = 8
      BY <2>1, <2>2, <2>3, <3>1, <3>3 DEF WrittenInv
    <3> QED BY <3>1, <3>2, <3>3
  <2>5. CASE StageFlushJournal
    <3>1. stage = 5 /\ stage' = 6 /\ jdisk'[target] = jcache[target]
      BY <1>0, <2>1, <2>5 DEF StageFlushJournal
    <3> QED BY <2>1, <2>2, <2>3, <3>1 DEF WrittenInv
  <2>6. CASE StageSeal
    <3>1. /\ stage \in {6, 7} /\ UNCHANGED <<jdisk>>
          /\ stage = 7 => scache'[target] = NewSeal
      BY <1>0, <2>1, <2>6 DEF StageSeal
    <3> HIDE DEF NewSeal
    <3>2. CASE stage = 6
      BY <2>1, <2>2, <2>3, <3>1, <3>2 DEF WrittenInv
    <3>3. CASE stage = 7
      BY <2>1, <2>2, <2>3, <3>1, <3>3 DEF WrittenInv
    <3> QED BY <3>1, <3>2, <3>3
  <2> QED BY <1>5, <2>4, <2>5, <2>6
<1>6. CASE StagePrepare
  <2>1. /\ Staging /\ stage' = 5 /\ target \in Slots /\ target \in Places
        /\ UNCHANGED <<sel, target, attempts>>
        /\ jcache' = [jcache EXCEPT ![target] = [id |-> NewId, txs |-> Visible]]
    BY <1>0, <1>6, PlaceFacts DEF StagePrepare, Staged
  <2>2. sel.slot # target
    BY <2>1, SelectedParts DEF KInv, TargetInv, Avoids
  <2>3. NewId' = NewId /\ Visible' = Visible
    BY <2>1, <2>2 DEF NewId, Visible
  <2>4. jcache'[target] = [id |-> NewId, txs |-> Visible]
    BY <1>0, <2>1
  <2> QED BY <2>1, <2>3, <2>4 DEF WrittenInv
<1>7. ~(\/ CommitWrite \/ FlushJournal \/ CommitFails \/ BootOpen \/ Scan \/ Anchor \/ AnchorDone
        \/ Enable \/ Confirm \/ ConfirmDone \/ RetireSeal \/ RetireFiles \/ RetireFails
        \/ BootDone \/ CompactOpen \/ CompactPrepare)
  BY DEF CommitWrite, FlushJournal, GuestsRun, CommitFails, BootOpen, Scan, Anchor,
         AnchorDone, Enable, Confirm, ConfirmDone, RetireSeal, RetireFiles, RetireFails,
         BootDone, CompactOpen, CompactPrepare, Staging
<1>8. ~(\/ Activate \/ Publish \/ PublishDone \/ CleanupDone \/ LegacyRetireFails \/ CompactFails
        \/ StageFails \/ ConvertFails \/ PublishFails \/ ProcessDies \/ PowerFails)
  BY DEF Activate, Publish, PublishDone, CleanupDone, LegacyRetireFails, CompactFails,
         StageFails, ConvertFails, PublishFails, ProcessDies, PowerFails, Stopped, Staging
<1> QED BY <1>2, <1>3, <1>4, <1>5, <1>6, <1>7, <1>8 DEF Next

-----------------------------------------------------------------------------
(* What the invariant shows.                                               *)

\* An empty computer holds no record.
LEMMA KeptInit == Init => KInv
<1> SUFFICES ASSUME Init PROVE KInv
  OBVIOUS
<1>1. /\ cache = [r \in Replicas |-> Blank] /\ disk = cache /\ current = Blank /\ committed = Blank
      /\ task = "none" /\ mode = "closed"
      /\ pc = "down" /\ jcache = [p \in Places |-> NoJournal] /\ jdisk = jcache
  BY DEF Init, ControlInit
<1>2. OInv /\ TInv /\ IInv
  BY OverlayInit, TypedInit, InvariantInit DEF Init
<1>3. \A x : ~Held(x)
  BY <1>1, RecordFacts DEF Held, Replicas
<1>4. HeldKept
  BY <1>3 DEF HeldKept
<1>5. LegacyInv
  BY <1>1, PlaceFacts DEF LegacyInv
<1> QED
  BY <1>1, <1>2, <1>4, <1>5
  DEF KInv, SelKept, Selecting, QuietFiles, PhaseInv, KnownInv, TargetInv, WrittenInv, Staging

\* Every step keeps the invariant.
LEMMA KeptStep == KInv /\ [Next]_vars => KInv'
<1> SUFFICES ASSUME KInv, [Next]_vars PROVE KInv'
  OBVIOUS
<1>1. OInv' /\ TInv'
  BY OverlayStep, TypedStep DEF KInv
<1>2. IInv'
  BY StepControls, InvariantStep DEF KInv
<1> QED
  BY <1>1, <1>2, HeldKeptStep, SelKeptStep, QuietStep, PhaseStep, KnownStep, TargetStep, LegacyStep,
     WrittenStep
  DEF KInv

\* The overlay keeps it.
LEMMA KeptInvariant == Spec => []KInv
BY KeptInit, KeptStep, PTL DEF Spec

\* A boot is refused only when no publication has returned: the record it reads
\* names a generation that verifies, with the seal that was activated.
LEMMA NotRefused ==
  ASSUME KInv, BootNeverRefused, [Next]_vars
  PROVE  BootNeverRefused'
<1> SUFFICES ASSUME committed' # Blank, pc' = "refused" PROVE FALSE
  BY DEF BootNeverRefused
<1>1. CASE BootOpen
  <2>1. committed' = committed /\ SelectRefuses(cache)
    BY <1>1 DEF BootOpen, OpenControls
  <2> QED BY <2>1, InvariantKeepsPublished DEF KInv, PublishedSurvives, Keeps
<1>2. CASE Scan
  <2>1. committed # Blank /\ mode = "open" /\ (InventoryRefused \/ LegacyRefused)
    BY <1>2 DEF Scan, controls, KInv, PhaseInv
  <2>2. current \in Records /\ current # Blank
    BY <2>1, RecordFacts DEF KInv, IInv, CurrentInv
  <2>3. Kept(current.identity)
    BY <2>2 DEF Held, KInv, HeldKept
  <2>4. CASE current.identity.slot = Legacy
    <3>1. ~Anchored
      BY <2>4, PlaceFacts DEF Anchored, Found
    <3>2. jcache[Legacy] # NoJournal
      BY <2>3, <2>4 DEF Kept, LegacyWhole, LegacyId, NoJournal
    <3> QED BY <2>1, <2>2, <2>4, <3>1, <3>2 DEF InventoryRefused, LegacyRefused
  <2>5. CASE current.identity.slot # Legacy
    <3>1. /\ current.identity.slot \in Slots /\ Whole(current.identity.slot)
          /\ current.identity = IdentityOf(current.identity.slot)
      BY <2>3, <2>5 DEF Kept
    <3>2. Anchored
      BY <2>2, <3>1 DEF Anchored, Found, Whole
    <3> QED BY <2>1, <2>2, <3>1, <3>2 DEF InventoryRefused, LegacyRefused
  <2> QED BY <2>4, <2>5
<1>3. CASE UNCHANGED vars
  BY <1>3 DEF vars, controls, BootNeverRefused
<1>4. CASE ControlStep
  <2>1. pc = "refused" /\ task # "none"
    BY <1>4, NoTaskNoLoop DEF ControlStep
  <2> QED BY <2>1 DEF KInv, PhaseInv
<1>5. ~(\/ CommitWrite \/ FlushJournal \/ CommitFails \/ Anchor \/ AnchorDone
        \/ Enable \/ Confirm \/ ConfirmDone \/ RetireSeal \/ RetireFiles \/ RetireFails
        \/ BootDone \/ CompactOpen \/ CompactPrepare \/ CompactBegin \/ ConvertBegin)
  BY DEF CommitWrite, FlushJournal, GuestsRun, CommitFails, Anchor, AnchorDone, Enable, Confirm,
         ConfirmDone, RetireSeal, RetireFiles, RetireFails, BootDone, CompactOpen, CompactPrepare,
         CompactBegin, ConvertBegin, Begin
<1>6. ~(\/ StageInvalidate \/ StageFlushSeal \/ StageTruncate \/ StagePrepare
        \/ StageFlushJournal \/ StageSeal)
  BY DEF StageInvalidate, StageFlushSeal, StageTruncate, StagePrepare, StageFlushJournal,
         StageSeal, Staged, Staging
<1>7. ~(\/ Activate \/ Publish \/ PublishDone \/ CleanupDone \/ LegacyRetireFails \/ CompactFails
        \/ StageFails \/ ConvertFails \/ PublishFails \/ ProcessDies \/ PowerFails)
  BY DEF Activate, Publish, PublishDone, CleanupDone, LegacyRetireFails, CompactFails,
         StageFails, ConvertFails, PublishFails, ProcessDies, PowerFails, Stopped
<1> QED BY <1>1, <1>2, <1>3, <1>4, <1>5, <1>6, <1>7 DEF Next

\* Once a generation has been published, no later boot refuses the computer,
\* whatever crashes, failed calls and half-done conversions, compactions and
\* retirements came between, for any number of slots, attempts and faults
\* (enableBestOverlayGeneration, requireInventory).
THEOREM BootsAreNeverRefused == Spec => []BootNeverRefused
<1>1. Init => BootNeverRefused
  BY DEF Init, ControlInit, BootNeverRefused
<1> QED BY <1>1, KeptInvariant, NotRefused, PTL DEF Spec

\* The generation the published one was made from stays whole on the medium until
\* a further one is published: neither a new generation, nor a retirement, nor a
\* crash in the middle of either takes it (mayStage, mayRetire, mayRetireUnsealed).
THEOREM PredecessorIsKept == Spec => []PredecessorKept
<1>1. ASSUME KInv PROVE PredecessorKept
  <2> SUFFICES ASSUME committed # Blank, committed.identity.generation >= 1
               PROVE  IF committed.identity.generation = 1 THEN jdisk[Legacy] # NoJournal
                      ELSE \E s \in Slots \ {committed.identity.slot} :
                             /\ Verified(jdisk, sdisk, s)
                             /\ sdisk[s].generation + 1 = committed.identity.generation
    BY DEF PredecessorKept
  <2>1. committed \in Records
    BY <1>1 DEF KInv, IInv, ControlTypeOK
  <2>2. Kept(committed.identity)
    BY <1>1, <2>1 DEF Held, KInv, HeldKept
  <2>3. committed.identity.slot # Legacy
    BY <2>2 DEF Kept, LegacyIdentity
  <2> DEFINE c == committed.identity.slot
  <2>4. /\ c \in Slots /\ SourceWhole(c) /\ committed.identity = IdentityOf(c)
    BY <2>2, <2>3 DEF Kept
  <2>5. scache[c].generation = committed.identity.generation
    BY <2>4 DEF IdentityOf
  <2>6. CASE committed.identity.generation = 1
    BY <2>4, <2>5, <2>6 DEF SourceWhole, LegacyWhole, LegacyId, NoJournal
  <2>7. CASE committed.identity.generation # 1
    <3>1. /\ scache[c].source \in Slots \ {c} /\ Whole(scache[c].source)
          /\ scache[scache[c].source].generation + 1 = scache[c].generation
      BY <2>4, <2>5, <2>7 DEF SourceWhole
    <3> QED BY <2>5, <2>7, <3>1 DEF Whole
  <2> QED BY <2>6, <2>7
<1> QED BY <1>1, KeptInvariant, PTL

-----------------------------------------------------------------------------
(* The log that the guests see.                                            *)

\* A prefix of a prefix is one.
LEMMA PrefixTransitive ==
  ASSUME NEW s \in Seq(Nat), NEW t \in Seq(Nat), NEW u \in Seq(Nat), IsPrefix(s, t), IsPrefix(t, u)
  PROVE  IsPrefix(s, u)
<1>1. /\ Len(s) \in Nat /\ Len(t) \in Nat /\ Len(u) \in Nat /\ Len(s) <= Len(t) /\ Len(t) <= Len(u)
      /\ SubSeq(s, 1, Len(s)) = SubSeq(t, 1, Len(s)) /\ SubSeq(t, 1, Len(t)) = SubSeq(u, 1, Len(t))
  BY DEF IsPrefix
<1>2. \A k \in 1 .. Len(t) : t[k] = u[k]
  <2> SUFFICES ASSUME NEW k \in 1 .. Len(t) PROVE t[k] = u[k]
    OBVIOUS
  <2>1. SubSeq(t, 1, Len(t))[k] = t[k]
    OBVIOUS
  <2>2. SubSeq(u, 1, Len(t))[k] = u[k]
    BY <1>1
  <2> QED BY <1>1, <2>1, <2>2
<1>3. SubSeq(t, 1, Len(s)) = SubSeq(u, 1, Len(s))
  BY <1>1, <1>2
<1> QED BY <1>1, <1>3 DEF IsPrefix

\* A prefix is the beginning of the longer one.
LEMMA PrefixIsBeginning ==
  ASSUME NEW s \in Seq(Nat), NEW t \in Seq(Nat), IsPrefix(s, t)
  PROVE  Len(s) \in Nat /\ Len(t) \in Nat /\ Len(s) <= Len(t) /\ s = SubSeq(t, 1, Len(s))
<1>1. SubSeq(s, 1, Len(s)) = s
  OBVIOUS
<1> QED BY <1>1 DEF IsPrefix

\* The log of DurableLog, and the journals it can be recovered from: what is on
\* the medium is a beginning of what a reader sees, that one of the log, and all
\* of them hold what was acknowledged.
Log == IF Alive THEN Visible ELSE last
Recovers(p) ==
  /\ IsPrefix(jdisk[p].txs, jcache[p].txs) /\ IsPrefix(jcache[p].txs, Log)
  /\ Len(jdisk[p].txs) >= synced
\* The places that a record or the selection names.
Named(p) ==
  \/ \E x : Held(x) /\ x.identity.slot = p
  \/ (Selecting \/ pc = "enable") /\ p = sel.slot
NamedRecover == \A p : Named(p) => Recovers(p)
\* Before the first publication the guests have seen nothing.
NothingYet ==
  committed = Blank => /\ ~Alive /\ last = <<>> /\ synced = 0
                       /\ jcache[Legacy].txs = <<>> /\ jdisk[Legacy].txs = <<>>
DirtyInv == dirty => pc \in {"up", "compact", "cleanup"}
LogTyped == last \in Seq(Nat)
LInv == KInv /\ NamedRecover /\ NothingYet /\ DirtyInv /\ LogTyped

\* What is named is a place, with journals of transactions.
LEMMA NamedTyped ==
  ASSUME KInv, NEW p, Named(p)
  PROVE  /\ p \in Places /\ jcache[p].txs \in Seq(Nat) /\ jdisk[p].txs \in Seq(Nat)
         /\ synced \in Nat /\ sel.slot \in Places
<1>1. sel.slot \in Places
  BY DEF KInv, OInv, SelInv, Selection
<1>2. p \in Places
  BY <1>1, PlaceFacts DEF Named, KInv, HeldKept, Kept
<1> QED BY <1>1, <1>2, BoundAssumption DEF KInv, TInv, JournalsInv, JournalBounded, Journals, GuestsInv

\* What guests see is a sequence of transactions.
LEMMA LogIsTyped ==
  ASSUME KInv, LogTyped
  PROVE  Log \in Seq(Nat) /\ Visible \in Seq(Nat)
<1>1. sel.slot \in Places
  BY DEF KInv, OInv, SelInv, Selection
<1>2. Visible \in Seq(Nat)
  BY <1>1 DEF KInv, TInv, JournalsInv, JournalBounded, Journals, Visible
<1> QED BY <1>2 DEF Log, LogTyped

\* A name that a step gives was given before, but for a boot's selection and for
\* a new generation.
LEMMA NamedBefore ==
  ASSUME KInv, [Next]_vars, NEW p, Named(p)', ~Scan, ~Activate
  PROVE  Named(p)
<1>1. CASE \E x : Held(x)' /\ x.identity.slot = p
  <2>1. PICK x : Held(x)' /\ x.identity.slot = p
    BY <1>1
  <2>2. CASE Held(x)
    BY <2>1, <2>2 DEF Named
  <2>3. CASE ~Held(x)
    <3>1. /\ PublishRecord(SelectedIdentity) /\ Selecting
          /\ x = NextActivation(current, SelectedIdentity)
      BY <2>1, <2>3, PairSteps, HeldMoves, HeldPublished DEF PairMoves, KInv
    <3>2. x.identity = SelectedIdentity
      BY <3>1 DEF NextActivation
    <3> QED BY <2>1, <3>1, <3>2, SelectedParts DEF Named
  <2> QED BY <2>2, <2>3
<1>2. CASE (Selecting' \/ pc' = "enable") /\ p = sel'.slot
  <2>1. CASE Enable
    BY <1>2, <2>1 DEF Enable, host, Named
  <2>2. CASE Selecting' /\ ~Enable
    BY <1>2, <2>2, SelectionStays DEF Named
  <2>3. CASE pc' = "enable" /\ pc = "enable" /\ sel' = sel
    BY <1>2, <2>3 DEF Named
  <2>4. CASE pc' = "enable" /\ pc = "anchor" /\ sel' = sel
    BY <1>2, <2>4 DEF Named, Selecting
  <2>5. CASE UNCHANGED vars \/ ControlStep \/ AnchorDone
    BY <1>2, <2>2, <2>3, <2>4, <2>5 DEF vars, host, ControlStep, AnchorDone, Enable
  <2>6. ASSUME pc' = "enable"
        PROVE ~(\/ CommitWrite \/ FlushJournal \/ CommitFails \/ BootOpen \/ Anchor \/ Confirm
                \/ ConfirmDone \/ RetireSeal \/ RetireFiles \/ RetireFails \/ BootDone
                \/ CompactOpen \/ CompactPrepare \/ CompactBegin \/ ConvertBegin)
    BY <2>6
    DEF CommitWrite, FlushJournal, CommitFails, BootOpen, Anchor, Confirm, ConfirmDone, RetireSeal,
        RetireFiles, RetireFails, BootDone, CompactOpen, CompactPrepare, CompactBegin,
        ConvertBegin, Begin, GuestsRun
  <2>7. ASSUME pc' = "enable"
        PROVE ~(\/ StageInvalidate \/ StageFlushSeal \/ StageTruncate \/ StagePrepare
                \/ StageFlushJournal \/ StageSeal \/ Publish \/ PublishDone \/ CleanupDone
                \/ LegacyRetireFails \/ CompactFails \/ StageFails \/ ConvertFails \/ PublishFails
                \/ ProcessDies \/ PowerFails)
    BY <2>7
    DEF StageInvalidate, StageFlushSeal, StageTruncate, StagePrepare, StageFlushJournal,
        StageSeal, Staged, Staging, Publish, PublishDone, CleanupDone,
        LegacyRetireFails, CompactFails, StageFails, ConvertFails, PublishFails, ProcessDies,
        PowerFails, Stopped
  <2> QED BY <1>2, <2>1, <2>2, <2>5, <2>6, <2>7 DEF Next
<1> QED BY <1>1, <1>2 DEF Named, Held

\* While a slot is written over or retired, it is named by nothing.
LEMMA NamedIsElsewhere ==
  ASSUME KInv, NEW p, Named(p)
  PROVE  /\ Staging => p # target
         /\ pc \in {"collect", "up", "compact", "stage", "cleanup"} => p = sel.slot
         /\ pc \in {"collect", "cleanup"} => p \notin todo
<1>1. ASSUME pc \in {"collect", "up", "compact", "stage", "cleanup"} PROVE p = sel.slot
  BY <1>1, QuietHeld, SelectedParts DEF Named
<1>2. ASSUME Staging PROVE p # target
  <2>1. Selecting
    BY <1>2 DEF Staging, Selecting
  <2> QED BY <1>2, SelectedParts DEF Named, KInv, TargetInv, Avoids
<1>3. ASSUME pc \in {"collect", "cleanup"} PROVE p \notin todo
  BY <1>1, <1>3, SelectedParts DEF KInv, TargetInv, Avoids
<1> QED BY <1>1, <1>2, <1>3

\* What a step other than a commit does to a journal that is named: nothing, a
\* flush, or a power loss that leaves it with one of its contents.
Flushed(p) == jcache'[p].txs = jcache[p].txs /\ jdisk'[p].txs = jcache[p].txs
Unwritten(p) == jcache'[p].txs = jcache[p].txs /\ jdisk'[p].txs = jdisk[p].txs
RolledBack(p) ==
  /\ jcache'[p].txs = jdisk'[p].txs
  /\ jdisk'[p].txs = jcache[p].txs \/ jdisk'[p].txs = jdisk[p].txs
\* Every step that is not a commit does one of these to a journal in use.
LEMMA JournalMoves ==
  ASSUME KInv, [Next]_vars, ~CommitWrite,
         NEW p \in Places, Staging => p # target, pc \in {"collect", "cleanup"} => p \notin todo,
         CleanupDone /\ LegacyRetirable => p # Legacy
  PROVE  Unwritten(p) \/ Flushed(p) \/ (PowerFails /\ RolledBack(p))
<1>0. sel.slot \in Places /\ DOMAIN jcache = Places /\ DOMAIN jdisk = Places
  BY DEF KInv, TInv, JournalsInv, OInv, SelInv, Selection
<1>1. CASE \/ UNCHANGED vars \/ CommitFails \/ BootOpen \/ Scan \/ Anchor \/ AnchorDone \/ Confirm
           \/ ConfirmDone \/ RetireFails \/ BootDone \/ CompactOpen \/ CompactPrepare
  <2>1. UNCHANGED <<jcache, jdisk>>
    BY <1>1 DEF vars, slots, CommitFails, BootOpen, Scan, Anchor, AnchorDone, Confirm, ConfirmDone,
                RetireFails, BootDone, CompactOpen, CompactPrepare
  <2> QED BY <2>1 DEF Unwritten
<1>2. CASE \/ CompactBegin \/ ConvertBegin \/ Activate \/ Publish \/ PublishDone
           \/ LegacyRetireFails \/ ControlStep \/ CompactFails \/ PublishFails \/ ProcessDies
           \/ StageInvalidate \/ StageFlushSeal \/ StageSeal \/ RetireSeal
  <2>1. UNCHANGED <<jcache, jdisk>>
    BY <1>2 DEF slots, CompactBegin, ConvertBegin, Activate, Publish, PublishDone,
                LegacyRetireFails, ControlStep, CompactFails, PublishFails, ProcessDies,
                StageInvalidate, StageFlushSeal, StageSeal, RetireSeal
  <2> QED BY <2>1 DEF Unwritten
<1>3. CASE FlushJournal
  BY <1>0, <1>3 DEF FlushJournal, Unwritten, Flushed
<1>4. CASE Enable
  <2>1. jcache[p] \in Journals /\ jdisk[p] \in Journals
    BY <1>0 DEF KInv, TInv, JournalsInv, JournalBounded
  <2>2. \A j \in Journals : [j EXCEPT !.id = LegacyId].txs = j.txs
    BY DEF Journals
  <2>3. \/ jcache'[p] = jcache[p] /\ jdisk'[p] = jdisk[p]
        \/ /\ jcache'[p] = [jcache[p] EXCEPT !.id = LegacyId]
           /\ jdisk'[p] = [jdisk[p] EXCEPT !.id = LegacyId]
    BY <1>0, <1>4 DEF Enable
  <2> QED BY <2>1, <2>2, <2>3 DEF Unwritten
<1>5. CASE RetireFiles
  <2>1. p # Min(todo)
    <3>1. todo # {} /\ todo \in SUBSET Nat /\ pc \in {"collect", "cleanup"}
      BY <1>5, SlotAssumption DEF RetireFiles, KInv, TInv, HostInv, Slots
    <3>2. Min(todo) \in todo
      BY <3>1, LeastExists
    <3> QED BY <3>1, <3>2
  <2>2. jcache'[p] = jcache[p] /\ jdisk'[p] = jdisk[p]
    BY <1>0, <1>5, <2>1 DEF RetireFiles
  <2> QED BY <2>2 DEF Unwritten
<1>6. CASE StageTruncate \/ StageFlushJournal \/ StageFails \/ ConvertFails
  <2>1. p # target
    BY <1>6
    DEF StageTruncate, StageFlushJournal, StageFails, ConvertFails, Staging
  <2>2. jcache'[p] = jcache[p] /\ jdisk'[p] = jdisk[p]
    BY <1>0, <1>6, <2>1
    DEF StageTruncate, StageFlushJournal, StageFails, ConvertFails, SealDiscarded, SealKept
  <2> QED BY <2>2 DEF Unwritten
<1>7. CASE StagePrepare
  <2>1. p # target
    BY <1>7 DEF StagePrepare
  <2>2. jcache'[p] = jcache[p] /\ (jdisk'[p] = jdisk[p] \/ jdisk'[p] = jcache[p])
    BY <1>0, <1>7, <2>1 DEF StagePrepare
  <2> QED BY <2>2 DEF Unwritten, Flushed
<1>8. CASE CleanupDone
  <2>1. CASE LegacyRetirable
    <3>1. jcache'[p] = jcache[p] /\ jdisk'[p] = jdisk[p]
      BY <1>0, <1>8, <2>1 DEF CleanupDone
    <3> QED BY <3>1 DEF Unwritten
  <2>2. CASE ~LegacyRetirable
    BY <1>8, <2>2 DEF CleanupDone, Unwritten
  <2> QED BY <2>1, <2>2
<1>9. CASE PowerFails
  BY <1>0, <1>9 DEF PowerFails, RolledBack
<1> QED BY <1>1, <1>2, <1>3, <1>4, <1>5, <1>6, <1>7, <1>8, <1>9 DEF Next

\* So does every journal that is named.
LEMMA NamedJournals ==
  ASSUME KInv, [Next]_vars, NEW p, Named(p), ~CommitWrite
  PROVE  Unwritten(p) \/ Flushed(p) \/ (PowerFails /\ RolledBack(p))
<1>1. p \in Places
  BY NamedTyped
<1>2. ASSUME CleanupDone, LegacyRetirable PROVE p # Legacy
  <2>1. p = sel.slot /\ sel.generation = 2
    BY <1>2, NamedIsElsewhere DEF CleanupDone, LegacyRetirable
  <2> QED BY <2>1 DEF KInv, OInv, SelInv
<1> QED BY <1>1, <1>2, NamedIsElsewhere, JournalMoves

\* Guests come up by the end of a boot only, and what they saw last is kept when
\* they stop; only a flush acknowledges anything.
LEMMA StepKinds ==
  ASSUME LInv, [Next]_vars, ~BootDone
  PROVE  /\ \/ Alive /\ Alive'
            \/ ~Alive /\ ~Alive' /\ last' = last
            \/ Alive /\ ~Alive' /\ last' = Visible
         /\ synced' = synced \/ FlushJournal
<1>1. CASE \/ UNCHANGED vars \/ CommitWrite \/ FlushJournal \/ BootOpen \/ Scan \/ Anchor
           \/ AnchorDone \/ Enable \/ Confirm \/ ConfirmDone
  BY <1>1 DEF vars, guests, CommitWrite, FlushJournal, GuestsRun, BootOpen, Scan, Anchor, AnchorDone,
              Enable, Confirm, ConfirmDone, Alive
<1>2. CASE \/ RetireSeal \/ RetireFiles \/ RetireFails \/ CompactOpen \/ CompactPrepare
           \/ CompactBegin \/ ConvertBegin
  BY <1>2 DEF guests, RetireSeal, RetireFiles, RetireFails, CompactOpen, CompactPrepare, CompactBegin,
              ConvertBegin, Begin, Alive
<1>3. CASE \/ StageInvalidate \/ StageFlushSeal \/ StageTruncate \/ StagePrepare
           \/ StageFlushJournal \/ StageSeal
  BY <1>3 DEF guests, StageInvalidate, StageFlushSeal, StageTruncate, StagePrepare,
              StageFlushJournal, StageSeal, Staged, Alive
<1>4. CASE \/ Activate \/ Publish \/ PublishDone \/ CleanupDone \/ LegacyRetireFails \/ ControlStep
           \/ CompactFails \/ StageFails \/ ConvertFails
  BY <1>4 DEF guests, Activate, Staging, Publish, PublishDone, CleanupDone, LegacyRetireFails,
              ControlStep, CompactFails, StageFails, ConvertFails, Alive
<1>5. CASE CommitFails \/ PublishFails \/ ProcessDies \/ PowerFails
  BY <1>5 DEF LInv, DirtyInv, CommitFails, PublishFails, ProcessDies, PowerFails, Stopped, Alive
<1> QED BY <1>1, <1>2, <1>3, <1>4, <1>5 DEF Next

\* What the guests see changes with commits and boots only: a compaction hands
\* over the same transactions.
LEMMA LogStays ==
  ASSUME LInv, [Next]_vars, ~CommitWrite, ~BootDone
  PROVE  Log' = Log
<1>1. CASE Alive /\ Alive'
  <2>1. Selecting /\ Selecting' /\ ~Scan /\ ~Enable /\ ~PowerFails
    BY <1>1 DEF Alive, Selecting, Scan, Enable, PowerFails, Stopped
  <2>2. CASE Activate
    <3>1. pc = "stage" /\ stage = 9 /\ sel'.slot = target /\ jcache' = jcache
      BY <1>1, <2>2 DEF Activate, Staging, Alive, NewSelection, slots
    <3>2. jcache[target].txs = Visible
      BY <3>1 DEF LInv, KInv, WrittenInv, Staging
    <3> QED BY <1>1, <3>1, <3>2 DEF Log, Visible
  <2>3. CASE ~Activate
    <3>1. sel'.slot = sel.slot
      BY <2>1, <2>3, SelectionStays DEF LInv
    <3>2. Named(sel.slot)
      BY <2>1 DEF Named
    <3>3. jcache'[sel.slot].txs = jcache[sel.slot].txs
      BY <2>1, <3>2, NamedJournals DEF LInv, Unwritten, Flushed
    <3> QED BY <1>1, <3>1, <3>3 DEF Log, Visible
  <2> QED BY <2>2, <2>3
<1>2. CASE ~Alive /\ ~Alive' /\ last' = last
  BY <1>2 DEF Log
<1>3. CASE Alive /\ ~Alive' /\ last' = Visible
  BY <1>3 DEF Log
<1> QED BY <1>1, <1>2, <1>3, StepKinds

\* A journal that nothing is written to can be recovered from as before.
LEMMA RecoversStays ==
  ASSUME LInv, [Next]_vars, ~CommitWrite, NEW p, Named(p), Log' = Log, synced' = synced
  PROVE  Recovers(p)'
<1>1. /\ jcache[p].txs \in Seq(Nat) /\ jdisk[p].txs \in Seq(Nat) /\ synced \in Nat
      /\ Log \in Seq(Nat)
  BY NamedTyped, LogIsTyped DEF LInv
<1>2. /\ IsPrefix(jdisk[p].txs, jcache[p].txs) /\ IsPrefix(jcache[p].txs, Log)
      /\ Len(jdisk[p].txs) >= synced
  BY DEF LInv, NamedRecover, Recovers
<1>3. /\ IsPrefix(jdisk[p].txs, Log) /\ IsPrefix(jdisk[p].txs, jdisk[p].txs)
      /\ IsPrefix(jcache[p].txs, jcache[p].txs)
  BY <1>1, <1>2, PrefixTransitive, PrefixOfItself
<1>4. Len(jcache[p].txs) >= synced
  <2>1. Len(jdisk[p].txs) \in Nat /\ Len(jcache[p].txs) \in Nat /\ Len(jdisk[p].txs) <= Len(jcache[p].txs)
    BY <1>1, <1>2, PrefixIsBeginning
  <2> QED BY <1>1, <1>2, <2>1
<1>5. CASE Unwritten(p)
  BY <1>2, <1>5 DEF Unwritten, Recovers
<1>6. CASE Flushed(p)
  BY <1>2, <1>3, <1>4, <1>6 DEF Flushed, Recovers
<1>7. CASE RolledBack(p)
  BY <1>2, <1>3, <1>4, <1>7 DEF RolledBack, Recovers
<1> QED BY <1>5, <1>6, <1>7, NamedJournals DEF LInv

\* A commit goes to the one journal that is named while guests run.
LEMMA CommitRecovers ==
  ASSUME LInv, CommitWrite, NEW p, Named(p)
  PROVE  Recovers(p)' /\ Log' = Append(Log, nextTx)
<1>1. /\ jcache[p].txs \in Seq(Nat) /\ jdisk[p].txs \in Seq(Nat) /\ synced \in Nat /\ p \in Places
      /\ nextTx \in Nat /\ DOMAIN jcache = Places /\ jcache[p] \in Journals
  BY NamedTyped, BoundAssumption DEF LInv, KInv, TInv, GuestsInv, JournalsInv, JournalBounded
<1>2. p = sel.slot /\ Alive /\ Alive' /\ Log = jcache[p].txs
  BY NamedIsElsewhere DEF LInv, CommitWrite, GuestsRun, Alive, Log, Visible
<1>3. /\ jcache'[p].txs = Append(jcache[p].txs, nextTx) /\ jdisk' = jdisk /\ sel' = sel
      /\ synced' = synced
  <2>1. jcache'[p] = [jcache[p] EXCEPT !.txs = Append(jcache[p].txs, nextTx)]
    BY <1>1, <1>2 DEF CommitWrite
  <2>2. jcache'[p].txs = Append(jcache[p].txs, nextTx)
    BY <1>1, <2>1 DEF Journals
  <2> QED BY <2>2 DEF CommitWrite, host
<1>4. Log' = jcache'[p].txs
  BY <1>2, <1>3 DEF Log, Visible
<1>5. IsPrefix(jdisk[p].txs, jcache[p].txs) /\ Len(jdisk[p].txs) >= synced
  BY DEF LInv, NamedRecover, Recovers
<1>6. IsPrefix(jdisk[p].txs, Append(jcache[p].txs, nextTx))
  BY <1>1, <1>5, PrefixGrows
<1>7. IsPrefix(Append(jcache[p].txs, nextTx), Append(jcache[p].txs, nextTx))
  <2>1. Append(jcache[p].txs, nextTx) \in Seq(Nat)
    BY <1>1
  <2> QED BY <2>1, PrefixOfItself
<1> QED BY <1>2, <1>3, <1>4, <1>5, <1>6, <1>7 DEF Recovers

\* A flush acknowledges what it puts on the medium, all that the guests see.
LEMMA FlushRecovers ==
  ASSUME LInv, FlushJournal, NEW p, Named(p)
  PROVE  Recovers(p)'
<1>1. /\ jcache[p].txs \in Seq(Nat) /\ p \in Places /\ DOMAIN jdisk = Places
      /\ Len(jcache[p].txs) \in Nat
  BY NamedTyped DEF LInv, KInv, TInv, JournalsInv
<1>2. p = sel.slot /\ Alive /\ Alive' /\ Visible = jcache[p].txs
  BY NamedIsElsewhere DEF LInv, FlushJournal, GuestsRun, Alive, Visible
<1>3. jdisk'[p] = jcache[p] /\ jcache' = jcache /\ sel' = sel /\ synced' = Len(jcache[p].txs)
  BY <1>1, <1>2 DEF FlushJournal, host
<1>4. Log' = jcache[p].txs
  BY <1>2, <1>3 DEF Log, Visible
<1>5. IsPrefix(jcache[p].txs, jcache[p].txs)
  BY <1>1, PrefixOfItself
<1> QED BY <1>1, <1>3, <1>4, <1>5 DEF Recovers

\* At the end of a boot the guests see the one journal that is named, a
\* beginning of what they saw last with all that was acknowledged.
LEMMA BootRecovers ==
  ASSUME LInv, BootDone
  PROVE  /\ \A p : Named(p) => Recovers(p)'
         /\ Log' = Visible /\ IsPrefix(Visible, Log) /\ Len(Visible) >= synced
         /\ ~Alive /\ Alive' /\ synced' = synced
<1>1. /\ pc = "collect" /\ ~Alive /\ Alive' /\ UNCHANGED <<jcache, jdisk, sel, synced>>
  BY DEF BootDone, Alive, slots, host
<1>2. Log' = Visible
  BY <1>1 DEF Log, Visible
<1>3. Named(sel.slot)
  BY <1>1 DEF Named, Selecting
<1>4. /\ IsPrefix(jdisk[sel.slot].txs, Visible) /\ IsPrefix(Visible, Log)
      /\ Len(jdisk[sel.slot].txs) >= synced
  BY <1>3 DEF LInv, NamedRecover, Recovers, Visible
<1>5. Visible \in Seq(Nat) /\ jdisk[sel.slot].txs \in Seq(Nat) /\ synced \in Nat
  BY <1>3, NamedTyped DEF LInv, Visible
<1>6. Len(Visible) >= synced
  <2>1. /\ Len(jdisk[sel.slot].txs) \in Nat /\ Len(Visible) \in Nat
        /\ Len(jdisk[sel.slot].txs) <= Len(Visible)
    BY <1>4, <1>5, PrefixIsBeginning
  <2> QED BY <1>4, <1>5, <2>1
<1>7. IsPrefix(Visible, Visible)
  BY <1>5, PrefixOfItself
<1>8. ASSUME NEW p, Named(p) PROVE Recovers(p)'
  <2>1. p = sel.slot
    BY <1>1, <1>8, NamedIsElsewhere DEF LInv
  <2> QED BY <1>1, <1>2, <1>4, <1>7, <2>1 DEF Recovers, Visible
<1> QED BY <1>1, <1>2, <1>4, <1>6, <1>8

\* A boot selects what a record names, or, before the first publication, the
\* legacy journal while it is empty.
LEMMA ScanRecovers ==
  ASSUME LInv, Scan, NEW p, Named(p)'
  PROVE  Recovers(p)'
<1>1. /\ UNCHANGED <<controls, jcache, jdisk, last, synced>> /\ ~Alive /\ ~Alive' /\ pc = "scan"
  BY DEF Scan, slots, guests, Alive
<1>2. Log' = Log
  BY <1>1 DEF Log
<1>3. Recovers(p) => Recovers(p)'
  BY <1>1, <1>2 DEF Recovers
<1>4. ASSUME NEW x, Held(x)', x.identity.slot = p PROVE Recovers(p)
  <2>1. Held(x)
    BY <1>1, <1>4, HeldMoves DEF LInv, KInv
  <2> QED BY <1>4, <2>1 DEF LInv, NamedRecover, Named
<1>5. ASSUME Selecting' \/ pc' = "enable", p = sel'.slot PROVE Recovers(p)
  <2>1. pc' # "refused"
    BY <1>5 DEF Selecting
  <2>2. CASE current # Blank
    <3>0. SelectedIdentity'.slot = sel'.slot
      BY DEF SelectedIdentity, LegacyIdentity
    <3>1. SelectedIdentity' = current.identity /\ SelectedIdentity'.slot = sel'.slot
      BY <2>1, <2>2, <3>0, ScanSelects DEF LInv
    <3>2. Held(current)
      BY <2>2 DEF Held, LInv, KInv, IInv, ControlTypeOK
    <3> QED BY <1>5, <3>1, <3>2 DEF LInv, NamedRecover, Named
  <2>3. CASE current = Blank
    <3>1. p = Legacy
      BY <1>5, <2>1, <2>3, ScanSelects DEF LInv
    <3>2. committed = Blank
      BY <1>1, <2>3, RecordFacts DEF LInv, KInv, PhaseInv, IInv, CurrentInv
    <3>3. /\ last = <<>> /\ synced = 0
          /\ jcache[Legacy].txs = <<>> /\ jdisk[Legacy].txs = <<>>
      BY <3>2 DEF LInv, NothingYet
    <3>4. IsPrefix(<<>>, <<>>) /\ Len(<<>>) = 0
      <4>1. <<>> \in Seq(Nat)
        OBVIOUS
      <4> QED BY <4>1, PrefixOfItself
    <3> QED BY <1>1, <3>1, <3>3, <3>4 DEF Recovers, Log
  <2> QED BY <2>2, <2>3
<1> QED BY <1>3, <1>4, <1>5 DEF Named

\* The new generation holds, on the medium, what the guests see.
LEMMA ActivateRecovers ==
  ASSUME LInv, Activate, NEW p, Named(p)'
  PROVE  Recovers(p)'
<1>1. /\ UNCHANGED <<controls, jcache, jdisk>> /\ Staging /\ stage = 9 /\ sel'.slot = target
      /\ synced' = synced
  BY DEF Activate, NewSelection, slots, guests
<1>2. Log' = Log
  <2>1. ~CommitWrite /\ ~BootDone
    BY <1>1 DEF CommitWrite, GuestsRun, BootDone, Staging
  <2> QED BY <2>1, LogStays DEF Next
<1>3. Recovers(p) => Recovers(p)'
  BY <1>1, <1>2 DEF Recovers
<1>4. ASSUME NEW x, Held(x)', x.identity.slot = p PROVE Recovers(p)
  <2>1. Held(x)
    BY <1>1, <1>4, HeldMoves DEF LInv, KInv
  <2> QED BY <1>4, <2>1 DEF LInv, NamedRecover, Named
<1>5. ASSUME p = target PROVE Recovers(p)
  <2>1. jcache[target].txs = Visible /\ jdisk[target].txs = Visible
    BY <1>1 DEF LInv, KInv, WrittenInv
  <2>2. Named(sel.slot)
    BY <1>1 DEF Named, Selecting, Staging
  <2>3. /\ IsPrefix(jdisk[sel.slot].txs, Visible) /\ IsPrefix(Visible, Log)
        /\ Len(jdisk[sel.slot].txs) >= synced
    BY <2>2 DEF LInv, NamedRecover, Recovers, Visible
  <2>4. Visible \in Seq(Nat) /\ jdisk[sel.slot].txs \in Seq(Nat) /\ synced \in Nat
    BY <2>2, NamedTyped DEF LInv, Visible
  <2>5. Len(Visible) >= synced
    <3>1. /\ Len(jdisk[sel.slot].txs) \in Nat /\ Len(Visible) \in Nat
          /\ Len(jdisk[sel.slot].txs) <= Len(Visible)
      BY <2>3, <2>4, PrefixIsBeginning
    <3> QED BY <2>3, <2>4, <3>1
  <2>6. IsPrefix(Visible, Visible)
    BY <2>4, PrefixOfItself
  <2> QED BY <1>5, <2>1, <2>3, <2>5, <2>6 DEF Recovers
<1> QED BY <1>1, <1>3, <1>4, <1>5 DEF Named

\* What is named can be recovered from after every step.
LEMMA RecoverStep == LInv /\ [Next]_vars => NamedRecover'
<1> SUFFICES ASSUME LInv, [Next]_vars, NEW p, Named(p)' PROVE Recovers(p)'
  BY DEF NamedRecover
<1>1. CASE Scan
  BY <1>1, ScanRecovers
<1>2. CASE Activate
  BY <1>2, ActivateRecovers
<1>3. CASE ~Scan /\ ~Activate
  <2>1. Named(p)
    BY <1>3, NamedBefore DEF LInv
  <2>2. CASE CommitWrite
    BY <2>1, <2>2, CommitRecovers
  <2>3. CASE FlushJournal
    BY <2>1, <2>3, FlushRecovers
  <2>4. CASE BootDone
    BY <2>1, <2>4, BootRecovers
  <2>5. CASE ~CommitWrite /\ ~FlushJournal /\ ~BootDone
    BY <2>1, <2>5, LogStays, StepKinds, RecoversStays
  <2> QED BY <2>2, <2>3, <2>4, <2>5
<1> QED BY <1>1, <1>2, <1>3

\* A publication that has returned stays returned.
LEMMA CommittedStays ==
  ASSUME KInv, [Next]_vars, committed' = Blank
  PROVE  committed = Blank
<1> SUFFICES ASSUME committed # Blank PROVE FALSE
  OBVIOUS
<1>1. CASE PublishRecord(SelectedIdentity)
  <2>1. current \in Records
    BY <1>1 DEF PublishRecord, KInv, IInv, CurrentInv
  <2> QED BY <1>1, <2>1, RecordFacts DEF PublishRecord
<1>2. CASE LoopStep
  <2>1. committed' = committed \/ (committed' = record /\ task = "publish")
    BY <1>2 DEF LoopStep, WriteAllAt, TruncateRecord, FlushRecord, SkipReplica, SettleReplica, PublishReturns
  <2> QED BY <2>1, RecordFacts DEF KInv, IInv, LoopInv
<1>3. CASE PairMoves /\ ~LoopStep
  BY <1>3 DEF PairMoves, controls, OpenControls, PrepareControls, CloseControls, ControlsLost, LosePower
<1> QED BY <1>1, <1>2, <1>3, PairSteps

\* Before the first publication there is nothing to lose.
LEMMA NothingStep == LInv /\ [Next]_vars => NothingYet'
<1> SUFFICES ASSUME LInv, [Next]_vars, committed' = Blank PROVE NothingYet'
  BY DEF NothingYet
<1>1. /\ ~Alive /\ last = <<>> /\ synced = 0
      /\ jcache[Legacy].txs = <<>> /\ jdisk[Legacy].txs = <<>>
  BY CommittedStays DEF LInv, NothingYet
<1>2. ~Alive'
  <2>1. KInv'
    BY KeptStep DEF LInv
  <2> QED BY <2>1, RecordFacts DEF KInv, Alive, QuietFiles, PhaseInv
<1>3. ~BootDone /\ ~CommitWrite /\ ~FlushJournal /\ ~CleanupDone
  BY <1>1, <1>2 DEF BootDone, CommitWrite, FlushJournal, GuestsRun, CleanupDone, Alive
<1>4. last' = last /\ synced' = synced
  BY <1>1, <1>2, <1>3, StepKinds
<1>5. Unwritten(Legacy) \/ Flushed(Legacy) \/ RolledBack(Legacy)
  <2>1. Staging => Legacy # target
    BY PlaceFacts DEF LInv, KInv, OInv, StageInv, Staging
  <2>2. Legacy \notin todo
    BY PlaceFacts DEF LInv, KInv, TInv, HostInv
  <2> QED BY <1>3, <2>1, <2>2, PlaceFacts, JournalMoves DEF LInv
<1>6. jcache'[Legacy].txs = <<>> /\ jdisk'[Legacy].txs = <<>>
  BY <1>1, <1>5 DEF Unwritten, Flushed, RolledBack
<1> QED BY <1>1, <1>2, <1>4, <1>6 DEF NothingYet

\* A commit that is not flushed yet ends with the guests.
LEMMA DirtyStep == LInv /\ [Next]_vars => DirtyInv'
<1> SUFFICES ASSUME LInv, [Next]_vars, dirty' PROVE pc' \in {"up", "compact", "cleanup"}
  BY DEF DirtyInv
<1>1. dirty => pc \in {"up", "compact", "cleanup"}
  BY DEF LInv, DirtyInv
<1>2. CASE \/ UNCHANGED vars \/ CommitWrite \/ FlushJournal \/ BootOpen \/ Scan \/ Anchor
           \/ AnchorDone \/ Enable \/ Confirm \/ ConfirmDone
  BY <1>1, <1>2 DEF vars, guests, CommitWrite, FlushJournal, GuestsRun, BootOpen, Scan, Anchor,
                    AnchorDone, Enable, Confirm, ConfirmDone
<1>3. CASE \/ RetireSeal \/ RetireFiles \/ RetireFails \/ BootDone \/ CompactOpen \/ CompactPrepare
           \/ CompactBegin \/ ConvertBegin
  BY <1>1, <1>3 DEF guests, RetireSeal, RetireFiles, RetireFails, BootDone, CompactOpen,
                    CompactPrepare, CompactBegin, ConvertBegin, Begin
<1>4. CASE \/ StageInvalidate \/ StageFlushSeal \/ StageTruncate \/ StagePrepare
           \/ StageFlushJournal \/ StageSeal
  BY <1>1, <1>4 DEF guests, StageInvalidate, StageFlushSeal, StageTruncate, StagePrepare,
                    StageFlushJournal, StageSeal, Staged
<1>5. CASE \/ Activate \/ Publish \/ PublishDone \/ CleanupDone \/ LegacyRetireFails \/ ControlStep
           \/ CompactFails \/ StageFails \/ ConvertFails
  BY <1>1, <1>5 DEF guests, Activate, Staging, Publish, PublishDone, CleanupDone, LegacyRetireFails,
                    ControlStep, CompactFails, StageFails, ConvertFails
<1>6. CASE CommitFails \/ PublishFails \/ ProcessDies \/ PowerFails
  BY <1>1, <1>6 DEF CommitFails, PublishFails, ProcessDies, PowerFails, Stopped
<1> QED BY <1>2, <1>3, <1>4, <1>5, <1>6 DEF Next

\* Nothing was written before the first boot.
LEMMA LogInit == Init => LInv /\ Log = <<>> /\ ~Alive /\ synced = 0
<1> SUFFICES ASSUME Init PROVE LInv /\ Log = <<>> /\ ~Alive /\ synced = 0
  OBVIOUS
<1>1. /\ cache = [r \in Replicas |-> Blank] /\ disk = cache /\ current = Blank /\ committed = Blank
      /\ task = "none" /\ pc = "down" /\ last = <<>> /\ synced = 0 /\ dirty = FALSE
      /\ jcache = [p \in Places |-> NoJournal] /\ jdisk = jcache
  BY DEF Init, ControlInit
<1>2. \A x : ~Held(x)
  BY <1>1, RecordFacts DEF Held, Replicas
<1>3. NamedRecover
  BY <1>1, <1>2 DEF NamedRecover, Named, Selecting
<1>4. jcache[Legacy].txs = <<>> /\ jdisk[Legacy].txs = <<>>
  BY <1>1, PlaceFacts DEF NoJournal
<1>5. ~Alive /\ Log = <<>>
  BY <1>1 DEF Alive, Log
<1>6. NothingYet
  BY <1>1, <1>4, <1>5 DEF NothingYet
<1>7. LogTyped
  BY <1>1 DEF LogTyped
<1> QED BY <1>1, <1>3, <1>5, <1>6, <1>7, KeptInit DEF LInv, DirtyInv

\* Every step keeps the invariant of the log.
LEMMA LogStep == LInv /\ [Next]_vars => LInv'
<1> SUFFICES ASSUME LInv, [Next]_vars PROVE LInv'
  OBVIOUS
<1>1. LogTyped'
  <2>1. Visible \in Seq(Nat) /\ last \in Seq(Nat)
    BY LogIsTyped DEF LInv, LogTyped
  <2>2. last' = last \/ last' = Visible
    <3>1. CASE BootDone
      BY <3>1 DEF BootDone
    <3>2. CASE Alive /\ Alive' /\ ~BootDone
      <4>1. CASE \/ UNCHANGED vars \/ CommitWrite \/ FlushJournal \/ BootOpen \/ Scan \/ Anchor
                 \/ AnchorDone \/ Enable \/ Confirm \/ ConfirmDone \/ RetireSeal \/ RetireFiles
                 \/ RetireFails \/ CompactOpen \/ CompactPrepare \/ CompactBegin \/ ConvertBegin
        BY <4>1 DEF vars, guests, CommitWrite, FlushJournal, BootOpen, Scan, Anchor, AnchorDone, Enable,
                    Confirm, ConfirmDone, RetireSeal, RetireFiles, RetireFails, CompactOpen,
                    CompactPrepare, CompactBegin, ConvertBegin
      <4>2. CASE \/ StageInvalidate \/ StageFlushSeal \/ StageTruncate \/ StagePrepare
                 \/ StageFlushJournal \/ StageSeal \/ Activate \/ Publish \/ PublishDone
                 \/ CleanupDone \/ LegacyRetireFails \/ ControlStep \/ CompactFails \/ StageFails
                 \/ ConvertFails \/ PublishFails
        BY <4>2 DEF guests, StageInvalidate, StageFlushSeal, StageTruncate, StagePrepare,
                    StageFlushJournal, StageSeal, Staged, Activate, Publish, PublishDone,
                    CleanupDone, LegacyRetireFails, ControlStep, CompactFails, StageFails,
                    ConvertFails, PublishFails
      <4>3. CASE CommitFails \/ ProcessDies \/ PowerFails
        BY <4>3 DEF CommitFails, ProcessDies, PowerFails, Stopped
      <4> QED BY <3>2, <4>1, <4>2, <4>3 DEF Next
    <3> QED BY <3>1, <3>2, StepKinds
  <2> QED BY <2>1, <2>2 DEF LogTyped
<1> QED BY <1>1, KeptStep, RecoverStep, NothingStep, DirtyStep DEF LInv

\* Every step is one of the log's, or none.
LEMMA LogSimulation ==
  ASSUME LInv, [Next]_vars
  PROVE  [D!Next]_<<Alive, IF Alive THEN Visible ELSE last, synced>>
<1>0. /\ Log = IF Alive THEN Visible ELSE last
      /\ Log' = IF Alive' THEN Visible' ELSE last'
  BY DEF Log
<1>1. CASE CommitWrite
  <2>1. Named(sel.slot) /\ Alive /\ Alive' = Alive /\ synced' = synced
    BY <1>1 DEF CommitWrite, GuestsRun, Named, Selecting, Alive
  <2>2. Log' = Append(Log, nextTx)
    BY <1>1, <2>1, CommitRecovers
  <2>3. nextTx \in 1 .. MaxTx
    BY <1>1, BoundAssumption DEF CommitWrite, LInv, KInv, TInv, GuestsInv
  <2>4. D!Append1(nextTx)
    BY <1>0, <2>1, <2>2 DEF D!Append1
  <2> QED BY <2>3, <2>4 DEF D!Next
<1>2. CASE FlushJournal
  <2>1. /\ Alive /\ Alive' = Alive /\ synced' = Len(Visible) /\ ~CommitWrite /\ ~BootDone
    <3>1. Alive /\ Alive' = Alive /\ synced' = Len(Visible) /\ ~BootDone
      BY <1>2 DEF FlushJournal, GuestsRun, Alive, BootDone
    <3>2. nextTx' = nextTx /\ nextTx \in Nat
      BY <1>2, BoundAssumption DEF FlushJournal, LInv, KInv, TInv, GuestsInv
    <3>3. ~CommitWrite
      BY <3>2 DEF CommitWrite
    <3> QED BY <3>1, <3>3
  <2>2. Log' = Log /\ Log = Visible
    BY <2>1, LogStays DEF Log
  <2>3. D!Sync
    BY <1>0, <2>1, <2>2 DEF D!Sync
  <2> QED BY <2>3 DEF D!Next
<1>3. CASE BootDone
  <2>1. /\ Log' = Visible /\ IsPrefix(Visible, Log) /\ Len(Visible) >= synced
        /\ ~Alive /\ Alive' /\ synced' = synced
    BY <1>3, BootRecovers
  <2>2. Visible \in Seq(Nat) /\ Log \in Seq(Nat) /\ synced \in Nat
    BY LogIsTyped, BoundAssumption DEF LInv, KInv, TInv, GuestsInv
  <2>3. /\ Len(Visible) \in Nat /\ Len(Log) \in Nat /\ Len(Visible) <= Len(Log)
        /\ Visible = SubSeq(Log, 1, Len(Visible))
    BY <2>1, <2>2, PrefixIsBeginning
  <2>4. Len(Visible) \in synced .. Len(Log)
    BY <2>1, <2>2, <2>3
  <2>5. \E n \in synced .. Len(Log) : Log' = SubSeq(Log, 1, n)
    BY <2>1, <2>3, <2>4
  <2>6. D!Boot
    BY <1>0, <2>1, <2>5 DEF D!Boot
  <2> QED BY <2>6 DEF D!Next
<1>4. CASE ~CommitWrite /\ ~FlushJournal /\ ~BootDone
  <2>1. Log' = Log /\ synced' = synced
    BY <1>4, LogStays, StepKinds
  <2>2. CASE Alive' = Alive
    BY <1>0, <2>1, <2>2
  <2>3. CASE Alive' # Alive
    <3>1. Alive /\ Alive' = FALSE
      BY <1>4, <2>3, StepKinds DEF Alive
    <3>2. D!Down
      BY <1>0, <2>1, <3>1 DEF D!Down
    <3> QED BY <3>2 DEF D!Next
  <2> QED BY <2>2, <2>3
<1> QED BY <1>1, <1>2, <1>3, <1>4

\* The overlay keeps the promise of a durable log, whatever the numbers of slots,
\* transactions, attempts and faults: what guests see only grows while they run,
\* compactions included, and a boot after any crash brings back a beginning of it
\* with every transaction that a sync acknowledged.
THEOREM LogIsDurable == Spec => KeepsDurableLog
<1>1. Init => LInv /\ D!Init
  BY LogInit DEF D!Init, Log, Alive
<1>2. LInv /\ [Next]_vars => LInv' /\ [D!Next]_<<Alive, IF Alive THEN Visible ELSE last, synced>>
  BY LogStep, LogSimulation
<1> QED BY <1>1, <1>2, PTL DEF Spec, KeepsDurableLog, D!Spec

=============================================================================
