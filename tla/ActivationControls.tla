------------------------- MODULE ActivationControls -------------------------
(***************************************************************************)
(* The two activation records that say which generation of a persistent    *)
(* overlay is the current one: the codec's rules                           *)
(* (crates/runtime-core/src/overlay_activation.rs) and the pair of files   *)
(* the host keeps them in (host/src/vfs/overlay-generation-activation.ts). *)
(*                                                                         *)
(* A file has the content a reader sees (cache) and the content that is on *)
(* the medium (disk).  A write changes the first, a flush copies it to the *)
(* second.  A process that dies leaves both; a power loss leaves each file *)
(* with one of the two, or torn if its write had not been flushed yet by   *)
(* the process that was making it.  The digest of a record makes a torn    *)
(* one recognisable (ActivationRecord::decode).                            *)
(***************************************************************************)
EXTENDS Integers

CONSTANTS
  Identities,   \* what a record may name: slot, generation and seal digest
  MaxSequence,  \* MAX_SAFE_INTEGER
  Blank, Torn   \* no record; bytes that are not a record

Records == [sequence : 1 .. MaxSequence, identity : Identities]

ASSUME IdentityAssumption ==
  /\ MaxSequence \in Nat \ {0}
  /\ \A i \in Identities : i.generation \in Nat
ASSUME ContentAssumption == Blank # Torn /\ Blank \notin Records /\ Torn \notin Records

Replicas == {0, 1}
Content == Records \cup {Blank, Torn}

VARIABLES
  cache, disk,  \* the two files
  mode,         \* "closed", "open", or "refused" by select_activation
  current,      \* currentRecord
  seen,         \* replicas: the records read or written, Blank for null
  repaired,
  task,         \* the loop that is running: "none", "repair", "settle", "publish"
  record,       \* the record it writes
  at, step,     \* the replica it is at, and the call it makes next
  committed     \* history: the record of the last publish that returned

files == <<cache, disk>>
loop == <<task, record, at, step>>
pair == <<mode, current, seen, repaired>>
controls == <<files, loop, pair, committed>>

-----------------------------------------------------------------------------
(* The codec.                                                              *)

\* next_activation: the same identity keeps its sequence; another one must be
\* of the following generation (the base image is one and the same here).
MayFollow(cur, identity) ==
  cur # Blank /\ cur.identity # identity =>
    /\ identity.generation = cur.identity.generation + 1
    /\ cur.sequence < MaxSequence
NextActivation(cur, identity) ==
  [sequence |-> IF cur = Blank THEN 1
                ELSE IF cur.identity = identity THEN cur.sequence
                ELSE cur.sequence + 1,
   identity |-> identity]

\* select_activation on the two files' contents.
Ambiguous(c) == c[0] \in Records /\ c[1] \in Records
                  /\ c[0].sequence = c[1].sequence /\ c[0].identity # c[1].identity
Unreadable(c) == c[0] \notin Records /\ c[1] \notin Records /\ \E r \in Replicas : c[r] = Torn
SelectRefuses(c) == Ambiguous(c) \/ Unreadable(c)
SelectActivation(c) ==
  CASE c[0] \notin Records /\ c[1] \notin Records -> Blank
    [] c[0] \in Records /\ c[1] \notin Records -> c[0]
    [] c[0] \notin Records /\ c[1] \in Records -> c[1]
    [] OTHER -> IF c[0].sequence >= c[1].sequence THEN c[0] ELSE c[1]

-----------------------------------------------------------------------------
(* OverlayActivationControlPair.                                           *)

ControlInit ==
  /\ cache = [r \in Replicas |-> Blank] /\ disk = cache
  /\ mode = "closed" /\ current = Blank /\ seen = cache /\ repaired = FALSE
  /\ task = "none" /\ record = Blank /\ at = 0 /\ step = "write"
  /\ committed = Blank

\* open and read.
OpenControls ==
  /\ mode = "closed"
  /\ mode' = IF SelectRefuses(cache) THEN "refused" ELSE "open"
  /\ current' = IF SelectRefuses(cache) THEN Blank ELSE SelectActivation(cache)
  /\ seen' = [r \in Replicas |-> IF cache[r] = Torn THEN Blank ELSE cache[r]]
  /\ repaired' = FALSE
  /\ UNCHANGED <<files, loop, committed>>

\* repairCurrent, called by prepare, makes both files hold the current record.
Unrepaired == current # Blank /\ ~repaired
PrepareControls ==
  /\ mode = "open" /\ task = "none" /\ Unrepaired
  /\ task' = "repair" /\ record' = current /\ at' = 0 /\ step' = "write"
  /\ UNCHANGED <<files, pair, committed>>

\* publish, after the checks on the sequence; prepare has repaired the pair.
\* A record that is the current one already is not written again.
PublishRecord(identity) ==
  /\ mode = "open" /\ task = "none" /\ ~Unrepaired
  /\ MayFollow(current, identity)
  /\ LET next == NextActivation(current, identity) IN
     IF next = current
     THEN committed' = current /\ UNCHANGED loop
     ELSE /\ task' = "publish" /\ record' = next /\ at' = 0 /\ step' = "write"
          /\ UNCHANGED committed
  /\ UNCHANGED <<files, pair>>

Writing == task \in {"repair", "publish"}
\* A repair leaves alone a replica that was read as the current record.
Skipped == task = "repair" /\ seen[at] = record

WriteAllAt ==
  /\ Writing /\ step = "write" /\ ~Skipped
  /\ cache' = [cache EXCEPT ![at] = Torn]
  /\ step' = "truncate"
  /\ UNCHANGED <<disk, task, record, at, pair, committed>>
TruncateRecord ==
  /\ Writing /\ step = "truncate"
  /\ cache' = [cache EXCEPT ![at] = record]
  /\ step' = "flush"
  /\ UNCHANGED <<disk, task, record, at, pair, committed>>

\* What follows the write of a replica: the other one, then for a repair the
\* flush of both, and for a publication its end.
NextReplica ==
  IF at = 0
  THEN at' = 1 /\ step' = "write" /\ UNCHANGED <<task, record>>
  ELSE IF task = "repair"
       THEN task' = "settle" /\ at' = 0 /\ step' = "flush" /\ UNCHANGED record
       ELSE task' = "none" /\ at' = 0 /\ step' = "write" /\ UNCHANGED record
PublishReturns == task = "publish" /\ at = 1
FlushRecord ==
  /\ Writing /\ step = "flush"
  /\ disk' = [disk EXCEPT ![at] = cache[at]]
  /\ NextReplica
  /\ seen' = IF task = "publish" /\ at = 0 THEN seen
             ELSE IF task = "publish" THEN [r \in Replicas |-> record]
             ELSE [seen EXCEPT ![at] = record]
  /\ current' = IF PublishReturns THEN record ELSE current
  /\ repaired' = (repaired \/ PublishReturns)
  /\ committed' = IF PublishReturns THEN record ELSE committed
  /\ UNCHANGED <<cache, mode>>
SkipReplica ==
  /\ Writing /\ step = "write" /\ Skipped
  /\ NextReplica
  /\ UNCHANGED <<files, pair, committed>>
\* Mutant: the repair ends without the flush of both files.
SettleReplicaMutant ==
  /\ task = "settle"
  /\ task' = "none" /\ at' = 0 /\ step' = "write" /\ repaired' = TRUE
  /\ UNCHANGED <<files, record, mode, current, seen, committed>>
SettleReplica ==
  /\ task = "settle"
  /\ disk' = [disk EXCEPT ![at] = cache[at]]
  /\ IF at = 0
     THEN at' = 1 /\ UNCHANGED <<task, step, repaired>>
     ELSE task' = "none" /\ at' = 0 /\ step' = "write" /\ repaired' = TRUE
  /\ UNCHANGED <<cache, record, mode, current, seen, committed>>

LoopStep == WriteAllAt \/ TruncateRecord \/ FlushRecord \/ SkipReplica \/ SettleReplica

\* The pair is given up: close, a call that threw, or the end of the process.
GiveUp ==
  /\ mode' = "closed" /\ current' = Blank /\ repaired' = FALSE
  /\ seen' = [r \in Replicas |-> Blank]
  /\ task' = "none" /\ record' = Blank /\ at' = 0 /\ step' = "write"
CloseControls == mode = "open" /\ task = "none" /\ GiveUp /\ UNCHANGED <<files, committed>>
ControlsLost == GiveUp /\ UNCHANGED <<files, committed>>

\* What a power loss may leave in a file.
InFlight(r) == Writing /\ at = r /\ step # "write"
Outcomes(r) == {cache[r], disk[r]} \cup (IF InFlight(r) THEN {Torn} ELSE {})
LosePower ==
  /\ \E a \in Outcomes(0), b \in Outcomes(1) :
       disk' = [r \in Replicas |-> IF r = 0 THEN a ELSE b]
  /\ cache' = disk'
  /\ GiveUp /\ UNCHANGED committed

ControlNext ==
  \/ OpenControls \/ PrepareControls \/ LoopStep \/ CloseControls
  \/ \E identity \in Identities : PublishRecord(identity)
  \/ ControlsLost \/ LosePower
ControlSpec == ControlInit /\ [][ControlNext]_controls

-----------------------------------------------------------------------------
ControlTypeOK ==
  /\ cache \in [Replicas -> Content] /\ disk \in [Replicas -> Content]
  /\ mode \in {"closed", "open", "refused"}
  /\ current \in Records \cup {Blank} /\ seen \in [Replicas -> Records \cup {Blank}]
  /\ repaired \in BOOLEAN
  /\ task \in {"none", "repair", "settle", "publish"} /\ record \in Records \cup {Blank}
  /\ at \in Replicas /\ step \in {"write", "truncate", "flush"}
  /\ committed \in Records \cup {Blank}

\* Once publish has returned, whatever a crash at any point leaves in the two
\* files (a publication or a repair half done, a completed write that was
\* never flushed, after any number of earlier crashes) the next open accepts
\* them and selects the published record or a later one, never an older one or
\* another one with its sequence (publish, repairCurrent, select_activation).
Keeps(c) ==
  /\ ~SelectRefuses(c)
  /\ SelectActivation(c) \in Records
  /\ SelectActivation(c).sequence >= committed.sequence
  /\ SelectActivation(c).sequence = committed.sequence => SelectActivation(c) = committed
PublishedSurvives ==
  committed # Blank =>
    /\ Keeps(cache)
    /\ \A a \in Outcomes(0), b \in Outcomes(1) : Keeps([r \in Replicas |-> IF r = 0 THEN a ELSE b])

=============================================================================
