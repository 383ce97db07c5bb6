----------------------------- MODULE DurableLog -----------------------------
(***************************************************************************)
(* What a persistent root filesystem promises the guests                   *)
(* (docs/persistence-durability.md): a log of transactions that only       *)
(* grows while the machine is up, of which a crash may lose the end but    *)
(* nothing that a successful sync covered.                                 *)
(***************************************************************************)
EXTENDS Integers, Sequences

CONSTANT Transactions

VARIABLES
  up,      \* guests are running
  log,     \* what they see; while the machine is down, what they saw last
  synced   \* how much of it a sync has acknowledged

Init == up = FALSE /\ log = <<>> /\ synced = 0

Append1(tx) == up /\ log' = Append(log, tx) /\ UNCHANGED <<up, synced>>
Sync == up /\ synced' = Len(log) /\ UNCHANGED <<up, log>>
Down == up /\ up' = FALSE /\ UNCHANGED <<log, synced>>
Boot ==
  /\ ~up /\ up' = TRUE
  /\ \E n \in synced .. Len(log) : log' = SubSeq(log, 1, n)
  /\ UNCHANGED synced

Next == (\E tx \in Transactions : Append1(tx)) \/ Sync \/ Down \/ Boot
Spec == Init /\ [][Next]_<<up, log, synced>>

=============================================================================
