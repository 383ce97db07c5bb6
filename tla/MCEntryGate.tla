---------------------------- MODULE MCEntryGate ----------------------------
(***************************************************************************)
(* Instances of EntryGate for TLC.                                         *)
(***************************************************************************)
EXTENDS EntryGate

MCKeys == {"k"}
=============================================================================
