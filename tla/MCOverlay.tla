----------------------------- MODULE MCOverlay -----------------------------
(***************************************************************************)
(* An instance of Overlay for TLC.                                         *)
(***************************************************************************)
EXTENDS Overlay

MCIdentities ==
  {LegacyIdentity} \cup
    [slot : Slots, generation : 1 .. MaxAttempts, seal : 2 .. MaxAttempts + LegacyId]
=============================================================================
