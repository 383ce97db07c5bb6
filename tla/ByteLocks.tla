------------------------------ MODULE ByteLocks ------------------------------
(***************************************************************************)
(* What advisory locks promise, byte by byte: each owner holds each byte   *)
(* of a file for reading, for writing or not at all; a grant sets exactly  *)
(* the bytes the call asked for and never conflicts with another owner of  *)
(* the same namespace; an owner's locks on a file may be dropped together. *)
(***************************************************************************)
EXTENDS Integers

CONSTANTS Files, Owner, MaxOff

VARIABLES
  held,       \* [Files -> [Owner -> [0..MaxOff -> {"none", "read", "write"}]]]
  granted     \* the lock the last step granted, NoGrant for any other step

NoGrant == <<>>

Init ==
  /\ held = [f \in Files |-> [o \in Owner |-> [b \in 0..MaxOff |-> "none"]]]
  /\ granted = NoGrant

Compatible(f, o, t, b) ==
  \A p \in Owner :
    /\ p # o
    /\ (p.kind = "flock") <=> (o.kind = "flock")
    => held[f][p][b] = "none" \/ (held[f][p][b] = "read" /\ t = "read")

Put(f, o, t, lo, hi) ==
  held' = [held EXCEPT ![f][o] = [b \in 0..MaxOff |-> IF b \in lo..(hi - 1) THEN t ELSE @[b]]]

Grant(f, o, t, lo, hi) ==
  /\ granted' = [file |-> f, owner |-> o, type |-> t, lo |-> lo, hi |-> hi]
  /\ \A b \in lo..(hi - 1) : Compatible(f, o, t, b)
  /\ Put(f, o, t, lo, hi)

Unlock(f, o, lo, hi) == granted' = NoGrant /\ Put(f, o, "none", lo, hi)

Holders == {x \in Files \X Owner : \E b \in 0..MaxOff : held[x[1]][x[2]][b] # "none"}

\* Some holders lose all their locks on a file: close, exit, conversion.
Drop(S) ==
  /\ granted' = NoGrant
  /\ held' = [f \in Files |-> [o \in Owner |->
                IF <<f, o>> \in S THEN [b \in 0..MaxOff |-> "none"] ELSE held[f][o]]]

Next ==
  \/ \E S \in SUBSET Holders : Drop(S)
  \/ \E lo \in 0..MaxOff : \E hi \in (lo + 1)..(MaxOff + 1) :
       \/ \E f \in Files, o \in Owner, t \in {"read", "write"} : Grant(f, o, t, lo, hi)
       \/ \E x \in Holders : Unlock(x[1], x[2], lo, hi)

Spec == Init /\ [][Next]_<<held, granted>>

=============================================================================
