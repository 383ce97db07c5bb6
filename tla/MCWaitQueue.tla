---------------------------- MODULE MCWaitQueue ----------------------------
(***************************************************************************)
(* Instances of WaitQueue for TLC: two single-threaded processes that are  *)
(* interchangeable, two wake sources, and waits of one unit that start at  *)
(* different instants.                                                     *)
(***************************************************************************)
EXTENDS WaitQueue

CONSTANTS p1, p2

MCPids == {p1, p2}
MCTids == {1}
MCSources == {"a", "b"}
MCShapes == {[sources |-> {"a"}, signalSafe |-> FALSE],
             [sources |-> {"b"}, signalSafe |-> TRUE]}
MCSpans == {1}
MCSymmetry == Permutations(MCPids)
=============================================================================
