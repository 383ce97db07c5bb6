--------------------------- MODULE MCAdvisoryLock ---------------------------
(***************************************************************************)
(* Instances of AdvisoryLock for TLC.                                      *)
(***************************************************************************)
EXTENDS AdvisoryLock, TLC

\* One thread per process.
Single == [t \in Tasks |-> t]
\* Threads 1 and 2 are of process 1.
Threads == (1 :> 1) @@ (2 :> 1) @@ (3 :> 2)

OneFile == [o \in Ofds |-> "f"]

\* Process p holds one descriptor of its own description p.
Private == [p \in Pids |-> [o \in Ofds |-> IF o = p THEN 1 ELSE 0]]
\* Process 1 has description 1 twice (dup) and description 2, which process 2
\* inherited (fork).
Shared == (1 :> ((1 :> 2) @@ (2 :> 1))) @@ (2 :> ((1 :> 0) @@ (2 :> 1)))
\* Processes 1 and 2 share description 1; process 3 has its own.
Inherited == (1 :> ((1 :> 1) @@ (2 :> 0))) @@ (2 :> ((1 :> 1) @@ (2 :> 0)))
               @@ (3 :> ((1 :> 0) @@ (2 :> 1)))

AllLens == {-1, 0, 1}
ShortLens == {0, 1}
Relative == {-1, 0}

\* flock records and fcntl records never conflict, so the run looks at the two
\* apart: flocks of the three processes, or fcntl requests of processes 1 and 2
\* over every range, of which those of process 2 from its offset to EOF may
\* sleep.
OnlyFlocks ==
  /\ \A r \in records : r.owner.kind = "flock"
  /\ \A p \in parked : p.kind = "flock"
  /\ \A o \in Ofds : offset[o] = 0
OnlyRanges ==
  /\ \A r \in records : r.owner.kind = "process" /\ r.owner.id # 3
  /\ \A q \in parked : q.kind = "process" /\ q.task = 2 /\ q.len = 0 /\ q.start = 0
  /\ offset[3] = 0 /\ fds[3][3] = 1
Apart == OnlyFlocks \/ OnlyRanges

=============================================================================
