----------------------------- MODULE MCWaitPark -----------------------------
(***************************************************************************)
(* Instances of WaitPark for TLC.  Process 1 has the pthread 11; process 2 *)
(* is single-threaded and a child of 1.                                    *)
(***************************************************************************)
EXTENDS WaitPark

OneProcess == {1}
TwoThreads == {1, 11}
Couple == {1, 2}
CoupleThreads == {1, 2, 11}

MCPidOf == [t \in Tasks |-> IF t = 11 THEN 1 ELSE t]
MCParent == [p \in Pids |-> IF p = 2 THEN 1 ELSE 0]

\* SIGUSR1 is 10, SIGPIPE 13, SIGCHLD 17.
Usr1Masks == {{}, {10}}
PipeMasks == {{}, {13}}
ChldMasks == {{}, {17}}
NoMasks == {{}}

NoEnds == [p \in Pids |-> {}]
BothEnds == [p \in Pids |-> IF p = 1 THEN {"read", "write"} ELSE {"write"}]
ReadEndElsewhere == [p \in Pids |-> IF p = 1 THEN {"write"} ELSE {"read"}]

SignalCalls ==
  [t \in Tasks |-> IF PidOf[t] = 1
     THEN {"futex", "wake", "suspend", "sigtimed", "kill", "tkill", "mask", "cancel", "thread_exit"}
     ELSE {"kill", "exit"}]
ContractCalls ==
  [t \in Tasks |-> IF t = 1
     THEN {"wake", "child", "suspend", "sigtimed", "transfer", "terminate"}
     ELSE IF t = 11 THEN {"futex", "child", "transfer", "close"}
     ELSE {"transfer", "close", "kill", "stop", "exit"}]
LivenessCalls == [t \in Tasks |-> {"futex", "sleep", "wake", "tkill", "cancel"}]
SigpipeCalls == [t \in Tasks |-> IF PidOf[t] = 1 THEN {"transfer", "mask", "futex"} ELSE {"close"}]
StolenCalls == [t \in Tasks |-> IF PidOf[t] = 1 THEN {"child", "suspend"} ELSE {"exit"}]
=============================================================================
