---------------------------- MODULE WaitContract ----------------------------
(***************************************************************************)
(* What a blocking system call promises its caller, whatever owns the wait *)
(* (wait_park.rs, "How the kernel answers a park, by the way it ends").    *)
(* Each task runs, waits, is decided, has its answer sent, and runs again; *)
(* it may go away at any point.  No wait is decided twice, no decision is  *)
(* taken back, and a wait ends for its deadline only when that has passed. *)
(***************************************************************************)
EXTENDS Integers

CONSTANTS
  Tasks,
  None      \* no deadline

VARIABLES
  phase,    \* "run", "wait", "decided", "sent" or "gone"
  ask,      \* while waiting: the kind of the call and its deadline
  reply,    \* while decided: the result
  clock

vars == <<phase, ask, reply, clock>>

NoAsk == [kind |-> "none", due |-> None]
NoReply == "none"

Init ==
  /\ phase = [t \in Tasks |-> "run"]
  /\ ask = [t \in Tasks |-> NoAsk]
  /\ reply = [t \in Tasks |-> NoReply]
  /\ clock = 0

\* The deadline of `t` has passed.
TimeIsUp(t) == ask[t].due # None /\ ask[t].due <= clock

\* The results a waiting `t` may be given now: a timeout is reported, and a
\* sleep succeeds, only once the deadline has passed; suspends have no success.
MayReply(t, value) ==
  /\ value \in {"ETIMEDOUT", "EAGAIN"} => TimeIsUp(t)
  /\ ask[t].kind = "sleep" /\ value = "ok" => TimeIsUp(t)
  /\ ask[t].kind = "suspend" => value = "EINTR"
  /\ value = "ECHILD" => ask[t].kind = "child"
  /\ value = "EPIPE" => ask[t].kind = "write"

Runs(t) == phase'[t] = "run" /\ ask'[t] = NoAsk /\ reply'[t] = NoReply

\* A call blocks.
Waits(t) ==
  /\ phase[t] = "run" /\ phase'[t] = "wait"
  /\ ask'[t].kind # "none"
  /\ ask'[t].due # None => ask'[t].due > clock
  /\ reply'[t] = NoReply

Decided(t) ==
  /\ phase[t] = "wait" /\ phase'[t] = "decided"
  /\ MayReply(t, reply'[t])
  /\ ask'[t] = NoAsk

\* The unslept time of an interrupted sleep cannot be stored.
Faults(t) ==
  /\ phase[t] = "decided" /\ phase'[t] = "decided"
  /\ reply[t] = "EINTR" /\ reply'[t] = "EFAULT"
  /\ ask'[t] = NoAsk

Sent(t) ==
  /\ phase[t] = "decided" /\ phase'[t] = "sent"
  /\ ask'[t] = NoAsk /\ reply'[t] = NoReply

Wakes(t) == phase[t] = "sent" /\ Runs(t)

\* A transfer that succeeds may be answered in the step that completes it.
WakesAtOnce(t) == phase[t] = "wait" /\ ask[t].kind \in {"read", "write"} /\ Runs(t)

Leaves(t) == phase'[t] = "gone" /\ ask'[t] = NoAsk /\ reply'[t] = NoReply

Stays(t) == phase'[t] = phase[t] /\ ask'[t] = ask[t] /\ reply'[t] = reply[t]

Move(t) ==
  \/ Waits(t) \/ Decided(t) \/ Faults(t) \/ Sent(t) \/ Wakes(t) \/ WakesAtOnce(t)
  \/ Leaves(t) \/ Stays(t)

\* One step may move several tasks: a wake of many, an exit, a decision that
\* comes with it.
Next ==
  /\ DOMAIN phase' = Tasks /\ DOMAIN ask' = Tasks /\ DOMAIN reply' = Tasks
  /\ \A t \in Tasks : Move(t)
  /\ clock' >= clock

Spec == Init /\ [][Next]_vars
=============================================================================
