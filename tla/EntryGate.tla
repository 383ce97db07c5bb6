------------------------------ MODULE EntryGate ------------------------------
(***************************************************************************)
(* The gate in front of the kernel's WebAssembly instance,                 *)
(* host/src/kernel-entry-gate.ts: class KernelEntryGate, on the JavaScript *)
(* thread of the kernel worker.                                            *)
(*                                                                         *)
(* JavaScript runs one call stack and, whenever it is empty, the           *)
(* microtasks in order.  `stack` is that stack: the frames of the host's   *)
(* own code ("task", and the callbacks the gate runs: "ingress", "scope",  *)
(* "export", "host", "scopedhost", "effect", "txn") and the two loops of   *)
(* the gate that call them ("detached", "drain").  Host code is not        *)
(* modelled further: while its frame is on top it makes any call of the    *)
(* gate, returns, throws or catches.  The gate's own code between two      *)
(* callbacks is one step, as nothing else runs meanwhile.                  *)
(*                                                                         *)
(* A call the gate refuses by throwing changes none of its fields, so a    *)
(* refusal is the caller's Throw and no action of its own.                 *)
(***************************************************************************)
EXTENDS Integers, FiniteSets, Sequences

CONSTANTS
  Keys,        \* the dedupe keys ingress may carry
  MaxCalls,    \* bound: how many calls and throws the host code makes
  MaxEffects   \* bound: how many effects one ingress registers

ASSUME KeysAssumption == Keys \subseteq STRING /\ "none" \notin Keys
ASSUME MaxCallsAssumption == MaxCalls \in Nat
ASSUME MaxEffectsAssumption == MaxEffects \in Nat

VARIABLES
  stack,                    \* the JavaScript call stack, its top last
  exc,                      \* an exception is unwinding to the top frame
  (* the fields of the gate *)
  activeExport,             \* activeExportName # null
  activeToken,              \* activeVoidIngressToken, 0 for null
  activeHostOperation,      \* activeHostOperationLabel # null
  scopedExportPermit,       \* the token a scoped call lent, 0 for null
  draining, runningDetachedPost, runningTransactionStart,
  deferred, deferredKeys,   \* the FIFO of void ingress
  drainScheduled, pendingTransactionStarts,
  microtasks,               \* what the gate has queued on the event loop
  fatalError,               \* and who latched it
  pendingFatalReport,
  reports,                  \* how often the fatal handler has been called
  (* the closures of the ingress now running *)
  lastToken, effects, runningSerializedHostOperation,
  (* history *)
  queued, begun,            \* how many ingress were queued, and taken up by the drain
  owed,                     \* keys a caller asked for since their work last began
  calls                     \* how much of MaxCalls is spent

authority == <<activeExport, activeToken, activeHostOperation, scopedExportPermit>>
phases == <<draining, runningDetachedPost, runningTransactionStart>>
queue == <<deferred, deferredKeys>>
loop == <<drainScheduled, pendingTransactionStarts, microtasks>>
failure == <<fatalError, pendingFatalReport, reports>>
scope == <<lastToken, effects, runningSerializedHostOperation>>
history == <<queued, begun, owed>>
vars == <<stack, exc, authority, phases, queue, loop, failure, scope, history, calls>>

EffectKinds == {"protocol", "protocol-transaction-start", "observer"}
HostKinds == {"task", "ingress", "scope", "export", "host", "scopedhost", "effect", "txn"}
FrameKinds == HostKinds \cup {"returned", "detached", "drain"}
\* frames during which Rust, or a backend the kernel waits for, is running
LeafKinds == {"export", "host", "scopedhost"}

Entry == [id : Nat, key : Keys \cup {"none"}]
Frame == [kind : FrameKinds, token : Nat, todo : Seq(EffectKinds)]

TypeOK ==
  /\ stack \in Seq(Frame) /\ exc \in BOOLEAN
  /\ activeExport \in BOOLEAN /\ activeHostOperation \in BOOLEAN
  /\ activeToken \in Nat /\ scopedExportPermit \in Nat
  /\ draining \in BOOLEAN /\ runningDetachedPost \in BOOLEAN
  /\ runningTransactionStart \in BOOLEAN
  /\ deferred \in Seq(Entry) /\ deferredKeys \in SUBSET Keys
  /\ drainScheduled \in BOOLEAN /\ pendingTransactionStarts \in Nat
  /\ microtasks \in Seq({"drain", "txn"})
  /\ fatalError \in {"none", "gate", "worker"}
  /\ pendingFatalReport \in BOOLEAN /\ reports \in Nat
  /\ lastToken \in Nat /\ effects \in Seq(EffectKinds)
  /\ runningSerializedHostOperation \in BOOLEAN
  /\ queued \in Nat /\ begun \in Nat /\ owed \in SUBSET Keys
  /\ calls \in Nat

Init ==
  /\ stack = <<>> /\ exc = FALSE
  /\ activeExport = FALSE /\ activeHostOperation = FALSE
  /\ activeToken = 0 /\ scopedExportPermit = 0
  /\ draining = FALSE /\ runningDetachedPost = FALSE
  /\ runningTransactionStart = FALSE
  /\ deferred = <<>> /\ deferredKeys = {}
  /\ drainScheduled = FALSE /\ pendingTransactionStarts = 0
  /\ microtasks = <<>>
  /\ fatalError = "none" /\ pendingFatalReport = FALSE /\ reports = 0
  /\ lastToken = 0 /\ effects = <<>> /\ runningSerializedHostOperation = FALSE
  /\ queued = 0 /\ begun = 0 /\ owed = {}
  /\ calls = 0

-----------------------------------------------------------------------------
(* The call stack *)

Top == stack[Len(stack)]
Callers == SubSeq(stack, 1, Len(stack) - 1)
OnTop(kind) == stack # <<>> /\ Top.kind = kind

FrameOf(kind) == [kind |-> kind, token |-> 0, todo |-> <<>>]
ScopeFrame(kind, token) == [kind |-> kind, token |-> token, todo |-> <<>>]
LoopFrame(kind, todo) == [kind |-> kind, token |-> 0, todo |-> todo]

Call(frame) == stack' = Append(stack, frame)
Leave == stack' = Callers
Become(frame) == stack' = Append(Callers, frame)

\* Host code is running and calls the gate.
HostCalls ==
  /\ stack # <<>> /\ Top.kind \in HostKinds /\ ~exc
  /\ calls < MaxCalls
  /\ calls' = calls + 1

-----------------------------------------------------------------------------
(* The private methods.  Those of a finally block are written about the    *)
(* fields as the block leaves them (primed).                               *)

Fatal == fatalError # "none"

\* Mutant: pending transaction starts no longer hold later ingress back.
ShouldDeferVoidIngressMutant ==
  \/ Fatal \/ activeExport \/ activeToken # 0 \/ activeHostOperation
  \/ runningDetachedPost
  \/ ~runningTransactionStart /\ (draining \/ drainScheduled \/ deferred # <<>>)

ShouldDeferVoidIngress ==
  \/ Fatal
  \/ activeExport
  \/ activeToken # 0
  \/ activeHostOperation
  \/ runningDetachedPost
  \/ /\ ~runningTransactionStart
     /\ \/ pendingTransactionStarts > 0
        \/ draining
        \/ drainScheduled
        \/ deferred # <<>>

\* #fail: poison the generation and discard what is queued.
Fail(who) ==
  IF Fatal THEN UNCHANGED <<fatalError, queue>>
  ELSE fatalError' = who /\ deferred' = <<>> /\ deferredKeys' = {}

\* Mutant: the report does not wait for the drain.
AuthorityLiveMutant ==
  \/ activeExport \/ activeToken # 0 \/ activeHostOperation
  \/ runningDetachedPost \/ runningTransactionStart

AuthorityLive ==
  \/ activeExport
  \/ activeToken # 0
  \/ activeHostOperation
  \/ runningDetachedPost
  \/ runningTransactionStart
  \/ draining

\* What #reportPendingFatalIfRevoked does when `pending` is the report due.
ReportPendingFatalIfRevoked(pending) ==
  IF pending /\ ~AuthorityLive'
  THEN pendingFatalReport' = FALSE /\ reports' = reports + 1
  ELSE pendingFatalReport' = pending /\ UNCHANGED reports

\* if (this.#fail(error)) this.#pendingFatalReport = error, where `failed`
\* says whether there is an error; then the report.
Settle(failed) ==
  /\ IF failed THEN Fail("gate") ELSE UNCHANGED <<fatalError, queue>>
  /\ ReportPendingFatalIfRevoked(pendingFatalReport \/ (failed /\ ~Fatal))

\* As Settle, where the error is thrown on and not reported here.
Latch(failed) ==
  /\ IF failed THEN Fail("gate") ELSE UNCHANGED <<fatalError, queue>>
  /\ pendingFatalReport' = (pendingFatalReport \/ (failed /\ ~Fatal))
  /\ UNCHANGED reports

DrainBlocked ==
  \/ draining
  \/ runningDetachedPost
  \/ runningTransactionStart
  \/ pendingTransactionStarts > 0
  \/ Fatal
  \/ activeHostOperation
  \/ deferred = <<>>

ScheduleDrain ==
  /\ UNCHANGED pendingTransactionStarts
  /\ IF drainScheduled \/ DrainBlocked'
     THEN UNCHANGED <<drainScheduled, microtasks>>
     ELSE drainScheduled' = TRUE /\ microtasks' = Append(microtasks, "drain")

-----------------------------------------------------------------------------
(* What the host code calls *)

IngressRefused == Fatal \/ activeExport \/ activeToken # 0 \/ activeHostOperation

\* #runVoidIngress up to the call of its operation: a fresh token and an empty
\* list of effects.
RunVoidIngress ==
  IF IngressRefused
  THEN exc' = TRUE /\ UNCHANGED <<stack, authority, scope>>
  ELSE /\ lastToken' = lastToken + 1
       /\ activeToken' = lastToken + 1
       /\ effects' = <<>>
       /\ runningSerializedHostOperation' = FALSE
       /\ Call(ScopeFrame("ingress", lastToken + 1))
       /\ UNCHANGED <<exc, activeExport, activeHostOperation, scopedExportPermit>>

Named(key) == {key} \ {"none"}

DeferVoidIngress(key) ==
  /\ owed' = owed \cup Named(key)
  /\ IF key \in deferredKeys
     THEN UNCHANGED <<queue, queued>>
     ELSE /\ deferred' = Append(deferred, [id |-> queued + 1, key |-> key])
          /\ deferredKeys' = deferredKeys \cup Named(key)
          /\ queued' = queued + 1
  /\ UNCHANGED <<stack, exc, authority, scope, begun>>

\* On a failed gate the call is discarded.
RunOrDeferVoidIngress ==
  /\ HostCalls
  /\ ~Fatal
  /\ IF ShouldDeferVoidIngress
     THEN \E key \in Keys \cup {"none"} : DeferVoidIngress(key)
     ELSE RunVoidIngress /\ UNCHANGED <<queue, history>>
  /\ UNCHANGED <<phases, loop, failure>>

RunImmediateVoidIngress ==
  /\ HostCalls
  /\ ~runningTransactionStart
  /\ ~ShouldDeferVoidIngress
  /\ RunVoidIngress
  /\ UNCHANGED <<phases, queue, loop, failure, history>>

\* Mutant: only an active export refuses another one.
InvokeKernelExportMutant ==
  /\ HostCalls
  /\ ~Fatal
  /\ ~activeExport
  /\ \/ activeToken # 0 /\ scopedExportPermit = activeToken
     \/ /\ activeToken = 0
        /\ ~draining /\ ~runningDetachedPost /\ ~runningTransactionStart
        /\ ~drainScheduled /\ deferred = <<>>
  /\ scopedExportPermit' = IF activeToken # 0 THEN 0 ELSE scopedExportPermit
  /\ activeExport' = TRUE
  /\ Call(FrameOf("export"))
  /\ UNCHANGED <<exc, activeToken, activeHostOperation, phases, queue, loop,
                 failure, scope, history>>

\* Inside an ingress an export needs the permit its scope lent, and uses it
\* up; elsewhere it needs an idle gate.
InvokeKernelExport ==
  /\ HostCalls
  /\ ~Fatal
  /\ ~activeExport /\ ~activeHostOperation
  /\ \/ activeToken # 0 /\ scopedExportPermit = activeToken
     \/ /\ activeToken = 0
        /\ ~draining /\ ~runningDetachedPost /\ ~runningTransactionStart
        /\ ~drainScheduled /\ deferred = <<>>
  /\ scopedExportPermit' = IF activeToken # 0 THEN 0 ELSE scopedExportPermit
  /\ activeExport' = TRUE
  /\ Call(FrameOf("export"))
  /\ UNCHANGED <<exc, activeToken, activeHostOperation, phases, queue, loop,
                 failure, scope, history>>

RunSerializedHostOperation ==
  /\ HostCalls
  /\ ~ShouldDeferVoidIngress
  /\ activeHostOperation' = TRUE
  /\ Call(FrameOf("host"))
  /\ UNCHANGED <<exc, activeExport, activeToken, scopedExportPermit, phases,
                 queue, loop, failure, scope, history>>

\* The holder of a scope calls it: the scope of the running ingress, or one
\* kept from an ingress that has ended.
ScopeUsable(token) ==
  /\ activeToken = token
  /\ ~activeExport
  /\ scopedExportPermit = 0
  /\ ~runningSerializedHostOperation

ScopeInvoke(token) ==
  /\ HostCalls
  /\ ScopeUsable(token)
  /\ scopedExportPermit' = token
  /\ Call(ScopeFrame("scope", token))
  /\ UNCHANGED <<exc, activeExport, activeToken, activeHostOperation, phases,
                 queue, loop, failure, scope, history>>

ScopeSerializedHostOperation(token) ==
  /\ HostCalls
  /\ ScopeUsable(token)
  /\ runningSerializedHostOperation' = TRUE
  /\ Call(FrameOf("scopedhost"))
  /\ UNCHANGED <<exc, authority, phases, queue, loop, failure, lastToken,
                 effects, history>>

RegisterEffect(token, kind) ==
  /\ HostCalls
  /\ activeToken = token
  /\ ~runningSerializedHostOperation
  /\ Len(effects) < MaxEffects
  /\ effects' = Append(effects, kind)
  /\ UNCHANGED <<stack, exc, authority, phases, queue, loop, failure, lastToken,
                 runningSerializedHostOperation, history>>

\* CentralizedKernelWorker.#failKernelInstance, called by the worker itself.
FailKernelInstance ==
  /\ HostCalls
  /\ ~Fatal
  /\ Fail("worker")
  /\ UNCHANGED <<stack, exc, authority, phases, loop, pendingFatalReport,
                 reports, scope, history>>

Throw ==
  /\ HostCalls
  /\ exc' = TRUE
  /\ UNCHANGED <<stack, authority, phases, queue, loop, failure, scope, history>>

\* Host code handles what a call of the gate threw.
Catch ==
  /\ exc
  /\ stack # <<>> /\ Top.kind \in HostKinds
  /\ exc' = FALSE
  /\ UNCHANGED <<stack, authority, phases, queue, loop, failure, scope,
                 history, calls>>

-----------------------------------------------------------------------------
(* How the callbacks end: by a return, or, when exc is TRUE, by letting the *)
(* exception through                                                       *)

EndTask ==
  /\ OnTop("task")
  /\ Leave
  /\ exc' = FALSE
  /\ UNCHANGED <<authority, phases, queue, loop, failure, scope, history, calls>>

EndExport ==
  /\ OnTop("export")
  /\ activeExport' = FALSE
  /\ UNCHANGED <<exc, activeToken, activeHostOperation, scopedExportPermit,
                 phases, scope, history, calls>>
  /\ Settle(exc)
  /\ ScheduleDrain
  /\ Leave

\* `thenable`: the operation returned a Promise, which
\* #acceptSynchronousHostOperationResult makes fatal.
EndHostOperation(thenable) ==
  /\ OnTop("host")
  /\ thenable => ~exc
  /\ activeHostOperation' = FALSE
  /\ UNCHANGED <<activeExport, activeToken, scopedExportPermit, phases, scope,
                 history, calls>>
  /\ Settle(thenable)
  /\ ScheduleDrain
  /\ exc' = (exc \/ thenable)
  /\ Leave

EndScopedHostOperation(thenable) ==
  /\ OnTop("scopedhost")
  /\ thenable => ~exc
  /\ runningSerializedHostOperation' = FALSE
  /\ Latch(thenable)
  /\ exc' = (exc \/ thenable)
  /\ Leave
  /\ UNCHANGED <<authority, phases, loop, lastToken, effects, history, calls>>

\* Mutant: an exception leaves the permit behind.
EndScopeMutant ==
  /\ OnTop("scope")
  /\ exc' = (exc \/ scopedExportPermit = Top.token)
  /\ scopedExportPermit' = IF exc THEN scopedExportPermit ELSE 0
  /\ Leave
  /\ UNCHANGED <<activeExport, activeToken, activeHostOperation, phases, queue,
                 loop, failure, scope, history, calls>>

\* An invocation that left its permit unused throws.
EndScope ==
  /\ OnTop("scope")
  /\ exc' = (exc \/ scopedExportPermit = Top.token)
  /\ scopedExportPermit' = 0
  /\ Leave
  /\ UNCHANGED <<activeExport, activeToken, activeHostOperation, phases, queue,
                 loop, failure, scope, history, calls>>

\* #runVoidIngress once its operation is over.  The scope is revoked before
\* anything else runs; the effects it returns are for #runDetachedEffects.
EndIngress ==
  /\ OnTop("ingress")
  /\ activeToken' = 0
  /\ scopedExportPermit' = 0
  /\ UNCHANGED <<activeExport, activeHostOperation, phases, scope, history, calls>>
  /\ Settle(exc)
  /\ ScheduleDrain
  /\ IF exc \/ Fatal
     THEN exc' = TRUE /\ Leave
     ELSE UNCHANGED exc /\ Become(LoopFrame("returned", effects))

\* Mutant: the end of a transaction start does not schedule the drain.
EndTransactionStartMutant ==
  /\ OnTop("txn")
  /\ runningTransactionStart' = FALSE
  /\ UNCHANGED <<authority, draining, runningDetachedPost, loop, scope, history, calls>>
  /\ Settle(exc)
  /\ exc' = FALSE
  /\ Leave

EndTransactionStart ==
  /\ OnTop("txn")
  /\ runningTransactionStart' = FALSE
  /\ UNCHANGED <<authority, draining, runningDetachedPost, scope, history, calls>>
  /\ Settle(exc)
  /\ ScheduleDrain
  /\ exc' = FALSE
  /\ Leave

-----------------------------------------------------------------------------
(* #runDetachedEffects: the loop over the effects of one ingress.  `todo`  *)
(* is what the loop has left; a running effect has the frame above it, and *)
(* its kind there.                                                         *)

RunDetachedEffects ==
  /\ OnTop("returned")
  /\ IF runningDetachedPost
     THEN exc' = TRUE /\ Leave /\ UNCHANGED runningDetachedPost
     ELSE /\ runningDetachedPost' = TRUE
          /\ Become(LoopFrame("detached", Top.todo))
          /\ UNCHANGED exc
  /\ UNCHANGED <<authority, draining, runningTransactionStart, queue, loop,
                 failure, scope, history, calls>>

\* The finally block, with the exception a failed effect leaves behind.
LeaveDetached(failed) ==
  /\ runningDetachedPost' = FALSE
  /\ UNCHANGED <<authority, draining, runningTransactionStart, scope, history, calls>>
  /\ Settle(failed)
  /\ ScheduleDrain

EffectsOver ==
  /\ OnTop("detached")
  /\ Top.todo = <<>> \/ Fatal
  /\ LeaveDetached(FALSE)
  /\ Leave
  /\ UNCHANGED exc

RunEffect ==
  /\ OnTop("detached") /\ ~Fatal
  /\ Top.todo # <<>>
  /\ Head(Top.todo) # "protocol-transaction-start"
  /\ stack' = Callers \o <<LoopFrame("detached", Tail(Top.todo)),
                           LoopFrame("effect", <<Head(Top.todo)>>)>>
  /\ UNCHANGED <<exc, authority, phases, queue, loop, failure, scope, history, calls>>

\* Mutant: the pending transaction start is not counted.
QueueTransactionStartMutant ==
  /\ OnTop("detached") /\ ~Fatal
  /\ Top.todo = <<"protocol-transaction-start">>
  /\ microtasks' = Append(microtasks, "txn")
  /\ Become(LoopFrame("detached", <<>>))
  /\ UNCHANGED <<exc, authority, phases, queue, drainScheduled,
                 pendingTransactionStarts, failure, scope, history, calls>>

\* A transaction start becomes a microtask of its own.
QueueTransactionStart ==
  /\ OnTop("detached") /\ ~Fatal
  /\ Top.todo = <<"protocol-transaction-start">>
  /\ pendingTransactionStarts' = pendingTransactionStarts + 1
  /\ microtasks' = Append(microtasks, "txn")
  /\ Become(LoopFrame("detached", <<>>))
  /\ UNCHANGED <<exc, authority, phases, queue, drainScheduled, failure, scope,
                 history, calls>>

\* A transaction start that is not the last effect fails the gate.
MisplacedTransactionStart ==
  /\ OnTop("detached") /\ ~Fatal
  /\ Len(Top.todo) > 1
  /\ Head(Top.todo) = "protocol-transaction-start"
  /\ LeaveDetached(TRUE)
  /\ Leave
  /\ exc' = TRUE

EndEffect ==
  /\ OnTop("effect") /\ ~exc
  /\ Leave
  /\ UNCHANGED <<exc, authority, phases, queue, loop, failure, scope, history, calls>>

\* A failed observer is logged and the loop goes on.
EndObserverThrowing ==
  /\ OnTop("effect") /\ exc
  /\ Top.todo = <<"observer">>
  /\ Leave
  /\ exc' = FALSE
  /\ UNCHANGED <<authority, phases, queue, loop, failure, scope, history, calls>>

\* A failed protocol effect is fatal and ends the loop, whose frame is below.
EndProtocolThrowing ==
  /\ OnTop("effect") /\ exc
  /\ Top.todo # <<"observer">>
  /\ LeaveDetached(TRUE)
  /\ stack' = SubSeq(stack, 1, Len(stack) - 2)
  /\ UNCHANGED exc

-----------------------------------------------------------------------------
(* Microtasks and the drain *)

\* An event of the worker, or a continuation of other code: what the gate
\* queued may have to wait for it.
StartTask ==
  /\ stack = <<>>
  /\ Call(FrameOf("task"))
  /\ UNCHANGED <<exc, authority, phases, queue, loop, failure, scope, history, calls>>

RunProtocolTransactionStart ==
  /\ stack = <<>> /\ microtasks # <<>>
  /\ Head(microtasks) = "txn"
  /\ microtasks' = Tail(microtasks)
  /\ pendingTransactionStarts' = pendingTransactionStarts - 1
  /\ IF Fatal
     THEN UNCHANGED <<stack, runningTransactionStart>>
     ELSE runningTransactionStart' = TRUE /\ Call(FrameOf("txn"))
  /\ UNCHANGED <<exc, authority, draining, runningDetachedPost, queue,
                 drainScheduled, failure, scope, history, calls>>

StartDrain ==
  /\ stack = <<>> /\ microtasks # <<>>
  /\ Head(microtasks) = "drain"
  /\ microtasks' = Tail(microtasks)
  /\ drainScheduled' = FALSE
  /\ IF \/ Fatal \/ activeExport \/ activeHostOperation
        \/ runningTransactionStart \/ pendingTransactionStarts > 0
     THEN UNCHANGED <<stack, draining>>
     ELSE draining' = TRUE /\ Call(FrameOf("drain"))
  /\ UNCHANGED <<exc, authority, runningDetachedPost, runningTransactionStart,
                 queue, pendingTransactionStarts, failure, scope, history, calls>>

DrainHasNext == deferred # <<>> /\ ~Fatal /\ pendingTransactionStarts = 0

\* Mutant: the drain reads the head of the queue and leaves it there.
DrainNextUnshifted ==
  /\ OnTop("drain") /\ ~exc
  /\ DrainHasNext
  /\ deferredKeys' = deferredKeys \ {Head(deferred).key}
  /\ RunVoidIngress
  /\ begun' = begun + 1
  /\ owed' = owed \ {Head(deferred).key}
  /\ UNCHANGED <<phases, deferred, loop, failure, queued, calls>>

\* Mutant: the dedupe key outlives the entry's place in the queue.
DrainNextStaleKey ==
  /\ OnTop("drain") /\ ~exc
  /\ DrainHasNext
  /\ deferred' = Tail(deferred)
  /\ RunVoidIngress
  /\ begun' = begun + 1
  /\ owed' = owed \ {Head(deferred).key}
  /\ UNCHANGED <<phases, deferredKeys, loop, failure, queued, calls>>

DrainNext ==
  /\ OnTop("drain") /\ ~exc
  /\ DrainHasNext
  /\ deferred' = Tail(deferred)
  /\ deferredKeys' = deferredKeys \ {Head(deferred).key}
  /\ RunVoidIngress
  /\ begun' = begun + 1
  /\ owed' = owed \ {Head(deferred).key}
  /\ UNCHANGED <<phases, loop, failure, queued, calls>>

DrainThrew ==
  /\ OnTop("drain") /\ exc
  /\ Latch(TRUE)
  /\ exc' = FALSE
  /\ UNCHANGED <<stack, authority, phases, loop, scope, history, calls>>

\* Mutant: the drain ends without the report it held back.
EndDrainMutant ==
  /\ OnTop("drain") /\ ~exc
  /\ ~DrainHasNext
  /\ draining' = FALSE
  /\ Leave
  /\ UNCHANGED <<exc, authority, runningDetachedPost, runningTransactionStart,
                 queue, loop, failure, scope, history, calls>>

EndDrain ==
  /\ OnTop("drain") /\ ~exc
  /\ ~DrainHasNext
  /\ draining' = FALSE
  /\ UNCHANGED <<exc, authority, runningDetachedPost, runningTransactionStart,
                 loop, scope, history, calls>>
  /\ Settle(FALSE)
  /\ Leave

-----------------------------------------------------------------------------

HostCall ==
  \/ RunOrDeferVoidIngress
  \/ RunImmediateVoidIngress
  \/ InvokeKernelExport
  \/ RunSerializedHostOperation
  \/ \E token \in 1 .. lastToken :
        \/ ScopeInvoke(token)
        \/ ScopeSerializedHostOperation(token)
        \/ \E kind \in EffectKinds : RegisterEffect(token, kind)
  \/ FailKernelInstance
  \/ Throw
  \/ Catch

HostReturn ==
  \/ EndTask
  \/ EndExport
  \/ \E thenable \in BOOLEAN :
        EndHostOperation(thenable) \/ EndScopedHostOperation(thenable)
  \/ EndScope
  \/ EndIngress
  \/ EndTransactionStart
  \/ EndEffect
  \/ EndObserverThrowing
  \/ EndProtocolThrowing

GateLoop ==
  \/ RunDetachedEffects
  \/ EffectsOver
  \/ RunEffect
  \/ QueueTransactionStart
  \/ MisplacedTransactionStart
  \/ DrainNext
  \/ DrainThrew
  \/ EndDrain

RunMicrotask == RunProtocolTransactionStart \/ StartDrain

Next == HostCall \/ HostReturn \/ GateLoop \/ RunMicrotask \/ StartTask

Spec == Init /\ [][Next]_vars

\* The callbacks are synchronous and return; the event loop runs microtasks in
\* the order they were queued, so a queued one is not overtaken forever.
FairSpec == Spec /\ WF_vars(HostReturn \/ GateLoop) /\ SF_vars(RunMicrotask)

-----------------------------------------------------------------------------
(* Properties *)

Running(kind) == \E i \in DOMAIN stack : stack[i].kind = kind

\* The kernel is never entered again while it runs: whatever a host import, a
\* backend, an observer or a kept scope calls, no frame is ever above an
\* export or a serialized host operation.
KernelNeverReentered ==
  \A i \in 1 .. Len(stack) - 1 : stack[i].kind \notin LeafKinds

\* The flags the gate decides by are the truth about the call stack and the
\* microtask queue: no path out of a callback, by return or by exception,
\* leaves one behind or clears one too early.
FlagsTellTheStack ==
  /\ activeExport <=> Running("export")
  /\ activeHostOperation <=> Running("host")
  /\ activeToken # 0 <=> Running("ingress")
  /\ scopedExportPermit # 0 => OnTop("scope")
  /\ runningDetachedPost <=> Running("detached")
  /\ runningTransactionStart <=> Running("txn")
  /\ draining <=> Running("drain")
  /\ activeToken # 0 => (runningSerializedHostOperation <=> Running("scopedhost"))
  /\ drainScheduled <=> \E k \in DOMAIN microtasks : microtasks[k] = "drain"
  /\ pendingTransactionStarts
       = Cardinality({k \in DOMAIN microtasks : microtasks[k] = "txn"})

\* Until the gate fails, every queued ingress begins exactly once and in the
\* order of the calls: the queue holds exactly the calls not yet begun.
QueueLosesNothing ==
  ~Fatal =>
    /\ Len(deferred) = queued - begun
    /\ \A k \in DOMAIN deferred : deferred[k].id = begun + k

\* A call dropped as a duplicate is covered: work under its key is queued and
\* has not begun, so it will see what the dropped call was about.
DuplicatesAreCovered ==
  ~Fatal => \A key \in owed : \E k \in DOMAIN deferred : deferred[k].key = key

\* The effects of an ingress come before any later ingress: none begins inside
\* the effect loop, and while a transaction start is pending none begins
\* except the roots of another transaction start.
EffectsPrecedeLaterIngress ==
  \A i \in DOMAIN stack : stack[i].kind = "ingress" =>
    /\ \A j \in 1 .. i - 1 : stack[j].kind \notin {"ingress", "returned", "detached"}
    /\ pendingTransactionStarts > 0 => stack[1].kind = "txn"

\* A failure the gate detects is reported once, and not left unreported when
\* the stack has unwound to the host's own code.
FailureReportedOnce ==
  /\ reports <= 1
  /\ (\A i \in DOMAIN stack : stack[i].kind = "task")
       => (reports = 1 <=> fatalError = "gate")

\* The owner hears of the failure only when no frame holds authority over the
\* kernel: everything the gate started has left the stack.
ReportSeesNoAuthority ==
  [][reports' > reports => \A i \in DOMAIN stack' : stack'[i].kind = "task"]_vars

\* Every queued ingress begins, unless the gate fails.
QueuedIngressBegins ==
  \A n \in 1 .. MaxCalls : queued >= n ~> (begun >= n \/ Fatal)

=============================================================================
