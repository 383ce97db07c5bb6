--------------------------- MODULE EntryGateProofs ---------------------------
(***************************************************************************)
(* Theorems about EntryGate, for every set of dedupe keys and every number *)
(* of calls and effects, and hence for call stacks of every depth.         *)
(***************************************************************************)
EXTENDS EntryGate, FiniteSetTheorems, FunctionTheorems, TLAPS

-----------------------------------------------------------------------------
(* The queue *)

\* The queue and its history, without the rest of the gate.
QueueTyped ==
  /\ deferred \in Seq(Entry)
  /\ queued \in Nat
  /\ begun \in Nat

KeysQueued ==
  ~Fatal =>
    /\ owed \subseteq deferredKeys
    /\ \A key \in deferredKeys : \E k \in DOMAIN deferred : deferred[k].key = key

QueueInv == QueueTyped /\ QueueLosesNothing /\ KeysQueued

\* A step that only may fail the gate keeps the queue's invariant.
LEMMA FailKeepsQueue ==
  ASSUME QueueInv,
         UNCHANGED history,
         \/ UNCHANGED <<fatalError, queue>>
         \/ Fatal' /\ deferred' = <<>>
  PROVE  QueueInv'
<1>0. queued' = queued /\ begun' = begun /\ owed' = owed
  BY DEF history
<1>1. CASE UNCHANGED <<fatalError, queue>>
  <2>1. fatalError' = fatalError /\ deferred' = deferred /\ deferredKeys' = deferredKeys
    BY <1>1 DEF queue
  <2> QED
    BY <1>0, <2>1 DEF QueueInv, QueueTyped, QueueLosesNothing, KeysQueued, Fatal
<1>2. CASE Fatal' /\ deferred' = <<>>
  BY <1>0, <1>2 DEF QueueInv, QueueTyped, QueueLosesNothing, KeysQueued
<1> QED BY <1>1, <1>2

\* An ingress joins the queue.
LEMMA DeferKeepsQueue ==
  ASSUME QueueInv, NEW key \in Keys \cup {"none"},
         DeferVoidIngress(key), UNCHANGED fatalError
  PROVE  QueueInv'
<1>1. CASE key \in deferredKeys
  <2>1. /\ deferred' = deferred /\ deferredKeys' = deferredKeys
        /\ queued' = queued /\ begun' = begun
        /\ owed' = owed \cup Named(key)
    BY <1>1 DEF DeferVoidIngress, queue
  <2>2. owed \subseteq deferredKeys => owed' \subseteq deferredKeys'
    BY <1>1, <2>1 DEF Named
  <2> QED
    BY <2>1, <2>2 DEF QueueInv, QueueTyped, QueueLosesNothing, KeysQueued, Fatal
<1>2. CASE key \notin deferredKeys
  <2> DEFINE e == [id |-> queued + 1, key |-> key]
  <2>1. /\ deferred' = Append(deferred, e) /\ queued' = queued + 1 /\ begun' = begun
        /\ deferredKeys' = deferredKeys \cup Named(key)
        /\ owed' = owed \cup Named(key)
    BY <1>2 DEF DeferVoidIngress
  <2>2. deferred \in Seq(Entry) /\ queued \in Nat /\ begun \in Nat /\ e \in Entry
    BY DEF QueueInv, QueueTyped, Entry
  <2>3. QueueTyped'
    BY <2>1, <2>2 DEF QueueTyped
  <2>4. QueueLosesNothing'
    <3>1. ~Fatal' => /\ Len(deferred) = queued - begun
                     /\ \A k \in DOMAIN deferred : deferred[k].id = begun + k
      BY DEF QueueInv, QueueLosesNothing, Fatal
    <3>2. /\ Len(deferred') = Len(deferred) + 1
          /\ DOMAIN deferred' = 1 .. Len(deferred) + 1
          /\ \A k \in 1 .. Len(deferred) : deferred'[k] = deferred[k]
          /\ deferred'[Len(deferred) + 1] = e
      BY <2>1, <2>2
    <3>3. ASSUME ~Fatal', NEW k \in DOMAIN deferred'
          PROVE  deferred'[k].id = begun' + k
      <4>1. CASE k = Len(deferred) + 1
        BY <2>1, <2>2, <3>1, <3>2, <3>3, <4>1
      <4>2. CASE k \in 1 .. Len(deferred)
        <5>1. k \in DOMAIN deferred
          BY <2>2, <4>2
        <5> QED BY <2>1, <3>1, <3>2, <3>3, <4>2, <5>1
      <4> QED BY <2>2, <3>2, <3>3, <4>1, <4>2
    <3>4. ASSUME ~Fatal' PROVE Len(deferred') = queued' - begun'
      <4>1. Len(deferred) = queued - begun
        BY <3>1, <3>4
      <4> QED BY <2>1, <2>2, <3>2, <4>1
    <3> QED BY <3>3, <3>4 DEF QueueLosesNothing
  <2>5. KeysQueued'
    <3> SUFFICES ASSUME ~Fatal'
                 PROVE  /\ owed' \subseteq deferredKeys'
                        /\ \A k \in deferredKeys' : \E n \in DOMAIN deferred' : deferred'[n].key = k
      BY DEF KeysQueued
    <3>1. /\ owed \subseteq deferredKeys
          /\ \A k \in deferredKeys : \E n \in DOMAIN deferred : deferred[n].key = k
      BY DEF QueueInv, KeysQueued, Fatal
    <3>2. DOMAIN deferred' = 1 .. Len(deferred) + 1 /\ deferred'[Len(deferred) + 1].key = key
      BY <2>1, <2>2
    <3>3. \A n \in DOMAIN deferred : n \in DOMAIN deferred' /\ deferred'[n] = deferred[n]
      BY <2>1, <2>2
    <3>4. ASSUME NEW k \in deferredKeys'
          PROVE  \E n \in DOMAIN deferred' : deferred'[n].key = k
      <4>1. CASE k = key
        <5>1. Len(deferred) + 1 \in DOMAIN deferred'
          BY <3>2, <2>2
        <5> QED BY <5>1, <3>2, <4>1
      <4>2. CASE k # key
        BY <2>1, <3>1, <3>3, <4>2, <3>4 DEF Named
      <4> QED BY <4>1, <4>2
    <3> QED BY <2>1, <3>1, <3>4
  <2> QED BY <2>3, <2>4, <2>5 DEF QueueInv
<1> QED BY <1>1, <1>2

\* The drain takes the head of the queue.
LEMMA DrainKeepsQueue ==
  ASSUME QueueInv, DrainNext
  PROVE  QueueInv'
<1>1. /\ deferred # <<>> /\ ~Fatal /\ fatalError' = fatalError
      /\ deferred' = Tail(deferred) /\ queued' = queued /\ begun' = begun + 1
      /\ deferredKeys' = deferredKeys \ {Head(deferred).key}
      /\ owed' = owed \ {Head(deferred).key}
  BY DEF DrainNext, DrainHasNext, failure
<1>2. deferred \in Seq(Entry) /\ queued \in Nat /\ begun \in Nat
  BY DEF QueueInv, QueueTyped
<1>3. QueueTyped'
  BY <1>1, <1>2 DEF QueueTyped
<1>4. QueueLosesNothing'
  <2>1. /\ Len(deferred) = queued - begun
        /\ \A k \in DOMAIN deferred : deferred[k].id = begun + k
    BY <1>1 DEF QueueInv, QueueLosesNothing
  <2>2. /\ Len(deferred') = Len(deferred) - 1
        /\ \A k \in DOMAIN deferred' : k + 1 \in DOMAIN deferred /\ deferred'[k] = deferred[k + 1]
        /\ DOMAIN deferred' = 1 .. Len(deferred) - 1
    BY <1>1, <1>2
  <2> QED BY <1>1, <1>2, <2>1, <2>2 DEF QueueLosesNothing
<1>5. ASSUME NEW k \in deferredKeys'
      PROVE  \E n \in DOMAIN deferred' : deferred'[n].key = k
  <2>1. PICK n \in DOMAIN deferred : deferred[n].key = k
    BY <1>1, <1>5 DEF QueueInv, KeysQueued
  <2>2. n # 1
    BY <1>1, <1>2, <1>5, <2>1
  <2>3. n - 1 \in DOMAIN deferred' /\ deferred'[n - 1] = deferred[n]
    BY <1>1, <1>2, <2>1, <2>2
  <2> QED BY <2>1, <2>3
<1>6. KeysQueued'
  BY <1>1, <1>5 DEF QueueInv, KeysQueued
<1> QED BY <1>3, <1>4, <1>6 DEF QueueInv

\* Every other step leaves the queue alone or discards it with a failure.
LEMMA QueueStep == QueueInv /\ [Next]_vars => QueueInv'
<1> SUFFICES ASSUME QueueInv, [Next]_vars PROVE QueueInv'
  OBVIOUS
<1> USE DEF Fatal
<1>1. CASE RunOrDeferVoidIngress
  <2>1. CASE ShouldDeferVoidIngress
    BY <1>1, <2>1, DeferKeepsQueue DEF RunOrDeferVoidIngress, failure
  <2>2. CASE ~ShouldDeferVoidIngress
    BY <1>1, <2>2, FailKeepsQueue DEF RunOrDeferVoidIngress, failure
  <2> QED BY <2>1, <2>2
<1>2. CASE DrainNext
  BY <1>2, DrainKeepsQueue
<1>3. CASE RunImmediateVoidIngress
  BY <1>3, FailKeepsQueue DEF RunImmediateVoidIngress, failure
<1>4. CASE InvokeKernelExport
  BY <1>4, FailKeepsQueue DEF InvokeKernelExport, failure
<1>5. CASE RunSerializedHostOperation
  BY <1>5, FailKeepsQueue DEF RunSerializedHostOperation, failure
<1>6. ASSUME NEW token \in 1 .. lastToken,
             \/ ScopeInvoke(token)
             \/ ScopeSerializedHostOperation(token)
             \/ \E kind \in EffectKinds : RegisterEffect(token, kind)
      PROVE  QueueInv'
  <2>1. UNCHANGED <<fatalError, queue>> /\ UNCHANGED history
    BY <1>6 DEF ScopeInvoke, ScopeSerializedHostOperation, RegisterEffect, failure
  <2> QED BY <2>1, FailKeepsQueue
<1>7. CASE FailKernelInstance
  BY <1>7, FailKeepsQueue DEF FailKernelInstance, Fail
<1>8. CASE Throw \/ Catch
  BY <1>8, FailKeepsQueue DEF Throw, Catch, failure
<1>9. ASSUME NEW failed \in BOOLEAN, UNCHANGED history,
             Settle(failed) \/ Latch(failed)
      PROVE  QueueInv'
  <2>1. UNCHANGED <<fatalError, queue>> \/ (Fatal' /\ deferred' = <<>>)
    BY <1>9 DEF Settle, Latch, Fail
  <2> QED BY <1>9, <2>1, FailKeepsQueue
<1>10. CASE EndTask \/ EndScope \/ EndEffect \/ EndObserverThrowing
  BY <1>10, FailKeepsQueue DEF EndTask, EndScope, EndEffect, EndObserverThrowing, failure
<1>11. ASSUME NEW failed \in BOOLEAN, LeaveDetached(failed)
       PROVE  QueueInv'
  BY <1>9, <1>11 DEF LeaveDetached
<1>12. CASE EndExport \/ EndIngress \/ EndTransactionStart
  <2>1. UNCHANGED history /\ (Settle(exc) \/ Settle(TRUE) \/ Settle(FALSE))
    BY <1>12 DEF EndExport, EndIngress, EndTransactionStart
  <2> QED BY <1>9, <2>1 DEF Settle
<1>13. ASSUME NEW thenable \in BOOLEAN,
              EndHostOperation(thenable) \/ EndScopedHostOperation(thenable)
       PROVE  QueueInv'
  BY <1>9, <1>13 DEF EndHostOperation, EndScopedHostOperation
<1>14. CASE RunDetachedEffects \/ RunEffect \/ QueueTransactionStart
  BY <1>14, FailKeepsQueue DEF RunDetachedEffects, RunEffect, QueueTransactionStart, failure
<1>15. CASE EffectsOver \/ MisplacedTransactionStart \/ EndProtocolThrowing
  BY <1>11, <1>15 DEF EffectsOver, MisplacedTransactionStart, EndProtocolThrowing
<1>16. CASE DrainThrew \/ EndDrain
  BY <1>9, <1>16 DEF DrainThrew, EndDrain
<1>17. CASE StartTask \/ RunProtocolTransactionStart \/ StartDrain
  BY <1>17, FailKeepsQueue DEF StartTask, RunProtocolTransactionStart, StartDrain, failure
<1>18. CASE UNCHANGED vars
  BY <1>18, FailKeepsQueue DEF vars, failure
<1> QED
  BY <1>1, <1>2, <1>3, <1>4, <1>5, <1>6, <1>7, <1>8, <1>10, <1>12, <1>13, <1>14,
     <1>15, <1>16, <1>17, <1>18
     DEF Next, HostCall, HostReturn, GateLoop, RunMicrotask

\* The queue and its keys agree in every state.
LEMMA QueueInvariant == Spec => []QueueInv
<1>1. Init => QueueInv
  BY DEF Init, QueueInv, QueueTyped, QueueLosesNothing, KeysQueued
<1> QED BY <1>1, QueueStep, PTL DEF Spec

\* Until it fails the gate starts every queued ingress once, in the order of
\* the calls.
THEOREM QueueIsExact == Spec => []QueueLosesNothing
<1>1. QueueInv => QueueLosesNothing
  BY DEF QueueInv
<1> QED BY <1>1, QueueInvariant, PTL

\* A request dropped as a duplicate always has its work still to begin.
THEOREM DroppedRequestsAreCovered == Spec => []DuplicatesAreCovered
<1>1. QueueInv => DuplicatesAreCovered
  BY DEF QueueInv, KeysQueued, DuplicatesAreCovered
<1> QED BY <1>1, QueueInvariant, PTL
-----------------------------------------------------------------------------
(* The call stack *)

StackTyped ==
  /\ stack \in Seq(Frame)
  /\ activeToken \in Nat
  /\ scopedExportPermit \in Nat
  /\ lastToken \in Nat
  /\ effects \in Seq(EffectKinds)

\* What the gate's fields say while a leaf runs; it is why the calls that
\* would enter the kernel again are refused there.
LeafOwnsGate ==
  /\ OnTop("export") => activeExport
  /\ OnTop("host") => activeHostOperation /\ activeToken = 0
  /\ OnTop("scopedhost") =>
       runningSerializedHostOperation /\ activeToken # 0 /\ scopedExportPermit = 0

StackInv == StackTyped /\ KernelNeverReentered /\ LeafOwnsGate

NoLeafOnTop == stack = <<>> \/ Top.kind \notin LeafKinds

\* The frames that the gate builds are frames.
LEMMA FramesTyped ==
  /\ \A kind \in FrameKinds : FrameOf(kind) \in Frame
  /\ \A kind \in FrameKinds, token \in Nat : ScopeFrame(kind, token) \in Frame
  /\ \A kind \in FrameKinds, todo \in Seq(EffectKinds) : LoopFrame(kind, todo) \in Frame
BY DEF FrameOf, ScopeFrame, LoopFrame, Frame

\* A prefix of the stack is a stack with the same frames.
LEMMA PrefixIs ==
  ASSUME stack \in Seq(Frame), NEW n \in 0 .. Len(stack)
  PROVE  /\ SubSeq(stack, 1, n) \in Seq(Frame)
         /\ Len(SubSeq(stack, 1, n)) = n
         /\ \A i \in 1 .. n : SubSeq(stack, 1, n)[i] = stack[i]
<1>1. Len(SubSeq(stack, 1, n)) = n
  OBVIOUS
<1>2. \A i \in 1 .. n : SubSeq(stack, 1, n)[i] = stack[i]
  OBVIOUS
<1>3. SubSeq(stack, 1, n) \in Seq(Frame)
  OBVIOUS
<1> QED BY <1>1, <1>2, <1>3

\* The frame below the top one, if there is one, is on the stack.
LEMMA TwoBelow ==
  ASSUME NEW n \in Nat \ {0}, n # 1
  PROVE  n - 2 \in 0 .. n - 1 /\ n - 2 \in 0 .. n
OBVIOUS

\* The callers of the top frame are the stack below it.
LEMMA CallersAre ==
  ASSUME stack \in Seq(Frame), stack # <<>>
  PROVE  /\ Len(stack) \in Nat \ {0}
         /\ Callers \in Seq(Frame) /\ Len(Callers) = Len(stack) - 1
         /\ \A i \in 1 .. Len(stack) - 1 : Callers[i] = stack[i]
<1>1. Len(stack) \in Nat \ {0} /\ Len(stack) - 1 \in 0 .. Len(stack)
  OBVIOUS
<1> QED BY <1>1, PrefixIs DEF Callers

\* Returning cannot expose a leaf: none was below the top.
LEMMA PopKeeps ==
  ASSUME StackInv, stack # <<>>, NEW n \in 0 .. Len(stack) - 1,
         stack' = SubSeq(stack, 1, n), StackTyped'
  PROVE  StackInv'
<1>1. stack \in Seq(Frame)
  BY DEF StackInv, StackTyped
<1>2. Len(stack') = n /\ \A i \in 1 .. n : stack'[i] = stack[i] /\ stack[i].kind \notin LeafKinds
  BY <1>1 DEF StackInv, KernelNeverReentered
<1>3. KernelNeverReentered'
  BY <1>1, <1>2 DEF KernelNeverReentered
<1>4. ASSUME stack' # <<>> PROVE Top'.kind \notin LeafKinds
  <2>1. n \in 1 .. n
    BY <1>1, <1>2, <1>4
  <2> QED BY <1>2, <2>1 DEF Top
<1>5. LeafOwnsGate'
  BY <1>4 DEF LeafOwnsGate, OnTop, LeafKinds
<1> QED BY <1>3, <1>5 DEF StackInv

\* A loop of the gate moves on in its own frame.
LEMMA BecomeKeeps ==
  ASSUME StackInv, stack # <<>>, NEW f \in Frame, f.kind \notin LeafKinds,
         Become(f), StackTyped'
  PROVE  StackInv'
<1>1. stack \in Seq(Frame) /\ Len(stack) \in Nat \ {0}
  BY DEF StackInv, StackTyped
<1>2. /\ Len(stack') = Len(stack)
      /\ stack'[Len(stack)] = f
      /\ \A i \in 1 .. Len(stack) - 1 : stack'[i] = stack[i] /\ stack[i].kind \notin LeafKinds
  <2>1. stack' = Append(Callers, f)
    BY DEF Become
  <2>2. \A i \in 1 .. Len(stack) - 1 : stack[i].kind \notin LeafKinds
    BY DEF StackInv, KernelNeverReentered
  <2>3. /\ Callers \in Seq(Frame) /\ Len(Callers) = Len(stack) - 1
        /\ \A i \in 1 .. Len(stack) - 1 : Callers[i] = stack[i]
    BY <1>1, CallersAre
  <2>4. /\ Len(stack') = Len(stack)
        /\ stack'[Len(stack)] = f
        /\ \A i \in 1 .. Len(stack) - 1 : stack'[i] = Callers[i]
    BY <1>1, <2>1, <2>3
  <2> QED BY <2>2, <2>3, <2>4
<1>3. KernelNeverReentered'
  BY <1>1, <1>2 DEF KernelNeverReentered
<1>4. LeafOwnsGate'
  BY <1>1, <1>2 DEF LeafOwnsGate, OnTop, Top, LeafKinds
<1> QED BY <1>3, <1>4 DEF StackInv

\* A call is safe when no leaf is running and the fields it leaves are those
\* of the frame it makes.
LEMMA CallKeeps ==
  ASSUME StackInv, NoLeafOnTop, NEW f \in Frame, Call(f), StackTyped',
         f.kind = "export" => activeExport',
         f.kind = "host" => activeHostOperation' /\ activeToken' = 0,
         f.kind = "scopedhost" =>
           runningSerializedHostOperation' /\ activeToken' # 0 /\ scopedExportPermit' = 0
  PROVE  StackInv'
<1>1. stack \in Seq(Frame) /\ Len(stack) \in Nat
  BY DEF StackInv, StackTyped
<1>2. /\ Len(stack') = Len(stack) + 1
      /\ stack'[Len(stack) + 1] = f
      /\ \A i \in 1 .. Len(stack) : stack'[i] = stack[i]
  BY <1>1 DEF Call
<1>3. \A i \in 1 .. Len(stack) : stack[i].kind \notin LeafKinds
  <2>1. \A i \in 1 .. Len(stack) - 1 : stack[i].kind \notin LeafKinds
    BY DEF StackInv, KernelNeverReentered
  <2>2. Len(stack) # 0 => stack[Len(stack)].kind \notin LeafKinds
    BY <1>1 DEF NoLeafOnTop, Top
  <2> QED BY <1>1, <2>1, <2>2
<1>4. KernelNeverReentered'
  BY <1>1, <1>2, <1>3 DEF KernelNeverReentered
<1>5. Top' = f
  BY <1>1, <1>2 DEF Top
<1>6. \A kind : OnTop(kind)' => f.kind = kind
  BY <1>5 DEF OnTop
<1>7. LeafOwnsGate'
  BY <1>6, Zenon DEF LeafOwnsGate
<1> QED BY <1>4, <1>7 DEF StackInv

\* A step that leaves the stack and the authority alone keeps the invariant.
LEMMA SameStackKeeps ==
  ASSUME StackInv, UNCHANGED <<stack, authority, runningSerializedHostOperation>>, StackTyped'
  PROVE  StackInv'
<1>1. /\ stack' = stack /\ activeExport' = activeExport /\ activeToken' = activeToken
      /\ activeHostOperation' = activeHostOperation
      /\ scopedExportPermit' = scopedExportPermit
      /\ runningSerializedHostOperation' = runningSerializedHostOperation
  BY DEF authority
<1>2. KernelNeverReentered'
  BY <1>1 DEF StackInv, KernelNeverReentered
<1>3. LeafOwnsGate'
  BY <1>1 DEF StackInv, LeafOwnsGate, OnTop, Top
<1> QED BY <1>2, <1>3 DEF StackInv

\* The gate never runs an ingress or a host operation above a leaf.
LEMMA IdleHasNoLeaf ==
  ASSUME StackInv, ~activeExport, ~activeHostOperation, activeToken = 0
  PROVE  NoLeafOnTop
BY DEF StackInv, LeafOwnsGate, NoLeafOnTop, OnTop, LeafKinds

\* Nor does the holder of a scope reach one.
LEMMA ScopeHasNoLeaf ==
  ASSUME StackInv, NEW token \in 1 .. lastToken, ScopeUsable(token)
  PROVE  NoLeafOnTop /\ token \in Nat \ {0}
<1>1. lastToken \in Nat
  BY DEF StackInv, StackTyped
<1> QED BY <1>1 DEF StackInv, LeafOwnsGate, NoLeafOnTop, OnTop, LeafKinds, ScopeUsable

\* Every step keeps the shape of the stack.
LEMMA StackStep == StackInv /\ [Next]_vars => StackInv'
<1> SUFFICES ASSUME StackInv, [Next]_vars PROVE StackInv'
  OBVIOUS
<1>t. /\ stack \in Seq(Frame) /\ activeToken \in Nat /\ scopedExportPermit \in Nat
      /\ lastToken \in Nat /\ effects \in Seq(EffectKinds)
  BY DEF StackInv, StackTyped
<1>f. /\ stack # <<>> => Len(stack) \in Nat \ {0} /\ Top \in Frame /\ Callers \in Seq(Frame)
      /\ \A f \in Frame : Append(stack, f) \in Seq(Frame) /\ Append(Callers, f) \in Seq(Frame)
  BY <1>t DEF Top, Callers
<1>typed. ASSUME stack' \in Seq(Frame),
                 UNCHANGED scope \/ UNCHANGED <<lastToken, effects>>,
                 activeToken' \in {activeToken, 0},
                 scopedExportPermit' \in {scopedExportPermit, 0}
          PROVE  StackTyped'
  BY <1>t, <1>typed DEF StackTyped, scope
<1>leave. ASSUME Leave, stack # <<>>,
                 UNCHANGED scope \/ UNCHANGED <<lastToken, effects>>,
                 activeToken' \in {activeToken, 0},
                 scopedExportPermit' \in {scopedExportPermit, 0}
          PROVE  StackInv'
  <2>1. stack' = SubSeq(stack, 1, Len(stack) - 1) /\ Len(stack) - 1 \in 0 .. Len(stack) - 1
        /\ stack' \in Seq(Frame)
    BY <1>f, <1>leave DEF Leave, Callers
  <2>2. StackTyped'
    BY <2>1, <1>leave, <1>typed
  <2> QED BY <1>leave, <2>1, <2>2, PopKeeps
<1>ingress. ASSUME RunVoidIngress
            PROVE  StackInv'
  <2>1. CASE IngressRefused
    <3>1. UNCHANGED <<stack, authority, scope>>
      BY <1>ingress, <2>1 DEF RunVoidIngress
    <3>2. StackTyped'
      BY <1>t, <3>1 DEF StackTyped, authority, scope
    <3> QED BY <3>1, <3>2, SameStackKeeps DEF scope
  <2>2. CASE ~IngressRefused
    <3>1. NoLeafOnTop
      BY <2>2, <1>t, IdleHasNoLeaf DEF IngressRefused
    <3>2. ScopeFrame("ingress", lastToken + 1) \in Frame /\ ScopeFrame("ingress", lastToken + 1).kind = "ingress"
      BY <1>t, FramesTyped DEF ScopeFrame, FrameKinds, HostKinds
    <3>3. Call(ScopeFrame("ingress", lastToken + 1))
      BY <1>ingress, <2>2 DEF RunVoidIngress
    <3>4. StackTyped'
      <4>1. /\ lastToken' = lastToken + 1 /\ activeToken' = lastToken + 1
            /\ effects' = <<>> /\ scopedExportPermit' = scopedExportPermit
        BY <1>ingress, <2>2 DEF RunVoidIngress
      <4>2. stack' \in Seq(Frame)
        BY <1>f, <3>2, <3>3 DEF Call
      <4>3. effects' \in Seq(EffectKinds)
        BY <4>1
      <4> QED BY <1>t, <4>1, <4>2, <4>3 DEF StackTyped
    <3> QED BY <3>1, <3>2, <3>3, <3>4, CallKeeps
  <2> QED BY <2>1, <2>2
<1>same. ASSUME UNCHANGED <<stack, authority, scope>>
         PROVE  StackInv'
  <2>1. StackTyped'
    BY <1>t, <1>same DEF StackTyped, authority, scope
  <2> QED BY <2>1, <1>same, SameStackKeeps DEF scope
<1>1. CASE RunOrDeferVoidIngress
  <2>1. CASE ShouldDeferVoidIngress
    BY <1>1, <2>1, <1>same DEF RunOrDeferVoidIngress, DeferVoidIngress
  <2>2. CASE ~ShouldDeferVoidIngress
    BY <1>1, <2>2, <1>ingress DEF RunOrDeferVoidIngress
  <2> QED BY <2>1, <2>2
<1>2. CASE RunImmediateVoidIngress \/ DrainNext
  BY <1>2, <1>ingress DEF RunImmediateVoidIngress, DrainNext
<1>3. CASE InvokeKernelExport
  <2>1. NoLeafOnTop
    <3>1. ~activeExport /\ ~activeHostOperation /\ (activeToken = 0 \/ scopedExportPermit = activeToken)
      BY <1>3 DEF InvokeKernelExport
    <3> QED BY <3>1 DEF StackInv, LeafOwnsGate, NoLeafOnTop, OnTop, LeafKinds
  <2>2. FrameOf("export") \in Frame /\ FrameOf("export").kind = "export"
    BY FramesTyped DEF FrameOf, FrameKinds, HostKinds
  <2>3. Call(FrameOf("export")) /\ activeExport'
    BY <1>3 DEF InvokeKernelExport
  <2>4. StackTyped'
    BY <1>3, <1>f, <2>2, <1>typed DEF InvokeKernelExport, Call, scope
  <2> QED BY <2>1, <2>2, <2>3, <2>4, CallKeeps
<1>4. CASE RunSerializedHostOperation
  <2>1. NoLeafOnTop /\ activeToken = 0
    BY <1>4, IdleHasNoLeaf DEF RunSerializedHostOperation, ShouldDeferVoidIngress
  <2>2. FrameOf("host") \in Frame /\ FrameOf("host").kind = "host"
    BY FramesTyped DEF FrameOf, FrameKinds, HostKinds
  <2>3. Call(FrameOf("host")) /\ activeHostOperation' /\ activeToken' = 0
    BY <1>4, <2>1 DEF RunSerializedHostOperation
  <2>4. StackTyped'
    BY <1>4, <1>f, <2>2, <1>typed DEF RunSerializedHostOperation, Call, scope
  <2> QED BY <2>1, <2>2, <2>3, <2>4, CallKeeps
<1>5. ASSUME NEW token \in 1 .. lastToken, ScopeInvoke(token)
      PROVE  StackInv'
  <2>1. NoLeafOnTop /\ token \in Nat
    BY <1>5, ScopeHasNoLeaf DEF ScopeInvoke
  <2>2. ScopeFrame("scope", token) \in Frame /\ ScopeFrame("scope", token).kind = "scope"
    BY <2>1, FramesTyped DEF ScopeFrame, FrameKinds, HostKinds
  <2>3. Call(ScopeFrame("scope", token))
    BY <1>5 DEF ScopeInvoke
  <2>4. StackTyped'
    BY <1>5, <1>f, <1>t, <2>1, <2>2 DEF ScopeInvoke, StackTyped, Call, scope
  <2> QED BY <2>1, <2>2, <2>3, <2>4, CallKeeps
<1>6. ASSUME NEW token \in 1 .. lastToken, ScopeSerializedHostOperation(token)
      PROVE  StackInv'
  <2>1. NoLeafOnTop /\ token \in Nat \ {0}
    BY <1>6, ScopeHasNoLeaf DEF ScopeSerializedHostOperation
  <2>2. FrameOf("scopedhost") \in Frame /\ FrameOf("scopedhost").kind = "scopedhost"
    BY FramesTyped DEF FrameOf, FrameKinds, HostKinds
  <2>3. /\ Call(FrameOf("scopedhost")) /\ runningSerializedHostOperation'
        /\ activeToken' # 0 /\ scopedExportPermit' = 0
    BY <1>6, <2>1 DEF ScopeSerializedHostOperation, ScopeUsable, authority
  <2>4. StackTyped'
    BY <1>6, <1>f, <2>2, <1>typed DEF ScopeSerializedHostOperation, Call, authority
  <2> QED BY <2>1, <2>2, <2>3, <2>4, CallKeeps
<1>7. ASSUME NEW token \in 1 .. lastToken, NEW kind \in EffectKinds, RegisterEffect(token, kind)
      PROVE  StackInv'
  <2>1. /\ UNCHANGED <<stack, authority, runningSerializedHostOperation>>
        /\ lastToken' = lastToken /\ effects' = Append(effects, kind)
    BY <1>7 DEF RegisterEffect
  <2>2. StackTyped'
    BY <1>t, <2>1 DEF StackTyped, authority
  <2> QED BY <2>1, <2>2, SameStackKeeps
<1>8. CASE FailKernelInstance \/ Throw \/ Catch \/ DrainThrew
  BY <1>8, <1>same DEF FailKernelInstance, Throw, Catch, DrainThrew
<1>9. CASE EndTask \/ EndExport \/ EndScope \/ EndTransactionStart \/ EndEffect
            \/ EndObserverThrowing \/ EndDrain \/ EffectsOver \/ MisplacedTransactionStart
  <2>1. /\ Leave /\ stack # <<>> /\ UNCHANGED scope
        /\ activeToken' \in {activeToken, 0} /\ scopedExportPermit' \in {scopedExportPermit, 0}
    BY <1>9 DEF EndTask, EndExport, EndScope, EndTransactionStart, EndEffect,
         EndObserverThrowing, EndDrain, EffectsOver, MisplacedTransactionStart,
         LeaveDetached, OnTop, authority
  <2> QED BY <2>1, <1>leave
<1>10. ASSUME NEW thenable \in BOOLEAN,
              EndHostOperation(thenable) \/ EndScopedHostOperation(thenable)
       PROVE  StackInv'
  <2>1. /\ Leave /\ stack # <<>> /\ (UNCHANGED scope \/ UNCHANGED <<lastToken, effects>>)
        /\ activeToken' = activeToken /\ scopedExportPermit' = scopedExportPermit
    BY <1>10 DEF EndHostOperation, EndScopedHostOperation, OnTop, authority
  <2> QED BY <2>1, <1>leave
<1>11. CASE EndIngress
  <2>1. /\ stack # <<>> /\ UNCHANGED scope /\ activeToken' = 0 /\ scopedExportPermit' = 0
        /\ Leave \/ Become(LoopFrame("returned", effects))
    BY <1>11 DEF EndIngress, OnTop
  <2>2. CASE Leave
    BY <2>1, <2>2, <1>leave
  <2>3. CASE Become(LoopFrame("returned", effects))
    <3>1. /\ LoopFrame("returned", effects) \in Frame
          /\ LoopFrame("returned", effects).kind \notin LeafKinds
      BY <1>t, FramesTyped DEF LoopFrame, FrameKinds, LeafKinds
    <3>2. StackTyped'
      BY <1>f, <2>1, <2>3, <3>1, <1>typed DEF Become
    <3> QED BY <2>1, <2>3, <3>1, <3>2, BecomeKeeps
  <2> QED BY <2>1, <2>2, <2>3
<1>12. CASE RunDetachedEffects
  <2>1. /\ stack # <<>> /\ UNCHANGED <<scope, authority>>
        /\ Leave \/ Become(LoopFrame("detached", Top.todo))
    BY <1>12 DEF RunDetachedEffects, OnTop
  <2>2. CASE Leave
    BY <2>1, <2>2, <1>leave DEF authority
  <2>3. CASE Become(LoopFrame("detached", Top.todo))
    <3>1. /\ LoopFrame("detached", Top.todo) \in Frame
          /\ LoopFrame("detached", Top.todo).kind \notin LeafKinds
      BY <1>f, <2>1, FramesTyped DEF LoopFrame, FrameKinds, LeafKinds, Frame
    <3>2. StackTyped'
      BY <1>f, <2>1, <2>3, <3>1, <1>typed DEF Become, authority
    <3> QED BY <2>1, <2>3, <3>1, <3>2, BecomeKeeps
  <2> QED BY <2>1, <2>2, <2>3
<1>13. CASE QueueTransactionStart
  <2>1. /\ stack # <<>> /\ UNCHANGED <<scope, authority>>
        /\ Become(LoopFrame("detached", <<>>))
    BY <1>13 DEF QueueTransactionStart, OnTop
  <2>2. /\ LoopFrame("detached", <<>>) \in Frame
        /\ LoopFrame("detached", <<>>).kind \notin LeafKinds
    <3>1. <<>> \in Seq(EffectKinds)
      OBVIOUS
    <3> QED BY <3>1, FramesTyped DEF LoopFrame, FrameKinds, LeafKinds
  <2>3. StackTyped'
    BY <1>f, <2>1, <2>2, <1>typed DEF Become, authority
  <2> QED BY <2>1, <2>2, <2>3, BecomeKeeps
<1>14. CASE RunEffect
  <2> DEFINE f == LoopFrame("detached", Tail(Top.todo))
             e == LoopFrame("effect", <<Head(Top.todo)>>)
  <2>1. /\ stack # <<>> /\ UNCHANGED <<scope, authority>> /\ Top.todo # <<>>
        /\ stack' = Callers \o <<f, e>>
    BY <1>14 DEF RunEffect, OnTop
  <2>2. Top.todo \in Seq(EffectKinds) /\ Callers \in Seq(Frame)
    BY <1>f, <2>1 DEF Frame
  <2>3. f \in Frame /\ e \in Frame /\ f.kind \notin LeafKinds /\ e.kind \notin LeafKinds
    <3>1. Tail(Top.todo) \in Seq(EffectKinds) /\ <<Head(Top.todo)>> \in Seq(EffectKinds)
      BY <2>1, <2>2
    <3> QED BY <3>1, FramesTyped DEF LoopFrame, FrameKinds, HostKinds, LeafKinds
  <2> HIDE DEF f, e
  <2>4. stack' \in Seq(Frame) /\ StackTyped'
    <3>1. <<f, e>> \in Seq(Frame)
      BY <2>3
    <3>2. stack' \in Seq(Frame)
      BY <2>1, <2>2, <3>1
    <3> QED BY <2>1, <3>2, <1>typed DEF authority
  <2>5. /\ Len(stack') = Len(stack) + 1
        /\ stack'[Len(stack)] = f /\ stack'[Len(stack) + 1] = e
        /\ \A i \in 1 .. Len(stack) - 1 : stack'[i] = stack[i] /\ stack[i].kind \notin LeafKinds
    <3>1. /\ Len(stack) \in Nat \ {0} /\ Len(Callers) = Len(stack) - 1
          /\ \A i \in 1 .. Len(stack) - 1 : Callers[i] = stack[i]
      BY <1>t, <2>1, CallersAre
    <3>2. Len(<<f, e>>) = 2 /\ <<f, e>>[1] = f /\ <<f, e>>[2] = e /\ <<f, e>> \in Seq(Frame)
      BY <2>3
    <3>3. /\ Len(stack') = Len(Callers) + 2
          /\ \A i \in 1 .. Len(Callers) : stack'[i] = Callers[i]
          /\ stack'[Len(Callers) + 1] = f /\ stack'[Len(Callers) + 2] = e
      BY <2>1, <2>2, <3>2
    <3>4. \A i \in 1 .. Len(stack) - 1 : stack[i].kind \notin LeafKinds
      BY DEF StackInv, KernelNeverReentered
    <3> QED BY <3>1, <3>3, <3>4
  <2>6. KernelNeverReentered'
    BY <1>f, <2>1, <2>3, <2>5 DEF KernelNeverReentered
  <2>7. LeafOwnsGate'
    BY <1>f, <2>1, <2>3, <2>5 DEF LeafOwnsGate, OnTop, Top, LeafKinds
  <2> QED BY <2>4, <2>6, <2>7 DEF StackInv
<1>15. CASE EndProtocolThrowing
  <2>1. /\ stack # <<>> /\ UNCHANGED <<scope, authority>>
        /\ stack' = SubSeq(stack, 1, Len(stack) - 2)
    BY <1>15 DEF EndProtocolThrowing, LeaveDetached, OnTop
  <2>2. CASE Len(stack) = 1
    <3>1. stack' = SubSeq(stack, 1, 0)
      BY <2>1, <2>2, <1>t
    <3>2. StackTyped'
      BY <3>1, <2>1, <1>t, <1>typed DEF authority
    <3> QED BY <1>f, <2>1, <2>2, <3>1, <3>2, PopKeeps
  <2>3. CASE ~(Len(stack) = 1)
    <3>0. Len(stack) - 2 \in 0 .. Len(stack) - 1 /\ Len(stack) - 2 \in 0 .. Len(stack)
      <4>1. Len(stack) \in Nat \ {0}
        BY <1>f, <2>1
      <4> QED BY <4>1, <2>3, TwoBelow
    <3>1. stack' \in Seq(Frame)
      BY <1>t, <2>1, <3>0, PrefixIs
    <3>2. StackTyped'
      BY <3>1, <2>1, <1>typed DEF authority
    <3> QED BY <2>1, <3>0, <3>2, PopKeeps
  <2> QED BY <2>2, <2>3
<1>16. ASSUME NEW kind \in {"task", "txn", "drain"},
              stack = <<>>, Call(FrameOf(kind)), UNCHANGED <<authority, scope>>
       PROVE  StackInv'
  <2>1. FrameOf(kind) \in Frame /\ FrameOf(kind).kind = kind
    BY FramesTyped DEF FrameOf, FrameKinds, HostKinds
  <2>2. StackTyped'
    BY <1>16, <1>f, <2>1, <1>typed DEF Call, authority
  <2> QED BY <1>16, <2>1, <2>2, CallKeeps DEF NoLeafOnTop
<1>17. CASE StartTask
  BY <1>16, <1>17 DEF StartTask
<1>18. CASE RunProtocolTransactionStart
  BY <1>16, <1>18, <1>same DEF RunProtocolTransactionStart
<1>19. CASE StartDrain
  BY <1>16, <1>19, <1>same DEF StartDrain
<1>20. CASE UNCHANGED vars
  BY <1>20, <1>same DEF vars
<1> QED
  BY <1>1, <1>2, <1>3, <1>4, <1>5, <1>6, <1>7, <1>8, <1>9, <1>10, <1>11, <1>12, <1>13,
     <1>14, <1>15, <1>17, <1>18, <1>19, <1>20
     DEF Next, HostCall, HostReturn, GateLoop, RunMicrotask

\* Rust and the host operations it waits for are never entered again while
\* they run, whatever the callbacks call.
THEOREM NoReentrancy == Spec => []KernelNeverReentered
<1>1. Init => StackInv
  BY DEF Init, StackInv, StackTyped, KernelNeverReentered, LeafOwnsGate, OnTop
<1>2. StackInv => KernelNeverReentered
  BY DEF StackInv
<1> QED BY <1>1, <1>2, StackStep, PTL DEF Spec

-----------------------------------------------------------------------------
(* The flags and the call stack *)

\* The only call stacks there are: a task, a transaction start or the drain at
\* the bottom; on it one export, host operation, ingress or effect loop; above
\* an ingress its scopes and what they call; above the loop one effect.
Bases == {"task", "txn", "drain"}
Seconds == {"export", "host", "ingress", "returned", "detached"}
InScope == {"scope", "export", "scopedhost"}

KindAt(s, i) == IF i \in 1 .. Len(s) THEN s[i].kind ELSE "none"
TopKind(s) == KindAt(s, Len(s))

Shaped(s) ==
  /\ s # <<>> => s[1].kind \in Bases
  /\ Len(s) > 1 => s[2].kind \in Seconds
  /\ \A i \in 3 .. Len(s) :
        \/ s[2].kind = "ingress" /\ s[i].kind \in InScope
        \/ s[2].kind = "detached" /\ Len(s) = 3 /\ s[i].kind = "effect"
  /\ \A i \in 1 .. Len(s) - 1 : s[i].kind \notin LeafKinds

\* What the top frame says about the frames below it.
LEMMA TopTells ==
  ASSUME NEW s \in Seq(Frame), Shaped(s), s # <<>>
  PROVE  /\ Len(s) \in Nat \ {0} /\ TopKind(s) = s[Len(s)].kind
         /\ KindAt(s, 1) = s[1].kind /\ KindAt(s, 1) \in Bases
         /\ Len(s) = 1 => TopKind(s) = KindAt(s, 1) /\ KindAt(s, 2) = "none"
         /\ Len(s) = 2 => TopKind(s) = KindAt(s, 2) /\ KindAt(s, 2) \in Seconds
         /\ Len(s) > 2 => \/ KindAt(s, 2) = "ingress" /\ TopKind(s) \in InScope
                          \/ /\ KindAt(s, 2) = "detached" /\ TopKind(s) = "effect"
                             /\ Len(s) = 3
<1>1. Len(s) \in Nat \ {0}
  OBVIOUS
<1>2. TopKind(s) = s[Len(s)].kind /\ KindAt(s, 1) = s[1].kind /\ KindAt(s, 1) \in Bases
  BY <1>1 DEF TopKind, KindAt, Shaped
<1>3. Len(s) = 1 => KindAt(s, 2) = "none"
  BY DEF KindAt
<1>4. Len(s) >= 2 => KindAt(s, 2) = s[2].kind /\ KindAt(s, 2) \in Seconds
  BY <1>1 DEF KindAt, Shaped
<1>5. Len(s) > 2 => Len(s) \in 3 .. Len(s)
  BY <1>1
<1>6. ASSUME Len(s) > 2
      PROVE  \/ KindAt(s, 2) = "ingress" /\ TopKind(s) \in InScope
             \/ KindAt(s, 2) = "detached" /\ TopKind(s) = "effect" /\ Len(s) = 3
  <2>1. KindAt(s, 2) = s[2].kind /\ Len(s) \in 3 .. Len(s)
    BY <1>1, <1>4, <1>5, <1>6
  <2> QED BY <1>2, <2>1 DEF Shaped
<1>7. Len(s) = 2 => TopKind(s) = KindAt(s, 2) /\ KindAt(s, 2) \in Seconds
  BY <1>1, <1>2, <1>4
<1> QED BY <1>1, <1>2, <1>3, <1>6, <1>7

\* A call on top of a stack that admits it.
LEMMA Pushed ==
  ASSUME NEW s \in Seq(Frame), NEW f \in Frame, Shaped(s),
         \/ s = <<>> /\ f.kind \in Bases
         \/ Len(s) = 1 /\ f.kind \in Seconds
         \/ /\ Len(s) > 1 /\ KindAt(s, 2) = "ingress"
            /\ TopKind(s) \notin LeafKinds /\ f.kind \in InScope
  PROVE  /\ Shaped(Append(s, f))
         /\ KindAt(Append(s, f), 1) = IF s = <<>> THEN f.kind ELSE KindAt(s, 1)
         /\ KindAt(Append(s, f), 2) = IF Len(s) = 1 THEN f.kind ELSE KindAt(s, 2)
         /\ TopKind(Append(s, f)) = f.kind
<1> DEFINE t == Append(s, f)
<1>1. /\ Len(s) \in Nat /\ Len(t) = Len(s) + 1 /\ t[Len(s) + 1] = f
      /\ \A i \in 1 .. Len(s) : t[i] = s[i]
      /\ s = <<>> <=> Len(s) = 0
  OBVIOUS
<1> HIDE DEF t
<1>2. /\ KindAt(t, 1) = IF s = <<>> THEN f.kind ELSE KindAt(s, 1)
      /\ KindAt(t, 2) = IF Len(s) = 1 THEN f.kind ELSE KindAt(s, 2)
      /\ TopKind(t) = f.kind
  <2>1. KindAt(t, 1) = IF s = <<>> THEN f.kind ELSE KindAt(s, 1)
    BY <1>1 DEF KindAt
  <2>2. KindAt(t, 2) = IF Len(s) = 1 THEN f.kind ELSE KindAt(s, 2)
    <3>1. CASE Len(s) = 0
      BY <1>1, <3>1 DEF KindAt
    <3>2. CASE Len(s) = 1
      BY <1>1, <3>2 DEF KindAt
    <3>3. CASE Len(s) > 1
      BY <1>1, <3>3 DEF KindAt
    <3> QED BY <1>1, <3>1, <3>2, <3>3
  <2>3. TopKind(t) = f.kind
    BY <1>1 DEF KindAt, TopKind
  <2> QED BY <2>1, <2>2, <2>3
<1>3. \A i \in 1 .. Len(s) : s[i].kind \notin LeafKinds
  <2>1. \A i \in 1 .. Len(s) - 1 : s[i].kind \notin LeafKinds
    BY DEF Shaped
  <2>2. s # <<>> => s[Len(s)].kind \notin LeafKinds
    <3>1. CASE Len(s) = 1
      BY <3>1, <1>1 DEF Shaped, Bases, LeafKinds
    <3>2. CASE Len(s) > 1
      BY <3>2, <1>1 DEF TopKind, KindAt
    <3> QED BY <1>1, <3>1, <3>2
  <2> QED BY <1>1, <2>1, <2>2
<1>4. t # <<>> => t[1].kind \in Bases
  BY <1>1 DEF Shaped, Bases
<1>5. Len(t) > 1 => t[2].kind \in Seconds
  BY <1>1 DEF Shaped, Seconds
<1>6. ASSUME NEW i \in 3 .. Len(t)
      PROVE  \/ t[2].kind = "ingress" /\ t[i].kind \in InScope
             \/ t[2].kind = "detached" /\ Len(t) = 3 /\ t[i].kind = "effect"
  <2>1. Len(s) > 1 /\ s[2].kind = "ingress" /\ f.kind \in InScope /\ t[2] = s[2]
    BY <1>1, <1>6 DEF KindAt
  <2>2. CASE i = Len(s) + 1
    BY <1>1, <2>1, <2>2
  <2>3. CASE i \in 3 .. Len(s)
    BY <1>1, <2>1, <2>3 DEF Shaped
  <2> QED BY <1>1, <2>2, <2>3
<1>7. \A i \in 1 .. Len(t) - 1 : t[i].kind \notin LeafKinds
  BY <1>1, <1>3
<1>8. Shaped(t)
  BY <1>4, <1>5, <1>6, <1>7 DEF Shaped
<1> QED BY <1>2, <1>8 DEF t

\* How long a stack can be, as far as the flags tell it apart.
LEMMA SmallLengths ==
  ASSUME NEW n \in Nat \ {0}
  PROVE  (n = 1 \/ n = 2 \/ n > 2) /\ (n > 2 => n = 3 \/ n > 3)
OBVIOUS

\* A prefix of a sequence of frames has its frames.
LEMMA PrefixOf ==
  ASSUME NEW s \in Seq(Frame), NEW n \in 0 .. Len(s)
  PROVE  /\ SubSeq(s, 1, n) \in Seq(Frame)
         /\ Len(SubSeq(s, 1, n)) = n
         /\ \A i \in 1 .. n : SubSeq(s, 1, n)[i] = s[i]
<1>1. Len(SubSeq(s, 1, n)) = n
  OBVIOUS
<1>2. \A i \in 1 .. n : SubSeq(s, 1, n)[i] = s[i]
  OBVIOUS
<1>3. SubSeq(s, 1, n) \in Seq(Frame)
  OBVIOUS
<1> QED BY <1>1, <1>2, <1>3

\* A return: what is then on top.
LEMMA Popped ==
  ASSUME NEW s \in Seq(Frame), Shaped(s), s # <<>>,
         NEW t, t = SubSeq(s, 1, Len(s) - 1)
  PROVE  /\ Shaped(t) /\ t \in Seq(Frame) /\ Len(t) = Len(s) - 1
         /\ Len(s) = 1 => t = <<>> /\ KindAt(t, 1) = "none" /\ KindAt(t, 2) = "none"
                          /\ TopKind(t) = "none"
         /\ Len(s) = 2 => /\ KindAt(t, 1) = KindAt(s, 1) /\ KindAt(t, 2) = "none"
                          /\ TopKind(t) = KindAt(s, 1)
         /\ Len(s) > 2 => /\ KindAt(t, 1) = KindAt(s, 1) /\ KindAt(t, 2) = KindAt(s, 2)
                          /\ KindAt(s, 2) = "ingress" => TopKind(t) \in {"ingress", "scope"}
                          /\ KindAt(s, 2) = "detached" => TopKind(t) = "detached"
<1>1. /\ Len(s) \in Nat \ {0} /\ Len(t) = Len(s) - 1 /\ t \in Seq(Frame)
      /\ \A i \in 1 .. Len(s) - 1 : t[i] = s[i]
  <2>1. Len(s) \in Nat \ {0} /\ Len(s) - 1 \in 0 .. Len(s)
    OBVIOUS
  <2> QED BY <2>1, PrefixOf
<1>2. Shaped(t)
  <2>1. t # <<>> => t[1].kind \in Bases
    BY <1>1 DEF Shaped
  <2>2. Len(t) > 1 => t[2].kind \in Seconds
    BY <1>1 DEF Shaped
  <2>3. ASSUME NEW i \in 3 .. Len(t)
        PROVE  \/ t[2].kind = "ingress" /\ t[i].kind \in InScope
               \/ t[2].kind = "detached" /\ Len(t) = 3 /\ t[i].kind = "effect"
    BY <1>1, <2>3 DEF Shaped
  <2>4. \A i \in 1 .. Len(t) - 1 : t[i].kind \notin LeafKinds
    BY <1>1 DEF Shaped
  <2> QED BY <2>1, <2>2, <2>3, <2>4 DEF Shaped
<1>3. CASE Len(s) = 1
  BY <1>1, <1>2, <1>3 DEF KindAt, TopKind
<1>4. CASE Len(s) = 2
  BY <1>1, <1>2, <1>4 DEF KindAt, TopKind
<1>5. CASE Len(s) > 2
  <2>1. /\ KindAt(t, 1) = KindAt(s, 1) /\ KindAt(t, 2) = KindAt(s, 2)
        /\ TopKind(t) = s[Len(s) - 1].kind /\ KindAt(s, 2) = s[2].kind
    BY <1>1, <1>5 DEF KindAt, TopKind
  <2>2. s[Len(s) - 1].kind \notin LeafKinds
    BY <1>1, <1>5 DEF Shaped
  <2>3. CASE Len(s) = 3
    BY <1>1, <1>2, <1>5, <2>1, <2>3
  <2>4. CASE Len(s) > 3
    <3>1. Len(s) - 1 \in 3 .. Len(s) /\ Len(s) \in 3 .. Len(s) /\ Len(s) # 3
      BY <1>1, <2>4
    <3>2. s[2].kind = "ingress" /\ s[Len(s) - 1].kind \in InScope
      BY <3>1 DEF Shaped
    <3> QED BY <1>1, <1>2, <1>5, <2>1, <2>2, <3>2 DEF InScope, LeafKinds
  <2>5. Len(s) = 3 \/ Len(s) > 3
    BY <1>1, <1>5, SmallLengths
  <2> QED BY <2>3, <2>4, <2>5
<1>6. Len(s) = 1 \/ Len(s) = 2 \/ Len(s) > 2
  BY <1>1, SmallLengths
<1> QED BY <1>3, <1>4, <1>5, <1>6

FlagsTyped ==
  /\ activeExport \in BOOLEAN /\ activeHostOperation \in BOOLEAN
  /\ draining \in BOOLEAN /\ runningDetachedPost \in BOOLEAN
  /\ runningTransactionStart \in BOOLEAN
  /\ runningSerializedHostOperation \in BOOLEAN

FlagsTold ==
  /\ activeExport <=> TopKind(stack) = "export"
  /\ activeHostOperation <=> TopKind(stack) = "host"
  /\ activeToken # 0 <=> KindAt(stack, 2) = "ingress"
  /\ scopedExportPermit # 0 => TopKind(stack) = "scope"
  /\ runningDetachedPost <=> KindAt(stack, 2) = "detached"
  /\ runningTransactionStart <=> KindAt(stack, 1) = "txn"
  /\ draining <=> KindAt(stack, 1) = "drain"
  /\ activeToken # 0 =>
       (runningSerializedHostOperation <=> TopKind(stack) = "scopedhost")

FlagsInv == StackTyped /\ FlagsTyped /\ Shaped(stack) /\ FlagsTold

\* The kind of the top frame, as the actions and as the invariant say it.
LEMMA OnTopIs ==
  ASSUME stack \in Seq(Frame), stack # <<>>
  PROVE  TopKind(stack) = Top.kind
BY DEF TopKind, KindAt, Top

\* Where the gate admits an ingress, an export of its own or a host operation,
\* host code runs directly in a task or a transaction start.
LEMMA IdleIsShallow ==
  ASSUME FlagsInv, stack # <<>>, Top.kind \in HostKinds,
         ~activeExport, activeToken = 0, ~activeHostOperation, ~runningDetachedPost
  PROVE  Len(stack) = 1
<1>1. stack \in Seq(Frame) /\ Shaped(stack) /\ FlagsTold
  BY DEF FlagsInv, StackTyped
<1>2. TopKind(stack) = Top.kind
  BY <1>1, OnTopIs
<1>3. Len(stack) \in Nat \ {0}
  BY <1>1
<1>4. Len(stack) # 2
  <2>1. Len(stack) = 2 => TopKind(stack) = KindAt(stack, 2) /\ KindAt(stack, 2) \in Seconds
    BY <1>1, TopTells
  <2> QED BY <1>1, <1>2, <2>1 DEF FlagsTold, Seconds, HostKinds
<1>5. ~(Len(stack) > 2)
  <2>1. Len(stack) > 2 => KindAt(stack, 2) \in {"ingress", "detached"}
    BY <1>1, TopTells
  <2> QED BY <1>1, <2>1 DEF FlagsTold
<1> QED BY <1>3, <1>4, <1>5, SmallLengths

\* A usable scope is that of the ingress on the stack, with no leaf above it.
LEMMA ScopeIsInside ==
  ASSUME FlagsInv, NEW token \in 1 .. lastToken, ScopeUsable(token), stack # <<>>
  PROVE  /\ Len(stack) > 1 /\ KindAt(stack, 2) = "ingress"
         /\ TopKind(stack) \notin LeafKinds /\ activeToken # 0
<1>1. stack \in Seq(Frame) /\ Shaped(stack) /\ FlagsTold /\ lastToken \in Nat
  BY DEF FlagsInv, StackTyped
<1>2. activeToken # 0 /\ KindAt(stack, 2) = "ingress"
  BY <1>1 DEF ScopeUsable, FlagsTold
<1>3. Len(stack) \in Nat /\ Len(stack) > 1
  BY <1>1, <1>2 DEF KindAt
<1>4. TopKind(stack) # "export" /\ TopKind(stack) # "scopedhost"
  BY <1>1, <1>2 DEF ScopeUsable, FlagsTold
<1>5. TopKind(stack) # "host"
  <2>1. Len(stack) = 2 => TopKind(stack) = KindAt(stack, 2)
    BY <1>1, TopTells
  <2>2. Len(stack) > 2 => TopKind(stack) \in InScope \/ TopKind(stack) = "effect"
    BY <1>1, TopTells
  <2>3. Len(stack) = 2 \/ Len(stack) > 2
    <3>1. Len(stack) \in Nat \ {0} /\ Len(stack) # 1
      <4>1. Len(stack) \in Nat \ {0} /\ (Len(stack) = 1 => KindAt(stack, 2) = "none")
        BY <1>1, TopTells
      <4> QED BY <1>2, <4>1
    <3> QED BY <3>1, SmallLengths
  <2> QED BY <1>2, <2>1, <2>2, <2>3 DEF InScope
<1> QED BY <1>2, <1>3, <1>4, <1>5 DEF LeafKinds

\* Every step keeps the flags true to the stack.
LEMMA FlagsStep == FlagsInv /\ StackInv' /\ [Next]_vars => FlagsInv'
<1> SUFFICES ASSUME FlagsInv, StackInv', [Next]_vars PROVE FlagsInv'
  OBVIOUS
<1>a. /\ stack \in Seq(Frame) /\ Shaped(stack) /\ FlagsTold /\ FlagsTyped
      /\ activeToken \in Nat /\ lastToken \in Nat /\ effects \in Seq(EffectKinds)
  BY DEF FlagsInv, StackTyped
<1>b. StackTyped'
  BY DEF StackInv
<1>same. ASSUME UNCHANGED <<stack, authority, phases, runningSerializedHostOperation>>
         PROVE  FlagsInv'
  BY <1>a, <1>b, <1>same DEF FlagsInv, FlagsTyped, FlagsTold, authority, phases
<1>len. stack # <<>> => /\ Len(stack) \in Nat \ {0} /\ TopKind(stack) = Top.kind
                        /\ KindAt(stack, 1) \in Bases
  BY <1>a, TopTells, OnTopIs
<1>ingress. ASSUME RunVoidIngress, UNCHANGED phases, ~IngressRefused => Len(stack) = 1
            PROVE  FlagsInv'
  <2>1. CASE IngressRefused
    BY <1>ingress, <2>1, <1>same DEF RunVoidIngress, scope
  <2>2. CASE ~IngressRefused
    <3> DEFINE f == ScopeFrame("ingress", lastToken + 1)
    <3>1. f \in Frame /\ f.kind = "ingress" /\ f.kind \in Seconds
      BY <1>a, FramesTyped DEF ScopeFrame, FrameKinds, HostKinds, Seconds
    <3>2. /\ stack' = Append(stack, f) /\ activeToken' = lastToken + 1 /\ activeToken' # 0
          /\ activeExport' = activeExport /\ activeHostOperation' = activeHostOperation
          /\ scopedExportPermit' = scopedExportPermit
          /\ runningSerializedHostOperation' = FALSE /\ ~activeExport /\ ~activeHostOperation
      BY <1>a, <1>ingress, <2>2 DEF RunVoidIngress, Call, IngressRefused
    <3> HIDE DEF f
    <3>3. /\ Shaped(stack') /\ KindAt(stack', 1) = KindAt(stack, 1)
          /\ KindAt(stack', 2) = "ingress" /\ TopKind(stack') = "ingress"
      BY <1>a, <1>ingress, <2>2, <3>1, <3>2, Pushed
    <3>4. TopKind(stack) # "scope" /\ KindAt(stack, 2) # "detached"
      <4>1. stack # <<>> /\ Len(stack) = 1
        BY <1>ingress, <2>2
      <4> QED BY <1>a, <4>1, TopTells DEF Bases
    <3> QED BY <1>a, <1>b, <1>ingress, <3>2, <3>3, <3>4
            DEF FlagsInv, FlagsTyped, FlagsTold, phases
  <2> QED BY <2>1, <2>2
<1>1. CASE RunOrDeferVoidIngress
  <2>1. CASE ShouldDeferVoidIngress
    BY <1>1, <2>1, <1>same DEF RunOrDeferVoidIngress, DeferVoidIngress, scope
  <2>2. CASE ~ShouldDeferVoidIngress
    <3>1. Len(stack) = 1
      BY <1>1, <2>2, IdleIsShallow DEF RunOrDeferVoidIngress, HostCalls, ShouldDeferVoidIngress
    <3> QED BY <1>1, <2>2, <3>1, <1>ingress DEF RunOrDeferVoidIngress
  <2> QED BY <2>1, <2>2
<1>2. CASE RunImmediateVoidIngress
  <2>1. Len(stack) = 1
    BY <1>2, IdleIsShallow DEF RunImmediateVoidIngress, HostCalls, ShouldDeferVoidIngress
  <2> QED BY <1>2, <2>1, <1>ingress DEF RunImmediateVoidIngress
<1>3. CASE DrainNext
  <2>1. stack # <<>> /\ TopKind(stack) = "drain"
    BY <1>3, <1>len DEF DrainNext, OnTop
  <2>2. Len(stack) = 1
    <3>1. ~(Len(stack) = 2)
      BY <1>a, <2>1, TopTells DEF Seconds
    <3>2. ~(Len(stack) > 2)
      BY <1>a, <2>1, TopTells DEF InScope
    <3> QED BY <1>len, <2>1, <3>1, <3>2, SmallLengths
  <2> QED BY <1>3, <2>2, <1>ingress DEF DrainNext
<1>4. CASE InvokeKernelExport
  <2>1. /\ stack # <<>> /\ Top.kind \in HostKinds /\ ~activeExport /\ ~activeHostOperation
        /\ stack' = Append(stack, FrameOf("export")) /\ activeExport'
        /\ scopedExportPermit' = IF activeToken # 0 THEN 0 ELSE scopedExportPermit
        /\ activeToken' = activeToken /\ activeHostOperation' = activeHostOperation
        /\ UNCHANGED <<phases, scope>>
    BY <1>4, <1>a DEF InvokeKernelExport, HostCalls, Call, FlagsTyped
  <2>2. FrameOf("export") \in Frame /\ FrameOf("export").kind = "export"
    BY FramesTyped DEF FrameOf, FrameKinds, HostKinds
  <2>3. CASE activeToken # 0
    <3>1. scopedExportPermit # 0 /\ TopKind(stack) = "scope" /\ KindAt(stack, 2) = "ingress"
      BY <1>4, <1>a, <2>3 DEF InvokeKernelExport, FlagsTold
    <3>2. Len(stack) > 1
      BY <1>a, <3>1 DEF KindAt
    <3>3. /\ Shaped(stack') /\ KindAt(stack', 1) = KindAt(stack, 1)
          /\ KindAt(stack', 2) = KindAt(stack, 2) /\ TopKind(stack') = "export"
      BY <1>a, <2>1, <2>2, <3>1, <3>2, Pushed DEF LeafKinds, InScope
    <3> QED BY <1>a, <1>b, <2>1, <2>3, <3>1, <3>3
            DEF FlagsInv, FlagsTyped, FlagsTold, phases, scope
  <2>4. CASE activeToken = 0
    <3>1. Len(stack) = 1
      BY <1>4, <2>1, <2>4, IdleIsShallow DEF InvokeKernelExport
    <3>2. TopKind(stack) # "scope" /\ KindAt(stack, 2) = "none"
      BY <1>a, <2>1, <3>1, TopTells DEF Bases
    <3>3. /\ Shaped(stack') /\ KindAt(stack', 1) = KindAt(stack, 1)
          /\ KindAt(stack', 2) = "export" /\ TopKind(stack') = "export"
      BY <1>a, <2>1, <2>2, <3>1, Pushed DEF Seconds
    <3> QED BY <1>a, <1>b, <2>1, <2>4, <3>2, <3>3
            DEF FlagsInv, FlagsTyped, FlagsTold, phases, scope
  <2> QED BY <2>3, <2>4
<1>5. CASE RunSerializedHostOperation
  <2>1. /\ stack # <<>> /\ Top.kind \in HostKinds /\ ~activeExport /\ activeToken = 0
        /\ ~activeHostOperation /\ ~runningDetachedPost
        /\ stack' = Append(stack, FrameOf("host")) /\ activeHostOperation'
        /\ activeHostOperation' = TRUE
        /\ UNCHANGED <<activeExport, activeToken, scopedExportPermit, phases, scope>>
    BY <1>5 DEF RunSerializedHostOperation, HostCalls, Call, ShouldDeferVoidIngress
  <2>2. FrameOf("host") \in Frame /\ FrameOf("host").kind = "host"
    BY FramesTyped DEF FrameOf, FrameKinds, HostKinds
  <2>3. Len(stack) = 1
    BY <2>1, IdleIsShallow
  <2>4. TopKind(stack) # "scope" /\ KindAt(stack, 2) = "none" /\ TopKind(stack) # "export"
    BY <1>a, <2>1, <2>3, TopTells DEF Bases
  <2>5. /\ Shaped(stack') /\ KindAt(stack', 1) = KindAt(stack, 1)
        /\ KindAt(stack', 2) = "host" /\ TopKind(stack') = "host"
    BY <1>a, <2>1, <2>2, <2>3, Pushed DEF Seconds
  <2> QED BY <1>a, <1>b, <2>1, <2>4, <2>5
          DEF FlagsInv, FlagsTyped, FlagsTold, phases, scope
<1>6. ASSUME NEW token \in 1 .. lastToken, ScopeInvoke(token)
      PROVE  FlagsInv'
  <2> DEFINE f == ScopeFrame("scope", token)
  <2>1. f \in Frame /\ f.kind = "scope"
    BY <1>a, FramesTyped DEF ScopeFrame, FrameKinds, HostKinds
  <2>2. /\ stack # <<>> /\ ScopeUsable(token) /\ scopedExportPermit' = token
        /\ stack' = Append(stack, f)
        /\ UNCHANGED <<activeExport, activeToken, activeHostOperation, phases, scope>>
    BY <1>6 DEF ScopeInvoke, HostCalls, Call
  <2> HIDE DEF f
  <2>3. /\ Len(stack) > 1 /\ KindAt(stack, 2) = "ingress"
        /\ TopKind(stack) \notin LeafKinds /\ activeToken # 0
    BY <2>2, ScopeIsInside
  <2>4. /\ Shaped(stack') /\ KindAt(stack', 1) = KindAt(stack, 1)
        /\ KindAt(stack', 2) = "ingress" /\ TopKind(stack') = "scope"
    BY <1>a, <2>1, <2>2, <2>3, Pushed DEF InScope
  <2> QED BY <1>a, <1>b, <2>2, <2>3, <2>4
          DEF FlagsInv, FlagsTyped, FlagsTold, phases, scope, LeafKinds
<1>7. ASSUME NEW token \in 1 .. lastToken, ScopeSerializedHostOperation(token)
      PROVE  FlagsInv'
  <2>1. FrameOf("scopedhost") \in Frame /\ FrameOf("scopedhost").kind = "scopedhost"
    BY FramesTyped DEF FrameOf, FrameKinds, HostKinds
  <2>2. /\ stack # <<>> /\ ScopeUsable(token) /\ runningSerializedHostOperation' = TRUE
        /\ stack' = Append(stack, FrameOf("scopedhost"))
        /\ UNCHANGED <<authority, phases>>
    BY <1>7 DEF ScopeSerializedHostOperation, HostCalls, Call
  <2>3. /\ Len(stack) > 1 /\ KindAt(stack, 2) = "ingress"
        /\ TopKind(stack) \notin LeafKinds /\ activeToken # 0
    BY <2>2, ScopeIsInside
  <2>4. /\ Shaped(stack') /\ KindAt(stack', 1) = KindAt(stack, 1)
        /\ KindAt(stack', 2) = "ingress" /\ TopKind(stack') = "scopedhost"
    BY <1>a, <2>1, <2>2, <2>3, Pushed DEF InScope
  <2>5. scopedExportPermit' = 0
    BY <2>2 DEF ScopeUsable, authority
  <2> QED BY <1>a, <1>b, <2>2, <2>3, <2>4, <2>5
          DEF FlagsInv, FlagsTyped, FlagsTold, phases, authority, LeafKinds
<1>8. ASSUME NEW token \in 1 .. lastToken, NEW kind \in EffectKinds, RegisterEffect(token, kind)
      PROVE  FlagsInv'
  BY <1>8, <1>same DEF RegisterEffect
<1>9. CASE FailKernelInstance \/ Throw \/ Catch \/ DrainThrew
  BY <1>9, <1>same DEF FailKernelInstance, Throw, Catch, DrainThrew, scope
<1>depth. ASSUME stack # <<>>
          PROVE  /\ TopKind(stack) \in Bases => Len(stack) = 1
                 /\ TopKind(stack) \in {"host", "ingress", "returned", "detached"} =>
                      Len(stack) = 2 /\ KindAt(stack, 2) = TopKind(stack)
                 /\ TopKind(stack) = "effect" => Len(stack) = 3 /\ KindAt(stack, 2) = "detached"
                 /\ TopKind(stack) \in {"scope", "scopedhost"} =>
                      Len(stack) > 2 /\ KindAt(stack, 2) = "ingress"
                 /\ TopKind(stack) = "export" =>
                      \/ Len(stack) = 2 /\ KindAt(stack, 2) = "export"
                      \/ Len(stack) > 2 /\ KindAt(stack, 2) = "ingress"
  <2>1. Len(stack) = 1 \/ Len(stack) = 2 \/ Len(stack) > 2
    BY <1>len, <1>depth, SmallLengths
  <2>2. Len(stack) = 1 => TopKind(stack) \in Bases
    BY <1>a, <1>depth, TopTells
  <2>3. Len(stack) = 2 => TopKind(stack) = KindAt(stack, 2) /\ KindAt(stack, 2) \in Seconds
    BY <1>a, <1>depth, TopTells
  <2>4. Len(stack) > 2 => \/ KindAt(stack, 2) = "ingress" /\ TopKind(stack) \in InScope
                          \/ /\ KindAt(stack, 2) = "detached" /\ TopKind(stack) = "effect"
                             /\ Len(stack) = 3
    BY <1>a, <1>depth, TopTells
  <2> QED BY <2>1, <2>2, <2>3, <2>4, Zenon DEF Bases, Seconds, InScope
<1>pop. ASSUME stack # <<>>, NEW t, t = Callers
        PROVE  /\ Shaped(t) /\ t \in Seq(Frame) /\ Len(t) = Len(stack) - 1
               /\ Len(stack) = 1 => KindAt(t, 1) = "none" /\ KindAt(t, 2) = "none"
                                    /\ TopKind(t) = "none"
               /\ Len(stack) = 2 => /\ KindAt(t, 1) = KindAt(stack, 1) /\ KindAt(t, 2) = "none"
                                    /\ TopKind(t) = KindAt(stack, 1)
               /\ Len(stack) > 2 =>
                    /\ KindAt(t, 1) = KindAt(stack, 1) /\ KindAt(t, 2) = KindAt(stack, 2)
                    /\ KindAt(stack, 2) = "ingress" => TopKind(t) \in {"ingress", "scope"}
                    /\ KindAt(stack, 2) = "detached" => TopKind(t) = "detached"
  BY <1>a, <1>pop, Popped DEF Callers
<1>become. ASSUME stack # <<>>, Len(stack) = 2, NEW f \in Frame, f.kind \in Seconds, Become(f)
           PROVE  /\ Shaped(stack') /\ KindAt(stack', 1) = KindAt(stack, 1)
                  /\ KindAt(stack', 2) = f.kind /\ TopKind(stack') = f.kind
  <2>1. /\ Shaped(Callers) /\ Callers \in Seq(Frame) /\ Len(Callers) = 1
        /\ KindAt(Callers, 1) = KindAt(stack, 1)
    BY <1>pop, <1>become
  <2> QED BY <2>1, <1>become, Pushed DEF Become
<1>10. CASE EndTask
  <2>1. stack # <<>> /\ TopKind(stack) = "task" /\ stack' = Callers /\ UNCHANGED <<authority, phases, scope>>
    BY <1>10, <1>len DEF EndTask, OnTop, Leave
  <2>2. Len(stack) = 1 /\ KindAt(stack, 1) = "task" /\ KindAt(stack, 2) = "none"
    BY <1>a, <2>1, <1>depth, TopTells DEF Bases
  <2>3. Shaped(stack') /\ KindAt(stack', 1) = "none" /\ KindAt(stack', 2) = "none" /\ TopKind(stack') = "none"
    BY <2>1, <2>2, <1>pop
  <2> QED BY <1>a, <1>b, <2>1, <2>2, <2>3
          DEF FlagsInv, FlagsTyped, FlagsTold, authority, phases, scope
<1>11. CASE EndExport
  <2>1. /\ stack # <<>> /\ TopKind(stack) = "export" /\ stack' = Callers /\ activeExport' = FALSE
        /\ UNCHANGED <<activeToken, activeHostOperation, scopedExportPermit, phases, scope>>
    BY <1>11, <1>len DEF EndExport, OnTop, Leave
  <2>2. CASE Len(stack) = 2 /\ KindAt(stack, 2) = "export"
    <3>1. /\ Shaped(stack') /\ KindAt(stack', 1) = KindAt(stack, 1)
          /\ KindAt(stack', 2) = "none" /\ TopKind(stack') \in Bases
      BY <2>1, <2>2, <1>pop, <1>len
    <3> QED BY <1>a, <1>b, <2>1, <2>2, <3>1
            DEF FlagsInv, FlagsTyped, FlagsTold, phases, scope, Bases
  <2>3. CASE Len(stack) > 2 /\ KindAt(stack, 2) = "ingress"
    <3>1. /\ Shaped(stack') /\ KindAt(stack', 1) = KindAt(stack, 1)
          /\ KindAt(stack', 2) = "ingress" /\ TopKind(stack') \in {"ingress", "scope"}
      BY <2>1, <2>3, <1>pop
    <3> QED BY <1>a, <1>b, <2>1, <2>3, <3>1
            DEF FlagsInv, FlagsTyped, FlagsTold, phases, scope
  <2> QED BY <2>1, <2>2, <2>3, <1>depth
<1>12. ASSUME NEW thenable \in BOOLEAN, EndHostOperation(thenable)
       PROVE  FlagsInv'
  <2>1. /\ stack # <<>> /\ TopKind(stack) = "host" /\ stack' = Callers
        /\ activeHostOperation' = FALSE
        /\ UNCHANGED <<activeExport, activeToken, scopedExportPermit, phases, scope>>
    BY <1>12, <1>len DEF EndHostOperation, OnTop, Leave
  <2>2. Len(stack) = 2 /\ KindAt(stack, 2) = "host"
    BY <2>1, <1>depth
  <2>3. /\ Shaped(stack') /\ KindAt(stack', 1) = KindAt(stack, 1)
        /\ KindAt(stack', 2) = "none" /\ TopKind(stack') \in Bases
    BY <2>1, <2>2, <1>pop, <1>len
  <2> QED BY <1>a, <1>b, <2>1, <2>2, <2>3
          DEF FlagsInv, FlagsTyped, FlagsTold, phases, scope, Bases
<1>13. ASSUME NEW thenable \in BOOLEAN, EndScopedHostOperation(thenable)
       PROVE  FlagsInv'
  <2>1. /\ stack # <<>> /\ TopKind(stack) = "scopedhost" /\ stack' = Callers
        /\ runningSerializedHostOperation' = FALSE /\ UNCHANGED <<authority, phases>>
    BY <1>13, <1>len DEF EndScopedHostOperation, OnTop, Leave
  <2>2. Len(stack) > 2 /\ KindAt(stack, 2) = "ingress"
    BY <2>1, <1>depth
  <2>3. /\ Shaped(stack') /\ KindAt(stack', 1) = KindAt(stack, 1)
        /\ KindAt(stack', 2) = "ingress" /\ TopKind(stack') \in {"ingress", "scope"}
    BY <2>1, <2>2, <1>pop
  <2> QED BY <1>a, <1>b, <2>1, <2>2, <2>3
          DEF FlagsInv, FlagsTyped, FlagsTold, phases, authority
<1>14. CASE EndScope
  <2>1. /\ stack # <<>> /\ TopKind(stack) = "scope" /\ stack' = Callers
        /\ scopedExportPermit' = 0
        /\ UNCHANGED <<activeExport, activeToken, activeHostOperation, phases, scope>>
    BY <1>14, <1>len DEF EndScope, OnTop, Leave
  <2>2. Len(stack) > 2 /\ KindAt(stack, 2) = "ingress"
    BY <2>1, <1>depth
  <2>3. /\ Shaped(stack') /\ KindAt(stack', 1) = KindAt(stack, 1)
        /\ KindAt(stack', 2) = "ingress" /\ TopKind(stack') \in {"ingress", "scope"}
    BY <2>1, <2>2, <1>pop
  <2> QED BY <1>a, <1>b, <2>1, <2>2, <2>3
          DEF FlagsInv, FlagsTyped, FlagsTold, phases, scope
<1>15. CASE EndIngress
  <2>1. /\ stack # <<>> /\ TopKind(stack) = "ingress"
        /\ activeToken' = 0 /\ scopedExportPermit' = 0
        /\ UNCHANGED <<activeExport, activeHostOperation, phases, scope>>
        /\ stack' = Callers \/ Become(LoopFrame("returned", effects))
    BY <1>15, <1>len DEF EndIngress, OnTop, Leave
  <2>2. Len(stack) = 2 /\ KindAt(stack, 2) = "ingress"
    BY <2>1, <1>depth
  <2>3. CASE stack' = Callers
    <3>1. /\ Shaped(stack') /\ KindAt(stack', 1) = KindAt(stack, 1)
          /\ KindAt(stack', 2) = "none" /\ TopKind(stack') \in Bases
      BY <2>1, <2>2, <2>3, <1>pop, <1>len
    <3> QED BY <1>a, <1>b, <2>1, <2>2, <3>1
            DEF FlagsInv, FlagsTyped, FlagsTold, phases, scope, Bases
  <2>4. CASE Become(LoopFrame("returned", effects))
    <3>1. /\ LoopFrame("returned", effects) \in Frame
          /\ LoopFrame("returned", effects).kind = "returned"
      BY <1>a, FramesTyped DEF LoopFrame, FrameKinds
    <3>2. /\ Shaped(stack') /\ KindAt(stack', 1) = KindAt(stack, 1)
          /\ KindAt(stack', 2) = "returned" /\ TopKind(stack') = "returned"
      BY <2>1, <2>2, <2>4, <3>1, <1>become DEF Seconds
    <3> QED BY <1>a, <1>b, <2>1, <2>2, <3>2
            DEF FlagsInv, FlagsTyped, FlagsTold, phases, scope
  <2> QED BY <2>1, <2>3, <2>4
<1>16. CASE EndTransactionStart \/ EndDrain
  <2>1. /\ stack # <<>> /\ TopKind(stack) \in {"txn", "drain"} /\ stack' = Callers
        /\ UNCHANGED <<authority, scope, runningDetachedPost>>
    BY <1>16, <1>len DEF EndTransactionStart, EndDrain, OnTop, Leave
  <2>2. Len(stack) = 1 /\ KindAt(stack, 1) = TopKind(stack) /\ KindAt(stack, 2) = "none"
    BY <1>a, <2>1, <1>depth, TopTells DEF Bases
  <2>3. Shaped(stack') /\ KindAt(stack', 1) = "none" /\ KindAt(stack', 2) = "none" /\ TopKind(stack') = "none"
    BY <2>1, <2>2, <1>pop
  <2>4. runningTransactionStart' = FALSE /\ draining' = FALSE
    BY <1>16, <1>a, <1>len, <2>2
       DEF EndTransactionStart, EndDrain, OnTop, FlagsTold, FlagsTyped
  <2> QED BY <1>a, <1>b, <2>1, <2>2, <2>3, <2>4
          DEF FlagsInv, FlagsTyped, FlagsTold, authority, scope
<1>17. CASE RunDetachedEffects
  <2>1. stack # <<>> /\ TopKind(stack) = "returned" /\ Len(stack) = 2 /\ KindAt(stack, 2) = "returned"
    BY <1>17, <1>len, <1>depth DEF RunDetachedEffects, OnTop
  <2>2. ~runningDetachedPost
    BY <1>a, <2>1 DEF FlagsTold
  <2>3. /\ runningDetachedPost' = TRUE /\ Become(LoopFrame("detached", Top.todo))
        /\ UNCHANGED <<authority, draining, runningTransactionStart, scope>>
    BY <1>17, <2>2 DEF RunDetachedEffects
  <2>4. /\ LoopFrame("detached", Top.todo) \in Frame
        /\ LoopFrame("detached", Top.todo).kind = "detached"
    <3>1. Top \in Frame
      BY <1>a, <1>len, <2>1 DEF Top
    <3> QED BY <3>1, FramesTyped DEF LoopFrame, FrameKinds, Frame
  <2>5. /\ Shaped(stack') /\ KindAt(stack', 1) = KindAt(stack, 1)
        /\ KindAt(stack', 2) = "detached" /\ TopKind(stack') = "detached"
    BY <2>1, <2>3, <2>4, <1>become DEF Seconds
  <2> QED BY <1>a, <1>b, <2>1, <2>3, <2>5
          DEF FlagsInv, FlagsTyped, FlagsTold, authority, scope
<1>18. CASE EffectsOver \/ MisplacedTransactionStart
  <2>1. /\ stack # <<>> /\ TopKind(stack) = "detached" /\ stack' = Callers
        /\ runningDetachedPost' = FALSE
        /\ UNCHANGED <<authority, draining, runningTransactionStart, scope>>
    BY <1>18, <1>len DEF EffectsOver, MisplacedTransactionStart, LeaveDetached, OnTop, Leave
  <2>2. Len(stack) = 2 /\ KindAt(stack, 2) = "detached"
    BY <2>1, <1>depth
  <2>3. /\ Shaped(stack') /\ KindAt(stack', 1) = KindAt(stack, 1)
        /\ KindAt(stack', 2) = "none" /\ TopKind(stack') \in Bases
    BY <2>1, <2>2, <1>pop, <1>len
  <2> QED BY <1>a, <1>b, <2>1, <2>2, <2>3
          DEF FlagsInv, FlagsTyped, FlagsTold, authority, scope, Bases
<1>19. CASE RunEffect
  <2> DEFINE f == LoopFrame("detached", Tail(Top.todo))
             e == LoopFrame("effect", <<Head(Top.todo)>>)
  <2>1. /\ stack # <<>> /\ TopKind(stack) = "detached" /\ stack' = Callers \o <<f, e>>
        /\ UNCHANGED <<authority, phases, scope>>
    BY <1>19, <1>len DEF RunEffect, OnTop
  <2>2. Len(stack) = 2 /\ KindAt(stack, 2) = "detached"
    BY <2>1, <1>depth
  <2>3. f.kind = "detached" /\ e.kind = "effect" /\ f \in Frame /\ e \in Frame
    <3>1. Top \in Frame /\ Top.todo # <<>> /\ Top.todo \in Seq(EffectKinds)
      <4>1. Top \in Frame
        BY <1>a, <1>len, <2>1 DEF Top
      <4> QED BY <1>19, <4>1 DEF Frame, RunEffect
    <3>2. Tail(Top.todo) \in Seq(EffectKinds) /\ <<Head(Top.todo)>> \in Seq(EffectKinds)
      BY <3>1
    <3> QED BY <3>2, FramesTyped DEF LoopFrame, FrameKinds, HostKinds
  <2> HIDE DEF f, e
  <2>4. /\ Callers \in Seq(Frame) /\ Len(Callers) = 1 /\ KindAt(Callers, 1) = KindAt(stack, 1)
        /\ Callers[1].kind = KindAt(stack, 1) /\ KindAt(stack, 1) \in Bases
    BY <2>1, <2>2, <1>pop, <1>len DEF KindAt
  <2>5. Len(stack') = 3 /\ stack'[1] = Callers[1] /\ stack'[2] = f /\ stack'[3] = e
    <3>1. <<f, e>> \in Seq(Frame) /\ Len(<<f, e>>) = 2 /\ <<f, e>>[1] = f /\ <<f, e>>[2] = e
      BY <2>3
    <3>2. /\ Len(stack') = Len(Callers) + 2
          /\ \A i \in 1 .. Len(Callers) : stack'[i] = Callers[i]
          /\ stack'[Len(Callers) + 1] = f /\ stack'[Len(Callers) + 2] = e
      <4>1. Callers \in Seq(Frame) /\ stack' = Callers \o <<f, e>>
        BY <2>1, <2>4
      <4> QED BY <3>1, <4>1
    <3> QED BY <2>4, <3>2
  <2>6. /\ KindAt(stack', 1) = KindAt(stack, 1) /\ KindAt(stack', 2) = "detached"
        /\ TopKind(stack') = "effect"
    BY <2>3, <2>4, <2>5 DEF KindAt, TopKind
  <2>7. Shaped(stack')
    <3>1. \A i \in 3 .. 3 : i = 3
      OBVIOUS
    <3>2. \A i \in 1 .. 3 - 1 : i = 1 \/ i = 2
      OBVIOUS
    <3> QED BY <2>3, <2>4, <2>5, <3>1, <3>2 DEF Shaped, Bases, Seconds, LeafKinds
  <2> QED BY <1>a, <1>b, <2>1, <2>2, <2>6, <2>7
          DEF FlagsInv, FlagsTyped, FlagsTold, authority, phases, scope
<1>20. CASE QueueTransactionStart
  <2>1. /\ stack # <<>> /\ TopKind(stack) = "detached" /\ Become(LoopFrame("detached", <<>>))
        /\ UNCHANGED <<authority, phases, scope>>
    BY <1>20, <1>len DEF QueueTransactionStart, OnTop
  <2>2. Len(stack) = 2 /\ KindAt(stack, 2) = "detached"
    BY <2>1, <1>depth
  <2>3. /\ LoopFrame("detached", <<>>) \in Frame
        /\ LoopFrame("detached", <<>>).kind = "detached"
    <3>1. <<>> \in Seq(EffectKinds)
      OBVIOUS
    <3> QED BY <3>1, FramesTyped DEF LoopFrame, FrameKinds
  <2>4. /\ Shaped(stack') /\ KindAt(stack', 1) = KindAt(stack, 1)
        /\ KindAt(stack', 2) = "detached" /\ TopKind(stack') = "detached"
    BY <2>1, <2>2, <2>3, <1>become DEF Seconds
  <2> QED BY <1>a, <1>b, <2>1, <2>2, <2>4
          DEF FlagsInv, FlagsTyped, FlagsTold, authority, phases, scope
<1>21. CASE EndEffect \/ EndObserverThrowing
  <2>1. /\ stack # <<>> /\ TopKind(stack) = "effect" /\ stack' = Callers
        /\ UNCHANGED <<authority, phases, scope>>
    BY <1>21, <1>len DEF EndEffect, EndObserverThrowing, OnTop, Leave
  <2>2. Len(stack) = 3 /\ Len(stack) > 2 /\ KindAt(stack, 2) = "detached"
    BY <2>1, <1>depth
  <2>3. /\ Shaped(stack') /\ KindAt(stack', 1) = KindAt(stack, 1)
        /\ KindAt(stack', 2) = "detached" /\ TopKind(stack') = "detached"
    BY <2>1, <2>2, <1>pop
  <2> QED BY <1>a, <1>b, <2>1, <2>2, <2>3
          DEF FlagsInv, FlagsTyped, FlagsTold, authority, phases, scope
<1>22. CASE EndProtocolThrowing
  <2>1. /\ stack # <<>> /\ TopKind(stack) = "effect" /\ stack' = SubSeq(stack, 1, Len(stack) - 2)
        /\ runningDetachedPost' = FALSE
        /\ UNCHANGED <<authority, draining, runningTransactionStart, scope>>
    BY <1>22, <1>len DEF EndProtocolThrowing, LeaveDetached, OnTop
  <2>2. Len(stack) = 3 /\ KindAt(stack, 2) = "detached" /\ KindAt(stack, 1) = stack[1].kind
        /\ KindAt(stack, 1) \in Bases
    BY <1>a, <2>1, <1>depth, TopTells
  <2>3. Len(stack') = 1 /\ stack'[1] = stack[1]
    <3>1. stack' = SubSeq(stack, 1, 1) /\ 1 \in 0 .. Len(stack)
      BY <2>1, <2>2
    <3> QED BY <1>a, <3>1, PrefixOf
  <2>4. /\ KindAt(stack', 1) = KindAt(stack, 1) /\ KindAt(stack', 2) = "none"
        /\ TopKind(stack') = KindAt(stack, 1)
    BY <2>2, <2>3 DEF KindAt, TopKind
  <2>5. Shaped(stack')
    BY <2>2, <2>3 DEF Shaped
  <2> QED BY <1>a, <1>b, <2>1, <2>2, <2>4, <2>5
          DEF FlagsInv, FlagsTyped, FlagsTold, authority, scope, Bases
<1>start. ASSUME NEW kind \in Bases, stack = <<>>, Call(FrameOf(kind))
          PROVE  /\ Shaped(stack') /\ KindAt(stack', 1) = kind /\ KindAt(stack', 2) = "none"
                 /\ TopKind(stack') = kind
                 /\ KindAt(stack, 1) = "none" /\ KindAt(stack, 2) = "none" /\ TopKind(stack) = "none"
  <2>1. FrameOf(kind) \in Frame /\ FrameOf(kind).kind = kind
    BY <1>start, FramesTyped DEF FrameOf, FrameKinds, HostKinds, Bases
  <2>2. KindAt(stack, 1) = "none" /\ KindAt(stack, 2) = "none" /\ TopKind(stack) = "none"
    BY <1>start DEF KindAt, TopKind
  <2>3. stack' = Append(stack, FrameOf(kind)) /\ Len(stack) # 1
    BY <1>start DEF Call
  <2> QED BY <1>a, <1>start, <2>1, <2>2, <2>3, Pushed
<1>23. CASE StartTask
  <2>1. /\ Shaped(stack') /\ KindAt(stack', 1) = "task" /\ KindAt(stack', 2) = "none"
        /\ TopKind(stack') = "task"
        /\ KindAt(stack, 1) = "none" /\ KindAt(stack, 2) = "none" /\ TopKind(stack) = "none"
    BY <1>23, <1>start DEF StartTask, Bases
  <2> QED BY <1>a, <1>b, <1>23, <2>1
          DEF StartTask, FlagsInv, FlagsTyped, FlagsTold, authority, phases, scope
<1>24. CASE RunProtocolTransactionStart
  <2>1. CASE Fatal
    BY <1>24, <2>1, <1>same DEF RunProtocolTransactionStart, phases, scope
  <2>2. CASE ~Fatal
    <3>1. /\ stack = <<>> /\ runningTransactionStart' = TRUE /\ Call(FrameOf("txn"))
          /\ UNCHANGED <<authority, draining, runningDetachedPost, scope>>
      BY <1>24, <2>2 DEF RunProtocolTransactionStart
    <3>2. /\ Shaped(stack') /\ KindAt(stack', 1) = "txn" /\ KindAt(stack', 2) = "none"
          /\ TopKind(stack') = "txn"
          /\ KindAt(stack, 1) = "none" /\ KindAt(stack, 2) = "none" /\ TopKind(stack) = "none"
      BY <3>1, <1>start DEF Bases
    <3> QED BY <1>a, <1>b, <3>1, <3>2
            DEF FlagsInv, FlagsTyped, FlagsTold, authority, scope
  <2> QED BY <2>1, <2>2
<1>25. CASE StartDrain
  <2>1. CASE UNCHANGED <<stack, draining>>
    BY <1>25, <2>1, <1>same DEF StartDrain, phases, scope
  <2>2. CASE draining' = TRUE /\ Call(FrameOf("drain"))
    <3>1. /\ stack = <<>>
          /\ UNCHANGED <<authority, runningDetachedPost, runningTransactionStart, scope>>
      BY <1>25 DEF StartDrain
    <3>2. /\ Shaped(stack') /\ KindAt(stack', 1) = "drain" /\ KindAt(stack', 2) = "none"
          /\ TopKind(stack') = "drain"
          /\ KindAt(stack, 1) = "none" /\ KindAt(stack, 2) = "none" /\ TopKind(stack) = "none"
      BY <2>2, <3>1, <1>start DEF Bases
    <3> QED BY <1>a, <1>b, <2>2, <3>1, <3>2
            DEF FlagsInv, FlagsTyped, FlagsTold, authority, scope
  <2> QED BY <1>25, <2>1, <2>2 DEF StartDrain
<1>26. CASE UNCHANGED vars
  BY <1>26, <1>same DEF vars, scope
<1> QED
  BY <1>1, <1>2, <1>3, <1>4, <1>5, <1>6, <1>7, <1>8, <1>9, <1>10, <1>11, <1>12, <1>13,
     <1>14, <1>15, <1>16, <1>17, <1>18, <1>19, <1>20, <1>21, <1>22, <1>23, <1>24, <1>25, <1>26
     DEF Next, HostCall, HostReturn, GateLoop, RunMicrotask

\* The flags tell the stack in every state.
LEMMA FlagsInvariant == Spec => []FlagsInv
<1>1. Init => FlagsInv /\ StackInv
  <2> SUFFICES ASSUME Init PROVE FlagsInv /\ StackInv
    OBVIOUS
  <2>1. StackTyped /\ KernelNeverReentered /\ LeafOwnsGate /\ FlagsTyped
    <3>1. stack = <<>> /\ stack \in Seq(Frame) /\ effects \in Seq(EffectKinds) /\ Len(stack) = 0
      BY DEF Init
    <3>2. StackTyped /\ FlagsTyped
      BY <3>1 DEF Init, StackTyped, FlagsTyped
    <3>3. KernelNeverReentered /\ LeafOwnsGate
      BY <3>1 DEF KernelNeverReentered, LeafOwnsGate, OnTop
    <3> QED BY <3>2, <3>3
  <2>2. Shaped(stack) /\ KindAt(stack, 1) = "none" /\ KindAt(stack, 2) = "none" /\ TopKind(stack) = "none"
    BY DEF Init, Shaped, KindAt, TopKind
  <2> QED BY <2>1, <2>2 DEF Init, FlagsInv, StackInv, FlagsTold
<1> QED BY <1>1, StackStep, FlagsStep, PTL DEF Spec

\* Where each kind of frame can be.
LEMMA Places ==
  ASSUME NEW s \in Seq(Frame), Shaped(s), NEW i \in DOMAIN s
  PROVE  /\ s[i].kind \in Bases => i = 1
         /\ s[i].kind \in {"ingress", "returned", "detached"} => i = 2
         /\ s[i].kind \in LeafKinds => i = Len(s)
         /\ i = 1 \/ i = 2 \/ i \in 3 .. Len(s)
<1>1. Len(s) \in Nat /\ i \in 1 .. Len(s)
  OBVIOUS
<1>2. i = 1 \/ i = 2 \/ i \in 3 .. Len(s)
  BY <1>1
<1>3. i = 1 => s[i].kind \in Bases
  BY <1>1 DEF Shaped
<1>4. i = 2 => s[i].kind \in Seconds
  BY <1>1 DEF Shaped
<1>5. i \in 3 .. Len(s) => s[i].kind \in InScope \/ s[i].kind = "effect"
  BY <1>1 DEF Shaped
<1>6. s[i].kind \in LeafKinds => i = Len(s)
  <2>1. i = Len(s) \/ i \in 1 .. Len(s) - 1
    BY <1>1
  <2> QED BY <2>1 DEF Shaped
<1> QED BY <1>2, <1>3, <1>4, <1>5, <1>6, Zenon DEF Bases, Seconds, InScope

\* The flags, as FlagsTellTheStack says them of the stack.
LEMMA FlagsAreRunning ==
  ASSUME FlagsInv
  PROVE  /\ activeExport <=> Running("export")
         /\ activeHostOperation <=> Running("host")
         /\ activeToken # 0 <=> Running("ingress")
         /\ scopedExportPermit # 0 => OnTop("scope")
         /\ runningDetachedPost <=> Running("detached")
         /\ runningTransactionStart <=> Running("txn")
         /\ draining <=> Running("drain")
         /\ activeToken # 0 => (runningSerializedHostOperation <=> Running("scopedhost"))
<1>1. stack \in Seq(Frame) /\ Shaped(stack) /\ FlagsTold /\ FlagsTyped
  BY DEF FlagsInv, StackTyped
<1>2. ASSUME NEW n \in {1, 2}, NEW k, k # "none",
             \A i \in DOMAIN stack : stack[i].kind = k => i = n
      PROVE  Running(k) <=> KindAt(stack, n) = k
  BY <1>1, <1>2 DEF Running, KindAt
<1>3. ASSUME NEW k \in LeafKinds
      PROVE  Running(k) <=> TopKind(stack) = k
  <2>1. \A i \in DOMAIN stack : stack[i].kind = k => i = Len(stack)
    BY <1>1, Places
  <2>2. k # "none"
    BY DEF LeafKinds
  <2> QED BY <1>1, <2>1, <2>2 DEF Running, KindAt, TopKind
<1>4. /\ Running("ingress") <=> KindAt(stack, 2) = "ingress"
      /\ Running("detached") <=> KindAt(stack, 2) = "detached"
  BY <1>1, <1>2, Places
<1>5. /\ Running("txn") <=> KindAt(stack, 1) = "txn"
      /\ Running("drain") <=> KindAt(stack, 1) = "drain"
  BY <1>1, <1>2, Places DEF Bases
<1>6. /\ Running("export") <=> TopKind(stack) = "export"
      /\ Running("host") <=> TopKind(stack) = "host"
      /\ Running("scopedhost") <=> TopKind(stack) = "scopedhost"
  BY <1>3 DEF LeafKinds
<1>7. TopKind(stack) = "scope" => OnTop("scope")
  <2>1. TopKind(stack) = "scope" => stack # <<>>
    BY DEF TopKind, KindAt
  <2> QED BY <1>1, <2>1, OnTopIs DEF OnTop
<1> QED BY <1>1, <1>4, <1>5, <1>6, <1>7 DEF FlagsTold

\* No ingress is on the stack while the gate's loops or the event loop run.
LEMMA NoTokenThere ==
  ASSUME FlagsInv, stack = <<>> \/ OnTop("txn") \/ OnTop("detached") \/ OnTop("drain")
  PROVE  activeToken = 0
<1>1. stack \in Seq(Frame) /\ Shaped(stack) /\ FlagsTold
  BY DEF FlagsInv, StackTyped
<1> SUFFICES KindAt(stack, 2) # "ingress"
  BY <1>1 DEF FlagsTold
<1>2. CASE stack = <<>>
  BY <1>2 DEF KindAt
<1>3. CASE stack # <<>> /\ Top.kind \in {"txn", "detached", "drain"}
  <2>1. TopKind(stack) \in {"txn", "detached", "drain"}
    BY <1>1, <1>3, OnTopIs
  <2>2. Len(stack) = 1 \/ Len(stack) = 2 \/ Len(stack) > 2
    <3>1. Len(stack) \in Nat \ {0}
      BY <1>1, <1>3, TopTells
    <3> QED BY <3>1, SmallLengths
  <2>3. Len(stack) = 1 => KindAt(stack, 2) = "none"
    BY <1>1, <1>3, TopTells
  <2>4. Len(stack) = 2 => KindAt(stack, 2) = TopKind(stack)
    BY <1>1, <1>3, TopTells
  <2>5. Len(stack) > 2 => TopKind(stack) \in InScope \/ TopKind(stack) = "effect"
    BY <1>1, <1>3, TopTells
  <2> QED BY <2>1, <2>2, <2>3, <2>4, <2>5 DEF InScope
<1> QED BY <1>2, <1>3 DEF OnTop

-----------------------------------------------------------------------------
(* The event loop: what the gate has queued there, and its own count of it *)

Txns(m) == {k \in DOMAIN m : m[k] = "txn"}
Drains(m) == {k \in DOMAIN m : m[k] = "drain"}
Microtask == {"drain", "txn"}

\* Finitely many transaction starts are queued.
LEMMA TxnsFinite ==
  ASSUME NEW m \in Seq(Microtask)
  PROVE  IsFiniteSet(Txns(m)) /\ Cardinality(Txns(m)) \in Nat
<1>1. IsFiniteSet(1 .. Len(m)) /\ Txns(m) \in SUBSET (1 .. Len(m))
  BY FS_Interval DEF Txns
<1>2. IsFiniteSet(Txns(m))
  BY <1>1, FS_Subset
<1> QED BY <1>2, FS_CardinalityType

\* What a microtask that is queued adds to the drains and to the starts.
LEMMA MicrotaskQueued ==
  ASSUME NEW m \in Seq(Microtask)
  PROVE  /\ Drains(Append(m, "drain")) = Drains(m) \cup {Len(m) + 1}
         /\ Drains(Append(m, "txn")) = Drains(m)
         /\ Cardinality(Txns(Append(m, "drain"))) = Cardinality(Txns(m))
         /\ Cardinality(Txns(Append(m, "txn"))) = Cardinality(Txns(m)) + 1
<1>1. ASSUME NEW x \in Microtask
      PROVE  /\ DOMAIN Append(m, x) = 1 .. Len(m) + 1 /\ Append(m, x)[Len(m) + 1] = x
             /\ \A k \in 1 .. Len(m) : Append(m, x)[k] = m[k]
             /\ DOMAIN m = 1 .. Len(m) /\ Len(m) \in Nat
  BY <1>1
<1>2. "drain" \in Microtask /\ "txn" \in Microtask
  BY DEF Microtask
<1>3. Drains(Append(m, "drain")) = Drains(m) \cup {Len(m) + 1}
  BY <1>1, <1>2 DEF Drains
<1>4. Drains(Append(m, "txn")) = Drains(m)
  BY <1>1, <1>2 DEF Drains
<1>5. Txns(Append(m, "drain")) = Txns(m)
  BY <1>1, <1>2 DEF Txns
<1>6. Txns(Append(m, "txn")) = Txns(m) \cup {Len(m) + 1} /\ Len(m) + 1 \notin Txns(m)
  BY <1>1, <1>2 DEF Txns
<1>7. Cardinality(Txns(m) \cup {Len(m) + 1}) = Cardinality(Txns(m)) + 1
  BY <1>6, TxnsFinite, FS_AddElement
<1> QED BY <1>3, <1>4, <1>5, <1>6, <1>7

\* What a microtask that is taken removes from the drains and the starts.
LEMMA MicrotaskTaken ==
  ASSUME NEW m \in Seq(Microtask), m # <<>>
  PROVE  /\ \A k \in Drains(Tail(m)) : k + 1 \in Drains(m)
         /\ \A k \in Drains(m) \ {1} : k - 1 \in Drains(Tail(m))
         /\ Drains(Tail(m)) \subseteq Nat /\ Drains(m) \subseteq Nat
         /\ 1 \in Drains(m) <=> Head(m) = "drain"
         /\ Head(m) = "drain" => Cardinality(Txns(Tail(m))) = Cardinality(Txns(m))
         /\ Head(m) = "txn" => Cardinality(Txns(Tail(m))) = Cardinality(Txns(m)) - 1
<1>1. /\ Len(m) \in Nat \ {0} /\ DOMAIN m = 1 .. Len(m) /\ Head(m) = m[1]
      /\ Tail(m) \in Seq(Microtask) /\ Len(Tail(m)) = Len(m) - 1
      /\ DOMAIN Tail(m) = 1 .. Len(m) - 1
      /\ \A k \in 1 .. Len(m) - 1 : Tail(m)[k] = m[k + 1]
  OBVIOUS
<1>2. /\ \A k \in Drains(Tail(m)) : k + 1 \in Drains(m)
      /\ \A k \in Drains(m) \ {1} : k - 1 \in Drains(Tail(m))
      /\ Drains(Tail(m)) \subseteq Nat /\ Drains(m) \subseteq Nat
      /\ 1 \in Drains(m) <=> Head(m) = "drain"
  <2>1. \A k \in Drains(Tail(m)) : k + 1 \in Drains(m)
    BY <1>1 DEF Drains
  <2>2. ASSUME NEW k \in Drains(m) \ {1} PROVE k - 1 \in Drains(Tail(m))
    <3>1. k - 1 \in 1 .. Len(m) - 1 /\ (k - 1) + 1 = k
      BY <1>1, <2>2 DEF Drains
    <3> QED BY <1>1, <2>2, <3>1 DEF Drains
  <2>3. Drains(Tail(m)) \subseteq Nat /\ Drains(m) \subseteq Nat
    BY <1>1 DEF Drains
  <2>4. 1 \in Drains(m) <=> Head(m) = "drain"
    BY <1>1 DEF Drains
  <2> QED BY <2>1, <2>2, <2>3, <2>4
<1>3. Cardinality(Txns(Tail(m))) = Cardinality(Txns(m) \ {1})
  <2> DEFINE S == Txns(Tail(m))
             T == Txns(m) \ {1}
             f == [k \in S |-> k + 1]
  <2>1. f \in [S -> T]
    BY <1>1 DEF Txns
  <2>2. \A j, k \in S : f[j] = f[k] => j = k
    BY <1>1 DEF Txns
  <2>3. ASSUME NEW t \in T PROVE \E k \in S : f[k] = t
    <3>1. t - 1 \in 1 .. Len(m) - 1 /\ (t - 1) + 1 = t /\ m[t] = "txn"
      BY <1>1, <2>3 DEF Txns
    <3>2. t - 1 \in S
      BY <1>1, <3>1 DEF Txns
    <3> QED BY <3>1, <3>2
  <2> HIDE DEF S, T, f
  <2>4. ExistsBijection(S, T)
    BY <2>1, <2>2, <2>3, Fun_IsBij DEF ExistsBijection
  <2>5. IsFiniteSet(S)
    BY <1>1, TxnsFinite DEF S
  <2> QED BY <2>4, <2>5, FS_Bijection DEF S, T
<1>4. /\ Head(m) = "drain" => 1 \notin Txns(m)
      /\ Head(m) = "txn" => 1 \in Txns(m)
  BY <1>1 DEF Txns
<1>5. /\ 1 \in Txns(m) => Cardinality(Txns(m) \ {1}) = Cardinality(Txns(m)) - 1
      /\ 1 \notin Txns(m) => Cardinality(Txns(m) \ {1}) = Cardinality(Txns(m))
  BY TxnsFinite, FS_RemoveElement
<1> QED BY <1>2, <1>3, <1>4, <1>5

LoopTyped ==
  /\ microtasks \in Seq(Microtask)
  /\ drainScheduled \in BOOLEAN
  /\ pendingTransactionStarts \in Nat

\* The gate's own account of the microtasks is exact, there is never a second
\* drain, and a pending transaction start lets only a transaction start run
\* ingress.
LoopTold ==
  /\ drainScheduled <=> Drains(microtasks) # {}
  /\ \A j, k \in Drains(microtasks) : j = k
  /\ pendingTransactionStarts = Cardinality(Txns(microtasks))
  /\ pendingTransactionStarts > 0 /\ activeToken # 0 => runningTransactionStart

LoopInv == LoopTyped /\ LoopTold

\* scheduleDrain queues a drain only where none is queued.
LEMMA ScheduleKeeps ==
  ASSUME LoopInv, ScheduleDrain,
         pendingTransactionStarts > 0 /\ activeToken' # 0 => runningTransactionStart'
  PROVE  LoopInv'
<1>1. LoopTyped /\ LoopTold
  BY DEF LoopInv
<1>2. pendingTransactionStarts' = pendingTransactionStarts
  BY DEF ScheduleDrain
<1>3. CASE UNCHANGED <<drainScheduled, microtasks>>
  BY <1>1, <1>2, <1>3 DEF LoopInv, LoopTyped, LoopTold
<1>4. CASE /\ ~drainScheduled /\ drainScheduled' = TRUE
           /\ microtasks' = Append(microtasks, "drain")
  <2>1. microtasks \in Seq(Microtask) /\ microtasks' \in Seq(Microtask)
    BY <1>1, <1>4 DEF LoopTyped, Microtask
  <2>2. Drains(microtasks) = {}
    BY <1>1, <1>4 DEF LoopTold
  <2>3. Drains(microtasks') = {Len(microtasks) + 1}
    BY <1>4, <2>1, <2>2, MicrotaskQueued
  <2>4. Cardinality(Txns(microtasks')) = Cardinality(Txns(microtasks))
    BY <1>4, <2>1, MicrotaskQueued
  <2> QED BY <1>1, <1>2, <1>4, <2>1, <2>3, <2>4 DEF LoopInv, LoopTyped, LoopTold
<1> QED BY <1>3, <1>4 DEF ScheduleDrain

\* Every step keeps what the gate counts of the event loop.
LEMMA LoopStep == LoopInv /\ FlagsInv /\ [Next]_vars => LoopInv'
<1> SUFFICES ASSUME LoopInv, FlagsInv, [Next]_vars PROVE LoopInv'
  OBVIOUS
<1>a. LoopTyped /\ LoopTold
  BY DEF LoopInv
<1>same. ASSUME UNCHANGED loop,
                pendingTransactionStarts > 0 /\ activeToken' # 0 => runningTransactionStart'
         PROVE  LoopInv'
  BY <1>a, <1>same DEF LoopInv, LoopTyped, LoopTold, loop
<1>still. ASSUME UNCHANGED <<loop, activeToken, runningTransactionStart>>
          PROVE  LoopInv'
  BY <1>a, <1>still, <1>same DEF LoopTold
<1>1. CASE RunOrDeferVoidIngress \/ RunImmediateVoidIngress
  <2>1. CASE ~ShouldDeferVoidIngress
    <3>1. UNCHANGED <<loop, runningTransactionStart>>
      BY <1>1 DEF RunOrDeferVoidIngress, RunImmediateVoidIngress, phases
    <3>2. pendingTransactionStarts > 0 => runningTransactionStart
      BY <2>1 DEF ShouldDeferVoidIngress
    <3> QED BY <3>1, <3>2, <1>same
  <2>2. CASE ShouldDeferVoidIngress
    <3>1. UNCHANGED <<loop, authority, phases>>
      BY <1>1, <2>2 DEF RunOrDeferVoidIngress, RunImmediateVoidIngress, DeferVoidIngress
    <3> QED BY <3>1, <1>still DEF authority, phases
  <2> QED BY <2>1, <2>2
<1>2. CASE DrainNext
  BY <1>2, <1>a, <1>same DEF DrainNext, DrainHasNext, LoopTyped
<1>3. CASE InvokeKernelExport \/ RunSerializedHostOperation
  BY <1>3, <1>still DEF InvokeKernelExport, RunSerializedHostOperation, phases
<1>4. ASSUME NEW token \in 1 .. lastToken,
             \/ ScopeInvoke(token)
             \/ ScopeSerializedHostOperation(token)
             \/ \E kind \in EffectKinds : RegisterEffect(token, kind)
      PROVE  LoopInv'
  <2>1. UNCHANGED <<loop, activeToken, runningTransactionStart>>
    BY <1>4 DEF ScopeInvoke, ScopeSerializedHostOperation, RegisterEffect, phases, authority
  <2> QED BY <2>1, <1>still
<1>5. CASE FailKernelInstance \/ Throw \/ Catch \/ EndTask \/ EndScope \/ EndEffect
            \/ EndObserverThrowing \/ RunDetachedEffects \/ RunEffect \/ DrainThrew
            \/ EndDrain \/ StartTask
  <2>1. UNCHANGED <<loop, activeToken, runningTransactionStart>>
    BY <1>5 DEF FailKernelInstance, Throw, Catch, EndTask, EndScope, EndEffect,
         EndObserverThrowing, RunDetachedEffects, RunEffect, DrainThrew, EndDrain,
         StartTask, phases, authority
  <2> QED BY <2>1, <1>still
<1>6. ASSUME NEW thenable \in BOOLEAN, EndScopedHostOperation(thenable)
      PROVE  LoopInv'
  BY <1>6, <1>still DEF EndScopedHostOperation, phases, authority
<1>7. ASSUME ScheduleDrain, UNCHANGED <<activeToken, runningTransactionStart>> \/ activeToken' = 0
      PROVE  LoopInv'
  BY <1>7, <1>a, ScheduleKeeps DEF LoopTold
<1>8. ASSUME NEW thenable \in BOOLEAN, EndHostOperation(thenable)
      PROVE  LoopInv'
  BY <1>8, <1>7 DEF EndHostOperation, phases
<1>9. CASE EndExport \/ EndIngress \/ EffectsOver \/ MisplacedTransactionStart
            \/ EndProtocolThrowing
  BY <1>9, <1>7 DEF EndExport, EndIngress, EffectsOver, MisplacedTransactionStart,
       EndProtocolThrowing, LeaveDetached, phases, authority
<1>10. CASE EndTransactionStart
  <2>1. activeToken = 0 /\ activeToken' = activeToken /\ ScheduleDrain
    BY <1>10, NoTokenThere DEF EndTransactionStart, authority
  <2> QED BY <2>1, <1>7
<1>11. CASE QueueTransactionStart
  <2>1. /\ activeToken = 0 /\ activeToken' = activeToken
        /\ microtasks' = Append(microtasks, "txn") /\ drainScheduled' = drainScheduled
        /\ pendingTransactionStarts' = pendingTransactionStarts + 1
    BY <1>11, NoTokenThere DEF QueueTransactionStart, authority
  <2>2. microtasks \in Seq(Microtask) /\ microtasks' \in Seq(Microtask)
    BY <1>a, <2>1 DEF LoopTyped, Microtask
  <2>3. /\ Drains(microtasks') = Drains(microtasks)
        /\ Cardinality(Txns(microtasks')) = Cardinality(Txns(microtasks)) + 1
    BY <2>1, <2>2, MicrotaskQueued
  <2> QED BY <1>a, <2>1, <2>2, <2>3 DEF LoopInv, LoopTyped, LoopTold
<1>12. CASE RunProtocolTransactionStart
  <2>1. /\ activeToken = 0 /\ activeToken' = activeToken
        /\ microtasks # <<>> /\ Head(microtasks) = "txn"
        /\ microtasks' = Tail(microtasks) /\ drainScheduled' = drainScheduled
        /\ pendingTransactionStarts' = pendingTransactionStarts - 1
    BY <1>12, NoTokenThere DEF RunProtocolTransactionStart, authority
  <2>2. microtasks \in Seq(Microtask) /\ microtasks' \in Seq(Microtask)
    BY <1>a, <2>1 DEF LoopTyped
  <2>3. Cardinality(Txns(microtasks')) = Cardinality(Txns(microtasks)) - 1
        /\ Cardinality(Txns(microtasks')) \in Nat
    BY <2>1, <2>2, MicrotaskTaken, TxnsFinite
  <2>4. /\ \A k \in Drains(microtasks') : k + 1 \in Drains(microtasks) /\ k \in Nat
        /\ \A k \in Drains(microtasks) : k - 1 \in Drains(microtasks')
    BY <2>1, <2>2, MicrotaskTaken
  <2>5. Drains(microtasks') # {} <=> Drains(microtasks) # {}
    BY <2>4
  <2>6. \A j, k \in Drains(microtasks') : j = k
    BY <1>a, <2>4 DEF LoopTold
  <2>7. pendingTransactionStarts' = Cardinality(Txns(microtasks')) /\ pendingTransactionStarts' \in Nat
    BY <1>a, <2>1, <2>3 DEF LoopTold
  <2> QED BY <1>a, <2>1, <2>2, <2>5, <2>6, <2>7 DEF LoopInv, LoopTyped, LoopTold
<1>13. CASE StartDrain
  <2>1. /\ activeToken' = activeToken /\ runningTransactionStart' = runningTransactionStart
        /\ microtasks # <<>> /\ Head(microtasks) = "drain"
        /\ microtasks' = Tail(microtasks) /\ drainScheduled' = FALSE
        /\ pendingTransactionStarts' = pendingTransactionStarts
    BY <1>13 DEF StartDrain, authority
  <2>2. microtasks \in Seq(Microtask) /\ microtasks' \in Seq(Microtask)
    BY <1>a, <2>1 DEF LoopTyped
  <2>3. Cardinality(Txns(microtasks')) = Cardinality(Txns(microtasks))
    BY <2>1, <2>2, MicrotaskTaken
  <2>4. Drains(microtasks') = {}
    <3>1. 1 \in Drains(microtasks)
      BY <2>1, <2>2, MicrotaskTaken
    <3>2. ASSUME NEW k \in Drains(microtasks') PROVE FALSE
      <4>1. k + 1 \in Drains(microtasks) /\ k \in Nat
        BY <2>1, <2>2, <3>2, MicrotaskTaken
      <4>2. k + 1 = 1 /\ k \in DOMAIN microtasks'
        BY <1>a, <3>1, <3>2, <4>1 DEF LoopTold, Drains
      <4> QED BY <2>2, <4>2
    <3> QED BY <3>2
  <2> QED BY <1>a, <2>1, <2>2, <2>3, <2>4 DEF LoopInv, LoopTyped, LoopTold
<1>14. CASE UNCHANGED vars
  BY <1>14, <1>still DEF vars, authority, phases
<1> QED
  BY <1>1, <1>2, <1>3, <1>4, <1>5, <1>6, <1>8, <1>9, <1>10, <1>11, <1>12, <1>13, <1>14
     DEF Next, HostCall, HostReturn, GateLoop, RunMicrotask

\* The gate counts the event loop right in every state.
LEMMA LoopInvariant == Spec => []LoopInv
<1>1. Init => LoopInv
  <2> SUFFICES ASSUME Init PROVE LoopInv
    OBVIOUS
  <2>1. microtasks = <<>> /\ Drains(microtasks) = {} /\ Txns(microtasks) = {}
    BY DEF Init, Drains, Txns
  <2>2. LoopTyped /\ activeToken = 0
    <3>1. <<>> \in Seq(Microtask)
      OBVIOUS
    <3> QED BY <2>1, <3>1 DEF Init, LoopTyped
  <2>3. pendingTransactionStarts = Cardinality(Txns(microtasks))
    BY <2>1, FS_EmptySet DEF Init
  <2> QED BY <2>1, <2>2, <2>3 DEF Init, LoopInv, LoopTold
<1> QED BY <1>1, LoopStep, FlagsInvariant, PTL DEF Spec

\* The gate's flags are the truth about the call stack and the event loop,
\* on every path out of every callback.
THEOREM FlagsAreTrue == Spec => []FlagsTellTheStack
<1>1. FlagsInv /\ LoopInv => FlagsTellTheStack
  <2> SUFFICES ASSUME FlagsInv, LoopInv PROVE FlagsTellTheStack
    OBVIOUS
  <2>1. drainScheduled <=> \E k \in DOMAIN microtasks : microtasks[k] = "drain"
    BY DEF LoopInv, LoopTold, Drains
  <2>2. pendingTransactionStarts
          = Cardinality({k \in DOMAIN microtasks : microtasks[k] = "txn"})
    BY DEF LoopInv, LoopTold, Txns
  <2> QED BY <2>1, <2>2, FlagsAreRunning DEF FlagsTellTheStack
<1> QED BY <1>1, FlagsInvariant, LoopInvariant, PTL

\* No ingress begins inside the effect loop of another, and while a
\* transaction start is pending only a transaction start begins any.
THEOREM EffectsComeFirst == Spec => []EffectsPrecedeLaterIngress
<1>1. FlagsInv /\ LoopInv => EffectsPrecedeLaterIngress
  <2> SUFFICES ASSUME FlagsInv, LoopInv, NEW i \in DOMAIN stack, stack[i].kind = "ingress"
               PROVE  /\ \A j \in 1 .. i - 1 :
                           stack[j].kind \notin {"ingress", "returned", "detached"}
                      /\ pendingTransactionStarts > 0 => stack[1].kind = "txn"
    BY DEF EffectsPrecedeLaterIngress
  <2>1. stack \in Seq(Frame) /\ Shaped(stack) /\ FlagsTold
    BY DEF FlagsInv, StackTyped
  <2>2. i = 2 /\ Len(stack) \in Nat /\ Len(stack) >= 2
    BY <2>1, Places
  <2>3. KindAt(stack, 2) = "ingress" /\ KindAt(stack, 1) = stack[1].kind
    BY <2>2 DEF KindAt
  <2>4. stack[1].kind \in Bases
    BY <2>1, <2>2 DEF Shaped
  <2>5. pendingTransactionStarts > 0 => stack[1].kind = "txn"
    BY <2>1, <2>3 DEF FlagsTold, LoopInv, LoopTold
  <2>6. \A j \in 1 .. i - 1 : j = 1
    BY <2>2
  <2> QED BY <2>4, <2>5, <2>6 DEF Bases
<1> QED BY <1>1, FlagsInvariant, LoopInvariant, PTL

-----------------------------------------------------------------------------
(* The report of a failure *)

\* A failure of the gate is reported, or its report is due and authority is
\* still held.
FailureInv ==
  /\ fatalError \in {"none", "gate", "worker"}
  /\ pendingFatalReport \in BOOLEAN
  /\ reports = IF fatalError = "gate" /\ ~pendingFatalReport THEN 1 ELSE 0
  /\ pendingFatalReport => fatalError = "gate" /\ AuthorityLive

\* The report is made at the first point where no authority is left, and once.
LEMMA SettleKeeps ==
  ASSUME FailureInv, NEW failed \in BOOLEAN, Settle(failed)
  PROVE  FailureInv'
<1>1. CASE failed /\ ~Fatal
  <2>1. fatalError' = "gate" /\ ~pendingFatalReport /\ reports = 0
    BY <1>1 DEF Settle, Fail, Fatal, FailureInv
  <2>2. IF ~AuthorityLive' THEN pendingFatalReport' = FALSE /\ reports' = reports + 1
        ELSE pendingFatalReport' = TRUE /\ reports' = reports
    BY <1>1 DEF Settle, ReportPendingFatalIfRevoked
  <2>3. CASE AuthorityLive'
    BY <2>1, <2>2, <2>3 DEF FailureInv
  <2>4. CASE ~AuthorityLive'
    <3>1. pendingFatalReport' = FALSE /\ reports' = 1
      BY <2>1, <2>2, <2>4
    <3> QED BY <2>1, <3>1 DEF FailureInv
  <2> QED BY <2>3, <2>4
<1>2. CASE ~(failed /\ ~Fatal)
  <2>1. fatalError' = fatalError
    BY <1>2 DEF Settle, Fail
  <2>2. IF pendingFatalReport /\ ~AuthorityLive'
        THEN pendingFatalReport' = FALSE /\ reports' = reports + 1
        ELSE pendingFatalReport' = pendingFatalReport /\ reports' = reports
    BY <1>2 DEF Settle, ReportPendingFatalIfRevoked, FailureInv
  <2>3. CASE pendingFatalReport /\ ~AuthorityLive'
    <3>1. pendingFatalReport' = FALSE /\ reports' = 1 /\ fatalError = "gate"
      BY <2>2, <2>3 DEF FailureInv
    <3> QED BY <2>1, <3>1 DEF FailureInv
  <2>4. CASE ~(pendingFatalReport /\ ~AuthorityLive')
    BY <2>1, <2>2, <2>4 DEF FailureInv
  <2> QED BY <2>3, <2>4
<1> QED BY <1>1, <1>2

\* A latched failure is reported later, by whoever gives up the last authority.
LEMMA LatchKeeps ==
  ASSUME FailureInv, NEW failed \in BOOLEAN, Latch(failed), AuthorityLive'
  PROVE  FailureInv'
<1>1. CASE failed /\ ~Fatal
  BY <1>1 DEF Latch, Fail, Fatal, FailureInv
<1>2. CASE ~(failed /\ ~Fatal)
  BY <1>2 DEF Latch, Fail, FailureInv
<1> QED BY <1>1, <1>2

ExceptionTyped == exc \in BOOLEAN

\* Every step keeps the latched failure and its report in step.
LEMMA FailureStep == FailureInv /\ FlagsInv /\ ExceptionTyped /\ [Next]_vars => FailureInv'
<1> SUFFICES ASSUME FailureInv, FlagsInv, exc \in BOOLEAN, [Next]_vars PROVE FailureInv'
  BY DEF ExceptionTyped
<1>a. stack \in Seq(Frame) /\ Shaped(stack) /\ FlagsTold /\ activeToken \in Nat /\ lastToken \in Nat
  BY DEF FlagsInv, StackTyped
<1>same. ASSUME UNCHANGED failure, ~Fatal \/ (AuthorityLive => AuthorityLive')
         PROVE  FailureInv'
  BY <1>same DEF FailureInv, failure, Fatal
<1>still. ASSUME UNCHANGED <<failure, authority, phases>>
          PROVE  FailureInv'
  BY <1>still, <1>same DEF authority, phases, AuthorityLive
<1>ingress. ASSUME RunVoidIngress, UNCHANGED <<failure, phases>>
            PROVE  FailureInv'
  <2>1. CASE IngressRefused
    BY <1>ingress, <2>1, <1>still DEF RunVoidIngress
  <2>2. CASE ~IngressRefused
    BY <1>ingress, <2>2, <1>same DEF IngressRefused
  <2> QED BY <2>1, <2>2
<1>1. CASE RunOrDeferVoidIngress \/ RunImmediateVoidIngress
  <2>1. UNCHANGED <<failure, phases>> /\ (RunVoidIngress \/ UNCHANGED authority)
    BY <1>1 DEF RunOrDeferVoidIngress, RunImmediateVoidIngress, DeferVoidIngress
  <2> QED BY <2>1, <1>ingress, <1>still
<1>2. CASE DrainNext
  BY <1>2, <1>ingress DEF DrainNext
<1>3. CASE InvokeKernelExport \/ RunSerializedHostOperation
  <2>1. UNCHANGED failure /\ ~Fatal
    BY <1>3 DEF InvokeKernelExport, RunSerializedHostOperation, ShouldDeferVoidIngress
  <2> QED BY <2>1, <1>same
<1>4. ASSUME NEW token \in 1 .. lastToken,
             \/ ScopeInvoke(token)
             \/ ScopeSerializedHostOperation(token)
             \/ \E kind \in EffectKinds : RegisterEffect(token, kind)
      PROVE  FailureInv'
  <2>1. UNCHANGED <<failure, phases, activeExport, activeToken, activeHostOperation>>
    BY <1>4 DEF ScopeInvoke, ScopeSerializedHostOperation, RegisterEffect, authority
  <2> QED BY <2>1, <1>same DEF AuthorityLive, phases
<1>5. CASE FailKernelInstance
  BY <1>5 DEF FailKernelInstance, Fail, FailureInv, Fatal
<1>6. CASE Throw \/ Catch \/ EndTask \/ EndEffect \/ EndObserverThrowing \/ RunEffect
            \/ QueueTransactionStart \/ StartTask
  BY <1>6, <1>still DEF Throw, Catch, EndTask, EndEffect, EndObserverThrowing, RunEffect,
       QueueTransactionStart, StartTask
<1>7. CASE EndScope \/ RunDetachedEffects \/ RunProtocolTransactionStart \/ StartDrain
  <2>1. UNCHANGED failure /\ (AuthorityLive => AuthorityLive')
    <3>1. CASE EndScope
      BY <3>1 DEF EndScope, AuthorityLive, phases
    <3>2. CASE RunDetachedEffects
      BY <3>2 DEF RunDetachedEffects, AuthorityLive, authority
    <3>3. CASE RunProtocolTransactionStart
      BY <3>3 DEF RunProtocolTransactionStart, AuthorityLive, authority
    <3>4. CASE StartDrain
      BY <3>4 DEF StartDrain, AuthorityLive, authority
    <3> QED BY <1>7, <3>1, <3>2, <3>3, <3>4 DEF EndScope, RunDetachedEffects,
              RunProtocolTransactionStart, StartDrain
  <2> QED BY <2>1, <1>same
<1>8. CASE DrainThrew
  <2>1. stack # <<>> /\ TopKind(stack) = "drain" /\ UNCHANGED phases
    BY <1>a, <1>8, OnTopIs DEF DrainThrew, OnTop
  <2>2. draining
    <3>1. Len(stack) \in Nat \ {0}
      BY <1>a, <2>1, TopTells
    <3>2. Len(stack) # 2 /\ ~(Len(stack) > 2)
      BY <1>a, <2>1, TopTells DEF Seconds, InScope
    <3>3. Len(stack) = 1
      BY <3>1, <3>2, SmallLengths
    <3> QED BY <1>a, <2>1, <3>3, TopTells DEF FlagsTold
  <2>3. AuthorityLive' /\ Latch(TRUE)
    BY <1>8, <2>1, <2>2 DEF AuthorityLive, phases, DrainThrew
  <2> QED BY <2>3, LatchKeeps
<1>9. ASSUME NEW thenable \in BOOLEAN, EndScopedHostOperation(thenable)
      PROVE  FailureInv'
  <2>1. stack # <<>> /\ TopKind(stack) = "scopedhost" /\ UNCHANGED authority
    BY <1>a, <1>9, OnTopIs DEF EndScopedHostOperation, OnTop
  <2>2. activeToken # 0
    <3>1. Len(stack) \in Nat \ {0}
      BY <1>a, <2>1, TopTells
    <3>2. Len(stack) # 1 /\ Len(stack) # 2
      BY <1>a, <2>1, TopTells DEF Seconds, Bases
    <3>3. Len(stack) > 2
      BY <3>1, <3>2, SmallLengths
    <3> QED BY <1>a, <2>1, <3>3, TopTells DEF FlagsTold
  <2>3. AuthorityLive' /\ Latch(thenable)
    BY <1>9, <2>1, <2>2 DEF AuthorityLive, authority, EndScopedHostOperation
  <2> QED BY <2>3, LatchKeeps
<1>10. ASSUME NEW thenable \in BOOLEAN, EndHostOperation(thenable)
       PROVE  FailureInv'
  BY <1>10, SettleKeeps DEF EndHostOperation
<1>11. CASE EndExport \/ EndIngress \/ EndTransactionStart
  <2>1. Settle(exc)
    BY <1>11 DEF EndExport, EndIngress, EndTransactionStart
  <2> QED BY <2>1, SettleKeeps
<1>12. CASE EffectsOver \/ MisplacedTransactionStart \/ EndProtocolThrowing \/ EndDrain
  <2>1. Settle(TRUE) \/ Settle(FALSE)
    BY <1>12 DEF EffectsOver, MisplacedTransactionStart, EndProtocolThrowing, LeaveDetached, EndDrain
  <2> QED BY <2>1, SettleKeeps
<1>13. CASE UNCHANGED vars
  BY <1>13, <1>still DEF vars
<1> QED
  BY <1>1, <1>2, <1>3, <1>4, <1>5, <1>6, <1>7, <1>8, <1>9, <1>10, <1>11, <1>12, <1>13
     DEF Next, HostCall, HostReturn, GateLoop, RunMicrotask

\* The exception in flight stays a flag.
LEMMA ExceptionStep == ExceptionTyped /\ [Next]_vars => ExceptionTyped'
<1> SUFFICES ASSUME exc \in BOOLEAN, [Next]_vars PROVE exc' \in BOOLEAN
  BY DEF ExceptionTyped
<1>1. CASE HostCall
  BY <1>1 DEF HostCall, RunOrDeferVoidIngress, RunImmediateVoidIngress, RunVoidIngress,
       DeferVoidIngress, InvokeKernelExport, RunSerializedHostOperation, ScopeInvoke,
       ScopeSerializedHostOperation, RegisterEffect, FailKernelInstance, Throw, Catch
<1>2. CASE HostReturn
  BY <1>2 DEF HostReturn, EndTask, EndExport, EndHostOperation, EndScopedHostOperation,
       EndScope, EndIngress, EndTransactionStart, EndEffect, EndObserverThrowing,
       EndProtocolThrowing
<1>3. CASE GateLoop
  BY <1>3 DEF GateLoop, RunDetachedEffects, EffectsOver, RunEffect, QueueTransactionStart,
       MisplacedTransactionStart, DrainNext, RunVoidIngress, DrainThrew, EndDrain
<1>4. CASE RunMicrotask \/ StartTask \/ UNCHANGED vars
  BY <1>4 DEF RunMicrotask, RunProtocolTransactionStart, StartDrain, StartTask, vars
<1> QED BY <1>1, <1>2, <1>3, <1>4 DEF Next

\* A failure is latched and reported in step in every state.
LEMMA FailureInvariant == Spec => []FailureInv /\ []ExceptionTyped
<1>1. Init => FailureInv /\ ExceptionTyped
  BY DEF Init, FailureInv, ExceptionTyped
<1> QED BY <1>1, FailureStep, ExceptionStep, FlagsInvariant, PTL DEF Spec

\* With nothing but a task on the stack, or nothing, no authority is held.
LEMMA TasksHoldNothing ==
  ASSUME FlagsInv, \A i \in DOMAIN stack : stack[i].kind = "task"
  PROVE  ~AuthorityLive
<1>1. ~Running("export") /\ ~Running("host") /\ ~Running("ingress") /\ ~Running("detached")
      /\ ~Running("txn") /\ ~Running("drain")
  BY DEF Running
<1> QED BY <1>1, FlagsAreRunning DEF AuthorityLive

\* A failure the gate detects is reported exactly once, and its report never
\* stays due when the stack is back at the host's own code.
THEOREM FailuresAreReportedOnce == Spec => []FailureReportedOnce
<1>1. FlagsInv /\ FailureInv => FailureReportedOnce
  <2> SUFFICES ASSUME FlagsInv, FailureInv PROVE FailureReportedOnce
    OBVIOUS
  <2>1. /\ reports = IF fatalError = "gate" /\ ~pendingFatalReport THEN 1 ELSE 0
        /\ pendingFatalReport \in BOOLEAN
    BY DEF FailureInv
  <2>2. (\A i \in DOMAIN stack : stack[i].kind = "task") => ~pendingFatalReport
    BY TasksHoldNothing DEF FailureInv
  <2>3. reports \in {0, 1} /\ (~pendingFatalReport => (reports = 1 <=> fatalError = "gate"))
    BY <2>1
  <2>4. reports <= 1
    BY <2>3
  <2>5. (\A i \in DOMAIN stack : stack[i].kind = "task") => (reports = 1 <=> fatalError = "gate")
    BY <2>2, <2>3
  <2> QED BY <2>4, <2>5 DEF FailureReportedOnce
<1> QED BY <1>1, FlagsInvariant, FailureInvariant, PTL

\* Unwinding that leaves no authority leaves the host's own code.
LEMMA Unwound ==
  ASSUME FlagsInv, FlagsInv', stack # <<>>, ~AuthorityLive',
         NEW n \in Nat, n < Len(stack), stack' = SubSeq(stack, 1, n)
  PROVE  \A i \in DOMAIN stack' : stack'[i].kind = "task"
<1>1. /\ stack \in Seq(Frame) /\ Shaped(stack)
      /\ stack' \in Seq(Frame) /\ Shaped(stack') /\ FlagsTold'
  BY DEF FlagsInv, StackTyped
<1>2. /\ Len(stack) \in Nat \ {0} /\ Len(stack') = n
      /\ \A i \in 1 .. n : stack'[i] = stack[i]
  <2>1. Len(stack) \in Nat \ {0}
    BY <1>1, TopTells
  <2>2. n \in 0 .. Len(stack)
    BY <2>1
  <2> QED BY <1>1, <2>1, <2>2, PrefixOf
<1>3. /\ TopKind(stack') # "export" /\ TopKind(stack') # "host"
      /\ KindAt(stack', 2) # "ingress" /\ KindAt(stack', 2) # "detached"
      /\ KindAt(stack', 1) # "txn" /\ KindAt(stack', 1) # "drain"
  BY <1>1 DEF FlagsTold, AuthorityLive
<1>4. CASE n = 0
  BY <1>1, <1>2, <1>4
<1>5. CASE n = 1
  <2>1. stack' # <<>> /\ DOMAIN stack' = {1}
    BY <1>1, <1>2, <1>5
  <2>2. KindAt(stack', 1) = stack'[1].kind /\ KindAt(stack', 1) \in Bases
    BY <1>1, <2>1, TopTells
  <2> QED BY <1>3, <2>1, <2>2 DEF Bases
<1>6. CASE n > 1
  <2>1. stack' # <<>> /\ (n = 2 \/ n > 2)
    BY <1>1, <1>2, <1>6
  <2>2. n > 2 => KindAt(stack', 2) \in {"ingress", "detached"}
    BY <1>1, <1>2, <2>1, TopTells
  <2>3. n = 2 => TopKind(stack') = KindAt(stack', 2) /\ KindAt(stack', 2) \in Seconds
    BY <1>1, <1>2, <2>1, TopTells
  <2>4. n = 2 /\ KindAt(stack', 2) = "returned"
    BY <1>3, <2>1, <2>2, <2>3 DEF Seconds
  <2>5. KindAt(stack, 2) = "returned" /\ Len(stack) > 2
    BY <1>1, <1>2, <2>4 DEF KindAt
  <2>6. KindAt(stack, 2) \in {"ingress", "detached"}
    BY <1>1, <2>5, TopTells
  <2> QED BY <2>5, <2>6
<1>7. n = 0 \/ n = 1 \/ n > 1
  OBVIOUS
<1> QED BY <1>4, <1>5, <1>6, <1>7

\* When the owner hears of the failure, everything the gate had started has
\* left the call stack.
THEOREM ReportsComeLast == Spec => ReportSeesNoAuthority
<1> DEFINE Report == reports' > reports => \A i \in DOMAIN stack' : stack'[i].kind = "task"
<1>1. FlagsInv /\ FlagsInv' /\ FailureInv /\ ExceptionTyped /\ [Next]_vars => [Report]_vars
  <2> SUFFICES ASSUME FlagsInv, FlagsInv', FailureInv, exc \in BOOLEAN, Next, reports' > reports
               PROVE  \A i \in DOMAIN stack' : stack'[i].kind = "task"
    BY DEF ExceptionTyped
  <2>0. /\ reports \in Nat /\ ~(reports > reports)
        /\ stack # <<>> => Len(stack) \in Nat \ {0}
    BY TopTells DEF FailureInv, FlagsInv, StackTyped
  <2>1. ASSUME NEW failed \in BOOLEAN, Settle(failed)
        PROVE  ~AuthorityLive' /\ (Fatal \/ failed)
    BY <2>0, <2>1 DEF Settle, ReportPendingFatalIfRevoked, FailureInv, Fatal
  <2>2. ASSUME NEW failed \in BOOLEAN, Settle(failed), Leave, stack # <<>>
        PROVE  \A i \in DOMAIN stack' : stack'[i].kind = "task"
    <3>1. Len(stack) - 1 \in Nat /\ Len(stack) - 1 < Len(stack)
      BY <2>0, <2>2
    <3> QED BY <2>1, <2>2, <3>1, Unwound DEF Leave, Callers
  <2>3. CASE EndExport \/ EndTransactionStart
    <3>1. Settle(exc) /\ Leave /\ stack # <<>>
      BY <2>3 DEF EndExport, EndTransactionStart, OnTop
    <3> QED BY <3>1, <2>2
  <2>4. CASE EndIngress
    <3>1. Settle(exc) /\ stack # <<>>
      BY <2>4 DEF EndIngress, OnTop
    <3>2. Fatal \/ exc
      BY <3>1, <2>1
    <3>3. Leave
      BY <2>4, <3>2 DEF EndIngress
    <3> QED BY <3>1, <3>3, <2>2
  <2>5. ASSUME NEW thenable \in BOOLEAN, EndHostOperation(thenable)
        PROVE  \A i \in DOMAIN stack' : stack'[i].kind = "task"
    BY <2>2, <2>5 DEF EndHostOperation, OnTop
  <2>6. CASE EffectsOver \/ MisplacedTransactionStart \/ EndDrain
    <3>1. (Settle(TRUE) \/ Settle(FALSE)) /\ Leave /\ stack # <<>>
      BY <2>6 DEF EffectsOver, MisplacedTransactionStart, EndDrain, LeaveDetached, OnTop
    <3> QED BY <3>1, <2>2
  <2>7. CASE EndProtocolThrowing
    <3>1. Settle(TRUE) /\ stack # <<>> /\ stack' = SubSeq(stack, 1, Len(stack) - 2)
      BY <2>7 DEF EndProtocolThrowing, LeaveDetached, OnTop
    <3>2. TopKind(stack) = "effect" /\ stack \in Seq(Frame) /\ Shaped(stack)
      BY <2>7, <3>1, OnTopIs DEF EndProtocolThrowing, OnTop, FlagsInv, StackTyped
    <3>3. Len(stack) # 1 /\ Len(stack) # 2
      BY <3>1, <3>2, TopTells DEF Bases, Seconds
    <3>4. Len(stack) - 2 \in Nat /\ Len(stack) - 2 < Len(stack)
      <4>1. Len(stack) \in Nat \ {0}
        BY <2>0, <3>1
      <4>2. \A n \in Nat \ {0} : n # 1 /\ n # 2 => n - 2 \in Nat /\ n - 2 < n
        OBVIOUS
      <4> QED BY <3>3, <4>1, <4>2
    <3> QED BY <2>1, <3>1, <3>4, Unwound
  <2>8. CASE HostCall
    BY <2>0, <2>8 DEF HostCall, RunOrDeferVoidIngress, RunImmediateVoidIngress,
         InvokeKernelExport, RunSerializedHostOperation, ScopeInvoke,
         ScopeSerializedHostOperation, RegisterEffect, FailKernelInstance, Throw, Catch, failure
  <2>9. CASE EndTask \/ EndScope \/ EndEffect \/ EndObserverThrowing
              \/ \E thenable \in BOOLEAN : EndScopedHostOperation(thenable)
    BY <2>0, <2>9 DEF EndTask, EndScope, EndEffect, EndObserverThrowing,
         EndScopedHostOperation, Latch, failure
  <2>10. CASE RunDetachedEffects \/ RunEffect \/ QueueTransactionStart \/ DrainNext
               \/ DrainThrew \/ StartTask \/ RunMicrotask
    BY <2>0, <2>10 DEF RunDetachedEffects, RunEffect, QueueTransactionStart, DrainNext,
         DrainThrew, Latch, StartTask, RunMicrotask, RunProtocolTransactionStart, StartDrain, failure
  <2> QED
    BY <2>3, <2>4, <2>5, <2>6, <2>7, <2>8, <2>9, <2>10 DEF Next, HostReturn, GateLoop
<1> QED BY <1>1, FlagsInvariant, FailureInvariant, PTL DEF Spec, ReportSeesNoAuthority

-----------------------------------------------------------------------------
(* Types *)

\* What no other invariant says: the keys and the counters of the bounds.
CountsTyped ==
  /\ deferredKeys \in SUBSET Keys
  /\ owed \in SUBSET Keys
  /\ calls \in Nat

\* Every step keeps the types of the keys and of the count of calls.
LEMMA CountsStep == CountsTyped /\ [Next]_vars => CountsTyped'
<1> SUFFICES ASSUME CountsTyped, [Next]_vars PROVE CountsTyped'
  OBVIOUS
<1>calls. calls' = calls \/ calls' = calls + 1
  BY DEF Next, HostCall, HostReturn, GateLoop, RunMicrotask, RunOrDeferVoidIngress,
       RunImmediateVoidIngress, InvokeKernelExport, RunSerializedHostOperation, ScopeInvoke,
       ScopeSerializedHostOperation, RegisterEffect, FailKernelInstance, Throw, Catch,
       HostCalls, EndTask, EndExport, EndHostOperation, EndScopedHostOperation, EndScope,
       EndIngress, EndTransactionStart, EndEffect, EndObserverThrowing, EndProtocolThrowing,
       RunDetachedEffects, EffectsOver, RunEffect, QueueTransactionStart, LeaveDetached,
       MisplacedTransactionStart, DrainNext, DrainThrew, EndDrain, StartTask,
       RunProtocolTransactionStart, StartDrain, vars
<1>keys. deferredKeys' \in SUBSET Keys
  <2>1. ASSUME NEW key \in Keys \cup {"none"}, DeferVoidIngress(key)
        PROVE  deferredKeys' \in SUBSET Keys
    BY <2>1 DEF DeferVoidIngress, Named, queue, CountsTyped
  <2>2. CASE UNCHANGED queue \/ deferredKeys' = {}
    BY <2>2 DEF queue, CountsTyped
  <2>3. CASE DrainNext
    BY <2>3 DEF DrainNext, CountsTyped
  <2>4. \A failed \in BOOLEAN : Settle(failed) \/ Latch(failed) => UNCHANGED queue \/ deferredKeys' = {}
    BY DEF Settle, Latch, Fail
  <2>5. CASE HostCall
    BY <2>1, <2>2, <2>5 DEF HostCall, RunOrDeferVoidIngress,
         RunImmediateVoidIngress, InvokeKernelExport, RunSerializedHostOperation, ScopeInvoke,
         ScopeSerializedHostOperation, RegisterEffect, FailKernelInstance, Fail, Throw, Catch
  <2>6. CASE EndExport \/ EndIngress \/ EndTransactionStart
    BY <2>2, <2>6 DEF EndExport, EndIngress, EndTransactionStart, Settle, Fail
  <2>7. ASSUME NEW thenable \in BOOLEAN,
               EndHostOperation(thenable) \/ EndScopedHostOperation(thenable)
        PROVE  deferredKeys' \in SUBSET Keys
    BY <2>2, <2>4, <2>7 DEF EndHostOperation, EndScopedHostOperation
  <2>8. CASE EffectsOver \/ MisplacedTransactionStart \/ EndProtocolThrowing \/ DrainThrew \/ EndDrain
    BY <2>2, <2>4, <2>8 DEF EffectsOver, MisplacedTransactionStart, EndProtocolThrowing,
         LeaveDetached, DrainThrew, EndDrain
  <2>9. CASE EndTask \/ EndScope \/ EndEffect \/ EndObserverThrowing \/ RunDetachedEffects
              \/ RunEffect \/ QueueTransactionStart \/ StartTask \/ RunMicrotask \/ UNCHANGED vars
    BY <2>2, <2>9 DEF EndTask, EndScope, EndEffect, EndObserverThrowing, RunDetachedEffects,
         RunEffect, QueueTransactionStart, StartTask, RunMicrotask,
         RunProtocolTransactionStart, StartDrain, vars
  <2> QED BY <2>3, <2>5, <2>6, <2>7, <2>8, <2>9 DEF Next, HostReturn, GateLoop
<1>owed. owed' \in SUBSET Keys
  <2>1. ASSUME NEW key \in Keys \cup {"none"}, DeferVoidIngress(key)
        PROVE  owed' \in SUBSET Keys
    BY <2>1 DEF DeferVoidIngress, Named, CountsTyped
  <2>2. CASE UNCHANGED history
    BY <2>2 DEF history, CountsTyped
  <2>3. CASE DrainNext
    BY <2>3 DEF DrainNext, CountsTyped
  <2>4. CASE HostCall
    BY <2>1, <2>2, <2>4 DEF HostCall, RunOrDeferVoidIngress,
         RunImmediateVoidIngress, InvokeKernelExport, RunSerializedHostOperation, ScopeInvoke,
         ScopeSerializedHostOperation, RegisterEffect, FailKernelInstance, Throw, Catch
  <2>5. CASE HostReturn
    BY <2>2, <2>5 DEF HostReturn, EndTask, EndExport, EndHostOperation, EndScopedHostOperation,
         EndScope, EndIngress, EndTransactionStart, EndEffect, EndObserverThrowing,
         EndProtocolThrowing, LeaveDetached
  <2>6. CASE EffectsOver \/ MisplacedTransactionStart \/ DrainThrew \/ EndDrain
              \/ RunDetachedEffects \/ RunEffect \/ QueueTransactionStart
    BY <2>2, <2>6 DEF EffectsOver, MisplacedTransactionStart, LeaveDetached, DrainThrew,
         EndDrain, RunDetachedEffects, RunEffect, QueueTransactionStart
  <2>7. CASE StartTask \/ RunMicrotask \/ UNCHANGED vars
    BY <2>2, <2>7 DEF StartTask, RunMicrotask, RunProtocolTransactionStart, StartDrain, vars
  <2> QED BY <2>3, <2>4, <2>5, <2>6, <2>7 DEF Next, GateLoop
<1> QED BY <1>calls, <1>keys, <1>owed DEF CountsTyped

\* Every variable of the gate keeps its type.
THEOREM GateTyped == Spec => []TypeOK
<1>1. Init => CountsTyped
  BY DEF Init, CountsTyped
<1>2. Spec => []CountsTyped
  BY <1>1, CountsStep, PTL DEF Spec
<1>3. FlagsInv /\ LoopInv /\ FailureInv /\ ExceptionTyped /\ QueueInv /\ CountsTyped => TypeOK
  <2> SUFFICES ASSUME FlagsInv, LoopInv, FailureInv, ExceptionTyped, QueueInv, CountsTyped
               PROVE  TypeOK
    OBVIOUS
  <2>1. reports \in Nat /\ fatalError \in {"none", "gate", "worker"} /\ pendingFatalReport \in BOOLEAN
    BY DEF FailureInv
  <2>2. /\ stack \in Seq(Frame) /\ activeToken \in Nat /\ scopedExportPermit \in Nat
        /\ lastToken \in Nat /\ effects \in Seq(EffectKinds) /\ FlagsTyped
    BY DEF FlagsInv, StackTyped
  <2>3. /\ drainScheduled \in BOOLEAN /\ pendingTransactionStarts \in Nat
        /\ microtasks \in Seq({"drain", "txn"})
    BY DEF LoopInv, LoopTyped, Microtask
  <2>4. deferred \in Seq(Entry) /\ queued \in Nat /\ begun \in Nat
    BY DEF QueueInv, QueueTyped
  <2> QED BY <2>1, <2>2, <2>3, <2>4 DEF FlagsTyped, CountsTyped, ExceptionTyped, TypeOK
<1> QED BY <1>2, <1>3, FlagsInvariant, LoopInvariant, FailureInvariant, QueueInvariant, PTL

=============================================================================
