------------------- MODULE AsyncTransactionPromiseProofs -------------------
(***************************************************************************)
(* Every transaction keeps TransactionPromise, completes once and is not   *)
(* deallocated before, whatever layers, run loop, waits and workers do, if *)
(* no client waits for a transaction from one of its own callbacks.        *)
(*                                                                         *)
(* The argument: -completeTransaction is on the stack once for a           *)
(* transaction, only after all its operations have run, and from then on   *)
(* the completion blocks called are those the loop has passed.             *)
(***************************************************************************)
EXTENDS AsyncTransactionProofs

\* A callback does not wait for a transaction that is being completed: without
\* it the completion block of a transaction may be called twice.
NoReenter == "reenter" \notin ClientDoes

-----------------------------------------------------------------------------
(* The inductive invariant, next to IInv and TxnInv.                       *)

NoWait(s) == \A f \in Elements(s) : f.call # "wait"

\* A call that waits is innermost, or has called the group's commit.
WaitShape(s) ==
  s # <<>> =>
    \/ NoWait(Under(s))
    \/ Last(s).call = "commit" /\ Under(s) # <<>> /\ NoWait(Under(Under(s)))

\* No call works on a transaction that a call around it completes.
NoRevisit(s) == \A i, j \in DOMAIN s : j < i => CompleteOf(s[j]) \cap HeldOf(s[i]) = {}

CalledOps(t) == {called[t][i][1] : i \in DOMAIN called[t]}
AllRan(t) == \A o \in Elements(operations[t]) : outcome[o] # "none"

\* The loop of -completeTransaction: everything ran, and the blocks called are
\* those of the operations before the next.
CompleteOK(t, next, canceled) ==
  /\ state[t] \in {"committed", "canceled"} /\ finishes[t] = 0
  /\ AllRan(t)
  /\ \A o \in Elements(operations[t]) : outcome[o] = "skipped" => canceled
  /\ next <= Len(operations[t]) + 1
  /\ Len(called[t]) = next - 1

WaitOK(t) == operations[t] # <<>> /\ (AllRan(t) \/ waiting = t)

FrameOK(f) ==
  /\ f.call = "complete" => CompleteOK(f.txn, f.next, f.canceled)
  /\ f.call = "wait" => WaitOK(f.txn)
  /\ f.call = "callback" => f.op \in CalledOps(GroupOf[f.op])

FramesOK == \A f \in Elements(stack) : FrameOK(f)

NilledCalled == \A o \in nilled : o \in CalledOps(GroupOf[o])

OpsDistinct == \A t \in Groups : Distinct(operations[t])

\* The completion blocks were called in the order of the operations.
CalledInOrder ==
  \A t \in Groups :
    /\ Len(called[t]) <= Len(operations[t])
    /\ \A i \in DOMAIN called[t] : called[t][i][1] = operations[t][i]

\* A transaction is held by its layer until it is finished, and finishes once.
FinishesOnce ==
  \A t \in Groups :
    /\ finishes[t] \in {0, 1}
    /\ finishes[t] = 0 /\ state[t] # "none" => \E c \in Containers : t \in layerTxns[c]
    /\ finishes[t] = 1 =>
         /\ \A c \in Containers : t \notin layerTxns[c]
         /\ Len(called[t]) = Len(operations[t])
         /\ state[t] = "complete" \/ (state[t] = "committed" /\ operations[t] = <<>>)

CalledWhileCompleting ==
  \A t \in Groups : finishes[t] = 0 /\ t \notin Completes(stack) => called[t] = <<>>

\* A block that was dispatched to complete a transaction: all of it ran.
Drained ==
  /\ \A t \in Groups : t \in Elements(notified) => operations[t] # <<>> /\ AllRan(t)
  /\ \A t \in Groups : t \in Elements(notifyList[t]) => operations[t] # <<>>

NotRun(o) ==
  \/ opState[o] \in {"new", "queued"}
  \/ o \in asyncOpen
  \/ \E q \in Queues, s \in Threads : pc[q][s] = "running" /\ op[q][s] = o

\* What became of a block is known once it ran; only canceled ones are skipped.
Outcomes ==
  \A o \in Ops :
    /\ outcome[o] = "none" <=> NotRun(o)
    /\ outcome[o] = "skipped" => state[GroupOf[o]] \in {"canceled", "complete"}

Books ==
  /\ NilledCalled /\ OpsDistinct /\ CalledInOrder /\ FinishesOnce
  /\ CalledWhileCompleting
  /\ Drained
  /\ Outcomes

PromiseInv ==
  /\ NoRevisit(stack) /\ WaitShape(stack)
  /\ FramesOK
  /\ Books

-----------------------------------------------------------------------------
(* The calls under the innermost one.                                      *)

LEMMA AppendCalls ==
  ASSUME NEW S, NEW s \in Seq(S), NEW f \in S
  PROVE  /\ Elements(Append(s, f)) = Elements(s) \cup {f}
         /\ NoWait(Append(s, f)) <=> NoWait(s) /\ f.call # "wait"
         /\ NoRevisit(Append(s, f)) <=>
              NoRevisit(s) /\ Completes(s) \cap HeldOf(f) = {}
<1> DEFINE a == Append(s, f)
<1>1. /\ Len(s) \in Nat /\ DOMAIN a = 1 .. Len(s) + 1 /\ DOMAIN s = 1 .. Len(s)
      /\ \A i \in 1 .. Len(s) : a[i] = s[i]
      /\ a[Len(s) + 1] = f
  OBVIOUS
<1>2. Elements(a) = Elements(s) \cup {f}
  BY AppendElements
<1>3. NoWait(a) <=> NoWait(s) /\ f.call # "wait"
  BY <1>2 DEF NoWait
<1> HIDE DEF a
<1>4. Completes(s) \cap HeldOf(f) = {} <=> \A j \in DOMAIN s : CompleteOf(s[j]) \cap HeldOf(f) = {}
  BY DEF Completes
<1>5. \A i, j \in DOMAIN s : a[i] = s[i] /\ a[j] = s[j]
  BY <1>1
<1>6. ASSUME NoRevisit(a) PROVE NoRevisit(s) /\ Completes(s) \cap HeldOf(f) = {}
  <2>1. \A j \in DOMAIN s : j \in DOMAIN a /\ j < Len(s) + 1 /\ Len(s) + 1 \in DOMAIN a
    BY <1>1
  <2>2. NoRevisit(s)
    BY <1>5, <1>6, <2>1 DEF NoRevisit
  <2>3. \A j \in DOMAIN s : CompleteOf(s[j]) \cap HeldOf(f) = {}
    BY <1>1, <1>5, <1>6, <2>1 DEF NoRevisit
  <2> QED
    BY <1>4, <2>2, <2>3
<1>7. ASSUME NoRevisit(s), Completes(s) \cap HeldOf(f) = {} PROVE NoRevisit(a)
  <2> SUFFICES ASSUME NEW i \in DOMAIN a, NEW j \in DOMAIN a, j < i
               PROVE  CompleteOf(a[j]) \cap HeldOf(a[i]) = {}
    BY DEF NoRevisit
  <2>1. j \in DOMAIN s /\ (i \in DOMAIN s \/ i = Len(s) + 1)
    BY <1>1
  <2>2. CASE i \in DOMAIN s
    BY <1>5, <1>7, <2>1, <2>2 DEF NoRevisit
  <2>3. CASE i = Len(s) + 1
    BY <1>1, <1>4, <1>5, <1>7, <2>1, <2>3
  <2> QED
    BY <2>1, <2>2, <2>3
<1> QED
  BY <1>2, <1>3, <1>6, <1>7 DEF a

LEMMA NoCalls == NoWait(<<>>) /\ NoRevisit(<<>>) /\ WaitShape(<<>>) /\ Elements(<<>>) = {}
  BY DEF NoWait, NoRevisit, WaitShape, Elements

\* A call on top of s.
LEMMA CallsOn ==
  ASSUME NEW s \in Seq(Frame), NEW f \in Frame,
         NoRevisit(s), Completes(s) \cap HeldOf(f) = {},
         NoWait(s) \/ (f.call = "commit" /\ s # <<>> /\ NoWait(Under(s)))
  PROVE  NoRevisit(Append(s, f)) /\ WaitShape(Append(s, f))
<1>1. NoRevisit(Append(s, f))
  BY AppendCalls
<1>2. Under(Append(s, f)) = s /\ Last(Append(s, f)) = f
  BY Join
<1> QED
  BY <1>1, <1>2 DEF WaitShape

\* What is known of the call that is innermost, and under it.
LEMMA TopCall ==
  ASSUME TxnInv, PromiseInv, NEW x, Inside(x)
  PROVE  /\ NoRevisit(Under(stack))
         /\ Completes(Under(stack)) \cap HeldOf(Last(stack)) = {}
         /\ x # "commit" => NoWait(Under(stack))
         /\ x # "commit" /\ x # "wait" => NoWait(stack)
         /\ WaitShape(Under(stack))
         /\ Elements(stack) = Elements(Under(stack)) \cup {Last(stack)}
         /\ FrameOK(Last(stack))
<1> DEFINE R == Under(stack)
           f == Last(stack)
<1>1. /\ R \in Seq(Frame) /\ f \in Frame /\ stack = Append(R, f) /\ f.call = x /\ stack # <<>>
  BY Innermost
<1>2. WaitShape(stack) /\ NoRevisit(stack) /\ FramesOK
  BY DEF PromiseInv
<1>3. NoWait(R) \/ (f.call = "commit" /\ R # <<>> /\ NoWait(Under(R)))
  BY <1>1, <1>2 DEF WaitShape
<1> HIDE DEF R, f
<1>4. /\ Elements(stack) = Elements(R) \cup {f}
      /\ NoWait(stack) <=> NoWait(R) /\ f.call # "wait"
      /\ NoRevisit(R) /\ Completes(R) \cap HeldOf(f) = {}
  BY <1>1, <1>2, AppendCalls
<1>5. FrameOK(f)
  BY <1>2, <1>4 DEF FramesOK
<1>6. WaitShape(R)
  <2> SUFFICES ASSUME R # <<>>, NoWait(R) PROVE NoWait(Under(R))
    BY <1>3 DEF WaitShape
  <2> DEFINE Q == Under(R)
             g == Last(R)
  <2>1. Q \in Seq(Frame) /\ g \in Frame /\ R = Append(Q, g)
    BY <1>1, Split
  <2> HIDE DEF Q, g
  <2>2. NoWait(Append(Q, g)) <=> NoWait(Q) /\ g.call # "wait"
    BY <2>1, AppendCalls
  <2> QED
    BY <2>1, <2>2 DEF Q
<1> QED
  BY <1>1, <1>3, <1>4, <1>5, <1>6 DEF R, f

-----------------------------------------------------------------------------
(* What keeps each part.                                                   *)

\* What happens to the transaction of a call that is being completed.
Undisturbed(t) ==
  /\ state'[t] \in {"committed", "canceled"}
  /\ finishes'[t] = finishes[t] /\ called'[t] = called[t]
  /\ operations'[t] = operations[t]
  /\ \A o \in Ops : outcome[o] # "none" => outcome'[o] = outcome[o]

LEMMA CompleteStays ==
  ASSUME TxnTypes, NEW t \in Groups, NEW n, NEW b, CompleteOK(t, n, b), Undisturbed(t)
  PROVE  CompleteOK(t, n, b)'
<1>1. Elements(operations[t]) \subseteq Ops
  BY DEF TxnTypes, Elements
<1> QED
  BY <1>1 DEF CompleteOK, Undisturbed, AllRan

LEMMA WaitStays ==
  ASSUME TxnTypes, NEW t \in Groups, WaitOK(t),
         operations'[t] = operations[t],
         \A o \in Ops : outcome[o] # "none" => outcome'[o] = outcome[o],
         waiting = t => waiting' = t \/ AllRan(t)'
  PROVE  WaitOK(t)'
<1>1. Elements(operations[t]) \subseteq Ops
  BY DEF TxnTypes, Elements
<1> QED
  BY <1>1 DEF WaitOK, AllRan

LEMMA FrameStays ==
  ASSUME TxnTypes, NEW f \in Frame, FrameOK(f),
         f.call = "complete" => Undisturbed(f.txn),
         f.call = "wait" =>
           /\ operations'[f.txn] = operations[f.txn]
           /\ \A o \in Ops : outcome[o] # "none" => outcome'[o] = outcome[o]
           /\ waiting = f.txn => waiting' = f.txn \/ AllRan(f.txn)',
         \A t \in Groups : CalledOps(t) \subseteq CalledOps(t)'
  PROVE  FrameOK(f)'
<1>1. CASE f.call = "complete"
  <2>1. PICK t \in Groups, n \in Nat \ {0}, b \in BOOLEAN :
           t = f.txn /\ n = f.next /\ b = f.canceled
    BY <1>1, FrameParts
  <2>2. CompleteOK(t, n, b)'
    BY <1>1, <2>1, CompleteStays DEF FrameOK
  <2> QED
    BY <1>1, <2>1, <2>2 DEF FrameOK
<1>2. CASE f.call = "wait"
  <2>1. PICK t \in Groups : t = f.txn
    BY <1>2, FrameParts
  <2>2. WaitOK(t)'
    BY <1>2, <2>1, WaitStays DEF FrameOK
  <2> QED
    BY <1>2, <2>1, <2>2 DEF FrameOK
<1>3. CASE f.call = "callback"
  <2>1. f.op \in Ops
    BY <1>3, FrameParts
  <2> QED
    BY <1>3, <2>1, PlacementAssumption DEF FrameOK
<1>4. CASE f.call \notin {"complete", "wait", "callback"}
  BY <1>4 DEF FrameOK
<1> QED
  BY <1>1, <1>2, <1>3, <1>4

LEMMA CalledSame ==
  ASSUME UNCHANGED called
  PROVE  \A t : CalledOps(t)' = CalledOps(t)
  BY DEF CalledOps

\* All frames of s are those of the stack, and no transaction changed.
LEMMA FramesSame ==
  ASSUME TxnTypes, UNCHANGED <<state, operations, outcome, called, finishes>>,
         NEW f \in Frame, FrameOK(f), waiting' = waiting \/ waiting = NoGroup
  PROVE  FrameOK(f)'
<1>1. f.call \in {"complete", "wait"} => f.txn \in Groups
  BY FrameParts
<1>2. f.call = "complete" => Undisturbed(f.txn)
  BY <1>1 DEF Undisturbed, FrameOK, CompleteOK
<1>3. f.call = "wait" => (waiting = f.txn => waiting' = f.txn)
  BY <1>1, NullAssumption
<1> QED
  BY <1>2, <1>3, CalledSame, FrameStays

LEMMA OutcomesStay ==
  ASSUME Outcomes, UNCHANGED <<outcome, state>>,
         \A o \in Ops : opState'[o] \in {"new", "queued"} <=> opState[o] \in {"new", "queued"},
         UNCHANGED asyncOpen,
         \A q \in Queues, s \in Threads :
           pc'[q][s] = "running" <=> pc[q][s] = "running",
         \A q \in Queues, s \in Threads :
           pc[q][s] = "running" => op'[q][s] = op[q][s]
  PROVE  Outcomes'
<1>1. \A o \in Ops : NotRun(o)' <=> NotRun(o)
  BY DEF NotRun
<1> QED
  BY <1>1 DEF Outcomes

\* Calls are made and return; no transaction, layer or operation changes.
LEMMA CallsChange ==
  ASSUME TxnInv, Books,
         UNCHANGED <<state, operations, outcome, called, finishes, layerTxns>>,
         UNCHANGED <<opState, asyncOpen, pc, op, notifyList>>,
         Elements(notified') \subseteq Elements(notified),
         NilledCalled',
         NoRevisit(stack'), WaitShape(stack'),
         \A f \in Elements(stack') : FrameOK(f)',
         \A t \in Groups : t \in Completes(stack) => t \in Completes(stack')
  PROVE  PromiseInv'
<1>1. FramesOK' /\ NoRevisit(stack)' /\ WaitShape(stack)'
  BY DEF FramesOK
<1>2. OpsDistinct' /\ CalledInOrder' /\ FinishesOnce'
  BY DEF Books, OpsDistinct, CalledInOrder, FinishesOnce
<1>3. CalledWhileCompleting'
  BY DEF Books, CalledWhileCompleting
<1>4. Drained'
  BY DEF Books, Drained, AllRan
<1>5. Outcomes'
  BY OutcomesStay DEF Books
<1> QED
  BY <1>1, <1>2, <1>3, <1>4, <1>5 DEF PromiseInv, Books

LEMMA NilledSame ==
  ASSUME NilledCalled, UNCHANGED <<called, nilled>>
  PROVE  NilledCalled'
  BY DEF NilledCalled, CalledOps

-----------------------------------------------------------------------------
(* Calls of the main thread that change no transaction.                    *)

\* A call returns.
LEMMA ReturnDelivers ==
  ASSUME TxnInv, PromiseInv, MainThreadFree, NEW x \in {"commit", "waitAll", "callback"}, Inside(x),
         stack' = Under(stack), NilledCalled',
         UNCHANGED <<queueVars, state, operations, outcome, called, finishes, layerVars>>
  PROVE  PromiseInv'
<1> DEFINE R == Under(stack)
           f == Last(stack)
<1>1. /\ R \in Seq(Frame) /\ f \in Frame /\ f.call = x
      /\ Completes(stack) = Completes(R) \cup CompleteOf(f)
  BY Innermost
<1>2. CompleteOf(f) = {}
  BY <1>1 DEF CompleteOf
<1>3. /\ NoRevisit(R) /\ WaitShape(R) /\ Elements(R) \subseteq Elements(stack)
  BY TopCall
<1>4. stack' = R
  OBVIOUS
<1> HIDE DEF R, f
<1>5. \A g \in Elements(R) : g \in Frame /\ FrameOK(g)
  BY <1>1, <1>3 DEF PromiseInv, FramesOK, Elements
<1>6. \A g \in Elements(R) : FrameOK(g)'
  BY <1>5, FramesSame DEF TxnInv, queueVars, mainVars
<1> QED
  BY <1>1, <1>2, <1>3, <1>4, <1>6, CallsChange
     DEF PromiseInv, queueVars, workerVars, groupVars, mainVars, layerVars

LEMMA CallbackReturnsDelivers ==
  ASSUME TxnInv, PromiseInv, CallbackReturns
  PROVE  PromiseInv'
<1>1. /\ Last(stack) \in Frame /\ Last(stack).call = "callback"
      /\ stack' = Under(stack) /\ nilled' = nilled \cup {Last(stack).op}
  BY Innermost DEF CallbackReturns
<1>2. Last(stack).op \in CalledOps(GroupOf[Last(stack).op])
  BY <1>1, TopCall DEF CallbackReturns, FrameOK
<1>3. NilledCalled'
  <2>1. \A t : CalledOps(t)' = CalledOps(t)
    BY CalledSame DEF CallbackReturns
  <2> QED
    BY <1>1, <1>2, <2>1 DEF NilledCalled, PromiseInv, Books
<1> QED
  BY <1>1, <1>3, ReturnDelivers DEF CallbackReturns

LEMMA LoopEndsDelivers ==
  ASSUME TxnInv, PromiseInv, LoopEnds
  PROVE  PromiseInv'
<1>1. PICK x \in {"commit", "waitAll"} : Inside(x)
  BY DEF LoopEnds
<1>2. stack' = Under(stack)
  BY <1>1, Innermost DEF LoopEnds
<1>3. NilledCalled'
  BY NilledSame DEF LoopEnds, txnVars, PromiseInv, Books
<1> QED
  BY <1>1, <1>2, <1>3, ReturnDelivers DEF LoopEnds, txnVars

\* A call is made that completes nothing.
LEMMA CallDelivers ==
  ASSUME TxnInv, PromiseInv, MainThreadFree, NEW f \in Frame, f.call \in {"commit", "cancel", "waitAll"},
         stack' = Append(stack, f), Completes(stack) \cap HeldOf(f) = {},
         NoWait(stack) \/ (f.call = "commit" /\ Inside("wait")),
         UNCHANGED <<queueVars, txnVars, current, layerTxns>>
  PROVE  PromiseInv'
<1>1. stack \in Seq(Frame)
  BY DEF TxnInv, TxnTypes
<1>2. Inside("wait") => stack # <<>> /\ NoWait(Under(stack))
  BY TopCall DEF Inside
<1>3. NoRevisit(stack') /\ WaitShape(stack')
  BY <1>1, <1>2, CallsOn DEF PromiseInv
<1>4. Elements(stack') = Elements(stack) \cup {f}
  BY <1>1, AppendCalls
<1>5. \A g \in Elements(stack) : g \in Frame /\ FrameOK(g)
  BY <1>1 DEF PromiseInv, FramesOK, Elements
<1>6. \A g \in Elements(stack) : FrameOK(g)'
  BY <1>5, FramesSame DEF TxnInv, queueVars, mainVars, txnVars
<1>7. FrameOK(f)'
  BY DEF FrameOK
<1>8. Completes(stack') = Completes(stack) \cup CompleteOf(f)
  BY <1>1, AppendSets
<1>9. NilledCalled'
  BY NilledSame DEF txnVars, PromiseInv, Books
<1> QED
  BY <1>3, <1>4, <1>6, <1>7, <1>8, <1>9, CallsChange
     DEF PromiseInv, queueVars, workerVars, groupVars, mainVars, txnVars

\* Where client code or the run loop is, no call waits.
LEMMA ClientNoWait ==
  ASSUME TxnInv, PromiseInv, stack = <<>> \/ Inside("callback")
  PROVE  NoWait(stack)
  BY TopCall, NoCalls

LEMMA WaitForLayerDelivers ==
  ASSUME NoReenter, TxnInv, PromiseInv, NEW c \in Containers, WaitForLayer(c)
  PROVE  PromiseInv'
<1>1. /\ MainThreadFree /\ (stack = <<>> \/ Inside("callback"))
      /\ stack' = Append(stack, WaitAllFrame(layerTxns[c]))
      /\ UNCHANGED <<queueVars, txnVars, layerVars>>
      /\ \A t \in layerTxns[c] : ~Completing(t)
  BY DEF WaitForLayer, ClientRuns, Push, Does, NoReenter
<1>2. layerTxns[c] \in SUBSET Groups
  BY DEF TxnInv, TxnTypes
<1>3. \A t \in layerTxns[c] : t \notin Completes(stack)
  BY <1>1 DEF Completing, Completes, CompleteOf
<1>4. PICK x \in SUBSET Groups : x = layerTxns[c]
  BY <1>2
<1>5. /\ WaitAllFrame(x) \in Frame /\ WaitAllFrame(x).call = "waitAll"
      /\ HeldOf(WaitAllFrame(x)) = x
  BY WaitAllSets, FramesAreFrames
<1> QED
  BY <1>1, <1>3, <1>4, <1>5, ClientNoWait, CallDelivers DEF layerVars

LEMMA CommitStartsDelivers ==
  ASSUME TxnInv, PromiseInv, RunLoopCommit \/ WaitCommits
  PROVE  PromiseInv'
<1>1. /\ MainThreadFree /\ (stack = <<>> \/ Inside("wait"))
      /\ stack' = Append(stack, CommitFrame(registered))
      /\ UNCHANGED <<queueVars, txnVars, current, layerTxns>>
  BY DEF RunLoopCommit, WaitCommits, AtRunLoop, Push
<1>2. PICK x \in SUBSET Containers : x = registered
  BY DEF TxnInv, TxnTypes
<1>3. /\ CommitFrame(x) \in Frame /\ CommitFrame(x).call = "commit"
      /\ HeldOf(CommitFrame(x)) = {}
  BY CommitSets, FramesAreFrames
<1> QED
  BY <1>1, <1>2, <1>3, NoCalls, CallDelivers

-----------------------------------------------------------------------------
(* Waits, and the loop of -completeTransaction.                            *)

\* Once nothing of a group is pending, all operations of it have run.
LEMMA RanNext ==
  ASSUME IInv', TxnInv', Outcomes', NEW t \in Groups, pending'[t] = 0
  PROVE  AllRan(t)'
<1>1. OpType' /\ PendingIsUnfinished' /\ WorkersHold'
  BY DEF IInv
<1>2. Unfinished(t)' = {}
  BY <1>1, DrainedNext
<1> SUFFICES ASSUME NEW o \in Elements(operations'[t]) PROVE outcome'[o] # "none"
  BY DEF AllRan
<1>3. o \in Ops
  BY DEF TxnInv, TxnTypes, Elements
<1>4. GroupOf[o] = t /\ opState'[o] # "new"
  BY <1>3 DEF TxnInv, Links, OpsKnown
<1>5. opState'[o] \notin {"queued", "running"} /\ o \notin asyncOpen'
  BY <1>2, <1>3, <1>4 DEF Unfinished, BlocksOf, AsyncPartsOf
<1>6. ~NotRun(o)'
  BY <1>1, <1>4, <1>5 DEF NotRun, WorkersHold, Busy
<1> QED
  BY <1>3, <1>6 DEF Outcomes

\* Nothing waits under a call when nothing waits at all.
LEMMA WaitFree ==
  ASSUME NEW s \in Seq(Frame), NoWait(s)
  PROVE  WaitShape(s)
<1> SUFFICES ASSUME s # <<>> PROVE NoWait(Under(s))
  BY DEF WaitShape
<1> DEFINE Q == Under(s)
           g == Last(s)
<1>1. Q \in Seq(Frame) /\ g \in Frame /\ s = Append(Q, g)
  BY Split
<1> HIDE DEF Q, g
<1>2. NoWait(Append(Q, g)) <=> NoWait(Q) /\ g.call # "wait"
  BY <1>1, AppendCalls
<1> QED
  BY <1>1, <1>2 DEF Q

\* -completeTransaction is entered, with R under it.
LEMMA CompleteDelivers ==
  ASSUME TxnInv, PromiseInv, NEW t \in Groups, Closed(t), operations[t] # <<>>, AllRan(t),
         NEW R \in Seq(Frame), NoRevisit(R), NoWait(R), t \notin Completes(R),
         Elements(R) \subseteq Elements(stack),
         Completes(stack) \subseteq Completes(R),
         completeTransaction(t, R), Elements(notified') \subseteq Elements(notified),
         UNCHANGED <<opState, asyncOpen, pc, op, notifyList, waiting, txnVars, layerVars>>
  PROVE  PromiseInv'
<1>1. UNCHANGED <<state, operations, nilled, outcome, called, finishes, layerTxns>>
  BY DEF txnVars, layerVars
<1>2. \A g \in Elements(R) : g \in Frame /\ FrameOK(g)
  BY DEF PromiseInv, FramesOK, Elements
<1>3. \A g \in Elements(R) : FrameOK(g)'
  BY <1>1, <1>2, FramesSame DEF TxnInv
<1>4. NilledCalled'
  BY <1>1, NilledSame DEF PromiseInv, Books
<1>5. CASE state[t] = "complete"
  <2>1. stack' = R
    BY <1>5 DEF completeTransaction
  <2>2. WaitShape(R)
    BY WaitFree
  <2> QED
    BY <1>1, <1>3, <1>4, <2>1, <2>2, CallsChange DEF PromiseInv
<1>6. CASE state[t] # "complete"
  <2> DEFINE b == state[t] = "canceled"
  <2>1. stack' = Append(R, CompleteFrame(t, 1, b)) /\ b \in BOOLEAN
    BY <1>6 DEF completeTransaction
  <2>2. state[t] = "canceled" => b
    OBVIOUS
  <2> HIDE DEF b
  <2>3. PICK i \in Nat \ {0} : i = 1
    OBVIOUS
  <2>4. PICK d \in BOOLEAN : d = b
    BY <2>1
  <2>5. PICK f \in Frame : f = CompleteFrame(t, i, d)
    BY FramesAreFrames
  <2>6. stack' = Append(R, f)
    BY <2>1, <2>3, <2>4, <2>5
  <2>7. /\ f.call = "complete" /\ CompleteOf(f) = {t} /\ HeldOf(f) = {t}
        /\ f.txn = t /\ f.next = i /\ f.canceled = d
    <3>1. /\ CompleteFrame(t, i, d).txn = t /\ CompleteFrame(t, i, d).next = i
          /\ CompleteFrame(t, i, d).canceled = d
      BY DEF CompleteFrame
    <3> QED
      BY <2>5, <3>1, CompleteSets
  <2>8. CompleteOK(t, i, d)'
    <3>1. state[t] \in {"committed", "canceled"}
      BY <1>6 DEF Closed, TxnInv, TxnTypes
    <3>2. finishes[t] = 0
      BY <1>6, <3>1 DEF PromiseInv, Books, FinishesOnce
    <3>3. called[t] = <<>>
      BY <3>2 DEF PromiseInv, Books, CalledWhileCompleting
    <3>4. \A o \in Elements(operations[t]) : outcome[o] = "skipped" => d
      <4>1. \A o \in Elements(operations[t]) : o \in Ops /\ GroupOf[o] = t
        BY DEF TxnInv, TxnTypes, Links, OpsKnown, Elements
      <4> QED
        BY <1>6, <2>2, <2>4, <4>1 DEF PromiseInv, Books, Outcomes
    <3>5. Len(operations[t]) \in Nat /\ i <= Len(operations[t]) + 1 /\ Len(called[t]) = i - 1
      BY <2>3, <3>3 DEF TxnInv, TxnTypes
    <3> QED
      BY <1>1, <3>1, <3>2, <3>4, <3>5 DEF CompleteOK, AllRan
  <2>9. FrameOK(f)'
    BY <2>7, <2>8 DEF FrameOK
  <2>10. NoRevisit(stack') /\ WaitShape(stack')
    BY <2>6, <2>7, CallsOn
  <2>11. Elements(stack') = Elements(R) \cup {f} /\ Completes(stack') = Completes(R) \cup {t}
    BY <2>6, <2>7, AppendCalls, AppendSets
  <2> QED
    BY <1>1, <1>3, <1>4, <2>9, <2>10, <2>11, CallsChange DEF PromiseInv
<1> QED
  BY <1>5, <1>6

LEMMA RunCommittedDelivers ==
  ASSUME IInv, TxnInv, PromiseInv, RunCommitted
  PROVE  PromiseInv'
<1> DEFINE t == Head(notified)
<1>1. /\ notified \in Seq(Groups) /\ notified # <<>> /\ stack = <<>>
      /\ notified' = Tail(notified) /\ completeTransaction(t, <<>>)
      /\ UNCHANGED <<entryVars, workerVars, opState, asyncOpen, groupVars, waiting,
                     woken, txnVars, layerVars>>
  BY NotifyAssumption DEF RunCommitted, AtRunLoop, IInv, MainType
<1>2. /\ t \in Groups /\ t \in Elements(notified)
      /\ Elements(notified') \subseteq Elements(notified)
  <2>1. /\ Len(notified) \in Nat \ {0} /\ DOMAIN notified = 1 .. Len(notified) /\ t = notified[1]
        /\ DOMAIN notified' = 1 .. Len(notified) - 1
        /\ \A i \in 1 .. Len(notified) - 1 : notified'[i] = notified[i + 1]
        /\ notified[1] \in Groups
    BY <1>1
  <2>2. 1 \in DOMAIN notified /\ \A i \in DOMAIN notified' : i + 1 \in DOMAIN notified
    BY <2>1
  <2> QED
    BY <2>1, <2>2 DEF Elements
<1>3. Closed(t) /\ operations[t] # <<>> /\ AllRan(t)
  BY <1>2 DEF TxnInv, Links, NotifyKnown, PromiseInv, Books, Drained
<1>4. <<>> \in Seq(Frame) /\ Elements(<<>>) = {} /\ NoRevisit(<<>>) /\ NoWait(<<>>) /\ Completes(<<>>) = {}
  BY NoCalls, EmptySets
<1> HIDE DEF t
<1> QED
  BY <1>1, <1>2, <1>3, <1>4, CompleteDelivers DEF workerVars, groupVars

LEMMA WaitCompletesDelivers ==
  ASSUME TxnInv, PromiseInv, WaitCompletes
  PROVE  PromiseInv'
<1> DEFINE R == Under(stack)
           f == Last(stack)
           t == f.txn
<1>1. /\ R \in Seq(Frame) /\ f \in Frame /\ f.call = "wait"
      /\ Top = f /\ Pop = R /\ Inside("wait") /\ MainThreadFree
      /\ Completes(stack) = Completes(R) \cup CompleteOf(f)
      /\ Held(stack) = Held(R) \cup HeldOf(f)
  BY Innermost DEF WaitCompletes
<1>2. /\ NoRevisit(R) /\ NoWait(R) /\ Completes(R) \cap HeldOf(f) = {}
      /\ Elements(R) \subseteq Elements(stack) /\ FrameOK(f)
  BY <1>1, TopCall
<1>3. t \in Groups /\ CompleteOf(f) = {} /\ HeldOf(f) = {t}
  BY <1>1, FrameParts DEF CompleteOf, HeldOf
<1>4. state[t] # "open"
  BY <1>1, <1>3, OpenIsRegistered DEF WaitCompletes
<1>5. Closed(t)
  BY <1>1, <1>3, <1>4, RetainedIs DEF Closed, TxnInv, Links, NoneUnused
<1>6. operations[t] # <<>> /\ AllRan(t)
  BY <1>1, <1>2, <1>3, NullAssumption DEF FrameOK, WaitOK, MainThreadFree
<1>7. completeTransaction(t, R) /\ UNCHANGED <<queueVars, txnVars, layerVars>>
  BY <1>1 DEF WaitCompletes
<1> HIDE DEF R, f, t
<1> QED
  BY <1>1, <1>2, <1>3, <1>5, <1>6, <1>7, CompleteDelivers
     DEF queueVars, workerVars, groupVars, mainVars

LEMMA WaitForNextDelivers ==
  ASSUME IInv, TxnInv, PromiseInv, WaitForNext, IInv', TxnInv'
  PROVE  PromiseInv'
<1> DEFINE R == Under(stack)
           f == Last(stack)
<1>1. /\ R \in Seq(Frame) /\ f \in Frame /\ f.call = "waitAll"
      /\ Top = f /\ Pop = R /\ Inside("waitAll")
      /\ Completes(stack) = Completes(R) \cup CompleteOf(f)
  BY Innermost DEF WaitForNext
<1>2. f.todo \in SUBSET Groups /\ HeldOf(f) = f.todo /\ CompleteOf(f) = {}
  BY <1>1, FrameParts DEF HeldOf, CompleteOf
<1>3. /\ NoRevisit(R) /\ NoWait(R) /\ Completes(R) \cap f.todo = {}
      /\ Elements(R) \subseteq Elements(stack)
  BY <1>1, <1>2, TopCall
<1>4. PICK t \in f.todo :
        LET rest   == Append(R, WaitAllFrame(f.todo \ {t}))
            waits  == state[t] # "complete" /\ group[t] # "none"
            blocks == waits /\ pending[t] > 0
        IN  /\ stack' = IF waits THEN Append(rest, WaitFrame(t)) ELSE rest
            /\ waiting' = IF blocks THEN t ELSE waiting
  BY <1>1 DEF WaitForNext
<1>5. /\ waiting = NoGroup
      /\ UNCHANGED <<entryVars, workerVars, opState, asyncOpen, groupVars, notified,
                     txnVars, layerVars>>
  BY DEF WaitForNext, MainThreadFree
<1>6. UNCHANGED <<state, operations, nilled, outcome, called, finishes, layerTxns>>
  BY <1>5 DEF txnVars, layerVars
<1>7. Outcomes'
  BY <1>5, <1>6, OutcomesStay DEF PromiseInv, Books, workerVars
<1>8. NilledCalled'
  BY <1>6, NilledSame DEF PromiseInv, Books
<1> HIDE DEF R, f
<1>9. \A e \in Elements(R) : e \in Frame /\ FrameOK(e)
  BY <1>1, <1>3 DEF PromiseInv, FramesOK, Elements
<1>10. \A e \in Elements(R) : FrameOK(e)'
  BY <1>5, <1>6, <1>9, FramesSame DEF TxnInv
<1>11. t \in Groups
  BY <1>2
<1>12. PICK x \in SUBSET Groups : x = f.todo \ {t}
  BY <1>2
<1>13. PICK g \in Frame : g = WaitAllFrame(x)
  BY FramesAreFrames
<1>14. PICK h \in Frame : h = WaitFrame(t)
  BY <1>11, FramesAreFrames
<1>15. g.call = "waitAll" /\ HeldOf(g) = x /\ CompleteOf(g) = {}
  BY <1>13, WaitAllSets
<1>16. h.call = "wait" /\ HeldOf(h) = {t} /\ CompleteOf(h) = {} /\ h.txn = t
  BY <1>14, WaitSets DEF WaitFrame
<1> DEFINE rest == Append(R, g)
           waits == state[t] # "complete" /\ group[t] # "none"
           blocks == waits /\ pending[t] > 0
<1>17. /\ stack' = IF waits THEN Append(rest, h) ELSE rest
       /\ waiting' = IF blocks THEN t ELSE waiting
  BY <1>4, <1>12, <1>13, <1>14
<1>18. /\ rest \in Seq(Frame) /\ NoRevisit(rest) /\ NoWait(rest)
       /\ Elements(rest) = Elements(R) \cup {g} /\ Completes(rest) = Completes(R)
  <2>1. /\ NoRevisit(rest) /\ NoWait(rest)
        /\ Elements(rest) = Elements(R) \cup {g}
    BY <1>1, <1>3, <1>12, <1>15, AppendCalls
  <2>2. rest \in Seq(Frame)
    BY <1>1
  <2>3. Completes(rest) = Completes(R) \cup CompleteOf(g)
    BY <1>1, AppendSets
  <2> QED
    BY <1>15, <2>1, <2>2, <2>3
<1>19. FrameOK(g)'
  BY <1>15 DEF FrameOK
<1>20. waits => FrameOK(h)'
  <2> SUFFICES ASSUME waits PROVE WaitOK(t)'
    BY <1>16 DEF FrameOK
  <2>1. operations[t] # <<>>
    BY <1>11 DEF TxnInv, Links, OpsKnown
  <2>2. CASE blocks
    BY <1>6, <1>17, <2>1, <2>2 DEF WaitOK
  <2>3. CASE ~blocks
    <3>1. pending'[t] = 0
      BY <1>5, <1>11, <2>3 DEF IInv, GroupType, groupVars
    <3>2. AllRan(t)'
      BY <1>7, <1>11, <3>1, RanNext
    <3> QED
      BY <1>6, <2>1, <3>2 DEF WaitOK
  <2> QED
    BY <2>2, <2>3
<1> HIDE DEF rest, waits, blocks
<1>21. CASE waits
  <2>1. stack' = Append(rest, h)
    BY <1>17, <1>21
  <2>2. Completes(rest) \cap HeldOf(h) = {}
    BY <1>3, <1>16, <1>18
  <2>3. NoRevisit(stack') /\ WaitShape(stack')
    BY <1>18, <2>1, <2>2, CallsOn
  <2>4. Elements(stack') = Elements(rest) \cup {h}
    BY <1>18, <2>1, AppendCalls
  <2>5. Completes(stack') = Completes(rest) \cup CompleteOf(h)
    BY <1>18, <2>1, AppendSets
  <2> QED
    BY <1>1, <1>2, <1>5, <1>6, <1>8, <1>10, <1>16, <1>18, <1>19, <1>20, <1>21, <2>3, <2>4, <2>5, CallsChange
       DEF PromiseInv, workerVars, groupVars
<1>22. CASE ~waits
  <2>1. stack' = rest
    BY <1>17, <1>22
  <2>2. WaitShape(rest)
    BY <1>18, WaitFree
  <2> QED
    BY <1>1, <1>2, <1>5, <1>6, <1>8, <1>10, <1>18, <1>19, <2>1, <2>2, CallsChange
       DEF PromiseInv, workerVars, groupVars
<1> QED
  BY <1>21, <1>22

\* What is left of the loop, and what is under it.
LEMMA InLoop ==
  ASSUME TxnInv, PromiseInv, Inside("complete")
  PROVE  /\ Under(stack) \in Seq(Frame) /\ Last(stack) \in Frame
         /\ Top = Last(stack) /\ Pop = Under(stack)
         /\ Last(stack).call = "complete" /\ Last(stack).txn \in Groups
         /\ Last(stack).next \in Nat \ {0} /\ Last(stack).canceled \in BOOLEAN
         /\ Last(stack) = CompleteFrame(Last(stack).txn, Last(stack).next, Last(stack).canceled)
         /\ CompleteOK(Last(stack).txn, Last(stack).next, Last(stack).canceled)
         /\ Last(stack).txn \notin Completes(Under(stack))
         /\ Completes(stack) = Completes(Under(stack)) \cup {Last(stack).txn}
         /\ NoRevisit(Under(stack)) /\ NoWait(Under(stack))
         /\ \A g \in Elements(Under(stack)) :
              /\ g \in Frame /\ FrameOK(g)
              /\ g.call = "complete" => g.txn # Last(stack).txn
<1> DEFINE R == Under(stack)
           f == Last(stack)
<1>1. /\ R \in Seq(Frame) /\ f \in Frame /\ f.call = "complete" /\ Top = f /\ Pop = R
      /\ Completes(stack) = Completes(R) \cup CompleteOf(f)
  BY Innermost
<1>2. /\ f.txn \in Groups /\ f.next \in Nat \ {0} /\ f.canceled \in BOOLEAN
      /\ f = CompleteFrame(f.txn, f.next, f.canceled)
  BY <1>1, FrameParts
<1>3. HeldOf(f) = {f.txn} /\ CompleteOf(f) = {f.txn}
  BY <1>1 DEF HeldOf, CompleteOf
<1>4. /\ NoRevisit(R) /\ Completes(R) \cap HeldOf(f) = {} /\ NoWait(R)
      /\ Elements(R) \subseteq Elements(stack) /\ FrameOK(f)
  BY TopCall
<1>5. CompleteOK(f.txn, f.next, f.canceled)
  BY <1>1, <1>4 DEF FrameOK
<1> HIDE DEF R, f
<1>6. \A g \in Elements(R) : g \in Frame /\ FrameOK(g)
  BY <1>1, <1>4 DEF PromiseInv, FramesOK, Elements
<1>7. \A g \in Elements(R) : g.call = "complete" => g.txn \in Completes(R)
  BY DEF Elements, Completes, CompleteOf
<1> QED
  BY <1>1, <1>2, <1>3, <1>4, <1>5, <1>6, <1>7 DEF R, f

\* The loop never meets a block that is nil already: only those of operations
\* before the next have been called.
LEMMA NextNotNilled ==
  ASSUME TxnInv, PromiseInv, NEW t \in Groups, NEW n \in Nat \ {0}, NEW b,
         CompleteOK(t, n, b), n <= Len(operations[t])
  PROVE  /\ operations[t][n] \in Ops /\ GroupOf[operations[t][n]] = t
         /\ operations[t][n] \notin nilled
<1> DEFINE o == operations[t][n]
<1>1. operations[t] \in Seq(Ops) /\ called[t] \in Seq(Ops \X BOOLEAN)
  BY DEF TxnInv, TxnTypes
<1>2. /\ n \in DOMAIN operations[t] /\ DOMAIN operations[t] = 1 .. Len(operations[t])
      /\ Len(operations[t]) \in Nat /\ DOMAIN called[t] = 1 .. Len(called[t])
  BY <1>1
<1>3. o \in Ops /\ o \in Elements(operations[t])
  BY <1>1, <1>2 DEF Elements
<1>4. GroupOf[o] = t
  BY <1>3 DEF TxnInv, Links, OpsKnown
<1>5. ASSUME o \in nilled PROVE FALSE
  <2>1. o \in CalledOps(t)
    BY <1>4, <1>5 DEF PromiseInv, Books, NilledCalled
  <2>2. PICK i \in DOMAIN called[t] : called[t][i][1] = o
    BY <2>1 DEF CalledOps
  <2>3. /\ operations[t][i] = o /\ Len(called[t]) <= Len(operations[t])
        /\ Len(called[t]) = n - 1
    BY <2>2 DEF PromiseInv, Books, CalledInOrder, CompleteOK
  <2>4. i \in DOMAIN operations[t] /\ i # n
    BY <1>2, <2>3
  <2> QED
    BY <1>2, <2>3, <2>4 DEF PromiseInv, Books, OpsDistinct, Distinct
<1> QED
  BY <1>3, <1>4, <1>5

LEMMA AppendCalled ==
  ASSUME NEW S, NEW s \in Seq(S), NEW e \in S
  PROVE  /\ Len(Append(s, e)) = Len(s) + 1 /\ Len(s) \in Nat
         /\ DOMAIN Append(s, e) = 1 .. Len(s) + 1 /\ DOMAIN s = 1 .. Len(s)
         /\ \A i \in DOMAIN s : Append(s, e)[i] = s[i]
         /\ Append(s, e)[Len(s) + 1] = e
  OBVIOUS

\* What a step of the loop does.
LEMMA LoopStep ==
  ASSUME TxnInv, PromiseInv, CallCompletion
  PROVE  \E t \in Groups, n \in Nat \ {0}, b \in BOOLEAN, o \in Ops :
           /\ Last(stack) = CompleteFrame(t, n, b) /\ CompleteOK(t, n, b)
           /\ n <= Len(operations[t])
           /\ o = operations[t][n] /\ GroupOf[o] = t
           /\ stack' = Append(Append(Under(stack), CompleteFrame(t, n + 1, b)), CallbackFrame(o))
           /\ called' = [called EXCEPT ![t] = Append(@, <<o, b>>)]
           /\ UNCHANGED <<queueVars, state, operations, nilled, outcome, finishes, layerVars>>
<1> DEFINE f == Last(stack)
<1>1. /\ Top = f /\ Pop = Under(stack) /\ f.txn \in Groups /\ f.next \in Nat \ {0} /\ f.canceled \in BOOLEAN
      /\ f = CompleteFrame(f.txn, f.next, f.canceled)
      /\ CompleteOK(f.txn, f.next, f.canceled)
  BY InLoop DEF CallCompletion
<1>2. PICK t \in Groups, n \in Nat \ {0}, b \in BOOLEAN :
        t = f.txn /\ n = f.next /\ b = f.canceled
  BY <1>1
<1>3. f = CompleteFrame(t, n, b) /\ CompleteOK(t, n, b)
  BY <1>1, <1>2
<1>4. n <= Len(operations[t])
  BY <1>1, <1>2 DEF CallCompletion
<1>5. PICK o \in Ops : o = operations[t][n]
  BY <1>3, <1>4, NextNotNilled
<1>6. GroupOf[o] = t /\ o \notin nilled
  BY <1>3, <1>4, <1>5, NextNotNilled
<1>7. [f EXCEPT !.next = @ + 1] = CompleteFrame(t, n + 1, b)
  BY <1>3 DEF CompleteFrame
<1>8. /\ stack' = Append(Append(Under(stack), [f EXCEPT !.next = @ + 1]), CallbackFrame(o))
      /\ called' = [called EXCEPT ![t] = Append(@, <<o, b>>)]
      /\ UNCHANGED <<queueVars, state, operations, nilled, outcome, finishes, layerVars>>
  BY <1>1, <1>2, <1>5, <1>6 DEF CallCompletion
<1>9. stack' = Append(Append(Under(stack), CompleteFrame(t, n + 1, b)), CallbackFrame(o))
  BY <1>7, <1>8
<1> HIDE DEF f
<1> WITNESS t \in Groups, n \in Nat \ {0}, b \in BOOLEAN, o \in Ops
<1> QED
  BY <1>3, <1>4, <1>5, <1>6, <1>8, <1>9 DEF f

LEMMA CallCompletionDelivers ==
  ASSUME TxnInv, PromiseInv, CallCompletion
  PROVE  PromiseInv'
<1> DEFINE R == Under(stack)
<1>1. PICK t \in Groups, n \in Nat \ {0}, b \in BOOLEAN, o \in Ops :
        /\ Last(stack) = CompleteFrame(t, n, b) /\ CompleteOK(t, n, b)
        /\ n <= Len(operations[t])
        /\ o = operations[t][n] /\ GroupOf[o] = t
        /\ stack' = Append(Append(R, CompleteFrame(t, n + 1, b)), CallbackFrame(o))
        /\ called' = [called EXCEPT ![t] = Append(@, <<o, b>>)]
        /\ UNCHANGED <<queueVars, state, operations, nilled, outcome, finishes, layerVars>>
  BY LoopStep
<1>2. Inside("complete") /\ Last(stack).txn = t
  BY <1>1 DEF CallCompletion, CompleteFrame
<1>3. /\ R \in Seq(Frame) /\ NoRevisit(R) /\ NoWait(R)
      /\ t \notin Completes(R) /\ Completes(stack) = Completes(R) \cup {t}
      /\ \A e \in Elements(R) :
           e \in Frame /\ FrameOK(e) /\ (e.call = "complete" => e.txn # t)
  BY <1>2, InLoop
<1> HIDE DEF R
<1>4. n + 1 \in Nat \ {0}
  OBVIOUS
<1>5. PICK g \in Frame : g = CompleteFrame(t, n + 1, b)
  BY <1>4, FramesAreFrames
<1>6. PICK h \in Frame : h = CallbackFrame(o)
  BY FramesAreFrames
<1>7. /\ g.call = "complete" /\ HeldOf(g) = {t} /\ CompleteOf(g) = {t}
      /\ g.txn = t /\ g.next = n + 1 /\ g.canceled = b
  BY <1>5, CompleteSets DEF CompleteFrame
<1>8. h.call = "callback" /\ HeldOf(h) = {} /\ CompleteOf(h) = {} /\ h.op = o
  BY <1>6, CallbackSets DEF CallbackFrame
<1> DEFINE loop == Append(R, g)
<1>9. stack' = Append(loop, h)
  BY <1>1, <1>5, <1>6
<1>10. /\ loop \in Seq(Frame) /\ NoRevisit(loop) /\ NoWait(loop)
       /\ Elements(loop) = Elements(R) \cup {g}
  BY <1>3, <1>7, AppendCalls
<1>11. Completes(loop) = Completes(R) \cup CompleteOf(g)
  BY <1>3, AppendSets
<1> HIDE DEF loop
<1>12. NoRevisit(stack') /\ WaitShape(stack')
  BY <1>8, <1>9, <1>10, CallsOn
<1>13. Elements(stack') = Elements(loop) \cup {h}
  BY <1>9, <1>10, AppendCalls
<1>14. Completes(stack') = Completes(loop) \cup CompleteOf(h)
  BY <1>9, <1>10, AppendSets
<1>15. /\ operations[t] \in Seq(Ops) /\ called[t] \in Seq(Ops \X BOOLEAN)
       /\ called'[t] = Append(called[t], <<o, b>>)
       /\ \A u \in Groups : u # t => called'[u] = called[u]
  BY <1>1 DEF TxnInv, TxnTypes
<1>16. /\ Len(called'[t]) = Len(called[t]) + 1 /\ Len(called[t]) = n - 1
       /\ DOMAIN called[t] = 1 .. n - 1 /\ DOMAIN called'[t] = 1 .. n
       /\ \A i \in 1 .. n - 1 : called'[t][i] = called[t][i]
       /\ called'[t][n] = <<o, b>>
  BY <1>1, <1>15, AppendCalled DEF CompleteOK
<1>17. \A u \in Groups : CalledOps(u) \subseteq CalledOps(u)'
  <2>1. \A i \in DOMAIN called[t] : i \in DOMAIN called'[t] /\ called'[t][i] = called[t][i]
    BY <1>16
  <2>2. CalledOps(t) \subseteq CalledOps(t)'
    BY <2>1, Zenon DEF CalledOps
  <2>3. \A u \in Groups : u # t => CalledOps(u)' = CalledOps(u)
    BY <1>15 DEF CalledOps
  <2> QED
    BY <2>2, <2>3
<1>18. o \in CalledOps(t)'
  BY <1>16 DEF CalledOps
<1>19. FramesOK'
  <2>1. ASSUME NEW e \in Elements(R) PROVE FrameOK(e)'
    <3>1. e.call = "complete" => e.txn \in Groups /\ e.txn # t
      BY <1>3, FrameParts
    <3>2. e.call = "complete" => Undisturbed(e.txn)
      BY <1>1, <1>3, <1>15, <3>1 DEF Undisturbed, FrameOK, CompleteOK
    <3> QED
      BY <1>1, <1>3, <1>17, <3>2, FrameStays DEF TxnInv, queueVars, mainVars
  <2>2. CompleteOK(t, n + 1, b)'
    BY <1>1, <1>16 DEF CompleteOK, AllRan, TxnInv, TxnTypes
  <2>3. FrameOK(g)'
    BY <1>7, <2>2 DEF FrameOK
  <2>4. FrameOK(h)'
    BY <1>1, <1>8, <1>18 DEF FrameOK
  <2> QED
    BY <1>10, <1>13, <2>1, <2>3, <2>4 DEF FramesOK
<1>20. NilledCalled'
  <2>1. \A v \in nilled : v \in Ops
    BY DEF TxnInv, TxnTypes
  <2> QED
    BY <1>1, <1>17, <2>1, PlacementAssumption DEF PromiseInv, Books, NilledCalled
<1>21. OpsDistinct'
  BY <1>1 DEF PromiseInv, Books, OpsDistinct
<1>22. CalledInOrder'
  <2>1. \A i \in DOMAIN called'[t] : called'[t][i][1] = operations[t][i]
    BY <1>1, <1>16 DEF PromiseInv, Books, CalledInOrder
  <2>2. Len(called'[t]) <= Len(operations[t])
    BY <1>1, <1>15, <1>16
  <2> QED
    BY <1>1, <1>15, <2>1, <2>2 DEF PromiseInv, Books, CalledInOrder
<1>23. FinishesOnce'
  <2>1. finishes[t] = 0
    BY <1>1 DEF CompleteOK
  <2> QED
    BY <1>1, <1>15, <2>1 DEF PromiseInv, Books, FinishesOnce, layerVars
<1>24. CalledWhileCompleting'
  BY <1>1, <1>3, <1>7, <1>8, <1>11, <1>14, <1>15 DEF PromiseInv, Books, CalledWhileCompleting
<1>25. Drained'
  BY <1>1 DEF PromiseInv, Books, Drained, AllRan, queueVars, groupVars, mainVars
<1>26. Outcomes'
  BY <1>1, OutcomesStay DEF PromiseInv, Books, queueVars, workerVars
<1> QED
  BY <1>12, <1>19, <1>20, <1>21, <1>22, <1>23, <1>24, <1>25, <1>26 DEF PromiseInv, Books

-----------------------------------------------------------------------------
(* Steps that change a transaction's state.                                *)

LEMMA FinishTransactionDelivers ==
  ASSUME TxnInv, PromiseInv, FinishTransaction
  PROVE  PromiseInv'
<1> DEFINE R == Under(stack)
           t == Last(stack).txn
           n == Last(stack).next
           b == Last(stack).canceled
<1>1. /\ R \in Seq(Frame) /\ Top = Last(stack) /\ Pop = R
      /\ t \in Groups /\ n \in Nat \ {0} /\ CompleteOK(t, n, b)
      /\ t \notin Completes(R) /\ Completes(stack) = Completes(R) \cup {t}
      /\ NoRevisit(R) /\ NoWait(R)
      /\ \A g \in Elements(R) :
           g \in Frame /\ FrameOK(g) /\ (g.call = "complete" => g.txn # t)
  BY InLoop DEF FinishTransaction
<1>2. /\ n > Len(operations[t])
      /\ state' = [state EXCEPT ![t] = "complete"]
      /\ finishes' = [finishes EXCEPT ![t] = @ + 1]
      /\ layerTxns' = [c \in Containers |-> layerTxns[c] \ {t}]
      /\ stack' = R
      /\ UNCHANGED <<queueVars, operations, nilled, outcome, called, current, registered>>
  BY <1>1 DEF FinishTransaction, completionBlock
<1> HIDE DEF R, t, n, b
<1>3. /\ finishes[t] = 0 /\ Len(called[t]) = Len(operations[t])
  <2>1. /\ Len(operations[t]) \in Nat /\ n <= Len(operations[t]) + 1
        /\ Len(called[t]) = n - 1 /\ finishes[t] = 0
    BY <1>1 DEF CompleteOK, TxnInv, TxnTypes
  <2> QED
    BY <1>1, <1>2, <2>1
<1>4. /\ \A u \in Groups : u # t => state'[u] = state[u] /\ finishes'[u] = finishes[u]
      /\ state'[t] = "complete" /\ finishes'[t] = 1
      /\ \A c \in Containers : layerTxns'[c] = layerTxns[c] \ {t}
  BY <1>1, <1>2, <1>3 DEF TxnInv, TxnTypes
<1>5. NoRevisit(stack') /\ WaitShape(stack')
  BY <1>1, <1>2, WaitFree
<1>6. FramesOK'
  <2>1. ASSUME NEW e \in Elements(R) PROVE FrameOK(e)'
    <3>1. e.call = "complete" => e.txn \in Groups /\ e.txn # t
      BY <1>1, FrameParts
    <3>2. e.call = "complete" => Undisturbed(e.txn)
      BY <1>1, <1>2, <1>4, <3>1 DEF Undisturbed, FrameOK, CompleteOK
    <3> QED
      BY <1>1, <1>2, <3>2, CalledSame, FrameStays DEF TxnInv, queueVars, mainVars
  <2> QED
    BY <1>2, <2>1 DEF FramesOK
<1>7. NilledCalled' /\ OpsDistinct' /\ CalledInOrder'
  BY <1>2, NilledSame DEF PromiseInv, Books, OpsDistinct, CalledInOrder
<1>8. FinishesOnce'
  BY <1>2, <1>3, <1>4 DEF PromiseInv, Books, FinishesOnce
<1>9. CalledWhileCompleting'
  BY <1>1, <1>2, <1>4 DEF PromiseInv, Books, CalledWhileCompleting
<1>10. Drained'
  BY <1>2 DEF PromiseInv, Books, Drained, AllRan, queueVars, groupVars, mainVars
<1>11. Outcomes'
  <2>1. \A o \in Ops : NotRun(o)' <=> NotRun(o)
    BY <1>2 DEF NotRun, queueVars, workerVars
  <2>2. \A o \in Ops : state[GroupOf[o]] \in {"canceled", "complete"} =>
                         state'[GroupOf[o]] \in {"canceled", "complete"}
    BY <1>4, PlacementAssumption
  <2> QED
    BY <1>2, <2>1, <2>2 DEF PromiseInv, Books, Outcomes
<1> QED
  BY <1>5, <1>6, <1>7, <1>8, <1>9, <1>10, <1>11 DEF PromiseInv, Books

\* -commit of an open transaction, the main thread continuing with rest.
LEMMA CommitDelivers ==
  ASSUME IInv, TxnInv, PromiseInv, IInv', TxnInv', NEW t \in Groups, state[t] = "open",
         NEW rest, commit(t, rest), NoRevisit(rest), WaitShape(rest),
         \A f \in Elements(rest) : f \in Elements(stack) \/ FrameOK(f)',
         Completes(rest) = Completes(stack),
         UNCHANGED <<pc, op, opState, asyncOpen, pending, waiting, operations, nilled,
                     outcome, called>>
  PROVE  PromiseInv'
<1>1. /\ state' = [state EXCEPT ![t] = "committed"] /\ stack' = rest
      /\ operations[t] = <<>> =>
           /\ finishes' = [finishes EXCEPT ![t] = @ + 1]
           /\ layerTxns' = [c \in Containers |-> layerTxns[c] \ {t}]
           /\ UNCHANGED <<notified, notifyList>>
      /\ operations[t] # <<>> => notify(t) /\ UNCHANGED <<finishes, layerTxns>>
  BY DEF commit, completionBlock
<1>2. finishes[t] = 0
  BY DEF PromiseInv, Books, FinishesOnce
<1>3. /\ \A u \in Groups : u # t => state'[u] = state[u] /\ finishes'[u] = finishes[u]
      /\ state'[t] = "committed"
      /\ \A u \in Groups, c \in Containers : u # t => (u \in layerTxns'[c] <=> u \in layerTxns[c])
  BY <1>1 DEF TxnInv, TxnTypes
<1>4. /\ operations[t] = <<>> => finishes'[t] = 1 /\ \A c \in Containers : t \notin layerTxns'[c]
      /\ operations[t] # <<>> => finishes'[t] = 0 /\ layerTxns' = layerTxns
  BY <1>1, <1>2 DEF TxnInv, TxnTypes
<1>5. FramesOK'
  <2>1. ASSUME NEW e \in Elements(stack) PROVE FrameOK(e)'
    <3>1. e \in Frame /\ FrameOK(e)
      BY DEF PromiseInv, FramesOK, TxnInv, TxnTypes, Elements
    <3>2. e.call = "complete" => e.txn \in Groups /\ e.txn # t
      BY <3>1, FrameParts DEF FrameOK, CompleteOK
    <3>3. e.call = "complete" => Undisturbed(e.txn)
      BY <1>3, <3>1, <3>2 DEF Undisturbed, FrameOK, CompleteOK
    <3> QED
      BY <3>1, <3>3, CalledSame, FrameStays DEF TxnInv
  <2> QED
    BY <1>1, <2>1 DEF FramesOK
<1>6. NilledCalled' /\ OpsDistinct' /\ CalledInOrder'
  BY NilledSame DEF PromiseInv, Books, OpsDistinct, CalledInOrder
<1>7. FinishesOnce'
  <2>1. operations[t] = <<>> => Len(called[t]) = Len(operations[t])
    BY DEF PromiseInv, Books, CalledInOrder, TxnInv, TxnTypes
  <2>2. \E c \in Containers : t \in layerTxns[c]
    BY <1>2 DEF PromiseInv, Books, FinishesOnce
  <2>3. ASSUME NEW u \in Groups
        PROVE  /\ finishes'[u] \in {0, 1}
               /\ finishes'[u] = 0 /\ state'[u] # "none" => \E c \in Containers : u \in layerTxns'[c]
               /\ finishes'[u] = 1 =>
                    /\ \A c \in Containers : u \notin layerTxns'[c]
                    /\ Len(called'[u]) = Len(operations'[u])
                    /\ state'[u] = "complete" \/ (state'[u] = "committed" /\ operations'[u] = <<>>)
    <3>1. CASE u = t
      BY <1>3, <1>4, <2>1, <2>2, <3>1
    <3>2. CASE u # t
      BY <1>3, <3>2 DEF PromiseInv, Books, FinishesOnce
    <3> QED
      BY <3>1, <3>2
  <2> QED
    BY <2>3 DEF FinishesOnce
<1>8. CalledWhileCompleting'
  <2>1. \A u \in Groups : finishes'[u] = 0 => finishes[u] = 0
    BY <1>2, <1>3
  <2> QED
    BY <1>1, <2>1 DEF PromiseInv, Books, CalledWhileCompleting
<1>9. Outcomes'
  <2>1. \A o \in Ops : NotRun(o)' <=> NotRun(o)
    BY DEF NotRun
  <2>2. \A o \in Ops : state[GroupOf[o]] \in {"canceled", "complete"} =>
                         state'[GroupOf[o]] \in {"canceled", "complete"}
    BY <1>3, PlacementAssumption
  <2> QED
    BY <2>1, <2>2 DEF PromiseInv, Books, Outcomes
<1>10. Drained'
  <2>1. CASE operations[t] = <<>>
    BY <1>1, <2>1 DEF PromiseInv, Books, Drained, AllRan
  <2>2. CASE operations[t] # <<>>
    <3>1. NotifyGroup[t] = t /\ t \in Notifies /\ notify(t)
      BY <1>1, <2>2, NotifyAssumption
    <3>2. CASE pending[t] = 0
      <4>1. notified' = Append(notified, t) /\ UNCHANGED notifyList
        BY <3>1, <3>2 DEF notify
      <4>2. Elements(notified') = Elements(notified) \cup {t}
        BY <3>1, <4>1, AppendElements DEF IInv, MainType
      <4>3. AllRan(t)'
        BY <1>9, <3>2, RanNext
      <4> QED
        BY <2>2, <4>1, <4>2, <4>3 DEF PromiseInv, Books, Drained, AllRan
    <3>3. CASE pending[t] # 0
      <4>1. notifyList' = [notifyList EXCEPT ![t] = Append(@, t)] /\ UNCHANGED notified
        BY <3>1, <3>3 DEF notify
      <4>2. \A u \in Groups : u # t => notifyList'[u] = notifyList[u]
        BY <4>1 DEF IInv, GroupType
      <4> QED
        BY <2>2, <4>1, <4>2 DEF PromiseInv, Books, Drained, AllRan
    <3> QED
      BY <3>2, <3>3
  <2> QED
    BY <2>1, <2>2
<1> QED
  BY <1>1, <1>5, <1>6, <1>7, <1>8, <1>9, <1>10 DEF PromiseInv, Books

LEMMA CancelTransactionsDelivers ==
  ASSUME IInv, TxnInv, PromiseInv, NEW c \in Containers, CancelTransactions(c), IInv', TxnInv'
  PROVE  PromiseInv'
<1>1. /\ stack \in Seq(Frame) /\ NoWait(stack) /\ NoRevisit(stack) /\ MainThreadFree
  BY ClientNoWait DEF TxnInv, TxnTypes, PromiseInv, CancelTransactions, ClientRuns
<1>2. PICK f \in Frame : f = CancelFrame(c)
  BY FramesAreFrames
<1>3. f.call = "cancel" /\ HeldOf(f) = {} /\ CompleteOf(f) = {}
  BY <1>2, CancelSets
<1>4. /\ UNCHANGED <<entryVars, workerVars, opState, asyncOpen, pending, releaseCalled,
                     group, waiting, woken, operations, nilled, outcome, called, current>>
      /\ IF current[c] = NoGroup
         THEN /\ stack' = Append(stack, f)
              /\ UNCHANGED <<state, finishes, layerTxns, notified, notifyList>>
         ELSE state[current[c]] = "open" /\ commit(current[c], Append(stack, f))
  BY <1>2 DEF CancelTransactions, Push
<1>5. CASE current[c] = NoGroup
  BY <1>1, <1>3, <1>4, <1>5, CallDelivers DEF queueVars, txnVars, groupVars, mainVars
<1>6. CASE current[c] # NoGroup
  <2> DEFINE rest == Append(stack, f)
  <2>1. PICK t \in Groups : t = current[c]
    BY <1>6 DEF TxnInv, TxnTypes
  <2>2. state[t] = "open" /\ commit(t, rest)
    BY <1>4, <1>6, <2>1
  <2>3. /\ NoRevisit(rest) /\ WaitShape(rest) /\ Elements(rest) = Elements(stack) \cup {f}
    BY <1>1, <1>3, CallsOn, AppendCalls
  <2>4. Completes(rest) = Completes(stack) \cup CompleteOf(f)
    BY <1>1, AppendSets
  <2>5. FrameOK(f)'
    BY <1>3 DEF FrameOK
  <2> HIDE DEF rest
  <2> QED
    BY <1>3, <1>4, <2>2, <2>3, <2>4, <2>5, CommitDelivers DEF workerVars
<1> QED
  BY <1>5, <1>6

LEMMA CommitNextDelivers ==
  ASSUME IInv, TxnInv, PromiseInv, CommitNext, IInv', TxnInv'
  PROVE  PromiseInv'
<1> DEFINE R == Under(stack)
           f == Last(stack)
<1>1. /\ R \in Seq(Frame) /\ f \in Frame /\ f.call = "commit" /\ Inside("commit")
      /\ Top = f /\ Pop = R /\ stack # <<>>
      /\ Completes(stack) = Completes(R) \cup CompleteOf(f)
  BY Innermost DEF CommitNext
<1>2. f.todo \in SUBSET Containers /\ CompleteOf(f) = {}
  BY <1>1, FrameParts DEF CompleteOf
<1>3. /\ NoRevisit(R) /\ Elements(R) \subseteq Elements(stack)
      /\ NoWait(R) \/ (R # <<>> /\ NoWait(Under(R)))
  BY <1>1, TopCall DEF PromiseInv, WaitShape
<1>4. PICK c \in f.todo :
        LET rest == Append(R, CommitFrame(f.todo \ {c})) IN
        IF current[c] = NoGroup
        THEN /\ stack' = rest
             /\ UNCHANGED <<state, finishes, layerTxns, notified, notifyList>>
        ELSE commit(current[c], rest)
  BY <1>1 DEF CommitNext
<1>5. /\ waiting = NoGroup
      /\ UNCHANGED <<entryVars, workerVars, opState, asyncOpen, pending, releaseCalled,
                     group, waiting, woken, operations, nilled, outcome, called>>
  BY DEF CommitNext, MainThreadFree
<1> HIDE DEF R, f
<1>6. c \in Containers
  BY <1>2
<1>7. PICK x \in SUBSET Containers : x = f.todo \ {c}
  BY <1>2
<1>8. PICK h \in Frame : h = CommitFrame(x)
  BY FramesAreFrames
<1>9. h.call = "commit" /\ HeldOf(h) = {} /\ CompleteOf(h) = {}
  BY <1>8, CommitSets
<1> DEFINE rest == Append(R, h)
<1>10. IF current[c] = NoGroup
       THEN /\ stack' = rest
            /\ UNCHANGED <<state, finishes, layerTxns, notified, notifyList>>
       ELSE commit(current[c], rest)
  BY <1>4, <1>7, <1>8
<1>11. /\ NoRevisit(rest) /\ WaitShape(rest) /\ Elements(rest) = Elements(R) \cup {h}
  BY <1>1, <1>3, <1>9, CallsOn, AppendCalls
<1>12. Completes(rest) = Completes(R) \cup CompleteOf(h)
  BY <1>1, AppendSets
<1>13. FrameOK(h)'
  BY <1>9 DEF FrameOK
<1> HIDE DEF rest
<1>14. CASE current[c] = NoGroup
  <2>1. stack' = rest /\ UNCHANGED <<state, finishes, layerTxns, notified, notifyList>>
    BY <1>10, <1>14
  <2>2. \A e \in Elements(R) : e \in Frame /\ FrameOK(e)
    BY <1>1, <1>3 DEF PromiseInv, FramesOK, Elements
  <2>3. \A e \in Elements(R) : FrameOK(e)'
    BY <1>5, <2>1, <2>2, FramesSame DEF TxnInv
  <2>4. NilledCalled'
    BY <1>5, NilledSame DEF PromiseInv, Books
  <2> QED
    BY <1>1, <1>2, <1>5, <1>9, <1>11, <1>12, <1>13, <2>1, <2>3, <2>4, CallsChange
       DEF PromiseInv, workerVars
<1>15. CASE current[c] # NoGroup
  <2>1. PICK t \in Groups : t = current[c]
    BY <1>6, <1>15 DEF TxnInv, TxnTypes
  <2>2. commit(t, rest)
    BY <1>10, <1>15, <2>1
  <2>3. Canceling(stack) = {}
    BY <1>1, Innermost DEF CancelOf, f
  <2>4. state[t] = "open"
    BY <1>6, <1>15, <2>1, <2>3 DEF TxnInv, Links, LayersOK
  <2> QED
    BY <1>1, <1>2, <1>3, <1>5, <1>9, <1>11, <1>12, <1>13, <2>2, <2>4, CommitDelivers DEF workerVars
<1> QED
  BY <1>14, <1>15

\* A cancel reaches only transactions that are not finished.
LEMMA CancelRestDelivers ==
  ASSUME TxnInv, PromiseInv, CancelRest
  PROVE  PromiseInv'
<1> DEFINE R == Under(stack)
           f == Last(stack)
           l == f.layer
<1>1. /\ R \in Seq(Frame) /\ f \in Frame /\ f.call = "cancel"
      /\ Top = f /\ Pop = R
      /\ Completes(stack) = Completes(R) \cup CompleteOf(f)
  BY Innermost DEF CancelRest
<1>2. l \in Containers /\ CompleteOf(f) = {}
  BY <1>1, FrameParts DEF CompleteOf
<1>3. /\ NoRevisit(R) /\ WaitShape(R) /\ Elements(R) \subseteq Elements(stack)
  BY TopCall DEF CancelRest
<1>4. /\ state' = [t \in Groups |-> IF t \in layerTxns[l] THEN "canceled" ELSE state[t]]
      /\ stack' = R
      /\ UNCHANGED <<queueVars, operations, nilled, outcome, called, finishes, layerTxns>>
  BY <1>1 DEF CancelRest
<1> HIDE DEF R, f, l
<1>5. \A t \in Groups : state'[t] = IF t \in layerTxns[l] THEN "canceled" ELSE state[t]
  BY <1>4
<1>6. \A t \in layerTxns[l] : state[t] \in {"open", "committed", "canceled"}
  BY <1>2 DEF TxnInv, Links, LayersOK
<1>7. FramesOK'
  <2>1. ASSUME NEW e \in Elements(R) PROVE FrameOK(e)'
    <3>1. e \in Frame /\ FrameOK(e)
      BY <1>1, <1>3 DEF PromiseInv, FramesOK, Elements
    <3>2. e.call = "complete" => e.txn \in Groups
      BY <3>1, FrameParts
    <3>3. e.call = "complete" => Undisturbed(e.txn)
      BY <1>4, <1>5, <3>1, <3>2 DEF Undisturbed, FrameOK, CompleteOK
    <3> QED
      BY <1>4, <3>1, <3>3, CalledSame, FrameStays DEF TxnInv, queueVars, mainVars
  <2> QED
    BY <1>4, <2>1 DEF FramesOK
<1>8. NilledCalled' /\ OpsDistinct' /\ CalledInOrder'
  BY <1>4, NilledSame DEF PromiseInv, Books, OpsDistinct, CalledInOrder
<1>9. FinishesOnce'
  <2>1. \A t \in Groups : finishes[t] = 1 => t \notin layerTxns[l]
    BY <1>2 DEF PromiseInv, Books, FinishesOnce
  <2> QED
    BY <1>4, <1>5, <1>6, <2>1 DEF PromiseInv, Books, FinishesOnce
<1>10. CalledWhileCompleting'
  BY <1>1, <1>2, <1>4 DEF PromiseInv, Books, CalledWhileCompleting
<1>11. Drained'
  BY <1>4 DEF PromiseInv, Books, Drained, AllRan, queueVars, groupVars, mainVars
<1>12. Outcomes'
  <2>1. \A o \in Ops : NotRun(o)' <=> NotRun(o)
    BY <1>4 DEF NotRun, queueVars, workerVars
  <2>2. \A o \in Ops : state[GroupOf[o]] \in {"canceled", "complete"} =>
                         state'[GroupOf[o]] \in {"canceled", "complete"}
    BY <1>5, PlacementAssumption
  <2> QED
    BY <1>4, <2>1, <2>2 DEF PromiseInv, Books, Outcomes
<1> QED
  BY <1>3, <1>4, <1>7, <1>8, <1>9, <1>10, <1>11, <1>12 DEF PromiseInv, Books

\* A transaction that a layer takes, or has already, is held by it.
LEMMA TakeHolds ==
  ASSUME IInv, TxnInv, PromiseInv, ClientRuns, NEW c \in Containers, NEW t \in Groups,
         asyncTransaction(c, t), UNCHANGED stack
  PROVE  /\ state'[t] = "open" /\ ~Closed(t)
         /\ \A u \in Groups : u # t => state'[u] = state[u]
         /\ \A d \in Containers, u \in Groups :
              u # t => (u \in layerTxns'[d] <=> u \in layerTxns[d])
         /\ t \in layerTxns'[c]
         /\ finishes[t] = 0 /\ t \notin Completes(stack)
         /\ t \notin Elements(notified) /\ t \notin Elements(notifyList[t])
<1>1. /\ state'[t] = "open" /\ ~Closed(t)
      /\ \A u \in Groups : u # t => state'[u] = state[u]
  BY TakeDoes
<1>2. Canceling(stack) = {}
  BY Quiet DEF ClientRuns
<1>3. /\ current[c] = t \/ (current[c] = NoGroup /\ state[t] = "none")
      /\ layerTxns' = [layerTxns EXCEPT ![c] = IF current[c] = t THEN @ ELSE @ \cup {t}]
      /\ t # NoGroup
  BY NullAssumption DEF asyncTransaction
<1>4. current[c] = t => t \in layerTxns[c]
  BY <1>2, <1>3 DEF TxnInv, Links, LayersOK
<1>5. \A d \in Containers :
        layerTxns'[d] = IF d = c /\ current[c] # t THEN layerTxns[c] \cup {t} ELSE layerTxns[d]
  BY <1>3 DEF TxnInv, TxnTypes
<1>6. finishes[t] = 0
  BY <1>1 DEF Closed, PromiseInv, Books, FinishesOnce
<1>7. /\ t \notin Completes(stack)
      /\ t \notin Elements(notified) /\ t \notin Elements(notifyList[t])
  BY <1>1 DEF TxnInv, CompletingClosed, Links, NotifyKnown
<1> QED
  BY <1>1, <1>4, <1>5, <1>6, <1>7

LEMMA TakeTransactionDelivers ==
  ASSUME IInv, TxnInv, PromiseInv, NEW c \in Containers, NEW t \in Groups, TakeTransaction(c, t)
  PROVE  PromiseInv'
<1>1. /\ ClientRuns /\ asyncTransaction(c, t)
      /\ UNCHANGED <<queueVars, operations, outcome, called, finishes, stack>>
      /\ nilled' = nilled
  BY DEF TakeTransaction
<1>2. /\ state'[t] = "open" /\ ~Closed(t)
      /\ \A u \in Groups : u # t => state'[u] = state[u]
      /\ \A d \in Containers, u \in Groups :
           u # t => (u \in layerTxns'[d] <=> u \in layerTxns[d])
      /\ t \in layerTxns'[c]
      /\ finishes[t] = 0 /\ t \notin Completes(stack)
  BY <1>1, TakeHolds
<1>3. FramesOK'
  <2>1. ASSUME NEW e \in Elements(stack) PROVE FrameOK(e)'
    <3>1. e \in Frame /\ FrameOK(e)
      BY DEF TxnInv, TxnTypes, PromiseInv, FramesOK, Elements
    <3>2. e.call = "complete" => e.txn \in Groups /\ e.txn # t
      BY <1>2, <3>1, FrameParts DEF FrameOK, CompleteOK, Closed
    <3>3. e.call = "complete" => Undisturbed(e.txn)
      BY <1>1, <1>2, <3>1, <3>2 DEF Undisturbed, FrameOK, CompleteOK
    <3> QED
      BY <1>1, <3>1, <3>3, CalledSame, FrameStays DEF TxnInv, queueVars, mainVars
  <2> QED
    BY <1>1, <2>1 DEF FramesOK
<1>4. NilledCalled' /\ OpsDistinct' /\ CalledInOrder' /\ CalledWhileCompleting'
  BY <1>1, NilledSame DEF PromiseInv, Books, OpsDistinct, CalledInOrder, CalledWhileCompleting
<1>5. FinishesOnce'
  BY <1>1, <1>2 DEF PromiseInv, Books, FinishesOnce
<1>6. Drained'
  BY <1>1 DEF PromiseInv, Books, Drained, AllRan, queueVars, groupVars, mainVars
<1>7. Outcomes'
  <2>1. \A o \in Ops : NotRun(o)' <=> NotRun(o)
    BY <1>1 DEF NotRun, queueVars, workerVars
  <2>2. \A o \in Ops : state[GroupOf[o]] \in {"canceled", "complete"} =>
                         state'[GroupOf[o]] \in {"canceled", "complete"}
    BY <1>2, PlacementAssumption DEF Closed
  <2> QED
    BY <1>1, <2>1, <2>2 DEF PromiseInv, Books, Outcomes
<1> QED
  BY <1>1, <1>3, <1>4, <1>5, <1>6, <1>7 DEF PromiseInv, Books

\* What adding an operation does to it and to its transaction.
LEMMA AddDoes ==
  ASSUME IInv, TxnInv, NEW c \in Containers, NEW o \in Ops, AddOperation(c, o)
  PROVE  /\ operations'[GroupOf[o]] = Append(operations[GroupOf[o]], o)
         /\ \A u \in Groups : u # GroupOf[o] => operations'[u] = operations[u]
         /\ o \notin Elements(operations[GroupOf[o]])
         /\ \A x \in Ops : NotRun(x)' <=> NotRun(x)
<1> DEFINE t == GroupOf[o]
<1>1. /\ opState[o] = "new"
      /\ operations' = [operations EXCEPT ![t] = Append(@, o)]
      /\ UNCHANGED <<op, asyncOpen, releaseCalled, mainVars>>
  BY DEF AddOperation
<1>2. PICK tracking \in BOOLEAN : schedule(o, tracking)
  BY DEF AddOperation
<1>3. t \in Groups /\ QueueOf[o] \in Queues
  BY PlacementAssumption
<1>4. spawnThread(QueueOf[o], tracking) /\ opState' = [opState EXCEPT ![o] = "queued"]
  BY <1>2 DEF schedule
<1>5. \A a \in Queues, b \in Threads :
        pc'[a][b] = pc[a][b] \/ (pc[a][b] = "idle" /\ pc'[a][b] = "dispatched")
  BY <1>1, <1>3, <1>4, SpawnKeeps DEF mainVars
<1>6. \A x \in Ops : opState'[x] = IF x = o THEN "queued" ELSE opState[x]
  BY <1>4 DEF IInv, OpType
<1>7. \A x \in Ops : NotRun(x)' <=> NotRun(x)
  BY <1>1, <1>5, <1>6 DEF NotRun
<1>8. o \notin Elements(operations[t])
  BY <1>1 DEF TxnInv, Links, OpsKnown
<1>9. /\ operations'[t] = Append(operations[t], o)
      /\ \A u \in Groups : u # t => operations'[u] = operations[u]
  BY <1>1, <1>3 DEF TxnInv, TxnTypes
<1> QED
  BY <1>7, <1>8, <1>9

LEMMA AddOperationDelivers ==
  ASSUME IInv, TxnInv, PromiseInv, NEW c \in Containers, NEW o \in Ops, AddOperation(c, o)
  PROVE  PromiseInv'
<1>1. PICK t \in Groups : t = GroupOf[o]
  BY PlacementAssumption
<1>2. /\ ClientRuns /\ asyncTransaction(c, t)
      /\ UNCHANGED <<notifyList, mainVars, nilled, outcome, called, finishes, stack>>
  BY <1>1 DEF AddOperation
<1>3. /\ state'[t] = "open" /\ ~Closed(t)
      /\ \A u \in Groups : u # t => state'[u] = state[u]
      /\ \A d \in Containers, u \in Groups :
           u # t => (u \in layerTxns'[d] <=> u \in layerTxns[d])
      /\ t \in layerTxns'[c]
      /\ finishes[t] = 0 /\ t \notin Completes(stack)
      /\ t \notin Elements(notified) /\ t \notin Elements(notifyList[t])
  BY <1>2, TakeHolds
<1>4. /\ operations'[t] = Append(operations[t], o)
      /\ \A u \in Groups : u # t => operations'[u] = operations[u]
      /\ o \notin Elements(operations[t])
      /\ \A x \in Ops : NotRun(x)' <=> NotRun(x)
  BY <1>1, AddDoes
<1>5. FramesOK'
  <2>1. ASSUME NEW e \in Elements(stack) PROVE FrameOK(e)'
    <3>1. e \in Frame /\ FrameOK(e)
      BY DEF TxnInv, TxnTypes, PromiseInv, FramesOK, Elements
    <3>2. e.call = "complete" => e.txn \in Groups /\ e.txn # t
      BY <1>3, <3>1, FrameParts DEF FrameOK, CompleteOK, Closed
    <3>3. e.call = "complete" => Undisturbed(e.txn)
      BY <1>2, <1>3, <1>4, <3>1, <3>2 DEF Undisturbed, FrameOK, CompleteOK
    <3>4. e.call # "wait"
      BY <1>2, ClientNoWait DEF ClientRuns, NoWait
    <3> QED
      BY <1>2, <3>1, <3>3, <3>4, CalledSame, FrameStays DEF TxnInv
  <2> QED
    BY <1>2, <2>1 DEF FramesOK
<1>6. NilledCalled' /\ CalledWhileCompleting'
  BY <1>2, NilledSame DEF PromiseInv, Books, CalledWhileCompleting
<1>7. OpsDistinct'
  <2>1. operations[t] \in Seq(Ops) /\ Distinct(operations[t])
    BY DEF TxnInv, TxnTypes, PromiseInv, Books, OpsDistinct
  <2>2. Distinct(operations'[t])
    BY <1>4, <2>1, AppendElements
  <2> QED
    BY <1>4, <2>2 DEF PromiseInv, Books, OpsDistinct
<1>8. CalledInOrder'
  <2>1. called[t] = <<>>
    BY <1>3 DEF PromiseInv, Books, CalledWhileCompleting
  <2>2. Len(operations'[t]) \in Nat /\ Len(<<>>) = 0 /\ DOMAIN <<>> = {}
    BY <1>4 DEF TxnInv, TxnTypes
  <2> QED
    BY <1>2, <1>4, <2>1, <2>2 DEF PromiseInv, Books, CalledInOrder
<1>9. FinishesOnce'
  BY <1>2, <1>3, <1>4 DEF PromiseInv, Books, FinishesOnce
<1>10. Drained'
  BY <1>2, <1>3, <1>4 DEF PromiseInv, Books, Drained, AllRan, mainVars
<1>11. Outcomes'
  <2>1. \A x \in Ops : state[GroupOf[x]] \in {"canceled", "complete"} =>
                         state'[GroupOf[x]] \in {"canceled", "complete"}
    BY <1>3, PlacementAssumption DEF Closed
  <2> QED
    BY <1>2, <1>4, <2>1 DEF PromiseInv, Books, Outcomes
<1> QED
  BY <1>2, <1>5, <1>6, <1>7, <1>8, <1>9, <1>10, <1>11 DEF PromiseInv, Books

-----------------------------------------------------------------------------
(* The workers, asynchronous operations, and the end of a wait.            *)

\* A group is drained when its notify list is dispatched or its wait returns,
\* and then all operations of its transaction have run.
LEMMA WorkDelivers ==
  ASSUME TxnInv, PromiseInv, IInv', TxnInv', Outcomes',
         UNCHANGED <<state, operations, nilled, called, finishes, layerTxns, stack>>,
         \A o \in Ops : outcome[o] # "none" => outcome'[o] = outcome[o],
         waiting' = waiting \/ (waiting \in Groups /\ pending'[waiting] = 0),
         \A t \in Groups :
           t \in Elements(notified') =>
             t \in Elements(notified) \/ (t \in Elements(notifyList[t]) /\ pending'[t] = 0),
         \A t \in Groups : t \in Elements(notifyList'[t]) => t \in Elements(notifyList[t])
  PROVE  PromiseInv'
<1>1. \A t \in Groups : pending'[t] = 0 => AllRan(t)'
  BY RanNext
<1>2. FramesOK'
  <2>1. ASSUME NEW e \in Elements(stack) PROVE FrameOK(e)'
    <3>1. e \in Frame /\ FrameOK(e)
      BY DEF TxnInv, TxnTypes, PromiseInv, FramesOK, Elements
    <3>2. e.call = "complete" => e.txn \in Groups
      BY <3>1, FrameParts
    <3>3. e.call = "complete" => Undisturbed(e.txn)
      BY <3>1, <3>2 DEF Undisturbed, FrameOK, CompleteOK
    <3>4. waiting = e.txn => waiting' = e.txn \/ AllRan(e.txn)'
      BY <1>1
    <3> QED
      BY <3>1, <3>3, <3>4, CalledSame, FrameStays DEF TxnInv
  <2> QED
    BY <2>1 DEF FramesOK
<1>3. NilledCalled' /\ OpsDistinct' /\ CalledInOrder' /\ FinishesOnce' /\ CalledWhileCompleting'
  BY NilledSame DEF PromiseInv, Books, OpsDistinct, CalledInOrder, FinishesOnce,
     CalledWhileCompleting
<1>4. Drained'
  <2>1. \A t \in Groups : Elements(operations[t]) \subseteq Ops
    BY DEF TxnInv, TxnTypes, Elements
  <2>2. \A t \in Groups : AllRan(t) => AllRan(t)'
    BY <2>1 DEF AllRan
  <2> QED
    BY <1>1, <2>2 DEF PromiseInv, Books, Drained
<1> QED
  BY <1>2, <1>3, <1>4 DEF PromiseInv, Books

LEMMA WakeDelivers ==
  ASSUME TxnInv, PromiseInv, Wake, IInv, IInv', TxnInv'
  PROVE  PromiseInv'
<1>1. /\ waiting # NoGroup /\ waiting' = IF pending[waiting] > 0 THEN waiting ELSE NoGroup
      /\ UNCHANGED <<entryVars, workerVars, opState, asyncOpen, groupVars, notified>>
      /\ UNCHANGED <<txnVars, layerVars, stack>>
  BY DEF Wake, WaitWakes
<1>2. Outcomes'
  BY <1>1, OutcomesStay DEF PromiseInv, Books, workerVars, txnVars
<1>3. waiting' = waiting \/ (waiting \in Groups /\ pending'[waiting] = 0)
  BY <1>1 DEF IInv, MainType, GroupType, groupVars
<1> QED
  BY <1>1, <1>2, <1>3, WorkDelivers DEF groupVars, txnVars, layerVars

\* Nothing that the promise is about changes.
LEMMA IdleDelivers ==
  ASSUME TxnInv, PromiseInv, IInv', TxnInv',
         UNCHANGED <<entryVars, workerVars, opState, asyncOpen, pending, notifyList, mainVars,
                     txnVars, layerVars, stack>>
  PROVE  PromiseInv'
<1>1. Outcomes'
  BY OutcomesStay DEF PromiseInv, Books, workerVars, txnVars
<1> QED
  BY <1>1, WorkDelivers DEF mainVars, txnVars, layerVars

\* leave() dispatches the block of a transaction whose last operation left.
LEMMA LeaveDrains ==
  ASSUME IInv, NEW g \in Groups, leave(g)
  PROVE  /\ \A t \in Groups :
              t \in Elements(notified') =>
                t \in Elements(notified) \/ (t \in Elements(notifyList[t]) /\ pending'[t] = 0)
         /\ \A t \in Groups : t \in Elements(notifyList'[t]) => t \in Elements(notifyList[t])
<1>1. pending'[g] = pending[g] - 1 /\ pending[g] \in Nat
  BY LeaveCases DEF IInv, GroupType
<1>2. CASE pending[g] # 1
  BY <1>2, LeaveCases DEF IInv
<1>3. CASE pending[g] = 1
  <2>1. /\ notified' = notified \o notifyList[g]
        /\ notifyList' = [notifyList EXCEPT ![g] = <<>>]
    BY <1>3, LeaveCases DEF IInv
  <2>2. notified \in Seq(Groups) /\ notifyList[g] \in Seq(Groups)
    BY NotifyAssumption DEF IInv, MainType, GroupType
  <2>3. Elements(notified') = Elements(notified) \cup Elements(notifyList[g])
    BY <2>1, <2>2, ConcatElements
  <2>4. \A t \in Groups : t \in Elements(notifyList[g]) => t = g
    BY NotifyAssumption DEF IInv, NotifyHome, Elements
  <2>5. \A t \in Groups : notifyList'[t] = notifyList[t] \/ notifyList'[t] = <<>>
    BY <2>1 DEF IInv, GroupType
  <2>6. Elements(<<>>) = {} /\ pending'[g] = 0
    BY <1>1, <1>3 DEF Elements
  <2> QED
    BY <2>3, <2>4, <2>5, <2>6
<1> QED
  BY <1>2, <1>3

\* An operation that has just run, and no other.
LEMMA OutcomeKnown ==
  ASSUME TxnTypes, Outcomes, NEW o \in Ops, NEW v \in {"ran", "skipped"},
         outcome[o] = "none", v = "skipped" => state[GroupOf[o]] = "canceled",
         outcome' = [outcome EXCEPT ![o] = v], UNCHANGED state,
         \A x \in Ops : NotRun(x)' <=> NotRun(x) /\ x # o
  PROVE  Outcomes' /\ \A x \in Ops : outcome[x] # "none" => outcome'[x] = outcome[x]
<1>1. \A x \in Ops : outcome'[x] = IF x = o THEN v ELSE outcome[x]
  BY DEF TxnTypes
<1> QED
  BY <1>1 DEF Outcomes

\* The block of a synchronous operation, or of a canceled one, returns.
LEMMA RunBlockDelivers ==
  ASSUME IInv, TxnInv, PromiseInv, NEW q \in Queues, NEW s \in Threads, RunBlock(q, s),
         NEW v \in {"ran", "skipped"}, v = "skipped" => state[GroupOf[op[q][s]]] = "canceled",
         outcome' = [outcome EXCEPT ![op[q][s]] = v], UNCHANGED state
  PROVE  Outcomes' /\ \A x \in Ops : outcome[x] # "none" => outcome'[x] = outcome[x]
<1>1. /\ pc[q][s] = "running" /\ pc' = [pc EXCEPT ![q][s] = "leaving"]
      /\ UNCHANGED <<op, opState, asyncOpen>>
  BY DEF RunBlock
<1>2. op[q][s] \in Ops
  BY <1>1 DEF IInv, WorkersHold, Holds
<1>3. PICK o \in Ops : o = op[q][s]
  BY <1>2
<1>4. /\ opState[o] = "running" /\ o \notin asyncOpen
      /\ \A a \in Queues, b \in Threads :
           pc[a][b] = "running" /\ op[a][b] = o => a = q /\ b = s
  BY <1>1, <1>3 DEF IInv, WorkersHold, Busy
<1>5. \A a \in Queues, b \in Threads :
        pc'[a][b] = "running" <=> pc[a][b] = "running" /\ ~(a = q /\ b = s)
  BY <1>1 DEF IInv, WorkerType
<1>6. \A x \in Ops : NotRun(x)' <=> NotRun(x) /\ x # o
  BY <1>1, <1>3, <1>4, <1>5 DEF NotRun
<1>7. outcome[o] = "none"
  BY <1>1, <1>3 DEF PromiseInv, Books, Outcomes, NotRun
<1> QED
  BY <1>3, <1>6, <1>7, OutcomeKnown DEF TxnInv, PromiseInv, Books

\* What a worker does besides running blocks leaves what has run as it is.
LEMMA WorkerRuns ==
  ASSUME IInv, NEW q \in Queues, NEW s \in Threads,
         PopOperation(q, s) \/ ExitThread(q, s) \/ RunAsyncBlock(q, s)
           \/ LeaveGroup(q, s) \/ FreeBlock(q, s)
  PROVE  \A x \in Ops : NotRun(x)' <=> NotRun(x)
<1>1. CASE PopOperation(q, s)
  <2>1. PICK o : o = NextOperation(q, respect[q][s])
    OBVIOUS
  <2>2. /\ op' = [op EXCEPT ![q][s] = o] /\ opState' = [opState EXCEPT ![o] = "running"]
        /\ pc' = [pc EXCEPT ![q][s] = "running"]
        /\ opQueue[q] # <<>> /\ pc[q][s] # "running" /\ UNCHANGED asyncOpen
    BY <1>1, <2>1 DEF PopOperation, CanRun
  <2>3. o \in Ops /\ o \in Elements(opQueue[q])
    BY <2>1, <2>2, NextIsFirst DEF IInv, FlagsType
  <2>4. opState[o] = "queued"
    BY <2>3 DEF IInv, ListsAgree
  <2>5. \A a \in Queues, b \in Threads :
          /\ op'[a][b] = IF a = q /\ b = s THEN o ELSE op[a][b]
          /\ pc'[a][b] = IF a = q /\ b = s THEN "running" ELSE pc[a][b]
    BY <2>2 DEF IInv, WorkerType
  <2>6. \A x \in Ops : opState'[x] = IF x = o THEN "running" ELSE opState[x]
    BY <2>2 DEF IInv, OpType
  <2> QED
    BY <2>2, <2>3, <2>4, <2>5, <2>6 DEF NotRun
<1>2. CASE ExitThread(q, s)
  <2>1. /\ UNCHANGED <<op, opState, asyncOpen>> /\ pc' = [pc EXCEPT ![q][s] = "idle"]
        /\ pc[q][s] # "running"
    BY <1>2 DEF ExitThread, CanRun
  <2>2. \A a \in Queues, b \in Threads : pc'[a][b] = "running" <=> pc[a][b] = "running"
    BY <2>1 DEF IInv, WorkerType
  <2> QED
    BY <2>1, <2>2 DEF NotRun
<1>3. CASE RunAsyncBlock(q, s)
  <2>1. /\ UNCHANGED <<op, opState>> /\ pc' = [pc EXCEPT ![q][s] = "leaving"]
        /\ pc[q][s] = "running" /\ asyncOpen' = asyncOpen \cup {op[q][s]}
    BY <1>3 DEF RunAsyncBlock
  <2>2. \A a \in Queues, b \in Threads :
          pc'[a][b] = "running" <=> pc[a][b] = "running" /\ ~(a = q /\ b = s)
    BY <2>1 DEF IInv, WorkerType
  <2> QED
    BY <2>1, <2>2 DEF NotRun
<1>4. CASE LeaveGroup(q, s)
  <2>1. /\ op[q][s] \in Ops /\ opState[op[q][s]] = "running"
        /\ opState' = [opState EXCEPT ![op[q][s]] = "left"]
        /\ pc[q][s] = "leaving" /\ pc' = [pc EXCEPT ![q][s] = "freeing"]
        /\ UNCHANGED <<op, asyncOpen>>
    BY <1>4 DEF LeaveGroup, IInv, WorkersHold, Holds, Busy
  <2>2. \A x \in Ops : opState'[x] = IF x = op[q][s] THEN "left" ELSE opState[x]
    BY <2>1 DEF IInv, OpType
  <2>3. \A a \in Queues, b \in Threads : pc'[a][b] = "running" <=> pc[a][b] = "running"
    BY <2>1 DEF IInv, WorkerType
  <2> QED
    BY <2>1, <2>2, <2>3 DEF NotRun
<1>5. CASE FreeBlock(q, s)
  <2>1. /\ op' = [op EXCEPT ![q][s] = NoOp] /\ UNCHANGED <<opState, asyncOpen>>
        /\ pc[q][s] = "freeing" /\ pc' = [pc EXCEPT ![q][s] = "polling"]
    BY <1>5 DEF FreeBlock
  <2>2. \A a \in Queues, b \in Threads :
          /\ pc'[a][b] = "running" <=> pc[a][b] = "running"
          /\ pc[a][b] = "running" => op'[a][b] = op[a][b]
    BY <2>1 DEF IInv, WorkerType
  <2> QED
    BY <2>1, <2>2 DEF NotRun
<1> QED
  BY <1>1, <1>2, <1>3, <1>4, <1>5

LEMMA TxnWorkerDelivers ==
  ASSUME IInv, TxnInv, PromiseInv, NEW q \in Queues, NEW s \in Threads, TxnWorker(q, s),
         IInv', TxnInv'
  PROVE  PromiseInv'
<1>1. UNCHANGED <<state, operations, nilled, called, finishes, layerVars, stack>>
  BY DEF TxnWorker
<1>2. Worker(q, s) /\ waiting' = waiting
  BY TxnWorkerKeeps, WorkerHandsOn
<1>3. Outcomes' /\ \A x \in Ops : outcome[x] # "none" => outcome'[x] = outcome[x]
  <2>1. CASE /\ PopOperation(q, s) \/ ExitThread(q, s) \/ RunAsyncBlock(q, s)
                  \/ LeaveGroup(q, s) \/ FreeBlock(q, s)
             /\ UNCHANGED outcome
    BY <1>1, <2>1, WorkerRuns DEF PromiseInv, Books, Outcomes
  <2>2. ASSUME NEW v \in {"ran", "skipped"}, RunBlock(q, s),
               v = "skipped" => state[GroupOf[op[q][s]]] = "canceled",
               outcome' = [outcome EXCEPT ![op[q][s]] = v]
        PROVE  Outcomes' /\ \A x \in Ops : outcome[x] # "none" => outcome'[x] = outcome[x]
    BY <1>1, <2>2, RunBlockDelivers
  <2> QED
    BY <2>1, <2>2 DEF TxnWorker, RunExecutionBlock
<1>4. /\ \A t \in Groups :
           t \in Elements(notified') =>
             t \in Elements(notified) \/ (t \in Elements(notifyList[t]) /\ pending'[t] = 0)
      /\ \A t \in Groups : t \in Elements(notifyList'[t]) => t \in Elements(notifyList[t])
  <2>1. CASE LeaveGroup(q, s)
    <3>1. leave(GroupOf[op[q][s]]) /\ GroupOf[op[q][s]] \in Groups
      BY <2>1, PlacementAssumption DEF LeaveGroup, IInv, WorkersHold, Holds
    <3> QED
      BY <3>1, LeaveDrains
  <2>2. CASE ~LeaveGroup(q, s)
    BY <1>2, <2>2 DEF Worker, PopOperation, ExitThread, RunBlock, RunAsyncBlock, FreeBlock,
       groupVars, mainVars
  <2> QED
    BY <2>1, <2>2
<1> QED
  BY <1>1, <1>2, <1>3, <1>4, WorkDelivers DEF layerVars

LEMMA AsyncValueDelivers ==
  ASSUME IInv, TxnInv, PromiseInv, NEW o \in Ops, AsyncValue(o), IInv', TxnInv'
  PROVE  PromiseInv'
<1>1. /\ o \in asyncOpen /\ leave(GroupOf[o]) /\ asyncOpen' = asyncOpen \ {o}
      /\ outcome' = [outcome EXCEPT ![o] = "ran"]
      /\ UNCHANGED <<workerVars, opState, waiting>>
      /\ UNCHANGED <<state, operations, nilled, called, finishes, layerVars, stack>>
  BY DEF AsyncValue, CompleteAsync
<1>2. GroupOf[o] \in Groups
  BY PlacementAssumption
<1>3. opState[o] \in {"running", "left"}
  BY <1>1 DEF IInv, AsyncStarted
<1>4. \A x \in Ops : NotRun(x)' <=> NotRun(x) /\ x # o
  BY <1>1, <1>3 DEF NotRun, IInv, WorkersHold, workerVars
<1>5. outcome[o] = "none"
  BY <1>1 DEF PromiseInv, Books, Outcomes, NotRun
<1>6. Outcomes' /\ \A x \in Ops : outcome[x] # "none" => outcome'[x] = outcome[x]
  BY <1>1, <1>4, <1>5, OutcomeKnown DEF TxnInv, PromiseInv, Books
<1> QED
  BY <1>1, <1>2, <1>6, LeaveDrains, WorkDelivers DEF layerVars

-----------------------------------------------------------------------------
(* The invariant is inductive.                                             *)

LEMMA InitPromiseInv == TxnInit => PromiseInv
<1> SUFFICES ASSUME TxnInit PROVE PromiseInv
  OBVIOUS
<1>1. /\ opState = [o \in Ops |-> "new"] /\ asyncOpen = {}
      /\ notifyList = [g \in Groups |-> <<>>] /\ notified = <<>>
  BY DEF TxnInit, Init
<1>2. NoRevisit(stack) /\ WaitShape(stack) /\ Elements(<<>>) = {} /\ Completes(stack) = {}
  BY NoCalls, EmptySets DEF TxnInit
<1>3. FramesOK
  BY <1>2 DEF TxnInit, FramesOK
<1>4. DOMAIN <<>> = {} /\ Len(<<>>) = 0
  OBVIOUS
<1>5. NilledCalled /\ OpsDistinct /\ CalledInOrder
  BY <1>4 DEF TxnInit, NilledCalled, OpsDistinct, Distinct, CalledInOrder
<1>6. FinishesOnce /\ CalledWhileCompleting
  BY DEF TxnInit, FinishesOnce, CalledWhileCompleting
<1>7. Drained
  BY <1>1, <1>2 DEF Drained
<1>8. Outcomes
  BY <1>1 DEF TxnInit, Outcomes, NotRun
<1> QED
  BY <1>2, <1>3, <1>5, <1>6, <1>7, <1>8 DEF PromiseInv, Books

LEMMA PromiseNextKeeps ==
  ASSUME NoReenter, IInv, TxnInv, PromiseInv, [TxnNext]_allVars
  PROVE  PromiseInv'
<1>1. IInv' /\ TxnInv'
  BY TxnNextKeeps
<1>2. CASE MainStep
  BY <1>1, <1>2, CallCompletionDelivers, CallbackReturnsDelivers, FinishTransactionDelivers,
     CancelRestDelivers, CommitNextDelivers, LoopEndsDelivers, WaitForNextDelivers,
     CommitStartsDelivers, WaitCompletesDelivers
     DEF MainStep
<1>3. CASE Wake \/ RunCommitted \/ RunLoopCommit
  BY <1>1, <1>3, WakeDelivers, RunCommittedDelivers, CommitStartsDelivers
<1>4. CASE ClientStep
  BY <1>1, <1>4, AddOperationDelivers, TakeTransactionDelivers, CancelTransactionsDelivers,
     WaitForLayerDelivers
     DEF ClientStep
<1>5. ASSUME NEW q \in Queues, NEW s \in Threads, TxnWorker(q, s) PROVE PromiseInv'
  BY <1>1, <1>5, TxnWorkerDelivers
<1>6. ASSUME NEW o \in Ops, AsyncValue(o) PROVE PromiseInv'
  BY <1>1, <1>6, AsyncValueDelivers
<1>7. ASSUME NEW t \in Groups, Dealloc(t) PROVE PromiseInv'
  BY <1>1, <1>7, IdleDelivers DEF Dealloc
<1>8. CASE UNCHANGED allVars
  BY <1>1, <1>8, IdleDelivers DEF allVars, queueVars, groupVars
<1> QED
  BY <1>2, <1>3, <1>4, <1>5, <1>6, <1>7, <1>8 DEF TxnNext

\* In every reachable state each completion block was called once, in the order
\* of the operations and after all of them ran, and a call that completes a
\* transaction is on the stack once, if no callback waits for its transaction.
THEOREM PromiseInvariance ==
  ASSUME NoReenter
  PROVE  TxnSpec => [](IInv /\ TxnInv /\ PromiseInv)
<1>1. TxnInit => IInv /\ TxnInv /\ PromiseInv
  BY InitTxnInv, InitPromiseInv
<1>2. IInv /\ TxnInv /\ PromiseInv /\ [TxnNext]_allVars => (IInv /\ TxnInv /\ PromiseInv)'
  BY TxnNextKeeps, PromiseNextKeeps
<1> QED
  BY <1>1, <1>2, PTL DEF TxnSpec

-----------------------------------------------------------------------------
(* What it gives.                                                          *)

\* State Complete blocks extraneous calls of -completeTransaction: the
\* completion block of a transaction runs once, whoever completes it.
THEOREM CompletesAtMostOnce ==
  ASSUME NoReenter
  PROVE  TxnSpec => []CompletesOnce
<1>1. PromiseInv => CompletesOnce
  BY DEF PromiseInv, Books, FinishesOnce, CompletesOnce
<1> QED
  BY <1>1, PromiseInvariance, PTL

\* -dealloc finds every completion block called: a transaction is not released
\* while a layer, a call, a block or a group may still complete it.
THEOREM NotReleasedEarly ==
  ASSUME NoReenter
  PROVE  TxnSpec => []ReleasedIsFinished
<1>1. ASSUME TxnInv, PromiseInv PROVE ReleasedIsFinished
  <2> SUFFICES ASSUME NEW t \in Groups, releaseCalled[t] \/ group[t] = "deleted"
               PROVE  /\ finishes[t] = 1
                      /\ {called[t][i][1] : i \in DOMAIN called[t]} =
                           {o \in Ops : GroupOf[o] = t /\ opState[o] # "new"}
    BY DEF ReleasedIsFinished
  <2>1. ~Retained(t) /\ group[t] # "none"
    BY <1>1 DEF TxnInv, Links, ReleasedFree
  <2>2. state[t] # "none"
    BY <1>1, <2>1 DEF TxnInv, Links, NoneUnused, OpsKnown
  <2>3. ~LayerHolds(t)
    BY <2>1, RetainedIs
  <2>4. finishes[t] = 1
    BY <1>1, <2>2, <2>3 DEF PromiseInv, Books, FinishesOnce, LayerHolds
  <2>5. /\ Len(called[t]) = Len(operations[t])
        /\ \A i \in DOMAIN called[t] : called[t][i][1] = operations[t][i]
    BY <1>1, <2>4 DEF PromiseInv, Books, FinishesOnce, CalledInOrder
  <2>6. DOMAIN called[t] = DOMAIN operations[t]
    BY <1>1, <2>5 DEF TxnInv, TxnTypes
  <2>7. {called[t][i][1] : i \in DOMAIN called[t]} = Elements(operations[t])
    BY <2>5, <2>6 DEF Elements
  <2>8. Elements(operations[t]) = {o \in Ops : GroupOf[o] = t /\ opState[o] # "new"}
    <3>1. Elements(operations[t]) \subseteq Ops
      BY <1>1 DEF TxnInv, TxnTypes, Elements
    <3> QED
      BY <1>1, <3>1 DEF TxnInv, Links, OpsKnown
  <2> QED
    BY <2>4, <2>7, <2>8
<1> QED
  BY <1>1, PromiseInvariance, PTL

-----------------------------------------------------------------------------
(* TransactionPromise, step by step.                                       *)

OutcomeIn(t) == [o \in Ops |-> IF GroupOf[o] = t THEN outcome[o] ELSE "none"]

KeptStep(t) == [Promise(t)!Next]_(Promise(t)!vars)

\* What a step leaves alone.
SameAdded(t) == operations'[t] = operations[t]
SameClosed(t) == Closed(t)' <=> Closed(t)
SameOutcome(t) == \A o \in Ops : GroupOf[o] = t => outcome'[o] = outcome[o]
SameDelivered(t) == called'[t] = called[t]
SameFinished(t) == finishes'[t] = finishes[t]

LEMMA StutterStep ==
  ASSUME NEW t \in Groups,
         SameAdded(t), SameClosed(t), SameOutcome(t), SameDelivered(t), SameFinished(t)
  PROVE  KeptStep(t)
<1>1. OutcomeIn(t)' = OutcomeIn(t)
  BY DEF OutcomeIn, SameOutcome
<1>2. (state'[t] \notin {"none", "open"}) = (state[t] \notin {"none", "open"})
  BY DEF SameClosed, Closed
<1>3. (finishes'[t] = 1) = (finishes[t] = 1)
  BY DEF SameFinished
<1> QED
  BY <1>1, <1>2, <1>3 DEF KeptStep, Promise!vars, OutcomeIn, SameAdded, SameDelivered

LEMMA AddStep ==
  ASSUME NEW t \in Groups, NEW o \in Ops, ~Closed(t), o \notin Elements(operations[t]),
         operations'[t] = Append(operations[t], o),
         SameClosed(t), SameOutcome(t), SameDelivered(t), SameFinished(t)
  PROVE  KeptStep(t)
<1>1. OutcomeIn(t)' = OutcomeIn(t)
  BY DEF OutcomeIn, SameOutcome
<1>2. (state'[t] \notin {"none", "open"}) = (state[t] \notin {"none", "open"})
  BY DEF SameClosed, Closed
<1>3. (finishes'[t] = 1) = (finishes[t] = 1)
  BY DEF SameFinished
<1>4. Promise(t)!Add(o)
  BY <1>1, <1>2, <1>3 DEF Promise!Add, Promise!Members, OutcomeIn, Closed, Elements, SameDelivered
<1> QED
  BY <1>4 DEF KeptStep, Promise!Next

LEMMA CloseStep ==
  ASSUME NEW t \in Groups, ~Closed(t), Closed(t)',
         SameAdded(t), SameOutcome(t), SameDelivered(t), SameFinished(t)
  PROVE  KeptStep(t)
<1>1. OutcomeIn(t)' = OutcomeIn(t)
  BY DEF OutcomeIn, SameOutcome
<1>2. (state'[t] \notin {"none", "open"}) = TRUE /\ state[t] \in {"none", "open"}
  BY DEF Closed
<1>3. (finishes'[t] = 1) = (finishes[t] = 1)
  BY DEF SameFinished
<1>4. Promise(t)!Close
  BY <1>1, <1>2, <1>3 DEF Promise!Close, OutcomeIn, SameAdded, SameDelivered
<1> QED
  BY <1>4 DEF KeptStep, Promise!Next

LEMMA ExecuteStep ==
  ASSUME NEW t \in Groups, NEW o \in Ops, GroupOf[o] = t, o \in Elements(operations[t]),
         outcome[o] = "none", NEW r \in {"ran", "skipped"}, r = "skipped" => Closed(t),
         \A x \in Ops : outcome'[x] = IF x = o THEN r ELSE outcome[x],
         SameAdded(t), SameClosed(t), SameDelivered(t), SameFinished(t)
  PROVE  KeptStep(t)
<1>1. OutcomeIn(t)' = [OutcomeIn(t) EXCEPT ![o] = r]
  BY DEF OutcomeIn
<1>2. (state'[t] \notin {"none", "open"}) = (state[t] \notin {"none", "open"})
  BY DEF SameClosed, Closed
<1>3. (finishes'[t] = 1) = (finishes[t] = 1)
  BY DEF SameFinished
<1>4. OutcomeIn(t)[o] = "none"
  BY DEF OutcomeIn
<1>5. Promise(t)!Execute(o)
  BY <1>1, <1>2, <1>3, <1>4 DEF Promise!Execute, Promise!Members, OutcomeIn, Closed, Elements,
     SameAdded, SameDelivered
<1> QED
  BY <1>5 DEF KeptStep, Promise!Next

LEMMA DeliverStep ==
  ASSUME NEW t \in Groups, NEW b \in BOOLEAN, Closed(t), Len(called[t]) < Len(operations[t]),
         \A o \in Elements(operations[t]) :
           o \in Ops /\ GroupOf[o] = t /\ outcome[o] # "none" /\ (outcome[o] = "skipped" => b),
         called'[t] = Append(called[t], <<operations[t][Len(called[t]) + 1], b>>),
         SameAdded(t), SameClosed(t), SameOutcome(t), SameFinished(t)
  PROVE  KeptStep(t)
<1>1. OutcomeIn(t)' = OutcomeIn(t)
  BY DEF OutcomeIn, SameOutcome
<1>2. (state'[t] \notin {"none", "open"}) = (state[t] \notin {"none", "open"})
  BY DEF SameClosed, Closed
<1>3. (finishes'[t] = 1) = (finishes[t] = 1)
  BY DEF SameFinished
<1>4. \A o \in Elements(operations[t]) : OutcomeIn(t)[o] = outcome[o]
  BY DEF OutcomeIn
<1>5. Promise(t)!Deliver(b)
  BY <1>1, <1>2, <1>3, <1>4 DEF Promise!Deliver, Promise!Members, OutcomeIn, Closed, Elements,
     SameAdded
<1> QED
  BY <1>5 DEF KeptStep, Promise!Next

LEMMA FinishStep ==
  ASSUME NEW t \in Groups, finishes[t] = 0, finishes'[t] = 1,
         Len(called[t]) = Len(operations[t]), Closed(t) \/ operations[t] = <<>>, Closed(t)',
         SameAdded(t), SameOutcome(t), SameDelivered(t)
  PROVE  KeptStep(t)
<1>1. OutcomeIn(t)' = OutcomeIn(t)
  BY DEF OutcomeIn, SameOutcome
<1>2. (state'[t] \notin {"none", "open"}) = TRUE
  BY DEF Closed
<1>3. (finishes'[t] = 1) = TRUE /\ ~(finishes[t] = 1)
  OBVIOUS
<1>4. Promise(t)!Finish
  BY <1>1, <1>2, <1>3 DEF Promise!Finish, OutcomeIn, Closed, SameAdded, SameDelivered
<1> QED
  BY <1>4 DEF KeptStep, Promise!Next

-----------------------------------------------------------------------------
(* Every step keeps the promise of every transaction.                      *)

\* A transaction that is at most closed.
LEMMA ClosesAtMost ==
  ASSUME UNCHANGED <<operations, outcome, called, finishes>>,
         NEW t \in Groups, Closed(t) => Closed(t)'
  PROVE  KeptStep(t)
<1>1. SameAdded(t) /\ SameOutcome(t) /\ SameDelivered(t) /\ SameFinished(t)
  BY DEF SameAdded, SameOutcome, SameDelivered, SameFinished
<1>2. CASE Closed(t)' <=> Closed(t)
  BY <1>1, <1>2, StutterStep DEF SameClosed
<1>3. CASE ~(Closed(t)' <=> Closed(t))
  BY <1>1, <1>3, CloseStep
<1> QED
  BY <1>2, <1>3

LEMMA Untouched ==
  ASSUME UNCHANGED <<state, operations, outcome, called, finishes>>, NEW t \in Groups
  PROVE  KeptStep(t)
  BY ClosesAtMost DEF Closed

LEMMA CallCompletionKept ==
  ASSUME TxnInv, PromiseInv, CallCompletion, NEW u \in Groups
  PROVE  KeptStep(u)
<1>1. PICK t \in Groups, n \in Nat \ {0}, b \in BOOLEAN, o \in Ops :
        /\ CompleteOK(t, n, b) /\ n <= Len(operations[t]) /\ o = operations[t][n]
        /\ called' = [called EXCEPT ![t] = Append(@, <<o, b>>)]
        /\ UNCHANGED <<state, operations, outcome, finishes>>
  BY LoopStep
<1>2. SameAdded(u) /\ SameClosed(u) /\ SameOutcome(u) /\ SameFinished(u)
  BY <1>1 DEF SameAdded, SameClosed, SameOutcome, SameFinished, Closed
<1>3. called'[t] = Append(called[t], <<o, b>>) /\ (u # t => SameDelivered(u))
  BY <1>1 DEF TxnInv, TxnTypes, SameDelivered
<1>4. CASE u # t
  BY <1>2, <1>3, <1>4, StutterStep
<1>5. CASE u = t
  <2>1. /\ Len(called[t]) = n - 1 /\ Len(operations[t]) \in Nat /\ Closed(t)
        /\ \A x \in Elements(operations[t]) : outcome[x] # "none" /\ (outcome[x] = "skipped" => b)
    BY <1>1 DEF CompleteOK, AllRan, Closed, TxnInv, TxnTypes
  <2>2. Len(called[t]) + 1 = n /\ Len(called[t]) < Len(operations[t])
    BY <1>1, <2>1
  <2>3. \A x \in Elements(operations[t]) : x \in Ops /\ GroupOf[x] = t
    BY DEF TxnInv, TxnTypes, Links, OpsKnown, Elements
  <2> QED
    BY <1>1, <1>2, <1>3, <1>5, <2>1, <2>2, <2>3, DeliverStep
<1> QED
  BY <1>4, <1>5

LEMMA FinishTransactionKept ==
  ASSUME TxnInv, PromiseInv, FinishTransaction, NEW u \in Groups
  PROVE  KeptStep(u)
<1>1. PICK t \in Groups, n \in Nat \ {0}, b \in BOOLEAN :
        /\ t = Top.txn /\ n = Top.next /\ CompleteOK(t, n, b)
  BY InLoop DEF FinishTransaction
<1>2. /\ n > Len(operations[t])
      /\ state' = [state EXCEPT ![t] = "complete"]
      /\ finishes' = [finishes EXCEPT ![t] = @ + 1]
      /\ UNCHANGED <<operations, outcome, called>>
  BY <1>1 DEF FinishTransaction, completionBlock
<1>3. SameAdded(u) /\ SameOutcome(u) /\ SameDelivered(u)
  BY <1>2 DEF SameAdded, SameOutcome, SameDelivered
<1>4. CASE u # t
  <2>1. SameClosed(u) /\ SameFinished(u)
    BY <1>2, <1>4 DEF TxnInv, TxnTypes, SameClosed, SameFinished, Closed
  <2> QED
    BY <1>3, <2>1, StutterStep
<1>5. CASE u = t
  <2>1. finishes[t] = 0 /\ Closed(t)
    BY <1>1 DEF CompleteOK, Closed
  <2>2. finishes'[t] = 1 /\ Closed(t)'
    BY <1>2, <2>1 DEF TxnInv, TxnTypes, Closed
  <2>3. Len(called[t]) = Len(operations[t])
    <3>1. /\ Len(operations[t]) \in Nat /\ n <= Len(operations[t]) + 1 /\ Len(called[t]) = n - 1
      BY <1>1 DEF CompleteOK, TxnInv, TxnTypes
    <3> QED
      BY <1>1, <1>2, <3>1
  <2> QED
    BY <1>3, <1>5, <2>1, <2>2, <2>3, FinishStep
<1> QED
  BY <1>4, <1>5

LEMMA CancelRestKept ==
  ASSUME TxnInv, CancelRest, NEW u \in Groups
  PROVE  KeptStep(u)
<1>1. Closed(u) => Closed(u)'
  BY DEF CancelRest, Closed
<1> QED
  BY <1>1, ClosesAtMost DEF CancelRest

\* A commit, from the group or from a cancel, is of an open transaction.
LEMMA CommitsOpen ==
  ASSUME TxnInv, CommitNext \/ \E c \in Containers : CancelTransactions(c)
  PROVE  /\ UNCHANGED <<operations, outcome, called>>
         /\ \/ UNCHANGED <<state, finishes>>
            \/ \E t \in Groups : \E rest : state[t] = "open" /\ commit(t, rest)
<1>1. CASE CommitNext
  <2>1. /\ Last(stack) \in Frame /\ Last(stack).call = "commit" /\ Top = Last(stack)
        /\ Canceling(stack) = CancelOf(Last(stack))
    BY <1>1, Innermost DEF CommitNext
  <2>2. Canceling(stack) = {} /\ Top.todo \subseteq Containers
    BY <2>1, FrameParts DEF CancelOf
  <2>3. PICK c \in Containers :
          \/ UNCHANGED <<state, finishes>>
          \/ current[c] # NoGroup /\ \E rest : commit(current[c], rest)
    BY <1>1, <2>2 DEF CommitNext
  <2>4. current[c] # NoGroup => current[c] \in Groups /\ state[current[c]] = "open"
    BY <2>2 DEF TxnInv, TxnTypes, Links, LayersOK
  <2> QED
    BY <1>1, <2>3, <2>4 DEF CommitNext
<1>2. ASSUME NEW c \in Containers, CancelTransactions(c)
      PROVE  /\ UNCHANGED <<operations, outcome, called>>
             /\ \/ UNCHANGED <<state, finishes>>
                \/ \E t \in Groups : \E rest : state[t] = "open" /\ commit(t, rest)
  <2>1. \/ UNCHANGED <<state, finishes>>
        \/ current[c] # NoGroup /\ state[current[c]] = "open" /\ \E rest : commit(current[c], rest)
    BY <1>2 DEF CancelTransactions
  <2>2. current[c] # NoGroup => current[c] \in Groups
    BY DEF TxnInv, TxnTypes
  <2> QED
    BY <1>2, <2>1, <2>2 DEF CancelTransactions
<1> QED
  BY <1>1, <1>2

LEMMA CommitKept ==
  ASSUME TxnInv, PromiseInv, CommitNext \/ \E c \in Containers : CancelTransactions(c),
         NEW u \in Groups
  PROVE  KeptStep(u)
<1>1. UNCHANGED <<operations, outcome, called>>
  BY CommitsOpen
<1>2. CASE UNCHANGED <<state, finishes>>
  BY <1>1, <1>2, Untouched
<1>3. ASSUME NEW t \in Groups, NEW rest, state[t] = "open", commit(t, rest)
      PROVE  KeptStep(u)
  <2>1. /\ state' = [state EXCEPT ![t] = "committed"]
        /\ operations[t] = <<>> => finishes' = [finishes EXCEPT ![t] = @ + 1]
        /\ operations[t] # <<>> => UNCHANGED finishes
    BY <1>3 DEF commit, completionBlock
  <2>2. /\ ~Closed(t) /\ Closed(t)' /\ finishes[t] = 0
        /\ \A w \in Groups : w # t => state'[w] = state[w] /\ finishes'[w] = finishes[w]
    BY <1>3, <2>1 DEF Closed, TxnInv, TxnTypes, PromiseInv, Books, FinishesOnce
  <2>3. SameAdded(u) /\ SameOutcome(u) /\ SameDelivered(u)
    BY <1>1 DEF SameAdded, SameOutcome, SameDelivered
  <2>4. CASE u # t
    <3>1. SameClosed(u) /\ SameFinished(u)
      BY <2>2, <2>4 DEF SameClosed, SameFinished, Closed
    <3> QED
      BY <2>3, <3>1, StutterStep
  <2>5. CASE u = t /\ operations[t] # <<>>
    BY <2>1, <2>2, <2>3, <2>5, CloseStep DEF SameFinished
  <2>6. CASE u = t /\ operations[t] = <<>>
    <3>1. Len(called[t]) = Len(operations[t])
      BY <2>6 DEF PromiseInv, Books, CalledInOrder, TxnInv, TxnTypes
    <3>2. finishes'[t] = 1
      BY <2>1, <2>2, <2>6 DEF TxnInv, TxnTypes
    <3> QED
      BY <2>2, <2>3, <2>6, <3>1, <3>2, FinishStep
  <2> QED
    BY <2>4, <2>5, <2>6
<1> QED
  BY <1>2, <1>3, CommitsOpen

LEMMA AddOperationKept ==
  ASSUME IInv, TxnInv, PromiseInv, NEW c \in Containers, NEW o \in Ops, AddOperation(c, o),
         NEW u \in Groups
  PROVE  KeptStep(u)
<1>1. PICK t \in Groups : t = GroupOf[o]
  BY PlacementAssumption
<1>2. /\ ClientRuns /\ asyncTransaction(c, t)
      /\ UNCHANGED <<outcome, called, finishes, stack>>
  BY <1>1 DEF AddOperation
<1>3. /\ state'[t] = "open" /\ ~Closed(t)
      /\ \A w \in Groups : w # t => state'[w] = state[w]
  BY <1>2, TakeDoes
<1>4. /\ operations'[t] = Append(operations[t], o)
      /\ \A w \in Groups : w # t => operations'[w] = operations[w]
      /\ o \notin Elements(operations[t])
  BY <1>1, AddDoes
<1>5. SameClosed(u) /\ SameOutcome(u) /\ SameDelivered(u) /\ SameFinished(u)
  BY <1>2, <1>3 DEF SameClosed, SameOutcome, SameDelivered, SameFinished, Closed
<1>6. CASE u = t
  BY <1>3, <1>4, <1>5, <1>6, AddStep
<1>7. CASE u # t
  BY <1>4, <1>5, <1>7, StutterStep DEF SameAdded
<1> QED
  BY <1>6, <1>7

LEMMA TakeTransactionKept ==
  ASSUME IInv, TxnInv, NEW c \in Containers, NEW t \in Groups, TakeTransaction(c, t),
         NEW u \in Groups
  PROVE  KeptStep(u)
<1>1. /\ ClientRuns /\ asyncTransaction(c, t)
      /\ UNCHANGED <<operations, outcome, called, finishes, stack>>
  BY DEF TakeTransaction
<1>2. ~Closed(t) /\ \A w \in Groups : w # t => state'[w] = state[w]
  BY <1>1, TakeDoes
<1>3. Closed(u) => Closed(u)'
  BY <1>2 DEF Closed
<1> QED
  BY <1>1, <1>3, ClosesAtMost

\* An operation of a transaction has run, or was skipped.
LEMMA ExecuteKept ==
  ASSUME TxnInv, NEW o \in Ops, opState[o] # "new", outcome[o] = "none",
         NEW r \in {"ran", "skipped"}, r = "skipped" => state[GroupOf[o]] = "canceled",
         outcome' = [outcome EXCEPT ![o] = r],
         UNCHANGED <<state, operations, called, finishes>>, NEW u \in Groups
  PROVE  KeptStep(u)
<1>1. /\ SameAdded(u) /\ SameClosed(u) /\ SameDelivered(u) /\ SameFinished(u)
  BY DEF SameAdded, SameClosed, SameDelivered, SameFinished, Closed
<1>2. \A x \in Ops : outcome'[x] = IF x = o THEN r ELSE outcome[x]
  BY DEF TxnInv, TxnTypes
<1>3. o \in Elements(operations[GroupOf[o]])
  BY DEF TxnInv, Links, OpsKnown
<1>4. CASE GroupOf[o] # u
  <2>1. SameOutcome(u)
    BY <1>2, <1>4 DEF SameOutcome
  <2> QED
    BY <1>1, <2>1, StutterStep
<1>5. CASE GroupOf[o] = u
  <2>1. r = "skipped" => Closed(u)
    BY <1>5 DEF Closed
  <2> QED
    BY <1>1, <1>2, <1>3, <1>5, <2>1, ExecuteStep
<1> QED
  BY <1>4, <1>5

LEMMA TxnWorkerKept ==
  ASSUME IInv, TxnInv, PromiseInv, NEW q \in Queues, NEW s \in Threads, TxnWorker(q, s),
         NEW u \in Groups
  PROVE  KeptStep(u)
<1>1. UNCHANGED <<state, operations, called, finishes>>
  BY DEF TxnWorker
<1>2. CASE UNCHANGED outcome
  BY <1>1, <1>2, Untouched
<1>3. ASSUME NEW v \in {"ran", "skipped"}, pc[q][s] = "running",
             v = "skipped" => state[GroupOf[op[q][s]]] = "canceled",
             outcome' = [outcome EXCEPT ![op[q][s]] = v]
      PROVE  KeptStep(u)
  <2>1. op[q][s] \in Ops /\ opState[op[q][s]] = "running"
    BY <1>3 DEF IInv, WorkersHold, Holds, Busy
  <2>2. outcome[op[q][s]] = "none"
    BY <1>3, <2>1 DEF PromiseInv, Books, Outcomes, NotRun
  <2> QED
    BY <1>1, <1>3, <2>1, <2>2, ExecuteKept
<1> QED
  BY <1>2, <1>3 DEF TxnWorker, RunExecutionBlock

LEMMA AsyncValueKept ==
  ASSUME IInv, TxnInv, PromiseInv, NEW o \in Ops, AsyncValue(o), NEW u \in Groups
  PROVE  KeptStep(u)
<1>1. /\ o \in asyncOpen /\ outcome' = [outcome EXCEPT ![o] = "ran"]
      /\ UNCHANGED <<state, operations, called, finishes>>
  BY DEF AsyncValue, CompleteAsync
<1>2. opState[o] # "new" /\ outcome[o] = "none"
  BY <1>1 DEF IInv, AsyncStarted, PromiseInv, Books, Outcomes, NotRun
<1> QED
  BY <1>1, <1>2, ExecuteKept

LEMMA NextKept ==
  ASSUME IInv, TxnInv, PromiseInv, [TxnNext]_allVars, NEW u \in Groups
  PROVE  KeptStep(u)
<1>1. CASE MainStep
  <2>1. CASE CallbackReturns \/ LoopEnds \/ WaitForNext \/ WaitCommits \/ WaitCompletes
    BY <2>1, Untouched
       DEF CallbackReturns, LoopEnds, WaitForNext, WaitCommits, WaitCompletes, txnVars
  <2> QED
    BY <1>1, <2>1, CallCompletionKept, FinishTransactionKept, CancelRestKept, CommitKept
       DEF MainStep
<1>2. CASE Wake \/ RunCommitted \/ RunLoopCommit
  BY <1>2, Untouched DEF Wake, RunCommitted, RunLoopCommit, txnVars
<1>3. CASE ClientStep
  <2>1. ASSUME NEW c \in Containers, WaitForLayer(c) PROVE KeptStep(u)
    BY <2>1, Untouched DEF WaitForLayer, txnVars
  <2> QED
    BY <1>3, <2>1, AddOperationKept, TakeTransactionKept, CommitKept DEF ClientStep
<1>4. ASSUME NEW q \in Queues, NEW s \in Threads, TxnWorker(q, s) PROVE KeptStep(u)
  BY <1>4, TxnWorkerKept
<1>5. ASSUME NEW o \in Ops, AsyncValue(o) PROVE KeptStep(u)
  BY <1>5, AsyncValueKept
<1>6. ASSUME NEW t \in Groups, Dealloc(t) PROVE KeptStep(u)
  BY <1>6, Untouched DEF Dealloc, txnVars
<1>7. CASE UNCHANGED allVars
  BY <1>7, Untouched DEF allVars, txnVars
<1> QED
  BY <1>1, <1>2, <1>3, <1>4, <1>5, <1>6, <1>7 DEF TxnNext

\* What _ASAsyncTransaction.h promises holds of every transaction: every
\* completion block is called once, in order, after all execution blocks, and is
\* told if one of them was skipped.
THEOREM PromiseKept ==
  ASSUME NoReenter
  PROVE  TxnSpec => KeepsPromise
<1> DEFINE Kept == \A t \in Groups : [Promise(t)!Next]_(Promise(t)!vars)
<1>1. TxnInit => \A t \in Groups : Promise(t)!Init
  BY DEF TxnInit, Promise!Init
<1>2. IInv /\ TxnInv /\ PromiseInv /\ [TxnNext]_allVars => [Kept]_allVars
  BY NextKept DEF KeptStep
<1> QED
  BY <1>1, <1>2, PromiseInvariance, PTL DEF TxnSpec, KeepsPromise

=============================================================================
