----------------------- MODULE AsyncTransactionProofs -----------------------
(***************************************************************************)
(* Safety of transactions, containers and the run-loop group for any       *)
(* layers, transactions, operations and clients, and that all they do to   *)
(* the queue is allowed by the queue's specification.                      *)
(*                                                                         *)
(* The argument: who refers to a transaction.  A transaction that is open  *)
(* is the current one of the layer that holds it, and that layer waits to  *)
(* be committed; one that was deallocated is referred to by nobody, and    *)
(* references are only handed on.                                          *)
(***************************************************************************)
EXTENDS AsyncTransaction, AsyncTransactionQueueProofs

-----------------------------------------------------------------------------
(* The main thread's stack as a list: what is under the innermost call.    *)

Under(s) == SubSeq(s, 1, Len(s) - 1)
Last(s) == s[Len(s)]

LEMMA Split ==
  ASSUME NEW S, NEW s \in Seq(S), s # <<>>
  PROVE  /\ Under(s) \in Seq(S) /\ Last(s) \in S
         /\ s = Append(Under(s), Last(s))
<1>1. Len(s) \in Nat \ {0} /\ DOMAIN s = 1 .. Len(s) /\ \A i \in 1 .. Len(s) : s[i] \in S
  OBVIOUS
<1>2. /\ Under(s) \in Seq(S) /\ Len(Under(s)) = Len(s) - 1
      /\ \A i \in 1 .. Len(s) - 1 : Under(s)[i] = s[i]
  BY <1>1 DEF Under
<1>3. Last(s) \in S
  BY <1>1 DEF Last
<1> DEFINE u == Under(s)
           e == Last(s)
           t == Append(u, e)
<1>4. u \in Seq(S) /\ e \in S /\ Len(u) = Len(s) - 1 /\ e = s[Len(s)]
  BY <1>2, <1>3 DEF Last
<1> HIDE DEF u, e
<1>5. /\ t \in Seq(S) /\ Len(t) = Len(u) + 1
      /\ \A i \in 1 .. Len(u) : t[i] = u[i]
      /\ t[Len(u) + 1] = e
  BY <1>4
<1> HIDE DEF t
<1>6. \A i \in 1 .. Len(s) - 1 : u[i] = s[i]
  BY <1>2 DEF u
<1>7. t \in Seq(S) /\ Len(t) = Len(s) /\ \A i \in 1 .. Len(s) : t[i] = s[i]
  BY <1>1, <1>4, <1>5, <1>6
<1>8. t = s
  BY <1>7
<1> QED
  BY <1>4, <1>8 DEF u, e, t

LEMMA Join ==
  ASSUME NEW S, NEW s \in Seq(S), NEW f \in S
  PROVE  /\ Append(s, f) \in Seq(S) /\ Append(s, f) # <<>>
         /\ Under(Append(s, f)) = s /\ Last(Append(s, f)) = f
<1> DEFINE a == Append(s, f)
<1>1. /\ a \in Seq(S) /\ Len(a) = Len(s) + 1 /\ Len(s) \in Nat /\ a # <<>>
      /\ \A i \in 1 .. Len(s) : a[i] = s[i]
      /\ a[Len(s) + 1] = f
  OBVIOUS
<1> HIDE DEF a
<1>2. Last(a) = f
  BY <1>1 DEF Last
<1>3. Under(a) \in Seq(S) /\ Len(Under(a)) = Len(s) /\ \A i \in 1 .. Len(s) : Under(a)[i] = s[i]
  BY <1>1 DEF Under
<1>4. Under(a) = s
  BY <1>3
<1> QED
  BY <1>1, <1>2, <1>4 DEF a

-----------------------------------------------------------------------------
(* What the calls on the stack stand for.                                  *)

CancelOf(f) == IF f.call = "cancel" THEN {f.layer} ELSE {}
CommitOf(f) == IF f.call = "commit" THEN f.todo ELSE {}
HeldOf(f) ==
  IF f.call \in {"complete", "wait"} THEN {f.txn}
  ELSE IF f.call = "waitAll" THEN f.todo ELSE {}

CompleteOf(f) == IF f.call = "complete" THEN {f.txn} ELSE {}

Canceling(s) == UNION {CancelOf(s[i]) : i \in DOMAIN s}     \* layers being canceled
Committing(s) == UNION {CommitOf(s[i]) : i \in DOMAIN s}    \* layers to be committed
Held(s) == UNION {HeldOf(s[i]) : i \in DOMAIN s}            \* transactions retained
Completes(s) == UNION {CompleteOf(s[i]) : i \in DOMAIN s}   \* ... and being completed

\* Neither a commit of the group nor a cancel is under way.
Calm(s) == \A i \in DOMAIN s : s[i].call \notin {"commit", "cancel"}

LEMMA AppendSets ==
  ASSUME NEW S, NEW s \in Seq(S), NEW f \in S
  PROVE  /\ Canceling(Append(s, f)) = Canceling(s) \cup CancelOf(f)
         /\ Committing(Append(s, f)) = Committing(s) \cup CommitOf(f)
         /\ Held(Append(s, f)) = Held(s) \cup HeldOf(f)
         /\ Completes(Append(s, f)) = Completes(s) \cup CompleteOf(f)
         /\ Calm(Append(s, f)) <=> Calm(s) /\ f.call \notin {"commit", "cancel"}
<1> DEFINE a == Append(s, f)
<1>1. /\ Len(s) \in Nat /\ DOMAIN a = 1 .. Len(s) + 1 /\ DOMAIN s = 1 .. Len(s)
      /\ \A i \in 1 .. Len(s) : a[i] = s[i]
      /\ a[Len(s) + 1] = f
  OBVIOUS
<1>2. DOMAIN a = DOMAIN s \cup {Len(s) + 1}
  BY <1>1
<1> HIDE DEF a
<1>3. Canceling(a) = Canceling(s) \cup CancelOf(f)
  BY <1>1, <1>2 DEF Canceling
<1>4. Committing(a) = Committing(s) \cup CommitOf(f)
  BY <1>1, <1>2 DEF Committing
<1>5. Held(a) = Held(s) \cup HeldOf(f)
  BY <1>1, <1>2 DEF Held
<1>6. Calm(a) <=> Calm(s) /\ f.call \notin {"commit", "cancel"}
  BY <1>1, <1>2 DEF Calm
<1>7. Completes(a) = Completes(s) \cup CompleteOf(f)
  BY <1>1, <1>2 DEF Completes
<1> QED
  BY <1>3, <1>4, <1>5, <1>6, <1>7 DEF a

LEMMA EmptySets ==
  /\ Canceling(<<>>) = {} /\ Committing(<<>>) = {} /\ Held(<<>>) = {}
  /\ Completes(<<>>) = {} /\ Calm(<<>>)
  BY DEF Canceling, Committing, Held, Completes, Calm

LEMMA CalmSets ==
  ASSUME NEW s, Calm(s)
  PROVE  Canceling(s) = {} /\ Committing(s) = {}
  BY DEF Calm, Canceling, Committing, CancelOf, CommitOf

LEMMA CommitSets ==
  ASSUME NEW x
  PROVE  /\ CommitFrame(x).call = "commit"
         /\ CompleteOf(CommitFrame(x)) = {} /\ CancelOf(CommitFrame(x)) = {}
         /\ CommitOf(CommitFrame(x)) = x /\ HeldOf(CommitFrame(x)) = {}
  BY DEF CompleteOf, CancelOf, CommitOf, HeldOf, CommitFrame

LEMMA CancelSets ==
  ASSUME NEW c
  PROVE  /\ CancelFrame(c).call = "cancel"
         /\ CompleteOf(CancelFrame(c)) = {} /\ CancelOf(CancelFrame(c)) = {c}
         /\ CommitOf(CancelFrame(c)) = {} /\ HeldOf(CancelFrame(c)) = {}
  BY DEF CompleteOf, CancelOf, CommitOf, HeldOf, CancelFrame

LEMMA WaitAllSets ==
  ASSUME NEW x
  PROVE  /\ WaitAllFrame(x).call = "waitAll"
         /\ CompleteOf(WaitAllFrame(x)) = {} /\ CancelOf(WaitAllFrame(x)) = {}
         /\ CommitOf(WaitAllFrame(x)) = {} /\ HeldOf(WaitAllFrame(x)) = x
  BY DEF CompleteOf, CancelOf, CommitOf, HeldOf, WaitAllFrame

LEMMA WaitSets ==
  ASSUME NEW t
  PROVE  /\ WaitFrame(t).call = "wait"
         /\ CompleteOf(WaitFrame(t)) = {} /\ CancelOf(WaitFrame(t)) = {}
         /\ CommitOf(WaitFrame(t)) = {} /\ HeldOf(WaitFrame(t)) = {t}
  BY DEF CompleteOf, CancelOf, CommitOf, HeldOf, WaitFrame

LEMMA CompleteSets ==
  ASSUME NEW t, NEW i, NEW b
  PROVE  /\ CompleteFrame(t, i, b).call = "complete"
         /\ CompleteOf(CompleteFrame(t, i, b)) = {t} /\ CancelOf(CompleteFrame(t, i, b)) = {}
         /\ CommitOf(CompleteFrame(t, i, b)) = {} /\ HeldOf(CompleteFrame(t, i, b)) = {t}
  BY DEF CompleteOf, CancelOf, CommitOf, HeldOf, CompleteFrame

LEMMA CallbackSets ==
  ASSUME NEW o
  PROVE  /\ CallbackFrame(o).call = "callback"
         /\ CompleteOf(CallbackFrame(o)) = {} /\ CancelOf(CallbackFrame(o)) = {}
         /\ CommitOf(CallbackFrame(o)) = {} /\ HeldOf(CallbackFrame(o)) = {}
  BY DEF CompleteOf, CancelOf, CommitOf, HeldOf, CallbackFrame

LEMMA FramesAreFrames ==
  /\ \A x \in SUBSET Containers : CommitFrame(x) \in Frame
  /\ \A c \in Containers : CancelFrame(c) \in Frame
  /\ \A x \in SUBSET Groups : WaitAllFrame(x) \in Frame
  /\ \A t \in Groups : WaitFrame(t) \in Frame
  /\ \A t \in Groups, i \in Nat \ {0}, b \in BOOLEAN : CompleteFrame(t, i, b) \in Frame
  /\ \A o \in Ops : CallbackFrame(o) \in Frame
  BY DEF Frame, CommitFrame, CancelFrame, WaitAllFrame, WaitFrame, CompleteFrame, CallbackFrame

LEMMA FrameParts ==
  ASSUME NEW f \in Frame
  PROVE  /\ f.call = "commit" => f.todo \in SUBSET Containers /\ f = CommitFrame(f.todo)
         /\ f.call = "cancel" => f.layer \in Containers /\ f = CancelFrame(f.layer)
         /\ f.call = "waitAll" => f.todo \in SUBSET Groups /\ f = WaitAllFrame(f.todo)
         /\ f.call = "wait" => f.txn \in Groups /\ f = WaitFrame(f.txn)
         /\ f.call = "complete" =>
              /\ f.txn \in Groups /\ f.next \in Nat \ {0} /\ f.canceled \in BOOLEAN
              /\ f = CompleteFrame(f.txn, f.next, f.canceled)
         /\ f.call = "callback" => f.op \in Ops /\ f = CallbackFrame(f.op)
  BY DEF Frame, CommitFrame, CancelFrame, WaitAllFrame, WaitFrame, CompleteFrame, CallbackFrame

-----------------------------------------------------------------------------
(* The inductive invariant, next to IInv of the queue.                     *)

TxnTypes ==
  /\ state \in [Groups -> {"none", "open", "committed", "canceled", "complete"}]
  /\ operations \in [Groups -> Seq(Ops)]
  /\ nilled \subseteq Ops
  /\ outcome \in [Ops -> {"none", "ran", "skipped"}]
  /\ called \in [Groups -> Seq(Ops \X BOOLEAN)]
  /\ finishes \in [Groups -> Nat]
  /\ current \in [Containers -> Groups \cup {NoGroup}]
  /\ layerTxns \in [Containers -> SUBSET Groups]
  /\ registered \subseteq Containers
  /\ stack \in Seq(Frame)

\* Calls that commit or cancel only call the library: they are innermost.
StackShape == stack # <<>> => Calm(Under(stack))

\* An open transaction is the current one of the only layer that holds it; a
\* current transaction is open unless a cancel has just committed it.
LayersOK ==
  /\ \A c \in Containers : \A t \in layerTxns[c] : state[t] \in {"open", "committed", "canceled"}
  /\ \A c, d \in Containers : \A t \in layerTxns[c] \cap layerTxns[d] : c = d
  /\ \A t \in Groups : state[t] = "open" => \E c \in Containers : current[c] = t
  /\ \A c \in Containers :
       current[c] # NoGroup =>
         \/ state[current[c]] = "open" /\ current[c] \in layerTxns[c]
         \/ c \in Canceling(stack) /\ state[current[c]] = "committed"
  /\ \A c \in Canceling(stack) : current[c] = NoGroup \/ state[current[c]] = "committed"

\* A layer with a current transaction is registered, or its turn will come.
CommitDue ==
  \A c \in Containers :
    current[c] # NoGroup => c \in registered \cup Committing(stack) \cup Canceling(stack)

\* The operations of a transaction are those scheduled in its group.
OpsKnown ==
  /\ \A o \in Ops : opState[o] # "new" <=> o \in Elements(operations[GroupOf[o]])
  /\ \A t \in Groups : \A o \in Elements(operations[t]) : GroupOf[o] = t
  /\ \A t \in Groups : group[t] = "none" <=> operations[t] = <<>>

Closed(t) == state[t] \notin {"none", "open"}

\* Only a transaction that was committed or canceled is completed.
CompletingClosed == \A t \in Groups : t \in Completes(stack) => Closed(t)

NotifyKnown ==
  \A t \in Groups : t \in Elements(notified) \/ t \in Elements(notifyList[t]) => Closed(t)

\* Nobody refers to a transaction that does not exist yet, or no longer.
NoneUnused ==
  \A t \in Groups : state[t] = "none" => ~Retained(t) /\ operations[t] = <<>>
ReleasedFree ==
  /\ \A t \in Groups : releaseCalled[t] \/ group[t] = "deleted" => ~Retained(t)
  /\ \A t \in Groups : group[t] = "none" => ~releaseCalled[t]

\* The call that blocks is the innermost one.
WaitingTop == waiting # NoGroup => stack # <<>> /\ Last(stack) = WaitFrame(waiting)

Links == LayersOK /\ CommitDue /\ OpsKnown /\ NotifyKnown /\ NoneUnused /\ ReleasedFree

TxnInv ==
  /\ TxnTypes
  /\ StackShape
  /\ Links
  /\ CompletingClosed
  /\ WaitingTop

-----------------------------------------------------------------------------
(* Who refers to a transaction.                                            *)

LayerHolds(t) == \E c \in Containers : current[c] = t \/ t \in layerTxns[c]

QueueHolds(t) ==
  \/ \E o \in Ops : GroupOf[o] = t /\ (opState[o] = "queued" \/ o \in asyncOpen)
  \/ \E q \in Queues, s \in Threads : op[q][s] # NoOp /\ GroupOf[op[q][s]] = t
  \/ t \in Elements(notifyList[t])
  \/ t \in Elements(notified)

LEMMA RetainedIs ==
  ASSUME NEW t
  PROVE  Retained(t) <=> LayerHolds(t) \/ t \in Held(stack) \/ QueueHolds(t)
<1>1. t \in Held(stack) <=>
        \E i \in DOMAIN stack :
          \/ stack[i].call \in {"complete", "wait"} /\ stack[i].txn = t
          \/ stack[i].call = "waitAll" /\ t \in stack[i].todo
  BY DEF Held, HeldOf
<1> QED
  BY <1>1 DEF Retained, LayerHolds, QueueHolds, Elements

\* RetainedIs, of the state after a step.
LEMMA RetainedNext ==
  ASSUME NEW t
  PROVE  Retained(t)' <=> LayerHolds(t)' \/ t \in Held(stack') \/ QueueHolds(t)'
<1>1. t \in Held(stack') <=>
        \E i \in DOMAIN stack' :
          \/ stack'[i].call \in {"complete", "wait"} /\ stack'[i].txn = t
          \/ stack'[i].call = "waitAll" /\ t \in stack'[i].todo
  BY DEF Held, HeldOf
<1> QED
  BY <1>1 DEF Retained, LayerHolds, QueueHolds, Elements

\* A step that changes no transaction's state and no layer, hands on references
\* and drops some, keeps the links.
LEMMA Handover ==
  ASSUME TxnInv,
         UNCHANGED <<state, operations, current, layerTxns>>,
         Canceling(stack') = Canceling(stack),
         registered \cup Committing(stack) \subseteq registered' \cup Committing(stack'),
         \A t \in Groups : Retained(t)' => Retained(t),
         \A o \in Ops : opState'[o] = "new" <=> opState[o] = "new",
         \A t \in Groups : group'[t] = "none" <=> group[t] = "none",
         \A t \in Groups : releaseCalled'[t] => releaseCalled[t] \/ group[t] # "none",
         \A t \in Groups :
           releaseCalled'[t] \/ group'[t] = "deleted" =>
             releaseCalled[t] \/ group[t] = "deleted" \/ ~Retained(t),
         \A t \in Groups :
           t \in Elements(notified') \/ t \in Elements(notifyList'[t]) =>
             t \in Elements(notified) \/ t \in Elements(notifyList[t])
  PROVE  Links'
<1>1. LayersOK'
  BY DEF TxnInv, Links, LayersOK
<1>2. CommitDue'
  BY DEF TxnInv, Links, CommitDue
<1>3. OpsKnown'
  BY DEF TxnInv, Links, OpsKnown
<1>4. NotifyKnown'
  BY DEF TxnInv, Links, NotifyKnown, Closed
<1>5. NoneUnused'
  BY DEF TxnInv, Links, NoneUnused
<1>6. ReleasedFree'
  BY DEF TxnInv, Links, ReleasedFree
<1> QED
  BY <1>1, <1>2, <1>3, <1>4, <1>5, <1>6 DEF Links

-----------------------------------------------------------------------------
(* The workers and wait(): the queue hands references on and adds none.    *)

HandsOn ==
  /\ \A t \in Groups : QueueHolds(t)' => QueueHolds(t)
  /\ \A o \in Ops : opState'[o] = "new" <=> opState[o] = "new"
  /\ \A t \in Groups : group'[t] = "none" <=> group[t] = "none"
  /\ releaseCalled' = releaseCalled
  /\ \A t \in Groups : group'[t] = "deleted" => releaseCalled[t] \/ group[t] = "deleted"
  /\ \A t \in Groups :
       t \in Elements(notified') \/ t \in Elements(notifyList'[t]) =>
         t \in Elements(notified) \/ t \in Elements(notifyList[t])

LEMMA ConcatElements ==
  ASSUME NEW S, NEW a \in Seq(S), NEW b \in Seq(S)
  PROVE  Elements(a \o b) = Elements(a) \cup Elements(b)
<1>1. /\ a \o b \in Seq(S) /\ Len(a \o b) = Len(a) + Len(b)
      /\ Len(a) \in Nat /\ Len(b) \in Nat
      /\ \A i \in 1 .. Len(a) + Len(b) :
           (a \o b)[i] = IF i <= Len(a) THEN a[i] ELSE b[i - Len(a)]
      /\ DOMAIN a = 1 .. Len(a) /\ DOMAIN b = 1 .. Len(b) /\ DOMAIN (a \o b) = 1 .. Len(a) + Len(b)
  OBVIOUS
<1> DEFINE c == a \o b
<1>2. \A i \in DOMAIN a : i \in DOMAIN c /\ c[i] = a[i]
  BY <1>1
<1>3. ASSUME NEW i \in DOMAIN b PROVE Len(a) + i \in DOMAIN c /\ c[Len(a) + i] = b[i]
  BY <1>1
<1>4. \A i \in DOMAIN c :
        (i \in DOMAIN a /\ c[i] = a[i])
        \/ (i - Len(a) \in DOMAIN b /\ c[i] = b[i - Len(a)])
  BY <1>1
<1> HIDE DEF c
<1>5. Elements(a) \subseteq Elements(c)
  BY <1>2 DEF Elements
<1>6. Elements(b) \subseteq Elements(c)
  BY <1>3 DEF Elements
<1>7. Elements(c) \subseteq Elements(a) \cup Elements(b)
  BY <1>4 DEF Elements
<1> QED
  BY <1>5, <1>6, <1>7 DEF c

\* leave() moves the notify list of its group.
LEMMA LeaveHandsOn ==
  ASSUME IInv, NEW g \in Groups, leave(g)
  PROVE  /\ \A t \in Groups : group'[t] = "none" <=> group[t] = "none"
         /\ \A t \in Groups : group'[t] = "deleted" => releaseCalled[t] \/ group[t] = "deleted"
         /\ \A t \in Groups :
              t \in Elements(notified') \/ t \in Elements(notifyList'[t]) =>
                t \in Elements(notified) \/ t \in Elements(notifyList[t])
<1>1. CASE pending[g] # 1
  BY <1>1, LeaveCases DEF IInv
<1>2. CASE pending[g] = 1
  <2>1. /\ notified' = notified \o notifyList[g]
        /\ notifyList' = [notifyList EXCEPT ![g] = <<>>]
        /\ releaseCalled[g] => group' = [group EXCEPT ![g] = "deleted"]
        /\ ~releaseCalled[g] => group' = group
    BY <1>2, LeaveCases DEF IInv
  <2>2. notified \in Seq(Groups) /\ notifyList[g] \in Seq(Groups)
    BY NotifyAssumption DEF IInv, MainType, GroupType
  <2>3. Elements(notified') = Elements(notified) \cup Elements(notifyList[g])
    BY <2>1, <2>2, ConcatElements
  <2>4. \A t \in Groups : t \in Elements(notifyList[g]) => t = g
    BY NotifyAssumption DEF IInv, NotifyHome, Elements
  <2>5. \A t \in Groups : notifyList'[t] = notifyList[t] \/ notifyList'[t] = <<>>
    BY <2>1 DEF IInv, GroupType
  <2>6. Elements(<<>>) = {}
    BY DEF Elements
  <2>7. group[g] # "none"
    <3>1. Unfinished(g) # {}
      BY <1>2, ZeroIsDrained DEF IInv
    <3> QED
      BY <3>1 DEF IInv, GroupOutlivesWork
  <2> QED
    BY <2>1, <2>3, <2>4, <2>5, <2>6, <2>7 DEF IInv, GroupType
<1> QED
  BY <1>1, <1>2

LEMMA WorkerHandsOn ==
  ASSUME IInv, NEW q \in Queues, NEW s \in Threads, Worker(q, s)
  PROVE  HandsOn /\ waiting' = waiting
<1>1. CASE PopOperation(q, s)
  <2>1. PICK o : o = NextOperation(q, respect[q][s])
    OBVIOUS
  <2>2. /\ op' = [op EXCEPT ![q][s] = o] /\ opState' = [opState EXCEPT ![o] = "running"]
        /\ opQueue[q] # <<>>
        /\ UNCHANGED <<asyncOpen, groupVars, mainVars>>
    BY <1>1, <2>1 DEF PopOperation
  <2>3. o \in Ops /\ o \in Elements(opQueue[q])
    BY <2>1, <2>2, NextIsFirst DEF IInv, FlagsType
  <2>4. opState[o] = "queued"
    BY <2>3 DEF IInv, ListsAgree
  <2>5. \A a \in Queues, b \in Threads : op'[a][b] = op[a][b] \/ op'[a][b] = o
    BY <2>2 DEF IInv, WorkerType
  <2>6. \A x \in Ops : opState'[x] = IF x = o THEN "running" ELSE opState[x]
    BY <2>2 DEF IInv, OpType
  <2>7. \A t \in Groups : QueueHolds(t)' => QueueHolds(t)
    BY <2>2, <2>3, <2>4, <2>5, <2>6 DEF QueueHolds, groupVars, mainVars
  <2> QED
    BY <2>2, <2>4, <2>6, <2>7 DEF HandsOn, groupVars, mainVars
<1>2. CASE ExitThread(q, s) \/ RunBlock(q, s)
  <2>1. UNCHANGED <<op, opState, asyncOpen, groupVars, mainVars>>
    BY <1>2 DEF ExitThread, RunBlock
  <2>2. \A t \in Groups : QueueHolds(t)' => QueueHolds(t)
    BY <2>1 DEF QueueHolds, groupVars, mainVars
  <2> QED
    BY <2>1, <2>2 DEF HandsOn, groupVars, mainVars
<1>3. CASE RunAsyncBlock(q, s)
  <2>1. /\ op[q][s] \in Ops
        /\ asyncOpen' = asyncOpen \cup {op[q][s]}
        /\ UNCHANGED <<op, opState, notifyList, releaseCalled, group, mainVars>>
    BY <1>3, PlacementAssumption DEF RunAsyncBlock
  <2>2. op[q][s] # NoOp
    BY <2>1, NullAssumption
  <2>3. \A t \in Groups : QueueHolds(t)' => QueueHolds(t)
    BY <2>1, <2>2 DEF QueueHolds, mainVars
  <2> QED
    BY <2>1, <2>3 DEF HandsOn, mainVars
<1>4. CASE LeaveGroup(q, s)
  <2>1. /\ op[q][s] \in Ops /\ opState[op[q][s]] = "running"
        /\ leave(GroupOf[op[q][s]])
        /\ opState' = [opState EXCEPT ![op[q][s]] = "left"]
        /\ UNCHANGED <<op, asyncOpen, releaseCalled, waiting>>
    BY <1>4 DEF LeaveGroup, IInv, WorkersHold, Holds, Busy
  <2>2. \A x \in Ops : opState'[x] = IF x = op[q][s] THEN "left" ELSE opState[x]
    BY <2>1 DEF IInv, OpType
  <2>3. GroupOf[op[q][s]] \in Groups
    BY <2>1, PlacementAssumption
  <2>4. \A t \in Groups : QueueHolds(t)' => QueueHolds(t)
    BY <2>1, <2>2, <2>3, LeaveHandsOn DEF QueueHolds
  <2> QED
    BY <2>1, <2>2, <2>3, <2>4, LeaveHandsOn DEF HandsOn
<1>5. CASE FreeBlock(q, s)
  <2>1. /\ op' = [op EXCEPT ![q][s] = NoOp]
        /\ UNCHANGED <<opState, asyncOpen, groupVars, mainVars>>
    BY <1>5 DEF FreeBlock
  <2>2. \A a \in Queues, b \in Threads : op'[a][b] = op[a][b] \/ op'[a][b] = NoOp
    BY <2>1 DEF IInv, WorkerType
  <2>3. \A t \in Groups : QueueHolds(t)' => QueueHolds(t)
    BY <2>1, <2>2 DEF QueueHolds, groupVars, mainVars
  <2> QED
    BY <2>1, <2>3 DEF HandsOn, groupVars, mainVars
<1> QED
  BY <1>1, <1>2, <1>3, <1>4, <1>5 DEF Worker

LEMMA AsyncHandsOn ==
  ASSUME IInv, NEW o \in Ops, CompleteAsync(o)
  PROVE  HandsOn /\ waiting' = waiting
<1>1. /\ leave(GroupOf[o]) /\ asyncOpen' = asyncOpen \ {o}
      /\ UNCHANGED <<op, opState, releaseCalled, waiting>>
  BY DEF CompleteAsync, workerVars
<1>2. GroupOf[o] \in Groups
  BY PlacementAssumption
<1>3. \A t \in Groups : QueueHolds(t)' => QueueHolds(t)
  BY <1>1, <1>2, LeaveHandsOn DEF QueueHolds
<1> QED
  BY <1>1, <1>2, <1>3, LeaveHandsOn DEF HandsOn

LEMMA IdleHandsOn ==
  ASSUME UNCHANGED <<op, opState, asyncOpen, notifyList, releaseCalled, group>>,
         Elements(notified') \subseteq Elements(notified)
  PROVE  HandsOn
<1>1. \A t \in Groups : QueueHolds(t)' => QueueHolds(t)
  BY DEF QueueHolds
<1> QED
  BY <1>1 DEF HandsOn

-----------------------------------------------------------------------------
(* Steps of the main thread that only call and return.                     *)

\* A call is innermost: nothing under it commits or cancels.
LEMMA Innermost ==
  ASSUME TxnInv, NEW x, Inside(x)
  PROVE  /\ Under(stack) \in Seq(Frame) /\ Last(stack) \in Frame
         /\ stack = Append(Under(stack), Last(stack)) /\ stack # <<>>
         /\ Top = Last(stack) /\ Pop = Under(stack) /\ Last(stack).call = x
         /\ Calm(Under(stack))
         /\ Canceling(Under(stack)) = {} /\ Committing(Under(stack)) = {}
         /\ Canceling(stack) = CancelOf(Last(stack))
         /\ Committing(stack) = CommitOf(Last(stack))
         /\ Held(stack) = Held(Under(stack)) \cup HeldOf(Last(stack))
         /\ Completes(stack) = Completes(Under(stack)) \cup CompleteOf(Last(stack))
<1>1. stack \in Seq(Frame) /\ stack # <<>>
  BY DEF TxnInv, TxnTypes, Inside
<1>2. /\ Under(stack) \in Seq(Frame) /\ Last(stack) \in Frame
      /\ stack = Append(Under(stack), Last(stack))
  BY <1>1, Split
<1>3. Top = Last(stack) /\ Pop = Under(stack) /\ Last(stack).call = x
  BY DEF Top, Pop, Last, Under, Inside
<1>4. Calm(Under(stack))
  BY <1>1 DEF TxnInv, StackShape
<1>5. Canceling(Under(stack)) = {} /\ Committing(Under(stack)) = {}
  BY <1>4, CalmSets
<1> DEFINE R == Under(stack)
           f == Last(stack)
<1> HIDE DEF R, f
<1>6. /\ Canceling(Append(R, f)) = Canceling(R) \cup CancelOf(f)
      /\ Committing(Append(R, f)) = Committing(R) \cup CommitOf(f)
      /\ Held(Append(R, f)) = Held(R) \cup HeldOf(f)
      /\ Completes(Append(R, f)) = Completes(R) \cup CompleteOf(f)
  BY <1>2, AppendSets DEF R, f
<1>7. stack = Append(R, f) /\ Canceling(R) = {} /\ Committing(R) = {}
  BY <1>2, <1>5 DEF R, f
<1> QED
  BY <1>1, <1>2, <1>3, <1>4, <1>5, <1>6, <1>7 DEF R, f

\* Where client code or the run loop is, nothing commits or cancels.
LEMMA Quiet ==
  ASSUME TxnInv, stack = <<>> \/ Inside("callback") \/ Inside("wait")
  PROVE  Calm(stack) /\ Canceling(stack) = {} /\ Committing(stack) = {}
<1>1. CASE stack = <<>>
  BY <1>1, EmptySets
<1>2. CASE Inside("callback") \/ Inside("wait")
  <2>1. /\ Under(stack) \in Seq(Frame) /\ Last(stack) \in Frame
        /\ stack = Append(Under(stack), Last(stack))
        /\ Calm(Under(stack)) /\ Last(stack).call \notin {"commit", "cancel"}
    BY <1>2, Innermost
  <2> DEFINE R == Under(stack)
             f == Last(stack)
  <2> HIDE DEF R, f
  <2>2. Calm(Append(R, f)) <=> Calm(R) /\ f.call \notin {"commit", "cancel"}
    BY <2>1, AppendSets DEF R, f
  <2>3. Calm(stack)
    BY <2>1, <2>2 DEF R, f
  <2> QED
    BY <2>3, CalmSets
<1> QED
  BY <1>1, <1>2

\* The stack after a call on top of s.
LEMMA Pushed ==
  ASSUME NEW s \in Seq(Frame), NEW f \in Frame, Calm(s)
  PROVE  /\ Append(s, f) \in Seq(Frame) /\ Append(s, f) # <<>>
         /\ Under(Append(s, f)) = s /\ Last(Append(s, f)) = f
         /\ Canceling(Append(s, f)) = CancelOf(f)
         /\ Committing(Append(s, f)) = CommitOf(f)
         /\ Held(Append(s, f)) = Held(s) \cup HeldOf(f)
         /\ Completes(Append(s, f)) = Completes(s) \cup CompleteOf(f)
         /\ f.call \notin {"commit", "cancel"} => Calm(Append(s, f))
<1>1. Canceling(s) = {} /\ Committing(s) = {}
  BY CalmSets
<1>2. /\ Append(s, f) \in Seq(Frame) /\ Append(s, f) # <<>>
      /\ Under(Append(s, f)) = s /\ Last(Append(s, f)) = f
  BY Join
<1>3. /\ Canceling(Append(s, f)) = Canceling(s) \cup CancelOf(f)
      /\ Committing(Append(s, f)) = Committing(s) \cup CommitOf(f)
      /\ Held(Append(s, f)) = Held(s) \cup HeldOf(f)
      /\ Completes(Append(s, f)) = Completes(s) \cup CompleteOf(f)
      /\ Calm(Append(s, f)) <=> Calm(s) /\ f.call \notin {"commit", "cancel"}
  BY AppendSets
<1> QED
  BY <1>1, <1>2, <1>3

\* A calm stack from which the innermost call returned is calm under its top.
LEMMA Returned ==
  ASSUME NEW s \in Seq(Frame), Calm(s)
  PROVE  s # <<>> => Calm(Under(s))
<1> SUFFICES ASSUME s # <<>> PROVE Calm(Under(s))
  OBVIOUS
<1>1. /\ Under(s) \in Seq(Frame) /\ Last(s) \in Frame /\ s = Append(Under(s), Last(s))
  BY Split
<1> DEFINE R == Under(s)
           f == Last(s)
<1> HIDE DEF R, f
<1>2. Calm(Append(R, f)) <=> Calm(R) /\ f.call \notin {"commit", "cancel"}
  BY <1>1, AppendSets DEF R, f
<1> QED
  BY <1>1, <1>2 DEF R, f

\* A step that changes no transaction's state and no layer keeps the invariant
\* when whoever its new calls refer to was retained.
LEMMA StackStep ==
  ASSUME TxnInv, HandsOn, WaitingTop',
         UNCHANGED <<state, operations, finishes, current, layerTxns>>,
         nilled' \subseteq Ops,
         outcome' \in [Ops -> {"none", "ran", "skipped"}],
         called' \in [Groups -> Seq(Ops \X BOOLEAN)],
         registered' \subseteq Containers,
         stack' \in Seq(Frame),
         stack' # <<>> => Calm(Under(stack')),
         Canceling(stack') = Canceling(stack),
         registered \cup Committing(stack) \subseteq registered' \cup Committing(stack'),
         \A t \in Groups : t \in Completes(stack') => Closed(t),
         \A t \in Groups : t \in Held(stack') => Retained(t)
  PROVE  TxnInv'
<1>1. TxnTypes'
  BY DEF TxnInv, TxnTypes
<1>2. StackShape'
  BY DEF StackShape
<1>3. CompletingClosed'
  BY DEF CompletingClosed, Closed
<1>4. ASSUME NEW t \in Groups, Retained(t)' PROVE Retained(t)
  <2>1. LayerHolds(t)' => LayerHolds(t)
    BY DEF LayerHolds
  <2>2. QueueHolds(t)' => QueueHolds(t)
    BY DEF HandsOn
  <2> QED
    BY <1>4, <2>1, <2>2, RetainedIs, RetainedNext
<1>5. Links'
  BY <1>4, Handover DEF HandsOn
<1> QED
  BY <1>1, <1>2, <1>3, <1>5 DEF TxnInv

\* A step that leaves the queue alone.
LEMMA QueueIdle ==
  ASSUME UNCHANGED queueVars, waiting = NoGroup
  PROVE  HandsOn /\ WaitingTop' /\ UNCHANGED vars
<1>1. UNCHANGED <<op, opState, asyncOpen, notifyList, releaseCalled, group, notified, waiting>>
  BY DEF queueVars, workerVars, groupVars, mainVars
<1>2. HandsOn
  BY <1>1, IdleHandsOn
<1>3. WaitingTop'
  BY <1>1 DEF WaitingTop
<1> QED
  BY <1>2, <1>3 DEF queueVars, vars

LEMMA CallCompletionKeeps ==
  ASSUME TxnInv, CallCompletion
  PROVE  TxnInv' /\ UNCHANGED vars
<1> DEFINE R == Under(stack)
           f == Last(stack)
           t == f.txn
           o == operations[t][f.next]
           g == [f EXCEPT !.next = @ + 1]
           loop == Append(R, g)
<1>1. /\ R \in Seq(Frame) /\ f \in Frame /\ f.call = "complete" /\ Calm(R)
      /\ Top = f /\ Pop = R
      /\ Canceling(stack) = CancelOf(f) /\ Committing(stack) = CommitOf(f)
      /\ Held(stack) = Held(R) \cup HeldOf(f)
      /\ Completes(stack) = Completes(R) \cup CompleteOf(f)
  BY Innermost DEF CallCompletion
<1>2. /\ t \in Groups /\ f.next \in Nat \ {0} /\ f.canceled \in BOOLEAN
      /\ f = CompleteFrame(t, f.next, f.canceled)
  BY <1>1, FrameParts
<1>3. f.next <= Len(operations[t])
  BY <1>1 DEF CallCompletion
<1>4. /\ UNCHANGED <<queueVars, state, operations, nilled, outcome, finishes, layerVars>>
      /\ waiting = NoGroup
      /\ IF o \in nilled
         THEN stack' = loop /\ UNCHANGED called
         ELSE /\ stack' = Append(loop, CallbackFrame(o))
              /\ called' = [called EXCEPT ![t] = Append(@, <<o, f.canceled>>)]
  BY <1>1 DEF CallCompletion, MainThreadFree
<1>5. g = CompleteFrame(t, f.next + 1, f.canceled)
  BY <1>2 DEF CompleteFrame
<1> HIDE DEF R, f, t, o, g
<1>6. g \in Frame /\ g.call = "complete"
      /\ CancelOf(g) = CancelOf(f) /\ CommitOf(g) = CommitOf(f)
      /\ HeldOf(g) = HeldOf(f) /\ CompleteOf(g) = CompleteOf(f)
      /\ CancelOf(f) = {} /\ CommitOf(f) = {}
  <2>1. PICK n, m, b : n = f.next /\ m = f.next + 1 /\ b = f.canceled
    OBVIOUS
  <2>2. m \in Nat \ {0} /\ f = CompleteFrame(t, n, b) /\ g = CompleteFrame(t, m, b)
    BY <1>2, <1>5, <2>1
  <2>3. CompleteFrame(t, m, b) \in Frame
    BY <1>2, <2>1, <2>2, FramesAreFrames
  <2>4. /\ CompleteOf(f) = {t} /\ CancelOf(f) = {} /\ CommitOf(f) = {} /\ HeldOf(f) = {t}
        /\ CompleteOf(g) = {t} /\ CancelOf(g) = {} /\ CommitOf(g) = {} /\ HeldOf(g) = {t}
        /\ g.call = "complete"
    BY <2>2, CompleteSets
  <2> QED
    BY <2>2, <2>3, <2>4
<1>7. o \in Ops
  <2>1. operations[t] \in Seq(Ops)
    BY <1>2 DEF TxnInv, TxnTypes
  <2> QED
    BY <1>2, <1>3, <2>1 DEF o
<1>8. /\ loop \in Seq(Frame) /\ loop # <<>> /\ Under(loop) = R /\ Calm(loop)
      /\ Canceling(loop) = {} /\ Committing(loop) = {}
      /\ Held(loop) = Held(stack) /\ Completes(loop) = Completes(stack)
  BY <1>1, <1>6, Pushed
<1> HIDE DEF loop
<1> DEFINE cb == CallbackFrame(o)
           deeper == Append(loop, cb)
<1>a. /\ cb \in Frame /\ cb.call = "callback" /\ CancelOf(cb) = {} /\ CommitOf(cb) = {}
      /\ HeldOf(cb) = {} /\ CompleteOf(cb) = {}
  BY <1>7, CallbackSets, FramesAreFrames
<1> HIDE DEF cb
<1>9. /\ deeper \in Seq(Frame) /\ Under(deeper) = loop
      /\ Canceling(deeper) = {} /\ Committing(deeper) = {}
      /\ Held(deeper) = Held(stack) /\ Completes(deeper) = Completes(stack)
  <2>1. /\ loop \in Seq(Frame) /\ Calm(loop)
        /\ Canceling(loop) = {} /\ Committing(loop) = {}
        /\ Held(loop) = Held(stack) /\ Completes(loop) = Completes(stack)
    BY <1>8
  <2> HIDE DEF deeper
  <2>2. /\ deeper \in Seq(Frame) /\ Under(deeper) = loop
        /\ Canceling(deeper) = CancelOf(cb) /\ Committing(deeper) = CommitOf(cb)
        /\ Held(deeper) = Held(loop) \cup HeldOf(cb)
        /\ Completes(deeper) = Completes(loop) \cup CompleteOf(cb)
    BY <1>a, <2>1, Pushed DEF deeper
  <2> QED
    BY <1>a, <2>1, <2>2
<1> HIDE DEF deeper
<1>10. /\ stack' \in Seq(Frame) /\ Calm(Under(stack'))
       /\ Canceling(stack') = Canceling(stack) /\ Committing(stack') = Committing(stack)
       /\ Held(stack') = Held(stack) /\ Completes(stack') = Completes(stack)
  BY <1>1, <1>4, <1>6, <1>8, <1>9 DEF deeper, cb
<1>11. called' \in [Groups -> Seq(Ops \X BOOLEAN)]
  <2>1. called[t] \in Seq(Ops \X BOOLEAN) /\ <<o, f.canceled>> \in Ops \X BOOLEAN
    BY <1>2, <1>7 DEF TxnInv, TxnTypes, t
  <2>2. Append(called[t], <<o, f.canceled>>) \in Seq(Ops \X BOOLEAN)
    BY <2>1
  <2> QED
    BY <1>4, <2>2 DEF TxnInv, TxnTypes
<1>12. HandsOn /\ WaitingTop' /\ UNCHANGED vars
  BY <1>4, QueueIdle
<1>13. \A u \in Groups : u \in Held(stack) => Retained(u)
  BY RetainedIs
<1> QED
  BY <1>4, <1>10, <1>11, <1>12, <1>13, StackStep DEF TxnInv, TxnTypes, CompletingClosed, layerVars

\* A call returns without having changed a transaction or a layer.
LEMMA ReturnKeeps ==
  ASSUME TxnInv, MainThreadFree, NEW x, Inside(x), stack' = Under(stack),
         CancelOf(Last(stack)) = {}, CommitOf(Last(stack)) = {}, nilled' \subseteq Ops,
         UNCHANGED <<queueVars, state, operations, outcome, called, finishes, layerVars>>
  PROVE  TxnInv' /\ UNCHANGED vars
<1> DEFINE R == Under(stack)
<1>1. /\ R \in Seq(Frame) /\ Calm(R)
      /\ Canceling(stack) = {} /\ Committing(stack) = {}
      /\ Canceling(R) = {} /\ Committing(R) = {}
      /\ Held(R) \subseteq Held(stack) /\ Completes(R) \subseteq Completes(stack)
  BY Innermost
<1> HIDE DEF R
<1>2. R # <<>> => Calm(Under(R))
  BY <1>1, Returned
<1>3. HandsOn /\ WaitingTop' /\ UNCHANGED vars
  BY QueueIdle DEF MainThreadFree
<1>4. \A u \in Groups : u \in Held(R) => Retained(u)
  BY <1>1, RetainedIs
<1>5. stack' = R
  BY DEF R
<1> QED
  BY <1>1, <1>2, <1>3, <1>4, <1>5, StackStep DEF TxnInv, TxnTypes, CompletingClosed, layerVars

LEMMA CallbackReturnsKeeps ==
  ASSUME TxnInv, CallbackReturns
  PROVE  TxnInv' /\ UNCHANGED vars
<1>1. /\ Last(stack) \in Frame /\ Last(stack).call = "callback"
      /\ stack' = Under(stack) /\ nilled' = nilled \cup {Last(stack).op}
  BY Innermost DEF CallbackReturns
<1>2. Last(stack).op \in Ops /\ CancelOf(Last(stack)) = {} /\ CommitOf(Last(stack)) = {}
  BY <1>1, FrameParts DEF CancelOf, CommitOf
<1>3. nilled' \subseteq Ops
  BY <1>1, <1>2 DEF TxnInv, TxnTypes
<1> QED
  BY <1>1, <1>2, <1>3, ReturnKeeps DEF CallbackReturns

LEMMA LoopEndsKeeps ==
  ASSUME TxnInv, LoopEnds
  PROVE  TxnInv' /\ UNCHANGED vars
<1>1. PICK x \in {"commit", "waitAll"} : Inside(x)
  BY DEF LoopEnds
<1>2. /\ Last(stack) \in Frame /\ Last(stack).call = x
      /\ stack' = Under(stack) /\ Last(stack).todo = {}
  BY <1>1, Innermost DEF LoopEnds
<1>3. CancelOf(Last(stack)) = {} /\ CommitOf(Last(stack)) = {}
  BY <1>2 DEF CancelOf, CommitOf
<1>4. nilled' \subseteq Ops
  BY DEF LoopEnds, txnVars, TxnInv, TxnTypes
<1> QED
  BY <1>1, <1>2, <1>3, <1>4, ReturnKeeps DEF LoopEnds, txnVars

\* The group's commit starts where nothing commits or cancels.
LEMMA CommitStarts ==
  ASSUME TxnInv, MainThreadFree, stack = <<>> \/ Inside("wait"),
         stack' = Push(CommitFrame(registered)), registered' = {},
         UNCHANGED <<queueVars, txnVars, current, layerTxns>>
  PROVE  TxnInv' /\ UNCHANGED vars
<1>1. Calm(stack) /\ Canceling(stack) = {} /\ Committing(stack) = {} /\ stack \in Seq(Frame)
  BY Quiet DEF TxnInv, TxnTypes
<1> DEFINE f == CommitFrame(registered)
<1>2. /\ f \in Frame /\ CancelOf(f) = {} /\ CommitOf(f) = registered
      /\ HeldOf(f) = {} /\ CompleteOf(f) = {}
  BY CommitSets, FramesAreFrames DEF TxnInv, TxnTypes
<1> HIDE DEF f
<1>3. /\ Append(stack, f) \in Seq(Frame) /\ Under(Append(stack, f)) = stack
      /\ Canceling(Append(stack, f)) = {} /\ Committing(Append(stack, f)) = registered
      /\ Held(Append(stack, f)) = Held(stack) /\ Completes(Append(stack, f)) = Completes(stack)
  <2>1. /\ Append(stack, f) \in Seq(Frame) /\ Under(Append(stack, f)) = stack
        /\ Canceling(Append(stack, f)) = CancelOf(f) /\ Committing(Append(stack, f)) = CommitOf(f)
        /\ Held(Append(stack, f)) = Held(stack) \cup HeldOf(f)
        /\ Completes(Append(stack, f)) = Completes(stack) \cup CompleteOf(f)
    BY <1>1, <1>2, Pushed
  <2> QED
    BY <1>2, <2>1
<1>4. stack' = Append(stack, f)
  BY DEF Push, f
<1>5. HandsOn /\ WaitingTop' /\ UNCHANGED vars
  BY QueueIdle DEF MainThreadFree
<1>6. \A u \in Groups : u \in Held(stack) => Retained(u)
  BY RetainedIs
<1>7. /\ nilled' \subseteq Ops /\ outcome' \in [Ops -> {"none", "ran", "skipped"}]
      /\ called' \in [Groups -> Seq(Ops \X BOOLEAN)] /\ registered' \subseteq Containers
  BY DEF TxnInv, TxnTypes, txnVars
<1>8. \A u \in Groups : u \in Completes(stack') => Closed(u)
  BY <1>3, <1>4 DEF TxnInv, CompletingClosed
<1> QED
  BY <1>1, <1>3, <1>4, <1>5, <1>6, <1>7, <1>8, StackStep DEF txnVars

LEMMA RunLoopCommitKeeps ==
  ASSUME TxnInv, RunLoopCommit
  PROVE  TxnInv' /\ UNCHANGED vars
  BY CommitStarts DEF RunLoopCommit, AtRunLoop

LEMMA WaitCommitsKeeps ==
  ASSUME TxnInv, WaitCommits
  PROVE  TxnInv' /\ UNCHANGED vars
  BY CommitStarts DEF WaitCommits

LEMMA WaitForLayerKeeps ==
  ASSUME TxnInv, NEW c \in Containers, WaitForLayer(c)
  PROVE  TxnInv' /\ UNCHANGED vars
<1>1. Calm(stack) /\ Canceling(stack) = {} /\ Committing(stack) = {} /\ stack \in Seq(Frame)
  BY Quiet DEF TxnInv, TxnTypes, WaitForLayer, ClientRuns
<1> DEFINE x == layerTxns[c]
           f == WaitAllFrame(x)
<1>2. x \in SUBSET Groups
  BY DEF TxnInv, TxnTypes
<1>3. /\ f \in Frame /\ CancelOf(f) = {} /\ CommitOf(f) = {}
      /\ HeldOf(f) = x /\ CompleteOf(f) = {}
  BY <1>2, WaitAllSets, FramesAreFrames
<1>4. /\ stack' = Append(stack, f) /\ waiting = NoGroup
      /\ UNCHANGED <<queueVars, txnVars, layerVars>>
  BY DEF WaitForLayer, Push, ClientRuns, MainThreadFree
<1> HIDE DEF f
<1>5. /\ Append(stack, f) \in Seq(Frame) /\ Under(Append(stack, f)) = stack
      /\ Canceling(Append(stack, f)) = {} /\ Committing(Append(stack, f)) = {}
      /\ Held(Append(stack, f)) = Held(stack) \cup x
      /\ Completes(Append(stack, f)) = Completes(stack)
  BY <1>1, <1>3, Pushed
<1>6. HandsOn /\ WaitingTop' /\ UNCHANGED vars
  BY <1>4, QueueIdle
<1>7. \A u \in Groups : u \in Held(stack) \cup x => Retained(u)
  BY RetainedIs DEF LayerHolds
<1>8. /\ nilled' \subseteq Ops /\ outcome' \in [Ops -> {"none", "ran", "skipped"}]
      /\ called' \in [Groups -> Seq(Ops \X BOOLEAN)] /\ registered' \subseteq Containers
  BY <1>4 DEF TxnInv, TxnTypes, txnVars, layerVars
<1>9. \A u \in Groups : u \in Completes(stack') => Closed(u)
  BY <1>4, <1>5 DEF TxnInv, CompletingClosed
<1> QED
  BY <1>1, <1>4, <1>5, <1>6, <1>7, <1>8, <1>9, StackStep DEF txnVars, layerVars

\* -completeTransaction is entered for a transaction that is retained and closed.
LEMMA CompleteStarts ==
  ASSUME TxnInv, NEW t \in Groups, Closed(t), Retained(t),
         NEW R \in Seq(Frame), Calm(R), completeTransaction(t, R),
         Canceling(stack) = {}, Committing(stack) = {},
         Held(R) \subseteq Held(stack), Completes(R) \subseteq Completes(stack),
         HandsOn, waiting' = NoGroup,
         UNCHANGED <<txnVars, layerVars>>
  PROVE  TxnInv'
<1> DEFINE b == state[t] = "canceled"
           f == CompleteFrame(t, 1, b)
<1>1. /\ f \in Frame /\ f.call = "complete" /\ CancelOf(f) = {} /\ CommitOf(f) = {}
      /\ HeldOf(f) = {t} /\ CompleteOf(f) = {t}
  <2>1. PICK i \in Nat \ {0} : i = 1
    OBVIOUS
  <2>2. b \in BOOLEAN
    OBVIOUS
  <2> HIDE DEF b
  <2>3. CompleteFrame(t, i, b) \in Frame
    BY <2>1, <2>2, FramesAreFrames
  <2>4. f = CompleteFrame(t, i, b)
    BY <2>1
  <2> HIDE DEF f
  <2> QED
    BY <2>3, <2>4, CompleteSets
<1>2. stack' = R \/ stack' = Append(R, f)
  BY DEF completeTransaction
<1> HIDE DEF f
<1>3. /\ Append(R, f) \in Seq(Frame) /\ Under(Append(R, f)) = R
      /\ Canceling(Append(R, f)) = {} /\ Committing(Append(R, f)) = {}
      /\ Held(Append(R, f)) = Held(R) \cup {t} /\ Completes(Append(R, f)) = Completes(R) \cup {t}
  BY <1>1, Pushed
<1>4. R # <<>> => Calm(Under(R))
  BY Returned
<1>5. Canceling(R) = {} /\ Committing(R) = {}
  BY CalmSets
<1>6. /\ stack' \in Seq(Frame) /\ (stack' # <<>> => Calm(Under(stack')))
      /\ Canceling(stack') = {} /\ Committing(stack') = {}
      /\ Held(stack') \subseteq Held(stack) \cup {t}
      /\ Completes(stack') \subseteq Completes(stack) \cup {t}
  BY <1>2, <1>3, <1>4, <1>5
<1>7. \A u \in Groups : u \in Held(stack) => Retained(u)
  BY RetainedIs
<1>8. /\ nilled' \subseteq Ops /\ outcome' \in [Ops -> {"none", "ran", "skipped"}]
      /\ called' \in [Groups -> Seq(Ops \X BOOLEAN)] /\ registered' \subseteq Containers
  BY DEF TxnInv, TxnTypes, txnVars, layerVars
<1>9. \A u \in Groups : u \in Completes(stack') => Closed(u)
  BY <1>6 DEF TxnInv, CompletingClosed
<1>10. WaitingTop'
  BY DEF WaitingTop
<1> QED
  BY <1>6, <1>7, <1>8, <1>9, <1>10, StackStep DEF txnVars, layerVars

\* The assertion of -waitUntilComplete: a transaction that is still open belongs
\* to a registered layer when the wait is over.
LEMMA OpenIsRegistered ==
  ASSUME TxnInv, Inside("wait"), state[Last(stack).txn] = "open", Last(stack).txn \in Groups
  PROVE  registered # {}
<1>1. Canceling(stack) = {} /\ Committing(stack) = {}
  BY Quiet
<1>2. PICK c \in Containers : current[c] = Last(stack).txn
  BY DEF TxnInv, Links, LayersOK
<1>3. c \in registered
  BY <1>1, <1>2, NullAssumption DEF TxnInv, Links, CommitDue
<1> QED
  BY <1>3

LEMMA WaitCompletesKeeps ==
  ASSUME TxnInv, WaitCompletes
  PROVE  TxnInv' /\ UNCHANGED vars
<1> DEFINE R == Under(stack)
           f == Last(stack)
           t == f.txn
<1>1. /\ R \in Seq(Frame) /\ f \in Frame /\ f.call = "wait" /\ Calm(R)
      /\ Top = f /\ Pop = R /\ Inside("wait")
      /\ Held(stack) = Held(R) \cup HeldOf(f)
      /\ Completes(stack) = Completes(R) \cup CompleteOf(f)
  BY Innermost DEF WaitCompletes
<1>2. Canceling(stack) = {} /\ Committing(stack) = {}
  BY <1>1, Quiet
<1>3. t \in Groups /\ HeldOf(f) = {t}
  BY <1>1, FrameParts DEF HeldOf
<1>4. Retained(t)
  BY <1>1, <1>3, RetainedIs
<1>5. state[t] # "open"
  BY <1>1, <1>3, OpenIsRegistered DEF WaitCompletes
<1>6. Closed(t)
  BY <1>3, <1>4, <1>5 DEF Closed, TxnInv, Links, NoneUnused
<1>7. /\ completeTransaction(t, R) /\ UNCHANGED <<queueVars, txnVars, layerVars>>
      /\ waiting = NoGroup
  BY <1>1 DEF WaitCompletes, MainThreadFree
<1>8. HandsOn /\ UNCHANGED vars /\ waiting' = NoGroup
  BY <1>7, QueueIdle DEF queueVars, mainVars
<1> HIDE DEF R, f, t
<1> QED
  BY <1>1, <1>2, <1>3, <1>4, <1>6, <1>7, <1>8, CompleteStarts

LEMMA RunCommittedKeeps ==
  ASSUME IInv, TxnInv, RunCommitted
  PROVE  TxnInv' /\ RunNotified
<1> DEFINE t == Head(notified)
<1>1. /\ notified \in Seq(Groups) /\ notified # <<>> /\ waiting = NoGroup /\ stack = <<>>
      /\ notified' = Tail(notified) /\ completeTransaction(t, <<>>)
      /\ UNCHANGED <<entryVars, workerVars, opState, asyncOpen, groupVars, waiting,
                     woken, txnVars, layerVars>>
  BY NotifyAssumption DEF RunCommitted, AtRunLoop, MainThreadFree, IInv, MainType
<1>2. /\ t \in Groups /\ t \in Elements(notified)
      /\ Elements(notified') \subseteq Elements(notified)
  <2>1. /\ Len(notified) \in Nat \ {0} /\ DOMAIN notified = 1 .. Len(notified) /\ t = notified[1]
        /\ DOMAIN notified' = 1 .. Len(notified) - 1
        /\ \A i \in 1 .. Len(notified) - 1 : notified'[i] = notified[i + 1]
        /\ notified[1] \in Groups
    BY <1>1
  <2>2. 1 \in DOMAIN notified /\ \A i \in DOMAIN notified' : i + 1 \in DOMAIN notified
    BY <2>1
  <2> QED
    BY <2>1, <2>2 DEF Elements
<1>3. HandsOn
  BY <1>1, <1>2, IdleHandsOn DEF workerVars, groupVars
<1>4. Closed(t) /\ Retained(t)
  BY <1>2, RetainedIs DEF TxnInv, Links, NotifyKnown, QueueHolds
<1>5. RunNotified
  BY <1>1 DEF RunNotified, RunCommitted, AtRunLoop
<1>6. <<>> \in Seq(Frame)
  OBVIOUS
<1> HIDE DEF t
<1> QED
  BY <1>1, <1>2, <1>3, <1>4, <1>5, <1>6, EmptySets, CompleteStarts

\* The calls stay as they are.
LEMMA SameStack ==
  ASSUME TxnInv, HandsOn, WaitingTop',
         UNCHANGED <<state, operations, nilled, called, finishes, layerVars, stack>>,
         outcome' \in [Ops -> {"none", "ran", "skipped"}]
  PROVE  TxnInv'
<1>1. /\ nilled' \subseteq Ops /\ called' \in [Groups -> Seq(Ops \X BOOLEAN)]
      /\ registered' \subseteq Containers /\ stack' \in Seq(Frame)
  BY DEF TxnInv, TxnTypes, layerVars
<1>2. stack' # <<>> => Calm(Under(stack'))
  BY DEF TxnInv, StackShape
<1>3. \A u \in Groups : u \in Held(stack) => Retained(u)
  BY RetainedIs
<1>4. \A u \in Groups : u \in Completes(stack) => Closed(u)
  BY DEF TxnInv, CompletingClosed
<1> QED
  BY <1>1, <1>2, <1>3, <1>4, StackStep DEF layerVars

LEMMA WakeKeeps ==
  ASSUME TxnInv, Wake
  PROVE  TxnInv'
<1>1. /\ WaitWakes /\ waiting' \in {waiting, NoGroup}
      /\ UNCHANGED <<entryVars, workerVars, opState, asyncOpen, groupVars, notified>>
      /\ UNCHANGED <<txnVars, layerVars, stack>>
  BY DEF Wake, WaitWakes
<1>2. HandsOn
  BY <1>1, IdleHandsOn DEF workerVars, groupVars
<1>3. WaitingTop'
  BY <1>1 DEF TxnInv, WaitingTop
<1>4. outcome' \in [Ops -> {"none", "ran", "skipped"}]
  BY <1>1 DEF TxnInv, TxnTypes, txnVars
<1> QED
  BY <1>1, <1>2, <1>3, <1>4, SameStack DEF txnVars

LEMMA TxnWorkerKeeps ==
  ASSUME IInv, TxnInv, NEW q \in Queues, NEW s \in Threads, TxnWorker(q, s)
  PROVE  TxnInv' /\ Worker(q, s)
<1>1. Worker(q, s)
  BY DEF TxnWorker, RunExecutionBlock, Worker
<1>2. HandsOn /\ waiting' = waiting
  BY <1>1, WorkerHandsOn
<1>3. UNCHANGED <<state, operations, nilled, called, finishes, layerVars, stack>>
  BY DEF TxnWorker
<1>4. WaitingTop'
  BY <1>2, <1>3 DEF TxnInv, WaitingTop
<1>5. outcome' = outcome \/ \E o, v : v \in {"skipped", "ran"} /\ outcome' = [outcome EXCEPT ![o] = v]
  BY DEF TxnWorker, RunExecutionBlock
<1>6. outcome' \in [Ops -> {"none", "ran", "skipped"}]
  BY <1>5 DEF TxnInv, TxnTypes
<1> QED
  BY <1>1, <1>2, <1>3, <1>4, <1>6, SameStack

LEMMA AsyncValueKeeps ==
  ASSUME IInv, TxnInv, NEW o \in Ops, AsyncValue(o)
  PROVE  TxnInv' /\ CompleteAsync(o)
<1>1. CompleteAsync(o)
  BY DEF AsyncValue
<1>2. HandsOn /\ waiting' = waiting
  BY <1>1, AsyncHandsOn
<1>3. UNCHANGED <<state, operations, nilled, called, finishes, layerVars, stack>>
  BY DEF AsyncValue
<1>4. WaitingTop'
  BY <1>2, <1>3 DEF TxnInv, WaitingTop
<1>5. outcome' \in [Ops -> {"none", "ran", "skipped"}]
  BY DEF AsyncValue, TxnInv, TxnTypes
<1> QED
  BY <1>1, <1>2, <1>3, <1>4, <1>5, SameStack

\* -dealloc releases a group that nobody refers to, and that nobody waits for.
LEMMA DeallocKeeps ==
  ASSUME IInv, TxnInv, NEW t \in Groups, Dealloc(t)
  PROVE  TxnInv' /\ Release(t)
<1>1. /\ Owned(t) /\ ~Retained(t) /\ release(t)
      /\ UNCHANGED <<entryVars, workerVars, opState, asyncOpen, pending, notifyList,
                     mainVars, txnVars, layerVars, stack>>
  BY DEF Dealloc
<1>2. waiting # t
  <2> SUFFICES ASSUME waiting = t PROVE FALSE
    OBVIOUS
  <2>1. stack # <<>> /\ Last(stack) = WaitFrame(t) /\ stack \in Seq(Frame)
    BY NullAssumption DEF TxnInv, WaitingTop, TxnTypes
  <2>2. Inside("wait") /\ HeldOf(Last(stack)) = {t}
    BY <2>1 DEF Inside, Top, Last, WaitFrame, HeldOf
  <2>3. t \in Held(stack)
    BY <2>2, Innermost
  <2> QED
    BY <1>1, <2>3, RetainedIs
<1>3. Release(t)
  BY <1>1, <1>2 DEF Release
<1>4. \A u \in Groups : Retained(u)' <=> Retained(u)
  BY <1>1 DEF Retained, entryVars, workerVars, mainVars, layerVars
<1>5. /\ \A u \in Groups : group'[u] = "none" <=> group[u] = "none"
      /\ \A u \in Groups : releaseCalled'[u] => releaseCalled[u] \/ u = t
      /\ \A u \in Groups : group'[u] = "deleted" => group[u] = "deleted" \/ u = t
  BY <1>1 DEF release, Owned, IInv, GroupType, FlagsType
<1>6. Links'
  BY <1>1, <1>4, <1>5, Handover DEF Owned, mainVars, txnVars, layerVars
<1>7. TxnTypes' /\ StackShape' /\ CompletingClosed' /\ WaitingTop'
  BY <1>1 DEF TxnInv, TxnTypes, StackShape, CompletingClosed, Closed, WaitingTop, mainVars, txnVars, layerVars
<1> QED
  BY <1>3, <1>6, <1>7 DEF TxnInv

\* wait() is called for a group that the loop of the waiting call still holds.
LEMMA WaitForNextKeeps ==
  ASSUME IInv, TxnInv, WaitForNext
  PROVE  TxnInv' /\ ((\E t \in Groups : WaitBlocks(t)) \/ UNCHANGED vars)
<1> DEFINE R == Under(stack)
           f == Last(stack)
<1>1. /\ R \in Seq(Frame) /\ f \in Frame /\ f.call = "waitAll" /\ Calm(R)
      /\ Top = f /\ Pop = R
      /\ Canceling(stack) = CancelOf(f) /\ Committing(stack) = CommitOf(f)
      /\ Held(stack) = Held(R) \cup HeldOf(f)
      /\ Completes(stack) = Completes(R) \cup CompleteOf(f)
  BY Innermost DEF WaitForNext
<1>2. /\ f.todo \in SUBSET Groups
      /\ CancelOf(f) = {} /\ CommitOf(f) = {} /\ HeldOf(f) = f.todo /\ CompleteOf(f) = {}
  BY <1>1, FrameParts DEF CancelOf, CommitOf, HeldOf, CompleteOf
<1>3. PICK t \in f.todo :
        LET rest   == Append(R, WaitAllFrame(f.todo \ {t}))
            waits  == state[t] # "complete" /\ group[t] # "none"
            blocks == waits /\ pending[t] > 0
        IN  /\ stack' = IF waits THEN Append(rest, WaitFrame(t)) ELSE rest
            /\ waiting' = IF blocks THEN t ELSE waiting
            /\ woken' = IF blocks THEN FALSE ELSE woken
  BY <1>1 DEF WaitForNext
<1>4. /\ waiting = NoGroup /\ MainThreadFree
      /\ UNCHANGED <<entryVars, workerVars, opState, asyncOpen, groupVars, notified,
                     txnVars, layerVars>>
  BY DEF WaitForNext, MainThreadFree
<1>5. t \in Groups /\ Retained(t)
  BY <1>1, <1>2, <1>3, RetainedIs
<1> HIDE DEF R, f
<1> DEFINE g == WaitAllFrame(f.todo \ {t})
           h == WaitFrame(t)
           rest == Append(R, g)
           deeper == Append(rest, h)
           waits == state[t] # "complete" /\ group[t] # "none"
           blocks == waits /\ pending[t] > 0
<1>6. /\ g \in Frame /\ g.call = "waitAll" /\ CancelOf(g) = {} /\ CommitOf(g) = {}
      /\ HeldOf(g) = f.todo \ {t} /\ CompleteOf(g) = {}
  <2>1. f.todo \ {t} \in SUBSET Groups
    BY <1>2
  <2> QED
    BY <2>1, WaitAllSets, FramesAreFrames
<1>7. /\ h \in Frame /\ h.call = "wait" /\ CancelOf(h) = {} /\ CommitOf(h) = {}
      /\ HeldOf(h) = {t} /\ CompleteOf(h) = {}
  BY <1>5, WaitSets, FramesAreFrames
<1>8. /\ stack' = IF waits THEN deeper ELSE rest
      /\ waiting' = IF blocks THEN t ELSE waiting
      /\ woken' = IF blocks THEN FALSE ELSE woken
  BY <1>3
<1> HIDE DEF g, rest, deeper, waits, blocks
<1>9. /\ rest \in Seq(Frame) /\ rest # <<>> /\ Under(rest) = R /\ Calm(rest)
      /\ Canceling(rest) = {} /\ Committing(rest) = {}
      /\ Held(rest) = Held(R) \cup (f.todo \ {t}) /\ Completes(rest) = Completes(R)
  <2>1. /\ rest \in Seq(Frame) /\ rest # <<>> /\ Under(rest) = R /\ Calm(rest)
        /\ Canceling(rest) = CancelOf(g) /\ Committing(rest) = CommitOf(g)
        /\ Held(rest) = Held(R) \cup HeldOf(g)
        /\ Completes(rest) = Completes(R) \cup CompleteOf(g)
    BY <1>1, <1>6, Pushed DEF rest
  <2> QED
    BY <1>6, <2>1
<1>10. /\ deeper \in Seq(Frame) /\ deeper # <<>> /\ Under(deeper) = rest /\ Last(deeper) = h
       /\ Canceling(deeper) = {} /\ Committing(deeper) = {}
       /\ Held(deeper) = Held(rest) \cup {t} /\ Completes(deeper) = Completes(rest)
  <2> HIDE DEF h
  <2>1. /\ deeper \in Seq(Frame) /\ deeper # <<>> /\ Under(deeper) = rest /\ Last(deeper) = h
        /\ Canceling(deeper) = CancelOf(h) /\ Committing(deeper) = CommitOf(h)
        /\ Held(deeper) = Held(rest) \cup HeldOf(h)
        /\ Completes(deeper) = Completes(rest) \cup CompleteOf(h)
    BY <1>7, <1>9, Pushed DEF deeper
  <2> QED
    BY <1>7, <2>1
<1>11. /\ stack' \in Seq(Frame) /\ Calm(Under(stack'))
       /\ Canceling(stack') = Canceling(stack) /\ Committing(stack') = Committing(stack)
       /\ Held(stack') \subseteq Held(stack) /\ Completes(stack') = Completes(stack)
  BY <1>1, <1>2, <1>8, <1>9, <1>10
<1>12. HandsOn
  BY <1>4, IdleHandsOn DEF workerVars, groupVars
<1>13. WaitingTop'
  <2>1. blocks => waits
    BY DEF blocks
  <2> QED
    BY <1>4, <1>8, <1>10, <2>1 DEF WaitingTop
<1>14. TxnInv'
  <2>1. \A u \in Groups : u \in Held(stack) => Retained(u)
    BY RetainedIs
  <2> QED
    BY <1>4, <1>11, <1>12, <1>13, <2>1, StackStep
       DEF TxnInv, TxnTypes, CompletingClosed, txnVars, layerVars
<1>15. CASE blocks
  <2>1. group[t] # "none" /\ pending[t] > 0
    BY <1>15 DEF blocks, waits
  <2>2. Owned(t)
    BY <1>5, <2>1 DEF Owned, TxnInv, Links, ReleasedFree, IInv, GroupType, FlagsType
  <2>3. WaitBlocks(t)
    BY <1>4, <1>8, <1>15, <2>1, <2>2 DEF WaitBlocks
  <2> QED
    BY <1>5, <1>14, <2>3
<1>16. CASE ~blocks
  BY <1>4, <1>8, <1>14, <1>16 DEF vars, mainVars
<1> QED
  BY <1>15, <1>16

-----------------------------------------------------------------------------
(* Steps that change a transaction's state.                                *)

\* What -commit of the current transaction of a layer does.
LEMMA CommitDoes ==
  ASSUME IInv, TxnInv, NEW t \in Groups, Retained(t), state[t] = "open",
         NEW rest, commit(t, rest)
  PROVE  /\ state' = [state EXCEPT ![t] = "committed"]
         /\ stack' = rest
         /\ finishes' \in [Groups -> Nat]
         /\ layerTxns' \in [Containers -> SUBSET Groups]
         /\ \A d \in Containers : layerTxns[d] \ {t} \subseteq layerTxns'[d]
                                  /\ layerTxns'[d] \subseteq layerTxns[d]
         /\ \/ UNCHANGED <<notified, notifyList>>
            \/ notify(t) /\ Owned(t) /\ Fresh(t)
         /\ \A u \in Groups :
              u \in Elements(notified') \/ u \in Elements(notifyList'[u]) =>
                u = t \/ u \in Elements(notified) \/ u \in Elements(notifyList[u])
<1>1. state' = [state EXCEPT ![t] = "committed"]
  BY DEF commit
<1>2. CASE operations[t] = <<>>
  <2>1. /\ finishes' = [finishes EXCEPT ![t] = @ + 1]
        /\ layerTxns' = [c \in Containers |-> layerTxns[c] \ {t}]
        /\ stack' = rest /\ UNCHANGED <<notified, notifyList>>
    BY <1>2 DEF commit, completionBlock
  <2>2. finishes[t] + 1 \in Nat
    BY DEF TxnInv, TxnTypes
  <2>3. finishes' \in [Groups -> Nat]
    BY <2>1, <2>2 DEF TxnInv, TxnTypes
  <2>4. /\ layerTxns' \in [Containers -> SUBSET Groups]
        /\ \A d \in Containers : layerTxns[d] \ {t} \subseteq layerTxns'[d]
                                 /\ layerTxns'[d] \subseteq layerTxns[d]
    BY <2>1 DEF TxnInv, TxnTypes
  <2> QED
    BY <1>1, <2>1, <2>3, <2>4
<1>3. CASE operations[t] # <<>>
  <2>1. notify(t) /\ stack' = rest /\ UNCHANGED <<finishes, layerTxns>>
    BY <1>3 DEF commit
  <2>2. Owned(t)
    BY <1>3 DEF Owned, TxnInv, Links, OpsKnown, ReleasedFree, IInv, GroupType, FlagsType
  <2>3. t \notin Elements(notified) /\ t \notin Elements(notifyList[t])
    BY DEF TxnInv, Links, NotifyKnown, Closed
  <2>4. Fresh(t)
    <3>1. ASSUME NEW g \in Groups, NEW i \in DOMAIN notifyList[g], notifyList[g][i] = t
          PROVE  FALSE
      <4>1. g = t
        BY <3>1, NotifyAssumption DEF IInv, NotifyHome
      <4> QED
        BY <2>3, <3>1, <4>1 DEF Elements
    <3>2. \A i \in DOMAIN notified : notified[i] # t
      BY <2>3 DEF Elements
    <3> QED
      BY <3>1, <3>2 DEF Fresh
  <2>5. /\ \A u \in Groups : u \in Elements(notified') => u = t \/ u \in Elements(notified)
        /\ \A u \in Groups : u \in Elements(notifyList'[u]) => u = t \/ u \in Elements(notifyList[u])
    <3>1. NotifyGroup[t] = t /\ t \in Notifies
      BY NotifyAssumption
    <3>2. CASE pending[t] = 0
      <4>1. notified' = Append(notified, t) /\ UNCHANGED notifyList
        BY <2>1, <3>1, <3>2 DEF notify
      <4>2. Elements(notified') = Elements(notified) \cup {t}
        BY <3>1, <4>1, AppendElements DEF IInv, MainType
      <4> QED
        BY <4>1, <4>2
    <3>3. CASE pending[t] # 0
      <4>1. notifyList' = [notifyList EXCEPT ![t] = Append(@, t)] /\ UNCHANGED notified
        BY <2>1, <3>1, <3>3 DEF notify
      <4>2. \A u \in Groups : u # t => notifyList'[u] = notifyList[u]
        BY <4>1 DEF IInv, GroupType
      <4> QED
        BY <4>1, <4>2
    <3> QED
      BY <3>2, <3>3
  <2>6. /\ finishes' \in [Groups -> Nat]
        /\ layerTxns' \in [Containers -> SUBSET Groups]
        /\ \A d \in Containers : layerTxns[d] \ {t} \subseteq layerTxns'[d]
                                 /\ layerTxns'[d] \subseteq layerTxns[d]
    BY <2>1 DEF TxnInv, TxnTypes
  <2> QED
    BY <1>1, <2>1, <2>2, <2>4, <2>5, <2>6
<1> QED
  BY <1>2, <1>3

\* Committing the current transaction of c keeps the links: it is not current any
\* longer, or a cancel of c has begun.
LEMMA CommitKeepsLinks ==
  ASSUME IInv, TxnInv, NEW c \in Containers, NEW t \in Groups, current[c] = t,
         Canceling(stack) = {},
         NEW rest, commit(t, rest),
         UNCHANGED <<op, opState, asyncOpen, pending, releaseCalled, group, operations, registered>>,
         \A d \in Containers : d # c => current'[d] = current[d],
         current'[c] = NoGroup \/ (current'[c] = t /\ c \in Canceling(rest)),
         Canceling(rest) \subseteq {c},
         Committing(stack) \subseteq Committing(rest) \cup {c},
         Held(rest) \subseteq Held(stack)
  PROVE  Links'
<1>1. state[t] = "open" /\ t \in layerTxns[c] /\ t # NoGroup
  BY NullAssumption DEF TxnInv, Links, LayersOK
<1>2. Retained(t)
  BY RetainedIs DEF LayerHolds
<1>3. /\ state' = [state EXCEPT ![t] = "committed"]
      /\ stack' = rest
      /\ \A d \in Containers : layerTxns[d] \ {t} \subseteq layerTxns'[d]
                               /\ layerTxns'[d] \subseteq layerTxns[d]
      /\ \A u \in Groups :
           u \in Elements(notified') \/ u \in Elements(notifyList'[u]) =>
             u = t \/ u \in Elements(notified) \/ u \in Elements(notifyList[u])
  BY <1>1, <1>2, CommitDoes
<1>4. \A u \in Groups : state'[u] = IF u = t THEN "committed" ELSE state[u]
  BY <1>3 DEF TxnInv, TxnTypes
<1>5. \A d \in Containers : current[d] = t => d = c
  BY <1>1 DEF TxnInv, Links, LayersOK
<1>6. \A d \in Containers : current[d] \in Groups \cup {NoGroup}
  BY DEF TxnInv, TxnTypes
<1>7. LayersOK'
  <2>1. \A d \in Containers : \A u \in layerTxns'[d] :
          state'[u] \in {"open", "committed", "canceled"}
    BY <1>3, <1>4 DEF TxnInv, TxnTypes, Links, LayersOK
  <2>2. \A d, e \in Containers : \A u \in layerTxns'[d] \cap layerTxns'[e] : d = e
    BY <1>3 DEF TxnInv, Links, LayersOK
  <2>3. \A u \in Groups : state'[u] = "open" => \E d \in Containers : current'[d] = u
    <3> SUFFICES ASSUME NEW u \in Groups, state'[u] = "open"
                 PROVE  \E d \in Containers : current'[d] = u
      OBVIOUS
    <3>1. u # t /\ state[u] = "open"
      BY <1>4
    <3>2. PICK d \in Containers : current[d] = u
      BY <3>1 DEF TxnInv, Links, LayersOK
    <3> QED
      BY <3>1, <3>2
  <2>4. ASSUME NEW d \in Containers, current'[d] # NoGroup
        PROVE  \/ state'[current'[d]] = "open" /\ current'[d] \in layerTxns'[d]
               \/ d \in Canceling(stack') /\ state'[current'[d]] = "committed"
    <3>1. CASE d = c
      BY <1>3, <1>4, <2>4, <3>1
    <3>2. CASE d # c
      <4>1. current'[d] = current[d] /\ current[d] \in Groups /\ current[d] # t
        BY <1>5, <1>6, <2>4, <3>2
      <4>2. state[current[d]] = "open" /\ current[d] \in layerTxns[d]
        BY <2>4, <4>1 DEF TxnInv, Links, LayersOK
      <4> QED
        BY <1>3, <1>4, <4>1, <4>2
    <3> QED
      BY <3>1, <3>2
  <2>5. \A d \in Canceling(stack') : current'[d] = NoGroup \/ state'[current'[d]] = "committed"
    BY <1>3, <1>4
  <2> QED
    BY <2>1, <2>2, <2>3, <2>4, <2>5 DEF LayersOK
<1>8. CommitDue'
  BY <1>3 DEF TxnInv, Links, CommitDue
<1>9. OpsKnown'
  BY DEF TxnInv, Links, OpsKnown
<1>10. NotifyKnown'
  BY <1>3, <1>4 DEF TxnInv, Links, NotifyKnown, Closed
<1>11. \A u \in Groups : Retained(u)' => Retained(u)
  <2> SUFFICES ASSUME NEW u \in Groups, Retained(u)', u # t PROVE Retained(u)
    BY <1>2
  <2>1. LayerHolds(u)' => LayerHolds(u)
    BY <1>3, NullAssumption DEF LayerHolds
  <2>2. QueueHolds(u)' => QueueHolds(u)
    BY <1>3 DEF QueueHolds
  <2> QED
    BY <1>3, <2>1, <2>2, RetainedIs, RetainedNext
<1>12. NoneUnused'
  BY <1>4, <1>11 DEF TxnInv, Links, NoneUnused
<1>13. ReleasedFree'
  BY <1>11 DEF TxnInv, Links, ReleasedFree
<1> QED
  BY <1>7, <1>8, <1>9, <1>10, <1>12, <1>13 DEF Links

LEMMA CommitNextKeeps ==
  ASSUME IInv, TxnInv, CommitNext
  PROVE  TxnInv' /\ ((\E n \in Notifies : Notify(n)) \/ UNCHANGED vars)
<1> DEFINE R == Under(stack)
           f == Last(stack)
<1>1. /\ R \in Seq(Frame) /\ f \in Frame /\ f.call = "commit" /\ Calm(R)
      /\ Top = f /\ Pop = R
      /\ Canceling(stack) = CancelOf(f) /\ Committing(stack) = CommitOf(f)
      /\ Held(stack) = Held(R) \cup HeldOf(f)
      /\ Completes(stack) = Completes(R) \cup CompleteOf(f)
  BY Innermost DEF CommitNext
<1>2. /\ f.todo \in SUBSET Containers
      /\ CancelOf(f) = {} /\ CommitOf(f) = f.todo /\ HeldOf(f) = {} /\ CompleteOf(f) = {}
  BY <1>1, FrameParts DEF CancelOf, CommitOf, HeldOf, CompleteOf
<1>3. PICK c \in f.todo :
        LET rest == Append(R, CommitFrame(f.todo \ {c})) IN
        /\ current' = [current EXCEPT ![c] = NoGroup]
        /\ IF current[c] = NoGroup
           THEN /\ stack' = rest
                /\ UNCHANGED <<state, finishes, layerTxns, notified, notifyList>>
           ELSE commit(current[c], rest)
  BY <1>1 DEF CommitNext
<1>4. /\ waiting = NoGroup /\ MainThreadFree
      /\ UNCHANGED <<entryVars, workerVars, opState, asyncOpen, pending, releaseCalled,
                     group, waiting, woken, operations, nilled, outcome, called, registered>>
  BY DEF CommitNext, MainThreadFree
<1> HIDE DEF R, f
<1> DEFINE g == CommitFrame(f.todo \ {c})
           rest == Append(R, g)
<1>5. c \in Containers
  BY <1>2
<1>6. /\ g \in Frame /\ CancelOf(g) = {} /\ CommitOf(g) = f.todo \ {c}
      /\ HeldOf(g) = {} /\ CompleteOf(g) = {}
  <2>1. f.todo \ {c} \in SUBSET Containers
    BY <1>2
  <2> QED
    BY <2>1, CommitSets, FramesAreFrames
<1>7. /\ current' = [current EXCEPT ![c] = NoGroup]
      /\ IF current[c] = NoGroup
         THEN /\ stack' = rest
              /\ UNCHANGED <<state, finishes, layerTxns, notified, notifyList>>
         ELSE commit(current[c], rest)
  BY <1>3
<1> HIDE DEF g, rest
<1>8. /\ rest \in Seq(Frame) /\ rest # <<>> /\ Calm(Under(rest))
      /\ Canceling(rest) = {} /\ Committing(rest) = f.todo \ {c}
      /\ Held(rest) = Held(stack) /\ Completes(rest) = Completes(stack)
  <2>1. /\ rest \in Seq(Frame) /\ rest # <<>> /\ Under(rest) = R
        /\ Canceling(rest) = CancelOf(g) /\ Committing(rest) = CommitOf(g)
        /\ Held(rest) = Held(R) \cup HeldOf(g)
        /\ Completes(rest) = Completes(R) \cup CompleteOf(g)
    BY <1>1, <1>6, Pushed DEF rest
  <2> QED
    BY <1>1, <1>2, <1>6, <2>1
<1>9. /\ current' \in [Containers -> Groups \cup {NoGroup}] /\ current'[c] = NoGroup
      /\ \A d \in Containers : d # c => current'[d] = current[d]
  BY <1>5, <1>7 DEF TxnInv, TxnTypes
<1>10. WaitingTop'
  BY <1>4 DEF WaitingTop
<1>11. CASE current[c] = NoGroup
  <2>1. stack' = rest /\ UNCHANGED <<state, finishes, layerTxns, notified, notifyList>>
    BY <1>7, <1>11
  <2>2. current' = current
    BY <1>5, <1>7, <1>11 DEF TxnInv, TxnTypes
  <2>3. UNCHANGED vars
    BY <1>4, <2>1 DEF vars, groupVars, mainVars
  <2>4. HandsOn
    BY <1>4, <2>1, IdleHandsOn DEF workerVars
  <2>5. \A u \in Groups : Retained(u)' => Retained(u)
    <3>1. \A u \in Groups : LayerHolds(u)' => LayerHolds(u)
      BY <2>1, <2>2 DEF LayerHolds
    <3> QED
      BY <1>8, <2>1, <2>4, <3>1, RetainedIs, RetainedNext DEF HandsOn
  <2>6. LayersOK'
    BY <1>1, <1>2, <1>8, <2>1, <2>2 DEF TxnInv, Links, LayersOK
  <2>7. CommitDue'
    BY <1>1, <1>2, <1>4, <1>8, <1>11, <2>1, <2>2 DEF TxnInv, Links, CommitDue
  <2>8. OpsKnown' /\ NotifyKnown' /\ NoneUnused' /\ ReleasedFree'
    BY <1>4, <2>1, <2>5 DEF TxnInv, Links, OpsKnown, NotifyKnown, Closed, NoneUnused, ReleasedFree
  <2>9. TxnTypes'
    BY <1>4, <1>8, <1>9, <2>1 DEF TxnInv, TxnTypes
  <2>10. StackShape' /\ CompletingClosed'
    BY <1>8, <2>1 DEF StackShape, TxnInv, CompletingClosed, Closed
  <2> QED
    BY <1>10, <2>3, <2>6, <2>7, <2>8, <2>9, <2>10 DEF TxnInv, Links
<1>12. CASE current[c] # NoGroup
  <2>1. PICK t \in Groups : t = current[c]
    BY <1>5, <1>12 DEF TxnInv, TxnTypes
  <2>2. commit(t, rest)
    BY <1>7, <1>12, <2>1
  <2>3. state[t] = "open" /\ Retained(t)
    BY <1>1, <1>2, <1>5, <1>12, <2>1, RetainedIs DEF TxnInv, Links, LayersOK, LayerHolds
  <2>4. /\ state' = [state EXCEPT ![t] = "committed"]
        /\ stack' = rest
        /\ finishes' \in [Groups -> Nat]
        /\ layerTxns' \in [Containers -> SUBSET Groups]
        /\ \/ UNCHANGED <<notified, notifyList>>
           \/ notify(t) /\ Owned(t) /\ Fresh(t)
    BY <2>2, <2>3, CommitDoes
  <2>5. Links'
    BY <1>1, <1>2, <1>4, <1>5, <1>8, <1>9, <2>1, <2>2, CommitKeepsLinks DEF workerVars
  <2>6. TxnTypes'
    BY <1>4, <1>8, <1>9, <2>4 DEF TxnInv, TxnTypes
  <2>7. StackShape' /\ CompletingClosed'
    <3>1. \A u \in Groups : Closed(u) => state'[u] \notin {"none", "open"}
      BY <2>4 DEF Closed, TxnInv, TxnTypes
    <3> QED
      BY <1>8, <2>4, <3>1 DEF StackShape, TxnInv, CompletingClosed, Closed
  <2>8. t \in Notifies /\ NotifyGroup[t] = t
    BY NotifyAssumption
  <2>9. Notify(t) \/ UNCHANGED vars
    BY <1>4, <2>4, <2>8 DEF Notify, vars, groupVars, mainVars
  <2> QED
    BY <1>10, <2>5, <2>6, <2>7, <2>8, <2>9 DEF TxnInv
<1> QED
  BY <1>11, <1>12

LEMMA CancelTransactionsKeeps ==
  ASSUME IInv, TxnInv, NEW c \in Containers, CancelTransactions(c)
  PROVE  TxnInv' /\ ((\E n \in Notifies : Notify(n)) \/ UNCHANGED vars)
<1> DEFINE f == CancelFrame(c)
           rest == Append(stack, f)
<1>1. Calm(stack) /\ Canceling(stack) = {} /\ Committing(stack) = {} /\ stack \in Seq(Frame)
  BY Quiet DEF TxnInv, TxnTypes, CancelTransactions, ClientRuns
<1>2. /\ f \in Frame /\ CancelOf(f) = {c} /\ CommitOf(f) = {}
      /\ HeldOf(f) = {} /\ CompleteOf(f) = {}
  BY CancelSets, FramesAreFrames
<1>3. /\ waiting = NoGroup /\ MainThreadFree
      /\ UNCHANGED <<entryVars, workerVars, opState, asyncOpen, pending, releaseCalled,
                     group, waiting, woken, operations, nilled, outcome, called, current,
                     registered>>
      /\ IF current[c] = NoGroup
         THEN /\ stack' = rest
              /\ UNCHANGED <<state, finishes, layerTxns, notified, notifyList>>
         ELSE state[current[c]] = "open" /\ commit(current[c], rest)
  BY DEF CancelTransactions, ClientRuns, MainThreadFree, Push
<1> HIDE DEF f, rest
<1>4. /\ rest \in Seq(Frame) /\ rest # <<>> /\ Under(rest) = stack
      /\ Canceling(rest) = {c} /\ Committing(rest) = {}
      /\ Held(rest) = Held(stack) /\ Completes(rest) = Completes(stack)
  <2>1. /\ rest \in Seq(Frame) /\ rest # <<>> /\ Under(rest) = stack
        /\ Canceling(rest) = CancelOf(f) /\ Committing(rest) = CommitOf(f)
        /\ Held(rest) = Held(stack) \cup HeldOf(f)
        /\ Completes(rest) = Completes(stack) \cup CompleteOf(f)
    BY <1>1, <1>2, Pushed DEF rest
  <2> QED
    BY <1>2, <2>1
<1>5. WaitingTop'
  BY <1>3 DEF WaitingTop
<1>6. CASE current[c] = NoGroup
  <2>1. stack' = rest /\ UNCHANGED <<state, finishes, layerTxns, notified, notifyList>>
    BY <1>3, <1>6
  <2>2. UNCHANGED vars
    BY <1>3, <2>1 DEF vars, groupVars, mainVars
  <2>3. HandsOn
    BY <1>3, <2>1, IdleHandsOn DEF workerVars
  <2>4. \A u \in Groups : Retained(u)' => Retained(u)
    <3>1. \A u \in Groups : LayerHolds(u)' => LayerHolds(u)
      BY <1>3, <2>1 DEF LayerHolds
    <3> QED
      BY <1>4, <2>1, <2>3, <3>1, RetainedIs, RetainedNext DEF HandsOn
  <2>5. LayersOK'
    BY <1>1, <1>3, <1>4, <1>6, <2>1 DEF TxnInv, Links, LayersOK
  <2>6. CommitDue'
    BY <1>1, <1>3, <1>4, <2>1 DEF TxnInv, Links, CommitDue
  <2>7. OpsKnown' /\ NotifyKnown' /\ NoneUnused' /\ ReleasedFree'
    BY <1>3, <2>1, <2>4 DEF TxnInv, Links, OpsKnown, NotifyKnown, Closed, NoneUnused, ReleasedFree
  <2>8. TxnTypes'
    BY <1>3, <1>4, <2>1 DEF TxnInv, TxnTypes
  <2>9. StackShape' /\ CompletingClosed'
    BY <1>1, <1>4, <2>1 DEF StackShape, TxnInv, CompletingClosed, Closed
  <2> QED
    BY <1>5, <2>2, <2>5, <2>6, <2>7, <2>8, <2>9 DEF TxnInv, Links
<1>7. CASE current[c] # NoGroup
  <2>1. PICK t \in Groups : t = current[c]
    BY <1>7 DEF TxnInv, TxnTypes
  <2>2. commit(t, rest) /\ state[t] = "open"
    BY <1>3, <1>7, <2>1
  <2>3. Retained(t)
    BY <2>1, RetainedIs DEF LayerHolds
  <2>4. /\ state' = [state EXCEPT ![t] = "committed"]
        /\ stack' = rest
        /\ finishes' \in [Groups -> Nat]
        /\ layerTxns' \in [Containers -> SUBSET Groups]
        /\ \/ UNCHANGED <<notified, notifyList>>
           \/ notify(t) /\ Owned(t) /\ Fresh(t)
    BY <2>2, <2>3, CommitDoes
  <2>5. /\ \A d \in Containers : d # c => current'[d] = current[d]
        /\ current'[c] = t /\ c \in Canceling(rest) /\ Canceling(rest) \subseteq {c}
        /\ Committing(stack) \subseteq Committing(rest) \cup {c}
        /\ Held(rest) \subseteq Held(stack)
        /\ UNCHANGED <<op, opState, asyncOpen, pending, releaseCalled, group, operations,
                       registered>>
    BY <1>1, <1>3, <1>4, <2>1 DEF workerVars
  <2>6. Links'
    BY <1>1, <2>1, <2>2, <2>5, CommitKeepsLinks
  <2>7. TxnTypes'
    BY <1>3, <1>4, <2>4 DEF TxnInv, TxnTypes
  <2>8. StackShape' /\ CompletingClosed'
    <3>1. \A u \in Groups : Closed(u) => state'[u] \notin {"none", "open"}
      BY <2>4 DEF Closed, TxnInv, TxnTypes
    <3> QED
      BY <1>1, <1>4, <2>4, <3>1 DEF StackShape, TxnInv, CompletingClosed, Closed
  <2>9. t \in Notifies /\ NotifyGroup[t] = t
    BY NotifyAssumption
  <2>10. Notify(t) \/ UNCHANGED vars
    BY <1>3, <2>4, <2>9 DEF Notify, vars, groupVars, mainVars
  <2> QED
    BY <1>5, <2>6, <2>7, <2>8, <2>9, <2>10 DEF TxnInv
<1> QED
  BY <1>6, <1>7

\* asyncdisplaykit_cancelAsyncTransactions, after the commit: what the layer holds
\* is canceled, and it has no current transaction.
LEMMA CancelRestKeeps ==
  ASSUME TxnInv, CancelRest
  PROVE  TxnInv' /\ UNCHANGED vars
<1> DEFINE R == Under(stack)
           f == Last(stack)
           l == f.layer
<1>1. /\ R \in Seq(Frame) /\ f \in Frame /\ f.call = "cancel" /\ Calm(R)
      /\ Top = f /\ Pop = R
      /\ Canceling(R) = {} /\ Committing(R) = {}
      /\ Canceling(stack) = CancelOf(f) /\ Committing(stack) = CommitOf(f)
      /\ Held(stack) = Held(R) \cup HeldOf(f)
      /\ Completes(stack) = Completes(R) \cup CompleteOf(f)
  BY Innermost DEF CancelRest
<1>2. l \in Containers /\ CancelOf(f) = {l} /\ CommitOf(f) = {}
  BY <1>1, FrameParts DEF CancelOf, CommitOf
<1>3. /\ current' = [current EXCEPT ![l] = NoGroup]
      /\ state' = [t \in Groups |-> IF t \in layerTxns[l] THEN "canceled" ELSE state[t]]
      /\ stack' = R /\ waiting = NoGroup
      /\ UNCHANGED <<queueVars, operations, nilled, outcome, called, finishes,
                     layerTxns, registered>>
  BY <1>1 DEF CancelRest, MainThreadFree
<1> HIDE DEF R, f, l
<1>4. HandsOn /\ WaitingTop' /\ UNCHANGED vars
  BY <1>3, QueueIdle
<1>5. UNCHANGED <<opState, notified, notifyList, group, releaseCalled>>
  BY <1>3 DEF queueVars, groupVars, mainVars
<1>6. /\ current' \in [Containers -> Groups \cup {NoGroup}] /\ current'[l] = NoGroup
      /\ \A d \in Containers : d # l => current'[d] = current[d]
  BY <1>2, <1>3 DEF TxnInv, TxnTypes
<1>7. \A t \in Groups : state'[t] = IF t \in layerTxns[l] THEN "canceled" ELSE state[t]
  BY <1>3
<1>8. \A d \in Containers : layerTxns[d] \subseteq Groups /\ layerTxns'[d] = layerTxns[d]
  BY <1>3 DEF TxnInv, TxnTypes
<1>9. LayersOK'
  <2>1. \A d \in Containers : \A u \in layerTxns'[d] :
          state'[u] \in {"open", "committed", "canceled"}
    BY <1>7, <1>8 DEF TxnInv, Links, LayersOK
  <2>2. \A d, e \in Containers : \A u \in layerTxns'[d] \cap layerTxns'[e] : d = e
    BY <1>8 DEF TxnInv, Links, LayersOK
  <2>3. \A u \in Groups : state'[u] = "open" => \E d \in Containers : current'[d] = u
    <3> SUFFICES ASSUME NEW u \in Groups, state'[u] = "open"
                 PROVE  \E d \in Containers : current'[d] = u
      OBVIOUS
    <3>1. state[u] = "open"
      BY <1>7
    <3>2. PICK d \in Containers : current[d] = u
      BY <3>1 DEF TxnInv, Links, LayersOK
    <3>3. u # NoGroup
      BY NullAssumption
    <3>4. d # l
      BY <1>1, <1>2, <3>1, <3>2, <3>3 DEF TxnInv, Links, LayersOK
    <3> QED
      BY <1>6, <3>2, <3>4
  <2>4. ASSUME NEW d \in Containers, current'[d] # NoGroup
        PROVE  state'[current'[d]] = "open" /\ current'[d] \in layerTxns'[d]
    <3>1. d # l /\ current'[d] = current[d]
      BY <1>6, <2>4
    <3>2. state[current[d]] = "open" /\ current[d] \in layerTxns[d]
      BY <1>1, <1>2, <2>4, <3>1 DEF TxnInv, Links, LayersOK
    <3>3. current[d] \notin layerTxns[l]
      BY <1>2, <3>1, <3>2 DEF TxnInv, Links, LayersOK
    <3> QED
      BY <1>7, <1>8, <3>1, <3>2, <3>3
  <2> QED
    BY <1>1, <1>3, <2>1, <2>2, <2>3, <2>4 DEF LayersOK
<1>10. CommitDue'
  BY <1>1, <1>2, <1>3, <1>6 DEF TxnInv, Links, CommitDue
<1>11. \A u \in Groups : Retained(u)' => Retained(u)
  <2>1. \A u \in Groups : LayerHolds(u)' => LayerHolds(u)
    BY <1>6, <1>8, NullAssumption DEF LayerHolds
  <2> QED
    BY <1>1, <1>3, <1>4, <2>1, RetainedIs, RetainedNext DEF HandsOn
<1>12. OpsKnown' /\ NotifyKnown'
  BY <1>3, <1>5, <1>7 DEF TxnInv, Links, OpsKnown, NotifyKnown, Closed
<1>13. NoneUnused' /\ ReleasedFree'
  BY <1>3, <1>5, <1>7, <1>11 DEF TxnInv, Links, NoneUnused, ReleasedFree
<1>14. TxnTypes'
  <2>1. state' \in [Groups -> {"none", "open", "committed", "canceled", "complete"}]
    BY <1>3 DEF TxnInv, TxnTypes
  <2> QED
    BY <1>1, <1>3, <1>6, <2>1 DEF TxnInv, TxnTypes
<1>15. StackShape'
  BY <1>1, <1>3, Returned DEF StackShape
<1>16. CompletingClosed'
  BY <1>1, <1>3, <1>7 DEF TxnInv, CompletingClosed, Closed
<1> QED
  BY <1>4, <1>9, <1>10, <1>12, <1>13, <1>14, <1>15, <1>16 DEF TxnInv, Links

\* The end of -completeTransaction: no layer holds the transaction any longer.
LEMMA FinishTransactionKeeps ==
  ASSUME TxnInv, FinishTransaction
  PROVE  TxnInv' /\ UNCHANGED vars
<1> DEFINE R == Under(stack)
           f == Last(stack)
           t == f.txn
<1>1. /\ R \in Seq(Frame) /\ f \in Frame /\ f.call = "complete" /\ Calm(R)
      /\ Top = f /\ Pop = R
      /\ Canceling(R) = {} /\ Committing(R) = {}
      /\ Canceling(stack) = CancelOf(f) /\ Committing(stack) = CommitOf(f)
      /\ Held(stack) = Held(R) \cup HeldOf(f)
      /\ Completes(stack) = Completes(R) \cup CompleteOf(f)
  BY Innermost DEF FinishTransaction
<1>2. t \in Groups /\ CancelOf(f) = {} /\ CommitOf(f) = {} /\ CompleteOf(f) = {t}
  BY <1>1, FrameParts DEF CancelOf, CommitOf, CompleteOf
<1>3. /\ state' = [state EXCEPT ![t] = "complete"]
      /\ finishes' = [finishes EXCEPT ![t] = @ + 1]
      /\ layerTxns' = [c \in Containers |-> layerTxns[c] \ {t}]
      /\ stack' = R /\ waiting = NoGroup
      /\ UNCHANGED <<queueVars, operations, nilled, outcome, called, current, registered>>
  BY <1>1 DEF FinishTransaction, completionBlock, MainThreadFree
<1> HIDE DEF R, f, t
<1>4. HandsOn /\ WaitingTop' /\ UNCHANGED vars
  BY <1>3, QueueIdle
<1>5. UNCHANGED <<opState, notified, notifyList, group, releaseCalled>>
  BY <1>3 DEF queueVars, groupVars, mainVars
<1>6. \A u \in Groups : state'[u] = IF u = t THEN "complete" ELSE state[u]
  BY <1>3 DEF TxnInv, TxnTypes
<1>7. \A d \in Containers : layerTxns[d] \subseteq Groups /\ layerTxns'[d] = layerTxns[d] \ {t}
  BY <1>3 DEF TxnInv, TxnTypes
<1>8. Closed(t)
  BY <1>1, <1>2 DEF TxnInv, CompletingClosed
<1>9. LayersOK'
  <2>1. \A d \in Containers : current[d] # NoGroup =>
          state[current[d]] = "open" /\ current[d] \in layerTxns[d] /\ current[d] # t
    BY <1>1, <1>2, <1>8 DEF TxnInv, Links, LayersOK, Closed
  <2>2. \A d \in Containers : \A u \in layerTxns'[d] :
          u \in Groups /\ u # t /\ u \in layerTxns[d] /\ state'[u] = state[u]
    BY <1>6, <1>7
  <2>3. \A d \in Containers : current[d] # NoGroup =>
          state'[current[d]] = "open" /\ current[d] \in layerTxns'[d]
    BY <1>6, <1>7, <2>1
  <2>4. \A u \in Groups : state'[u] = "open" => \E d \in Containers : current[d] = u
    BY <1>6 DEF TxnInv, Links, LayersOK
  <2>5. UNCHANGED current /\ Canceling(stack') = {}
    BY <1>1, <1>3
  <2>6. \A d \in Containers : \A u \in layerTxns'[d] :
          state'[u] \in {"open", "committed", "canceled"}
    BY <2>2 DEF TxnInv, Links, LayersOK
  <2>7. \A d, e \in Containers : \A u \in layerTxns'[d] \cap layerTxns'[e] : d = e
    BY <2>2 DEF TxnInv, Links, LayersOK
  <2> QED
    BY <2>3, <2>4, <2>5, <2>6, <2>7 DEF LayersOK
<1>10. CommitDue'
  BY <1>1, <1>2, <1>3 DEF TxnInv, Links, CommitDue
<1>11. \A u \in Groups : Retained(u)' => Retained(u)
  <2>1. \A u \in Groups : LayerHolds(u)' => LayerHolds(u)
    BY <1>3, <1>7 DEF LayerHolds
  <2> QED
    BY <1>1, <1>3, <1>4, <2>1, RetainedIs, RetainedNext DEF HandsOn
<1>12. OpsKnown' /\ NotifyKnown'
  BY <1>3, <1>5, <1>6 DEF TxnInv, Links, OpsKnown, NotifyKnown, Closed
<1>13. NoneUnused' /\ ReleasedFree'
  BY <1>3, <1>5, <1>6, <1>11 DEF TxnInv, Links, NoneUnused, ReleasedFree
<1>14. TxnTypes'
  <2>1. finishes[t] + 1 \in Nat
    BY <1>2 DEF TxnInv, TxnTypes
  <2>2. /\ state' \in [Groups -> {"none", "open", "committed", "canceled", "complete"}]
        /\ finishes' \in [Groups -> Nat]
        /\ layerTxns' \in [Containers -> SUBSET Groups]
    BY <1>3, <2>1 DEF TxnInv, TxnTypes
  <2> QED
    BY <1>1, <1>3, <2>2 DEF TxnInv, TxnTypes
<1>15. StackShape'
  BY <1>1, <1>3, Returned DEF StackShape
<1>16. CompletingClosed'
  BY <1>1, <1>3, <1>6 DEF TxnInv, CompletingClosed, Closed
<1> QED
  BY <1>4, <1>9, <1>10, <1>12, <1>13, <1>14, <1>15, <1>16 DEF TxnInv, Links

\* The layer's transaction is open, nobody released its group, and its layer is
\* registered.
LEMMA TakeDoes ==
  ASSUME IInv, TxnInv, ClientRuns, NEW c \in Containers, NEW t \in Groups,
         asyncTransaction(c, t), UNCHANGED stack
  PROVE  /\ state' \in [Groups -> {"none", "open", "committed", "canceled", "complete"}]
         /\ current' \in [Containers -> Groups \cup {NoGroup}]
         /\ layerTxns' \in [Containers -> SUBSET Groups]
         /\ registered' \subseteq Containers
         /\ state'[t] = "open" /\ ~Closed(t)
         /\ \A u \in Groups : u # t => state'[u] = state[u]
         /\ LayersOK' /\ CommitDue'
         /\ \A u \in Groups : LayerHolds(u)' => LayerHolds(u) \/ u = t
         /\ ~releaseCalled[t] /\ group[t] \in {"none", "live"}
<1>1. Canceling(stack) = {} /\ Committing(stack) = {}
  BY Quiet DEF ClientRuns
<1>2. /\ current[c] = t \/ (current[c] = NoGroup /\ state[t] = "none")
      /\ state' = IF current[c] = t THEN state ELSE [state EXCEPT ![t] = "open"]
      /\ layerTxns' = [layerTxns EXCEPT ![c] = IF current[c] = t THEN @ ELSE @ \cup {t}]
      /\ current' = [current EXCEPT ![c] = t]
      /\ registered' = registered \cup {c}
      /\ t # NoGroup
  BY NullAssumption DEF asyncTransaction
<1>3. CASE current[c] = t
  <2>1. UNCHANGED <<state, layerTxns, current>>
    BY <1>2, <1>3 DEF TxnInv, TxnTypes
  <2>2. state[t] = "open"
    BY <1>1, <1>2, <1>3 DEF TxnInv, Links, LayersOK
  <2>3. Retained(t)
    BY <1>3, RetainedIs DEF LayerHolds
  <2>4. ~releaseCalled[t] /\ group[t] \in {"none", "live"}
    BY <2>3 DEF TxnInv, Links, ReleasedFree, IInv, GroupType
  <2>5. LayersOK' /\ CommitDue'
    BY <1>1, <1>2, <2>1 DEF TxnInv, Links, LayersOK, CommitDue
  <2> QED
    BY <1>2, <2>1, <2>2, <2>4, <2>5 DEF TxnInv, TxnTypes, Closed, LayerHolds
<1>4. CASE current[c] # t
  <2>1. /\ current[c] = NoGroup /\ state[t] = "none"
        /\ state' = [state EXCEPT ![t] = "open"]
        /\ layerTxns' = [layerTxns EXCEPT ![c] = layerTxns[c] \cup {t}]
    BY <1>2, <1>4
  <2>2. ~Retained(t) /\ operations[t] = <<>>
    BY <2>1 DEF TxnInv, Links, NoneUnused
  <2>3. \A d \in Containers : current[d] # t /\ t \notin layerTxns[d]
    BY <2>2, RetainedIs DEF LayerHolds
  <2>4. group[t] = "none" /\ ~releaseCalled[t]
    BY <2>2 DEF TxnInv, Links, OpsKnown, ReleasedFree
  <2>5. \A u \in Groups : state'[u] = IF u = t THEN "open" ELSE state[u]
    BY <2>1 DEF TxnInv, TxnTypes
  <2>6. \A d \in Containers : /\ current'[d] = IF d = c THEN t ELSE current[d]
                              /\ layerTxns'[d] = IF d = c THEN layerTxns[c] \cup {t} ELSE layerTxns[d]
                              /\ layerTxns[d] \subseteq Groups
                              /\ current[d] \in Groups \cup {NoGroup}
    BY <1>2, <2>1 DEF TxnInv, TxnTypes
  <2>7. LayersOK'
    <3>1. \A d \in Containers : \A u \in layerTxns'[d] :
            state'[u] \in {"open", "committed", "canceled"}
      BY <2>3, <2>5, <2>6 DEF TxnInv, Links, LayersOK
    <3>2. ASSUME NEW d \in Containers, NEW e \in Containers,
                 NEW u \in layerTxns'[d] \cap layerTxns'[e]
          PROVE  d = e
      <4>1. CASE u = t
        BY <2>3, <2>6, <3>2, <4>1
      <4>2. CASE u # t
        <5>1. u \in layerTxns[d] \cap layerTxns[e]
          BY <2>6, <3>2, <4>2
        <5> QED
          BY <5>1 DEF TxnInv, Links, LayersOK
      <4> QED
        BY <4>1, <4>2
    <3>3. ASSUME NEW u \in Groups, state'[u] = "open"
          PROVE  \E d \in Containers : current'[d] = u
      <4>1. CASE u = t
        BY <2>6, <4>1
      <4>2. CASE u # t
        <5>1. PICK d \in Containers : current[d] = u
          BY <2>5, <3>3, <4>2 DEF TxnInv, Links, LayersOK
        <5>2. d # c
          BY <2>1, <5>1, NullAssumption
        <5> QED
          BY <2>6, <5>1, <5>2
      <4> QED
        BY <4>1, <4>2
    <3>4. ASSUME NEW d \in Containers, current'[d] # NoGroup
          PROVE  state'[current'[d]] = "open" /\ current'[d] \in layerTxns'[d]
      <4>1. CASE d = c
        BY <2>5, <2>6, <4>1
      <4>2. CASE d # c
        <5>1. current'[d] = current[d] /\ current[d] \in Groups
          BY <2>6, <3>4, <4>2
        <5>2. state[current[d]] = "open" /\ current[d] \in layerTxns[d]
          BY <1>1, <3>4, <5>1 DEF TxnInv, Links, LayersOK
        <5> QED
          BY <2>5, <2>6, <5>1, <5>2
      <4> QED
        BY <4>1, <4>2
    <3> QED
      BY <1>1, <3>1, <3>2, <3>3, <3>4 DEF LayersOK
  <2>8. CommitDue'
    BY <1>1, <1>2, <2>6 DEF TxnInv, Links, CommitDue
  <2>9. \A u \in Groups : LayerHolds(u)' => LayerHolds(u) \/ u = t
    BY <2>6 DEF LayerHolds
  <2>10. /\ state' \in [Groups -> {"none", "open", "committed", "canceled", "complete"}]
         /\ current' \in [Containers -> Groups \cup {NoGroup}]
         /\ layerTxns' \in [Containers -> SUBSET Groups]
         /\ registered' \subseteq Containers
    BY <1>2, <2>1 DEF TxnInv, TxnTypes
  <2> QED
    BY <2>1, <2>4, <2>5, <2>7, <2>8, <2>9, <2>10 DEF Closed
<1> QED
  BY <1>3, <1>4

LEMMA TakeTransactionKeeps ==
  ASSUME IInv, TxnInv, NEW c \in Containers, NEW t \in Groups, TakeTransaction(c, t)
  PROVE  TxnInv' /\ UNCHANGED vars
<1>1. /\ ClientRuns /\ asyncTransaction(c, t) /\ waiting = NoGroup
      /\ UNCHANGED <<queueVars, operations, nilled, outcome, called, finishes, stack>>
  BY DEF TakeTransaction, ClientRuns, MainThreadFree
<1>2. /\ state' \in [Groups -> {"none", "open", "committed", "canceled", "complete"}]
      /\ current' \in [Containers -> Groups \cup {NoGroup}]
      /\ layerTxns' \in [Containers -> SUBSET Groups]
      /\ registered' \subseteq Containers
      /\ state'[t] = "open" /\ ~Closed(t)
      /\ \A u \in Groups : u # t => state'[u] = state[u]
      /\ LayersOK' /\ CommitDue'
      /\ \A u \in Groups : LayerHolds(u)' => LayerHolds(u) \/ u = t
      /\ ~releaseCalled[t] /\ group[t] \in {"none", "live"}
  BY <1>1, TakeDoes
<1>3. HandsOn /\ WaitingTop' /\ UNCHANGED vars
  BY <1>1, QueueIdle
<1>4. UNCHANGED <<opState, notified, notifyList, group, releaseCalled>>
  BY <1>1 DEF queueVars, groupVars, mainVars
<1>5. \A u \in Groups : Retained(u)' => Retained(u) \/ u = t
  BY <1>1, <1>2, <1>3, RetainedIs, RetainedNext DEF HandsOn
<1>6. OpsKnown' /\ NotifyKnown'
  BY <1>1, <1>2, <1>4 DEF TxnInv, Links, OpsKnown, NotifyKnown, Closed
<1>7. NoneUnused' /\ ReleasedFree'
  BY <1>1, <1>2, <1>4, <1>5 DEF TxnInv, Links, NoneUnused, ReleasedFree
<1>8. TxnTypes' /\ StackShape'
  BY <1>1, <1>2 DEF TxnInv, TxnTypes, StackShape
<1>9. CompletingClosed'
  BY <1>1, <1>2 DEF TxnInv, CompletingClosed, Closed
<1> QED
  BY <1>2, <1>3, <1>6, <1>7, <1>8, <1>9 DEF TxnInv, Links

LEMMA AddOperationKeeps ==
  ASSUME IInv, TxnInv, NEW c \in Containers, NEW o \in Ops, AddOperation(c, o)
  PROVE  TxnInv' /\ Schedule(o)
<1> DEFINE t == GroupOf[o]
<1>1. /\ ClientRuns /\ MainThreadFree /\ waiting = NoGroup /\ opState[o] = "new"
      /\ asyncTransaction(c, t)
      /\ operations' = [operations EXCEPT ![t] = Append(@, o)]
      /\ ensureGroup(t)
      /\ \E tracking \in BOOLEAN : schedule(o, tracking)
      /\ UNCHANGED <<op, asyncOpen, notifyList, releaseCalled, mainVars, nilled, outcome,
                     called, finishes, stack>>
  BY DEF AddOperation, ClientRuns, MainThreadFree
<1>2. t \in Groups
  BY PlacementAssumption
<1>3. /\ state' \in [Groups -> {"none", "open", "committed", "canceled", "complete"}]
      /\ current' \in [Containers -> Groups \cup {NoGroup}]
      /\ layerTxns' \in [Containers -> SUBSET Groups]
      /\ registered' \subseteq Containers
      /\ state'[t] = "open" /\ ~Closed(t)
      /\ \A u \in Groups : u # t => state'[u] = state[u]
      /\ LayersOK' /\ CommitDue'
      /\ \A u \in Groups : LayerHolds(u)' => LayerHolds(u) \/ u = t
      /\ ~releaseCalled[t] /\ group[t] \in {"none", "live"}
  BY <1>1, <1>2, TakeDoes
<1>4. Schedule(o)
  BY <1>1, <1>3 DEF Schedule, Owned
<1>5. /\ opState' = [opState EXCEPT ![o] = "queued"]
      /\ group' = IF group[t] = "none" THEN [group EXCEPT ![t] = "live"] ELSE group
  BY <1>1 DEF schedule, ensureGroup, createGroup
<1>6. GroupOf[o] = t /\ \A x \in Ops : GroupOf[x] \in Groups
  BY PlacementAssumption
<1> HIDE DEF t
<1>7. /\ \A x \in Ops : opState'[x] = IF x = o THEN "queued" ELSE opState[x]
      /\ \A u \in Groups : group'[u] = IF u = t THEN "live" ELSE group[u]
  BY <1>2, <1>3, <1>5 DEF IInv, OpType, GroupType
<1>8. /\ operations' \in [Groups -> Seq(Ops)]
      /\ Elements(operations'[t]) = Elements(operations[t]) \cup {o}
      /\ operations'[t] # <<>>
      /\ \A u \in Groups : u # t => operations'[u] = operations[u]
  <2>1. operations[t] \in Seq(Ops)
    BY <1>2 DEF TxnInv, TxnTypes
  <2>2. operations'[t] = Append(operations[t], o) /\ Append(operations[t], o) \in Seq(Ops)
    BY <1>1, <1>2, <2>1 DEF TxnInv, TxnTypes
  <2>3. /\ Elements(operations'[t]) = Elements(operations[t]) \cup {o}
        /\ operations'[t] # <<>>
    BY <2>1, <2>2, AppendElements
  <2> QED
    BY <1>1, <1>2, <2>2, <2>3 DEF TxnInv, TxnTypes
<1>9. UNCHANGED <<op, asyncOpen, notifyList, releaseCalled, notified, waiting, stack>>
  BY <1>1 DEF mainVars
<1>10. \A u \in Groups : Retained(u)' => Retained(u) \/ u = t
  <2>1. \A u \in Groups : QueueHolds(u)' => QueueHolds(u) \/ u = t
    BY <1>6, <1>7, <1>9 DEF QueueHolds
  <2> QED
    BY <1>3, <1>9, <2>1, RetainedIs, RetainedNext
<1>11. OpsKnown'
  <2>1. ASSUME NEW x \in Ops
        PROVE  opState'[x] # "new" <=> x \in Elements(operations'[GroupOf[x]])
    <3>1. opState[x] # "new" <=> x \in Elements(operations[GroupOf[x]])
      BY DEF TxnInv, Links, OpsKnown
    <3>2. CASE x = o
      BY <1>6, <1>7, <1>8, <3>2
    <3>3. CASE x # o
      BY <1>6, <1>7, <1>8, <3>1, <3>3
    <3> QED
      BY <3>2, <3>3
  <2>2. \A u \in Groups : \A x \in Elements(operations'[u]) : GroupOf[x] = u
    BY <1>6, <1>8 DEF TxnInv, Links, OpsKnown
  <2>3. \A u \in Groups : group'[u] = "none" <=> operations'[u] = <<>>
    BY <1>7, <1>8 DEF TxnInv, Links, OpsKnown
  <2> QED
    BY <2>1, <2>2, <2>3 DEF OpsKnown
<1>12. NotifyKnown' /\ CompletingClosed'
  BY <1>3, <1>9 DEF TxnInv, Links, NotifyKnown, CompletingClosed, Closed
<1>13. NoneUnused' /\ ReleasedFree'
  BY <1>3, <1>7, <1>8, <1>9, <1>10 DEF TxnInv, Links, NoneUnused, ReleasedFree
<1>14. TxnTypes' /\ StackShape' /\ WaitingTop'
  BY <1>1, <1>3, <1>8, <1>9 DEF TxnInv, TxnTypes, StackShape, WaitingTop
<1> QED
  BY <1>3, <1>4, <1>11, <1>12, <1>13, <1>14 DEF TxnInv, Links

-----------------------------------------------------------------------------
(* The invariant is inductive, and every step is one of the queue's.       *)

LEMMA InitTxnInv == TxnInit => IInv /\ TxnInv
<1> SUFFICES ASSUME TxnInit PROVE IInv /\ TxnInv
  OBVIOUS
<1>1. IInv
  BY InitIInv DEF TxnInit
<1>2. /\ opState = [o \in Ops |-> "new"] /\ asyncOpen = {}
      /\ op = [q \in Queues |-> [s \in Threads |-> NoOp]]
      /\ notifyList = [g \in Groups |-> <<>>] /\ notified = <<>>
      /\ releaseCalled = [g \in Groups |-> FALSE] /\ group = [g \in Groups |-> "none"]
      /\ waiting = NoGroup
  BY DEF TxnInit, Init
<1>3. TxnTypes
  <2>1. <<>> \in Seq(Ops) /\ <<>> \in Seq(Ops \X BOOLEAN) /\ <<>> \in Seq(Frame)
    OBVIOUS
  <2> QED
    BY <2>1 DEF TxnInit, TxnTypes
<1>4. Elements(<<>>) = {}
  BY DEF Elements
<1>5. StackShape /\ CompletingClosed /\ WaitingTop
  BY <1>2, EmptySets DEF TxnInit, StackShape, CompletingClosed, WaitingTop
<1>6. LayersOK /\ CommitDue
  BY EmptySets DEF TxnInit, LayersOK, CommitDue
<1>7. OpsKnown /\ NotifyKnown
  BY <1>2, <1>4, PlacementAssumption DEF TxnInit, OpsKnown, NotifyKnown
<1>8. \A t \in Groups : ~Retained(t)
  <2> SUFFICES ASSUME NEW t \in Groups PROVE ~Retained(t)
    OBVIOUS
  <2>1. ~LayerHolds(t)
    BY NullAssumption DEF TxnInit, LayerHolds
  <2>2. ~QueueHolds(t)
    BY <1>2, <1>4 DEF QueueHolds
  <2>3. t \notin Held(stack)
    BY EmptySets DEF TxnInit
  <2> QED
    BY <2>1, <2>2, <2>3, RetainedIs
<1>9. NoneUnused /\ ReleasedFree
  BY <1>2, <1>8 DEF TxnInit, NoneUnused, ReleasedFree
<1> QED
  BY <1>1, <1>3, <1>5, <1>6, <1>7, <1>9 DEF TxnInv, Links

\* One case for each action; the queue's own invariant follows because each is a
\* step of the queue or leaves it alone.
LEMMA TxnNextKeeps ==
  ASSUME IInv, TxnInv, [TxnNext]_allVars
  PROVE  IInv' /\ TxnInv' /\ [Next]_vars
<1>1. TxnInv' /\ [Next]_vars
  <2>1. CASE MainStep
    BY <2>1, CallCompletionKeeps, CallbackReturnsKeeps, FinishTransactionKeeps, CancelRestKeeps,
       CommitNextKeeps, LoopEndsKeeps, WaitForNextKeeps, WaitCommitsKeeps, WaitCompletesKeeps
       DEF MainStep, Next, Client
  <2>2. CASE Wake
    BY <2>2, WakeKeeps DEF Wake, Next
  <2>3. CASE RunCommitted
    BY <2>3, RunCommittedKeeps DEF Next
  <2>4. CASE RunLoopCommit
    BY <2>4, RunLoopCommitKeeps
  <2>5. CASE ClientStep
    <3>1. ASSUME NEW c \in Containers, NEW o \in Ops, AddOperation(c, o)
          PROVE  TxnInv' /\ Next
      BY <3>1, AddOperationKeeps DEF Next, Client
    <3>2. ASSUME NEW c \in Containers, NEW t \in Groups, TakeTransaction(c, t)
          PROVE  TxnInv' /\ UNCHANGED vars
      BY <3>2, TakeTransactionKeeps
    <3>3. ASSUME NEW c \in Containers, CancelTransactions(c) \/ WaitForLayer(c)
          PROVE  TxnInv' /\ [Next]_vars
      BY <3>3, CancelTransactionsKeeps, WaitForLayerKeeps DEF Next, Client
    <3> QED
      BY <2>5, <3>1, <3>2, <3>3 DEF ClientStep
  <2>6. ASSUME NEW q \in Queues, NEW s \in Threads, TxnWorker(q, s)
        PROVE  TxnInv' /\ [Next]_vars
    BY <2>6, TxnWorkerKeeps DEF Next
  <2>7. ASSUME NEW o \in Ops, AsyncValue(o)
        PROVE  TxnInv' /\ [Next]_vars
    BY <2>7, AsyncValueKeeps DEF Next
  <2>8. ASSUME NEW t \in Groups, Dealloc(t)
        PROVE  TxnInv' /\ [Next]_vars
    BY <2>8, DeallocKeeps DEF Next, Client
  <2>9. CASE UNCHANGED allVars
    <3>1. /\ UNCHANGED <<queueVars, txnVars, layerVars, stack>> /\ UNCHANGED vars
          /\ UNCHANGED <<op, opState, asyncOpen, notifyList, releaseCalled, group, notified, waiting>>
      BY <2>9 DEF allVars, queueVars, vars, workerVars, groupVars, mainVars
    <3>2. HandsOn
      BY <3>1, IdleHandsOn
    <3>3. WaitingTop' /\ outcome' \in [Ops -> {"none", "ran", "skipped"}]
      BY <3>1 DEF TxnInv, WaitingTop, TxnTypes, txnVars
    <3> QED
      BY <3>1, <3>2, <3>3, SameStack DEF txnVars
  <2> QED
    BY <2>1, <2>2, <2>3, <2>4, <2>5, <2>6, <2>7, <2>8, <2>9 DEF TxnNext
<1>2. IInv'
  BY <1>1, NextKeeps
<1> QED
  BY <1>1, <1>2

\* Every reachable state satisfies the queue's invariant and the transactions'.
THEOREM TxnInvariance == TxnSpec => [](IInv /\ TxnInv)
<1>1. IInv /\ TxnInv /\ [TxnNext]_allVars => (IInv /\ TxnInv)'
  BY TxnNextKeeps
<1> QED
  BY <1>1, InitTxnInv, PTL DEF TxnSpec

-----------------------------------------------------------------------------
(* What it gives.                                                          *)

\* Whatever the containers, the run loop, a wait and the client's callbacks do,
\* the queue sees only calls its contract allows: no enter(), leave(), wait() or
\* notify() on a group after its release(), one release().
THEOREM QueueImplemented == TxnSpec => ImplementsQueue
<1>1. TxnInit => Init
  BY DEF TxnInit
<1>2. IInv /\ TxnInv /\ [TxnNext]_allVars => [Next]_vars
  BY TxnNextKeeps
<1> QED
  BY <1>1, <1>2, TxnInvariance, PTL DEF TxnSpec, ImplementsQueue, Spec

\* The variables of transactions, layers and the main thread keep their types.
THEOREM TxnTypeCorrect == TxnSpec => []TxnTypeOK
<1>1. IInv /\ TxnInv => TxnTypeOK
  BY DEF IInv, TypeOK, EntryType, WorkerType, OpType, GroupType, MainType, FlagsType, Doing,
         TxnInv, TxnTypes, TxnTypeOK
<1> QED
  BY <1>1, TxnInvariance, PTL

\* No current transaction is forgotten: its layer is registered, or a commit or
\* cancel that is running will come to it.
THEOREM OpenIsDue == TxnSpec => []OpenWillBeCommitted
<1>1. TxnInv => OpenWillBeCommitted
  <2> SUFFICES ASSUME TxnInv, NEW c \in Containers, current[c] # NoGroup
               PROVE  \/ c \in registered
                      \/ \E i \in DOMAIN stack :
                           \/ stack[i].call = "commit" /\ c \in stack[i].todo
                           \/ stack[i].call = "cancel" /\ c = stack[i].layer
    BY DEF OpenWillBeCommitted
  <2>1. c \in registered \cup Committing(stack) \cup Canceling(stack)
    BY DEF TxnInv, Links, CommitDue
  <2> QED
    BY <2>1 DEF Committing, Canceling, CommitOf, CancelOf
<1> QED
  BY <1>1, TxnInvariance, PTL

\* The assertion of -waitUntilComplete never fires: a transaction that is still
\* open after the wait is one the group is about to commit.
THEOREM WaitIsSafe == TxnSpec => []WaitFindsCommitted
<1>1. TxnInv => WaitFindsCommitted
  <2> SUFFICES ASSUME TxnInv, Inside("wait"), state[Top.txn] = "open"
               PROVE  registered # {}
    BY DEF WaitFindsCommitted
  <2>1. Last(stack) \in Frame /\ Last(stack).call = "wait" /\ Top = Last(stack)
    BY Innermost
  <2>2. Last(stack).txn \in Groups
    BY <2>1, FrameParts
  <2> QED
    BY <2>1, <2>2, OpenIsRegistered
<1> QED
  BY <1>1, TxnInvariance, PTL

\* The counters of the groups stay exact, and no group is deleted under a worker
\* or a wait, with the transactions as clients of the queue.
THEOREM GroupsAreSafe == TxnSpec => [](PendingIsUnfinished /\ GroupOutlivesWork)
<1>1. IInv => PendingIsUnfinished /\ GroupOutlivesWork
  BY DEF IInv
<1> QED
  BY <1>1, TxnInvariance, PTL

\* What was canceled is reported as canceled, and a complete transaction is not
\* reopened by a cancel or a commit that comes too late.
THEOREM StateAdvances == TxnSpec => StateOnlyAdvances
<1> DEFINE Advances == \A t \in Groups :
             /\ state[t] = "canceled" => state'[t] \in {"canceled", "complete"}
             /\ state[t] = "complete" => state'[t] = "complete"
<1>1. IInv /\ TxnInv /\ [TxnNext]_allVars => [Advances]_allVars
  <2> SUFFICES ASSUME IInv, TxnInv, TxnNext PROVE Advances
    OBVIOUS
  <2>1. CASE UNCHANGED state
    BY <2>1
  <2>2. CASE FinishTransaction
    <3>1. \E t : state' = [state EXCEPT ![t] = "complete"]
      BY <2>2 DEF FinishTransaction
    <3> QED
      BY <3>1 DEF TxnInv, TxnTypes
  <2>3. CASE CancelRest
    <3>1. Last(stack) \in Frame /\ Last(stack).call = "cancel" /\ Top = Last(stack)
      BY <2>3, Innermost DEF CancelRest
    <3>2. Top.layer \in Containers
      BY <3>1, FrameParts
    <3>3. \A t \in layerTxns[Top.layer] : state[t] # "complete"
      BY <3>2 DEF TxnInv, Links, LayersOK
    <3> QED
      BY <2>3, <3>3 DEF CancelRest
  <2>4. ASSUME NEW t \in Groups, state[t] = "open", state' = [state EXCEPT ![t] = "committed"]
        PROVE  Advances
    BY <2>4 DEF TxnInv, TxnTypes
  <2>5. CASE CommitNext
    <3>1. /\ Canceling(stack) = CancelOf(Last(stack)) /\ Last(stack).call = "commit"
          /\ Last(stack) \in Frame /\ Top = Last(stack)
      BY <2>5, Innermost DEF CommitNext
    <3>2. Canceling(stack) = {} /\ Top.todo \subseteq Containers
      BY <3>1, FrameParts DEF CancelOf
    <3>3. PICK c \in Top.todo :
            \/ UNCHANGED state
            \/ current[c] # NoGroup /\ state' = [state EXCEPT ![current[c]] = "committed"]
      BY <2>5 DEF CommitNext, commit
    <3>4. CASE current[c] # NoGroup /\ state' = [state EXCEPT ![current[c]] = "committed"]
      <4>1. current[c] \in Groups /\ state[current[c]] = "open"
        BY <3>2, <3>4 DEF TxnInv, TxnTypes, Links, LayersOK
      <4> QED
        BY <2>4, <3>4, <4>1
    <3> QED
      BY <2>1, <3>3, <3>4
  <2>6. ASSUME NEW c \in Containers, CancelTransactions(c) PROVE Advances
    <3>1. \/ UNCHANGED state
          \/ /\ current[c] # NoGroup /\ state[current[c]] = "open"
             /\ state' = [state EXCEPT ![current[c]] = "committed"]
      BY <2>6 DEF CancelTransactions, commit
    <3>2. current[c] \in Groups \cup {NoGroup}
      BY DEF TxnInv, TxnTypes
    <3> QED
      BY <2>1, <2>4, <3>1, <3>2
  <2>7. ASSUME NEW c \in Containers, NEW t \in Groups, asyncTransaction(c, t) PROVE Advances
    <3>1. UNCHANGED state \/ (state[t] = "none" /\ state' = [state EXCEPT ![t] = "open"])
      BY <2>7 DEF asyncTransaction
    <3> QED
      BY <2>1, <3>1 DEF TxnInv, TxnTypes
  <2>8. MainStep => FinishTransaction \/ CancelRest \/ CommitNext \/ UNCHANGED state
    BY DEF MainStep, CallCompletion, CallbackReturns, LoopEnds, WaitForNext, WaitCommits,
           WaitCompletes, txnVars
  <2>9. ASSUME ClientStep PROVE Advances
    <3>1. ASSUME NEW c \in Containers, NEW o \in Ops, AddOperation(c, o) PROVE Advances
      BY <2>7, <3>1, PlacementAssumption DEF AddOperation
    <3>2. ASSUME NEW c \in Containers, NEW t \in Groups, TakeTransaction(c, t) PROVE Advances
      BY <2>7, <3>2 DEF TakeTransaction
    <3>3. ASSUME NEW c \in Containers, WaitForLayer(c) PROVE Advances
      BY <2>1, <3>3 DEF WaitForLayer, txnVars
    <3> QED
      BY <2>6, <2>9, <3>1, <3>2, <3>3 DEF ClientStep
  <2>10. Wake \/ RunCommitted \/ RunLoopCommit => UNCHANGED state
    BY DEF Wake, RunCommitted, RunLoopCommit, txnVars
  <2>11. \A q \in Queues, s \in Threads : TxnWorker(q, s) => UNCHANGED state
    BY DEF TxnWorker
  <2>12. /\ \A o \in Ops : AsyncValue(o) => UNCHANGED state
         /\ \A t \in Groups : Dealloc(t) => UNCHANGED state
    BY DEF AsyncValue, Dealloc, txnVars
  <2> HIDE DEF Advances
  <2> QED
    BY <2>1, <2>2, <2>3, <2>5, <2>8, <2>9, <2>10, <2>11, <2>12 DEF TxnNext
<1> QED
  BY <1>1, TxnInvariance, PTL DEF TxnSpec, StateOnlyAdvances

=============================================================================
