-------------------------- MODULE AsyncTransaction --------------------------
(***************************************************************************)
(* _ASAsyncTransaction, the containers that hand transactions out          *)
(* (_ASAsyncTransactionContainer.m) and the group that commits them once   *)
(* per run-loop turn (_ASAsyncTransactionGroup.m), on top of               *)
(* AsyncTransactionQueue.  A transaction and its Group share a name.       *)
(*                                                                         *)
(* The main thread is a stack of the calls it is inside of.  Client code   *)
(* runs when the stack is empty (an event) or when a "callback" is on top: *)
(* that is where the code can be re-entered.  A call that blocks, calls a  *)
(* client's block, or takes the queue's mutex ends the step.               *)
(***************************************************************************)
EXTENDS AsyncTransactionQueue

CONSTANTS
  Containers,   \* the layers that are transaction containers
  ClientDoes,   \* the calls the client makes, see ClientCalls
  MaxDepth      \* bound on the nesting of calls on the main thread

ClientCalls ==
  { "cancel",        \* asyncdisplaykit_cancelAsyncTransactions
    "wait",          \* recursivelyEnsureDisplaySynchronously: from an event
    "reenter",       \* ... also for a transaction whose callbacks are running
    "empty" }        \* takes a transaction and adds nothing to it

ASSUME ClientAssumption ==
  ClientDoes \subseteq ClientCalls /\ MaxDepth \in Nat

ASSUME NotifyAssumption == Notifies = Groups /\ \A t \in Groups : NotifyGroup[t] = t

VARIABLES
  state,       \* _state, "none" before the transaction exists
  operations,  \* _operations
  nilled,      \* operations whose _operationCompletionBlock is nil again
  outcome,     \* whether the execution block gave a value, or was skipped
  called,      \* completion blocks called: <<operation, canceled>>
  finishes,    \* how often the transaction's completion block was called
  current,     \* asyncdisplaykit_currentAsyncTransaction
  layerTxns,   \* asyncdisplaykit_asyncLayerTransactions
  registered,  \* _containers of the main transaction group
  stack        \* the calls the main thread is inside of, innermost last

txnVars == <<state, operations, nilled, outcome, called, finishes>>
layerVars == <<current, layerTxns, registered>>
queueVars == <<entryVars, workerVars, opState, asyncOpen, groupVars, mainVars>>
allVars == <<queueVars, txnVars, layerVars, stack>>

CommitFrame(containers) == [call |-> "commit", todo |-> containers]
CancelFrame(c)          == [call |-> "cancel", layer |-> c]
WaitAllFrame(txns)      == [call |-> "waitAll", todo |-> txns]
WaitFrame(t)            == [call |-> "wait", txn |-> t]
CompleteFrame(t, i, b)  == [call |-> "complete", txn |-> t, next |-> i, canceled |-> b]
CallbackFrame(o)        == [call |-> "callback", op |-> o]

Frame ==
  [call : {"commit"}, todo : SUBSET Containers]
    \cup [call : {"cancel"}, layer : Containers]
    \cup [call : {"waitAll"}, todo : SUBSET Groups]
    \cup [call : {"wait"}, txn : Groups]
    \cup [call : {"complete"}, txn : Groups, next : Nat \ {0}, canceled : BOOLEAN]
    \cup [call : {"callback"}, op : Ops]

TxnTypeOK ==
  /\ TypeOK
  /\ state \in [Groups -> {"none", "open", "committed", "canceled", "complete"}]
  /\ operations \in [Groups -> Seq(Ops)]
  /\ nilled \subseteq Ops
  /\ outcome \in [Ops -> {"none", "ran", "skipped"}]
  /\ called \in [Groups -> Seq(Ops \X BOOLEAN)]
  /\ finishes \in [Groups -> Nat]
  /\ current \in [Containers -> Groups \cup {NoGroup}]
  /\ layerTxns \in [Containers -> SUBSET Groups]
  /\ registered \subseteq Containers
  /\ stack \in Seq(Frame)

TxnInit ==
  /\ Init
  /\ state = [t \in Groups |-> "none"]
  /\ operations = [t \in Groups |-> <<>>]
  /\ nilled = {}
  /\ outcome = [o \in Ops |-> "none"]
  /\ called = [t \in Groups |-> <<>>]
  /\ finishes = [t \in Groups |-> 0]
  /\ current = [c \in Containers |-> NoGroup]
  /\ layerTxns = [c \in Containers |-> {}]
  /\ registered = {}
  /\ stack = <<>>

-----------------------------------------------------------------------------
(* The main thread.                                                        *)

Push(f)   == Append(stack, f)
Top       == stack[Len(stack)]
Pop       == SubSeq(stack, 1, Len(stack) - 1)
Inside(x) == stack # <<>> /\ Top.call = x

\* The run loop turns: no event, block or observer is being handled.
AtRunLoop == MainThreadFree /\ stack = <<>>

\* Client code runs: an event handler, or a block the library calls.
ClientRuns ==
  /\ MainThreadFree
  /\ stack = <<>> \/ Inside("callback")
  /\ Len(stack) < MaxDepth

Does(x) == x \in ClientDoes

-----------------------------------------------------------------------------
(* Transactions.                                                           *)

\* Mutant: the transaction stays in the layer's set.
completionBlockKeeping(t, rest) ==
  /\ finishes' = [finishes EXCEPT ![t] = @ + 1]
  /\ UNCHANGED layerTxns
  /\ stack' = rest

\* The completion block a container gives its transactions: remove it from the
\* layer's set (DidCompleteTransaction: is private and does nothing).
completionBlock(t, rest) ==
  /\ finishes' = [finishes EXCEPT ![t] = @ + 1]
  /\ layerTxns' = [c \in Containers |-> layerTxns[c] \ {t}]
  /\ stack' = rest

\* Mutant: the block is not passed to notify().
commitSilent(t, rest) ==
  /\ state' = [state EXCEPT ![t] = "committed"]
  /\ IF operations[t] = <<>>
     THEN completionBlock(t, rest)
     ELSE stack' = rest /\ UNCHANGED <<finishes, layerTxns>>
  /\ UNCHANGED <<notified, notifyList>>

\* -commit, the main thread continuing with the calls in rest.  Without
\* operations the completion block runs at once and the state stays Committed.
commit(t, rest) ==
  /\ state' = [state EXCEPT ![t] = "committed"]
  /\ IF operations[t] = <<>>
     THEN completionBlock(t, rest) /\ UNCHANGED <<notified, notifyList>>
     ELSE notify(t) /\ stack' = rest /\ UNCHANGED <<finishes, layerTxns>>

\* Mutant: -completeTransaction does not look at the state.
completeTransactionAgain(t, rest) ==
  stack' = Append(rest, CompleteFrame(t, 1, state[t] = "canceled"))

\* -completeTransaction is entered: nothing if it is Complete already.
completeTransaction(t, rest) ==
  stack' = IF state[t] = "complete" THEN rest
           ELSE Append(rest, CompleteFrame(t, 1, state[t] = "canceled"))

\* The loop of -completeTransaction: -callAndReleaseCompletionBlock: of the next
\* operation.  The block is set to nil only when it has returned.
CallCompletion ==
  /\ MainThreadFree
  /\ Inside("complete")
  /\ Top.next <= Len(operations[Top.txn])
  /\ LET o    == operations[Top.txn][Top.next]
         loop == Append(Pop, [Top EXCEPT !.next = @ + 1])
     IN  IF o \in nilled
         THEN stack' = loop /\ UNCHANGED called
         ELSE /\ stack' = Append(loop, CallbackFrame(o))
              /\ called' = [called EXCEPT ![Top.txn] = Append(@, <<o, Top.canceled>>)]
  /\ UNCHANGED <<queueVars, state, operations, nilled, outcome, finishes, layerVars>>

\* A client's block returns.
CallbackReturns ==
  /\ MainThreadFree
  /\ Inside("callback")
  /\ stack' = Pop
  /\ nilled' = nilled \cup {Top.op}
  /\ UNCHANGED <<queueVars, state, operations, outcome, called, finishes, layerVars>>

\* Mutant: off by one, the last completion block is not waited for.
FinishTransactionEarly ==
  /\ MainThreadFree
  /\ Inside("complete")
  /\ Top.next >= Len(operations[Top.txn])
  /\ state' = [state EXCEPT ![Top.txn] = "complete"]
  /\ completionBlock(Top.txn, Pop)
  /\ UNCHANGED <<queueVars, operations, nilled, outcome, called, current, registered>>

\* The end of -completeTransaction.
FinishTransaction ==
  /\ MainThreadFree
  /\ Inside("complete")
  /\ Top.next > Len(operations[Top.txn])
  /\ state' = [state EXCEPT ![Top.txn] = "complete"]
  /\ completionBlock(Top.txn, Pop)
  /\ UNCHANGED <<queueVars, operations, nilled, outcome, called, current, registered>>

\* The block commit passed to notify() runs on the main queue.
RunCommitted ==
  /\ AtRunLoop
  /\ notified # <<>>
  /\ notified' = Tail(notified)
  /\ completeTransaction(Head(notified), <<>>)
  /\ UNCHANGED <<entryVars, workerVars, opState, asyncOpen, groupVars, waiting,
                 woken, txnVars, layerVars>>

-----------------------------------------------------------------------------
(* Containers and the main transaction group.                              *)

\* Mutant: the container registers only with a transaction it already had.
asyncTransactionUnregistered(c, t) ==
  /\ \/ current[c] = t
     \/ current[c] = NoGroup /\ state[t] = "none"
  /\ state' = IF current[c] = t THEN state ELSE [state EXCEPT ![t] = "open"]
  /\ layerTxns' = [layerTxns EXCEPT ![c] = IF current[c] = t THEN @ ELSE @ \cup {t}]
  /\ current' = [current EXCEPT ![c] = t]
  /\ registered' = IF current[c] = t THEN registered \cup {c} ELSE registered

\* asyncdisplaykit_asyncTransaction: t is the current transaction or a new one.
asyncTransaction(c, t) ==
  /\ \/ current[c] = t
     \/ current[c] = NoGroup /\ state[t] = "none"
  /\ state' = IF current[c] = t THEN state ELSE [state EXCEPT ![t] = "open"]
  /\ layerTxns' = [layerTxns EXCEPT ![c] = IF current[c] = t THEN @ ELSE @ \cup {t}]
  /\ current' = [current EXCEPT ![c] = t]
  /\ registered' = registered \cup {c}

TakeTransaction(c, t) ==
  /\ Does("empty")
  /\ ClientRuns
  /\ asyncTransaction(c, t)
  /\ UNCHANGED <<queueVars, operations, nilled, outcome, called, finishes, stack>>

\* displayAsyncLayer: takes the transaction and adds its display operation
\* (addOperation..., addAsyncOperation..., or addCompletionBlock, whose empty
\* block goes to the callback queue).  The assertion that it is open is a guard.
AddOperation(c, o) ==
  LET t == GroupOf[o] IN
  /\ ClientRuns
  /\ opState[o] = "new"
  /\ asyncTransaction(c, t)
  /\ state[t] \in {"none", "open"}
  /\ operations' = [operations EXCEPT ![t] = Append(@, o)]
  /\ ensureGroup(t)
  /\ \E tracking \in BOOLEAN : schedule(o, tracking)
  /\ UNCHANGED <<op, asyncOpen, notifyList, releaseCalled, mainVars, nilled,
                 outcome, called, finishes, stack>>

\* asyncdisplaykit_cancelAsyncTransactions: commit the current transaction ...
\* (a call that finds nothing to cancel changes nothing and is left out).
CancelTransactions(c) ==
  /\ Does("cancel")
  /\ ClientRuns
  /\ current[c] # NoGroup \/ \E t \in layerTxns[c] : state[t] # "canceled"
  /\ IF current[c] = NoGroup
     THEN /\ stack' = Push(CancelFrame(c))
          /\ UNCHANGED <<state, finishes, layerTxns, notified, notifyList>>
     ELSE state[current[c]] = "open" /\ commit(current[c], Push(CancelFrame(c)))
  /\ UNCHANGED <<entryVars, workerVars, opState, asyncOpen, pending,
                 releaseCalled, group, waiting, woken, operations, nilled,
                 outcome, called, current, registered>>

\* ... then clear it, and cancel every transaction of the layer.
CancelRest ==
  /\ MainThreadFree
  /\ Inside("cancel")
  /\ current' = [current EXCEPT ![Top.layer] = NoGroup]
  /\ state' = [t \in Groups |->
                 IF t \in layerTxns[Top.layer] THEN "canceled" ELSE state[t]]
  /\ stack' = Pop
  /\ UNCHANGED <<queueVars, operations, nilled, outcome, called, finishes,
                 layerTxns, registered>>

\* The run-loop observer: the group takes the registered containers ...
RunLoopCommit ==
  /\ AtRunLoop
  /\ registered # {}
  /\ stack' = Push(CommitFrame(registered))
  /\ registered' = {}
  /\ UNCHANGED <<queueVars, txnVars, current, layerTxns>>

\* Mutant: the current transaction is not cleared.
CommitNextKeeping ==
  /\ MainThreadFree
  /\ Inside("commit")
  /\ \E c \in Top.todo :
       LET rest == Append(Pop, CommitFrame(Top.todo \ {c})) IN
         IF current[c] = NoGroup
         THEN /\ stack' = rest
              /\ UNCHANGED <<state, finishes, layerTxns, notified, notifyList>>
         ELSE commit(current[c], rest)
  /\ UNCHANGED <<entryVars, workerVars, opState, asyncOpen, pending,
                 releaseCalled, group, waiting, woken, operations, nilled,
                 outcome, called, current, registered>>

\* ... and for each clears its current transaction before committing it.
CommitNext ==
  /\ MainThreadFree
  /\ Inside("commit")
  /\ \E c \in Top.todo :
       LET rest == Append(Pop, CommitFrame(Top.todo \ {c})) IN
       /\ current' = [current EXCEPT ![c] = NoGroup]
       /\ IF current[c] = NoGroup
          THEN /\ stack' = rest
               /\ UNCHANGED <<state, finishes, layerTxns, notified, notifyList>>
          ELSE commit(current[c], rest)
  /\ UNCHANGED <<entryVars, workerVars, opState, asyncOpen, pending,
                 releaseCalled, group, waiting, woken, operations, nilled,
                 outcome, called, registered>>

LoopEnds ==
  /\ MainThreadFree
  /\ Inside("commit") \/ Inside("waitAll")
  /\ Top.todo = {}
  /\ stack' = Pop
  /\ UNCHANGED <<queueVars, txnVars, layerVars>>

-----------------------------------------------------------------------------
(* Waiting: recursivelyTriggerDisplayForLayer with shouldBlock.            *)

Completing(t) ==
  \E i \in DOMAIN stack : stack[i].call = "complete" /\ stack[i].txn = t

\* for (transaction in [asyncLayerTransactions copy]) [transaction waitUntilComplete]
WaitForLayer(c) ==
  /\ Does("wait")
  /\ ClientRuns
  /\ layerTxns[c] # {}                  \* else the loop is empty
  /\ Does("reenter") \/ \A t \in layerTxns[c] : ~Completing(t)
  /\ stack' = Push(WaitAllFrame(layerTxns[c]))
  /\ UNCHANGED <<queueVars, txnVars, layerVars>>

\* Mutant: the wait does not look at the counter before it blocks.
WaitForNextBlindly ==
  /\ MainThreadFree
  /\ Inside("waitAll")
  /\ \E t \in Top.todo :
       LET rest  == Append(Pop, WaitAllFrame(Top.todo \ {t}))
           waits == state[t] # "complete" /\ group[t] # "none"
       IN  /\ stack' = IF waits THEN Append(rest, WaitFrame(t)) ELSE rest
           /\ waiting' = IF waits THEN t ELSE waiting
           /\ woken' = IF waits THEN FALSE ELSE woken
  /\ UNCHANGED <<entryVars, workerVars, opState, asyncOpen, groupVars, notified,
                 txnVars, layerVars>>

\* -waitUntilComplete up to _group->wait(), which may block.
WaitForNext ==
  /\ MainThreadFree
  /\ Inside("waitAll")
  /\ \E t \in Top.todo :
       LET rest   == Append(Pop, WaitAllFrame(Top.todo \ {t}))
           waits  == state[t] # "complete" /\ group[t] # "none"
           blocks == waits /\ pending[t] > 0
       IN  /\ stack' = IF waits THEN Append(rest, WaitFrame(t)) ELSE rest
           /\ waiting' = IF blocks THEN t ELSE waiting
           /\ woken' = IF blocks THEN FALSE ELSE woken
  /\ UNCHANGED <<entryVars, workerVars, opState, asyncOpen, groupVars, notified,
                 txnVars, layerVars>>

Wake == WaitWakes /\ UNCHANGED <<txnVars, layerVars, stack>>

\* After wait(): an open transaction is committed with the whole group first.
WaitCommits ==
  /\ MainThreadFree
  /\ Inside("wait")
  /\ state[Top.txn] = "open"
  /\ registered # {}
  /\ stack' = Push(CommitFrame(registered))
  /\ registered' = {}
  /\ UNCHANGED <<queueVars, txnVars, current, layerTxns>>

\* Then -completeTransaction.
WaitCompletes ==
  /\ MainThreadFree
  /\ Inside("wait")
  /\ state[Top.txn] # "open" \/ registered = {}
  /\ completeTransaction(Top.txn, Pop)
  /\ UNCHANGED <<queueVars, txnVars, layerVars>>

-----------------------------------------------------------------------------
(* Worker blocks, and the end of a transaction.                            *)

\* The execution block tests for cancelation first.
RunExecutionBlock(q, s) ==
  LET o == op[q][s]
      canceled == state[GroupOf[o]] = "canceled"
  IN  /\ pc[q][s] = "running"
      /\ \/ /\ canceled \/ o \notin Async
            /\ RunBlock(q, s)
            /\ outcome' = [outcome EXCEPT ![o] = IF canceled THEN "skipped" ELSE "ran"]
         \/ /\ ~canceled
            /\ RunAsyncBlock(q, s)
            /\ UNCHANGED outcome

TxnWorker(q, s) ==
  /\ q = MainQueue => stack = <<>>
  /\ \/ PopOperation(q, s) /\ UNCHANGED outcome
     \/ ExitThread(q, s) /\ UNCHANGED outcome
     \/ RunExecutionBlock(q, s)
     \/ LeaveGroup(q, s) /\ UNCHANGED outcome
     \/ FreeBlock(q, s) /\ UNCHANGED outcome
  /\ UNCHANGED <<state, operations, nilled, called, finishes, layerVars, stack>>

\* The completion block given to an async operation: store the value, leave.
AsyncValue(o) ==
  /\ CompleteAsync(o)
  /\ outcome' = [outcome EXCEPT ![o] = "ran"]
  /\ UNCHANGED <<state, operations, nilled, called, finishes, layerVars, stack>>

\* Mutant: blocks refer to a transaction weakly.
RetainedByLayer(t) == \E c \in Containers : current[c] = t

\* Who retains the transaction: the layer, the main thread, an execution block
\* that was not freed, the completion block of an async operation, the block
\* passed to notify().
Retained(t) ==
  \/ \E c \in Containers : current[c] = t \/ t \in layerTxns[c]
  \/ \E i \in DOMAIN stack :
       \/ stack[i].call \in {"complete", "wait"} /\ stack[i].txn = t
       \/ stack[i].call = "waitAll" /\ t \in stack[i].todo
  \/ \E o \in Ops : GroupOf[o] = t /\ (opState[o] = "queued" \/ o \in asyncOpen)
  \/ \E q \in Queues, s \in Threads : op[q][s] # NoOp /\ GroupOf[op[q][s]] = t
  \/ \E i \in DOMAIN notifyList[t] : notifyList[t][i] = t
  \/ \E i \in DOMAIN notified : notified[i] = t

\* -dealloc, on the thread that dropped the last reference.
Dealloc(t) ==
  /\ Owned(t)
  /\ ~Retained(t)
  /\ release(t)
  /\ UNCHANGED <<entryVars, workerVars, opState, asyncOpen, pending, notifyList,
                 mainVars, txnVars, layerVars, stack>>

-----------------------------------------------------------------------------
MainStep ==
  \/ CallCompletion
  \/ CallbackReturns
  \/ FinishTransaction
  \/ CancelRest
  \/ CommitNext
  \/ LoopEnds
  \/ WaitForNext
  \/ WaitCommits
  \/ WaitCompletes

ClientStep ==
  \/ \E c \in Containers, o \in Ops : AddOperation(c, o)
  \/ \E c \in Containers, t \in Groups : TakeTransaction(c, t)
  \/ \E c \in Containers : CancelTransactions(c) \/ WaitForLayer(c)

TxnNext ==
  \/ MainStep
  \/ Wake
  \/ RunCommitted
  \/ RunLoopCommit
  \/ ClientStep
  \/ \E q \in Queues, s \in Threads : TxnWorker(q, s)
  \/ \E o \in Ops : AsyncValue(o)
  \/ \E t \in Groups : Dealloc(t)

TxnSpec == TxnInit /\ [][TxnNext]_allVars

\* Calls and the client's blocks return, the run loop turns and serves the main
\* queue, dispatch queues run their blocks, async operations complete and ARC
\* frees at once.
TxnFairness ==
  /\ WF_allVars(MainStep)
  /\ SF_allVars(CallbackReturns)
  /\ WF_allVars(Wake)
  /\ SF_allVars(RunCommitted)
  /\ SF_allVars(RunLoopCommit)
  /\ \A q \in Queues, s \in Threads :
       IF q = MainQueue THEN SF_allVars(TxnWorker(q, s)) ELSE WF_allVars(TxnWorker(q, s))
  /\ \A o \in Ops : WF_allVars(AsyncValue(o))
  /\ \A t \in Groups : WF_allVars(Dealloc(t))

FairTxnSpec == TxnSpec /\ TxnFairness
-----------------------------------------------------------------------------
(* Properties.                                                             *)

\* The calls of the transactions respect the contract of the queue: no enter(),
\* leave(), wait() or notify() on a group after its release(), one release().
ImplementsQueue == Spec

\* Each transaction keeps what _ASAsyncTransaction.h promises, whatever its
\* client, the run loop, a wait and the workers do in between.
Promise(t) ==
  INSTANCE TransactionPromise WITH
    added     <- operations[t],
    closed    <- state[t] \notin {"none", "open"},
    outcome   <- [o \in Ops |-> IF GroupOf[o] = t THEN outcome[o] ELSE "none"],
    delivered <- called[t],
    finished  <- finishes[t] = 1

KeepsPromise ==
  /\ \A t \in Groups : Promise(t)!Init
  /\ [][\A t \in Groups : [Promise(t)!Next]_(Promise(t)!vars)]_allVars

\* When a transaction is deallocated all its completion blocks have been called
\* ("Should have been called and released before -dealloc").
ReleasedIsFinished ==
  \A t \in Groups :
    releaseCalled[t] \/ group[t] = "deleted" =>
      /\ finishes[t] = 1
      /\ {called[t][i][1] : i \in DOMAIN called[t]} = {o \in Ops : GroupOf[o] = t /\ opState[o] # "new"}

\* A current transaction will be committed: its layer is registered with the
\* main group, or a commit or cancel that is running will come to it.
OpenWillBeCommitted ==
  \A c \in Containers :
    current[c] # NoGroup =>
      \/ c \in registered
      \/ \E i \in DOMAIN stack :
           \/ stack[i].call = "commit" /\ c \in stack[i].todo
           \/ stack[i].call = "cancel" /\ c = stack[i].layer

\* "Transaction should not be open after committing group", the assertion of
\* -waitUntilComplete: a wait never completes a transaction that is still open.
WaitFindsCommitted ==
  Inside("wait") /\ state[Top.txn] = "open" => registered # {}

\* A state is never undone: what was canceled is reported as canceled, and a
\* complete transaction is not reopened by a cancel that comes too late.
StateOnlyAdvances ==
  [][\A t \in Groups :
       /\ state[t] = "canceled" => state'[t] \in {"canceled", "complete"}
       /\ state[t] = "complete" => state'[t] = "complete"]_allVars

\* Every transaction that is opened is committed and completes, once.
TransactionsFinish == \A t \in Groups : state[t] = "open" ~> finishes[t] = 1

\* "Block the main thread until the transaction is complete, including
\* callbacks": a blocked -waitUntilComplete ends with the transaction complete.
WaitEnds == \A t \in Groups : waiting = t ~> state[t] = "complete"

\* State Complete blocks extraneous calls of -completeTransaction: the
\* completion block of a transaction runs once.
CompletesOnce == \A t \in Groups : finishes[t] <= 1
=============================================================================
