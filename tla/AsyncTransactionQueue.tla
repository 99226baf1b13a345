----------------------- MODULE AsyncTransactionQueue -----------------------
(***************************************************************************)
(* ASAsyncTransactionQueue, the lightweight operation queue of             *)
(* Source/Details/Transactions/_ASAsyncTransaction.mm: per dispatch queue  *)
(* a list of operations shared by at most MaxThreads worker blocks, and    *)
(* per transaction a Group that counts its unfinished operations.          *)
(*                                                                         *)
(* Everything the C++ does under _mutex is one step.  What a worker does   *)
(* with the mutex unlocked (run the block, leave the group, free the       *)
(* block) is a step each, so workers interleave wherever the code lets     *)
(* them.  The lower-case operators are the bodies of the functions; the    *)
(* actions add who may call them (the contract of Group's comments).       *)
(***************************************************************************)
EXTENDS Integers, Sequences, FiniteSets

CONSTANTS
  Groups,       \* the Group objects ever created
  Ops,          \* the operations ever scheduled, each at most once
  Notifies,     \* the blocks ever passed to notify()
  Queues,       \* dispatch queues operations are scheduled on
  MainQueue,    \* dispatch_get_main_queue(); operations may use it or not
  Priorities,   \* the priorities in use
  GroupOf,      \* the group an operation is scheduled in
  QueueOf,      \* the dispatch queue it is scheduled on
  PriorityOf,   \* its priority
  NotifyGroup,  \* the group a notify block is registered with
  Async,        \* operations that leave the group when they are completed
                \* (addAsyncOperation...), not when their block returns
  MaxThreads,   \* activeProcessorCount * 2
  NoOp,         \* a worker that holds no operation
  NoGroup       \* the main thread is not blocked

ASSUME PlacementAssumption ==
  /\ GroupOf \in [Ops -> Groups]
  /\ QueueOf \in [Ops -> Queues]
  /\ Priorities \subseteq Int /\ IsFiniteSet(Priorities)
  /\ PriorityOf \in [Ops -> Priorities]
  /\ NotifyGroup \in [Notifies -> Groups]
  /\ Async \subseteq Ops

ASSUME NullAssumption == NoOp \notin Ops /\ NoGroup \notin Groups

ASSUME FiniteAssumption == IsFiniteSet(Ops)

ASSUME ThreadsAssumption == MaxThreads \in Nat /\ MaxThreads >= 2

Threads == 1 .. MaxThreads    \* names for the worker blocks of one queue

VARIABLES
  opQueue,      \* _operationQueue of each DispatchEntry, in scheduling order
  prioMap,      \* _operationPriorityMap: an empty bucket is an absent one
  threadCount,  \* _threadCount; the entry is in _entries iff it is positive
  pc,           \* what each worker block is doing
  respect,      \* the respectPriority each worker block captured
  op,           \* the operation each worker block holds
  opState,      \* where each operation is
  asyncOpen,    \* async operations that entered the group and have not left
  pending,      \* _pendingOperations
  notifyList,   \* _notifyList
  releaseCalled,\* _releaseCalled
  group,        \* whether the Group object exists
  notified,     \* blocks dispatched to the callback queue, not yet run
  waiting,      \* the group the main thread is blocked on in wait()
  woken         \* whether _condition was notified since it blocked

entryVars == <<opQueue, prioMap, threadCount>>
workerVars == <<pc, respect, op>>
groupVars == <<pending, notifyList, releaseCalled, group>>
mainVars == <<notified, waiting, woken>>
vars == <<entryVars, workerVars, opState, asyncOpen, groupVars, mainVars>>

TypeOK ==
  /\ opQueue \in [Queues -> Seq(Ops)]
  /\ prioMap \in [Queues -> [Priorities -> Seq(Ops)]]
  /\ threadCount \in [Queues -> 0 .. MaxThreads]
  /\ pc \in [Queues -> [Threads ->
        {"idle", "dispatched", "polling", "running", "leaving", "freeing"}]]
  /\ respect \in [Queues -> [Threads -> BOOLEAN]]
  /\ op \in [Queues -> [Threads -> Ops \cup {NoOp}]]
  /\ opState \in [Ops -> {"new", "queued", "running", "left"}]
  /\ asyncOpen \subseteq Async
  /\ pending \in [Groups -> Nat]
  /\ notifyList \in [Groups -> Seq(Notifies)]
  /\ releaseCalled \in [Groups -> BOOLEAN]
  /\ group \in [Groups -> {"none", "live", "deleted"}]
  /\ notified \in Seq(Notifies)
  /\ waiting \in Groups \cup {NoGroup}
  /\ woken \in BOOLEAN

Init ==
  /\ opQueue = [q \in Queues |-> <<>>]
  /\ prioMap = [q \in Queues |-> [p \in Priorities |-> <<>>]]
  /\ threadCount = [q \in Queues |-> 0]
  /\ pc = [q \in Queues |-> [s \in Threads |-> "idle"]]
  /\ respect = [q \in Queues |-> [s \in Threads |-> FALSE]]
  /\ op = [q \in Queues |-> [s \in Threads |-> NoOp]]
  /\ opState = [o \in Ops |-> "new"]
  /\ asyncOpen = {}
  /\ pending = [g \in Groups |-> 0]
  /\ notifyList = [g \in Groups |-> <<>>]
  /\ releaseCalled = [g \in Groups |-> FALSE]
  /\ group = [g \in Groups |-> "none"]
  /\ notified = <<>>
  /\ waiting = NoGroup
  /\ woken = FALSE

-----------------------------------------------------------------------------
(* The bodies of the functions.                                            *)

\* createGroup()
createGroup(g) == group' = [group EXCEPT ![g] = "live"]

\* pushOperation(): both structures are appended to.
pushOperation(o) ==
  LET q == QueueOf[o] IN
  /\ opQueue' = [opQueue EXCEPT ![q] = Append(@, o)]
  /\ prioMap' = [prioMap EXCEPT ![q][PriorityOf[o]] = Append(@, o)]

IdleThread(q) == CHOOSE s \in Threads : pc[q][s] = "idle"

\* Mutant: the worker is dispatched but not counted.
spawnThreadUncounted(q, tracking) ==
  LET limit == IF tracking THEN MaxThreads - 1 ELSE MaxThreads
      s     == IdleThread(q)
  IN  IF threadCount[q] < limit /\ Cardinality({x \in Threads : pc[q][x] = "idle"}) > 0
      THEN /\ UNCHANGED threadCount
           /\ pc' = [pc EXCEPT ![q][s] = "dispatched"]
           /\ respect' = [respect EXCEPT ![q][s] = threadCount[q] > 0]
      ELSE UNCHANGED <<threadCount, pc, respect>>

\* Mutant: one worker too few.
spawnThreadFewer(q, tracking) ==
  LET limit == IF tracking THEN MaxThreads - 2 ELSE MaxThreads - 1
      s     == IdleThread(q)
  IN  IF threadCount[q] < limit
      THEN /\ threadCount' = [threadCount EXCEPT ![q] = @ + 1]
           /\ pc' = [pc EXCEPT ![q][s] = "dispatched"]
           /\ respect' = [respect EXCEPT ![q][s] = threadCount[q] > 0]
      ELSE UNCHANGED <<threadCount, pc, respect>>

\* schedule(): maxThreads is MaxThreads, one less while the user is tracking.
\* The first worker of an entry serves it in queue order, the others by
\* priority.
spawnThread(q, tracking) ==
  LET limit == IF tracking THEN MaxThreads - 1 ELSE MaxThreads
      s     == IdleThread(q)
  IN  IF threadCount[q] < limit
      THEN /\ threadCount' = [threadCount EXCEPT ![q] = @ + 1]
           /\ pc' = [pc EXCEPT ![q][s] = "dispatched"]
           /\ respect' = [respect EXCEPT ![q][s] = threadCount[q] > 0]
      ELSE UNCHANGED <<threadCount, pc, respect>>

schedule(o, tracking) ==
  /\ pushOperation(o)
  /\ pending' = [pending EXCEPT ![GroupOf[o]] = @ + 1]
  /\ spawnThread(QueueOf[o], tracking)
  /\ opState' = [opState EXCEPT ![o] = "queued"]

\* Mutant: the map's first bucket is taken for its last one.
LowestPriority(q) ==
  CHOOSE p \in Priorities :
    /\ prioMap[q][p] # <<>>
    /\ \A r \in Priorities : prioMap[q][r] # <<>> => r >= p

HighestPriority(q) ==
  CHOOSE p \in Priorities :
    /\ prioMap[q][p] # <<>>
    /\ \A r \in Priorities : prioMap[q][r] # <<>> => r <= p

NextOperation(q, byPriority) ==
  IF byPriority THEN Head(prioMap[q][HighestPriority(q)]) ELSE Head(opQueue[q])

\* The list without its element o (list::erase of an iterator).
Without(seq, o) ==
  LET i == CHOOSE i \in DOMAIN seq : seq[i] = o
  IN  [j \in 1 .. Len(seq) - 1 |-> IF j < i THEN seq[j] ELSE seq[j + 1]]

\* Mutant: the head of the list is erased whichever operation was chosen.
popNextOperationHead(q, o) ==
  /\ opQueue' = [opQueue EXCEPT ![q] = Tail(@)]
  /\ prioMap' = [prioMap EXCEPT ![q][PriorityOf[o]] = Tail(@)]

\* popNextOperation(): erase from the list, pop_front of the bucket.
popNextOperation(q, o) ==
  /\ opQueue' = [opQueue EXCEPT ![q] = Without(@, o)]
  /\ prioMap' = [prioMap EXCEPT ![q][PriorityOf[o]] = Tail(@)]

\* Mutant: the block is always dispatched at once.
notifyNow(n) == notified' = Append(notified, n) /\ UNCHANGED notifyList

\* notify(): at once if nothing is pending, else when the last operation leaves.
notify(n) ==
  LET g == NotifyGroup[n] IN
  IF pending[g] = 0
  THEN notified' = Append(notified, n) /\ UNCHANGED notifyList
  ELSE notifyList' = [notifyList EXCEPT ![g] = Append(@, n)] /\ UNCHANGED notified

\* Mutant: an async operation does not enter the group.
enterForgotten(g) == UNCHANGED pending

\* enter()
enter(g) == pending' = [pending EXCEPT ![g] = @ + 1]

\* Mutant: the last one does not wake the waiter.
leaveAsleep(g) ==
  /\ pending' = [pending EXCEPT ![g] = @ - 1]
  /\ UNCHANGED woken
  /\ IF pending[g] = 1
     THEN /\ notified' = notified \o notifyList[g]
          /\ notifyList' = [notifyList EXCEPT ![g] = <<>>]
          /\ group' = [group EXCEPT ![g] =
                         IF releaseCalled[g] THEN "deleted" ELSE @]
     ELSE UNCHANGED <<notified, notifyList, group>>

\* Mutant: it forgets the notify list.
leaveSilent(g) ==
  /\ pending' = [pending EXCEPT ![g] = @ - 1]
  /\ UNCHANGED <<notified, notifyList>>
  /\ IF pending[g] = 1
     THEN /\ woken' = (woken \/ waiting = g)
          /\ group' = [group EXCEPT ![g] =
                         IF releaseCalled[g] THEN "deleted" ELSE @]
     ELSE UNCHANGED <<woken, group>>

\* Mutant: it forgets a group that was released before.
leaveLeaking(g) ==
  /\ pending' = [pending EXCEPT ![g] = @ - 1]
  /\ UNCHANGED group
  /\ IF pending[g] = 1
     THEN /\ notified' = notified \o notifyList[g]
          /\ notifyList' = [notifyList EXCEPT ![g] = <<>>]
          /\ woken' = (woken \/ waiting = g)
     ELSE UNCHANGED <<notified, notifyList, woken>>

\* leave(): the last one flushes the notify list, wakes a waiter and deletes
\* a group that was released in the meantime.
leave(g) ==
  /\ pending' = [pending EXCEPT ![g] = @ - 1]
  /\ IF pending[g] = 1
     THEN /\ notified' = notified \o notifyList[g]
          /\ notifyList' = [notifyList EXCEPT ![g] = <<>>]
          /\ woken' = (woken \/ waiting = g)
          /\ group' = [group EXCEPT ![g] =
                         IF releaseCalled[g] THEN "deleted" ELSE @]
     ELSE UNCHANGED <<notified, notifyList, woken, group>>

\* Mutant: the group is deleted at once.
releaseNow(g) == group' = [group EXCEPT ![g] = "deleted"] /\ UNCHANGED releaseCalled

\* release()
release(g) ==
  IF pending[g] = 0
  THEN group' = [group EXCEPT ![g] = "deleted"] /\ UNCHANGED releaseCalled
  ELSE releaseCalled' = [releaseCalled EXCEPT ![g] = TRUE] /\ UNCHANGED group

-----------------------------------------------------------------------------
(* Worker blocks.                                                          *)

\* The main thread runs one block at a time and none while it is in wait().
MainThreadFree ==
  /\ waiting = NoGroup
  /\ MainQueue \in Queues =>
       \A s \in Threads : pc[MainQueue][s] \in {"idle", "dispatched"}

CanRun(q, s) ==
  \/ pc[q][s] = "polling"
  \/ pc[q][s] = "dispatched" /\ (q = MainQueue => MainThreadFree)

\* lock; the queue is not empty; pop; unlock
PopOperation(q, s) ==
  /\ CanRun(q, s)
  /\ opQueue[q] # <<>>
  /\ LET o == NextOperation(q, respect[q][s]) IN
       /\ popNextOperation(q, o)
       /\ op' = [op EXCEPT ![q][s] = o]
       /\ opState' = [opState EXCEPT ![o] = "running"]
  /\ pc' = [pc EXCEPT ![q][s] = "running"]
  /\ UNCHANGED <<threadCount, respect, asyncOpen, groupVars, mainVars>>

\* lock; the queue is empty: the worker ends, the last one erases the entry.
ExitThread(q, s) ==
  /\ CanRun(q, s)
  /\ opQueue[q] = <<>>
  /\ threadCount' = [threadCount EXCEPT ![q] = @ - 1]
  /\ IF threadCount[q] = 1
     THEN /\ opQueue' = [opQueue EXCEPT ![q] = <<>>]
          /\ prioMap' = [prioMap EXCEPT ![q] = [p \in Priorities |-> <<>>]]
     ELSE UNCHANGED <<opQueue, prioMap>>
  /\ pc' = [pc EXCEPT ![q][s] = "idle"]
  /\ UNCHANGED <<respect, op, opState, asyncOpen, groupVars, mainVars>>

\* operation._block() of a synchronous operation, or of one that is skipped.
RunBlock(q, s) ==
  /\ pc[q][s] = "running"
  /\ pc' = [pc EXCEPT ![q][s] = "leaving"]
  /\ UNCHANGED <<entryVars, respect, op, opState, asyncOpen, groupVars, mainVars>>

\* operation._block() of an async operation: it enters the group again.
RunAsyncBlock(q, s) ==
  /\ pc[q][s] = "running"
  /\ op[q][s] \in Async
  /\ enter(GroupOf[op[q][s]])
  /\ asyncOpen' = asyncOpen \cup {op[q][s]}
  /\ pc' = [pc EXCEPT ![q][s] = "leaving"]
  /\ UNCHANGED <<entryVars, respect, op, opState, notifyList, releaseCalled,
                 group, mainVars>>

\* operation._group->leave()
LeaveGroup(q, s) ==
  /\ pc[q][s] = "leaving"
  /\ leave(GroupOf[op[q][s]])
  /\ opState' = [opState EXCEPT ![op[q][s]] = "left"]
  /\ pc' = [pc EXCEPT ![q][s] = "freeing"]
  /\ UNCHANGED <<entryVars, respect, op, asyncOpen, releaseCalled, waiting>>

\* operation._block = nil
FreeBlock(q, s) ==
  /\ pc[q][s] = "freeing"
  /\ op' = [op EXCEPT ![q][s] = NoOp]
  /\ pc' = [pc EXCEPT ![q][s] = "polling"]
  /\ UNCHANGED <<entryVars, respect, opState, asyncOpen, groupVars, mainVars>>

Worker(q, s) ==
  \/ PopOperation(q, s)
  \/ ExitThread(q, s)
  \/ RunBlock(q, s)
  \/ RunAsyncBlock(q, s)
  \/ LeaveGroup(q, s)
  \/ FreeBlock(q, s)

\* The completion block handed to an async operation is called.
CompleteAsync(o) ==
  /\ o \in asyncOpen
  /\ leave(GroupOf[o])
  /\ asyncOpen' = asyncOpen \ {o}
  /\ UNCHANGED <<entryVars, workerVars, opState, releaseCalled, waiting>>

-----------------------------------------------------------------------------
(* Calls of the queue's client, all from the main thread except release(), *)
(* which runs on whatever thread drops the last reference to the           *)
(* transaction that owns the group.                                        *)

Owned(g) == group[g] = "live" /\ ~releaseCalled[g]

\* The group is created for its first operation (_ensureTransactionData).
ensureGroup(g) == IF group[g] = "none" THEN createGroup(g) ELSE UNCHANGED group

Schedule(o) ==
  /\ MainThreadFree
  /\ group[GroupOf[o]] = "none" \/ Owned(GroupOf[o])
  /\ opState[o] = "new"
  /\ ensureGroup(GroupOf[o])
  /\ \E tracking \in BOOLEAN : schedule(o, tracking)
  /\ UNCHANGED <<op, asyncOpen, notifyList, releaseCalled, mainVars>>

\* A commit registers a block of its own: never one that is still waiting.
Fresh(n) ==
  /\ \A g \in Groups : \A i \in DOMAIN notifyList[g] : notifyList[g][i] # n
  /\ \A i \in DOMAIN notified : notified[i] # n

Notify(n) ==
  /\ MainThreadFree
  /\ Owned(NotifyGroup[n])
  /\ Fresh(n)
  /\ notify(n)
  /\ UNCHANGED <<entryVars, workerVars, opState, asyncOpen, pending,
                 releaseCalled, group, waiting, woken>>

\* The callback queue runs the next dispatched block.
RunNotified ==
  /\ MainThreadFree
  /\ notified # <<>>
  /\ notified' = Tail(notified)
  /\ UNCHANGED <<entryVars, workerVars, opState, asyncOpen, groupVars, waiting, woken>>

Release(g) ==
  /\ Owned(g)
  /\ waiting # g
  /\ release(g)
  /\ UNCHANGED <<entryVars, workerVars, opState, asyncOpen, pending, notifyList,
                 mainVars>>

\* wait(): block while operations are pending; with none it returns at once.
WaitBlocks(g) ==
  /\ MainThreadFree
  /\ Owned(g)
  /\ pending[g] > 0
  /\ waiting' = g
  /\ woken' = FALSE
  /\ UNCHANGED <<entryVars, workerVars, opState, asyncOpen, groupVars, notified>>

\* _condition woke the thread: the loop tests the counter again.
WaitWakes ==
  /\ waiting # NoGroup
  /\ woken
  /\ waiting' = IF pending[waiting] > 0 THEN waiting ELSE NoGroup
  /\ woken' = FALSE
  /\ UNCHANGED <<entryVars, workerVars, opState, asyncOpen, groupVars, notified>>

Client ==
  \/ \E g \in Groups : Release(g) \/ WaitBlocks(g)
  \/ \E o \in Ops : Schedule(o)
  \/ \E n \in Notifies : Notify(n)

Next ==
  \/ \E q \in Queues, s \in Threads : Worker(q, s)
  \/ \E o \in Ops : CompleteAsync(o)
  \/ RunNotified
  \/ WaitWakes
  \/ Client

Spec == Init /\ [][Next]_vars

\* Dispatched blocks are run and async operations are completed ("Consumers
\* MUST call the completeOperationBlock"); the client need not do anything.
Fairness ==
  /\ \A q \in Queues, s \in Threads : WF_vars(Worker(q, s))
  /\ \A o \in Ops : WF_vars(CompleteAsync(o))
  /\ WF_vars(RunNotified)
  /\ WF_vars(WaitWakes)

FairSpec == Spec /\ Fairness
-----------------------------------------------------------------------------
(* Properties.                                                             *)

\* Operations of g whose block, or asynchronous part, has not finished.
BlocksOf(g)     == {o \in Ops : GroupOf[o] = g /\ opState[o] \in {"queued", "running"}}
AsyncPartsOf(g) == {o \in asyncOpen : GroupOf[o] = g}
Unfinished(g)   == BlocksOf(g) \cup AsyncPartsOf(g)

Alive(q) == {s \in Threads : pc[q][s] # "idle"}

\* The two structures of an entry describe the same operations in the same
\* order: each bucket is the queue restricted to its priority ("first item in
\* bucket must match item in queue", the assertion of popNextOperation).
QueueConsistent ==
  \A q \in Queues, p \in Priorities :
    LET places == {i \in DOMAIN opQueue[q] : PriorityOf[opQueue[q][i]] = p}
    IN  /\ Len(prioMap[q][p]) = Cardinality(places)
        /\ \A i \in places :
             prioMap[q][p][Cardinality({j \in places : j <= i})] = opQueue[q][i]

\* _threadCount is the number of worker blocks that exist, so an entry is
\* never erased under a worker that still refers to it, and queued operations
\* always have a worker that will look at the queue again ("No working threads
\* but operations are still scheduled", the assertion of schedule).
WorkHasWorker ==
  \A q \in Queues :
    /\ threadCount[q] = Cardinality(Alive(q))
    /\ opQueue[q] # <<>> => Alive(q) # {}

\* _pendingOperations counts the blocks still to leave and the async parts
\* still open, whatever the interleaving of enter() and leave().
PendingIsUnfinished ==
  \A g \in Groups :
    pending[g] = Cardinality(BlocksOf(g)) + Cardinality(AsyncPartsOf(g))

\* A group with unfinished operations, or with the main thread in wait(), has
\* not been deleted: nobody calls enter(), leave() or wait() on freed memory,
\* although release() may come from any thread at any time.
GroupOutlivesWork ==
  \A g \in Groups : Unfinished(g) # {} \/ waiting = g => group[g] = "live"

Dispatched(n) == \E i \in DOMAIN notified : notified[i] = n

\* "dispatch block on given queue when all previously scheduled blocks finished
\* executing": a block is dispatched only by a step that leaves nothing of its
\* group unfinished.
NotifyWhenDrained ==
  [][\A n \in Notifies :
       ~Dispatched(n) /\ Dispatched(n)' => Unfinished(NotifyGroup[n])' = {}]_vars

\* Operations of one priority are taken in the order they were scheduled, by
\* whichever worker.  The worker that takes one never passes over a queued
\* operation of a higher priority if it respects priority (238-243), and passes
\* over none at all if it does not.
TakenInOrder ==
  [][\A q \in Queues : \A i \in DOMAIN opQueue[q] :
       LET o == opQueue[q][i]
       IN  opState'[o] = "running" =>
             /\ \A j \in 1 .. i - 1 : PriorityOf[opQueue[q][j]] # PriorityOf[o]
             /\ \E s \in Threads :
                  /\ pc'[q][s] = "running" /\ op'[q][s] = o
                  /\ IF respect[q][s]
                     THEN \A j \in DOMAIN opQueue[q] :
                            PriorityOf[opQueue[q][j]] <= PriorityOf[o]
                     ELSE i = 1]_vars

\* Every scheduled operation finishes, also one of the lowest priority.
OperationsFinish ==
  \A o \in Ops : opState[o] = "queued" ~> opState[o] = "left" /\ o \notin asyncOpen

\* wait() returns.
WaitReturns == \A g \in Groups : waiting = g ~> waiting # g

\* A registered block is dispatched.
NotifyHappens ==
  \A n \in Notifies :
    (\E i \in DOMAIN notifyList[NotifyGroup[n]] : notifyList[NotifyGroup[n]][i] = n)
      ~> Dispatched(n)

\* A released group is deleted: "after last scheduled operation the group will
\* delete itself".
ReleasedIsDeleted == \A g \in Groups : releaseCalled[g] ~> group[g] = "deleted"
=============================================================================
