# AsyncDisplayKit in TLA+

AsyncDisplayKit moves the work of an iOS interface (layout, drawing, loading of
images) off the main thread. Its difficulties are therefore the difficulties of
concurrent programs: work that was overtaken before it finished, queues shared
by worker threads, callbacks that re-enter the code that calls them, a main
thread that blocks for workers. The modules in this directory model the parts
of `Source/` in which those difficulties live, TLC checks them on small
instances, and TLAPS proves the safety of the transaction queue and of the
transactions that use it, of the display of a node, of the network image node, of
the data controller with its range controller and of the run-loop queue for
every instance.

Contents: [the system](#the-system) · [modules](#modules) ·
[runs](#runs) · [fairness](#fairness) · [proofs](#proofs) ·
[findings](#where-the-code-and-its-comments-disagree) ·
[hazards](#hazards) · [not modelled](#not-modelled) ·
[what could come next](#what-could-come-next)

## The system

### Components, their state and their operations

The first nine rows, batch fetching and the multiplex image node left out, are
modelled or partly modelled; `PROJECT.json` has the status of every component.

| component | source | state | operations | correct when |
|---|---|---|---|---|
| Transaction queue | `Details/Transactions/_ASAsyncTransaction.mm` 30–317 | per dispatch queue a list of operations, a map from priority to operations, the number of worker blocks; per group the pending operations, notify blocks, a released flag | `schedule`, the worker block, `notify`, `enter`, `leave`, `wait`, `createGroup`, `release` | nothing scheduled is lost, the two structures agree, counters are exact, a group is deleted once and only when unused |
| Transaction | same file 319–590, `.h` | state Open/Committed/Canceled/Complete, operations, group | `addOperation…`, `addAsyncOperation…`, `addCompletionBlock`, `commit`, `cancel`, `completeTransaction`, `waitUntilComplete` | every completion block is called once, in order, after all blocks ran; a cancel is reported |
| Container and transaction group | `_ASAsyncTransactionContainer.m`, `_ASAsyncTransactionGroup.m` | per layer the current transaction and the set of unfinished ones; the containers to commit this turn | `asyncTransaction`, `cancelAsyncTransactions`, the run-loop observer | no open transaction is forgotten |
| Display of a node | `Details/_ASDisplayLayer.mm`, `Private/ASDisplayNode+AsyncDisplay.mm`, `ASDisplayNode.mm` | display sentinel, suspension, contents, who waits for whom, interface state | `display`, `setNeedsDisplay`, `setDisplaySuspended:`, `displayAsyncLayer:`, `setInterfaceState:`, enter and exit of the hierarchy, `clearContents`, `setBounds:` | contents are never overtaken ones, and end up current |
| Network image node | `ASNetworkImageNode.mm` | URL, image, cache UUID, download identifier, interface state | `setURL:`, `setImage:`, lazy load, cache, progress and download completions, preload and display callbacks | the image shown belongs to the URL, and is loaded when wanted |
| Multiplex image node | `ASMultiplexImageNode.mm` | image identifiers from worst to best, loaded identifier, download identifier | `setImageIdentifiers:`, reload, download steps | a better image is never replaced by a worse one |
| Data controller | `Details/ASDataController.mm`, `ASMainSerialQueue.mm` | pending and visible element maps, editing queue, main serial queue | `updateWithChangeSet:`, `relayoutAllNodes`, `environmentDidChange`, `waitUntilAllUpdatesAreCommitted` | visible maps are deployed in the order of the updates |
| Change set, element map | `Private/_ASHierarchyChangeSet.mm`, `ASElementMap.m`, `ASMutableElementMap.m` | item and section changes | sort, coalesce, validate, index mapping | the mapped result is the data source's new state |
| Range controller | `Details/ASRangeController.mm` | range mode, visible, display and preload sets, interface state of the cells | `setNeedsUpdate`, `updateIfNeeded`, `updateCurrentRangeWithMode:` | every node in range, and no other, is kept loaded and displayed |
| Batch fetching | `Details/ASBatchContext.mm`, `Private/ASBatchFetching.m` | fetching, canceled, completed | `beginBatchFetching`, `completeBatchFetching:`, `cancelBatchFetching` | one fetch at a time |
| Run-loop and dealloc queue | `ASRunLoopQueue.mm` | queue of items, run-loop source, who waits for the drain | `enqueue:`, `processQueue`, `releaseObjectInBackground:` | an enqueued item is processed while it lives, and those who wait for the drain are told |
| Node tree, loading, pending state | `ASDisplayNode.mm`, `Private/_ASPendingState.mm`, `ASPendingStateController.mm` | sub- and supernodes, view or pending state | `addSubnode:`, `removeFromSupernode`, `loadNode`, bridged properties | nothing set before the view is loaded is lost |
| Layout and transitions | `ASDisplayNode.mm`, `ASLayoutTransition.mm`, `NSArray+Diffing.m` | calculated and pending layouts, transition identifiers | `measure`, `transitionLayout…`, the diff of two layouts | only the last transition completes |
| Layout specs | `Layout/` | none | flexing, line breaking, positioning | sizes are within their constraints |
| Video, text, controls, views, controllers, debugging | `ASVideoNode.mm`, `ASTextNode.mm`, … | | | |

### How they interact

A node that needs display is displayed by Core Animation or by the render queue
(a run-loop queue). `-display` of its layer increments the *sentinel*, takes the
current *transaction* of the nearest container layer and adds an operation: an
execution block that draws on a concurrent dispatch queue, and a completion
block that sets the layer's contents on the main thread if the sentinel has not
moved. The main *transaction group* commits the open transactions at the end of
the run-loop turn. A committed transaction registers a block with the *queue*'s
group, to run on the main thread when all its operations have left; that block
calls the completion blocks. Code that needs the contents at once
(`recursivelyEnsureDisplaySynchronously:`) blocks the main thread in the group's
`wait()` and completes the transaction itself. The *range controller* of a
table or collection decides which cells have which *interface state*, and so
which display (or preload) at all; it works on the element map the *data
controller* has deployed.

All calls of transactions and layers are on the main thread; worker blocks,
`leave()` and `dealloc` (hence the group's `release()`) are on any thread. The
queue's own state is under one mutex, a node's under a recursive lock.

### What is hard

* Worker blocks, `schedule()` and the end of a worker meet in any order; the
  entry of a dispatch queue appears and disappears with them.
* A group's counter reaches zero and rises again; notify blocks, a waiter and
  the deletion all hang on the moment it is zero.
* Completion blocks are client code in the middle of `-completeTransaction`:
  they cancel, add to, wait for or complete transactions, the same one included.
* A display in flight is overtaken by a change, a suspension, an exit from the
  hierarchy; it still runs and still completes.
* Things scheduled for the next turn (`clearContents`, the check of
  `didExitHierarchy`) find a node that has moved on.
* The main thread blocks for workers, and blocks meant for it do not run.
* A URL changes, from any thread, while the lookup or the download of the old
  one is anywhere between being asked for and being answered.
* Maps of elements are computed ahead of what UIKit shows; blocks of the main
  serial queue run inside one another, and inside the delegate's methods.
* Index paths and remembered nodes outlive the map they were taken from.
* A set of changes mixes indexes before and after the update.
* The run loop is woken, not called: a queue whose last wake-up was used up
  while new items came would sleep on them.

## Modules

    AsyncTransactionQueue          the queue: workers, priorities, groups
      AsyncTransactionQueueProofs  its safety, proved
      MCAsyncTransactionQueue      instance for TLC
    AsyncTransaction               EXTENDS AsyncTransactionQueue: transactions,
      |                            containers, run-loop group, main thread
      AsyncTransactionProofs       it implements the queue; its safety, proved
      TransactionPromise           what the header promises of one transaction
      AsyncTransactionPromiseProofs  every transaction keeps it, proved
      MCAsyncTransaction           instances for TLC
    AsyncDisplay                   display of one node
      AsyncDisplayProofs           its safety, proved
    NetworkImageNode               URL, cache and downloads of one node
      NetworkImageNodeProofs       its safety, proved
      MCNetworkImageNode           instance for TLC
    DataController                 maps of elements, the main serial queue
    RangeController                interface states of the cells' nodes
    Collection                     EXTENDS DataController, INSTANCE RangeController:
      |                            the two as a collection view composes them
      CollectionProofs             safety of DataController; Collection implements
                                   it; safety of the ranges
    ChangeSet                      the change set and its application to a map
      ChangeSetProofs              it rejects what does not fit, and the map it
                                   gives is right, proved for all sizes
    RunLoopQueue                   the run-loop queue and its consumer
      RunLoopQueueProofs           no wake-up is lost, proved

### AsyncTransactionQueue

Everything the C++ does while it holds `_mutex` is one step. What a worker block
does without it is a step each: `RunBlock` (or `RunAsyncBlock`, which enters the
group again), `LeaveGroup`, `FreeBlock`; `PopOperation` and `ExitThread` are the
two outcomes of looking at the queue under the lock. The lower-case operators
(`pushOperation`, `popNextOperation`, `schedule`, `notify`, `enter`, `leave`,
`release`) are the bodies of the functions of the same name; the actions of the
second half (`Schedule`, `Notify`, `Release`, `WaitBlocks`) add who may call
them: the contract stated by the comments of `Group`. `_operationPriorityMap`
is a function from all priorities in use to lists, an empty list standing for an
absent key; an entry exists in `_entries` iff its `threadCount` is positive.
`wait()` is two steps: the thread blocks, and wakes after `notify_one`, when it
looks at the counter again. The main dispatch queue is a queue of the model like
the others, except that its blocks run one at a time and only while the main
thread is not in `wait()`. Operations, groups and notify blocks are constants:
each is used at most once (a notify block again only after it was dispatched).

### AsyncTransaction

Extends the queue's module: a transaction and its group share a name, and the
group's notify block is the one `-commit` registers. The main thread is the
variable `stack`, the calls it is inside of: the loop of the group's commit, the
loop of `-completeTransaction`, a client's completion block, a cancel between
its two halves, a wait. A step ends where a client's block is called, where the
thread may block, or where the mutex is taken; so a callback can re-enter every
loop at the places where the code lets it. Client code (`ClientDoes`) may add
operations, take transactions and leave them empty, cancel a layer's
transactions, and ensure display synchronously. `Dealloc` runs as soon as nobody
(`Retained`) holds the transaction: the layer's set, the stack, an execution
block not yet freed, the completion block of an asynchronous operation, the
notify block.

The detailed specification implements two abstract ones. `ImplementsQueue` says
that what the transactions do to the queue is allowed by the queue's own
specification, so the contract its actions assume (no `enter`, `leave`, `wait`
or `notify` on a released group, one release) is kept, and what is checked and
proved of the queue holds for it as it is used here. `KeepsPromise` says that
each transaction, seen through the mapping `Promise(t)`, behaves as
`TransactionPromise`, which knows nothing of queues, threads or run loops:
completion blocks once each, in order, after every execution block, and told of
a cancel whenever a block was skipped.

### AsyncDisplay

One handler of the main thread per step, two steps (`RunDisplayBlock`,
`CompleteDisplay`) for the operation of a transaction; the order between the
operations in flight is left open. What a node draws is a version number, its
contents the version drawn. `rangeManaged` chooses, once, between the two ways
interface states arise: from a range controller (`RangeSetsInterfaceState`) or
from entering and leaving the hierarchy. The pending display nodes of the node
and of its supernode are two booleans. Left out: rasterized subtrees, nodes that
display synchronously, the preload bit, implicit subnode trees (one node is
enough for every property here, since a node's display state depends on its
supernode only through `superPending`).

A client may cancel the transactions of the container (`CancelTransactions`):
`canceledUpTo` is the sentinel of the last display whose transaction was canceled,
and such a display applies nothing and tells nobody, whether the sentinel has moved
or not (`Applies`, line 326 of `ASDisplayNode+AsyncDisplay.mm`). A node whose last
display was dropped in this way (`Dropped`) keeps its placeholder, its old contents
and its place among what its supernode waits for, until a change, an exit and
re-entry, or a resumption displays it again; the liveness properties except it, and
a hazard records it.

### NetworkImageNode

What is done under the instance lock without giving it up is one step. The
handlers that give it up in between are frames: `main` is the main thread inside
`-_lazilyLoadImageIfNecessary`, the answer of a lookup or
`-didExitPreloadState`; `blocks` are the background blocks of
`-_downloadImageWithCompletion:`, which read the URL under the lock, ask the
downloader without it, and store the identifier under it again (or cancel, and
begin again, if the URL has changed). Clients set URLs and images from any
thread in between. Lookups and downloads are logs whose indexes are the UUIDs
and identifiers; their answers come at any later moment, those of canceled
downloads too. The downloader and the cache are external and chosen in `Init`:
a cache or none, completions with the identifier of the download
(`ASPINRemoteImageDownloader`) or with nil (`ASBasicImageDownloader`). Which
downloads have a progress block is left open: any one may report, also after it was
canceled, and what is reported is judged by its identifier alone
(`ASNetworkImageNode.mm:408`).

### DataController, RangeController, Collection

`maps` are the element maps computed so far: the last one is `_pendingMap`,
`visible` the index of `_visibleMap`. `editing` is the serial editing queue and
its group, `blocks` the main serial queue, `drains` the `-runBlocks` that were
dispatched from other threads. The main thread is a `stack`: a call that waits
for the editing group, the loop of `-runBlocks`, a block inside one of the two
delegate methods, a loop of the range controller, a node's hook called from that
loop. A block may run inside another one, since `-performBlockOnMainThread:` drains
inline on the main thread and clients call back. One section of items is modelled;
inserts are at its front, deletes take the first item (where items are put is the
business of `ChangeSet`).

`ClientRuns` says where: in events of their own, in `didUpdateWithChangeSet:`, in
the hooks of nodes (`ASDisplayNode.mm:3615-3637`), and in what is told in advance,
`willUpdateWithChangeSet:`. There the view calls the layout facilitator, which a
client may implement, for any change set but a reload (`ASCollectionView.mm:1834-1857`);
and for a reload the range controller makes all visible nodes exit the visible state
(`ASRangeController.mm:489-491`), which calls their hooks. Callbacks of the data
source inside `-updateWithChangeSet:` are assumed not to call back.

A client that waits there for all updates (`waitUntilAllUpdatesAreCommitted`) runs
later blocks of the main serial queue inside the one that is telling it, and when
that one goes on, it deploys the map it has captured: an older one over a newer one.
Everything about the order of maps is lost by that: the visible map is not the
newest one any more, a block finds less deployed than was submitted before it, and
what the environment's block has corrected may disappear under an element that it
has not seen. The history variable `interrupted` records that a block was taken
while a delegate had been told of a map and the map was not deployed; the
properties of the data controller hold until then, and `Settles` promises no more
than that all calls return once it has happened. Without the exemption TLC finds
each of them violated within the bounds of the run.

`RangeController` holds the interface states of the nodes and what the
controller remembers of its last update. Its loops change nodes one by one: `Visit`
is a turn of the loop over index paths (311-371), `ExitVisible` one of
`-_setVisibleNodes:` (187-195), and after each that changes a node the main thread
is in that node's hook, where anything may happen that clients can do, another
update of the ranges or the deployment of a map included. What a loop keeps in
local variables is a *pass*, and passes form a stack; `VisitsEnd` and
`SetVisibleNodes` end the loops. A pass that was overtaken, by another pass or by
a deployment, goes on with the index paths of the old map, then overwrites
`_visibleNodes` (373) and sets `_rangeIsValid` (394), although the deployment has just
reset it. The history variable `overtaken` records that, `RangesTracked` holds until
then and is violated, in both of its halves, if it is not excepted.
Which index paths the layout controller puts into the ranges is left open, so
the range modes are, too.

`Collection` composes the two: the data controller tells the range controller of
its change sets, range updates are begun wherever client code runs (they are bounded
together with the calls of clients), and nodes are cleared at any such moment,
without bound.

### ChangeSet

Everything here is a pure function of what was submitted: sorting and coalescing, the splitting of reloads by mapping their indexes through
the other changes (`indexChangeByInsertingItemsBelowIndex`), validation against
the new counts, and the application to the map in the order of the code:
deletes backward, then inserts forward. Loops over indexes are recursive functions
of the number of indexes already dealt with (`indexChangeByInsertingItemsBelowIndex`,
`RemoveAll`, `InsertAll`). The reference definition it is checked
against (`Partner`, `Fits`) says what UIKit means by the same changes, with no
order and no splitting: what is left keeps its order in what is not inserted.
Indexes start at 1. Each index path is submitted once per kind of change. Clients
delete and reload what there is, and reload nothing they delete: the contract
that the thrash tests spell out (`ASTableViewThrashTests.m:379-397`).
`-_validateUpdate` raises its exceptions only in builds with assertions; in
others a rejected update is applied and anything may follow.

### RunLoopQueue

`Enqueue` and `TakeBatch` are the two critical sections; what the consumer gets
is handed over one by one without the lock, while others enqueue and objects are
deallocated. `loop` and `wakeUp` are the run loop and its signaled source: the
observer's `-processQueue` runs only before the loop goes to sleep.

With a consumer the queue is the render queue, and the module has the range
controller that waits for it. `ScheduleNode` is a range update that schedules a
node: it registers for the notification only if its range mode is about to change
(`ASRangeController.mm:417-433`), and keeps the time of what it scheduled while it is
registered (364-367). The consumer of the last item of a drained queue posts the
notification with the time it reads, and the controller stops waiting if it has
scheduled nothing since (438). Both times are read on the main thread, the
notification's last, so the comparison succeeds at every notification: what keeps
the announcement from being premature is that nothing the controller scheduled
before is still in the queue, and that fails in one case. A node that a
range update schedules inside the consumer, after the flag was computed and before
the notification is posted, is announced as displayed although it is still in the
queue; line 439 says "the rendering engine has processed all the nodes this range
controller scheduled". The history variable `late` names these nodes, and
`WaitEndsWhenDisplayed` excepts them and no others: what other threads or other
controllers enqueue meanwhile does no harm.

## Runs

| run | instance | question | result |
|---|---|---|---|
| `AsyncTransactionQueue` | 4 operations (one asynchronous), 2 groups, 2 priorities, 1 concurrent queue, 2 workers, 1 notify block | does the queue keep its books and finish its work? | holds |
| `AsyncTransaction` | 2 layers (symmetric), 2 transactions, 3 operations (one asynchronous), 2 workers, stack depth 3 | do transactions keep their promise with cancels, waits and clients that re-enter? | holds |
| `AsyncTransactionLive` | 1 layer, 2 transactions, an operation each | does every transaction complete, every wait end? | holds |
| `AsyncTransactionMainWait` | the same, one operation on the main queue | does the wait also end with `addCompletionBlock`? | violated: finding 1 |
| `AsyncTransactionReenter` | a callback waits for its own transaction | does it complete once? | violated: finding 2 |
| `AsyncDisplay` | 2 versions, 5 other events, managed or not, empty or not, transactions canceled or not | are overtaken and canceled displays dropped and do contents end up right? | holds |
| `AsyncDisplayReenter` | the same, 3 events | does a visible node that nobody manages show what it draws? | violated: finding 3 |
| `NetworkImageNode` | 2 URLs, one of a file, 3 events, with and without cache and identifiers | is the stored identifier of the current URL, are late answers dropped, is `_imageLoaded` never left of another URL, is a wanted image loaded? | holds |
| `NetworkImageNodeStale` | 2 URLs, 3 events | is the answer of a canceled lookup dropped? | violated: finding 4 |
| `Collection` | 3 elements, 4 calls or range updates, 1 change of the environment; 432 thousand states | until the two cases above, are maps deployed in turn, are blocks, traits and ranges up to date; does every call return? | holds |
| `ChangeSet` | up to 3 sections of up to 2 items before and after, 3 changes (a move is two); 10.5 million states | is what is accepted what the data source has, and is every element where UIKit means it? | holds |
| `RunLoopQueue` | 3 objects, 4 enqueues, batches of 1 or 2, all ways to create a queue; 687,386 states | is every item taken, and the range controller told of the drain, and not too early? | holds |

Why the bounds are enough for the cases that matter:

* Two workers (`MaxThreads` = 2, the smallest the code allows, and one while the
  user is tracking) give a worker in queue order beside one that respects
  priorities, an entry whose last worker ends while another is still in a block,
  and two threads that leave a group at the same time. Four operations leave
  some queued while both workers are busy, two of them of one priority, and two
  groups share the queue, so a leave of one group meets a wait for the other.
* Two transactions of one layer, or of two, with one asynchronous operation and
  stack depth 3 reach: a callback inside a completion inside a wait; a cancel
  between the commit and the completion; a completion scheduled on the main queue
  after a wait has completed the transaction; an empty transaction; a commit loop
  that meets a transaction opened by a callback.
* Two versions give a display that was overtaken, before and after its block
  ran, beside one that was not. Five events are enough for: into range,
  hierarchy, out, in again, and a change of bounds. One more changes no result
  and multiplies the states.

* Three events at the network image node are enough for: into the preload range,
  a URL before and after the block of its download has started; out and in again;
  or two URLs and a client's image. Each may meet a lookup, one or two downloads
  and a file in any state.
* Four calls or range updates at the collection give: the reload, a map being prepared
  while a block waits for another, a call from a delegate's method or a node's hook
  inside that block, and what is scheduled behind; or a reload, an update that makes
  its node visible, a second reload and a wait in the node's hook. Three elements
  allow a map of two with one more in preparation; one change of the environment may
  come before, between and after all of them. That the bounds reach the cases the
  properties except is known from the runs without the exemptions, which are
  violated.
* Three changes over three sections include every pair with a reload between:
  the numeric mistakes (an index equal to an inserted one, a shift by a later
  section) all show with two.
* Batches of one and two over four enqueues give queues that a batch empties
  exactly, leaves something in, and that are filled while a batch is consumed.

The type invariants are one per module, those of the transactions and of the
network image node proved and not checked by a run of their own. The other properties of the passing
runs each relate several actors, and each is violated by at least one plausible
mutation of the code (the operators marked *Mutant*, which no specification
uses): a worker not counted, a notify list forgotten, a group deleted at once, a
bucket taken from the wrong end, a state not tested, a flag not reset.
`CHECK_DEADLOCK FALSE` stands in the configurations because the systems do stop:
when all operations are used up, or every bound is reached, nothing is left to
do.

### Bounds

`MaxThreads` is a parameter of the code (twice the number of processors).
`MaxDepth` bounds only how deep the client nests calls. `MaxVersion` and
`MaxEvents` bound the client's changes and events. `Ops`, `Groups`, `Notifies`
are finite because each is used once. `MaxElements`, `MaxCalls` and `MaxTraits`
bound what clients and the range controller do to a data controller; `MaxSections`, `MaxItems` and
`MaxChanges` the inputs of a change set; `MaxEnqueues` the calls of `enqueue:`.

## Fairness

* A dispatch queue runs its blocks: weak fairness for every worker block of a
  concurrent queue. The blocks of the main queue, and everything that needs the
  main thread to be out of other calls (`RunCommitted`, `RunLoopCommit`), have
  strong fairness: the run loop serves them in turn, but an event may be handled
  in between each time.
* A client's completion block returns, although it may re-enter the library
  again and again before (`SF` for `CallbackReturns`).
* An asynchronous operation is completed: "Consumers MUST call the
  completeOperationBlock", `_ASAsyncTransaction.h`. Without it nothing can be
  promised, and a hazard says so.
* Core Animation displays marked layers, scheduled main-queue blocks run.
* Network image node: the main thread goes on inside a handler and background
  blocks run (weak fairness); downloads end and blocks of the main queue run
  although other events come first (strong fairness). Nothing is assumed of the
  cache, which may never answer.
* Collection: the main thread goes on with the frame it is in, a loop of the range
  controller or a node's hook included, and with what is dispatched to it, and the
  editing queue runs its blocks (weak fairness for each).
* Run-loop queue: a run loop whose source is signaled turns (weak fairness).
  Nothing else wakes it: `WakeForOthers` is possible and not fair.
* No fairness is assumed of the client: it need never commit, cancel, wait,
  release or change anything.

## Proofs

TLAPS checks eight modules of theorems. They hold for all constants satisfying the
assumptions: any finite set of operations, any groups, dispatch queues, notify
blocks, any finite set of integer priorities, any placement of operations, any
limit of at least two workers (`PlacementAssumption`, `NullAssumption`,
`FiniteAssumption`, `ThreadsAssumption`); any layers, any client calls and any
depth of reentry (`ClientAssumption`, `NotifyAssumption`); and any `MaxVersion` ≥ 1, any
`MaxEvents` (`DisplayAssumption`); any URLs and setups (`ImageAssumption`); any
numbers of elements, calls and changes of the environment (`DataAssumption`);
any objects and batch sizes (`RunLoopQueueAssumption`); any numbers of sections,
items and changes (`ChangeSetAssumption`).

### AsyncTransactionQueueProofs

`Invariance`: `Spec => []IInv`. The inductive invariant adds to the properties
what they silently rest on:

* `ListsAgree`: the list and the buckets of an entry hold the same operations,
  once each, ordered alike, all of them queued operations of that dispatch
  queue. That an operation is the first of its bucket whichever way it was
  chosen (`NextIsFirst`, the assertion of `popNextOperation`) follows, and is
  what lets `pop_front` be right. `HighestExists` (the map's last key) is an
  argument about the well-founded order of finite sets.
* `WorkersHold`: a running operation is held by exactly one worker, so `leave()`
  is called once per `schedule()`; and its asynchronous part has not been
  entered before its block ran.
* `ThreadsCounted` and `QueueServed`: `_threadCount` is the number of worker
  blocks, and is positive while anything is queued. `ExitThread` keeps the
  second because it is only taken with an empty queue, `schedule()` because the
  limit is at least one even while tracking.
* `PendingIsUnfinished` with `WaitingOwned` gives `GroupOutlivesWork`:
  `release()` and the last `leave()` delete only at zero, when nothing of the
  group is unfinished, and a group that is waited for is not released.
* `NotifyHome`: a block waits in the list of its own group. With the counter it
  gives `NotifyWhenDrained`.

Theorems: `TypeCorrect`, `QueuedIsServed` (`WorkHasWorker`), `CounterIsExact`
(`PendingIsUnfinished`), `GroupIsSafe` (`GroupOutlivesWork`),
`NotifiedWhenDrained` and `TakenByPriority` (the action properties
`NotifyWhenDrained` and `TakenInOrder`), and `BucketsAreTheQueue`
(`QueueConsistent`). The proof has one lemma per action, and in it one step per
part of the invariant that the action can disturb; the parts it leaves alone are
closed by the `Keep…` lemmas.

`QueueConsistent` says that each bucket is the list filtered by its priority,
element by element, where `ListsAgree` only says that it has the same elements
in the same order. `PartInOrder` closes the gap: the places of a bucket's
elements in the list are increasing, so the place of the k-th has k places up to
it, counted with a bijection.

### AsyncTransactionProofs

`TxnInvariance`: `TxnSpec => [](IInv /\ TxnInv)`. Neither half is inductive alone.
The queue's `IInv` is kept by a transaction's step only if the step is one of the
queue's own, whose actions assume a contract (a group is used only before its
`release()`, and by somebody who owns it); that the contract is kept follows
from `TxnInv`, which in turn needs the queue's counters to know that a wait ends
with nothing left to run.

`TxnInv` is about who refers to a transaction. `Retained` splits into the layers,
the stack and the queue (`RetainedIs`), and most steps only hand a reference on:
from the list of an entry to a worker, from the notify list to the dispatched
block, from there to a frame of the stack (`Handover`, `StackStep`, the `HandsOn`
lemmas). So `ReleasedFree` (nobody refers to a released group) and `NoneUnused`
are kept, and with them the contract. The other parts:

* `LayersOK`, `CommitDue`: an open transaction is the current one of the one layer
  that holds it, and that layer is registered, in the rest of a running commit, or
  being canceled.
* `StackShape`: calls that commit or cancel are innermost, since they call only
  the library. A callback therefore never runs between the two halves of a cancel,
  where the current transaction is already committed.
* `CompletingClosed`, `NotifyKnown`: what is completed, or waits for a notify,
  has been committed or canceled.
* `WaitingTop`: the call that blocks is the innermost.

Theorems: `QueueImplemented` (the refinement `ImplementsQueue`: the queue's
theorems hold as it is used here), `TxnTypeCorrect`, `OpenIsDue`
(`OpenWillBeCommitted`), `WaitIsSafe` (`WaitFindsCommitted`), `GroupsAreSafe`
(`PendingIsUnfinished` and `GroupOutlivesWork` with the transactions as clients) and
`StateAdvances` (`StateOnlyAdvances`). They need no assumption on the client: a
callback that waits for its own transaction breaks `CompletesOnce` (finding 2),
but none of these.

### AsyncTransactionPromiseProofs

`PromiseInvariance`: `TxnSpec => [](IInv /\ TxnInv /\ PromiseInv)`, under the
hypothesis `NoReenter`: no callback waits for a transaction that is being completed.
Finding 2 shows that it cannot be dropped, and `WaitForLayerDelivers` is the one
lemma that uses it. The rest is allowed: a callback may take transactions, add,
cancel, and wait for others, whose own callbacks may do the same.

* `NoRevisit`: no call works on a transaction that a call around it completes, so
  each is completed by one loop at a time and `finishes` stays at one. A loop holds
  what it completes (`CompleteOK`): it was committed, all its operations ran
  (`AllRan`), and the blocks called are those before `next`, so that the loop never
  meets a block that is nil already (`NextNotNilled`).
* `Outcomes` and `Drained` tie this to the queue: an operation without outcome is
  queued, being run or waits for its asynchronous answer, hence unfinished in the
  queue's sense; a counter at zero (`RanNext`) therefore means that all operations
  ran, whether the loop is entered by the dispatched block or by a wait.
* `WaitShape`: a call that waits is innermost, or has called the group's commit.
  While it waits nothing is added to the transaction it has found drained.
* `FinishesOnce`: a transaction is held by its layer until it has finished. With
  `ReleasedFree` of `TxnInv` it gives `NotReleasedEarly`.

`PromiseKept` is the refinement `KeepsPromise`: one lemma for each action of
`TransactionPromise` (`AddStep`, `CloseStep`, ...) says when a step of the detailed
specification is that action for a transaction, and one for each action of
`AsyncTransaction` (the `...Kept` lemmas) which it is. A commit is `Close`, or `Finish`
without operations; a cancel adds nothing to the commit it contains. The other
theorems are `CompletesAtMostOnce` (`CompletesOnce`) and `NotReleasedEarly`
(`ReleasedIsFinished`).

### AsyncDisplayProofs

`Invariance` again, and from it `TypeCorrect`, `LatestApplies`
(`OnlyLatestApplies`), `SuspensionIsQuiet` (`SuspendedIsQuiet`) and
`ContentsNeverOlder` (`NeverOlder`). The argument is about the sentinel: it
never goes back, displays in flight captured different values of its past
(`CapturedApart`), and one that captured the present value draws the present
version (`CurrentDraws`), because every change of what is drawn moves the
sentinel. A display whose transaction was canceled is completed without being
applied, which leaves the contents as they are. `BlocksFromEvents` bounds the
scheduled blocks by the events and is needed for the types only.

### NetworkImageNodeProofs

`TypeCorrect`, `IdentifierMatchesURL` (`DownloadMatchesURL`),
`LateAnswersRejected` (`NoForeignImage`) and `LoadedImageIsCurrent`
(`LoadedIsCurrent`). `DownloadMatchesURL` is not inductive:
a block between asking the downloader and taking the lock again carries an
identifier that no variable of the node has yet. `BlocksMatch` says that the
download of that identifier is of the URL the block carries; the comparison with
`_URL` under the lock does the rest, since every change of the URL drops the
identifier in the same critical section. `LoadedIsCurrent`
holds because what sets `_imageLoaded` has compared its URL or its identifier in
the same critical section, and a change of the URL unsets it (`LoadedOK`).

### CollectionProofs

The theorems hold wherever clients call back. `DeploysInTurn` needs to know where
every map is (`MapsInLine`): those up to `Base` are deployed or about to be, the last
`Len(editing)` are with the editing queue, and those in between are deployed by
blocks of the main serial queue, one block each, in order and without gaps
(`DeploysInRange`, `DeploysInOrder`, `DeploysAll`). `SchedulesBehind` adds
`NeedsAreAhead`: every map a block needs is deployed by a block in front of it,
true when it is added because its caller had waited until the editing queue was
empty.

`DataInv` is in two halves. Types, `StackInv` (a frame that waits is the innermost
one, what it waits to apply still fits, and delegates are told only of maps there
are) and the numbers in the editing queue (`EditingLined`) hold always;
`MapsInLine` as long as nothing is `interrupted`. Until then at most one frame of
the stack, whichever other frames are above it, is about to deploy a map
(`AnnouncedOnce`), and that map is the one after the visible one (`Announcement`);
the lemmas `PushedAnnounces`, `PoppedAnnounces` and `ReplacedAnnounces` follow it
through the stack. `Taken` is where the two meet: if taking a block does not
interrupt, then nothing was announced, and `Base` is the visible map.

`NoPastTraits` cannot look at the visible map alone: an element that is not
shown yet may be stale. Its invariant is about the line of maps again:
`MapsContinuous` (an element in a map and in a later one is in those between,
always) and `StaleIsOwed` (an element with past traits that some map shows or will
show has the call or block that corrects it still before it, and deployed before
that block runs, until something is `interrupted`).

`ImplementsDataController` is the refinement of the data controller by its
composition with a range controller, and carries the three theorems over.

`NodesTracked` (`RangesTracked`) is about a pass at any point of its loops
(`Followed`): there is one pass at most, visible nodes are known to it or to
`_visibleNodes`, those that `-_setVisibleNodes:` has not told to exit it will
remember (`VisibleLeave`), and what is in a range is at an index path remembered or
still to be visited, whether `_rangeIsValid` is set already or only will be when the
pass ends (`PathsKnown` with `PathsCount`); a node still to be visited at an index
path that is not remembered gets no state (`OthersGetNone`). The last two rest on
`MapsDistinct`: no map has an element twice, so an index path determines the node.
Under a pass that is not overtaken the visible map does not change; between passes
it does, with `RangeDidUpdate` in the same step.

### ChangeSetProofs

`RejectsExactlyMisfits` (`RejectsMisfits`) and `ElementsAlwaysMatchItems`
(`ElementsMatchItems`), for any numbers of sections, items and changes. Both rest
on one invariant, `Consistent` (`AlwaysConsistent`): what is submitted deletes and
reloads only what there is, deletes and reloads are apart, no item is reloaded in a
section that goes, and the map is that of the old counts until the change set is
completed. Only `Complete` closes a change set (`StepsOfChangeSet`), so what is left
is about one step, and about functions of the indexes:

* The loops are followed by induction on the number of indexes dealt with.
  `NatBySuccessor` is that induction for sets of numbers, from the library's
  theorem that every non-empty set of a well-founded order has a least element.
  `NewIndexDefined`, `RemoveAllDefined` and `InsertAllDefined` show that the
  recursive functions exist and are what their equations say.
* `Below(S, n)`, how many of `S` are below `n`, grows by one at most per step
  (`BelowNext`, `BelowGap`), so that what is kept keeps its order
  (`KeptInOrder`).
* `PartnerIsShift`: the place that newSectionForOldSection: and its like compute is the
  partner UIKit gives it. From it, kept places stay apart (`ShiftInOrder`), within
  the new bounds (`ShiftWithin`), and fill all that is not inserted (`ShiftOnto`).
* `ReloadsMoveNothing`: counting a reload as a delete and an insert at the new
  place, as -_sortAndCoalesceChangeArrays does, moves nothing else. That is why
  the split lists and the submitted ones agree about where things go.
* `RemoveAllIs` and `InsertAllIs`: what lists look like after all deletes and all
  inserts; inserts are at their indexes because they come in order.

`ValidatesIsFits` compares the checks of -_validateUpdate with `Fits`, conjunct by
conjunct: the numbers of sections agree because an image has as many elements as
the reloads (`ImageIndexes`), and a reloaded item's new path needs no check of its
own. `UpdatedMapMatches` composes the four passes over the map: each new section
is one made for it (`NewSectionMatches`) or comes from exactly one kept section
(`OldSectionMatches`), and in it each element likewise.

### RunLoopQueueProofs

`NoWakeUpLost`: with an item in the queue, the run loop's source is signaled, the
loop is awake, or it is serving a batch after which it signals again. The
flag `drained` is computed under the lock and used after it; the proof shows
why that is harmless for the queue (what was enqueued meanwhile has signaled
itself).

### Model-checked only

Liveness (`OperationsFinish`, `WaitReturns`, `NotifyHappens`,
`ReleasedIsDeleted`, `TransactionsFinish`, `WaitEnds`, `DisplayCatchesUp`,
`FirstContentsAppear`, `LoadsWhenWanted`, `Settles`, `ItemsAreServed`,
`DrainIsAnnounced`): the prover does not handle fairness. Every invariant and
every action property of the passing runs has its theorem, except
`WaitEndsWhenDisplayed`, whose argument about what is in the queue at a
notification is an induction over `SelectSeq`; `KeepsPromise`, `CompletesOnce` and
`ReleasedIsFinished` under `NoReenter`, for clients that do not wait inside
their own callbacks.

## Where the code and its comments disagree

1. `-waitUntilComplete` promises to "block the main thread until the transaction
   is complete, including callbacks". With an operation of `addCompletionBlock`,
   whose block is put on the callback queue, that is the main queue, the thread
   waits for a block that only it can run (`AsyncTransactionMainWait`).
2. "Always set state to Complete … to block any extraneous calls to this method":
   the state is set after the callbacks, and a block is set to nil after its
   call. A callback that waits for its own transaction runs the remaining
   callbacks and the transaction's completion block a second time
   (`AsyncTransactionReenter`).
3. "This case isn't currently supported as setInterfaceState: isn't exposed
   externally, and all internal use cases are range-managed. When a node is visible,
   don't mess with display - CA will start it" (`ASDisplayNode.mm:3588-3589`): nodes
   without range controller do get here, from entering and leaving the hierarchy
   (3302, 3334), and Core Animation does not always start it. A node whose redisplay was in flight when it left the
   hierarchy, and that is back before the run loop turns, has contents, is not
   marked, and keeps the old ones (`AsyncDisplayReenter`).

4. "If the cache UUID changed, that means this request was cancelled"
   (`ASNetworkImageNode.mm:701`): the cancel returns before it clears the UUID
   when there is no download identifier, which is so for the whole time a lookup
   is under way. The answer for the old URL is taken, shown, and keeps the new
   one from loading (`NetworkImageNodeStale`).

A comment that is false without consequence: "at this point we can guarantee
that `_pendingMap` equals to `_visibleMap`" (`ASDataController.mm:523`). The wait
for the editing group does not run the blocks that deploy; but the block that
the comment justifies is put behind them (`ScheduledSeesAll`).

## Hazards

`PROJECT.json` lists what this code is exposed to, each at the line where it
bites, with the properties that would notice. Those without a property
have a note that says why: contracts of the client (an asynchronous operation
that is never completed, an index path that is submitted twice), starvation that needs an unbounded stream of work (low
priorities, once the worker that ignores priorities has ended), a drain that is
announced to nobody because the objects a batch could take were deallocated, and
those of components that are external or not modelled (the basic downloader,
batch fetching, supplementary elements). Some have properties and a note that says
what these except: a block that runs while the delegate is told in advance, a range
update that is overtaken, a transaction that a client cancels, and the checks of
deletes, reloads and inserts of what does not exist, which no client of `ChangeSet`
reaches.

## Not modelled

* Drawing, TextKit, map and scroll views, UIKit delegation of the table and
  collection views, view controllers, video, debugging overlays, logging,
  examples: there is no state of the library's own in them that several actors
  share, or it cannot be separated from the frameworks they call.
* Layout specs are arithmetic of floating-point sizes inside one call; layout and
  its transitions measure subclasses' specs under the node's lock.
* Node tree, loading and pending state: most of it is what UIKit's views and
  layers hold, and what is the library's own is an assignment per property.
* The multiplex image node: its cancelation has the shape of the network image
  node's, which is modelled. The basic downloader shares a context between
  callers; it is external here, and a hazard.
* Batch fetching: arithmetic of scroll offsets, and a context of one state under a
  lock.
* Of the data controller: layout delegates, supplementary elements,
  `relayoutNodes:`. Of the range controller: what a layout controller chooses.
  Of the run-loop queue: `ASDeallocQueue`.
* `ASThread.h` is modelled where its locks are held. Memory management appears
  only where it is behaviour: the deletion of groups, the deallocation of
  transactions, the weak items of a run-loop queue.

Nearly all definitions are mapped to `.mm` and `.m` files, where the library's
implementation is; its headers declare interfaces, and only what a property
quotes is mapped there.

## What could come next

Layout transitions (`ASDisplayNode.mm`: a transition is overtaken by the next,
like a display, with identifiers in place of the sentinel), the multiplex image
node, supplementary elements of the element map, batch fetching together with the
range controller.
