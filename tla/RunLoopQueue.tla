---------------------------- MODULE RunLoopQueue ----------------------------
(***************************************************************************)
(* ASRunLoopQueue.mm: items are enqueued from any thread and handed to a   *)
(* consumer in batches whenever the run loop is about to sleep.  The queue *)
(* retains its items or holds them weakly, in which case they vanish from  *)
(* it when they are deallocated; it may have no consumer and then only     *)
(* retains its items until the run loop turns.                             *)
(*                                                                         *)
(* With a consumer it is the render queue of ASDisplayNode.mm: with the    *)
(* last item of a queue that was drained the consumer posts a notification *)
(* that carries the time, and ASRangeController.mm waits for it when it    *)
(* has scheduled nodes and is about to change its range mode.              *)
(***************************************************************************)
EXTENDS Integers, Sequences

CONSTANTS
  Items,         \* the objects
  Nil,           \* a pointer of the queue whose object is gone
  BatchSizes,    \* batchSize
  MaxEnqueues    \* bound: calls of enqueue:

ASSUME RunLoopQueueAssumption ==
  /\ Nil \notin Items
  /\ BatchSizes \subseteq Nat \ {0} /\ MaxEnqueues \in Nat

VARIABLES
  setup,         \* how the queue was created
  live,          \* objects not deallocated
  queue,         \* _internalQueue
  loop,          \* the run loop: asleep, awake or serving (in processQueue)
  wakeUp,        \* the run loop's source is signaled and the run loop woken
  batch,         \* itemsToProcess
  consumed,      \* how many of them the consumer has got
  drained,       \* isQueueDrained
  registered,    \* _didRegisterForNodeDisplayNotifications of the range controller
  pendingTime,   \* its _pendingDisplayNodesTimestamp
  clock,         \* CACurrentMediaTime, which passes with every use on the main thread
  owed,          \* history: nodes it has scheduled that were not displayed since
  late,          \* history: those scheduled while a batch is served
  enqueues       \* calls of enqueue: so far

queueVars == <<queue, wakeUp>>
servingVars == <<batch, consumed, drained>>
controllerVars == <<registered, pendingTime, clock, owed, late>>
vars == <<setup, live, loop, queueVars, servingVars, controllerVars, enqueues>>

Setups == [retainsObjects : BOOLEAN, hasConsumer : BOOLEAN,
           ensureExclusiveMembership : BOOLEAN, batchSize : BatchSizes]

Init ==
  /\ setup \in Setups
  /\ live = Items
  /\ queue = << >>
  /\ loop = "asleep" /\ wakeUp = FALSE
  /\ batch = << >> /\ consumed = 0 /\ drained = FALSE
  /\ registered = FALSE /\ pendingTime = 0 /\ clock = 0
  /\ owed = {} /\ late = {}
  /\ enqueues = 0

Occurs(item, items) == \E i \in DOMAIN items : items[i] = item
SmallerOf(m, n) == IF m < n THEN m ELSE n

-----------------------------------------------------------------------------
(* Any thread.                                                             *)

\* -enqueue: holds the lock.
enqueue(item) ==
  /\ item \in live /\ enqueues < MaxEnqueues
  /\ enqueues' = enqueues + 1
  /\ IF setup.ensureExclusiveMembership /\ Occurs(item, queue)
     THEN UNCHANGED queueVars
     ELSE queue' = Append(queue, item) /\ wakeUp' = TRUE

Enqueue(item) ==
  /\ enqueue(item)
  /\ UNCHANGED <<setup, live, loop, servingVars, controllerVars>>

\* An object is deallocated: nobody retains it, neither a batch nor a queue that
\* retains its objects; weak pointers to it become nil.
Deallocate(item) ==
  /\ item \in live
  /\ ~Occurs(item, batch)
  /\ setup.retainsObjects => ~Occurs(item, queue)
  /\ live' = live \ {item}
  /\ queue' = [i \in DOMAIN queue |-> IF queue[i] = item THEN Nil ELSE queue[i]]
  /\ owed' = owed \ {item}
  /\ UNCHANGED <<setup, loop, wakeUp, servingVars, registered, pendingTime, clock,
                 late, enqueues>>

-----------------------------------------------------------------------------
(* The range controller.                                                   *)

\* -registerForNodeDisplayNotificationsForInterfaceStateIfNeeded:, with the outcome of
\* its comparison of range modes.
registerIfNeeded(modeChanges) == registered' = (registered \/ modeChanges)

\* On the main thread, also inside the consumer of an item, which runs client
\* code, a range update schedules a node for display; it registers if the range mode
\* is about to change, and keeps the time while it is registered.
ScheduleNode(item, modeChanges) ==
  /\ setup.hasConsumer
  /\ loop = "awake" \/ (loop = "serving" /\ consumed < Len(batch))
  /\ enqueue(item)
  /\ registerIfNeeded(modeChanges)
  /\ pendingTime' = IF registered' THEN clock ELSE pendingTime
  /\ clock' = clock + 1
  /\ owed' = owed \cup {item}
  /\ late' = IF loop = "serving" THEN late \cup {item} ELSE late
  /\ UNCHANGED <<setup, live, loop, servingVars>>

\* -scheduledNodesDidDisplay:
scheduledNodesDidDisplay(timestamp) ==
  registered' = (registered /\ ~(pendingTime < timestamp))

-----------------------------------------------------------------------------
(* The run loop and -processQueue.                                         *)

Wake ==
  /\ loop = "asleep" /\ wakeUp
  /\ loop' = "awake" /\ wakeUp' = FALSE
  /\ UNCHANGED <<setup, live, queue, servingVars, controllerVars, enqueues>>

\* The run loop also turns for other sources.
WakeForOthers ==
  /\ loop = "asleep"
  /\ loop' = "awake"
  /\ UNCHANGED <<setup, live, queueVars, servingVars, controllerVars, enqueues>>

\* Before it sleeps, the run loop calls -processQueue.
FindNothing ==
  /\ loop = "awake" /\ queue = << >>
  /\ loop' = "asleep"
  /\ UNCHANGED <<setup, live, queueVars, servingVars, controllerVars, enqueues>>

\* Mutant: every batch counts as the last one.
IsDrainedAlways(left, taken) == TRUE

\* Mutant: drained only when the batch could have been larger.
IsDrainedIfShort(left, taken) == left = << >> /\ Len(taken) < setup.batchSize

IsDrained(left, taken) == left = << >>

\* Under the lock: the first items that are not nil, up to batchSize, are taken
\* and the queue is compacted.
TakeBatch ==
  /\ loop = "awake" /\ queue # << >>
  /\ LET found == SelectSeq(queue, LAMBDA item : item # Nil)
         size == SmallerOf(setup.batchSize, Len(found))
         taken == SubSeq(found, 1, size)
     IN  /\ batch' = IF setup.hasConsumer THEN taken ELSE << >>
         /\ queue' = SubSeq(found, size + 1, Len(found))
         /\ drained' = IsDrained(queue', taken)
  /\ loop' = "serving"
  /\ UNCHANGED <<setup, live, wakeUp, consumed, controllerVars, enqueues>>

\* The consumer, without the lock: it displays the item, and is told with the last
\* one that the queue was drained, of which it notifies the range controller.
Consume ==
  /\ loop = "serving" /\ consumed < Len(batch)
  /\ consumed' = consumed + 1
  /\ clock' = clock + 1
  /\ owed' = owed \ {batch[consumed']}
  /\ IF drained /\ consumed' = Len(batch)
     THEN scheduledNodesDidDisplay(clock)
     ELSE UNCHANGED registered
  /\ UNCHANGED <<setup, live, queueVars, loop, batch, drained, pendingTime, late,
                 enqueues>>

\* The batch is released, and unless the queue is drained the run loop is woken
\* for the rest.
BatchIsOver ==
  /\ loop = "serving" /\ consumed = Len(batch)
  /\ loop' = "asleep" /\ batch' = << >> /\ consumed' = 0
  /\ late' = {}
  /\ UNCHANGED <<setup, live, queue, drained, registered, pendingTime, clock, owed,
                 enqueues>>

\* Mutant: the run loop is not woken.
EndBatchSilently == BatchIsOver /\ UNCHANGED wakeUp

EndBatch == BatchIsOver /\ wakeUp' = (wakeUp \/ ~drained)

RunLoop == Wake \/ FindNothing \/ TakeBatch \/ Consume \/ EndBatch

Next ==
  \/ \E item \in Items : Enqueue(item) \/ Deallocate(item)
  \/ \E item \in Items, modeChanges \in BOOLEAN : ScheduleNode(item, modeChanges)
  \/ RunLoop \/ WakeForOthers

Spec == Init /\ [][Next]_vars

\* A run loop that is woken turns, and its observer runs.
FairSpec == Spec /\ WF_vars(RunLoop)

-----------------------------------------------------------------------------
(* Properties.                                                             *)

\* No wake-up is lost: an item leaves the queue although the run loop wakes up
\* for nothing but the queue, and takes only a batch at a time (328-330, 298-301).
ItemsAreServed ==
  \A item \in Items : Occurs(item, queue) ~> ~Occurs(item, queue) /\ ~Occurs(item, batch)

\* "The rendering engine has processed all the nodes this range controller
\* scheduled" (ASRangeController.mm:439): the wait ends with a notification after
\* all of them were displayed, whatever others enqueue while the batch is served;
\* except those that a range update inside the consumer schedules, after the flag
\* was computed and before the time of the notification is read.
WaitEndsWhenDisplayed ==
  [][registered /\ ~registered' => owed' \subseteq late]_vars

\* A range controller that has registered is notified in the end, unless a node was
\* deallocated while it was held weakly.
DrainIsAnnounced == registered ~> (~registered \/ (live # Items /\ ~setup.retainsObjects))
=============================================================================
