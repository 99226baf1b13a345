------------------------- MODULE RunLoopQueueProofs -------------------------
(***************************************************************************)
(* No wake-up of the run loop is lost, for any items, batch sizes and      *)
(* number of calls: what ItemsAreServed rests on, besides fairness.        *)
(***************************************************************************)
EXTENDS RunLoopQueue, TLAPS

\* While something is in the queue the run loop is going to turn: it is signaled,
\* it is awake, or it serves a batch after which it will be signaled.
WakeUpIsDue ==
  queue # << >> => wakeUp \/ loop = "awake" \/ (loop = "serving" /\ ~drained)

LEMMA EmptyStaysEmpty ==
  ASSUME NEW item, queue = << >>, Deallocate(item)
  PROVE  queue' = << >>
  BY DEF Deallocate

LEMMA WakeUpStep ==
  ASSUME WakeUpIsDue, [Next]_vars
  PROVE  WakeUpIsDue'
<1> USE DEF queueVars, servingVars, controllerVars
<1>1. ASSUME NEW item \in Items, Enqueue(item) PROVE WakeUpIsDue'
  BY <1>1 DEF WakeUpIsDue, Enqueue, enqueue
<1>2. ASSUME NEW item \in Items, Deallocate(item) PROVE WakeUpIsDue'
  BY <1>2, EmptyStaysEmpty DEF WakeUpIsDue, Deallocate
<1>3. CASE Wake
  BY <1>3 DEF WakeUpIsDue, Wake
<1>4. CASE WakeForOthers
  BY <1>4 DEF WakeUpIsDue, WakeForOthers
<1>5. CASE FindNothing
  BY <1>5 DEF WakeUpIsDue, FindNothing
<1>6. CASE TakeBatch
  BY <1>6 DEF WakeUpIsDue, TakeBatch, IsDrained
<1>7. CASE Consume
  BY <1>7 DEF WakeUpIsDue, Consume
<1>8. CASE EndBatch
  BY <1>8 DEF WakeUpIsDue, EndBatch, BatchIsOver
<1>9. ASSUME NEW item \in Items, NEW modeChanges \in BOOLEAN,
             ScheduleNode(item, modeChanges)
      PROVE  WakeUpIsDue'
  BY <1>9 DEF WakeUpIsDue, ScheduleNode, enqueue
<1>10. CASE UNCHANGED vars
  BY <1>10 DEF WakeUpIsDue, vars
<1> QED
  BY <1>1, <1>2, <1>3, <1>4, <1>5, <1>6, <1>7, <1>8, <1>9,
     <1>10 DEF Next, RunLoop

\* Items that are in the queue have the run loop's next turn to look forward to,
\* although the lock is given up while a batch is consumed and other threads
\* enqueue then (ASRunLoopQueue.mm:279-301, 328-330).
THEOREM NoWakeUpLost == Spec => []WakeUpIsDue
<1>1. Init => WakeUpIsDue
  BY DEF Init, WakeUpIsDue
<1>2. WakeUpIsDue /\ [Next]_vars => WakeUpIsDue'
  BY WakeUpStep
<1> QED
  BY <1>1, <1>2, PTL DEF Spec
=============================================================================
