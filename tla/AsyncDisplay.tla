---------------------------- MODULE AsyncDisplay ----------------------------
(***************************************************************************)
(* Asynchronous display of one node: the display sentinel and the          *)
(* suspension of _ASDisplayLayer.mm and ASDisplayNode+AsyncDisplay.mm, and *)
(* what drives them in ASDisplayNode.mm: interface state, entering and     *)
(* leaving the hierarchy, the render queue, clearing of contents.          *)
(*                                                                         *)
(* The main thread runs one handler per step.  A display that was started  *)
(* is an operation of a transaction: its block runs on the display queue,  *)
(* its completion later on the main thread.  The order between displays is *)
(* left open, they may belong to different transactions (AsyncTransaction  *)
(* has the order inside one), all of the one container layer the node has, *)
(* whose transactions a client may cancel.                                 *)
(***************************************************************************)
EXTENDS Integers, FiniteSets

CONSTANTS
  MaxVersion,    \* bound: changes of what the node draws
  MaxEvents      \* bound: other events (interface state, hierarchy, bounds)

ASSUME DisplayAssumption == MaxVersion \in Nat \ {0} /\ MaxEvents \in Nat

Nil == 0         \* no contents, no image

VARIABLES
  rangeManaged,     \* a range controller manages the node (never changes)
  version,          \* what the node would draw now
  contents,         \* layer.contents: the version drawn, or Nil
  needsDisplay,     \* Core Animation's flag on the layer
  sentinel,         \* _displaySentinel
  displaySuspended, \* the flag of the node, copied to its layer
  inHierarchy,      \* _flags.isInHierarchy
  interface,        \* _interfaceState, its Display and Visible bits
  emptyBounds,      \* the layer has an empty bounds rectangle
  attempted,        \* _attemptedDisplayWhileZeroSized
  ops,              \* displays in flight: sentinel captured, parameters, image
  canceledUpTo,     \* displays up to this sentinel have a canceled transaction
  renderQueued,     \* the node is in the render queue
  clears,           \* clearContents blocks on the main queue
  exitChecks,       \* blocks of didExitHierarchy on the main queue
  selfPending,      \* the node is in its own _pendingDisplayNodes
  superPending,     \* the node is in its supernode's _pendingDisplayNodes
  placeholder,      \* _placeholderLayer is shown
  events            \* events so far

layerVars ==
  <<contents, needsDisplay, sentinel, emptyBounds, attempted, ops, canceledUpTo>>
pendingVars == <<selfPending, superPending, placeholder>>
stateVars == <<rangeManaged, version, displaySuspended, inHierarchy, interface>>
queueVars == <<renderQueued, clears, exitChecks>>
vars == <<layerVars, pendingVars, stateVars, queueVars, events>>

Image == Nil .. MaxVersion
Op == [sentinel : Nat, draws : 1 .. MaxVersion, ran : BOOLEAN, image : Image]
InterfaceStates == {{}, {"display"}, {"display", "visible"}}

TypeOK ==
  /\ rangeManaged \in BOOLEAN
  /\ version \in 1 .. MaxVersion
  /\ contents \in Image
  /\ needsDisplay \in BOOLEAN
  /\ sentinel \in Nat
  /\ displaySuspended \in BOOLEAN
  /\ inHierarchy \in BOOLEAN
  /\ interface \in InterfaceStates
  /\ emptyBounds \in BOOLEAN
  /\ attempted \in BOOLEAN
  /\ ops \subseteq Op
  /\ canceledUpTo \in Nat
  /\ renderQueued \in BOOLEAN
  /\ clears \in 0 .. MaxEvents
  /\ exitChecks \in 0 .. MaxEvents
  /\ selfPending \in BOOLEAN
  /\ superPending \in BOOLEAN
  /\ placeholder \in BOOLEAN
  /\ events \in 0 .. MaxEvents

\* The view was just loaded; Core Animation may have marked it already.
Init ==
  /\ rangeManaged \in BOOLEAN
  /\ version = 1
  /\ contents = Nil
  /\ needsDisplay \in BOOLEAN
  /\ sentinel = 0
  /\ displaySuspended = FALSE
  /\ inHierarchy = FALSE
  /\ interface = {}
  /\ emptyBounds \in BOOLEAN
  /\ attempted = FALSE
  /\ ops = {}
  /\ canceledUpTo = 0
  /\ renderQueued = FALSE
  /\ clears = 0
  /\ exitChecks = 0
  /\ selfPending = FALSE
  /\ superPending = FALSE
  /\ placeholder = FALSE
  /\ events = 0

-----------------------------------------------------------------------------
(* The layer.                                                              *)

\* -cancelAsyncDisplay, cancelDisplayAsyncLayer:
cancelAsyncDisplay == sentinel' = sentinel + 1

\* Mutant: a display in flight is not canceled.
layerSetNeedsDisplayKeeping(suspended) ==
  UNCHANGED sentinel /\ needsDisplay' = (needsDisplay \/ ~suspended)

\* -[_ASDisplayLayer setNeedsDisplay]
layerSetNeedsDisplay(suspended) ==
  /\ cancelAsyncDisplay
  /\ needsDisplay' = (needsDisplay \/ ~suspended)

\* Mutant: suspending does not cancel.
setDisplaySuspendedKeeping(flag) ==
  IF displaySuspended = flag
  THEN UNCHANGED <<displaySuspended, sentinel, needsDisplay, superPending>>
  ELSE /\ displaySuspended' = flag
       /\ IF flag THEN UNCHANGED <<sentinel, needsDisplay>> ELSE layerSetNeedsDisplay(FALSE)
       /\ superPending' = ~flag

\* Mutant: resuming does not display.
setDisplaySuspendedSilently(flag) ==
  IF displaySuspended = flag
  THEN UNCHANGED <<displaySuspended, sentinel, needsDisplay, superPending>>
  ELSE /\ displaySuspended' = flag
       /\ cancelAsyncDisplay /\ UNCHANGED needsDisplay
       /\ superPending' = ~flag

\* -setDisplaySuspended: of the node, and of the layer, when the flag changes;
\* resuming displays, suspending cancels, and the supernode is told.
setDisplaySuspended(flag) ==
  IF displaySuspended = flag
  THEN UNCHANGED <<displaySuspended, sentinel, needsDisplay, superPending>>
  ELSE /\ displaySuspended' = flag
       /\ IF flag
          THEN cancelAsyncDisplay /\ UNCHANGED needsDisplay
          ELSE layerSetNeedsDisplay(FALSE)
       /\ superPending' = ~flag

\* -displayAsyncLayer:asynchronously:YES.  An earlier display is canceled also
\* when there is nothing to draw into; willDisplay is told otherwise.
displayAsyncLayer ==
  /\ sentinel' = sentinel + 1
  /\ IF emptyBounds
     THEN UNCHANGED <<ops, selfPending, superPending>>
     ELSE /\ ops' = ops \cup {[sentinel |-> sentinel + 1, draws |-> version,
                               ran |-> FALSE, image |-> Nil]}
          /\ selfPending' = TRUE
          /\ superPending' = TRUE

\* -[_ASDisplayLayer display]: reset the flag; nothing while suspended.
display ==
  /\ needsDisplay' = FALSE
  /\ IF displaySuspended
     THEN UNCHANGED <<sentinel, ops, attempted, selfPending, superPending>>
     ELSE displayAsyncLayer /\ attempted' = (attempted \/ emptyBounds)

\* didDisplayAsyncLayer: the node no longer waits for itself, and with nothing
\* else to wait for its placeholder goes.
didDisplay ==
  /\ selfPending' = FALSE
  /\ superPending' = FALSE
  /\ placeholder' = FALSE

-----------------------------------------------------------------------------
(* Display operations.                                                     *)

\* CHECK_CANCELLED_AND_RETURN_NIL: the sentinel moved on since the start.
isCancelled(o) == o.sentinel # sentinel

\* The argument of the completion block: the transaction's state is Canceled.
canceled(o) == o.sentinel <= canceledUpTo

Applies(o) == ~canceled(o) /\ ~isCancelled(o)

\* The block runs on the display queue, unless its transaction is canceled.
\* Overtaken before the last of its tests it returns nil, else the image of the
\* parameters captured at the start.
RunDisplayBlock(o) ==
  /\ ~o.ran
  /\ ops' = (ops \ {o}) \cup
              {[o EXCEPT !.ran = TRUE, !.image = IF Applies(o) THEN o.draws ELSE Nil]}
  /\ UNCHANGED <<contents, needsDisplay, sentinel, emptyBounds, attempted,
                 canceledUpTo, pendingVars, stateVars, queueVars, events>>

\* Mutant: the completion does not look at the sentinel.
CompleteDisplayAlways(o) ==
  /\ o.ran
  /\ ops' = ops \ {o}
  /\ contents' = o.image /\ didDisplay
  /\ UNCHANGED <<needsDisplay, sentinel, emptyBounds, attempted, canceledUpTo,
                 stateVars, queueVars, events>>

\* The completion block of the operation, on the main thread: nothing is applied
\* and nobody told if the transaction was canceled or the display overtaken.
CompleteDisplay(o) ==
  /\ o.ran
  /\ ops' = ops \ {o}
  /\ IF Applies(o)
     THEN contents' = o.image /\ didDisplay
     ELSE UNCHANGED <<contents, pendingVars>>
  /\ UNCHANGED <<needsDisplay, sentinel, emptyBounds, attempted, canceledUpTo,
                 stateVars, queueVars, events>>

\* Core Animation displays a marked layer of a window.
CoreAnimationDisplays ==
  /\ inHierarchy /\ needsDisplay
  /\ display
  /\ UNCHANGED <<contents, emptyBounds, canceledUpTo, placeholder, stateVars,
                 queueVars, events>>

\* The render queue: _recursivelyTriggerDisplayAndBlock:NO, [layer displayIfNeeded].
RenderQueueDisplays ==
  /\ renderQueued
  /\ renderQueued' = FALSE
  /\ IF needsDisplay
     THEN display
     ELSE UNCHANGED <<needsDisplay, sentinel, ops, attempted, selfPending, superPending>>
  /\ UNCHANGED <<contents, emptyBounds, canceledUpTo, placeholder, stateVars, clears,
                 exitChecks, events>>

-----------------------------------------------------------------------------
(* Interface state and hierarchy.                                          *)

\* -setInterfaceState:.  Leaving the display state schedules clearContents; a
\* node that no range controller manages is left to Core Animation while it is
\* visible.
setInterfaceState(new, queued) ==
  LET now  == "display" \in new
      was  == "display" \in interface
      hide == ~rangeManaged /\ now # was /\ "visible" \notin new
  IN  /\ interface' = new
      /\ clears' = IF was /\ ~now /\ (rangeManaged \/ hide) THEN clears + 1 ELSE clears
      /\ renderQueued' = (queued \/ (hide /\ now))
      /\ IF rangeManaged /\ now # was
         THEN setDisplaySuspended(~now)
         ELSE /\ IF hide /\ ~now THEN cancelAsyncDisplay ELSE UNCHANGED sentinel
              /\ UNCHANGED <<displaySuspended, needsDisplay, superPending>>

Event == events < MaxEvents /\ events' = events + 1

\* A range controller: recursivelySetInterfaceState:, which schedules a display
\* when the node comes into the display range.
RangeSetsInterfaceState(new) ==
  /\ Event
  /\ rangeManaged
  /\ interface # new
  /\ setInterfaceState(new, renderQueued \/ ("display" \in new /\ "display" \notin interface))
  /\ UNCHANGED <<contents, emptyBounds, attempted, ops, canceledUpTo, selfPending,
                 placeholder, rangeManaged, version, inHierarchy, exitChecks>>

\* Mutant: entering without contents shows the placeholder but marks nothing.
EnterHierarchyUnmarked ==
  /\ Event
  /\ ~inHierarchy
  /\ inHierarchy' = TRUE
  /\ interface' = IF rangeManaged THEN interface ELSE {"display", "visible"}
  /\ placeholder' = (placeholder \/ contents = Nil)
  /\ UNCHANGED <<layerVars, selfPending, superPending, rangeManaged, version,
                 displaySuspended, queueVars>>

\* __enterHierarchy, willEnterHierarchy: without contents, mark the layer and
\* show the placeholder.
EnterHierarchy ==
  /\ Event
  /\ ~inHierarchy
  /\ inHierarchy' = TRUE
  /\ interface' = IF rangeManaged THEN interface ELSE {"display", "visible"}
  /\ IF contents = Nil
     THEN layerSetNeedsDisplay(displaySuspended) /\ placeholder' = TRUE
     ELSE UNCHANGED <<sentinel, needsDisplay, placeholder>>
  /\ UNCHANGED <<contents, emptyBounds, attempted, ops, canceledUpTo, selfPending,
                 superPending, rangeManaged, version, displaySuspended, queueVars>>

\* __exitHierarchy, didExitHierarchy: cancel; then the interface state is None,
\* or, managed, loses Visible if the node is still out a turn later.
ExitHierarchy ==
  /\ Event
  /\ inHierarchy
  /\ inHierarchy' = FALSE
  /\ cancelAsyncDisplay
  /\ interface' = IF rangeManaged THEN interface ELSE {}
  /\ clears' = IF ~rangeManaged /\ "display" \in interface THEN clears + 1 ELSE clears
  /\ exitChecks' = IF rangeManaged /\ "visible" \in interface
                   THEN exitChecks + 1 ELSE exitChecks
  /\ UNCHANGED <<contents, needsDisplay, emptyBounds, attempted, ops, canceledUpTo,
                 pendingVars, rangeManaged, version, displaySuspended, renderQueued>>

\* Mutant: the block of didExitHierarchy clears the wrong bit.
CheckExitDisplay ==
  /\ exitChecks > 0
  /\ exitChecks' = exitChecks - 1
  /\ interface' = IF inHierarchy THEN interface ELSE interface \ {"display"}
  /\ UNCHANGED <<layerVars, pendingVars, rangeManaged, version, displaySuspended,
                 inHierarchy, renderQueued, clears, events>>

CheckExit ==
  /\ exitChecks > 0
  /\ exitChecks' = exitChecks - 1
  /\ interface' = IF inHierarchy THEN interface ELSE interface \ {"visible"}
  /\ UNCHANGED <<layerVars, pendingVars, rangeManaged, version, displaySuspended,
                 inHierarchy, renderQueued, clears, events>>

\* The scheduled block: clearContents unless the node is back in display state.
ClearContents ==
  /\ clears > 0
  /\ clears' = clears - 1
  /\ contents' = IF "display" \in interface THEN contents ELSE Nil
  /\ UNCHANGED <<needsDisplay, sentinel, emptyBounds, attempted, ops, canceledUpTo,
                 pendingVars, stateVars, renderQueued, exitChecks, events>>

-----------------------------------------------------------------------------
(* The client.                                                             *)

\* What the node draws changes: -setNeedsDisplay, __setNeedsDisplay.
SetNeedsDisplay ==
  /\ version < MaxVersion
  /\ version' = version + 1
  /\ layerSetNeedsDisplay(displaySuspended)
  /\ renderQueued' = (renderQueued \/ "display" \in interface)
  /\ UNCHANGED <<contents, emptyBounds, attempted, ops, canceledUpTo, pendingVars,
                 rangeManaged, displaySuspended, inHierarchy, interface, clears, exitChecks, events>>

\* -displayImmediately: no flag, no sentinel, no suspension.
DisplayImmediately ==
  /\ Event
  /\ IF emptyBounds
     THEN attempted' = TRUE /\ UNCHANGED <<contents, pendingVars>>
     ELSE contents' = version /\ didDisplay /\ UNCHANGED attempted
  /\ UNCHANGED <<needsDisplay, sentinel, emptyBounds, ops, canceledUpTo, stateVars,
                 queueVars>>

\* -[_ASDisplayLayer setBounds:]
SetBounds ==
  /\ Event
  /\ emptyBounds' = ~emptyBounds
  /\ IF attempted /\ emptyBounds
     THEN attempted' = FALSE /\ layerSetNeedsDisplay(displaySuspended)
     ELSE UNCHANGED <<attempted, sentinel, needsDisplay>>
  /\ UNCHANGED <<contents, ops, canceledUpTo, pendingVars, stateVars, queueVars>>

\* -asyncdisplaykit_cancelAsyncTransactions of the container: what is in flight will
\* not be applied, and nothing starts it again.
CancelTransactions ==
  /\ Event
  /\ \E last \in ops :
       /\ ~canceled(last) /\ \A o \in ops : o.sentinel <= last.sentinel
       /\ canceledUpTo' = last.sentinel
  /\ UNCHANGED <<contents, needsDisplay, sentinel, emptyBounds, attempted, ops,
                 pendingVars, stateVars, queueVars>>

-----------------------------------------------------------------------------
Next ==
  \/ \E o \in ops : RunDisplayBlock(o) \/ CompleteDisplay(o)
  \/ CoreAnimationDisplays
  \/ RenderQueueDisplays
  \/ CheckExit
  \/ ClearContents
  \/ \E new \in InterfaceStates : RangeSetsInterfaceState(new)
  \/ EnterHierarchy
  \/ ExitHierarchy
  \/ SetNeedsDisplay
  \/ DisplayImmediately
  \/ SetBounds
  \/ CancelTransactions

Spec == Init /\ [][Next]_vars

\* Blocks run and complete, Core Animation commits, the queues are served.
Fairness ==
  /\ WF_vars(\E o \in ops : RunDisplayBlock(o))
  /\ WF_vars(\E o \in ops : CompleteDisplay(o))
  /\ WF_vars(CoreAnimationDisplays)
  /\ WF_vars(RenderQueueDisplays)
  /\ WF_vars(CheckExit)
  /\ WF_vars(ClearContents)

FairSpec == Spec /\ Fairness

-----------------------------------------------------------------------------
(* Properties.                                                             *)

\* At most one display in flight can still be applied, and it draws what the
\* node draws now: every change overtakes the displays started before it, and one
\* that returned nil on the way, overtaken or canceled, is never applied.
OnlyLatestApplies ==
  \A o \in ops : Applies(o) =>
    /\ o.draws = version
    /\ o.ran => o.image = version
    /\ \A p \in ops : Applies(p) => p = o

\* Contents are never replaced by older ones, whatever order the displays
\* finish in; they only become nil by a clearContents that finds the node out of
\* the display state still.
NeverOlder ==
  [][/\ contents' < contents => contents' = Nil
     /\ contents' # contents /\ contents' = Nil =>
          clears' < clears /\ "display" \notin interface]_vars

\* "cancel any current async display so that we don't have contents set on us
\* when it's finished": while display is suspended nothing in flight applies,
\* and the supernode does not wait for the node.
SuspendedIsQuiet ==
  displaySuspended => ~superPending /\ \A o \in ops : isCancelled(o)

Settled == inHierarchy /\ "display" \in interface /\ ~emptyBounds

\* The display started last is one whose transaction was canceled.
Dropped == sentinel # 0 /\ canceledUpTo = sentinel

\* A range-managed node that once in the hierarchy stays there, and ends up in
\* the display state with a size, ends up showing what it draws, without its
\* placeholder and with nobody waiting; unless a client cancels the transaction of
\* its last display, of which the node learns nothing (326).
DisplayCatchesUp ==
  <>[]Settled /\ rangeManaged /\ [](inHierarchy => []inHierarchy) =>
    \/ <>[](contents = version /\ ~placeholder /\ ~selfPending /\ ~superPending)
    \/ <>[]Dropped

\* The first contents of a node that ends up there appear and replace its
\* placeholder, however often it left the hierarchy before, with the same exception.
FirstContentsAppear ==
  <>[]Settled => <>[](contents # Nil /\ ~placeholder) \/ <>[]Dropped

\* "When a node is visible, don't mess with display - CA will start it."
\* (setInterfaceState:): a node that stays visible shows what it draws, unless the
\* display that would have was canceled.
CAWillStartIt == <>[]Settled => <>[](contents = version) \/ <>[]Dropped
=============================================================================
