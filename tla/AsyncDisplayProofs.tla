------------------------- MODULE AsyncDisplayProofs -------------------------
(***************************************************************************)
(* Safety of AsyncDisplay for every number of changes and events: the      *)
(* types, and that a display which was overtaken is never applied.         *)
(*                                                                         *)
(* The argument is about the sentinel: it never goes back, so the displays *)
(* in flight have captured values of the past, all different, and only one *)
(* that captured the present value still draws what the node draws now.    *)
(***************************************************************************)
EXTENDS AsyncDisplay, TLAPS

-----------------------------------------------------------------------------
(* The inductive invariant, in the parts the provers handle apart.         *)

NumbersOK ==
  /\ version \in 1 .. MaxVersion
  /\ contents \in 0 .. MaxVersion
  /\ sentinel \in Nat
  /\ canceledUpTo \in Nat
  /\ clears \in 0 .. MaxEvents
  /\ exitChecks \in 0 .. MaxEvents
  /\ events \in 0 .. MaxEvents

FlagsOK ==
  /\ rangeManaged \in BOOLEAN
  /\ needsDisplay \in BOOLEAN
  /\ displaySuspended \in BOOLEAN
  /\ inHierarchy \in BOOLEAN
  /\ emptyBounds \in BOOLEAN
  /\ attempted \in BOOLEAN
  /\ renderQueued \in BOOLEAN
  /\ selfPending \in BOOLEAN
  /\ superPending \in BOOLEAN
  /\ placeholder \in BOOLEAN

InterfaceOK == interface \in InterfaceStates

\* Every scheduled block was scheduled by an event of its own.
BlocksFromEvents == clears + exitChecks <= events

ContentsFromPast == contents <= version

\* The supernode of a suspended node does not wait for it.
NotAwaited == displaySuspended => ~superPending

\* A display in flight captured the sentinel at some earlier moment, and no
\* two captured the same value.
CapturedApart ==
  /\ \A o \in ops : o.sentinel <= sentinel
  /\ \A o, p \in ops : o.sentinel = p.sentinel => o = p

\* A display that is not overtaken draws the present version; its block, if it
\* has run, has drawn it, unless the transaction is canceled.
CurrentDraws ==
  \A o \in ops : ~isCancelled(o) =>
    o.draws = version /\ (o.ran /\ ~canceled(o) => o.image = version)

\* What the invariant says of the displays in flight.
OpsInv ==
  /\ ops \subseteq Op
  /\ CapturedApart
  /\ CurrentDraws
  /\ displaySuspended => \A o \in ops : isCancelled(o)

IInv ==
  /\ NumbersOK
  /\ FlagsOK
  /\ InterfaceOK
  /\ BlocksFromEvents
  /\ ContentsFromPast
  /\ NotAwaited
  /\ OpsInv

\* The invariant has the properties of the runs: two displays that are not
\* canceled captured the same sentinel and are one.
LEMMA IInvImplies == IInv => TypeOK /\ OnlyLatestApplies /\ SuspendedIsQuiet
<1> SUFFICES ASSUME IInv PROVE TypeOK /\ OnlyLatestApplies /\ SuspendedIsQuiet
  OBVIOUS
<1>1. TypeOK
  BY DEF IInv, NumbersOK, FlagsOK, InterfaceOK, OpsInv, TypeOK, Image, Nil
<1>2. OnlyLatestApplies
  BY DEF IInv, OpsInv, CapturedApart, CurrentDraws, OnlyLatestApplies, Applies, isCancelled
<1>3. SuspendedIsQuiet
  BY DEF IInv, OpsInv, NotAwaited, SuspendedIsQuiet
<1> QED
  BY <1>1, <1>2, <1>3

\* The initial states satisfy the invariant: nothing is in flight.
LEMMA InitIInv == Init => IInv
<1> SUFFICES ASSUME Init PROVE IInv
  OBVIOUS
<1>1. NumbersOK /\ BlocksFromEvents /\ ContentsFromPast
  BY DisplayAssumption DEF Init, NumbersOK, BlocksFromEvents, ContentsFromPast, Nil
<1>2. FlagsOK
  BY DEF Init, FlagsOK
<1>3. InterfaceOK
  BY DEF Init, InterfaceOK, InterfaceStates
<1>4. NotAwaited /\ OpsInv
  BY DEF Init, NotAwaited, OpsInv, CapturedApart, CurrentDraws
<1> QED
  BY <1>1, <1>2, <1>3, <1>4 DEF IInv

-----------------------------------------------------------------------------
(* The displays in flight and the sentinel.                                *)

\* -cancelAsyncDisplay cancels every display in flight, so the node may then
\* change what it draws, or be suspended.
LEMMA BumpCancels ==
  ASSUME OpsInv, sentinel \in Nat, sentinel' = sentinel + 1, ops' = ops,
         UNCHANGED canceledUpTo
  PROVE  OpsInv'
<1>1. \A o \in ops : o.sentinel \in Nat /\ o.sentinel <= sentinel
  BY DEF OpsInv, CapturedApart, Op
<1>2. \A o \in ops' : o.sentinel # sentinel'
  BY <1>1
<1>3. CapturedApart'
  BY <1>1 DEF OpsInv, CapturedApart
<1> QED
  BY <1>2, <1>3 DEF OpsInv, CurrentDraws, isCancelled, canceled, Op

\* A step that at most drops displays, and changes neither the sentinel nor
\* what is drawn nor the suspension, keeps the facts about the others.
LEMMA DropKeeps ==
  ASSUME OpsInv, ops' \subseteq ops,
         UNCHANGED <<sentinel, version, displaySuspended, canceledUpTo>>
  PROVE  OpsInv'
  BY DEF OpsInv, CapturedApart, CurrentDraws, isCancelled, canceled, Op

\* The block of a display draws what the display captured, if it still applies.
LEMMA RunKeeps ==
  ASSUME OpsInv, NumbersOK, NEW o \in ops, RunDisplayBlock(o)
  PROVE  OpsInv'
<1> DEFINE r == [o EXCEPT !.ran = TRUE,
                          !.image = IF Applies(o) THEN o.draws ELSE Nil]
<1>1. ops' = (ops \ {o}) \cup {r} /\ UNCHANGED <<sentinel, version, displaySuspended, canceledUpTo>>
  BY DEF RunDisplayBlock, stateVars
<1>2. o \in Op
  BY DEF OpsInv
<1>3. /\ r.sentinel = o.sentinel /\ r.draws = o.draws
      /\ r.image = IF Applies(o) THEN o.draws ELSE Nil
      /\ r \in Op
  <2> DEFINE drawn == IF Applies(o) THEN o.draws ELSE Nil
  <2>1. drawn \in Image
    BY <1>2, DisplayAssumption DEF Op, Image, Nil
  <2> HIDE DEF drawn
  <2>2. [o EXCEPT !.ran = TRUE, !.image = drawn] \in Op
    BY <1>2, <2>1 DEF Op
  <2>3. LET x == [o EXCEPT !.ran = TRUE, !.image = drawn]
        IN  x.sentinel = o.sentinel /\ x.draws = o.draws /\ x.image = drawn
    BY <1>2 DEF Op
  <2> QED
    BY <2>2, <2>3 DEF drawn
<1> HIDE DEF r
<1>4. ops' \subseteq Op
  BY <1>1, <1>3 DEF OpsInv
<1>5. CapturedApart'
  BY <1>1, <1>3 DEF OpsInv, CapturedApart
<1>6. CurrentDraws' /\ (displaySuspended' => \A p \in ops' : isCancelled(p)')
  BY <1>1, <1>3 DEF OpsInv, CurrentDraws, Applies, isCancelled, canceled
<1> QED
  BY <1>4, <1>5, <1>6 DEF OpsInv, Op

\* A display that starts captures a value of the sentinel that is new.
LEMMA DisplayKeeps ==
  ASSUME OpsInv, NumbersOK, display, UNCHANGED <<version, displaySuspended, canceledUpTo>>
  PROVE  OpsInv'
<1>1. CASE displaySuspended
  BY <1>1, DropKeeps DEF display
<1>2. CASE ~displaySuspended /\ emptyBounds
  BY <1>2, BumpCancels DEF display, displayAsyncLayer, NumbersOK
<1>3. CASE ~displaySuspended /\ ~emptyBounds
  <2> DEFINE n == [sentinel |-> sentinel + 1, draws |-> version,
                   ran |-> FALSE, image |-> Nil]
  <2>1. ops' = ops \cup {n} /\ sentinel' = sentinel + 1 /\ ~displaySuspended'
    BY <1>3 DEF display, displayAsyncLayer
  <2>2. n \in Op /\ n.sentinel = sentinel + 1 /\ n.draws = version /\ n.ran = FALSE
    <3>1. /\ sentinel + 1 \in Nat /\ version \in 1 .. MaxVersion
          /\ Nil \in Image /\ FALSE \in BOOLEAN
      BY DisplayAssumption DEF NumbersOK, Image, Nil
    <3> QED
      BY <3>1, Zenon DEF Op
  <2> HIDE DEF n
  <2>3. \A o \in ops : o.sentinel \in Nat /\ o.sentinel <= sentinel
    BY DEF OpsInv, CapturedApart, Op
  <2>4. CapturedApart'
    BY <2>1, <2>2, <2>3 DEF OpsInv, CapturedApart, NumbersOK
  <2>5. CurrentDraws'
    BY <2>1, <2>2, <2>3 DEF OpsInv, CurrentDraws, isCancelled, canceled, NumbersOK
  <2> QED
    BY <2>1, <2>2, <2>4, <2>5 DEF OpsInv, Op
<1> QED
  BY <1>1, <1>2, <1>3

-----------------------------------------------------------------------------
(* Every action keeps the invariant.                                       *)

\* The block on the display queue: the display keeps the value it captured.
LEMMA RunDisplayBlockKeeps ==
  ASSUME IInv, NEW o \in ops, RunDisplayBlock(o)
  PROVE  IInv'
<1> USE DEF RunDisplayBlock, layerVars, pendingVars, stateVars, queueVars
<1>1. NumbersOK'
  BY DisplayAssumption DEF IInv, NumbersOK, BlocksFromEvents, OpsInv, Op, Image, Nil
<1>2. FlagsOK'
  BY DEF IInv, FlagsOK
<1>3. InterfaceOK'
  BY DEF IInv, InterfaceOK, InterfaceStates
<1>4. BlocksFromEvents'
  BY DEF IInv, NumbersOK, BlocksFromEvents
<1>5. ContentsFromPast'
  BY DEF IInv, NumbersOK, ContentsFromPast, OpsInv, CurrentDraws, Applies, isCancelled, Nil
<1>6. NotAwaited'
  BY DEF IInv, NotAwaited
<1>7. OpsInv'
  BY RunKeeps DEF IInv, NumbersOK
<1> QED
  BY <1>1, <1>2, <1>3, <1>4, <1>5, <1>6, <1>7 DEF IInv

\* A completion: what it applies is the present version.
LEMMA CompleteDisplayKeeps ==
  ASSUME IInv, NEW o \in ops, CompleteDisplay(o)
  PROVE  IInv'
<1> USE DEF CompleteDisplay, didDisplay, layerVars, pendingVars, stateVars, queueVars
<1>1. NumbersOK'
  BY DisplayAssumption DEF IInv, NumbersOK, BlocksFromEvents, OpsInv, Op, Image, Nil
<1>2. FlagsOK'
  BY DEF IInv, FlagsOK
<1>3. InterfaceOK'
  BY DEF IInv, InterfaceOK, InterfaceStates
<1>4. BlocksFromEvents'
  BY DEF IInv, NumbersOK, BlocksFromEvents
<1>5. ContentsFromPast'
  BY DEF IInv, NumbersOK, ContentsFromPast, OpsInv, CurrentDraws, Applies, isCancelled, Nil
<1>6. NotAwaited'
  BY DEF IInv, NotAwaited
<1>7. OpsInv'
  BY DropKeeps DEF IInv, NumbersOK
<1> QED
  BY <1>1, <1>2, <1>3, <1>4, <1>5, <1>6, <1>7 DEF IInv

\* Core Animation displays the layer.
LEMMA CoreAnimationDisplaysKeeps ==
  ASSUME IInv, CoreAnimationDisplays
  PROVE  IInv'
<1> USE DEF CoreAnimationDisplays, display, displayAsyncLayer, layerVars, pendingVars, stateVars, queueVars
<1>1. NumbersOK'
  BY DisplayAssumption DEF IInv, NumbersOK, BlocksFromEvents, OpsInv, Op, Image, Nil
<1>2. FlagsOK'
  BY DEF IInv, FlagsOK
<1>3. InterfaceOK'
  BY DEF IInv, InterfaceOK, InterfaceStates
<1>4. BlocksFromEvents'
  BY DEF IInv, NumbersOK, BlocksFromEvents
<1>5. ContentsFromPast'
  BY DEF IInv, NumbersOK, ContentsFromPast, OpsInv, CurrentDraws, Applies, isCancelled, Nil
<1>6. NotAwaited'
  BY DEF IInv, NotAwaited
<1>7. OpsInv'
  BY DisplayKeeps DEF IInv, NumbersOK
<1> QED
  BY <1>1, <1>2, <1>3, <1>4, <1>5, <1>6, <1>7 DEF IInv

\* The render queue displays the layer, or finds nothing to do.
LEMMA RenderQueueDisplaysKeeps ==
  ASSUME IInv, RenderQueueDisplays
  PROVE  IInv'
<1> USE DEF RenderQueueDisplays, display, displayAsyncLayer, layerVars, pendingVars, stateVars, queueVars
<1>1. NumbersOK'
  BY DisplayAssumption DEF IInv, NumbersOK, BlocksFromEvents, OpsInv, Op, Image, Nil
<1>2. FlagsOK'
  BY DEF IInv, FlagsOK
<1>3. InterfaceOK'
  BY DEF IInv, InterfaceOK, InterfaceStates
<1>4. BlocksFromEvents'
  BY DEF IInv, NumbersOK, BlocksFromEvents
<1>5. ContentsFromPast'
  BY DEF IInv, NumbersOK, ContentsFromPast, OpsInv, CurrentDraws, Applies, isCancelled, Nil
<1>6. NotAwaited'
  BY DEF IInv, NotAwaited
<1>7. OpsInv'
  BY DisplayKeeps, DropKeeps DEF IInv, NumbersOK
<1> QED
  BY <1>1, <1>2, <1>3, <1>4, <1>5, <1>6, <1>7 DEF IInv

\* A range controller suspends or resumes the node, which cancels first.
LEMMA RangeSetsInterfaceStateKeeps ==
  ASSUME IInv, NEW new \in InterfaceStates, RangeSetsInterfaceState(new)
  PROVE  IInv'
<1> USE DEF RangeSetsInterfaceState, setInterfaceState, setDisplaySuspended, layerSetNeedsDisplay, cancelAsyncDisplay, Event, layerVars, pendingVars, stateVars, queueVars
<1>1. NumbersOK'
  BY DisplayAssumption DEF IInv, NumbersOK, BlocksFromEvents, OpsInv, Op, Image, Nil
<1>2. FlagsOK'
  BY DEF IInv, FlagsOK
<1>3. InterfaceOK'
  BY DEF IInv, InterfaceOK, InterfaceStates
<1>4. BlocksFromEvents'
  BY DEF IInv, NumbersOK, BlocksFromEvents
<1>5. ContentsFromPast'
  BY DEF IInv, NumbersOK, ContentsFromPast, OpsInv, CurrentDraws, Applies, isCancelled, Nil
<1>6. NotAwaited'
  BY DEF IInv, NotAwaited
<1>7. OpsInv'
  BY BumpCancels, DropKeeps DEF IInv, NumbersOK
<1> QED
  BY <1>1, <1>2, <1>3, <1>4, <1>5, <1>6, <1>7 DEF IInv

\* Entering without contents cancels and marks the layer.
LEMMA EnterHierarchyKeeps ==
  ASSUME IInv, EnterHierarchy
  PROVE  IInv'
<1> USE DEF EnterHierarchy, layerSetNeedsDisplay, cancelAsyncDisplay, Event, layerVars, pendingVars, stateVars, queueVars
<1>1. NumbersOK'
  BY DisplayAssumption DEF IInv, NumbersOK, BlocksFromEvents, OpsInv, Op, Image, Nil
<1>2. FlagsOK'
  BY DEF IInv, FlagsOK
<1>3. InterfaceOK'
  BY DEF IInv, InterfaceOK, InterfaceStates
<1>4. BlocksFromEvents'
  BY DEF IInv, NumbersOK, BlocksFromEvents
<1>5. ContentsFromPast'
  BY DEF IInv, NumbersOK, ContentsFromPast, OpsInv, CurrentDraws, Applies, isCancelled, Nil
<1>6. NotAwaited'
  BY DEF IInv, NotAwaited
<1>7. OpsInv'
  BY BumpCancels, DropKeeps DEF IInv, NumbersOK
<1> QED
  BY <1>1, <1>2, <1>3, <1>4, <1>5, <1>6, <1>7 DEF IInv

\* Leaving cancels, and schedules one block.
LEMMA ExitHierarchyKeeps ==
  ASSUME IInv, ExitHierarchy
  PROVE  IInv'
<1> USE DEF ExitHierarchy, cancelAsyncDisplay, Event, layerVars, pendingVars, stateVars, queueVars
<1>1. NumbersOK'
  BY DisplayAssumption DEF IInv, NumbersOK, BlocksFromEvents, OpsInv, Op, Image, Nil
<1>2. FlagsOK'
  BY DEF IInv, FlagsOK
<1>3. InterfaceOK'
  BY DEF IInv, InterfaceOK, InterfaceStates
<1>4. BlocksFromEvents'
  BY DEF IInv, NumbersOK, BlocksFromEvents
<1>5. ContentsFromPast'
  BY DEF IInv, NumbersOK, ContentsFromPast, OpsInv, CurrentDraws, Applies, isCancelled, Nil
<1>6. NotAwaited'
  BY DEF IInv, NotAwaited
<1>7. OpsInv'
  BY BumpCancels DEF IInv, NumbersOK
<1> QED
  BY <1>1, <1>2, <1>3, <1>4, <1>5, <1>6, <1>7 DEF IInv

\* The block of didExitHierarchy leaves the displays alone.
LEMMA CheckExitKeeps ==
  ASSUME IInv, CheckExit
  PROVE  IInv'
<1> USE DEF CheckExit, layerVars, pendingVars, stateVars, queueVars
<1>1. NumbersOK'
  BY DisplayAssumption DEF IInv, NumbersOK, BlocksFromEvents, OpsInv, Op, Image, Nil
<1>2. FlagsOK'
  BY DEF IInv, FlagsOK
<1>3. InterfaceOK'
  BY DEF IInv, InterfaceOK, InterfaceStates
<1>4. BlocksFromEvents'
  BY DEF IInv, NumbersOK, BlocksFromEvents
<1>5. ContentsFromPast'
  BY DEF IInv, NumbersOK, ContentsFromPast, OpsInv, CurrentDraws, Applies, isCancelled, Nil
<1>6. NotAwaited'
  BY DEF IInv, NotAwaited
<1>7. OpsInv'
  BY DropKeeps DEF IInv, NumbersOK
<1> QED
  BY <1>1, <1>2, <1>3, <1>4, <1>5, <1>6, <1>7 DEF IInv

\* So does clearContents.
LEMMA ClearContentsKeeps ==
  ASSUME IInv, ClearContents
  PROVE  IInv'
<1> USE DEF ClearContents, layerVars, pendingVars, stateVars, queueVars
<1>1. NumbersOK'
  BY DisplayAssumption DEF IInv, NumbersOK, BlocksFromEvents, OpsInv, Op, Image, Nil
<1>2. FlagsOK'
  BY DEF IInv, FlagsOK
<1>3. InterfaceOK'
  BY DEF IInv, InterfaceOK, InterfaceStates
<1>4. BlocksFromEvents'
  BY DEF IInv, NumbersOK, BlocksFromEvents
<1>5. ContentsFromPast'
  BY DEF IInv, NumbersOK, ContentsFromPast, OpsInv, CurrentDraws, Applies, isCancelled, Nil
<1>6. NotAwaited'
  BY DEF IInv, NotAwaited
<1>7. OpsInv'
  BY DropKeeps DEF IInv, NumbersOK
<1> QED
  BY <1>1, <1>2, <1>3, <1>4, <1>5, <1>6, <1>7 DEF IInv

\* A change cancels the displays of the earlier version.
LEMMA SetNeedsDisplayKeeps ==
  ASSUME IInv, SetNeedsDisplay
  PROVE  IInv'
<1> USE DEF SetNeedsDisplay, layerSetNeedsDisplay, cancelAsyncDisplay, layerVars, pendingVars, stateVars, queueVars
<1>1. NumbersOK'
  BY DisplayAssumption DEF IInv, NumbersOK, BlocksFromEvents, OpsInv, Op, Image, Nil
<1>2. FlagsOK'
  BY DEF IInv, FlagsOK
<1>3. InterfaceOK'
  BY DEF IInv, InterfaceOK, InterfaceStates
<1>4. BlocksFromEvents'
  BY DEF IInv, NumbersOK, BlocksFromEvents
<1>5. ContentsFromPast'
  BY DEF IInv, NumbersOK, ContentsFromPast, OpsInv, CurrentDraws, Applies, isCancelled, Nil
<1>6. NotAwaited'
  BY DEF IInv, NotAwaited
<1>7. OpsInv'
  BY BumpCancels DEF IInv, NumbersOK
<1> QED
  BY <1>1, <1>2, <1>3, <1>4, <1>5, <1>6, <1>7 DEF IInv

\* displayImmediately shows the present version.
LEMMA DisplayImmediatelyKeeps ==
  ASSUME IInv, DisplayImmediately
  PROVE  IInv'
<1> USE DEF DisplayImmediately, didDisplay, Event, layerVars, pendingVars, stateVars, queueVars
<1>1. NumbersOK'
  BY DisplayAssumption DEF IInv, NumbersOK, BlocksFromEvents, OpsInv, Op, Image, Nil
<1>2. FlagsOK'
  BY DEF IInv, FlagsOK
<1>3. InterfaceOK'
  BY DEF IInv, InterfaceOK, InterfaceStates
<1>4. BlocksFromEvents'
  BY DEF IInv, NumbersOK, BlocksFromEvents
<1>5. ContentsFromPast'
  BY DEF IInv, NumbersOK, ContentsFromPast, OpsInv, CurrentDraws, Applies, isCancelled, Nil
<1>6. NotAwaited'
  BY DEF IInv, NotAwaited
<1>7. OpsInv'
  BY DropKeeps DEF IInv, NumbersOK
<1> QED
  BY <1>1, <1>2, <1>3, <1>4, <1>5, <1>6, <1>7 DEF IInv

\* A size that arrives late cancels and marks the layer.
LEMMA SetBoundsKeeps ==
  ASSUME IInv, SetBounds
  PROVE  IInv'
<1> USE DEF SetBounds, layerSetNeedsDisplay, cancelAsyncDisplay, Event, layerVars, pendingVars, stateVars, queueVars
<1>1. NumbersOK'
  BY DisplayAssumption DEF IInv, NumbersOK, BlocksFromEvents, OpsInv, Op, Image, Nil
<1>2. FlagsOK'
  BY DEF IInv, FlagsOK
<1>3. InterfaceOK'
  BY DEF IInv, InterfaceOK, InterfaceStates
<1>4. BlocksFromEvents'
  BY DEF IInv, NumbersOK, BlocksFromEvents
<1>5. ContentsFromPast'
  BY DEF IInv, NumbersOK, ContentsFromPast, OpsInv, CurrentDraws, Applies, isCancelled, Nil
<1>6. NotAwaited'
  BY DEF IInv, NotAwaited
<1>7. OpsInv'
  BY BumpCancels, DropKeeps DEF IInv, NumbersOK
<1> QED
  BY <1>1, <1>2, <1>3, <1>4, <1>5, <1>6, <1>7 DEF IInv

\* A client cancels the transactions: fewer displays apply.
LEMMA CancelTransactionsKeeps ==
  ASSUME IInv, CancelTransactions
  PROVE  IInv'
<1> USE DEF CancelTransactions, Event, layerVars, pendingVars, stateVars, queueVars
<1>1. canceledUpTo' \in Nat /\ canceledUpTo < canceledUpTo'
  BY DEF IInv, NumbersOK, OpsInv, Op, canceled
<1>2. NumbersOK' /\ BlocksFromEvents' /\ ContentsFromPast'
  BY <1>1, DisplayAssumption DEF IInv, NumbersOK, BlocksFromEvents, ContentsFromPast
<1>3. FlagsOK' /\ InterfaceOK' /\ NotAwaited'
  BY DEF IInv, FlagsOK, InterfaceOK, InterfaceStates, NotAwaited
<1>4. CurrentDraws'
  <2>1. \A o \in ops : o.sentinel \in Nat
    BY DEF IInv, OpsInv, Op
  <2>2. \A o \in ops : ~canceled(o)' => ~canceled(o)
    BY <1>1, <2>1 DEF IInv, NumbersOK, canceled
  <2> QED
    BY <2>2 DEF IInv, OpsInv, CurrentDraws, isCancelled
<1>5. OpsInv'
  BY <1>4 DEF IInv, OpsInv, CapturedApart, isCancelled, Op
<1> QED
  BY <1>2, <1>3, <1>5 DEF IInv

\* A step of the rest of the program.
LEMMA StutterKeeps == IInv /\ UNCHANGED vars => IInv'
<1> SUFFICES ASSUME IInv, UNCHANGED vars PROVE IInv'
  OBVIOUS
<1> USE DEF vars, layerVars, pendingVars, stateVars, queueVars
<1>1. NumbersOK' /\ BlocksFromEvents' /\ ContentsFromPast'
  BY DEF IInv, NumbersOK, BlocksFromEvents, ContentsFromPast
<1>2. FlagsOK' /\ InterfaceOK' /\ NotAwaited'
  BY DEF IInv, FlagsOK, InterfaceOK, InterfaceStates, NotAwaited
<1>3. OpsInv'
  BY DropKeeps DEF IInv
<1> QED
  BY <1>1, <1>2, <1>3 DEF IInv

\* The invariant is inductive.
LEMMA NextKeeps == IInv /\ [Next]_vars => IInv'
<1> SUFFICES ASSUME IInv, [Next]_vars PROVE IInv'
  OBVIOUS
<1>1. ASSUME NEW o \in ops, RunDisplayBlock(o) PROVE IInv'
  BY <1>1, RunDisplayBlockKeeps
<1>2. ASSUME NEW o \in ops, CompleteDisplay(o) PROVE IInv'
  BY <1>2, CompleteDisplayKeeps
<1>3. ASSUME NEW new \in InterfaceStates, RangeSetsInterfaceState(new) PROVE IInv'
  BY <1>3, RangeSetsInterfaceStateKeeps
<1>4. CASE CoreAnimationDisplays
  BY <1>4, CoreAnimationDisplaysKeeps
<1>5. CASE RenderQueueDisplays
  BY <1>5, RenderQueueDisplaysKeeps
<1>6. CASE CheckExit
  BY <1>6, CheckExitKeeps
<1>7. CASE ClearContents
  BY <1>7, ClearContentsKeeps
<1>8. CASE EnterHierarchy
  BY <1>8, EnterHierarchyKeeps
<1>9. CASE ExitHierarchy
  BY <1>9, ExitHierarchyKeeps
<1>10. CASE SetNeedsDisplay
  BY <1>10, SetNeedsDisplayKeeps
<1>11. CASE DisplayImmediately
  BY <1>11, DisplayImmediatelyKeeps
<1>12. CASE SetBounds
  BY <1>12, SetBoundsKeeps
<1>13. CASE CancelTransactions
  BY <1>13, CancelTransactionsKeeps
<1>14. CASE UNCHANGED vars
  BY <1>14, StutterKeeps
<1> QED
  BY <1>1, <1>2, <1>3, <1>4, <1>5, <1>6, <1>7, <1>8, <1>9, <1>10, <1>11, <1>12, <1>13, <1>14 DEF Next

-----------------------------------------------------------------------------
(* The theorems.                                                           *)

\* The invariant holds in every reachable state.
THEOREM Invariance == Spec => []IInv
  BY InitIInv, NextKeeps, PTL DEF Spec

\* Every variable stays in its type (the variables of one node as the handlers
\* of ASDisplayNode.mm and _ASDisplayLayer.mm change them).
THEOREM TypeCorrect == Spec => []TypeOK
  BY Invariance, IInvImplies, PTL

\* Of the displays in flight at most one can still be applied, and it draws
\* what the node draws now: the sentinel captured by displayAsyncLayer: cancels
\* whatever was overtaken, for every number of changes and displays.
THEOREM LatestApplies == Spec => []OnlyLatestApplies
  BY Invariance, IInvImplies, PTL

\* While display is suspended nothing in flight will be applied and the
\* supernode does not wait for the node (setDisplaySuspended:).
THEOREM SuspensionIsQuiet == Spec => []SuspendedIsQuiet
  BY Invariance, IInvImplies, PTL

\* One step replaces contents by newer ones only, or clears them by a block of
\* clearContents that finds the node out of the display state.
LEMMA StepNeverOlder ==
  ASSUME IInv, [Next]_vars
  PROVE  /\ contents' < contents => contents' = Nil
         /\ contents' # contents /\ contents' = Nil =>
              clears' < clears /\ "display" \notin interface
<1>1. CASE contents' = contents
  BY <1>1 DEF IInv, NumbersOK
<1>2. CASE \E o \in ops : CompleteDisplay(o)
  BY <1>2 DEF CompleteDisplay, IInv, NumbersOK, ContentsFromPast, OpsInv,
              CurrentDraws, Applies, Nil
<1>3. CASE DisplayImmediately
  BY <1>3 DEF DisplayImmediately, IInv, NumbersOK, ContentsFromPast, Nil
<1>4. CASE ClearContents
  BY <1>4 DEF ClearContents, IInv, NumbersOK, Nil
<1>5. ASSUME [Next]_vars
      PROVE  \/ contents' = contents
             \/ \E o \in ops : CompleteDisplay(o)
             \/ DisplayImmediately
             \/ ClearContents
  BY <1>5 DEF Next, vars, layerVars, RunDisplayBlock, CoreAnimationDisplays,
      RenderQueueDisplays, CheckExit, RangeSetsInterfaceState, EnterHierarchy,
      ExitHierarchy, SetNeedsDisplay, SetBounds, CancelTransactions
<1> QED
  BY <1>1, <1>2, <1>3, <1>4, <1>5

\* Contents are never replaced by older ones, in whatever order the displays run
\* and complete: the completion block tests the sentinel again.  Only a
\* clearContents that finds the node still out of the display state clears them.
THEOREM ContentsNeverOlder == Spec => NeverOlder
<1>1. IInv /\ [Next]_vars =>
        [/\ contents' < contents => contents' = Nil
         /\ contents' # contents /\ contents' = Nil =>
              clears' < clears /\ "display" \notin interface]_vars
  BY StepNeverOlder
<1> QED
  BY <1>1, Invariance, PTL DEF Spec, NeverOlder
=============================================================================
