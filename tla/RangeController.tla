-------------------------- MODULE RangeController --------------------------
(***************************************************************************)
(* ASRangeController.mm: which cell nodes are in the visible, display and  *)
(* preload ranges.  The controller remembers what it did by index path,    *)
(* while the map under the index paths changes, and remembers the visible  *)
(* nodes themselves.                                                       *)
(*                                                                         *)
(* It changes nodes one by one, and each of them calls its hooks, where    *)
(* clients may do anything, another update of the ranges included: what    *)
(* the loops keep in local variables is a pass, and passes form a stack.   *)
(* The layout controller's choice of the ranges is left open; display and  *)
(* preload range are one, "near".  All nodes are allocated.                *)
(***************************************************************************)
EXTENDS Integers, Sequences

CONSTANT Nodes   \* the nodes of all elements

VARIABLES
  interface,     \* _interfaceState of the nodes
  visibleNodes,  \* _visibleNodes
  previousPaths, \* _allPreviousIndexPaths
  rangeIsValid,  \* _rangeIsValid
  passes,        \* the loops over nodes, innermost first
  overtaken      \* history: a pass began, or a map was deployed, within a pass

rangeVars == <<interface, visibleNodes, previousPaths, rangeIsValid, passes, overtaken>>

States == {"none", "near", "visible"}

\* In the loop over index paths: the states nodes are still to get.
Visiting(todo, new) == [phase |-> "visit", todo |-> todo, new |-> new]

\* In -_setVisibleNodes:, which is all of a pass, or ends a whole one.
Exiting(left, new, whole) == [phase |-> "exit", left |-> left, new |-> new, whole |-> whole]

Pass ==
  [phase : {"visit"}, todo : [Nodes -> States \cup {"done"}], new : SUBSET Nodes]
    \cup [phase : {"exit"}, left : SUBSET Nodes, new : SUBSET Nodes, whole : BOOLEAN]

RangeTypeOK ==
  /\ interface \in [Nodes -> States]
  /\ visibleNodes \subseteq Nodes
  /\ previousPaths \subseteq Nat
  /\ rangeIsValid \in BOOLEAN
  /\ passes \in Seq(Pass)
  /\ overtaken \in BOOLEAN

RangeInit ==
  /\ interface = [n \in Nodes |-> "none"]
  /\ visibleNodes = {}
  /\ previousPaths = {}
  /\ rangeIsValid = TRUE
  /\ passes = << >>
  /\ overtaken = FALSE

-----------------------------------------------------------------------------
Begin(pass) ==
  /\ passes' = <<pass>> \o passes
  /\ overtaken' = (overtaken \/ passes # << >>)

In(phase) == passes # << >> /\ passes[1].phase = phase

Continue(pass) ==
  /\ passes' = <<pass>> \o Tail(passes)
  /\ UNCHANGED overtaken

\* With no visible element, a header or footer neither, an update only empties
\* _visibleNodes; so does -dataController:willUpdateWithChangeSet: for a reload.
SetNoneVisible ==
  /\ Begin(Exiting(visibleNodes, {}, FALSE))
  /\ UNCHANGED <<interface, visibleNodes, previousPaths, rangeIsValid>>

\* Index paths of the last update may be past the end of the map.
VisitedPaths(map, current) ==
  (current \cup previousPaths \cup (IF rangeIsValid THEN {} ELSE DOMAIN map)) \cap DOMAIN map

\* -_updateVisibleNodeIndexPaths up to its loop: target is what the ranges, and
\* whether the container is on screen, make of each index path of the map.
UpdateVisibleNodes(map, target) ==
  LET current == {p \in DOMAIN map : target[p] # "none"}
      visited == VisitedPaths(map, current)
  IN  /\ Begin(Visiting([n \in Nodes |->
                           IF \E p \in visited : map[p] = n
                           THEN target[CHOOSE p \in visited : map[p] = n] ELSE "done"], {}))
      /\ previousPaths' = current
      /\ UNCHANGED <<interface, visibleNodes, rangeIsValid>>

\* The loop: visible nodes first, then those near, then the others.
First(todo, n) ==
  \A m \in Nodes :
    \/ todo[m] = "done" \/ todo[n] = "visible"
    \/ todo[m] # "visible" /\ (todo[n] = "near" \/ todo[m] = "none")

Visit(n) ==
  LET todo == passes[1].todo
  IN  /\ In("visit") /\ todo[n] # "done" /\ First(todo, n)
      /\ interface' = [interface EXCEPT ![n] = todo[n]]
      /\ Continue(Visiting([todo EXCEPT ![n] = "done"],
                           passes[1].new \cup (IF todo[n] = "visible" THEN {n} ELSE {})))
      /\ UNCHANGED <<visibleNodes, previousPaths, rangeIsValid>>

VisitsEnd ==
  /\ In("visit") /\ \A n \in Nodes : passes[1].todo[n] = "done"
  /\ Continue(Exiting(visibleNodes \ passes[1].new, passes[1].new, TRUE))
  /\ UNCHANGED <<interface, visibleNodes, previousPaths, rangeIsValid>>

\* -_setVisibleNodes: nodes that are no longer visible exit the visible state.
ExitVisible(n) ==
  /\ In("exit") /\ n \in passes[1].left
  /\ interface' = [interface EXCEPT ![n] = IF @ = "visible" THEN "near" ELSE @]
  /\ Continue(Exiting(passes[1].left \ {n}, passes[1].new, passes[1].whole))
  /\ UNCHANGED <<visibleNodes, previousPaths, rangeIsValid>>

SetVisibleNodes ==
  /\ In("exit") /\ passes[1].left = {}
  /\ visibleNodes' = passes[1].new
  /\ rangeIsValid' = (rangeIsValid \/ passes[1].whole)
  /\ passes' = Tail(passes)
  /\ UNCHANGED <<interface, previousPaths, overtaken>>

\* Mutant: what was done for the old map is taken for the new one.
RangeDidUpdateValid ==
  /\ overtaken' = (overtaken \/ passes # << >>)
  /\ UNCHANGED <<interface, visibleNodes, previousPaths, rangeIsValid, passes>>

\* -dataController:didUpdateWithChangeSet:
RangeDidUpdate ==
  /\ rangeIsValid' = FALSE
  /\ overtaken' = (overtaken \/ passes # << >>)
  /\ UNCHANGED <<interface, visibleNodes, previousPaths, passes>>

\* -clearContents and -clearPreloadedData, together, of one node: the loop may go
\* on with the nodes of a map that is not the visible one any more.
ClearNode(n) ==
  /\ interface[n] = "near"
  /\ interface' = [interface EXCEPT ![n] = "none"]
  /\ UNCHANGED <<visibleNodes, previousPaths, rangeIsValid, passes, overtaken>>
=============================================================================
