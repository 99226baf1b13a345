----------------------------- MODULE Collection -----------------------------
(***************************************************************************)
(* A collection view's data controller together with its range controller, *)
(* which the data controller tells of its change sets, and which reads the *)
(* visible map whenever the view is laid out, is scrolled, or comes on and *)
(* off screen: between any two events, in the delegate's methods, and in   *)
(* the hooks of nodes that the range controller itself calls.              *)
(***************************************************************************)
EXTENDS DataController

VARIABLES interface, visibleNodes, previousPaths, rangeIsValid, passes, overtaken

Ranges == INSTANCE RangeController WITH Nodes <- Elements
rangeVars == <<interface, visibleNodes, previousPaths, rangeIsValid, passes, overtaken>>
vars == <<dcVars, rangeVars>>

TypeOK == DataTypeOK /\ Ranges!RangeTypeOK

Init == DataInit /\ Ranges!RangeInit

-----------------------------------------------------------------------------
\* The data controller alone.
DataStep == (Calls \/ MainSteps \/ PrepareNodes) /\ UNCHANGED rangeVars

\* -dataController:willUpdateWithChangeSet: and didUpdateWithChangeSet:
WillUpdate ==
  \E i \in DOMAIN blocks :
    /\ TellWillUpdate(i)
    /\ IF blocks[i].reload THEN Ranges!SetNoneVisible ELSE UNCHANGED rangeVars

DidUpdate == DeployAndTell /\ Ranges!RangeDidUpdate

\* -updateIfNeeded, for any visible items and ranges around them.
UpdateRanges ==
  /\ BeginRange
  /\ \/ Ranges!SetNoneVisible
     \/ \E target \in [DOMAIN maps[visible] -> Ranges!States] :
          Ranges!UpdateVisibleNodes(maps[visible], target)

\* A node whose state changes calls its hooks.
NodeStep ==
  /\ \E n \in Elements : Ranges!Visit(n) \/ Ranges!ExitVisible(n)
  /\ RangeGoesOn(IF interface' # interface THEN "hook" ELSE "range")

RangeStep ==
  \/ NodeStep
  \/ RangeGoesOn("range") /\ Ranges!VisitsEnd
  \/ EndRange /\ Ranges!SetVisibleNodes

ClearRanges ==
  /\ ClientRuns
  /\ \E n \in Elements : Ranges!ClearNode(n)
  /\ UNCHANGED dcVars

Next == DataStep \/ WillUpdate \/ DidUpdate \/ UpdateRanges \/ RangeStep \/ ClearRanges

Spec == Init /\ [][Next]_vars

\* The editing queue is served, and the main thread goes on with what it does.
MainGoesOn == (MainSteps /\ UNCHANGED rangeVars) \/ WillUpdate \/ DidUpdate \/ RangeStep

FairSpec ==
  /\ Spec
  /\ WF_vars(MainGoesOn)
  /\ WF_vars(PrepareNodes /\ UNCHANGED rangeVars)

-----------------------------------------------------------------------------
(* Properties.                                                             *)

\* No node stays in a range unnoticed: a visible node is one of _visibleNodes, or
\* about to be, and while the ranges count as valid every node of the map that is
\* in one is still to be visited or is at an index path the next update visits,
\* however index paths were shifted meanwhile (294-303, 514).  It holds until a
\* hook called by an update deploys a map or begins another update, whose
\* _rangeIsValid and _visibleNodes the outer one overwrites when it ends (373, 394).
RangesTracked ==
  overtaken
    \/ /\ \A n \in Elements :
            interface[n] = "visible" =>
              n \in visibleNodes \/ \E i \in DOMAIN passes : n \in passes[i].new
       /\ rangeIsValid =>
            \A p \in DOMAIN maps[visible] :
              interface[maps[visible][p]] # "none" =>
                \/ p \in previousPaths
                \/ Ranges!In("visit") /\ passes[1].todo[maps[visible][p]] # "done"

\* Every call returns, and all that was submitted is deployed in the end, unless a
\* delegate ran blocks before the map it was told of was deployed.
Settles ==
  []<>(stack = << >> /\ blocks = << >> /\ (interrupted \/ visible = Newest))
=============================================================================
