--------------------------- MODULE DataController ---------------------------
(***************************************************************************)
(* ASDataController.mm and its ASMainSerialQueue.mm: change sets are       *)
(* applied to the newest map of elements on the main thread, the new nodes *)
(* are prepared on a serial editing queue, and blocks on the main serial   *)
(* queue deploy the maps, one after the other, as what UIKit shows.        *)
(*                                                                         *)
(* The main thread is a stack of frames: a block of the main serial queue  *)
(* may run inside another one, because -performBlockOnMainThread: drains   *)
(* the queue inline when it is called there, and clients call back from    *)
(* the delegate's methods and from the hooks of the nodes whose interface  *)
(* state the range controller changes.  One section of items is modelled,  *)
(* a map being the sequence of its elements, and what an element copies of *)
(* its environment, the trait collection, is a number.                     *)
(***************************************************************************)
EXTENDS Integers, Sequences

CONSTANTS
  MaxElements,   \* bound: elements created
  MaxCalls,      \* bound: calls of clients, and range updates
  MaxTraits      \* bound: changes of the environment

ASSUME DataAssumption ==
  MaxElements \in Nat \ {0} /\ MaxCalls \in Nat /\ MaxTraits \in Nat

VARIABLES
  initialReload, \* _initialReloadDataHasBeenCalled
  maps,          \* the maps computed so far; the last is _pendingMap
  visible,       \* the index of _visibleMap
  created,       \* elements created so far
  trait,         \* the environment's trait collection
  traits,        \* those of the elements
  told,          \* -environmentDidChange dispatched to the main queue
  editing,       \* _editingTransactionQueue and group: maps whose nodes are prepared
  blocks,        \* _blocks of the main serial queue
  drains,        \* -runBlocks dispatched to the main queue
  stack,         \* the main thread, innermost frame first
  calls,         \* calls of clients so far
  interrupted    \* history: a block ran between a delegate being told of a new
                 \* map in advance and the map's deployment

mapVars == <<initialReload, maps, created, editing>>
dataVars == <<mapVars, interrupted>>
traitVars == <<trait, traits, told>>
dcVars == <<dataVars, visible, traitVars, blocks, drains, stack, calls>>

Elements == 1 .. MaxElements
Map == Seq(Elements)
Changes == {"reload", "insert", "delete", "empty"}

\* number: of the map to deploy, and for the others that of _pendingMap at the
\* time of the call.
Block == [kind : {"deploy", "notify", "wait", "relayout", "environment"},
          number : Nat, reload : BOOLEAN]

\* update, schedule: waiting for the editing group, with what comes then.
\* drain: in the loop of -runBlocks.  will, did: in a block, in one of the
\* delegate's methods.  range: in the range controller's loop over nodes; hook:
\* in a node's hook, called from there.
Updating(change) == [pc |-> "update", change |-> change]
Scheduling(block) == [pc |-> "schedule", block |-> block]
Draining == [pc |-> "drain"]
Telling(pc, block) == [pc |-> pc, block |-> block]
Ranging(pc) == [pc |-> pc]

Frame ==
  {Updating(c) : c \in Changes} \cup [pc : {"drain", "range", "hook"}]
    \cup [pc : {"schedule", "will", "did"}, block : Block]

DataTypeOK ==
  /\ initialReload \in BOOLEAN
  /\ maps \in Seq(Map)
  /\ visible \in 1 .. Len(maps)
  /\ created \in 0 .. MaxElements
  /\ trait \in 0 .. MaxTraits /\ traits \in [Elements -> 0 .. MaxTraits]
  /\ told \in 0 .. MaxTraits
  /\ editing \in Seq(Block) /\ blocks \in Seq(Block)
  /\ \A b \in 1 .. Len(blocks) : blocks[b].number \in 1 .. Len(maps)
  /\ drains \in Nat
  /\ stack \in Seq(Frame)
  /\ calls \in 0 .. MaxCalls
  /\ interrupted \in BOOLEAN

DataInit ==
  /\ initialReload = FALSE
  /\ maps = << << >> >> /\ visible = 1
  /\ created = 0
  /\ trait = 0 /\ traits = [e \in Elements |-> 0] /\ told = 0
  /\ editing = << >> /\ blocks = << >> /\ drains = 0
  /\ stack = << >>
  /\ calls = 0 /\ interrupted = FALSE

-----------------------------------------------------------------------------
Pending == maps[Len(maps)]
Newest == Len(maps)
GroupEmpty == editing = << >>
Top == stack[1]
At(pc) == stack # << >> /\ Top.pc = pc
ReplaceTop(frame) == <<frame>> \o Tail(stack)

\* Where client code runs on the main thread: in an event of its own, in what
\* -didUpdateWithChangeSet: calls (completion handlers, cell nodes), in nodes'
\* hooks, and, told of edits in advance, in the layout facilitator.
ClientRuns ==
  \/ stack = << >> \/ At("did") \/ At("hook")
  \/ At("will") /\ Top.block.kind = "deploy" /\ ~Top.block.reload

\* A delegate has been told of a map that is not yet deployed.
Announces(frame) == frame.pc = "will" /\ frame.block.kind = "deploy"
Announced == \E i \in DOMAIN stack : Announces(stack[i])

Call(frame) ==
  /\ ClientRuns /\ calls < MaxCalls
  /\ calls' = calls + 1
  /\ stack' = <<frame>> \o stack

-----------------------------------------------------------------------------
(* The calls.                                                              *)

\* -updateWithChangeSet: up to its wait, for changes that fit the data source:
\* it has something to delete and, here, not more than MaxElements to insert.
Fits(change) ==
  CASE change = "delete" -> Pending # << >>
    [] change \in {"reload", "insert"} -> created < MaxElements
    [] change = "empty" -> TRUE

UpdateWithChangeSet(change) ==
  /\ Call(Updating(change))
  /\ Fits(change)
  /\ initialReload' = (initialReload \/ change = "reload")
  /\ UNCHANGED <<maps, created, editing, interrupted, visible, traitVars, blocks, drains>>

\* After the wait: nothing before the initial reload,
BailOut ==
  /\ At("update") /\ GroupEmpty /\ ~initialReload
  /\ stack' = Tail(stack)
  /\ UNCHANGED <<dataVars, visible, traitVars, blocks, drains, calls>>

\* a block that only tells the delegate,
UpdateEmpty ==
  /\ At("update") /\ GroupEmpty /\ initialReload /\ Top.change = "empty"
  /\ blocks' = Append(blocks, [kind |-> "notify", number |-> Newest, reload |-> FALSE])
  /\ stack' = ReplaceTop(Draining)
  /\ UNCHANGED <<dataVars, visible, traitVars, drains, calls>>

\* or a new map, with new elements that take the present traits.
NewMap(change, new) ==
  CASE change = "reload" -> <<new>>
    [] change = "insert" -> <<new>> \o Pending
    [] change = "delete" -> Tail(Pending)

\* Mutant: numbered one too far.
DeployingNext(number, change) == [kind |-> "deploy", number |-> number + 1, reload |-> change = "reload"]

Deploying(number, change) == [kind |-> "deploy", number |-> number, reload |-> change = "reload"]

UpdatePending ==
  /\ At("update") /\ GroupEmpty /\ initialReload /\ Top.change # "empty"
  /\ IF Top.change = "delete"
     THEN UNCHANGED <<created, traits>>
     ELSE /\ created' = created + 1
          /\ traits' = [traits EXCEPT ![created'] = trait]
  /\ maps' = Append(maps, NewMap(Top.change, created'))
  /\ editing' = Append(editing, Deploying(Len(maps'), Top.change))
  /\ stack' = Tail(stack)
  /\ UNCHANGED <<initialReload, interrupted, visible, trait, told, blocks, drains, calls>>

\* -_scheduleBlockOnMainSerialQueue:, called by -waitUntilAllUpdatesAreCommitted
\* and, after the initial reload, by -relayoutAllNodes
ScheduleBlock(kind) ==
  /\ kind = "relayout" => initialReload
  /\ Call(Scheduling([kind |-> kind, number |-> Newest, reload |-> FALSE]))
  /\ UNCHANGED <<dataVars, visible, traitVars, blocks, drains>>

\* -environmentDidChange, called when the environment has changed: on the main
\* thread,
EnvironmentBlock == [kind |-> "environment", number |-> Newest, reload |-> FALSE]

ChangeEnvironment ==
  /\ ClientRuns /\ trait < MaxTraits
  /\ trait' = trait + 1
  /\ stack' = IF initialReload THEN <<Scheduling(EnvironmentBlock)>> \o stack ELSE stack
  /\ UNCHANGED <<dataVars, visible, traits, told, blocks, drains, calls>>

\* or on another one, from where it is dispatched to the main queue.
ChangeEnvironmentOffMain ==
  /\ trait < MaxTraits
  /\ trait' = trait + 1
  /\ told' = told + 1
  /\ UNCHANGED <<dataVars, visible, traits, blocks, drains, stack, calls>>

RunEnvironmentDidChange ==
  /\ stack = << >> /\ told > 0
  /\ told' = told - 1
  /\ stack' = IF initialReload THEN <<Scheduling(EnvironmentBlock)>> ELSE << >>
  /\ UNCHANGED <<dataVars, visible, trait, traits, blocks, drains, calls>>

\* Mutant: without the wait for the editing group.
PerformScheduledAtOnce ==
  /\ At("schedule")
  /\ blocks' = Append(blocks, Top.block)
  /\ stack' = ReplaceTop(Draining)
  /\ UNCHANGED <<dataVars, visible, traitVars, drains, calls>>

\* After its wait: -performBlockOnMainThread:, which drains inline.
PerformScheduled ==
  /\ At("schedule") /\ GroupEmpty
  /\ blocks' = Append(blocks, Top.block)
  /\ stack' = ReplaceTop(Draining)
  /\ UNCHANGED <<dataVars, visible, traitVars, drains, calls>>

-----------------------------------------------------------------------------
(* The editing queue.                                                      *)

\* Mutant: the block is added but nobody sent to run it.
PrepareNodesSilently ==
  /\ editing # << >>
  /\ editing' = Tail(editing)
  /\ blocks' = Append(blocks, Head(editing))
  /\ UNCHANGED <<initialReload, maps, created, interrupted, visible, traitVars, drains, stack,
                 calls>>

\* Nodes are allocated and laid out, then the block that deploys the map is
\* added to the main serial queue, whose drain is dispatched to the main queue;
\* only then the editing group is left.
PrepareNodes ==
  /\ editing # << >>
  /\ editing' = Tail(editing)
  /\ blocks' = Append(blocks, Head(editing))
  /\ drains' = drains + 1
  /\ UNCHANGED <<initialReload, maps, created, interrupted, visible, traitVars, stack, calls>>

-----------------------------------------------------------------------------
(* The main serial queue.                                                  *)

RunDispatched ==
  /\ stack = << >> /\ drains > 0
  /\ drains' = drains - 1
  /\ stack' = <<Draining>>
  /\ UNCHANGED <<dataVars, visible, traitVars, blocks, calls>>

DrainEnds ==
  /\ At("drain") /\ blocks = << >>
  /\ stack' = Tail(stack)
  /\ UNCHANGED <<dataVars, visible, traitVars, blocks, drains, calls>>

\* Mutant: the block added last is taken.
TakeBlockLast(i) ==
  /\ At("drain") /\ i = Len(blocks)
  /\ blocks' = SubSeq(blocks, 1, i - 1)
  /\ interrupted' = (interrupted \/ Announced)

TakeBlock(i) ==
  /\ At("drain") /\ i = 1
  /\ blocks' = Tail(blocks)
  /\ interrupted' = (interrupted \/ Announced)

\* The elements of _visibleMap.
Shown == {maps[visible][i] : i \in DOMAIN maps[visible]}

\* The block of -environmentDidChange reads the environment when it runs; that
\* of -relayoutAllNodes lays out what is visible.
RunScheduled(i) ==
  /\ TakeBlock(i)
  /\ blocks[i].kind \in {"wait", "relayout", "environment"}
  /\ traits' = IF blocks[i].kind = "environment"
               THEN [e \in Elements |-> IF e \in Shown THEN trait ELSE traits[e]]
               ELSE traits
  /\ UNCHANGED <<mapVars, visible, trait, told, drains, stack, calls>>

\* A block that tells the delegate: -dataController:willUpdateWithChangeSet:, of
\* which the range controller makes, for a reload, a loop over nodes,
TellWillUpdate(i) ==
  /\ TakeBlock(i)
  /\ blocks[i].kind \in {"deploy", "notify"}
  /\ LET announced_ == <<Telling("will", blocks[i])>> \o stack
     IN  stack' = IF blocks[i].reload THEN <<Ranging("range")>> \o announced_ ELSE announced_
  /\ UNCHANGED <<mapVars, visible, traitVars, drains, calls>>

\* the new map, if there is one, and -dataController:didUpdateWithChangeSet:.
DeployAndTell ==
  /\ At("will")
  /\ visible' = IF Top.block.kind = "deploy" THEN Top.block.number ELSE visible
  /\ stack' = ReplaceTop(Telling("did", Top.block))
  /\ UNCHANGED <<dataVars, traitVars, blocks, drains, calls>>

BlockReturns ==
  /\ At("did")
  /\ stack' = Tail(stack)
  /\ UNCHANGED <<dataVars, visible, traitVars, blocks, drains, calls>>

-----------------------------------------------------------------------------
(* The range controller on the main thread: its loops, in which nodes' hooks *)
(* are called.                                                             *)

InRange == At("range") \/ At("hook")

BeginRange ==
  /\ Call(Ranging("range"))
  /\ UNCHANGED <<dataVars, visible, traitVars, blocks, drains>>

RangeGoesOn(pc) ==
  /\ InRange
  /\ stack' = ReplaceTop(Ranging(pc))
  /\ UNCHANGED <<dataVars, visible, traitVars, blocks, drains, calls>>

EndRange ==
  /\ InRange
  /\ stack' = Tail(stack)
  /\ UNCHANGED <<dataVars, visible, traitVars, blocks, drains, calls>>

-----------------------------------------------------------------------------
Calls ==
  \/ \E change \in Changes : UpdateWithChangeSet(change)
  \/ \E kind \in {"wait", "relayout"} : ScheduleBlock(kind)
  \/ ChangeEnvironment \/ ChangeEnvironmentOffMain

\* The steps of the main thread in which the delegate is told nothing.
MainSteps ==
  \/ BailOut \/ UpdateEmpty \/ UpdatePending \/ PerformScheduled
  \/ RunDispatched \/ RunEnvironmentDidChange \/ DrainEnds \/ BlockReturns
  \/ \E i \in DOMAIN blocks : RunScheduled(i)

DataNext ==
  \/ Calls \/ MainSteps \/ PrepareNodes
  \/ (\E i \in DOMAIN blocks : TellWillUpdate(i)) \/ DeployAndTell
  \/ BeginRange \/ (\E pc \in {"range", "hook"} : RangeGoesOn(pc)) \/ EndRange

DataSpec == DataInit /\ [][DataNext]_dcVars

-----------------------------------------------------------------------------
(* Properties.                                                             *)
(* A delegate told in advance that makes the main serial queue run a block,  *)
(* before the map it was told of is deployed, spoils the order of the maps:  *)
(* what follows holds until then.                                          *)

\* UIKit is given the maps one by one: what is deployed follows directly on what
\* is visible, so that each change set fits the item counts UIKit has (571-585).
DeploysSuccessor == [][visible' # visible => visible' = visible + 1 \/ interrupted]_dcVars

\* A block scheduled on the main serial queue finds deployed whatever was
\* submitted before it: relayoutAllNodes misses no node measured with the old
\* size (742-743), and -waitUntilAllUpdatesAreCommitted returns with all updates
\* committed.
ScheduledSeesAll ==
  [][\A i \in DOMAIN blocks :
       RunScheduled(i) => visible >= blocks[i].number \/ interrupted']_dcVars

\* Nobody keeps the traits of a past environment: an element that is shown with
\* them has the call, or the block, that gives it the present ones still before it
\* ("propagate the information to all visible elements, including ones that are
\* being prepared in background", ASDataController.h:242-243).
TraitsCatchUp ==
  interrupted
    \/ \A e \in Shown :
         traits[e] # trait =>
           \/ told > 0
           \/ \E i \in DOMAIN blocks : blocks[i].kind = "environment"
           \/ \E i \in DOMAIN stack :
                stack[i].pc = "schedule" /\ stack[i].block.kind = "environment"
=============================================================================
