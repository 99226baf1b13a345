------------------------- MODULE MCAsyncTransaction -------------------------
(* Two layers and two or three transactions over one display queue.        *)
EXTENDS AsyncTransaction, TLC
CONSTANTS t1, t2, o1, o2, o3, layer1, layer2, display, main

MCTxns == {t1, t2}
MCOps  == {o1, o2, o3}
MCTwoOps == {o1, o2}
MCNotifyGroup == [t \in MCTxns |-> t]
MCLayers == {layer1, layer2}
MCSymmetry == Permutations(MCLayers)
MCOneLayer == {layer1}
MCDisplay == {display}
MCDisplayAndMain == {display, main}
MCPriorities == {0}

\* o1, o2 belong to t1 and o3 to t2; o2 is asynchronous.
MCGroupOf == (o1 :> t1) @@ (o2 :> t1) @@ (o3 :> t2)
MCQueueOf == [o \in MCOps |-> display]
MCPriorityOf == [o \in MCOps |-> 0]
MCAsync == {o2}

\* One operation each.
MCGroupOf2 == (o1 :> t1) @@ (o2 :> t2)
MCQueueOf2 == [o \in MCTwoOps |-> display]
MCPriorityOf2 == [o \in MCTwoOps |-> 0]
MCNone == {}

\* o1 is the operation of addCompletionBlock.
MCQueueOfMain == (o1 :> main) @@ (o2 :> display)

MCDisplayClient == {"cancel", "wait", "empty"}
MCReentrantClient == {"wait", "reenter"}
MCWaitClient == {"wait"}
=============================================================================
