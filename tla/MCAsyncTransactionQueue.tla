---------------------- MODULE MCAsyncTransactionQueue ----------------------
(* Two groups share one concurrent queue.                                  *)
EXTENDS AsyncTransactionQueue, TLC
CONSTANTS g1, g2, o1, o2, o3, o4, n1, display, main

MCGroups == {g1, g2}
MCOps    == {o1, o2, o3, o4}
MCOneNotify == {n1}
MCNotifyGroup1 == n1 :> g1
MCQueues == {display}
MCPriorities == {0, 1}

\* o2 is asynchronous; o3 is urgent and comes from the other group.
MCGroupOf == (o1 :> g1) @@ (o2 :> g1) @@ (o3 :> g2) @@ (o4 :> g2)
MCPriorityOf == (o1 :> 0) @@ (o2 :> 0) @@ (o3 :> 1) @@ (o4 :> 0)
MCQueueOf == [o \in MCOps |-> display]
MCAsync == {o2}
=============================================================================
