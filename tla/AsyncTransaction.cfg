SPECIFICATION TxnSpec
CONSTANTS
  t1 = t1
  t2 = t2
  o1 = o1
  o2 = o2
  o3 = o3
  layer1 = layer1
  layer2 = layer2
  display = display
  main = main
  Groups <- MCTxns
  Ops <- MCOps
  Notifies <- MCTxns
  Queues <- MCDisplay
  MainQueue = main
  Priorities <- MCPriorities
  GroupOf <- MCGroupOf
  QueueOf <- MCQueueOf
  PriorityOf <- MCPriorityOf
  NotifyGroup <- MCNotifyGroup
  Async <- MCAsync
  MaxThreads = 2
  NoOp = NoOp
  NoGroup = NoGroup
  Containers <- MCLayers
  ClientDoes <- MCDisplayClient
  MaxDepth = 3
SYMMETRY MCSymmetry
INVARIANTS ReleasedIsFinished OpenWillBeCommitted WaitFindsCommitted
PROPERTIES ImplementsQueue KeepsPromise StateOnlyAdvances
CHECK_DEADLOCK FALSE
