SPECIFICATION TxnSpec
CONSTANTS
  t1 = t1
  t2 = t2
  o1 = o1
  o2 = o2
  o3 = o3
  layer1 = layer1
  layer2 = layer2
  display = display
  main = main
  Groups <- MCTxns
  Ops <- MCTwoOps
  Notifies <- MCTxns
  Queues <- MCDisplay
  MainQueue = main
  Priorities <- MCPriorities
  GroupOf <- MCGroupOf2
  QueueOf <- MCQueueOf2
  PriorityOf <- MCPriorityOf2
  NotifyGroup <- MCNotifyGroup
  Async <- MCAsync
  MaxThreads = 2
  NoOp = NoOp
  NoGroup = NoGroup
  Containers <- MCOneLayer
  ClientDoes <- MCReentrantClient
  MaxDepth = 4
INVARIANT CompletesOnce
CHECK_DEADLOCK FALSE
