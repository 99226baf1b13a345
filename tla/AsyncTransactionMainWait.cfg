SPECIFICATION FairTxnSpec
CONSTANTS
  t1 = t1
  t2 = t2
  o1 = o1
  o2 = o2
  o3 = o3
  layer1 = layer1
  layer2 = layer2
  display = display
  main = main
  Groups <- MCTxns
  Ops <- MCTwoOps
  Notifies <- MCTxns
  Queues <- MCDisplayAndMain
  MainQueue = main
  Priorities <- MCPriorities
  GroupOf <- MCGroupOf2
  QueueOf <- MCQueueOfMain
  PriorityOf <- MCPriorityOf2
  NotifyGroup <- MCNotifyGroup
  Async <- MCNone
  MaxThreads = 2
  NoOp = NoOp
  NoGroup = NoGroup
  Containers <- MCOneLayer
  ClientDoes <- MCWaitClient
  MaxDepth = 3
PROPERTY WaitEnds
CHECK_DEADLOCK FALSE
