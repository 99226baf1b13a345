SPECIFICATION FairSpec
CONSTANTS
  g1 = g1
  g2 = g2
  o1 = o1
  o2 = o2
  o3 = o3
  o4 = o4
  n1 = n1
  display = display
  main = main
  Groups <- MCGroups
  Ops <- MCOps
  Notifies <- MCOneNotify
  Queues <- MCQueues
  MainQueue = main
  Priorities <- MCPriorities
  GroupOf <- MCGroupOf
  QueueOf <- MCQueueOf
  PriorityOf <- MCPriorityOf
  NotifyGroup <- MCNotifyGroup1
  Async <- MCAsync
  MaxThreads = 2
  NoOp = NoOp
  NoGroup = NoGroup
INVARIANTS TypeOK QueueConsistent WorkHasWorker PendingIsUnfinished GroupOutlivesWork
PROPERTIES NotifyWhenDrained TakenInOrder OperationsFinish WaitReturns NotifyHappens ReleasedIsDeleted
CHECK_DEADLOCK FALSE
