--------------------- MODULE AsyncTransactionQueueProofs ---------------------
(***************************************************************************)
(* Safety of AsyncTransactionQueue for any number of operations, groups,   *)
(* dispatch queues, priorities and worker blocks.                          *)
(***************************************************************************)
EXTENDS AsyncTransactionQueue, FiniteSetTheorems, WellFoundedInduction, TLAPS

-----------------------------------------------------------------------------
(* Lists as sets of distinct elements.                                     *)

Elements(seq) == {seq[i] : i \in DOMAIN seq}
Distinct(seq) == \A i, j \in DOMAIN seq : seq[i] = seq[j] => i = j
Before(seq, x, y) == \E i, j \in DOMAIN seq : i < j /\ seq[i] = x /\ seq[j] = y

\* A list without elements is empty.
LEMMA EmptyElements ==
  ASSUME NEW S, NEW seq \in Seq(S)
  PROVE  Elements(seq) = {} <=> seq = <<>>
<1>1. seq # <<>> => 1 \in DOMAIN seq
  OBVIOUS
<1>2. DOMAIN <<>> = {}
  OBVIOUS
<1> QED
  BY <1>1, <1>2 DEF Elements

\* push_back adds one element.
LEMMA AppendElements ==
  ASSUME NEW S, NEW seq \in Seq(S), NEW e \in S
  PROVE  /\ Append(seq, e) \in Seq(S)
         /\ Append(seq, e) # <<>>
         /\ Elements(Append(seq, e)) = Elements(seq) \cup {e}
         /\ Distinct(seq) /\ e \notin Elements(seq) => Distinct(Append(seq, e))
<1> DEFINE a == Append(seq, e)
<1>1. /\ a \in Seq(S) /\ a # <<>> /\ Len(a) = Len(seq) + 1 /\ Len(seq) \in Nat
      /\ DOMAIN a = 1 .. Len(seq) + 1 /\ DOMAIN seq = 1 .. Len(seq)
      /\ \A i \in 1 .. Len(seq) : a[i] = seq[i]
      /\ a[Len(seq) + 1] = e
  OBVIOUS
<1> HIDE DEF a
<1>2. Elements(a) = Elements(seq) \cup {e}
  BY <1>1 DEF Elements
<1>3. Distinct(seq) /\ e \notin Elements(seq) => Distinct(a)
  BY <1>1 DEF Elements, Distinct
<1> QED
  BY <1>1, <1>2, <1>3 DEF a

\* pop_front takes the head and nothing else.
LEMMA TailElements ==
  ASSUME NEW S, NEW seq \in Seq(S), seq # <<>>, Distinct(seq)
  PROVE  /\ Head(seq) \in Elements(seq)
         /\ Tail(seq) \in Seq(S)
         /\ Elements(Tail(seq)) = Elements(seq) \ {Head(seq)}
         /\ Distinct(Tail(seq))
<1> DEFINE t == Tail(seq)
<1>1. /\ t \in Seq(S) /\ Len(t) = Len(seq) - 1 /\ Len(seq) \in Nat \ {0}
      /\ DOMAIN t = 1 .. Len(seq) - 1 /\ DOMAIN seq = 1 .. Len(seq)
      /\ \A i \in 1 .. Len(seq) - 1 : t[i] = seq[i + 1]
      /\ Head(seq) = seq[1]
  OBVIOUS
<1> HIDE DEF t
<1>2. Head(seq) \in Elements(seq)
  BY <1>1 DEF Elements
<1>3. Elements(t) \subseteq Elements(seq) \ {seq[1]}
  BY <1>1 DEF Elements, Distinct
<1>4. ASSUME NEW x \in Elements(seq) \ {seq[1]}
      PROVE  x \in Elements(t)
  <2>1. PICK i \in 1 .. Len(seq) : x = seq[i]
    BY <1>1 DEF Elements
  <2>2. i - 1 \in DOMAIN t /\ t[i - 1] = x
    BY <1>1, <2>1
  <2> QED
    BY <2>2 DEF Elements
<1>5. ASSUME NEW i \in DOMAIN t, NEW j \in DOMAIN t, t[i] = t[j]
      PROVE  i = j
  <2>1. i + 1 \in DOMAIN seq /\ j + 1 \in DOMAIN seq /\ seq[i + 1] = seq[j + 1]
    BY <1>1, <1>5
  <2>2. i + 1 = j + 1
    BY <2>1 DEF Distinct
  <2> QED
    BY <1>1, <2>2
<1> QED
  BY <1>1, <1>2, <1>3, <1>4, <1>5 DEF t, Distinct

\* erase takes the element it is given and nothing else.
LEMMA WithoutElements ==
  ASSUME NEW S, NEW seq \in Seq(S), Distinct(seq), NEW o \in Elements(seq)
  PROVE  /\ Without(seq, o) \in Seq(S)
         /\ Elements(Without(seq, o)) = Elements(seq) \ {o}
         /\ Distinct(Without(seq, o))
<1> DEFINE k == CHOOSE i \in DOMAIN seq : seq[i] = o
           w == Without(seq, o)
<1>1. k \in DOMAIN seq /\ seq[k] = o
  BY DEF Elements
<1>2. DOMAIN seq = 1 .. Len(seq) /\ Len(seq) \in Nat /\ \A i \in 1 .. Len(seq) : seq[i] \in S
  OBVIOUS
<1>3. w = [j \in 1 .. Len(seq) - 1 |-> IF j < k THEN seq[j] ELSE seq[j + 1]]
  BY DEF Without
<1> HIDE DEF k, w
<1>4. w \in Seq(S) /\ DOMAIN w = 1 .. Len(seq) - 1
  <2>1. Len(seq) - 1 \in Nat
    BY <1>1, <1>2
  <2>2. w \in [1 .. Len(seq) - 1 -> S]
    BY <1>1, <1>2, <1>3
  <2> QED
    BY <2>1, <2>2
<1>5. Elements(w) \subseteq Elements(seq) \ {o}
  BY <1>1, <1>2, <1>3, <1>4 DEF Elements, Distinct
<1>6. ASSUME NEW x \in Elements(seq) \ {o}
      PROVE  x \in Elements(w)
  <2>1. PICK i \in 1 .. Len(seq) : x = seq[i]
    BY <1>2 DEF Elements
  <2>2. i # k
    BY <1>1, <2>1
  <2>3. CASE i < k
    <3>1. i \in DOMAIN w /\ w[i] = x
      BY <1>1, <1>2, <1>3, <1>4, <2>1, <2>3
    <3> QED
      BY <3>1 DEF Elements
  <2>4. CASE i > k
    <3>1. i - 1 \in DOMAIN w /\ w[i - 1] = x
      BY <1>1, <1>2, <1>3, <1>4, <2>1, <2>4
    <3> QED
      BY <3>1 DEF Elements
  <2> QED
    BY <1>1, <1>2, <2>2, <2>3, <2>4
<1>7. Distinct(w)
  BY <1>1, <1>2, <1>3, <1>4 DEF Distinct
<1> QED
  BY <1>4, <1>5, <1>6, <1>7 DEF w

\* The order of a list after push_back, pop_front and erase.
LEMMA AppendBefore ==
  ASSUME NEW S, NEW seq \in Seq(S), NEW e \in S, NEW x, NEW y
  PROVE  Before(Append(seq, e), x, y) <=>
           Before(seq, x, y) \/ (x \in Elements(seq) /\ y = e)
<1> DEFINE a == Append(seq, e)
<1>1. /\ Len(seq) \in Nat
      /\ DOMAIN a = 1 .. Len(seq) + 1 /\ DOMAIN seq = 1 .. Len(seq)
      /\ \A i \in 1 .. Len(seq) : a[i] = seq[i]
      /\ a[Len(seq) + 1] = e
  OBVIOUS
<1> HIDE DEF a
<1>2. ASSUME Before(a, x, y)
      PROVE  Before(seq, x, y) \/ (x \in Elements(seq) /\ y = e)
  <2>1. PICK i \in DOMAIN a, j \in DOMAIN a : i < j /\ a[i] = x /\ a[j] = y
    BY <1>2 DEF Before
  <2>2. i \in DOMAIN seq /\ x = seq[i]
    BY <1>1, <2>1
  <2>3. CASE j = Len(seq) + 1
    BY <1>1, <2>1, <2>2, <2>3 DEF Elements
  <2>4. CASE j \in DOMAIN seq
    BY <1>1, <2>1, <2>2, <2>4 DEF Before
  <2> QED
    BY <1>1, <2>3, <2>4
<1>3. ASSUME Before(seq, x, y) PROVE Before(a, x, y)
  BY <1>1, <1>3 DEF Before
<1>4. ASSUME x \in Elements(seq), y = e PROVE Before(a, x, y)
  <2>1. PICK i \in DOMAIN seq : x = seq[i]
    BY <1>4 DEF Elements
  <2>2. /\ i \in DOMAIN a /\ Len(seq) + 1 \in DOMAIN a /\ i < Len(seq) + 1
        /\ a[i] = x /\ a[Len(seq) + 1] = y
    BY <1>1, <1>4, <2>1
  <2> QED
    BY <2>2 DEF Before
<1> QED
  BY <1>2, <1>3, <1>4 DEF a

LEMMA TailBefore ==
  ASSUME NEW S, NEW seq \in Seq(S), seq # <<>>, Distinct(seq), NEW x, NEW y,
         Before(Tail(seq), x, y)
  PROVE  Before(seq, x, y) /\ x # Head(seq) /\ y # Head(seq)
<1> DEFINE t == Tail(seq)
<1>1. /\ Len(seq) \in Nat \ {0}
      /\ DOMAIN t = 1 .. Len(seq) - 1 /\ DOMAIN seq = 1 .. Len(seq)
      /\ \A i \in 1 .. Len(seq) - 1 : t[i] = seq[i + 1]
      /\ Head(seq) = seq[1]
  OBVIOUS
<1>2. PICK i \in DOMAIN t, j \in DOMAIN t : i < j /\ t[i] = x /\ t[j] = y
  BY DEF Before
<1> HIDE DEF t
<1>3. /\ i + 1 \in DOMAIN seq /\ j + 1 \in DOMAIN seq /\ i + 1 < j + 1
      /\ seq[i + 1] = x /\ seq[j + 1] = y /\ i + 1 # 1 /\ j + 1 # 1
  BY <1>1, <1>2
<1>4. Before(seq, x, y)
  BY <1>3 DEF Before
<1>5. 1 \in DOMAIN seq
  BY <1>1
<1> QED
  BY <1>1, <1>3, <1>4, <1>5 DEF Distinct

LEMMA WithoutBefore ==
  ASSUME NEW S, NEW seq \in Seq(S), Distinct(seq), NEW o \in Elements(seq),
         NEW x, NEW y, Before(seq, x, y), x # o, y # o
  PROVE  Before(Without(seq, o), x, y)
<1> DEFINE k == CHOOSE i \in DOMAIN seq : seq[i] = o
           w == Without(seq, o)
<1>1. k \in DOMAIN seq /\ seq[k] = o
  BY DEF Elements
<1>2. DOMAIN seq = 1 .. Len(seq) /\ Len(seq) \in Nat
  OBVIOUS
<1>3. w = [j \in 1 .. Len(seq) - 1 |-> IF j < k THEN seq[j] ELSE seq[j + 1]]
  BY DEF Without
<1> HIDE DEF k, w
<1>4. PICK i \in DOMAIN seq, j \in DOMAIN seq : i < j /\ seq[i] = x /\ seq[j] = y
  BY DEF Before
<1>5. i # k /\ j # k
  BY <1>1, <1>4
<1> DEFINE at(n) == IF n < k THEN n ELSE n - 1
<1>6. /\ at(i) \in DOMAIN w /\ w[at(i)] = x
      /\ at(j) \in DOMAIN w /\ w[at(j)] = y
      /\ at(i) < at(j)
  <2>1. \A n \in DOMAIN seq : n # k => at(n) \in DOMAIN w /\ w[at(n)] = seq[n]
    BY <1>1, <1>2, <1>3
  <2>2. at(i) < at(j)
    BY <1>1, <1>2, <1>4, <1>5
  <2> QED
    BY <1>4, <1>5, <2>1, <2>2
<1> QED
  BY <1>6, Zenon DEF Before, w

\* The head of a list is before every other element, and no element before it.
LEMMA HeadBefore ==
  ASSUME NEW S, NEW seq \in Seq(S), seq # <<>>, Distinct(seq), NEW x
  PROVE  /\ x \in Elements(seq) /\ x # Head(seq) => Before(seq, Head(seq), x)
         /\ ~Before(seq, x, Head(seq))
<1>1. /\ Len(seq) \in Nat \ {0} /\ DOMAIN seq = 1 .. Len(seq)
      /\ Head(seq) = seq[1] /\ 1 \in DOMAIN seq
  OBVIOUS
<1>2. ASSUME x \in Elements(seq), x # Head(seq) PROVE Before(seq, Head(seq), x)
  <2>1. PICK i \in DOMAIN seq : x = seq[i]
    BY <1>2 DEF Elements
  <2>2. 1 < i
    BY <1>1, <1>2, <2>1
  <2> QED
    BY <1>1, <2>1, <2>2 DEF Before
<1>3. ASSUME Before(seq, x, Head(seq)) PROVE FALSE
  <2>1. PICK i \in DOMAIN seq, j \in DOMAIN seq : i < j /\ seq[j] = seq[1]
    BY <1>1, <1>3 DEF Before
  <2>2. j = 1
    BY <1>1, <2>1 DEF Distinct
  <2> QED
    BY <1>1, <2>1, <2>2
<1> QED
  BY <1>2, <1>3

\* A finite set of priorities has a highest one: the last key of the map.
LEMMA HighestExists ==
  ASSUME NEW P, P \subseteq Priorities, P # {}
  PROVE  \E p \in P : \A r \in P : r <= p
<1> DEFINE above(m) == {x \in P : x > m}
           T == {above(m) : m \in P}
<1>1. P \subseteq Int /\ IsFiniteSet(P)
  BY PlacementAssumption, FS_Subset
<1>2. IsWellFoundedOn(StrictSubsetOrdering(P), FiniteSubsetsOf(P))
  BY FS_StrictSubsetOrderingWellFounded
<1>3. T \subseteq FiniteSubsetsOf(P) /\ T # {}
  <2>1. \A m \in P : above(m) \in SUBSET P
    OBVIOUS
  <2>2. \A m \in P : IsFiniteSet(above(m))
    BY <1>1, <2>1, FS_Subset
  <2> QED
    BY <2>1, <2>2 DEF FiniteSubsetsOf
<1>4. PICK t \in T : \A y \in T : ~(<<y, t>> \in StrictSubsetOrdering(P))
  BY <1>2, <1>3, WFMin
<1>5. PICK m \in P : t = above(m)
  OBVIOUS
<1>6. ASSUME NEW r \in P, ~(r <= m) PROVE FALSE
  <2>1. above(r) \in T /\ above(r) \subseteq P /\ above(m) \subseteq P
    OBVIOUS
  <2>2. r \in Int /\ m \in Int /\ r > m /\ \A x \in P : x \in Int
    BY <1>1, <1>6
  <2>3. r \in above(m) /\ r \notin above(r)
    BY <2>2
  <2>4. above(r) \subseteq above(m)
    <3>1. \A x \in P : x > r => x > m
      BY <2>2
    <3> QED
      BY <3>1, Zenon
  <2> QED
    BY <1>4, <1>5, <2>1, <2>3, <2>4 DEF StrictSubsetOrdering
<1> QED
  BY <1>6

-----------------------------------------------------------------------------
(* The inductive invariant.                                                *)

EntryType ==
  /\ opQueue \in [Queues -> Seq(Ops)]
  /\ prioMap \in [Queues -> [Priorities -> Seq(Ops)]]

Doing == {"idle", "dispatched", "polling", "running", "leaving", "freeing"}

WorkerType ==
  /\ threadCount \in [Queues -> 0 .. MaxThreads]
  /\ pc \in [Queues -> [Threads -> Doing]]
  /\ op \in [Queues -> [Threads -> Ops \cup {NoOp}]]

OpType ==
  /\ opState \in [Ops -> {"new", "queued", "running", "left"}]
  /\ asyncOpen \subseteq Async

GroupType ==
  /\ pending \in [Groups -> Nat]
  /\ notifyList \in [Groups -> Seq(Notifies)]
  /\ group \in [Groups -> {"none", "live", "deleted"}]

MainType ==
  /\ notified \in Seq(Notifies)
  /\ waiting \in Groups \cup {NoGroup}

FlagsType ==
  /\ respect \in [Queues -> [Threads -> BOOLEAN]]
  /\ releaseCalled \in [Groups -> BOOLEAN]
  /\ woken \in BOOLEAN

\* The list and the buckets of an entry hold the same operations, in the same
\* order, once each; they are the queued operations of its dispatch queue.
ListsAgree ==
  /\ \A q \in Queues : Distinct(opQueue[q])
  /\ \A q \in Queues, p \in Priorities : Distinct(prioMap[q][p])
  /\ \A q \in Queues, p \in Priorities :
       Elements(prioMap[q][p]) = {o \in Elements(opQueue[q]) : PriorityOf[o] = p}
  /\ \A q \in Queues, p \in Priorities, x, y \in Ops :
       Before(prioMap[q][p], x, y) => Before(opQueue[q], x, y)
  /\ \A q \in Queues, o \in Ops :
       o \in Elements(opQueue[q]) => QueueOf[o] = q /\ opState[o] = "queued"

Holds(q, s) == pc[q][s] \in {"running", "leaving", "freeing"}
Busy(q, s)  == pc[q][s] \in {"running", "leaving"}

\* A running operation is held by one worker, and its block has not started
\* the asynchronous part before it is called.
WorkersHold ==
  /\ \A q \in Queues, s \in Threads : Holds(q, s) => op[q][s] \in Ops
  /\ \A q \in Queues, s \in Threads :
       Busy(q, s) => QueueOf[op[q][s]] = q /\ opState[op[q][s]] = "running"
  /\ \A q \in Queues, s, r \in Threads :
       Busy(q, s) /\ Busy(q, r) /\ op[q][s] = op[q][r] => s = r
  /\ \A q \in Queues, s \in Threads :
       pc[q][s] = "running" => op[q][s] \notin asyncOpen

AsyncStarted == \A o \in asyncOpen : opState[o] \in {"running", "left"}

ThreadsCounted == \A q \in Queues : threadCount[q] = Cardinality(Alive(q))

QueueServed == \A q \in Queues : opQueue[q] # <<>> => threadCount[q] > 0

\* The main thread waits for a group that nobody has released.
WaitingOwned == waiting # NoGroup => Owned(waiting)

NotifyHome ==
  \A g \in Groups : \A i \in DOMAIN notifyList[g] : NotifyGroup[notifyList[g][i]] = g

IInv ==
  /\ EntryType /\ WorkerType /\ OpType /\ GroupType /\ MainType /\ FlagsType
  /\ ListsAgree
  /\ WorkersHold
  /\ AsyncStarted
  /\ ThreadsCounted
  /\ QueueServed
  /\ PendingIsUnfinished
  /\ GroupOutlivesWork
  /\ WaitingOwned
  /\ NotifyHome

-----------------------------------------------------------------------------
(* Counting.                                                               *)

\* The operations of a group are finitely many.
LEMMA Finite ==
  ASSUME OpType, NEW g \in Groups
  PROVE  /\ IsFiniteSet(BlocksOf(g)) /\ Cardinality(BlocksOf(g)) \in Nat
         /\ IsFiniteSet(AsyncPartsOf(g)) /\ Cardinality(AsyncPartsOf(g)) \in Nat
         /\ Cardinality(BlocksOf(g)) = 0 <=> BlocksOf(g) = {}
         /\ Cardinality(AsyncPartsOf(g)) = 0 <=> AsyncPartsOf(g) = {}
<1>1. BlocksOf(g) \in SUBSET Ops /\ AsyncPartsOf(g) \in SUBSET Ops
  BY PlacementAssumption DEF BlocksOf, AsyncPartsOf, OpType
<1>2. IsFiniteSet(BlocksOf(g)) /\ IsFiniteSet(AsyncPartsOf(g))
  BY <1>1, FiniteAssumption, FS_Subset
<1> QED
  BY <1>2, FS_CardinalityType, FS_EmptySet

\* Nothing of a group is unfinished exactly when its counter is zero.
LEMMA ZeroIsDrained ==
  ASSUME OpType, PendingIsUnfinished, NEW g \in Groups
  PROVE  pending[g] = 0 <=> Unfinished(g) = {}
  BY Finite DEF PendingIsUnfinished, Unfinished

\* The worker blocks of a queue are finitely many.
LEMMA AliveFinite ==
  ASSUME NEW q \in Queues
  PROVE  /\ IsFiniteSet(Alive(q)) /\ Cardinality(Alive(q)) \in Nat
         /\ Cardinality(Alive(q)) <= MaxThreads
         /\ Cardinality(Alive(q)) = MaxThreads <=> Alive(q) = Threads
<1>1. IsFiniteSet(Threads) /\ Cardinality(Threads) = MaxThreads
  BY ThreadsAssumption, FS_Interval DEF Threads
<1>2. Alive(q) \in SUBSET Threads
  BY DEF Alive
<1> QED
  BY <1>1, <1>2, FS_Subset, FS_CardinalityType

\* Below the limit there is a name for another worker.
LEMMA IdleExists ==
  ASSUME ThreadsCounted, NEW q \in Queues, threadCount[q] < MaxThreads
  PROVE  IdleThread(q) \in Threads /\ pc[q][IdleThread(q)] = "idle"
<1>1. \E s \in Threads : pc[q][s] = "idle"
  <2>1. Alive(q) # Threads
    BY AliveFinite, ThreadsAssumption DEF ThreadsCounted
  <2> QED
    BY <2>1 DEF Alive
<1> QED
  BY <1>1 DEF IdleThread

-----------------------------------------------------------------------------
(* Steps that leave a part of the invariant alone.                         *)

LEMMA KeepEntryType ==
  EntryType /\ UNCHANGED <<opQueue, prioMap>> => EntryType'
  BY DEF EntryType

LEMMA KeepWorkerType ==
  WorkerType /\ UNCHANGED <<threadCount, pc, op>> => WorkerType'
  BY DEF WorkerType

LEMMA KeepOpType ==
  OpType /\ UNCHANGED <<opState, asyncOpen>> => OpType'
  BY DEF OpType

LEMMA KeepGroupType ==
  GroupType /\ UNCHANGED <<pending, notifyList, group>> => GroupType'
  BY DEF GroupType

LEMMA KeepMainType ==
  MainType /\ UNCHANGED <<notified, waiting>> => MainType'
  BY DEF MainType

LEMMA KeepFlagsType ==
  FlagsType /\ UNCHANGED <<respect, releaseCalled, woken>> => FlagsType'
  BY DEF FlagsType

LEMMA KeepListsAgree ==
  ListsAgree /\ UNCHANGED <<opQueue, prioMap, opState>> => ListsAgree'
  BY DEF ListsAgree

LEMMA KeepWorkersHold ==
  WorkersHold /\ UNCHANGED <<pc, op, opState, asyncOpen>> => WorkersHold'
  BY DEF WorkersHold, Holds, Busy

LEMMA KeepAsyncStarted ==
  AsyncStarted /\ UNCHANGED <<opState, asyncOpen>> => AsyncStarted'
  BY DEF AsyncStarted

LEMMA KeepThreadsCounted ==
  ThreadsCounted /\ UNCHANGED <<threadCount, pc>> => ThreadsCounted'
  BY DEF ThreadsCounted, Alive

LEMMA KeepQueueServed ==
  QueueServed /\ UNCHANGED <<opQueue, threadCount>> => QueueServed'
  BY DEF QueueServed

LEMMA KeepPendingIsUnfinished ==
  PendingIsUnfinished /\ UNCHANGED <<pending, opState, asyncOpen>> => PendingIsUnfinished'
  BY DEF PendingIsUnfinished, BlocksOf, AsyncPartsOf

LEMMA KeepGroupOutlivesWork ==
  GroupOutlivesWork /\ UNCHANGED <<group, waiting, opState, asyncOpen>> => GroupOutlivesWork'
  BY DEF GroupOutlivesWork, Unfinished, BlocksOf, AsyncPartsOf

LEMMA KeepWaitingOwned ==
  WaitingOwned /\ UNCHANGED <<waiting, group, releaseCalled>> => WaitingOwned'
  BY DEF WaitingOwned, Owned

LEMMA KeepNotifyHome ==
  NotifyHome /\ UNCHANGED <<notifyList>> => NotifyHome'
  BY DEF NotifyHome

-----------------------------------------------------------------------------
(* The calls of the client.                                                *)

\* The callback queue runs a block.
LEMMA RunNotifiedKeeps ==
  ASSUME IInv, RunNotified
  PROVE  IInv'
<1>1. MainType'
  BY DEF RunNotified, IInv, MainType
<1>2. EntryType' /\ WorkerType' /\ OpType' /\ GroupType' /\ FlagsType'
  BY KeepEntryType, KeepWorkerType, KeepOpType, KeepGroupType, KeepFlagsType
  DEF RunNotified, IInv, entryVars, workerVars, groupVars, mainVars
<1>3. ListsAgree' /\ WorkersHold' /\ AsyncStarted' /\ ThreadsCounted' /\ QueueServed'
  BY KeepListsAgree, KeepWorkersHold, KeepAsyncStarted, KeepThreadsCounted, KeepQueueServed
  DEF RunNotified, IInv, entryVars, workerVars, groupVars, mainVars
<1>4. PendingIsUnfinished' /\ GroupOutlivesWork' /\ WaitingOwned' /\ NotifyHome'
  BY KeepPendingIsUnfinished, KeepGroupOutlivesWork, KeepWaitingOwned, KeepNotifyHome
  DEF RunNotified, IInv, entryVars, workerVars, groupVars, mainVars
<1> QED
  BY <1>1, <1>2, <1>3, <1>4 DEF IInv

\* The waiter goes on, or waits again.
LEMMA WaitWakesKeeps ==
  ASSUME IInv, WaitWakes
  PROVE  IInv'
<1>1. MainType'
  BY DEF WaitWakes, IInv, MainType
<1>2. FlagsType'
  BY DEF WaitWakes, IInv, FlagsType, workerVars, groupVars
<1>3. GroupOutlivesWork'
  BY NullAssumption DEF WaitWakes, IInv, MainType, groupVars, GroupOutlivesWork, Unfinished,
     BlocksOf, AsyncPartsOf
<1>4. WaitingOwned'
  BY DEF WaitWakes, IInv, groupVars, WaitingOwned, Owned
<1>5. EntryType' /\ WorkerType' /\ OpType' /\ GroupType' /\ ListsAgree'
  BY KeepEntryType, KeepWorkerType, KeepOpType, KeepGroupType, KeepListsAgree
  DEF WaitWakes, IInv, entryVars, workerVars, groupVars, mainVars
<1>6. WorkersHold' /\ AsyncStarted' /\ ThreadsCounted' /\ QueueServed' /\ PendingIsUnfinished'
  BY KeepWorkersHold, KeepAsyncStarted, KeepThreadsCounted, KeepQueueServed, KeepPendingIsUnfinished
  DEF WaitWakes, IInv, entryVars, workerVars, groupVars, mainVars
<1>7. NotifyHome'
  BY KeepNotifyHome
  DEF WaitWakes, IInv, entryVars, workerVars, groupVars, mainVars
<1> QED
  BY <1>1, <1>2, <1>3, <1>4, <1>5, <1>6, <1>7 DEF IInv

\* Only a group that is owned, and so exists, is waited for.
LEMMA WaitBlocksKeeps ==
  ASSUME IInv, NEW g \in Groups, WaitBlocks(g)
  PROVE  IInv'
<1>1. MainType'
  BY DEF WaitBlocks, IInv, MainType
<1>2. FlagsType'
  BY DEF WaitBlocks, IInv, FlagsType, workerVars, groupVars
<1>3. GroupOutlivesWork'
  BY DEF WaitBlocks, IInv, groupVars, GroupOutlivesWork, Unfinished, BlocksOf,
     AsyncPartsOf, Owned
<1>4. WaitingOwned'
  BY DEF WaitBlocks, groupVars, WaitingOwned, Owned
<1>5. EntryType' /\ WorkerType' /\ OpType' /\ GroupType' /\ ListsAgree'
  BY KeepEntryType, KeepWorkerType, KeepOpType, KeepGroupType, KeepListsAgree
  DEF WaitBlocks, IInv, entryVars, workerVars, groupVars, mainVars
<1>6. WorkersHold' /\ AsyncStarted' /\ ThreadsCounted' /\ QueueServed' /\ PendingIsUnfinished'
  BY KeepWorkersHold, KeepAsyncStarted, KeepThreadsCounted, KeepQueueServed, KeepPendingIsUnfinished
  DEF WaitBlocks, IInv, entryVars, workerVars, groupVars, mainVars
<1>7. NotifyHome'
  BY KeepNotifyHome
  DEF WaitBlocks, IInv, entryVars, workerVars, groupVars, mainVars
<1> QED
  BY <1>1, <1>2, <1>3, <1>4, <1>5, <1>6, <1>7 DEF IInv

\* A group is deleted at once only when its counter is zero, and then nothing
\* of it is unfinished.
LEMMA ReleaseKeeps ==
  ASSUME IInv, NEW g \in Groups, Release(g)
  PROVE  IInv'
<1>1. GroupType'
  BY DEF Release, release, IInv, GroupType
<1>2. FlagsType'
  BY DEF Release, release, IInv, FlagsType, workerVars, mainVars
<1>3. GroupOutlivesWork'
  <2>1. CASE pending[g] = 0
    <3>1. Unfinished(g) = {}
      BY <2>1, ZeroIsDrained DEF IInv
    <3>2. /\ UNCHANGED <<opState, asyncOpen, waiting>> /\ waiting # g
          /\ group' = [group EXCEPT ![g] = "deleted"]
      BY <2>1 DEF Release, release, mainVars
    <3> QED
      BY <3>1, <3>2 DEF IInv, GroupType, GroupOutlivesWork, Unfinished, BlocksOf,
         AsyncPartsOf
  <2>2. CASE pending[g] # 0
    BY <2>2, KeepGroupOutlivesWork DEF Release, release, IInv, mainVars
  <2> QED
    BY <2>1, <2>2
<1>4. WaitingOwned'
  BY DEF Release, release, IInv, GroupType, FlagsType, MainType, mainVars,
     WaitingOwned, Owned
<1>5. EntryType' /\ WorkerType' /\ OpType' /\ MainType' /\ ListsAgree'
  BY KeepEntryType, KeepWorkerType, KeepOpType, KeepMainType, KeepListsAgree
  DEF Release, IInv, entryVars, workerVars, groupVars, mainVars
<1>6. WorkersHold' /\ AsyncStarted' /\ ThreadsCounted' /\ QueueServed' /\ PendingIsUnfinished'
  BY KeepWorkersHold, KeepAsyncStarted, KeepThreadsCounted, KeepQueueServed, KeepPendingIsUnfinished
  DEF Release, IInv, entryVars, workerVars, groupVars, mainVars
<1>7. NotifyHome'
  BY KeepNotifyHome
  DEF Release, IInv, entryVars, workerVars, groupVars, mainVars
<1> QED
  BY <1>1, <1>2, <1>3, <1>4, <1>5, <1>6, <1>7 DEF IInv

\* A block is dispatched, or joins the list of its own group.
LEMMA NotifyKeeps ==
  ASSUME IInv, NEW n \in Notifies, Notify(n)
  PROVE  IInv'
<1>1. GroupType'
  <2> DEFINE h == NotifyGroup[n]
             l == Append(notifyList[h], n)
  <2>1. h \in Groups /\ l \in Seq(Notifies)
    BY PlacementAssumption DEF IInv, GroupType
  <2>2. /\ notifyList' = notifyList \/ notifyList' = [notifyList EXCEPT ![h] = l]
        /\ UNCHANGED <<pending, group>>
    BY DEF Notify, notify
  <2> HIDE DEF h, l
  <2> QED
    BY <2>1, <2>2 DEF IInv, GroupType
<1>2. MainType'
  BY DEF Notify, notify, IInv, MainType
<1>3. NotifyHome'
  <2>1. CASE pending[NotifyGroup[n]] = 0
    BY <2>1, KeepNotifyHome DEF Notify, notify, IInv
  <2>2. CASE pending[NotifyGroup[n]] # 0
    <3> DEFINE h == NotifyGroup[n]
    <3>1. h \in Groups /\ notifyList[h] \in Seq(Notifies)
      BY PlacementAssumption DEF IInv, GroupType
    <3>2. notifyList' = [notifyList EXCEPT ![h] = Append(@, n)]
      BY <2>2 DEF Notify, notify
    <3>3. \A i \in DOMAIN Append(notifyList[h], n) :
            NotifyGroup[Append(notifyList[h], n)[i]] = h
      BY <3>1 DEF IInv, NotifyHome
    <3> QED
      BY <3>1, <3>2, <3>3 DEF IInv, NotifyHome, GroupType
  <2> QED
    BY <2>1, <2>2
<1>4. EntryType' /\ WorkerType' /\ OpType' /\ FlagsType' /\ ListsAgree'
  BY KeepEntryType, KeepWorkerType, KeepOpType, KeepFlagsType, KeepListsAgree
  DEF Notify, notify, IInv, entryVars, workerVars, groupVars, mainVars
<1>5. WorkersHold' /\ AsyncStarted' /\ ThreadsCounted' /\ QueueServed' /\ PendingIsUnfinished'
  BY KeepWorkersHold, KeepAsyncStarted, KeepThreadsCounted, KeepQueueServed, KeepPendingIsUnfinished
  DEF Notify, notify, IInv, entryVars, workerVars, groupVars, mainVars
<1>6. GroupOutlivesWork' /\ WaitingOwned'
  BY KeepGroupOutlivesWork, KeepWaitingOwned
  DEF Notify, notify, IInv, entryVars, workerVars, groupVars, mainVars
<1> QED
  BY <1>1, <1>2, <1>3, <1>4, <1>5, <1>6 DEF IInv

-----------------------------------------------------------------------------
(* The two lists of an entry.                                              *)

\* Whichever way a worker chooses, the operation it takes is queued and is the
\* first of its bucket ("first item in bucket must match item in queue").
LEMMA NextIsFirst ==
  ASSUME EntryType, ListsAgree, NEW q \in Queues, opQueue[q] # <<>>,
         NEW byPriority \in BOOLEAN, NEW o, o = NextOperation(q, byPriority)
  PROVE  /\ o \in Ops
         /\ o \in Elements(opQueue[q])
         /\ prioMap[q][PriorityOf[o]] # <<>>
         /\ o = Head(prioMap[q][PriorityOf[o]])
<1>1. /\ opQueue[q] \in Seq(Ops) /\ Distinct(opQueue[q])
      /\ \A p \in Priorities : prioMap[q][p] \in Seq(Ops) /\ Distinct(prioMap[q][p])
  BY DEF EntryType, ListsAgree
<1>2. \A p \in Priorities, x \in Ops :
        x \in Elements(prioMap[q][p]) <=> x \in Elements(opQueue[q]) /\ PriorityOf[x] = p
  BY DEF ListsAgree
<1>3. \A x \in Ops : PriorityOf[x] \in Priorities
  BY PlacementAssumption
<1>4. \A seq \in Seq(Ops) : \A x \in Elements(seq) : x \in Ops /\ seq # <<>>
  BY DEF Elements
<1> DEFINE h == Head(opQueue[q])
<1>5. h \in Elements(opQueue[q]) /\ h \in Ops
  BY <1>1, TailElements, <1>4
<1>6. CASE byPriority
  <2> DEFINE P == {p \in Priorities : prioMap[q][p] # <<>>}
             top == HighestPriority(q)
  <2>1. PriorityOf[h] \in P
    BY <1>1, <1>2, <1>3, <1>4, <1>5
  <2>2. \E p \in P : \A r \in P : r <= p
    BY <2>1, HighestExists
  <2>3. top \in Priorities /\ prioMap[q][top] # <<>>
    <3>1. \E p \in Priorities :
            /\ prioMap[q][p] # <<>>
            /\ \A r \in Priorities : prioMap[q][r] # <<>> => r <= p
      BY <2>2
    <3> QED
      BY <3>1 DEF HighestPriority
  <2>4. o = Head(prioMap[q][top])
    BY <1>6 DEF NextOperation
  <2> HIDE DEF top
  <2>5. o \in Elements(prioMap[q][top])
    BY <1>1, <2>3, <2>4, TailElements
  <2>6. o \in Ops /\ PriorityOf[o] = top /\ o \in Elements(opQueue[q])
    BY <1>1, <1>2, <1>4, <2>3, <2>5
  <2> QED
    BY <2>3, <2>4, <2>6
<1>7. CASE ~byPriority
  <2> DEFINE b == prioMap[q][PriorityOf[o]]
  <2>1. o = h
    BY <1>7 DEF NextOperation
  <2>2. o \in Elements(b) /\ b \in Seq(Ops) /\ b # <<>> /\ Distinct(b)
    BY <1>1, <1>2, <1>3, <1>4, <1>5, <2>1
  <2>3. Head(b) \in Ops
    BY <2>2
  <2>4. ~Before(opQueue[q], Head(b), o)
    BY <1>1, <1>5, <2>1, HeadBefore
  <2>5. ~Before(b, Head(b), o)
    BY <1>3, <1>5, <2>1, <2>3, <2>4 DEF ListsAgree
  <2>6. o = Head(b)
    BY <2>2, <2>5, HeadBefore
  <2> QED
    BY <1>5, <2>1, <2>2, <2>6
<1> QED
  BY <1>6, <1>7

\* Taking the first of a bucket keeps the two lists in step.
LEMMA PopLists ==
  ASSUME EntryType, OpType, ListsAgree, NEW q \in Queues,
         NEW o \in Ops, o \in Elements(opQueue[q]),
         prioMap[q][PriorityOf[o]] # <<>>, o = Head(prioMap[q][PriorityOf[o]]),
         popNextOperation(q, o),
         opState' = [opState EXCEPT ![o] = "running"]
  PROVE  EntryType' /\ ListsAgree'
<1> DEFINE Q == Without(opQueue[q], o)
           c == PriorityOf[o]
           B == Tail(prioMap[q][c])
<1>1. c \in Priorities
  BY PlacementAssumption
<1>2. opQueue[q] \in Seq(Ops) /\ Distinct(opQueue[q])
  BY DEF EntryType, ListsAgree
<1>3. prioMap[q][c] \in Seq(Ops) /\ Distinct(prioMap[q][c])
  BY <1>1 DEF EntryType, ListsAgree
<1>4. Q \in Seq(Ops) /\ Distinct(Q) /\ Elements(Q) = Elements(opQueue[q]) \ {o}
  BY <1>2, WithoutElements
<1>5. B \in Seq(Ops) /\ Distinct(B) /\ Elements(B) = Elements(prioMap[q][c]) \ {o}
  BY <1>3, TailElements
<1>6. \A x, y : Before(B, x, y) => Before(prioMap[q][c], x, y) /\ x # o /\ y # o
  BY <1>3, TailBefore
<1>7. \A x, y : Before(opQueue[q], x, y) /\ x # o /\ y # o => Before(Q, x, y)
  BY <1>2, WithoutBefore
<1>8. /\ opQueue' = [opQueue EXCEPT ![q] = Q]
      /\ prioMap' = [prioMap EXCEPT ![q][c] = B]
  BY DEF popNextOperation
<1> HIDE DEF Q, B
<1>9. EntryType'
  BY <1>1, <1>4, <1>5, <1>8 DEF EntryType
<1>10. /\ \A a \in Queues : opQueue'[a] = IF a = q THEN Q ELSE opQueue[a]
       /\ \A a \in Queues, p \in Priorities :
            prioMap'[a][p] = IF a = q /\ p = c THEN B ELSE prioMap[a][p]
  BY <1>1, <1>8 DEF EntryType
<1>11. /\ \A a \in Queues : Distinct(opQueue'[a])
       /\ \A a \in Queues, p \in Priorities : Distinct(prioMap'[a][p])
  BY <1>4, <1>5, <1>10 DEF ListsAgree
<1>12. ASSUME NEW a \in Queues, NEW p \in Priorities
       PROVE  Elements(prioMap'[a][p]) = {x \in Elements(opQueue'[a]) : PriorityOf[x] = p}
  <2>1. Elements(prioMap[a][p]) = {x \in Elements(opQueue[a]) : PriorityOf[x] = p}
    BY DEF ListsAgree
  <2>2. CASE a = q /\ p = c
    BY <1>4, <1>5, <1>10, <2>1, <2>2
  <2>3. CASE a = q /\ p # c
    BY <1>4, <1>10, <2>1, <2>3
  <2>4. CASE a # q
    BY <1>10, <2>1, <2>4
  <2> QED
    BY <2>2, <2>3, <2>4
<1>13. ASSUME NEW a \in Queues, NEW p \in Priorities, NEW x \in Ops, NEW y \in Ops,
              Before(prioMap'[a][p], x, y)
       PROVE  Before(opQueue'[a], x, y)
  <2>1. Before(prioMap[a][p], x, y) => Before(opQueue[a], x, y)
    BY DEF ListsAgree
  <2>2. CASE a = q /\ p = c
    BY <1>6, <1>7, <1>10, <1>13, <2>1, <2>2
  <2>3. CASE a = q /\ p # c
    <3>1. Before(prioMap[a][p], x, y)
      BY <1>10, <1>13, <2>3
    <3>2. x \in Elements(prioMap[a][p]) /\ y \in Elements(prioMap[a][p])
      BY <3>1 DEF Before, Elements
    <3>3. PriorityOf[x] = p /\ PriorityOf[y] = p
      BY <3>2 DEF ListsAgree
    <3> QED
      BY <1>7, <1>10, <2>1, <2>3, <3>1, <3>3
  <2>4. CASE a # q
    BY <1>10, <1>13, <2>1, <2>4
  <2> QED
    BY <2>2, <2>3, <2>4
<1>14. ASSUME NEW a \in Queues, NEW x \in Ops, x \in Elements(opQueue'[a])
       PROVE  QueueOf[x] = a /\ opState'[x] = "queued"
  <2>1. x \in Elements(opQueue[a]) /\ (a = q => x # o)
    BY <1>4, <1>10, <1>14
  <2>2. QueueOf[x] = a /\ opState[x] = "queued" /\ QueueOf[o] = q
    BY <2>1 DEF ListsAgree
  <2> QED
    BY <2>1, <2>2 DEF OpType
<1> QED
  BY <1>9, <1>11, <1>12, <1>13, <1>14 DEF ListsAgree

\* So does appending an operation to both.
LEMMA PushLists ==
  ASSUME EntryType, OpType, ListsAgree,
         NEW o \in Ops, opState[o] = "new",
         pushOperation(o),
         opState' = [opState EXCEPT ![o] = "queued"]
  PROVE  EntryType' /\ ListsAgree'
<1> DEFINE q == QueueOf[o]
           c == PriorityOf[o]
           Q == Append(opQueue[q], o)
           B == Append(prioMap[q][c], o)
<1>1. q \in Queues /\ c \in Priorities
  BY PlacementAssumption
<1>2. opQueue[q] \in Seq(Ops) /\ Distinct(opQueue[q]) /\ o \notin Elements(opQueue[q])
  BY <1>1 DEF EntryType, ListsAgree
<1>3. /\ prioMap[q][c] \in Seq(Ops) /\ Distinct(prioMap[q][c])
      /\ o \notin Elements(prioMap[q][c])
  BY <1>1, <1>2 DEF EntryType, ListsAgree
<1>4. Q \in Seq(Ops) /\ Distinct(Q) /\ Elements(Q) = Elements(opQueue[q]) \cup {o}
  BY <1>2, AppendElements
<1>5. B \in Seq(Ops) /\ Distinct(B) /\ Elements(B) = Elements(prioMap[q][c]) \cup {o}
  BY <1>3, AppendElements
<1>6. \A x, y : Before(B, x, y) <=>
                  Before(prioMap[q][c], x, y) \/ (x \in Elements(prioMap[q][c]) /\ y = o)
  BY <1>3, AppendBefore
<1>7. \A x, y : Before(Q, x, y) <=>
                  Before(opQueue[q], x, y) \/ (x \in Elements(opQueue[q]) /\ y = o)
  BY <1>2, AppendBefore
<1>8. /\ opQueue' = [opQueue EXCEPT ![q] = Q]
      /\ prioMap' = [prioMap EXCEPT ![q][c] = B]
  BY DEF pushOperation
<1> HIDE DEF q, c, Q, B
<1>9. EntryType'
  BY <1>1, <1>4, <1>5, <1>8 DEF EntryType
<1>10. /\ \A a \in Queues : opQueue'[a] = IF a = q THEN Q ELSE opQueue[a]
       /\ \A a \in Queues, p \in Priorities :
            prioMap'[a][p] = IF a = q /\ p = c THEN B ELSE prioMap[a][p]
  BY <1>1, <1>8 DEF EntryType
<1>11. /\ \A a \in Queues : Distinct(opQueue'[a])
       /\ \A a \in Queues, p \in Priorities : Distinct(prioMap'[a][p])
  BY <1>4, <1>5, <1>10 DEF ListsAgree
<1>12. ASSUME NEW a \in Queues, NEW p \in Priorities
       PROVE  Elements(prioMap'[a][p]) = {x \in Elements(opQueue'[a]) : PriorityOf[x] = p}
  <2>1. Elements(prioMap[a][p]) = {x \in Elements(opQueue[a]) : PriorityOf[x] = p}
    BY DEF ListsAgree
  <2>2. CASE a = q /\ p = c
    BY <1>4, <1>5, <1>10, <2>1, <2>2 DEF c
  <2>3. CASE a = q /\ p # c
    BY <1>4, <1>10, <2>1, <2>3 DEF c
  <2>4. CASE a # q
    BY <1>10, <2>1, <2>4
  <2> QED
    BY <2>2, <2>3, <2>4
<1>13. ASSUME NEW a \in Queues, NEW p \in Priorities, NEW x \in Ops, NEW y \in Ops,
              Before(prioMap'[a][p], x, y)
       PROVE  Before(opQueue'[a], x, y)
  <2>1. Before(prioMap[a][p], x, y) => Before(opQueue[a], x, y)
    BY DEF ListsAgree
  <2>2. x \in Elements(prioMap[a][p]) => x \in Elements(opQueue[a])
    BY DEF ListsAgree
  <2> QED
    BY <1>6, <1>7, <1>10, <1>13, <2>1, <2>2
<1>14. ASSUME NEW a \in Queues, NEW x \in Ops, x \in Elements(opQueue'[a])
       PROVE  QueueOf[x] = a /\ opState'[x] = "queued"
  BY <1>4, <1>10, <1>14 DEF ListsAgree, OpType, q
<1> QED
  BY <1>9, <1>11, <1>12, <1>13, <1>14 DEF ListsAgree

-----------------------------------------------------------------------------
(* Counters.                                                               *)

\* A worker that appears, disappears or goes on.
LEMMA AliveChanges ==
  ASSUME WorkerType, NEW q \in Queues, NEW s \in Threads, NEW w \in Doing,
         pc' = [pc EXCEPT ![q][s] = w]
  PROVE  /\ \A a \in Queues, b \in Threads :
              pc'[a][b] = IF a = q /\ b = s THEN w ELSE pc[a][b]
         /\ pc' \in [Queues -> [Threads -> Doing]]
         /\ \A a \in Queues :
              Alive(a)' = IF a # q THEN Alive(a)
                          ELSE IF w = "idle" THEN Alive(q) \ {s} ELSE Alive(q) \cup {s}
<1>1. \A a \in Queues, b \in Threads :
        pc'[a][b] = IF a = q /\ b = s THEN w ELSE pc[a][b]
  BY DEF WorkerType
<1>2. pc' \in [Queues -> [Threads -> Doing]]
  BY DEF WorkerType
<1> QED
  BY <1>1, <1>2 DEF Alive

\* A worker that goes on is alive before and after.
LEMMA GoesOn ==
  ASSUME IInv, NEW q \in Queues, NEW s \in Threads, NEW w \in Doing \ {"idle"},
         pc[q][s] # "idle", pc' = [pc EXCEPT ![q][s] = w], UNCHANGED threadCount
  PROVE  ThreadsCounted'
<1>1. \A a \in Queues : Alive(a)' = Alive(a)
  BY AliveChanges DEF IInv, Alive
<1> QED
  BY <1>1 DEF IInv, ThreadsCounted

\* One operation more, or less, in a finite set of them.
LEMMA OneMoreOrLess ==
  ASSUME NEW A \in SUBSET Ops, NEW o \in Ops
  PROVE  /\ Cardinality(A) \in Nat
         /\ o \notin A => Cardinality(A \cup {o}) = Cardinality(A) + 1
         /\ o \in A => Cardinality(A \ {o}) = Cardinality(A) - 1
         /\ o \in A => Cardinality(A) > 0
         /\ Cardinality(A) = 0 <=> A = {}
<1>1. IsFiniteSet(A) /\ Cardinality(A) \in Nat
  BY FiniteAssumption, FS_Subset, FS_CardinalityType
<1>2. /\ o \notin A => Cardinality(A \cup {o}) = Cardinality(A) + 1
      /\ o \in A => Cardinality(A \ {o}) = Cardinality(A) - 1
  BY <1>1, FS_AddElement, FS_RemoveElement
<1>3. Cardinality(A) = 0 <=> A = {}
  BY <1>1, FS_EmptySet
<1> QED
  BY <1>1, <1>2, <1>3

\* What leave() does, case by case.
LEMMA LeaveCases ==
  ASSUME GroupType, NEW g \in Groups, leave(g)
  PROVE  /\ pending' = [pending EXCEPT ![g] = pending[g] - 1]
         /\ pending[g] # 1 =>
              notified' = notified /\ notifyList' = notifyList /\ group' = group
         /\ pending[g] = 1 =>
              /\ notified' = notified \o notifyList[g]
              /\ notifyList' = [notifyList EXCEPT ![g] = <<>>]
              /\ releaseCalled[g] => group' = [group EXCEPT ![g] = "deleted"]
              /\ ~releaseCalled[g] => group' = group
<1>1. pending' = [pending EXCEPT ![g] = pending[g] - 1]
  BY DEF leave
<1>2. CASE pending[g] # 1
  BY <1>1, <1>2 DEF leave
<1>3. CASE pending[g] = 1
  <2>1. /\ notified' = notified \o notifyList[g]
        /\ notifyList' = [notifyList EXCEPT ![g] = <<>>]
        /\ group' = [group EXCEPT ![g] = IF releaseCalled[g] THEN "deleted" ELSE group[g]]
    BY <1>3, Zenon DEF leave
  <2>2. [group EXCEPT ![g] = group[g]] = group
    BY DEF GroupType
  <2>3. CASE releaseCalled[g]
    BY <1>1, <1>3, <2>1, <2>3, Zenon
  <2>4. CASE ~releaseCalled[g]
    BY <1>1, <1>3, <2>1, <2>2, <2>4, Zenon
  <2> QED
    BY <2>3, <2>4
<1> QED
  BY <1>2, <1>3

\* leave(), when the counter still counts: the new counter is zero only if the
\* group has nothing unfinished, so nobody loses a group it still needs.
LEMMA LeaveKeeps ==
  ASSUME IInv, NEW g \in Groups, pending[g] > 0, leave(g),
         UNCHANGED <<releaseCalled, respect, waiting>>
  PROVE  GroupType' /\ MainType' /\ FlagsType' /\ WaitingOwned' /\ NotifyHome'
<1>1. /\ pending' = [pending EXCEPT ![g] = pending[g] - 1]
      /\ notifyList' = notifyList \/ notifyList' = [notifyList EXCEPT ![g] = <<>>]
      /\ group' = group
         \/ (~Owned(g) /\ group' = [group EXCEPT ![g] = "deleted"])
      /\ notified' = notified \/ notified' = notified \o notifyList[g]
  BY LeaveCases, Zenon DEF IInv, Owned
<1>2. GroupType'
  <2>1. pending[g] \in Nat /\ pending[g] - 1 \in Nat /\ <<>> \in Seq(Notifies)
    BY DEF IInv, GroupType
  <2> QED
    BY <1>1, <2>1 DEF IInv, GroupType
<1>3. MainType'
  <2>1. notifyList[g] \in Seq(Notifies) /\ notified \in Seq(Notifies)
    BY DEF IInv, GroupType, MainType
  <2>2. notified \o notifyList[g] \in Seq(Notifies)
    BY <2>1
  <2> QED
    BY <1>1, <2>2 DEF IInv, MainType
<1>4. FlagsType'
  BY DEF leave, IInv, FlagsType
<1>5. WaitingOwned'
  <2>1. waiting # NoGroup => waiting \in Groups /\ Owned(waiting)
    BY DEF IInv, WaitingOwned, MainType
  <2>2. waiting # NoGroup /\ group' # group => group' = [group EXCEPT ![g] = "deleted"] /\ waiting # g
    BY <1>1, <2>1
  <2>3. waiting # NoGroup => group'[waiting] = group[waiting]
    BY <2>1, <2>2 DEF IInv, GroupType
  <2> QED
    BY <2>1, <2>3, Zenon DEF WaitingOwned, Owned
<1>6. NotifyHome'
  <2>1. \A h \in Groups : notifyList'[h] = notifyList[h] \/ notifyList'[h] = <<>>
    BY <1>1 DEF IInv, GroupType
  <2>2. DOMAIN <<>> = {}
    OBVIOUS
  <2> QED
    BY <2>1, <2>2 DEF IInv, NotifyHome
<1> QED
  BY <1>2, <1>3, <1>4, <1>5, <1>6

\* leave() counts one block, or one asynchronous part, less.
LEMMA LeaveCounts ==
  ASSUME IInv, NEW g \in Groups, leave(g),
         \A h \in Groups : h # g => /\ BlocksOf(h)' = BlocksOf(h)
                                  /\ AsyncPartsOf(h)' = AsyncPartsOf(h),
         \/ /\ Cardinality(BlocksOf(g)') = Cardinality(BlocksOf(g)) - 1
            /\ AsyncPartsOf(g)' = AsyncPartsOf(g)
         \/ /\ Cardinality(AsyncPartsOf(g)') = Cardinality(AsyncPartsOf(g)) - 1
            /\ BlocksOf(g)' = BlocksOf(g)
  PROVE  PendingIsUnfinished'
<1>1. pending' = [pending EXCEPT ![g] = pending[g] - 1]
  BY LeaveCases DEF IInv
<1>2. pending'[g] = pending[g] - 1 /\ \A h \in Groups : h # g => pending'[h] = pending[h]
  BY <1>1 DEF IInv, GroupType
<1>3. /\ Cardinality(BlocksOf(g)) \in Nat /\ Cardinality(AsyncPartsOf(g)) \in Nat
      /\ pending[g] = Cardinality(BlocksOf(g)) + Cardinality(AsyncPartsOf(g))
  BY Finite DEF IInv, PendingIsUnfinished
<1>4. pending'[g] = Cardinality(BlocksOf(g)') + Cardinality(AsyncPartsOf(g)')
  BY <1>2, <1>3
<1> QED
  BY <1>2, <1>4 DEF IInv, PendingIsUnfinished

\* ZeroIsDrained, of the state after a step.
LEMMA DrainedNext ==
  ASSUME OpType', PendingIsUnfinished', NEW g \in Groups, pending'[g] = 0
  PROVE  Unfinished(g)' = {}
<1>1. BlocksOf(g)' \in SUBSET Ops /\ AsyncPartsOf(g)' \in SUBSET Ops
  BY PlacementAssumption DEF BlocksOf, AsyncPartsOf, OpType
<1>2. IsFiniteSet(BlocksOf(g)') /\ IsFiniteSet(AsyncPartsOf(g)')
  BY <1>1, FiniteAssumption, FS_Subset
<1>3. Cardinality(BlocksOf(g)') + Cardinality(AsyncPartsOf(g)') = 0
  BY DEF PendingIsUnfinished
<1>4. BlocksOf(g)' = {} /\ AsyncPartsOf(g)' = {}
  BY <1>2, <1>3, FS_CardinalityType, FS_EmptySet
<1> QED
  BY <1>4 DEF Unfinished

\* A group is deleted by leave() only when its counter becomes zero.
LEMMA LeaveDeletes ==
  ASSUME IInv, NEW g \in Groups, pending[g] > 0, leave(g),
         UNCHANGED <<releaseCalled, waiting>>, OpType', PendingIsUnfinished',
         \A h \in Groups : Unfinished(h)' \subseteq Unfinished(h)
  PROVE  GroupOutlivesWork'
<1>1. CASE group' = group
  BY <1>1 DEF IInv, GroupOutlivesWork
<1>2. CASE group' # group
  <2>1. /\ pending[g] = 1 /\ releaseCalled[g]
        /\ group' = [group EXCEPT ![g] = "deleted"]
        /\ pending' = [pending EXCEPT ![g] = pending[g] - 1]
    BY <1>2, LeaveCases DEF IInv
  <2>2. pending'[g] = 0
    BY <2>1 DEF IInv, GroupType
  <2>6. Unfinished(g)' = {}
    BY <2>2, DrainedNext
  <2>7. waiting # g
    BY <2>1, NullAssumption DEF IInv, WaitingOwned, Owned
  <2> QED
    BY <2>1, <2>6, <2>7 DEF IInv, GroupOutlivesWork, GroupType
<1> QED
  BY <1>1, <1>2

-----------------------------------------------------------------------------
(* The steps of a worker block.                                            *)

\* The worker takes an operation that was queued, so nobody else holds it.
LEMMA PopOperationKeeps ==
  ASSUME IInv, NEW q \in Queues, NEW s \in Threads, PopOperation(q, s)
  PROVE  IInv'
<1> DEFINE o == NextOperation(q, respect[q][s])
<1>a. /\ o \in Ops /\ o \in Elements(opQueue[q])
      /\ prioMap[q][PriorityOf[o]] # <<>> /\ o = Head(prioMap[q][PriorityOf[o]])
      /\ popNextOperation(q, o)
      /\ QueueOf[o] = q /\ opState[o] = "queued"
      /\ opQueue[q] # <<>>
      /\ pc[q][s] # "idle" /\ UNCHANGED threadCount
      /\ pc' = [pc EXCEPT ![q][s] = "running"]
      /\ op' = [op EXCEPT ![q][s] = o]
      /\ opState' = [opState EXCEPT ![o] = "running"]
  <2>1. respect[q][s] \in BOOLEAN
    BY DEF IInv, FlagsType
  <2>2. opQueue[q] # <<>> /\ pc[q][s] # "idle" /\ UNCHANGED threadCount
    BY DEF PopOperation, CanRun
  <2>3. /\ o \in Ops /\ o \in Elements(opQueue[q])
        /\ prioMap[q][PriorityOf[o]] # <<>> /\ o = Head(prioMap[q][PriorityOf[o]])
    BY <2>1, <2>2, NextIsFirst DEF IInv
  <2>4. QueueOf[o] = q /\ opState[o] = "queued"
    BY <2>3 DEF IInv, ListsAgree
  <2>5. /\ popNextOperation(q, o)
        /\ pc' = [pc EXCEPT ![q][s] = "running"]
        /\ op' = [op EXCEPT ![q][s] = o]
        /\ opState' = [opState EXCEPT ![o] = "running"]
    BY DEF PopOperation
  <2> QED
    BY <2>2, <2>3, <2>4, <2>5
<1> HIDE DEF o
<1>1. EntryType' /\ ListsAgree'
  BY <1>a, PopLists DEF IInv
<1>2. WorkerType'
  BY <1>a, AliveChanges DEF IInv, WorkerType, Doing
<1>3. OpType'
  BY <1>a DEF IInv, OpType, PopOperation
<1>4. WorkersHold'
  <2>1. \A a \in Queues, b \in Threads :
          /\ pc'[a][b] = IF a = q /\ b = s THEN "running" ELSE pc[a][b]
          /\ op'[a][b] = IF a = q /\ b = s THEN o ELSE op[a][b]
    BY <1>a DEF IInv, WorkerType
  <2>2. \A x \in Ops : opState'[x] = IF x = o THEN "running" ELSE opState[x]
    BY <1>a DEF IInv, OpType
  <2>3. \A a \in Queues, b \in Threads : Busy(a, b) => op[a][b] \in Ops /\ op[a][b] # o
    BY <1>a DEF IInv, WorkersHold, Holds, Busy
  <2>4. o \notin asyncOpen /\ asyncOpen' = asyncOpen
    BY <1>a DEF IInv, AsyncStarted, PopOperation
  <2> QED
    BY <1>a, <2>1, <2>2, <2>3, <2>4 DEF IInv, WorkersHold, Holds, Busy
<1>5. AsyncStarted'
  BY <1>a DEF IInv, AsyncStarted, OpType, PopOperation
<1>6. ThreadsCounted'
  BY <1>a, GoesOn DEF Doing
<1>7. QueueServed'
  <2>1. threadCount' = threadCount /\ threadCount[q] > 0
    BY <1>a DEF IInv, QueueServed, PopOperation
  <2>2. \A a \in Queues : a # q => opQueue'[a] = opQueue[a]
    BY <1>a DEF IInv, EntryType, popNextOperation
  <2> QED
    BY <2>1, <2>2 DEF IInv, QueueServed
<1>8. PendingIsUnfinished' /\ GroupOutlivesWork'
  <2>1. /\ \A g \in Groups : BlocksOf(g)' = BlocksOf(g) /\ AsyncPartsOf(g)' = AsyncPartsOf(g)
        /\ UNCHANGED <<pending, group, waiting>>
    BY <1>a DEF IInv, OpType, BlocksOf, AsyncPartsOf, PopOperation, groupVars, mainVars
  <2> QED
    BY <2>1 DEF IInv, PendingIsUnfinished, GroupOutlivesWork, Unfinished
<1>9. GroupType' /\ MainType' /\ FlagsType' /\ WaitingOwned' /\ NotifyHome'
  BY KeepGroupType, KeepMainType, KeepFlagsType, KeepWaitingOwned, KeepNotifyHome
  DEF PopOperation, IInv, entryVars, workerVars, groupVars, mainVars
<1> QED
  BY <1>1, <1>2, <1>3, <1>4, <1>5, <1>6, <1>7, <1>8, <1>9 DEF IInv

\* The last worker erases an entry that is empty already.
LEMMA ExitThreadKeeps ==
  ASSUME IInv, NEW q \in Queues, NEW s \in Threads, ExitThread(q, s)
  PROVE  IInv'
<1>a. /\ pc[q][s] # "idle" /\ opQueue[q] = <<>>
      /\ pc' = [pc EXCEPT ![q][s] = "idle"]
      /\ threadCount' = [threadCount EXCEPT ![q] = @ - 1]
      /\ threadCount[q] \in 1 .. MaxThreads
  <2>1. pc[q][s] # "idle"
    BY DEF ExitThread, CanRun
  <2>2. s \in Alive(q) /\ IsFiniteSet(Alive(q))
    BY <2>1, AliveFinite DEF Alive
  <2>3. Cardinality(Alive(q)) # 0
    BY <2>2, FS_EmptySet
  <2>4. threadCount[q] \in 1 .. MaxThreads
    BY <2>3, ThreadsAssumption DEF IInv, ThreadsCounted, WorkerType
  <2> QED
    BY <2>1, <2>4 DEF ExitThread
<1>1. EntryType'
  <2>1. <<>> \in Seq(Ops) /\ [p \in Priorities |-> <<>>] \in [Priorities -> Seq(Ops)]
    OBVIOUS
  <2> QED
    BY <2>1 DEF ExitThread, IInv, EntryType
<1>2. WorkerType'
  <2>1. threadCount' \in [Queues -> 0 .. MaxThreads]
    BY <1>a, ThreadsAssumption DEF IInv, WorkerType
  <2>2. pc' \in [Queues -> [Threads -> Doing]]
    BY <1>a, AliveChanges DEF IInv, Doing
  <2> QED
    BY <2>1, <2>2 DEF IInv, WorkerType, ExitThread
<1>3. ListsAgree'
  <2>1. \A p \in Priorities : prioMap[q][p] = <<>>
    <3>1. opQueue[q] \in Seq(Ops) /\ \A p \in Priorities : prioMap[q][p] \in Seq(Ops)
      BY DEF IInv, EntryType
    <3>2. Elements(opQueue[q]) = {}
      BY <1>a, <3>1, EmptyElements
    <3>3. \A p \in Priorities : Elements(prioMap[q][p]) = {}
      BY <3>2 DEF IInv, ListsAgree
    <3> QED
      BY <3>1, <3>3, EmptyElements
  <2>2. opQueue' = opQueue
    BY <1>a DEF ExitThread, IInv, EntryType
  <2>3. prioMap' = prioMap
    BY <2>1 DEF ExitThread, IInv, EntryType
  <2> QED
    BY <2>2, <2>3, KeepListsAgree DEF ExitThread, IInv
<1>4. WorkersHold'
  <2>1. \A a \in Queues, b \in Threads :
          pc'[a][b] = IF a = q /\ b = s THEN "idle" ELSE pc[a][b]
    BY <1>a DEF IInv, WorkerType
  <2> QED
    BY <2>1 DEF ExitThread, IInv, WorkersHold, Holds, Busy
<1>5. ThreadsCounted'
  <2>1. Alive(q)' = Alive(q) \ {s} /\ \A a \in Queues : a # q => Alive(a)' = Alive(a)
    <3>1. "idle" \in Doing
      BY DEF Doing
    <3>2. \A a \in Queues :
            Alive(a)' = IF a # q THEN Alive(a)
                        ELSE IF "idle" = "idle" THEN Alive(q) \ {s} ELSE Alive(q) \cup {s}
      BY <1>a, <3>1, AliveChanges DEF IInv
    <3> QED
      BY <3>2
  <2>2. s \in Alive(q) /\ IsFiniteSet(Alive(q))
    BY <1>a, AliveFinite DEF Alive
  <2>3. Cardinality(Alive(q) \ {s}) = Cardinality(Alive(q)) - 1
    BY <2>2, FS_RemoveElement
  <2> QED
    BY <1>a, <2>1, <2>3 DEF IInv, ThreadsCounted, WorkerType
<1>6. QueueServed'
  <2>1. \A a \in Queues : opQueue'[a] = opQueue[a]
    BY <1>a DEF ExitThread, IInv, EntryType
  <2> QED
    BY <1>a, <2>1 DEF IInv, QueueServed, WorkerType
<1>7. OpType' /\ GroupType' /\ MainType' /\ FlagsType' /\ AsyncStarted'
  BY KeepOpType, KeepGroupType, KeepMainType, KeepFlagsType, KeepAsyncStarted
  DEF ExitThread, IInv, entryVars, workerVars, groupVars, mainVars
<1>8. PendingIsUnfinished' /\ GroupOutlivesWork' /\ WaitingOwned' /\ NotifyHome'
  BY KeepPendingIsUnfinished, KeepGroupOutlivesWork, KeepWaitingOwned, KeepNotifyHome
  DEF ExitThread, IInv, entryVars, workerVars, groupVars, mainVars
<1> QED
  BY <1>1, <1>2, <1>3, <1>4, <1>5, <1>6, <1>7, <1>8 DEF IInv

\* The block of an operation runs.
LEMMA RunBlockKeeps ==
  ASSUME IInv, NEW q \in Queues, NEW s \in Threads, RunBlock(q, s)
  PROVE  IInv'
<1>a. /\ pc[q][s] = "running" /\ pc' = [pc EXCEPT ![q][s] = "leaving"]
      /\ UNCHANGED threadCount
  BY DEF RunBlock, entryVars
<1>1. WorkerType'
  BY <1>a, AliveChanges DEF IInv, WorkerType, Doing, RunBlock, entryVars
<1>2. WorkersHold'
  <2>1. \A a \in Queues, b \in Threads :
          pc'[a][b] = IF a = q /\ b = s THEN "leaving" ELSE pc[a][b]
    BY <1>a DEF IInv, WorkerType
  <2> QED
    BY <1>a, <2>1 DEF RunBlock, IInv, WorkersHold, Holds, Busy
<1>3. ThreadsCounted'
  BY <1>a, GoesOn DEF Doing
<1>4. EntryType' /\ OpType' /\ GroupType' /\ MainType' /\ FlagsType'
  BY KeepEntryType, KeepOpType, KeepGroupType, KeepMainType, KeepFlagsType
  DEF RunBlock, IInv, entryVars, workerVars, groupVars, mainVars
<1>5. ListsAgree' /\ AsyncStarted' /\ QueueServed' /\ PendingIsUnfinished' /\ GroupOutlivesWork'
  BY KeepListsAgree, KeepAsyncStarted, KeepQueueServed, KeepPendingIsUnfinished, KeepGroupOutlivesWork
  DEF RunBlock, IInv, entryVars, workerVars, groupVars, mainVars
<1>6. WaitingOwned' /\ NotifyHome'
  BY KeepWaitingOwned, KeepNotifyHome
  DEF RunBlock, IInv, entryVars, workerVars, groupVars, mainVars
<1> QED
  BY <1>1, <1>2, <1>3, <1>4, <1>5, <1>6 DEF IInv

\* The worker drops an operation that has left.
LEMMA FreeBlockKeeps ==
  ASSUME IInv, NEW q \in Queues, NEW s \in Threads, FreeBlock(q, s)
  PROVE  IInv'
<1>a. /\ pc[q][s] = "freeing" /\ pc' = [pc EXCEPT ![q][s] = "polling"]
      /\ op' = [op EXCEPT ![q][s] = NoOp]
      /\ UNCHANGED threadCount
  BY DEF FreeBlock, entryVars
<1>1. WorkerType'
  BY <1>a, AliveChanges DEF IInv, WorkerType, Doing
<1>2. WorkersHold'
  <2>1. \A a \in Queues, b \in Threads :
          /\ pc'[a][b] = IF a = q /\ b = s THEN "polling" ELSE pc[a][b]
          /\ op'[a][b] = IF a = q /\ b = s THEN NoOp ELSE op[a][b]
    BY <1>a DEF IInv, WorkerType
  <2> QED
    BY <1>a, <2>1 DEF FreeBlock, IInv, WorkersHold, Holds, Busy
<1>3. ThreadsCounted'
  BY <1>a, GoesOn DEF Doing
<1>4. EntryType' /\ OpType' /\ GroupType' /\ MainType' /\ FlagsType'
  BY KeepEntryType, KeepOpType, KeepGroupType, KeepMainType, KeepFlagsType
  DEF FreeBlock, IInv, entryVars, workerVars, groupVars, mainVars
<1>5. ListsAgree' /\ AsyncStarted' /\ QueueServed' /\ PendingIsUnfinished' /\ GroupOutlivesWork'
  BY KeepListsAgree, KeepAsyncStarted, KeepQueueServed, KeepPendingIsUnfinished, KeepGroupOutlivesWork
  DEF FreeBlock, IInv, entryVars, workerVars, groupVars, mainVars
<1>6. WaitingOwned' /\ NotifyHome'
  BY KeepWaitingOwned, KeepNotifyHome
  DEF FreeBlock, IInv, entryVars, workerVars, groupVars, mainVars
<1> QED
  BY <1>1, <1>2, <1>3, <1>4, <1>5, <1>6 DEF IInv

\* An asynchronous part is entered before its block leaves, so the counter stays
\* positive.
LEMMA RunAsyncBlockKeeps ==
  ASSUME IInv, NEW q \in Queues, NEW s \in Threads, RunAsyncBlock(q, s)
  PROVE  IInv'
<1>p. PICK o, g : o = op[q][s] /\ g = GroupOf[o]
  OBVIOUS
<1>a. /\ pc[q][s] = "running" /\ pc' = [pc EXCEPT ![q][s] = "leaving"]
      /\ o \in Async /\ o \in Ops /\ g \in Groups /\ GroupOf[o] = g
      /\ op[q][s] = o /\ QueueOf[o] = q
      /\ opState[o] = "running" /\ o \notin asyncOpen
      /\ asyncOpen' = asyncOpen \cup {o}
      /\ pending' = [pending EXCEPT ![g] = pending[g] + 1]
      /\ UNCHANGED threadCount
  BY <1>p, PlacementAssumption DEF RunAsyncBlock, enter, entryVars, IInv, WorkersHold, Holds, Busy
<1>1. WorkerType'
  BY <1>a, AliveChanges DEF IInv, WorkerType, Doing, RunAsyncBlock, entryVars
<1>2. OpType'
  BY <1>a DEF IInv, OpType, RunAsyncBlock
<1>3. GroupType'
  <2>1. pending[g] + 1 \in Nat
    BY <1>a DEF IInv, GroupType
  <2> QED
    BY <1>a, <2>1 DEF IInv, GroupType, RunAsyncBlock
<1>4. WorkersHold'
  <2>1. \A a \in Queues, b \in Threads :
          pc'[a][b] = IF a = q /\ b = s THEN "leaving" ELSE pc[a][b]
    BY <1>a DEF IInv, WorkerType
  <2>2. \A a \in Queues, b \in Threads :
          Busy(a, b) /\ op[a][b] = o => a = q /\ b = s
    BY <1>a DEF IInv, WorkersHold, Holds, Busy
  <2> QED
    BY <1>a, <2>1, <2>2 DEF RunAsyncBlock, IInv, WorkersHold, Holds, Busy
<1>5. AsyncStarted'
  BY <1>a DEF IInv, AsyncStarted, RunAsyncBlock
<1>6. ThreadsCounted'
  BY <1>a, GoesOn DEF Doing
<1>7. PendingIsUnfinished'
  <2>1. AsyncPartsOf(g) \in SUBSET Ops
    BY PlacementAssumption DEF AsyncPartsOf, IInv, OpType
  <2>2. /\ AsyncPartsOf(g)' = AsyncPartsOf(g) \cup {o} /\ o \notin AsyncPartsOf(g)
        /\ \A h \in Groups : h # g => AsyncPartsOf(h)' = AsyncPartsOf(h)
        /\ \A h \in Groups : BlocksOf(h)' = BlocksOf(h)
        /\ BlocksOf(g)' = BlocksOf(g)
    <3>1. asyncOpen' = asyncOpen \cup {o} /\ o \notin asyncOpen /\ GroupOf[o] = g
      BY <1>a
    <3>2. AsyncPartsOf(g)' = AsyncPartsOf(g) \cup {o} /\ o \notin AsyncPartsOf(g)
      BY <3>1 DEF AsyncPartsOf
    <3>3. ASSUME NEW h \in Groups, h # g PROVE AsyncPartsOf(h)' = AsyncPartsOf(h)
      <4>1. GroupOf[o] # h
        BY <3>1, <3>3
      <4> QED
        BY <3>1, <4>1 DEF AsyncPartsOf
    <3>4. \A h : BlocksOf(h)' = BlocksOf(h)
      BY DEF BlocksOf, RunAsyncBlock
    <3> QED
      BY <3>2, <3>3, <3>4
  <2>3. Cardinality(AsyncPartsOf(g)') = Cardinality(AsyncPartsOf(g)) + 1
    BY <1>a, <2>1, <2>2, OneMoreOrLess
  <2>4. pending'[g] = pending[g] + 1 /\ \A h \in Groups : h # g => pending'[h] = pending[h]
    BY <1>a DEF IInv, GroupType
  <2>5. /\ Cardinality(BlocksOf(g)) \in Nat /\ Cardinality(AsyncPartsOf(g)) \in Nat
        /\ pending[g] = Cardinality(BlocksOf(g)) + Cardinality(AsyncPartsOf(g))
    BY <1>a, Finite DEF IInv, PendingIsUnfinished
  <2>6. pending'[g] = Cardinality(BlocksOf(g)') + Cardinality(AsyncPartsOf(g)')
    BY <1>a, <2>2, <2>3, <2>4, <2>5
  <2> QED
    <3>1. ASSUME NEW h \in Groups, h # g
          PROVE  pending'[h] = Cardinality(BlocksOf(h)') + Cardinality(AsyncPartsOf(h)')
      BY <2>2, <2>4, <3>1 DEF IInv, PendingIsUnfinished
    <3> QED
      BY <2>6, <3>1 DEF PendingIsUnfinished
<1>8. GroupOutlivesWork'
  <2>1. \A h \in Groups : Unfinished(h)' # {} => Unfinished(h) # {}
    BY <1>a DEF Unfinished, BlocksOf, AsyncPartsOf, RunAsyncBlock
  <2> QED
    BY <2>1 DEF IInv, GroupOutlivesWork, RunAsyncBlock, mainVars
<1>9. EntryType' /\ MainType' /\ FlagsType' /\ ListsAgree' /\ QueueServed'
  BY KeepEntryType, KeepMainType, KeepFlagsType, KeepListsAgree, KeepQueueServed
  DEF RunAsyncBlock, IInv, entryVars, workerVars, groupVars, mainVars
<1>10. WaitingOwned' /\ NotifyHome'
  BY KeepWaitingOwned, KeepNotifyHome
  DEF RunAsyncBlock, IInv, entryVars, workerVars, groupVars, mainVars
<1> QED
  BY <1>1, <1>2, <1>3, <1>4, <1>5, <1>6, <1>7, <1>8, <1>9, <1>10 DEF IInv

\* The worker leaves the group with an operation only it holds.
LEMMA LeaveGroupKeeps ==
  ASSUME IInv, NEW q \in Queues, NEW s \in Threads, LeaveGroup(q, s)
  PROVE  IInv'
<1>p. PICK o, g : o = op[q][s] /\ g = GroupOf[o]
  OBVIOUS
<1>0. /\ o \in Ops /\ g \in Groups /\ opState[o] = "running" /\ pc[q][s] = "leaving"
      /\ QueueOf[o] = q
  BY <1>p, PlacementAssumption DEF LeaveGroup, IInv, WorkersHold, Holds, Busy
<1>b. BlocksOf(g) \in SUBSET Ops /\ o \in BlocksOf(g)
  BY <1>0, <1>p DEF BlocksOf
<1>c. pending[g] > 0
  <2>1. Cardinality(BlocksOf(g)) > 0
    BY <1>0, <1>b, OneMoreOrLess
  <2> QED
    BY <1>0, <2>1, Finite DEF IInv, PendingIsUnfinished
<1>a. /\ pc[q][s] = "leaving" /\ pc' = [pc EXCEPT ![q][s] = "freeing"]
      /\ o \in Ops /\ g \in Groups /\ opState[o] = "running" /\ GroupOf[o] = g
      /\ op[q][s] = o /\ QueueOf[o] = q
      /\ opState' = [opState EXCEPT ![o] = "left"]
      /\ leave(g) /\ pending[g] > 0
      /\ UNCHANGED <<threadCount, releaseCalled, respect, waiting>>
  BY <1>0, <1>c, <1>p DEF LeaveGroup, entryVars
<1>1. WorkerType'
  BY <1>a, AliveChanges DEF IInv, WorkerType, Doing, LeaveGroup, entryVars
<1>2. OpType'
  BY <1>a DEF IInv, OpType, LeaveGroup
<1>3. GroupType' /\ MainType' /\ FlagsType' /\ WaitingOwned' /\ NotifyHome'
  BY <1>a, LeaveKeeps
<1>4. ListsAgree'
  <2>1. \A a \in Queues, x \in Ops : x \in Elements(opQueue[a]) => x # o
    BY <1>a DEF IInv, ListsAgree
  <2>2. \A x \in Ops : x # o => opState'[x] = opState[x]
    BY <1>a DEF IInv, OpType
  <2> QED
    BY <2>1, <2>2 DEF IInv, ListsAgree, LeaveGroup, entryVars
<1>5. WorkersHold'
  <2>1. \A a \in Queues, b \in Threads :
          pc'[a][b] = IF a = q /\ b = s THEN "freeing" ELSE pc[a][b]
    BY <1>a DEF IInv, WorkerType
  <2>2. \A x \in Ops : x # o => opState'[x] = opState[x]
    BY <1>a DEF IInv, OpType
  <2>3. \A a \in Queues, b \in Threads :
          Busy(a, b) /\ op[a][b] = o => a = q /\ b = s
    BY <1>a DEF IInv, WorkersHold, Holds, Busy
  <2>4. \A a \in Queues, b \in Threads : Busy(a, b) => op[a][b] \in Ops
    BY DEF IInv, WorkersHold, Holds, Busy
  <2> QED
    BY <1>a, <2>1, <2>2, <2>3, <2>4 DEF LeaveGroup, IInv, WorkersHold, Holds, Busy
<1>6. AsyncStarted'
  BY <1>a DEF IInv, OpType, AsyncStarted, LeaveGroup
<1>7. ThreadsCounted'
  BY <1>a, GoesOn DEF Doing
<1>8. PendingIsUnfinished'
  <2>1. BlocksOf(g)' = BlocksOf(g) \ {o} /\ \A h \in Groups : h # g => BlocksOf(h)' = BlocksOf(h)
    <3>1. \A x \in Ops : opState'[x] = IF x = o THEN "left" ELSE opState[x]
      BY <1>a DEF IInv, OpType
    <3>2. \A x \in Ops : opState'[x] \in {"queued", "running"} <=>
                        x # o /\ opState[x] \in {"queued", "running"}
      BY <1>a, <3>1
    <3>3. BlocksOf(g)' = BlocksOf(g) \ {o}
      BY <3>2 DEF BlocksOf
    <3>4. ASSUME NEW h \in Groups, h # g PROVE BlocksOf(h)' = BlocksOf(h)
      <4>1. GroupOf[o] # h
        BY <1>a, <3>4
      <4> QED
        BY <3>2, <4>1 DEF BlocksOf
    <3> QED
      BY <3>3, <3>4
  <2>2. \A h \in Groups : AsyncPartsOf(h)' = AsyncPartsOf(h)
    BY DEF AsyncPartsOf, LeaveGroup, entryVars
  <2>3. Cardinality(BlocksOf(g)') = Cardinality(BlocksOf(g)) - 1
    BY <1>a, <1>b, <2>1, OneMoreOrLess
  <2> QED
    BY <1>a, <2>1, <2>2, <2>3, LeaveCounts
<1>9. GroupOutlivesWork'
  <2>1. \A h \in Groups : Unfinished(h)' \subseteq Unfinished(h)
    BY <1>a DEF Unfinished, BlocksOf, AsyncPartsOf, IInv, OpType, LeaveGroup
  <2> QED
    BY <1>a, <1>2, <1>8, <2>1, LeaveDeletes
<1>10. EntryType' /\ QueueServed'
  BY KeepEntryType, KeepQueueServed
  DEF LeaveGroup, IInv, entryVars, workerVars, groupVars, mainVars
<1> QED
  BY <1>1, <1>2, <1>3, <1>4, <1>5, <1>6, <1>7, <1>8, <1>9, <1>10 DEF IInv

\* The completion of an asynchronous part leaves the group for it.
LEMMA CompleteAsyncKeeps ==
  ASSUME IInv, NEW o \in Ops, CompleteAsync(o)
  PROVE  IInv'
<1> DEFINE g == GroupOf[o]
<1>0. g \in Groups /\ o \in asyncOpen
  BY PlacementAssumption DEF CompleteAsync
<1>b. AsyncPartsOf(g) \in SUBSET Ops /\ o \in AsyncPartsOf(g)
  BY <1>0, PlacementAssumption DEF AsyncPartsOf, IInv, OpType
<1>c. pending[g] > 0
  <2>1. Cardinality(AsyncPartsOf(g)) > 0
    BY <1>0, <1>b, OneMoreOrLess
  <2> QED
    BY <1>0, <2>1, Finite DEF IInv, PendingIsUnfinished
<1>a. /\ g \in Groups /\ GroupOf[o] = g /\ asyncOpen' = asyncOpen \ {o}
      /\ leave(g) /\ pending[g] > 0
      /\ UNCHANGED <<releaseCalled, respect, waiting>>
  BY <1>0, <1>c DEF CompleteAsync, workerVars
<1> HIDE DEF g
<1>1. OpType'
  BY DEF CompleteAsync, IInv, OpType
<1>2. GroupType' /\ MainType' /\ FlagsType' /\ WaitingOwned' /\ NotifyHome'
  BY <1>a, LeaveKeeps
<1>3. WorkersHold'
  BY DEF CompleteAsync, IInv, WorkersHold, Holds, Busy, workerVars
<1>4. AsyncStarted'
  BY DEF CompleteAsync, IInv, AsyncStarted
<1>5. PendingIsUnfinished'
  <2>1. /\ AsyncPartsOf(g)' = AsyncPartsOf(g) \ {o}
        /\ \A h \in Groups : h # g => AsyncPartsOf(h)' = AsyncPartsOf(h)
    BY <1>a DEF AsyncPartsOf
  <2>2. \A h \in Groups : BlocksOf(h)' = BlocksOf(h)
    BY DEF BlocksOf, CompleteAsync
  <2>3. Cardinality(AsyncPartsOf(g)') = Cardinality(AsyncPartsOf(g)) - 1
    BY <1>a, <1>b, <2>1, OneMoreOrLess
  <2> QED
    BY <1>a, <2>1, <2>2, <2>3, LeaveCounts
<1>6. GroupOutlivesWork'
  <2>1. \A h \in Groups : Unfinished(h)' \subseteq Unfinished(h)
    BY <1>a DEF Unfinished, BlocksOf, AsyncPartsOf, CompleteAsync
  <2> QED
    BY <1>a, <1>1, <1>5, <2>1, LeaveDeletes
<1>7. EntryType' /\ WorkerType' /\ ListsAgree' /\ ThreadsCounted' /\ QueueServed'
  BY KeepEntryType, KeepWorkerType, KeepListsAgree, KeepThreadsCounted, KeepQueueServed
  DEF CompleteAsync, IInv, entryVars, workerVars, groupVars, mainVars
<1> QED
  BY <1>1, <1>2, <1>3, <1>4, <1>5, <1>6, <1>7 DEF IInv

-----------------------------------------------------------------------------
(* Scheduling.                                                             *)

\* A scheduled operation finds a worker or gets one: when none is dispatched,
\* the limit is reached and is not zero.
LEMMA SpawnCases ==
  ASSUME WorkerType, ThreadsCounted, NEW q \in Queues, NEW tracking \in BOOLEAN,
         spawnThread(q, tracking)
  PROVE  \/ UNCHANGED <<threadCount, pc, respect>> /\ threadCount[q] > 0
         \/ \E s \in Threads :
              /\ pc[q][s] = "idle" /\ pc' = [pc EXCEPT ![q][s] = "dispatched"]
              /\ threadCount[q] < MaxThreads
              /\ threadCount' = [threadCount EXCEPT ![q] = @ + 1]
              /\ respect' = [respect EXCEPT ![q][s] = threadCount[q] > 0]
<1> DEFINE limit == IF tracking THEN MaxThreads - 1 ELSE MaxThreads
           s     == IdleThread(q)
<1>1. limit \in Int /\ 0 < limit /\ limit <= MaxThreads /\ threadCount[q] \in 0 .. MaxThreads
  BY ThreadsAssumption DEF WorkerType
<1>2. CASE threadCount[q] < limit
  <2>1. threadCount[q] < MaxThreads
    BY <1>1, <1>2, ThreadsAssumption
  <2>2. s \in Threads /\ pc[q][s] = "idle"
    BY <2>1, IdleExists
  <2>3. /\ threadCount' = [threadCount EXCEPT ![q] = @ + 1]
        /\ pc' = [pc EXCEPT ![q][s] = "dispatched"]
        /\ respect' = [respect EXCEPT ![q][s] = threadCount[q] > 0]
    BY <1>2 DEF spawnThread
  <2> HIDE DEF s
  <2> QED
    BY <2>1, <2>2, <2>3
<1>3. CASE ~(threadCount[q] < limit)
  <2>1. UNCHANGED <<threadCount, pc, respect>>
    BY <1>3 DEF spawnThread
  <2>2. threadCount[q] > 0
    BY <1>1, <1>3
  <2> QED
    BY <2>1, <2>2
<1> QED
  BY <1>2, <1>3

\* The new worker is counted, and holds nothing yet.
LEMMA SpawnKeeps ==
  ASSUME IInv, NEW q \in Queues, NEW tracking \in BOOLEAN,
         spawnThread(q, tracking), UNCHANGED <<op, releaseCalled, woken>>
  PROVE  /\ WorkerType' /\ FlagsType' /\ ThreadsCounted'
         /\ \A a \in Queues : threadCount'[a] >= threadCount[a]
         /\ threadCount'[q] > 0
         /\ \A a \in Queues, b \in Threads :
              pc'[a][b] = pc[a][b] \/ (pc[a][b] = "idle" /\ pc'[a][b] = "dispatched")
<1>0. \A a \in Queues : threadCount[a] \in 0 .. MaxThreads
  BY DEF IInv, WorkerType
<1>1. CASE UNCHANGED <<threadCount, pc, respect>> /\ threadCount[q] > 0
  <2>1. \A a \in Queues : threadCount'[a] >= threadCount[a]
    BY <1>0, <1>1, ThreadsAssumption
  <2> QED
    BY <1>1, <2>1, KeepWorkerType, KeepFlagsType, KeepThreadsCounted DEF IInv
<1>2. ASSUME NEW s \in Threads,
             pc[q][s] = "idle", pc' = [pc EXCEPT ![q][s] = "dispatched"],
             threadCount[q] < MaxThreads,
             threadCount' = [threadCount EXCEPT ![q] = @ + 1],
             respect' = [respect EXCEPT ![q][s] = threadCount[q] > 0]
      PROVE  /\ WorkerType' /\ FlagsType' /\ ThreadsCounted'
             /\ \A a \in Queues : threadCount'[a] >= threadCount[a]
             /\ threadCount'[q] > 0
             /\ \A a \in Queues, b \in Threads :
                  pc'[a][b] = pc[a][b] \/ (pc[a][b] = "idle" /\ pc'[a][b] = "dispatched")
  <2>1. "dispatched" \in Doing /\ "dispatched" # "idle"
    BY DEF Doing
  <2>2. /\ \A a \in Queues, b \in Threads :
             pc'[a][b] = IF a = q /\ b = s THEN "dispatched" ELSE pc[a][b]
        /\ pc' \in [Queues -> [Threads -> Doing]]
        /\ \A a \in Queues :
             Alive(a)' = IF a # q THEN Alive(a)
                         ELSE IF "dispatched" = "idle" THEN Alive(q) \ {s}
                         ELSE Alive(q) \cup {s}
    BY <1>2, <2>1, AliveChanges DEF IInv
  <2>3. \A a \in Queues :
          threadCount'[a] = IF a = q THEN threadCount[q] + 1 ELSE threadCount[a]
    BY <1>2 DEF IInv, WorkerType
  <2>4. threadCount' \in [Queues -> 0 .. MaxThreads]
    BY <1>0, <1>2, ThreadsAssumption DEF IInv, WorkerType
  <2>5. WorkerType'
    BY <2>2, <2>4 DEF IInv, WorkerType
  <2>6. FlagsType'
    <3>1. (threadCount[q] > 0) \in BOOLEAN
      OBVIOUS
    <3>2. respect' \in [Queues -> [Threads -> BOOLEAN]]
      BY <1>2, <3>1 DEF IInv, FlagsType
    <3> QED
      BY <3>2 DEF IInv, FlagsType
  <2>7. ThreadsCounted'
    <3>1. s \notin Alive(q)
      BY <1>2 DEF Alive
    <3>2. Cardinality(Alive(q) \cup {s}) = Cardinality(Alive(q)) + 1
      BY <3>1, AliveFinite, FS_AddElement
    <3>3. threadCount'[q] = Cardinality(Alive(q)')
      BY <2>1, <2>2, <2>3, <3>2 DEF IInv, ThreadsCounted
    <3>4. \A a \in Queues : a # q => threadCount'[a] = Cardinality(Alive(a)')
      BY <2>2, <2>3 DEF IInv, ThreadsCounted
    <3> QED
      BY <3>3, <3>4 DEF ThreadsCounted
  <2>8. /\ \A a \in Queues : threadCount'[a] >= threadCount[a]
        /\ threadCount'[q] > 0
    BY <1>0, <2>3, ThreadsAssumption
  <2> QED
    BY <1>2, <2>2, <2>5, <2>6, <2>7, <2>8
<1> QED
  BY <1>1, <1>2, SpawnCases DEF IInv

\* A new operation is queued once, counted once, and served.
LEMMA ScheduleKeeps ==
  ASSUME IInv, NEW o \in Ops, Schedule(o)
  PROVE  IInv'
<1> DEFINE g == GroupOf[o]
           q == QueueOf[o]
<1>a. /\ g \in Groups /\ q \in Queues /\ GroupOf[o] = g
      /\ QueueOf[o] = q
      /\ opState[o] = "new"
      /\ opState' = [opState EXCEPT ![o] = "queued"]
      /\ pending' = [pending EXCEPT ![g] = pending[g] + 1]
      /\ group[g] = "none" \/ Owned(g)
      /\ group[g] = "none" => group' = [group EXCEPT ![g] = "live"]
      /\ group[g] # "none" => group' = group
      /\ pushOperation(o)
      /\ UNCHANGED <<op, asyncOpen, releaseCalled, woken, waiting, notified>>
  BY PlacementAssumption, Zenon DEF Schedule, schedule, ensureGroup, createGroup, mainVars
<1>t. PICK tracking \in BOOLEAN : spawnThread(q, tracking)
  BY DEF Schedule, schedule
<1> HIDE DEF g, q
<1>1. EntryType' /\ ListsAgree'
  BY <1>a, PushLists DEF IInv
<1>2. WorkerType' /\ FlagsType' /\ ThreadsCounted'
  BY <1>a, <1>t, SpawnKeeps, Zenon
<1>3. OpType'
  BY <1>a DEF IInv, OpType
<1>4. GroupType'
  <2>1. pending[g] + 1 \in Nat
    BY <1>a DEF IInv, GroupType
  <2> QED
    <3>1. pending' \in [Groups -> Nat]
      BY <1>a, <2>1 DEF IInv, GroupType
    <3>2. group' \in [Groups -> {"none", "live", "deleted"}]
      BY <1>a DEF IInv, GroupType
    <3>3. notifyList' = notifyList
      BY DEF Schedule
    <3> QED
      BY <3>1, <3>2, <3>3 DEF IInv, GroupType
<1>5. WorkersHold'
  <2>1. \A a \in Queues, b \in Threads :
          pc'[a][b] = pc[a][b] \/ (pc[a][b] = "idle" /\ pc'[a][b] = "dispatched")
    BY <1>a, <1>t, SpawnKeeps, Zenon
  <2>2. \A a \in Queues, b \in Threads :
          /\ Holds(a, b)' <=> Holds(a, b)
          /\ Busy(a, b)' <=> Busy(a, b)
          /\ pc'[a][b] = "running" <=> pc[a][b] = "running"
    BY <1>a, <2>1 DEF Holds, Busy
  <2>3. \A x \in Ops : opState[x] = "running" => opState'[x] = "running"
    BY <1>a DEF IInv, OpType
  <2>4. \A a \in Queues, b \in Threads : Busy(a, b) => op[a][b] \in Ops
    BY DEF IInv, WorkersHold, Holds, Busy
  <2> QED
    BY <1>a, <2>2, <2>3, <2>4 DEF IInv, WorkersHold
<1>6. AsyncStarted'
  BY <1>a, PlacementAssumption DEF IInv, OpType, AsyncStarted
<1>7. QueueServed'
  <2>1. \A a \in Queues : threadCount[a] \in 0 .. MaxThreads /\ threadCount'[a] \in 0 .. MaxThreads
    BY <1>2 DEF IInv, WorkerType
  <2>2. threadCount'[q] > 0 /\ \A a \in Queues : threadCount'[a] >= threadCount[a]
    BY <1>a, <1>t, SpawnKeeps, Zenon
  <2>3. \A a \in Queues : a # q => opQueue'[a] = opQueue[a]
    BY <1>a DEF IInv, EntryType, pushOperation
  <2>4. ASSUME NEW a \in Queues, a # q, opQueue'[a] # <<>> PROVE threadCount'[a] > 0
    <3>1. threadCount[a] > 0
      BY <2>3, <2>4 DEF IInv, QueueServed
    <3> QED
      BY <2>1, <2>2, <3>1, ThreadsAssumption
  <2> QED
    BY <2>2, <2>4 DEF QueueServed
<1>8. PendingIsUnfinished'
  <2>1. \A x \in Ops : opState'[x] = IF x = o THEN "queued" ELSE opState[x]
    BY <1>a DEF IInv, OpType
  <2>2. o \notin BlocksOf(g) /\ BlocksOf(g) \in SUBSET Ops
    BY <1>a DEF BlocksOf
  <2>3. BlocksOf(g)' = BlocksOf(g) \cup {o}
    <3>1. GroupOf[o] = g
      BY <1>a
    <3> QED
      BY <2>1, <3>1 DEF BlocksOf
  <2>4. ASSUME NEW h \in Groups, h # g PROVE BlocksOf(h)' = BlocksOf(h)
    <3>1. GroupOf[o] # h
      BY <1>a, <2>4
    <3> QED
      BY <2>1, <3>1 DEF BlocksOf
  <2>5. \A h : AsyncPartsOf(h)' = AsyncPartsOf(h)
    BY <1>a DEF AsyncPartsOf
  <2>6. Cardinality(BlocksOf(g)') = Cardinality(BlocksOf(g)) + 1
    BY <2>2, <2>3, OneMoreOrLess
  <2>7. pending'[g] = pending[g] + 1 /\ \A h \in Groups : h # g => pending'[h] = pending[h]
    BY <1>a DEF IInv, GroupType
  <2>8. /\ Cardinality(BlocksOf(g)) \in Nat /\ Cardinality(AsyncPartsOf(g)) \in Nat
        /\ pending[g] = Cardinality(BlocksOf(g)) + Cardinality(AsyncPartsOf(g))
        /\ AsyncPartsOf(g)' = AsyncPartsOf(g)
    BY <1>a, <2>5, Finite DEF IInv, PendingIsUnfinished
  <2>9. pending'[g] = Cardinality(BlocksOf(g)') + Cardinality(AsyncPartsOf(g)')
    BY <2>6, <2>7, <2>8
  <2>10. ASSUME NEW h \in Groups, h # g
         PROVE  pending'[h] = Cardinality(BlocksOf(h)') + Cardinality(AsyncPartsOf(h)')
    BY <2>4, <2>5, <2>7, <2>10 DEF IInv, PendingIsUnfinished
  <2> QED
    BY <2>9, <2>10 DEF PendingIsUnfinished
<1>9. GroupOutlivesWork'
  <2>1. \A h \in Groups : group[h] = "live" => group'[h] = "live"
    BY <1>a DEF IInv, GroupType
  <2>2. group'[g] = "live"
    BY <1>a DEF IInv, GroupType, Owned
  <2>3. \A x \in Ops : opState'[x] = IF x = o THEN "queued" ELSE opState[x]
    BY <1>a DEF IInv, OpType
  <2>4. \A h \in Groups : h # g => Unfinished(h)' = Unfinished(h)
    <3>1. ASSUME NEW h \in Groups, h # g PROVE Unfinished(h)' = Unfinished(h)
      <4>1. GroupOf[o] # h /\ asyncOpen' = asyncOpen
        BY <1>a, <3>1
      <4> QED
        BY <2>3, <4>1 DEF Unfinished, BlocksOf, AsyncPartsOf
    <3> QED
      BY <3>1
  <2>5. waiting' = waiting
    BY <1>a
  <2> QED
    BY <2>1, <2>2, <2>4, <2>5 DEF IInv, GroupOutlivesWork
<1>10. WaitingOwned'
  <2>1. waiting = NoGroup
    BY DEF Schedule, MainThreadFree
  <2> QED
    BY <1>a, <2>1 DEF WaitingOwned
<1>11. MainType' /\ NotifyHome'
  BY KeepMainType, KeepNotifyHome
  DEF Schedule, IInv, entryVars, workerVars, groupVars, mainVars
<1> QED
  BY <1>1, <1>2, <1>3, <1>4, <1>5, <1>6, <1>7, <1>8, <1>9, <1>10, <1>11 DEF IInv

-----------------------------------------------------------------------------
(* The invariant is inductive.                                             *)

LEMMA InitIInv == Init => IInv
<1> SUFFICES ASSUME Init PROVE IInv
  OBVIOUS
<1>1. /\ <<>> \in Seq(Ops) /\ <<>> \in Seq(Notifies) /\ DOMAIN <<>> = {}
  OBVIOUS
<1>2. EntryType /\ OpType /\ GroupType /\ MainType
  BY <1>1 DEF Init, EntryType, OpType, GroupType, MainType
<1>3. WorkerType
  BY ThreadsAssumption DEF Init, WorkerType, Doing
<1>4. FlagsType
  BY DEF Init, FlagsType
<1>5. \A q \in Queues : opQueue[q] = <<>> /\ \A p \in Priorities : prioMap[q][p] = <<>>
  BY DEF Init
<1>6. ListsAgree
  <2>1. /\ Elements(<<>>) = {} /\ Distinct(<<>>)
        /\ \A x, y : ~Before(<<>>, x, y)
    BY <1>1 DEF Elements, Distinct, Before
  <2> QED
    BY <1>5, <2>1 DEF ListsAgree
<1>7. WorkersHold /\ AsyncStarted
  BY DEF Init, WorkersHold, Holds, Busy, AsyncStarted
<1>8. ThreadsCounted
  <2>1. \A q \in Queues : Alive(q) = {} /\ threadCount[q] = 0
    BY DEF Init, Alive
  <2> QED
    BY <2>1, FS_EmptySet DEF ThreadsCounted
<1>9. QueueServed
  BY <1>5 DEF QueueServed
<1>10. PendingIsUnfinished /\ GroupOutlivesWork
  <2>1. \A g \in Groups : BlocksOf(g) = {} /\ AsyncPartsOf(g) = {} /\ pending[g] = 0 /\ waiting # g
    BY NullAssumption DEF Init, BlocksOf, AsyncPartsOf
  <2>2. Cardinality({}) = 0
    BY FS_EmptySet
  <2> QED
    BY <2>1, <2>2 DEF PendingIsUnfinished, GroupOutlivesWork, Unfinished
<1>11. WaitingOwned /\ NotifyHome
  BY <1>1 DEF Init, WaitingOwned, NotifyHome
<1> QED
  BY <1>2, <1>3, <1>4, <1>6, <1>7, <1>8, <1>9, <1>10, <1>11 DEF IInv

LEMMA NextKeeps == IInv /\ [Next]_vars => IInv'
<1> SUFFICES ASSUME IInv, [Next]_vars PROVE IInv'
  OBVIOUS
<1>1. ASSUME NEW q \in Queues, NEW s \in Threads, Worker(q, s) PROVE IInv'
  BY <1>1, PopOperationKeeps, ExitThreadKeeps, RunBlockKeeps, RunAsyncBlockKeeps,
     LeaveGroupKeeps, FreeBlockKeeps DEF Worker
<1>2. ASSUME NEW o \in Ops, CompleteAsync(o) PROVE IInv'
  BY <1>2, CompleteAsyncKeeps
<1>3. CASE RunNotified
  BY <1>3, RunNotifiedKeeps
<1>4. CASE WaitWakes
  BY <1>4, WaitWakesKeeps
<1>5. CASE Client
  BY <1>5, ReleaseKeeps, WaitBlocksKeeps, ScheduleKeeps, NotifyKeeps DEF Client
<1>6. CASE UNCHANGED vars
  <2>1. EntryType' /\ WorkerType' /\ OpType' /\ GroupType' /\ MainType' /\ FlagsType'
    BY <1>6, KeepEntryType, KeepWorkerType, KeepOpType, KeepGroupType, KeepMainType,
       KeepFlagsType DEF IInv, vars, entryVars, workerVars, groupVars, mainVars
  <2>2. ListsAgree' /\ WorkersHold' /\ AsyncStarted' /\ ThreadsCounted' /\ QueueServed'
    BY <1>6, KeepListsAgree, KeepWorkersHold, KeepAsyncStarted, KeepThreadsCounted,
       KeepQueueServed DEF IInv, vars, entryVars, workerVars
  <2>3. PendingIsUnfinished' /\ GroupOutlivesWork' /\ WaitingOwned' /\ NotifyHome'
    BY <1>6, KeepPendingIsUnfinished, KeepGroupOutlivesWork, KeepWaitingOwned,
       KeepNotifyHome DEF IInv, vars, groupVars, mainVars
  <2> QED
    BY <2>1, <2>2, <2>3 DEF IInv
<1> QED
  BY <1>1, <1>2, <1>3, <1>4, <1>5, <1>6 DEF Next

\* Every reachable state satisfies the invariant.
THEOREM Invariance == Spec => []IInv
<1> QED
  BY InitIInv, NextKeeps, PTL DEF Spec

-----------------------------------------------------------------------------
(* What it gives.                                                          *)

\* The variables keep their types; in particular _threadCount never exceeds
\* twice the number of processors, and _pendingOperations never wraps below zero.
THEOREM TypeCorrect == Spec => []TypeOK
<1>1. IInv => TypeOK
  BY DEF IInv, TypeOK, EntryType, WorkerType, OpType, GroupType, MainType, FlagsType, Doing
<1> QED
  BY <1>1, Invariance, PTL

\* However many operations are scheduled on however many queues, a queued
\* operation has a worker that will look for it.
THEOREM QueuedIsServed == Spec => []WorkHasWorker
<1>1. IInv => WorkHasWorker
  <2> SUFFICES ASSUME IInv, NEW q \in Queues, opQueue[q] # <<>> PROVE Alive(q) # {}
    BY DEF IInv, ThreadsCounted, WorkHasWorker
  <2>1. Cardinality(Alive(q)) # 0
    BY ThreadsAssumption DEF IInv, QueueServed, ThreadsCounted, WorkerType
  <2> QED
    BY <2>1, FS_EmptySet
<1> QED
  BY <1>1, Invariance, PTL

\* The counter of a group is exact in every interleaving of enter() and leave().
THEOREM CounterIsExact == Spec => []PendingIsUnfinished
<1>1. IInv => PendingIsUnfinished
  BY DEF IInv
<1> QED
  BY <1>1, Invariance, PTL

\* No group is deleted while a worker, an async completion or wait() needs it.
THEOREM GroupIsSafe == Spec => []GroupOutlivesWork
<1>1. IInv => GroupOutlivesWork
  BY DEF IInv
<1> QED
  BY <1>1, Invariance, PTL

\* A notify block leaves for the callback queue only when nothing of its group
\* is unfinished.
THEOREM NotifiedWhenDrained == Spec => NotifyWhenDrained
<1> DEFINE P == \A n \in Notifies :
                  ~Dispatched(n) /\ Dispatched(n)' => Unfinished(NotifyGroup[n])' = {}
<1>1. IInv /\ IInv' /\ [Next]_vars => [P]_vars
  <2> SUFFICES ASSUME IInv, IInv', Next, NEW n \in Notifies,
                      ~Dispatched(n), Dispatched(n)'
               PROVE  Unfinished(NotifyGroup[n])' = {}
    BY DEF vars
  <2> DEFINE h == NotifyGroup[n]
  <2>0. h \in Groups
    BY PlacementAssumption
  <2>1. notified \in Seq(Notifies) /\ \A g \in Groups : notifyList[g] \in Seq(Notifies)
    BY DEF IInv, MainType, GroupType
  <2>2. ASSUME NEW g \in Groups, leave(g) PROVE pending'[h] = 0
    <3>1. pending[g] = 1 /\ notified' = notified \o notifyList[g]
      BY <2>2, LeaveCases DEF IInv, Dispatched
    <3>2. PICK i \in DOMAIN notifyList[g] : notifyList[g][i] = n
      <4>1. PICK j \in DOMAIN (notified \o notifyList[g]) : (notified \o notifyList[g])[j] = n
        BY <3>1 DEF Dispatched
      <4>2. j \notin DOMAIN notified
        BY <2>1, <4>1 DEF Dispatched
      <4>3. j - Len(notified) \in DOMAIN notifyList[g] /\ notifyList[g][j - Len(notified)] = n
        BY <2>1, <4>1, <4>2
      <4> QED
        BY <4>3
    <3>3. h = g
      BY <3>2 DEF IInv, NotifyHome
    <3> QED
      BY <2>2, <3>1, <3>3, LeaveCases DEF IInv, GroupType
  <2>3. ASSUME NEW m \in Notifies, Notify(m) PROVE pending'[h] = 0
    <3>1. notified' # notified
      BY DEF Dispatched
    <3>2. /\ pending[NotifyGroup[m]] = 0 /\ notified' = Append(notified, m)
          /\ pending' = pending
      BY <2>3, <3>1, Zenon DEF Notify, notify
    <3>3. n = m
      BY <2>1, <3>2 DEF Dispatched
    <3> QED
      BY <3>2, <3>3
  <2>4. notified' = notified => FALSE
    BY DEF Dispatched
  <2>5. ASSUME RunNotified PROVE FALSE
    <3>1. notified # <<>> /\ notified' = Tail(notified)
      BY <2>5 DEF RunNotified
    <3>2. Dispatched(n)
      BY <2>1, <3>1 DEF Dispatched
    <3> QED
      BY <3>2
  <2>6. ASSUME NEW q \in Queues, NEW s \in Threads, Worker(q, s) PROVE pending'[h] = 0
    <3>1. LeaveGroup(q, s)
      BY <2>4, <2>6 DEF Worker, PopOperation, ExitThread, RunBlock, RunAsyncBlock,
         FreeBlock, mainVars
    <3>2. GroupOf[op[q][s]] \in Groups /\ leave(GroupOf[op[q][s]])
      BY <3>1, PlacementAssumption DEF LeaveGroup, IInv, WorkersHold, Holds
    <3> QED
      BY <2>2, <3>2
  <2>7. ASSUME NEW o \in Ops, CompleteAsync(o) PROVE pending'[h] = 0
    BY <2>2, <2>7, PlacementAssumption DEF CompleteAsync
  <2>8. ASSUME WaitWakes PROVE FALSE
    BY <2>4, <2>8 DEF WaitWakes
  <2>9. ASSUME Client PROVE pending'[h] = 0
    BY <2>3, <2>4, <2>9 DEF Client, Release, WaitBlocks, Schedule, mainVars
  <2>10. pending'[h] = 0
    BY <2>5, <2>6, <2>7, <2>8, <2>9 DEF Next
  <2> QED
    BY <2>0, <2>10, DrainedNext DEF IInv
<1> QED
  BY <1>1, Invariance, PTL DEF Spec, NotifyWhenDrained

\* The operation a worker takes has no queued operation of its priority before
\* it, and is of a highest priority or the first of the queue, as the worker chooses.
LEMMA NextIsInOrder ==
  ASSUME EntryType, ListsAgree, NEW q \in Queues, opQueue[q] # <<>>,
         NEW byPriority \in BOOLEAN,
         NEW i \in DOMAIN opQueue[q], opQueue[q][i] = NextOperation(q, byPriority)
  PROVE  /\ \A j \in 1 .. i - 1 : PriorityOf[opQueue[q][j]] # PriorityOf[opQueue[q][i]]
         /\ IF byPriority
            THEN \A j \in DOMAIN opQueue[q] :
                   PriorityOf[opQueue[q][j]] <= PriorityOf[opQueue[q][i]]
            ELSE i = 1
<1> DEFINE Q == opQueue[q]
<1>1. PICK o : o = Q[i]
  OBVIOUS
<1>2. PICK p : p = PriorityOf[o]
  OBVIOUS
<1>3. /\ Q \in Seq(Ops) /\ Distinct(Q) /\ DOMAIN Q = 1 .. Len(Q) /\ Len(Q) \in Nat
      /\ \A j \in DOMAIN Q : Q[j] \in Ops /\ Q[j] \in Elements(Q)
  BY DEF EntryType, ListsAgree, Elements
<1>4. /\ o \in Ops /\ prioMap[q][p] # <<>> /\ o = Head(prioMap[q][p])
      /\ p \in Priorities
  BY <1>1, <1>2, NextIsFirst, PlacementAssumption
<1>5. /\ \A c \in Priorities : prioMap[q][c] \in Seq(Ops) /\ Distinct(prioMap[q][c])
      /\ \A c \in Priorities, x \in Ops :
           x \in Elements(prioMap[q][c]) <=> x \in Elements(Q) /\ PriorityOf[x] = c
  BY DEF EntryType, ListsAgree
<1>6. ASSUME NEW j \in 1 .. i - 1, PriorityOf[Q[j]] = p PROVE FALSE
  <2>1. PICK x : x = Q[j]
    OBVIOUS
  <2>2. j \in DOMAIN Q /\ j < i /\ x \in Ops /\ x \in Elements(Q)
    BY <1>3, <2>1
  <2>3. x # o
    BY <1>1, <1>3, <2>1, <2>2 DEF Distinct
  <2>4. x \in Elements(prioMap[q][p])
    BY <1>4, <1>5, <1>6, <2>1, <2>2
  <2>5. Before(prioMap[q][p], o, x)
    BY <1>4, <1>5, <2>3, <2>4, HeadBefore
  <2>6. Before(Q, o, x)
    BY <1>4, <2>2, <2>5 DEF ListsAgree
  <2>7. PICK a \in DOMAIN Q, b \in DOMAIN Q : a < b /\ Q[a] = o /\ Q[b] = x
    BY <2>6 DEF Before
  <2>8. a = i /\ b = j
    BY <1>1, <1>3, <2>1, <2>2, <2>7 DEF Distinct
  <2> QED
    BY <1>3, <2>2, <2>7, <2>8
<1>7. CASE ~byPriority
  <2>1. 1 \in DOMAIN Q /\ Q[i] = Q[1]
    BY <1>3, <1>7 DEF NextOperation
  <2>2. i = 1
    BY <1>3, <2>1 DEF Distinct
  <2> QED
    BY <1>1, <1>2, <1>6, <1>7, <2>2
<1>8. CASE byPriority
  <2> DEFINE P == {c \in Priorities : prioMap[q][c] # <<>>}
             top == HighestPriority(q)
  <2>1. \E c \in P : \A r \in P : r <= c
    BY <1>4, HighestExists
  <2>2. /\ top \in Priorities /\ prioMap[q][top] # <<>>
        /\ \A r \in Priorities : prioMap[q][r] # <<>> => r <= top
    <3>1. \E c \in Priorities :
            /\ prioMap[q][c] # <<>>
            /\ \A r \in Priorities : prioMap[q][r] # <<>> => r <= c
      BY <2>1
    <3> QED
      BY <3>1 DEF HighestPriority
  <2>3. o = Head(prioMap[q][top])
    BY <1>1, <1>8 DEF NextOperation
  <2> HIDE DEF top
  <2>4. top = p
    <3>1. o \in Elements(prioMap[q][top])
      BY <1>5, <2>2, <2>3, TailElements
    <3> QED
      BY <1>2, <1>4, <1>5, <2>2, <3>1
  <2>5. ASSUME NEW j \in DOMAIN Q PROVE PriorityOf[Q[j]] <= p
    <3>1. PICK x : x = Q[j]
      OBVIOUS
    <3>2. PriorityOf[x] \in Priorities /\ x \in Elements(prioMap[q][PriorityOf[x]])
      BY <1>3, <1>5, <3>1, PlacementAssumption
    <3>3. prioMap[q][PriorityOf[x]] # <<>>
      BY <3>2 DEF Elements
    <3> QED
      BY <2>2, <2>4, <3>1, <3>2, <3>3
  <2> QED
    BY <1>1, <1>2, <1>6, <1>8, <2>5
<1> QED
  BY <1>7, <1>8

\* A list of the elements at some places of another, in its order, is determined:
\* each is as far in it as there are places up to its own.
LEMMA PartInOrder ==
  ASSUME NEW S, NEW list \in Seq(S), NEW part \in Seq(S), NEW places \in SUBSET DOMAIN list,
         Distinct(list), Distinct(part), Elements(part) = {list[i] : i \in places},
         \A x, y \in S : Before(part, x, y) => Before(list, x, y)
  PROVE  /\ Len(part) = Cardinality(places)
         /\ \A i \in places : part[Cardinality({j \in places : j <= i})] = list[i]
<1> DEFINE N == Len(part)
           f == [k \in 1 .. N |-> CHOOSE i \in places : list[i] = part[k]]
           upTo(k) == {j \in places : j <= f[k]}
<1>1. /\ N \in Nat /\ DOMAIN part = 1 .. N /\ \A k \in 1 .. N : part[k] \in S
      /\ places \subseteq Nat
  OBVIOUS
<1>2. ASSUME NEW k \in 1 .. N PROVE f[k] \in places /\ list[f[k]] = part[k]
  <2>1. part[k] \in Elements(part)
    BY <1>1 DEF Elements
  <2>2. \E i \in places : list[i] = part[k]
    BY <2>1
  <2> QED
    BY <2>2
<1> HIDE DEF f, N
<1>3. ASSUME NEW k \in 1 .. N, NEW l \in 1 .. N, k < l PROVE f[k] < f[l]
  <2>1. Before(part, part[k], part[l])
    BY <1>1, <1>3 DEF Before
  <2>2. Before(list, part[k], part[l])
    BY <1>1, <2>1
  <2>3. PICK i \in DOMAIN list, j \in DOMAIN list : i < j /\ list[i] = part[k] /\ list[j] = part[l]
    BY <2>2 DEF Before
  <2>4. i = f[k] /\ j = f[l]
    BY <1>2, <2>3 DEF Distinct
  <2> QED
    BY <2>3, <2>4
<1>4. \A i \in places : \E k \in 1 .. N : f[k] = i
  <2> TAKE i \in places
  <2>1. PICK k \in 1 .. N : part[k] = list[i]
    BY <1>1 DEF Elements
  <2>2. f[k] = i
    BY <1>2, <2>1 DEF Distinct
  <2> QED
    BY <2>2
<1>5. ASSUME NEW k \in 1 .. N PROVE Cardinality(upTo(k)) = k
  <2> DEFINE g == [l \in 1 .. k |-> f[l]]
  <2>1. \A l \in 1 .. k : /\ l \in 1 .. N /\ g[l] = f[l] /\ (l < k \/ l = k)
    BY <1>1
  <2>2. \A l \in 1 .. k : g[l] \in upTo(k)
    <3> TAKE l \in 1 .. k
    <3>1. f[l] \in places /\ f[k] \in places /\ f[l] \in Nat /\ f[k] \in Nat
      BY <1>1, <1>2, <2>1
    <3>2. f[l] <= f[k]
      BY <1>3, <2>1, <3>1
    <3> QED
      BY <2>1, <3>1, <3>2
  <2>3. \A l, m \in 1 .. k : g[l] = g[m] => l = m
    <3>1. \A l \in 1 .. N : f[l] \in Nat
      BY <1>1, <1>2
    <3>2. \A l, m \in 1 .. N : l # m => l < m \/ m < l
      BY <1>1
    <3>3. \A l, m \in 1 .. N : f[l] = f[m] => l = m
      BY <1>3, <3>1, <3>2
    <3> QED
      BY <2>1, <3>3
  <2>4. \A j \in upTo(k) : \E l \in 1 .. k : g[l] = j
    <3> TAKE j \in upTo(k)
    <3>1. PICK l \in 1 .. N : f[l] = j
      BY <1>4
    <3>2. ~(k < l)
      BY <1>1, <1>2, <1>3, <3>1
    <3>3. l \in 1 .. k
      BY <1>1, <3>2
    <3> QED
      BY <2>1, <3>1, <3>3
  <2>5. g \in Bijection(1 .. k, upTo(k))
    <3>1. g \in [1 .. k -> upTo(k)]
      BY <2>2
    <3> HIDE DEF g, upTo
    <3> QED
      BY <2>3, <2>4, <3>1 DEF Bijection, Injection, Surjection, IsInjective
  <2>6. k \in Nat /\ ExistsBijection(1 .. k, upTo(k))
    <3> HIDE DEF g, upTo
    <3> QED
      BY <1>1, <2>5 DEF ExistsBijection
  <2> QED
    BY <2>6, FS_CountingElements
<1>6. N = Cardinality(places)
  <2>1. CASE N = 0
    <3>1. places = {}
      BY <1>4, <2>1
    <3> QED
      BY <2>1, <3>1, FS_EmptySet
  <2>2. CASE N # 0
    <3>1. N \in 1 .. N
      BY <1>1, <2>2
    <3>2. \A i \in places : i <= f[N]
      <4> TAKE i \in places
      <4>1. PICK k \in 1 .. N : f[k] = i
        BY <1>4
      <4>2. k < N \/ k = N
        BY <1>1
      <4>3. f[k] \in Nat /\ f[N] \in Nat
        BY <1>1, <1>2, <3>1
      <4> QED
        BY <1>3, <3>1, <4>1, <4>2, <4>3
    <3>3. upTo(N) = places
      BY <3>2
    <3> QED
      BY <1>5, <3>1, <3>3
  <2> QED
    BY <2>1, <2>2
<1>7. ASSUME NEW i \in places PROVE part[Cardinality({j \in places : j <= i})] = list[i]
  <2>1. PICK k \in 1 .. N : f[k] = i
    BY <1>4
  <2> QED
    BY <1>2, <1>5, <2>1
<1> QED
  BY <1>6, <1>7 DEF N

\* The list of an entry and its buckets stay in step: each bucket is the list
\* restricted to its priority, whichever operations are pushed and popped.
THEOREM BucketsAreTheQueue == Spec => []QueueConsistent
<1>1. IInv => QueueConsistent
  <2> SUFFICES ASSUME EntryType, ListsAgree, NEW q \in Queues, NEW p \in Priorities
               PROVE  LET places == {i \in DOMAIN opQueue[q] : PriorityOf[opQueue[q][i]] = p}
                      IN  /\ Len(prioMap[q][p]) = Cardinality(places)
                          /\ \A i \in places :
                               prioMap[q][p][Cardinality({j \in places : j <= i})] = opQueue[q][i]
    BY DEF IInv, QueueConsistent
  <2> DEFINE list == opQueue[q]
             part == prioMap[q][p]
             places == {i \in DOMAIN list : PriorityOf[list[i]] = p}
  <2>1. list \in Seq(Ops) /\ part \in Seq(Ops)
    BY DEF EntryType
  <2>2. /\ Distinct(list) /\ Distinct(part)
        /\ \A x, y \in Ops : Before(part, x, y) => Before(list, x, y)
        /\ Elements(part) = {o \in Elements(list) : PriorityOf[o] = p}
    BY DEF ListsAgree
  <2>3. {o \in Elements(list) : PriorityOf[o] = p} = {list[i] : i \in places}
    BY DEF Elements
  <2>4. places \in SUBSET DOMAIN list
    OBVIOUS
  <2> HIDE DEF list, part, places
  <2>5. /\ Len(part) = Cardinality(places)
        /\ \A i \in places : part[Cardinality({j \in places : j <= i})] = list[i]
    BY <2>1, <2>2, <2>3, <2>4, PartInOrder
  <2> QED
    BY <2>5 DEF list, part, places
<1> QED
  BY <1>1, Invariance, PTL

\* Operations of one priority are taken in the order they were scheduled; a worker
\* that respects priority passes over no higher one, the other one over none.
THEOREM TakenByPriority == Spec => TakenInOrder
<1> DEFINE InOrder(q, i) ==
             /\ \A j \in 1 .. i - 1 : PriorityOf[opQueue[q][j]] # PriorityOf[opQueue[q][i]]
             /\ \E s \in Threads :
                  /\ pc'[q][s] = "running" /\ op'[q][s] = opQueue[q][i]
                  /\ IF respect[q][s]
                     THEN \A j \in DOMAIN opQueue[q] :
                            PriorityOf[opQueue[q][j]] <= PriorityOf[opQueue[q][i]]
                     ELSE i = 1
           T == \A q \in Queues : \A i \in DOMAIN opQueue[q] :
                  opState'[opQueue[q][i]] = "running" => InOrder(q, i)
<1>1. IInv /\ [Next]_vars => [T]_vars
  <2> SUFFICES ASSUME IInv, Next, NEW q \in Queues, NEW i \in DOMAIN opQueue[q],
                      opState'[opQueue[q][i]] = "running"
               PROVE  InOrder(q, i)
    BY DEF vars
  <2>1. PICK o : o = opQueue[q][i]
    OBVIOUS
  <2>2. /\ opQueue[q] \in Seq(Ops) /\ opQueue[q] # <<>> /\ o \in Ops
        /\ o \in Elements(opQueue[q])
    BY <2>1 DEF IInv, EntryType, Elements
  <2>3. opState[o] = "queued" /\ QueueOf[o] = q /\ opState'[o] = "running"
    BY <2>1, <2>2 DEF IInv, ListsAgree
  <2>4. PICK a \in Queues, s \in Threads : PopOperation(a, s)
    <3>1. opState' # opState
      BY <2>3
    <3>2. ASSUME NEW a \in Queues, NEW s \in Threads, LeaveGroup(a, s) PROVE FALSE
      <4>1. opState' = [opState EXCEPT ![op[a][s]] = "left"]
        BY <3>2 DEF LeaveGroup
      <4> QED
        BY <2>2, <2>3, <4>1 DEF IInv, OpType
    <3>3. ASSUME NEW x \in Ops, Schedule(x) PROVE FALSE
      <4>1. opState' = [opState EXCEPT ![x] = "queued"]
        BY <3>3 DEF Schedule, schedule
      <4> QED
        BY <2>2, <2>3, <4>1 DEF IInv, OpType
    <3>4. ASSUME NEW a \in Queues, NEW s \in Threads, Worker(a, s) PROVE PopOperation(a, s)
      BY <3>1, <3>2, <3>4 DEF Worker, ExitThread, RunBlock, RunAsyncBlock, FreeBlock
    <3>5. ~Client
      <4>1. \A g \in Groups : ~Release(g) /\ ~WaitBlocks(g)
        BY <3>1 DEF Release, WaitBlocks
      <4>2. \A n \in Notifies : ~Notify(n)
        BY <3>1 DEF Notify
      <4> QED
        BY <3>3, <4>1, <4>2 DEF Client
    <3>6. /\ ~RunNotified /\ ~WaitWakes
          /\ \A x \in Ops : ~CompleteAsync(x)
      BY <3>1 DEF RunNotified, WaitWakes, CompleteAsync
    <3> QED
      BY <3>4, <3>5, <3>6 DEF Next
  <2>5. PICK n : n = NextOperation(a, respect[a][s])
    OBVIOUS
  <2>6. /\ opQueue[a] # <<>> /\ respect[a][s] \in BOOLEAN
        /\ opState' = [opState EXCEPT ![n] = "running"]
    BY <2>4, <2>5 DEF PopOperation, IInv, FlagsType
  <2>7. n \in Ops /\ n \in Elements(opQueue[a])
    BY <2>5, <2>6, NextIsFirst DEF IInv
  <2>8. n = o /\ a = q
    BY <2>2, <2>3, <2>6, <2>7 DEF IInv, OpType, ListsAgree
  <2>9. /\ pc' = [pc EXCEPT ![q][s] = "running"] /\ op' = [op EXCEPT ![q][s] = o]
    BY <2>4, <2>5, <2>8 DEF PopOperation
  <2>10. pc'[q][s] = "running" /\ op'[q][s] = o
    BY <2>9 DEF IInv, WorkerType
  <2>11. opQueue[q][i] = NextOperation(q, respect[q][s])
    BY <2>1, <2>5, <2>8
  <2>12. /\ \A j \in 1 .. i - 1 : PriorityOf[opQueue[q][j]] # PriorityOf[opQueue[q][i]]
         /\ IF respect[q][s]
            THEN \A j \in DOMAIN opQueue[q] :
                   PriorityOf[opQueue[q][j]] <= PriorityOf[opQueue[q][i]]
            ELSE i = 1
    BY <2>2, <2>6, <2>8, <2>11, NextIsInOrder DEF IInv
  <2> QED
    BY <2>1, <2>10, <2>12
<1> QED
  BY <1>1, Invariance, PTL DEF Spec, TakenInOrder

==============================================================================
