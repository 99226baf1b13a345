-------------------------- MODULE CollectionProofs --------------------------
(***************************************************************************)
(* Safety of the data controller for every number of elements, calls and   *)
(* changes of the environment, wherever clients call back; then of the     *)
(* collection, where it is composed with a range controller.               *)
(*                                                                         *)
(* The argument is about the line of maps.  They are numbered as they are  *)
(* computed; those up to Base are deployed or about to be, those after     *)
(* Prepared are with the editing queue, and those in between are, one by   *)
(* one and in this order, in blocks of the main serial queue.  Any other   *)
(* block has in front of it whatever was submitted before it, because its  *)
(* caller waited until the editing queue had handed everything over.  The  *)
(* line is kept until a block runs while a delegate is told in advance of  *)
(* a map: until then one map at most is about to be deployed, the one      *)
(* after the visible one.  Types do not depend on that.                    *)
(*                                                                         *)
(* The collection behaves, for its data controller, as the data controller *)
(* alone does, so that what is proved of that one holds there; and no node *)
(* stays in a range unnoticed, until a block overtakes an update that      *)
(* client hooks interrupt.  For the ranges the argument rests on a node    *)
(* being at one index path of the map only: what an update gives it by     *)
(* that path is its state.                                                 *)
(***************************************************************************)
EXTENDS Collection, SequenceTheorems, TLAPS

-----------------------------------------------------------------------------
(* The inductive invariant.                                                *)

\* What clients may be called back from, and blocks run in.
Quiet == {"drain", "will", "did", "range", "hook"}

\* A frame that waits is the innermost one.
QuietBelow(frames) == \A i \in 2 .. Len(frames) : frames[i].pc \in Quiet

\* A delegate is told of maps that were computed.
WillsKnown(frames, newest) ==
  \A i \in 1 .. Len(frames) :
    frames[i].pc = "will" => frames[i].block.number \in 1 .. newest

StackOK(frames, newest) ==
  frames \in Seq(Frame) /\ QuietBelow(frames) /\ WillsKnown(frames, newest)

\* A map is about to be deployed; only one is; and it has this number.
Announcing(frames) == \E i \in 1 .. Len(frames) : Announces(frames[i])

AnnouncedOnce(frames) ==
  \A i, j \in 1 .. Len(frames) : Announces(frames[i]) /\ Announces(frames[j]) => i = j

Announcement(frames, number) ==
  \A i \in 1 .. Len(frames) : Announces(frames[i]) => frames[i].block.number = number

SameAnnounced(frames, others) ==
  /\ Announcing(others) <=> Announcing(frames)
  /\ AnnouncedOnce(frames) => AnnouncedOnce(others)
  /\ \A number : Announcement(frames, number) => Announcement(others, number)

Deploys(block, number) == block.kind = "deploy" /\ block.number = number

\* What holds while the innermost frame waits: nothing changed since the call.
FrameOK(frame) ==
  /\ frame.pc = "update" => Fits(frame.change)
  /\ frame.pc = "schedule" =>
       /\ frame.block.kind \in {"wait", "relayout", "environment"}
       /\ frame.block.number \in 1 .. Newest

StackInv ==
  /\ stack # << >> => FrameOK(stack[1])
  /\ StackOK(stack, Newest)

Base == IF Announcing(stack) THEN visible + 1 ELSE visible
Prepared == Newest - Len(editing)

\* What is with the editing queue when the newest map has the given number.
EditingLined(queue, newest) ==
  /\ Len(queue) <= newest
  /\ \A i \in 1 .. Len(queue) : Deploys(queue[i], newest - Len(queue) + i)

\* The maps a block needs deployed before it runs are those up to here.
Need(block) == IF block.kind = "deploy" THEN block.number - 1 ELSE block.number

\* A queue of blocks that, after the map base, deploys those up to prepared.
DeploysInRange(queue, base, prepared) ==
  \A i \in 1 .. Len(queue) :
    queue[i].kind = "deploy" => base < queue[i].number /\ queue[i].number <= prepared

DeploysInOrder(queue) ==
  \A i, j \in 1 .. Len(queue) :
    i < j /\ queue[i].kind = "deploy" /\ queue[j].kind = "deploy" =>
      queue[i].number < queue[j].number

DeploysAll(queue, base, prepared) ==
  \A n \in base + 1 .. prepared : \E i \in 1 .. Len(queue) : Deploys(queue[i], n)

NeedsAreAhead(queue, base) ==
  \A i \in 1 .. Len(queue) : \A n \in base + 1 .. Need(queue[i]) :
    \E j \in 1 .. i - 1 : Deploys(queue[j], n)

BlocksLined(queue, base, prepared) ==
  /\ DeploysInRange(queue, base, prepared)
  /\ DeploysInOrder(queue)
  /\ DeploysAll(queue, base, prepared)
  /\ NeedsAreAhead(queue, base)

MapsInLine ==
  /\ AnnouncedOnce(stack) /\ Announcement(stack, visible + 1)
  /\ Base <= Prepared
  /\ BlocksLined(blocks, Base, Prepared)

DataInv ==
  /\ DataTypeOK /\ told <= trait /\ StackInv
  /\ EditingLined(editing, Newest)
  /\ ~interrupted => MapsInLine

-----------------------------------------------------------------------------
(* Sequences.                                                              *)

LEMMA Pushed ==
  ASSUME NEW S, NEW s \in Seq(S), NEW x \in S
  PROVE  /\ <<x>> \o s \in Seq(S)
         /\ <<x>> \o s # << >>
         /\ Len(<<x>> \o s) = Len(s) + 1
         /\ (<<x>> \o s)[1] = x
         /\ \A i \in 1 .. Len(s) : (<<x>> \o s)[i + 1] = s[i]
<1>1. <<x>> \in Seq(S) /\ Len(<<x>>) = 1 /\ <<x>>[1] = x
  OBVIOUS
<1>2. /\ <<x>> \o s \in Seq(S)
      /\ Len(<<x>> \o s) = 1 + Len(s)
      /\ \A i \in 1 .. 1 + Len(s) : (<<x>> \o s)[i] = IF i <= 1 THEN <<x>>[i] ELSE s[i - 1]
  BY <1>1, ConcatProperties
<1>3. Len(s) \in Nat
  OBVIOUS
<1>4. <<x>> \o s # << >>
  BY <1>2, <1>3, EmptySeq
<1> QED
  BY <1>1, <1>2, <1>3, <1>4

LEMMA Popped ==
  ASSUME NEW S, NEW s \in Seq(S), s # << >>
  PROVE  /\ Head(s) = s[1] /\ s[1] \in S
         /\ Len(s) \in Nat \ {0}
         /\ Tail(s) \in Seq(S)
         /\ Len(Tail(s)) = Len(s) - 1
         /\ \A i \in 1 .. Len(s) - 1 : Tail(s)[i] = s[i + 1]
  BY HeadTailProperties, EmptySeq, ElementOfSeq

LEMMA Added ==
  ASSUME NEW S, NEW s \in Seq(S), NEW x \in S
  PROVE  /\ Append(s, x) \in Seq(S)
         /\ Len(s) \in Nat
         /\ Len(Append(s, x)) = Len(s) + 1
         /\ \A i \in 1 .. Len(s) : Append(s, x)[i] = s[i]
         /\ Append(s, x)[Len(s) + 1] = x
  BY AppendProperties

-----------------------------------------------------------------------------
(* Frames and the stack.                                                   *)

LEMMA FrameKinds ==
  /\ \A c \in Changes : Updating(c) \in Frame
  /\ Draining \in Frame
  /\ \A b \in Block : Scheduling(b) \in Frame
  /\ \A b \in Block : Telling("will", b) \in Frame /\ Telling("did", b) \in Frame
  /\ \A pc \in {"range", "hook"} : Ranging(pc) \in Frame
  BY DEF Frame, Updating, Draining, Scheduling, Telling, Ranging

LEMMA FrameParts ==
  ASSUME NEW f \in Frame
  PROVE  /\ f.pc = "update" => f.change \in Changes
         /\ f.pc \in {"schedule", "will", "did"} => f.block \in Block
  BY DEF Frame, Updating

LEMMA PushedFrame ==
  ASSUME NEW newest, NEW s, StackOK(s, newest), NEW f \in Frame, s = << >> \/ s[1].pc \in Quiet,
         f.pc = "will" => f.block.number \in 1 .. newest
  PROVE  /\ StackOK(<<f>> \o s, newest)
         /\ <<f>> \o s # << >>
         /\ (<<f>> \o s)[1] = f
<1> DEFINE t == <<f>> \o s
<1>1. s \in Seq(Frame) /\ QuietBelow(s) /\ WillsKnown(s, newest)
  BY DEF StackOK
<1>2. /\ t \in Seq(Frame) /\ t # << >> /\ t[1] = f /\ Len(t) = Len(s) + 1
      /\ \A i \in 1 .. Len(s) : t[i + 1] = s[i]
  BY <1>1, Pushed
<1>3. Len(s) \in Nat /\ (s = << >> => Len(s) = 0)
  BY <1>1
<1>4. ASSUME NEW i \in 2 .. Len(t)
      PROVE  /\ t[i].pc \in Quiet
             /\ t[i].pc = "will" => t[i].block.number \in 1 .. newest
  <2>1. i - 1 \in 1 .. Len(s) /\ t[i] = s[i - 1]
    BY <1>2, <1>3, i - 1 \in 1 .. Len(s), (i - 1) + 1 = i
  <2>2. t[i].pc = "will" => t[i].block.number \in 1 .. newest
    BY <2>1, <1>1 DEF WillsKnown
  <2>3. CASE i = 2
    BY <2>1, <2>2, <2>3, <1>3
  <2>4. CASE i # 2
    BY <2>1, <2>2, <2>4, <1>1, <1>3, i - 1 \in 2 .. Len(s) DEF QuietBelow
  <2> QED
    BY <2>3, <2>4
<1>5. QuietBelow(t)
  BY <1>4 DEF QuietBelow
<1>6. WillsKnown(t, newest)
  BY <1>2, <1>3, <1>4, \A i \in 1 .. Len(t) : i = 1 \/ i \in 2 .. Len(t) DEF WillsKnown
<1> QED
  BY <1>2, <1>5, <1>6 DEF StackOK

LEMMA PoppedFrame ==
  ASSUME NEW newest, NEW s, StackOK(s, newest), s # << >>
  PROVE  /\ StackOK(Tail(s), newest)
         /\ Tail(s) = << >> \/ Tail(s)[1].pc \in Quiet
<1>1. s \in Seq(Frame) /\ QuietBelow(s) /\ WillsKnown(s, newest)
  BY DEF StackOK
<1>2. /\ Tail(s) \in Seq(Frame) /\ Len(s) \in Nat \ {0} /\ Len(Tail(s)) = Len(s) - 1
      /\ \A i \in 1 .. Len(s) - 1 : Tail(s)[i] = s[i + 1]
  BY <1>1, Popped
<1>3. ASSUME NEW i \in 1 .. Len(Tail(s))
      PROVE  /\ Tail(s)[i].pc \in Quiet
             /\ Tail(s)[i].pc = "will" => Tail(s)[i].block.number \in 1 .. newest
  BY <1>1, <1>2, Tail(s)[i] = s[i + 1], i + 1 \in 2 .. Len(s) DEF QuietBelow, WillsKnown
<1>4. Tail(s) # << >> => 1 \in 1 .. Len(Tail(s))
  BY <1>2, EmptySeq
<1>5. QuietBelow(Tail(s)) /\ WillsKnown(Tail(s), newest)
  BY <1>3, <1>2 DEF QuietBelow, WillsKnown
<1> QED
  BY <1>2, <1>3, <1>4, <1>5 DEF StackOK

LEMMA ReplacedFrame ==
  ASSUME NEW newest, NEW s, StackOK(s, newest), NEW f \in Frame, s # << >>,
         f.pc = "will" => f.block.number \in 1 .. newest
  PROVE  /\ StackOK(<<f>> \o Tail(s), newest)
         /\ <<f>> \o Tail(s) # << >>
         /\ (<<f>> \o Tail(s))[1] = f
  BY PoppedFrame, PushedFrame

\* More maps are known as they are computed.
LEMMA StackKnows ==
  ASSUME NEW newest \in Nat, NEW s, StackOK(s, newest)
  PROVE  StackOK(s, newest + 1)
  BY DEF StackOK, WillsKnown

-----------------------------------------------------------------------------
(* The map about to be deployed.                                           *)

LEMMA PushedAnnounces ==
  ASSUME NEW s \in Seq(Frame), NEW f \in Frame
  PROVE  /\ ~Announces(f) => SameAnnounced(s, <<f>> \o s)
         /\ Announces(f) /\ ~Announcing(s) =>
              /\ Announcing(<<f>> \o s) /\ AnnouncedOnce(<<f>> \o s)
              /\ Announcement(<<f>> \o s, f.block.number)
<1> DEFINE t == <<f>> \o s
<1>1. /\ t[1] = f /\ Len(t) = Len(s) + 1 /\ Len(s) \in Nat
      /\ \A i \in 1 .. Len(s) : t[i + 1] = s[i]
  BY Pushed
<1> HIDE DEF t
<1>2. \A i \in 1 .. Len(t) : i = 1 \/ (i - 1 \in 1 .. Len(s) /\ t[i] = s[i - 1])
  <2> TAKE i \in 1 .. Len(t)
  <2>1. CASE i # 1
    <3>1. i - 1 \in 1 .. Len(s) /\ (i - 1) + 1 = i
      BY <2>1, <1>1
    <3> QED
      BY <3>1, <1>1
  <2> QED
    BY <2>1
<1>3. 1 \in 1 .. Len(t) /\ \A i \in 1 .. Len(s) : i + 1 \in 1 .. Len(t)
  BY <1>1
<1>4. CASE ~Announces(f)
  <2>1. \A i \in 1 .. Len(t) : Announces(t[i]) => i - 1 \in 1 .. Len(s) /\ t[i] = s[i - 1]
    BY <1>1, <1>2, <1>4
  <2>2. Announcing(t) <=> Announcing(s)
    <3>1. ASSUME Announcing(s) PROVE Announcing(t)
      <4>1. PICK i \in 1 .. Len(s) : Announces(s[i])
        BY <3>1 DEF Announcing
      <4>2. i + 1 \in 1 .. Len(t) /\ Announces(t[i + 1])
        BY <4>1, <1>1, <1>3
      <4> QED
        BY <4>2 DEF Announcing
    <3>2. ASSUME Announcing(t) PROVE Announcing(s)
      <4>1. PICK i \in 1 .. Len(t) : Announces(t[i])
        BY <3>2 DEF Announcing
      <4>2. i - 1 \in 1 .. Len(s) /\ Announces(s[i - 1])
        BY <4>1, <2>1
      <4> QED
        BY <4>2 DEF Announcing
    <3> QED
      BY <3>1, <3>2
  <2>3. ASSUME AnnouncedOnce(s) PROVE AnnouncedOnce(t)
    <3> SUFFICES ASSUME NEW i \in 1 .. Len(t), NEW j \in 1 .. Len(t), Announces(t[i]), Announces(t[j])
                 PROVE  i = j
      BY DEF AnnouncedOnce
    <3>1. i - 1 = j - 1
      BY <2>1, <2>3 DEF AnnouncedOnce
    <3> QED
      BY <3>1, <1>1
  <2>4. ASSUME NEW number, Announcement(s, number) PROVE Announcement(t, number)
    BY <2>1, <2>4 DEF Announcement
  <2> QED
    BY <1>4, <2>2, <2>3, <2>4 DEF SameAnnounced, t
<1>5. CASE Announces(f) /\ ~Announcing(s)
  <2>1. \A i \in 1 .. Len(t) : Announces(t[i]) => i = 1
    BY <1>2, <1>5 DEF Announcing
  <2>2. Announcing(t) /\ AnnouncedOnce(t) /\ Announcement(t, f.block.number)
    BY <1>1, <1>3, <1>5, <2>1 DEF Announcing, AnnouncedOnce, Announcement
  <2> QED
    BY <1>5, <2>2 DEF t
<1> QED
  BY <1>4, <1>5

LEMMA PoppedAnnounces ==
  ASSUME NEW s \in Seq(Frame), s # << >>
  PROVE  /\ ~Announces(s[1]) => SameAnnounced(s, Tail(s))
         /\ Announces(s[1]) /\ AnnouncedOnce(s) => ~Announcing(Tail(s))
<1> DEFINE t == Tail(s)
<1>1. /\ Len(s) \in Nat \ {0} /\ Len(t) = Len(s) - 1
      /\ \A i \in 1 .. Len(s) - 1 : t[i] = s[i + 1]
  BY Popped
<1> HIDE DEF t
<1>2. \A i \in 1 .. Len(t) : i + 1 \in 1 .. Len(s) /\ t[i] = s[i + 1]
  BY <1>1
<1>3. \A i \in 1 .. Len(s) : i = 1 \/ (i - 1 \in 1 .. Len(t) /\ s[i] = t[i - 1])
  <2> TAKE i \in 1 .. Len(s)
  <2>1. CASE i # 1
    <3>1. i - 1 \in 1 .. Len(s) - 1 /\ (i - 1) + 1 = i
      BY <2>1, <1>1
    <3> QED
      BY <3>1, <1>1
  <2> QED
    BY <2>1
<1>4. CASE ~Announces(s[1])
  <2>1. Announcing(t) <=> Announcing(s)
    <3>1. ASSUME Announcing(s) PROVE Announcing(t)
      <4>1. PICK i \in 1 .. Len(s) : Announces(s[i])
        BY <3>1 DEF Announcing
      <4>2. i - 1 \in 1 .. Len(t) /\ Announces(t[i - 1])
        BY <4>1, <1>3, <1>4
      <4> QED
        BY <4>2 DEF Announcing
    <3>2. ASSUME Announcing(t) PROVE Announcing(s)
      <4>1. PICK i \in 1 .. Len(t) : Announces(t[i])
        BY <3>2 DEF Announcing
      <4>2. i + 1 \in 1 .. Len(s) /\ Announces(s[i + 1])
        BY <4>1, <1>2
      <4> QED
        BY <4>2 DEF Announcing
    <3> QED
      BY <3>1, <3>2
  <2>2. ASSUME AnnouncedOnce(s) PROVE AnnouncedOnce(t)
    <3> SUFFICES ASSUME NEW i \in 1 .. Len(t), NEW j \in 1 .. Len(t), Announces(t[i]), Announces(t[j])
                 PROVE  i = j
      BY DEF AnnouncedOnce
    <3>1. i + 1 = j + 1
      BY <1>2, <2>2 DEF AnnouncedOnce
    <3> QED
      BY <3>1, <1>1
  <2>3. ASSUME NEW number, Announcement(s, number) PROVE Announcement(t, number)
    BY <1>2, <2>3 DEF Announcement
  <2> QED
    BY <1>4, <2>1, <2>2, <2>3 DEF SameAnnounced, t
<1>5. ASSUME Announces(s[1]), AnnouncedOnce(s), Announcing(t) PROVE FALSE
  <2>1. PICK i \in 1 .. Len(t) : Announces(t[i])
    BY <1>5 DEF Announcing
  <2>2. i + 1 \in 1 .. Len(s) /\ Announces(s[i + 1]) /\ 1 \in 1 .. Len(s)
    BY <2>1, <1>1, <1>2
  <2>3. i + 1 = 1
    BY <2>2, <1>5 DEF AnnouncedOnce
  <2> QED
    BY <2>3, <1>1
<1> QED
  BY <1>4, <1>5 DEF t

LEMMA SameTwice ==
  ASSUME NEW r, NEW s, NEW t, SameAnnounced(r, s), SameAnnounced(s, t)
  PROVE  SameAnnounced(r, t)
  BY DEF SameAnnounced

LEMMA ReplacedAnnounces ==
  ASSUME NEW s \in Seq(Frame), s # << >>, ~Announces(s[1]), NEW f \in Frame, ~Announces(f)
  PROVE  SameAnnounced(s, <<f>> \o Tail(s))
<1>1. SameAnnounced(s, Tail(s)) /\ Tail(s) \in Seq(Frame)
  BY PoppedAnnounces, Popped
<1>2. SameAnnounced(Tail(s), <<f>> \o Tail(s))
  BY <1>1, PushedAnnounces
<1> QED
  BY <1>1, <1>2, SameTwice

-----------------------------------------------------------------------------
(* Queues of blocks.                                                       *)

LEMMA BlockParts ==
  ASSUME NEW b \in Block
  PROVE  /\ b.kind \in {"deploy", "notify", "wait", "relayout", "environment"}
         /\ b.number \in Nat /\ b.reload \in BOOLEAN
  BY DEF Block

\* The next map is handed over.
LEMMA LinedAddDeploy ==
  ASSUME NEW q \in Seq(Block), NEW base \in Nat, NEW prepared \in Nat, base <= prepared,
         BlocksLined(q, base, prepared), NEW x \in Block, Deploys(x, prepared + 1)
  PROVE  BlocksLined(Append(q, x), base, prepared + 1)
<1> DEFINE t == Append(q, x)
<1>1. /\ t \in Seq(Block) /\ Len(q) \in Nat /\ Len(t) = Len(q) + 1
      /\ \A i \in 1 .. Len(q) : t[i] = q[i]
      /\ t[Len(q) + 1] = x
  BY Added
<1>2. x.kind = "deploy" /\ x.number = prepared + 1
  BY DEF Deploys
<1>3. \A i \in 1 .. Len(q) : q[i].number \in Nat
  BY ElementOfSeq, BlockParts
<1>4. /\ \A i \in 1 .. Len(q) : q[i].kind = "deploy" => base < q[i].number /\ q[i].number <= prepared
      /\ \A i, j \in 1 .. Len(q) :
           i < j /\ q[i].kind = "deploy" /\ q[j].kind = "deploy" => q[i].number < q[j].number
      /\ \A n \in base + 1 .. prepared : \E i \in 1 .. Len(q) : Deploys(q[i], n)
      /\ \A i \in 1 .. Len(q) : \A n \in base + 1 .. Need(q[i]) :
           \E j \in 1 .. i - 1 : Deploys(q[j], n)
  BY DEF BlocksLined, DeploysInRange, DeploysInOrder, DeploysAll, NeedsAreAhead
<1> HIDE DEF t
<1>5. DeploysInRange(t, base, prepared + 1)
  BY <1>1, <1>2, <1>3, <1>4 DEF DeploysInRange
<1>6. DeploysInOrder(t)
  BY <1>1, <1>2, <1>3, <1>4 DEF DeploysInOrder
<1>7. DeploysAll(t, base, prepared + 1)
  <2> SUFFICES ASSUME NEW n \in base + 1 .. prepared + 1
               PROVE  \E i \in 1 .. Len(t) : Deploys(t[i], n)
    BY DEF DeploysAll
  <2>1. CASE n = prepared + 1
    BY <1>1, <2>1, Len(q) + 1 \in 1 .. Len(t)
  <2>2. CASE n # prepared + 1
    <3>1. n \in base + 1 .. prepared
      BY <2>2
    <3>2. PICK i \in 1 .. Len(q) : Deploys(q[i], n)
      BY <3>1, <1>4
    <3>3. i \in 1 .. Len(t) /\ Deploys(t[i], n)
      BY <3>2, <1>1
    <3> QED
      BY <3>3
  <2> QED
    BY <2>1, <2>2
<1>8. NeedsAreAhead(t, base)
  <2> SUFFICES ASSUME NEW i \in 1 .. Len(t), NEW n \in base + 1 .. Need(t[i])
               PROVE  \E j \in 1 .. i - 1 : Deploys(t[j], n)
    BY DEF NeedsAreAhead
  <2>1. CASE i = Len(q) + 1
    <3>1. n \in base + 1 .. prepared
      BY <1>1, <1>2, <2>1 DEF Need
    <3>2. PICK j \in 1 .. Len(q) : Deploys(q[j], n)
      BY <3>1, <1>4
    <3>3. j \in 1 .. i - 1 /\ Deploys(t[j], n)
      BY <3>2, <2>1, <1>1
    <3> QED
      BY <3>3
  <2>2. CASE i # Len(q) + 1
    <3>1. i \in 1 .. Len(q) /\ t[i] = q[i]
      BY <2>2, <1>1
    <3>2. PICK j \in 1 .. i - 1 : Deploys(q[j], n)
      BY <3>1, <1>4
    <3>3. j \in 1 .. Len(q) /\ Deploys(t[j], n)
      BY <3>1, <3>2, <1>1
    <3> QED
      BY <3>2, <3>3
  <2> QED
    BY <2>1, <2>2
<1> QED
  BY <1>5, <1>6, <1>7, <1>8 DEF BlocksLined, t

\* A block that deploys nothing is added once what it needs is handed over.
LEMMA LinedAddOther ==
  ASSUME NEW q \in Seq(Block), NEW base \in Nat, NEW prepared \in Nat, base <= prepared,
         BlocksLined(q, base, prepared), NEW x \in Block, x.kind # "deploy", x.number <= prepared
  PROVE  BlocksLined(Append(q, x), base, prepared)
<1> DEFINE t == Append(q, x)
<1>1. /\ t \in Seq(Block) /\ Len(q) \in Nat /\ Len(t) = Len(q) + 1
      /\ \A i \in 1 .. Len(q) : t[i] = q[i]
      /\ t[Len(q) + 1] = x
  BY Added
<1>2. x.number \in Nat
  BY BlockParts
<1>3. \A i \in 1 .. Len(q) : q[i].number \in Nat
  BY ElementOfSeq, BlockParts
<1>4. /\ \A i \in 1 .. Len(q) : q[i].kind = "deploy" => base < q[i].number /\ q[i].number <= prepared
      /\ \A i, j \in 1 .. Len(q) :
           i < j /\ q[i].kind = "deploy" /\ q[j].kind = "deploy" => q[i].number < q[j].number
      /\ \A n \in base + 1 .. prepared : \E i \in 1 .. Len(q) : Deploys(q[i], n)
      /\ \A i \in 1 .. Len(q) : \A n \in base + 1 .. Need(q[i]) :
           \E j \in 1 .. i - 1 : Deploys(q[j], n)
  BY DEF BlocksLined, DeploysInRange, DeploysInOrder, DeploysAll, NeedsAreAhead
<1> HIDE DEF t
<1>5. DeploysInRange(t, base, prepared)
  BY <1>1, <1>3, <1>4 DEF DeploysInRange
<1>6. DeploysInOrder(t)
  <2> SUFFICES ASSUME NEW i \in 1 .. Len(t), NEW j \in 1 .. Len(t), i < j,
                      t[i].kind = "deploy", t[j].kind = "deploy"
               PROVE  t[i].number < t[j].number
    BY DEF DeploysInOrder
  <2>1. j # Len(q) + 1
    BY <1>1
  <2>2. i \in 1 .. Len(q) /\ j \in 1 .. Len(q) /\ t[i] = q[i] /\ t[j] = q[j]
    BY <2>1, <1>1
  <2> QED
    BY <2>2, <1>4
<1>7. DeploysAll(t, base, prepared)
  <2> SUFFICES ASSUME NEW n \in base + 1 .. prepared
               PROVE  \E i \in 1 .. Len(t) : Deploys(t[i], n)
    BY DEF DeploysAll
  <2>1. PICK i \in 1 .. Len(q) : Deploys(q[i], n)
    BY <1>4
  <2>2. i \in 1 .. Len(t) /\ Deploys(t[i], n)
    BY <2>1, <1>1
  <2> QED
    BY <2>2
<1>8. NeedsAreAhead(t, base)
  <2> SUFFICES ASSUME NEW i \in 1 .. Len(t), NEW n \in base + 1 .. Need(t[i])
               PROVE  \E j \in 1 .. i - 1 : Deploys(t[j], n)
    BY DEF NeedsAreAhead
  <2>1. CASE i = Len(q) + 1
    <3>1. n \in base + 1 .. prepared
      BY <1>1, <1>2, <2>1 DEF Need
    <3>2. PICK j \in 1 .. Len(q) : Deploys(q[j], n)
      BY <3>1, <1>4
    <3>3. j \in 1 .. i - 1 /\ Deploys(t[j], n)
      BY <3>2, <2>1, <1>1
    <3> QED
      BY <3>3
  <2>2. CASE i # Len(q) + 1
    <3>1. i \in 1 .. Len(q) /\ t[i] = q[i]
      BY <2>2, <1>1
    <3>2. PICK j \in 1 .. i - 1 : Deploys(q[j], n)
      BY <3>1, <1>4
    <3>3. j \in 1 .. Len(q) /\ Deploys(t[j], n)
      BY <3>1, <3>2, <1>1
    <3> QED
      BY <3>2, <3>3
  <2> QED
    BY <2>1, <2>2
<1> QED
  BY <1>5, <1>6, <1>7, <1>8 DEF BlocksLined, t

\* The first block deploys the map after base, or needs none after it.
LEMMA LinedTake ==
  ASSUME NEW q \in Seq(Block), NEW base \in Nat, NEW prepared \in Nat, base <= prepared,
         BlocksLined(q, base, prepared), q # << >>
  PROVE  /\ q[1].kind = "deploy" =>
              /\ q[1].number = base + 1 /\ base + 1 <= prepared
              /\ BlocksLined(Tail(q), base + 1, prepared)
         /\ q[1].kind # "deploy" =>
              /\ q[1].number <= base
              /\ BlocksLined(Tail(q), base, prepared)
<1> DEFINE t == Tail(q)
<1> DEFINE b == IF q[1].kind = "deploy" THEN base + 1 ELSE base
<1>1. /\ t \in Seq(Block) /\ Len(q) \in Nat \ {0} /\ Len(t) = Len(q) - 1
      /\ \A i \in 1 .. Len(q) - 1 : t[i] = q[i + 1]
      /\ q[1] \in Block
  BY Popped
<1>2. \A i \in 1 .. Len(q) : q[i].number \in Nat
  BY ElementOfSeq, BlockParts
<1>3. /\ \A i \in 1 .. Len(q) : q[i].kind = "deploy" => base < q[i].number /\ q[i].number <= prepared
      /\ \A i, j \in 1 .. Len(q) :
           i < j /\ q[i].kind = "deploy" /\ q[j].kind = "deploy" => q[i].number < q[j].number
      /\ \A n \in base + 1 .. prepared : \E i \in 1 .. Len(q) : Deploys(q[i], n)
      /\ \A i \in 1 .. Len(q) : \A n \in base + 1 .. Need(q[i]) :
           \E j \in 1 .. i - 1 : Deploys(q[j], n)
  BY DEF BlocksLined, DeploysInRange, DeploysInOrder, DeploysAll, NeedsAreAhead
<1>4. Need(q[1]) <= base
  <2>1. 1 \in 1 .. Len(q) /\ Need(q[1]) \in Int
    BY <1>1, <1>2 DEF Need
  <2>2. \A n \in base + 1 .. Need(q[1]) : FALSE
    BY <2>1, <1>3
  <2> QED
    BY <2>1, <2>2, base + 1 \in base + 1 .. Need(q[1]) \/ Need(q[1]) <= base
<1>5. /\ q[1].kind = "deploy" => q[1].number = base + 1 /\ base + 1 <= prepared
      /\ q[1].kind # "deploy" => q[1].number <= base
  BY <1>1, <1>2, <1>3, <1>4, 1 \in 1 .. Len(q) DEF Need
<1>6. b \in Nat /\ b <= prepared /\ base <= b
  BY <1>5
<1>7. \A n \in b + 1 .. prepared : ~Deploys(q[1], n)
  BY <1>5, <1>6 DEF Deploys
<1> HIDE DEF t
<1>8. DeploysInRange(t, b, prepared)
  <2> SUFFICES ASSUME NEW i \in 1 .. Len(t), t[i].kind = "deploy"
               PROVE  b < t[i].number /\ t[i].number <= prepared
    BY DEF DeploysInRange
  <2>1. i + 1 \in 1 .. Len(q) /\ t[i] = q[i + 1] /\ 1 \in 1 .. Len(q) /\ 1 < i + 1
    BY <1>1
  <2>2. base < q[i + 1].number /\ q[i + 1].number <= prepared
    BY <2>1, <1>3
  <2>3. q[1].kind = "deploy" => q[1].number < q[i + 1].number
    BY <2>1, <1>3
  <2> QED
    BY <2>1, <2>2, <2>3, <1>2, <1>5
<1>9. DeploysInOrder(t)
  <2> SUFFICES ASSUME NEW i \in 1 .. Len(t), NEW j \in 1 .. Len(t), i < j,
                      t[i].kind = "deploy", t[j].kind = "deploy"
               PROVE  t[i].number < t[j].number
    BY DEF DeploysInOrder
  <2>1. /\ i + 1 \in 1 .. Len(q) /\ j + 1 \in 1 .. Len(q) /\ i + 1 < j + 1
        /\ t[i] = q[i + 1] /\ t[j] = q[j + 1]
    BY <1>1
  <2> QED
    BY <2>1, <1>3
<1>10. DeploysAll(t, b, prepared)
  <2> SUFFICES ASSUME NEW n \in b + 1 .. prepared
               PROVE  \E i \in 1 .. Len(t) : Deploys(t[i], n)
    BY DEF DeploysAll
  <2>1. PICK i \in 1 .. Len(q) : Deploys(q[i], n)
    BY <1>3, <1>6, n \in base + 1 .. prepared
  <2>2. i # 1
    BY <2>1, <1>7
  <2>3. i - 1 \in 1 .. Len(t) /\ t[i - 1] = q[i]
    BY <2>2, <1>1, i - 1 \in 1 .. Len(q) - 1, (i - 1) + 1 = i
  <2> QED
    BY <2>1, <2>3
<1>11. NeedsAreAhead(t, b)
  <2> SUFFICES ASSUME NEW i \in 1 .. Len(t), NEW n \in b + 1 .. Need(t[i])
               PROVE  \E j \in 1 .. i - 1 : Deploys(t[j], n)
    BY DEF NeedsAreAhead
  <2>1. i + 1 \in 1 .. Len(q) /\ t[i] = q[i + 1]
    BY <1>1
  <2>2. Need(q[i + 1]) \in Int /\ n \in base + 1 .. Need(q[i + 1]) /\ n \in Int
    BY <2>1, <1>2, <1>6 DEF Need
  <2>3. PICK j \in 1 .. (i + 1) - 1 : Deploys(q[j], n)
    BY <2>1, <2>2, <1>3
  <2>4. j # 1
    <3> SUFFICES ASSUME Deploys(q[1], n) PROVE FALSE
      BY <2>3
    <3> QED
      BY <1>5, <1>6, <2>2 DEF Deploys
  <2>5. j - 1 \in 1 .. i - 1 /\ t[j - 1] = q[j]
    BY <2>3, <2>4, <2>1, <1>1, j - 1 \in 1 .. Len(q) - 1, (j - 1) + 1 = j
  <2> QED
    BY <2>3, <2>5
<1>12. BlocksLined(t, b, prepared)
  BY <1>8, <1>9, <1>10, <1>11 DEF BlocksLined
<1> QED
  BY <1>5, <1>12 DEF t

LEMMA EditingAdd ==
  ASSUME NEW q \in Seq(Block), NEW newest \in Nat, EditingLined(q, newest),
         NEW x \in Block, Deploys(x, newest + 1)
  PROVE  EditingLined(Append(q, x), newest + 1)
<1>1. /\ Append(q, x) \in Seq(Block) /\ Len(q) \in Nat /\ Len(Append(q, x)) = Len(q) + 1
      /\ \A i \in 1 .. Len(q) : Append(q, x)[i] = q[i]
      /\ Append(q, x)[Len(q) + 1] = x
  BY Added
<1>2. Len(q) <= newest /\ \A i \in 1 .. Len(q) : Deploys(q[i], newest - Len(q) + i)
  BY DEF EditingLined
<1>3. ASSUME NEW i \in 1 .. Len(q) + 1
      PROVE  Deploys(Append(q, x)[i], (newest + 1) - (Len(q) + 1) + i)
  <2>1. (newest + 1) - (Len(q) + 1) + i = newest - Len(q) + i
    BY <1>1
  <2>2. CASE i = Len(q) + 1
    BY <2>2, <1>1, newest - Len(q) + i = newest + 1, <2>1
  <2>3. CASE i # Len(q) + 1
    BY <2>3, <2>1, <1>1, <1>2, i \in 1 .. Len(q)
  <2> QED
    BY <2>2, <2>3
<1> QED
  BY <1>1, <1>2, <1>3 DEF EditingLined

LEMMA EditingTake ==
  ASSUME NEW q \in Seq(Block), NEW newest \in Nat, EditingLined(q, newest), q # << >>
  PROVE  EditingLined(Tail(q), newest) /\ Deploys(q[1], newest - Len(q) + 1)
<1>1. /\ Tail(q) \in Seq(Block) /\ Len(q) \in Nat \ {0} /\ Len(Tail(q)) = Len(q) - 1
      /\ \A i \in 1 .. Len(q) - 1 : Tail(q)[i] = q[i + 1]
  BY Popped
<1> QED
  BY <1>1 DEF EditingLined, Deploys

-----------------------------------------------------------------------------
(* What the steps use of the invariant.                                    *)

LEMMA Types ==
  ASSUME DataTypeOK
  PROVE  /\ maps \in Seq(Map) /\ Newest \in Nat \ {0} /\ visible \in 1 .. Newest
         /\ Pending \in Seq(Elements)
         /\ editing \in Seq(Block) /\ blocks \in Seq(Block) /\ stack \in Seq(Frame)
         /\ Len(editing) \in Nat
         /\ stack # << >> => stack[1] \in Frame
         /\ blocks # << >> => blocks[1] \in Block
         /\ editing # << >> => editing[1] \in Block
<1>1. maps \in Seq(Map) /\ visible \in 1 .. Len(maps) /\ Len(maps) \in Nat
  BY DEF DataTypeOK
<1>2. Newest \in Nat \ {0} /\ visible \in 1 .. Newest
  BY <1>1 DEF Newest
<1>3. Pending \in Seq(Elements)
  BY <1>1, ElementOfSeq, Len(maps) \in 1 .. Len(maps) DEF Pending, Map
<1>4. editing \in Seq(Block) /\ blocks \in Seq(Block) /\ stack \in Seq(Frame)
  BY DEF DataTypeOK
<1> QED
  BY <1>1, <1>2, <1>3, <1>4, Popped

LEMMA Callers == ClientRuns => stack = << >> \/ stack[1].pc \in Quiet
  BY DEF ClientRuns, At, Top, Quiet

\* A wait frame is the innermost one, over quiet ones.
LEMMA AtTop == \A pc : At(pc) <=> stack # << >> /\ stack[1].pc = pc
  BY DEF At, Top

LEMMA AnnouncedIs ==
  ASSUME DataTypeOK
  PROVE  Announced <=> Announcing(stack)
  BY Types, LenProperties DEF Announced, Announcing

\* The stack's parts, as its type.
LEMMA StackParts ==
  ASSUME DataInv
  PROVE  /\ StackOK(stack, Newest) /\ stack \in Seq(Frame)
         /\ ~interrupted => MapsInLine
  BY DEF DataInv, StackInv, StackOK

-----------------------------------------------------------------------------
(* Steps that leave the maps and the queues alone.                         *)

\* They keep the line if no map is announced or deployed.
LEMMA LineKept ==
  ASSUME MapsInLine, UNCHANGED <<maps, editing, blocks, visible>>, SameAnnounced(stack, stack')
  PROVE  MapsInLine'
<1>1. Newest' = Newest /\ Prepared' = Prepared /\ Base' = Base
  BY DEF Newest, Prepared, Base, SameAnnounced
<1>2. AnnouncedOnce(stack') /\ Announcement(stack', visible + 1)
  BY DEF SameAnnounced, MapsInLine
<1> QED
  BY <1>1, <1>2 DEF MapsInLine

\* They keep the invariant if the stack is as it should be.
LEMMA StackStep ==
  ASSUME DataInv, UNCHANGED <<maps, editing, blocks, visible, interrupted>>,
         DataTypeOK', told' <= trait', StackOK(stack', Newest), SameAnnounced(stack, stack'),
         stack' # << >> => FrameOK(stack[1])'
  PROVE  DataInv'
<1>1. Newest' = Newest
  BY DEF Newest
<1>2. StackInv' /\ EditingLined(editing, Newest)'
  BY <1>1 DEF StackInv, DataInv, EditingLined
<1>3. ~interrupted' => MapsInLine'
  BY LineKept DEF DataInv
<1> QED
  BY <1>2, <1>3 DEF DataInv

\* Stacks before and after a frame, not one that announces, is pushed by a caller.
LEMMA CallerPushes ==
  ASSUME DataInv, stack = << >> \/ stack[1].pc \in Quiet, NEW f \in Frame, f.pc # "will",
         stack' = <<f>> \o stack
  PROVE  /\ StackOK(stack', Newest) /\ SameAnnounced(stack, stack') /\ stack' \in Seq(Frame)
         /\ stack' # << >> /\ stack'[1] = f
<1>1. StackOK(stack', Newest) /\ stack' # << >> /\ stack'[1] = f
  BY StackParts, PushedFrame
<1>2. SameAnnounced(stack, stack')
  BY StackParts, PushedAnnounces DEF Announces
<1> QED
  BY <1>1, <1>2 DEF StackOK

LEMMA CallKeeps ==
  ASSUME DataInv, NEW change \in Changes, UpdateWithChangeSet(change)
  PROVE  DataInv'
<1>1. /\ ClientRuns /\ calls < MaxCalls /\ calls' = calls + 1 /\ Fits(change)
      /\ stack' = <<Updating(change)>> \o stack /\ initialReload' \in BOOLEAN
      /\ UNCHANGED <<maps, created, editing, interrupted, visible, traitVars, blocks, drains>>
  BY DEF UpdateWithChangeSet, Call, DataInv, DataTypeOK
<1>2. Updating(change) \in Frame /\ Updating(change).pc = "update" /\ Updating(change).change = change
  BY FrameKinds DEF Updating
<1>3. /\ StackOK(stack', Newest) /\ SameAnnounced(stack, stack') /\ stack' \in Seq(Frame)
      /\ stack' # << >> /\ stack'[1] = Updating(change)
  BY <1>1, <1>2, Callers, CallerPushes
<1>4. DataTypeOK' /\ told' <= trait'
  BY <1>1, <1>3, DataAssumption DEF DataInv, DataTypeOK, traitVars
<1>5. FrameOK(stack[1])'
  <2>1. Fits(stack[1].change)'
    BY <1>1, <1>2, <1>3 DEF Fits, Pending
  <2> QED
    BY <1>2, <1>3, <2>1 DEF FrameOK
<1> QED
  BY <1>1, <1>3, <1>4, <1>5, StackStep

LEMMA ScheduleKeeps ==
  ASSUME DataInv, NEW kind \in {"wait", "relayout"}, ScheduleBlock(kind)
  PROVE  DataInv'
<1> DEFINE b == [kind |-> kind, number |-> Newest, reload |-> FALSE]
<1>1. /\ ClientRuns /\ calls < MaxCalls /\ calls' = calls + 1
      /\ stack' = <<Scheduling(b)>> \o stack
      /\ UNCHANGED <<initialReload, maps, created, editing, interrupted, visible, traitVars,
                     blocks, drains>>
  BY DEF ScheduleBlock, Call, dataVars, mapVars
<1>2. /\ b \in Block /\ Newest \in 1 .. Newest /\ b.kind \in {"wait", "relayout", "environment"}
      /\ b.number = Newest
  BY Types DEF Block, DataInv
<1> HIDE DEF b
<1>3. Scheduling(b) \in Frame /\ Scheduling(b).pc = "schedule" /\ Scheduling(b).block = b
  BY <1>2, FrameKinds DEF Scheduling
<1>4. /\ StackOK(stack', Newest) /\ SameAnnounced(stack, stack') /\ stack' \in Seq(Frame)
      /\ stack' # << >> /\ stack'[1] = Scheduling(b)
  BY <1>1, <1>3, Callers, CallerPushes
<1>5. DataTypeOK' /\ told' <= trait'
  BY <1>1, <1>4, DataAssumption DEF DataInv, DataTypeOK, traitVars
<1>6. FrameOK(stack[1])'
  BY <1>1, <1>2, <1>3, <1>4 DEF FrameOK, Newest
<1> QED
  BY <1>1, <1>4, <1>5, <1>6, StackStep

LEMMA RangeKeeps ==
  ASSUME DataInv, BeginRange
  PROVE  DataInv'
<1>1. /\ ClientRuns /\ calls < MaxCalls /\ calls' = calls + 1
      /\ stack' = <<Ranging("range")>> \o stack
      /\ UNCHANGED <<initialReload, maps, created, editing, interrupted, visible, traitVars,
                     blocks, drains>>
  BY DEF BeginRange, Call, dataVars, mapVars
<1>2. Ranging("range") \in Frame /\ Ranging("range").pc = "range"
  BY FrameKinds DEF Ranging
<1>3. /\ StackOK(stack', Newest) /\ SameAnnounced(stack, stack') /\ stack' \in Seq(Frame)
      /\ stack' # << >> /\ stack'[1] = Ranging("range")
  BY <1>1, <1>2, Callers, CallerPushes
<1>4. DataTypeOK' /\ told' <= trait'
  BY <1>1, <1>3, DataAssumption DEF DataInv, DataTypeOK, traitVars
<1>5. FrameOK(stack[1])'
  BY <1>2, <1>3 DEF FrameOK
<1> QED
  BY <1>1, <1>3, <1>4, <1>5, StackStep

LEMMA RangeGoesOnKeeps ==
  ASSUME DataInv, NEW pc \in {"range", "hook"}, RangeGoesOn(pc)
  PROVE  DataInv'
<1>1. /\ stack # << >> /\ stack[1].pc \in {"range", "hook"} /\ stack' = <<Ranging(pc)>> \o Tail(stack)
      /\ UNCHANGED <<initialReload, maps, created, editing, interrupted, visible, traitVars,
                     blocks, drains, calls>>
  BY AtTop DEF RangeGoesOn, InRange, ReplaceTop, dataVars, mapVars
<1>2. Ranging(pc) \in Frame /\ Ranging(pc).pc = pc
  BY FrameKinds DEF Ranging
<1>3. StackOK(stack', Newest) /\ stack' # << >> /\ stack'[1] = Ranging(pc)
  BY <1>1, <1>2, StackParts, ReplacedFrame
<1>4. SameAnnounced(stack, stack')
  BY <1>1, <1>2, StackParts, ReplacedAnnounces DEF Announces
<1>5. DataTypeOK' /\ told' <= trait'
  BY <1>1, <1>3 DEF DataInv, DataTypeOK, traitVars, StackOK
<1>6. FrameOK(stack[1])'
  BY <1>2, <1>3 DEF FrameOK
<1> QED
  BY <1>1, <1>3, <1>4, <1>5, <1>6, StackStep

\* Both ways in which the environment's block comes to be scheduled.
LEMMA EnvironmentKeeps ==
  ASSUME DataInv, stack = << >> \/ stack[1].pc \in Quiet,
         UNCHANGED <<dataVars, visible, traits, blocks, drains, calls>>,
         trait' \in 0 .. MaxTraits, told' \in 0 .. MaxTraits, told' <= trait',
         stack' = <<Scheduling(EnvironmentBlock)>> \o stack \/ stack' = stack
  PROVE  DataInv'
<1> DEFINE b == EnvironmentBlock
<1>1. UNCHANGED <<initialReload, maps, created, editing, interrupted>> /\ Newest' = Newest
  BY DEF dataVars, mapVars, Newest
<1>2. b \in Block /\ Newest \in 1 .. Newest /\ b.kind = "environment" /\ b.number = Newest
  BY Types DEF EnvironmentBlock, Block, DataInv
<1> HIDE DEF b
<1>3. Scheduling(b) \in Frame /\ Scheduling(b).pc = "schedule" /\ Scheduling(b).block = b
  BY <1>2, FrameKinds DEF Scheduling
<1>4. CASE stack' = stack
  <2>1. StackOK(stack', Newest) /\ SameAnnounced(stack, stack')
    BY <1>4, StackParts DEF SameAnnounced
  <2>2. DataTypeOK'
    BY <1>1, <1>4 DEF DataInv, DataTypeOK
  <2>3. stack' # << >> => FrameOK(stack[1])'
    BY <1>4 DEF FrameOK, Quiet
  <2> QED
    BY <1>1, <2>1, <2>2, <2>3, StackStep
<1>5. CASE stack' = <<Scheduling(b)>> \o stack
  <2>1. /\ StackOK(stack', Newest) /\ SameAnnounced(stack, stack') /\ stack' \in Seq(Frame)
        /\ stack' # << >> /\ stack'[1] = Scheduling(b)
    BY <1>3, <1>5, CallerPushes
  <2>2. DataTypeOK'
    BY <1>1, <2>1 DEF DataInv, DataTypeOK
  <2>3. FrameOK(stack[1])'
    BY <1>1, <1>2, <1>3, <2>1 DEF FrameOK
  <2> QED
    BY <1>1, <2>1, <2>2, <2>3, StackStep
<1> QED
  BY <1>4, <1>5 DEF b

LEMMA OffMainKeeps ==
  ASSUME DataInv, ChangeEnvironmentOffMain
  PROVE  DataInv'
<1>1. /\ UNCHANGED <<maps, created, initialReload, editing, interrupted, visible, traits, blocks,
                     drains, stack, calls>>
      /\ trait < MaxTraits /\ trait' = trait + 1 /\ told' = told + 1
  BY DEF ChangeEnvironmentOffMain, dataVars, mapVars
<1>2. DataTypeOK' /\ told' <= trait'
  BY <1>1, DataAssumption DEF DataInv, DataTypeOK
<1>3. StackOK(stack', Newest) /\ SameAnnounced(stack, stack')
  BY <1>1, StackParts DEF SameAnnounced
<1>4. stack' # << >> => FrameOK(stack[1])'
  BY <1>1 DEF DataInv, StackInv, FrameOK, Fits, Pending, Newest
<1> QED
  BY <1>1, <1>2, <1>3, <1>4, StackStep

\* A frame is left that changed nothing.
LEMMA PopKeeps ==
  ASSUME DataInv, stack # << >>, stack[1].pc # "will", stack' = Tail(stack),
         UNCHANGED <<dataVars, visible, traitVars, blocks, drains, calls>>
  PROVE  DataInv'
<1>1. UNCHANGED <<initialReload, maps, created, editing, interrupted, trait, traits, told>>
  BY DEF dataVars, mapVars, traitVars
<1>2. StackOK(stack', Newest) /\ (stack' = << >> \/ stack'[1].pc \in Quiet)
  BY StackParts, PoppedFrame
<1>3. SameAnnounced(stack, stack')
  BY StackParts, PoppedAnnounces DEF Announces
<1>4. DataTypeOK' /\ told' <= trait'
  BY <1>1, <1>2 DEF DataInv, DataTypeOK, StackOK
<1>5. stack' # << >> => FrameOK(stack[1])'
  BY <1>2 DEF FrameOK, Quiet
<1> QED
  BY <1>1, <1>2, <1>3, <1>4, <1>5, StackStep

LEMMA DispatchedKeeps ==
  ASSUME DataInv, RunDispatched
  PROVE  DataInv'
<1>1. /\ UNCHANGED <<initialReload, maps, created, editing, interrupted, visible, trait, traits,
                     told, blocks, calls>>
      /\ drains' \in Nat /\ stack = << >> /\ stack' = <<Draining>>
  BY DEF RunDispatched, DataInv, DataTypeOK, dataVars, mapVars, traitVars
<1>2. Draining \in Frame /\ Draining.pc = "drain"
  BY FrameKinds DEF Draining
<1>3. stack' = <<Draining>> \o stack
  <2>1. <<Draining>> \in Seq(Frame)
    BY <1>2
  <2> QED
    BY <2>1, <1>1, ConcatEmptySeq
<1>4. /\ StackOK(stack', Newest) /\ SameAnnounced(stack, stack') /\ stack' \in Seq(Frame)
      /\ stack' # << >> /\ stack'[1] = Draining
  BY <1>1, <1>2, <1>3, CallerPushes
<1>5. DataTypeOK' /\ told' <= trait'
  BY <1>1, <1>4 DEF DataInv, DataTypeOK
<1>6. FrameOK(stack[1])'
  BY <1>2, <1>4 DEF FrameOK
<1> QED
  BY <1>1, <1>4, <1>5, <1>6, StackStep

-----------------------------------------------------------------------------
(* Steps that move maps and blocks along the line.                         *)

\* What comes after the wait adds a block that deploys nothing and drains.
LEMMA AddAndDrainKeeps ==
  ASSUME DataInv, NEW b \in Block, b.kind # "deploy", b.number \in 1 .. Newest,
         stack # << >>, stack[1].pc # "will", GroupEmpty,
         blocks' = Append(blocks, b), stack' = ReplaceTop(Draining),
         UNCHANGED <<dataVars, visible, traitVars, drains, calls>>
  PROVE  DataInv'
<1> USE DEF DataInv
<1>0. UNCHANGED <<initialReload, maps, created, editing, interrupted, trait, traits, told>>
  BY DEF dataVars, mapVars, traitVars
<1>1. Draining \in Frame /\ Draining.pc = "drain"
  BY FrameKinds DEF Draining
<1>2. /\ blocks' \in Seq(Block) /\ Len(blocks') = Len(blocks) + 1 /\ Len(blocks) \in Nat
      /\ \A i \in 1 .. Len(blocks) : blocks'[i] = blocks[i]
      /\ blocks'[Len(blocks) + 1] = b
  BY Types, Added
<1>3. \A i \in 1 .. Len(blocks') : blocks'[i].number \in 1 .. Len(maps)
  <2> SUFFICES ASSUME NEW i \in 1 .. Len(blocks') PROVE blocks'[i].number \in 1 .. Len(maps)
    OBVIOUS
  <2>1. CASE i = Len(blocks) + 1
    BY <2>1, <1>2 DEF Newest
  <2>2. CASE i # Len(blocks) + 1
    BY <2>2, <1>2, i \in 1 .. Len(blocks) DEF DataTypeOK
  <2> QED
    BY <2>1, <2>2
<1>4. StackOK(stack', Newest) /\ stack' # << >> /\ stack'[1] = Draining
  BY <1>1, StackParts, ReplacedFrame DEF ReplaceTop
<1>5. SameAnnounced(stack, stack')
  BY <1>1, StackParts, ReplacedAnnounces DEF ReplaceTop, Announces
<1>6. DataTypeOK' /\ told' <= trait'
  BY <1>0, <1>2, <1>3, <1>4 DEF DataTypeOK, StackOK
<1>7. Newest' = Newest
  BY <1>0 DEF Newest
<1>8. StackInv' /\ EditingLined(editing, Newest)'
  BY <1>0, <1>1, <1>4, <1>7 DEF StackInv, FrameOK, EditingLined
<1>9. ASSUME ~interrupted PROVE MapsInLine'
  <2>1. MapsInLine /\ Base' = Base /\ visible' = visible
    BY <1>5, <1>9 DEF Base, SameAnnounced
  <2>2. Prepared = Newest /\ Prepared' = Newest /\ Newest \in Nat /\ Base \in Nat
    BY <1>0, <1>7, Types DEF Prepared, GroupEmpty, Base
  <2>3. BlocksLined(blocks', Base, Newest)
    BY <2>1, <2>2, Types, LinedAddOther DEF MapsInLine
  <2>4. AnnouncedOnce(stack') /\ Announcement(stack', visible + 1)
    BY <2>1, <1>5 DEF SameAnnounced, MapsInLine
  <2> QED
    BY <2>1, <2>2, <2>3, <2>4 DEF MapsInLine
<1> QED
  BY <1>0, <1>6, <1>8, <1>9

LEMMA EmptyKeeps ==
  ASSUME DataInv, UpdateEmpty
  PROVE  DataInv'
<1> DEFINE b == [kind |-> "notify", number |-> Newest, reload |-> FALSE]
<1>1. b \in Block /\ b.kind # "deploy" /\ b.number \in 1 .. Newest
  BY Types DEF DataInv, Block
<1>2. /\ stack # << >> /\ stack[1].pc = "update" /\ GroupEmpty
      /\ blocks' = Append(blocks, b) /\ stack' = ReplaceTop(Draining)
      /\ UNCHANGED <<dataVars, visible, traitVars, drains, calls>>
  BY AtTop DEF UpdateEmpty
<1> HIDE DEF b
<1> QED
  BY <1>1, <1>2, AddAndDrainKeeps

LEMMA PerformKeeps ==
  ASSUME DataInv, PerformScheduled
  PROVE  DataInv'
<1>1. /\ stack # << >> /\ stack[1].pc = "schedule" /\ GroupEmpty
      /\ blocks' = Append(blocks, stack[1].block) /\ stack' = ReplaceTop(Draining)
      /\ UNCHANGED <<dataVars, visible, traitVars, drains, calls>>
  BY AtTop DEF PerformScheduled, Top
<1>2. stack[1].block \in Block
  BY <1>1, Types, FrameParts DEF DataInv
<1>3. stack[1].block.kind # "deploy" /\ stack[1].block.number \in 1 .. Newest
  BY <1>1 DEF DataInv, StackInv, FrameOK
<1> QED
  BY <1>1, <1>2, <1>3, AddAndDrainKeeps

\* What a change set that fits makes of the newest map.
LEMMA PendingParts ==
  ASSUME DataInv, UpdatePending
  PROVE  /\ stack # << >> /\ stack[1].pc = "update" /\ editing = << >> /\ initialReload
         /\ maps' = Append(maps, NewMap(stack[1].change, created'))
         /\ editing' = Append(editing, Deploying(Len(maps'), stack[1].change))
         /\ stack' = Tail(stack)
         /\ UNCHANGED <<initialReload, interrupted, visible, trait, told, blocks, drains, calls>>
         /\ created \in Nat
         /\ \/ stack[1].change = "delete" /\ Pending # << >> /\ UNCHANGED <<created, traits>>
            \/ /\ stack[1].change \in {"reload", "insert"} /\ created' \in Elements
               /\ created' = created + 1 /\ traits' = [traits EXCEPT ![created'] = trait]
         /\ NewMap(stack[1].change, created') \in Map
<1> USE DEF DataInv
<1> DEFINE change == stack[1].change
           new == NewMap(change, created')
<1>1. /\ stack # << >> /\ stack[1].pc = "update" /\ editing = << >> /\ initialReload
      /\ maps' = Append(maps, new) /\ stack' = Tail(stack)
      /\ editing' = Append(editing, Deploying(Len(maps'), change))
      /\ change # "empty"
      /\ UNCHANGED <<initialReload, interrupted, visible, trait, told, blocks, drains, calls>>
  BY AtTop DEF UpdatePending, Top, GroupEmpty
<1>2. change \in Changes /\ Fits(change)
  BY <1>1, Types, FrameParts DEF StackInv, FrameOK
<1>3. created \in Nat /\ created <= MaxElements
  BY DataAssumption DEF DataTypeOK
<1>4. \/ change = "delete" /\ Pending # << >> /\ UNCHANGED <<created, traits>>
      \/ /\ change \in {"reload", "insert"} /\ created' \in Elements
         /\ created' = created + 1 /\ traits' = [traits EXCEPT ![created'] = trait]
  <2>1. CASE change = "delete"
    BY <2>1, <1>2 DEF UpdatePending, Top, Fits
  <2>2. CASE change \in {"reload", "insert"}
    <3>1. created < MaxElements
      BY <2>2, <1>2 DEF Fits
    <3>2. created' = created + 1 /\ traits' = [traits EXCEPT ![created'] = trait]
      BY <2>2 DEF UpdatePending, Top
    <3> QED
      BY <2>2, <3>1, <3>2, <1>3, DataAssumption DEF Elements
  <2> QED
    BY <2>1, <2>2, <1>1, <1>2 DEF Changes
<1>5. new \in Map
  <2>1. CASE change = "delete"
    BY <2>1, <1>2, Types, Popped DEF NewMap, Map, Fits
  <2>2. CASE change = "insert"
    BY <2>2, <1>4, Types, Pushed DEF NewMap, Map
  <2>3. CASE change = "reload"
    BY <2>3, <1>4 DEF NewMap, Map
  <2> QED
    BY <2>1, <2>2, <2>3, <1>1, <1>2 DEF Changes
<1> QED
  BY <1>1, <1>3, <1>4, <1>5

\* A new map joins the line at its end.
LEMMA PendingKeeps ==
  ASSUME DataInv, UpdatePending
  PROVE  DataInv'
<1> USE DEF DataInv
<1> DEFINE new == NewMap(stack[1].change, created')
           b == Deploying(Len(maps'), stack[1].change)
<1>1. /\ stack # << >> /\ stack[1].pc = "update" /\ editing = << >>
      /\ maps' = Append(maps, new) /\ editing' = Append(editing, b) /\ stack' = Tail(stack)
      /\ UNCHANGED <<initialReload, interrupted, visible, trait, told, blocks, drains, calls>>
  BY PendingParts
<1>4. created' \in 0 .. MaxElements /\ traits' \in [Elements -> 0 .. MaxTraits]
  <2>1. traits \in [Elements -> 0 .. MaxTraits] /\ trait \in 0 .. MaxTraits
        /\ created \in 0 .. MaxElements
    BY DEF DataTypeOK
  <2>2. \/ UNCHANGED <<created, traits>>
        \/ created' \in Elements /\ traits' = [traits EXCEPT ![created'] = trait]
    BY PendingParts
  <2> QED
    BY <2>1, <2>2, DataAssumption DEF Elements
<1>5. new \in Map
  BY PendingParts
<1>6. maps' \in Seq(Map) /\ Newest' = Newest + 1 /\ Newest \in Nat \ {0} /\ visible \in 1 .. Newest
  BY <1>1, <1>5, Types, Added DEF Newest
<1>7. b \in Block /\ Deploys(b, Newest + 1) /\ editing' \in Seq(Block) /\ Len(editing') = 1
  <2>1. b \in Block /\ Deploys(b, Newest + 1)
    BY <1>6 DEF Deploying, Block, Deploys, Newest
  <2> HIDE DEF b
  <2> QED
    BY <2>1, <1>1, Types, Added
<1> HIDE DEF new, b
<1>8. /\ StackOK(stack', Newest) /\ SameAnnounced(stack, stack')
      /\ stack' = << >> \/ stack'[1].pc \in Quiet
  BY <1>1, StackParts, PoppedFrame, PoppedAnnounces DEF Announces
<1>9. DataTypeOK' /\ told' <= trait'
  <2>1. visible' \in 1 .. Len(maps')
    BY <1>1, <1>6 DEF Newest
  <2>2. \A i \in 1 .. Len(blocks') : blocks'[i].number \in 1 .. Len(maps')
    BY <1>1, <1>6 DEF DataTypeOK, Newest
  <2> QED
    BY <1>1, <1>4, <1>6, <1>7, <1>8, <2>1, <2>2 DEF DataTypeOK, StackOK
<1>10. StackInv'
  BY <1>6, <1>8, StackKnows DEF StackInv, FrameOK, Quiet
<1>11. EditingLined(editing', Newest + 1)
  BY <1>1, <1>6, <1>7, Types, EditingAdd
<1>12. ASSUME ~interrupted PROVE MapsInLine'
  <2>1. MapsInLine /\ Base' = Base
    BY <1>1, <1>8, <1>12 DEF Base, SameAnnounced
  <2>2. Prepared = Newest /\ Prepared' = Newest
    BY <1>1, <1>6, <1>7 DEF Prepared
  <2>3. AnnouncedOnce(stack') /\ Announcement(stack', visible + 1)
    BY <2>1, <1>8 DEF SameAnnounced, MapsInLine
  <2> QED
    BY <2>1, <2>2, <2>3, <1>1 DEF MapsInLine
<1> QED
  BY <1>1, <1>6, <1>9, <1>10, <1>11, <1>12

\* The first map being prepared goes on to the main serial queue.
LEMMA PrepareKeeps ==
  ASSUME DataInv, PrepareNodes
  PROVE  DataInv'
<1> USE DEF DataInv
<1> DEFINE b == editing[1]
<1>1. /\ editing # << >> /\ editing' = Tail(editing) /\ blocks' = Append(blocks, b)
      /\ drains' = drains + 1
      /\ UNCHANGED <<initialReload, maps, created, interrupted, visible, traitVars, stack, calls>>
  BY Types, Popped DEF PrepareNodes
<1>2. /\ editing' \in Seq(Block) /\ Len(editing) \in Nat \ {0} /\ Len(editing') = Len(editing) - 1
      /\ b \in Block
  BY <1>1, Types, Popped
<1>3. /\ EditingLined(editing', Newest) /\ Deploys(b, Prepared + 1)
      /\ Len(editing) <= Newest /\ Newest \in Nat /\ Prepared \in Nat /\ Prepared' = Prepared + 1
  BY <1>1, <1>2, Types, EditingTake DEF Prepared, Newest, EditingLined
<1> HIDE DEF b
<1>4. /\ blocks' \in Seq(Block) /\ Len(blocks') = Len(blocks) + 1 /\ Len(blocks) \in Nat
      /\ \A i \in 1 .. Len(blocks) : blocks'[i] = blocks[i]
      /\ blocks'[Len(blocks) + 1] = b
  BY <1>1, <1>2, Types, Added
<1>5. \A i \in 1 .. Len(blocks') : blocks'[i].number \in 1 .. Len(maps')
  <2> SUFFICES ASSUME NEW i \in 1 .. Len(blocks') PROVE blocks'[i].number \in 1 .. Len(maps)
    BY <1>1
  <2>1. CASE i = Len(blocks) + 1
    <3>1. b.number = Newest - Len(editing) + 1
      BY <1>3 DEF Deploys, Prepared
    <3> QED
      BY <2>1, <3>1, <1>2, <1>3, <1>4 DEF Newest
  <2>2. CASE i # Len(blocks) + 1
    BY <2>2, <1>4, i \in 1 .. Len(blocks) DEF DataTypeOK
  <2> QED
    BY <2>1, <2>2
<1>6. DataTypeOK' /\ told' <= trait'
  <2>1. drains' \in Nat
    BY <1>1 DEF DataTypeOK
  <2> QED
    BY <1>1, <1>2, <1>4, <1>5, <2>1 DEF DataTypeOK, traitVars
<1>7. StackInv'
  BY <1>1 DEF StackInv, FrameOK, Fits, Pending, Newest
<1>8. Newest' = Newest
  BY <1>1 DEF Newest
<1>9. ASSUME ~interrupted PROVE MapsInLine'
  <2>1. MapsInLine /\ Base' = Base /\ Base \in Nat /\ Base <= Prepared
    BY <1>1, <1>9, Types DEF Base, MapsInLine
  <2>2. BlocksLined(blocks', Base, Prepared + 1)
    BY <1>1, <1>2, <1>3, <2>1, Types, LinedAddDeploy DEF MapsInLine
  <2>3. AnnouncedOnce(stack') /\ Announcement(stack', visible' + 1)
    BY <2>1, <1>1 DEF MapsInLine
  <2> QED
    BY <1>3, <2>1, <2>2, <2>3 DEF MapsInLine
<1> QED
  BY <1>1, <1>3, <1>6, <1>7, <1>8, <1>9

\* What taking a block does to the queue.
LEMMA Taken ==
  ASSUME DataInv, NEW i \in DOMAIN blocks, TakeBlock(i)
  PROVE  /\ i = 1 /\ blocks # << >> /\ blocks' = Tail(blocks) /\ interrupted' \in BOOLEAN
         /\ stack # << >> /\ stack[1].pc = "drain"
         /\ blocks' \in Seq(Block) /\ blocks[1] \in Block
         /\ blocks[1].number \in 1 .. Newest
         /\ \A k \in 1 .. Len(blocks') : blocks'[k].number \in 1 .. Len(maps)
         /\ ~interrupted' =>
              /\ ~interrupted /\ ~Announcing(stack) /\ Base = visible /\ visible <= Prepared
              /\ blocks[1].kind = "deploy" =>
                   /\ blocks[1].number = visible + 1 /\ visible + 1 <= Prepared
                   /\ BlocksLined(blocks', visible + 1, Prepared)
              /\ blocks[1].kind # "deploy" =>
                   /\ blocks[1].number <= visible
                   /\ BlocksLined(blocks', visible, Prepared)
<1>1. /\ i = 1 /\ blocks' = Tail(blocks) /\ stack # << >> /\ stack[1].pc = "drain"
      /\ interrupted' = (interrupted \/ Announced) /\ interrupted' \in BOOLEAN
  BY AtTop DEF TakeBlock, Announced
<1>2. blocks \in Seq(Block) /\ blocks # << >> /\ 1 \in 1 .. Len(blocks)
  BY <1>1, Types, LenProperties DEF DataInv
<1>3. /\ blocks' \in Seq(Block) /\ Len(blocks) \in Nat \ {0} /\ Len(blocks') = Len(blocks) - 1
      /\ \A k \in 1 .. Len(blocks) - 1 : blocks'[k] = blocks[k + 1]
      /\ blocks[1] \in Block
  BY <1>1, <1>2, Popped
<1>4. /\ \A k \in 1 .. Len(blocks') : blocks'[k].number \in 1 .. Len(maps)
      /\ blocks[1].number \in 1 .. Newest
  <2>1. \A k \in 1 .. Len(blocks) : blocks[k].number \in 1 .. Len(maps)
    BY DEF DataInv, DataTypeOK
  <2>2. \A k \in 1 .. Len(blocks') : k + 1 \in 1 .. Len(blocks) /\ blocks'[k] = blocks[k + 1]
    BY <1>3
  <2> QED
    BY <1>2, <2>1, <2>2 DEF Newest
<1>5. ASSUME ~interrupted'
      PROVE  /\ ~interrupted /\ ~Announcing(stack) /\ Base = visible /\ visible <= Prepared
             /\ blocks[1].kind = "deploy" =>
                  /\ blocks[1].number = visible + 1 /\ visible + 1 <= Prepared
                  /\ BlocksLined(blocks', visible + 1, Prepared)
             /\ blocks[1].kind # "deploy" =>
                  /\ blocks[1].number <= visible
                  /\ BlocksLined(blocks', visible, Prepared)
  <2>1. ~interrupted /\ ~Announcing(stack) /\ MapsInLine
    BY <1>1, <1>5, AnnouncedIs DEF DataInv
  <2>2. Base = visible /\ visible \in Nat /\ Prepared \in Nat /\ visible <= Prepared
    <3>1. Prepared \in Int
      BY Types DEF DataInv, Prepared
    <3> QED
      BY <2>1, <3>1, Types DEF DataInv, MapsInLine, Base
  <2>3. BlocksLined(blocks, visible, Prepared)
    BY <2>1, <2>2 DEF MapsInLine
  <2> QED
    BY <2>1, <2>2, <2>3, <1>1, <1>2, LinedTake
<1> QED
  BY <1>1, <1>2, <1>3, <1>4, <1>5

LEMMA RunScheduledKeeps ==
  ASSUME DataInv, NEW i \in DOMAIN blocks, RunScheduled(i)
  PROVE  DataInv'
<1> USE DEF DataInv
<1>1. /\ TakeBlock(i) /\ blocks[i].kind # "deploy"
      /\ UNCHANGED <<initialReload, maps, created, editing, visible, trait, told, drains, stack, calls>>
  BY DEF RunScheduled, mapVars
<1>2. /\ blocks' \in Seq(Block) /\ interrupted' \in BOOLEAN /\ stack[1].pc = "drain"
      /\ \A k \in 1 .. Len(blocks') : blocks'[k].number \in 1 .. Len(maps)
      /\ ~interrupted' => ~interrupted /\ Base = visible /\ BlocksLined(blocks', visible, Prepared)
  BY <1>1, Taken
<1>3. traits' \in [Elements -> 0 .. MaxTraits]
  <2>1. traits \in [Elements -> 0 .. MaxTraits] /\ trait \in 0 .. MaxTraits
    BY DEF DataTypeOK
  <2>2. CASE blocks[i].kind = "environment"
    <3>1. traits' = [e \in Elements |-> IF e \in Shown THEN trait ELSE traits[e]]
      BY <2>2 DEF RunScheduled
    <3> QED
      BY <2>1, <3>1
  <2>3. CASE blocks[i].kind # "environment"
    BY <2>1, <2>3 DEF RunScheduled
  <2> QED
    BY <2>2, <2>3
<1>4. DataTypeOK' /\ told' <= trait'
  BY <1>1, <1>2, <1>3 DEF DataTypeOK
<1>5. StackInv' /\ EditingLined(editing, Newest)'
  BY <1>1, <1>2 DEF StackInv, FrameOK, EditingLined, Newest
<1>6. ASSUME ~interrupted' PROVE MapsInLine'
  <2>1. MapsInLine /\ Base' = Base /\ Prepared' = Prepared
    BY <1>1, <1>2, <1>6 DEF Base, Newest, Prepared
  <2> QED
    BY <1>1, <1>2, <1>6, <2>1 DEF MapsInLine
<1> QED
  BY <1>4, <1>5, <1>6

\* For a reload the range controller's loop comes on top of the block.
LEMMA WillStack ==
  ASSUME DataInv, NEW b \in Block, b.number \in 1 .. Newest, stack # << >>, stack[1].pc = "drain",
         stack' = <<Telling("will", b)>> \o stack
           \/ stack' = <<Ranging("range")>> \o (<<Telling("will", b)>> \o stack)
  PROVE  /\ StackOK(stack', Newest) /\ stack' # << >> /\ stack'[1].pc \in Quiet
         /\ b.kind # "deploy" => SameAnnounced(stack, stack')
         /\ b.kind = "deploy" /\ ~Announcing(stack) =>
              Announcing(stack') /\ AnnouncedOnce(stack') /\ Announcement(stack', b.number)
<1> DEFINE t == <<Telling("will", b)>> \o stack
<1>1. /\ Telling("will", b) \in Frame /\ Telling("will", b).pc = "will"
      /\ Telling("will", b).block = b
      /\ Ranging("range") \in Frame /\ Ranging("range").pc = "range"
  BY FrameKinds DEF Telling, Ranging
<1>2. StackOK(t, Newest) /\ t # << >> /\ t[1] = Telling("will", b) /\ t \in Seq(Frame)
  BY <1>1, StackParts, PushedFrame DEF Quiet, StackOK
<1>3. /\ b.kind # "deploy" => SameAnnounced(stack, t)
      /\ b.kind = "deploy" /\ ~Announcing(stack) =>
           Announcing(t) /\ AnnouncedOnce(t) /\ Announcement(t, b.number)
  BY <1>1, StackParts, PushedAnnounces DEF Announces
<1> HIDE DEF t
<1>4. CASE stack' = t
  BY <1>1, <1>2, <1>3, <1>4 DEF Quiet
<1>5. CASE stack' = <<Ranging("range")>> \o t
  <2>1. StackOK(stack', Newest) /\ stack' # << >> /\ stack'[1] = Ranging("range")
    BY <1>1, <1>2, <1>5, PushedFrame DEF Quiet
  <2>2. SameAnnounced(t, stack')
    BY <1>1, <1>2, <1>5, PushedAnnounces DEF Announces
  <2>3. b.kind # "deploy" => SameAnnounced(stack, stack')
    BY <1>3, <2>2, SameTwice
  <2> QED
    BY <1>1, <1>3, <2>1, <2>2, <2>3 DEF Quiet, SameAnnounced
<1> QED
  BY <1>4, <1>5 DEF t

LEMMA WillKeeps ==
  ASSUME DataInv, NEW i \in DOMAIN blocks, TellWillUpdate(i)
  PROVE  DataInv'
<1> USE DEF DataInv
<1> DEFINE b == blocks[1]
<1>1. /\ TakeBlock(i) /\ i = 1 /\ b \in Block /\ b.kind \in {"deploy", "notify"}
      /\ b.number \in 1 .. Newest /\ stack # << >> /\ stack[1].pc = "drain"
      /\ UNCHANGED <<initialReload, maps, created, editing, visible, trait, traits, told, drains, calls>>
  BY Taken DEF TellWillUpdate, mapVars, traitVars
<1>2. \/ stack' = <<Telling("will", b)>> \o stack
      \/ stack' = <<Ranging("range")>> \o (<<Telling("will", b)>> \o stack)
  BY <1>1 DEF TellWillUpdate
<1>3. /\ blocks' \in Seq(Block) /\ interrupted' \in BOOLEAN
      /\ \A k \in 1 .. Len(blocks') : blocks'[k].number \in 1 .. Len(maps)
      /\ ~interrupted' =>
           /\ ~interrupted /\ ~Announcing(stack) /\ Base = visible /\ visible <= Prepared
           /\ b.kind = "deploy" =>
                /\ b.number = visible + 1 /\ visible + 1 <= Prepared
                /\ BlocksLined(blocks', visible + 1, Prepared)
           /\ b.kind # "deploy" => BlocksLined(blocks', visible, Prepared)
  BY <1>1, Taken
<1> HIDE DEF b
<1>4. /\ StackOK(stack', Newest) /\ stack' # << >> /\ stack'[1].pc \in Quiet
      /\ b.kind # "deploy" => SameAnnounced(stack, stack')
      /\ b.kind = "deploy" /\ ~Announcing(stack) =>
           Announcing(stack') /\ AnnouncedOnce(stack') /\ Announcement(stack', b.number)
  BY <1>1, <1>2, WillStack
<1>5. DataTypeOK' /\ told' <= trait'
  BY <1>1, <1>3, <1>4 DEF DataTypeOK, StackOK
<1>6. Newest' = Newest /\ Prepared' = Prepared
  BY <1>1 DEF Newest, Prepared
<1>7. StackInv' /\ EditingLined(editing, Newest)'
  BY <1>1, <1>4, <1>6 DEF StackInv, FrameOK, Quiet, EditingLined
<1>8. ASSUME ~interrupted' PROVE MapsInLine'
  <2>1. CASE b.kind = "deploy"
    <3>1. Base' = visible + 1 /\ visible' = visible
      BY <1>1, <1>3, <1>4, <1>8, <2>1 DEF Base
    <3>2. AnnouncedOnce(stack') /\ Announcement(stack', visible + 1)
      BY <1>3, <1>4, <1>8, <2>1
    <3> QED
      BY <1>3, <1>6, <1>8, <2>1, <3>1, <3>2 DEF MapsInLine
  <2>2. CASE b.kind # "deploy"
    <3>1. SameAnnounced(stack, stack') /\ MapsInLine
      BY <1>3, <1>4, <1>8, <2>2
    <3>2. Base' = visible /\ visible' = visible
      BY <1>1, <1>3, <1>8, <3>1 DEF Base, SameAnnounced
    <3>3. AnnouncedOnce(stack') /\ Announcement(stack', visible + 1)
      BY <3>1 DEF SameAnnounced, MapsInLine
    <3> QED
      BY <1>3, <1>6, <1>8, <2>2, <3>2, <3>3 DEF MapsInLine
  <2> QED
    BY <2>1, <2>2
<1> QED
  BY <1>5, <1>7, <1>8

LEMMA DeployKeeps ==
  ASSUME DataInv, DeployAndTell
  PROVE  /\ DataInv'
         /\ visible' # visible => visible' = visible + 1 \/ interrupted
<1> USE DEF DataInv
<1> DEFINE b == stack[1].block
<1>1. /\ stack # << >> /\ stack[1].pc = "will" /\ b \in Block
      /\ visible' = (IF b.kind = "deploy" THEN b.number ELSE visible)
      /\ stack' = <<Telling("did", b)>> \o Tail(stack)
      /\ UNCHANGED <<initialReload, maps, created, editing, interrupted, trait, traits, told, blocks,
                     drains, calls>>
  BY AtTop, Types, FrameParts DEF DeployAndTell, Top, ReplaceTop, dataVars, mapVars, traitVars
<1>2. 1 \in 1 .. Len(stack) /\ stack \in Seq(Frame)
  BY <1>1, Types, LenProperties, EmptySeq
<1>3. b.number \in 1 .. Newest
  BY <1>1, <1>2 DEF StackInv, StackOK, WillsKnown
<1>4. ~interrupted /\ b.kind = "deploy" => b.number = visible + 1
  BY <1>1, <1>2 DEF MapsInLine, Announcement, Announces
<1>5. Announces(stack[1]) <=> b.kind = "deploy"
  BY <1>1 DEF Announces
<1> HIDE DEF b
<1>6. Telling("did", b) \in Frame /\ Telling("did", b).pc = "did"
  BY <1>1, FrameKinds DEF Telling
<1>7. StackOK(stack', Newest) /\ stack' # << >> /\ stack'[1] = Telling("did", b)
  BY <1>1, <1>6, StackParts, ReplacedFrame
<1>8. visible' \in 1 .. Len(maps)
  BY <1>1, <1>3, Types DEF Newest
<1>9. DataTypeOK' /\ told' <= trait'
  BY <1>1, <1>7, <1>8 DEF DataTypeOK, StackOK
<1>10. Newest' = Newest /\ Prepared' = Prepared
  BY <1>1 DEF Newest, Prepared
<1>11. StackInv' /\ EditingLined(editing, Newest)'
  BY <1>1, <1>6, <1>7, <1>10 DEF StackInv, FrameOK, EditingLined
<1>12. ASSUME ~interrupted PROVE MapsInLine'
  <2>1. MapsInLine /\ Tail(stack) \in Seq(Frame)
    BY <1>1, <1>2, <1>12, Popped
  <2>2. CASE b.kind = "deploy"
    <3>1. ~Announcing(Tail(stack))
      BY <1>1, <1>2, <1>5, <2>1, <2>2, PoppedAnnounces DEF MapsInLine
    <3>2. SameAnnounced(Tail(stack), stack')
      BY <1>1, <1>6, <2>1, PushedAnnounces DEF Announces
    <3>3. ~Announcing(stack')
      BY <3>1, <3>2 DEF SameAnnounced
    <3>4. AnnouncedOnce(stack') /\ Announcement(stack', visible' + 1)
      BY <3>3 DEF Announcing, AnnouncedOnce, Announcement
    <3>5. Base' = visible + 1 /\ Base = visible + 1
      <4>1. Announcing(stack)
        BY <1>2, <1>5, <2>2 DEF Announcing
      <4> QED
        BY <1>1, <1>4, <1>12, <2>2, <3>3, <4>1 DEF Base
    <3> QED
      BY <1>1, <1>10, <2>1, <3>4, <3>5 DEF MapsInLine
  <2>3. CASE b.kind # "deploy"
    <3>1. SameAnnounced(stack, stack')
      BY <1>1, <1>2, <1>5, <1>6, <2>3, ReplacedAnnounces DEF Announces
    <3> QED
      BY <1>1, <2>1, <2>3, <3>1, LineKept
  <2> QED
    BY <2>2, <2>3
<1> QED
  BY <1>1, <1>4, <1>9, <1>11, <1>12

-----------------------------------------------------------------------------
(* The theorems.                                                           *)

LEMMA InitOK == DataInit => DataInv
<1> SUFFICES ASSUME DataInit PROVE DataInv
  OBVIOUS
<1> USE DEF DataInit
<1>1. maps \in Seq(Map) /\ Len(maps) = 1 /\ Newest = 1
  BY EmptySeq DEF Map, Newest
<1>2. traits \in [Elements -> 0 .. MaxTraits] /\ trait \in 0 .. MaxTraits
  BY DataAssumption
<1>3. /\ editing \in Seq(Block) /\ blocks \in Seq(Block) /\ stack \in Seq(Frame)
      /\ Len(editing) = 0 /\ Len(blocks) = 0 /\ Len(stack) = 0
  BY EmptySeq
<1>4. DataTypeOK
  <2>1. visible \in 1 .. Len(maps)
    BY <1>1
  <2>2. created \in 0 .. MaxElements /\ told \in 0 .. MaxTraits /\ calls \in 0 .. MaxCalls
    BY DataAssumption
  <2>3. \A b \in 1 .. Len(blocks) : blocks[b].number \in 1 .. Len(maps)
    BY <1>3
  <2>4. initialReload \in BOOLEAN /\ drains \in Nat /\ interrupted \in BOOLEAN
    OBVIOUS
  <2> QED
    BY <1>1, <1>2, <1>3, <2>1, <2>2, <2>3, <2>4 DEF DataTypeOK
<1>5. StackInv
  BY <1>3 DEF StackInv, StackOK, QuietBelow, WillsKnown
<1>6. EditingLined(editing, Newest)
  BY <1>1, <1>3 DEF EditingLined
<1>7. MapsInLine
  <2>1. AnnouncedOnce(stack) /\ Announcement(stack, visible + 1) /\ ~Announcing(stack)
    BY <1>3 DEF AnnouncedOnce, Announcement, Announcing
  <2>2. Base = 1 /\ Prepared = 1
    BY <1>1, <1>3, <2>1 DEF Prepared, Base
  <2>3. BlocksLined(blocks, 1, 1)
    BY <1>3 DEF BlocksLined, DeploysInRange, DeploysInOrder, DeploysAll, NeedsAreAhead
  <2> QED
    BY <2>1, <2>2, <2>3 DEF MapsInLine
<1> QED
  BY <1>4, <1>5, <1>6, <1>7 DEF DataInv

LEMMA StepOK ==
  ASSUME DataInv, [DataNext]_dcVars
  PROVE  /\ DataInv'
         /\ visible' # visible => visible' = visible + 1 \/ interrupted
<1>1. CASE UNCHANGED dcVars
  <2>1. /\ UNCHANGED <<initialReload, maps, created, editing, interrupted, visible>>
        /\ UNCHANGED <<trait, traits, told, blocks, drains, stack, calls>>
    BY <1>1 DEF dcVars, dataVars, mapVars, traitVars
  <2>2. DataTypeOK' /\ told' <= trait'
    BY <2>1 DEF DataInv, DataTypeOK
  <2>3. StackOK(stack', Newest) /\ SameAnnounced(stack, stack')
    BY <2>1, StackParts DEF SameAnnounced
  <2>4. stack' # << >> => FrameOK(stack[1])'
    BY <2>1 DEF DataInv, StackInv, FrameOK, Fits, Pending, Newest
  <2> QED
    BY <2>1, <2>2, <2>3, <2>4, StackStep
<1>2. ASSUME NEW change \in Changes, UpdateWithChangeSet(change) PROVE DataInv' /\ visible' = visible
  BY <1>2, CallKeeps DEF UpdateWithChangeSet
<1>3. ASSUME NEW kind \in {"wait", "relayout"}, ScheduleBlock(kind) PROVE DataInv' /\ visible' = visible
  BY <1>3, ScheduleKeeps DEF ScheduleBlock
<1>4. CASE ChangeEnvironment
  <2>1. /\ stack = << >> \/ stack[1].pc \in Quiet
        /\ UNCHANGED <<dataVars, visible, traits, told, blocks, drains, calls>>
        /\ trait < MaxTraits /\ trait' = trait + 1
        /\ stack' = <<Scheduling(EnvironmentBlock)>> \o stack \/ stack' = stack
    BY <1>4, Callers DEF ChangeEnvironment
  <2>2. trait' \in 0 .. MaxTraits /\ told' \in 0 .. MaxTraits /\ told' <= trait'
    BY <2>1, DataAssumption DEF DataInv, DataTypeOK
  <2> QED
    BY <2>1, <2>2, EnvironmentKeeps
<1>5. CASE RunEnvironmentDidChange
  <2>1. /\ stack = << >>
        /\ UNCHANGED <<dataVars, visible, trait, traits, blocks, drains, calls>>
        /\ told > 0 /\ told' = told - 1
        /\ stack' = <<Scheduling(EnvironmentBlock)>> \/ stack' = stack
    BY <1>5 DEF RunEnvironmentDidChange
  <2>2. trait' \in 0 .. MaxTraits /\ told' \in 0 .. MaxTraits /\ told' <= trait'
    BY <2>1, DataAssumption DEF DataInv, DataTypeOK
  <2>3. <<Scheduling(EnvironmentBlock)>> \o stack = <<Scheduling(EnvironmentBlock)>>
    <3>1. Scheduling(EnvironmentBlock) \in Frame
      BY Types, FrameKinds DEF DataInv, EnvironmentBlock, Block
    <3>2. <<Scheduling(EnvironmentBlock)>> \in Seq(Frame)
      BY <3>1
    <3> QED
      BY <3>2, <2>1, ConcatEmptySeq
  <2> QED
    BY <2>1, <2>2, <2>3, EnvironmentKeeps
<1>6. CASE ChangeEnvironmentOffMain
  BY <1>6, OffMainKeeps DEF ChangeEnvironmentOffMain
<1>7. CASE BailOut
  BY <1>7, PopKeeps, AtTop DEF BailOut
<1>8. CASE UpdateEmpty
  BY <1>8, EmptyKeeps DEF UpdateEmpty
<1>9. CASE UpdatePending
  BY <1>9, PendingKeeps DEF UpdatePending
<1>10. CASE PerformScheduled
  BY <1>10, PerformKeeps DEF PerformScheduled
<1>11. CASE RunDispatched
  BY <1>11, DispatchedKeeps DEF RunDispatched
<1>12. CASE DrainEnds
  BY <1>12, PopKeeps, AtTop DEF DrainEnds
<1>13. CASE BlockReturns
  BY <1>13, PopKeeps, AtTop DEF BlockReturns
<1>14. ASSUME NEW i \in DOMAIN blocks, RunScheduled(i) PROVE DataInv' /\ visible' = visible
  BY <1>14, RunScheduledKeeps DEF RunScheduled
<1>15. CASE PrepareNodes
  BY <1>15, PrepareKeeps DEF PrepareNodes
<1>16. ASSUME NEW i \in DOMAIN blocks, TellWillUpdate(i) PROVE DataInv' /\ visible' = visible
  BY <1>16, WillKeeps DEF TellWillUpdate
<1>17. CASE DeployAndTell
  BY <1>17, DeployKeeps
<1>18. CASE BeginRange
  BY <1>18, RangeKeeps DEF BeginRange
<1>19. ASSUME NEW pc \in {"range", "hook"}, RangeGoesOn(pc) PROVE DataInv' /\ visible' = visible
  BY <1>19, RangeGoesOnKeeps DEF RangeGoesOn
<1>20. CASE EndRange
  BY <1>20, PopKeeps, AtTop DEF EndRange, InRange
<1> QED
  BY <1>1, <1>2, <1>3, <1>4, <1>5, <1>6, <1>7, <1>8, <1>9, <1>10, <1>11, <1>12, <1>13,
     <1>14, <1>15, <1>16, <1>17, <1>18, <1>19, <1>20
  DEF DataNext, Calls, MainSteps

\* The invariant: the maps, from those computed to those deployed, form one line
\* through the editing queue and the main serial queue (533-586).
THEOREM InvariantHolds == DataSpec => []DataInv
<1>1. DataInv /\ [DataNext]_dcVars => DataInv'
  BY StepOK
<1> QED
  BY InitOK, <1>1, PTL DEF DataSpec

\* The variables of the data controller keep their types: no block deploys a map
\* that was not computed, and no change set is applied that does not fit any more
\* when its wait is over.
THEOREM TypeCorrect == DataSpec => []DataTypeOK
<1>1. DataInv => DataTypeOK
  BY DEF DataInv
<1> QED
  BY InvariantHolds, <1>1, PTL

\* UIKit is given the maps one by one (571-585).
THEOREM DeploysInTurn == DataSpec => DeploysSuccessor
<1>1. DataInv /\ [DataNext]_dcVars =>
        [visible' # visible => visible' = visible + 1 \/ interrupted]_dcVars
  BY StepOK
<1> QED
  BY InvariantHolds, <1>1, PTL DEF DataSpec, DeploysSuccessor

\* A scheduled block finds deployed whatever was submitted before it (742-743).
THEOREM SchedulesBehind == DataSpec => ScheduledSeesAll
<1>1. DataInv => \A i \in DOMAIN blocks :
                   RunScheduled(i) => visible >= blocks[i].number \/ interrupted'
  <2> SUFFICES ASSUME DataInv, NEW i \in DOMAIN blocks, RunScheduled(i), ~interrupted'
               PROVE  visible >= blocks[i].number
    OBVIOUS
  <2>1. /\ i = 1 /\ blocks[1].kind # "deploy" /\ blocks[1].number <= visible
        /\ blocks[1].number \in 1 .. Newest
    BY Taken DEF RunScheduled
  <2>2. visible \in Nat /\ blocks[1].number \in Nat
    BY <2>1, Types DEF DataInv
  <2> QED
    BY <2>1, <2>2
<1>2. DataInv => [\A i \in DOMAIN blocks :
                    RunScheduled(i) => visible >= blocks[i].number \/ interrupted']_dcVars
  BY <1>1
<1> QED
  BY InvariantHolds, <1>2, PTL DEF ScheduledSeesAll

-----------------------------------------------------------------------------
(* Traits.  An element with traits of the past is in a map that was there  *)
(* when the environment's block was scheduled; by the time the block runs, *)
(* that map is visible or history, and an element that is in an old map    *)
(* and in a new one is in all those between them.                          *)

Of(map) == {map[i] : i \in 1 .. Len(map)}

MapsContinuous ==
  \A k, l, m \in 1 .. Newest :
    k <= l /\ l <= m => Of(maps[k]) \cap Of(maps[m]) \subseteq Of(maps[l])

MapsOfCreated == \A k \in 1 .. Newest : \A e \in Of(maps[k]) : e \in Elements /\ e <= created

NoMapsBeforeReload == initialReload \/ \A k \in 1 .. Newest : Of(maps[k]) = {}

MapsInv == MapsContinuous /\ MapsOfCreated /\ NoMapsBeforeReload

\* The block gives the element the present traits.
Catches(block, e) ==
  /\ block.kind = "environment"
  /\ \E k \in 1 .. Newest : k <= block.number /\ e \in Of(maps[k])

InBlocks(e) == \E i \in 1 .. Len(blocks) : Catches(blocks[i], e)
InFrame(e) == stack # << >> /\ stack[1].pc = "schedule" /\ Catches(stack[1].block, e)
Owed(e) == told > 0 \/ InBlocks(e) \/ InFrame(e)

StaleIsOwed ==
  \A k \in visible .. Newest : \A e \in Of(maps[k]) : traits[e] # trait => Owed(e)

TraitsInv == MapsInv /\ (~interrupted => StaleIsOwed)

LEMMA MapsKept ==
  ASSUME MapsInv, UNCHANGED <<maps, created>>, initialReload => initialReload'
  PROVE  MapsInv'
<1>1. Newest' = Newest
  BY DEF Newest
<1>2. MapsContinuous'
  BY <1>1 DEF MapsInv, MapsContinuous
<1>3. MapsOfCreated'
  BY <1>1 DEF MapsInv, MapsOfCreated, Of
<1>4. NoMapsBeforeReload'
  BY <1>1 DEF MapsInv, NoMapsBeforeReload, Of
<1> QED
  BY <1>2, <1>3, <1>4 DEF MapsInv

\* Steps that change no traits and lose no block of the environment.
LEMMA OwedKept ==
  ASSUME NEW e, UNCHANGED <<maps, told>>, stack' = stack \/ stack = << >> \/ stack[1].pc # "schedule",
         \A i \in 1 .. Len(blocks) : blocks[i].kind = "environment" =>
           \E j \in 1 .. Len(blocks') : blocks'[j] = blocks[i]
  PROVE  Owed(e) => Owed(e)'
<1>1. Newest' = Newest
  BY DEF Newest
<1>2. ASSUME InBlocks(e) PROVE InBlocks(e)'
  <2>1. PICK i \in 1 .. Len(blocks) : Catches(blocks[i], e)
    BY <1>2 DEF InBlocks
  <2>2. PICK j \in 1 .. Len(blocks') : blocks'[j] = blocks[i]
    BY <2>1 DEF Catches
  <2>3. Catches(blocks[j], e)'
    BY <1>1, <2>1, <2>2 DEF Catches
  <2> QED
    BY <2>3 DEF InBlocks
<1>3. ASSUME InFrame(e) PROVE InFrame(e)'
  BY <1>1, <1>3 DEF InFrame, Catches
<1> QED
  BY <1>2, <1>3 DEF Owed

LEMMA TraitsKept ==
  ASSUME TraitsInv, visible \in Nat, visible' \in Nat, Newest \in Nat,
         ~interrupted' => ~interrupted /\ visible <= visible',
         UNCHANGED <<maps, created, trait, traits>>, initialReload => initialReload',
         \A e : Owed(e) => Owed(e)'
  PROVE  TraitsInv'
<1>1. MapsInv'
  BY MapsKept DEF TraitsInv
<1>2. ~interrupted' => StaleIsOwed'
  <2> SUFFICES ASSUME ~interrupted',
                      NEW k \in visible' .. Newest', NEW e \in Of(maps'[k]), traits'[e] # trait'
               PROVE  Owed(e)'
    BY DEF StaleIsOwed, Of
  <2>1. Newest' = Newest /\ k \in visible .. Newest /\ e \in Of(maps[k]) /\ traits[e] # trait
    BY DEF Newest
  <2>2. Owed(e)
    BY <2>1 DEF TraitsInv, StaleIsOwed
  <2> QED
    BY <2>2
<1> QED
  BY <1>1, <1>2 DEF TraitsInv

LEMMA QuietStepKeepsTraits ==
  ASSUME TraitsInv, visible \in Nat, visible' \in Nat, Newest \in Nat,
         ~interrupted' => ~interrupted /\ visible <= visible',
         UNCHANGED <<maps, created, trait, traits, told>>, initialReload => initialReload',
         stack' = stack \/ stack = << >> \/ stack[1].pc # "schedule",
         \A i \in 1 .. Len(blocks) : blocks[i].kind = "environment" =>
           \E j \in 1 .. Len(blocks') : blocks'[j] = blocks[i]
  PROVE  TraitsInv'
  BY OwedKept, TraitsKept

\* The caller's wait is over: its block is among the others.
LEMMA PerformKeepsTraits ==
  ASSUME DataInv, TraitsInv, PerformScheduled
  PROVE  TraitsInv'
<1>1. /\ stack # << >> /\ stack[1].pc = "schedule"
      /\ blocks' = Append(blocks, stack[1].block)
      /\ UNCHANGED <<initialReload, maps, created, interrupted, visible, trait, traits, told>>
  BY AtTop DEF PerformScheduled, Top, dataVars, mapVars, traitVars
<1>2. stack[1].block \in Block /\ blocks \in Seq(Block)
  BY <1>1, Types, FrameParts DEF DataInv
<1>3. /\ Len(blocks) \in Nat /\ Len(blocks') = Len(blocks) + 1
      /\ \A i \in 1 .. Len(blocks) : blocks'[i] = blocks[i]
      /\ blocks'[Len(blocks) + 1] = stack[1].block
  BY <1>1, <1>2, Added
<1>4. Newest' = Newest /\ Newest \in Nat /\ visible \in Nat
  BY <1>1, Types DEF DataInv, Newest
<1>5. ASSUME NEW e, Owed(e) PROVE Owed(e)'
  <2>1. CASE told > 0
    BY <2>1, <1>1 DEF Owed
  <2>2. CASE InBlocks(e)
    <3>1. PICK i \in 1 .. Len(blocks) : Catches(blocks[i], e)
      BY <2>2 DEF InBlocks
    <3>2. i \in 1 .. Len(blocks') /\ blocks'[i] = blocks[i]
      BY <1>3
    <3>3. Catches(blocks[i], e)'
      BY <1>1, <1>4, <3>1, <3>2 DEF Catches
    <3> QED
      BY <3>2, <3>3 DEF InBlocks, Owed
  <2>3. CASE InFrame(e)
    <3>1. Catches(stack[1].block, e)
      BY <2>3 DEF InFrame
    <3>2. Len(blocks') \in 1 .. Len(blocks') /\ blocks'[Len(blocks')] = stack[1].block
      BY <1>3
    <3>3. Catches(blocks[Len(blocks)], e)'
      BY <1>1, <1>4, <3>1, <3>2 DEF Catches
    <3> QED
      BY <3>2, <3>3 DEF InBlocks, Owed
  <2> QED
    BY <1>5, <2>1, <2>2, <2>3 DEF Owed
<1> QED
  BY <1>1, <1>4, <1>5, TraitsKept

\* The environment has changed, or is about to be told: from now on every element
\* of a map is owed the present traits.
LEMMA ToldKeepsTraits ==
  ASSUME DataInv, TraitsInv, UNCHANGED <<dataVars, visible>>,
         \/ told' > 0
         \/ ~initialReload
         \/ stack' # << >> /\ stack'[1] = Scheduling(EnvironmentBlock)
  PROVE  TraitsInv'
<1>1. UNCHANGED <<initialReload, maps, created, visible>> /\ Newest' = Newest
  BY DEF dataVars, mapVars, Newest
<1>2. MapsInv'
  BY <1>1, MapsKept DEF TraitsInv
<1>3. Newest \in Nat \ {0} /\ visible \in 1 .. Newest
  BY Types DEF DataInv
<1>4. StaleIsOwed'
  <2> SUFFICES ASSUME NEW k \in visible' .. Newest', NEW e \in Of(maps'[k])
               PROVE  Owed(e)'
    BY DEF StaleIsOwed, Of
  <2>1. k \in 1 .. Newest /\ e \in Of(maps[k])
    BY <1>1, <1>3
  <2>2. CASE told' > 0
    BY <2>2 DEF Owed
  <2>3. CASE ~initialReload
    BY <2>1, <2>3 DEF TraitsInv, MapsInv, NoMapsBeforeReload
  <2>4. CASE stack' # << >> /\ stack'[1] = Scheduling(EnvironmentBlock)
    <3>1. /\ stack'[1].pc = "schedule" /\ stack'[1].block.kind = "environment"
          /\ stack'[1].block.number = Newest
      BY <2>4 DEF Scheduling, EnvironmentBlock
    <3>2. InFrame(e)'
      BY <1>1, <1>3, <2>1, <2>4, <3>1 DEF InFrame, Catches
    <3> QED
      BY <3>2 DEF Owed
  <2> QED
    BY <2>2, <2>3, <2>4
<1> QED
  BY <1>2, <1>4 DEF TraitsInv

\* The environment's block: what it misses is not visible any more, or owed to
\* another block.
LEMMA RunKeepsTraits ==
  ASSUME DataInv, TraitsInv, NEW b \in DOMAIN blocks, RunScheduled(b)
  PROVE  TraitsInv'
<1>1. /\ UNCHANGED <<initialReload, maps, created, visible, trait, told, stack>> /\ TakeBlock(b)
      /\ Newest' = Newest /\ blocks[1].kind # "deploy" /\ b = 1
  BY Taken DEF RunScheduled, mapVars, Newest
<1>2. /\ blocks # << >> /\ blocks' = Tail(blocks)
      /\ ~interrupted' => ~interrupted /\ blocks[1].number <= visible
  BY <1>1, Taken
<1>3. /\ Len(blocks) \in Nat \ {0} /\ Len(blocks') = Len(blocks) - 1
      /\ \A i \in 1 .. Len(blocks) - 1 : blocks'[i] = blocks[i + 1]
      /\ blocks[1].number \in Nat
  BY <1>2, Types, Popped, BlockParts DEF DataInv
<1>4. Newest \in Nat \ {0} /\ visible \in 1 .. Newest /\ maps \in Seq(Map)
  BY Types DEF DataInv
<1>5. MapsInv'
  BY <1>1, MapsKept DEF TraitsInv
<1>6. ~interrupted' => StaleIsOwed'
  <2> SUFFICES ASSUME ~interrupted',
                      NEW k \in visible' .. Newest', NEW e \in Of(maps'[k]), traits'[e] # trait'
               PROVE  Owed(e)'
    BY DEF StaleIsOwed, Of
  <2>1. k \in visible .. Newest /\ e \in Of(maps[k]) /\ e \in Elements
    <3>1. k \in visible .. Newest /\ e \in Of(maps[k]) /\ k \in 1 .. Newest
      BY <1>1, <1>4
    <3> QED
      BY <3>1 DEF TraitsInv, MapsInv, MapsOfCreated
  <2>2. traits'[e] = IF blocks[1].kind = "environment" /\ e \in Shown THEN trait ELSE traits[e]
    <3>1. CASE blocks[1].kind = "environment"
      BY <1>1, <2>1, <3>1 DEF RunScheduled
    <3>2. CASE blocks[1].kind # "environment"
      BY <1>1, <3>2 DEF RunScheduled
    <3> QED
      BY <3>1, <3>2
  <2>3. Owed(e)
    BY <1>1, <1>2, <2>1, <2>2 DEF TraitsInv, StaleIsOwed
  <2>4. ~Catches(blocks[1], e)
    <3> SUFFICES ASSUME Catches(blocks[1], e) PROVE FALSE
      OBVIOUS
    <3>1. PICK j \in 1 .. Newest : j <= blocks[1].number /\ e \in Of(maps[j])
      BY DEF Catches
    <3>2. e \in Of(maps[visible])
      <4>1. j <= visible /\ visible <= k /\ k \in 1 .. Newest
        BY <3>1, <1>2, <1>3, <1>4, <2>1
      <4>2. Of(maps[j]) \cap Of(maps[k]) \subseteq Of(maps[visible])
        BY <4>1, <1>4 DEF TraitsInv, MapsInv, MapsContinuous
      <4> QED
        BY <4>2, <3>1, <2>1
    <3>3. Of(maps[visible]) = Shown
      <4>1. maps[visible] \in Seq(Elements)
        BY <1>4, ElementOfSeq DEF Map, Newest
      <4> QED
        BY <4>1 DEF Of, Shown
    <3>4. blocks[1].kind = "environment"
      BY DEF Catches
    <3> QED
      BY <1>1, <2>2, <3>2, <3>3, <3>4
  <2>5. CASE told > 0
    BY <2>5, <1>1 DEF Owed
  <2>6. CASE InBlocks(e)
    <3>1. PICK i \in 1 .. Len(blocks) : Catches(blocks[i], e)
      BY <2>6 DEF InBlocks
    <3>2. i - 1 \in 1 .. Len(blocks') /\ blocks'[i - 1] = blocks[i]
      <4>1. i # 1
        BY <3>1, <2>4
      <4> QED
        BY <4>1, <1>3, i - 1 \in 1 .. Len(blocks) - 1, (i - 1) + 1 = i
    <3>3. \E j \in 1 .. Len(blocks') : blocks'[j] = blocks[i]
      BY <3>2
    <3>4. PICK j \in 1 .. Len(blocks') : blocks'[j] = blocks[i]
      BY <3>3
    <3>5. Catches(blocks[j], e)'
      BY <1>1, <3>1, <3>4 DEF Catches
    <3> QED
      BY <3>4, <3>5 DEF InBlocks, Owed
  <2>7. CASE InFrame(e)
    BY <2>7, <1>1 DEF InFrame, Catches, Owed
  <2> QED
    BY <2>3, <2>5, <2>6, <2>7 DEF Owed
<1> QED
  BY <1>5, <1>6 DEF TraitsInv

\* A new map: what it shares with an older one it has from the newest one.
LEMMA PendingKeepsTraits ==
  ASSUME DataInv, TraitsInv, UpdatePending
  PROVE  TraitsInv'
<1> DEFINE new == NewMap(stack[1].change, created')
<1>1. /\ stack[1].pc = "update" /\ initialReload /\ initialReload'
      /\ maps' = Append(maps, new) /\ new \in Map
      /\ UNCHANGED <<interrupted, visible, trait, told, blocks>>
  BY PendingParts
<1>2. /\ maps \in Seq(Map) /\ Newest \in Nat \ {0} /\ Newest = Len(maps) /\ visible \in 1 .. Newest
      /\ Pending \in Seq(Elements) /\ Pending = maps[Newest]
  BY Types DEF DataInv, Newest, Pending
<1>3. created \in Nat /\ traits \in [Elements -> 0 .. MaxTraits]
  BY PendingParts DEF DataInv, DataTypeOK
<1>4. /\ created' \in Nat /\ created <= created'
      /\ \A e \in Of(new) :
           e \in Of(maps[Newest]) \/ (e = created' /\ created' = created + 1 /\ e \in Elements)
  <2>1. CASE stack[1].change = "delete"
    <3>1. /\ new = Tail(Pending) /\ Pending # << >> /\ created' = created
      BY <2>1, PendingParts DEF NewMap
    <3>2. /\ Len(Pending) \in Nat \ {0} /\ Len(new) = Len(Pending) - 1
          /\ \A i \in 1 .. Len(Pending) - 1 : new[i] = Pending[i + 1]
      BY <3>1, <1>2, Popped
    <3> HIDE DEF new
    <3>3. ASSUME NEW e \in Of(new) PROVE e \in Of(Pending)
      <4>1. PICK i \in 1 .. Len(new) : e = new[i]
        BY DEF Of
      <4>2. i + 1 \in 1 .. Len(Pending) /\ e = Pending[i + 1]
        BY <4>1, <3>2
      <4> QED
        BY <4>2 DEF Of
    <3> QED
      BY <3>1, <3>3, <1>2, <1>3
  <2>2. CASE stack[1].change = "reload"
    <3>1. new = <<created'>> /\ created' = created + 1 /\ created' \in Elements
      BY <2>2, PendingParts DEF NewMap
    <3>2. \A e \in Of(new) : e = created'
      BY <3>1 DEF Of
    <3> QED
      BY <3>1, <3>2, <1>3
  <2>3. CASE stack[1].change = "insert"
    <3>1. new = <<created'>> \o Pending /\ created' = created + 1 /\ created' \in Elements
      BY <2>3, PendingParts DEF NewMap
    <3>2. /\ Len(new) = Len(Pending) + 1 /\ Len(Pending) \in Nat /\ new[1] = created'
          /\ \A i \in 1 .. Len(Pending) : new[i + 1] = Pending[i]
      BY <3>1, <1>2, Pushed
    <3> HIDE DEF new
    <3>3. ASSUME NEW e \in Of(new) PROVE e = created' \/ e \in Of(Pending)
      <4>1. PICK i \in 1 .. Len(new) : e = new[i]
        BY DEF Of
      <4>2. CASE i = 1
        BY <4>1, <4>2, <3>2
      <4>3. CASE i # 1
        <5>1. i - 1 \in 1 .. Len(Pending) /\ (i - 1) + 1 = i
          BY <4>3, <3>2
        <5>2. e = Pending[i - 1]
          BY <5>1, <4>1, <3>2
        <5> QED
          BY <5>1, <5>2 DEF Of
      <4> QED
        BY <4>2, <4>3
    <3>4. created' = created + 1 /\ created' \in Elements
      BY <3>1
    <3>5. created' \in Nat /\ created <= created'
      BY <3>4, <1>3
    <3> QED
      BY <3>3, <3>4, <3>5, <1>2, Zenon
  <2>4. stack[1].change \in {"delete", "reload", "insert"}
    BY PendingParts
  <2> HIDE DEF new
  <2> QED
    BY <2>1, <2>2, <2>3, <2>4
<1> HIDE DEF new
<1>5. /\ Newest' = Newest + 1 /\ maps'[Newest + 1] = new
      /\ \A k \in 1 .. Newest : maps'[k] = maps[k]
  BY <1>1, <1>2, Added DEF Newest
<1>6. /\ \A k, l, m \in 1 .. Newest :
           k <= l /\ l <= m => Of(maps[k]) \cap Of(maps[m]) \subseteq Of(maps[l])
      /\ \A k \in 1 .. Newest : \A e \in Of(maps[k]) : e \in Elements /\ e <= created
      /\ ~interrupted =>
           \A k \in visible .. Newest : \A e \in Of(maps[k]) : traits[e] # trait => Owed(e)
  BY DEF TraitsInv, MapsInv, MapsContinuous, MapsOfCreated, StaleIsOwed
\* What is new is in no older map, what is not is in the newest one.
<1>7. ASSUME NEW k \in 1 .. Newest, NEW e \in Of(maps[k]), e \in Of(new)
      PROVE  e \in Of(maps[Newest])
  <2>1. e <= created /\ e \in Nat
    BY <1>6, DataAssumption DEF Elements
  <2>2. ~(e = created' /\ created' = created + 1)
    BY <2>1, <1>3
  <2> QED
    BY <2>2, <1>4, <1>7
<1>8. MapsContinuous'
  <2> SUFFICES ASSUME NEW k \in 1 .. Newest + 1, NEW l \in 1 .. Newest + 1, NEW m \in 1 .. Newest + 1,
                      k <= l, l <= m, NEW e \in Of(maps'[k]), e \in Of(maps'[m])
               PROVE  e \in Of(maps'[l])
    BY <1>5 DEF MapsContinuous
  <2>1. CASE l = Newest + 1
    BY <2>1, <1>2, m = l
  <2>2. CASE l # Newest + 1 /\ m = Newest + 1
    <3>1. k \in 1 .. Newest /\ l \in 1 .. Newest /\ Newest \in 1 .. Newest /\ l <= Newest
      BY <2>2, <1>2
    <3>2. e \in Of(maps[k]) /\ e \in Of(new)
      BY <2>2, <3>1, <1>5
    <3>3. e \in Of(maps[Newest])
      BY <3>1, <3>2, <1>7
    <3>4. Of(maps[k]) \cap Of(maps[Newest]) \subseteq Of(maps[l])
      BY <3>1, <1>6
    <3> QED
      BY <3>1, <3>2, <3>3, <3>4, <1>5
  <2>3. CASE m # Newest + 1
    <3>1. k \in 1 .. Newest /\ l \in 1 .. Newest /\ m \in 1 .. Newest
      BY <2>3, <1>2
    <3>2. Of(maps[k]) \cap Of(maps[m]) \subseteq Of(maps[l])
      BY <3>1, <1>6
    <3> QED
      BY <3>1, <3>2, <1>5
  <2> QED
    BY <2>1, <2>2, <2>3
<1>9. MapsOfCreated'
  <2> SUFFICES ASSUME NEW k \in 1 .. Newest + 1, NEW e \in Of(maps'[k])
               PROVE  e \in Elements /\ e <= created'
    BY <1>5 DEF MapsOfCreated, Of, Elements
  <2>1. CASE k = Newest + 1
    <3>1. e \in Of(maps[Newest]) \/ (e = created' /\ e \in Elements)
      BY <2>1, <1>4, <1>5
    <3>2. e \in Of(maps[Newest]) => e \in Elements /\ e <= created
      BY <1>2, <1>6, Newest \in 1 .. Newest
    <3> QED
      BY <3>1, <3>2, <1>3, <1>4, DataAssumption DEF Elements
  <2>2. CASE k # Newest + 1
    <3>1. k \in 1 .. Newest
      BY <2>2, <1>2
    <3>2. e \in Elements /\ e <= created
      BY <3>1, <1>5, <1>6
    <3> QED
      BY <3>2, <1>3, <1>4, DataAssumption DEF Elements
  <2> QED
    BY <2>1, <2>2
<1>10. ~interrupted' => StaleIsOwed'
  <2> SUFFICES ASSUME ~interrupted', ~interrupted,
                      NEW k \in visible .. Newest + 1, NEW e \in Of(maps'[k]), traits'[e] # trait
               PROVE  Owed(e)'
    BY <1>1, <1>5 DEF StaleIsOwed, Of
  <2>1. \/ UNCHANGED <<created, traits>>
        \/ /\ created' \in Elements /\ created' = created + 1
           /\ traits' = [traits EXCEPT ![created'] = trait]
    BY PendingParts
  <2>2. PICK j \in visible .. Newest : e \in Of(maps[j])
    <3>1. CASE k = Newest + 1
      <4>1. ~(e = created' /\ created' = created + 1 /\ e \in Elements)
        BY <2>1, <1>3
      <4>2. e \in Of(maps[Newest])
        BY <3>1, <4>1, <1>4, <1>5
      <4> QED
        BY <4>2, <1>2, Newest \in visible .. Newest
    <3>2. CASE k # Newest + 1
      <4>1. k \in visible .. Newest /\ k \in 1 .. Newest
        BY <3>2, <1>2
      <4> QED
        BY <4>1, <1>5
    <3> QED
      BY <3>1, <3>2
  <2>3. e \in Elements /\ e <= created
    BY <2>2, <1>2, <1>6, j \in 1 .. Newest
  <2>4. traits'[e] = traits[e]
    BY <2>1, <2>3, <1>3, DataAssumption DEF Elements
  <2>5. Owed(e)
    BY <2>2, <2>4, <1>6
  <2>6. CASE told > 0
    BY <2>6, <1>1 DEF Owed
  <2>7. CASE InBlocks(e)
    <3>1. PICK i \in 1 .. Len(blocks) : Catches(blocks[i], e)
      BY <2>7 DEF InBlocks
    <3>2. PICK n \in 1 .. Newest : n <= blocks[i].number /\ e \in Of(maps[n])
      BY <3>1 DEF Catches
    <3>3. n \in 1 .. Newest' /\ e \in Of(maps'[n])
      BY <3>2, <1>2, <1>5
    <3>4. Catches(blocks[i], e)'
      BY <3>1, <3>2, <3>3, <1>1 DEF Catches
    <3> QED
      BY <3>1, <3>4, <1>1 DEF InBlocks, Owed
  <2> QED
    BY <2>5, <2>6, <2>7, <1>1 DEF Owed, InFrame
<1> QED
  BY <1>1, <1>8, <1>9, <1>10 DEF TraitsInv, MapsInv, NoMapsBeforeReload

LEMMA InitTraits == DataInit => TraitsInv
<1> SUFFICES ASSUME DataInit PROVE TraitsInv
  OBVIOUS
<1>1. maps = << << >> >> /\ visible = 1 /\ Newest = 1 /\ maps[1] = << >> /\ ~initialReload
  BY DEF DataInit, Newest
<1>2. Of(maps[1]) = {}
  BY <1>1 DEF Of
<1>3. \A k \in 1 .. Newest : Of(maps[k]) = {}
  BY <1>1, <1>2, \A k \in 1 .. Newest : k = 1
<1> QED
  BY <1>1, <1>3 DEF TraitsInv, MapsInv, MapsContinuous, MapsOfCreated, NoMapsBeforeReload, StaleIsOwed

\* What TellWillUpdate and the like leave of the blocks.
LEMMA OthersStay ==
  ASSUME DataInv, blocks # << >>, blocks[1].kind # "environment", blocks' = Tail(blocks)
  PROVE  \A i \in 1 .. Len(blocks) : blocks[i].kind = "environment" =>
           \E j \in 1 .. Len(blocks') : blocks'[j] = blocks[i]
<1>1. /\ Len(blocks) \in Nat \ {0} /\ Len(blocks') = Len(blocks) - 1
      /\ \A i \in 1 .. Len(blocks) - 1 : blocks'[i] = blocks[i + 1]
  BY Types, Popped DEF DataInv
<1> SUFFICES ASSUME NEW i \in 1 .. Len(blocks), blocks[i].kind = "environment"
             PROVE  \E j \in 1 .. Len(blocks') : blocks'[j] = blocks[i]
  OBVIOUS
<1>2. i # 1
  OBVIOUS
<1>3. i - 1 \in 1 .. Len(blocks) - 1 /\ (i - 1) + 1 = i
  BY <1>1, <1>2
<1>4. i - 1 \in 1 .. Len(blocks') /\ blocks'[i - 1] = blocks[i]
  BY <1>1, <1>3
<1> QED
  BY <1>4

LEMMA AllStay ==
  ASSUME DataInv, NEW b \in Block, blocks' = Append(blocks, b)
  PROVE  \A i \in 1 .. Len(blocks) : blocks[i].kind = "environment" =>
           \E j \in 1 .. Len(blocks') : blocks'[j] = blocks[i]
<1>1. /\ Len(blocks) \in Nat /\ Len(blocks') = Len(blocks) + 1
      /\ \A i \in 1 .. Len(blocks) : blocks'[i] = blocks[i]
  BY Types, Added DEF DataInv
<1>2. ASSUME NEW i \in 1 .. Len(blocks) PROVE i \in 1 .. Len(blocks') /\ blocks'[i] = blocks[i]
  BY <1>1
<1> QED
  BY <1>2

LEMMA StepTraits ==
  ASSUME DataInv, TraitsInv, [DataNext]_dcVars
  PROVE  TraitsInv'
<1>1. Newest \in Nat /\ visible \in Nat
  BY Types DEF DataInv
\* A step that only tells, calls, prepares or returns.
<1>2. ASSUME UNCHANGED <<maps, created, interrupted, trait, traits, told, blocks>>, visible' = visible,
             initialReload => initialReload',
             stack' = stack \/ stack = << >> \/ stack[1].pc # "schedule"
      PROVE  TraitsInv'
  BY <1>1, <1>2, QuietStepKeepsTraits
<1>3. CASE UNCHANGED dcVars
  BY <1>2, <1>3 DEF dcVars, dataVars, mapVars, traitVars
<1>4. ASSUME NEW change \in Changes, UpdateWithChangeSet(change) PROVE TraitsInv'
  BY <1>2, <1>4, Callers DEF UpdateWithChangeSet, Call, traitVars, Quiet
<1>5. ASSUME NEW kind \in {"wait", "relayout"}, ScheduleBlock(kind) PROVE TraitsInv'
  BY <1>2, <1>5, Callers DEF ScheduleBlock, Call, dataVars, mapVars, traitVars, Quiet
<1>6. CASE ChangeEnvironment
  <2>1. ~initialReload \/ stack' = <<Scheduling(EnvironmentBlock)>> \o stack
    BY <1>6 DEF ChangeEnvironment
  <2>2. stack \in Seq(Frame) /\ Scheduling(EnvironmentBlock) \in Frame
    BY Types, FrameKinds DEF DataInv, EnvironmentBlock, Block
  <2>3. ~initialReload \/ (stack' # << >> /\ stack'[1] = Scheduling(EnvironmentBlock))
    BY <2>1, <2>2, Pushed
  <2> QED
    BY <1>6, <2>3, ToldKeepsTraits DEF ChangeEnvironment
<1>7. CASE RunEnvironmentDidChange
  <2>1. ~initialReload \/ stack' = <<Scheduling(EnvironmentBlock)>>
    BY <1>7 DEF RunEnvironmentDidChange
  <2>2. ~initialReload \/ (stack' # << >> /\ stack'[1] = Scheduling(EnvironmentBlock))
    BY <2>1
  <2> QED
    BY <1>7, <2>2, ToldKeepsTraits DEF RunEnvironmentDidChange
<1>8. CASE ChangeEnvironmentOffMain
  <2>1. told' > 0
    BY <1>8 DEF ChangeEnvironmentOffMain, DataInv, DataTypeOK
  <2> QED
    BY <1>8, <2>1, ToldKeepsTraits DEF ChangeEnvironmentOffMain
<1>9. CASE BailOut
  BY <1>2, <1>9, AtTop DEF BailOut, dataVars, mapVars, traitVars
<1>10. CASE UpdateEmpty
  <2> DEFINE b == [kind |-> "notify", number |-> Newest, reload |-> FALSE]
  <2>1. /\ stack[1].pc # "schedule" /\ blocks' = Append(blocks, b)
        /\ UNCHANGED <<initialReload, maps, created, interrupted, visible, trait, traits, told>>
    BY <1>10, AtTop DEF UpdateEmpty, dataVars, mapVars, traitVars
  <2>2. b \in Block
    BY <1>1 DEF Block
  <2> HIDE DEF b
  <2>3. \A i \in 1 .. Len(blocks) : blocks[i].kind = "environment" =>
          \E j \in 1 .. Len(blocks') : blocks'[j] = blocks[i]
    BY <2>1, <2>2, AllStay
  <2> QED
    BY <1>1, <2>1, <2>3, QuietStepKeepsTraits
<1>11. CASE UpdatePending
  BY <1>11, PendingKeepsTraits
<1>12. CASE PerformScheduled
  BY <1>12, PerformKeepsTraits
<1>13. CASE RunDispatched
  BY <1>2, <1>13 DEF RunDispatched, dataVars, mapVars, traitVars
<1>14. CASE DrainEnds
  BY <1>2, <1>14, AtTop DEF DrainEnds, dataVars, mapVars, traitVars
<1>15. CASE BlockReturns
  BY <1>2, <1>15, AtTop DEF BlockReturns, dataVars, mapVars, traitVars
<1>16. ASSUME NEW i \in DOMAIN blocks, RunScheduled(i) PROVE TraitsInv'
  BY <1>16, RunKeepsTraits
<1>17. CASE PrepareNodes
  <2>1. /\ editing[1] \in Block /\ blocks' = Append(blocks, editing[1])
        /\ UNCHANGED <<initialReload, maps, created, interrupted, visible, trait, traits, told, stack>>
    BY <1>17, Types, Popped DEF PrepareNodes, DataInv, traitVars
  <2>2. \A i \in 1 .. Len(blocks) : blocks[i].kind = "environment" =>
          \E j \in 1 .. Len(blocks') : blocks'[j] = blocks[i]
    BY <2>1, AllStay
  <2> QED
    BY <1>1, <2>1, <2>2, QuietStepKeepsTraits
<1>18. ASSUME NEW i \in DOMAIN blocks, TellWillUpdate(i) PROVE TraitsInv'
  <2>1. /\ blocks # << >> /\ blocks' = Tail(blocks) /\ stack[1].pc = "drain"
        /\ blocks[1].kind # "environment"
        /\ ~interrupted' => ~interrupted
        /\ UNCHANGED <<initialReload, maps, created, visible, trait, traits, told>>
    BY <1>18, Taken DEF TellWillUpdate, mapVars, traitVars
  <2>2. \A k \in 1 .. Len(blocks) : blocks[k].kind = "environment" =>
          \E j \in 1 .. Len(blocks') : blocks'[j] = blocks[k]
    BY <2>1, OthersStay
  <2> QED
    BY <1>1, <2>1, <2>2, QuietStepKeepsTraits
<1>19. CASE DeployAndTell
  <2>1. visible' # visible => visible' = visible + 1 \/ interrupted
    BY <1>19, DeployKeeps
  <2>2. /\ stack[1].pc # "schedule"
        /\ UNCHANGED <<initialReload, maps, created, interrupted, trait, traits, told, blocks>>
    BY <1>19, AtTop DEF DeployAndTell, dataVars, mapVars, traitVars
  <2>3. visible' \in Nat /\ (~interrupted' => ~interrupted /\ visible <= visible')
    <3>1. DataInv'
      BY <1>19, DeployKeeps
    <3> QED
      BY <1>1, <2>1, <2>2, <3>1, Types DEF DataInv, DataTypeOK
  <2>4. \A i \in 1 .. Len(blocks) : blocks[i].kind = "environment" =>
          \E j \in 1 .. Len(blocks') : blocks'[j] = blocks[i]
    BY <2>2
  <2> QED
    BY <1>1, <2>2, <2>3, <2>4, QuietStepKeepsTraits
<1>20. CASE BeginRange
  BY <1>2, <1>20, Callers DEF BeginRange, Call, dataVars, mapVars, traitVars, Quiet
<1>21. ASSUME NEW pc \in {"range", "hook"}, RangeGoesOn(pc) PROVE TraitsInv'
  BY <1>2, <1>21, AtTop DEF RangeGoesOn, InRange, dataVars, mapVars, traitVars
<1>22. CASE EndRange
  BY <1>2, <1>22, AtTop DEF EndRange, InRange, dataVars, mapVars, traitVars
<1> QED
  BY <1>3, <1>4, <1>5, <1>6, <1>7, <1>8, <1>9, <1>10, <1>11, <1>12, <1>13, <1>14, <1>15,
     <1>16, <1>17, <1>18, <1>19, <1>20, <1>21, <1>22
  DEF DataNext, Calls, MainSteps

\* An element that is shown with traits of a past environment has the call, or the
\* block, that gives it the present ones still before it, whatever maps were
\* computed, prepared and deployed meanwhile (770-786, ASDataController.h:242-243).
THEOREM NoPastTraits == DataSpec => []TraitsCatchUp
<1>1. DataInit => TraitsInv
  BY InitTraits
<1>2. DataInv /\ TraitsInv /\ [DataNext]_dcVars => TraitsInv'
  BY StepTraits
<1>3. DataInv /\ TraitsInv => TraitsCatchUp
  <2> SUFFICES ASSUME DataInv, TraitsInv, ~interrupted, NEW e \in Shown, traits[e] # trait
               PROVE  \/ told > 0
                      \/ \E i \in DOMAIN blocks : blocks[i].kind = "environment"
                      \/ \E i \in DOMAIN stack :
                           stack[i].pc = "schedule" /\ stack[i].block.kind = "environment"
    BY DEF TraitsCatchUp
  <2>1. /\ maps \in Seq(Map) /\ visible \in 1 .. Newest /\ Newest \in Nat \ {0}
        /\ blocks \in Seq(Block) /\ stack \in Seq(Frame)
    BY Types DEF DataInv
  <2>2. Of(maps[visible]) = Shown
    <3>1. maps[visible] \in Seq(Elements)
      BY <2>1, ElementOfSeq DEF Map, Newest
    <3> QED
      BY <3>1 DEF Of, Shown
  <2>3. Owed(e)
    BY <2>1, <2>2, visible \in visible .. Newest DEF TraitsInv, StaleIsOwed
  <2>4. InBlocks(e) => \E i \in DOMAIN blocks : blocks[i].kind = "environment"
    BY <2>1, LenProperties DEF InBlocks, Catches
  <2>5. stack # << >> => 1 \in DOMAIN stack
    BY <2>1, EmptySeq, LenProperties
  <2>6. InFrame(e) => \E i \in DOMAIN stack :
                        stack[i].pc = "schedule" /\ stack[i].block.kind = "environment"
    BY <2>5 DEF InFrame, Catches
  <2> QED
    BY <2>3, <2>4, <2>6 DEF Owed
<1> QED
  BY InvariantHolds, <1>1, <1>2, <1>3, PTL DEF DataSpec

-----------------------------------------------------------------------------
(* The collection: what is proved above holds for its data controller.     *)

LEMMA DataPart ==
  /\ Init => DataInit
  /\ [Next]_vars => [DataNext]_dcVars
<1>1. Init => DataInit
  BY DEF Init
<1>2. ASSUME [Next]_vars PROVE [DataNext]_dcVars
  <2>1. CASE UNCHANGED vars
    BY <2>1 DEF vars
  <2>2. CASE DataStep
    BY <2>2 DEF DataStep, DataNext
  <2>3. CASE WillUpdate
    BY <2>3 DEF WillUpdate, DataNext
  <2>4. CASE DidUpdate
    BY <2>4 DEF DidUpdate, DataNext
  <2>5. CASE UpdateRanges
    BY <2>5 DEF UpdateRanges, DataNext
  <2>6. CASE RangeStep
    <3>1. ASSUME NodeStep PROVE \E pc \in {"range", "hook"} : RangeGoesOn(pc)
      BY <3>1 DEF NodeStep
    <3> QED
      BY <2>6, <3>1 DEF RangeStep, DataNext
  <2>7. CASE ClearRanges
    BY <2>7 DEF ClearRanges
  <2> QED
    BY <1>2, <2>1, <2>2, <2>3, <2>4, <2>5, <2>6, <2>7 DEF Next
<1> QED
  BY <1>1, <1>2

\* The range controller does nothing to the data controller but what clients may.
THEOREM ImplementsDataController == Spec => DataSpec
  BY DataPart, PTL DEF Spec, DataSpec

\* UIKit is given the maps one by one (ASDataController.mm:571-585).
THEOREM CollectionDeploysInTurn == Spec => DeploysSuccessor
  BY ImplementsDataController, DeploysInTurn, PTL

\* A scheduled block finds deployed whatever was submitted before it
\* (ASDataController.mm:742-743).
THEOREM CollectionSchedulesBehind == Spec => ScheduledSeesAll
  BY ImplementsDataController, SchedulesBehind, PTL

\* What is shown with past traits is about to be given the present ones
\* (ASDataController.mm:770-786).
THEOREM CollectionNoPastTraits == Spec => []TraitsCatchUp
  BY ImplementsDataController, NoPastTraits, PTL

-----------------------------------------------------------------------------
(* An element is at one index path of a map.                               *)

Distinct(map) == \A i, j \in 1 .. Len(map) : map[i] = map[j] => i = j

MapsDistinct == \A k \in 1 .. Newest : Distinct(maps[k])

LEMMA NewMapDistinct ==
  ASSUME DataInv, TraitsInv, MapsDistinct, UpdatePending
  PROVE  Distinct(NewMap(stack[1].change, created'))
<1> DEFINE new == NewMap(stack[1].change, created')
<1>1. /\ Newest \in Nat \ {0} /\ Pending \in Seq(Elements) /\ Pending = maps[Newest]
      /\ Newest \in 1 .. Newest
  BY Types DEF DataInv, Newest, Pending
<1>2. \A i, j \in 1 .. Len(Pending) : Pending[i] = Pending[j] => i = j
  BY <1>1 DEF MapsDistinct, Distinct
<1>3. created \in Nat
  BY PendingParts
<1>4. \A i \in 1 .. Len(Pending) : Pending[i] \in Nat /\ Pending[i] <= created
  <2>1. \A e \in Of(Pending) : e \in Elements /\ e <= created
    BY <1>1 DEF TraitsInv, MapsInv, MapsOfCreated
  <2> QED
    BY <2>1, DataAssumption DEF Of, Elements
<1>5. CASE stack[1].change = "delete"
  <2>1. new = Tail(Pending) /\ Pending # << >>
    BY <1>5, PendingParts DEF NewMap
  <2>2. /\ Len(Pending) \in Nat \ {0} /\ Len(new) = Len(Pending) - 1
        /\ \A i \in 1 .. Len(Pending) - 1 : new[i] = Pending[i + 1]
    BY <2>1, <1>1, Popped
  <2> HIDE DEF new
  <2>3. ASSUME NEW i \in 1 .. Len(new), NEW j \in 1 .. Len(new), new[i] = new[j] PROVE i = j
    <3>1. /\ i + 1 \in 1 .. Len(Pending) /\ j + 1 \in 1 .. Len(Pending)
          /\ new[i] = Pending[i + 1] /\ new[j] = Pending[j + 1]
      BY <2>2
    <3>2. i + 1 = j + 1
      BY <3>1, <2>3, <1>2
    <3> QED
      BY <3>2, <2>2
  <2> QED
    BY <2>3 DEF Distinct, new
<1>6. CASE stack[1].change = "insert"
  <2>1. new = <<created'>> \o Pending /\ created' = created + 1 /\ created' \in Elements
    BY <1>6, PendingParts DEF NewMap
  <2>2. /\ Len(new) = Len(Pending) + 1 /\ Len(Pending) \in Nat /\ new[1] = created'
        /\ \A i \in 1 .. Len(Pending) : new[i + 1] = Pending[i]
    BY <2>1, <1>1, Pushed
  <2> HIDE DEF new
  <2>3. ASSUME NEW i \in 1 .. Len(new), i # 1
        PROVE  /\ i - 1 \in 1 .. Len(Pending) /\ new[i] = Pending[i - 1]
               /\ new[i] \in Nat /\ new[i] <= created
    <3>1. i - 1 \in 1 .. Len(Pending) /\ (i - 1) + 1 = i
      BY <2>2, <2>3
    <3> QED
      BY <3>1, <2>2, <1>4
  <2>4. ASSUME NEW i \in 1 .. Len(new), NEW j \in 1 .. Len(new), new[i] = new[j] PROVE i = j
    <3>1. CASE i = 1 /\ j = 1
      BY <3>1
    <3>2. CASE i = 1 /\ j # 1
      BY <3>2, <2>1, <2>2, <2>3, <2>4, <1>3
    <3>3. CASE i # 1 /\ j = 1
      BY <3>3, <2>1, <2>2, <2>3, <2>4, <1>3
    <3>4. CASE i # 1 /\ j # 1
      <4>1. i - 1 = j - 1
        BY <3>4, <2>3, <2>4, <1>2
      <4> QED
        BY <4>1, <2>2
    <3> QED
      BY <3>1, <3>2, <3>3, <3>4
  <2> QED
    BY <2>4 DEF Distinct, new
<1>7. CASE stack[1].change = "reload"
  <2>1. new = <<created'>>
    BY <1>7, PendingParts DEF NewMap
  <2>2. Len(new) = 1
    BY <2>1
  <2> HIDE DEF new
  <2>3. Distinct(new)
    BY <2>2 DEF Distinct
  <2> QED
    BY <2>3 DEF new
<1>8. stack[1].change \in {"delete", "reload", "insert"}
  BY PendingParts
<1> QED
  BY <1>5, <1>6, <1>7, <1>8

\* Only UpdatePending computes a map, and the maps before stay.
LEMMA MapsStay ==
  ASSUME DataInv, [DataNext]_dcVars
  PROVE  /\ \A k \in 1 .. Newest : maps'[k] = maps[k]
         /\ Newest' \in Nat /\ Newest <= Newest'
         /\ UpdatePending \/ maps' = maps
<1>1. Newest \in Nat
  BY Types DEF DataInv
<1>2. UpdatePending \/ maps' = maps
  BY DEF DataNext, Calls, MainSteps, UpdateWithChangeSet, ScheduleBlock, ChangeEnvironment,
     ChangeEnvironmentOffMain, BailOut, UpdateEmpty, PerformScheduled, RunDispatched,
     RunEnvironmentDidChange, DrainEnds, BlockReturns, RunScheduled, PrepareNodes,
     TellWillUpdate, DeployAndTell, BeginRange, RangeGoesOn, EndRange, Call, dcVars, dataVars,
     mapVars
<1>3. CASE maps' = maps
  BY <1>1, <1>3 DEF Newest
<1>4. CASE UpdatePending
  <2>1. maps \in Seq(Map) /\ NewMap(stack[1].change, created') \in Map
        /\ maps' = Append(maps, NewMap(stack[1].change, created'))
    BY <1>4, PendingParts, Types DEF DataInv
  <2>2. Len(maps') = Len(maps) + 1 /\ \A k \in 1 .. Len(maps) : maps'[k] = maps[k]
    BY <2>1, Added
  <2> QED
    BY <2>2, <1>1, <1>4 DEF Newest
<1> QED
  BY <1>2, <1>3, <1>4

LEMMA DistinctStep ==
  ASSUME DataInv, TraitsInv, MapsDistinct, [DataNext]_dcVars
  PROVE  MapsDistinct'
<1>1. CASE maps' = maps
  BY <1>1 DEF MapsDistinct, Newest
<1>2. CASE UpdatePending
  <2>1. Distinct(NewMap(stack[1].change, created'))
    BY <1>2, NewMapDistinct
  <2>2. /\ maps \in Seq(Map) /\ NewMap(stack[1].change, created') \in Map
        /\ maps' = Append(maps, NewMap(stack[1].change, created'))
    BY <1>2, PendingParts, Types DEF DataInv
  <2>3. /\ Len(maps') = Len(maps) + 1 /\ Len(maps) \in Nat
        /\ maps'[Len(maps) + 1] = NewMap(stack[1].change, created')
        /\ \A k \in 1 .. Len(maps) : maps'[k] = maps[k]
    BY <2>2, Added
  <2>4. ASSUME NEW k \in 1 .. Len(maps') PROVE Distinct(maps'[k])
    <3>1. CASE k = Len(maps) + 1
      BY <3>1, <2>1, <2>3
    <3>2. CASE k # Len(maps) + 1
      <4>1. k \in 1 .. Len(maps) /\ maps'[k] = maps[k]
        BY <3>2, <2>3
      <4> QED
        BY <4>1 DEF MapsDistinct, Newest
    <3> QED
      BY <3>1, <3>2
  <2> QED
    BY <2>4 DEF MapsDistinct, Newest
<1> QED
  BY <1>1, <1>2, MapsStay

-----------------------------------------------------------------------------
(* The ranges.  Until a pass is overtaken there is one at most, and the map  *)
(* under it stays.  A node that is still to be visited gets no state by an   *)
(* index path that the pass does not remember.                             *)

RangeTypes == Ranges!RangeTypeOK

ToVisit(n) == Ranges!In("visit") /\ passes[1].todo[n] # "done"

\* The index paths remembered are those of the nodes in a range, or will be.
PathsCount == rangeIsValid \/ Ranges!In("visit") \/ (Ranges!In("exit") /\ passes[1].whole)

VisibleKnown ==
  \A n \in Elements :
    interface[n] = "visible" => n \in visibleNodes \/ (passes # << >> /\ n \in passes[1].new)

\* What -_setVisibleNodes: has not told to exit it remembers.
VisibleLeave ==
  Ranges!In("exit") =>
    \A n \in Elements : interface[n] = "visible" => n \in passes[1].left \cup passes[1].new

PathsKnown ==
  PathsCount =>
    \A p \in DOMAIN maps[visible] :
      interface[maps[visible][p]] # "none" => p \in previousPaths \/ ToVisit(maps[visible][p])

OthersGetNone ==
  \A p \in DOMAIN maps[visible] :
    p \notin previousPaths /\ ToVisit(maps[visible][p]) =>
      passes[1].todo[maps[visible][p]] = "none"

Followed ==
  Len(passes) <= 1 /\ VisibleKnown /\ VisibleLeave /\ PathsKnown /\ OthersGetNone

RangesInv == RangeTypes /\ (~overtaken => Followed)

\* The visible map is the same until a new one is deployed, though others are added.
LEMMA VisibleMapStays ==
  ASSUME DataInv, [DataNext]_dcVars, visible' = visible
  PROVE  maps'[visible'] = maps[visible]
  BY MapsStay, Types DEF DataInv

LEMMA PassKinds ==
  /\ \A todo \in [Elements -> Ranges!States \cup {"done"}], new \in SUBSET Elements :
       Ranges!Visiting(todo, new) \in Ranges!Pass
  /\ \A left, new \in SUBSET Elements, whole \in BOOLEAN :
       Ranges!Exiting(left, new, whole) \in Ranges!Pass
  BY DEF Ranges!Visiting, Ranges!Exiting, Ranges!Pass

LEMMA PassParts ==
  ASSUME RangeTypes, passes # << >>
  PROVE  /\ passes[1] \in Ranges!Pass /\ Tail(passes) \in Seq(Ranges!Pass)
         /\ Len(Tail(passes)) = Len(passes) - 1 /\ Len(passes) \in Nat \ {0}
         /\ passes[1].phase = "visit" =>
              /\ passes[1].todo \in [Elements -> Ranges!States \cup {"done"}]
              /\ passes[1].new \in SUBSET Elements
         /\ passes[1].phase = "exit" =>
              /\ passes[1].left \in SUBSET Elements /\ passes[1].new \in SUBSET Elements
              /\ passes[1].whole \in BOOLEAN
<1>1. /\ passes[1] \in Ranges!Pass /\ Tail(passes) \in Seq(Ranges!Pass)
      /\ Len(Tail(passes)) = Len(passes) - 1 /\ Len(passes) \in Nat \ {0}
  BY Popped DEF RangeTypes, Ranges!RangeTypeOK
<1> QED
  BY <1>1 DEF Ranges!Pass

\* A pass begins.
LEMMA Begun ==
  ASSUME RangesInv, NEW pass \in Ranges!Pass, Ranges!Begin(pass)
  PROVE  /\ passes' \in Seq(Ranges!Pass) /\ overtaken' \in BOOLEAN
         /\ passes' # << >> /\ passes'[1] = pass
         /\ ~overtaken' => /\ ~overtaken /\ passes = << >> /\ Len(passes') <= 1
                           /\ Followed
<1>1. passes' = <<pass>> \o passes /\ overtaken' = (overtaken \/ passes # << >>)
  BY DEF Ranges!Begin
<1>2. passes \in Seq(Ranges!Pass) /\ overtaken \in BOOLEAN
  BY DEF RangesInv, RangeTypes, Ranges!RangeTypeOK
<1>3. /\ passes' \in Seq(Ranges!Pass) /\ passes' # << >> /\ passes'[1] = pass
      /\ Len(passes') = Len(passes) + 1
  BY <1>1, <1>2, Pushed
<1>4. passes = << >> => Len(passes) = 0
  OBVIOUS
<1>5. overtaken' \in BOOLEAN /\ (~overtaken' => ~overtaken /\ passes = << >>)
  BY <1>1, <1>2
<1>6. ~overtaken' => Len(passes') <= 1 /\ Followed
  BY <1>3, <1>4, <1>5 DEF RangesInv
<1> QED
  BY <1>3, <1>5, <1>6

\* And goes on.
LEMMA Continued ==
  ASSUME RangesInv, passes # << >>, NEW pass \in Ranges!Pass, Ranges!Continue(pass)
  PROVE  /\ passes' \in Seq(Ranges!Pass) /\ overtaken' = overtaken /\ overtaken \in BOOLEAN
         /\ passes' # << >> /\ passes'[1] = pass
         /\ Len(passes') = Len(passes)
<1>1. passes' = <<pass>> \o Tail(passes) /\ overtaken' = overtaken
  BY DEF Ranges!Continue
<1>2. passes \in Seq(Ranges!Pass) /\ overtaken \in BOOLEAN
  BY DEF RangesInv, RangeTypes, Ranges!RangeTypeOK
<1>3. /\ Tail(passes) \in Seq(Ranges!Pass)
      /\ Len(Tail(passes)) = Len(passes) - 1 /\ Len(passes) \in Nat \ {0}
  BY <1>2, Popped
<1>4. /\ passes' \in Seq(Ranges!Pass) /\ passes' # << >> /\ passes'[1] = pass
      /\ Len(passes') = Len(Tail(passes)) + 1
  BY <1>1, <1>3, Pushed
<1> QED
  BY <1>1, <1>2, <1>3, <1>4

LEMMA Interfaces ==
  ASSUME RangeTypes
  PROVE  /\ interface \in [Elements -> Ranges!States]
         /\ visibleNodes \in SUBSET Elements /\ previousPaths \in SUBSET Nat
         /\ rangeIsValid \in BOOLEAN /\ overtaken \in BOOLEAN /\ passes \in Seq(Ranges!Pass)
  BY DEF RangeTypes, Ranges!RangeTypeOK

\* Nothing is visible any more: nodes that were are to exit.
LEMMA NoneTracks ==
  ASSUME RangesInv, Ranges!SetNoneVisible, maps'[visible'] = maps[visible]
  PROVE  RangesInv'
<1> DEFINE pass == Ranges!Exiting(visibleNodes, {}, FALSE)
<1>1. /\ Ranges!Begin(pass)
      /\ UNCHANGED <<interface, visibleNodes, previousPaths, rangeIsValid>>
  BY DEF Ranges!SetNoneVisible
<1>2. pass \in Ranges!Pass
  BY PassKinds, Interfaces DEF RangesInv
<1>3. /\ pass.phase = "exit" /\ pass.left = visibleNodes /\ pass.new = {} /\ ~pass.whole
  BY DEF Ranges!Exiting
<1> HIDE DEF pass
<1>4. /\ passes' \in Seq(Ranges!Pass) /\ overtaken' \in BOOLEAN
      /\ passes' # << >> /\ passes'[1] = pass
      /\ ~overtaken' => /\ ~overtaken /\ passes = << >> /\ Len(passes') <= 1
                        /\ Followed
  BY <1>1, <1>2, Begun
<1>5. RangeTypes'
  BY <1>1, <1>4 DEF RangesInv, RangeTypes, Ranges!RangeTypeOK
<1>6. ASSUME ~overtaken' PROVE Followed'
  <2>1. passes = << >> /\ Followed /\ Len(passes') <= 1
    BY <1>4, <1>6
  <2>2. VisibleKnown'
    BY <1>1, <2>1 DEF Followed, VisibleKnown
  <2>3. VisibleLeave'
    BY <1>1, <1>3, <1>4, <2>1 DEF Followed, VisibleKnown, VisibleLeave
  <2>4. ~Ranges!In("visit")' /\ ~Ranges!In("visit")
    BY <1>3, <1>4, <2>1 DEF Ranges!In
  <2>5. PathsCount' => PathsCount
    BY <1>1, <1>3, <1>4, <2>4 DEF PathsCount
  <2>6. PathsKnown' /\ OthersGetNone'
    BY <1>1, <2>1, <2>4, <2>5 DEF Followed, PathsKnown, OthersGetNone, ToVisit
  <2> QED
    BY <2>1, <2>2, <2>3, <2>6 DEF Followed
<1> QED
  BY <1>5, <1>6 DEF RangesInv

\* An update remembers the index paths it is to put in a range, and visits those
\* remembered before; of the others no node is in one.
LEMMA UpdateTracks ==
  ASSUME RangesInv, maps[visible] \in Seq(Elements), Distinct(maps[visible]),
         maps'[visible'] = maps[visible],
         NEW target \in [DOMAIN maps[visible] -> Ranges!States],
         Ranges!UpdateVisibleNodes(maps[visible], target)
  PROVE  RangesInv'
<1> DEFINE map == maps[visible]
           current == {p \in DOMAIN map : target[p] # "none"}
           visited == Ranges!VisitedPaths(map, current)
           at(n) == CHOOSE p \in visited : map[p] = n
           todo == [n \in Elements |->
                      IF \E p \in visited : map[p] = n THEN target[at(n)] ELSE "done"]
           pass == Ranges!Visiting(todo, {})
<1>1. /\ Ranges!Begin(pass) /\ previousPaths' = current
      /\ UNCHANGED <<interface, visibleNodes, rangeIsValid>>
  BY DEF Ranges!UpdateVisibleNodes
<1>2. DOMAIN map = 1 .. Len(map) /\ Len(map) \in Nat /\ \A p \in DOMAIN map : map[p] \in Elements
  BY LenProperties, ElementOfSeq
<1>3. /\ visited \subseteq DOMAIN map /\ current \subseteq visited
      /\ rangeIsValid => previousPaths \cap DOMAIN map \subseteq visited
      /\ ~rangeIsValid => visited = DOMAIN map
  BY DEF Ranges!VisitedPaths
<1>4. \A p, q \in DOMAIN map : map[p] = map[q] => p = q
  BY <1>2 DEF Distinct
<1>5. \A p \in DOMAIN map : target[p] \in Ranges!States /\ (p \notin current => target[p] = "none")
  OBVIOUS
<1>6. pass.phase = "visit" /\ pass.todo = todo /\ pass.new = {}
  BY DEF Ranges!Visiting
<1> HIDE DEF map, visited, current
<1>7. ASSUME NEW p \in visited PROVE map[p] \in Elements /\ todo[map[p]] = target[p]
  <2>1. map[p] \in Elements
    BY <1>2, <1>3
  <2>2. at(map[p]) \in visited /\ map[at(map[p])] = map[p]
    OBVIOUS
  <2>3. at(map[p]) = p
    BY <2>2, <1>3, <1>4
  <2> QED
    BY <2>1, <2>3
<1>8. ASSUME NEW n \in Elements, \A p \in visited : map[p] # n PROVE todo[n] = "done"
  BY <1>8
<1>9. todo \in [Elements -> Ranges!States \cup {"done"}]
  <2>1. ASSUME NEW n \in Elements PROVE todo[n] \in Ranges!States \cup {"done"}
    <3>1. CASE \E p \in visited : map[p] = n
      BY <3>1, <1>3, <1>5, <1>7
    <3>2. CASE \A p \in visited : map[p] # n
      BY <3>2, <1>8
    <3> QED
      BY <3>1, <3>2
  <2> QED
    BY <2>1
<1> HIDE DEF todo, at
<1>10. pass \in Ranges!Pass
  BY <1>9, PassKinds
<1> HIDE DEF pass
<1>11. /\ passes' \in Seq(Ranges!Pass) /\ overtaken' \in BOOLEAN
       /\ passes' # << >> /\ passes'[1] = pass
       /\ ~overtaken' => /\ ~overtaken /\ passes = << >> /\ Len(passes') <= 1
                         /\ Followed
  BY <1>1, <1>10, Begun
<1>12. RangeTypes'
  <2>1. current \subseteq Nat
    BY <1>2 DEF current
  <2> QED
    BY <2>1, <1>1, <1>11 DEF RangesInv, RangeTypes, Ranges!RangeTypeOK
<1>13. /\ Ranges!In("visit")' /\ ~Ranges!In("exit")'
       /\ passes'[1].todo = todo
  BY <1>6, <1>11 DEF Ranges!In
<1>14. ASSUME ~overtaken' PROVE Followed'
  <2>1. passes = << >> /\ Followed /\ Len(passes') <= 1
    BY <1>11, <1>14
  <2>2. VisibleKnown' /\ VisibleLeave'
    BY <1>1, <1>13, <2>1 DEF Followed, VisibleKnown, VisibleLeave
  <2>3. ASSUME NEW p \in DOMAIN map, interface[map[p]] # "none", p \notin current
        PROVE  todo[map[p]] # "done"
    <3>1. CASE p \in visited
      BY <3>1, <1>3, <1>5, <1>7 DEF Ranges!States
    <3>2. CASE p \notin visited
      <4>1. rangeIsValid /\ p \notin previousPaths
        BY <3>2, <1>3, Interfaces DEF RangesInv
      <4>2. PathsCount /\ ~Ranges!In("visit")
        BY <4>1, <2>1 DEF PathsCount, Ranges!In
      <4> QED
        BY <4>1, <4>2, <2>1, <2>3 DEF Followed, PathsKnown, ToVisit, map
    <3> QED
      BY <3>1, <3>2
  <2>4. PathsKnown'
    BY <1>1, <1>13, <2>3 DEF PathsKnown, ToVisit, map
  <2>5. ASSUME NEW p \in DOMAIN map, p \notin current, todo[map[p]] # "done"
        PROVE  todo[map[p]] = "none"
    <3>1. p \in visited
      <4>1. PICK q \in visited : map[q] = map[p]
        BY <2>5, <1>2, <1>8
      <4> QED
        BY <4>1, <1>3, <1>4
    <3> QED
      BY <3>1, <2>5, <1>5, <1>7
  <2>6. OthersGetNone'
    BY <1>1, <1>13, <2>5 DEF OthersGetNone, ToVisit, map
  <2> QED
    BY <2>1, <2>2, <2>4, <2>6 DEF Followed
<1> QED
  BY <1>12, <1>14 DEF RangesInv

LEMMA VisitTracks ==
  ASSUME RangesInv, maps'[visible'] = maps[visible], maps[visible] \in Seq(Elements),
         NEW n \in Elements, Ranges!Visit(n)
  PROVE  RangesInv'
<1> DEFINE todo == passes[1].todo
           new == passes[1].new \cup (IF todo[n] = "visible" THEN {n} ELSE {})
           rest == [todo EXCEPT ![n] = "done"]
           pass == Ranges!Visiting(rest, new)
<1>1. /\ Ranges!In("visit") /\ todo[n] # "done"
      /\ interface' = [interface EXCEPT ![n] = todo[n]]
      /\ Ranges!Continue(pass)
      /\ UNCHANGED <<visibleNodes, previousPaths, rangeIsValid>>
  BY DEF Ranges!Visit
<1>2. passes # << >> /\ passes[1].phase = "visit"
  BY <1>1 DEF Ranges!In
<1>3. /\ todo \in [Elements -> Ranges!States \cup {"done"}]
      /\ passes[1].new \in SUBSET Elements
  BY <1>2, PassParts DEF RangesInv
<1>4. pass.phase = "visit" /\ pass.todo = rest /\ pass.new = new
  BY DEF Ranges!Visiting
<1>5. /\ rest \in [Elements -> Ranges!States \cup {"done"}] /\ rest[n] = "done"
      /\ \A m \in Elements : m # n => rest[m] = todo[m]
      /\ new \in SUBSET Elements /\ passes[1].new \subseteq new
      /\ todo[n] = "visible" => n \in new
  BY <1>3
<1>6. /\ interface' \in [Elements -> Ranges!States] /\ interface'[n] = todo[n]
      /\ \A m \in Elements : m # n => interface'[m] = interface[m]
  BY <1>1, <1>3, Interfaces DEF RangesInv
<1>7. pass \in Ranges!Pass
  BY <1>5, PassKinds
<1> HIDE DEF pass, rest, new
<1>8. /\ passes' \in Seq(Ranges!Pass) /\ overtaken' = overtaken /\ overtaken \in BOOLEAN
      /\ passes' # << >> /\ passes'[1] = pass /\ Len(passes') = Len(passes)
  BY <1>1, <1>2, <1>7, Continued
<1>9. RangeTypes'
  BY <1>1, <1>6, <1>8 DEF RangesInv, RangeTypes, Ranges!RangeTypeOK
<1>10. Ranges!In("visit")' /\ ~Ranges!In("exit")' /\ passes'[1].todo = rest /\ passes'[1].new = new
  BY <1>4, <1>8 DEF Ranges!In
<1>11. \A p \in DOMAIN maps[visible] : maps[visible][p] \in Elements
  BY LenProperties, ElementOfSeq
<1>12. ASSUME ~overtaken' PROVE Followed'
  <2>1. Followed /\ Len(passes') <= 1
    BY <1>8, <1>12 DEF RangesInv, Followed
  <2>2. VisibleKnown' /\ VisibleLeave'
    BY <1>1, <1>2, <1>5, <1>6, <1>8, <1>10, <2>1 DEF Followed, VisibleKnown, VisibleLeave
  <2>3. PathsCount
    BY <1>1 DEF PathsCount
  <2>4. ASSUME NEW p \in DOMAIN maps[visible], interface'[maps[visible][p]] # "none",
               p \notin previousPaths
        PROVE  rest[maps[visible][p]] # "done"
    <3>1. CASE maps[visible][p] = n
      BY <3>1, <1>1, <1>6, <2>1, <2>4 DEF Followed, OthersGetNone, ToVisit
    <3>2. CASE maps[visible][p] # n
      BY <3>2, <1>5, <1>6, <1>11, <2>1, <2>3, <2>4 DEF Followed, PathsKnown, ToVisit
    <3> QED
      BY <3>1, <3>2
  <2>5. PathsKnown'
    BY <1>1, <1>10, <2>4 DEF PathsKnown, ToVisit
  <2>6. OthersGetNone'
    BY <1>1, <1>5, <1>10, <1>11, <2>1 DEF Followed, OthersGetNone, ToVisit
  <2> QED
    BY <2>1, <2>2, <2>5, <2>6 DEF Followed
<1> QED
  BY <1>9, <1>12 DEF RangesInv

\* All nodes are visited.
LEMMA VisitsEndTracks ==
  ASSUME RangesInv, maps'[visible'] = maps[visible], maps[visible] \in Seq(Elements),
         Ranges!VisitsEnd
  PROVE  RangesInv'
<1> DEFINE new == passes[1].new
           pass == Ranges!Exiting(visibleNodes \ new, new, TRUE)
<1>1. /\ Ranges!In("visit") /\ \A n \in Elements : passes[1].todo[n] = "done"
      /\ Ranges!Continue(pass)
      /\ UNCHANGED <<interface, visibleNodes, previousPaths, rangeIsValid>>
  BY DEF Ranges!VisitsEnd
<1>2. passes # << >> /\ passes[1].phase = "visit" /\ new \in SUBSET Elements
  BY <1>1, PassParts DEF Ranges!In, RangesInv
<1>3. pass.phase = "exit" /\ pass.left = visibleNodes \ new /\ pass.new = new /\ pass.whole
  BY DEF Ranges!Exiting
<1>4. pass \in Ranges!Pass
  BY <1>2, PassKinds, Interfaces DEF RangesInv
<1> HIDE DEF pass
<1>5. /\ passes' \in Seq(Ranges!Pass) /\ overtaken' = overtaken /\ overtaken \in BOOLEAN
      /\ passes' # << >> /\ passes'[1] = pass /\ Len(passes') = Len(passes)
  BY <1>1, <1>2, <1>4, Continued
<1>6. RangeTypes'
  BY <1>1, <1>5 DEF RangesInv, RangeTypes, Ranges!RangeTypeOK
<1>7. ASSUME ~overtaken' PROVE Followed'
  <2>1. Followed /\ Len(passes') <= 1
    BY <1>5, <1>7 DEF RangesInv, Followed
  <2>2. VisibleKnown' /\ VisibleLeave'
    BY <1>1, <1>2, <1>3, <1>5, <2>1 DEF Followed, VisibleKnown, VisibleLeave
  <2>3. PathsCount /\ ~Ranges!In("visit")'
    BY <1>1, <1>3, <1>5 DEF PathsCount, Ranges!In
  <2>4. \A p \in DOMAIN maps[visible] : maps[visible][p] \in Elements
    BY LenProperties, ElementOfSeq
  <2>5. PathsKnown' /\ OthersGetNone'
    BY <1>1, <2>1, <2>3, <2>4 DEF Followed, PathsKnown, OthersGetNone, ToVisit
  <2> QED
    BY <2>1, <2>2, <2>5 DEF Followed
<1> QED
  BY <1>6, <1>7 DEF RangesInv

LEMMA ExitTracks ==
  ASSUME RangesInv, maps'[visible'] = maps[visible], maps[visible] \in Seq(Elements),
         NEW n \in Elements, Ranges!ExitVisible(n)
  PROVE  RangesInv'
<1> DEFINE left == passes[1].left \ {n}
           pass == Ranges!Exiting(left, passes[1].new, passes[1].whole)
<1>1. /\ Ranges!In("exit") /\ passes # << >> /\ passes[1].phase = "exit"
      /\ interface' = [interface EXCEPT ![n] = IF @ = "visible" THEN "near" ELSE @]
      /\ UNCHANGED <<visibleNodes, previousPaths, rangeIsValid>>
  BY DEF Ranges!ExitVisible, Ranges!In
<1>2. /\ passes[1].left \in SUBSET Elements /\ passes[1].new \in SUBSET Elements
      /\ passes[1].whole \in BOOLEAN
  BY <1>1, PassParts DEF RangesInv
<1>3. Ranges!Continue(pass)
  BY DEF Ranges!ExitVisible
<1>4. /\ pass.phase = "exit" /\ pass.left = left /\ pass.new = passes[1].new
      /\ pass.whole = passes[1].whole
  BY DEF Ranges!Exiting
<1>5. pass \in Ranges!Pass
  BY <1>2, PassKinds
<1> HIDE DEF pass
<1>6. /\ passes' \in Seq(Ranges!Pass) /\ overtaken' = overtaken /\ overtaken \in BOOLEAN
      /\ passes' # << >> /\ passes'[1] = pass /\ Len(passes') = Len(passes)
  BY <1>1, <1>3, <1>5, Continued
<1>7. /\ interface' \in [Elements -> Ranges!States] /\ interface'[n] # "visible"
      /\ \A m \in Elements : m # n => interface'[m] = interface[m]
      /\ interface[n] = "none" => interface'[n] = "none"
  BY <1>1, Interfaces DEF RangesInv, Ranges!States
<1>8. RangeTypes'
  BY <1>1, <1>6, <1>7 DEF RangesInv, RangeTypes, Ranges!RangeTypeOK
<1>9. ASSUME ~overtaken' PROVE Followed'
  <2>1. Followed /\ Len(passes') <= 1
    BY <1>6, <1>9 DEF RangesInv, Followed
  <2>2. /\ Ranges!In("exit")' /\ ~Ranges!In("visit") /\ ~Ranges!In("visit")'
        /\ passes'[1].left = left /\ passes'[1].new = passes[1].new
        /\ passes'[1].whole = passes[1].whole
    BY <1>1, <1>4, <1>6 DEF Ranges!In
  <2>3. ASSUME NEW m \in Elements, interface'[m] = "visible"
        PROVE  m # n /\ interface[m] = "visible"
    BY <2>3, <1>7
  <2>4. VisibleKnown'
    BY <1>1, <1>6, <2>1, <2>2, <2>3 DEF Followed, VisibleKnown
  <2>5. VisibleLeave'
    BY <1>1, <2>1, <2>2, <2>3 DEF Followed, VisibleLeave
  <2>6. PathsCount' => PathsCount
    BY <1>1, <2>2 DEF PathsCount
  <2>7. \A p \in DOMAIN maps[visible] :
          interface[maps[visible][p]] = "none" => interface'[maps[visible][p]] = "none"
    <3>1. \A p \in DOMAIN maps[visible] : maps[visible][p] \in Elements
      BY LenProperties, ElementOfSeq
    <3> QED
      BY <3>1, <1>7
  <2>8. PathsKnown' /\ OthersGetNone'
    BY <1>1, <2>1, <2>2, <2>6, <2>7 DEF Followed, PathsKnown, OthersGetNone, ToVisit
  <2> QED
    BY <2>1, <2>4, <2>5, <2>8 DEF Followed
<1> QED
  BY <1>8, <1>9 DEF RangesInv

\* A pass ends.
LEMMA SetTracks ==
  ASSUME RangesInv, maps'[visible'] = maps[visible], Ranges!SetVisibleNodes
  PROVE  RangesInv'
<1>1. /\ Ranges!In("exit") /\ passes # << >> /\ passes[1].phase = "exit" /\ passes[1].left = {}
      /\ visibleNodes' = passes[1].new
      /\ rangeIsValid' = (rangeIsValid \/ passes[1].whole)
      /\ passes' = Tail(passes)
      /\ UNCHANGED <<interface, previousPaths, overtaken>>
  BY DEF Ranges!SetVisibleNodes, Ranges!In
<1>2. /\ passes[1].new \in SUBSET Elements /\ passes[1].whole \in BOOLEAN
      /\ Tail(passes) \in Seq(Ranges!Pass) /\ Len(Tail(passes)) = Len(passes) - 1
      /\ Len(passes) \in Nat \ {0}
  BY <1>1, PassParts DEF RangesInv
<1>3. RangeTypes'
  BY <1>1, <1>2, Interfaces DEF RangesInv, RangeTypes, Ranges!RangeTypeOK
<1>4. ASSUME ~overtaken' PROVE Followed'
  <2>1. Followed /\ Len(passes) = 1
    BY <1>1, <1>2, <1>4 DEF RangesInv, Followed
  <2>2. passes' = << >> /\ Len(passes') <= 1
    BY <1>1, <1>2, <2>1, EmptySeq
  <2>3. ~Ranges!In("visit")' /\ ~Ranges!In("exit")' /\ ~Ranges!In("visit")
    BY <1>1, <2>2 DEF Ranges!In
  <2>4. VisibleKnown' /\ VisibleLeave'
    BY <1>1, <2>1, <2>3 DEF Followed, VisibleKnown, VisibleLeave
  <2>5. PathsCount' => PathsCount
    BY <1>1, <2>3 DEF PathsCount
  <2>6. PathsKnown' /\ OthersGetNone'
    BY <1>1, <2>1, <2>3, <2>5 DEF Followed, PathsKnown, OthersGetNone, ToVisit
  <2> QED
    BY <2>1, <2>2, <2>4, <2>6 DEF Followed
<1> QED
  BY <1>3, <1>4 DEF RangesInv

\* A map is deployed under a pass, or between passes: then nothing is remembered
\* of index paths.
LEMMA DeployTracks ==
  ASSUME RangesInv, Ranges!RangeDidUpdate
  PROVE  RangesInv'
<1>1. /\ rangeIsValid' = FALSE /\ overtaken' = (overtaken \/ passes # << >>)
      /\ UNCHANGED <<interface, visibleNodes, previousPaths, passes>>
  BY DEF Ranges!RangeDidUpdate
<1>2. RangeTypes'
  BY <1>1, Interfaces DEF RangesInv, RangeTypes, Ranges!RangeTypeOK
<1>3. ASSUME ~overtaken' PROVE Followed'
  <2>1. Followed /\ passes = << >> /\ passes' = << >>
    BY <1>1, <1>3 DEF RangesInv
  <2>2. ~Ranges!In("visit")' /\ ~Ranges!In("exit")'
    BY <2>1 DEF Ranges!In
  <2>3. Len(passes') <= 1 /\ VisibleKnown'
    BY <1>1, <2>1 DEF Followed, VisibleKnown
  <2> QED
    BY <1>1, <2>2, <2>3 DEF Followed, VisibleLeave, PathsKnown, PathsCount, OthersGetNone, ToVisit
<1> QED
  BY <1>2, <1>3 DEF RangesInv

LEMMA ClearTracks ==
  ASSUME RangesInv, maps'[visible'] = maps[visible], maps[visible] \in Seq(Elements),
         NEW n \in Elements, Ranges!ClearNode(n)
  PROVE  RangesInv'
<1>1. /\ interface' = [interface EXCEPT ![n] = "none"]
      /\ UNCHANGED <<visibleNodes, previousPaths, rangeIsValid, passes, overtaken>>
  BY DEF Ranges!ClearNode
<1>2. /\ interface' \in [Elements -> Ranges!States]
      /\ \A m \in Elements : interface'[m] = interface[m] \/ interface'[m] = "none"
  BY <1>1, Interfaces DEF RangesInv, Ranges!States
<1>3. RangeTypes'
  BY <1>1, <1>2 DEF RangesInv, RangeTypes, Ranges!RangeTypeOK
<1>4. ASSUME ~overtaken' PROVE Followed'
  <2>1. Followed
    BY <1>1, <1>4 DEF RangesInv
  <2>2. \A p \in DOMAIN maps[visible] : maps[visible][p] \in Elements
    BY LenProperties, ElementOfSeq
  <2>3. \A ph : Ranges!In(ph)' <=> Ranges!In(ph)
    BY <1>1 DEF Ranges!In
  <2>4. VisibleKnown' /\ VisibleLeave'
    BY <1>1, <1>2, <2>1, <2>3 DEF Followed, VisibleKnown, VisibleLeave
  <2>5. PathsKnown' /\ OthersGetNone'
    BY <1>1, <1>2, <2>1, <2>2, <2>3
    DEF Followed, PathsKnown, PathsCount, OthersGetNone, ToVisit
  <2> QED
    BY <1>1, <2>1, <2>4, <2>5 DEF Followed
<1> QED
  BY <1>3, <1>4 DEF RangesInv

LEMMA KeptTracks ==
  ASSUME RangesInv, UNCHANGED rangeVars, maps'[visible'] = maps[visible]
  PROVE  RangesInv'
<1>1. UNCHANGED <<interface, visibleNodes, previousPaths, rangeIsValid, passes, overtaken>>
  BY DEF rangeVars
<1>2. RangeTypes'
  BY <1>1 DEF RangesInv, RangeTypes, Ranges!RangeTypeOK
<1>3. \A ph : Ranges!In(ph)' <=> Ranges!In(ph)
  BY <1>1 DEF Ranges!In
<1>4. Followed => Followed'
  BY <1>1, <1>3
  DEF Followed, VisibleKnown, VisibleLeave, PathsKnown, PathsCount, OthersGetNone, ToVisit
<1> QED
  BY <1>1, <1>2, <1>4 DEF RangesInv

\* What the run checks.
LEMMA FollowedTracks == RangesInv => RangesTracked
<1> SUFFICES ASSUME RangesInv, ~overtaken PROVE RangesTracked
  BY DEF RangesTracked
<1>1. Followed /\ passes \in Seq(Ranges!Pass)
  BY Interfaces DEF RangesInv
<1>2. passes # << >> => 1 \in DOMAIN passes
  BY <1>1, EmptySeq, LenProperties
<1>3. ASSUME NEW n \in Elements, interface[n] = "visible"
      PROVE  n \in visibleNodes \/ \E i \in DOMAIN passes : n \in passes[i].new
  BY <1>1, <1>2, <1>3 DEF Followed, VisibleKnown
<1>4. rangeIsValid => PathsCount
  BY DEF PathsCount
<1> QED
  BY <1>1, <1>3, <1>4 DEF RangesTracked, Followed, PathsKnown, ToVisit

-----------------------------------------------------------------------------
CollectionInv == DataInv /\ TraitsInv /\ MapsDistinct /\ RangesInv

LEMMA CollectionInit == Init => CollectionInv
<1> SUFFICES ASSUME Init PROVE CollectionInv
  OBVIOUS
<1>1. DataInv /\ TraitsInv
  BY InitOK, InitTraits DEF Init
<1>2. maps = << << >> >> /\ Newest = 1 /\ maps[1] = << >> /\ visible = 1
  BY DEF Init, DataInit, Newest
<1>3. Distinct(maps[1])
  BY <1>2 DEF Distinct
<1>4. MapsDistinct
  BY <1>2, <1>3 DEF MapsDistinct
<1>5. RangesInv
  <2>1. /\ interface = [n \in Elements |-> "none"] /\ visibleNodes = {}
        /\ previousPaths = {} /\ rangeIsValid = TRUE /\ passes = << >> /\ overtaken = FALSE
    BY DEF Init, Ranges!RangeInit
  <2>2. DOMAIN maps[visible] = {}
    BY <1>2
  <2>3. RangeTypes
    <3>1. interface \in [Elements -> Ranges!States] /\ passes \in Seq(Ranges!Pass)
      BY <2>1, "none" \in Ranges!States DEF Ranges!States
    <3> QED
      BY <2>1, <3>1 DEF RangeTypes, Ranges!RangeTypeOK
  <2>4. \A ph : ~Ranges!In(ph)
    BY <2>1 DEF Ranges!In
  <2>5. Followed
    BY <2>1, <2>2, <2>4 DEF Followed, VisibleKnown, VisibleLeave, PathsKnown, OthersGetNone
  <2> QED
    BY <2>3, <2>5 DEF RangesInv
<1> QED
  BY <1>1, <1>4, <1>5 DEF CollectionInv

LEMMA CollectionStep ==
  ASSUME CollectionInv, [Next]_vars
  PROVE  CollectionInv'
<1> USE DEF CollectionInv
<1>1. [DataNext]_dcVars
  BY DataPart
<1>2. DataInv' /\ TraitsInv' /\ MapsDistinct'
  BY <1>1, StepOK, StepTraits, DistinctStep
<1>3. maps[visible] \in Seq(Elements) /\ Distinct(maps[visible])
  <2>1. maps \in Seq(Map) /\ visible \in 1 .. Newest
    BY Types DEF DataInv
  <2> QED
    BY <2>1, ElementOfSeq DEF Map, Newest, MapsDistinct
<1>4. visible' = visible => maps'[visible'] = maps[visible]
  BY <1>1, VisibleMapStays
<1>5. CASE UNCHANGED vars
  BY <1>4, <1>5, KeptTracks, <1>2 DEF vars, dcVars
<1>6. CASE DataStep
  <2>1. visible' = visible
    BY <1>6 DEF DataStep, Calls, MainSteps, UpdateWithChangeSet, ScheduleBlock, ChangeEnvironment,
       ChangeEnvironmentOffMain, BailOut, UpdateEmpty, UpdatePending, PerformScheduled,
       RunDispatched, RunEnvironmentDidChange, DrainEnds, BlockReturns, RunScheduled, PrepareNodes
  <2> QED
    BY <1>2, <1>4, <1>6, <2>1, KeptTracks DEF DataStep
<1>7. CASE WillUpdate
  <2>1. PICK i \in DOMAIN blocks :
          /\ TellWillUpdate(i)
          /\ IF blocks[i].reload THEN Ranges!SetNoneVisible ELSE UNCHANGED rangeVars
    BY <1>7 DEF WillUpdate
  <2>2. maps'[visible'] = maps[visible]
    BY <1>4, <2>1 DEF TellWillUpdate
  <2> QED
    BY <1>2, <2>1, <2>2, NoneTracks, KeptTracks
<1>8. CASE DidUpdate
  BY <1>2, <1>8, DeployTracks DEF DidUpdate
<1>9. CASE UpdateRanges
  <2>1. maps'[visible'] = maps[visible]
    BY <1>4, <1>9 DEF UpdateRanges, BeginRange
  <2> QED
    BY <1>2, <1>3, <1>9, <2>1, NoneTracks, UpdateTracks DEF UpdateRanges
<1>10. CASE RangeStep
  <2>1. maps'[visible'] = maps[visible]
    BY <1>4, <1>10 DEF RangeStep, NodeStep, RangeGoesOn, EndRange
  <2>2. CASE NodeStep
    <3>1. PICK n \in Elements : Ranges!Visit(n) \/ Ranges!ExitVisible(n)
      BY <2>2 DEF NodeStep
    <3> QED
      BY <1>2, <1>3, <2>1, <3>1, VisitTracks, ExitTracks
  <2>3. CASE Ranges!VisitsEnd
    BY <1>2, <1>3, <2>1, <2>3, VisitsEndTracks
  <2>4. CASE Ranges!SetVisibleNodes
    BY <1>2, <2>1, <2>4, SetTracks
  <2> QED
    BY <1>10, <2>2, <2>3, <2>4 DEF RangeStep
<1>11. CASE ClearRanges
  <2>1. PICK n \in Elements : Ranges!ClearNode(n)
    BY <1>11 DEF ClearRanges
  <2>2. maps'[visible'] = maps[visible]
    BY <1>4, <1>11 DEF ClearRanges, dcVars
  <2> QED
    BY <1>2, <1>3, <2>1, <2>2, ClearTracks
<1> QED
  BY <1>5, <1>6, <1>7, <1>8, <1>9, <1>10, <1>11 DEF Next

\* All parts of the invariant hold together.
THEOREM CollectionInvariant == Spec => []CollectionInv
<1>1. CollectionInv /\ [Next]_vars => CollectionInv'
  BY CollectionStep
<1> QED
  BY CollectionInit, <1>1, PTL DEF Spec

\* Data controller and range controller keep their types, wherever clients call back.
THEOREM CollectionTypeCorrect == Spec => []TypeOK
<1>1. CollectionInv => TypeOK
  BY DEF CollectionInv, DataInv, RangesInv, RangeTypes, TypeOK
<1> QED
  BY CollectionInvariant, <1>1, PTL

\* However index paths are shifted by change sets between two updates, no node is
\* left in a range that the next update does not visit (ASRangeController.mm:294-303),
\* until an update is overtaken from a node's hook.
THEOREM NodesTracked == Spec => []RangesTracked
<1>1. CollectionInv => RangesTracked
  BY FollowedTracks DEF CollectionInv
<1> QED
  BY CollectionInvariant, <1>1, PTL
=============================================================================
