-------------------------- MODULE ChangeSetProofs --------------------------
(***************************************************************************)
(* What is accepted fits the data source, and the updated map is the one   *)
(* that UIKit's reading of the changes gives, for any numbers of sections, *)
(* items and changes.                                                      *)
(***************************************************************************)
EXTENDS ChangeSet, FiniteSetTheorems, SequenceTheorems, WellFoundedInduction, TLAPS

-----------------------------------------------------------------------------
(* Induction on a number, over sets of numbers.                            *)

LEMMA LeastNumber ==
  ASSUME NEW S \in SUBSET Nat, S # {}
  PROVE  \E n \in S : \A m \in S : n <= m
<1>1. PICK n \in S : \A m \in S : ~ (<<m, n>> \in OpToRel(<, Nat))
  BY WFMin, NatLessThanWellFounded
<1>2. \A m \in S : ~ (m < n)
  BY <1>1 DEF OpToRel
<1> QED
  BY <1>2

LEMMA NatBySuccessor ==
  ASSUME NEW S \in SUBSET Nat, 0 \in S, \A n \in S : n + 1 \in S
  PROVE  S = Nat
<1>1. ASSUME Nat \ S # {} PROVE FALSE
  <2>1. PICK n \in Nat \ S : \A m \in Nat \ S : n <= m
    BY <1>1, LeastNumber
  <2>2. n # 0 /\ n - 1 \in S
    BY <2>1
  <2> QED
    BY <2>1, <2>2
<1> QED
  BY <1>1

-----------------------------------------------------------------------------
(* How many of a set of indexes are below one.                             *)

Indexes(S) == S \in SUBSET (Nat \ {0}) /\ IsFiniteSet(S)

LEMMA BelowType ==
  ASSUME NEW S, Indexes(S), NEW n \in Nat
  PROVE  /\ Below(S, n) \in Nat /\ Below(S, n) <= Cardinality(S)
         /\ Cardinality(S) \in Nat
         /\ Below(S, 0) = 0 /\ Below(S, 1) = 0
<1>1. IsFiniteSet(S)
  BY DEF Indexes
<1>2. {i \in S : i < n} \in SUBSET S
  OBVIOUS
<1>3. {i \in S : i < 0} = {} /\ {i \in S : i < 1} = {}
  <2>1. \A i \in S : i \in Nat /\ i # 0
    BY DEF Indexes
  <2> QED
    BY <2>1
<1> QED
  BY <1>1, <1>2, <1>3, FS_Subset, FS_CardinalityType, FS_EmptySet DEF Below

LEMMA BelowNext ==
  ASSUME NEW S, Indexes(S), NEW n \in Nat
  PROVE  Below(S, n + 1) = Below(S, n) + IF n \in S THEN 1 ELSE 0
<1> DEFINE B == {i \in S : i < n}
<1>1. IsFiniteSet(B) /\ n \notin B
  <2>1. B \in SUBSET S
    OBVIOUS
  <2> QED
    BY <2>1, FS_Subset DEF Indexes
<1>2. {i \in S : i < n + 1} = IF n \in S THEN B \cup {n} ELSE B
  <2>1. \A i \in S : i \in Nat /\ (i < n + 1 <=> i < n \/ i = n)
    BY DEF Indexes
  <2> QED
    BY <2>1
<1>3. Cardinality(B) \in Nat /\ Cardinality(B \cup {n}) = Cardinality(B) + 1
  BY <1>1, FS_AddElement, FS_CardinalityType
<1> QED
  BY <1>2, <1>3 DEF Below

\* From one index to a later one the count grows by what is between.
LEMMA BelowGap ==
  ASSUME NEW S, Indexes(S), NEW m \in Nat, NEW n \in Nat, m <= n
  PROVE  /\ Below(S, m) <= Below(S, n)
         /\ Below(S, n) - Below(S, m) <= n - m
         /\ m \notin S /\ m < n => Below(S, n) - Below(S, m) <= n - m - 1
<1> DEFINE Gap(k) == /\ Below(S, m) <= Below(S, m + k)
                     /\ Below(S, m + k) - Below(S, m) <= k
                     /\ m \notin S /\ 0 < k => Below(S, m + k) - Below(S, m) <= k - 1
           T == {k \in Nat : Gap(k)}
<1>1. 0 \in T
  BY BelowType
<1>2. ASSUME NEW k \in Nat, Gap(k) PROVE Gap(k + 1)
  <2>1. Below(S, m + (k + 1)) = Below(S, m + k) + IF m + k \in S THEN 1 ELSE 0
    BY BelowNext, m + k \in Nat, m + (k + 1) = (m + k) + 1
  <2>2. Below(S, m) \in Nat /\ Below(S, m + k) \in Nat
    BY BelowType
  <2>3. k = 0 => m + k = m
    OBVIOUS
  <2> QED
    BY <1>2, <2>1, <2>2, <2>3
<1>3. T = Nat
  <2>1. \A k \in T : k + 1 \in T
    BY <1>2
  <2> HIDE DEF T
  <2>2. T \in SUBSET Nat
    BY DEF T
  <2> QED
    BY <1>1, <2>1, <2>2, NatBySuccessor
<1>4. Gap(n - m)
  <2>1. (\A k \in T : Gap(k)) /\ n - m \in Nat
    OBVIOUS
  <2> HIDE DEF T, Gap
  <2> QED
    BY <1>3, <2>1
<1> QED
  BY <1>4, m + (n - m) = n

LEMMA BelowAll ==
  ASSUME NEW S, Indexes(S), NEW n \in Nat, \A i \in S : i <= n
  PROVE  Below(S, n + 1) = Cardinality(S)
<1>1. {i \in S : i < n + 1} = S
  <2>1. \A i \in S : i \in Nat /\ i < n + 1
    BY DEF Indexes
  <2> QED
    BY <2>1
<1> QED
  BY <1>1 DEF Below

LEMMA BelowUnion ==
  ASSUME NEW S, Indexes(S), NEW T, Indexes(T), S \cap T = {}, NEW n \in Nat
  PROVE  /\ Indexes(S \cup T)
         /\ Cardinality(S \cup T) = Cardinality(S) + Cardinality(T)
         /\ Below(S \cup T, n) = Below(S, n) + Below(T, n)
<1> DEFINE BS == {i \in S : i < n}
           BT == {i \in T : i < n}
<1>1. IsFiniteSet(S) /\ IsFiniteSet(T) /\ BS \in SUBSET S /\ BT \in SUBSET T
  BY DEF Indexes
<1>2. IsFiniteSet(BS) /\ IsFiniteSet(BT)
  BY <1>1, FS_Subset
<1>3. BS \cap BT = {} /\ {i \in S \cup T : i < n} = BS \cup BT
  OBVIOUS
<1>4. \A U, V : IsFiniteSet(U) /\ IsFiniteSet(V) /\ U \cap V = {} =>
                  /\ IsFiniteSet(U \cup V)
                  /\ Cardinality(U \cup V) = Cardinality(U) + Cardinality(V)
  <2> SUFFICES ASSUME NEW U, NEW V, IsFiniteSet(U), IsFiniteSet(V), U \cap V = {}
               PROVE  /\ IsFiniteSet(U \cup V)
                      /\ Cardinality(U \cup V) = Cardinality(U) + Cardinality(V)
    OBVIOUS
  <2>1. Cardinality(U) \in Nat /\ Cardinality(V) \in Nat
    BY FS_CardinalityType
  <2>2. Cardinality(U \cap V) = 0
    BY FS_EmptySet
  <2>3. /\ IsFiniteSet(U \cup V)
        /\ Cardinality(U \cup V) = Cardinality(U) + Cardinality(V) - Cardinality(U \cap V)
    BY FS_Union
  <2> QED
    BY <2>1, <2>2, <2>3
<1>5. Cardinality(S \cup T) = Cardinality(S) + Cardinality(T) /\ IsFiniteSet(S \cup T)
  BY <1>1, <1>4
<1>6. Cardinality(BS \cup BT) = Cardinality(BS) + Cardinality(BT)
  BY <1>2, <1>3, <1>4
<1> QED
  BY <1>3, <1>5, <1>6 DEF Below, Indexes

-----------------------------------------------------------------------------
(* Where an index goes to.                                                 *)

\* The index that the one before is moved to, whatever stands there.
Moved(deleted, inserted, before, after) ==
  after \notin inserted /\ before - Below(deleted, before) = after - Below(inserted, after)

\* The recursion of indexChangeByInsertingItemsBelowIndex.
LEMMA NewIndexDefined ==
  ASSUME NEW inserted, Indexes(inserted), NEW index \in Nat
  PROVE  \E new :
           LET last == index + Cardinality(inserted)
           IN  /\ last \in Nat
               /\ new[0] = index
               /\ \A n \in 0 .. last - 1 :
                    new[n + 1] = IF n + 1 \in inserted /\ n + 1 <= new[n] THEN new[n] + 1 ELSE new[n]
               /\ indexChangeByInsertingItemsBelowIndex(inserted, index) = new[last] - index
<1> DEFINE last == index + Cardinality(inserted)
           Value(g, n) == IF n = 0 THEN index
                          ELSE IF n \in inserted /\ n <= g[n - 1] THEN g[n - 1] + 1
                          ELSE g[n - 1]
           Defines(g, m) == g = [n \in 0 .. m |-> Value(g, n)]
           T == {m \in Nat : \E g : Defines(g, m)}
<1>1. 0 \in T
  <2>1. Defines([n \in 0 .. 0 |-> index], 0)
    OBVIOUS
  <2> QED
    BY <2>1
<1>2. ASSUME NEW m \in T PROVE m + 1 \in T
  <2>1. PICK g : Defines(g, m)
    OBVIOUS
  <2> DEFINE h == [n \in 0 .. m + 1 |-> IF n = m + 1 THEN Value(g, m + 1) ELSE g[n]]
  <2>2. \A n \in 0 .. m : h[n] = g[n]
    OBVIOUS
  <2>3. \A n \in 0 .. m + 1 : h[n] = Value(h, n)
    <3>1. h[m + 1] = Value(h, m + 1)
      BY <2>2
    <3>2. ASSUME NEW n \in 0 .. m PROVE h[n] = Value(h, n)
      <4>1. g[n] = Value(g, n)
        BY <2>1
      <4>2. n # 0 => n - 1 \in 0 .. m
        OBVIOUS
      <4> QED
        BY <2>2, <4>1, <4>2
    <3>3. \A n \in 0 .. m + 1 : n = m + 1 \/ n \in 0 .. m
      OBVIOUS
    <3> HIDE DEF h, Value
    <3> QED
      BY <3>1, <3>2, <3>3
  <2>4. Defines(h, m + 1)
    BY <2>3
  <2>5. m + 1 \in Nat
    OBVIOUS
  <2> HIDE DEF h, Defines
  <2> QED
    BY <2>4, <2>5
<1>3. last \in Nat /\ last \in T
  <2>1. last \in Nat
    BY FS_CardinalityType DEF Indexes
  <2>2. T \in SUBSET Nat
    OBVIOUS
  <2> HIDE DEF T
  <2> QED
    BY <1>1, <1>2, <2>1, <2>2, NatBySuccessor
<1>4. PICK g : Defines(g, last)
  BY <1>3
<1> DEFINE new == CHOOSE f : Defines(f, last)
<1>5. Defines(new, last)
  BY <1>4
<1>6. indexChangeByInsertingItemsBelowIndex(inserted, index) = new[last] - index
  BY DEF indexChangeByInsertingItemsBelowIndex
<1>7. new[0] = index
  BY <1>3, <1>5
<1>8. ASSUME NEW n \in 0 .. last - 1
      PROVE  new[n + 1] = IF n + 1 \in inserted /\ n + 1 <= new[n] THEN new[n] + 1 ELSE new[n]
  <2>1. n + 1 \in 0 .. last /\ (n + 1) - 1 = n /\ n + 1 # 0
    BY <1>3
  <2>2. new[n + 1] = Value(new, n + 1)
    BY <1>5, <2>1
  <2> QED
    BY <2>1, <2>2
<1> HIDE DEF new
<1> QED
  BY <1>3, <1>6, <1>7, <1>8

\* The loop stops moving the index at the first place that is not inserted.
LEMMA IndexChangeMoves ==
  ASSUME NEW inserted, Indexes(inserted), NEW index \in Nat \ {0}, NEW after,
         after = index + indexChangeByInsertingItemsBelowIndex(inserted, index)
  PROVE  /\ after \in Nat \ {0} /\ after \notin inserted
         /\ after = index + Below(inserted, after)
<1> DEFINE last == index + Cardinality(inserted)
<1>1. PICK new :
        /\ last \in Nat
        /\ new[0] = index
        /\ \A n \in 0 .. last - 1 :
             new[n + 1] = IF n + 1 \in inserted /\ n + 1 <= new[n] THEN new[n] + 1 ELSE new[n]
        /\ indexChangeByInsertingItemsBelowIndex(inserted, index) = new[last] - index
  BY NewIndexDefined
<1> DEFINE Inv(n) == /\ new[n] \in Nat \ {0}
                     /\ \/ n < new[n] /\ new[n] = index + Below(inserted, n + 1)
                        \/ /\ new[n] <= n /\ new[n] \notin inserted
                           /\ new[n] = index + Below(inserted, new[n])
           T == {n \in Nat : n <= last => Inv(n)}
<1>2. 0 \in T
  BY <1>1, BelowType
<1>3. ASSUME NEW n \in Nat, n + 1 <= last, Inv(n) PROVE Inv(n + 1)
  <2>1. new[n + 1] = IF n + 1 \in inserted /\ n + 1 <= new[n] THEN new[n] + 1 ELSE new[n]
    BY <1>1, <1>3
  <2>2. Below(inserted, n + 2) = Below(inserted, n + 1) + IF n + 1 \in inserted THEN 1 ELSE 0
    BY BelowNext, n + 1 \in Nat, (n + 1) + 1 = n + 2
  <2>3. Below(inserted, n + 1) \in Nat
    BY BelowType
  <2>4. CASE new[n] <= n
    BY <1>3, <2>1, <2>4
  <2>5. CASE n < new[n] /\ n + 1 \in inserted
    BY <1>3, <2>1, <2>2, <2>3, <2>5
  <2>6. CASE n < new[n] /\ n + 1 \notin inserted
    <3>1. new[n + 1] = new[n] /\ Below(inserted, n + 2) = Below(inserted, n + 1)
      BY <2>1, <2>2, <2>3, <2>6
    <3>2. CASE new[n] = n + 1
      BY <1>3, <2>6, <3>1, <3>2
    <3>3. CASE n + 1 < new[n]
      BY <1>3, <2>6, <3>1, <3>3
    <3> QED
      BY <1>3, <2>6, <3>2, <3>3
  <2> QED
    BY <1>3, <2>4, <2>5, <2>6
<1>4. T = Nat
  <2>1. \A n \in T : n + 1 \in T
    BY <1>1, <1>3
  <2>2. T \in SUBSET Nat
    OBVIOUS
  <2> HIDE DEF T
  <2> QED
    BY <1>2, <2>1, <2>2, NatBySuccessor
<1>5. Inv(last)
  <2>1. \A n \in T : n <= last => Inv(n)
    OBVIOUS
  <2> HIDE DEF T, Inv
  <2> QED
    BY <1>1, <1>4, <2>1
<1>6. Below(inserted, last + 1) <= Cardinality(inserted) /\ Cardinality(inserted) \in Nat
      /\ Below(inserted, last + 1) \in Nat
  BY <1>1, BelowType
<1>7. after = new[last]
  BY <1>1, <1>5
<1> QED
  BY <1>1, <1>5, <1>6, <1>7

LEMMA ShiftMoves ==
  ASSUME NEW D, Indexes(D), NEW I, Indexes(I), NEW before \in Nat \ {0}
  PROVE  Shift(D, I, before) \in Nat \ {0} /\ Moved(D, I, before, Shift(D, I, before))
<1> DEFINE left == before - Below(D, before)
<1>1. left \in Nat \ {0}
  <2>1. Below(D, before) - Below(D, 1) <= before - 1
    BY BelowGap
  <2>2. Below(D, before) \in Nat /\ Below(D, 1) = 0
    BY BelowType
  <2> QED
    BY <2>1, <2>2
<1>2. Shift(D, I, before) = left + indexChangeByInsertingItemsBelowIndex(I, left)
  BY DEF Shift
<1> HIDE DEF left
<1>3. /\ Shift(D, I, before) \in Nat \ {0} /\ Shift(D, I, before) \notin I
      /\ Shift(D, I, before) = left + Below(I, Shift(D, I, before))
  BY <1>1, <1>2, IndexChangeMoves
<1>4. Below(I, Shift(D, I, before)) \in Nat
  BY <1>3, BelowType
<1> QED
  BY <1>1, <1>3, <1>4 DEF Moved, left

\* What is kept is in order.
LEMMA KeptInOrder ==
  ASSUME NEW D, Indexes(D), NEW m \in Nat \ D, NEW n \in Nat, m < n
  PROVE  m - Below(D, m) < n - Below(D, n)
<1>1. Below(D, n) - Below(D, m) <= n - m - 1
  BY BelowGap
<1>2. Below(D, m) \in Nat /\ Below(D, n) \in Nat
  BY BelowType
<1> QED
  BY <1>1, <1>2

\* newSectionForOldSection: and its like for items, deletes taken off and inserts
\* counted in, give the place that UIKit gives, whatever the deletes and inserts:
\* only what is deleted has none.
THEOREM PartnerIsShift ==
  ASSUME NEW D, Indexes(D), NEW I, Indexes(I),
         NEW before \in Nat \ {0}, NEW after \in Nat \ {0}
  PROVE  Partner(D, I, before, after) <=> before \notin D /\ after = Shift(D, I, before)
<1> DEFINE to == Shift(D, I, before)
<1>1. /\ to \in Nat \ {0} /\ to \notin I
      /\ before - Below(D, before) = to - Below(I, to)
  BY ShiftMoves DEF Moved
<1> HIDE DEF to
<1>2. ASSUME after \notin I, after - Below(I, after) = to - Below(I, to) PROVE after = to
  <2>1. after < to => after - Below(I, after) < to - Below(I, to)
    BY <1>1, <1>2, KeptInOrder
  <2>2. to < after => to - Below(I, to) < after - Below(I, after)
    BY <1>1, <1>2, KeptInOrder
  <2>3. Below(I, after) \in Nat /\ Below(I, to) \in Nat
    BY <1>1, BelowType
  <2> QED
    BY <1>1, <1>2, <2>1, <2>2, <2>3
<1> QED
  BY <1>1, <1>2 DEF Partner, to

LEMMA ShiftInOrder ==
  ASSUME NEW D, Indexes(D), NEW I, Indexes(I),
         NEW m \in Nat \ {0}, NEW n \in Nat \ {0}, m \notin D, n \notin D, m < n
  PROVE  Shift(D, I, m) < Shift(D, I, n)
<1> DEFINE u == Shift(D, I, m)
           v == Shift(D, I, n)
<1>1. /\ u \in Nat \ {0} /\ v \in Nat \ {0} /\ u \notin I /\ v \notin I
      /\ m - Below(D, m) = u - Below(I, u) /\ n - Below(D, n) = v - Below(I, v)
  BY ShiftMoves DEF Moved
<1> HIDE DEF u, v
<1>2. m - Below(D, m) < n - Below(D, n)
  BY KeptInOrder
<1>3. v < u => v - Below(I, v) < u - Below(I, u)
  BY <1>1, KeptInOrder
<1>4. /\ Below(D, m) \in Nat /\ Below(D, n) \in Nat
      /\ Below(I, u) \in Nat /\ Below(I, v) \in Nat
  BY <1>1, BelowType
<1>5. u < v
  BY <1>1, <1>2, <1>3, <1>4
<1> QED
  BY <1>5 DEF u, v

\* What is kept stays within the new count.
LEMMA ShiftWithin ==
  ASSUME NEW D, Indexes(D), NEW I, Indexes(I), NEW n \in Nat, D \subseteq 1 .. n,
         NEW before \in 1 .. n, before \notin D
  PROVE  Shift(D, I, before) \in 1 .. (n - Cardinality(D) + Cardinality(I))
<1> DEFINE to == Shift(D, I, before)
<1>1. /\ to \in Nat \ {0} /\ before - Below(D, before) = to - Below(I, to)
  BY ShiftMoves DEF Moved
<1> HIDE DEF to
<1>2. Below(D, n + 1) = Cardinality(D)
  <2>1. \A i \in D : i <= n
    OBVIOUS
  <2> QED
    BY <2>1, BelowAll
<1>3. Below(D, n + 1) - Below(D, before) <= (n + 1) - before - 1
  BY BelowGap
<1>4. /\ Below(I, to) \in Nat /\ Below(I, to) <= Cardinality(I) /\ Below(D, before) \in Nat
      /\ Cardinality(I) \in Nat /\ Cardinality(D) \in Nat
  BY <1>1, BelowType
<1>5. to \in 1 .. (n - Cardinality(D) + Cardinality(I))
  BY <1>1, <1>2, <1>3, <1>4
<1> QED
  BY <1>5 DEF to

\* Every place that is not inserted is that of something kept.
\* Deletes from n things and inserts that make them m.
Balanced(D, I, n, m) ==
  /\ Indexes(D) /\ Indexes(I) /\ n \in Nat /\ m \in Nat
  /\ D \subseteq 1 .. n /\ I \subseteq 1 .. m /\ m = n - Cardinality(D) + Cardinality(I)

LEMMA ShiftOnto ==
  ASSUME NEW D, NEW I, NEW n, NEW m, Balanced(D, I, n, m), NEW after \in (1 .. m) \ I
  PROVE  \E before \in 1 .. n : before \notin D /\ after = Shift(D, I, before)
<1> USE DEF Balanced
<1> DEFINE from == Shift(I, D, after)
<1>1. /\ from \in Nat \ {0} /\ from \notin D
      /\ after - Below(I, after) = from - Below(D, from)
  BY ShiftMoves DEF Moved
<1>2. from \in 1 .. (m - Cardinality(I) + Cardinality(D))
  BY ShiftWithin
<1>3. Cardinality(I) \in Nat /\ Cardinality(D) \in Nat
  BY BelowType
<1> HIDE DEF from
<1>4. from \in 1 .. n
  BY <1>2, <1>3
<1>5. Partner(D, I, from, after)
  BY <1>1 DEF Partner
<1>6. from \notin D /\ after = Shift(D, I, from)
  BY <1>1, <1>5, PartnerIsShift
<1> QED
  BY <1>4, <1>6

-----------------------------------------------------------------------------
(* A reload is a delete and an insert that move nothing else.              *)

LEMMA ImageSize ==
  ASSUME NEW S, IsFiniteSet(S), NEW f, DOMAIN f = S,
         \A x, y \in S : f[x] = f[y] => x = y
  PROVE  /\ IsFiniteSet({f[x] : x \in S})
         /\ Cardinality({f[x] : x \in S}) = Cardinality(S)
<1> DEFINE T == {f[x] : x \in S}
<1>1. [x \in S |-> f[x]] \in Bijection(S, T)
  BY DEF Bijection, Injection, Surjection, IsInjective
<1>2. ExistsBijection(S, T)
  BY <1>1 DEF ExistsBijection
<1> QED
  BY <1>2, FS_Bijection

Image(D, I, R) == {Shift(D, I, r) : r \in R}

LEMMA ImageIndexes ==
  ASSUME NEW D, Indexes(D), NEW I, Indexes(I), NEW R, Indexes(R), R \cap D = {}
  PROVE  /\ Indexes(Image(D, I, R)) /\ I \cap Image(D, I, R) = {}
         /\ Cardinality(Image(D, I, R)) = Cardinality(R)
<1> DEFINE f == [r \in R |-> Shift(D, I, r)]
<1>1. \A r \in R : r \in Nat \ {0} /\ r \notin D
  BY DEF Indexes
<1>2. \A r \in R : f[r] \in Nat \ {0} /\ f[r] \notin I
  BY <1>1, ShiftMoves DEF Moved
<1>3. ASSUME NEW x \in R, NEW y \in R, f[x] = f[y] PROVE x = y
  <2>1. x < y => Shift(D, I, x) < Shift(D, I, y)
    BY <1>1, ShiftInOrder
  <2>2. y < x => Shift(D, I, y) < Shift(D, I, x)
    BY <1>1, ShiftInOrder
  <2> QED
    BY <1>1, <1>2, <1>3, <2>1, <2>2
<1>4. Image(D, I, R) = {f[r] : r \in R} /\ DOMAIN f = R
  BY DEF Image
<1> HIDE DEF f
<1>5. \A i \in Image(D, I, R) : i \in Nat \ {0} /\ i \notin I
  BY <1>2, <1>4
<1>6. /\ IsFiniteSet(Image(D, I, R))
      /\ Cardinality(Image(D, I, R)) = Cardinality(R)
  <2>1. IsFiniteSet(R)
    BY DEF Indexes
  <2> QED
    BY <1>3, <1>4, <2>1, ImageSize
<1> QED
  BY <1>5, <1>6 DEF Indexes

LEMMA BelowImage ==
  ASSUME NEW D, Indexes(D), NEW I, Indexes(I), NEW R, Indexes(R), R \cap D = {},
         NEW n \in Nat \ {0}, n \notin D
  PROVE  Below(Image(D, I, R), Shift(D, I, n)) = Below(R, n)
<1> DEFINE S == {r \in R : r < n}
           f == [r \in S |-> Shift(D, I, r)]
<1>1. \A r \in R : r \in Nat \ {0} /\ r \notin D
  BY DEF Indexes
<1>2. \A r \in R : Shift(D, I, r) \in Nat /\ Shift(D, I, n) \in Nat
  BY <1>1, ShiftMoves
<1>3. ASSUME NEW r \in R PROVE Shift(D, I, r) < Shift(D, I, n) <=> r < n
  <2>1. r < n => Shift(D, I, r) < Shift(D, I, n)
    BY <1>1, ShiftInOrder
  <2>2. n < r => Shift(D, I, n) < Shift(D, I, r)
    BY <1>1, ShiftInOrder
  <2> QED
    BY <1>1, <1>2, <2>1, <2>2
<1>4. {i \in Image(D, I, R) : i < Shift(D, I, n)} = {f[r] : r \in S}
  BY <1>3 DEF Image
<1>5. ASSUME NEW x \in S, NEW y \in S, f[x] = f[y] PROVE x = y
  <2>1. x < y => Shift(D, I, x) < Shift(D, I, y)
    BY <1>1, ShiftInOrder
  <2>2. y < x => Shift(D, I, y) < Shift(D, I, x)
    BY <1>1, ShiftInOrder
  <2> QED
    BY <1>1, <1>2, <1>5, <2>1, <2>2
<1>6. IsFiniteSet(S) /\ DOMAIN f = S
  <2>1. S \in SUBSET R
    OBVIOUS
  <2> QED
    BY <2>1, FS_Subset DEF Indexes
<1>7. Cardinality({f[r] : r \in S}) = Cardinality(S)
  <2> HIDE DEF f, S
  <2> QED
    BY <1>5, <1>6, ImageSize
<1> QED
  BY <1>4, <1>7 DEF Below

\* With a reload counted as a delete and an insert, nothing else is moved further.
LEMMA ReloadsMoveNothing ==
  ASSUME NEW D, Indexes(D), NEW I, Indexes(I), NEW R, Indexes(R), R \cap D = {},
         NEW n \in Nat \ {0}, n \notin D, n \notin R
  PROVE  Shift(D \cup R, I \cup Image(D, I, R), n) = Shift(D, I, n)
<1> DEFINE J == Image(D, I, R)
           to == Shift(D, I, n)
<1>1. Indexes(J) /\ I \cap J = {}
  BY ImageIndexes
<1>2. /\ to \in Nat \ {0} /\ to \notin I
      /\ n - Below(D, n) = to - Below(I, to)
  BY ShiftMoves DEF Moved
<1>3. to \notin J
  <2>1. ASSUME NEW r \in R PROVE to # Shift(D, I, r)
    <3>1. r \in Nat \ {0} /\ r \notin D /\ r # n
      BY DEF Indexes
    <3>2. r < n => Shift(D, I, r) < to
      BY <3>1, ShiftInOrder
    <3>3. n < r => to < Shift(D, I, r)
      BY <3>1, ShiftInOrder
    <3> QED
      BY <1>2, <3>1, <3>2, <3>3
  <2> QED
    BY <2>1 DEF Image
<1>4. Below(J, to) = Below(R, n)
  BY BelowImage
<1> HIDE DEF J, to
<1>5. Indexes(D \cup R) /\ Below(D \cup R, n) = Below(D, n) + Below(R, n)
  BY BelowUnion
<1>6. Indexes(I \cup J) /\ Below(I \cup J, to) = Below(I, to) + Below(J, to)
  BY <1>1, <1>2, BelowUnion
<1>7. /\ Below(D, n) \in Nat /\ Below(R, n) \in Nat
      /\ Below(I, to) \in Nat /\ Below(J, to) \in Nat
  BY <1>1, <1>2, BelowType
<1>8. Partner(D \cup R, I \cup J, n, to)
  BY <1>2, <1>3, <1>4, <1>5, <1>6, <1>7 DEF Partner
<1> QED
  BY <1>2, <1>5, <1>6, <1>8, PartnerIsShift DEF J, to

-----------------------------------------------------------------------------
(* Lists.                                                                  *)

LEMMA RemoveAtIs ==
  ASSUME NEW E, NEW s \in Seq(E), NEW k \in 1 .. Len(s)
  PROVE  /\ RemoveAt(s, k) \in Seq(E) /\ Len(RemoveAt(s, k)) = Len(s) - 1
         /\ \A i \in 1 .. Len(s) - 1 : RemoveAt(s, k)[i] = IF i < k THEN s[i] ELSE s[i + 1]
<1> DEFINE a == SubSeq(s, 1, k - 1)
           b == SubSeq(s, k + 1, Len(s))
<1>1. /\ a \in Seq(E) /\ Len(a) = k - 1 /\ \A i \in 1 .. k - 1 : a[i] = s[i]
  OBVIOUS
<1>2. /\ b \in Seq(E) /\ Len(b) = Len(s) - k /\ \A i \in 1 .. Len(s) - k : b[i] = s[k + i]
  OBVIOUS
<1>3. RemoveAt(s, k) = a \o b
  BY DEF RemoveAt
<1> HIDE DEF a, b
<1>4. /\ a \o b \in Seq(E) /\ Len(a \o b) = Len(s) - 1
      /\ \A i \in 1 .. Len(s) - 1 : (a \o b)[i] = IF i <= k - 1 THEN a[i] ELSE b[i - (k - 1)]
  <2>1. /\ a \o b \in Seq(E) /\ Len(a \o b) = Len(a) + Len(b)
        /\ \A i \in 1 .. Len(a) + Len(b) :
             (a \o b)[i] = IF i <= Len(a) THEN a[i] ELSE b[i - Len(a)]
    BY <1>1, <1>2, ConcatProperties
  <2>2. Len(a) + Len(b) = Len(s) - 1
    BY <1>1, <1>2
  <2> QED
    BY <1>1, <2>1, <2>2
<1>5. ASSUME NEW i \in 1 .. Len(s) - 1
      PROVE  (a \o b)[i] = IF i < k THEN s[i] ELSE s[i + 1]
  <2>1. /\ Len(s) \in Nat /\ i \in Nat /\ 1 <= i /\ i <= Len(s) - 1
        /\ k \in Nat /\ 1 <= k /\ k <= Len(s)
    BY LenProperties
  <2>2. (a \o b)[i] = IF i <= k - 1 THEN a[i] ELSE b[i - (k - 1)]
    BY <1>4
  <2>3. CASE i < k
    <3>1. i \in 1 .. k - 1 /\ i <= k - 1
      BY <2>1, <2>3
    <3> QED
      BY <1>1, <2>2, <2>3, <3>1
  <2>4. CASE k <= i
    <3>1. i - (k - 1) \in 1 .. Len(s) - k /\ k + (i - (k - 1)) = i + 1 /\ ~(i <= k - 1) /\ ~(i < k)
      BY <2>1, <2>4
    <3> QED
      BY <1>2, <2>2, <3>1
  <2>5. i < k \/ k <= i
    BY <2>1
  <2> QED
    BY <2>3, <2>4, <2>5
<1> QED
  BY <1>3, <1>4, <1>5

\* r is s with e at place k.
IsWith(r, E, s, k, e) ==
  /\ r \in Seq(E) /\ Len(r) = Len(s) + 1
  /\ \A i \in 1 .. Len(s) + 1 : r[i] = IF i < k THEN s[i] ELSE IF i = k THEN e ELSE s[i - 1]

LEMMA InsertAtIs ==
  ASSUME NEW E, NEW s \in Seq(E), NEW k \in 1 .. Len(s) + 1, NEW e \in E
  PROVE  IsWith(InsertAt(s, k, e), E, s, k, e)
<1> DEFINE a == SubSeq(s, 1, k - 1)
           b == SubSeq(s, k, Len(s))
           c == a \o <<e>>
<1>1. /\ a \in Seq(E) /\ Len(a) = k - 1 /\ \A i \in 1 .. k - 1 : a[i] = s[i]
  OBVIOUS
<1>2. /\ b \in Seq(E) /\ Len(b) = Len(s) - k + 1
      /\ \A i \in 1 .. Len(s) - k + 1 : b[i] = s[k + i - 1]
  OBVIOUS
<1>3. InsertAt(s, k, e) = c \o b
  BY DEF InsertAt
<1> HIDE DEF a, b
<1>4. /\ c \in Seq(E) /\ Len(c) = k
      /\ \A i \in 1 .. k : c[i] = IF i < k THEN s[i] ELSE e
  BY <1>1
<1> HIDE DEF c
<1>5. /\ c \o b \in Seq(E) /\ Len(c \o b) = Len(s) + 1
      /\ \A i \in 1 .. Len(s) + 1 : (c \o b)[i] = IF i <= k THEN c[i] ELSE b[i - k]
  <2>1. /\ c \o b \in Seq(E) /\ Len(c \o b) = Len(c) + Len(b)
        /\ \A i \in 1 .. Len(c) + Len(b) :
             (c \o b)[i] = IF i <= Len(c) THEN c[i] ELSE b[i - Len(c)]
    BY <1>2, <1>4, ConcatProperties
  <2>2. Len(c) + Len(b) = Len(s) + 1
    BY <1>2, <1>4
  <2> QED
    BY <1>4, <2>1, <2>2
<1>6. ASSUME NEW i \in 1 .. Len(s) + 1
      PROVE  (c \o b)[i] = IF i < k THEN s[i] ELSE IF i = k THEN e ELSE s[i - 1]
  <2>1. /\ Len(s) \in Nat /\ i \in Nat /\ 1 <= i /\ i <= Len(s) + 1
        /\ k \in Nat /\ 1 <= k /\ k <= Len(s) + 1
    BY LenProperties
  <2>2. (c \o b)[i] = IF i <= k THEN c[i] ELSE b[i - k]
    BY <1>5
  <2>3. CASE i <= k
    <3>1. i \in 1 .. k /\ (~(i < k) => i = k)
      BY <2>1, <2>3
    <3> QED
      BY <1>4, <2>2, <2>3, <3>1
  <2>4. CASE k < i
    <3>1. i - k \in 1 .. Len(s) - k + 1 /\ k + (i - k) - 1 = i - 1 /\ ~(i <= k) /\ ~(i < k) /\ i # k
      BY <2>1, <2>4
    <3> QED
      BY <1>2, <2>2, <3>1
  <2>5. i <= k \/ k < i
    BY <2>1
  <2> QED
    BY <2>3, <2>4, <2>5
<1> QED
  BY <1>3, <1>5, <1>6 DEF IsWith

LEMMA RemoveAllDefined ==
  ASSUME NEW list, Len(list) \in Nat, NEW indexes
  PROVE  \E rest :
           /\ rest[0] = list
           /\ \A n \in 0 .. Len(list) - 1 :
                rest[n + 1] = IF Len(list) - n \in indexes THEN RemoveAt(rest[n], Len(list) - n)
                              ELSE rest[n]
           /\ RemoveAll(list, indexes) = rest[Len(list)]
<1> DEFINE Value(g, n) == IF n = 0 THEN list
                          ELSE IF Len(list) - n + 1 \in indexes
                          THEN RemoveAt(g[n - 1], Len(list) - n + 1)
                          ELSE g[n - 1]
           Defines(g, m) == g = [n \in 0 .. m |-> Value(g, n)]
           T == {m \in Nat : \E g : Defines(g, m)}
<1>1. 0 \in T
  <2>1. Defines([n \in 0 .. 0 |-> list], 0)
    OBVIOUS
  <2> QED
    BY <2>1
<1>2. ASSUME NEW m \in T PROVE m + 1 \in T
  <2>1. PICK g : Defines(g, m)
    OBVIOUS
  <2> DEFINE h == [n \in 0 .. m + 1 |-> IF n = m + 1 THEN Value(g, m + 1) ELSE g[n]]
  <2>2. \A n \in 0 .. m : h[n] = g[n]
    OBVIOUS
  <2>3. \A n \in 0 .. m + 1 : h[n] = Value(h, n)
    <3>1. h[m + 1] = Value(h, m + 1)
      BY <2>2
    <3>2. ASSUME NEW n \in 0 .. m PROVE h[n] = Value(h, n)
      <4>1. g[n] = Value(g, n)
        BY <2>1
      <4>2. n # 0 => n - 1 \in 0 .. m
        OBVIOUS
      <4> QED
        BY <2>2, <4>1, <4>2
    <3>3. \A n \in 0 .. m + 1 : n = m + 1 \/ n \in 0 .. m
      OBVIOUS
    <3> HIDE DEF h, Value
    <3> QED
      BY <3>1, <3>2, <3>3
  <2>4. Defines(h, m + 1)
    BY <2>3
  <2>5. m + 1 \in Nat
    OBVIOUS
  <2> HIDE DEF h, Defines
  <2> QED
    BY <2>4, <2>5
<1>3. Len(list) \in T
  <2>1. T \in SUBSET Nat
    OBVIOUS
  <2> HIDE DEF T
  <2> QED
    BY <1>1, <1>2, <2>1, NatBySuccessor
<1>4. PICK g : Defines(g, Len(list))
  BY <1>3
<1> DEFINE rest == CHOOSE f : Defines(f, Len(list))
<1>5. Defines(rest, Len(list))
  BY <1>4
<1>6. RemoveAll(list, indexes) = rest[Len(list)]
  BY DEF RemoveAll
<1>7. rest[0] = list
  <2>1. 0 \in 0 .. Len(list)
    OBVIOUS
  <2>2. rest[0] = Value(rest, 0)
    BY <1>5, <2>1
  <2> QED
    BY <2>2
<1>8. ASSUME NEW n \in 0 .. Len(list) - 1
      PROVE  rest[n + 1] = IF Len(list) - n \in indexes THEN RemoveAt(rest[n], Len(list) - n)
                           ELSE rest[n]
  <2>1. /\ n + 1 \in 0 .. Len(list) /\ (n + 1) - 1 = n /\ n + 1 # 0
        /\ Len(list) - (n + 1) + 1 = Len(list) - n
    OBVIOUS
  <2>2. rest[n + 1] = Value(rest, n + 1)
    BY <1>5, <2>1
  <2> QED
    BY <2>1, <2>2
<1> HIDE DEF rest
<1> QED
  BY <1>6, <1>7, <1>8

\* removeObjectAtIndex: at each index of a set, from the last to the first, removes
\* what was at those indexes, for lists of any length: what is kept closes up.
THEOREM RemoveAllIs ==
  ASSUME NEW E, NEW list \in Seq(E), NEW indexes, Indexes(indexes), indexes \subseteq DOMAIN list
  PROVE  /\ RemoveAll(list, indexes) \in Seq(E)
         /\ Len(RemoveAll(list, indexes)) = Len(list) - Cardinality(indexes)
         /\ \A i \in DOMAIN list \ indexes :
              /\ i - Below(indexes, i) \in DOMAIN RemoveAll(list, indexes)
              /\ RemoveAll(list, indexes)[i - Below(indexes, i)] = list[i]
<1> DEFINE L == Len(list)
           B(n) == Below(indexes, n)
<1>1. L \in Nat /\ DOMAIN list = 1 .. L
  OBVIOUS
<1>2. PICK rest :
        /\ rest[0] = list
        /\ \A n \in 0 .. L - 1 :
             rest[n + 1] = IF L - n \in indexes THEN RemoveAt(rest[n], L - n) ELSE rest[n]
        /\ RemoveAll(list, indexes) = rest[L]
  BY <1>1, RemoveAllDefined
<1>3. \A n \in Nat : B(n) \in Nat /\ B(n + 1) = B(n) + IF n \in indexes THEN 1 ELSE 0
  BY BelowType, BelowNext
<1>4. B(L + 1) = Cardinality(indexes)
  <2>1. \A i \in indexes : i <= L
    BY <1>1
  <2> QED
    BY <1>1, <2>1, BelowAll
<1>5. \A m, n \in Nat : m <= n => B(n) - B(m) <= n - m
  BY BelowGap
<1>6. \A m, n \in Nat : m < n /\ m \notin indexes => B(n) - B(m) <= n - m - 1
  BY BelowGap
<1> DEFINE Inv(n) ==
             LET m == L - n
             IN  /\ rest[n] \in Seq(E) /\ Len(rest[n]) = L - B(L + 1) + B(m + 1)
                 /\ \A i \in 1 .. m : rest[n][i] = list[i]
                 /\ \A i \in m + 1 .. L : i \notin indexes => rest[n][i - B(i) + B(m + 1)] = list[i]
           T == {n \in Nat : n <= L => Inv(n)}
<1> HIDE DEF L, B
<1>7. 0 \in T
  <2>1. L - 0 = L /\ B(L + 1) \in Nat
    BY <1>1, <1>3
  <2>2. rest[0] \in Seq(E) /\ Len(rest[0]) = L - B(L + 1) + B(L + 1)
    BY <1>1, <1>2, <2>1 DEF L
  <2>3. \A i \in L + 1 .. L : FALSE
    BY <1>1
  <2> QED
    BY <1>2, <2>1, <2>2, <2>3
<1>8. ASSUME NEW n \in Nat, n + 1 <= L, Inv(n) PROVE Inv(n + 1)
  <2>1. PICK m \in 1 .. L : m = L - n /\ L - (n + 1) = m - 1 /\ n \in 0 .. L - 1
    BY <1>1, <1>8
  <2>2. rest[n + 1] = IF m \in indexes THEN RemoveAt(rest[n], m) ELSE rest[n]
    BY <1>2, <2>1
  <2>3. /\ rest[n] \in Seq(E) /\ Len(rest[n]) = L - B(L + 1) + B(m + 1)
        /\ \A i \in 1 .. m : rest[n][i] = list[i]
        /\ \A i \in m + 1 .. L : i \notin indexes => rest[n][i - B(i) + B(m + 1)] = list[i]
    BY <1>8, <2>1
  <2>4. B(m + 1) = B(m) + IF m \in indexes THEN 1 ELSE 0
    <3>1. m \in Nat
      BY <1>1
    <3> QED
      BY <1>3, <3>1
  <2>5. /\ B(m) \in Nat /\ B(m + 1) \in Nat /\ B(L + 1) \in Nat
        /\ B(L + 1) - B(m + 1) <= L - m
    <3>1. m \in Nat /\ m + 1 \in Nat /\ L + 1 \in Nat /\ m + 1 <= L + 1
          /\ (L + 1) - (m + 1) = L - m
      BY <1>1
    <3>2. B(L + 1) - B(m + 1) <= (L + 1) - (m + 1)
      BY <1>5, <3>1
    <3> QED
      BY <1>3, <3>1, <3>2
  <2> SUFFICES /\ rest[n + 1] \in Seq(E) /\ Len(rest[n + 1]) = L - B(L + 1) + B(m)
               /\ \A i \in 1 .. m - 1 : rest[n + 1][i] = list[i]
               /\ \A i \in m .. L : i \notin indexes => rest[n + 1][i - B(i) + B(m)] = list[i]
    BY <2>1
  <2> HIDE DEF Inv
  <2>6. CASE m \in indexes
    <3>1. m \in 1 .. Len(rest[n])
      BY <1>1, <2>1, <2>3, <2>5
    <3>2. /\ rest[n + 1] \in Seq(E) /\ Len(rest[n + 1]) = Len(rest[n]) - 1
          /\ \A i \in 1 .. Len(rest[n]) - 1 :
               rest[n + 1][i] = IF i < m THEN rest[n][i] ELSE rest[n][i + 1]
      BY <2>2, <2>3, <2>6, <3>1, RemoveAtIs
    <3>3. Len(rest[n + 1]) = L - B(L + 1) + B(m)
      BY <1>1, <2>3, <2>4, <2>5, <2>6, <3>2
    <3>4. ASSUME NEW i \in 1 .. m - 1 PROVE rest[n + 1][i] = list[i]
      <4>1. i \in 1 .. m /\ i < m /\ i \in 1 .. Len(rest[n]) - 1
        BY <1>1, <2>3, <2>5, <3>1
      <4> QED
        BY <2>3, <3>2, <4>1
    <3>5. ASSUME NEW i \in m .. L, i \notin indexes
          PROVE  rest[n + 1][i - B(i) + B(m)] = list[i]
      <4> DEFINE j == i - B(i) + B(m)
      <4>1. i \in m + 1 .. L
        BY <1>1, <2>1, <2>6, <3>5
      <4>2. B(i) \in Nat /\ B(i) - B(m + 1) <= i - (m + 1) /\ B(L + 1) - B(i) <= (L + 1) - i - 1
        <5>1. i \in Nat /\ L + 1 \in Nat /\ m + 1 \in Nat /\ m + 1 <= i /\ i < L + 1
          BY <1>1, <4>1
        <5> QED
          BY <1>3, <1>5, <1>6, <3>5, <5>1
      <4>3. /\ i \in Nat /\ m \in Nat /\ 1 <= m /\ m + 1 <= i /\ i <= L
            /\ B(m + 1) = B(m) + 1 /\ Len(rest[n]) = L - B(L + 1) + B(m + 1)
        BY <1>1, <2>3, <2>4, <2>6, <4>1
      <4>4. PICK bi \in Nat, bm \in Nat, bl \in Nat : bi = B(i) /\ bm = B(m) /\ bl = B(L + 1)
        BY <2>5, <4>2
      <4>5. /\ bi - (bm + 1) <= i - (m + 1) /\ bl - bi <= (L + 1) - i - 1
            /\ Len(rest[n]) = L - bl + (bm + 1)
            /\ j = i - bi + bm /\ i - B(i) + B(m + 1) = i - bi + (bm + 1)
        BY <4>2, <4>3, <4>4
      <4> HIDE DEF j
      <4>6. j \in Int /\ j + 1 = i - bi + (bm + 1) /\ m <= j
        BY <4>3, <4>5
      <4>7. Len(rest[n]) \in Int /\ j <= Len(rest[n]) - 1
        <5>1. j <= L - bl + (bm + 1) - 1
          BY <1>1, <4>3, <4>5
        <5> QED
          BY <1>1, <4>5, <5>1
      <4>8. j \in 1 .. Len(rest[n]) - 1 /\ ~(j < m)
        BY <4>3, <4>6, <4>7
      <4>9. rest[n + 1][j] = rest[n][j + 1]
        BY <3>2, <4>8
      <4> QED
        BY <2>3, <3>5, <4>1, <4>5, <4>6, <4>9 DEF j
    <3> QED
      BY <3>2, <3>3, <3>4, <3>5
  <2>7. CASE m \notin indexes
    <3>1. rest[n + 1] = rest[n] /\ B(m + 1) = B(m)
      BY <2>2, <2>4, <2>5, <2>7
    <3>2. ASSUME NEW i \in m .. L, i \notin indexes
          PROVE  rest[n][i - B(i) + B(m)] = list[i]
      <4>1. CASE i = m
        <5>1. i - B(i) + B(m) = m
          BY <2>1, <2>5, <4>1
        <5> QED
          BY <2>1, <2>3, <4>1, <5>1
      <4>2. CASE i # m
        <5>1. i \in m + 1 .. L
          BY <2>1, <4>2
        <5> QED
          BY <2>3, <3>1, <3>2, <5>1
      <4> QED
        BY <4>1, <4>2
    <3> QED
      BY <2>1, <2>3, <3>1, <3>2
  <2> QED
    BY <2>6, <2>7
<1>9. T = Nat
  <2>1. \A n \in T : n + 1 \in T
    BY <1>1, <1>8
  <2>2. T \in SUBSET Nat
    OBVIOUS
  <2> HIDE DEF T
  <2> QED
    BY <1>7, <2>1, <2>2, NatBySuccessor
<1>10. Inv(L)
  <2>1. \A n \in T : n <= L => Inv(n)
    OBVIOUS
  <2> HIDE DEF T, Inv
  <2> QED
    BY <1>1, <1>9, <2>1
<1>11. B(1) = 0 /\ L - L = 0
  BY <1>1, BelowType DEF B
<1>12. ASSUME NEW i \in 1 .. L, i \notin indexes
       PROVE  i - B(i) \in 1 .. Len(rest[L]) /\ rest[L][i - B(i)] = list[i]
  <2>1. /\ B(i) \in Nat /\ B(i) - B(1) <= i - 1 /\ B(L + 1) - B(i) <= (L + 1) - i - 1
        /\ B(L + 1) \in Nat
    <3>1. i \in Nat /\ L + 1 \in Nat /\ 1 \in Nat /\ 1 <= i /\ i < L + 1
      BY <1>1
    <3> QED
      BY <1>3, <1>5, <1>6, <1>12, <3>1
  <2>2. i - B(i) + B(1) = i - B(i) /\ i \in 0 + 1 .. L
    BY <1>1, <1>11, <2>1
  <2>3. Len(rest[L]) = L - B(L + 1)
    BY <1>1, <1>10, <1>11, <2>1
  <2>4. i - B(i) \in 1 .. Len(rest[L])
    BY <1>1, <1>11, <2>1, <2>3
  <2> QED
    BY <1>10, <1>11, <1>12, <2>2, <2>4
<1>13. rest[L] \in Seq(E) /\ Len(rest[L]) = L - Cardinality(indexes)
  BY <1>1, <1>3, <1>4, <1>10, <1>11
<1> QED
  BY <1>1, <1>2, <1>12, <1>13 DEF L, B

\* The steps of InsertAll, which ends with the list of the last of them.
Steps(with, list, indexes, new, last) ==
  /\ with[0] = list
  /\ \A n \in 0 .. last - 1 :
       with[n + 1] = IF n + 1 \in indexes THEN InsertAt(with[n], n + 1, new[n + 1]) ELSE with[n]
  /\ InsertAll(list, indexes, new) = with[last]

LEMMA InsertAllDefined ==
  ASSUME NEW list, Len(list) \in Nat, NEW indexes, IsFiniteSet(indexes), NEW new
  PROVE  \E with : Steps(with, list, indexes, new, Len(list) + Cardinality(indexes))
<1> DEFINE last == Len(list) + Cardinality(indexes)
           Value(g, n) == IF n = 0 THEN list
                          ELSE IF n \in indexes THEN InsertAt(g[n - 1], n, new[n])
                          ELSE g[n - 1]
           Defines(g, m) == g = [n \in 0 .. m |-> Value(g, n)]
           T == {m \in Nat : \E g : Defines(g, m)}
<1>1. 0 \in T
  <2>1. Defines([n \in 0 .. 0 |-> list], 0)
    OBVIOUS
  <2> QED
    BY <2>1
<1>2. ASSUME NEW m \in T PROVE m + 1 \in T
  <2>1. PICK g : Defines(g, m)
    OBVIOUS
  <2> DEFINE h == [n \in 0 .. m + 1 |-> IF n = m + 1 THEN Value(g, m + 1) ELSE g[n]]
  <2>2. \A n \in 0 .. m : h[n] = g[n]
    OBVIOUS
  <2>3. \A n \in 0 .. m + 1 : h[n] = Value(h, n)
    <3>1. h[m + 1] = Value(h, m + 1)
      BY <2>2
    <3>2. ASSUME NEW n \in 0 .. m PROVE h[n] = Value(h, n)
      <4>1. g[n] = Value(g, n)
        BY <2>1
      <4>2. n # 0 => n - 1 \in 0 .. m
        OBVIOUS
      <4> QED
        BY <2>2, <4>1, <4>2
    <3>3. \A n \in 0 .. m + 1 : n = m + 1 \/ n \in 0 .. m
      OBVIOUS
    <3> HIDE DEF h, Value
    <3> QED
      BY <3>1, <3>2, <3>3
  <2>4. Defines(h, m + 1)
    BY <2>3
  <2>5. m + 1 \in Nat
    OBVIOUS
  <2> HIDE DEF h, Defines
  <2> QED
    BY <2>4, <2>5
<1>3. last \in Nat /\ last \in T
  <2>1. last \in Nat
    BY FS_CardinalityType
  <2>2. T \in SUBSET Nat
    OBVIOUS
  <2> HIDE DEF T
  <2> QED
    BY <1>1, <1>2, <2>1, <2>2, NatBySuccessor
<1>4. PICK g : Defines(g, last)
  BY <1>3
<1> DEFINE with == CHOOSE f : Defines(f, last)
<1>5. Defines(with, last)
  BY <1>4
<1>6. InsertAll(list, indexes, new) = with[last]
  BY DEF InsertAll
<1>7. with[0] = list
  <2>1. 0 \in 0 .. last
    BY <1>3
  <2>2. with[0] = Value(with, 0)
    BY <1>5, <2>1
  <2> QED
    BY <2>2
<1>8. ASSUME NEW n \in 0 .. last - 1
      PROVE  with[n + 1] = IF n + 1 \in indexes THEN InsertAt(with[n], n + 1, new[n + 1])
                           ELSE with[n]
  <2>1. n + 1 \in 0 .. last /\ (n + 1) - 1 = n /\ n + 1 # 0
    BY <1>3
  <2>2. with[n + 1] = Value(with, n + 1)
    BY <1>5, <2>1
  <2> QED
    BY <2>1, <2>2
<1> HIDE DEF with
<1> QED
  BY <1>3, <1>6, <1>7, <1>8 DEF Steps

\* Inserts at indexes that the list can have by the time their turn comes.
Insertable(E, list, indexes, new, last) ==
  /\ list \in Seq(E) /\ Indexes(indexes)
  /\ last \in Nat /\ last = Len(list) + Cardinality(indexes)
  /\ indexes \subseteq 1 .. last /\ \A i \in indexes : new[i] \in E

\* insertObject:atIndex: at each index of a set, from the first to the last, leaves
\* what is inserted at its index, for lists of any length; what there was fills the
\* other places in its order.
THEOREM InsertAllIs ==
  ASSUME NEW E, NEW list, NEW indexes, NEW new, NEW last,
         Insertable(E, list, indexes, new, last)
  PROVE  /\ InsertAll(list, indexes, new) \in Seq(E)
         /\ Len(InsertAll(list, indexes, new)) = last
         /\ \A i \in indexes : InsertAll(list, indexes, new)[i] = new[i]
         /\ \A i \in (1 .. last) \ indexes :
              InsertAll(list, indexes, new)[i] = list[i - Below(indexes, i)]
<1> USE DEF Insertable
<1> DEFINE L == Len(list)
           B(n) == Below(indexes, n)
<1>1. L \in Nat /\ IsFiniteSet(indexes)
  BY LenProperties DEF Indexes
<1>2. PICK with : Steps(with, list, indexes, new, last)
  BY <1>1, InsertAllDefined
<1>3. \A n \in Nat : B(n) \in Nat /\ B(n + 1) = B(n) + IF n \in indexes THEN 1 ELSE 0
  BY BelowType, BelowNext
<1>4. B(last + 1) = last - L
  <2>1. \A i \in indexes : i <= last
    OBVIOUS
  <2>2. B(last + 1) = Cardinality(indexes) /\ Cardinality(indexes) \in Nat
    BY <1>1, <2>1, BelowAll, BelowType
  <2> QED
    BY <1>1, <2>2
<1>5. \A m, n \in Nat : m <= n => B(m) <= B(n) /\ B(n) - B(m) <= n - m
  BY BelowGap
<1> DEFINE Inv(n) ==
             /\ with[n] \in Seq(E) /\ Len(with[n]) = L + B(n + 1)
             /\ \A i \in 1 .. Len(with[n]) :
                  with[n][i] = IF n < i THEN list[i - B(n + 1)]
                               ELSE IF i \in indexes THEN new[i]
                               ELSE list[i - B(i)]
           T == {n \in Nat : n <= last => Inv(n)}
<1>6. B(1) = 0
  BY BelowType
<1> HIDE DEF L, B
<1>7. 0 \in T
  <2>1. with[0] \in Seq(E) /\ Len(with[0]) = L + B(0 + 1)
    BY <1>1, <1>2, <1>6 DEF L, Steps
  <2>2. \A i \in 1 .. Len(with[0]) : i \in Nat /\ 0 < i /\ i - B(0 + 1) = i
    BY <1>6
  <2> QED
    BY <1>2, <2>1, <2>2 DEF Steps
<1>8. ASSUME NEW n \in Nat, n + 1 <= last, Inv(n) PROVE Inv(n + 1)
  <2> DEFINE s == with[n]
             r == with[n + 1]
             m == n + 1
  <2>1. r = IF m \in indexes THEN InsertAt(s, m, new[m]) ELSE s
    <3>1. n \in 0 .. last - 1
      BY <1>8
    <3> QED
      BY <1>2, <3>1 DEF Steps
  <2>2. m \in Nat /\ m \in 1 .. last /\ m + 1 \in Nat /\ last + 1 \in Nat /\ m <= last + 1
    BY <1>8
  <2>3. /\ s \in Seq(E) /\ Len(s) = L + B(m) /\ Len(s) \in Nat
        /\ \A i \in 1 .. Len(s) : s[i] = IF n < i THEN list[i - B(m)]
                                         ELSE IF i \in indexes THEN new[i]
                                         ELSE list[i - B(i)]
    BY <1>8, LenProperties
  <2>4. B(m) \in Nat /\ B(m + 1) = B(m) + IF m \in indexes THEN 1 ELSE 0
    BY <1>3, <2>2
  <2>5. B(last + 1) - B(m) <= (last + 1) - m /\ B(last + 1) = last - L
    BY <1>4, <1>5, <2>2
  <2> SUFFICES /\ r \in Seq(E) /\ Len(r) = L + B(m + 1)
               /\ \A i \in 1 .. Len(r) : r[i] = IF m < i THEN list[i - B(m + 1)]
                                                ELSE IF i \in indexes THEN new[i]
                                                ELSE list[i - B(i)]
    OBVIOUS
  <2>6. n \in Nat /\ n = m - 1
    OBVIOUS
  <2> HIDE DEF Inv, s, r, m
  <2>7. CASE m \in indexes
    <3>1. m \in 1 .. Len(s) + 1 /\ new[m] \in E
      BY <1>1, <2>2, <2>3, <2>4, <2>5, <2>7
    <3>2. /\ r \in Seq(E) /\ Len(r) = Len(s) + 1
          /\ \A i \in 1 .. Len(s) + 1 :
               r[i] = IF i < m THEN s[i] ELSE IF i = m THEN new[m] ELSE s[i - 1]
      <4>1. IsWith(InsertAt(s, m, new[m]), E, s, m, new[m])
        BY <2>3, <3>1, InsertAtIs
      <4> QED
        BY <2>1, <2>7, <4>1 DEF IsWith
    <3>3. Len(r) = L + B(m + 1) /\ B(m + 1) = B(m) + 1
      BY <1>1, <2>3, <2>4, <2>7, <3>2
    <3>4. ASSUME NEW i \in 1 .. Len(r)
          PROVE  r[i] = IF m < i THEN list[i - B(m + 1)]
                        ELSE IF i \in indexes THEN new[i] ELSE list[i - B(i)]
      <4>1. /\ i \in Nat /\ 1 <= i /\ i <= Len(s) + 1
            /\ r[i] = IF i < m THEN s[i] ELSE IF i = m THEN new[m] ELSE s[i - 1]
        BY <2>3, <3>2
      <4>2. CASE i < m
        <5>1. i \in 1 .. Len(s) /\ ~(n < i) /\ ~(m < i)
          BY <2>2, <2>3, <2>6, <3>1, <4>1, <4>2
        <5> QED
          BY <2>3, <4>1, <4>2, <5>1
      <4>3. CASE i = m
        BY <2>2, <2>7, <4>1, <4>3
      <4>4. CASE m < i
        <5>1. /\ i - 1 \in 1 .. Len(s) /\ n < i - 1 /\ ~(i < m) /\ i # m
              /\ (i - 1) - B(m) = i - B(m + 1)
          <6>1. i \in Nat /\ 1 <= i /\ i <= Len(s) + 1 /\ Len(s) \in Nat /\ m \in Nat /\ n \in Nat /\ 1 <= m
            BY <2>2, <2>3, <2>6, <4>1
          <6>2. i - 1 \in 1 .. Len(s) /\ n < i - 1 /\ ~(i < m) /\ i # m
            BY <2>6, <4>4, <6>1
          <6>3. (i - 1) - B(m) = i - B(m + 1)
            BY <2>4, <3>3, <6>1
          <6> QED
            BY <6>2, <6>3
        <5>2. s[i - 1] = list[(i - 1) - B(m)]
          BY <2>3, <5>1
        <5> QED
          BY <4>1, <4>4, <5>1, <5>2
      <4>5. i < m \/ i = m \/ m < i
        BY <2>2, <4>1
      <4> QED
        BY <4>2, <4>3, <4>4, <4>5
    <3> QED
      BY <3>2, <3>3, <3>4
  <2>8. CASE m \notin indexes
    <3>1. r = s /\ B(m + 1) = B(m)
      BY <2>1, <2>4, <2>8
    <3>2. ASSUME NEW i \in 1 .. Len(s)
          PROVE  s[i] = IF m < i THEN list[i - B(m)]
                        ELSE IF i \in indexes THEN new[i] ELSE list[i - B(i)]
      <4>1. i \in Nat /\ (n < i <=> m < i \/ i = m) /\ ~(m < m)
        BY <2>2, <2>3, <2>6
      <4>2. s[i] = IF n < i THEN list[i - B(m)] ELSE IF i \in indexes THEN new[i] ELSE list[i - B(i)]
        BY <2>3
      <4>3. CASE i = m
        BY <2>8, <4>1, <4>2, <4>3
      <4>4. CASE i # m
        BY <4>1, <4>2, <4>4
      <4> QED
        BY <4>3, <4>4
    <3> QED
      BY <2>3, <3>1, <3>2
  <2> QED
    BY <2>7, <2>8
<1>9. T = Nat
  <2>1. \A n \in T : n + 1 \in T
    BY <1>8
  <2>2. T \in SUBSET Nat
    OBVIOUS
  <2> HIDE DEF T
  <2> QED
    BY <1>7, <2>1, <2>2, NatBySuccessor
<1>10. Inv(last)
  <2>1. \A n \in T : n <= last => Inv(n)
    OBVIOUS
  <2> HIDE DEF T, Inv
  <2> QED
    BY <1>9, <2>1
<1>11. with[last] \in Seq(E) /\ Len(with[last]) = last
  BY <1>1, <1>4, <1>10
<1>12. ASSUME NEW i \in 1 .. last
       PROVE  with[last][i] = IF i \in indexes THEN new[i] ELSE list[i - B(i)]
  <2>1. i \in 1 .. Len(with[last]) /\ ~(last < i)
    BY <1>11
  <2> QED
    BY <1>10, <2>1
<1> QED
  BY <1>2, <1>11, <1>12 DEF B, Steps

-----------------------------------------------------------------------------
(* The changes submitted are consistent with what there is.                *)

Changes ==
  [deleteSections : SUBSET Sections, insertSections : SUBSET Sections,
   reloadSections : SUBSET Sections, deleteItems : SUBSET Paths,
   insertItems : SUBSET Paths, reloadItems : SUBSET Paths]

\* No client deletes or reloads what there is not, or the same twice; and until
\* the change set is completed the map is the one of the old counts.
Consistent ==
  /\ oldCounts \in Counts /\ newCounts \in Counts
  /\ changes \in Changes
  /\ GoneSections \subseteq DOMAIN oldCounts
  /\ changes.deleteSections \cap changes.reloadSections = {}
  /\ changes.deleteItems \cup changes.reloadItems \subseteq OldItems
  /\ changes.deleteItems \cap changes.reloadItems = {}
  /\ \A p \in changes.reloadItems : p[1] \notin GoneSections
  /\ outcome = "open" => map = ElementsOf(oldCounts, FALSE)

LEMMA InitConsistent == Init => Consistent
<1> SUFFICES ASSUME Init PROVE Consistent
  OBVIOUS
<1>1. << >> \in Counts
  <2>1. 0 \in 0 .. MaxSections /\ << >> \in [1 .. 0 -> 0 .. MaxItems]
    BY ChangeSetAssumption
  <2> QED
    BY <2>1 DEF Counts
<1>2. changes = NoChanges /\ newCounts = << >> /\ oldCounts \in Counts
  BY DEF Init
<1>3. changes \in Changes
  BY <1>2 DEF NoChanges, Changes
<1> QED
  BY <1>1, <1>2, <1>3 DEF Init, Consistent, NoChanges, GoneSections

LEMMA NextConsistent == Consistent /\ [Next]_vars => Consistent'
<1> SUFFICES ASSUME Consistent, [Next]_vars PROVE Consistent'
  OBVIOUS
<1> USE DEF Open, GoneSections, OldItems, CanDeleteSection, CanDeleteItem, Sections, Paths
<1>1. /\ oldCounts \in Counts /\ newCounts \in Counts /\ changes \in Changes
      /\ GoneSections \subseteq DOMAIN oldCounts
      /\ changes.deleteSections \cap changes.reloadSections = {}
      /\ changes.deleteItems \cup changes.reloadItems \subseteq OldItems
      /\ changes.deleteItems \cap changes.reloadItems = {}
      /\ \A p \in changes.reloadItems : p[1] \notin GoneSections
      /\ outcome = "open" => map = ElementsOf(oldCounts, FALSE)
  BY DEF Consistent
<1>2. ASSUME UNCHANGED <<oldCounts, newCounts, map, outcome>>, changes' \in Changes,
             GoneSections' \subseteq DOMAIN oldCounts,
             (changes.deleteSections \cap changes.reloadSections = {})',
             (changes.deleteItems \cup changes.reloadItems)' \subseteq OldItems,
             (changes.deleteItems \cap changes.reloadItems = {})',
             (\A p \in changes.reloadItems : p[1] \notin GoneSections)'
      PROVE  Consistent'
  BY <1>1, <1>2 DEF Consistent
<1>3. ASSUME NEW s \in Sections, deleteSection(s) PROVE Consistent'
  BY <1>1, <1>2, <1>3 DEF deleteSection, Submit, Changes
<1>4. ASSUME NEW s \in Sections, insertSection(s) PROVE Consistent'
  BY <1>1, <1>2, <1>4 DEF insertSection, Submit, Changes
<1>5. ASSUME NEW s \in Sections, reloadSection(s) PROVE Consistent'
  BY <1>1, <1>2, <1>5 DEF reloadSection, Submit, Changes
<1>6. ASSUME NEW p \in Paths, deleteItem(p) PROVE Consistent'
  BY <1>1, <1>2, <1>6 DEF deleteItem, Submit, Changes
<1>7. ASSUME NEW p \in Paths, insertItem(p) PROVE Consistent'
  BY <1>1, <1>2, <1>7 DEF insertItem, Submit, Changes
<1>8. ASSUME NEW p \in Paths, reloadItem(p) PROVE Consistent'
  BY <1>1, <1>2, <1>8 DEF reloadItem, Submit, Changes
<1>9. ASSUME NEW p \in Paths, NEW q \in Paths, moveItem(p, q) PROVE Consistent'
  BY <1>1, <1>2, <1>9 DEF moveItem, Changes
<1>10. ASSUME NEW s \in Sections, NEW t \in Sections, moveSection(s, t) PROVE Consistent'
  BY <1>1, <1>2, <1>10 DEF moveSection, Changes
<1>11. CASE reloadData
  BY <1>1, <1>11 DEF reloadData, Consistent
<1>12. ASSUME NEW counts \in Counts, Complete(counts) PROVE Consistent'
  BY <1>1, <1>12 DEF Complete, Consistent
<1>13. CASE UNCHANGED vars
  BY <1>1, <1>13 DEF vars, Consistent
<1> QED
  BY <1>3, <1>4, <1>5, <1>6, <1>7, <1>8, <1>9, <1>10, <1>11, <1>12, <1>13 DEF Next

\* What is submitted stays consistent with what there is, however it is interleaved:
\* the invariant that validation and the update rest on.
THEOREM AlwaysConsistent == Spec => []Consistent
BY InitConsistent, NextConsistent, PTL DEF Spec

-----------------------------------------------------------------------------
(* Sections.                                                               *)

LEMMA FunctionIsSequence ==
  ASSUME NEW S, NEW n \in Nat, NEW f \in [1 .. n -> S]
  PROVE  f \in Seq(S) /\ Len(f) = n
<1>1. f \in Seq(S)
  BY SeqDef
<1> QED
  BY <1>1

LEMMA CountsAreSequences ==
  ASSUME NEW counts \in Counts
  PROVE  /\ counts \in Seq(0 .. MaxItems) /\ Len(counts) \in Nat
         /\ DOMAIN counts = 1 .. Len(counts) /\ DOMAIN counts \subseteq Sections
         /\ \A s \in DOMAIN counts : counts[s] \in 0 .. MaxItems
<1>1. PICK n \in 0 .. MaxSections : counts \in [1 .. n -> 0 .. MaxItems]
  BY DEF Counts
<1>2. n \in Nat /\ 1 .. n \subseteq 1 .. MaxSections
  BY ChangeSetAssumption
<1>3. counts \in Seq(0 .. MaxItems)
  BY <1>1, <1>2, SeqDef
<1>4. Len(counts) = n
  BY <1>1, <1>2, <1>3
<1> QED
  BY <1>1, <1>2, <1>3, <1>4 DEF Sections

LEMMA SetsOfIndexes ==
  /\ \A S \in SUBSET Sections : Indexes(S)
  /\ \A paths \in SUBSET Paths : \A s : Indexes(InSection(paths, s))
<1>1. /\ IsFiniteSet(Sections) /\ IsFiniteSet(1 .. MaxItems)
      /\ Sections \subseteq Nat \ {0} /\ 1 .. MaxItems \subseteq Nat \ {0}
  BY ChangeSetAssumption, FS_Interval DEF Sections
<1>2. \A paths \in SUBSET Paths : \A s : InSection(paths, s) \subseteq 1 .. MaxItems
  BY DEF InSection, Paths
<1> QED
  BY <1>1, <1>2, FS_Subset DEF Indexes

LEMMA InSectionIs ==
  ASSUME NEW paths, \A p \in paths : p = <<p[1], p[2]>>, NEW s, NEW i
  PROVE  i \in InSection(paths, s) <=> <<s, i>> \in paths
<1>1. i \in InSection(paths, s) <=> \E p \in paths : p[1] = s /\ p[2] = i
  BY DEF InSection
<1> QED
  BY <1>1

\* Reloads of sections neither move the others nor change their number.
LEMMA SectionsOfChanges ==
  ASSUME Consistent
  PROVE  /\ Indexes(changes.deleteSections) /\ Indexes(changes.insertSections)
         /\ Indexes(changes.reloadSections)
         /\ Indexes(DeletedSections) /\ Indexes(InsertedSections)
         /\ DeletedSections \subseteq 1 .. Len(oldCounts) /\ Len(oldCounts) \in Nat
         /\ DOMAIN oldCounts = 1 .. Len(oldCounts)
         /\ \A r : r \in InsertedSections <=>
                     \/ r \in changes.insertSections
                     \/ \E s \in changes.reloadSections :
                          r = Shift(changes.deleteSections, changes.insertSections, s)
         /\ Cardinality(InsertedSections) - Cardinality(DeletedSections)
              = Cardinality(changes.insertSections) - Cardinality(changes.deleteSections)
         /\ \A s \in Kept :
              /\ s \in Nat \ {0} /\ s \in 1 .. Len(oldCounts)
              /\ s \notin changes.deleteSections /\ s \notin changes.reloadSections
              /\ newSectionForOldSection(s) = Shift(changes.deleteSections, changes.insertSections, s)
              /\ newSectionForOldSection(s) \in Nat \ {0}
              /\ newSectionForOldSection(s) \notin InsertedSections
<1> DEFINE D == changes.deleteSections
           I == changes.insertSections
           R == changes.reloadSections
<1>1. /\ D \in SUBSET Sections /\ I \in SUBSET Sections /\ R \in SUBSET Sections
      /\ D \cap R = {} /\ D \cup R \subseteq DOMAIN oldCounts
  BY DEF Consistent, Changes, GoneSections
<1>2. Indexes(D) /\ Indexes(I) /\ Indexes(R)
  BY <1>1, SetsOfIndexes
<1>3. Len(oldCounts) \in Nat /\ DOMAIN oldCounts = 1 .. Len(oldCounts)
  BY CountsAreSequences DEF Consistent
<1>4. DeletedSections = D \cup R /\ InsertedSections = I \cup Image(D, I, R)
  BY DEF DeletedSections, GoneSections, InsertedSections, Image
<1>5. \A s \in Kept : /\ s \in 1 .. Len(oldCounts) /\ s \in Nat \ {0}
                      /\ s \notin D /\ s \notin R
  BY <1>3, <1>4 DEF Kept
<1>6. \A r : r \in Image(D, I, R) <=> \E s \in R : r = Shift(D, I, s)
  BY DEF Image
<1> HIDE DEF D, I, R
<1>7. /\ Indexes(Image(D, I, R)) /\ I \cap Image(D, I, R) = {} /\ R \cap D = {}
      /\ Cardinality(Image(D, I, R)) = Cardinality(R)
  BY <1>1, <1>2, ImageIndexes
<1>8. /\ Indexes(D \cup R) /\ Cardinality(D \cup R) = Cardinality(D) + Cardinality(R)
      /\ Indexes(I \cup Image(D, I, R))
      /\ Cardinality(I \cup Image(D, I, R)) = Cardinality(I) + Cardinality(R)
  BY <1>1, <1>2, <1>7, BelowUnion, 0 \in Nat
<1>9. Cardinality(D) \in Nat /\ Cardinality(I) \in Nat /\ Cardinality(R) \in Nat
  BY <1>2, BelowType, 0 \in Nat
<1>10. ASSUME NEW s \in Kept
       PROVE  /\ newSectionForOldSection(s) = Shift(D, I, s)
              /\ newSectionForOldSection(s) \in Nat \ {0}
              /\ newSectionForOldSection(s) \notin InsertedSections
  <2>1. newSectionForOldSection(s) = Shift(D \cup R, I \cup Image(D, I, R), s)
    BY <1>4 DEF newSectionForOldSection
  <2>2. Shift(D \cup R, I \cup Image(D, I, R), s) = Shift(D, I, s)
    BY <1>2, <1>5, <1>7, ReloadsMoveNothing
  <2>3. /\ Shift(D \cup R, I \cup Image(D, I, R), s) \in Nat \ {0}
        /\ Shift(D \cup R, I \cup Image(D, I, R), s) \notin I \cup Image(D, I, R)
    BY <1>5, <1>8, ShiftMoves DEF Moved
  <2> QED
    BY <1>4, <2>1, <2>2, <2>3
<1>11. Cardinality(InsertedSections) - Cardinality(DeletedSections) = Cardinality(I) - Cardinality(D)
  BY <1>4, <1>8, <1>9
<1>12. /\ Indexes(DeletedSections) /\ Indexes(InsertedSections)
       /\ DeletedSections \subseteq 1 .. Len(oldCounts)
  BY <1>1, <1>3, <1>4, <1>8
<1>13. \A r : r \in InsertedSections <=> r \in I \/ \E s \in R : r = Shift(D, I, s)
  BY <1>4, <1>6
<1> QED
  BY <1>2, <1>3, <1>5, <1>10, <1>11, <1>12, <1>13 DEF D, I, R

-----------------------------------------------------------------------------
(* Items of a section that is neither deleted nor reloaded.                *)

LEMMA NewSectionsDiffer ==
  ASSUME Consistent, NEW s \in Kept, NEW t \in Kept,
         newSectionForOldSection(s) = newSectionForOldSection(t)
  PROVE  s = t
<1> DEFINE D == changes.deleteSections
           I == changes.insertSections
<1>1. Indexes(D) /\ Indexes(I)
  BY SectionsOfChanges
<1>2. /\ s \in Nat \ {0} /\ t \in Nat \ {0} /\ s \notin D /\ t \notin D
      /\ Shift(D, I, s) = Shift(D, I, t)
  BY SectionsOfChanges
<1> HIDE DEF D, I
<1>3. Shift(D, I, s) \in Nat
  BY <1>1, <1>2, ShiftMoves
<1>4. ~(s < t) /\ ~(t < s)
  BY <1>1, <1>2, <1>3, ShiftInOrder
<1> QED
  BY <1>2, <1>4

\* What the items of a section were, are deleted, reloaded and inserted.
Deletes(s) == InSection(changes.deleteItems, s)
Reloads(s) == InSection(changes.reloadItems, s)
Inserts(s) == InSection(changes.insertItems, newSectionForOldSection(s))

LEMMA ItemsOfChanges ==
  ASSUME Consistent, NEW s \in Kept
  PROVE  /\ Indexes(Deletes(s)) /\ Indexes(Reloads(s)) /\ Indexes(Inserts(s))
         /\ Deletes(s) \cap Reloads(s) = {}
         /\ oldCounts[s] \in Nat /\ Deletes(s) \cup Reloads(s) \subseteq 1 .. oldCounts[s]
         /\ InSection(DeletedItems, s) = Deletes(s) \cup Reloads(s)
         /\ InSection(InsertedItems, newSectionForOldSection(s))
              = Inserts(s) \cup Image(Deletes(s), Inserts(s), Reloads(s))
<1> DEFINE n == newSectionForOldSection(s)
<1>1. /\ changes.deleteItems \in SUBSET Paths /\ changes.insertItems \in SUBSET Paths
      /\ changes.reloadItems \in SUBSET Paths
      /\ changes.deleteItems \cup changes.reloadItems \subseteq OldItems
      /\ changes.deleteItems \cap changes.reloadItems = {}
      /\ \A p \in changes.reloadItems : p[1] \notin GoneSections
  BY DEF Consistent, Changes
<1>2. \A p \in Paths : p = <<p[1], p[2]>> /\ p[1] \in Nat \ {0} /\ p[2] \in Nat \ {0}
  BY DEF Paths, Sections
<1>3. \A i : /\ i \in Deletes(s) <=> <<s, i>> \in changes.deleteItems
             /\ i \in Reloads(s) <=> <<s, i>> \in changes.reloadItems
             /\ i \in Inserts(s) <=> <<n, i>> \in changes.insertItems
  BY <1>1, <1>2, InSectionIs DEF Deletes, Reloads, Inserts
<1>4. Indexes(Deletes(s)) /\ Indexes(Reloads(s)) /\ Indexes(Inserts(s))
  BY <1>1, SetsOfIndexes DEF Deletes, Reloads, Inserts
<1>5. oldCounts[s] \in Nat /\ s \in DOMAIN oldCounts /\ s \notin DeletedSections
  BY CountsAreSequences, ChangeSetAssumption DEF Consistent, Kept
<1>6. \A i : <<s, i>> \in OldItems => i \in 1 .. oldCounts[s]
  BY <1>2, <1>5 DEF OldItems
<1>7. Deletes(s) \cup Reloads(s) \subseteq 1 .. oldCounts[s]
  BY <1>1, <1>3, <1>6
<1>8. Deletes(s) \cap Reloads(s) = {}
  BY <1>1, <1>3
<1>9. InSection(DeletedItems, s) = Deletes(s) \cup Reloads(s)
  <2>1. \A p : p \in DeletedItems <=> /\ p \in changes.deleteItems \cup changes.reloadItems
                                      /\ p[1] \notin DeletedSections
    BY DEF DeletedItems, Outside
  <2>2. \A i : i \in InSection(DeletedItems, s) <=> <<s, i>> \in DeletedItems
    BY <1>1, <1>2, <2>1, InSectionIs
  <2> QED
    BY <1>3, <1>5, <2>1, <2>2
<1>10. n \in Nat \ {0} /\ n \notin InsertedSections
  BY SectionsOfChanges
<1>11. \A p : p \in InsertedItems <=>
                /\ p[1] \notin InsertedSections
                /\ p \in changes.insertItems \/ \E q \in changes.reloadItems : p = NewPath(q)
  BY DEF InsertedItems, Outside
<1>12. \A i : i \in InSection(InsertedItems, n) <=> <<n, i>> \in InsertedItems
  <2>1. \A q \in changes.reloadItems : NewPath(q) = <<NewPath(q)[1], NewPath(q)[2]>>
    BY DEF NewPath
  <2> QED
    BY <1>1, <1>2, <1>11, <2>1, InSectionIs
<1>13. ASSUME NEW i
       PROVE  (\E q \in changes.reloadItems : <<n, i>> = NewPath(q)) <=>
                i \in Image(Deletes(s), Inserts(s), Reloads(s))
  <2>1. i \in Image(Deletes(s), Inserts(s), Reloads(s)) <=>
          \E r \in Reloads(s) : i = Shift(Deletes(s), Inserts(s), r)
    BY DEF Image
  <2>2. \A q \in changes.reloadItems : q[1] \in Kept
    BY <1>1 DEF Kept, DeletedSections, OldItems
  <2>3. \A q \in changes.reloadItems : n = newSectionForOldSection(q[1]) => q[1] = s
    BY <2>2, NewSectionsDiffer
  <2>4. \A q \in changes.reloadItems : q[1] = s =>
          NewPath(q) = <<n, Shift(Deletes(s), Inserts(s), q[2])>> /\ q[2] \in Reloads(s)
    <3>1. ASSUME NEW q \in changes.reloadItems, q[1] = s PROVE q[2] \in Reloads(s)
      <4>1. q = <<s, q[2]>>
        BY <1>1, <1>2, <3>1
      <4> QED
        BY <1>3, <4>1
    <3>2. ASSUME NEW q \in changes.reloadItems, q[1] = s
          PROVE  NewPath(q) = <<n, Shift(Deletes(s), Inserts(s), q[2])>>
      BY <3>2 DEF NewPath, Deletes, Inserts
    <3> HIDE DEF n
    <3> QED
      BY <3>1, <3>2
  <2>5. \A q : NewPath(q)[1] = newSectionForOldSection(q[1])
    BY DEF NewPath
  <2>6. ASSUME NEW q \in changes.reloadItems, <<n, i>> = NewPath(q)
        PROVE  \E r \in Reloads(s) : i = Shift(Deletes(s), Inserts(s), r)
    <3>1. q[1] = s
      BY <2>3, <2>5, <2>6
    <3> QED
      BY <2>4, <2>6, <3>1
  <2>7. ASSUME NEW r \in Reloads(s), i = Shift(Deletes(s), Inserts(s), r)
        PROVE  \E q \in changes.reloadItems : <<n, i>> = NewPath(q)
    <3>1. <<s, r>> \in changes.reloadItems /\ <<s, r>>[1] = s /\ <<s, r>>[2] = r
      BY <1>3
    <3> QED
      BY <2>4, <2>7, <3>1
  <2> QED
    BY <2>1, <2>6, <2>7
<1>14. InSection(InsertedItems, n) = Inserts(s) \cup Image(Deletes(s), Inserts(s), Reloads(s))
  <2>1. \A i : <<n, i>>[1] = n
    OBVIOUS
  <2> HIDE DEF n
  <2> QED
    BY <1>3, <1>10, <1>11, <1>12, <1>13, <2>1
<1> QED
  BY <1>4, <1>5, <1>7, <1>8, <1>9, <1>14

-----------------------------------------------------------------------------
(* Validation accepts what fits.                                           *)

LEMMA SamePlaceIs ==
  ASSUME Consistent, NEW s \in Nat \ {0}, NEW n \in Nat \ {0}
  PROVE  SamePlace(s, n) <=>
           /\ s \notin changes.deleteSections
           /\ n = Shift(changes.deleteSections, changes.insertSections, s)
<1>1. Indexes(changes.deleteSections) /\ Indexes(changes.insertSections)
  BY SectionsOfChanges
<1> QED
  BY <1>1, PartnerIsShift DEF SamePlace

\* The number of items of each section that was there before.
SizesFit(counts) ==
  \A s \in Kept : counts[newSectionForOldSection(s)]
                    = oldCounts[s] + Cardinality(Inserts(s)) - Cardinality(Deletes(s))

LEMMA ValidatesIsFits ==
  ASSUME Consistent, NEW counts \in Counts
  PROVE  Validates(counts) <=> Fits(counts)
<1> DEFINE D == changes.deleteSections
           I == changes.insertSections
           R == changes.reloadSections
           N == Len(oldCounts)
           M == Len(counts)
           Long == M = N - Cardinality(D) + Cardinality(I)
           There(p) == p[1] \in DOMAIN counts /\ p[2] <= counts[p[1]]
<1>1. /\ Indexes(D) /\ Indexes(I) /\ Indexes(R) /\ N \in Nat /\ DOMAIN oldCounts = 1 .. N
      /\ DeletedSections \subseteq DOMAIN oldCounts
  BY SectionsOfChanges
<1>2. M \in Nat /\ DOMAIN counts = 1 .. M /\ \A n \in 1 .. M : counts[n] \in Nat
  BY CountsAreSequences, ChangeSetAssumption
<1>3. M = N + Cardinality(InsertedSections) - Cardinality(DeletedSections) <=> Long
  <2>1. /\ Cardinality(D) \in Nat /\ Cardinality(I) \in Nat
        /\ Cardinality(InsertedSections) \in Nat /\ Cardinality(DeletedSections) \in Nat
    BY SectionsOfChanges, BelowType, 0 \in Nat
  <2>2. Cardinality(InsertedSections) - Cardinality(DeletedSections) = Cardinality(I) - Cardinality(D)
    BY SectionsOfChanges
  <2> HIDE DEF D, I, N, M
  <2> QED
    BY <1>1, <1>2, <2>1, <2>2
<1>4. /\ D \subseteq DeletedSections /\ R \subseteq DeletedSections /\ D \cap R = {}
      /\ \A s : s \in Kept <=> s \in 1 .. N /\ s \notin D /\ s \notin R
  BY <1>1 DEF Consistent, Kept, DeletedSections, GoneSections
<1>5. ASSUME Long, NEW s \in 1 .. N, s \notin D PROVE Shift(D, I, s) \in 1 .. M
  BY <1>1, <1>4, <1>5, ShiftWithin
<1>6. Long => (InsertedSections \subseteq DOMAIN counts <=> I \subseteq DOMAIN counts)
  <2>1. \A r : r \in InsertedSections <=> r \in I \/ \E s \in R : r = Shift(D, I, s)
    BY SectionsOfChanges
  <2>2. \A s \in R : s \in 1 .. N /\ s \notin D
    BY <1>1, <1>4
  <2> HIDE DEF D, I, R, N, M, Long
  <2> QED
    BY <1>2, <1>5, <2>1, <2>2
<1>7. \A s \in Kept : /\ s \in 1 .. N /\ s \in Nat \ {0}
                      /\ newSectionForOldSection(s) = Shift(D, I, s)
                      /\ newSectionForOldSection(s) \in Nat \ {0}
                      /\ newSectionForOldSection(s) \notin InsertedSections
  BY SectionsOfChanges
<1>8. Long => (SizesFit(counts) <=>
                 \A s \in DOMAIN oldCounts \ R, n \in DOMAIN counts : SamePlace(s, n) =>
                   counts[n] = oldCounts[s] - Cardinality(InSection(changes.deleteItems, s))
                                + Cardinality(InSection(changes.insertItems, n)))
  <2> SUFFICES ASSUME Long
               PROVE  SizesFit(counts) <=>
                        \A s \in DOMAIN oldCounts \ R, n \in DOMAIN counts : SamePlace(s, n) =>
                          counts[n] = oldCounts[s] - Cardinality(InSection(changes.deleteItems, s))
                                       + Cardinality(InSection(changes.insertItems, n))
    OBVIOUS
  <2>1. ASSUME NEW s \in DOMAIN oldCounts \ R, NEW n \in DOMAIN counts
        PROVE  SamePlace(s, n) <=> s \in Kept /\ n = newSectionForOldSection(s)
    <3>1. s \in Nat \ {0} /\ n \in Nat \ {0} /\ s \in 1 .. N
      BY <1>1, <1>2
    <3>2. SamePlace(s, n) <=> s \notin D /\ n = Shift(D, I, s)
      BY <3>1, SamePlaceIs
    <3> HIDE DEF D, I, R, N
    <3> QED
      BY <1>4, <1>7, <3>1, <3>2
  <2>2. ASSUME NEW s \in Kept
        PROVE  /\ s \in DOMAIN oldCounts \ R /\ newSectionForOldSection(s) \in DOMAIN counts
               /\ oldCounts[s] \in Nat
               /\ Cardinality(Inserts(s)) \in Nat /\ Cardinality(Deletes(s)) \in Nat
    <3>1. Indexes(Deletes(s)) /\ Indexes(Inserts(s)) /\ oldCounts[s] \in Nat
      BY ItemsOfChanges
    <3>2. Cardinality(Inserts(s)) \in Nat /\ Cardinality(Deletes(s)) \in Nat
      BY <3>1, BelowType, 0 \in Nat
    <3> HIDE DEF D, I, R, N, M, Long
    <3> QED
      BY <1>1, <1>2, <1>4, <1>5, <1>7, <3>1, <3>2
  <2>3. SizesFit(counts) <=>
          \A s \in Kept : counts[newSectionForOldSection(s)]
                            = oldCounts[s] - Cardinality(Deletes(s)) + Cardinality(Inserts(s))
    BY <2>2 DEF SizesFit
  <2> HIDE DEF R, Long
  <2> QED
    BY <2>1, <2>2, <2>3 DEF Deletes, Inserts
<1>9. \A p \in changes.insertItems :
        p[1] \in InsertedSections <=>
          p[1] \in I \/ \E s \in R : SamePlace(s, p[1])
  <2>1. \A r : r \in InsertedSections <=> r \in I \/ \E s \in R : r = Shift(D, I, s)
    BY SectionsOfChanges
  <2>2. \A s \in R : s \in Nat \ {0} /\ s \notin D
    BY <1>1, <1>4
  <2>3. \A p \in changes.insertItems : p[1] \in Nat \ {0}
    BY DEF Consistent, Changes, Paths, Sections
  <2>4. ASSUME NEW p \in changes.insertItems, NEW s \in R
        PROVE  SamePlace(s, p[1]) <=> p[1] = Shift(D, I, s)
    BY <2>2, <2>3, SamePlaceIs
  <2> HIDE DEF D, I, R
  <2> QED
    BY <2>1, <2>4
<1>10. ASSUME Long, SizesFit(counts), NEW q \in changes.reloadItems PROVE There(NewPath(q))
  <2> DEFINE s == q[1]
             n == newSectionForOldSection(s)
             size == oldCounts[s] - Cardinality(Deletes(s)) + Cardinality(Inserts(s))
  <2>1. s \in Kept /\ q = <<s, q[2]>>
    BY DEF Consistent, Changes, Kept, DeletedSections, OldItems, Paths
  <2> HIDE DEF s
  <2>2. /\ Indexes(Deletes(s)) /\ Indexes(Inserts(s)) /\ oldCounts[s] \in Nat
        /\ Deletes(s) \subseteq 1 .. oldCounts[s]
        /\ Reloads(s) \subseteq 1 .. oldCounts[s] /\ Deletes(s) \cap Reloads(s) = {}
    BY <2>1, ItemsOfChanges
  <2>3. q[2] \in Reloads(s)
    <3>1. \A p \in changes.reloadItems : p = <<p[1], p[2]>>
      BY DEF Consistent, Changes, Paths
    <3> QED
      BY <2>1, <3>1, InSectionIs DEF Reloads
  <2>4. Shift(Deletes(s), Inserts(s), q[2]) \in 1 .. size
    BY <2>2, <2>3, ShiftWithin
  <2>5. NewPath(q) = <<n, Shift(Deletes(s), Inserts(s), q[2])>>
    BY DEF NewPath, Deletes, Inserts, s
  <2>6. n \in DOMAIN counts
    BY <1>2, <1>4, <1>5, <1>7, <1>10, <2>1
  <2>7. counts[n] = size
    <3>1. Cardinality(Inserts(s)) \in Nat /\ Cardinality(Deletes(s)) \in Nat
      BY <2>2, BelowType, 0 \in Nat
    <3>2. counts[n] = oldCounts[s] + Cardinality(Inserts(s)) - Cardinality(Deletes(s))
      BY <1>10, <2>1 DEF SizesFit
    <3> HIDE DEF n
    <3> QED
      BY <2>2, <3>1, <3>2
  <2> HIDE DEF n, size
  <2> QED
    BY <2>4, <2>5, <2>6, <2>7
<1>11. (\A p \in InsertedItems : There(p)) <=>
         /\ \A p \in changes.insertItems : p[1] \in InsertedSections \/ There(p)
         /\ \A q \in changes.reloadItems : NewPath(q)[1] \in InsertedSections \/ There(NewPath(q))
  <2>1. \A p : p \in InsertedItems <=>
                /\ p[1] \notin InsertedSections
                /\ p \in changes.insertItems \/ \E q \in changes.reloadItems : p = NewPath(q)
    BY DEF InsertedItems, Outside
  <2> HIDE DEF There
  <2> QED
    BY <2>1
<1>12. \A p \in DeletedItems : p[1] \in DOMAIN oldCounts /\ p[2] <= oldCounts[p[1]]
  BY DEF DeletedItems, Outside, Consistent, OldItems
<1>13. /\ \A s \in Kept : InSection(changes.deleteItems, s) \cap InSection(changes.reloadItems, s) = {}
       /\ SizesFit(counts) <=>
            \A s \in Kept : counts[newSectionForOldSection(s)]
              = oldCounts[s] + Cardinality(InSection(changes.insertItems, newSectionForOldSection(s)))
                  - Cardinality(InSection(changes.deleteItems, s))
  BY ItemsOfChanges DEF SizesFit, Deletes, Reloads, Inserts
<1>14. Validates(counts) <=>
         /\ Long /\ InsertedSections \subseteq DOMAIN counts /\ SizesFit(counts)
         /\ \A p \in InsertedItems : There(p)
  <2> HIDE DEF Long
  <2> QED
    BY <1>1, <1>3, <1>12, <1>13 DEF Validates
<1>15. Fits(counts) <=>
         /\ Long /\ I \subseteq DOMAIN counts
         /\ \A p \in changes.insertItems : There(p) \/ p[1] \in I \/ \E s \in R : SamePlace(s, p[1])
         /\ \A s \in DOMAIN oldCounts \ R, n \in DOMAIN counts : SamePlace(s, n) =>
              counts[n] = oldCounts[s] - Cardinality(InSection(changes.deleteItems, s))
                           + Cardinality(InSection(changes.insertItems, n))
  BY DEF Fits
<1> HIDE DEF D, I, R, Long, There
<1> QED
  BY <1>6, <1>8, <1>9, <1>10, <1>11, <1>14, <1>15

LEMMA InitRejectsMisfits == Init => RejectsMisfits
BY DEF Init, RejectsMisfits

\* Only an open change set changes, and only Complete closes it.
LEMMA StepsOfChangeSet ==
  ASSUME [Next]_vars
  PROVE  \/ UNCHANGED vars
         \/ outcome = "open" /\ outcome' = "open"
         \/ \E counts \in Counts : Complete(counts)
<1>1. CASE UNCHANGED vars
  BY <1>1
<1>2. ASSUME NEW s \in Sections, deleteSection(s) \/ insertSection(s) \/ reloadSection(s)
      PROVE  outcome = "open" /\ outcome' = "open"
  BY <1>2 DEF deleteSection, insertSection, reloadSection, Submit, Open
<1>3. ASSUME NEW p \in Paths, deleteItem(p) \/ insertItem(p) \/ reloadItem(p)
      PROVE  outcome = "open" /\ outcome' = "open"
  BY <1>3 DEF deleteItem, insertItem, reloadItem, Submit, Open
<1>4. ASSUME NEW p \in Paths, NEW q \in Paths, moveItem(p, q)
      PROVE  outcome = "open" /\ outcome' = "open"
  BY <1>4 DEF moveItem, Open
<1>5. ASSUME NEW s \in Sections, NEW t \in Sections, moveSection(s, t)
      PROVE  outcome = "open" /\ outcome' = "open"
  BY <1>5 DEF moveSection, Open
<1>6. CASE reloadData
  BY <1>6 DEF reloadData
<1>7. CASE \E counts \in Counts : Complete(counts)
  BY <1>7
<1> QED
  BY <1>1, <1>2, <1>3, <1>4, <1>5, <1>6, <1>7 DEF Next

LEMMA NextRejectsMisfits == Consistent /\ RejectsMisfits /\ [Next]_vars => RejectsMisfits'
<1> SUFFICES ASSUME Consistent, RejectsMisfits, [Next]_vars PROVE RejectsMisfits'
  OBVIOUS
<1>1. CASE UNCHANGED vars
  BY <1>1 DEF vars, RejectsMisfits, Fits, SamePlace
<1>2. CASE outcome' = "open"
  BY <1>2 DEF RejectsMisfits
<1>3. ASSUME NEW counts \in Counts, Complete(counts) PROVE RejectsMisfits'
  <2>1. /\ newCounts' = counts /\ UNCHANGED <<oldCounts, changes, includesReloadData>>
        /\ ~includesReloadData => outcome' = IF Validates(counts) THEN "accepted" ELSE "rejected"
    BY <1>3 DEF Complete
  <2>2. Fits(newCounts)' <=> Fits(counts)
    BY <2>1 DEF Fits, SamePlace
  <2>3. Validates(counts) <=> Fits(counts)
    BY ValidatesIsFits
  <2> QED
    BY <2>1, <2>2, <2>3 DEF RejectsMisfits
<1> QED
  BY <1>1, <1>2, <1>3, StepsOfChangeSet

\* An update is rejected exactly when the data source does not have the items the
\* changes would leave, whatever the numbers of sections, items and changes: the
\* split lists that -_validateUpdate checks say no more and no less than UIKit's
\* reading of what was submitted.
THEOREM RejectsExactlyMisfits == Spec => []RejectsMisfits
<1>1. Init => Consistent /\ RejectsMisfits
  BY InitConsistent, InitRejectsMisfits
<1>2. (Consistent /\ RejectsMisfits) /\ [Next]_vars => (Consistent /\ RejectsMisfits)'
  BY NextConsistent, NextRejectsMisfits
<1> QED
  BY <1>1, <1>2, PTL DEF Spec

-----------------------------------------------------------------------------
(* The updated map.                                                        *)

LEMMA ElementsOfIs ==
  ASSUME NEW counts \in Counts, NEW isNew \in BOOLEAN
  PROVE  /\ ElementsOf(counts, isNew) \in Seq(Seq(Element))
         /\ Len(ElementsOf(counts, isNew)) = Len(counts)
         /\ \A s \in 1 .. Len(counts) :
              /\ ElementsOf(counts, isNew)[s] \in Seq(Element)
              /\ Len(ElementsOf(counts, isNew)[s]) = counts[s]
              /\ \A i \in 1 .. counts[s] :
                   ElementsOf(counts, isNew)[s][i] = [isNew |-> isNew, path |-> <<s, i>>]
<1> DEFINE all == ElementsOf(counts, isNew)
           N == Len(counts)
<1>1. /\ N \in Nat /\ DOMAIN counts = 1 .. N /\ 1 .. N \subseteq Sections
      /\ \A s \in 1 .. N : counts[s] \in 0 .. MaxItems
  BY CountsAreSequences
<1>2. all = [s \in 1 .. N |-> [i \in 1 .. counts[s] |-> [isNew |-> isNew, path |-> <<s, i>>]]]
  BY <1>1 DEF ElementsOf
<1> HIDE DEF all, N
<1>3. ASSUME NEW s \in 1 .. N
      PROVE  /\ all[s] = [i \in 1 .. counts[s] |-> [isNew |-> isNew, path |-> <<s, i>>]]
             /\ all[s] \in [1 .. counts[s] -> Element] /\ counts[s] \in Nat
  <2>1. all[s] = [i \in 1 .. counts[s] |-> [isNew |-> isNew, path |-> <<s, i>>]]
    BY <1>2
  <2>2. \A i \in 1 .. counts[s] : <<s, i>> \in Paths
    BY <1>1, ChangeSetAssumption DEF Paths
  <2>3. \A i \in 1 .. counts[s] : [isNew |-> isNew, path |-> <<s, i>>] \in Element
    BY <2>2 DEF Element
  <2> QED
    BY <1>1, <2>1, <2>3, ChangeSetAssumption
<1>4. ASSUME NEW s \in 1 .. N
      PROVE  all[s] \in Seq(Element) /\ Len(all[s]) = counts[s]
  BY <1>3, FunctionIsSequence
<1>5. all \in Seq(Seq(Element)) /\ Len(all) = N
  <2>1. all \in [1 .. N -> Seq(Element)]
    BY <1>2, <1>4
  <2> QED
    BY <1>1, <2>1, SeqDef
<1> QED
  BY <1>3, <1>4, <1>5 DEF all, N

\* A deleted section loses no items before it goes.
LEMMA DeletedItemsIndexes ==
  ASSUME Consistent, NEW s \in 1 .. Len(oldCounts)
  PROVE  Indexes(InSection(DeletedItems, s)) /\ InSection(DeletedItems, s) \subseteq 1 .. oldCounts[s]
<1>1. DOMAIN oldCounts = 1 .. Len(oldCounts)
  BY SectionsOfChanges
<1>2. CASE s \in Kept
  <2>1. /\ Indexes(Deletes(s)) /\ Indexes(Reloads(s)) /\ Deletes(s) \cap Reloads(s) = {}
        /\ Deletes(s) \cup Reloads(s) \subseteq 1 .. oldCounts[s]
        /\ InSection(DeletedItems, s) = Deletes(s) \cup Reloads(s)
    BY <1>2, ItemsOfChanges
  <2> QED
    BY <2>1, BelowUnion, 0 \in Nat
<1>3. CASE s \notin Kept
  <2>1. s \in DeletedSections
    BY <1>1, <1>3 DEF Kept
  <2>2. InSection(DeletedItems, s) = {}
    BY <2>1 DEF InSection, DeletedItems, Outside
  <2> QED
    BY <2>2, FS_EmptySet DEF Indexes
<1> QED
  BY <1>2, <1>3

LEMMA WithoutItemsIs ==
  ASSUME Consistent, outcome = "open"
  PROVE  /\ WithoutItems \in Seq(Seq(Element)) /\ Len(WithoutItems) = Len(oldCounts)
         /\ \A s \in 1 .. Len(oldCounts) :
              LET gone == InSection(DeletedItems, s)
              IN  /\ WithoutItems[s] \in Seq(Element)
                  /\ Len(WithoutItems[s]) = oldCounts[s] - Cardinality(gone)
                  /\ \A i \in (1 .. oldCounts[s]) \ gone :
                       WithoutItems[s][i - Below(gone, i)] = [isNew |-> FALSE, path |-> <<s, i>>]
<1> DEFINE N == Len(oldCounts)
           gone(s) == InSection(DeletedItems, s)
<1>1. N \in Nat
  BY SectionsOfChanges
<1>2. /\ map \in Seq(Seq(Element)) /\ Len(map) = N
      /\ \A s \in 1 .. N :
           /\ map[s] \in Seq(Element) /\ Len(map[s]) = oldCounts[s]
           /\ \A i \in 1 .. oldCounts[s] : map[s][i] = [isNew |-> FALSE, path |-> <<s, i>>]
  <2>1. map = ElementsOf(oldCounts, FALSE) /\ oldCounts \in Counts
    BY DEF Consistent
  <2> QED
    BY <2>1, FALSE \in BOOLEAN, ElementsOfIs
<1>3. DOMAIN map = 1 .. N
  BY <1>2
<1>4. WithoutItems = [s \in 1 .. N |-> RemoveAll(map[s], gone(s))]
  BY <1>3 DEF WithoutItems
<1>5. ASSUME NEW s \in 1 .. N
      PROVE  /\ WithoutItems[s] \in Seq(Element)
             /\ Len(WithoutItems[s]) = oldCounts[s] - Cardinality(gone(s))
             /\ \A i \in (1 .. oldCounts[s]) \ gone(s) :
                  WithoutItems[s][i - Below(gone(s), i)] = [isNew |-> FALSE, path |-> <<s, i>>]
  <2>1. WithoutItems[s] = RemoveAll(map[s], gone(s))
    BY <1>4
  <2>2. Indexes(gone(s)) /\ gone(s) \subseteq 1 .. oldCounts[s]
    BY DeletedItemsIndexes
  <2>3. map[s] \in Seq(Element) /\ DOMAIN map[s] = 1 .. oldCounts[s] /\ Len(map[s]) = oldCounts[s]
    BY <1>2
  <2> HIDE DEF gone
  <2>4. /\ RemoveAll(map[s], gone(s)) \in Seq(Element)
        /\ Len(RemoveAll(map[s], gone(s))) = Len(map[s]) - Cardinality(gone(s))
        /\ \A i \in DOMAIN map[s] \ gone(s) :
             RemoveAll(map[s], gone(s))[i - Below(gone(s), i)] = map[s][i]
    BY <2>2, <2>3, RemoveAllIs
  <2> QED
    BY <1>2, <2>1, <2>3, <2>4
<1>6. WithoutItems \in Seq(Seq(Element)) /\ Len(WithoutItems) = N
  <2>1. WithoutItems \in [1 .. N -> Seq(Element)]
    BY <1>4, <1>5
  <2> HIDE DEF N
  <2> QED
    BY <1>1, <2>1, SeqDef
<1> QED
  BY <1>5, <1>6

\* A section of the new map is one made for it, or the old one that has become it.
LEMMA WithSectionsIs ==
  ASSUME Consistent, outcome = "open", NEW counts \in Counts, Validates(counts)
  PROVE  /\ WithSections(counts) \in Seq(Seq(Element))
         /\ Len(WithSections(counts)) = Len(counts)
         /\ \A n \in 1 .. Len(counts) :
              \/ n \in InsertedSections /\ WithSections(counts)[n] = ElementsOf(counts, TRUE)[n]
              \/ \E s \in Kept : /\ n = newSectionForOldSection(s)
                                 /\ WithSections(counts)[n] = WithoutItems[s]
<1> DEFINE N == Len(oldCounts)
           M == Len(counts)
           G == DeletedSections
           J == InsertedSections
<1>1. /\ Indexes(G) /\ Indexes(J) /\ N \in Nat /\ G \subseteq 1 .. N
      /\ DOMAIN oldCounts = 1 .. N
  BY SectionsOfChanges
<1>2. M \in Nat /\ DOMAIN counts = 1 .. M
  BY CountsAreSequences
<1>3. M = N + Cardinality(J) - Cardinality(G) /\ J \subseteq 1 .. M
  BY <1>2 DEF Validates
<1>4. Cardinality(J) \in Nat /\ Cardinality(G) \in Nat
  BY <1>1, BelowType, 0 \in Nat
<1>5. WithoutItems \in Seq(Seq(Element)) /\ Len(WithoutItems) = N /\ DOMAIN WithoutItems = 1 .. N
  BY WithoutItemsIs
<1>6. /\ ElementsOf(counts, TRUE) \in Seq(Seq(Element))
      /\ \A n \in J : ElementsOf(counts, TRUE)[n] \in Seq(Element)
  BY <1>3, ElementsOfIs
<1>7. \A s : s \in Kept <=> s \in 1 .. N /\ s \notin G
  BY <1>1 DEF Kept
<1>8. \A s : newSectionForOldSection(s) = Shift(G, J, s)
  BY DEF newSectionForOldSection
<1> HIDE DEF G, J, N, M
<1>9. /\ WithoutSections \in Seq(Seq(Element)) /\ Len(WithoutSections) = N - Cardinality(G)
      /\ \A s \in (1 .. N) \ G : WithoutSections[s - Below(G, s)] = WithoutItems[s]
  <2>1. WithoutSections = RemoveAll(WithoutItems, G)
    BY DEF WithoutSections, G
  <2> QED
    BY <1>1, <1>5, <2>1, RemoveAllIs
<1>10. /\ WithSections(counts) \in Seq(Seq(Element)) /\ Len(WithSections(counts)) = M
       /\ \A n \in J : WithSections(counts)[n] = ElementsOf(counts, TRUE)[n]
       /\ \A n \in (1 .. M) \ J : WithSections(counts)[n] = WithoutSections[n - Below(J, n)]
  <2>1. WithSections(counts) = InsertAll(WithoutSections, J, ElementsOf(counts, TRUE))
    BY DEF WithSections, J
  <2>2. M = Len(WithoutSections) + Cardinality(J)
    BY <1>1, <1>3, <1>4, <1>9
  <2> DEFINE E == Seq(Element)
             new == ElementsOf(counts, TRUE)
  <2>3. /\ WithoutSections \in Seq(E) /\ Indexes(J) /\ M \in Nat /\ J \subseteq 1 .. M
        /\ \A n \in J : new[n] \in E
    BY <1>1, <1>2, <1>3, <1>6, <1>9
  <2> HIDE DEF E, new
  <2>4. /\ InsertAll(WithoutSections, J, new) \in Seq(E)
        /\ Len(InsertAll(WithoutSections, J, new)) = M
        /\ \A n \in J : InsertAll(WithoutSections, J, new)[n] = new[n]
        /\ \A n \in (1 .. M) \ J :
             InsertAll(WithoutSections, J, new)[n] = WithoutSections[n - Below(J, n)]
    <3>1. Insertable(E, WithoutSections, J, new, M)
      BY <2>2, <2>3 DEF Insertable
    <3> QED
      BY <3>1, InsertAllIs
  <2> QED
    BY <2>1, <2>4 DEF E, new
<1>11. ASSUME NEW n \in (1 .. M) \ J
       PROVE  \E s \in Kept : /\ n = newSectionForOldSection(s)
                              /\ WithSections(counts)[n] = WithoutItems[s]
  <2>1. M = N - Cardinality(G) + Cardinality(J)
    BY <1>1, <1>3, <1>4
  <2>2. PICK s \in 1 .. N : s \notin G /\ n = Shift(G, J, s)
    <3>1. Balanced(G, J, N, M)
      BY <1>1, <1>2, <1>3, <2>1 DEF Balanced
    <3> QED
      BY <3>1, ShiftOnto
  <2>3. s - Below(G, s) = n - Below(J, n)
    <3>1. s \in Nat \ {0}
      BY <1>1
    <3> QED
      BY <1>1, <2>2, <3>1, ShiftMoves DEF Moved
  <2>4. WithSections(counts)[n] = WithoutItems[s]
    BY <1>9, <1>10, <2>2, <2>3
  <2> QED
    BY <1>7, <1>8, <2>2, <2>4
<1> QED
  BY <1>10, <1>11 DEF M, J

\* Where an old item is after the update, if it remains.
LEMMA RemainsIs ==
  ASSUME Consistent, ~includesReloadData,
         NEW s \in 1 .. Len(oldCounts), NEW i \in 1 .. oldCounts[s],
         NEW n \in Nat \ {0}, NEW j \in Nat \ {0}
  PROVE  Remains(<<s, i>>, n, j) <=>
           /\ s \in Kept /\ n = newSectionForOldSection(s)
           /\ i \notin Deletes(s) \cup Reloads(s)
           /\ j = Shift(Deletes(s), Inserts(s), i)
<1>1. <<s, i>>[1] = s /\ <<s, i>>[2] = i /\ s \in Nat \ {0} /\ s \in DOMAIN oldCounts
  BY SectionsOfChanges
<1>2. oldCounts[s] \in Nat /\ i \in Nat \ {0}
  BY <1>1, CountsAreSequences, ChangeSetAssumption DEF Consistent
<1>3. s \in Kept <=> s \notin GoneSections
  BY <1>1 DEF Kept, DeletedSections
<1>4. s \in Kept => (SamePlace(s, n) <=> n = newSectionForOldSection(s))
  BY <1>1, SamePlaceIs, SectionsOfChanges
<1>5. i \in Reloads(s) <=> <<s, i>> \in changes.reloadItems
  <2>1. \A p \in changes.reloadItems : p = <<p[1], p[2]>>
    BY DEF Consistent, Changes, Paths
  <2> QED
    BY <2>1, InSectionIs DEF Reloads
<1>6. s \in Kept /\ n = newSectionForOldSection(s) =>
        (SameItem(s, i, n, j) <=> i \notin Deletes(s) /\ j = Shift(Deletes(s), Inserts(s), i))
  <2> SUFFICES ASSUME s \in Kept, n = newSectionForOldSection(s)
               PROVE  SameItem(s, i, n, j) <=>
                        i \notin Deletes(s) /\ j = Shift(Deletes(s), Inserts(s), i)
    OBVIOUS
  <2>1. Indexes(Deletes(s)) /\ Indexes(Inserts(s))
    BY ItemsOfChanges
  <2>2. SameItem(s, i, n, j) <=> Partner(Deletes(s), Inserts(s), i, j)
    BY DEF SameItem, Deletes, Inserts
  <2> QED
    BY <1>2, <2>1, <2>2, PartnerIsShift
<1>7. Remains(<<s, i>>, n, j) <=>
        s \notin GoneSections /\ SamePlace(s, n) /\ i \notin Reloads(s) /\ SameItem(s, i, n, j)
  BY <1>1, <1>5 DEF Remains
<1> QED
  BY <1>3, <1>4, <1>6, <1>7

LEMMA OldItemsAre ==
  ASSUME Consistent, NEW p
  PROVE  p \in OldItems <=> \E s \in 1 .. Len(oldCounts) : \E i \in 1 .. oldCounts[s] : p = <<s, i>>
<1>1. /\ DOMAIN oldCounts = 1 .. Len(oldCounts) /\ DOMAIN oldCounts \subseteq Sections
      /\ \A s \in 1 .. Len(oldCounts) : oldCounts[s] \in 0 .. MaxItems
  BY CountsAreSequences DEF Consistent
<1>2. ASSUME p \in OldItems
      PROVE  \E s \in 1 .. Len(oldCounts) : \E i \in 1 .. oldCounts[s] : p = <<s, i>>
  <2>1. p \in Paths /\ p[1] \in 1 .. Len(oldCounts) /\ p[2] <= oldCounts[p[1]]
    BY <1>1, <1>2 DEF OldItems
  <2>2. p = <<p[1], p[2]>> /\ p[2] \in 1 .. MaxItems
    BY <2>1 DEF Paths
  <2>3. p[2] \in 1 .. oldCounts[p[1]]
    BY <1>1, <2>1, <2>2, ChangeSetAssumption
  <2> QED
    BY <2>1, <2>2, <2>3
<1>3. ASSUME NEW s \in 1 .. Len(oldCounts), NEW i \in 1 .. oldCounts[s] PROVE <<s, i>> \in OldItems
  <2>1. oldCounts[s] \in 0 .. MaxItems /\ i \in 1 .. MaxItems /\ i <= oldCounts[s]
    BY <1>1, ChangeSetAssumption
  <2>2. <<s, i>> \in Paths
    BY <1>1, <2>1 DEF Paths
  <2> QED
    BY <1>1, <2>1, <2>2 DEF OldItems
<1> QED
  BY <1>2, <1>3

\* Section n of an updated map has elements as they should be.
SectionMatches(counts, n, elements) ==
  /\ elements \in Seq(Element) /\ Len(elements) = counts[n]
  /\ \A j \in 1 .. counts[n] : StandsFor(elements[j], n, j)

LEMMA NewSectionMatches ==
  ASSUME Consistent, ~includesReloadData, NEW counts \in Counts,
         NEW n \in 1 .. Len(counts), n \in InsertedSections
  PROVE  SectionMatches(counts, n, InsertAll(ElementsOf(counts, TRUE)[n],
                                              InSection(InsertedItems, n),
                                              ElementsOf(counts, TRUE)[n]))
<1> DEFINE new == ElementsOf(counts, TRUE)[n]
           u == InsertAll(new, InSection(InsertedItems, n), new)
<1>1. counts[n] \in Nat /\ n \in Nat \ {0}
  BY CountsAreSequences, ChangeSetAssumption
<1>2. /\ new \in Seq(Element) /\ Len(new) = counts[n]
      /\ \A j \in 1 .. counts[n] : new[j] = [isNew |-> TRUE, path |-> <<n, j>>]
  BY ElementsOfIs, TRUE \in BOOLEAN
<1>3. InSection(InsertedItems, n) = {}
  BY DEF InSection, InsertedItems, Outside
<1> HIDE DEF new
<1>4. Indexes({}) /\ Cardinality({}) = 0 /\ \A j \in Nat : Below({}, j) = 0
  <2>1. Indexes({})
    BY FS_EmptySet DEF Indexes
  <2>2. \A j \in Nat : {i \in {} : i < j} = {}
    OBVIOUS
  <2> QED
    BY <2>1, <2>2, FS_EmptySet DEF Below
<1>5. Insertable(Element, new, {}, new, counts[n])
  BY <1>1, <1>2, <1>4 DEF Insertable
<1>6. /\ u \in Seq(Element) /\ Len(u) = counts[n]
      /\ \A j \in (1 .. counts[n]) \ {} : u[j] = new[j - Below({}, j)]
  BY <1>3, <1>5, InsertAllIs
<1> HIDE DEF u
<1>7. ASSUME NEW j \in 1 .. counts[n] PROVE StandsFor(u[j], n, j)
  <2>1. j \in Nat \ {0} /\ j - 0 = j
    BY <1>1
  <2>2. u[j] = [isNew |-> TRUE, path |-> <<n, j>>]
    BY <1>2, <1>4, <1>6, <2>1
  <2>3. ASSUME NEW p \in OldItems, Remains(p, n, j) PROVE FALSE
    <3>1. PICK s \in 1 .. Len(oldCounts) : \E i \in 1 .. oldCounts[s] : p = <<s, i>>
      BY OldItemsAre
    <3>2. PICK i \in 1 .. oldCounts[s] : p = <<s, i>>
      BY <3>1
    <3>3. s \in Kept /\ n = newSectionForOldSection(s)
      BY <1>1, <2>1, <2>3, <3>2, RemainsIs
    <3> QED
      BY <3>3, SectionsOfChanges
  <2> QED
    BY <2>2, <2>3 DEF StandsFor
<1> QED
  BY <1>6, <1>7 DEF SectionMatches, u, new

LEMMA OldSectionMatches ==
  ASSUME Consistent, ~includesReloadData, outcome = "open",
         NEW counts \in Counts, Validates(counts), NEW s \in Kept,
         NEW n \in 1 .. Len(counts), n = newSectionForOldSection(s)
  PROVE  SectionMatches(counts, n, InsertAll(WithoutItems[s], InSection(InsertedItems, n),
                                              ElementsOf(counts, TRUE)[n]))
<1> DEFINE D == Deletes(s)
           R == Reloads(s)
           I == Inserts(s)
           G == D \cup R
           J == I \cup Image(D, I, R)
           new == ElementsOf(counts, TRUE)[n]
           old == WithoutItems[s]
           u == InsertAll(old, InSection(InsertedItems, n), new)
           N == oldCounts[s]
           M == counts[n]
<1>1. /\ Indexes(D) /\ Indexes(R) /\ Indexes(I) /\ D \cap R = {} /\ R \cap D = {}
      /\ N \in Nat /\ G \subseteq 1 .. N
      /\ InSection(DeletedItems, s) = G /\ InSection(InsertedItems, n) = J
  BY ItemsOfChanges
<1>2. /\ n \notin InsertedSections /\ s \in 1 .. Len(oldCounts)
      /\ n \in DOMAIN counts /\ n \in Nat \ {0} /\ M \in Nat
  BY SectionsOfChanges, CountsAreSequences, ChangeSetAssumption
<1>3. M = N + Cardinality(I) - Cardinality(D)
  BY DEF Validates, Deletes, Inserts
<1>4. J \subseteq 1 .. M
  <2>1. ASSUME NEW j \in J PROVE j <= M
    <3>1. j \in InSection(InsertedItems, n)
      BY <1>1, <2>1
    <3>2. PICK p \in InsertedItems : p[1] = n /\ p[2] = j
      BY <3>1 DEF InSection
    <3> QED
      BY <3>2 DEF Validates
  <2>2. Indexes(J)
    <3>1. Indexes(Image(D, I, R)) /\ I \cap Image(D, I, R) = {}
      BY <1>1, ImageIndexes
    <3> QED
      BY <1>1, <3>1, BelowUnion, 0 \in Nat
  <2>3. J \subseteq Nat \ {0}
    BY <2>2 DEF Indexes
  <2> HIDE DEF J, M
  <2> QED
    BY <1>2, <2>1, <2>3
<1>5. /\ new \in Seq(Element) /\ Len(new) = M
      /\ \A j \in 1 .. M : new[j] = [isNew |-> TRUE, path |-> <<n, j>>]
  BY ElementsOfIs, TRUE \in BOOLEAN
<1>6. /\ old \in Seq(Element) /\ Len(old) = N - Cardinality(G)
      /\ \A i \in (1 .. N) \ G : old[i - Below(G, i)] = [isNew |-> FALSE, path |-> <<s, i>>]
  BY <1>1, <1>2, WithoutItemsIs
<1> HIDE DEF D, R, I, new, old, N, M
<1>7. /\ Indexes(Image(D, I, R)) /\ I \cap Image(D, I, R) = {}
      /\ Cardinality(Image(D, I, R)) = Cardinality(R)
  BY <1>1, ImageIndexes
<1>8. /\ Indexes(G) /\ Cardinality(G) = Cardinality(D) + Cardinality(R)
      /\ Indexes(J) /\ Cardinality(J) = Cardinality(I) + Cardinality(R)
  <2>1. Indexes(D \cup R) /\ Cardinality(D \cup R) = Cardinality(D) + Cardinality(R)
    BY <1>1, BelowUnion, 0 \in Nat
  <2> DEFINE K == Image(D, I, R)
  <2>2. Indexes(K) /\ I \cap K = {} /\ Cardinality(K) = Cardinality(R)
    BY <1>7
  <2> HIDE DEF K
  <2>3. Indexes(I \cup K) /\ Cardinality(I \cup K) = Cardinality(I) + Cardinality(K)
    BY <1>1, <2>2, BelowUnion, 0 \in Nat
  <2> QED
    BY <2>1, <2>2, <2>3 DEF K
<1>9. Cardinality(D) \in Nat /\ Cardinality(I) \in Nat /\ Cardinality(R) \in Nat
  BY <1>1, BelowType, 0 \in Nat
<1>10. \A i \in Nat \ {0} : i \notin G => Shift(G, J, i) = Shift(D, I, i)
  BY <1>1, ReloadsMoveNothing
<1> HIDE DEF G, J
<1>11. Balanced(G, J, N, M)
  BY <1>1, <1>2, <1>3, <1>4, <1>8, <1>9 DEF Balanced
<1>12. Insertable(Element, old, J, new, M)
  <2>1. M = Len(old) + Cardinality(J)
    BY <1>1, <1>3, <1>6, <1>8, <1>9
  <2>2. \A j \in 1 .. M : new[j] \in Element
    BY <1>5
  <2> QED
    BY <1>2, <1>4, <1>6, <1>8, <2>1, <2>2 DEF Insertable
<1>13. /\ u \in Seq(Element) /\ Len(u) = M
       /\ \A j \in J : u[j] = new[j]
       /\ \A j \in (1 .. M) \ J : u[j] = old[j - Below(J, j)]
  BY <1>1, <1>12, InsertAllIs
<1> HIDE DEF u
<1>14. ASSUME NEW j \in 1 .. M, NEW t \in 1 .. Len(oldCounts), NEW i \in 1 .. oldCounts[t]
       PROVE  Remains(<<t, i>>, n, j) <=> t = s /\ i \notin G /\ j = Shift(G, J, i)
  <2>1. j \in Nat \ {0}
    BY <1>2
  <2>2. Remains(<<t, i>>, n, j) <=>
          /\ t \in Kept /\ n = newSectionForOldSection(t)
          /\ i \notin Deletes(t) \cup Reloads(t) /\ j = Shift(Deletes(t), Inserts(t), i)
    BY <1>2, <2>1, RemainsIs
  <2>3. t \in Kept /\ n = newSectionForOldSection(t) <=> t = s
    BY NewSectionsDiffer
  <2>4. t = s => i \in Nat \ {0}
    BY <1>1 DEF N
  <2> QED
    BY <1>10, <2>2, <2>3, <2>4 DEF G, D, R, I
<1>15. ASSUME NEW j \in 1 .. M PROVE StandsFor(u[j], n, j)
  <2>1. CASE j \in J
    <3>1. u[j] = [isNew |-> TRUE, path |-> <<n, j>>]
      BY <1>5, <1>13, <2>1
    <3>2. ASSUME NEW p \in OldItems, Remains(p, n, j) PROVE FALSE
      <4>1. PICK t \in 1 .. Len(oldCounts) : \E i \in 1 .. oldCounts[t] : p = <<t, i>>
        BY OldItemsAre
      <4>2. PICK i \in 1 .. oldCounts[t] : p = <<t, i>>
        BY <4>1
      <4>3. t = s /\ i \notin G /\ j = Shift(G, J, i)
        BY <1>14, <3>2, <4>2
      <4>4. i \in Nat \ {0}
        BY <1>1, <4>3 DEF N
      <4>5. Shift(G, J, i) \notin J
        BY <1>8, <4>4, ShiftMoves DEF Moved
      <4> QED
        BY <2>1, <4>3, <4>5
    <3> QED
      BY <3>1, <3>2 DEF StandsFor
  <2>2. CASE j \notin J
    <3>1. PICK i \in 1 .. N : i \notin G /\ j = Shift(G, J, i)
      BY <1>11, <2>2, ShiftOnto
    <3>2. i \in Nat \ {0}
      BY <1>1
    <3>3. i - Below(G, i) = j - Below(J, j)
      BY <1>8, <3>1, <3>2, ShiftMoves DEF Moved
    <3>4. u[j] = [isNew |-> FALSE, path |-> <<s, i>>]
      BY <1>6, <1>13, <2>2, <3>1, <3>3
    <3>5. <<s, i>> \in OldItems
      BY <1>2, <3>1, OldItemsAre DEF N
    <3>6. Remains(<<s, i>>, n, j)
      BY <1>2, <1>14, <3>1 DEF N
    <3> QED
      BY <3>4, <3>5, <3>6 DEF StandsFor
  <2> QED
    BY <2>1, <2>2
<1> QED
  BY <1>13, <1>15 DEF SectionMatches, u, old, new, M

LEMMA UpdatedMapMatches ==
  ASSUME Consistent, outcome = "open", ~includesReloadData,
         NEW counts \in Counts, Validates(counts)
  PROVE  ElementsMatch(counts, UpdatedMap(counts))
<1> DEFINE M == Len(counts)
           sections == WithSections(counts)
           updated == UpdatedMap(counts)
           section(n) == InsertAll(sections[n], InSection(InsertedItems, n), ElementsOf(counts, TRUE)[n])
<1>1. /\ sections \in Seq(Seq(Element)) /\ Len(sections) = M
      /\ \A n \in 1 .. M :
           \/ n \in InsertedSections /\ sections[n] = ElementsOf(counts, TRUE)[n]
           \/ \E s \in Kept : n = newSectionForOldSection(s) /\ sections[n] = WithoutItems[s]
  BY WithSectionsIs
<1>2. M \in Nat
  BY CountsAreSequences
<1>3. updated = [n \in 1 .. M |-> section(n)]
  <2>1. DOMAIN sections = 1 .. M
    BY <1>1
  <2> QED
    BY <2>1 DEF UpdatedMap
<1>4. ASSUME NEW n \in 1 .. M PROVE SectionMatches(counts, n, section(n))
  <2>1. CASE n \in InsertedSections /\ sections[n] = ElementsOf(counts, TRUE)[n]
    BY <2>1, NewSectionMatches
  <2>2. ASSUME NEW s \in Kept, n = newSectionForOldSection(s), sections[n] = WithoutItems[s]
        PROVE  SectionMatches(counts, n, section(n))
    BY <2>2, OldSectionMatches
  <2> QED
    BY <1>1, <2>1, <2>2
<1> HIDE DEF sections, updated, section, M
<1>5. ASSUME NEW n \in 1 .. M
      PROVE  /\ updated[n] \in Seq(Element) /\ Len(updated[n]) = counts[n]
             /\ \A j \in 1 .. counts[n] : StandsFor(updated[n][j], n, j)
  BY <1>3, <1>4 DEF SectionMatches
<1>6. updated \in [1 .. M -> Seq(Element)]
  BY <1>3, <1>5
<1>7. updated \in Seq(Seq(Element)) /\ Len(updated) = M /\ DOMAIN updated = 1 .. M
  BY <1>2, <1>3, <1>6, FunctionIsSequence
<1>8. ASSUME NEW n \in DOMAIN updated, NEW j \in DOMAIN updated[n]
      PROVE  StandsFor(updated[n][j], n, j)
  <2>1. j \in 1 .. counts[n]
    BY <1>5, <1>7
  <2> QED
    BY <1>5, <1>7, <2>1
<1> QED
  BY <1>5, <1>7, <1>8 DEF ElementsMatch, M, updated

LEMMA ReloadedMapMatches ==
  ASSUME includesReloadData, NEW counts \in Counts
  PROVE  ElementsMatch(counts, ElementsOf(counts, TRUE))
<1> DEFINE all == ElementsOf(counts, TRUE)
           M == Len(counts)
<1>1. /\ all \in Seq(Seq(Element)) /\ Len(all) = M
      /\ \A n \in 1 .. M :
           /\ all[n] \in Seq(Element) /\ Len(all[n]) = counts[n]
           /\ \A j \in 1 .. counts[n] : all[n][j] = [isNew |-> TRUE, path |-> <<n, j>>]
  BY ElementsOfIs, TRUE \in BOOLEAN
<1> HIDE DEF all
<1>2. DOMAIN all = 1 .. M /\ \A n \in 1 .. M : DOMAIN all[n] = 1 .. counts[n]
  BY <1>1
<1>3. ASSUME NEW n \in 1 .. M, NEW j \in 1 .. counts[n] PROVE StandsFor(all[n][j], n, j)
  <2>1. all[n][j] = [isNew |-> TRUE, path |-> <<n, j>>]
    BY <1>1
  <2>2. \A p \in OldItems : ~Remains(p, n, j)
    BY DEF Remains
  <2> QED
    BY <2>1, <2>2 DEF StandsFor
<1> QED
  BY <1>1, <1>2, <1>3 DEF ElementsMatch, all

LEMMA NextElementsMatchItems ==
  Consistent /\ ElementsMatchItems /\ [Next]_vars => ElementsMatchItems'
<1> SUFFICES ASSUME Consistent, ElementsMatchItems, [Next]_vars PROVE ElementsMatchItems'
  OBVIOUS
<1>1. ASSUME UNCHANGED <<oldCounts, changes, includesReloadData>>,
             NEW counts, NEW elements, newCounts' = counts, map' = elements,
             ElementsMatch(counts, elements)
      PROVE  ElementsMatchItems'
  <2>1. \A p, n, j : Remains(p, n, j)' <=> Remains(p, n, j)
    BY <1>1 DEF Remains, GoneSections, SamePlace, SameItem
  <2>2. OldItems' = OldItems
    BY <1>1 DEF OldItems
  <2>3. \A e, n, j : StandsFor(e, n, j)' <=> StandsFor(e, n, j)
    BY <2>1, <2>2 DEF StandsFor
  <2>4. ElementsMatch(newCounts, map)'
    BY <1>1, <2>3 DEF ElementsMatch
  <2> QED
    BY <2>4 DEF ElementsMatchItems
<1>2. CASE UNCHANGED vars
  <2>1. /\ UNCHANGED <<oldCounts, changes, includesReloadData>> /\ newCounts' = newCounts /\ map' = map
        /\ outcome' = outcome
    BY <1>2 DEF vars
  <2>2. CASE outcome = "accepted"
    BY <1>1, <2>1, <2>2 DEF ElementsMatchItems
  <2> QED
    BY <2>1, <2>2 DEF ElementsMatchItems
<1>3. CASE outcome' = "open"
  BY <1>3 DEF ElementsMatchItems
<1>4. ASSUME NEW counts \in Counts, Complete(counts) PROVE ElementsMatchItems'
  <2>1. /\ UNCHANGED <<oldCounts, changes, includesReloadData>> /\ newCounts' = counts
        /\ outcome = "open"
    BY <1>4 DEF Complete
  <2>2. CASE includesReloadData
    BY <1>1, <1>4, <2>1, <2>2, ReloadedMapMatches DEF Complete
  <2>3. CASE ~includesReloadData /\ Validates(counts)
    BY <1>1, <1>4, <2>1, <2>3, UpdatedMapMatches DEF Complete
  <2>4. CASE ~includesReloadData /\ ~Validates(counts)
    BY <1>4, <2>4 DEF Complete, ElementsMatchItems
  <2> QED
    BY <2>2, <2>3, <2>4
<1> QED
  BY <1>2, <1>3, <1>4, StepsOfChangeSet

\* After an accepted update each element of the map is at the index path of the
\* item it stands for, whatever the numbers of sections, items and changes: deletes
\* from the last index to the first and inserts from the first to the last give
\* the places that UIKit's reading of the changes gives.
THEOREM ElementsAlwaysMatchItems == Spec => []ElementsMatchItems
<1>1. Init => Consistent /\ ElementsMatchItems
  BY InitConsistent DEF Init, ElementsMatchItems
<1>2. (Consistent /\ ElementsMatchItems) /\ [Next]_vars => (Consistent /\ ElementsMatchItems)'
  BY NextConsistent, NextElementsMatchItems
<1> QED
  BY <1>1, <1>2, PTL DEF Spec
=============================================================================
