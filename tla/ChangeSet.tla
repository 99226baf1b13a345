----------------------------- MODULE ChangeSet -----------------------------
(***************************************************************************)
(* _ASHierarchyChangeSet: a client submits changes of items and sections,  *)
(* the change set is completed with the data source's new item counts,     *)
(* split into deletes and inserts and validated, and ASDataController      *)
(* applies it to its map of elements.                                      *)
(*                                                                         *)
(* Indexes start at 1.  An index path is submitted once for each kind of   *)
(* change, so that the lists of changes are sets, and options of animation *)
(* are left out: changes are applied in the order of their indexes, by     *)
(* whatever options they are grouped.                                      *)
(***************************************************************************)
EXTENDS Integers, FiniteSets, Sequences, SequencesExt

CONSTANTS
  MaxSections,   \* bound: sections before the update, and after it
  MaxItems,      \* bound: items of a section, before and after
  MaxChanges     \* bound: changes submitted

ASSUME ChangeSetAssumption ==
  /\ MaxSections \in Nat /\ MaxItems \in Nat /\ MaxChanges \in Nat

VARIABLES
  oldCounts,     \* _oldItemCounts
  changes,       \* the changes submitted
  includesReloadData,
  outcome,       \* "open", then "accepted" or "rejected"
  newCounts,     \* _newItemCounts
  map            \* the map of elements: a sequence of sections

vars == <<oldCounts, changes, includesReloadData, outcome, newCounts, map>>

Sections == 1 .. MaxSections
Paths == Sections \X (1 .. MaxItems)
Counts == UNION {[1 .. n -> 0 .. MaxItems] : n \in 0 .. MaxSections}

\* An element, and where the data source has the item it was made for.
Element == [isNew : BOOLEAN, path : Paths]
ElementsOf(counts, isNew) ==
  [s \in DOMAIN counts |-> [i \in 1 .. counts[s] |-> [isNew |-> isNew, path |-> <<s, i>>]]]

NoChanges ==
  [deleteSections |-> {}, insertSections |-> {}, reloadSections |-> {},
   deleteItems |-> {}, insertItems |-> {}, reloadItems |-> {}]

Init ==
  /\ oldCounts \in Counts
  /\ changes = NoChanges
  /\ includesReloadData = FALSE
  /\ outcome = "open"
  /\ newCounts = << >>
  /\ map = ElementsOf(oldCounts, FALSE)

-----------------------------------------------------------------------------
(* Submitting changes.  Clients delete and reload what there is, do not    *)
(* reload what they delete, nor items of a section they reload or delete.  *)

Size ==
  Cardinality(changes.deleteSections) + Cardinality(changes.insertSections)
    + Cardinality(changes.reloadSections) + Cardinality(changes.deleteItems)
    + Cardinality(changes.insertItems) + Cardinality(changes.reloadItems)

Open == outcome = "open" /\ Size < MaxChanges

OldItems == {p \in Paths : p[1] \in DOMAIN oldCounts /\ p[2] <= oldCounts[p[1]]}
GoneSections == changes.deleteSections \cup changes.reloadSections

Submit(kind, index) ==
  /\ Open
  /\ changes' = [changes EXCEPT ![kind] = @ \cup {index}]
  /\ UNCHANGED <<oldCounts, includesReloadData, outcome, newCounts, map>>

CanDeleteSection(s) ==
  /\ s \in DOMAIN oldCounts \ changes.reloadSections
  /\ \A p \in changes.reloadItems : p[1] # s
CanDeleteItem(p) == p \in OldItems \ changes.reloadItems

deleteSection(s) == CanDeleteSection(s) /\ Submit("deleteSections", s)
insertSection(s) == Submit("insertSections", s)
reloadSection(s) ==
  /\ s \in DOMAIN oldCounts \ changes.deleteSections
  /\ \A p \in changes.reloadItems : p[1] # s
  /\ Submit("reloadSections", s)
deleteItem(p) == CanDeleteItem(p) /\ Submit("deleteItems", p)
insertItem(p) == Submit("insertItems", p)
reloadItem(p) ==
  /\ p \in OldItems \ changes.deleteItems /\ p[1] \notin GoneSections
  /\ Submit("reloadItems", p)

\* A move is a delete and an insert.
moveItem(p, q) ==
  /\ Open /\ CanDeleteItem(p)
  /\ changes' = [changes EXCEPT !.deleteItems = @ \cup {p}, !.insertItems = @ \cup {q}]
  /\ UNCHANGED <<oldCounts, includesReloadData, outcome, newCounts, map>>

moveSection(s, t) ==
  /\ Open /\ CanDeleteSection(s)
  /\ changes' = [changes EXCEPT !.deleteSections = @ \cup {s}, !.insertSections = @ \cup {t}]
  /\ UNCHANGED <<oldCounts, includesReloadData, outcome, newCounts, map>>

reloadData ==
  /\ outcome = "open" /\ ~includesReloadData
  /\ includesReloadData' = TRUE
  /\ UNCHANGED <<oldCounts, changes, outcome, newCounts, map>>

-----------------------------------------------------------------------------
(* Index sets.                                                             *)

Below(indexes, index) == Cardinality({i \in indexes : i < index})
InSection(paths, s) == {p[2] : p \in {q \in paths : q[1] = s}}

\* Mutant: an index equal to an inserted one stays.
indexChangeByInsertingStrictlyBelow(inserted, index) ==
  LET last == index + Cardinality(inserted)
      new[n \in 0 .. last] ==
        IF n = 0 THEN index
        ELSE IF n \in inserted /\ n < new[n - 1] THEN new[n - 1] + 1
        ELSE new[n - 1]
  IN  new[last] - index

\* -as_indexChangeByInsertingItemsBelowIndex: new[n] is newIndex when the inserted
\* indexes up to n have been enumerated; none after the last can count.
indexChangeByInsertingItemsBelowIndex(inserted, index) ==
  LET last == index + Cardinality(inserted)
      new[n \in 0 .. last] ==
        IF n = 0 THEN index
        ELSE IF n \in inserted /\ n <= new[n - 1] THEN new[n - 1] + 1
        ELSE new[n - 1]
  IN  new[last] - index

Shift(deleted, inserted, index) ==
  LET left == index - Below(deleted, index)
  IN  left + indexChangeByInsertingItemsBelowIndex(inserted, left)

-----------------------------------------------------------------------------
(* -_sortAndCoalesceChangeArrays                                           *)

\* _deletedSections and _insertedSections.
DeletedSections == GoneSections
InsertedSections ==
  changes.insertSections
    \cup {Shift(changes.deleteSections, changes.insertSections, s) : s \in changes.reloadSections}

newSectionForOldSection(s) == Shift(DeletedSections, InsertedSections, s)

NewPath(p) ==
  LET s == newSectionForOldSection(p[1])
  IN  <<s, Shift(InSection(changes.deleteItems, p[1]), InSection(changes.insertItems, s), p[2])>>

Outside(paths, sections) == {p \in paths : p[1] \notin sections}

\* Mutant: also inserts in sections that are new anyway.
InsertedItemsAll == changes.insertItems \cup {NewPath(p) : p \in changes.reloadItems}

\* _deleteItemChanges and _insertItemChanges.
DeletedItems == Outside(changes.deleteItems \cup changes.reloadItems, DeletedSections)
InsertedItems ==
  Outside(changes.insertItems \cup {NewPath(p) : p \in changes.reloadItems}, InsertedSections)

-----------------------------------------------------------------------------
(* -_validateUpdate, for the item counts after the update.                 *)

Kept == DOMAIN oldCounts \ DeletedSections

Validates(counts) ==
  /\ Len(counts) = Len(oldCounts) + Cardinality(InsertedSections) - Cardinality(DeletedSections)
  /\ DeletedSections \subseteq DOMAIN oldCounts
  /\ \A p \in DeletedItems : p[1] \in DOMAIN oldCounts /\ p[2] <= oldCounts[p[1]]
  /\ \A p \in InsertedItems : p[1] \in DOMAIN counts /\ p[2] <= counts[p[1]]
  /\ InsertedSections \subseteq DOMAIN counts
  /\ \A s \in Kept :
       LET inserted == InSection(changes.insertItems, newSectionForOldSection(s))
           deleted == InSection(changes.deleteItems, s)
       IN  /\ deleted \cap InSection(changes.reloadItems, s) = {}
           /\ counts[newSectionForOldSection(s)]
                = oldCounts[s] + Cardinality(inserted) - Cardinality(deleted)

-----------------------------------------------------------------------------
(* -_updateElementsInMap:, deletes from the last index to the first,       *)
(* inserts from the first to the last.  What happens in one section is     *)
(* independent of the others, so items are taken section by section.       *)

\* rest[n] is what is left when the n last indexes of the list have been dealt with.
RemoveAll(list, indexes) ==
  LET rest[n \in 0 .. Len(list)] ==
        IF n = 0 THEN list
        ELSE IF Len(list) - n + 1 \in indexes THEN RemoveAt(rest[n - 1], Len(list) - n + 1)
        ELSE rest[n - 1]
  IN  rest[Len(list)]

\* with[n] is the list with what is inserted at the indexes up to n.
InsertAll(list, indexes, new) ==
  LET last == Len(list) + Cardinality(indexes)
      with[n \in 0 .. last] ==
        IF n = 0 THEN list
        ELSE IF n \in indexes THEN InsertAt(with[n - 1], n, new[n])
        ELSE with[n - 1]
  IN  with[last]

WithoutItems == [s \in DOMAIN map |-> RemoveAll(map[s], InSection(DeletedItems, s))]
WithoutSections == RemoveAll(WithoutItems, DeletedSections)
WithSections(counts) == InsertAll(WithoutSections, InsertedSections, ElementsOf(counts, TRUE))

UpdatedMap(counts) ==
  LET sections == WithSections(counts)
  IN  [s \in DOMAIN sections |->
        InsertAll(sections[s], InSection(InsertedItems, s), ElementsOf(counts, TRUE)[s])]

\* -markCompletedWithNewItemCounts: and, when that raises nothing, the update.
Complete(counts) ==
  /\ outcome = "open"
  /\ newCounts' = counts
  /\ IF includesReloadData
     THEN outcome' = "accepted" /\ map' = ElementsOf(counts, TRUE)
     ELSE IF Validates(counts)
     THEN outcome' = "accepted" /\ map' = UpdatedMap(counts)
     ELSE outcome' = "rejected" /\ map' = map
  /\ UNCHANGED <<oldCounts, changes, includesReloadData>>

Next ==
  \/ \E s \in Sections : deleteSection(s) \/ insertSection(s) \/ reloadSection(s)
  \/ \E p \in Paths : deleteItem(p) \/ insertItem(p) \/ reloadItem(p)
  \/ \E p, q \in Paths : moveItem(p, q)
  \/ \E s, t \in Sections : moveSection(s, t)
  \/ reloadData
  \/ \E counts \in Counts : Complete(counts)

Spec == Init /\ [][Next]_vars

-----------------------------------------------------------------------------
(* What UIKit makes of the same changes.  Deletes and reloads are at the   *)
(* indexes before the update, inserts at those after it; what is left      *)
(* keeps its order in what is not inserted.                                *)

Partner(deleted, inserted, before, after) ==
  /\ before \notin deleted /\ after \notin inserted
  /\ before - Below(deleted, before) = after - Below(inserted, after)

SamePlace(s, n) == Partner(changes.deleteSections, changes.insertSections, s, n)
SameItem(s, i, n, j) ==
  Partner(InSection(changes.deleteItems, s), InSection(changes.insertItems, n), i, j)

\* The data source's new items are those that the changes make of the old ones.
Fits(counts) ==
  /\ Len(counts) = Len(oldCounts) - Cardinality(changes.deleteSections)
                    + Cardinality(changes.insertSections)
  /\ changes.insertSections \subseteq DOMAIN counts
  /\ \A p \in changes.insertItems :
       \/ p[1] \in DOMAIN counts /\ p[2] <= counts[p[1]]
       \/ p[1] \in changes.insertSections
       \/ \E s \in changes.reloadSections : SamePlace(s, p[1])
  /\ \A s \in DOMAIN oldCounts \ changes.reloadSections, n \in DOMAIN counts :
       SamePlace(s, n) =>
         counts[n] = oldCounts[s] - Cardinality(InSection(changes.deleteItems, s))
                      + Cardinality(InSection(changes.insertItems, n))

\* The old item p is the new item j of section n.
Remains(p, n, j) ==
  /\ ~includesReloadData
  /\ p[1] \notin GoneSections /\ SamePlace(p[1], n)
  /\ p \notin changes.reloadItems /\ SameItem(p[1], p[2], n, j)

\* The element is an old one of the item that has become item j of section n, and a
\* new one where none has.
StandsFor(element, n, j) ==
  IF element.isNew
  THEN element.path = <<n, j>> /\ ~\E p \in OldItems : Remains(p, n, j)
  ELSE element.path \in OldItems /\ Remains(element.path, n, j)

ElementsMatch(counts, elements) ==
  /\ Len(elements) = Len(counts)
  /\ \A n \in DOMAIN elements :
       /\ Len(elements[n]) = counts[n]
       /\ \A j \in DOMAIN elements[n] : StandsFor(elements[n][j], n, j)

-----------------------------------------------------------------------------
(* Properties.                                                             *)

\* An update is rejected exactly when the data source does not have the items
\* the changes would leave: -_validateUpdate checks the split lists (429-547).
RejectsMisfits ==
  outcome # "open" /\ ~includesReloadData => (outcome = "accepted" <=> Fits(newCounts))

\* After an accepted update each element is at the index path of the item it
\* stands for: an old one that was neither deleted nor reloaded where UIKit has
\* moved it, and elsewhere one made for that very index path.
ElementsMatchItems == outcome = "accepted" => ElementsMatch(newCounts, map)
=============================================================================
