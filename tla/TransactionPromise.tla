------------------------- MODULE TransactionPromise -------------------------
(***************************************************************************)
(* What _ASAsyncTransaction.h promises of one transaction, with no queue,  *)
(* thread or run loop: every operation's completion block is called once,  *)
(* in the order the operations were added, after the execution blocks of   *)
(* all of them; execution blocks are skipped only if the completion blocks *)
(* are then told that the transaction was canceled.                        *)
(***************************************************************************)
EXTENDS Naturals, Sequences

CONSTANT Ops

VARIABLES
  added,      \* the operations, in the order they were added
  closed,     \* the transaction takes no more operations
  outcome,    \* "none", "ran" or "skipped": what became of each execution block
  delivered,  \* the completion blocks called: <<operation, told it is canceled>>
  finished    \* the transaction's own completion block was called

vars == <<added, closed, outcome, delivered, finished>>

Members == {added[i] : i \in DOMAIN added}

Init ==
  /\ added = <<>>
  /\ closed = FALSE
  /\ outcome = [o \in Ops |-> "none"]
  /\ delivered = <<>>
  /\ finished = FALSE

Add(o) ==
  /\ ~closed
  /\ o \notin Members
  /\ added' = Append(added, o)
  /\ UNCHANGED <<closed, outcome, delivered, finished>>

Close ==
  /\ ~closed
  /\ closed' = TRUE
  /\ UNCHANGED <<added, outcome, delivered, finished>>

Execute(o) ==
  /\ o \in Members
  /\ outcome[o] = "none"
  /\ \E r \in {"ran", "skipped"} :
       /\ r = "skipped" => closed          \* only a committed one is canceled
       /\ outcome' = [outcome EXCEPT ![o] = r]
  /\ UNCHANGED <<added, closed, delivered, finished>>

Deliver(canceled) ==
  /\ closed
  /\ Len(delivered) < Len(added)
  /\ \A o \in Members : outcome[o] # "none"
  /\ (\E o \in Members : outcome[o] = "skipped") => canceled
  /\ delivered' = Append(delivered, <<added[Len(delivered) + 1], canceled>>)
  /\ UNCHANGED <<added, closed, outcome, finished>>

\* A transaction without operations is closed and finished in one call.
Finish ==
  /\ ~finished
  /\ Len(delivered) = Len(added)
  /\ closed \/ added = <<>>
  /\ closed' = TRUE
  /\ finished' = TRUE
  /\ UNCHANGED <<added, outcome, delivered>>

Next ==
  \/ \E o \in Ops : Add(o) \/ Execute(o)
  \/ Close
  \/ \E canceled \in BOOLEAN : Deliver(canceled)
  \/ Finish

Spec == Init /\ [][Next]_vars
=============================================================================
