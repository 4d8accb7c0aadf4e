------------------------------ MODULE LogView ------------------------------
(***************************************************************************)
(* What a log view promises its reader: the rows are entries that follow   *)
(* one another in the order of their receipt, no more than Limit of them,  *)
(* none twice; and the view may fall behind, or be emptied, but never goes *)
(* back to before an entry it has shown.                                   *)
(***************************************************************************)
EXTENDS Naturals, Sequences, SequencesExt

CONSTANTS Entries, Limit

VARIABLES
  received,  \* the entries received so far, in order
  view,      \* the rows
  seen       \* how many had been received when the last one ever shown was

logView == <<received, view, seen>>

Init == received = <<>> /\ view = <<>> /\ seen = 0

Receive == /\ \E e \in Entries \ ToSet(received) : received' = Append(received, e)
           /\ UNCHANGED <<view, seen>>

Show == /\ \E last \in seen..Len(received) : \E n \in 1..Limit :
             /\ n <= last
             /\ view' = SubSeq(received, last - n + 1, last)
             /\ seen' = last
        /\ UNCHANGED received

Empty == view' = <<>> /\ UNCHANGED <<received, seen>>

Next == Receive \/ Show \/ Empty

Spec == Init /\ [][Next]_logView
=============================================================================
