------------------------------ MODULE BytePipe ------------------------------
(***************************************************************************)
(* What one direction of a tunnel promises: a bounded pipe that hands over *)
(* the bytes it took, all of them, once each and in order.  The k-th byte  *)
(* of the stream is represented by k.                                      *)
(***************************************************************************)
EXTENDS Naturals

CONSTANT Capacity  \* bytes the pipe may hold

VARIABLES
  taken,   \* number of bytes taken from the source
  given,   \* the bytes handed over so far, as a function on 1..n
  ended    \* "open", "ok" (everything handed over) or "broken"

pipe == <<taken, given, ended>>

Stream(n) == [k \in 1..n |-> k]

Init == /\ taken = 0
        /\ given = Stream(0)
        /\ ended = "open"

(* Some bytes enter, some leave: either count may be zero, and never are   *)
(* more than Capacity bytes inside after the step.                         *)
Move == /\ ended = "open"
        /\ taken' \in Nat
        /\ taken' >= taken
        /\ \E n \in 0..taken : \E m \in n..taken' :
             /\ given = Stream(n)
             /\ given' = Stream(m)
             /\ taken' <= m + Capacity
        /\ ended' = ended

(* The clean end: nothing is left inside.                                  *)
Finish == /\ ended = "open"
          /\ given = Stream(taken)
          /\ ended' = "ok"
          /\ UNCHANGED <<taken, given>>

Break == /\ ended = "open"
         /\ ended' = "broken"
         /\ UNCHANGED <<taken, given>>

Next == Move \/ Finish \/ Break

Spec == Init /\ [][Next]_pipe
=============================================================================
