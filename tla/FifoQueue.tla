------------------------------ MODULE FifoQueue ------------------------------
(***************************************************************************)
(* What every queue of the library promises, whatever its threads, locks   *)
(* and caches do: an item enters at the back, the items leave at the front,*)
(* one at a time and in the order in which they entered, and a bounded     *)
(* queue never holds more than Limit of them.                              *)
(*                                                                         *)
(* The calls that answer "full", "empty", a size, or a peeked value leave  *)
(* this state alone.  The queue modules refine this one; an unbounded      *)
(* queue takes for Limit the number of pushes its model allows at all.     *)
(***************************************************************************)
EXTENDS Naturals, Sequences

CONSTANTS Items,   \* what can be put in the queue
          Limit    \* how many items it holds at most

VARIABLES q,       \* the items in the queue, the oldest first
          taken    \* the items handed out so far, in order

fifoVars == <<q, taken>>

Init == q = << >> /\ taken = << >>

Push(x) == /\ Len(q) < Limit
           /\ q' = Append(q, x)
           /\ UNCHANGED taken

Pop == /\ q # << >>
       /\ q' = Tail(q)
       /\ taken' = Append(taken, Head(q))

Next == (\E x \in Items : Push(x)) \/ Pop

Spec == Init /\ [][Next]_fifoVars
=============================================================================
