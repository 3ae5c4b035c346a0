-------------------- MODULE LockfreeSpscBoundedObserver --------------------
(***************************************************************************)
(* lockfree_spsc_bounded, and a third thread that neither pushes nor pops  *)
(* but asks for size(), which defs.hpp offers to anyone.                   *)
(*                                                                         *)
(* The producer and the consumer are those of LockfreeSpscBounded.  The    *)
(* observer's two loads always return the newest store: what goes wrong    *)
(* between them does so without any help of a weak memory model.           *)
(***************************************************************************)
EXTENDS LockfreeSpscBounded

VARIABLES
  observer,    \* where the observer is
  oHead,       \* the head it has loaded
  oAnswer,     \* its last answer
  counts       \* history: how many items there were during its current call

obsVars == <<observer, oHead, oAnswer, counts>>
allVars == <<vars, obsVars>>

ObserverInit ==
  /\ Init
  /\ observer = "idle" /\ oHead = 0 /\ oAnswer = NoAnswer /\ counts = {}

\* A step of the producer or the consumer.
QueueStep ==
  /\ Next
  /\ counts' = IF observer = "idle" THEN {} ELSE counts \cup {Len(tail') - Len(head')}
  /\ UNCHANGED <<observer, oHead, oAnswer>>

ObserveHead ==
  /\ observer = "idle"
  /\ oHead' = Newest(head)
  /\ oAnswer' = NoAnswer
  /\ counts' = {Len(tail) - Len(head)}
  /\ observer' = "load_tail"
  /\ UNCHANGED vars

ObserveTail ==
  /\ observer = "load_tail"
  /\ oAnswer' = SizeOf(oHead, Newest(tail))
  /\ observer' = "idle"
  /\ UNCHANGED <<vars, oHead, counts>>

ObserverNext == QueueStep \/ ObserveHead \/ ObserveTail

ObserverSpec == ObserverInit /\ [][ObserverNext]_allVars
------------------------------------------------------------------------------
\* impl.hpp 188: size() "returns a snapshot of the number of elements": a
\* number of items that there were at some moment of the call, even if it is
\* stale when the call returns.
SizeIsSnapshot == observer = "idle" /\ oAnswer # NoAnswer /\ counts # {} => oAnswer \in counts
=============================================================================
