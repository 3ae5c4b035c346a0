--------------------------- MODULE StdMutexQueue ---------------------------
(***************************************************************************)
(* StdMutexQueue<T>, the baseline the benchmarks compare with: a           *)
(* std::queue, one mutex and one condition variable.  Any producer pushes  *)
(* and any consumer pops; push notifies while it holds the mutex.          *)
(*                                                                         *)
(* One action is what a thread does between two points at which another    *)
(* thread can notice.  The item <<p, n>> is the n-th that producer p       *)
(* pushes.                                                                 *)
(*                                                                         *)
(* Both programs use it with T = int, which never throws when it is moved. *)
(* That q.push finds no memory, which would end the program, is left out.  *)
(***************************************************************************)
EXTENDS Naturals, Sequences, FiniteSets

CONSTANTS Producers,  \* the threads that push
          Consumers,  \* the threads that pop
          Free,       \* the owner of a free mutex
          MaxPushes   \* bound of the model: how many pushes each producer makes

ASSUME FreeAssumption == Free \notin Producers \cup Consumers
ASSUME RolesAssumption == Producers \cap Consumers = {}
ASSUME FiniteAssumption == IsFiniteSet(Producers \cup Consumers)
ASSUME PushesAssumption == MaxPushes \in Nat

VARIABLES q, mtx,     \* members of the class; the owner of the mutex
          pc,         \* where a thread is
          pushes,     \* history: the pushes each producer has started
          taken       \* history: the items popped, in order

vars == <<q, mtx, pc, pushes, taken>>

Threads == Producers \cup Consumers
Items   == Producers \X (1 .. MaxPushes)

Goto(t, label) == pc' = [pc EXCEPT ![t] = label]

\* The threads blocked in cv.wait.
Waiters == {t \in Threads : pc[t] = "waiting"}
------------------------------------------------------------------------------
Init == /\ q = << >> /\ taken = << >>
        /\ mtx = Free
        /\ pc = [t \in Threads |-> "idle"]
        /\ pushes = [p \in Producers |-> 0]

PushCall(p) ==
  /\ pc[p] = "idle" /\ pushes[p] < MaxPushes
  /\ pushes' = [pushes EXCEPT ![p] = @ + 1]
  /\ Goto(p, "lock_push")
  /\ UNCHANGED <<q, taken, mtx>>

PopCall(c) ==
  /\ pc[c] = "idle"
  /\ Goto(c, "lock_pop")
  /\ UNCHANGED <<q, taken, mtx, pushes>>

\* The lock of a call; also the one a woken waiter has to take again.
Lock(t) ==
  /\ pc[t] \in {"lock_push", "lock_pop"} /\ mtx = Free
  /\ mtx' = t
  /\ Goto(t, IF pc[t] = "lock_push" THEN "push" ELSE "check")
  /\ UNCHANGED <<q, taken, pushes>>

PushBack(p) ==
  /\ pc[p] = "push"
  /\ q' = Append(q, <<p, pushes[p]>>)
  /\ Goto(p, "notify")
  /\ UNCHANGED <<taken, mtx, pushes>>

PushNotify_Forgotten(p) ==
  /\ pc[p] = "notify"
  /\ mtx' = Free
  /\ Goto(p, "idle")
  /\ UNCHANGED <<q, taken, pushes>>

\* notify_one, then the end of the lock_guard's scope.
PushNotify(p) ==
  /\ pc[p] = "notify"
  /\ mtx' = Free
  /\ IF Waiters = {}
       THEN Goto(p, "idle")
       ELSE \E w \in Waiters : pc' = [pc EXCEPT ![p] = "idle", ![w] = "lock_pop"]
  /\ UNCHANGED <<q, taken, pushes>>

\* cv.wait evaluates the predicate ...
PopCheck(c) ==
  /\ pc[c] = "check"
  /\ Goto(c, IF q # << >> THEN "front" ELSE "block")
  /\ UNCHANGED <<q, taken, mtx, pushes>>

\* ... and if it is false unlocks and blocks.
PopBlock(c) ==
  /\ pc[c] = "block"
  /\ mtx' = Free
  /\ Goto(c, "waiting")
  /\ UNCHANGED <<q, taken, pushes>>

WakeSpuriously(c) ==
  /\ pc[c] = "waiting"
  /\ Goto(c, "lock_pop")
  /\ UNCHANGED <<q, taken, mtx, pushes>>

PopFront_KeepsItem(c) ==
  /\ pc[c] = "front"
  /\ taken' = Append(taken, Head(q))
  /\ mtx' = Free
  /\ Goto(c, "idle")
  /\ UNCHANGED <<q, pushes>>

PopFront(c) ==
  /\ pc[c] = "front"
  /\ taken' = Append(taken, Head(q))
  /\ q' = Tail(q)
  /\ mtx' = Free
  /\ Goto(c, "idle")
  /\ UNCHANGED pushes

Next == \/ \E p \in Producers : PushCall(p) \/ PushBack(p) \/ PushNotify(p)
        \/ \E c \in Consumers : \/ PopCall(c) \/ PopCheck(c) \/ PopBlock(c)
                                \/ WakeSpuriously(c) \/ PopFront(c)
        \/ \E t \in Threads : Lock(t)

Spec == Init /\ [][Next]_vars
------------------------------------------------------------------------------
TypeOK ==
  /\ q \in Seq(Items) /\ taken \in Seq(Items)
  /\ mtx \in Threads \cup {Free}
  /\ pc \in [Threads -> {"idle", "lock_push", "push", "notify", "lock_pop",
                         "check", "block", "waiting", "front"}]
  /\ pushes \in [Producers -> 0 .. MaxPushes]

\* No wakeup is lost: if no call is running and a consumer sleeps in cv.wait,
\* there is nothing to pop.  (blocking_mpmc_unbounded does not keep this.)
NoLostWakeup ==
  (\A t \in Threads : pc[t] \in {"idle", "waiting"}) /\ Waiters # {} => q = << >>

Fifo == INSTANCE FifoQueue WITH Limit <- Cardinality(Items)

\* Every step is one of a FIFO queue without a limit of its own, or none.
RefinesFifo == Fifo!Spec
=============================================================================
