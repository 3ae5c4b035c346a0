-------------------- MODULE LockfreeSpscUnboundedProofs --------------------
(***************************************************************************)
(* Proofs about LockfreeSpscUnbounded, for every set of addresses and any  *)
(* number of pushes, when only the consumer asks for the size (impl.hpp    *)
(* 156-161 demands it, and a producer that asks may follow a deleted node).*)
(*                                                                         *)
(* The n-th link gives the node it hangs on the serial n: no two nodes     *)
(* share one, next counts them up, and head has the serial of the next pop *)
(* (ChainInv).  What a thread holds is told by serials too, so that it     *)
(* survives the reuse of an address: a node in the list is never free      *)
(* (LiveInv), and the consumer reads what serials below seen say.          *)
(***************************************************************************)
EXTENDS LockfreeSpscUnbounded, FiniteSetTheorems, FunctionTheorems, SequenceTheorems, TLAPS

(* The list, seen through the serials of its nodes. *)

Ser(a) == nodes[a].serial
Nxt(a) == nodes[a].next
Dat(a) == nodes[a].data

\* The serial of the oldest node that has not been destroyed: that of head.
First == IF head = Null THEN pushed + 2 ELSE Ser(head)

\* The serial head has as long as the queue exists.
Low == IF pc["C"] = "advance" THEN Len(got) ELSE Len(got) + 1

Gone == pc["C"] \in {"destroy", "destroyed"}

ProducerLabels == {"idle", "alloc", "data", "publish", "advance", "joined"}
ConsumerLabels == {"idle", "load", "read", "advance", "delete", "first", "walk",
                   "destroy", "destroyed"}

ControlInv ==
  /\ pc \in [Threads -> ProducerLabels \cup ConsumerLabels]
  /\ pc["P"] \in ProducerLabels /\ pc["C"] \in ConsumerLabels
  /\ pc["P"] = "joined" <=> Gone
  /\ pc["P"] \in {"alloc", "data", "publish"} => pushed < MaxItems
  /\ pc["P"] \in {"alloc", "data"} => value = pushed + 1
  /\ Len(got) <= seen /\ seen <= pushed

\* Serials are handed out once, without a gap, and next counts them up.
ChainInv ==
  /\ \A a \in Addr : Ser(a) <= pushed + 1
  /\ \A a, b \in Addr : Ser(a) = Ser(b) /\ Ser(a) >= 1 => a = b
  /\ \A k \in Low .. pushed + 1 : \E a \in Addr : Ser(a) = k
  /\ \A a \in Addr : Ser(a) >= First =>
       IF Ser(a) = pushed + 1 THEN Nxt(a) = Null
                              ELSE Nxt(a) \in Addr /\ Ser(Nxt(a)) = Ser(a) + 1

\* What is allocated: the nodes from head on, and those that a thread or nobody
\* is responsible for.
LiveInv ==
  /\ \A a \in Addr : Ser(a) >= First => a \in live
  /\ \A a \in live : Ser(a) >= First \/ a \in Detached
  /\ \A a \in leaked : a \in live /\ Ser(a) = 0

ProducerInv ==
  /\ pc["P"] \in {"data", "publish"} =>
       /\ new_stub \in live \ leaked
       /\ Ser(new_stub) = 0 /\ Nxt(new_stub) = Null
  /\ IF pc["P"] = "advance" THEN new_stub \in Addr /\ Ser(new_stub) = pushed + 1
                            ELSE Ser(tail) = pushed + 1
  /\ pc["P"] = "publish" => Dat(tail) = pushed + 1

ConsumerInv ==
  /\ ~Gone => head \in Addr /\ Ser(head) = Low /\ Low >= 1
  /\ Gone => First >= Low
  /\ pc["C"] = "destroyed" => head = Null
  /\ pc["C"] \in {"read", "advance"} =>
       next_node = Nxt(head) /\ next_node # Null /\ Ser(head) <= seen
  /\ pc["C"] = "delete" => old_head \in live \ leaked /\ Ser(old_head) = Len(got)
  /\ pc["C"] \in {"advance", "delete"} => Len(got) >= 1

\* Every item is where its serial says until it is popped.
DataInv ==
  /\ \A a \in Addr : Ser(a) \in Len(got) + 1 .. pushed => Dat(a) = Ser(a)
  /\ \A n \in 1 .. Len(got) : got[n] = n

PeekInv ==
  peeked # NoItem /\ pc["C"] # "advance" => peeked = Len(got) + 1 /\ Len(got) < seen

\* Where a walk of size() stands, and what it has counted.
WalkInv ==
  /\ pc["C"] = "first" => count["C"] = 0
  /\ pc["C"] = "walk" =>
       IF cur["C"] = Null
         THEN count["C"] \in seen - Len(got) .. pushed - Len(got)
         ELSE cur["C"] \in Addr /\ Ser(cur["C"]) >= Low + 1
              /\ count["C"] = Ser(cur["C"]) - Low - 1

IInv == /\ TypeOK /\ ControlInv /\ ChainInv /\ LiveInv
        /\ ProducerInv /\ ConsumerInv /\ DataInv /\ PeekInv /\ WalkInv
------------------------------------------------------------------------------
(* Parts that an action leaves as they are. *)

\* Actions that touch neither a node nor the ends of the list.
LEMMA ListFrame ==
  ASSUME IInv, UNCHANGED <<nodes, live, head, leaked, pushed, got>>,
         Low' = Low, Detached' = Detached
  PROVE  ChainInv' /\ LiveInv' /\ DataInv'
<1>1. ChainInv'
  BY DEF IInv, ChainInv, Ser, Nxt, First
<1>2. LiveInv'
  BY DEF IInv, LiveInv, Ser, First
<1>3. DataInv'
  BY DEF IInv, DataInv, Ser, Dat
<1> QED
  BY <1>1, <1>2, <1>3

\* Nodes that a thread may hold on to across a step of the other one.
Kept(b) ==
  /\ b \in live' /\ (b \in leaked' <=> b \in leaked)
  /\ nodes'[b].serial = nodes[b].serial
  /\ nodes[b].serial <= pushed => nodes'[b].next = nodes[b].next

\* Steps of the producer, as the consumer sees them.
LEMMA ConsumerFrame ==
  ASSUME IInv, UNCHANGED <<consVars, queryVars, seen>>, pc'["C"] = pc["C"],
         pushed' \in Nat, pushed <= pushed', ~Gone,
         \A b \in live : Ser(b) >= 1 => Kept(b)
  PROVE  ConsumerInv' /\ PeekInv' /\ WalkInv'
<1>0. /\ Len(got) \in Nat /\ seen \in Nat /\ pushed \in Nat /\ Low \in Nat
      /\ \A a \in Addr : Ser(a) \in Nat
      /\ pc'["C"] = pc["C"] /\ Low' = Low
  BY ItemsAssumption DEF IInv, TypeOK, Low, Ser, consVars
<1>1. head \in Addr /\ First = Ser(head) /\ First = Low /\ Low >= 1 /\ head # Null
  BY NullAssumption DEF IInv, ConsumerInv, First
<1>2. \A b \in Addr : Ser(b) >= Low => b \in live /\ Ser(b) >= 1
  BY <1>0, <1>1 DEF IInv, LiveInv, Ser
<1>3. head \in live /\ Ser(head) >= 1 /\ Kept(head) /\ head' = head
  <2>1. Ser(head) >= Low
    BY <1>0, <1>1
  <2>2. head \in live /\ Ser(head) >= 1
    BY <1>1, <1>2, <2>1
  <2> QED
    BY <2>2 DEF consVars
<1>4. ConsumerInv'
  <2>1. Ser(head)' = Low
    BY <1>1, <1>3 DEF Kept, Ser
  <2>2. ASSUME pc["C"] \in {"read", "advance"}
        PROVE  next_node' = Nxt(head)' /\ next_node' # Null /\ Ser(head)' <= seen'
    <3>1. Ser(head) <= pushed /\ next_node = Nxt(head) /\ next_node # Null /\ Ser(head) <= seen
      BY <2>2, <1>0, <1>1 DEF IInv, ConsumerInv, ControlInv
    <3> QED
      BY <1>3, <3>1 DEF Kept, Ser, Nxt, consVars
  <2>3. ASSUME pc["C"] = "delete"
        PROVE  old_head' \in live' \ leaked' /\ Ser(old_head)' = Len(got)'
    <3>1. old_head \in live \ leaked /\ Ser(old_head) = Len(got) /\ Len(got) >= 1
      BY <2>3 DEF IInv, ConsumerInv
    <3>2. Kept(old_head)
      BY <3>1
    <3> QED
      BY <3>1, <3>2 DEF Kept, Ser, consVars
  <2>4. ~Gone' /\ (pc["C"] \in {"advance", "delete"} => Len(got)' >= 1)
    BY <1>0 DEF IInv, ConsumerInv, Gone, consVars
  <2> QED
    BY <1>0, <1>1, <1>3, <2>1, <2>2, <2>3, <2>4 DEF ConsumerInv, Gone
<1>5. PeekInv'
  BY <1>0 DEF IInv, PeekInv, consVars
<1>6. WalkInv'
  <2>1. CASE pc["C"] = "walk" /\ cur["C"] # Null
    <3>1. /\ cur["C"] \in Addr /\ Ser(cur["C"]) >= Low + 1
          /\ count["C"] = Ser(cur["C"]) - Low - 1
      BY <2>1 DEF IInv, WalkInv
    <3>2. Kept(cur["C"])
      BY <1>0, <1>2, <3>1
    <3> QED
      BY <1>0, <2>1, <3>1, <3>2 DEF WalkInv, Kept, Ser, queryVars
  <2>2. CASE ~(pc["C"] = "walk" /\ cur["C"] # Null)
    <3>1. pc["C"] = "walk" => count["C"] \in seen - Len(got) .. pushed - Len(got)
      BY <2>2 DEF IInv, WalkInv
    <3>2. pc["C"] = "walk" => count'["C"] \in seen' - Len(got)' .. pushed' - Len(got)'
      BY <1>0, <3>1 DEF queryVars, consVars
    <3>3. pc["C"] = "first" => count'["C"] = 0
      BY <1>0 DEF IInv, WalkInv, queryVars
    <3> QED
      BY <1>0, <2>2, <3>2, <3>3 DEF WalkInv, queryVars
  <2> QED
    BY <2>1, <2>2
<1> QED
  BY <1>4, <1>5, <1>6

\* Steps of the consumer, as the producer sees them.
LEMMA ProducerFrame ==
  ASSUME IInv, UNCHANGED <<tail, new_stub, leaked, pushed>>, pc'["P"] = pc["P"],
         \A b \in Addr : Ser(b)' = Ser(b) /\ Nxt(b)' = Nxt(b),
         pc["P"] \in {"data", "publish"} => new_stub \in live',
         pc["P"] = "publish" => Dat(tail)' = Dat(tail)
  PROVE  ProducerInv'
<1>1. tail \in Addr /\ (pc["P"] \in {"data", "publish"} => new_stub \in Addr)
  BY DEF IInv, TypeOK, ProducerInv
<1> QED
  BY <1>1 DEF IInv, ProducerInv, Ser, Nxt, Dat
------------------------------------------------------------------------------
(* Facts about a state of the invariant. *)

\* The numbers and the contents of a node are what they should be.
LEMMA Numbers ==
  ASSUME IInv
  PROVE  /\ pushed \in Nat /\ seen \in Nat /\ Len(got) \in Nat /\ Low \in Nat
         /\ MaxItems \in Nat /\ got \in Seq(0 .. MaxItems)
         /\ Len(got) <= seen /\ seen <= pushed /\ pushed <= MaxItems
         /\ \A a \in Addr : /\ Ser(a) \in Nat /\ Ser(a) <= pushed + 1
                            /\ Nxt(a) \in Addr \cup {Null}
                            /\ Dat(a) \in {NoT} \cup 0 .. MaxItems
                            /\ nodes[a] \in [data : {NoT} \cup 0 .. MaxItems, next : Addr \cup {Null},
                                             serial : 0 .. MaxItems + 1]
         /\ tail \in Addr /\ live \subseteq Addr /\ leaked \subseteq Addr
         /\ DOMAIN nodes = Addr /\ DOMAIN pc = Threads
<1>1. TypeOK /\ MaxItems \in Nat
  BY ItemsAssumption DEF IInv
<1>2. /\ pushed \in Nat /\ seen \in Nat /\ pushed <= MaxItems
      /\ got \in Seq(0 .. MaxItems) /\ Len(got) \in Nat
      /\ tail \in Addr /\ live \subseteq Addr /\ leaked \subseteq Addr
      /\ DOMAIN nodes = Addr /\ DOMAIN pc = Threads
  <2>1. /\ pushed \in 0 .. MaxItems /\ seen \in 0 .. pushed /\ got \in Seq(0 .. MaxItems)
        /\ tail \in Addr /\ live \subseteq Addr /\ leaked \subseteq Addr
    BY <1>1 DEF TypeOK
  <2>2. DOMAIN nodes = Addr
    BY <1>1 DEF TypeOK
  <2>3. DOMAIN pc = Threads
    BY DEF IInv, ControlInv
  <2>4. pushed \in Nat /\ seen \in Nat /\ pushed <= MaxItems /\ Len(got) \in Nat
    BY <1>1, <2>1
  <2> QED
    BY <2>1, <2>2, <2>3, <2>4
<1>3. Len(got) <= seen /\ seen <= pushed
  BY DEF IInv, ControlInv
<1>4. Low \in Nat
  BY <1>2 DEF Low
<1>5. ASSUME NEW a \in Addr
      PROVE  /\ Ser(a) \in Nat
             /\ Nxt(a) \in Addr \cup {Null} /\ Dat(a) \in {NoT} \cup 0 .. MaxItems
             /\ nodes[a] \in [data : {NoT} \cup 0 .. MaxItems, next : Addr \cup {Null},
                              serial : 0 .. MaxItems + 1]
  <2>1. nodes[a] \in [data : {NoT} \cup 0 .. MaxItems, next : Addr \cup {Null},
                      serial : 0 .. MaxItems + 1]
    BY <1>1 DEF TypeOK
  <2> QED
    BY <1>1, <2>1 DEF Ser, Nxt, Dat
<1>6. \A a \in Addr : Ser(a) <= pushed + 1
  BY DEF IInv, ChainInv
<1> QED
  BY <1>1, <1>2, <1>3, <1>4, <1>5, <1>6

\* While the queue exists, head is the oldest node.
LEMMA HeadIsFirst ==
  ASSUME IInv, ~Gone
  PROVE  /\ head \in Addr /\ head # Null /\ head \in live
         /\ First = Ser(head) /\ First = Low /\ Low >= 1
<1>1. head \in Addr /\ head # Null /\ First = Ser(head) /\ First = Low /\ Low >= 1
  BY NullAssumption DEF IInv, ConsumerInv, First
<1>2. Ser(head) >= First
  BY <1>1, Numbers
<1> QED
  BY <1>1, <1>2 DEF IInv, LiveInv

\* A node from head on is allocated, and next goes to the one after it.
LEMMA LinkedIsLive ==
  ASSUME IInv, ~Gone, NEW a \in Addr, Ser(a) >= Low
  PROVE  /\ a \in live /\ Ser(a) >= 1
         /\ Ser(a) = pushed + 1 => Nxt(a) = Null
         /\ Ser(a) # pushed + 1 => Nxt(a) \in Addr /\ Ser(Nxt(a)) = Ser(a) + 1
<1>1. Ser(a) >= First /\ Ser(a) >= 1
  BY HeadIsFirst, Numbers
<1> QED
  BY <1>1 DEF IInv, LiveInv, ChainInv

\* No two nodes have been filled by the same push.
LEMMA SerialsAreUnique ==
  ASSUME IInv, NEW a \in Addr, NEW b \in Addr, Ser(a) = Ser(b), Ser(a) >= 1
  PROVE  a = b
BY DEF IInv, ChainInv

\* What an acquire load of next tells the consumer.
LEMMA LoadFacts ==
  ASSUME IInv, ~Gone, NEW a \in Addr, Ser(a) >= Low, NEW x, x \in NextOf("C", a)
  PROVE  /\ x \in Addr \cup {Null}
         /\ AfterLoad("C", a, x) \in seen .. pushed
         /\ x # Null => /\ x = Nxt(a) /\ x \in Addr /\ Ser(x) = Ser(a) + 1
                        /\ Ser(a) <= AfterLoad("C", a, x) /\ Ser(a) <= pushed
         /\ x = Null => /\ AfterLoad("C", a, x) = seen /\ seen < Ser(a)
<1>1. x = Nxt(a) \/ (x = Null /\ Ser(a) > seen)
  BY Numbers DEF NextOf, Ser, Nxt
<1>2. /\ Ser(a) \in Nat /\ Ser(a) <= pushed + 1 /\ seen <= pushed
      /\ pushed \in Nat /\ seen \in Nat
  BY Numbers
<1>3. CASE x # Null
  <2>1. x = Nxt(a) /\ Ser(a) # pushed + 1 /\ x \in Addr /\ Ser(x) = Ser(a) + 1
    BY <1>1, <1>3, LinkedIsLive
  <2>2. AfterLoad("C", a, x) = IF Ser(a) > seen THEN Ser(a) ELSE seen
    BY <1>3 DEF AfterLoad, Ser
  <2> QED
    BY <1>2, <1>3, <2>1, <2>2
<1>4. CASE x = Null
  <2>1. AfterLoad("C", a, x) = seen
    BY <1>4 DEF AfterLoad
  <2>2. Ser(a) = pushed + 1 \/ Ser(a) > seen
    BY <1>1, <1>4, LinkedIsLive, NullAssumption
  <2> QED
    BY <1>2, <1>4, <2>1, <2>2
<1> QED
  BY <1>3, <1>4

------------------------------------------------------------------------------
(* The producer. *)

\* What every step of the producer's leaves alone on the other side.
LEMMA ProducerIsNotGone ==
  ASSUME IInv, pc["P"] # "joined"
  PROVE  ~Gone
BY DEF IInv, ControlInv

NodeSet == [data : {NoT} \cup 0 .. MaxItems, next : Addr \cup {Null}, serial : 0 .. MaxItems + 1]

\* Types after a step of the producer.
LEMMA ProducerTypes ==
  ASSUME IInv, ~Gone, UNCHANGED <<consVars, queryVars, seen>>, pc'["C"] = pc["C"],
         pc'["P"] \in ProducerLabels,
         op' \in [Threads -> PushOps \cup PopOps \cup QueryOps \cup {"none"}],
         nodes' \in [Addr -> NodeSet], live' \subseteq Addr, tail' \in Addr,
         value' \in 0 .. MaxItems, new_stub' \in Addr \cup {Null},
         pushed' \in pushed .. MaxItems, leaked' \subseteq Addr
  PROVE  TypeOK'
<1>1. pushed' \in 0 .. MaxItems /\ seen' \in 0 .. pushed'
  BY Numbers
<1>2. pc'["C"] \in ConsumerLabels /\ head' \in Addr
  BY HeadIsFirst DEF IInv, ControlInv, consVars
<1>3. /\ {new_stub', next_node', old_head'} \subseteq Addr \cup {Null}
      /\ cur' \in [Threads -> Addr \cup {Null}]
      /\ count' \in [Threads -> 0 .. MaxItems]
      /\ answer' \in [Threads -> 0 .. MaxItems \cup {NoAnswer}]
      /\ got' \in Seq(0 .. MaxItems) /\ peeked' \in 0 .. MaxItems
  BY DEF IInv, TypeOK, consVars, queryVars
<1>4. /\ pc'["P"] \in {"idle", "alloc", "data", "publish", "advance", "first", "walk", "joined"}
      /\ pc'["C"] \in {"idle", "load", "read", "advance", "delete", "first", "walk",
                       "destroy", "destroyed"}
  BY <1>2 DEF ProducerLabels, ConsumerLabels
<1> QED
  BY <1>1, <1>2, <1>3, <1>4 DEF TypeOK, NodeSet

\* The values of the members that most steps leave alone.
LEMMA OldTypes ==
  ASSUME IInv
  PROVE  /\ op \in [Threads -> PushOps \cup PopOps \cup QueryOps \cup {"none"}]
         /\ nodes \in [Addr -> NodeSet] /\ live \subseteq Addr /\ tail \in Addr
         /\ value \in 0 .. MaxItems /\ new_stub \in Addr \cup {Null}
         /\ pushed \in pushed .. MaxItems /\ leaked \subseteq Addr
         /\ NoItem \in 0 .. MaxItems
<1>1. TypeOK
  BY DEF IInv
<1>2. op \in [Threads -> PushOps \cup PopOps \cup QueryOps \cup {"none"}]
  BY <1>1 DEF TypeOK
<1>3. nodes \in [Addr -> NodeSet] /\ new_stub \in Addr \cup {Null} /\ value \in 0 .. MaxItems
  BY <1>1 DEF TypeOK, NodeSet
<1> QED
  BY <1>2, <1>3, Numbers DEF NoItem

\* Each step of the producer keeps the invariant: the call of a push,
LEMMA PushCallInv ==
  ASSUME IInv, NEW o \in PushOps, PushCall(o)
  PROVE  IInv'
<1>1. /\ pushed < MaxItems /\ pc["P"] = "idle" /\ value' = pushed + 1
      /\ pc' = [pc EXCEPT !["P"] = "alloc"] /\ op' = [op EXCEPT !["P"] = o]
      /\ UNCHANGED <<nodes, live, tail, new_stub, leaked, consVars, queryVars, pushed, seen>>
  BY DEF PushCall, Call, Goto
<1>2. pc'["P"] = "alloc" /\ pc'["C"] = pc["C"] /\ ~Gone
  BY <1>1, ProducerIsNotGone DEF IInv, ControlInv, Threads
<1>3. TypeOK'
  <2>1. op' \in [Threads -> PushOps \cup PopOps \cup QueryOps \cup {"none"}]
    BY <1>1, OldTypes DEF Threads
  <2>2. value' \in 0 .. MaxItems
    BY <1>1, Numbers
  <2> QED
    BY <1>1, <1>2, <2>1, <2>2, OldTypes, ProducerTypes DEF ProducerLabels
<1>4. ControlInv'
  BY <1>1, <1>2 DEF IInv, ControlInv, Threads, ProducerLabels, ConsumerLabels, Gone, consVars
<1>5. ChainInv' /\ LiveInv' /\ DataInv'
  <2>1. Low' = Low /\ Detached' = Detached
    BY <1>1, <1>2 DEF Low, Detached, consVars
  <2> QED
    BY <1>1, <2>1, ListFrame DEF consVars
<1>6. ProducerInv'
  BY <1>1, <1>2 DEF IInv, ProducerInv, Ser
<1>7. ConsumerInv' /\ PeekInv' /\ WalkInv'
  BY <1>1, <1>2, Numbers, ConsumerFrame DEF Kept
<1> QED
  BY <1>3, <1>4, <1>5, <1>6, <1>7 DEF IInv

\* The node that new hands out is none that anybody can still reach.
LEMMA PushAllocInv ==
  ASSUME IInv, NEW a \in Addr, PushAlloc(a)
  PROVE  IInv'
<1>1. /\ pc["P"] = "alloc" /\ a \notin live /\ live' = live \cup {a}
      /\ nodes' = [nodes EXCEPT ![a] = [data |-> NoItem, next |-> Null, serial |-> 0]]
      /\ new_stub' = a /\ pc' = [pc EXCEPT !["P"] = "data"]
      /\ UNCHANGED <<tail, value, leaked, consVars, queryVars, pushed, seen, op>>
  BY DEF PushAlloc, Goto
<1>2. pc'["P"] = "data" /\ pc'["C"] = pc["C"] /\ ~Gone
  BY <1>1, ProducerIsNotGone DEF IInv, ControlInv, Threads
<1>3. /\ nodes'[a].serial = 0 /\ nodes'[a].next = Null /\ nodes'[a].data = NoItem
      /\ \A b \in Addr : b # a => nodes'[b] = nodes[b]
  BY <1>1, Numbers
<1>4. Ser(a) < Low /\ a \notin leaked /\ First = Low
  BY LinkedIsLive, HeadIsFirst, Numbers, <1>1, <1>2 DEF IInv, LiveInv
<1>5. Low' = Low /\ head' = head /\ got' = got /\ First' = Low
  <2>1. Low' = Low /\ head' = head /\ got' = got /\ pushed' = pushed
    BY <1>1, <1>2 DEF Low, consVars
  <2>2. head # a /\ head \in Addr /\ head # Null /\ Ser(head) = Low
    BY <1>1, <1>2, HeadIsFirst
  <2> QED
    BY <1>3, <2>1, <2>2 DEF First, Ser
<1>6. TypeOK'
  <2>1. nodes' \in [Addr -> NodeSet]
    BY <1>1, OldTypes, Numbers DEF NodeSet, NoItem
  <2> QED
    BY <1>1, <1>2, <2>1, OldTypes, ProducerTypes DEF ProducerLabels
<1>7. ControlInv'
  BY <1>1, <1>2 DEF IInv, ControlInv, Threads, ProducerLabels, ConsumerLabels, Gone, consVars
<1>8. ChainInv'
  <2>1. \A b \in Addr : nodes'[b].serial <= pushed + 1
    BY <1>3, Numbers DEF Ser
  <2>2. \A b, c \in Addr : nodes'[b].serial = nodes'[c].serial /\ nodes'[b].serial >= 1 => b = c
    BY <1>3, SerialsAreUnique DEF Ser
  <2>3. ASSUME NEW k \in Low .. pushed + 1 PROVE \E b \in Addr : nodes'[b].serial = k
    <3>1. PICK b \in Addr : Ser(b) = k
      BY DEF IInv, ChainInv
    <3>2. b # a
      BY <1>4, <3>1, Numbers
    <3> QED
      BY <1>3, <3>1, <3>2 DEF Ser
  <2>4. ASSUME NEW b \in Addr, nodes'[b].serial >= Low
        PROVE  IF nodes'[b].serial = pushed + 1
                 THEN nodes'[b].next = Null
                 ELSE /\ nodes'[b].next \in Addr
                      /\ nodes'[nodes'[b].next].serial = nodes'[b].serial + 1
    <3>1. b # a /\ nodes'[b] = nodes[b]
      BY <1>2, <1>3, <2>4, HeadIsFirst, Numbers
    <3>2. Ser(b) >= Low
      BY <2>4, <3>1 DEF Ser
    <3>3. CASE Ser(b) = pushed + 1
      BY <1>2, <3>1, <3>2, <3>3, LinkedIsLive DEF Ser, Nxt
    <3>4. CASE Ser(b) # pushed + 1
      <4>1. Nxt(b) \in Addr /\ Ser(Nxt(b)) = Ser(b) + 1
        BY <1>2, <3>2, <3>4, LinkedIsLive
      <4>2. Nxt(b) # a
        BY <1>4, <3>2, <4>1, Numbers
      <4> QED
        BY <1>3, <3>1, <3>4, <4>1, <4>2 DEF Ser, Nxt
    <3> QED
      BY <3>3, <3>4
  <2> QED
    BY <1>1, <1>5, <2>1, <2>2, <2>3, <2>4 DEF ChainInv, Ser, Nxt
<1>9. LiveInv'
  <2>1. ASSUME NEW b \in Addr, nodes'[b].serial >= Low PROVE b \in live'
    <3>1. b # a
      BY <1>2, <1>3, <2>1, HeadIsFirst, Numbers
    <3> QED
      BY <1>1, <1>2, <1>3, <2>1, <3>1, LinkedIsLive DEF Ser
  <2>2. ASSUME NEW b \in live' PROVE nodes'[b].serial >= Low \/ b \in Detached'
    <3>1. CASE b = a
      BY <1>1, <1>2, <3>1 DEF Detached
    <3>2. CASE b # a
      <4>1. b \in live /\ b \in Addr /\ nodes'[b] = nodes[b]
        BY <1>1, <1>3, <3>2, Numbers
      <4>2. b \in Detached => b \in Detached'
        BY <1>1, <1>2 DEF Detached, consVars
      <4> QED
        BY <1>4, <4>1, <4>2 DEF IInv, LiveInv, Ser
    <3> QED
      BY <3>1, <3>2
  <2>3. \A b \in leaked' : b \in live' /\ nodes'[b].serial = 0
    BY <1>1, <1>3, Numbers DEF IInv, LiveInv, Ser
  <2> QED
    BY <1>5, <2>1, <2>2, <2>3 DEF LiveInv, Ser
<1>10. DataInv'
  BY <1>1, <1>3, <1>5, Numbers DEF IInv, DataInv, Ser, Dat
<1>11. ProducerInv'
  <2>1. Ser(tail) = pushed + 1 /\ tail \in Addr
    BY <1>1, Numbers DEF IInv, ProducerInv
  <2>2. tail # a
    <3>1. pushed + 1 >= Low
      BY Numbers DEF Low
    <3> QED
      BY <1>4, <2>1, <3>1, Numbers
  <2> QED
    BY <1>1, <1>2, <1>3, <1>4, <2>1, <2>2 DEF ProducerInv, Ser, Nxt, Dat
<1>12. ConsumerInv' /\ PeekInv' /\ WalkInv'
  <2>1. \A b \in live : b # a /\ b \in Addr
    BY <1>1, Numbers
  <2>2. \A b \in live : Kept(b)
    BY <1>1, <1>3, <2>1 DEF Kept
  <2> QED
    BY <1>1, <1>2, <2>2, Numbers, ConsumerFrame
<1> QED
  BY <1>6, <1>7, <1>8, <1>9, <1>10, <1>11, <1>12 DEF IInv

\* A push that ends in an exception before its node is linked.
LEMMA PushNoNodeInv == ASSUME IInv, PushNoNode PROVE IInv'
<1>1. /\ pc["P"] = "alloc" /\ value' = NoItem /\ pc' = [pc EXCEPT !["P"] = "idle"]
      /\ UNCHANGED <<nodes, live, tail, new_stub, leaked, consVars, queryVars, pushed, seen, op>>
  BY DEF PushNoNode, Goto
<1>2. pc'["P"] = "idle" /\ pc'["C"] = pc["C"] /\ ~Gone
  BY <1>1, ProducerIsNotGone DEF IInv, ControlInv, Threads
<1>3. TypeOK'
  BY <1>1, <1>2, OldTypes, ProducerTypes DEF ProducerLabels
<1>4. ControlInv'
  BY <1>1, <1>2 DEF IInv, ControlInv, Threads, ProducerLabels, ConsumerLabels, Gone, consVars
<1>5. ChainInv' /\ LiveInv' /\ DataInv'
  <2>1. Low' = Low /\ Detached' = Detached
    BY <1>1, <1>2 DEF Low, Detached, consVars
  <2> QED
    BY <1>1, <2>1, ListFrame DEF consVars
<1>6. ProducerInv'
  BY <1>1, <1>2 DEF IInv, ProducerInv, Ser
<1>7. ConsumerInv' /\ PeekInv' /\ WalkInv'
  BY <1>1, <1>2, Numbers, ConsumerFrame DEF Kept
<1> QED
  BY <1>3, <1>4, <1>5, <1>6, <1>7 DEF IInv

\* the T that throws, which orphans new_stub,
LEMMA PushThrowInv == ASSUME IInv, PushThrow PROVE IInv'
<1>1. /\ pc["P"] = "data" /\ value' = NoItem /\ leaked' = leaked \cup {new_stub}
      /\ pc' = [pc EXCEPT !["P"] = "idle"]
      /\ nodes' = [nodes EXCEPT ![tail].data = IF op["P"] = "emplace" THEN NoT ELSE @]
      /\ UNCHANGED <<live, tail, new_stub, consVars, queryVars, pushed, seen, op>>
  BY DEF PushThrow, Goto
<1>2. pc'["P"] = "idle" /\ pc'["C"] = pc["C"] /\ ~Gone
  BY <1>1, ProducerIsNotGone DEF IInv, ControlInv, Threads
<1>3. new_stub \in live /\ new_stub \in Addr /\ Ser(new_stub) = 0
  BY <1>1, Numbers DEF IInv, ProducerInv
<1>4. tail \in Addr /\ Ser(tail) = pushed + 1
  BY <1>1, Numbers DEF IInv, ControlInv, ProducerInv
<1>5. /\ \A b \in Addr : nodes'[b].serial = nodes[b].serial /\ nodes'[b].next = nodes[b].next
      /\ \A b \in Addr : b # tail => nodes'[b].data = nodes[b].data
  BY <1>1, <1>4, Numbers
<1>6. TypeOK'
  <2>1. leaked' \subseteq Addr
    BY <1>1, <1>3, Numbers
  <2>2. nodes' \in [Addr -> NodeSet]
    BY <1>1, <1>4, OldTypes DEF NodeSet
  <2> QED
    BY <1>1, <1>2, <2>1, <2>2, OldTypes, ProducerTypes DEF ProducerLabels
<1>7. ControlInv'
  BY <1>1, <1>2 DEF IInv, ControlInv, Threads, ProducerLabels, ConsumerLabels, Gone, consVars
<1>8. Low' = Low /\ Detached' = Detached /\ First' = First
  BY <1>1, <1>2, <1>5, HeadIsFirst DEF Low, Detached, First, Ser, consVars
<1>9. ChainInv'
  <2>1. \A b \in Addr : nodes[b].next \in Addr \cup {Null}
    BY Numbers DEF Nxt
  <2> QED
    BY <1>1, <1>5, <1>8, <2>1 DEF IInv, ChainInv, Ser, Nxt
<1>10. LiveInv'
  BY <1>1, <1>3, <1>5, <1>8, Numbers DEF IInv, LiveInv, Ser
<1>11. DataInv'
  <2>1. got' = got /\ pushed' = pushed
    BY <1>1 DEF consVars
  <2>2. ASSUME NEW b \in Addr, nodes'[b].serial \in Len(got) + 1 .. pushed
        PROVE  nodes'[b].data = nodes'[b].serial
    <3>1. nodes[b].serial <= pushed /\ nodes[tail].serial = pushed + 1
      BY <1>4, <1>5, <2>2 DEF Ser
    <3>2. b # tail
      BY <3>1, Numbers
    <3> QED
      BY <1>5, <2>2, <3>2 DEF IInv, DataInv, Ser, Dat
  <2> QED
    BY <2>1, <2>2 DEF IInv, DataInv, Ser, Dat
<1>12. ProducerInv'
  <2>1. tail' \in Addr /\ nodes'[tail].serial = nodes[tail].serial
        /\ nodes'[tail].next = nodes[tail].next
    BY <1>1, <1>4, <1>5
  <2> QED
    BY <1>1, <1>4, <1>2, <2>1 DEF IInv, ProducerInv, Ser, Nxt
<1>13. ConsumerInv' /\ PeekInv' /\ WalkInv'
  <2>1. \A b \in live : Ser(b) >= 1 => Kept(b)
    BY <1>1, <1>3, <1>5, Numbers DEF Kept, Ser, Nxt
  <2> QED
    BY <1>1, <1>2, <2>1, Numbers, ConsumerFrame
<1> QED
  BY <1>6, <1>7, <1>9, <1>10, <1>12, <1>13, <1>11 DEF IInv

\* The stub filled is one that no pop reads yet.
LEMMA PushDataInv == ASSUME IInv, PushData PROVE IInv'
<1>1. /\ pc["P"] = "data" /\ value' = NoItem /\ nodes' = [nodes EXCEPT ![tail].data = value]
      /\ pc' = [pc EXCEPT !["P"] = "publish"]
      /\ UNCHANGED <<live, tail, new_stub, leaked, consVars, queryVars, pushed, seen, op>>
  BY DEF PushData, Goto
<1>2. pc'["P"] = "publish" /\ pc'["C"] = pc["C"] /\ ~Gone
  BY <1>1, ProducerIsNotGone DEF IInv, ControlInv, Threads
<1>3. value = pushed + 1 /\ Ser(tail) = pushed + 1 /\ tail \in Addr
  BY <1>1, Numbers DEF IInv, ControlInv, ProducerInv
<1>4. /\ \A b \in Addr : nodes'[b].serial = nodes[b].serial /\ nodes'[b].next = nodes[b].next
      /\ \A b \in Addr : nodes'[b].data = IF b = tail THEN value ELSE nodes[b].data
  BY <1>1, <1>3, Numbers
<1>5. TypeOK'
  <2>1. nodes' \in [Addr -> NodeSet]
    BY <1>1, <1>3, OldTypes DEF NodeSet
  <2> QED
    BY <1>1, <1>2, <2>1, OldTypes, ProducerTypes DEF ProducerLabels
<1>6. ControlInv'
  BY <1>1, <1>2 DEF IInv, ControlInv, Threads, ProducerLabels, ConsumerLabels, Gone, consVars
<1>7. Low' = Low /\ Detached' = Detached /\ First' = First
  BY <1>1, <1>2, <1>4, HeadIsFirst DEF Low, Detached, First, Ser, consVars
<1>8. ChainInv'
  <2>1. \A b \in Addr : nodes[b].next \in Addr \cup {Null}
    BY Numbers DEF Nxt
  <2> QED
    BY <1>1, <1>4, <1>7, <2>1 DEF IInv, ChainInv, Ser, Nxt
<1>9. LiveInv'
  BY <1>1, <1>4, <1>7, Numbers DEF IInv, LiveInv, Ser
<1>10. DataInv'
  <2>1. got' = got /\ pushed' = pushed
    BY <1>1 DEF consVars
  <2>2. ASSUME NEW b \in Addr, nodes'[b].serial \in Len(got) + 1 .. pushed
        PROVE  nodes'[b].data = nodes'[b].serial
    <3>1. b # tail
      <4>1. nodes[b].serial <= pushed /\ nodes[tail].serial = pushed + 1
        BY <1>3, <1>4, <2>2 DEF Ser
      <4> QED
        BY <4>1, Numbers
    <3> QED
      BY <1>4, <2>2, <3>1 DEF IInv, DataInv, Ser, Dat
  <2> QED
    BY <2>1, <2>2 DEF IInv, DataInv, Ser, Dat
<1>11. ProducerInv'
  <2>1. new_stub \in live \ leaked /\ new_stub \in Addr /\ Ser(new_stub) = 0
        /\ Nxt(new_stub) = Null
    BY <1>1, Numbers DEF IInv, ProducerInv
  <2> QED
    BY <1>1, <1>2, <1>3, <1>4, <2>1 DEF ProducerInv, Ser, Nxt, Dat
<1>12. ConsumerInv' /\ PeekInv' /\ WalkInv'
  <2>1. \A b \in live : Kept(b)
    BY <1>1, <1>4, Numbers DEF Kept
  <2> QED
    BY <1>1, <1>2, <2>1, Numbers, ConsumerFrame
<1> QED
  BY <1>5, <1>6, <1>8, <1>9, <1>10, <1>11, <1>12 DEF IInv

\* The chain grows by the new stub; the item behind the link is complete.
LEMMA PushPublishInv == ASSUME IInv, PushPublish PROVE IInv'
<1>1. /\ pc["P"] = "publish" /\ pushed' = pushed + 1
      /\ nodes' = [nodes EXCEPT ![tail].next = new_stub, ![new_stub].serial = pushed + 2]
      /\ pc' = [pc EXCEPT !["P"] = "advance"]
      /\ UNCHANGED <<live, prodVars, consVars, queryVars, seen, op>>
  BY DEF PushPublish, Goto
<1>2. pc'["P"] = "advance" /\ pc'["C"] = pc["C"] /\ ~Gone
  BY <1>1, ProducerIsNotGone DEF IInv, ControlInv, Threads
<1>3. /\ pushed < MaxItems /\ Ser(tail) = pushed + 1 /\ tail \in Addr /\ Dat(tail) = pushed + 1
      /\ new_stub \in live \ leaked /\ new_stub \in Addr /\ Ser(new_stub) = 0
      /\ Nxt(new_stub) = Null /\ tail # new_stub
  BY <1>1, Numbers DEF IInv, ControlInv, ProducerInv
<1>4. /\ \A b \in Addr : nodes'[b].serial = IF b = new_stub THEN pushed + 2 ELSE nodes[b].serial
      /\ \A b \in Addr : nodes'[b].next = IF b = tail THEN new_stub ELSE nodes[b].next
      /\ \A b \in Addr : nodes'[b].data = nodes[b].data
      /\ nodes' \in [Addr -> NodeSet]
  <2>1. /\ nodes'[tail] = [nodes[tail] EXCEPT !.next = new_stub]
        /\ nodes'[new_stub] = [nodes[new_stub] EXCEPT !.serial = pushed + 2]
        /\ \A b \in Addr : b # tail /\ b # new_stub => nodes'[b] = nodes[b]
        /\ nodes' = [b \in Addr |-> nodes'[b]]
    BY <1>1, <1>3, OldTypes
  <2>2. pushed + 2 \in 0 .. MaxItems + 1
    BY <1>3, Numbers
  <2>3. \A b \in Addr : nodes[b] \in NodeSet
    BY OldTypes
  <2>4. \A b \in Addr : nodes'[b] \in NodeSet
    BY <1>3, <2>1, <2>2, <2>3 DEF NodeSet
  <2> QED
    BY <1>3, <2>1, <2>3, <2>4 DEF NodeSet
<1>5. TypeOK'
  <2>1. pushed' \in pushed .. MaxItems
    BY <1>1, <1>3, Numbers
  <2> QED
    BY <1>1, <1>2, <1>4, <2>1, OldTypes, ProducerTypes DEF ProducerLabels, prodVars
<1>6. ControlInv'
  BY <1>1, <1>2, Numbers
     DEF IInv, ControlInv, Threads, ProducerLabels, ConsumerLabels, Gone, consVars, prodVars
<1>7. Low' = Low /\ First' = Low /\ First = Low /\ head' = head /\ got' = got
      /\ Low <= pushed + 1 /\ Low >= 1
  <2>1. head \in Addr /\ head # Null /\ Ser(head) = Low /\ Low >= 1 /\ First = Low
    BY <1>2, HeadIsFirst
  <2>2. head # new_stub /\ Low <= pushed + 1
    BY <1>3, <2>1, Numbers, SMTT(20) DEF Low
  <2>3. head' = head /\ got' = got /\ Low' = Low
    BY <1>1, <1>2 DEF consVars, Low
  <2>4. nodes'[head].serial = Low
    BY <1>4, <2>1, <2>2 DEF Ser
  <2>5. First' = Low
    BY <2>1, <2>3, <2>4 DEF First, Ser
  <2> QED
    BY <2>1, <2>2, <2>3, <2>5
<1>8. ChainInv'
  <2>1. \A b \in Addr : nodes'[b].serial <= pushed' + 1
    BY <1>1, <1>4, Numbers, SMTT(20) DEF Ser
  <2>2. \A b, c \in Addr : nodes'[b].serial = nodes'[c].serial /\ nodes'[b].serial >= 1 => b = c
    BY <1>4, SerialsAreUnique, Numbers, SMTT(20) DEF Ser
  <2>3. ASSUME NEW k \in Low .. pushed' + 1 PROVE \E b \in Addr : nodes'[b].serial = k
    <3>1. CASE k = pushed + 2
      BY <1>3, <1>4, <3>1
    <3>2. CASE k # pushed + 2
      <4>1. k \in Low .. pushed + 1
        BY <1>1, <3>2, Numbers
      <4>2. PICK b \in Addr : Ser(b) = k
        BY <4>1 DEF IInv, ChainInv
      <4>3. b # new_stub
        BY <1>3, <1>7, <4>1, <4>2, Numbers
      <4> QED
        BY <1>4, <4>2, <4>3 DEF Ser
    <3> QED
      BY <3>1, <3>2
  <2>4. ASSUME NEW b \in Addr, nodes'[b].serial >= Low
        PROVE  IF nodes'[b].serial = pushed' + 1
                 THEN nodes'[b].next = Null
                 ELSE /\ nodes'[b].next \in Addr
                      /\ nodes'[nodes'[b].next].serial = nodes'[b].serial + 1
    <3>1. CASE b = new_stub
      BY <1>1, <1>3, <1>4, <3>1, Numbers DEF Nxt
    <3>2. CASE b = tail
      BY <1>1, <1>3, <1>4, <3>2, Numbers, SMTT(20) DEF Ser
    <3>3. CASE b # new_stub /\ b # tail
      <4>1. Ser(b) >= Low /\ nodes'[b].serial = Ser(b) /\ nodes'[b].next = Nxt(b)
        BY <1>4, <2>4, <3>3 DEF Ser, Nxt
      <4>2. Ser(b) # pushed + 1
        BY <1>3, <3>3, SerialsAreUnique, Numbers
      <4>3. Nxt(b) \in Addr /\ Ser(Nxt(b)) = Ser(b) + 1
        BY <1>2, <4>1, <4>2, LinkedIsLive
      <4>4. Nxt(b) # new_stub /\ Ser(b) <= pushed + 1
        BY <1>3, <1>7, <4>1, <4>3, Numbers, SMTT(20)
      <4>5. Ser(b) # pushed' + 1
        BY <1>1, <4>4, Numbers
      <4>6. nodes'[Nxt(b)].serial = Ser(b) + 1
        BY <1>4, <4>3, <4>4 DEF Ser
      <4> QED
        BY <4>1, <4>3, <4>5, <4>6
    <3> QED
      BY <3>1, <3>2, <3>3
  <2> QED
    BY <1>1, <1>7, <2>1, <2>2, <2>3, <2>4 DEF ChainInv, Ser, Nxt
<1>9. LiveInv'
  <2>1. ASSUME NEW b \in Addr, nodes'[b].serial >= Low PROVE b \in live'
    BY <1>1, <1>2, <1>3, <1>4, <2>1, LinkedIsLive DEF Ser
  <2>2. ASSUME NEW b \in live' PROVE nodes'[b].serial >= Low \/ b \in Detached'
    <3>1. b \in live /\ b \in Addr
      BY <1>1, Numbers
    <3>2. CASE b = new_stub
      BY <1>4, <1>7, <3>1, <3>2, Numbers
    <3>3. CASE b # new_stub
      <4>1. nodes'[b].serial = Ser(b) /\ (b \in Detached => b \in Detached')
        BY <1>1, <1>2, <1>4, <3>1, <3>3 DEF Detached, Ser, consVars, prodVars
      <4> QED
        BY <1>7, <3>1, <4>1 DEF IInv, LiveInv
    <3> QED
      BY <3>2, <3>3
  <2>3. \A b \in leaked' : b \in live' /\ nodes'[b].serial = 0
    BY <1>1, <1>3, <1>4, Numbers DEF IInv, LiveInv, Ser, prodVars
  <2> QED
    BY <1>7, <2>1, <2>2, <2>3 DEF LiveInv, Ser
<1>10. DataInv'
  <2>1. ASSUME NEW b \in Addr, nodes'[b].serial \in Len(got) + 1 .. pushed'
        PROVE  nodes'[b].data = nodes'[b].serial
    <3>1. b # new_stub /\ nodes'[b].serial = Ser(b) /\ nodes'[b].data = Dat(b)
      <4>1. nodes'[b].serial # pushed + 2
        BY <1>1, <2>1, Numbers
      <4> QED
        BY <1>4, <4>1 DEF Ser, Dat
    <3>2. CASE Ser(b) = pushed + 1
      <4>1. b = tail
        BY <1>3, <3>2, SerialsAreUnique, Numbers
      <4> QED
        BY <1>3, <3>1, <3>2, <4>1
    <3>3. CASE Ser(b) # pushed + 1
      <4>1. Ser(b) \in Len(got) + 1 .. pushed
        BY <1>1, <2>1, <3>1, <3>3, Numbers
      <4> QED
        BY <3>1, <4>1 DEF IInv, DataInv
    <3> QED
      BY <3>2, <3>3
  <2> QED
    BY <1>7, <2>1 DEF IInv, DataInv, Ser, Dat
<1>11. ProducerInv'
  BY <1>1, <1>2, <1>3, <1>4, Numbers DEF ProducerInv, Ser, prodVars
<1>12. ConsumerInv' /\ PeekInv' /\ WalkInv'
  <2>1. \A b \in live : Ser(b) >= 1 => Kept(b)
    BY <1>1, <1>3, <1>4, Numbers DEF Kept, Ser, prodVars
  <2> QED
    BY <1>1, <1>2, <2>1, Numbers, ConsumerFrame
<1> QED
  BY <1>5, <1>6, <1>8, <1>9, <1>10, <1>11, <1>12 DEF IInv

\* tail follows, without a look at the node it leaves behind.
LEMMA PushAdvanceInv == ASSUME IInv, PushAdvance PROVE IInv'
<1>1. /\ pc["P"] = "advance" /\ tail' = new_stub /\ pc' = [pc EXCEPT !["P"] = "idle"]
      /\ UNCHANGED <<nodes, live, value, new_stub, leaked, consVars, queryVars, pushed, seen, op>>
  BY DEF PushAdvance, Goto
<1>2. pc'["P"] = "idle" /\ pc'["C"] = pc["C"] /\ ~Gone
  BY <1>1, ProducerIsNotGone DEF IInv, ControlInv, Threads
<1>3. new_stub \in Addr /\ Ser(new_stub) = pushed + 1
  BY <1>1 DEF IInv, ProducerInv
<1>4. TypeOK'
  BY <1>1, <1>2, <1>3, Numbers DEF IInv, TypeOK, consVars, queryVars
<1>5. ControlInv'
  BY <1>1, <1>2 DEF IInv, ControlInv, Threads, ProducerLabels, ConsumerLabels, Gone, consVars
<1>6. ChainInv' /\ LiveInv' /\ DataInv'
  <2>1. Low' = Low /\ Detached' = Detached
    BY <1>1, <1>2 DEF Low, Detached, consVars
  <2> QED
    BY <1>1, <2>1, ListFrame DEF consVars
<1>7. ProducerInv'
  BY <1>1, <1>2, <1>3 DEF ProducerInv, Ser
<1>8. ConsumerInv' /\ PeekInv' /\ WalkInv'
  BY <1>1, <1>2, Numbers, ConsumerFrame DEF Kept
<1> QED
  BY <1>4, <1>5, <1>6, <1>7, <1>8 DEF IInv
------------------------------------------------------------------------------
(* The consumer. *)

\* Types after a step of the consumer.
LEMMA ConsumerTypes ==
  ASSUME IInv, UNCHANGED prodVars, pc'["P"] \in ProducerLabels, pc'["C"] \in ConsumerLabels,
         nodes' \in [Addr -> NodeSet], live' \subseteq Addr,
         head' \in Addr \/ (head' = Null /\ pc'["C"] \in {"destroy", "destroyed"}),
         op' \in [Threads -> PushOps \cup PopOps \cup QueryOps \cup {"none"}],
         seen' \in 0 .. pushed, pushed' = pushed,
         next_node' \in Addr \cup {Null}, old_head' \in Addr \cup {Null},
         got' \in Seq(0 .. MaxItems), peeked' \in 0 .. MaxItems,
         cur' \in [Threads -> Addr \cup {Null}], count' \in [Threads -> 0 .. MaxItems],
         answer' \in [Threads -> 0 .. MaxItems \cup {NoAnswer}]
  PROVE  TypeOK'
<1>1. /\ tail' \in Addr /\ value' \in 0 .. MaxItems /\ new_stub' \in Addr \cup {Null}
      /\ leaked' \subseteq Addr
  BY OldTypes DEF prodVars
<1>2. /\ pc'["P"] \in {"idle", "alloc", "data", "publish", "advance", "first", "walk", "joined"}
      /\ pc'["C"] \in {"idle", "load", "read", "advance", "delete", "first", "walk",
                       "destroy", "destroyed"}
  BY DEF ProducerLabels, ConsumerLabels
<1>3. pushed' \in 0 .. MaxItems
  BY Numbers
<1> QED
  BY <1>1, <1>2, <1>3 DEF TypeOK, NodeSet

\* The values of the consumer's members that most steps leave alone.
LEMMA OldConsumerTypes ==
  ASSUME IInv
  PROVE  /\ head \in Addr \/ (head = Null /\ Gone)
         /\ next_node \in Addr \cup {Null} /\ old_head \in Addr \cup {Null}
         /\ got \in Seq(0 .. MaxItems) /\ peeked \in 0 .. MaxItems /\ seen \in 0 .. pushed
         /\ cur \in [Threads -> Addr \cup {Null}] /\ count \in [Threads -> 0 .. MaxItems]
         /\ answer \in [Threads -> 0 .. MaxItems \cup {NoAnswer}]
BY DEF IInv, TypeOK, Gone

Reading == {"idle", "load", "read", "first", "walk"}

\* Steps of the consumer that only look.
LEMMA LookFrame ==
  ASSUME IInv, UNCHANGED <<nodes, live, prodVars, head, got, pushed>>,
         pc' = [pc EXCEPT !["C"] = pc'["C"]], pc["C"] \in Reading, pc'["C"] \in Reading,
         seen' \in seen .. pushed
  PROVE  /\ ~Gone /\ Low = Len(got) + 1
         /\ pc'["C"] \in ConsumerLabels /\ pc'["P"] = pc["P"] /\ pc'["P"] \in ProducerLabels
         /\ Low' = Low /\ seen' \in 0 .. pushed
         /\ ControlInv' /\ ChainInv' /\ LiveInv' /\ DataInv' /\ ProducerInv'
<1>1. /\ pc'["P"] = pc["P"] /\ pc["P"] \in ProducerLabels /\ pc'["C"] \in ConsumerLabels
      /\ ~Gone /\ ~Gone'
  BY DEF IInv, ControlInv, Threads, Reading, ConsumerLabels, Gone
<1>2. Low' = Low /\ Detached' = Detached /\ Low = Len(got) + 1
  BY <1>1 DEF Low, Detached, prodVars, Reading
<1>3. ChainInv' /\ LiveInv' /\ DataInv'
  BY <1>2, ListFrame DEF prodVars
<1>4. seen' \in 0 .. pushed
  BY Numbers
<1>5. ControlInv'
  <2>1. pc' \in [Threads -> ProducerLabels \cup ConsumerLabels]
    BY <1>1 DEF IInv, ControlInv, Threads
  <2>2. Len(got)' <= seen' /\ seen' <= pushed'
    BY Numbers
  <2>3. value' = value /\ pushed' = pushed
    BY DEF prodVars
  <2> QED
    BY <1>1, <2>1, <2>2, <2>3 DEF IInv, ControlInv
<1>6. ProducerInv'
  BY <1>1, ProducerFrame DEF Ser, Nxt, Dat, prodVars, IInv, ProducerInv
<1> QED
  BY <1>1, <1>2, <1>3, <1>4, <1>5, <1>6

\* Each step of the consumer keeps the invariant: the call of a pop,
LEMMA PopCallInv == ASSUME IInv, NEW o \in PopOps, PopCall(o) PROVE IInv'
<1>1. /\ pc["C"] = "idle" /\ pc' = [pc EXCEPT !["C"] = "load"] /\ op' = [op EXCEPT !["C"] = o]
      /\ UNCHANGED <<nodes, live, prodVars, consVars, queryVars, pushed, seen>>
  BY DEF PopCall, Call, Goto
<1>2. pc'["C"] = "load" /\ seen' \in seen .. pushed /\ UNCHANGED <<head, got>>
  BY <1>1, Numbers DEF consVars, IInv, ControlInv, Threads
<1>3. /\ ~Gone /\ Low = Len(got) + 1 /\ pc'["C"] \in ConsumerLabels
      /\ pc'["P"] \in ProducerLabels /\ Low' = Low /\ seen' \in 0 .. pushed
      /\ ControlInv' /\ ChainInv' /\ LiveInv' /\ DataInv' /\ ProducerInv'
  BY <1>1, <1>2, LookFrame DEF Reading
<1>4. TypeOK'
  <2>1. op' \in [Threads -> PushOps \cup PopOps \cup QueryOps \cup {"none"}]
    BY <1>1, OldTypes DEF Threads
  <2> QED
    BY <1>1, <1>3, <2>1, OldTypes, OldConsumerTypes, ConsumerTypes DEF consVars, queryVars, Gone
<1>5. ConsumerInv' /\ PeekInv' /\ WalkInv'
  BY <1>1, <1>2, <1>3 DEF IInv, ConsumerInv, PeekInv, WalkInv, Gone, Ser, consVars
<1> QED
  BY <1>3, <1>4, <1>5 DEF IInv

\* the load of next, with its test for null,
LEMMA PopLoadInv == ASSUME IInv, NEW x, PopLoad(x) PROVE IInv'
<1>1. /\ pc["C"] = "load" /\ x \in NextOf("C", head) /\ next_node' = x
      /\ seen' = AfterLoad("C", head, x)
      /\ pc' = [pc EXCEPT !["C"] = pc'["C"]]
      /\ pc'["C"] \in {"read", "load", "idle"} /\ (pc'["C"] = "read" <=> x # Null)
      /\ UNCHANGED <<nodes, live, head, old_head, got, peeked, prodVars, queryVars, pushed, op>>
  BY DEF PopLoad, Goto, IInv, ControlInv, Threads
<1>2. ~Gone
  BY <1>1 DEF Gone
<1>3. head \in Addr /\ Ser(head) = Low
  BY <1>2, HeadIsFirst
<1>4. /\ x \in Addr \cup {Null} /\ seen' \in seen .. pushed
      /\ x # Null => x = Nxt(head) /\ Ser(head) <= seen'
  BY <1>1, <1>2, <1>3, LoadFacts, Numbers
<1>5. /\ Low = Len(got) + 1 /\ pc'["C"] \in ConsumerLabels
      /\ pc'["P"] \in ProducerLabels /\ Low' = Low /\ seen' \in 0 .. pushed
      /\ ControlInv' /\ ChainInv' /\ LiveInv' /\ DataInv' /\ ProducerInv'
  BY <1>1, <1>4, LookFrame DEF Reading
<1>6. TypeOK'
  BY <1>1, <1>2, <1>4, <1>5, OldTypes, OldConsumerTypes, ConsumerTypes DEF queryVars
<1>7. ConsumerInv'
  <2>1. ~Gone'
    BY <1>1 DEF Gone
  <2>2. Ser(head)' = Ser(head) /\ Nxt(head)' = Nxt(head) /\ head' = head
    BY <1>1 DEF Ser, Nxt
  <2> QED
    BY <1>1, <1>3, <1>4, <1>5, <2>1, <2>2, Numbers DEF ConsumerInv
<1>8. PeekInv'
  BY <1>1, <1>4, Numbers DEF IInv, PeekInv
<1>9. WalkInv'
  BY <1>1 DEF WalkInv
<1> QED
  BY <1>5, <1>6, <1>7, <1>8, <1>9 DEF IInv

\* the read of a peek,
LEMMA PeekReadInv == ASSUME IInv, PeekRead PROVE IInv'
<1>1. /\ pc["C"] = "read" /\ peeked' = Dat(head) /\ pc' = [pc EXCEPT !["C"] = "idle"]
      /\ UNCHANGED <<nodes, live, head, next_node, old_head, got, prodVars, queryVars,
                     pushed, seen, op>>
  BY DEF PeekRead, Goto, Dat
<1>2. pc'["C"] = "idle" /\ seen' \in seen .. pushed /\ UNCHANGED <<head, got>>
  BY <1>1, Numbers DEF IInv, ControlInv, Threads
<1>3. /\ ~Gone /\ Low = Len(got) + 1 /\ pc'["C"] \in ConsumerLabels
      /\ pc'["P"] \in ProducerLabels /\ Low' = Low /\ seen' \in 0 .. pushed
      /\ ControlInv' /\ ChainInv' /\ LiveInv' /\ DataInv' /\ ProducerInv'
  BY <1>1, <1>2, LookFrame DEF Reading
<1>4. head \in Addr /\ Ser(head) = Len(got) + 1 /\ Ser(head) <= seen
  BY <1>1, <1>3, HeadIsFirst DEF IInv, ConsumerInv
<1>5. Dat(head) = Len(got) + 1 /\ Dat(head) \in 0 .. MaxItems
  <2>1. Dat(head) = Len(got) + 1
    BY <1>4, Numbers DEF IInv, DataInv
  <2> QED
    BY <1>4, <2>1, Numbers
<1>6. TypeOK'
  <2>1. peeked' \in 0 .. MaxItems
    BY <1>1, <1>5
  <2> QED
    BY <1>1, <1>3, <1>4, <2>1, OldTypes, OldConsumerTypes, ConsumerTypes, Numbers DEF queryVars
<1>7. ConsumerInv' /\ PeekInv' /\ WalkInv'
  BY <1>1, <1>2, <1>3, <1>4, <1>5, Numbers
     DEF IInv, ConsumerInv, PeekInv, WalkInv, Gone, Ser
<1> QED
  BY <1>3, <1>6, <1>7 DEF IInv

\* the T that throws, which leaves its node the first one,
LEMMA PopThrowInv == ASSUME IInv, PopThrow PROVE IInv'
<1>1. /\ pc["C"] = "read" /\ pc' = [pc EXCEPT !["C"] = "idle"]
      /\ UNCHANGED <<nodes, live, consVars, prodVars, queryVars, pushed, seen, op>>
  BY DEF PopThrow, Goto
<1>2. pc'["C"] = "idle" /\ seen' \in seen .. pushed /\ UNCHANGED <<head, got>>
  BY <1>1, Numbers DEF IInv, ControlInv, Threads, consVars
<1>3. /\ ~Gone /\ Low = Len(got) + 1 /\ pc'["C"] \in ConsumerLabels
      /\ pc'["P"] \in ProducerLabels /\ Low' = Low /\ seen' \in 0 .. pushed
      /\ ControlInv' /\ ChainInv' /\ LiveInv' /\ DataInv' /\ ProducerInv'
  BY <1>1, <1>2, LookFrame DEF Reading
<1>4. TypeOK'
  BY <1>1, <1>3, OldTypes, OldConsumerTypes, ConsumerTypes DEF consVars, queryVars, Gone
<1>5. ConsumerInv' /\ PeekInv' /\ WalkInv'
  BY <1>1, <1>2, <1>3 DEF IInv, ConsumerInv, PeekInv, WalkInv, Gone, Ser, consVars
<1> QED
  BY <1>3, <1>4, <1>5 DEF IInv

\* The value read is the one of the next push: its link happens before.
LEMMA PopReadInv == ASSUME IInv, PopRead PROVE IInv'
<1>1. /\ pc["C"] = "read" /\ got' = Append(got, Dat(head))
      /\ nodes' = [nodes EXCEPT ![head].data = NoItem] /\ pc' = [pc EXCEPT !["C"] = "advance"]
      /\ UNCHANGED <<live, head, next_node, old_head, peeked, prodVars, queryVars,
                     pushed, seen, op>>
  BY DEF PopRead, Goto, Dat
<1>2. pc'["C"] = "advance" /\ pc'["P"] = pc["P"] /\ pc["P"] \in ProducerLabels /\ ~Gone /\ ~Gone'
  BY <1>1 DEF IInv, ControlInv, Threads, Gone
<1>3. /\ head \in Addr /\ head # Null /\ Ser(head) = Len(got) + 1 /\ Ser(head) <= seen
      /\ Low = Len(got) + 1 /\ First = Low /\ next_node = Nxt(head) /\ next_node # Null
  BY <1>1, <1>2, HeadIsFirst DEF IInv, ConsumerInv, Low
<1>4. Dat(head) = Len(got) + 1 /\ Dat(head) \in 0 .. MaxItems
  <2>1. Dat(head) = Len(got) + 1
    BY <1>3, Numbers, SMTT(20) DEF IInv, DataInv
  <2> QED
    BY <1>3, <2>1, Numbers
<1>5. /\ \A b \in Addr : nodes'[b].serial = nodes[b].serial /\ nodes'[b].next = nodes[b].next
      /\ \A b \in Addr : b # head => nodes'[b].data = nodes[b].data
  BY <1>1, Numbers
<1>6. /\ Len(got') = Len(got) + 1 /\ got'[Len(got) + 1] = Len(got) + 1
      /\ \A n \in 1 .. Len(got) : got'[n] = got[n]
      /\ got' \in Seq(0 .. MaxItems)
  BY <1>1, <1>4, Numbers
<1>7. Low' = Low /\ First' = First /\ Detached' = Detached
  <2>1. nodes'[head].serial = Ser(head)
    BY <1>3, <1>5 DEF Ser
  <2>2. First' = First
    BY <1>1, <1>3, <2>1 DEF First, Ser
  <2>3. Detached' = Detached
    BY <1>1, <1>2 DEF Detached, prodVars
  <2>4. Low' = Low
    BY <1>2, <1>3, <1>6 DEF Low
  <2> QED
    BY <2>2, <2>3, <2>4
<1>8. TypeOK'
  <2>1. nodes' \in [Addr -> NodeSet]
    BY <1>1, <1>3, OldTypes DEF NodeSet
  <2> QED
    BY <1>1, <1>2, <1>6, <2>1, OldTypes, OldConsumerTypes, ConsumerTypes
       DEF queryVars, ConsumerLabels, Gone
<1>9. ControlInv'
  <2>1. pc' \in [Threads -> ProducerLabels \cup ConsumerLabels]
    BY <1>1 DEF IInv, ControlInv, ConsumerLabels, Threads
  <2>2. Len(got') <= seen' /\ seen' <= pushed'
    BY <1>1, <1>3, <1>6, Numbers
  <2> QED
    BY <1>1, <1>2, <2>1, <2>2 DEF IInv, ControlInv, prodVars, ConsumerLabels
<1>10. ChainInv'
  <2>1. \A b \in Addr : nodes[b].next \in Addr \cup {Null}
    BY Numbers DEF Nxt
  <2> QED
    BY <1>1, <1>5, <1>7, <2>1 DEF IInv, ChainInv, Ser, Nxt
<1>11. LiveInv'
  BY <1>1, <1>5, <1>7, Numbers DEF IInv, LiveInv, Ser, prodVars
<1>12. DataInv'
  <2>1. ASSUME NEW b \in Addr, nodes'[b].serial \in Len(got') + 1 .. pushed
        PROVE  nodes'[b].data = nodes'[b].serial
    <3>1. nodes'[b].serial = Ser(b) /\ Ser(b) \in Len(got) + 1 .. pushed /\ Ser(b) # Ser(head)
      BY <1>3, <1>5, <1>6, <2>1, Numbers, SMTT(20) DEF Ser
    <3>2. nodes'[b].data = Dat(b)
      BY <1>5, <3>1 DEF Dat
    <3> QED
      BY <3>1, <3>2 DEF IInv, DataInv
  <2>2. ASSUME NEW n \in 1 .. Len(got') PROVE got'[n] = n
    <3>1. n \in 1 .. Len(got) \/ n = Len(got) + 1
      BY <1>6, Numbers
    <3> QED
      BY <1>6, <3>1 DEF IInv, DataInv
  <2> QED
    BY <1>1, <2>1, <2>2 DEF DataInv, Ser, Dat
<1>13. ProducerInv'
  <2>1. pc["P"] = "publish" => tail # head
    BY <1>3, Numbers DEF IInv, ProducerInv
  <2>2. pc["P"] = "publish" => Dat(tail)' = Dat(tail)
    BY <1>1, <1>5, <2>1, Numbers DEF Dat, prodVars
  <2>3. \A b \in Addr : Ser(b)' = Ser(b) /\ Nxt(b)' = Nxt(b)
    BY <1>5 DEF Ser, Nxt
  <2>4. pc["P"] \in {"data", "publish"} => new_stub \in live'
    BY <1>1 DEF IInv, ProducerInv
  <2>5. UNCHANGED <<tail, new_stub, leaked, pushed>>
    BY <1>1 DEF prodVars
  <2> QED
    BY <1>2, <2>2, <2>3, <2>4, <2>5, ProducerFrame
<1>14. ConsumerInv'
  <2>1. nodes'[head].serial = Ser(head) /\ nodes'[head].next = Nxt(head)
    BY <1>3, <1>5 DEF Ser, Nxt
  <2> QED
    BY <1>1, <1>2, <1>3, <1>6, <1>7, <2>1, Numbers DEF ConsumerInv, Ser, Nxt
<1>15. PeekInv' /\ WalkInv'
  BY <1>2 DEF PeekInv, WalkInv
<1> QED
  BY <1>8, <1>9, <1>10, <1>11, <1>12, <1>13, <1>14, <1>15 DEF IInv

\* head moves one node on; the old one is nobody's but the consumer's.
LEMMA PopAdvanceInv == ASSUME IInv, PopAdvance PROVE IInv'
<1>1. /\ pc["C"] = "advance" /\ old_head' = head /\ head' = next_node /\ peeked' = NoItem
      /\ pc' = [pc EXCEPT !["C"] = "delete"]
      /\ UNCHANGED <<nodes, live, next_node, got, prodVars, queryVars, pushed, seen, op>>
  BY DEF PopAdvance, Goto
<1>2. /\ pc'["C"] = "delete" /\ pc'["P"] = pc["P"] /\ pc["P"] \in ProducerLabels
      /\ ~Gone /\ ~Gone'
  BY <1>1 DEF IInv, ControlInv, Threads, Gone
<1>3. /\ head \in Addr /\ head \in live /\ Ser(head) = Low /\ First = Low /\ Low = Len(got)
      /\ Low >= 1 /\ next_node = Nxt(head) /\ next_node # Null /\ Ser(head) <= pushed
  BY <1>1, <1>2, HeadIsFirst, Numbers DEF IInv, ConsumerInv, Low
<1>4. next_node \in Addr /\ Ser(next_node) = Low + 1
  <2>1. Ser(head) # pushed + 1 /\ Ser(head) >= Low
    BY <1>3, Numbers
  <2> QED
    BY <1>2, <1>3, <2>1, LinkedIsLive
<1>5. Low' = Low + 1 /\ First' = Low + 1
  BY <1>1, <1>2, <1>3, <1>4, NullAssumption DEF Low, First, Ser
<1>6. head \notin leaked
  BY <1>3 DEF IInv, LiveInv
<1>7. TypeOK'
  BY <1>1, <1>2, <1>3, <1>4, OldTypes, OldConsumerTypes, ConsumerTypes
     DEF queryVars, ConsumerLabels
<1>8. ControlInv'
  BY <1>1, <1>2 DEF IInv, ControlInv, Threads, ConsumerLabels, prodVars
<1>9. ChainInv'
  <2>1. Low' .. pushed' + 1 \subseteq Low .. pushed + 1
    BY <1>1, <1>5, Numbers
  <2>2. \A a \in Addr : Ser(a) >= First' => Ser(a) >= First
    BY <1>3, <1>5, Numbers
  <2> QED
    BY <1>1, <2>1, <2>2 DEF IInv, ChainInv, Ser, Nxt
<1>10. LiveInv'
  <2>1. \A a \in Addr : Ser(a) >= First' => a \in live
    BY <1>3, <1>5, Numbers DEF IInv, LiveInv
  <2>2. ASSUME NEW a \in live PROVE Ser(a) >= First' \/ a \in Detached'
    <3>1. CASE a = head
      BY <1>1, <1>2, <3>1 DEF Detached
    <3>2. CASE a # head /\ Ser(a) >= First
      <4>1. a \in Addr /\ Ser(a) # Ser(head)
        BY <1>3, <3>2, SerialsAreUnique, Numbers
      <4> QED
        BY <1>3, <1>5, <3>2, <4>1, Numbers
    <3>3. CASE a \in Detached
      BY <1>1, <1>2, <3>3 DEF Detached, prodVars
    <3> QED
      BY <3>1, <3>2, <3>3 DEF IInv, LiveInv
  <2> QED
    BY <1>1, <2>1, <2>2 DEF IInv, LiveInv, Ser, prodVars
<1>11. DataInv'
  BY <1>1 DEF IInv, DataInv, Ser, Dat
<1>12. ProducerInv'
  BY <1>1, <1>2, ProducerFrame DEF Ser, Nxt, Dat, prodVars, IInv, ProducerInv
<1>13. ConsumerInv'
  <2>1. Ser(head)' = Ser(next_node) /\ Ser(old_head)' = Ser(head)
    BY <1>1 DEF Ser
  <2> QED
    BY <1>1, <1>2, <1>3, <1>4, <1>5, <1>6, <2>1, Numbers DEF ConsumerInv, prodVars
<1>14. PeekInv' /\ WalkInv'
  BY <1>1, <1>2 DEF PeekInv, WalkInv
<1> QED
  BY <1>7, <1>8, <1>9, <1>10, <1>11, <1>12, <1>13, <1>14 DEF IInv

\* and the delete of the old head, which is behind the list by now.
LEMMA PopDeleteInv == ASSUME IInv, PopDelete PROVE IInv'
<1>1. /\ pc["C"] = "delete" /\ live' = live \ {old_head} /\ pc' = [pc EXCEPT !["C"] = "idle"]
      /\ UNCHANGED <<nodes, consVars, prodVars, queryVars, pushed, seen, op>>
  BY DEF PopDelete, Goto
<1>2. /\ pc'["C"] = "idle" /\ pc'["P"] = pc["P"] /\ pc["P"] \in ProducerLabels
      /\ ~Gone /\ ~Gone'
  BY <1>1 DEF IInv, ControlInv, Threads, Gone
<1>3. /\ head \in Addr /\ Ser(head) = Low /\ First = Low /\ Low = Len(got) + 1
      /\ old_head \in live \ leaked /\ old_head \in Addr /\ Ser(old_head) = Len(got)
      /\ Len(got) >= 1
  BY <1>1, <1>2, HeadIsFirst, Numbers DEF IInv, ConsumerInv, Low
<1>4. Low' = Low /\ First' = First /\ head' = head
  BY <1>1, <1>2, <1>3 DEF Low, First, Ser, consVars
<1>5. TypeOK'
  BY <1>1, <1>2, OldTypes, OldConsumerTypes, ConsumerTypes
     DEF consVars, queryVars, ConsumerLabels, Gone
<1>6. ControlInv'
  BY <1>1, <1>2 DEF IInv, ControlInv, Threads, ConsumerLabels, prodVars, consVars
<1>7. ChainInv' /\ DataInv'
  BY <1>1, <1>4 DEF IInv, ChainInv, DataInv, Ser, Nxt, Dat, consVars
<1>8. LiveInv'
  <2>1. \A a \in Addr : Ser(a) >= First => a # old_head
    BY <1>3, Numbers
  <2>2. \A a \in live' : a \in Detached => a \in Detached'
    BY <1>1, <1>2 DEF Detached, prodVars
  <2> QED
    BY <1>1, <1>3, <1>4, <2>1, <2>2 DEF IInv, LiveInv, Ser, prodVars
<1>9. ProducerInv'
  <2>1. pc["P"] \in {"data", "publish"} => new_stub \in live'
    BY <1>1, <1>3, Numbers DEF IInv, ProducerInv
  <2> QED
    BY <1>1, <1>2, <2>1, ProducerFrame DEF Ser, Nxt, Dat, prodVars
<1>10. ConsumerInv' /\ PeekInv' /\ WalkInv'
  BY <1>1, <1>2, <1>3, <1>4 DEF IInv, ConsumerInv, PeekInv, WalkInv, Ser, consVars
<1> QED
  BY <1>5, <1>6, <1>7, <1>8, <1>9, <1>10 DEF IInv
------------------------------------------------------------------------------
(* The queries, made by the consumer. *)

\* The call of a query,
LEMMA QueryCallInv == ASSUME IInv, NEW o \in QueryOps, QueryCall("C", o) PROVE IInv'
<1>1. /\ pc["C"] = "idle" /\ pc' = [pc EXCEPT !["C"] = "first"] /\ op' = [op EXCEPT !["C"] = o]
      /\ answer' = [answer EXCEPT !["C"] = NoAnswer] /\ count' = [count EXCEPT !["C"] = 0]
      /\ UNCHANGED <<nodes, live, prodVars, consVars, cur, pushed, seen>>
  BY DEF QueryCall, Call, Goto
<1>2. pc'["C"] = "first" /\ seen' \in seen .. pushed /\ UNCHANGED <<head, got>>
  BY <1>1, Numbers DEF consVars, IInv, ControlInv, Threads
<1>3. /\ ~Gone /\ Low = Len(got) + 1 /\ pc'["C"] \in ConsumerLabels
      /\ pc'["P"] \in ProducerLabels /\ Low' = Low /\ seen' \in 0 .. pushed
      /\ ControlInv' /\ ChainInv' /\ LiveInv' /\ DataInv' /\ ProducerInv'
  BY <1>1, <1>2, LookFrame DEF Reading
<1>4. /\ op' \in [Threads -> PushOps \cup PopOps \cup QueryOps \cup {"none"}]
      /\ answer' \in [Threads -> 0 .. MaxItems \cup {NoAnswer}]
      /\ count' \in [Threads -> 0 .. MaxItems] /\ count'["C"] = 0
  BY <1>1, OldTypes, OldConsumerTypes DEF Threads, NoItem
<1>5. TypeOK'
  BY <1>1, <1>3, <1>4, OldTypes, OldConsumerTypes, ConsumerTypes DEF consVars, Gone
<1>6. ConsumerInv' /\ PeekInv' /\ WalkInv'
  BY <1>1, <1>2, <1>3, <1>4 DEF IInv, ConsumerInv, PeekInv, WalkInv, Gone, Ser, consVars
<1> QED
  BY <1>3, <1>5, <1>6 DEF IInv

\* its first load, which is all of empty(),
LEMMA QueryFirstInv == ASSUME IInv, NEW x, QueryFirst("C", x) PROVE IInv'
<1>1. /\ pc["C"] = "first" /\ x \in NextOf("C", head) /\ seen' = AfterLoad("C", head, x)
      /\ pc' = [pc EXCEPT !["C"] = pc'["C"]] /\ pc'["C"] \in {"idle", "walk"}
      /\ pc'["C"] = "walk" => cur' = [cur EXCEPT !["C"] = x] /\ answer' = answer
      /\ pc'["C"] = "idle" =>
           cur' = cur /\ answer' = [answer EXCEPT !["C"] = IF x = Null THEN 1 ELSE 0]
      /\ UNCHANGED <<nodes, live, prodVars, consVars, count, pushed, op>>
  BY DEF QueryFirst, Goto, IInv, ControlInv, Threads
<1>2. ~Gone
  BY <1>1 DEF Gone
<1>3. head \in Addr /\ Ser(head) = Low
  BY <1>2, HeadIsFirst
<1>4. /\ x \in Addr \cup {Null} /\ seen' \in seen .. pushed
      /\ x # Null => x \in Addr /\ Ser(x) = Ser(head) + 1
      /\ x = Null => seen' = seen /\ seen < Ser(head)
  BY <1>1, <1>2, <1>3, LoadFacts, Numbers
<1>5. /\ Low = Len(got) + 1 /\ pc'["C"] \in ConsumerLabels
      /\ pc'["P"] \in ProducerLabels /\ Low' = Low /\ seen' \in 0 .. pushed
      /\ ControlInv' /\ ChainInv' /\ LiveInv' /\ DataInv' /\ ProducerInv'
      /\ UNCHANGED <<head, got, peeked>>
  BY <1>1, <1>4, LookFrame DEF Reading, consVars
<1>6. /\ cur' \in [Threads -> Addr \cup {Null}]
      /\ answer' \in [Threads -> 0 .. MaxItems \cup {NoAnswer}]
  <2>1. 0 \in 0 .. MaxItems /\ 1 \in 0 .. MaxItems
    BY ItemsAssumption
  <2> QED
    BY <1>1, <1>4, <2>1, OldConsumerTypes DEF Threads
<1>7. TypeOK'
  BY <1>1, <1>5, <1>6, OldTypes, OldConsumerTypes, ConsumerTypes DEF consVars, Gone
<1>8. ConsumerInv' /\ PeekInv'
  <2>1. ~Gone' /\ Ser(head)' = Ser(head)
    BY <1>1, <1>5 DEF Gone, Ser
  <2>2. ConsumerInv'
    BY <1>1, <1>3, <1>5, <2>1, Numbers DEF ConsumerInv, IInv
  <2> QED
    BY <1>1, <1>4, <1>5, <2>2, Numbers DEF IInv, PeekInv
<1>9. WalkInv'
  <2>1. count'["C"] = 0
    BY <1>1 DEF IInv, WalkInv
  <2>2. CASE pc'["C"] = "walk"
    <3>1. cur'["C"] = x
      BY <1>1, <2>2, OldConsumerTypes DEF Threads
    <3>2. CASE x = Null
      <4>1. 0 \in seen' - Len(got)' .. pushed' - Len(got)'
        BY <1>1, <1>3, <1>4, <1>5, <3>2, Numbers
      <4> QED
        BY <2>1, <2>2, <3>1, <3>2, <4>1 DEF WalkInv
    <3>3. CASE x # Null
      <4>1. Ser(x)' = Ser(x)
        BY <1>1 DEF Ser
      <4> QED
        BY <1>3, <1>4, <1>5, <2>1, <2>2, <3>1, <3>3, <4>1, Numbers DEF WalkInv
    <3> QED
      BY <3>2, <3>3
  <2> QED
    BY <1>1, <2>2 DEF WalkInv
<1> QED
  BY <1>5, <1>7, <1>8, <1>9 DEF IInv

\* Where a walk is, and what its next load finds.
LEMMA WalkFacts ==
  ASSUME IInv, pc["C"] = "walk", cur["C"] # Null, NEW x, x \in NextOf("C", cur["C"])
  PROVE  /\ x \in Addr \cup {Null} /\ AfterLoad("C", cur["C"], x) \in seen .. pushed
         /\ x # Null => /\ x \in Addr /\ Ser(x) >= Low + 1
                        /\ count["C"] + 1 = Ser(x) - Low - 1
         /\ x = Null => /\ AfterLoad("C", cur["C"], x) = seen
                        /\ count["C"] + 1 \in seen - Len(got) .. pushed - Len(got)
         /\ count["C"] + 1 \in 0 .. MaxItems
<1>1. ~Gone /\ Low = Len(got) + 1
  BY DEF Gone, Low
<1>2. /\ cur["C"] \in Addr /\ Ser(cur["C"]) >= Low + 1
      /\ count["C"] = Ser(cur["C"]) - Low - 1
  BY DEF IInv, WalkInv
<1>3. /\ x \in Addr \cup {Null} /\ AfterLoad("C", cur["C"], x) \in seen .. pushed
      /\ x # Null => x \in Addr /\ Ser(x) = Ser(cur["C"]) + 1 /\ Ser(cur["C"]) <= pushed
      /\ x = Null => AfterLoad("C", cur["C"], x) = seen /\ seen < Ser(cur["C"])
  BY <1>1, <1>2, LoadFacts, Numbers, SMTT(20)
<1>4. /\ Ser(cur["C"]) \in Nat /\ Ser(cur["C"]) <= pushed + 1
      /\ pushed \in Nat /\ seen \in Nat /\ Len(got) \in Nat /\ MaxItems \in Nat
      /\ pushed <= MaxItems
  BY <1>2, Numbers
<1>5. count["C"] + 1 = Ser(cur["C"]) - Len(got) - 1
  BY <1>1, <1>2, <1>4
<1>6. count["C"] + 1 \in 0 .. MaxItems
  BY <1>1, <1>2, <1>4, <1>5
<1>7. x # Null => Ser(x) >= Low + 1 /\ count["C"] + 1 = Ser(x) - Low - 1
  <2> SUFFICES ASSUME x # Null PROVE Ser(x) >= Low + 1 /\ count["C"] + 1 = Ser(x) - Low - 1
    OBVIOUS
  <2>1. Ser(x) = Ser(cur["C"]) + 1
    BY <1>3
  <2> QED
    BY <1>1, <1>2, <1>4, <1>5, <2>1
<1>8. x = Null => count["C"] + 1 \in seen - Len(got) .. pushed - Len(got)
  BY <1>3, <1>4, <1>5
<1> QED
  BY <1>3, <1>6, <1>7, <1>8

\* each node that size() counts,
LEMMA QueryWalkInv == ASSUME IInv, NEW x, QueryWalk("C", x) PROVE IInv'
<1>1. /\ pc["C"] = "walk" /\ cur["C"] # Null /\ x \in NextOf("C", cur["C"])
      /\ cur' = [cur EXCEPT !["C"] = x] /\ count' = [count EXCEPT !["C"] = count["C"] + 1]
      /\ seen' = AfterLoad("C", cur["C"], x)
      /\ UNCHANGED <<nodes, live, prodVars, consVars, answer, pushed, pc, op>>
  BY DEF QueryWalk
<1>2. /\ x \in Addr \cup {Null} /\ seen' \in seen .. pushed
      /\ x # Null => /\ x \in Addr /\ Ser(x) >= Low + 1
                     /\ count["C"] + 1 = Ser(x) - Low - 1
      /\ x = Null => /\ seen' = seen
                     /\ count["C"] + 1 \in seen - Len(got) .. pushed - Len(got)
      /\ count["C"] + 1 \in 0 .. MaxItems
  BY <1>1, WalkFacts
<1>3. pc' = [pc EXCEPT !["C"] = pc'["C"]] /\ pc'["C"] = "walk" /\ UNCHANGED <<head, got, peeked>>
  BY <1>1 DEF consVars, IInv, ControlInv
<1>4. /\ ~Gone /\ pc'["C"] \in ConsumerLabels
      /\ pc'["P"] \in ProducerLabels /\ Low' = Low /\ seen' \in 0 .. pushed
      /\ ControlInv' /\ ChainInv' /\ LiveInv' /\ DataInv' /\ ProducerInv'
  BY <1>1, <1>2, <1>3, LookFrame DEF Reading
<1>5. /\ cur' \in [Threads -> Addr \cup {Null}] /\ cur'["C"] = x
      /\ count' \in [Threads -> 0 .. MaxItems] /\ count'["C"] = count["C"] + 1
  BY <1>1, <1>2, OldConsumerTypes DEF Threads
<1>6. TypeOK'
  BY <1>1, <1>4, <1>5, OldTypes, OldConsumerTypes, ConsumerTypes DEF consVars, Gone
<1>7. ConsumerInv' /\ PeekInv'
  <2>1. ~Gone' /\ Ser(head)' = Ser(head)
    BY <1>1, <1>3 DEF Gone, Ser
  <2>2. ConsumerInv'
    BY <1>3, <1>4, <2>1 DEF ConsumerInv, IInv
  <2> QED
    BY <1>1, <1>2, <1>3, <2>2, Numbers DEF IInv, PeekInv
<1>8. WalkInv'
  <2>1. Ser(x)' = Ser(x)
    BY <1>1 DEF Ser
  <2> QED
    BY <1>1, <1>2, <1>3, <1>4, <1>5, <2>1 DEF WalkInv
<1> QED
  BY <1>4, <1>6, <1>7, <1>8 DEF IInv

\* and its answer keep the invariant.
LEMMA QueryReturnInv == ASSUME IInv, QueryReturn("C") PROVE IInv'
<1>1. /\ pc["C"] = "walk" /\ answer' = [answer EXCEPT !["C"] = count["C"]]
      /\ pc' = [pc EXCEPT !["C"] = "idle"]
      /\ UNCHANGED <<nodes, live, prodVars, consVars, cur, count, pushed, seen, op>>
  BY DEF QueryReturn, Goto
<1>2. pc'["C"] = "idle" /\ seen' \in seen .. pushed /\ UNCHANGED <<head, got>>
  BY <1>1, Numbers DEF consVars, IInv, ControlInv, Threads
<1>3. /\ ~Gone /\ pc'["C"] \in ConsumerLabels
      /\ pc'["P"] \in ProducerLabels /\ Low' = Low /\ seen' \in 0 .. pushed
      /\ ControlInv' /\ ChainInv' /\ LiveInv' /\ DataInv' /\ ProducerInv'
  BY <1>1, <1>2, LookFrame DEF Reading
<1>4. answer' \in [Threads -> 0 .. MaxItems \cup {NoAnswer}]
  BY <1>1, OldConsumerTypes DEF Threads
<1>5. TypeOK'
  BY <1>1, <1>3, <1>4, OldTypes, OldConsumerTypes, ConsumerTypes DEF consVars, Gone
<1>6. ConsumerInv' /\ PeekInv' /\ WalkInv'
  BY <1>1, <1>2, <1>3 DEF IInv, ConsumerInv, PeekInv, WalkInv, Gone, Ser, consVars
<1> QED
  BY <1>3, <1>5, <1>6 DEF IInv

------------------------------------------------------------------------------
(* The destructor. *)

\* Once both threads have returned, head still leads the whole list.
LEMMA DtorCallInv == ASSUME IInv, DtorCall PROVE IInv'
<1>1. /\ pc = [t \in Threads |-> "idle"] /\ pc' = [P |-> "joined", C |-> "destroy"]
      /\ UNCHANGED <<nodes, live, prodVars, consVars, queryVars, pushed, seen, op>>
  BY DEF DtorCall
<1>2. /\ pc["P"] = "idle" /\ pc["C"] = "idle" /\ pc'["P"] = "joined" /\ pc'["C"] = "destroy"
      /\ pc' \in [Threads -> ProducerLabels \cup ConsumerLabels]
  BY <1>1 DEF Threads, ProducerLabels, ConsumerLabels
<1>3. ~Gone /\ Gone' /\ Low' = Low /\ Low = Len(got) + 1 /\ First' = First
      /\ Detached' = Detached
  BY <1>1, <1>2 DEF Gone, Low, First, Ser, Detached, consVars, prodVars
<1>4. TypeOK'
  <2>1. UNCHANGED <<nodes, live, prodVars, consVars, queryVars, pushed, seen, op>>
    BY <1>1
  <2>2. /\ pc'["P"] \in {"idle", "alloc", "data", "publish", "advance", "first", "walk", "joined"}
        /\ pc'["C"] \in {"idle", "load", "read", "advance", "delete", "first", "walk",
                         "destroy", "destroyed"}
    BY <1>2
  <2>3. head \in Addr
    BY <1>3, HeadIsFirst
  <2> QED
    BY <2>1, <2>2, <2>3 DEF IInv, TypeOK, prodVars, consVars, queryVars
<1>5. ControlInv'
  BY <1>1, <1>2, <1>3 DEF IInv, ControlInv, ProducerLabels, ConsumerLabels, consVars, prodVars
<1>6. ChainInv' /\ LiveInv' /\ DataInv'
  BY <1>1, <1>3 DEF IInv, ChainInv, LiveInv, DataInv, Ser, Nxt, Dat, consVars, prodVars
<1>7. ProducerInv'
  BY <1>1, <1>2 DEF IInv, ProducerInv, Ser, Nxt, Dat, prodVars
<1>8. ConsumerInv' /\ PeekInv' /\ WalkInv'
  <2>1. First' >= Low'
    BY <1>3, HeadIsFirst, Numbers
  <2> QED
    BY <1>1, <1>2, <1>3, <2>1 DEF IInv, ConsumerInv, PeekInv, WalkInv, consVars
<1> QED
  BY <1>4, <1>5, <1>6, <1>7, <1>8 DEF IInv

\* The oldest node goes, and head moves to the next one or past the last.
LEMMA DtorDeleteInv == ASSUME IInv, DtorDelete PROVE IInv'
<1>1. /\ pc["C"] = "destroy" /\ head # Null /\ live' = live \ {head} /\ head' = Nxt(head)
      /\ UNCHANGED <<nodes, prodVars, next_node, old_head, got, peeked, queryVars,
                     pushed, seen, pc, op>>
  BY DEF DtorDelete, Nxt
<1>2. /\ Gone /\ Gone' /\ pc["P"] = "joined" /\ Low = Len(got) + 1 /\ Low' = Low
      /\ pc["P"] \in ProducerLabels
  BY <1>1 DEF Gone, Low, IInv, ControlInv, ProducerLabels
<1>3. /\ head \in Addr /\ First = Ser(head) /\ Ser(head) >= Low
      /\ Ser(head) \in Nat /\ Ser(head) <= pushed + 1 /\ pushed \in Nat /\ Low \in Nat
  BY <1>1, <1>2, OldConsumerTypes, Numbers DEF IInv, ConsumerInv, First
<1>4. /\ Ser(head) = pushed + 1 => Nxt(head) = Null
      /\ Ser(head) # pushed + 1 => Nxt(head) \in Addr /\ Ser(Nxt(head)) = Ser(head) + 1
  BY <1>3 DEF IInv, ChainInv
<1>5. First' = First + 1
  <2>1. First' = IF head' = Null THEN pushed + 2 ELSE Ser(head')
    BY <1>1 DEF First, Ser
  <2>2. CASE Ser(head) = pushed + 1
    BY <1>1, <1>3, <1>4, <2>1, <2>2
  <2>3. CASE Ser(head) # pushed + 1
    BY <1>1, <1>3, <1>4, <2>1, <2>3, NullAssumption
  <2> QED
    BY <2>2, <2>3
<1>6. TypeOK'
  <2>1. /\ head' \in Addr \cup {Null} /\ live' \subseteq Addr
        /\ pc'["C"] = "destroy" /\ pc'["P"] = "joined"
    BY <1>1, <1>2, <1>3, Numbers
  <2>2. UNCHANGED <<nodes, prodVars, next_node, old_head, got, peeked, queryVars, pushed, seen, op>>
    BY <1>1
  <2> QED
    BY <2>1, <2>2 DEF IInv, TypeOK, prodVars, queryVars
<1>7. ControlInv'
  BY <1>1, <1>2 DEF IInv, ControlInv, prodVars
<1>8. ChainInv' /\ DataInv'
  <2>1. \A a \in Addr : Ser(a) >= First' => Ser(a) >= First
    <3> SUFFICES ASSUME NEW a \in Addr, Ser(a) >= First' PROVE Ser(a) >= First
      OBVIOUS
    <3>1. Ser(a) \in Nat
      BY Numbers
    <3> QED
      BY <1>3, <1>5, <3>1
  <2> QED
    BY <1>1, <1>2, <2>1 DEF IInv, ChainInv, DataInv, Ser, Nxt, Dat
<1>9. LiveInv'
  <2>1. \A a \in Addr : Ser(a) >= First' => a \in live /\ a # head
    BY <1>3, <1>5, Numbers DEF IInv, LiveInv
  <2>2. ASSUME NEW a \in live, a # head PROVE Ser(a) >= First' \/ a \in Detached
    <3>1. CASE Ser(a) >= First
      <4>1. a \in Addr /\ Ser(a) \in Nat /\ Ser(a) # Ser(head)
        BY <1>2, <1>3, <2>2, <3>1, SerialsAreUnique, Numbers
      <4> QED
        BY <1>3, <1>5, <3>1, <4>1
    <3> QED
      BY <3>1 DEF IInv, LiveInv
  <2>3. Detached' = Detached
    BY <1>1 DEF Detached, prodVars
  <2>4. head \notin leaked
    BY <1>2, <1>3 DEF IInv, LiveInv
  <2> QED
    BY <1>1, <2>1, <2>2, <2>3, <2>4 DEF IInv, LiveInv, Ser, prodVars
<1>10. ProducerInv'
  BY <1>1, <1>2 DEF IInv, ProducerInv, Ser, Nxt, Dat, prodVars
<1>11. ConsumerInv' /\ PeekInv' /\ WalkInv'
  <2>1. First' >= Low'
    BY <1>2, <1>3, <1>5
  <2> QED
    BY <1>1, <1>2, <2>1 DEF IInv, ConsumerInv, PeekInv, WalkInv
<1> QED
  BY <1>6, <1>7, <1>8, <1>9, <1>10, <1>11 DEF IInv

\* The loop ends when head has passed the last node.
LEMMA DtorReturnInv == ASSUME IInv, DtorReturn PROVE IInv'
<1>1. /\ pc["C"] = "destroy" /\ head = Null /\ pc' = [pc EXCEPT !["C"] = "destroyed"]
      /\ UNCHANGED <<nodes, live, prodVars, consVars, queryVars, pushed, seen, op>>
  BY DEF DtorReturn, Goto
<1>2. /\ Gone /\ Gone' /\ pc'["C"] = "destroyed" /\ pc'["P"] = pc["P"] /\ pc["P"] = "joined"
      /\ pc' \in [Threads -> ProducerLabels \cup ConsumerLabels]
  BY <1>1 DEF Gone, IInv, ControlInv, Threads, ConsumerLabels
<1>3. Low' = Low /\ First' = First /\ Detached' = Detached
  BY <1>1, <1>2 DEF Low, First, Ser, Detached, consVars, prodVars
<1>4. TypeOK'
  BY <1>1, <1>2, OldTypes, OldConsumerTypes, ConsumerTypes
     DEF consVars, queryVars, ConsumerLabels, ProducerLabels
<1>5. ControlInv'
  BY <1>1, <1>2 DEF IInv, ControlInv, ProducerLabels, ConsumerLabels, consVars, prodVars
<1>6. ChainInv' /\ LiveInv' /\ DataInv'
  BY <1>1, <1>3 DEF IInv, ChainInv, LiveInv, DataInv, Ser, Nxt, Dat, consVars, prodVars
<1>7. ProducerInv'
  BY <1>1, <1>2 DEF IInv, ProducerInv, Ser, Nxt, Dat, prodVars
<1>8. ConsumerInv' /\ PeekInv' /\ WalkInv'
  BY <1>1, <1>2, <1>3 DEF IInv, ConsumerInv, PeekInv, WalkInv, consVars
<1> QED
  BY <1>4, <1>5, <1>6, <1>7, <1>8 DEF IInv

------------------------------------------------------------------------------
(* The invariant. *)

\* The constructor's stub is a list of one node with the serial 1.
LEMMA InvStarts == Init => IInv
<1> SUFFICES ASSUME Init PROVE IInv
  OBVIOUS
<1> PICK stub \in Addr :
      /\ head = stub /\ tail = stub /\ live = {stub}
      /\ nodes = [a \in Addr |-> [data |-> NoItem, next |-> Null,
                                  serial |-> IF a = stub THEN 1 ELSE 0]]
  BY DEF Init
<1>1. /\ pc = [t \in Threads |-> "idle"] /\ op = [t \in Threads |-> "none"]
      /\ value = NoItem /\ new_stub = Null /\ next_node = Null /\ old_head = Null
      /\ cur = [t \in Threads |-> Null] /\ count = [t \in Threads |-> 0]
      /\ answer = [t \in Threads |-> NoAnswer]
      /\ pushed = 0 /\ seen = 0 /\ got = << >> /\ peeked = NoItem /\ leaked = {}
  BY DEF Init
<1>2. pc["P"] = "idle" /\ pc["C"] = "idle" /\ ~Gone /\ Len(got) = 0 /\ NoItem = 0
  BY <1>1 DEF Threads, Gone, NoItem
<1>3. \A a \in Addr : Ser(a) = (IF a = stub THEN 1 ELSE 0) /\ Nxt(a) = Null /\ Dat(a) = 0
  BY <1>2 DEF Ser, Nxt, Dat
<1>4. Low = 1 /\ First = 1 /\ Detached = {}
  BY <1>1, <1>2, <1>3, NullAssumption DEF Low, First, Detached
<1>5. TypeOK
  <2>1. nodes \in [Addr -> [data : {NoT} \cup 0 .. MaxItems, next : Addr \cup {Null},
                            serial : 0 .. MaxItems + 1]]
    BY <1>2, ItemsAssumption
  <2>2. got \in Seq(0 .. MaxItems)
    BY <1>1
  <2>3. /\ op \in [Threads -> PushOps \cup PopOps \cup QueryOps \cup {"none"}]
        /\ cur \in [Threads -> Addr \cup {Null}]
        /\ count \in [Threads -> 0 .. MaxItems]
        /\ answer \in [Threads -> 0 .. MaxItems \cup {NoAnswer}]
    BY <1>1, ItemsAssumption
  <2>4. value \in 0 .. MaxItems /\ pushed \in 0 .. MaxItems /\ seen \in 0 .. pushed
        /\ peeked \in 0 .. MaxItems
    BY <1>1, <1>2, ItemsAssumption
  <2> QED
    BY <1>1, <1>2, <2>1, <2>2, <2>3, <2>4 DEF TypeOK
<1>6. ControlInv
  BY <1>1, <1>2 DEF ControlInv, ProducerLabels, ConsumerLabels
<1>7. ChainInv
  BY <1>1, <1>3, <1>4 DEF ChainInv
<1>8. LiveInv
  BY <1>1, <1>3, <1>4 DEF LiveInv
<1>9. ProducerInv /\ ConsumerInv
  BY <1>1, <1>2, <1>3, <1>4 DEF ProducerInv, ConsumerInv
<1>10. DataInv /\ PeekInv /\ WalkInv
  BY <1>1, <1>2, <1>3 DEF DataInv, PeekInv, WalkInv
<1> QED
  BY <1>5, <1>6, <1>7, <1>8, <1>9, <1>10 DEF IInv

\* A stuttering step keeps the invariant.
LEMMA InvStutters == ASSUME IInv, UNCHANGED vars PROVE IInv'
<1>1. /\ UNCHANGED <<nodes, live, tail, value, new_stub, leaked>>
      /\ UNCHANGED <<head, next_node, old_head, got, peeked, cur, count, answer>>
      /\ UNCHANGED <<pushed, seen, pc, op>>
  BY DEF vars, prodVars, consVars, queryVars
<1>2. Low' = Low /\ First' = First /\ Detached' = Detached /\ (Gone' <=> Gone)
  BY <1>1 DEF Low, First, Ser, Detached, Gone
<1>3. TypeOK' /\ ControlInv'
  BY <1>1, <1>2 DEF IInv, TypeOK, ControlInv
<1>4. ChainInv' /\ LiveInv' /\ DataInv'
  BY <1>1, <1>2 DEF IInv, ChainInv, LiveInv, DataInv, Ser, Nxt, Dat
<1>5. ProducerInv' /\ ConsumerInv' /\ PeekInv' /\ WalkInv'
  BY <1>1, <1>2 DEF IInv, ProducerInv, ConsumerInv, PeekInv, WalkInv, Ser, Nxt, Dat
<1> QED
  BY <1>3, <1>4, <1>5 DEF IInv

\* Every step keeps the invariant.
LEMMA InvNext == ASSUME QueryThreads \subseteq {"C"}, IInv, [Next]_vars PROVE IInv'
<1>1. CASE NewCall
  BY <1>1, PushCallInv, PopCallInv, QueryCallInv, DtorCallInv DEF NewCall
<1>2. CASE PushStep
  BY <1>2, PushAllocInv, PushNoNodeInv, PushDataInv, PushThrowInv, PushPublishInv,
     PushAdvanceInv DEF PushStep
<1>3. CASE PopStep
  BY <1>3, PopLoadInv, PeekReadInv, PopReadInv, PopThrowInv, PopAdvanceInv, PopDeleteInv
     DEF PopStep
<1>4. CASE QueryStep("C")
  BY <1>4, QueryFirstInv, QueryWalkInv, QueryReturnInv DEF QueryStep
<1>5. CASE DtorStep
  BY <1>5, DtorDeleteInv, DtorReturnInv DEF DtorStep
<1>6. CASE UNCHANGED vars
  BY <1>6, InvStutters
<1> QED
  BY <1>1, <1>2, <1>3, <1>4, <1>5, <1>6 DEF Next

\* The invariant holds in every state, when only the consumer asks for the size.
THEOREM Invariant == ASSUME QueryThreads \subseteq {"C"} PROVE Spec => []IInv
<1>1. IInv /\ [Next]_vars => IInv'
  BY InvNext
<1> QED
  BY <1>1, InvStarts, PTL DEF Spec

\* All members and locals keep their types.
THEOREM TypeCorrect == ASSUME QueryThreads \subseteq {"C"} PROVE Spec => []TypeOK
<1>1. IInv => TypeOK
  BY DEF IInv
<1> QED
  BY <1>1, Invariant, PTL

------------------------------------------------------------------------------
(* The properties. *)

\* Neither thread ever follows a pointer to a node that has been deleted.
THEOREM NodesStayLive == ASSUME QueryThreads \subseteq {"C"} PROVE Spec => []NodesAreLive
<1>1. ASSUME IInv PROVE NodesAreLive
  <2>1. ASSUME pc["P"] \in {"data", "publish"} PROVE {tail, new_stub} \subseteq live
    <3>1. ~Gone /\ Ser(tail) = pushed + 1 /\ new_stub \in live
      BY <1>1, <2>1 DEF IInv, ControlInv, ProducerInv
    <3>2. Low <= pushed + 1
      BY <1>1, Numbers DEF Low
    <3>3. tail \in Addr /\ Ser(tail) >= Low
      BY <1>1, <3>1, <3>2, Numbers
    <3> QED
      BY <1>1, <3>1, <3>3, LinkedIsLive
  <2>2. ASSUME pc["C"] \in {"load", "read", "first"} PROVE head \in live
    BY <1>1, <2>2, HeadIsFirst DEF Gone
  <2>3. pc["C"] = "delete" => old_head \in live
    BY <1>1 DEF IInv, ConsumerInv
  <2>4. ASSUME pc["C"] = "destroy", head # Null PROVE head \in live
    <3>1. head \in Addr /\ Ser(head) >= First
      BY <1>1, <2>4, OldConsumerTypes, Numbers DEF First
    <3> QED
      BY <1>1, <3>1 DEF IInv, LiveInv
  <2>5. ASSUME pc["C"] = "walk", cur["C"] # Null PROVE cur["C"] \in live
    <3>1. ~Gone /\ cur["C"] \in Addr /\ Ser(cur["C"]) >= Low
      BY <1>1, <2>5, Numbers DEF IInv, WalkInv, Gone
    <3> QED
      BY <1>1, <3>1, LinkedIsLive
  <2>6. pc["P"] \notin {"first", "walk"}
    BY <1>1 DEF IInv, ControlInv, ProducerLabels
  <2> QED
    BY <2>1, <2>2, <2>3, <2>4, <2>5, <2>6 DEF NodesAreLive, Threads
<1> QED
  BY <1>1, Invariant, PTL

\* The consumer reads an item only after the link that publishes it, and the
\* n-th pop returns the item of the n-th push.
THEOREM DeliversInOrder == ASSUME QueryThreads \subseteq {"C"} PROVE Spec => []FifoDelivery
<1>1. IInv => FifoDelivery
  BY DEF IInv, ConsumerInv, DataInv, FifoDelivery, Ser
<1> QED
  BY <1>1, Invariant, PTL

\* The allocated nodes that no pointer outside the list holds are the list.
LEMMA LinkedNodes ==
  ASSUME IInv, ~Gone
  PROVE  live \ Detached = {a \in Addr : Ser(a) >= Low}
<1>1. \A a \in Addr : Ser(a) >= Low => a \in live
  BY LinkedIsLive
<1>2. \A a \in live : Ser(a) >= Low \/ a \in Detached
  BY HeadIsFirst DEF IInv, LiveInv
<1>3. \A a \in Detached : Ser(a) < Low
  <2>1. Low >= 1
    BY HeadIsFirst
  <2>2. \A a \in leaked : Ser(a) < Low
    BY <2>1, Numbers DEF IInv, LiveInv
  <2>3. pc["P"] \in {"data", "publish"} => Ser(new_stub) < Low
    BY <2>1, Numbers DEF IInv, ProducerInv
  <2>4. pc["C"] = "delete" => Ser(old_head) < Low
    BY Numbers DEF IInv, ConsumerInv, Low
  <2> QED
    BY <2>2, <2>3, <2>4 DEF Detached
<1>4. live \subseteq Addr /\ Low \in Nat /\ \A a \in Addr : Ser(a) \in Nat
  BY Numbers
<1>5. ASSUME NEW a \in Addr, Ser(a) >= Low PROVE a \notin Detached
  BY <1>3, <1>4, <1>5
<1> QED
  BY <1>1, <1>2, <1>4, <1>5

\* From head, next leads through the items not yet popped to the stub.
THEOREM ChainIsIntact == ASSUME QueryThreads \subseteq {"C"} PROVE Spec => []ListIsChain
<1>1. ASSUME IInv, pc["P"] # "joined"
      PROVE  LET Linked == live \ Detached
                 first  == nodes[head].serial
             IN /\ head \in Linked
                /\ first = IF pc["C"] = "advance" THEN Len(got) ELSE Len(got) + 1
                /\ {nodes[a].serial : a \in Linked} = first .. pushed + 1
                /\ \A a \in Linked :
                     IF nodes[a].serial = pushed + 1
                       THEN nodes[a].next = Null
                       ELSE nodes[a].next \in Linked
                            /\ nodes[nodes[a].next].serial = nodes[a].serial + 1
                /\ nodes[tail].serial = pushed + 1
                     \/ (pc["P"] = "advance" /\ nodes[new_stub].serial = pushed + 1)
  <2> DEFINE Linked == {a \in Addr : Ser(a) >= Low}
  <2>1. ~Gone
    BY <1>1 DEF IInv, ControlInv
  <2>2. live \ Detached = Linked
    BY <1>1, <2>1, LinkedNodes
  <2>3. head \in Addr /\ Ser(head) = Low
    BY <1>1, <2>1, HeadIsFirst
  <2>4. head \in Linked
    BY <1>1, <2>3, Numbers
  <2>5. {Ser(a) : a \in Linked} = Low .. pushed + 1
    <3>1. ASSUME NEW a \in Linked PROVE Ser(a) \in Low .. pushed + 1
      BY <1>1, Numbers
    <3>2. ASSUME NEW k \in Low .. pushed + 1 PROVE \E a \in Linked : Ser(a) = k
      BY <1>1, Numbers DEF IInv, ChainInv
    <3> QED
      BY <3>1, <3>2
  <2>6. ASSUME NEW a \in Linked
        PROVE  IF Ser(a) = pushed + 1 THEN Nxt(a) = Null
               ELSE Nxt(a) \in Linked /\ Ser(Nxt(a)) = Ser(a) + 1
    <3>1. /\ a \in Addr /\ Ser(a) >= Low /\ Ser(a) \in Nat /\ Low \in Nat
      BY <1>1, Numbers
    <3> QED
      BY <1>1, <2>1, <3>1, LinkedIsLive
  <2>7. Ser(tail) = pushed + 1 \/ (pc["P"] = "advance" /\ Ser(new_stub) = pushed + 1)
    BY <1>1 DEF IInv, ProducerInv
  <2> QED
    BY <2>2, <2>3, <2>4, <2>5, <2>6, <2>7 DEF Ser, Nxt, Low
<1>2. IInv => ListIsChain
  BY <1>1 DEF ListIsChain
<1> QED
  BY <1>2, Invariant, PTL

\* One node per item and one for the stub; none but the orphans of a throwing
\* push outlives the queue.
THEOREM NodesAreCounted == ASSUME QueryThreads \subseteq {"C"} PROVE Spec => []NodeAccounting
<1>1. ASSUME IInv, pc = [t \in Threads |-> "idle"]
      PROVE  Cardinality(live \ leaked) = pushed - Len(got) + 1
  <2> DEFINE Linked == {a \in Addr : Ser(a) >= Low}
             Serials == Low .. pushed + 1
             f == [a \in Linked |-> Ser(a)]
             g == [k \in Serials |-> CHOOSE a \in Linked : Ser(a) = k]
  <2>1. pc["P"] = "idle" /\ pc["C"] = "idle" /\ ~Gone /\ Low = Len(got) + 1 /\ Detached = leaked
    BY <1>1 DEF Threads, Gone, Low, Detached
  <2>2. live \ leaked = Linked
    BY <1>1, <2>1, LinkedNodes
  <2>3. \A k \in Serials : \E a \in Linked : Ser(a) = k
    BY <1>1, Numbers DEF IInv, ChainInv
  <2>4. g \in [Serials -> Linked] /\ \A k \in Serials : Ser(g[k]) = k
    BY <2>3
  <2>5. \A a \in Linked : \E k \in Serials : g[k] = a
    <3> SUFFICES ASSUME NEW a \in Linked PROVE g[Ser(a)] = a /\ Ser(a) \in Serials
      OBVIOUS
    <3>1. Ser(a) \in Serials /\ Ser(a) >= 1
      BY <1>1, <2>1, Numbers
    <3>2. g[Ser(a)] \in Addr /\ Ser(g[Ser(a)]) = Ser(a)
      BY <2>4, <3>1
    <3> QED
      BY <1>1, <3>1, <3>2, SerialsAreUnique
  <2>6. g \in Bijection(Serials, Linked)
    <3>1. \A j, k \in Serials : g[j] = g[k] => j = k
      BY <2>4
    <3> QED
      BY <2>4, <2>5, <3>1, Fun_IsBij
  <2>7. IsFiniteSet(Serials) /\ Cardinality(Serials) = pushed - Len(got) + 1
    <3>1. /\ Low \in Int /\ pushed + 1 \in Int /\ ~(Low > pushed + 1)
          /\ (pushed + 1) - Low + 1 = pushed - Len(got) + 1
      BY <1>1, <2>1, Numbers
    <3> QED
      BY <3>1, FS_Interval
  <2>8. Cardinality(Linked) = Cardinality(Serials)
    BY <2>6, <2>7, FS_Bijection DEF ExistsBijection
  <2> QED
    BY <2>2, <2>7, <2>8
<1>2. ASSUME IInv, pc["C"] = "destroyed" PROVE live = leaked
  <2>1. head = Null /\ pc["P"] = "joined" /\ First = pushed + 2 /\ Detached = leaked
    BY <1>2 DEF IInv, ConsumerInv, ControlInv, Gone, First, Detached
  <2>2. \A a \in live : ~(Ser(a) >= First)
    BY <1>2, <2>1, Numbers
  <2> QED
    BY <1>2, <2>1, <2>2 DEF IInv, LiveInv
<1>3. IInv => NodeAccounting
  BY <1>1, <1>2 DEF NodeAccounting
<1> QED
  BY <1>3, Invariant, PTL

\* The links and the number of nodes are right together.
THEOREM ListStaysIntact == ASSUME QueryThreads \subseteq {"C"} PROVE Spec => []ListIsIntact
<1>1. ListIsChain /\ NodeAccounting => ListIsIntact
  BY DEF ListIsIntact
<1> QED
  BY <1>1, ChainIsIntact, NodesAreCounted, PTL

\* What the consumer's loads find at the head of the list.
LEMMA HeadFacts ==
  ASSUME IInv, ~Gone, pc["C"] # "advance", NEW x, x \in NextOf("C", head)
  PROVE  /\ x = Null => AfterLoad("C", head, x) = Len(got) /\ seen = Len(got)
         /\ x # Null => pushed > Len(got)
<1>1. head \in Addr /\ Ser(head) = Len(got) + 1 /\ Ser(head) >= Low
  BY HeadIsFirst, Numbers DEF Low
<1>2. /\ x # Null => Ser(head) <= pushed
      /\ x = Null => AfterLoad("C", head, x) = seen /\ seen < Ser(head)
  BY <1>1, LoadFacts
<1> QED
  BY <1>1, <1>2, Numbers

\* Whatever is popped, is the item with the number of the pop.
LEMMA ReadFacts ==
  ASSUME IInv, pc["C"] = "read"
  PROVE  Dat(head) = Len(got) + 1 /\ Len(got) < pushed
<1>1. ~Gone /\ Low = Len(got) + 1
  BY DEF Gone, Low
<1>2. head \in Addr /\ Ser(head) = Len(got) + 1 /\ Ser(head) <= seen
  BY <1>1, HeadIsFirst DEF IInv, ConsumerInv
<1>3. Ser(head) \in Len(got) + 1 .. pushed
  BY <1>2, Numbers
<1> QED
  BY <1>2, <1>3, Numbers DEF IInv, DataInv

\* The producer's own steps change nothing the consumer has been told.
LEMMA ProducerLeavesAnswers ==
  ASSUME IInv, PushStep PROVE UNCHANGED <<got, peeked, answer, pc["C"], op["C"]>>
<1>1. UNCHANGED <<consVars, queryVars, op>> /\ \E label : pc' = [pc EXCEPT !["P"] = label]
  BY DEF PushStep, PushAlloc, PushNoNode, PushData, PushThrow, PushPublish, PushAdvance, Goto
<1>2. pc'["C"] = pc["C"]
  BY <1>1 DEF IInv, ControlInv, Threads
<1> QED
  BY <1>1, <1>2 DEF consVars, queryVars

\* "empty" is answered by the consumer only when it has popped all that it
\* knows of, and a peek promises the next pop.
THEOREM EmptyAndPeekHold ==
  ASSUME QueryThreads \subseteq {"C"} PROVE Spec => EmptyAndPeekAreTrue
<1> DEFINE A == /\ pc["C"] = "load" /\ pc'["C"] = "idle" => seen' = Len(got) /\ peeked = NoItem
                /\ peeked # NoItem => /\ got' # got => got' = Append(got, peeked)
                                      /\ peeked' \in {peeked, NoItem}
<1>1. ASSUME IInv, [Next]_vars PROVE A \/ UNCHANGED vars
  <2>1. CASE NewCall
    <3>1. UNCHANGED <<got, peeked>>
      BY <2>1 DEF NewCall, PushCall, PopCall, QueryCall, DtorCall, consVars
    <3>2. pc["C"] = "load" => pc'["C"] # "idle"
      BY <2>1, <1>1 DEF NewCall, PushCall, PopCall, QueryCall, DtorCall, Call, Goto, IInv,
                        ControlInv, Threads
    <3> QED
      BY <3>1, <3>2
  <2>2. CASE PushStep
    BY <1>1, <2>2, ProducerLeavesAnswers
  <2>3. ASSUME NEW x, PopLoad(x) PROVE A
    <3>1. /\ pc["C"] = "load" /\ x \in NextOf("C", head) /\ seen' = AfterLoad("C", head, x)
          /\ pc'["C"] = "idle" => x = Null
          /\ UNCHANGED <<got, peeked>>
      BY <2>3, <1>1 DEF PopLoad, Goto, IInv, ControlInv, Threads
    <3>2. ~Gone /\ pc["C"] # "advance"
      BY <3>1 DEF Gone
    <3>3. x = Null => seen' = Len(got) /\ seen = Len(got)
      BY <1>1, <3>1, <3>2, HeadFacts
    <3>4. peeked # NoItem => Len(got) < seen
      BY <1>1, <3>1 DEF IInv, PeekInv
    <3> QED
      BY <1>1, <3>1, <3>3, <3>4, Numbers
  <2>4. CASE PeekRead
    <3>1. pc["C"] = "read" /\ peeked' = Dat(head) /\ got' = got
      BY <2>4 DEF PeekRead, Dat
    <3>2. peeked # NoItem => peeked = Len(got) + 1
      BY <1>1, <3>1 DEF IInv, PeekInv
    <3> QED
      BY <1>1, <3>1, <3>2, ReadFacts
  <2>5. CASE PopRead
    <3>1. pc["C"] = "read" /\ got' = Append(got, Dat(head)) /\ peeked' = peeked
      BY <2>5 DEF PopRead, Dat
    <3>2. peeked # NoItem => peeked = Len(got) + 1
      BY <1>1, <3>1 DEF IInv, PeekInv
    <3> QED
      BY <1>1, <3>1, <3>2, ReadFacts
  <2>6. CASE PopThrow \/ PopAdvance \/ PopDelete
    BY <2>6 DEF PopThrow, PopAdvance, PopDelete, consVars
  <2>7. ASSUME NEW t \in Threads, QueryStep(t) PROVE A
    <3>1. UNCHANGED <<got, peeked>>
      BY <2>7 DEF QueryStep, QueryFirst, QueryWalk, QueryReturn, consVars
    <3>2. pc["C"] = "load" => pc'["C"] # "idle"
      BY <2>7, <1>1 DEF QueryStep, QueryFirst, QueryWalk, QueryReturn, Goto, IInv,
                        ControlInv, Threads
    <3> QED
      BY <3>1, <3>2
  <2>8. CASE DtorStep
    BY <2>8 DEF DtorStep, DtorDelete, DtorReturn, consVars
  <2> QED
    BY <1>1, <2>1, <2>2, <2>3, <2>4, <2>5, <2>6, <2>7, <2>8, ThreadsAssumption
       DEF Next, PopStep, Threads
<1>2. IInv /\ [Next]_vars => [A]_vars
  BY <1>1
<1> QED
  BY <1>2, Invariant, PTL DEF Spec, EmptyAndPeekAreTrue

\* Which query the consumer is in.
OpInv == /\ pc["C"] = "first" => op["C"] \in QueryOps
         /\ pc["C"] = "walk" => op["C"] = "size"

\* A query that walks is size().
LEMMA OpInvariant == ASSUME QueryThreads \subseteq {"C"} PROVE Spec => []OpInv
<1>1. Init => OpInv
  BY DEF Init, OpInv, Threads
<1>2. ASSUME IInv, OpInv, [Next]_vars PROVE OpInv'
  <2>1. CASE NewCall
    BY <1>2, <2>1, OldTypes DEF NewCall, PushCall, PopCall, QueryCall, DtorCall, Call, Goto, IInv,
                      ControlInv, Threads, OpInv
  <2>2. CASE PushStep
    BY <1>2, <2>2, ProducerLeavesAnswers DEF OpInv
  <2>3. CASE PopStep
    BY <1>2, <2>3 DEF PopStep, PopLoad, PeekRead, PopRead, PopThrow, PopAdvance, PopDelete,
                      Goto, IInv, ControlInv, Threads, OpInv
  <2>4. CASE QueryStep("C")
    BY <1>2, <2>4 DEF QueryStep, QueryFirst, QueryWalk, QueryReturn, Goto, IInv, ControlInv,
                      Threads, OpInv, QueryOps
  <2>5. CASE DtorStep
    BY <1>2, <2>5 DEF DtorStep, DtorDelete, DtorReturn, Goto, IInv, ControlInv, Threads, OpInv
  <2>6. CASE UNCHANGED vars
    BY <1>2, <2>6 DEF vars, OpInv
  <2> QED
    BY <1>2, <2>1, <2>2, <2>3, <2>4, <2>5, <2>6 DEF Next
<1> QED
  BY <1>1, <1>2, Invariant, PTL DEF Spec

\* An answer of size() lies between the items the consumer knows of and those
\* that are there; empty() tells which of the two is zero.
THEOREM QueriesAreTrue == ASSUME QueryThreads \subseteq {"C"} PROVE Spec => QueryIsSnapshot
<1> DEFINE A == answer'["C"] # answer["C"] /\ answer'["C"] # NoAnswer =>
                  IF op["C"] = "size"
                    THEN answer'["C"] \in seen - Len(got) .. pushed - Len(got)
                    ELSE /\ answer'["C"] = 1 => seen = Len(got)
                         /\ answer'["C"] = 0 => pushed > Len(got)
<1>1. ASSUME IInv, OpInv, [Next]_vars PROVE A
  <2>1. CASE NewCall
    BY <1>1, <2>1, OldConsumerTypes
       DEF NewCall, PushCall, PopCall, QueryCall, DtorCall, queryVars, Threads
  <2>2. CASE PushStep
    BY <1>1, <2>2, ProducerLeavesAnswers
  <2>3. CASE PopStep
    BY <2>3 DEF PopStep, PopLoad, PeekRead, PopRead, PopThrow, PopAdvance, PopDelete, queryVars
  <2>4. ASSUME NEW x, QueryFirst("C", x) PROVE A
    <3>1. CASE op["C"] = "empty"
      <4>1. /\ pc["C"] = "first" /\ x \in NextOf("C", head)
            /\ answer'["C"] = IF x = Null THEN 1 ELSE 0
        BY <1>1, <2>4, <3>1, OldConsumerTypes DEF QueryFirst, Threads
      <4>2. /\ x = Null => seen = Len(got)
            /\ x # Null => pushed > Len(got)
        BY <1>1, <4>1, HeadFacts DEF Gone
      <4> QED
        BY <3>1, <4>1, <4>2
    <3>2. CASE op["C"] # "empty"
      BY <2>4, <3>2 DEF QueryFirst
    <3> QED
      BY <3>1, <3>2
  <2>5. ASSUME NEW x, QueryWalk("C", x) PROVE A
    BY <2>5 DEF QueryWalk
  <2>6. CASE QueryReturn("C")
    <3>1. pc["C"] = "walk" /\ cur["C"] = Null /\ answer'["C"] = count["C"]
      BY <1>1, <2>6, OldConsumerTypes DEF QueryReturn, Threads
    <3> QED
      BY <1>1, <3>1 DEF IInv, WalkInv, OpInv
  <2>7. CASE DtorStep
    BY <2>7 DEF DtorStep, DtorDelete, DtorReturn, queryVars
  <2>8. CASE UNCHANGED vars
    BY <2>8 DEF vars, queryVars
  <2> QED
    BY <1>1, <2>1, <2>2, <2>3, <2>4, <2>5, <2>6, <2>7, <2>8 DEF Next, QueryStep
<1>2. IInv /\ OpInv /\ [Next]_vars => [A]_vars
  BY <1>1
<1> QED
  BY <1>2, Invariant, OpInvariant, PTL DEF Spec, QueryIsSnapshot

\* Where the walk stands, and that no step of the producer's touches that node's serial.
LEMMA WalkStands ==
  ASSUME IInv, pc["C"] = "walk", cur["C"] # Null
  PROVE  /\ cur["C"] \in Addr /\ cur["C"] \in live
         /\ Ser(cur["C"]) \in 1 .. pushed + 1 /\ count["C"] = Ser(cur["C"]) - Low - 1
         /\ PushStep => nodes'[cur["C"]].serial = Ser(cur["C"])
<1>1. /\ cur["C"] \in Addr /\ Ser(cur["C"]) >= Low + 1 /\ ~Gone
      /\ count["C"] = Ser(cur["C"]) - Low - 1
  BY DEF IInv, WalkInv, Gone
<1>2. Ser(cur["C"]) >= Low /\ Ser(cur["C"]) \in 1 .. pushed + 1
  BY <1>1, Numbers
<1>3. cur["C"] \in live
  BY <1>1, <1>2, LinkedIsLive
<1>4. ASSUME PushStep PROVE nodes'[cur["C"]].serial = Ser(cur["C"])
  <2>1. ASSUME NEW a \in Addr, PushAlloc(a) PROVE nodes'[cur["C"]] = nodes[cur["C"]]
    BY <1>3, <2>1 DEF PushAlloc
  <2>2. CASE PushData
    BY <1>1, <2>2, Numbers DEF PushData, Ser
  <2>3. CASE PushPublish
    <3>1. Ser(new_stub) = 0
      BY <2>3 DEF PushPublish, IInv, ProducerInv
    <3>2. new_stub # cur["C"]
      BY <1>2, <3>1
    <3> QED
      BY <1>1, <2>3, <3>2, Numbers DEF PushPublish, Ser
  <2>4. CASE PushNoNode \/ PushAdvance
    BY <2>4 DEF PushNoNode, PushAdvance, Ser
  <2>5. CASE PushThrow
    BY <1>1, <2>5, Numbers DEF PushThrow, Ser
  <2> QED
    BY <1>4, <2>1, <2>2, <2>3, <2>4, <2>5 DEF PushStep, Ser
<1> QED
  BY <1>1, <1>2, <1>3, <1>4

\* defs.hpp 15, impl.hpp 156-161: a walk comes nearer to the end with every step, only
\* a push keeps it away from there, and a wait goes round again beside an empty queue
\* only.
THEOREM ListIsLockFree == ASSUME QueryThreads \subseteq {"C"} PROVE Spec => LockFree
<1> DEFINE Walks == \A x \in Addr \cup {Null} : QueryWalk("C", x) => Ahead' \in 0 .. Ahead - 1
           Grows == PushStep /\ pc["C"] = "walk" => Ahead' - Ahead \in 0 .. pushed' - pushed
           Waits == \A x \in Addr \cup {Null} :
                      PopLoad(x) /\ pc'["C"] = "load" => seen' = Len(got)
<1>1. ASSUME IInv, NEW x \in Addr \cup {Null}, QueryWalk("C", x)
      PROVE  Ahead' \in 0 .. Ahead - 1
  <2>0. pushed \in Nat
    BY <1>1, Numbers
  <2>1. /\ pc["C"] = "walk" /\ cur["C"] # Null /\ x \in NextOf("C", cur["C"])
        /\ cur'["C"] = x /\ nodes' = nodes /\ pushed' = pushed
    BY <1>1, OldConsumerTypes DEF QueryWalk, Threads
  <2>2. Ser(cur["C"]) \in 1 .. pushed + 1 /\ Ahead = pushed + 2 - Ser(cur["C"])
    BY <1>1, <2>1, WalkStands DEF Ahead, Ser
  <2>3. CASE x = Null
    <3>1. Ahead' = 0
      BY <2>1, <2>3 DEF Ahead
    <3> QED
      BY <2>0, <2>2, <3>1
  <2>4. CASE x # Null
    <3>1. Ser(x) = Ser(cur["C"]) + 1 /\ Ser(x) <= pushed + 1
      <4>1. x \in Addr /\ count["C"] + 1 = Ser(x) - Low - 1
        BY <1>1, <2>1, <2>4, WalkFacts
      <4>2. count["C"] = Ser(cur["C"]) - Low - 1
        BY <1>1, <2>1, WalkStands
      <4>3. Ser(x) \in Nat /\ Ser(x) <= pushed + 1 /\ Ser(cur["C"]) \in Nat /\ Low \in Nat
        BY <1>1, <2>0, <2>2, <4>1, Numbers
      <4> QED
        BY <4>1, <4>2, <4>3
    <3>2. Ahead' = pushed' + 2 - nodes'[x].serial
      BY <2>1, <2>4 DEF Ahead
    <3>3. Ahead' = pushed + 2 - Ser(x)
      BY <2>1, <3>2 DEF Ser
    <3> QED
      BY <2>0, <2>2, <3>1, <3>3
  <2> QED
    BY <2>3, <2>4
<1>2. ASSUME IInv, PushStep, pc["C"] = "walk" PROVE Ahead' - Ahead \in 0 .. pushed' - pushed
  <2>1. cur' = cur /\ (pushed' = pushed \/ pushed' = pushed + 1)
    BY <1>2 DEF PushStep, PushAlloc, PushNoNode, PushData, PushThrow, PushPublish, PushAdvance,
                queryVars
  <2>2. CASE cur["C"] = Null
    <3>1. Ahead' = 0 /\ Ahead = 0
      BY <2>1, <2>2 DEF Ahead
    <3> QED
      BY <1>2, <2>1, <3>1, Numbers
  <2>3. CASE cur["C"] # Null
    <3>1. Ser(cur["C"]) \in 1 .. pushed + 1 /\ nodes'[cur["C"]].serial = Ser(cur["C"])
      BY <1>2, <2>3, WalkStands
    <3>2. Ahead = pushed + 2 - Ser(cur["C"]) /\ Ahead' = pushed' + 2 - Ser(cur["C"])
      BY <2>1, <2>3, <3>1 DEF Ahead, Ser
    <3> QED
      BY <1>2, <2>1, <3>1, <3>2, Numbers
  <2> QED
    BY <2>2, <2>3
<1>3. ASSUME IInv, NEW x \in Addr \cup {Null}, PopLoad(x), pc'["C"] = "load"
      PROVE  seen' = Len(got)
  <2>1. /\ pc["C"] = "load" /\ x \in NextOf("C", head) /\ seen' = AfterLoad("C", head, x)
        /\ x = Null
    BY <1>3 DEF PopLoad, Goto, IInv, ControlInv, Threads
  <2>2. ~Gone /\ pc["C"] # "advance"
    BY <2>1 DEF Gone
  <2> QED
    BY <1>3, <2>1, <2>2, HeadFacts
<1>4. IInv /\ [Next]_vars => [/\ Walks
                              /\ Grows
                              /\ Waits]_vars
  BY <1>1, <1>2, <1>3
<1> QED
  BY <1>4, Invariant, PTL DEF Spec, LockFree

\* What is in the queue: the items pushed and not yet popped, in order.
Contents == [i \in 1 .. pushed - Len(got) |-> ItemAt(Len(got) + i)]

ContentsInv ==
  /\ Contents = [i \in 1 .. pushed - Len(got) |-> Len(got) + i]
  /\ Contents \in Seq(Int) /\ Len(Contents) = pushed - Len(got)
  /\ \A i \in 1 .. pushed - Len(got) : Contents[i] = Len(got) + i

\* The contents are the numbers of the pushes not yet popped.
LEMMA ContentsAre == IInv => ContentsInv
<1> SUFFICES ASSUME IInv PROVE ContentsInv
  OBVIOUS
<1>1. ASSUME NEW i \in 1 .. pushed - Len(got) PROVE ItemAt(Len(got) + i) = Len(got) + i
  <2>1. /\ Len(got) + i \in Low .. pushed + 1 /\ Len(got) + i \in Len(got) + 1 .. pushed
    BY Numbers DEF Low
  <2>2. \E a \in Addr : nodes[a].serial = Len(got) + i
    BY <2>1 DEF IInv, ChainInv, Ser
  <2> DEFINE a == CHOOSE a \in Addr : nodes[a].serial = Len(got) + i
  <2>3. a \in Addr /\ Ser(a) = Len(got) + i
    BY <2>2 DEF Ser
  <2>4. Dat(a) = Len(got) + i
    <3> HIDE DEF a
    <3> QED
      BY <2>1, <2>3 DEF IInv, DataInv
  <2> QED
    BY <2>4 DEF ItemAt, Dat
<1>2. Contents = [i \in 1 .. pushed - Len(got) |-> Len(got) + i]
  BY <1>1 DEF Contents
<1>3. pushed - Len(got) \in Nat /\ Len(got) \in Nat
  BY Numbers
<1> QED
  BY <1>2, <1>3 DEF ContentsInv

\* The same of the next state.
LEMMA ContentsAreNext == IInv' => ContentsInv'
<1>1. IInv => ContentsInv
  BY ContentsAre
<1> QED
  BY <1>1, PTL

\* Sequences of consecutive numbers.
LEMMA AppendCounts ==
  ASSUME NEW n \in Nat, NEW m \in Nat, n <= m,
         NEW s \in Seq(Int), NEW t \in Seq(Int), Len(s) = m - n, Len(t) = m - n + 1,
         \A i \in 1 .. m - n : s[i] = n + i, \A i \in 1 .. m - n + 1 : t[i] = n + i
  PROVE  t = Append(s, m + 1)
<1>1. /\ Append(s, m + 1) \in Seq(Int) /\ Len(Append(s, m + 1)) = m - n + 1
      /\ \A i \in 1 .. Len(s) : Append(s, m + 1)[i] = s[i]
      /\ Append(s, m + 1)[Len(s) + 1] = m + 1
  BY AppendProperties, m + 1 \in Int
<1>2. ASSUME NEW i \in 1 .. m - n + 1 PROVE t[i] = Append(s, m + 1)[i]
  <2>1. CASE i \in 1 .. m - n
    BY <1>1, <2>1
  <2>2. CASE i = m - n + 1
    <3>1. Append(s, m + 1)[i] = m + 1 /\ t[i] = n + i
      BY <1>1, <2>2
    <3> QED
      BY <2>2, <3>1
  <2> QED
    BY <2>1, <2>2
<1> QED
  BY <1>1, <1>2, SeqEqual

\* The same without the first number.
LEMMA TailCounts ==
  ASSUME NEW n \in Nat, NEW m \in Nat, n < m,
         NEW s \in Seq(Int), NEW t \in Seq(Int), Len(s) = m - n, Len(t) = m - n - 1,
         \A i \in 1 .. m - n : s[i] = n + i, \A i \in 1 .. m - n - 1 : t[i] = n + 1 + i
  PROVE  s # << >> /\ Head(s) = n + 1 /\ t = Tail(s)
<1>1. s # << >> /\ Head(s) = n + 1
  OBVIOUS
<1>2. /\ Tail(s) \in Seq(Int) /\ Len(Tail(s)) = m - n - 1
      /\ \A i \in 1 .. Len(Tail(s)) : Tail(s)[i] = s[i + 1]
  BY <1>1, HeadTailProperties
<1>3. ASSUME NEW i \in 1 .. m - n - 1 PROVE t[i] = Tail(s)[i]
  <2>1. Tail(s)[i] = s[i + 1] /\ i + 1 \in 1 .. m - n
    BY <1>2
  <2>2. s[i + 1] = n + (i + 1) /\ t[i] = n + 1 + i
    BY <2>1
  <2> QED
    BY <2>1, <2>2
<1> QED
  BY <1>1, <1>2, <1>3, SeqEqual

\* The steps that move an item, as steps of the queue.
LEMMA PublishPushes ==
  ASSUME IInv, IInv', PushPublish
  PROVE  /\ Contents' = Append(Contents, pushed + 1) /\ got' = got
         /\ Len(Contents) < MaxItems /\ pushed + 1 \in 1 .. MaxItems
<1>1. pushed' = pushed + 1 /\ got' = got /\ pushed < MaxItems
  BY DEF PushPublish, consVars, IInv, ControlInv
<1>2. /\ pushed \in Nat /\ Len(got) \in Nat /\ Len(got) <= pushed /\ MaxItems \in Nat
  BY Numbers
<1>3. Contents \in Seq(Int) /\ Contents' \in Seq(Int) /\ Len(Contents) = pushed - Len(got)
      /\ Len(Contents') = pushed - Len(got) + 1
  BY <1>1, <1>2, ContentsAre, ContentsAreNext DEF ContentsInv
<1>4. /\ \A i \in 1 .. pushed - Len(got) : Contents[i] = Len(got) + i
      /\ \A i \in 1 .. pushed - Len(got) + 1 : Contents'[i] = Len(got) + i
  <2>1. \A i \in 1 .. pushed' - Len(got') : Contents'[i] = Len(got') + i
    BY ContentsAreNext DEF ContentsInv
  <2>2. pushed' - Len(got') = pushed - Len(got) + 1
    BY <1>1, <1>2
  <2> QED
    BY <1>1, <2>1, <2>2, ContentsAre DEF ContentsInv
<1>5. Contents' = Append(Contents, pushed + 1)
  BY <1>2, <1>3, <1>4, AppendCounts
<1> QED
  BY <1>1, <1>2, <1>3, <1>5

\* Reading the data of the first node pops it.
LEMMA ReadPops ==
  ASSUME IInv, IInv', PopRead
  PROVE  /\ Contents # << >> /\ Contents' = Tail(Contents)
         /\ got' = Append(got, Head(Contents))
<1>1. pushed' = pushed /\ got' = Append(got, Len(got) + 1) /\ Len(got) < pushed
  BY ReadFacts DEF PopRead, Dat
<1>2. /\ pushed \in Nat /\ Len(got) \in Nat /\ Len(got') = Len(got) + 1
  BY <1>1, Numbers
<1>3. Contents \in Seq(Int) /\ Contents' \in Seq(Int) /\ Len(Contents) = pushed - Len(got)
      /\ Len(Contents') = pushed - Len(got) - 1 /\ Contents # << >>
  BY <1>1, <1>2, ContentsAre, ContentsAreNext DEF ContentsInv
<1>4. /\ \A i \in 1 .. pushed - Len(got) : Contents[i] = Len(got) + i
      /\ \A i \in 1 .. pushed - Len(got) - 1 : Contents'[i] = Len(got) + 1 + i
  <2>1. \A i \in 1 .. pushed' - Len(got') : Contents'[i] = Len(got') + i
    BY ContentsAreNext DEF ContentsInv
  <2>2. pushed' - Len(got') = pushed - Len(got) - 1
    BY <1>1, <1>2
  <2> QED
    BY <1>2, <2>1, <2>2, ContentsAre DEF ContentsInv
<1>5. Head(Contents) = Len(got) + 1 /\ Contents' = Tail(Contents)
  <2> DEFINE n == Len(got)
             t == Contents'
  <2>1. n \in Nat /\ pushed \in Nat /\ n < pushed
    BY <1>1, <1>2
  <2>2. /\ Contents \in Seq(Int) /\ t \in Seq(Int)
        /\ Len(Contents) = pushed - n /\ Len(t) = pushed - n - 1
    BY <1>3
  <2>3. /\ \A i \in 1 .. pushed - n : Contents[i] = n + i
        /\ \A i \in 1 .. pushed - n - 1 : t[i] = n + 1 + i
    BY <1>4
  <2> HIDE DEF n, t
  <2>4. Head(Contents) = n + 1 /\ t = Tail(Contents)
    BY <2>1, <2>2, <2>3, TailCounts
  <2> QED
    BY <2>4 DEF n, t
<1> QED
  BY <1>1, <1>3, <1>5

\* The linked list is a FIFO queue: linking the stub is the push, reading the
\* data is the pop, and nothing else shows.
THEOREM ListIsFifo == ASSUME QueryThreads \subseteq {"C"} PROVE Spec => RefinesFifo
<1>1. Init => Fifo!Init
  <2> SUFFICES ASSUME Init PROVE Contents = << >> /\ got = << >>
    BY DEF Fifo!Init, Contents
  <2>1. pushed = 0 /\ got = << >>
    BY DEF Init
  <2>2. Len(Contents) = 0 /\ Contents \in Seq(Int)
    BY <2>1, ContentsAre, InvStarts DEF ContentsInv
  <2> QED
    BY <2>1, <2>2
<1>2. ASSUME IInv, IInv', [Next]_vars PROVE [Fifo!Next]_<<Contents, got>>
  <2>1. CASE PushPublish
    BY <1>2, <2>1, PublishPushes DEF Fifo!Next, Fifo!Push, Contents
  <2>2. CASE PopRead
    BY <1>2, <2>2, ReadPops DEF Fifo!Next, Fifo!Pop, Contents
  <2>3. CASE pushed' = pushed /\ got' = got
    BY <1>2, <2>3, ContentsAre, ContentsAreNext DEF ContentsInv
  <2>4. NewCall => pushed' = pushed /\ got' = got
    BY DEF NewCall, PushCall, PopCall, QueryCall, DtorCall, consVars
  <2>5. PushStep => PushPublish \/ (pushed' = pushed /\ got' = got)
    BY DEF PushStep, PushAlloc, PushNoNode, PushData, PushThrow, PushAdvance, consVars
  <2>6. PopStep => PopRead \/ (pushed' = pushed /\ got' = got)
    BY DEF PopStep, PopLoad, PeekRead, PopThrow, PopAdvance, PopDelete, consVars
  <2>7. (\E t \in QueryThreads : QueryStep(t)) => pushed' = pushed /\ got' = got
    BY DEF QueryStep, QueryFirst, QueryWalk, QueryReturn, consVars
  <2>8. DtorStep => pushed' = pushed /\ got' = got
    BY DEF DtorStep, DtorDelete, DtorReturn, consVars
  <2>9. UNCHANGED vars => pushed' = pushed /\ got' = got
    BY DEF vars, consVars
  <2> QED
    BY <1>2, <2>1, <2>2, <2>3, <2>4, <2>5, <2>6, <2>7, <2>8, <2>9 DEF Next
<1>3. IInv /\ IInv' /\ [Next]_vars => [Fifo!Next]_Fifo!fifoVars
  BY <1>2 DEF Fifo!fifoVars, Contents
<1> QED
  BY <1>1, <1>3, Invariant, PTL DEF Spec, RefinesFifo, Fifo!Spec
=============================================================================
