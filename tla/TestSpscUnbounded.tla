------------------------- MODULE TestSpscUnbounded --------------------------
(***************************************************************************)
(* The programs examples/test_spsc_unbounded.cpp and benchmark_spsc.cpp on *)
(* lockfree_spsc_unbounded: five tests on one thread, and one that has the *)
(* shape of run_benchmark, a producer and a consumer thread in loops of    *)
(* Elements calls that main joins.  Every test has a queue of its own,     *)
(* destroyed at the end of its scope.                                      *)
(*                                                                         *)
(* main, where it uses the queue itself, sees its own stores or those of   *)
(* the threads it has joined.  The n-th value pushed is the item n.        *)
(***************************************************************************)
EXTENDS LockfreeSpscUnbounded

CONSTANT Elements   \* N, num_elements

\* main asks for the size in the consumer's place; no other thread does.
ASSUME ElementsAssumption == Elements \in 1 .. MaxItems /\ QueryThreads = {"C"}

\* An int or a string as pushed here does not throw, and there is memory for the
\* stub and the items of a test.
ASSUME ProgramAssumption ==
  ~MayThrow /\ (IsFiniteSet(Addr) => Cardinality(Addr) > MaxItems)

VARIABLES test,     \* the test that runs
          main,     \* where main is
          line,     \* the statement of the test that main is at
          before    \* how many items had been pushed and popped before it

mainVars == <<test, main, line, before>>
allVars  == <<vars, mainVars>>

Rep(n, what) == [i \in 1 .. n |-> what]

True  == 1
False == 0

\* The tests on one thread.  Each statement: an operation, and what it must
\* answer.  A pop or a peek answers with the item, or False.
test_basic_push_pop ==
  << <<"empty", True>>, <<"size", 0>> >> \o Rep(3, <<"push", True>>)
  \o << <<"empty", False>>, <<"size", 3>>, <<"try_pop", 1>>, <<"try_pop", 2>>,
        <<"try_pop", 3>>, <<"empty", True>>, <<"try_pop", False>> >>

test_peek ==
  << <<"peek", False>>, <<"push", True>>, <<"push", True>>, <<"peek", 1>>, <<"peek", 1>>,
     <<"size", 2>>, <<"try_pop", 1>>, <<"peek", 2>> >>

test_emplace ==
  << <<"emplace", True>>, <<"emplace", True>>, <<"try_pop", 1>>, <<"try_pop", 2>>,
     <<"empty", True>> >>

test_empty_queue ==
  << <<"empty", True>>, <<"size", 0>>, <<"try_pop", False>>, <<"peek", False>>,
     <<"push", True>>, <<"empty", False>>, <<"try_pop", 1>>, <<"empty", True>> >>

test_burst_drain ==
  Rep(Elements, <<"push", True>>) \o << <<"size", Elements>> >>
  \o [i \in 1 .. Elements |-> <<"try_pop", i>>] \o << <<"empty", True>> >>

\* What main does with the queue in each test, in the last one after the joins.
Statements == [basic |-> test_basic_push_pop, peek |-> test_peek, emplace |-> test_emplace,
               empty |-> test_empty_queue, burst |-> test_burst_drain,
               spsc |-> << <<"empty", True>> >>]

Tests == DOMAIN Statements
------------------------------------------------------------------------------
MainInit ==
  /\ Init
  /\ test \in Tests
  /\ main = IF test = "spsc" THEN "join_producer" ELSE "test"
  /\ line = 1
  /\ before = [pushed |-> 0, popped |-> 0]

\* for (i < N) q.push(i), in a thread of its own.
Producer ==
  /\ test = "spsc" /\ pushed < Elements
  /\ PushCall("push")
  /\ UNCHANGED mainVars

\* for (i < N) { q.wait_and_pop(val); ... }, in a thread of its own; the break
\* of run_benchmark needs a value of -1, which is never pushed.
Consumer ==
  /\ test = "spsc" /\ Len(got) < Elements
  /\ PopCall("wait_and_pop")
  /\ UNCHANGED mainVars

JoinProducer ==
  /\ main = "join_producer"
  /\ pushed = Elements /\ pc["P"] = "idle"
  /\ main' = "join_consumer"
  /\ UNCHANGED <<vars, test, line, before>>

\* Then results are compared, and the rest of the test asks for empty().
JoinConsumer ==
  /\ main = "join_consumer"
  /\ Len(got) = Elements /\ pc["C"] = "idle"
  /\ main' = IF got = [i \in 1 .. Elements |-> i] THEN "test" ELSE "aborted"
  /\ UNCHANGED <<vars, test, line, before>>

Operation(o) ==
  \/ o \in PushOps /\ PushCall(o)
  \/ o \in PopOps /\ PopCall(o)
  \/ o \in QueryOps /\ QueryCall("C", o)

Statement ==
  /\ main = "test" /\ line <= Len(Statements[test])
  /\ Operation(Statements[test][line][1])
  /\ main' = "call"
  /\ before' = [pushed |-> pushed, popped |-> Len(got)]
  /\ UNCHANGED <<test, line>>

Answer(o) ==
  CASE o \in PushOps  -> IF pushed > before.pushed THEN True ELSE False
    [] o = "try_pop"  -> IF Len(got) > before.popped THEN got[Len(got)] ELSE False
    [] o = "peek"     -> peeked
    [] o \in QueryOps -> answer["C"]

\* assert(...): a wrong answer aborts the program, so does std::bad_alloc.
AssertAnswer ==
  /\ main = "call" /\ \A t \in Threads : pc[t] = "idle"
  /\ main' = IF Answer(Statements[test][line][1]) = Statements[test][line][2]
             THEN "test" ELSE "aborted"
  /\ line' = line + 1
  /\ UNCHANGED <<vars, test, before>>

\* The end of the scope of q.
LeaveScope ==
  /\ main = "test" /\ line > Len(Statements[test])
  /\ DtorCall
  /\ main' = "destroy"
  /\ UNCHANGED <<test, line, before>>

EndOfTest ==
  /\ main = "destroy" /\ pc["C"] = "destroyed"
  /\ main' = "done"
  /\ UNCHANGED <<vars, test, line, before>>

\* A load by main finds every link there is.
SeesAllLinks ==
  main = "call" => /\ pc["C"] = "load" => next_node' = nodes[head].next
                   /\ pc["C"] = "first" /\ op["C"] = "size" => cur'["C"] = nodes[head].next
                   /\ pc["C"] = "first" /\ op["C"] = "empty" =>
                        answer'["C"] = IF nodes[head].next = Null THEN 1 ELSE 0
                   /\ pc["C"] = "walk" /\ cur["C"] # Null =>
                        cur'["C"] = nodes[cur["C"]].next

InQueue(step) == step /\ SeesAllLinks /\ UNCHANGED mainVars

MainNext == \/ Producer \/ Consumer
            \/ JoinProducer \/ JoinConsumer
            \/ Statement \/ AssertAnswer \/ LeaveScope \/ EndOfTest
            \/ InQueue(PushStep) \/ InQueue(PopStep) \/ InQueue(QueryStep("C"))
            \/ InQueue(DtorStep)

CallFairness ==
  /\ WF_allVars(InQueue(PushStep))
  /\ WF_allVars(InQueue(PopStep))
  /\ SF_allVars(PopLoad(nodes[head].next) /\ UNCHANGED mainVars)

MainSpec == MainInit /\ [][MainNext]_allVars /\ CallFairness
------------------------------------------------------------------------------
\* test_spsc_unbounded.cpp 15-162, "ALL TESTS PASSED": no assertion fails, on
\* one thread or after two have passed Elements values through the list, and
\* when q goes out of scope, with or without items left in it, every node that
\* was ever allocated has been deleted.
AllTestsPassed == main # "aborted" /\ (main = "done" => live = {})
=============================================================================
