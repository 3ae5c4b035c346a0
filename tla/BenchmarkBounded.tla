-------------------------- MODULE BenchmarkBounded --------------------------
(***************************************************************************)
(* The program benchmarking/benchmark_bounded.cpp on lockfree_spsc_bounded:*)
(* the six tests of run_tests, each with a queue of its own, the last of   *)
(* which has the shape of run_benchmark_bounded: a producer thread and a   *)
(* consumer thread in loops of Elements calls, and main, which joins them. *)
(*                                                                         *)
(* In the tests 1 to 5 main is producer and consumer at once and so sees   *)
(* its own stores; after the joins it sees those of both threads.  The     *)
(* values are ints or strings pushed once each in a known order, so the    *)
(* n-th value pushed is the item n of LockfreeSpscBounded.                 *)
(***************************************************************************)
EXTENDS LockfreeSpscBounded
Seqs == INSTANCE SequencesExt

CONSTANT Elements   \* N, num_elements

ASSUME ElementsAssumption == Elements \in 1 .. MaxItems

\* The first test fills a ring with three items; an int or a string as pushed
\* here does not throw.
ASSUME ProgramAssumption == Capacity >= 3 /\ ~MayThrow

VARIABLES test,     \* the block of run_tests that runs
          main,     \* where main is
          line,     \* the statement of the test that main is at
          before    \* how many items had been pushed and popped before it

mainVars == <<test, main, line, before>>
allVars  == <<vars, mainVars>>

Rep(n, what) == [i \in 1 .. n |-> what]

True    == 1
False   == 0
Ignored == -2

\* The tests on one thread.  Each statement: an operation, and what the program
\* asserts of its answer, if anything.  A pop or a peek answers with the item, or
\* False.
BasicPushPop ==
  << <<"empty", True>>, <<"size", 0>> >> \o Rep(3, <<"try_push", True>>)
  \o << <<"empty", False>>, <<"size", 3>>, <<"try_pop", 1>>, <<"try_pop", 2>>,
        <<"try_pop", 3>>, <<"empty", True>>, <<"try_pop", False>> >>

BoundedCapacity ==
  Rep(Capacity, <<"try_push", True>>)
  \o << <<"try_push", False>>, <<"size", Capacity>>, <<"try_pop", 1>>, <<"try_push", True>> >>

Peek ==
  << <<"peek", False>>, <<"try_push", Ignored>>, <<"try_push", Ignored>>, <<"peek", 1>>,
     <<"peek", 1>>, <<"size", 2>> >>

Emplace ==
  << <<"try_emplace", True>>, <<"try_emplace", True>>, <<"try_pop", 1>>, <<"try_pop", 2>> >>

WrapAround ==
  Seqs!FlattenSeq([round \in 1 .. 5 |->
    Rep(Capacity, <<"try_push", True>>) \o << <<"try_push", False>> >>
    \o [i \in 1 .. Capacity |-> <<"try_pop", (round - 1) * Capacity + i>>]
    \o << <<"empty", True>> >>])

\* What main does with the queue in each test, in the last one after the joins.
Statements == [basic |-> BasicPushPop, capacity |-> BoundedCapacity, peek |-> Peek,
               emplace |-> Emplace, wrap |-> WrapAround, spsc |-> << <<"empty", True>> >>]

Tests == DOMAIN Statements
------------------------------------------------------------------------------
MainInit ==
  /\ Init
  /\ test \in Tests
  /\ main = IF test = "spsc" THEN "join_producer" ELSE "test"
  /\ line = 1
  /\ before = [pushed |-> 0, popped |-> 0]

\* for (i < N) q.wait_and_push(i), in a thread of its own.
Producer ==
  /\ test = "spsc" /\ Len(tail) <= Elements
  /\ PushCall("wait_and_push")
  /\ UNCHANGED mainVars

\* for (i < N) { q.wait_and_pop(val); results.push_back(val); }
Consumer_OneMore ==
  /\ test = "spsc" /\ Len(got) <= Elements
  /\ PopCall("wait_and_pop")
  /\ UNCHANGED mainVars

Consumer ==
  /\ test = "spsc" /\ Len(got) < Elements
  /\ PopCall("wait_and_pop")
  /\ UNCHANGED mainVars

JoinProducer ==
  /\ main = "join_producer"
  /\ Len(tail) = Elements + 1 /\ pc["P"] = "idle"
  /\ main' = "join_consumer"
  /\ UNCHANGED <<vars, test, line, before>>

\* Then results are compared, and the rest of the test asks for empty().
JoinConsumer ==
  /\ main = "join_consumer"
  /\ Len(got) = Elements /\ pc["C"] = "idle"
  /\ main' = IF got = [i \in 1 .. Elements |-> i] THEN "test" ELSE "aborted"
  /\ UNCHANGED <<vars, test, line, before>>

Operation(o) ==
  \/ o \in PushOps /\ PushCall(o)
  \/ o \in PopOps /\ PopCall(o)
  \/ o \in QueryOps /\ QueryCall("P", o)

Statement ==
  /\ main = "test" /\ line <= Len(Statements[test])
  /\ Operation(Statements[test][line][1])
  /\ main' = "call"
  /\ before' = [pushed |-> Len(tail) - 1, popped |-> Len(got)]
  /\ UNCHANGED <<test, line>>

Answer(o) ==
  CASE o \in PushOps  -> IF Len(tail) - 1 > before.pushed THEN True ELSE False
    [] o = "try_pop"  -> IF Len(got) > before.popped THEN got[Len(got)] ELSE False
    [] o = "peek"     -> peeked
    [] o \in QueryOps -> answer["P"]

\* assert(...): a wrong answer aborts the program.
AssertAnswer ==
  /\ main = "call" /\ \A t \in Threads : pc[t] = "idle"
  /\ main' = IF Statements[test][line][2] \in {Ignored, Answer(Statements[test][line][1])}
             THEN "test" ELSE "aborted"
  /\ line' = line + 1
  /\ UNCHANGED <<vars, test, before>>

EndOfTest ==
  /\ main = "test" /\ line > Len(Statements[test])
  /\ main' = "done"
  /\ UNCHANGED <<vars, test, line, before>>

\* A load by main returns the newest store.
SeesAllStores ==
  main = "call" => /\ pc["P"] \in {"reload", "load_head"} => seenHead' = Len(head)
                   /\ pc["C"] = "reload" => seenTail' = Len(tail)

InQueue(step) == step /\ SeesAllStores /\ UNCHANGED mainVars

ProducerRuns == InQueue(PushStep)
ConsumerRuns == InQueue(PopStep)
MainQueries  == InQueue(QueryStep("P"))

MainRuns == JoinProducer \/ JoinConsumer \/ Statement \/ AssertAnswer \/ EndOfTest

MainNext == MainRuns \/ Producer \/ Consumer \/ ProducerRuns \/ ConsumerRuns \/ MainQueries

\* Whoever is inside an operation goes on; a store becomes visible eventually.
CallFairness ==
  /\ WF_allVars(ProducerRuns)
  /\ WF_allVars(ConsumerRuns)
  /\ SF_allVars(PushReload(Len(head)) /\ UNCHANGED mainVars)
  /\ SF_allVars(PopReload(Len(tail)) /\ UNCHANGED mainVars)

LoopFairness ==
  /\ WF_allVars(Producer) /\ WF_allVars(Consumer)
  /\ WF_allVars(MainRuns) /\ WF_allVars(MainQueries)

MainSpec == MainInit /\ [][MainNext]_allVars /\ CallFairness
------------------------------------------------------------------------------
\* benchmark_bounded.cpp 42-163, "ALL TESTS PASSED": no assertion of run_tests
\* fails, on the ring as it wraps five times (test 5), and after two threads
\* have passed Elements values through it (test 6): all arrived in order and,
\* once both are joined, empty() is not fooled by an old index.
AllTestsPassed == main # "aborted"

\* Lines 151-152, 188-189, 222-223: both joins return.  Neither loop waits for
\* an item that is not pushed or for room that is not made, provided every
\* thread goes on with its loop.
ProgramEnds == LoopFairness => <>(main = "done")
=============================================================================
