------------------------------ MODULE MpmcTest ------------------------------
(***************************************************************************)
(* tests/blocking_mpmc/test_concurrent.cpp, MPMC_NoLossNoDuplication, with *)
(* the Watchdog and audit_items of tests/test_helpers.hpp, on              *)
(* blocking_mpmc_unbounded: producer and consumer threads with a fixed     *)
(* share of the items each, main, which joins them and audits what was     *)
(* consumed, and the watcher thread, which samples a counter of pops.      *)
(*                                                                         *)
(* EXPECT_... notes a failure and goes on.  Time is modelled by one        *)
(* assumption, LongEnough: the watcher's sleep lasts until some consumer   *)
(* has finished an iteration of its loop, or until nothing is left that    *)
(* could run.  It does not look at the counter that the watcher judges by. *)
(***************************************************************************)
EXTENDS BlockingMpmcUnbounded

Seqs == INSTANCE SequencesExt

CONSTANTS ItemsPerProducer, ItemsPerConsumer,
          AuditBound    \* bound of the model: the length of the vectors
                        \* that the claim about audit_items looks at

Total == Cardinality(Producers) * ItemsPerProducer

\* The producers are the ids 0, 1, ... of the test; T is int, which never throws.
ASSUME SharesAssumption ==
  /\ ItemsPerProducer \in Nat /\ ItemsPerConsumer \in Nat /\ AuditBound \in Nat
  /\ Producers = 0 .. Cardinality(Producers) - 1 /\ Producers \cap Consumers = {}
  /\ Total = Cardinality(Consumers) * ItemsPerConsumer
  /\ Total <= MaxItems /\ Total < Cardinality(Addr) /\ ~MayThrow

VARIABLES
  main,       \* where main is
  counted,    \* how many iterations of its loop a consumer has finished
  progress,   \* the counter that the consumers add to
  failed,     \* whether an EXPECT_EQ of the test has failed
  watcher,    \* where the watcher is
  last, now,  \* its locals
  stop,       \* Watchdog::stop
  fired,      \* whether its EXPECT_GT has failed
  missed,     \* history: whether a notification has found nobody while a consumer
              \* was between its predicate and its blocking
  worked      \* history: whether a consumer has finished an iteration of its loop
              \* since the watcher last loaded progress

testVars == <<main, counted, progress, failed>>
dogVars  == <<watcher, last, now, stop, fired>>
codeVars == <<vars, testVars, dogVars>>
allVars  == <<codeVars, missed, worked>>
------------------------------------------------------------------------------
\* The int that the test pushes for the n-th item of a producer: base + i.
Number(item) == item[1] * ItemsPerProducer + item[2] - 1

\* std::sort: an element's place is the number of those that are to come before
\* it, itself included.
Rank(s, i) == Cardinality({j \in DOMAIN s : s[j] < s[i] \/ (s[j] = s[i] /\ j <= i)})

Sorted(s) == [k \in DOMAIN s |-> s[CHOOSE i \in DOMAIN s : Rank(s, i) = k]]

\* audit_items: sort, count equal neighbours, compare the rest with expected.
Duplicates(s) == Cardinality({i \in 2 .. Len(s) : s[i] = s[i - 1]})

audit_items_NoSort(consumed, expected) ==
  LET dups == Duplicates(consumed)
  IN [duplicates |-> dups, missing |-> expected - (Len(consumed) - dups)]

audit_items(consumed, expected) ==
  LET dups == Duplicates(Sorted(consumed))
  IN [duplicates |-> dups, missing |-> expected - (Len(consumed) - dups)]

Ok(r) == r.duplicates = 0 /\ r.missing = 0

\* The results of all consumers, one after the other, as ints.
Results == [i \in 1 .. Cardinality(Consumers) |->
              LET items == got[Seqs!SetToSeq(Consumers)[i]]
              IN [j \in DOMAIN items |-> Number(items[j])]]

All == Seqs!FlattenSeq(Results)
------------------------------------------------------------------------------
TestInit ==
  /\ Init
  /\ main = "join_producers"
  /\ counted = [c \in Consumers |-> 0] /\ progress = 0
  /\ failed = FALSE
  /\ watcher = "start" /\ last = 0 /\ now = 0 /\ stop = FALSE /\ fired = FALSE
  /\ missed = FALSE /\ worked = FALSE

\* for (i < ITEMS_PER_PRODUCER) q.push(base + i)
Producer(p) ==
  /\ CountOf(p) < ItemsPerProducer
  /\ PushCall(p)
  /\ UNCHANGED <<testVars, dogVars>>

\* for (i < ITEMS_PER_CONSUMER) { q.wait_and_pop(v); ... }
Consumer(c) ==
  /\ counted[c] = Len(got[c]) /\ counted[c] < ItemsPerConsumer
  /\ PopCall(c, "wait_and_pop")
  /\ UNCHANGED <<testVars, dogVars>>

\* progress.fetch_add(1), after the pop.
Count(c) ==
  /\ pc[c] = "idle" /\ counted[c] < Len(got[c])
  /\ counted' = [counted EXCEPT ![c] = @ + 1]
  /\ progress' = progress + 1
  /\ UNCHANGED <<vars, main, failed, dogVars>>

\* progress.fetch_add(1) at the top of the loop: a call is counted, not a pop.
ConsumerLoop_CountsFirst(c) ==
  \/ /\ counted[c] = Len(got[c]) /\ counted[c] < ItemsPerConsumer
     /\ PopCall(c, "wait_and_pop")
     /\ progress' = progress + 1
     /\ UNCHANGED <<main, counted, failed, dogVars>>
  \/ /\ pc[c] = "idle" /\ counted[c] < Len(got[c])
     /\ counted' = [counted EXCEPT ![c] = @ + 1]
     /\ UNCHANGED <<vars, main, progress, failed, dogVars>>

ConsumerLoop(c) == Consumer(c) \/ Count(c)

ProducersDone == \A p \in Producers : CountOf(p) = ItemsPerProducer /\ pc[p] = "idle"
ConsumersDone == \A c \in Consumers : counted[c] = ItemsPerConsumer

JoinProducers ==
  /\ main = "join_producers" /\ ProducersDone
  /\ main' = "join_consumers"
  /\ UNCHANGED <<vars, counted, progress, failed, dogVars>>

JoinConsumers_Skipped ==
  /\ main = "join_consumers"
  /\ main' = "audit"
  /\ UNCHANGED <<vars, counted, progress, failed, dogVars>>

JoinConsumers ==
  /\ main = "join_consumers" /\ ConsumersDone
  /\ main' = "audit"
  /\ UNCHANGED <<vars, counted, progress, failed, dogVars>>

AuditResults ==
  /\ main = "audit"
  /\ failed' = ~Ok(audit_items(All, Total))
  /\ main' = "stop_watchdog"
  /\ UNCHANGED <<vars, counted, progress, dogVars>>

\* ~Watchdog: stop.store(true), then join the watcher.
StopWatchdog ==
  /\ main = "stop_watchdog"
  /\ stop' = TRUE
  /\ main' = "join_watcher"
  /\ UNCHANGED <<vars, counted, progress, failed, watcher, last, now, fired>>

\* The last of the test's locals to go is q.
JoinWatcher ==
  /\ main = "join_watcher" /\ watcher = "ended"
  /\ DtorCall
  /\ main' = "destroy_queue"
  /\ UNCHANGED <<counted, progress, failed, dogVars>>

DestroyQueue ==
  /\ main = "destroy_queue"
  /\ IF head # None THEN DtorDelete /\ UNCHANGED main
                    ELSE main' = "done" /\ UNCHANGED vars
  /\ UNCHANGED <<counted, progress, failed, dogVars>>

MainRuns == \/ JoinProducers \/ JoinConsumers \/ AuditResults
            \/ StopWatchdog \/ JoinWatcher \/ DestroyQueue

ThreadRuns(t) == \/ Step(t) /\ UNCHANGED <<testVars, dogVars>>
                 \/ t \in Producers /\ Producer(t)
                 \/ t \in Consumers /\ ConsumerLoop(t)

Wakes(t) == WakeSpuriously(t) /\ UNCHANGED <<testVars, dogVars>>
------------------------------------------------------------------------------
(* The watcher. *)

\* int last = counter.load()
WatchStart ==
  /\ watcher = "start"
  /\ last' = progress
  /\ watcher' = "loop"
  /\ UNCHANGED <<vars, testVars, now, stop, fired>>

\* while (!stop.load())
WatchLoop ==
  /\ watcher = "loop"
  /\ watcher' = IF stop THEN "ended" ELSE "sleep"
  /\ UNCHANGED <<vars, testVars, last, now, stop, fired>>

\* Nothing but the watcher could go on, without a spurious wakeup.
MainCanRun ==
  \/ main = "join_producers" /\ ProducersDone
  \/ main = "join_consumers" /\ ConsumersDone
  \/ main = "join_watcher" /\ watcher = "ended"
  \/ main \in {"audit", "stop_watchdog", "destroy_queue"}

ThreadCanRun(t) ==
  \/ CanGoOn(t)
  \/ pc[t] = "idle" /\ \/ t \in Producers /\ CountOf(t) < ItemsPerProducer
                       \/ t \in Consumers /\ counted[t] < ItemsPerConsumer

Stalled == ~MainCanRun /\ \A t \in Threads : ~ThreadCanRun(t)

\* The assumption on time.  A sleep ends only after some consumer has finished an
\* iteration, pop and fetch_add, or beside a stall: that the threads manage that
\* within the timeout, and main its audit and its joins, is assumed, not checked.
LongEnough == worked \/ Stalled

\* sleep_for, then int now = counter.load()
WatchSample ==
  /\ watcher = "sleep" /\ LongEnough
  /\ now' = progress
  /\ watcher' = "check"
  /\ UNCHANGED <<vars, testVars, last, stop, fired>>

\* EXPECT_GE: standing still is not noticed.
WatchCheck_AcceptsEqual ==
  /\ watcher = "check"
  /\ fired' = (fired \/ (~stop /\ now < last))
  /\ last' = now
  /\ watcher' = "loop"
  /\ UNCHANGED <<vars, testVars, now, stop>>

\* if (!stop.load()) EXPECT_GT(now, last); last = now
WatchCheck ==
  /\ watcher = "check"
  /\ fired' = (fired \/ (~stop /\ now <= last))
  /\ last' = now
  /\ watcher' = "loop"
  /\ UNCHANGED <<vars, testVars, now, stop>>

WatcherRuns == WatchStart \/ WatchLoop \/ WatchSample \/ WatchCheck

TestStep == \/ MainRuns
            \/ \E t \in Threads : ThreadRuns(t) \/ Wakes(t)
            \/ WatcherRuns

\* counter.load(), before the loop and after the sleep.
Reloads == watcher' # watcher /\ watcher \in {"start", "sleep"}

TestNext ==
  /\ TestStep
  /\ missed' = (missed \/ ~WaitersBlockFirst)
  /\ worked' = (~Reloads /\ (worked \/ counted' # counted))

\* Every thread that can run does; nobody is obliged to wake spuriously.
TestFairness == /\ WF_codeVars(MainRuns)
                /\ \A t \in Threads : WF_codeVars(ThreadRuns(t))
                /\ WF_codeVars(WatcherRuns)

TestSpec == TestInit /\ [][TestNext]_allVars /\ TestFairness
------------------------------------------------------------------------------
\* test_concurrent.cpp 101-104, 145-152: the consumers see disjoint shares whose
\* union is what was produced: no EXPECT_EQ of the audit ever fails.
AuditPasses ==
  /\ ~failed
  /\ main = "done" => UNION {{got[c][i] : i \in DOMAIN got[c]} : c \in Consumers}
                        = Producers \X (1 .. ItemsPerProducer)

\* test_helpers.hpp 11-23: whatever vector of values that were produced reaches the
\* audit, audit_items is satisfied if and only if each of them is there exactly once.
AuditIsMultisetEquality ==
  main = "audit" =>
    \A n \in 1 .. AuditBound - 1 : \A s \in Seqs!BoundedSeq(0 .. n - 1, AuditBound) :
      Ok(audit_items(s, n)) <=>
        \A v \in 0 .. n - 1 : Cardinality({i \in DOMAIN s : s[i] = v}) = 1

\* test_helpers.hpp 44-50: what the watcher reports is a stall, and of one kind
\* only: producers done, no lock held, some consumer asleep beside an item.  The
\* locks never deadlock, and a consumer that goes round its loop within a sleep is
\* seen by the counter it adds to behind each pop, whatever the watcher loaded last.
NoFalseAlarm ==
  [][watcher = "sleep" /\ watcher' = "check" /\ now' <= last /\ ~stop =>
       /\ head # tail /\ Waiters # {}
       /\ Waiters = {t \in Threads : pc[t] # "idle"}
       /\ \A p \in Producers : CountOf(p) = ItemsPerProducer]_allVars

\* test_edge.cpp 12-13 and 61-62: a wakeup is lost, and the watcher reports anything,
\* only after a notification that fell between a consumer's predicate and its blocking.
OnlyTheGapStalls == ~missed => NoLostWakeup /\ ~fired

\* The same lines: a queue that stalls does not go unnoticed.
EndsOrIsReported == <>(main = "done" \/ fired)

\* test_helpers.hpp 48-50: the watcher fires "a GTest failure, preventing
\* infinite hangs": the test comes to an end.
TestEnds == <>(main = "done")
=============================================================================
