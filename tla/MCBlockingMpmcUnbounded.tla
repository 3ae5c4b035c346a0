---------------------- MODULE MCBlockingMpmcUnbounded ----------------------
(* Instances of BlockingMpmcUnbounded for TLC. *)
EXTENDS BlockingMpmcUnbounded, TLC

\* Nothing in the code tells threads or addresses apart other than by equality.
Symmetry == Permutations(Addr) \cup Permutations(Producers) \cup Permutations(Consumers)
=============================================================================
