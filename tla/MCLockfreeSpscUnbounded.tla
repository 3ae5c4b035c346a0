---------------------- MODULE MCLockfreeSpscUnbounded ----------------------
(* Instances of LockfreeSpscUnbounded for TLC. *)
EXTENDS LockfreeSpscUnbounded, TLC

\* Nothing in the code compares addresses other than for equality.
Symmetry == Permutations(Addr)
=============================================================================
