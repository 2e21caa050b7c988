-------------------------- MODULE MCMemoryLimiter --------------------------
(* Finite instances of MemoryLimiter for TLC. *)
EXTENDS MemoryLimiter, TLC

\* Calls are interchangeable.
CallSymmetry == Permutations(Calls)
=============================================================================
