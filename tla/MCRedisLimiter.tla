--------------------------- MODULE MCRedisLimiter ---------------------------
(* Finite instances of RedisLimiter for TLC. *)
EXTENDS RedisLimiter, TLC

\* Calls are interchangeable.
CallSymmetry == Permutations(Calls)
=============================================================================
