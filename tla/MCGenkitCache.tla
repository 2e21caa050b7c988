--------------------------- MODULE MCGenkitCache ---------------------------
(* Finite instances of GenkitCache for TLC. *)
EXTENDS GenkitCache, TLC

\* Calls, providers and API keys are interchangeable: no definition names
\* one.  Used by the runs without liveness properties only.
CacheSymmetry ==
  Permutations(Requests) \cup Permutations(Providers) \cup Permutations(ApiKeys)
=============================================================================
