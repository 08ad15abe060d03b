-------------------------- MODULE MCAsyncHeartbeats -------------------------
(* Instances of AsyncHeartbeats for TLC: the calls, the claims and the     *)
(* close() calls are interchangeable.                                      *)
EXTENDS AsyncHeartbeats, TLC

Symmetry == Permutations(Calls) \cup Permutations(Claims) \cup Permutations(Closers)
=============================================================================
