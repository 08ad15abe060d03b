-------------------------- MODULE MCSyncHeartbeats --------------------------
(* Instances of SyncHeartbeats for TLC: the calls, the claims and the      *)
(* close() calls are interchangeable.                                      *)
EXTENDS SyncHeartbeats, TLC

Symmetry == Permutations(Calls) \cup Permutations(Claims) \cup Permutations(Closers)
=============================================================================
