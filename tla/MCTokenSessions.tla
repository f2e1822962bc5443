-------------------------- MODULE MCTokenSessions --------------------------
(* TokenSessions for TLC: coroutines and jtis are interchangeable. *)
EXTENDS TokenSessions, TLC

MCSymmetry == Permutations(Procs) \cup Permutations(RefreshIds)
=============================================================================
