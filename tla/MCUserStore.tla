---------------------------- MODULE MCUserStore ----------------------------
(* UserStore for TLC: the coroutines are interchangeable. *)
EXTENDS UserStore, TLC

MCSymmetry == Permutations(Procs) \cup Permutations(Passwords)
=============================================================================
