----------------------------- MODULE MCAuthApi -----------------------------
(* AuthApi for TLC: requests, jtis and passwords are interchangeable. *)
EXTENDS AuthApi, TLC

MCSymmetry == Permutations(Procs) \cup Permutations(RefreshIds)
              \cup Permutations(AccessIds) \cup Permutations(Passwords)
=============================================================================
