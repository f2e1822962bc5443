-------------------------- MODULE MCChatSessions --------------------------
(* ChatSessions for TLC: coroutines and confirm tokens are interchangeable. *)
EXTENDS ChatSessions, TLC

MCSymmetry == Permutations(Procs) \cup Permutations(Challenges)
=============================================================================
