--------------------------- MODULE MCAccountSessions ---------------------------
(* Small instances of AccountSessions for TLC.                                 *)
EXTENDS AccountSessions, TLC

Symmetry ==
    Permutations(Process) \cup Permutations(Session) \cup Permutations(Request)
================================================================================
