------------------------ MODULE MCClientPermissions ------------------------
(* The instance of ClientPermissions for TLC: one uid owns the processes, so  *)
(* they are interchangeable, and so are the attach calls and the manager's    *)
(* calls.                                                                      *)
EXTENDS ClientPermissions, TLC

MCUidOf == [p \in Pids |-> CHOOSE u \in Uids : TRUE]

Symmetry == Permutations(Pids) \cup Permutations(Attaches) \cup Permutations(Calls)
=============================================================================
