------------------------------- MODULE Mirror -------------------------------
(***************************************************************************)
(* What the window size of a rish session promises: the size at the remote   *)
(* end only ever moves on to a newer size of the terminal, and while the     *)
(* connection is active it catches up.  Sizes are numbered as they occur.    *)
(***************************************************************************)
EXTENDS Naturals

VARIABLES
  source,     \* the size of the terminal
  mirror,     \* the size set at the remote end, 0 for none
  active      \* there is a terminal to watch and a session to tell

vars == <<source, mirror, active>>

Init ==
  /\ source \in Nat
  /\ mirror = 0
  /\ active \in BOOLEAN

Change ==
  /\ source' = source + 1
  /\ UNCHANGED <<mirror, active>>

Copy ==
  /\ active
  /\ mirror < source
  /\ mirror' \in (mirror + 1) .. source
  /\ UNCHANGED <<source, active>>

Stop ==
  /\ active
  /\ active' = FALSE
  /\ UNCHANGED <<source, mirror>>

Drift ==
  /\ ~active
  /\ mirror' \in Nat
  /\ UNCHANGED <<source, active>>

Next == Change \/ Copy \/ Stop \/ Drift

Spec == Init /\ [][Next]_vars
FairSpec == Spec /\ WF_vars(Copy)
=============================================================================
