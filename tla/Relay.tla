------------------------------- MODULE Relay -------------------------------
(***************************************************************************)
(* What one direction of a rish session promises: chunks that are written    *)
(* come out in number and order, and the relay ends only when its writers    *)
(* are gone and nothing is left, or when it is broken.                       *)
(* RishHost (shell to pipe) and RishTerminal (pipe to terminal) each refine   *)
(* it; their composition is a relay from the shell to the terminal.          *)
(***************************************************************************)
EXTENDS Naturals

VARIABLES
  sent,       \* chunks written into the relay
  received,   \* chunks that have come out
  open,       \* somebody can still write
  broken,     \* the receiving side is gone, or the relay has lost its descriptor
  ended       \* the receiving side has been told that there is no more

vars == <<sent, received, open, broken, ended>>

Init ==
  /\ sent = 0
  /\ received = 0
  /\ open = TRUE
  /\ broken = FALSE
  /\ ended = FALSE

Send ==
  /\ open
  /\ sent' = sent + 1
  /\ UNCHANGED <<received, open, broken, ended>>

Receive ==
  /\ ~ended
  /\ received < sent
  /\ received' = received + 1
  /\ UNCHANGED <<sent, open, broken, ended>>

CloseWriters ==
  /\ open
  /\ open' = FALSE
  /\ UNCHANGED <<sent, received, broken, ended>>

Break ==
  /\ ~broken
  /\ broken' = TRUE
  /\ UNCHANGED <<sent, received, open, ended>>

End ==
  /\ ~ended
  /\ broken \/ (~open /\ received = sent)
  /\ ended' = TRUE
  /\ UNCHANGED <<sent, received, open, broken>>

Next == Send \/ Receive \/ CloseWriters \/ Break \/ End

Spec == Init /\ [][Next]_vars
=============================================================================
