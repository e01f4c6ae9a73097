--------------------------- MODULE MCLinkServer ---------------------------
(* Instances of LinkServer for TLC.                                         *)
EXTENDS LinkServer

CONSTANTS c1, c2
=============================================================================
