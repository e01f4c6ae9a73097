---------------------------- MODULE MCClientBinder ----------------------------
(***************************************************************************)
(* TLC instances of ClientBinder.                                            *)
(***************************************************************************)
EXTENDS ClientBinder

CONSTANTS e1, x1, x2, b1, b2
=============================================================================
