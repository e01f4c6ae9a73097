--------------------------- MODULE MCUserServices ---------------------------
(* Instances of UserServices for TLC: client processes of one app.          *)
EXTENDS UserServices, TLC

CONSTANTS c1, c2, k1, k2, p1

MCPackageOf == [k \in Keys |-> p1]
MCSymmetry  == Permutations(Clients)
=============================================================================
