---------------------------- MODULE MCDbInit ----------------------------
(* An instance of DbInit for TLC. *)
EXTENDS DbInit

CONSTANTS g1, g2, g3, a, b

ThreeGoroutines == {g1, g2, g3}
TwoOwners == {g1, g2}
TwoDBs == {a, b}
=========================================================================
