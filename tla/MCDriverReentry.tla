------------------------ MODULE MCDriverReentry ------------------------
(* An instance of DriverReentry for TLC. *)
EXTENDS DriverReentry

CONSTANTS g1, g2, inner, d1, d2, d3, h1

OneCaller       == {g1}
TwoAndInner     == {g1, g2, inner}
ThreeDrivers    == {d1, d2, d3}
OneHandle       == {h1}
NoHandles       == {}
=========================================================================
