----------------------- MODULE MCDriverLifecycle -----------------------
(* Instances of DriverLifecycle for TLC. *)
EXTENDS DriverLifecycleRefinement, TLC

CONSTANTS g1, g2, g3, d1, d2, d3, h1, h2

OneGoroutine    == {g1}
TwoGoroutines   == {g1, g2}
OnlyG2          == {g2}
G2AndG3         == {g2, g3}
TwoDrivers      == {d1, d2}
ThreeDrivers    == {d1, d2, d3}
OneHandle       == {h1}
TwoHandles      == {h1, h2}
NoHandles       == {}
OnlyH2          == {h2}

\* Drivers are interchangeable.
DriverSymmetry == Permutations(Drivers)
=========================================================================
