----------------------- MODULE MCTcaplusTraverse -----------------------
(* An instance of TcaplusTraverse for TLC. *)
EXTENDS TcaplusTraverse

CONSTANTS t1, t2

TwoTraversals == {t1, t2}
=========================================================================
