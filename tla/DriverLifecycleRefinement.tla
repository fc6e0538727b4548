-------------------- MODULE DriverLifecycleRefinement --------------------
(***************************************************************************)
(* DriverLifecycle implements DriverGenerations.                           *)
(***************************************************************************)
EXTENDS DriverLifecycleInv

\* A user is a call between its pin and its return, the transaction of a frame, or a result
\* whose pin is not given back.
Users == ({"call"} \X Goroutines) \cup ({"tx"} \X Frames) \cup ({"result"} \X Handles)

Pins(u) ==
    CASE u[1] = "call"   -> IF pc[u[2]] \in CallLabels /\ job[u[2]] # "txop" /\ loc[u[2]] # Closed
                             THEN loc[u[2]] ELSE None
      [] u[1] = "tx"     -> txDrv[u[2]]
      [] u[1] = "result" -> IF hstate[u[2]] \in {"held", "releasing"} THEN hdrv[u[2]] ELSE None

Unpublished(d) == \E g \in Goroutines : loc[g] = d /\ pc[g] \in {"publish", "fill", "abandon"}

LifeOf(d) ==
    CASE conn[d] = "none"    -> "new"
      [] conn[d] = "dialing" -> "dialing"
      [] conn[d] = "closed"  -> IF forced[d] THEN "cut" ELSE "closed"
      [] conn[d] = "open"    -> IF active = d THEN "published"
                                ELSE IF Unpublished(d) THEN "ready" ELSE "retired"

Generations == INSTANCE DriverGenerations WITH
    life <- [d \in Drivers |-> LifeOf(d)],
    at   <- [u \in Users |-> Pins(u)]

\* The atomics, locks and loops of pin, unpin, TryInit and Close implement the generations: a
\* call enters the published driver only, at the second look of the pin loop, passes its pin to
\* its transaction or result without a gap, and CloseDB runs on a retired driver, after the last
\* user or in the two cases that force it.
ImplementsGenerations == Generations!Spec

\* A driver that was replaced is closed in the end, whatever calls, transactions and results
\* are left on it.
RetiredIsClosed ==
    \A d \in Drivers : LifeOf(d) = "retired" ~> LifeOf(d) \in {"closed", "cut"}
===========================================================================
