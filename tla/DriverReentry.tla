-------------------------- MODULE DriverReentry --------------------------
(***************************************************************************)
(* DriverLifecycle composed with the handlers of internal/hook that call   *)
(* back into it: the handler runs inside a pinned operation, on the same   *)
(* goroutine, and calls Close or TryInit there.                            *)
(*                                                                         *)
(* Inner is not a goroutine of its own but the nested part of one: it does *)
(* the steps of the handler's call while the operation below it waits.     *)
(***************************************************************************)
EXTENDS DriverLifecycleRefinement

CONSTANT Inner   \* the frames of the handler's Close or TryInit

ASSUME InnerAssumption == Inner \in Admins \ Callers

VARIABLE outer   \* the goroutine whose handler made the last such call

reentryVars == <<vars, outer>>

Waiting(g) == outer = g /\ pc[Inner] # "idle"

ReentryInit == Init /\ outer = None

\* The operation is inside the hook driver, which has asked a handler; outside RunInTx, so
\* that the transaction depth of the goroutine is 0 in both its parts.
HandlerCalls(g) ==
    /\ pc[g] = "exec"
    /\ job[g] = "op"
    /\ loc[g] # Closed
    /\ txDepth[g] = 0
    /\ Close(Inner) \/ TryInit(Inner)
    /\ outer' = g

\* The operation below the handler waits until its call has returned.
OwnStep(g) == ~Waiting(g) /\ Step(g) /\ UNCHANGED outer

ReentryNext ==
    \E g \in Goroutines :
        \/ OwnStep(g)
        \/ g # Inner /\ Request(g) /\ UNCHANGED outer
        \/ HandlerCalls(g)

\* The Go scheduler runs every runnable goroutine and no driver call hangs for ever;
\* nothing makes the application begin a call, close its Rows or leave a callback.
ReentryFairness == \A g \in Goroutines : WF_reentryVars(OwnStep(g))

ReentrySpec == ReentryInit /\ [][ReentryNext]_reentryVars /\ ReentryFairness

---------------------------------------------------------------------------
\* A handler that closes the driver its own operation pins waits for itself: Close ends with
\* the timeout error and never closes that driver as if the operation were over.
HandlerCloseIsForced ==
    pc[Inner] = "closedb" /\ outer \in InFlight(loc[Inner]) => timedOut[Inner]
==========================================================================
