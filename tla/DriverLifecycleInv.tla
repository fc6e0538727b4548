----------------------- MODULE DriverLifecycleInv -----------------------
(***************************************************************************)
(* The inductive invariant behind the safety properties of                 *)
(* DriverLifecycle, in named parts.                                        *)
(***************************************************************************)
EXTENDS DriverLifecycle

\* What a goroutine holds follows from where it is.
Placed(g) ==
    /\ pc[g] = "idle" => job[g] = "none"
    /\ job[g] \in {"none", "rows"} => loc[g] = None
    /\ pc[g] \in PinLabels => job[g] \in {"op", "query", "tx"}
    /\ pc[g] \in {"inc", "check", "undo"} => loc[g] \in Boxes
    /\ pc[g] \in {"exec", "run"} => job[g] \in {"op", "txop"} /\ loc[g] \in Boxes
    /\ pc[g] = "query" => job[g] = "query" /\ loc[g] \in Boxes
    /\ pc[g] = "track" => job[g] = "query" /\ loc[g] \in Drivers /\ hnd[g] \in Handles
    /\ pc[g] = "begin" => job[g] = "tx" /\ loc[g] \in Boxes
    /\ pc[g] \in {"release", "unpin"} => job[g] \in {"rows", "close", "init"} /\ hnd[g] \in Handles
    /\ pc[g] \in CloseLabels => job[g] \in {"close", "init"}
    /\ pc[g] \in InitLabels => job[g] = "init"
    /\ job[g] \in {"close", "init"} /\ pc[g] # "init" => loc[g] \in Drivers

AllPlaced == \A g \in Goroutines : Placed(g)

ReadyMeansPublished == ready <=> active # Closed

\* The frames of a goroutine are its open RunInTx calls; the one it is entering has no
\* driver yet.
FrameOK(g, i) ==
    /\ i > txDepth[g] => txDrv[<<g, i>>] = None
    /\ i = txDepth[g] /\ job[g] = "tx" => txDrv[<<g, i>>] = None
    /\ i < txDepth[g] => txDrv[<<g, i>>] \in Drivers
    /\ i = txDepth[g] /\ job[g] # "tx" => txDrv[<<g, i>>] \in Drivers
FramesOK ==
    /\ \A g \in Goroutines : job[g] = "tx" => txDepth[g] > 0
    /\ \A g \in Goroutines, i \in Levels : FrameOK(g, i)

\* A handle goes through its states once, and one goroutine at a time is at work on it.
Wrapped == {"held", "releasing", "released"}
HandlesOK ==
    /\ \A h \in Handles : hstate[h] # "free" => hdrv[h] \in Drivers
    /\ \A b \in Boxes : \A h \in holds[b] : hstate[h] \in Wrapped
    /\ \A g \in Goroutines : \A h \in swept[g] : hstate[h] \in Wrapped
    /\ \A g \in Goroutines : pc[g] = "release" => hstate[hnd[g]] \in Wrapped
    /\ \A g \in Goroutines : pc[g] = "track" => hstate[hnd[g]] = "made" /\ hdrv[hnd[g]] = loc[g]
    /\ \A g \in Goroutines : pc[g] = "unpin" => hstate[hnd[g]] = "releasing"
    /\ \A p, q \in Goroutines :
          pc[p] \in {"track", "unpin"} /\ pc[q] \in {"track", "unpin"} /\ hnd[p] = hnd[q] => p = q

\* The goroutine that dials, publishes or closes a driver is the only one, and the driver
\* it works on is not published.
Owner(g, d) == job[g] \in {"close", "init"} /\ pc[g] # "init" /\ loc[g] = d
OwnersOK ==
    /\ \A g \in Goroutines, d \in Drivers :
          Owner(g, d) => active # d /\ conn[d] = IF pc[g] = "dial" THEN "dialing" ELSE "open"
    /\ \A p, q \in Goroutines, d \in Drivers : Owner(p, d) /\ Owner(q, d) => p = q
    /\ \A g \in Goroutines : pc[g] = "fill" => ~ready
    /\ \A p, q \in Goroutines : pc[p] = "fill" /\ pc[q] = "fill" => p = q

\* Nothing is pinned, and nothing is about to be, on a driver that was never published or
\* that a Close has waited for.
Quiet(d) == InFlight(d) = {} /\ TxPins(d) = {} /\ RowPins(d) = {}
QuietOK ==
    /\ \A d \in Drivers : conn[d] \in {"none", "dialing"} => Quiet(d)
    /\ \A g \in Goroutines, d \in Drivers :
          loc[g] = d /\ pc[g] \in {"publish", "fill", "abandon"} => Quiet(d)
    /\ \A g \in Goroutines, d \in Drivers :
          loc[g] = d /\ pc[g] = "closedb" /\ ~timedOut[g] /\ txDepth[g] = 0 => Quiet(d)

\* The inductive invariant of the lifecycle: the types, the parts above, and the safety
\* properties they make inductive.
IndInv ==
    /\ TypeOK
    /\ AllPlaced
    /\ ReadyMeansPublished
    /\ FramesOK
    /\ HandlesOK
    /\ OwnersOK
    /\ PublishedIsOpen
    /\ NoConnectionLeak
    /\ RefsMatchPins
    /\ QuietOK
    /\ NoCallOnClosedDriver

\* A result has no driver until the query has made it, is in the hands of the query until it is
\* tracked, and a Rows whose pin is being given back is closed already.
ResultsOK ==
    /\ \A h \in Handles : hstate[h] = "free" => hdrv[h] = None
    /\ \A h \in Handles :
          hstate[h] = "made" => \E g \in Goroutines : pc[g] = "track" /\ hnd[g] = h
    /\ \A h \in Handles \ RowHandles : hstate[h] \in {"releasing", "released"} => ~open[h]
    /\ \A g \in Goroutines :
          pc[g] \in {"release", "unpin"} /\ hnd[g] \notin RowHandles => ~open[hnd[g]]

\* Only CloseDB of a published driver is forced.
ForcedOK == \A d \in Drivers : conn[d] # "closed" => ~forced[d]

\* What is left on a driver when only the transactions of g are.
OnlyFramesOf(g, d) ==
    InFlight(d) = {} /\ RowPins(d) = {} /\ \A f \in TxPins(d) : f[1] = g

\* The invariant behind what closePrevious promises of results and transactions.
CloseInv == IndInv /\ ResultsOK /\ ForcedOK /\ DrainBeforeClose
=========================================================================
