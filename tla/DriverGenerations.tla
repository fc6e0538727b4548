------------------------ MODULE DriverGenerations ------------------------
(***************************************************************************)
(* What the lifecycle of orm/drivers promises of the generations of the    *)
(* process-wide driver: one is published at a time, a user enters only the *)
(* published one, and a generation that is retired is closed when its last *)
(* user has left, or cut off from the users it still has.                  *)
(***************************************************************************)
CONSTANTS
    Drivers,   \* generations of the driver
    Users,     \* calls, transactions and results
    None       \* no generation

VARIABLES
    life,      \* life[d]: where generation d is between its creation and its end
    at         \* at[u]: the generation user u is using

vars == <<life, at>>

Init ==
    /\ life = [d \in Drivers |-> "new"]
    /\ at = [u \in Users |-> None]

Moves(d, from, to) ==
    /\ life[d] = from
    /\ life' = [life EXCEPT ![d] = to]
    /\ UNCHANGED at

\* TryInit makes a generation, connects it or fails to, and publishes it unless it lost a race.
Dial(d)    == Moves(d, "new", "dialing")
Connect(d) == Moves(d, "dialing", "ready")
Fail(d)    == Moves(d, "dialing", "closed")
Discard(d) == Moves(d, "ready", "closed")
Publish(d) == (\A e \in Drivers : life[e] # "published") /\ Moves(d, "ready", "published")

\* Close or another TryInit takes it away, and closes it.
Retire(d)  == Moves(d, "published", "retired")
Shut(d)    == (\A u \in Users : at[u] # d) /\ Moves(d, "retired", "closed")
Cut(d)     == Moves(d, "retired", "cut")

Enter(u, d) ==
    /\ life[d] = "published"
    /\ at[u] = None
    /\ at' = [at EXCEPT ![u] = d]
    /\ UNCHANGED life

\* A call goes on as the transaction it has begun or the result it returns.
HandOver(u, v) ==
    /\ at[u] # None
    /\ at[v] = None
    /\ at' = [at EXCEPT ![u] = None, ![v] = at[u]]
    /\ UNCHANGED life

Leave(u) ==
    /\ at[u] # None
    /\ at' = [at EXCEPT ![u] = None]
    /\ UNCHANGED life

Next ==
    \/ \E d \in Drivers : \/ Dial(d) \/ Connect(d) \/ Fail(d) \/ Discard(d) \/ Publish(d)
                          \/ Retire(d) \/ Shut(d) \/ Cut(d)
                          \/ \E u \in Users : Enter(u, d)
    \/ \E u \in Users : Leave(u) \/ \E v \in Users : HandOver(u, v)

Spec == Init /\ [][Next]_vars
===========================================================================
