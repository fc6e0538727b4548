-------------------------- MODULE MCHandlerHooks --------------------------
(* Instances of HandlerHooks for TLC. *)
EXTENDS HandlerHooks

CONSTANTS h1, h2, h3, t1, t2, c1, c2

ThreeHandlers == {h1, h2, h3}
TwoTables     == {t1, t2}
TwoContents   == {c1, c2}
AllOps        == {"Save", "Find", "InitDB", "CloseDB", "Exec"}

\* MySQL and PostgreSQL, nop, Tcaplus, Redis and MongoDB.
AnyDriver == {[full |-> TRUE, has |-> {"Find", "Exec"}], [full |-> TRUE, has |-> {"Find"}],
              [full |-> FALSE, has |-> {"Find"}], [full |-> FALSE, has |-> {}]}

\* Every handler accepts everything but h3, which does not take Find, and h2, which looks at
\* what is saved and takes one of the values only.
AcceptMost ==
    [h \in Handlers |-> {x \in Ops \X (Tables \cup {Global}) \X (Contents \cup {Nil}) :
        (h = h3 => x[1] # "Find") /\ (h = h2 /\ x[1] = "Save" => x[3] = c1)}]

\* h1 has every interface (HandlerFuncs), h2 only hooks, h3 only takes calls over.
MixedRoles == [h \in Handlers |-> CASE h = h1 -> Roles
                                     [] h = h2 -> {"before", "after"}
                                     [] h = h3 -> {"handle", "after"}]
===========================================================================
