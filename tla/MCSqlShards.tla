--------------------------- MODULE MCSqlShards ---------------------------
(* Instances of SqlShards for TLC. *)
EXTENDS SqlShards

CONSTANTS t1, t2

TwoTables == {t1, t2}

Conf(mode, policy, sources, n1) ==
    [mode |-> mode, key |-> TRUE, policy |-> policy, sources |-> sources,
     shards |-> [t \in Tables |-> IF t = t1 THEN n1 ELSE 0]]

\* Every mode, with and without a rule for t1, and what Validate refuses.
SaneConfs ==
    {Conf("", "", 0, 0), Conf("table", "hash", 0, 3), Conf("table", "random", 0, 2),
     Conf("database", "", 2, 0), Conf("database", "hash", 2, 3), Conf("database", "hash", 1, 2),
     Conf("database", "random", 2, 0), Conf("database", "round_robin", 2, 0),
     Conf("database", "hash", 0, 0), Conf("table", "hash", 0, 1), Conf("range", "hash", 0, 0),
     [Conf("table", "hash", 0, 2) EXCEPT !.key = FALSE]}

\* Four-bit integers: keys of both signs and unsigned keys beyond the signed range.
SaneFields  == {-7, 5, 10}
==========================================================================
