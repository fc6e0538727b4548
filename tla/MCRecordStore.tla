------------------------- MODULE MCRecordStore -------------------------
(* An instance of RecordStore for TLC. *)
EXTENDS RecordStore

Value(heros, settings, info) == [heros |-> heros, settings |-> settings, info |-> info]

\* The list of three has a default message, and a message that looks like a length; without
\* lengths it is refused.
SomeValues ==
    {Value(<<>>, NoMap, "absent"), Value(<<2>>, [k \in {7} |-> 1], "bare"),
     Value(<<0, 2, 1>>, [k \in {5, 7} |-> k], "nested")}
=========================================================================
