-------------------------- MODULE MCDriverOptions --------------------------
(* An instance of DriverOptions for TLC. *)
EXTENDS DriverOptions

CONSTANTS h1, r1, A

TwoTypes == {"mysql", "pgsql"}
OneName == {A}
SomeConfs == [driver : {"", "mysql", "pgsql", "other"}]
OneHandler == {h1}
OnePrivate == {r1}

Off(fs) == [f \in fs |-> FALSE]
None == [f \in {} |-> FALSE]
Legacy == {Off({"skip"}), Off(Flags), [addr |-> "a", zone |-> ""]}
Section == {Nil, Off({"prepare"}), Off(Flags), [addr |-> "b", zone |-> "z"]}

SomeTexts == {"", "default", "local", "a", "b", "z"}

SomeMaps ==
    [driver : {Nil}, db : Legacy, mysql : Section, pgsql : {Nil}]
      \cup [driver : {"pgsql"}, db : {None}, mysql : {Nil}, pgsql : {Off({"skip"})}]
      \cup [driver : {Nil}, db : {Nil}, mysql : {Nil}, pgsql : {Nil}]
============================================================================
