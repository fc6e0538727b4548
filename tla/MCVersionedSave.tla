------------------------- MODULE MCVersionedSave -------------------------
(* Instances of VersionedSave for TLC. *)
EXTENDS VersionedSave, TLC

CONSTANTS c1, c2, c3

TwoClients   == {c1, c2}
ThreeClients == {c1, c2, c3}
SqlStores    == {"mysql", "postgres"}
AllStores    == SqlStores \cup {"tcaplus"}
FirstVersion == {1}

\* Clients are interchangeable.
ClientSymmetry == Permutations(Clients)
==========================================================================
