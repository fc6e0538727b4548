--------------------------- MODULE RecordStore ---------------------------
(***************************************************************************)
(* Save, Get and Delete of one table, by its primary key of two parts, in  *)
(* the SQL databases (internal/sql), in Redis and in MongoDB               *)
(* (internal/kv).  The table has no version, so Save compares nothing      *)
(* (VersionedSave has those that do).                                      *)
(*                                                                         *)
(* A key part that is 0 is left out of the key map, and what the databases *)
(* then match differs.                                                     *)
(***************************************************************************)
EXTENDS FieldCodec

CONSTANTS
    Backends,    \* the drivers
    Parts,       \* values of a key part
    Inputs,      \* values that the application saves
    MaxRows      \* bound on the number of rows

Keys == (Parts \X Parts) \ {<<0, 0>>}
Places == 1 .. MaxRows

ASSUME StoreAssumption ==
    /\ Backends \subseteq {"mysql", "postgres", "redis", "mongo"}
    /\ 0 \in Parts /\ Parts \subseteq Nat
    /\ MaxRows \in Nat
    /\ \A v \in Inputs :
          ToSet(v.heros) \subseteq Msgs /\ DOMAIN v.settings \subseteq MapKeys /\ v.info \in Infos

VARIABLES
    backend,   \* the driver of this process
    store,     \* store[s]: the row, document or entry in place s
    last       \* the last operation that changed something

vars == <<backend, store, last>>

SQL == backend \in {"mysql", "postgres"}

---------------------------------------------------------------------------
(* Keys.                                                                   *)

\* ToPrimaryKeyMap, as a set of <<column, value>>.
ToPrimaryKeyMap(k) == {<<i, k[i]>> : i \in {j \in 1 .. 2 : k[j] # 0}}

\* WHERE with that map.
Matches(id, k) == \A p \in ToPrimaryKeyMap(k) : id[p[1]] = p[2]

\* The keys that may be written for k: the columns in SQL; in Redis the sorted map; in MongoDB
\* a document whose fields have the order in which Go walks the map.
Ids(k) == IF SQL THEN {k}
          ELSE IF backend = "redis" THEN {ToPrimaryKeyMap(k)}
          ELSE SetToSeqs(ToPrimaryKeyMap(k))

Encoded(v) == IF SQL THEN EncodeFromContext(v) ELSE Payload(v)
Entry(id, v) == [id |-> id, row |-> Encoded(v)]

\* The places with the key id.
At(id) == {s \in DOMAIN store : store[s].id = id}

---------------------------------------------------------------------------
(* Get.                                                                    *)

Fetched(d)   == [end |-> d.end, value |-> d.value]
NotFound(v)  == [end |-> "not_found", value |-> v]

\* First: the smallest first column among the rows that match, any of them.
FirstRows(k) ==
    LET hits == {s \in DOMAIN store : Matches(store[s].id, k)}
    IN  {s \in hits : \A t \in hits : store[s].id[1] <= store[t].id[1]}

\* What Get may return for the key k in a value that also holds v.  FindOne of MongoDB returns
\* any of the documents with the key.
Get(k, v) ==
    IF SQL
    THEN IF FirstRows(k) = {} THEN {NotFound(v)}
         ELSE {Fetched(DecodeRecord(store[s].row, v)) : s \in FirstRows(k)}
    ELSE UNION {IF At(id) = {} THEN {NotFound(v)}
                ELSE {Fetched(FromPayload(store[s].row)) : s \in At(id)} : id \in Ids(k)}

---------------------------------------------------------------------------
(* Save and Delete.                                                        *)

Did(op, k, v) == last' = [op |-> op, key |-> k, value |-> v, row |-> Encoded(v)]

\* Mutant: the entry is always a new one.
Put_Insert(id, e) ==
    \E s \in Places \ DOMAIN store :
        store' = [t \in DOMAIN store \cup {s} |-> IF t = s THEN e ELSE store[t]]

\* Put the entry where id is, or where there is none.
Put(id, e) ==
    \E s \in IF At(id) = {} THEN Places \ DOMAIN store ELSE At(id) :
        store' = [t \in DOMAIN store \cup {s} |-> IF t = s THEN e ELSE store[t]]

\* gorm's Save (MySQL) writes the row with exactly this key, and so does SET of Redis; with a
\* part that is 0 gorm only creates the row, which fails and changes nothing if it is there.
\* MongoDB replaces the document that its filter finds, and the new one has an order of its own.
SaveOne(k, v) ==
    /\ backend # "postgres"
    /\ backend = "mysql" /\ 0 \in {k[1], k[2]} => At(k) = {}
    /\ \E id, new \in Ids(k) : Put(id, Entry(new, v))
    /\ Did("save", k, v)
    /\ UNCHANGED backend

\* PostgreSQL: Count and then Create, or Updates of all the rows that match.
SaveCounted(k, v) ==
    /\ backend = "postgres"
    /\ IF \E s \in DOMAIN store : Matches(store[s].id, k)
       THEN store' = [s \in DOMAIN store |-> IF Matches(store[s].id, k)
                                            THEN Entry(store[s].id, v) ELSE store[s]]
       ELSE Put(k, Entry(k, v))
    /\ Did("save", k, v)
    /\ UNCHANGED backend

One(id) == IF At(id) = {} THEN {{}} ELSE {{s} : s \in At(id)}

\* Mutant: Delete with the key map only.
Deleted_ByMap(k) ==
    IF SQL THEN {{s \in DOMAIN store : Matches(store[s].id, k)}}
    ELSE UNION {One(id) : id \in Ids(k)}

\* The places that Delete empties.  gorm adds all parts of the key to the condition when one is
\* not 0; DEL and DeleteOne remove one entry.
Deleted(k) == IF SQL THEN {At(k)} ELSE UNION {One(id) : id \in Ids(k)}

Delete(k) ==
    /\ \E gone \in Deleted(k) : store' = [s \in DOMAIN store \ gone |-> store[s]]
    /\ Did("delete", k, Empty)
    /\ UNCHANGED backend

---------------------------------------------------------------------------
\* A table starts empty or, in SQL, with a row that an older generator wrote, with the repeated
\* field as JSON or as messages one after the other without lengths.  What is read from the
\* latter when there is not exactly one depends on what the bytes happen to be, and so it does
\* not count as a value saved.
OldRow(v, heros) == [EncodeFromContext(v) EXCEPT !.heros = heros]
Concat(list) == FlattenSeq([i \in 1 .. Len(list) |-> Marshal(list[i])])
Starts(op, k, v, row) ==
    /\ SQL
    /\ \E s \in Places : store = [t \in {s} |-> [id |-> k, row |-> row]]
    /\ last = [op |-> op, key |-> k, value |-> v, row |-> row]
Init ==
    /\ backend \in Backends
    /\ \E k \in Keys, v \in Inputs :
          \/ /\ store = [s \in {} |-> Empty]
             /\ last = [op |-> "delete", key |-> k, value |-> Empty, row |-> Encoded(Empty)]
          \/ Starts("save", k, v, OldRow(v, marshalProtoList(v.heros)))
          \/ Starts(IF Len(v.heros) = 1 /\ v.heros[1] # 0 THEN "save" ELSE "old", k, v,
                    OldRow(v, Concat(v.heros)))

Next == \E k \in Keys : Delete(k) \/ \E v \in Inputs : SaveOne(k, v) \/ SaveCounted(k, v)

Spec == Init /\ [][Next]_vars

---------------------------------------------------------------------------
\* The keys for which the key map identifies the row: in SQL those without a 0, in MongoDB
\* those of one part, whose document has only one order.
Identified(k) ==
    CASE SQL               -> 0 \notin {k[1], k[2]}
      [] backend = "redis" -> TRUE
      [] backend = "mongo" -> 0 \in {k[1], k[2]}

\* The places of the records with the key k.
Holding(k) == {s \in DOMAIN store : store[s].id \in Ids(k)}

\* The table is a table: every entry is that of a key, and no key has two, but for those of
\* MongoDB whose documents have more than one order.
TypeOK ==
    /\ backend \in Backends
    /\ last.op \in {"save", "delete", "old"} /\ last.key \in Keys
    /\ last.value \in Inputs \cup {Empty}
    /\ DOMAIN store \subseteq Places
    /\ \A s \in DOMAIN store : \E k \in Keys : s \in Holding(k)
    /\ \A k \in Keys :
          Identified(k) \/ backend # "mongo" => \A s, t \in Holding(k) : s = t

\* What a value looks like when it comes back: the SQL records fill in absent messages, the
\* key-value drivers do not.
Seen(v) == IF SQL THEN [v EXCEPT !.info = IF @ = "absent" THEN "nested" ELSE @] ELSE v

\* Get returns what the last Save with that key wrote, and nothing that the caller's value
\* held before; after Delete it returns ErrRecordNotFound.  A row whose list an older generator
\* wrote as JSON, or as a single message without its length, is read like one of Save.
ReadYourWrites ==
    Identified(last.key) /\ last.op # "old" =>
        \A v \in Inputs :
            Get(last.key, v) = {IF last.op = "save" THEN [end |-> "ok", value |-> Seen(last.value)]
                                ELSE NotFound(v)}

\* Save and Delete change no other record.  Save of PostgreSQL with a key that has a 0 does:
\* it updates every row with the other part.
OthersUntouched ==
    [][\A k \in Keys :
          k # last'.key /\ Identified(k) /\ (backend = "postgres" => Identified(last'.key)) =>
              Get(k, Empty)' = Get(k, Empty)]_vars
==========================================================================
