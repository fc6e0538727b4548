--------------------------- MODULE FieldCodec ---------------------------
(***************************************************************************)
(* How the generated records of examples/gs/pbtest/internal put the        *)
(* repeated messages and the maps of a value into columns, and read them   *)
(* back (orm_context.pb.go, the same in every package, and the             *)
(* EncodeFromContext and DecodeToContext of the records).                  *)
(*                                                                         *)
(* A message is the number in its only field, 0 being the default, which   *)
(* is not written.  Bytes are numbers; a number and a length take one.     *)
(***************************************************************************)
EXTENDS Integers, SequencesExt, TLC

CONSTANTS
    Msgs,      \* messages of a repeated field
    MapKeys    \* keys of a map field

\* The first byte of a field, of an element of a repeated field, of JSON arrays and objects.
Tag == 8
ElemTag == 34
Open == 91
Close == 93
Brace == 123
EndBrace == 125

\* The result of reading a list: whether it ends, "ok" or with an "error", or "never", and what
\* was appended before.
Read(end, list) == [end |-> end, list |-> list]
\* The result of reading one more element.
Then(m, rest) == Read(rest.end, <<m>> \o rest.list)

---------------------------------------------------------------------------
(* proto.Marshal and Unmarshal: fields may repeat, the last one counts.    *)

Marshal(m) == IF m = 0 THEN <<>> ELSE <<Tag, m>>
Parses(b) == Len(b) % 2 = 0 /\ \A i \in 1 .. Len(b) : i % 2 = 1 => b[i] = Tag
Unmarshal(b) == IF b = <<>> THEN 0 ELSE b[Len(b)]

---------------------------------------------------------------------------
(* A repeated field of messages in a column.                               *)

marshalProtoListWire(list) ==
    FlattenSeq([i \in 1 .. Len(list) |-> <<Len(Marshal(list[i]))>> \o Marshal(list[i])])

unmarshalDelimitedProtoList(data) ==
    LET from[i \in 1 .. Len(data) + 1] ==
            IF i > Len(data) THEN Read("ok", <<>>)
            ELSE LET b == SubSeq(data, i + 1, i + data[i])
                 IN  IF data[i] > Len(data) - i THEN Read("error", <<>>)
                     ELSE IF ~Parses(b) THEN Read("error", <<>>)
                     ELSE Then(Unmarshal(b), from[i + data[i] + 1])
    IN  from[1]

\* The older format without lengths.  All that is left is read as one message, which ends
\* where it marshals to what is there; after one that marshals to nothing the loop reads the
\* same bytes again, for ever.
unmarshalConcatProtoList(data) ==
    LET from[i \in 1 .. Len(data) + 1] ==
            IF i > Len(data) THEN Read("ok", <<>>)
            ELSE LET b   == SubSeq(data, i, Len(data))
                     enc == Marshal(Unmarshal(b))
                 IN  IF ~Parses(b) \/ ~IsPrefix(enc, b) THEN Read("error", <<>>)
                     ELSE IF enc = <<>> THEN Read("never", <<>>)
                     ELSE Then(Unmarshal(b), from[i + Len(enc)])
    IN  from[1]

\* protojson writes a message that is the default as {}; one item takes three bytes here.
marshalProtoList(list) ==
    <<Open>> \o FlattenSeq([i \in 1 .. Len(list) |-> <<Brace, list[i], EndBrace>>]) \o <<Close>>

unmarshalProtoList(data) ==
    LET n == (Len(data) - 2) \div 3
    IN  IF data[1] = Open /\ data = marshalProtoList([i \in 1 .. n |-> data[3 * i]])
        THEN Read("ok", [i \in 1 .. n |-> data[3 * i]])
        ELSE Read("error", <<>>)

\* The current format, then the two older ones; the list is not emptied before the second.
unmarshalProtoListWire(data) ==
    LET delimited == unmarshalDelimitedProtoList(data)
        concat    == unmarshalConcatProtoList(data)
    IN  IF delimited.end = "ok" THEN delimited
        ELSE IF concat.end = "error" THEN unmarshalProtoList(data)
        ELSE Read(concat.end, delimited.list \o concat.list)

---------------------------------------------------------------------------
(* A map of numbers in a JSON column, as a function; its keys are strings  *)
(* there.                                                                  *)

Object(f) == [s \in {ToString(k) : k \in DOMAIN f} |-> f[CHOOSE k \in DOMAIN f : ToString(k) = s]]
mapKeyFromString(s) == CHOOSE k \in MapKeys : ToString(k) = s

marshalProtoMap(f) == Object(f)
unmarshalProtoMap(o) == [k \in {mapKeyFromString(s) : s \in DOMAIN o} |-> o[ToString(k)]]

---------------------------------------------------------------------------
(* A record: a field that is empty leaves its column NULL, and a NULL      *)
(* column leaves the field of the value as it is.  A field of a message    *)
(* type keeps whether it is there: not at all, without its own message     *)
(* field, or with it.                                                      *)

NoMap == [k \in {} |-> 0]
Infos == {"absent", "bare", "nested"}
Empty == [heros |-> <<>>, settings |-> NoMap, info |-> "absent"]

\* SetPlayerDefaults: a message that is absent becomes a default one, and in it those of its
\* own fields; in one that is there nothing is filled in.
SetPlayerDefaults(v) == [v EXCEPT !.info = IF @ = "absent" THEN "nested" ELSE @]

EncodeFromContext(v) ==
    [heros    |-> marshalProtoListWire(v.heros),
     settings |-> IF v.settings = NoMap THEN NoMap ELSE marshalProtoMap(v.settings),
     info     |-> v.info]

DecodeToContext(row, v) ==
    LET heros == unmarshalProtoListWire(row.heros)
    IN  [end   |-> IF row.heros = <<>> THEN "ok" ELSE heros.end,
         value |-> SetPlayerDefaults(
                       [heros    |-> IF row.heros = <<>> THEN v.heros ELSE heros.list,
                        settings |-> IF row.settings = NoMap THEN v.settings
                                     ELSE unmarshalProtoMap(row.settings),
                        info     |-> IF row.info = "absent" THEN v.info ELSE row.info])]

\* Mutant: the value is decoded into without being reset.
DecodeRecord_NoReset(row, v) == DecodeToContext(row, v)

\* codec.DecodeRecord: what the caller's value held before does not matter.
DecodeRecord(row, v) == DecodeToContext(row, Empty)

---------------------------------------------------------------------------
(* proto.Marshal of a whole value, for the key-value stores.               *)

Payload(v) ==
    [heros    |-> FlattenSeq([i \in 1 .. Len(v.heros) |->
                      <<ElemTag, Len(Marshal(v.heros[i]))>> \o Marshal(v.heros[i])]),
     settings |-> v.settings,
     info     |-> v.info]

FromPayload(p) ==
    LET from[i \in 1 .. Len(p.heros) + 1] ==
            IF i > Len(p.heros) THEN <<>>
            ELSE LET size == p.heros[i + 1]
                 IN  <<Unmarshal(SubSeq(p.heros, i + 2, i + 1 + size))>> \o from[i + 2 + size]
    IN  [end |-> "ok", value |-> [heros |-> from[1], settings |-> p.settings, info |-> p.info]]
=========================================================================
