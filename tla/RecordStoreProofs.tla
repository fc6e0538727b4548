------------------------ MODULE RecordStoreProofs ------------------------
(***************************************************************************)
(* Proofs about RecordStore, for any keys, values and number of rows in    *)
(* each of the databases.  A key that is identified has one id, which no   *)
(* other key has, so that Save and Delete of it concern one place and      *)
(* those of other keys do not touch it.                                    *)
(*                                                                         *)
(* What the codec makes of a row is left open: the theorems say which row *)
(* Get reads.                                                              *)
(***************************************************************************)
EXTENDS RecordStore, FiniteSetTheorems, TLAPS

---------------------------------------------------------------------------
(* Keys and their ids.                                                     *)

\* The keys of which there is at most one record.
Singular(k) == Identified(k) \/ backend # "mongo"

\* A key is two numbers that are not both 0.
LEMMA KeyParts ==
    ASSUME NEW k \in Keys
    PROVE  /\ k = <<k[1], k[2]>> /\ k[1] \in Nat /\ k[2] \in Nat
           /\ k[1] # 0 \/ k[2] # 0
<1>1. Parts \subseteq Nat
  BY StoreAssumption
<1>2. PICK a \in Parts, b \in Parts : k = <<a, b>> /\ <<a, b>> # <<0, 0>>
  BY DEF Keys
<1>3. k[1] = a /\ k[2] = b /\ (a # 0 \/ b # 0)
  BY <1>2
<1> QED BY <1>1, <1>2, <1>3

\* Keys that agree in both parts are the same.
LEMMA SameKey ==
    ASSUME NEW k \in Keys, NEW q \in Keys, k[1] = q[1], k[2] = q[2]
    PROVE  k = q
  BY DEF Keys

\* The key map says which parts are not 0 and what they are.
LEMMA MapParts ==
    ASSUME NEW k \in Keys
    PROVE  /\ \A i \in 1 .. 2 : \A x : <<i, x>> \in ToPrimaryKeyMap(k) <=> k[i] = x /\ k[i] # 0
           /\ \A p \in ToPrimaryKeyMap(k) : p = <<p[1], p[2]>> /\ p[1] \in 1 .. 2
  BY DEF ToPrimaryKeyMap

\* It tells keys apart.
LEMMA MapsDiffer ==
    ASSUME NEW k \in Keys, NEW q \in Keys, ToPrimaryKeyMap(k) = ToPrimaryKeyMap(q)
    PROVE  k = q
<1>1. ASSUME NEW i \in 1 .. 2 PROVE k[i] = q[i]
  <2>1. \A x : <<i, x>> \in ToPrimaryKeyMap(k) <=> k[i] = x /\ k[i] # 0
    BY MapParts
  <2>2. \A x : <<i, x>> \in ToPrimaryKeyMap(q) <=> q[i] = x /\ q[i] # 0
    BY MapParts
  <2> QED BY <2>1, <2>2
<1> QED BY <1>1, SameKey

\* A key with a 0 has one part in its map.
LEMMA OnePart ==
    ASSUME NEW k \in Keys, 0 \in {k[1], k[2]}
    PROVE  \E p : ToPrimaryKeyMap(k) = {p}
<1>1. CASE k[1] = 0
  <2>1. ToPrimaryKeyMap(k) = {<<2, k[2]>>}
    BY <1>1, KeyParts DEF ToPrimaryKeyMap
  <2> QED BY <2>1
<1>2. CASE k[2] = 0
  <2>1. ToPrimaryKeyMap(k) = {<<1, k[1]>>}
    BY <1>2, KeyParts DEF ToPrimaryKeyMap
  <2> QED BY <2>1
<1> QED BY <1>1, <1>2

\* The orders of a map of one part: there is one.
LEMMA OneOrder ==
    ASSUME NEW p
    PROVE  SetToSeqs({p}) = {[i \in 1 .. 1 |-> p]}
<1>1. Cardinality({p}) = 1
  BY FS_Singleton
<1> QED BY <1>1 DEF SetToSeqs

\* A key without a 0 has two.
LEMMA TwoParts ==
    ASSUME NEW k \in Keys, 0 \notin {k[1], k[2]}
    PROVE  Cardinality(ToPrimaryKeyMap(k)) = 2
<1>1. PICK a, b : a = <<1, k[1]>> /\ b = <<2, k[2]>>
  OBVIOUS
<1>2. ToPrimaryKeyMap(k) = {a} \cup {b} /\ b \notin {a}
  BY <1>1 DEF ToPrimaryKeyMap
<1>3. IsFiniteSet({a}) /\ Cardinality({a}) = 1
  BY FS_Singleton
<1>4. Cardinality({a} \cup {b}) = Cardinality({a}) + 1
  BY <1>2, <1>3, FS_AddElement
<1> QED BY <1>2, <1>3, <1>4

\* A key of which there is one record has one id, and no other key has it.
LEMMA OneId ==
    ASSUME backend \in Backends, NEW k \in Keys, Singular(k)
    PROVE  \E id : /\ Ids(k) = {id}
                   /\ \A q \in Keys : id \in Ids(q) => q = k
<1>0. backend \in {"mysql", "postgres", "redis", "mongo"}
  BY StoreAssumption
<1>1. CASE SQL
  BY <1>1 DEF Ids
<1>2. CASE backend = "redis"
  BY <1>2, MapsDiffer DEF Ids, SQL
<1>3. CASE backend = "mongo"
  <2>0. ~SQL /\ \A q \in Keys : Ids(q) = SetToSeqs(ToPrimaryKeyMap(q))
    BY <1>3 DEF SQL, Ids
  <2>1. 0 \in {k[1], k[2]}
    BY <1>3, <2>0 DEF Singular, Identified
  <2>2. PICK p : ToPrimaryKeyMap(k) = {p}
    BY <2>1, OnePart
  <2>3. PICK id : id = [i \in 1 .. 1 |-> p]
    OBVIOUS
  <2>4. Ids(k) = {id}
    BY <2>0, <2>2, <2>3, OneOrder
  <2>5. ASSUME NEW q \in Keys, id \in Ids(q) PROVE q = k
    <3>1. CASE 0 \in {q[1], q[2]}
      <4>1. PICK r : ToPrimaryKeyMap(q) = {r}
        BY <3>1, OnePart
      <4>2. id = [i \in 1 .. 1 |-> r]
        BY <2>0, <2>5, <4>1, OneOrder
      <4>3. p = r
        BY <2>3, <4>2
      <4> QED BY <2>2, <4>1, <4>3, MapsDiffer
    <3>2. CASE 0 \notin {q[1], q[2]}
      <4>1. Cardinality(ToPrimaryKeyMap(q)) = 2
        BY <3>2, TwoParts
      <4>2. id \in [1 .. 2 -> ToPrimaryKeyMap(q)]
        BY <2>0, <2>5, <4>1 DEF SetToSeqs
      <4>3. DOMAIN id = 1 .. 1 /\ DOMAIN id = 1 .. 2
        BY <2>3, <4>2
      <4> QED BY <4>3
    <3> QED BY <3>1, <3>2
  <2> QED BY <2>4, <2>5
<1> QED BY <1>0, <1>1, <1>2, <1>3 DEF SQL

\* Where the key map identifies the row, WHERE with it finds the row of that key alone.
LEMMA MatchesKey ==
    ASSUME NEW k \in Keys, 0 \notin {k[1], k[2]}, NEW id \in Keys
    PROVE  Matches(id, k) <=> id = k
<1>1. ToPrimaryKeyMap(k) = {<<1, k[1]>>, <<2, k[2]>>}
  BY DEF ToPrimaryKeyMap
<1>2. Matches(id, k) <=> id[1] = k[1] /\ id[2] = k[2]
  BY <1>1 DEF Matches
<1> QED BY <1>2, SameKey

---------------------------------------------------------------------------
(* The store.                                                              *)

\* What is known of the last operation.
LastOK ==
    /\ last.op \in {"save", "delete", "old"} /\ last.key \in Keys
    /\ last.value \in Inputs \cup {Empty}

\* Every entry is that of a key, and one key has one, where its documents have one order.
StoreInv ==
    /\ backend \in Backends
    /\ LastOK
    /\ DOMAIN store \subseteq Places
    /\ \A s \in DOMAIN store : \E k \in Keys : s \in Holding(k)
    /\ \A k \in Keys : Singular(k) => \A s, t \in Holding(k) : s = t

\* What is read from a row.
Reads(row, v) == IF SQL THEN Fetched(DecodeRecord(row, v)) ELSE Fetched(FromPayload(row))

\* Get of an identified key reads the record with that key.
LEMMA GetHolding ==
    ASSUME StoreInv, NEW k \in Keys, Identified(k), NEW v
    PROVE  Get(k, v) = IF Holding(k) = {} THEN {NotFound(v)}
                       ELSE {Reads(store[s].row, v) : s \in Holding(k)}
<1>1. CASE SQL
  <2>0. backend # "redis" /\ backend # "mongo"
    BY <1>1 DEF SQL
  <2>1. 0 \notin {k[1], k[2]}
    BY <1>1, <2>0 DEF Identified
  <2>2. \A s \in DOMAIN store : store[s].id \in Keys
    BY <1>1 DEF StoreInv, Holding, Ids
  <2>3. \A s \in DOMAIN store : Matches(store[s].id, k) <=> store[s].id = k
    BY <2>1, <2>2, MatchesKey
  <2>4. FirstRows(k) = Holding(k)
    <3>1. {s \in DOMAIN store : Matches(store[s].id, k)} = Holding(k)
      BY <1>1, <2>3 DEF Holding, Ids
    <3>2. \A s, t \in Holding(k) : store[s].id[1] <= store[t].id[1]
      BY <1>1, KeyParts DEF Holding, Ids
    <3> QED BY <3>1, <3>2 DEF FirstRows
  <2> QED BY <1>1, <2>4 DEF Get, Reads
<1>2. CASE ~SQL
  <2>1. PICK id : Ids(k) = {id}
    BY OneId DEF StoreInv, Singular
  <2>2. At(id) = Holding(k)
    BY <2>1 DEF At, Holding
  <2>3. Get(k, v) = IF At(id) = {} THEN {NotFound(v)}
                    ELSE {Fetched(FromPayload(store[s].row)) : s \in At(id)}
    BY <1>2, <2>1 DEF Get
  <2> QED BY <1>2, <2>2, <2>3 DEF Reads
<1> QED BY <1>1, <1>2

\* The step leaves the records of the other keys where and as they are.
OnlyConcerns(q) ==
    \A k \in Keys : k # q /\ Singular(k) =>
        Holding(k)' = Holding(k) /\ \A s \in Holding(k) : store'[s] = store[s]

\* Two keys hold no place together when there is one record of one of them.
LEMMA HoldApart ==
    ASSUME StoreInv, NEW k \in Keys, NEW q \in Keys, k # q, Singular(k), NEW id \in Ids(q)
    PROVE  id \notin Ids(k)
<1>1. PICK i : Ids(k) = {i} /\ \A r \in Keys : i \in Ids(r) => r = k
  BY OneId DEF StoreInv
<1> QED BY <1>1

\* What depends on the driver alone does not change.
LEMMA SameBackend ==
    ASSUME UNCHANGED backend
    PROVE  /\ SQL' = SQL
           /\ \A k : Ids(k)' = Ids(k) /\ Identified(k)' = Identified(k)
           /\ \A k : Singular(k)' = Singular(k)
  BY DEF SQL, Ids, Identified, Singular

\* Putting an entry of the key q changes one place, which has such an entry or none.
LEMMA PutStep ==
    ASSUME StoreInv, UNCHANGED backend, NEW q \in Keys, NEW id \in Ids(q), NEW new \in Ids(q),
           NEW v, Put(id, Entry(new, v))
    PROVE  /\ DOMAIN store' \subseteq Places
           /\ \A s \in DOMAIN store' : \E k \in Keys : s \in Holding(k)'
           /\ OnlyConcerns(q)
           /\ Singular(q) => \E s : Holding(q)' = {s} /\ store'[s] = Entry(new, v)
           /\ \A s \in DOMAIN store' : \/ s \in DOMAIN store /\ store'[s] = store[s]
                                       \/ store'[s] = Entry(new, v)
<1>0. \A k : Ids(k)' = Ids(k)
  BY SameBackend
<1>1. PICK p \in IF At(id) = {} THEN Places \ DOMAIN store ELSE At(id) :
         store' = [t \in DOMAIN store \cup {p} |-> IF t = p THEN Entry(new, v) ELSE store[t]]
  BY DEF Put
<1>2. /\ DOMAIN store' = DOMAIN store \cup {p}
      /\ store'[p] = Entry(new, v)
      /\ \A t \in DOMAIN store : t # p => store'[t] = store[t]
  BY <1>1
<1>3. p \in Places /\ (p \in DOMAIN store => store[p].id = id)
  BY <1>1 DEF StoreInv, At
<1>4. store'[p].id = new
  BY <1>2 DEF Entry
<1>5. \A k : Holding(k)' = {s \in DOMAIN store' : store'[s].id \in Ids(k)}
  BY <1>0 DEF Holding
<1>6. DOMAIN store' \subseteq Places
  BY <1>2, <1>3 DEF StoreInv
<1>7. ASSUME NEW s \in DOMAIN store' PROVE \E k \in Keys : s \in Holding(k)'
  <2>1. CASE s = p
    BY <2>1, <1>2, <1>4, <1>5
  <2>2. CASE s # p
    <3>1. PICK k \in Keys : s \in Holding(k)
      BY <1>2, <1>7, <2>2 DEF StoreInv
    <3> QED BY <3>1, <1>2, <1>5, <2>2 DEF Holding
  <2> QED BY <2>1, <2>2
<1>8. OnlyConcerns(q)
  <2> SUFFICES ASSUME NEW k \in Keys, k # q, Singular(k)
               PROVE  Holding(k)' = Holding(k) /\ \A s \in Holding(k) : store'[s] = store[s]
    BY DEF OnlyConcerns
  <2>1. id \notin Ids(k) /\ new \notin Ids(k)
    BY HoldApart
  <2>2. p \notin Holding(k)
    BY <1>3, <2>1 DEF Holding
  <2>3. p \notin Holding(k)'
    BY <1>4, <1>5, <2>1
  <2>4. \A s : s # p => (s \in Holding(k)' <=> s \in Holding(k))
    BY <1>2, <1>5 DEF Holding
  <2>5. Holding(k)' = Holding(k)
    BY <2>2, <2>3, <2>4
  <2> QED BY <1>2, <2>2, <2>5 DEF Holding
<1>9. ASSUME Singular(q) PROVE \E s : Holding(q)' = {s} /\ store'[s] = Entry(new, v)
  <2>1. Ids(q) = {id}
    BY <1>9, OneId DEF StoreInv
  <2>2. At(id) = Holding(q) /\ \A s, t \in Holding(q) : s = t
    BY <1>9, <2>1 DEF At, Holding, StoreInv
  <2>3. \A s \in Holding(q) : s = p
    BY <1>1, <2>2
  <2>4. p \in Holding(q)'
    BY <1>2, <1>4, <1>5
  <2>5. \A s \in Holding(q)' : s = p
    BY <1>2, <1>5, <2>3 DEF Holding
  <2>6. Holding(q)' = {p}
    BY <2>4, <2>5
  <2> QED BY <1>2, <2>6
<1>10. \A s \in DOMAIN store' : \/ s \in DOMAIN store /\ store'[s] = store[s]
                                \/ store'[s] = Entry(new, v)
  BY <1>2
<1> QED BY <1>6, <1>7, <1>8, <1>9, <1>10

\* Updates of PostgreSQL change rows, and no key.
LEMMA UpdateStep ==
    ASSUME StoreInv, UNCHANGED backend, SQL, NEW q \in Keys, NEW v,
           store' = [s \in DOMAIN store |-> IF Matches(store[s].id, q)
                                            THEN Entry(store[s].id, v) ELSE store[s]]
    PROVE  /\ DOMAIN store' = DOMAIN store
           /\ \A k : Holding(k)' = Holding(k)
           /\ Identified(q) => OnlyConcerns(q)
           /\ \A s \in DOMAIN store : store[s].id = q => store'[s] = Entry(q, v)
           /\ \A s \in DOMAIN store : store'[s] = store[s] \/ store'[s] = Entry(store[s].id, v)
<1>0. backend # "redis" /\ backend # "mongo"
  BY DEF SQL
<1>1. /\ DOMAIN store' = DOMAIN store
      /\ \A s \in DOMAIN store : store'[s] = IF Matches(store[s].id, q)
                                             THEN Entry(store[s].id, v) ELSE store[s]
  OBVIOUS
<1>2. \A s \in DOMAIN store : store'[s].id = store[s].id
  BY <1>1 DEF Entry
<1>3. \A k : Holding(k)' = Holding(k)
  BY <1>1, <1>2, SameBackend DEF Holding
<1>4. \A s \in DOMAIN store : store[s].id \in Keys
  BY DEF StoreInv, Holding, Ids
<1>5. ASSUME Identified(q) PROVE OnlyConcerns(q)
  <2>1. 0 \notin {q[1], q[2]}
    BY <1>0, <1>5 DEF Identified
  <2>2. \A s \in DOMAIN store : Matches(store[s].id, q) <=> store[s].id = q
    BY <2>1, <1>4, MatchesKey
  <2>3. \A k : \A s \in Holding(k) : s \in DOMAIN store /\ store[s].id = k
    BY DEF Holding, Ids
  <2> QED BY <1>1, <1>3, <2>2, <2>3 DEF OnlyConcerns
<1>6. \A s \in DOMAIN store : store[s].id = q => Matches(store[s].id, q)
  BY DEF Matches, ToPrimaryKeyMap
<1> QED BY <1>1, <1>3, <1>5, <1>6

\* Delete empties places of its key, and of one of which there is one record all of them.
LEMMA DeleteStep ==
    ASSUME StoreInv, UNCHANGED backend, NEW q \in Keys, NEW gone \in Deleted(q),
           store' = [s \in DOMAIN store \ gone |-> store[s]]
    PROVE  /\ DOMAIN store' = DOMAIN store \ gone
           /\ \A s \in DOMAIN store' : store'[s] = store[s]
           /\ \A k : Holding(k)' = Holding(k) \ gone
           /\ OnlyConcerns(q)
           /\ Singular(q) => Holding(q)' = {}
<1>1. /\ DOMAIN store' = DOMAIN store \ gone
      /\ \A s \in DOMAIN store' : store'[s] = store[s]
  OBVIOUS
<1>2. \A k : Holding(k)' = Holding(k) \ gone
  BY <1>1, SameBackend DEF Holding
<1>3. \/ SQL /\ gone = At(q)
      \/ ~SQL /\ \E id \in Ids(q) : gone \in One(id)
  BY DEF Deleted
<1>4. \A s \in gone : s \in DOMAIN store /\ store[s].id \in Ids(q)
  BY <1>3 DEF At, One, Ids
<1>5. OnlyConcerns(q)
  <2> SUFFICES ASSUME NEW k \in Keys, k # q, Singular(k)
               PROVE  Holding(k)' = Holding(k) /\ \A s \in Holding(k) : store'[s] = store[s]
    BY DEF OnlyConcerns
  <2>1. \A s \in gone : s \notin Holding(k)
    BY <1>4, HoldApart DEF Holding
  <2>2. Holding(k)' = Holding(k)
    BY <1>2, <2>1
  <2>3. \A s \in Holding(k) : s \in DOMAIN store'
    BY <1>1, <2>1 DEF Holding
  <2> QED BY <1>1, <2>2, <2>3
<1>6. ASSUME Singular(q) PROVE Holding(q)' = {}
  <2>1. PICK id : Ids(q) = {id}
    BY <1>6, OneId DEF StoreInv
  <2>2. At(id) = Holding(q) /\ \A s, t \in Holding(q) : s = t
    BY <1>6, <2>1 DEF At, Holding, StoreInv
  <2>3. gone = Holding(q)
    <3>1. CASE SQL
      <4>1. q = id
        BY <2>1, <3>1 DEF Ids
      <4> QED BY <1>3, <2>2, <3>1, <4>1
    <3>2. CASE ~SQL
      <4>1. gone \in One(id)
        BY <1>3, <2>1, <3>2
      <4> QED BY <2>2, <4>1 DEF One
    <3> QED BY <3>1, <3>2
  <2> QED BY <1>2, <2>3
<1> QED BY <1>1, <1>2, <1>5, <1>6

---------------------------------------------------------------------------
(* The invariants.                                                         *)

\* What each kind of step is.
LEMMA StepKinds ==
    ASSUME Next
    PROVE  \E q \in Keys :
              \/ \E v \in Inputs : SaveOne(q, v) \/ SaveCounted(q, v)
              \/ Delete(q)
  BY DEF Next

\* The entry that Save of MySQL, Redis and MongoDB writes, and that Create of PostgreSQL does.
LEMMA SavePuts ==
    ASSUME NEW q \in Keys, NEW v,
           SaveOne(q, v) \/ (SaveCounted(q, v) /\ ~\E s \in DOMAIN store : Matches(store[s].id, q))
    PROVE  \E id \in Ids(q), new \in Ids(q) : Put(id, Entry(new, v))
<1>1. CASE SaveOne(q, v)
  BY <1>1 DEF SaveOne
<1>2. CASE SaveCounted(q, v) /\ ~\E s \in DOMAIN store : Matches(store[s].id, q)
  <2>1. Ids(q) = {q}
    BY <1>2 DEF SaveCounted, SQL, Ids
  <2>2. Put(q, Entry(q, v))
    BY <1>2 DEF SaveCounted
  <2> QED BY <2>1, <2>2
<1> QED BY <1>1, <1>2

\* The initial state.
LEMMA InitStore == Init => StoreInv
<1> SUFFICES ASSUME Init PROVE StoreInv
  OBVIOUS
<1>1. backend \in Backends
  BY DEF Init
<1>2. PICK k \in Keys, v \in Inputs :
         \/ /\ store = [s \in {} |-> Empty]
            /\ last = [op |-> "delete", key |-> k, value |-> Empty, row |-> Encoded(Empty)]
         \/ \E row : \E op \in {"save", "old"} : Starts(op, k, v, row)
  BY DEF Init
<1>3. LastOK
  BY <1>2 DEF LastOK, Starts
<1>4. CASE store = [s \in {} |-> Empty]
  BY <1>1, <1>3, <1>4 DEF StoreInv, Holding
<1>5. ASSUME NEW op, NEW row, Starts(op, k, v, row) PROVE StoreInv
  <2>1. PICK p \in Places : store = [t \in {p} |-> [id |-> k, row |-> row]]
    BY <1>5 DEF Starts
  <2>2. DOMAIN store = {p} /\ store[p].id = k
    BY <2>1
  <2>3. p \in Holding(k)
    BY <1>5, <2>2 DEF Holding, Ids, Starts
  <2> QED BY <1>1, <1>3, <2>2, <2>3 DEF StoreInv, Holding
<1> QED BY <1>2, <1>4, <1>5

\* Every step keeps the table a table.
LEMMA StoreStep ==
    ASSUME StoreInv, Next
    PROVE  StoreInv'
<1>1. PICK q \in Keys : \/ \E v \in Inputs : SaveOne(q, v) \/ SaveCounted(q, v)
                        \/ Delete(q)
  BY StepKinds
<1>2. UNCHANGED backend /\ LastOK'
  BY <1>1 DEF SaveOne, SaveCounted, Delete, Did, LastOK
<1>3. \A k : Singular(k)' = Singular(k)
  BY <1>2, SameBackend
<1>4. ASSUME DOMAIN store' \subseteq Places,
             \A s \in DOMAIN store' : \E k \in Keys : s \in Holding(k)',
             \A k \in Keys : Singular(k) => \A s, t \in Holding(k)' : s = t
      PROVE  StoreInv'
  BY <1>2, <1>3, <1>4 DEF StoreInv
<1>5. ASSUME NEW v \in Inputs, NEW id \in Ids(q), NEW new \in Ids(q), Put(id, Entry(new, v))
      PROVE  StoreInv'
  <2>1. /\ DOMAIN store' \subseteq Places
        /\ \A s \in DOMAIN store' : \E k \in Keys : s \in Holding(k)'
        /\ OnlyConcerns(q)
        /\ Singular(q) => \E s : Holding(q)' = {s}
    BY <1>2, <1>5, PutStep
  <2>2. ASSUME NEW k \in Keys, Singular(k) PROVE \A s, t \in Holding(k)' : s = t
    <3>1. CASE k = q
      BY <2>1, <2>2, <3>1
    <3>2. CASE k # q
      BY <2>1, <2>2, <3>2 DEF OnlyConcerns, StoreInv
    <3> QED BY <3>1, <3>2
  <2> QED BY <1>4, <2>1, <2>2
<1>6. ASSUME NEW v \in Inputs, SaveOne(q, v) PROVE StoreInv'
  BY <1>5, <1>6, SavePuts
<1>7. ASSUME NEW v \in Inputs, SaveCounted(q, v) PROVE StoreInv'
  <2>1. CASE \E s \in DOMAIN store : Matches(store[s].id, q)
    <3>1. /\ SQL
          /\ store' = [s \in DOMAIN store |-> IF Matches(store[s].id, q)
                                              THEN Entry(store[s].id, v) ELSE store[s]]
      BY <1>7, <2>1 DEF SaveCounted, SQL
    <3>2. DOMAIN store' = DOMAIN store /\ \A k : Holding(k)' = Holding(k)
      BY <1>2, <3>1, UpdateStep
    <3> QED BY <1>4, <3>2 DEF StoreInv
  <2>2. CASE ~\E s \in DOMAIN store : Matches(store[s].id, q)
    BY <1>5, <1>7, <2>2, SavePuts
  <2> QED BY <2>1, <2>2
<1>8. CASE Delete(q)
  <2>1. PICK gone \in Deleted(q) : store' = [s \in DOMAIN store \ gone |-> store[s]]
    BY <1>8 DEF Delete
  <2>2. /\ DOMAIN store' = DOMAIN store \ gone
        /\ \A k : Holding(k)' = Holding(k) \ gone
    BY <1>2, <2>1, DeleteStep
  <2> QED BY <1>4, <2>2 DEF StoreInv
<1> QED BY <1>1, <1>6, <1>7, <1>8

\* A stuttering step keeps it.
LEMMA StutterStore ==
    ASSUME StoreInv, UNCHANGED vars
    PROVE  StoreInv'
  BY SameBackend DEF StoreInv, vars, Holding, LastOK

\* Save, Get and Delete by primary key keep one record for each key, in every database.
THEOREM StoreInductive == Spec => []StoreInv
<1>1. StoreInv /\ [Next]_vars => StoreInv'
  BY StoreStep, StutterStore
<1> QED BY InitStore, <1>1, PTL DEF Spec

\* What Get returns for an identified key into an empty value.
GetsHeld ==
    \A k \in Keys : Identified(k) =>
        Get(k, Empty) = IF Holding(k) = {} THEN {NotFound(Empty)}
                        ELSE {Reads(store[s].row, Empty) : s \in Holding(k)}

\* It follows from the invariant in every state.
LEMMA GetsHeldHolds == StoreInv => GetsHeld
  BY GetHolding DEF GetsHeld

\* A step concerns the key that it records; of PostgreSQL, when the key is identified.
LEMMA StepConcerns ==
    ASSUME StoreInv, Next, backend = "postgres" => Identified(last'.key)
    PROVE  UNCHANGED backend /\ OnlyConcerns(last'.key)
<1>1. PICK q \in Keys : \/ \E v \in Inputs : SaveOne(q, v) \/ SaveCounted(q, v)
                        \/ Delete(q)
  BY StepKinds
<1>2. UNCHANGED backend /\ last'.key = q
  BY <1>1 DEF SaveOne, SaveCounted, Delete, Did
<1>3. ASSUME NEW v \in Inputs, SaveOne(q, v) PROVE OnlyConcerns(q)
  BY <1>2, <1>3, SavePuts, PutStep
<1>4. ASSUME NEW v \in Inputs, SaveCounted(q, v) PROVE OnlyConcerns(q)
  <2>1. CASE \E s \in DOMAIN store : Matches(store[s].id, q)
    <3>1. /\ SQL /\ Identified(q)
          /\ store' = [s \in DOMAIN store |-> IF Matches(store[s].id, q)
                                              THEN Entry(store[s].id, v) ELSE store[s]]
      BY <1>2, <1>4, <2>1 DEF SaveCounted, SQL
    <3> QED BY <1>2, <3>1, UpdateStep
  <2>2. CASE ~\E s \in DOMAIN store : Matches(store[s].id, q)
    BY <1>2, <1>4, <2>2, SavePuts, PutStep
  <2> QED BY <2>1, <2>2
<1>5. CASE Delete(q)
  BY <1>2, <1>5, DeleteStep DEF Delete
<1> QED BY <1>1, <1>2, <1>3, <1>4, <1>5

\* Save and Delete of one key leave what Get returns for every other identified key.
THEOREM StoreOthersUntouched == Spec => OthersUntouched
<1> DEFINE A == \A k \in Keys :
                   k # last'.key /\ Identified(k) /\ (backend = "postgres" => Identified(last'.key))
                     => Get(k, Empty)' = Get(k, Empty)
<1>1. StoreInv /\ GetsHeld /\ GetsHeld' /\ [Next]_vars => [A]_vars
  <2> SUFFICES ASSUME StoreInv, GetsHeld, GetsHeld', Next,
                      NEW k \in Keys, k # last'.key, Identified(k),
                      backend = "postgres" => Identified(last'.key)
               PROVE  Get(k, Empty)' = Get(k, Empty)
    OBVIOUS
  <2>1. UNCHANGED backend /\ OnlyConcerns(last'.key)
    BY StepConcerns
  <2>2. Holding(k)' = Holding(k) /\ \A s \in Holding(k) : store'[s] = store[s]
    BY <2>1 DEF OnlyConcerns, Singular
  <2>3. Get(k, Empty) = IF Holding(k) = {} THEN {NotFound(Empty)}
                        ELSE {Reads(store[s].row, Empty) : s \in Holding(k)}
    BY DEF GetsHeld
  <2>4. Identified(k)'
    BY <2>1, SameBackend
  <2>5. Get(k, Empty)' = IF Holding(k)' = {} THEN {NotFound(Empty)}
                         ELSE {Reads(store[s].row, Empty)' : s \in Holding(k)'}
    BY <2>4 DEF GetsHeld
  <2>6. \A s \in Holding(k) : Reads(store[s].row, Empty)' = Reads(store[s].row, Empty)
    BY <2>1, <2>2, SameBackend DEF Reads
  <2>7. {Reads(store[s].row, Empty)' : s \in Holding(k)'}
           = {Reads(store[s].row, Empty) : s \in Holding(k)}
    <3>1. Holding(k)' = Holding(k)
      BY <2>2
    <3> QED BY <2>6, <3>1
  <2> QED BY <2>2, <2>3, <2>5, <2>7
<1>2. StoreInv => GetsHeld
  BY GetsHeldHolds
<1> QED BY <1>1, <1>2, StoreInductive, PTL DEF Spec, OthersUntouched

---------------------------------------------------------------------------
(* Which row Get reads.                                                    *)

\* The last operation left one record with its key, which is the row it wrote or, if it was
\* Delete, none.
LastStored ==
    Identified(last.key) =>
        IF last.op = "delete"
        THEN Holding(last.key) = {}
        ELSE \E s : Holding(last.key) = {s} /\ store[s].row = last.row

\* Get of an identified key reads the very row that the last Save with that key wrote, into a
\* value from which all that it held is gone; after Delete it finds nothing.
GetsLastRow ==
    Identified(last.key) =>
        \A v \in Inputs :
            Get(last.key, v) = {IF last.op = "delete" THEN NotFound(v) ELSE Reads(last.row, Empty)}

\* At the start.
LEMMA InitLast ==
    ASSUME Init
    PROVE  LastStored
<1>1. PICK k \in Keys, v \in Inputs :
         \/ /\ store = [s \in {} |-> Empty]
            /\ last = [op |-> "delete", key |-> k, value |-> Empty, row |-> Encoded(Empty)]
         \/ \E row : \E op \in {"save", "old"} : Starts(op, k, v, row)
  BY DEF Init
<1>2. CASE /\ store = [s \in {} |-> Empty]
           /\ last = [op |-> "delete", key |-> k, value |-> Empty, row |-> Encoded(Empty)]
  BY <1>2 DEF LastStored, Holding
<1>3. ASSUME NEW op \in {"save", "old"}, NEW row, Starts(op, k, v, row) PROVE LastStored
  <2>1. PICK p \in Places : store = [t \in {p} |-> [id |-> k, row |-> row]]
    BY <1>3 DEF Starts
  <2>2. DOMAIN store = {p} /\ store[p].id = k /\ store[p].row = row
    BY <2>1
  <2>3. Holding(k) = {p}
    BY <1>3, <2>2 DEF Holding, Ids, Starts
  <2>4. last.op # "delete" /\ last.key = k /\ last.row = row
    BY <1>3 DEF Starts
  <2> QED BY <2>2, <2>3, <2>4 DEF LastStored
<1> QED BY <1>1, <1>2, <1>3

\* After Save of an identified key there is one record of it, with the columns or the payload
\* of the value.
LEMMA SaveStores ==
    ASSUME StoreInv, NEW q \in Keys, NEW v \in Inputs, SaveOne(q, v) \/ SaveCounted(q, v),
           Identified(q)
    PROVE  \E s : Holding(q)' = {s} /\ store'[s].row = Encoded(v)
<1>0. UNCHANGED backend
  BY DEF SaveOne, SaveCounted
<1>1. \A id : Entry(id, v).row = Encoded(v)
  BY DEF Entry
<1>2. CASE SaveOne(q, v) \/ ~\E s \in DOMAIN store : Matches(store[s].id, q)
  <2>1. PICK id \in Ids(q), new \in Ids(q) : Put(id, Entry(new, v))
    BY <1>2, SavePuts
  <2>2. Singular(q) => \E s : Holding(q)' = {s} /\ store'[s] = Entry(new, v)
    BY <1>0, <2>1, PutStep
  <2> QED BY <1>1, <2>2 DEF Singular
<1>3. CASE SaveCounted(q, v) /\ \E s \in DOMAIN store : Matches(store[s].id, q)
  <2>1. /\ SQL
        /\ store' = [s \in DOMAIN store |-> IF Matches(store[s].id, q)
                                            THEN Entry(store[s].id, v) ELSE store[s]]
    BY <1>3 DEF SaveCounted, SQL
  <2>2. /\ \A k : Holding(k)' = Holding(k)
        /\ \A s \in DOMAIN store : store[s].id = q => store'[s] = Entry(q, v)
    BY <1>0, <2>1, UpdateStep
  <2>3. 0 \notin {q[1], q[2]}
    BY <2>1 DEF Identified, SQL
  <2>4. PICK s \in DOMAIN store : Matches(store[s].id, q)
    BY <1>3
  <2>5. store[s].id \in Keys
    BY <2>1 DEF StoreInv, Holding, Ids
  <2>6. store[s].id = q
    BY <2>3, <2>4, <2>5, MatchesKey
  <2>7. s \in Holding(q)
    BY <2>1, <2>6 DEF Holding, Ids
  <2>8. Holding(q) = {s}
    BY <2>7 DEF StoreInv, Singular
  <2>9. store'[s].row = Encoded(v)
    BY <1>1, <2>2, <2>6
  <2> QED BY <2>2, <2>8, <2>9
<1> QED BY <1>2, <1>3

\* Every step leaves what it was to leave.
LEMMA LastStep ==
    ASSUME StoreInv, Next
    PROVE  LastStored'
<1>1. PICK q \in Keys : \/ \E v \in Inputs : SaveOne(q, v) \/ SaveCounted(q, v)
                        \/ Delete(q)
  BY StepKinds
<1>2. UNCHANGED backend /\ last'.key = q
  BY <1>1 DEF SaveOne, SaveCounted, Delete, Did
<1>3. Holding(last.key)' = Holding(q)' /\ Identified(last.key)' = Identified(q)
  BY <1>2 DEF Holding, Identified, SQL
<1>4. ASSUME NEW v \in Inputs, SaveOne(q, v) \/ SaveCounted(q, v) PROVE LastStored'
  <2>1. Identified(q) => \E s : Holding(q)' = {s} /\ store'[s].row = Encoded(v)
    BY <1>4, SaveStores
  <2>2. last'.op = "save" /\ last'.row = Encoded(v)
    BY <1>4 DEF SaveOne, SaveCounted, Did
  <2> QED BY <1>3, <2>1, <2>2 DEF LastStored
<1>5. CASE Delete(q)
  <2>1. PICK gone \in Deleted(q) : store' = [s \in DOMAIN store \ gone |-> store[s]]
    BY <1>5 DEF Delete
  <2>2. Singular(q) => Holding(q)' = {}
    BY <1>2, <2>1, DeleteStep
  <2>3. last'.op = "delete"
    BY <1>5 DEF Delete, Did
  <2> QED BY <1>3, <2>2, <2>3 DEF LastStored, Singular
<1> QED BY <1>1, <1>4, <1>5

\* A stuttering step does too.
LEMMA StutterLast ==
    ASSUME LastStored, UNCHANGED vars
    PROVE  LastStored'
<1>1. UNCHANGED <<backend, store, last>>
  BY DEF vars
<1>2. Holding(last.key)' = Holding(last.key) /\ Identified(last.key)' = Identified(last.key)
  BY <1>1 DEF Holding, Ids, SQL, Identified
<1> QED BY <1>1, <1>2 DEF LastStored

\* The table has at most one record for each key, in every database, but for the keys of
\* MongoDB with more than one part.
THEOREM StoreTypes == Spec => []TypeOK
<1>1. StoreInv => TypeOK
  BY DEF StoreInv, TypeOK, Singular, LastOK
<1> QED BY <1>1, StoreInductive, PTL

\* Whatever the codec does to a value, Get of an identified key reads the row that the last Save
\* with it wrote, in every database, and finds nothing after Delete.
THEOREM StoreGetsLastRow == Spec => []GetsLastRow
<1>1. ASSUME StoreInv, LastStored PROVE GetsLastRow
  <2> SUFFICES ASSUME Identified(last.key), NEW v \in Inputs
               PROVE  Get(last.key, v) = {IF last.op = "delete" THEN NotFound(v)
                                          ELSE Reads(last.row, Empty)}
    BY DEF GetsLastRow
  <2>1. PICK k \in Keys : k = last.key
    BY <1>1 DEF StoreInv, LastOK
  <2>2. Get(k, v) = IF Holding(k) = {} THEN {NotFound(v)}
                    ELSE {Reads(store[s].row, v) : s \in Holding(k)}
    BY <1>1, <2>1, GetHolding
  <2>3. \A row : Reads(row, v) = Reads(row, Empty)
    BY DEF Reads, DecodeRecord
  <2>4. CASE last.op # "delete"
    <3>1. PICK s : Holding(k) = {s} /\ store[s].row = last.row
      BY <1>1, <2>1, <2>4 DEF LastStored
    <3>2. Get(k, v) = {Reads(store[s].row, v)}
      BY <2>2, <3>1
    <3> QED BY <2>1, <2>3, <2>4, <3>1, <3>2
  <2>5. CASE last.op = "delete"
    BY <1>1, <2>1, <2>2, <2>5 DEF LastStored
  <2> QED BY <2>4, <2>5
<1>2. StoreInv /\ LastStored => GetsLastRow
  BY <1>1
<1>3. Init => LastStored
  BY InitLast
<1>4. StoreInv /\ LastStored /\ [Next]_vars => LastStored'
  BY LastStep, StutterLast
<1> QED BY <1>2, <1>3, <1>4, StoreInductive, PTL DEF Spec
==========================================================================
