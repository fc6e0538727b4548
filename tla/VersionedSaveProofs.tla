----------------------- MODULE VersionedSaveProofs -----------------------
(***************************************************************************)
(* Proofs about VersionedSave, for any clients, kinds of driver and        *)
(* bounds: SaveInv is an inductive invariant, and what it says of a commit *)
(* gives the properties of Save.                                           *)
(***************************************************************************)
EXTENDS VersionedSave, TLAPS

Step(c) ==
    \/ Edit(c) \/ Get(c) \/ Delete(c)
    \/ SaveReads(c) \/ Count(c) \/ Write(c) \/ SaveReturns(c) \/ SaveFails(c)
    \/ SingleGet(c) \/ Replace(c) \/ ReplaceFails(c)

\* The values that are built from others are records.
LEMMA RecordFacts ==
    /\ Blank \in Records
    /\ \A r \in Records : r.version \in Nat /\ r.has \subseteq Updates
    /\ \A r \in Records, n \in Nat :
          /\ [r EXCEPT !.version = n] \in Records
          /\ [r EXCEPT !.version = n].version = n
          /\ [r EXCEPT !.version = n].has = r.has
    /\ \A r \in Records, s \in SUBSET Updates :
          /\ [r EXCEPT !.has = s] \in Records
          /\ [r EXCEPT !.has = s].version = r.version
          /\ [r EXCEPT !.has = s].has = s
  BY DEF Blank, Records

\* Replace stores the draft with a version of the server.
LEMMA ReplaceVersion ==
    ASSUME TypeOK, NEW c \in Clients, Replace(c)
    PROVE  \E v \in Nat : row' = [draft[c] EXCEPT !.version = v]
<1>1. CASE row = None
  BY <1>1, VersionsAssumption DEF Replace
<1>2. CASE row # None
  <2>1. row.version + 1 \in Nat
    BY <1>2, RecordFacts DEF TypeOK
  <2>2. row' = [draft[c] EXCEPT !.version = row.version + 1]
    BY <1>2 DEF Replace
  <2> QED BY <2>1, <2>2
<1> QED BY <1>1, <1>2

\* Every step keeps the types.
LEMMA TypesStep ==
    ASSUME TypeOK, NEW c \in Clients, Step(c)
    PROVE  TypeOK'
<1> USE VersionsAssumption DEF TypeOK, Phases
<1>1. CASE Edit(c)
  <2>1. updates + 1 \in 0 .. MaxUpdates /\ value[c].has \cup {updates + 1} \in SUBSET Updates
    BY <1>1, RecordFacts DEF Edit, Updates
  <2>2. value' = [value EXCEPT ![c] = [value[c] EXCEPT !.has = value[c].has \cup {updates + 1}]]
    BY <1>1 DEF Edit
  <2>3. value' \in [Clients -> Records]
    BY <2>1, <2>2, RecordFacts
  <2> QED BY <1>1, <2>1, <2>3 DEF Edit, saveVars, histVars
<1>2. CASE Get(c)
  <2>1. /\ row # None => row \in Records /\ row.has \in SUBSET Updates
        /\ value[c] \in Records
    BY RecordFacts
  <2>2. PICK r \in Records : value' = [value EXCEPT ![c] = r]
    <3>1. CASE row = None
      <4>1. value' = [value EXCEPT ![c] = value[c]]
        BY <1>2, <3>1 DEF Get
      <4> QED BY <4>1, <2>1
    <3>2. CASE row # None /\ store = "tcaplus"
      <4>1. value' = [value EXCEPT ![c] = [value[c] EXCEPT !.has = row.has]]
        BY <1>2, <3>2 DEF Get
      <4> QED BY <4>1, <3>2, <2>1, RecordFacts
    <3>3. CASE row # None /\ store # "tcaplus"
      <4>1. value' = [value EXCEPT ![c] = row]
        BY <1>2, <3>3 DEF Get
      <4> QED BY <4>1, <3>3, <2>1
    <3> QED BY <3>1, <3>2, <3>3
  <2> QED BY <1>2, <2>2 DEF Get, saveVars, histVars
<1>3. CASE Delete(c)
  BY <1>3 DEF Delete, saveVars, histVars
<1>4. CASE SaveReads(c)
  <2>1. value[c].version + 1 \in Nat
    BY RecordFacts
  <2>2. draft' = [draft EXCEPT ![c] = [value[c] EXCEPT !.version = value[c].version + 1]]
    BY <1>4 DEF SaveReads
  <2>3. draft' \in [Clients -> Records]
    BY <2>1, <2>2, RecordFacts
  <2> QED BY <1>4, <2>3 DEF SaveReads, GoTo, histVars
<1>5. CASE Count(c)
  BY <1>5 DEF Count, GoTo, histVars
<1>6. CASE Write(c)
  BY <1>6 DEF Write, GoTo, histVars
<1>7. CASE SaveReturns(c)
  <2>1. draft[c].version \in Nat /\ Blank \in Records
    BY RecordFacts
  <2>2. value' = [value EXCEPT ![c] = [value[c] EXCEPT !.version = draft[c].version]]
    BY <1>7 DEF SaveReturns
  <2>3. value' \in [Clients -> Records]
    BY <2>1, <2>2, RecordFacts
  <2> QED BY <1>7, <2>1, <2>3 DEF SaveReturns, Return, GoTo, Commit, Unlocked
<1>8. CASE SaveFails(c)
  <2>1. row' \in Records \cup {None} /\ overtaken' \in BOOLEAN
    <3>1. CASE phase[c] = "commit" /\ Commit(c)
      <4>1. row' \in Records \cup {None}
        BY <3>1 DEF Commit
      <4>2. overtaken' \in BOOLEAN
        BY <3>1 DEF Commit
      <4> QED BY <4>1, <4>2
    <3>2. CASE UNCHANGED <<row, overtaken>>
      BY <3>2
    <3> QED BY <1>8, <3>1, <3>2 DEF SaveFails
  <2> QED BY <1>8, <2>1, RecordFacts DEF SaveFails, Return, GoTo, Unlocked
<1>9. CASE SingleGet(c)
  BY <1>9 DEF SingleGet, GoTo, histVars
<1>10. CASE Replace(c)
  <2>1. PICK v \in Nat : row' = [draft[c] EXCEPT !.version = v]
    BY <1>10, ReplaceVersion
  <2>2. row' \in Records
    BY <2>1, RecordFacts
  <2> QED BY <1>10, <2>2, RecordFacts DEF Replace, Return, GoTo
<1>11. CASE ReplaceFails(c)
  BY <1>11, RecordFacts DEF ReplaceFails, Return, GoTo
<1> QED
  BY <1>1, <1>2, <1>3, <1>4, <1>5, <1>6, <1>7, <1>8, <1>9, <1>10, <1>11 DEF Step

\* A Save stays with the driver it has started with.
LEMMA PhasesStep ==
    ASSUME TypeOK, PhasesOK, NEW c \in Clients, Step(c)
    PROVE  PhasesOK'
<1> USE DEF TypeOK, PhasesOK, Saving
<1>1. CASE Edit(c)
  BY <1>1 DEF Edit, saveVars, histVars
<1>2. CASE Get(c)
  BY <1>2 DEF Get, saveVars, histVars
<1>3. CASE Delete(c)
  BY <1>3 DEF Delete, saveVars, histVars
<1>4. CASE SaveReads(c)
  BY <1>4 DEF SaveReads, GoTo, histVars
<1>5. CASE Count(c)
  BY <1>5 DEF Count, GoTo, histVars
<1>6. CASE Write(c)
  BY <1>6 DEF Write, GoTo, histVars
<1>7. CASE SaveReturns(c)
  BY <1>7 DEF SaveReturns, GoTo, Return, Commit, Unlocked
<1>8. CASE SaveFails(c)
  BY <1>8 DEF SaveFails, GoTo, Return, Commit, Unlocked
<1>9. CASE SingleGet(c)
  BY <1>9 DEF SingleGet, GoTo, histVars
<1>10. CASE Replace(c)
  BY <1>10 DEF Replace, GoTo, Return
<1>11. CASE ReplaceFails(c)
  BY <1>11 DEF ReplaceFails, GoTo, Return
<1> QED
  BY <1>1, <1>2, <1>3, <1>4, <1>5, <1>6, <1>7, <1>8, <1>9, <1>10, <1>11 DEF Step

\* A record that was not deleted stays, and its version in Tcaplus goes up with every Replace.
LEMMA ReplaceStep ==
    ASSUME TypeOK, PhasesOK, ReplaceOK, NEW c \in Clients, Step(c)
    PROVE  ReplaceOK'
<1> USE DEF TypeOK, ReplaceOK
<1>1. CASE Edit(c)
  BY <1>1 DEF Edit, saveVars, histVars
<1>2. CASE Get(c)
  BY <1>2 DEF Get, saveVars, histVars
<1>3. CASE Delete(c)
  BY <1>3 DEF Delete
<1>4. CASE SaveReads(c)
  <2>1. \A d \in Clients : phase'[d] # "replace"
    BY <1>4 DEF SaveReads, PhasesOK, Saving, GoTo
  <2> QED BY <2>1
<1>5. CASE Count(c)
  <2>1. \A d \in Clients : phase'[d] # "replace"
    BY <1>5 DEF Count, PhasesOK, Saving, GoTo
  <2> QED BY <2>1
<1>6. CASE Write(c)
  <2>1. \A d \in Clients : phase'[d] # "replace"
    BY <1>6 DEF Write, PhasesOK, Saving, GoTo
  <2> QED BY <2>1
<1>7. CASE SaveReturns(c)
  <2>1. \A d \in Clients : phase'[d] # "replace"
    BY <1>7 DEF SaveReturns, PhasesOK, Saving, GoTo, Return, Commit, Unlocked
  <2> QED BY <2>1
<1>8. CASE SaveFails(c)
  <2>1. \A d \in Clients : phase'[d] # "replace"
    BY <1>8 DEF SaveFails, PhasesOK, Saving, GoTo, Return, Commit, Unlocked
  <2> QED BY <2>1
<1>9. CASE SingleGet(c)
  <2>1. /\ phase' = [phase EXCEPT ![c] = "replace"] /\ seen' = [seen EXCEPT ![c] = row]
        /\ row' = row /\ deletes' = deletes
    BY <1>9 DEF SingleGet, GoTo, histVars
  <2> QED BY <2>1
<1>10. CASE Replace(c)
  <2>1. /\ phase' = [phase EXCEPT ![c] = "app"] /\ seen' = [seen EXCEPT ![c] = None]
        /\ deletes' = deletes
    BY <1>10 DEF Replace, Return, GoTo
  <2>2. row' \in Records /\ row' # None
    <3>1. PICK v \in Nat : row' = [draft[c] EXCEPT !.version = v]
      BY <1>10, ReplaceVersion
    <3> QED BY <3>1, VersionsAssumption, RecordFacts
  <2>3. row # None => row \in Records /\ row'.version = row.version + 1
    <3>1. row # None => row' = [draft[c] EXCEPT !.version = row.version + 1]
      BY <1>10 DEF Replace
    <3>2. row # None => row \in Records /\ row.version + 1 \in Nat
      BY RecordFacts
    <3>3. \A n \in Nat : [draft[c] EXCEPT !.version = n].version = n
      BY RecordFacts
    <3> QED BY <3>1, <3>2, <3>3
  <2>4. ASSUME NEW d \in Clients, deletes' = 0, phase'[d] = "replace", seen'[d] # None
        PROVE  seen'[d].version < row'.version
    <3>1. d # c /\ phase[d] = "replace" /\ seen'[d] = seen[d]
      BY <2>1, <2>4
    <3>2. row # None /\ seen[d].version <= row.version /\ seen[d] \in Records
      BY <3>1, <2>1, <2>4, RecordFacts
    <3> QED BY <3>1, <3>2, <2>3, RecordFacts
  <2> QED BY <2>2, <2>4
<1>11. CASE ReplaceFails(c)
  BY <1>11 DEF ReplaceFails, GoTo, Return
<1> QED
  BY <1>1, <1>2, <1>3, <1>4, <1>5, <1>6, <1>7, <1>8, <1>9, <1>10, <1>11 DEF Step

\* What SaveReturns, and SaveFails when only the answer is lost, do to the row.
Writes(c) == phase[c] = "commit" /\ lock = c /\ row' = draft[c]

\* They write the record of Save, which is the value with the next version, or leave the row.
LEMMA CommitRow ==
    ASSUME TypeOK, LockOK, NEW c \in Clients, SaveReturns(c) \/ SaveFails(c)
    PROVE  /\ row' = row \/ Writes(c)
           /\ overtaken => overtaken'
           /\ ~overtaken' /\ Writes(c) /\ (row' # row \/ SaveReturns(c)) => row = seen[c]
           /\ SaveReturns(c) => Writes(c) \/ c \in bereft
<1>1. ASSUME phase[c] = "commit", Commit(c)
      PROVE  /\ row' = row \/ Writes(c)
             /\ overtaken => overtaken'
             /\ ~overtaken' /\ Writes(c) => row = seen[c]
             /\ Writes(c) \/ c \in bereft
  BY <1>1 DEF Commit, Writes, LockOK
<1>2. ASSUME SaveReturns(c) PROVE phase[c] = "commit" /\ Commit(c)
  BY <1>2 DEF SaveReturns
<1>3. ASSUME SaveFails(c) PROVE (phase[c] = "commit" /\ Commit(c)) \/ UNCHANGED <<row, overtaken>>
  BY <1>3 DEF SaveFails
<1>4. CASE SaveReturns(c)
  BY <1>1, <1>2, <1>4
<1>5. CASE SaveFails(c) /\ ~SaveReturns(c)
  BY <1>1, <1>3, <1>5
<1> QED BY <1>4, <1>5

\* A commit that was not overtaken: the row is still the one that Save has read, and it becomes
\* the value with the next version.
CommitOf(c) ==
    /\ store # "tcaplus"
    /\ draft[c] \in Records /\ draft[c] # None
    /\ draft[c].version = value[c].version + 1
    /\ draft[c].has = value[c].has
    /\ seen[c] # None => seen[c].version = value[c].version
    /\ seen[c] # None /\ Undisturbed => seen[c].has \subseteq value[c].has

\* PhasesOK and DraftsOK say this of every transaction that is about to commit.
LEMMA CommitMeans ==
    ASSUME TypeOK, PhasesOK, DraftsOK, NEW c \in Clients, phase[c] = "commit"
    PROVE  CommitOf(c)
<1>1. store # "tcaplus"
  BY DEF PhasesOK, Saving
<1>2. draft[c] \in Records /\ value[c] \in Records /\ draft[c] # None
  BY VersionsAssumption DEF TypeOK
<1>3. /\ draft[c] = [value[c] EXCEPT !.version = value[c].version + 1]
      /\ seen[c] # None => /\ seen[c].version = value[c].version
                           /\ Undisturbed => seen[c].has \subseteq value[c].has
  BY DEF DraftsOK, Saving
<1>4. draft[c].version = value[c].version + 1 /\ draft[c].has = value[c].has
  BY <1>2, <1>3, RecordFacts
<1> QED BY <1>1, <1>2, <1>3, <1>4 DEF CommitOf

\* A commit of a database that stays undisturbed.
LEMMA CommitUndisturbed ==
    ASSUME TypeOK, PhasesOK, DraftsOK, LockOK, NEW c \in Clients, SaveReturns(c) \/ SaveFails(c),
           Undisturbed', row' # row \/ SaveReturns(c)
    PROVE  /\ Undisturbed /\ CommitOf(c)
           /\ row' = draft[c]
           /\ row = seen[c]
<1>1. deletes' = deletes /\ deletes = 0 /\ ~overtaken
  BY CommitRow DEF SaveReturns, SaveFails, Undisturbed
<1>2. c \notin bereft
  BY <1>1 DEF LockOK
<1>3. Writes(c)
  BY <1>2, CommitRow
<1> QED BY <1>1, <1>3, CommitRow, CommitMeans DEF Writes, Undisturbed

\* Nobody changes the value that a Save is writing, and what Save reads has its version.
LEMMA DraftsStep ==
    ASSUME TypeOK, PhasesOK, DraftsOK, LockOK, VersionIdentifies, NEW c \in Clients, Step(c)
    PROVE  DraftsOK'
<1> USE DEF TypeOK, DraftsOK, Saving
<1>1. CASE Edit(c)
  <2>1. \A d \in Clients : phase'[d] \in Saving =>
             /\ phase[d] \in Saving /\ value'[d] = value[d]
             /\ draft'[d] = draft[d] /\ seen'[d] = seen[d]
    BY <1>1 DEF Edit, saveVars, histVars
  <2>2. Undisturbed' => Undisturbed
    BY <1>1 DEF Edit, Undisturbed, histVars
  <2> QED BY <2>1, <2>2
<1>2. CASE Get(c)
  <2>1. \A d \in Clients : phase'[d] \in Saving =>
             /\ phase[d] \in Saving /\ value'[d] = value[d]
             /\ draft'[d] = draft[d] /\ seen'[d] = seen[d]
    BY <1>2 DEF Get, saveVars, histVars
  <2>2. Undisturbed' => Undisturbed
    BY <1>2 DEF Get, Undisturbed, histVars
  <2> QED BY <2>1, <2>2
<1>3. CASE Delete(c)
  <2>1. \A d \in Clients : phase'[d] \in Saving =>
             /\ phase[d] \in Saving /\ value'[d] = value[d]
             /\ draft'[d] = draft[d] /\ seen'[d] = seen[d]
    BY <1>3 DEF Delete, saveVars, histVars
  <2>2. Undisturbed' => Undisturbed
    BY <1>3 DEF Delete, Undisturbed, histVars
  <2> QED BY <2>1, <2>2
<1>4. CASE SaveReads(c)
  <2>1. /\ seen' = [seen EXCEPT ![c] = row] /\ value' = value /\ (Undisturbed' <=> Undisturbed)
        /\ draft' = [draft EXCEPT ![c] = [value[c] EXCEPT !.version = @ + 1]]
        /\ \A d \in Clients : d # c => phase'[d] = phase[d]
    BY <1>4 DEF SaveReads, GoTo, histVars, Undisturbed
  <2>2. row # None => /\ row.version = value[c].version
                      /\ Undisturbed => row.has \subseteq value[c].has
    BY <1>4 DEF SaveReads, Current, VersionIdentifies, Undisturbed
  <2>3. /\ draft'[c] = [value'[c] EXCEPT !.version = @ + 1]
        /\ seen'[c] # None => /\ seen'[c].version = value'[c].version
                              /\ Undisturbed' => seen'[c].has \subseteq value'[c].has
    BY <2>1, <2>2
  <2>4. \A d \in Clients : d # c => /\ draft'[d] = draft[d] /\ seen'[d] = seen[d]
                                    /\ phase'[d] = phase[d] /\ value'[d] = value[d]
    BY <2>1
  <2> QED BY <2>1, <2>3, <2>4
<1>5. CASE Count(c)
  <2>1. \A d \in Clients : phase'[d] \in Saving =>
             /\ phase[d] \in Saving /\ value'[d] = value[d]
             /\ draft'[d] = draft[d] /\ seen'[d] = seen[d]
    BY <1>5 DEF Count, GoTo, histVars
  <2>2. Undisturbed' => Undisturbed
    BY <1>5 DEF Count, Undisturbed, histVars
  <2> QED BY <2>1, <2>2
<1>6. CASE Write(c)
  <2>1. \A d \in Clients : phase'[d] \in Saving =>
             /\ phase[d] \in Saving /\ value'[d] = value[d]
             /\ draft'[d] = draft[d] /\ seen'[d] = seen[d]
    BY <1>6 DEF Write, GoTo, histVars
  <2>2. Undisturbed' => Undisturbed
    BY <1>6 DEF Write, Undisturbed, histVars
  <2> QED BY <2>1, <2>2
<1>7. CASE SaveReturns(c)
  <2>1. \A d \in Clients : phase'[d] \in Saving =>
             /\ phase[d] \in Saving /\ value'[d] = value[d]
             /\ draft'[d] = draft[d] /\ seen'[d] = seen[d]
    BY <1>7 DEF SaveReturns, GoTo, Return, Commit, Unlocked
  <2>2. Undisturbed' => Undisturbed
    BY <1>7, CommitRow DEF SaveReturns, Undisturbed, histVars
  <2> QED BY <2>1, <2>2
<1>8. CASE SaveFails(c)
  <2>1. \A d \in Clients : phase'[d] \in Saving =>
             /\ phase[d] \in Saving /\ value'[d] = value[d]
             /\ draft'[d] = draft[d] /\ seen'[d] = seen[d]
    BY <1>8 DEF SaveFails, GoTo, Return, Commit, Unlocked
  <2>2. Undisturbed' => Undisturbed
    BY <1>8, CommitRow DEF SaveFails, Undisturbed, histVars
  <2> QED BY <2>1, <2>2
<1>9. CASE SingleGet(c)
  <2>1. \A d \in Clients : phase'[d] \in Saving =>
             /\ phase[d] \in Saving /\ value'[d] = value[d]
             /\ draft'[d] = draft[d] /\ seen'[d] = seen[d]
    BY <1>9 DEF SingleGet, GoTo, histVars
  <2>2. Undisturbed' => Undisturbed
    BY <1>9 DEF SingleGet, Undisturbed, histVars
  <2> QED BY <2>1, <2>2
<1>10. CASE Replace(c)
  <2>1. \A d \in Clients : phase'[d] \in Saving =>
             /\ phase[d] \in Saving /\ value'[d] = value[d]
             /\ draft'[d] = draft[d] /\ seen'[d] = seen[d]
    BY <1>10 DEF Replace, GoTo, Return
  <2>2. Undisturbed' => Undisturbed
    BY <1>10 DEF Replace, Undisturbed, histVars
  <2> QED BY <2>1, <2>2
<1>11. CASE ReplaceFails(c)
  <2>1. \A d \in Clients : phase'[d] \in Saving =>
             /\ phase[d] \in Saving /\ value'[d] = value[d]
             /\ draft'[d] = draft[d] /\ seen'[d] = seen[d]
    BY <1>11 DEF ReplaceFails, GoTo, Return
  <2>2. Undisturbed' => Undisturbed
    BY <1>11 DEF ReplaceFails, Undisturbed, histVars
  <2> QED BY <2>1, <2>2
<1> QED
  BY <1>1, <1>2, <1>3, <1>4, <1>5, <1>6, <1>7, <1>8, <1>9, <1>10, <1>11 DEF Step

\* A transaction that reaches its commit has locked the row, or its row was deleted.
LEMMA LockStep ==
    ASSUME TypeOK, PhasesOK, LockOK, NEW c \in Clients, Step(c)
    PROVE  LockOK'
<1> USE VersionsAssumption DEF TypeOK, LockOK
<1>1. CASE Edit(c)
  BY <1>1 DEF Edit, saveVars, histVars
<1>2. CASE Get(c)
  BY <1>2 DEF Get, saveVars, histVars
<1>3. CASE Delete(c)
  BY <1>3 DEF Delete, saveVars, histVars
<1>4. CASE SaveReads(c)
  <2>1. /\ phase[c] = "app" /\ (phase'[c] = "count" \/ phase'[c] = "write")
        /\ \A d \in Clients : d # c => phase'[d] = phase[d]
        /\ counted' = counted /\ lock' = lock /\ bereft' = bereft
        /\ deletes' = deletes /\ row' = row
    BY <1>4 DEF SaveReads, GoTo, histVars
  <2>2. ~counted[c]
    BY <2>1
  <2> QED BY <2>1, <2>2
<1>5. CASE Count(c)
  BY <1>5 DEF Count, GoTo, histVars
<1>6. CASE Write(c)
  <2>1. /\ lock = None /\ phase[c] = "write" /\ phase' = [phase EXCEPT ![c] = "commit"]
        /\ lock' = IF Misses(c) THEN lock ELSE c
        /\ row' = row /\ counted' = counted /\ bereft' = bereft /\ deletes' = deletes
    BY <1>6 DEF Write, GoTo, histVars
  <2>2. Misses(c) => c \in bereft
    BY <2>1 DEF Misses
  <2> QED BY <2>1, <2>2
<1>7. CASE SaveReturns(c) \/ SaveFails(c)
  <2>1. /\ phase' = [phase EXCEPT ![c] = "app"] /\ counted' = [counted EXCEPT ![c] = FALSE]
        /\ bereft' = bereft \ {c} /\ deletes' = deletes /\ lock' = Unlocked(c)
    BY <1>7 DEF SaveReturns, SaveFails, Return, GoTo
  <2>2. row # None => row' # None
    BY <1>7, CommitRow DEF Writes
  <2> QED BY <2>1, <2>2 DEF Unlocked
<1>9. CASE SingleGet(c)
  BY <1>9 DEF SingleGet, GoTo, histVars
<1>10. CASE Replace(c)
  <2>1. /\ phase' = [phase EXCEPT ![c] = "app"] /\ counted' = [counted EXCEPT ![c] = FALSE]
        /\ bereft' = bereft \ {c} /\ deletes' = deletes /\ lock' = lock /\ phase[c] = "replace"
    BY <1>10 DEF Replace, Return, GoTo
  <2>2. \A d \in Clients : phase[d] # "commit" /\ phase[d] # "write"
    BY <1>10 DEF Replace, PhasesOK, Saving
  <2> QED BY <2>1, <2>2
<1>11. CASE ReplaceFails(c)
  BY <1>11 DEF ReplaceFails, GoTo, Return
<1> QED
  BY <1>1, <1>2, <1>3, <1>4, <1>5, <1>6, <1>7, <1>9, <1>10, <1>11 DEF Step

\* A value gets the version of the row, and the version of the row goes up.
LEMMA VersionsStep ==
    ASSUME TypeOK, PhasesOK, DraftsOK, LockOK, VersionsOK, NEW c \in Clients, Step(c)
    PROVE  VersionsOK'
<1> SUFFICES ASSUME store' # "tcaplus", Undisturbed'
             PROVE  \A d \in Clients : IF row' = None THEN value'[d].version = 0
                                                      ELSE value'[d].version <= row'.version
  BY DEF VersionsOK
<1> USE DEF TypeOK
<1>a. store # "tcaplus" /\ Undisturbed =>
          \A d \in Clients : IF row = None THEN value[d].version = 0
                                           ELSE value[d].version <= row.version
  BY DEF VersionsOK
<1>1. CASE Edit(c)
  <2>1. /\ row' = row /\ store' = store /\ Undisturbed
        /\ \A d \in Clients : value'[d].version = value[d].version
    BY <1>1, RecordFacts DEF Edit, Undisturbed, histVars
  <2> QED BY <1>a, <2>1
<1>2. CASE Get(c)
  <2>1. row' = row /\ store' = store /\ Undisturbed
    BY <1>2 DEF Get, Undisturbed, histVars
  <2>2. \A d \in Clients : value'[d] = value[d] \/ (row # None /\ value'[d] = row)
    BY <1>2, <2>1 DEF Get
  <2>3. row # None => row.version <= row.version
    BY RecordFacts
  <2> QED BY <1>a, <2>1, <2>2, <2>3
<1>3. CASE Delete(c)
  BY <1>3 DEF Delete, Undisturbed
<1>4. CASE SaveReads(c)
  BY <1>a, <1>4 DEF SaveReads, GoTo, histVars, Undisturbed
<1>5. CASE Count(c)
  BY <1>a, <1>5 DEF Count, GoTo, histVars, Undisturbed
<1>6. CASE Write(c)
  BY <1>a, <1>6 DEF Write, GoTo, histVars, Undisturbed
<1>7. CASE SaveReturns(c)
  <2>1. /\ store' = store
        /\ value' = [value EXCEPT ![c].version = draft[c].version]
    BY <1>7 DEF SaveReturns
  <2>2. Undisturbed /\ CommitOf(c) /\ row' = draft[c] /\ row = seen[c]
    BY <1>7, CommitUndisturbed
  <2>3. \A d \in Clients : value[d].version <= value[c].version
    BY <1>a, <2>1, <2>2, RecordFacts DEF CommitOf
  <2>4. \A d \in Clients : value'[d].version \in {value[d].version, draft[c].version}
    BY <2>1, RecordFacts
  <2> QED BY <2>1, <2>2, <2>3, <2>4, RecordFacts DEF CommitOf
<1>8. CASE SaveFails(c)
  <2>1. store' = store /\ value' = value
    BY <1>8 DEF SaveFails
  <2>2. CASE row' = row
    <3>1. Undisturbed
      BY <1>8, CommitRow DEF SaveFails, Undisturbed
    <3> QED BY <1>a, <2>1, <2>2, <3>1
  <2>3. CASE row' # row
    <3>1. Undisturbed /\ CommitOf(c) /\ row' = draft[c] /\ row = seen[c]
      BY <1>8, <2>3, CommitUndisturbed
    <3>2. \A d \in Clients : value[d].version <= value[c].version
      BY <1>a, <2>1, <3>1, RecordFacts DEF CommitOf
    <3> QED BY <2>1, <3>1, <3>2, RecordFacts DEF CommitOf
  <2> QED BY <2>2, <2>3
<1>9. CASE SingleGet(c)
  BY <1>a, <1>9 DEF SingleGet, GoTo, histVars, Undisturbed
<1>10. CASE Replace(c)
  BY <1>10 DEF Replace, PhasesOK
<1>11. CASE ReplaceFails(c)
  BY <1>a, <1>11 DEF ReplaceFails, GoTo, Return, Undisturbed
<1> QED
  BY <1>1, <1>2, <1>3, <1>4, <1>5, <1>6, <1>7, <1>8, <1>9, <1>10, <1>11 DEF Step

\* The row changes with a commit only, after which no other value has its version.
LEMMA IdentifiesStep ==
    ASSUME TypeOK, PhasesOK, DraftsOK, LockOK, VersionsOK, VersionIdentifies,
           NEW c \in Clients, Step(c)
    PROVE  VersionIdentifies'
<1> SUFFICES ASSUME store' # "tcaplus", Undisturbed', row' # None, NEW d \in Clients,
                    value'[d].version = row'.version
             PROVE  row'.has \subseteq value'[d].has
  BY DEF VersionIdentifies, Undisturbed
<1> USE DEF TypeOK
<1>a. store # "tcaplus" /\ Undisturbed /\ row # None /\ value[d].version = row.version =>
          row.has \subseteq value[d].has
  BY DEF VersionIdentifies, Undisturbed
<1>b. store # "tcaplus" /\ Undisturbed =>
          \A e \in Clients : IF row = None THEN value[e].version = 0
                                           ELSE value[e].version <= row.version
  BY DEF VersionsOK
<1>1. CASE Edit(c)
  <2>1. /\ row' = row /\ store' = store /\ Undisturbed
        /\ value'[d].version = value[d].version /\ value[d].has \subseteq value'[d].has
    <3>1. CASE d = c
      <4>1. value'[d] = [value[d] EXCEPT !.has = @ \cup {updates + 1}]
        BY <1>1, <3>1 DEF Edit, Undisturbed, histVars
      <4>2. value[d].has \cup {updates + 1} \in SUBSET Updates
        BY <1>1, VersionsAssumption, RecordFacts DEF Edit, Updates
      <4> QED BY <1>1, <4>1, <4>2, RecordFacts DEF Edit, Undisturbed, histVars
    <3>2. CASE d # c
      BY <1>1, <3>2 DEF Edit, Undisturbed, histVars
    <3> QED BY <3>1, <3>2
  <2> QED BY <1>a, <2>1
<1>2. CASE Get(c)
  <2>1. row' = row /\ store' = store /\ Undisturbed
    BY <1>2 DEF Get, Undisturbed, histVars
  <2>2. value'[d] = value[d] \/ (row # None /\ value'[d] = row)
    BY <1>2, <2>1 DEF Get
  <2> QED BY <1>a, <2>1, <2>2
<1>3. CASE Delete(c)
  BY <1>3 DEF Delete, Undisturbed
<1>4. CASE SaveReads(c)
  BY <1>a, <1>4 DEF SaveReads, GoTo, histVars, Undisturbed
<1>5. CASE Count(c)
  BY <1>a, <1>5 DEF Count, GoTo, histVars, Undisturbed
<1>6. CASE Write(c)
  BY <1>a, <1>6 DEF Write, GoTo, histVars, Undisturbed
<1>7. CASE SaveReturns(c)
  <2>1. /\ store' = store
        /\ value' = [value EXCEPT ![c].version = draft[c].version]
    BY <1>7 DEF SaveReturns
  <2>2. Undisturbed /\ CommitOf(c) /\ row' = draft[c] /\ row = seen[c]
    BY <1>7, CommitUndisturbed
  <2>3. CASE d = c
    <3>1. value'[d].has = value[c].has
      BY <2>1, <2>2, <2>3, RecordFacts DEF CommitOf
    <3> QED BY <2>2, <3>1 DEF CommitOf
  <2>4. CASE d # c
    <3>1. value'[d] = value[d] /\ value[d].version <= value[c].version
      BY <1>b, <2>1, <2>2, <2>4, RecordFacts DEF CommitOf
    <3> QED BY <2>2, <3>1, RecordFacts DEF CommitOf
  <2> QED BY <2>3, <2>4
<1>8. CASE SaveFails(c)
  <2>1. store' = store /\ value' = value
    BY <1>8 DEF SaveFails
  <2>2. CASE row' = row
    <3>1. Undisturbed
      BY <1>8, CommitRow DEF SaveFails, Undisturbed
    <3> QED BY <1>a, <2>1, <2>2, <3>1
  <2>3. CASE row' # row
    <3>1. Undisturbed /\ CommitOf(c) /\ row' = draft[c] /\ row = seen[c]
      BY <1>8, <2>3, CommitUndisturbed
    <3>2. value[d].version <= value[c].version
      BY <1>b, <2>1, <3>1, RecordFacts DEF CommitOf
    <3> QED BY <2>1, <3>1, <3>2, RecordFacts DEF CommitOf
  <2> QED BY <2>2, <2>3
<1>9. CASE SingleGet(c)
  BY <1>a, <1>9 DEF SingleGet, GoTo, histVars, Undisturbed
<1>10. CASE Replace(c)
  BY <1>10 DEF Replace, PhasesOK
<1>11. CASE ReplaceFails(c)
  BY <1>a, <1>11 DEF ReplaceFails, GoTo, Return, Undisturbed
<1> QED
  BY <1>1, <1>2, <1>3, <1>4, <1>5, <1>6, <1>7, <1>8, <1>9, <1>10, <1>11 DEF Step

\* The invariant holds at the start.
LEMMA SaveInit == Init => SaveInv
<1> SUFFICES ASSUME Init PROVE SaveInv
  OBVIOUS
<1>1. TypeOK
  <2>1. overtaken \in BOOLEAN
    BY DEF Init
  <2>2. /\ store \in Stores /\ row \in Records \cup {None} /\ lock \in Clients \cup {None}
        /\ updates \in 0 .. MaxUpdates /\ deletes \in 0 .. MaxDeletes /\ bereft \subseteq Clients
    BY VersionsAssumption DEF Init
  <2>3. /\ value \in [Clients -> Records] /\ phase \in [Clients -> Phases]
        /\ seen \in [Clients -> Records \cup {None}] /\ draft \in [Clients -> Records]
        /\ counted \in [Clients -> BOOLEAN]
    BY RecordFacts DEF Init, Phases
  <2> QED BY <2>1, <2>2, <2>3 DEF TypeOK
<1>2. PhasesOK /\ ReplaceOK /\ DraftsOK
  BY DEF Init, PhasesOK, ReplaceOK, DraftsOK, Saving
<1>3. LockOK /\ VersionsOK /\ VersionIdentifies
  BY VersionsAssumption DEF Init, LockOK, VersionsOK, VersionIdentifies, Blank
<1> QED BY <1>1, <1>2, <1>3 DEF SaveInv

\* Every step keeps it.
LEMMA SaveStep == SaveInv /\ [Next]_vars => SaveInv'
<1> SUFFICES ASSUME SaveInv, [Next]_vars PROVE SaveInv'
  OBVIOUS
<1>1. CASE Next
  <2>1. PICK c \in Clients : Step(c)
    BY <1>1 DEF Next, Step
  <2>2. TypeOK' /\ PhasesOK' /\ ReplaceOK'
    BY <2>1, TypesStep, PhasesStep, ReplaceStep DEF SaveInv
  <2>3. DraftsOK' /\ LockOK' /\ VersionsOK' /\ VersionIdentifies'
    BY <2>1, DraftsStep, LockStep, VersionsStep, IdentifiesStep DEF SaveInv
  <2> QED BY <2>2, <2>3 DEF SaveInv
<1>2. CASE UNCHANGED vars
  <2>1. TypeOK' /\ PhasesOK' /\ ReplaceOK'
    BY <1>2 DEF SaveInv, vars, saveVars, histVars, TypeOK, PhasesOK, ReplaceOK
  <2>2. DraftsOK' /\ LockOK'
    BY <1>2 DEF SaveInv, vars, saveVars, histVars, DraftsOK, LockOK, Undisturbed
  <2>3. VersionsOK' /\ VersionIdentifies'
    BY <1>2 DEF SaveInv, vars, saveVars, histVars, VersionsOK, VersionIdentifies, Undisturbed
  <2> QED BY <2>1, <2>2, <2>3 DEF SaveInv
<1> QED BY <1>1, <1>2

\* What Save, Get and Delete keep, with the transactions that the code asks for.
THEOREM SaveInductive == Spec => []SaveInv
  BY SaveInit, SaveStep, PTL DEF Spec

\* The variables of Save, and the row, keep their types.
THEOREM SaveTypes == Spec => []TypeOK
<1>1. SaveInv => TypeOK
  BY DEF SaveInv
<1> QED BY <1>1, SaveInductive, PTL

\* Until a commit replaces a row that its Save has not read, or a Delete, the comparison of
\* versions in gormBase.Save is enough: a value with the version of the row has its content,
\* also when the answer to a commit was lost.
THEOREM SaveVersionIdentifies == Spec => []VersionIdentifies
<1>1. SaveInv => VersionIdentifies
  BY DEF SaveInv
<1> QED BY <1>1, SaveInductive, PTL

\* Until then no SQL Save drops an update that somebody else has saved: an overlap of two
\* Saves, and Delete, are the only causes of a lost update.
THEOREM SaveNoLostUpdate == Spec => NoLostUpdate
<1>1. ASSUME SaveInv, [Next]_vars
      PROVE  [store # "tcaplus" /\ deletes = 0 /\ ~overtaken' /\ row # None /\ row' # None =>
                 row.has \subseteq row'.has]_row
  <2> SUFFICES ASSUME store # "tcaplus", deletes = 0, ~overtaken', row # None, row' # None,
                      row' # row
               PROVE  row.has \subseteq row'.has
    OBVIOUS
  <2>1. PICK c \in Clients : Step(c)
    BY <1>1 DEF vars, Next, Step
  <2>2. SaveReturns(c) \/ SaveFails(c)
    BY <1>1, <2>1 DEF Step, Edit, Get, Delete, SaveReads, Count, Write, SingleGet, Replace,
                      ReplaceFails, SaveInv, PhasesOK
  <2>3. Undisturbed'
    BY <2>2 DEF SaveReturns, SaveFails, Undisturbed
  <2>4. Undisturbed /\ CommitOf(c) /\ row' = draft[c] /\ row = seen[c]
    BY <1>1, <2>2, <2>3, CommitUndisturbed DEF SaveInv
  <2> QED BY <2>4 DEF CommitOf
<1> QED BY <1>1, SaveInductive, PTL DEF Spec, NoLostUpdate

\* A SQL Save that returns without error has stored its record, unless PostgreSQL's row was
\* deleted between Count and Updates of gormSaveRecord.
THEOREM SaveSavedIsStored == Spec => SavedIsStored
<1>1. ASSUME SaveInv, NEW c \in Clients, SaveReturns(c) PROVE row' = draft[c] \/ c \in bereft
  BY <1>1, CommitRow DEF SaveInv, Writes
<1>2. SaveInv => [\A c \in Clients : SaveReturns(c) => row' = draft[c] \/ c \in bereft]_vars
  BY <1>1
<1> QED BY <1>2, SaveInductive, PTL DEF SavedIsStored

\* A Tcaplus Save that found a record replaces that very record, as long as nobody deletes it.
THEOREM SaveReplacesWhatItRead == Spec => ReplacesWhatItRead
<1>1. ASSUME SaveInv, deletes = 0, NEW c \in Clients, Replace(c), seen[c] # None
      PROVE  row \in {None, seen[c]}
  <2>1. row # None /\ (row = seen[c] \/ seen[c].version < row.version)
    BY <1>1 DEF SaveInv, ReplaceOK, Replace
  <2>2. row.version = seen[c].version /\ row.version \in Nat
    BY <1>1, <2>1, RecordFacts DEF Replace, Accepts, Sent, versionForSave, SaveInv, TypeOK
  <2> QED BY <2>1, <2>2
<1>2. SaveInv => [deletes = 0 => \A c \in Clients :
                    Replace(c) /\ seen[c] # None => row \in {None, seen[c]}]_vars
  BY <1>1
<1> QED BY <1>2, SaveInductive, PTL DEF ReplacesWhatItRead
==========================================================================
