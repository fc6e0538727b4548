-------------------------- MODULE VersionedSave --------------------------
(***************************************************************************)
(* Save, Get and Delete of one record whose table has a version column:    *)
(* the SQL drivers compare the version of the value with that of the row   *)
(* inside a transaction of their own, the Tcaplus driver sends the version *)
(* that it has just read along with Replace.                               *)
(*                                                                         *)
(* The content of a record is the set of application updates it includes.  *)
(* Clients are goroutines or processes, each with a value of its own, and  *)
(* Save is called outside RunInTx.  Save asks for no isolation level, so   *)
(* the SQL database has that of MySQL and PostgreSQL by default: a row     *)
(* lock, writes that others see at commit, and no objection to a write     *)
(* over a row that has changed since the transaction read it.  The version *)
(* that is sent to Tcaplus is the record's own, not the version field of   *)
(* the value.                                                              *)
(***************************************************************************)
EXTENDS Naturals

CONSTANTS
    Clients,       \* who saves the record
    Stores,        \* the kinds of driver: "mysql", "postgres", "tcaplus"
    NewVersions,   \* versions that Tcaplus may give a record that Replace creates
    MaxUpdates,    \* bound on the updates of the application
    MaxVersion,    \* bound on the version of a value that is saved
    MaxDeletes,    \* bound on Delete
    None           \* no row, no lock

Updates == 1 .. MaxUpdates
Records == [version : Nat, has : SUBSET Updates]

ASSUME VersionsAssumption ==
    /\ Stores \subseteq {"mysql", "postgres", "tcaplus"}
    /\ NewVersions \subseteq Nat
    /\ MaxUpdates \in Nat /\ MaxVersion \in Nat /\ MaxDeletes \in Nat
    /\ None \notin Clients \cup Records

VARIABLES
    store,     \* the driver
    row,       \* the committed record
    lock,      \* the client whose transaction has written the row
    value,     \* value[c]: the message in the hands of client c
    phase,     \* phase[c]: how far Save of c has come
    seen,      \* seen[c]: the row that Save of c has read
    draft,     \* draft[c]: the record that Save of c writes
    counted,   \* counted[c]: gormSaveRecord of c has counted a row
    updates,   \* number of updates so far
    deletes,   \* number of deletes so far
    overtaken, \* a commit has replaced a row that its Save had not read (history)
    bereft     \* the Saves whose row was deleted after they had counted it (history)

saveVars == <<phase, seen, draft, counted>>
histVars == <<overtaken, bereft>>
vars     == <<store, row, lock, value, saveVars, updates, deletes, histVars>>

Phases == {"app", "count", "write", "commit", "replace"}
Blank  == [version |-> 0, has |-> {}]

TypeOK ==
    /\ store \in Stores
    /\ row \in Records \cup {None}
    /\ lock \in Clients \cup {None}
    /\ value \in [Clients -> Records]
    /\ phase \in [Clients -> Phases]
    /\ seen \in [Clients -> Records \cup {None}]
    /\ draft \in [Clients -> Records]
    /\ counted \in [Clients -> BOOLEAN]
    /\ updates \in 0 .. MaxUpdates
    /\ deletes \in 0 .. MaxDeletes
    /\ overtaken \in BOOLEAN
    /\ bereft \subseteq Clients

Init ==
    /\ store \in Stores
    /\ row = None
    /\ lock = None
    /\ value = [c \in Clients |-> Blank]
    /\ phase = [c \in Clients |-> "app"]
    /\ seen = [c \in Clients |-> None]
    /\ draft = [c \in Clients |-> Blank]
    /\ counted = [c \in Clients |-> FALSE]
    /\ updates = 0
    /\ deletes = 0
    /\ overtaken = FALSE
    /\ bereft = {}

GoTo(c, p) == phase' = [phase EXCEPT ![c] = p]

\* Save returns and its local variables are gone.
Return(c) ==
    /\ GoTo(c, "app")
    /\ seen' = [seen EXCEPT ![c] = None]
    /\ draft' = [draft EXCEPT ![c] = Blank]
    /\ counted' = [counted EXCEPT ![c] = FALSE]
    /\ bereft' = bereft \ {c}

---------------------------------------------------------------------------
(* The application.                                                        *)

\* The application changes a field of its value.
Edit(c) ==
    /\ phase[c] = "app"
    /\ updates < MaxUpdates
    /\ updates' = updates + 1
    /\ value' = [value EXCEPT ![c].has = @ \cup {updates'}]
    /\ UNCHANGED <<store, row, lock, saveVars, deletes, histVars>>

\* Get; without a row the value stays as it is.  Get of Tcaplus returns no version.
Get(c) ==
    /\ phase[c] = "app"
    /\ value' = [value EXCEPT ![c] =
          CASE row = None                      -> @
            [] row # None /\ store = "tcaplus" -> [@ EXCEPT !.has = row.has]
            [] OTHER                           -> row]
    /\ UNCHANGED <<store, row, lock, saveVars, updates, deletes, histVars>>

\* Delete asks for no version.
Delete(c) ==
    /\ phase[c] = "app"
    /\ lock = None
    /\ row # None
    /\ deletes < MaxDeletes
    /\ deletes' = deletes + 1
    /\ row' = None
    /\ bereft' = bereft \cup {d \in Clients : phase[d] = "write" /\ counted[d]}
    /\ UNCHANGED <<store, lock, value, saveVars, updates, overtaken>>

---------------------------------------------------------------------------
(* gormBase.Save.                                                          *)

\* Mutant: the version of the row is not compared.
Current_Always(c) == TRUE

\* The transaction may go on; otherwise Save returns ErrVersionMismatched.
Current(c) == row # None => row.version = value[c].version

\* Mutant: the version goes down.
SaveReads_Down(c) ==
    /\ store # "tcaplus"
    /\ phase[c] = "app"
    /\ value[c].version < MaxVersion
    /\ Current(c)
    /\ seen' = [seen EXCEPT ![c] = row]
    /\ draft' = [draft EXCEPT ![c] = [value[c] EXCEPT !.version = @ - 1]]
    /\ GoTo(c, IF store = "postgres" THEN "count" ELSE "write")
    /\ UNCHANGED <<store, row, lock, value, counted, updates, deletes, histVars>>

\* First in the transaction, then the version of the record goes up.
SaveReads(c) ==
    /\ store # "tcaplus"
    /\ phase[c] = "app"
    /\ value[c].version < MaxVersion
    /\ Current(c)
    /\ seen' = [seen EXCEPT ![c] = row]
    /\ draft' = [draft EXCEPT ![c] = [value[c] EXCEPT !.version = @ + 1]]
    /\ GoTo(c, IF store = "postgres" THEN "count" ELSE "write")
    /\ UNCHANGED <<store, row, lock, value, counted, updates, deletes, histVars>>

\* Mutant: always Updates, as for a row that is there.
Count_Always(c) ==
    /\ phase[c] = "count"
    /\ counted' = [counted EXCEPT ![c] = TRUE]
    /\ GoTo(c, "write")
    /\ UNCHANGED <<store, row, lock, value, seen, draft, updates, deletes, histVars>>

\* gormSaveRecord with PostgreSQL counts first, to choose between Create and Updates.
Count(c) ==
    /\ phase[c] = "count"
    /\ counted' = [counted EXCEPT ![c] = (row # None)]
    /\ GoTo(c, "write")
    /\ UNCHANGED <<store, row, lock, value, seen, draft, updates, deletes, histVars>>

\* The database refuses: Create meets a row.
Refused(c) == store = "postgres" /\ ~counted[c] /\ row # None

\* Updates finds no row, which is no error.
Misses(c) == store = "postgres" /\ counted[c] /\ row = None

\* Save, Create or Updates waits for the lock of the row and writes it.
Write(c) ==
    /\ phase[c] = "write"
    /\ lock = None
    /\ ~Refused(c)
    /\ lock' = IF Misses(c) THEN lock ELSE c
    /\ GoTo(c, "commit")
    /\ UNCHANGED <<store, row, value, seen, draft, counted, updates, deletes, histVars>>

\* COMMIT makes what the transaction has written the row.
Commit(c) ==
    /\ row' = IF lock = c THEN draft[c] ELSE row
    /\ overtaken' = (overtaken \/ (lock = c /\ row # seen[c]))

Unlocked(c) == IF lock = c THEN None ELSE lock

\* Mutant: the value gets its new version although it is not known to be saved.
SaveFails_SetsVersion(c) ==
    /\ phase[c] \in {"count", "write", "commit"}
    /\ (phase[c] = "commit" /\ Commit(c)) \/ UNCHANGED <<row, overtaken>>
    /\ lock' = Unlocked(c)
    /\ value' = [value EXCEPT ![c].version = draft[c].version]
    /\ Return(c)
    /\ UNCHANGED <<store, updates, deletes>>

\* Save fails at any point (the row is locked too long, it was refused, the connection
\* breaks): the transaction is rolled back, or the answer to its commit is lost.
SaveFails(c) ==
    /\ phase[c] \in {"count", "write", "commit"}
    /\ (phase[c] = "commit" /\ Commit(c)) \/ UNCHANGED <<row, overtaken>>
    /\ lock' = Unlocked(c)
    /\ Return(c)
    /\ UNCHANGED <<store, value, updates, deletes>>

\* The transaction commits, and the value gets its new version.
SaveReturns(c) ==
    /\ phase[c] = "commit"
    /\ Commit(c)
    /\ lock' = Unlocked(c)
    /\ value' = [value EXCEPT ![c].version = draft[c].version]
    /\ Return(c)
    /\ UNCHANGED <<store, updates, deletes>>

---------------------------------------------------------------------------
(* Save of the Tcaplus driver.                                             *)

\* SingleGet; an error other than RECORD_NOT_EXIST ends Save with nothing changed.
SingleGet(c) ==
    /\ store = "tcaplus"
    /\ phase[c] = "app"
    /\ row # None => row.version < MaxVersion
    /\ seen' = [seen EXCEPT ![c] = row]
    /\ draft' = [draft EXCEPT ![c] = value[c]]
    /\ GoTo(c, "replace")
    /\ UNCHANGED <<store, row, lock, value, counted, updates, deletes, histVars>>

versionForSave(r) == IF r = None THEN 1 ELSE r.version

\* Mutant: Replace without CheckDataVersionAutoIncrease.
Sent_Unchecked(c) == [version |-> versionForSave(seen[c]), check |-> FALSE]

\* The options of Replace: the version just read, and CheckDataVersionAutoIncrease.
Sent(c) == [version |-> versionForSave(seen[c]), check |-> TRUE]

\* The server compares when it is asked to and there is a record.
Accepts(c) == Sent(c).check /\ row # None => row.version = Sent(c).version

Replace(c) ==
    /\ phase[c] = "replace"
    /\ Accepts(c)
    /\ \E v \in IF row = None THEN NewVersions ELSE {row.version + 1} :
          row' = [draft[c] EXCEPT !.version = v]
    /\ Return(c)
    /\ UNCHANGED <<store, lock, value, updates, deletes, overtaken>>

\* The version is wrong, or the request is lost.  (When only the answer is lost the record
\* is replaced, as by Replace: Save changes nothing in the value either way.)
ReplaceFails(c) ==
    /\ phase[c] = "replace"
    /\ Return(c)
    /\ UNCHANGED <<store, row, lock, value, updates, deletes, overtaken>>

---------------------------------------------------------------------------
Next == \E c \in Clients :
    \/ Edit(c) \/ Get(c) \/ Delete(c)
    \/ SaveReads(c) \/ Count(c) \/ Write(c) \/ SaveReturns(c) \/ SaveFails(c)
    \/ SingleGet(c) \/ Replace(c) \/ ReplaceFails(c)

Spec == Init /\ [][Next]_vars

---------------------------------------------------------------------------
(* What Save of the SQL drivers keeps under the default isolation.  Two     *)
(* things can go wrong for it, and they are the only ones: a commit over a *)
(* row that its Save has not read, and a Delete (a record that is created  *)
(* again starts with an old version).                                      *)

\* Until one of them has happened, a SQL Save never drops an update that somebody else has
\* saved: the record that replaces another includes what that one includes, also after saves
\* that failed half way or whose answer was lost.
NoLostUpdate ==
    [][store # "tcaplus" /\ deletes = 0 /\ ~overtaken' /\ row # None /\ row' # None =>
          row.has \subseteq row'.has]_row

\* Until then a value that has the version of the row has its content too, so that the
\* comparison of versions in Save is enough; also when Save failed and its commit went through.
VersionIdentifies ==
    store # "tcaplus" /\ deletes = 0 /\ ~overtaken /\ row # None =>
        \A c \in Clients :
            value[c].version = row.version => row.has \subseteq value[c].has

\* A SQL Save that returns without error has stored its record, whatever others do between the
\* statements of its transaction, but for one case: PostgreSQL's Updates finds no row when the
\* row was deleted after Count, and that is no error.
SavedIsStored ==
    [][\A c \in Clients : SaveReturns(c) => row' = draft[c] \/ c \in bereft]_vars

\* As long as nobody deletes the record, a Tcaplus Save that found a record replaces that
\* very record: what others write between the read and the write makes it fail.
ReplacesWhatItRead ==
    [][deletes = 0 => \A c \in Clients :
          Replace(c) /\ seen[c] # None => row \in {None, seen[c]}]_vars

---------------------------------------------------------------------------
(* What the code says of itself and does not keep.                         *)

\* Save refuses a value whose version is not the version of the row it replaces ("save
\* version mismatch"), so versions count the saves.  The row is read without a lock and
\* written without a condition: two transactions that read the same version both commit,
\* and the later one may even take the version back.
VersionsCountUp ==
    [][row # None /\ row' # None => row'.version = row.version + 1]_row

---------------------------------------------------------------------------
(* The inductive invariant behind the properties that hold.                *)

Saving == {"count", "write", "commit"}
PhasesOK ==
    \A c \in Clients : /\ phase[c] \in Saving => store # "tcaplus"
                       /\ phase[c] = "replace" => store = "tcaplus"

\* Nothing has happened that the versions cannot notice.
Undisturbed == deletes = 0 /\ ~overtaken

\* Save of a SQL driver writes the value with the next version, and the row it has read had
\* the version of the value.
DraftsOK ==
    \A c \in Clients :
        phase[c] \in Saving =>
            /\ draft[c] = [value[c] EXCEPT !.version = @ + 1]
            /\ seen[c] # None => /\ seen[c].version = value[c].version
                                 /\ Undisturbed => seen[c].has \subseteq value[c].has

\* A transaction that is about to commit has the lock of the row, or has missed a row that was
\* deleted after it had counted it.
LockOK ==
    /\ \A c \in Clients : phase[c] = "commit" => lock = c \/ c \in bereft
    /\ \A c \in Clients : lock = c => phase[c] = "commit"
    /\ \A c \in Clients : counted[c] => phase[c] = "write" \/ phase[c] = "commit"
    /\ \A c \in Clients : phase[c] = "write" /\ counted[c] => row # None \/ c \in bereft
    /\ bereft # {} => deletes > 0

\* No value is ahead of the row.
VersionsOK ==
    store # "tcaplus" /\ Undisturbed =>
        \A c \in Clients : IF row = None THEN value[c].version = 0
                                         ELSE value[c].version <= row.version

\* What a Tcaplus Save has read is the record, or older.
ReplaceOK ==
    deletes = 0 =>
        \A c \in Clients :
            phase[c] = "replace" /\ seen[c] # None =>
                row # None /\ (row = seen[c] \/ seen[c].version < row.version)

SaveInv ==
    /\ TypeOK
    /\ PhasesOK
    /\ DraftsOK
    /\ LockOK
    /\ VersionsOK
    /\ VersionIdentifies
    /\ ReplaceOK
==========================================================================
