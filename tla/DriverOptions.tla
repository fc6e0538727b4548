--------------------------- MODULE DriverOptions ---------------------------
(***************************************************************************)
(* What a TryInit is asked for: the options of orm/drivers/api.go, applied *)
(* in order to one DriverOptions, buildDriverOptions of lifecycle.go, and  *)
(* the configuration map of orm/conf.go.  Some options read what earlier   *)
(* ones have set, and some change registries of handlers that outlive the  *)
(* call.  The lifecycle itself is that of module DriverLifecycle, reduced  *)
(* to which driver is published.                                           *)
(***************************************************************************)
EXTENDS Naturals, FiniteSets

CONSTANTS
    Types,        \* the driver types that have generated tables
    Names,        \* the tables of the schema
    Confs,        \* the Conf values that WithConfig is given: their drivers
    Texts,        \* the strings of a configuration
    ConfigMaps,   \* the maps that WithConfigMap is given and that can be decoded
    Handlers,     \* table handlers
    Private,      \* registries that the application makes
    DefaultReg,   \* hook.DefaultRegistry()
    Nil,          \* no value
    MaxOptions,   \* bound: options of one TryInit
    MaxInits      \* bound: calls of TryInit

Registries == Private \cup {DefaultReg}
MySQL == "mysql"
Flags == {"skip", "prepare"}   \* SkipDefaultTransaction and PrepareStmt
Fields == Flags \cup {"addr", "zone"}
Values == [addr : Texts, zone : Texts, skip : BOOLEAN, prepare : BOOLEAN]

\* The driver types that TryInit knows, and the empty one: no type.
Supported == {"nop", "mysql", "pgsql", "tcaplus", "redis", "mongo"}
NoType == ""

\* The names that a configuration may hold; "other" stands for all that TryInit does not know.
DriverNames == Supported \cup {NoType, "other"}

\* A section sets some of the fields, and mapstructure refuses a value of another type.
SectionOK(s) ==
    \/ s = Nil
    \/ /\ DOMAIN s \subseteq Fields
       /\ \A f \in DOMAIN s : IF f \in Flags THEN s[f] \in BOOLEAN ELSE s[f] \in Texts

ASSUME OptionsAssumption ==
    /\ MySQL \in Types /\ Types \subseteq Supported
    /\ DefaultReg \notin Private /\ Nil \notin Registries
    /\ \A c \in Confs : c.driver \in DriverNames
    /\ \A m \in ConfigMaps :
          /\ m.driver \in DriverNames \cup {Nil}
          /\ SectionOK(m.db) /\ SectionOK(m.mysql) /\ SectionOK(m.pgsql)
    /\ {"", "default", "local"} \subseteq Texts
    /\ MaxOptions \in Nat /\ MaxInits \in Nat

VARIABLES
    regs,       \* regs[r]: the handlers of registry r (one that is registered twice runs twice)
    meant,      \* meant[h]: the registries that h was given to (history)
    o,          \* the DriverOptions of the TryInit in progress
    used,       \* the options it has applied so far (bound)
    step,       \* where it is
    inits,      \* the calls of TryInit so far (bound)
    published   \* what the published driver was made from

optVars == <<o, used>>
vars == <<regs, meant, optVars, step, inits, published>>

---------------------------------------------------------------------------
(* orm/conf.go.  A section of the map is the fields that it sets.          *)

DefaultSection == [addr |-> "default", zone |-> "local", skip |-> TRUE, prepare |-> TRUE]

\* mapstructure.Decode: the fields of the section replace those of the target.
Decode(section, target) ==
    [f \in Fields |-> IF f \in DOMAIN section THEN section[f] ELSE target[f]]

\* Both flags off cannot be told from flags that are not there.
applySQLConfDefaults(s) ==
    LET t == [s EXCEPT !.zone = IF @ = "" THEN DefaultSection.zone ELSE @]
    IN  IF t.skip \/ t.prepare
        THEN t
        ELSE [t EXCEPT !.skip = DefaultSection.skip, !.prepare = DefaultSection.prepare]

Overlay(section, target) ==
    IF section = Nil THEN target ELSE applySQLConfDefaults(Decode(section, target))

\* Mutant: the legacy section is read last.
DecodeMapToStruct_LegacyLast(m) ==
    [driver |-> IF m.db = Nil \/ m.driver = Nil THEN MySQL ELSE m.driver,
     mysql  |-> IF m.db = Nil THEN DefaultSection ELSE Overlay(m.db, Overlay(m.mysql, DefaultSection)),
     pgsql  |-> IF m.db = Nil THEN DefaultSection ELSE Overlay(m.pgsql, DefaultSection)]

\* [db] is the legacy place of the MySQL settings, [db.mysql] the one that goes before it.
DecodeMapToStruct(m) ==
    [driver |-> IF m.db = Nil \/ m.driver = Nil THEN MySQL ELSE m.driver,
     mysql  |-> IF m.db = Nil THEN DefaultSection ELSE Overlay(m.mysql, Overlay(m.db, DefaultSection)),
     pgsql  |-> IF m.db = Nil THEN DefaultSection ELSE Overlay(m.pgsql, DefaultSection)]

---------------------------------------------------------------------------
(* The generated metadata package.                                         *)

GetAllTables(t) == IF t \in Types THEN {[of |-> t, name |-> n] : n \in Names} ELSE {}

---------------------------------------------------------------------------
NoOptions ==
    [typ |-> NoType, conf |-> Nil, map |-> Nil, tables |-> {}, handlers |-> Nil, err |-> FALSE,
     given |-> {}, fits |-> TRUE]

\* Beyond the fields of DriverOptions: the map its Conf was read from, the handlers given
\* since the registry was chosen, and whether every table option saw the type (history).
OptionsType ==
    /\ DOMAIN o = DOMAIN NoOptions
    /\ o.typ \in DriverNames
    /\ o.conf \notin Confs \cup {Nil} => o.conf.mysql \in Values /\ o.conf.pgsql \in Values
    /\ o.tables \subseteq [of : Types, name : Names]
    /\ o.handlers \in Registries \cup {Nil}
    /\ o.given \subseteq Handlers
    /\ o.err \in BOOLEAN /\ o.fits \in BOOLEAN

TypeOK ==
    /\ regs \in [Registries -> SUBSET Handlers]
    /\ meant \in [Handlers -> SUBSET Registries]
    /\ OptionsType
    /\ used \in 0 .. MaxOptions
    /\ step \in {"idle", "options", "init"}
    /\ inits \in 0 .. MaxInits
    /\ published # Nil =>
          published.typ \in Supported /\ published.tables # {} /\ published.reg \in Registries

Init ==
    /\ regs = [r \in Registries |-> {}]
    /\ meant = [h \in Handlers |-> {}]
    /\ o = NoOptions
    /\ used = 0
    /\ step = "idle"
    /\ inits = 0
    /\ published = Nil

Begin ==
    /\ step = "idle" /\ inits < MaxInits
    /\ step' = "options"
    /\ inits' = inits + 1
    /\ o' = NoOptions /\ used' = 0
    /\ UNCHANGED <<regs, meant, published>>

Option(new) ==
    /\ step = "options" /\ used < MaxOptions
    /\ used' = used + 1
    /\ o' = new
    /\ UNCHANGED <<step, inits, published>>

Retyped(conf, typ, map) ==
    [o EXCEPT !.conf = conf, !.typ = typ, !.map = map,
              !.fits = @ /\ (o.tables = {} \/ typ = o.typ)]

WithConfig(conf) ==
    /\ Option(IF conf = Nil THEN [o EXCEPT !.err = TRUE] ELSE Retyped(conf, conf.driver, Nil))
    /\ UNCHANGED <<regs, meant>>

\* A map that cannot be decoded leaves the Conf of earlier options.
WithConfigMap(m) ==
    /\ Option(LET c == DecodeMapToStruct(m) IN Retyped(c, c.driver, m))
    /\ UNCHANGED <<regs, meant>>
WithConfigMapFails ==
    /\ Option([o EXCEPT !.err = TRUE])
    /\ UNCHANGED <<regs, meant>>

WithDriverType(t) ==
    /\ Option(Retyped(o.conf, t, o.map))
    /\ UNCHANGED <<regs, meant>>

\* Mutant: the tables of the first type that has any.
TablesType_Fixed == MySQL

TablesType == IF o.typ # NoType THEN o.typ ELSE MySQL

\* The type that is set says which driver the configuration means.
TypeShown == o.typ # NoType \/ o.conf = Nil \/ o.conf.driver \in {NoType, MySQL}

\* WithTablesByDriverType, and WithNodeTables with a part of the tables.
WithTablesByDriverType(names) ==
    /\ Option([o EXCEPT !.tables = @ \cup {t \in GetAllTables(TablesType) : t.name \in names},
                        !.fits = @ /\ TypeShown])
    /\ UNCHANGED <<regs, meant>>

\* WithTables: the application names the type itself.
WithTables(t) ==
    /\ Option([o EXCEPT !.tables = @ \cup GetAllTables(t), !.fits = @ /\ TypeShown /\ t = TablesType])
    /\ UNCHANGED <<regs, meant>>

\* By the name of the Go type, of whatever package.
ExcludeTables(names) ==
    /\ Option([o EXCEPT !.tables = {t \in @ : t.name \notin names}])
    /\ UNCHANGED <<regs, meant>>

WithHandlerRegistry(r) ==
    /\ Option([o EXCEPT !.handlers = r, !.given = {}])
    /\ UNCHANGED <<regs, meant>>

\* Mutant: always the registry of the process.
Chosen_Default == DefaultReg

Chosen == IF o.handlers = Nil THEN DefaultReg ELSE o.handlers

\* The handler is registered at once, whatever becomes of this TryInit.
WithHandlers(h) ==
    /\ Option([o EXCEPT !.handlers = Chosen, !.given = @ \cup {h}])
    /\ regs' = [regs EXCEPT ![Chosen] = @ \cup {h}]
    /\ meant' = [meant EXCEPT ![h] = @ \cup {IF o.handlers = Nil THEN DefaultReg ELSE o.handlers}]

\* RegisterHandlerFuncs, and Register of a registry, from any goroutine at any time, the
\* options of another TryInit included.
RegisterHandlerFuncs(r, h) ==
    /\ regs' = [regs EXCEPT ![r] = @ \cup {h}]
    /\ meant' = [meant EXCEPT ![h] = @ \cup {r}]
    /\ UNCHANGED <<optVars, step, inits, published>>

---------------------------------------------------------------------------
(* buildDriverOptions, and what TryInit does with the result.              *)

FinalType == IF o.typ # NoType THEN o.typ
             ELSE IF o.conf # Nil /\ o.conf.driver # NoType THEN o.conf.driver ELSE MySQL

\* Mutant: the tables are not looked at.
validateDriverOptions_NoTables == o.conf # Nil /\ FinalType \in Supported

validateDriverOptions == o.conf # Nil /\ o.tables # {} /\ FinalType \in Supported

Refuse ==
    /\ step = "options"
    /\ o.err \/ ~validateDriverOptions
    /\ step' = "idle"
    /\ UNCHANGED <<regs, meant, optVars, inits, published>>

\* The previous driver is detached and closed before the new one dials.
Accept ==
    /\ step = "options"
    /\ ~o.err /\ validateDriverOptions
    /\ step' = "init"
    /\ published' = Nil
    /\ UNCHANGED <<regs, meant, optVars, inits>>

InitFails ==
    /\ step = "init"
    /\ step' = "idle"
    /\ UNCHANGED <<regs, meant, optVars, inits, published>>

\* hook.Wrap: without handlers there is nothing to wrap.
InitSucceeds ==
    LET r == IF o.handlers = Nil THEN DefaultReg ELSE o.handlers
    IN  /\ step = "init"
        /\ step' = "idle"
        /\ published' = [typ |-> FinalType, tables |-> o.tables, reg |-> r,
                         hooked |-> regs[r] # {}, given |-> o.given, fits |-> o.fits]
        /\ UNCHANGED <<regs, meant, optVars, inits>>

Next ==
    \/ Begin \/ Refuse \/ Accept \/ InitFails \/ InitSucceeds \/ WithConfigMapFails
    \/ \E c \in Confs \cup {Nil} : WithConfig(c)
    \/ \E m \in ConfigMaps : WithConfigMap(m)
    \/ \E t \in Types \cup {NoType} : WithDriverType(t)
    \/ \E t \in Types : WithTables(t)
    \/ \E names \in SUBSET Names : WithTablesByDriverType(names) \/ ExcludeTables(names)
    \/ \E r \in Registries \cup {Nil} : WithHandlerRegistry(r)
    \/ \E h \in Handlers : WithHandlers(h) \/ \E r \in Registries : RegisterHandlerFuncs(r, h)

Spec == Init /\ [][Next]_vars

---------------------------------------------------------------------------
\* A driver gets tables that were generated for its type, as long as no option changed the
\* type after the tables were taken, the application named no other type itself, and
\* WithDriverType("") did not hide the driver of the configuration from the table options.
TablesFitType ==
    published # Nil /\ published.fits => \A t \in published.tables : t.of = published.typ

\* The handlers around a driver are the ones meant for it: every handler that its options
\* gave after the registry was chosen, and none that was only ever given to another registry,
\* whatever other calls of TryInit, failed ones included, have registered.
HandlersAsMeant ==
    published # Nil =>
        /\ published.given \subseteq regs[published.reg]
        /\ published.given # {} => published.hooked
        /\ \A h \in regs[published.reg] : published.reg \in meant[h]

Asked(m, f) ==
    IF m.mysql # Nil /\ f \in DOMAIN m.mysql THEN m.mysql[f]
    ELSE IF f \in DOMAIN m.db THEN m.db[f] ELSE DefaultSection[f]

\* What a map says of MySQL is what the driver gets: [db.mysql] goes before [db], and both
\* before the defaults; an empty string is the default one.  A flag that is on stays on, and
\* [db.mysql] can turn one of them off, though not both.
ExplicitWins ==
    o.map # Nil /\ o.map.db # Nil =>
        LET s == o.conf.mysql
            m == o.map
        IN  /\ s.addr = Asked(m, "addr")
            /\ s.zone # "" /\ (Asked(m, "zone") # "" => s.zone = Asked(m, "zone"))
            /\ \A f \in Flags : Asked(m, f) => s[f]
            /\ \A f, g \in Flags :
                  /\ f # g /\ Asked(m, g)
                  /\ m.mysql # Nil /\ f \in DOMAIN m.mysql /\ ~m.mysql[f]
                  => ~s[f]
===========================================================================
