----------------------- MODULE DriverOptionsProofs -----------------------
(***************************************************************************)
(* Proofs about DriverOptions, for any types, tables, configurations,      *)
(* handlers and registries, and options in any number and order.  First    *)
(* the layers of the configuration map, which need no state; then the      *)
(* invariant of the options, with one lemma for each of its parts.         *)
(***************************************************************************)
EXTENDS DriverOptions, TLAPS

---------------------------------------------------------------------------
(* The layers of the configuration map.                                    *)

\* DefaultConf is a whole section.
LEMMA DefaultIsWhole == DefaultSection \in Values
  BY OptionsAssumption DEF DefaultSection, Values

\* A section over a whole one is a whole one.
LEMMA DecodeWhole ==
    ASSUME NEW s, s # Nil, SectionOK(s), NEW t \in Values
    PROVE  /\ Decode(s, t) \in Values
           /\ \A f \in Fields : Decode(s, t)[f] = IF f \in DOMAIN s THEN s[f] ELSE t[f]
  BY DEF SectionOK, Decode, Values, Fields, Flags

\* applySQLConfDefaults touches the zone when it is empty and the flags when both are off.
LEMMA DefaultsApplied ==
    ASSUME NEW s \in Values
    PROVE  LET d == applySQLConfDefaults(s)
           IN  /\ d \in Values
               /\ d.addr = s.addr
               /\ d.zone = IF s.zone = "" THEN "local" ELSE s.zone
               /\ d.skip = (s.skip \/ ~s.prepare)
               /\ d.prepare = (s.prepare \/ ~s.skip)
<1> DEFINE t == [s EXCEPT !.zone = IF @ = "" THEN DefaultSection.zone ELSE @]
           d == applySQLConfDefaults(s)
<1>1. /\ DefaultSection \in Values /\ DefaultSection.zone = "local"
      /\ DefaultSection.skip = TRUE /\ DefaultSection.prepare = TRUE
  BY DefaultIsWhole DEF DefaultSection
<1>2. /\ t \in Values /\ t.addr = s.addr /\ t.skip = s.skip /\ t.prepare = s.prepare
      /\ t.zone = IF s.zone = "" THEN "local" ELSE s.zone
  BY <1>1 DEF Values
<1>3. d = IF t.skip \/ t.prepare THEN t
          ELSE [t EXCEPT !.skip = DefaultSection.skip, !.prepare = DefaultSection.prepare]
  BY DEF applySQLConfDefaults
<1> HIDE DEF t, d
<1>4. CASE t.skip \/ t.prepare
  <2>1. d = t
    BY <1>3, <1>4
  <2>2. d.skip = (s.skip \/ ~s.prepare) /\ d.prepare = (s.prepare \/ ~s.skip)
    BY <1>2, <1>4, <2>1 DEF Values
  <2> QED BY <1>2, <2>1, <2>2 DEF d
<1>5. CASE ~(t.skip \/ t.prepare)
  <2>1. d = [t EXCEPT !.skip = TRUE, !.prepare = TRUE]
    BY <1>1, <1>3, <1>5
  <2>2. d \in Values /\ d.addr = t.addr /\ d.zone = t.zone /\ d.skip = TRUE /\ d.prepare = TRUE
    BY <1>2, <2>1 DEF Values
  <2>3. s.skip = FALSE /\ s.prepare = FALSE
    BY <1>2, <1>5 DEF Values
  <2>4. d.skip = (s.skip \/ ~s.prepare) /\ d.prepare = (s.prepare \/ ~s.skip)
    BY <2>2, <2>3
  <2> QED BY <1>2, <2>2, <2>4 DEF d
<1> QED BY <1>4, <1>5

\* Every layer leaves a whole section.
LEMMA OverlayWhole ==
    ASSUME NEW s, SectionOK(s), NEW t \in Values
    PROVE  Overlay(s, t) \in Values
  BY DecodeWhole, DefaultsApplied DEF Overlay

\* What is read from a map is a whole configuration.
LEMMA DecodedWhole ==
    ASSUME NEW m \in ConfigMaps
    PROVE  LET c == DecodeMapToStruct(m)
           IN  c.driver \in DriverNames /\ c.mysql \in Values /\ c.pgsql \in Values
<1>1. /\ SectionOK(m.db) /\ SectionOK(m.mysql) /\ SectionOK(m.pgsql)
      /\ m.driver \in DriverNames \cup {Nil}
  BY OptionsAssumption
<1>2. /\ Overlay(m.mysql, Overlay(m.db, DefaultSection)) \in Values
      /\ Overlay(m.pgsql, DefaultSection) \in Values
  BY <1>1, DefaultIsWhole, OverlayWhole
<1>3. MySQL \in DriverNames
  BY DEF DriverNames, Supported, MySQL
<1> QED BY <1>1, <1>2, <1>3, DefaultIsWhole DEF DecodeMapToStruct

\* One layer d of the section s over t, e being s over t before the defaults: the address and an
\* explicit zone go through, an empty zone becomes the default one, and the flags become both
\* on when both would be off.
Layer(s, t, e, d) ==
    /\ d = Overlay(s, t)
    /\ \A f \in Fields : e[f] = IF f \in DOMAIN s THEN s[f] ELSE t[f]
    /\ d.addr = e.addr
    /\ d.zone = IF e.zone = "" THEN "local" ELSE e.zone
    /\ d.skip = (e.skip \/ ~e.prepare)
    /\ d.prepare = (e.prepare \/ ~e.skip)

\* Decode and applySQLConfDefaults make such a layer.
LEMMA OverlayLayer ==
    ASSUME NEW s, s # Nil, SectionOK(s), NEW t \in Values
    PROVE  \E e \in Values, d \in Values : Layer(s, t, e, d)
<1>1. /\ Decode(s, t) \in Values
      /\ \A f \in Fields : Decode(s, t)[f] = IF f \in DOMAIN s THEN s[f] ELSE t[f]
  BY DecodeWhole
<1>2. Overlay(s, t) = applySQLConfDefaults(Decode(s, t))
  BY DEF Overlay
<1>3. PICK e \in Values : e = Decode(s, t)
  BY <1>1
<1>4. PICK d : d = Overlay(s, t)
  OBVIOUS
<1>5. d = applySQLConfDefaults(e)
  BY <1>2, <1>3, <1>4
<1>6. /\ d \in Values
      /\ d.addr = e.addr
      /\ d.zone = IF e.zone = "" THEN "local" ELSE e.zone
      /\ d.skip = (e.skip \/ ~e.prepare)
      /\ d.prepare = (e.prepare \/ ~e.skip)
  BY <1>5, DefaultsApplied
<1>7. Layer(s, t, e, d)
  BY <1>1, <1>3, <1>4, <1>6 DEF Layer
<1> QED BY <1>3, <1>6, <1>7

\* What a map says of MySQL, [db.mysql] before [db] before the defaults, is what is decoded.
LEMMA MapWins ==
    ASSUME NEW m \in ConfigMaps, m.db # Nil
    PROVE  LET s == DecodeMapToStruct(m).mysql
           IN  /\ s.addr = Asked(m, "addr")
               /\ s.zone # "" /\ (Asked(m, "zone") # "" => s.zone = Asked(m, "zone"))
               /\ \A f \in Flags : Asked(m, f) => s[f]
               /\ \A f, g \in Flags :
                     /\ f # g /\ Asked(m, g)
                     /\ m.mysql # Nil /\ f \in DOMAIN m.mysql /\ ~m.mysql[f]
                     => ~s[f]
<1>0. SectionOK(m.db) /\ SectionOK(m.mysql)
  BY OptionsAssumption
<1>1. PICK db, my : db = m.db /\ my = m.mysql
  OBVIOUS
<1>2. db # Nil /\ SectionOK(db) /\ SectionOK(my)
  BY <1>0, <1>1
<1>d. PICK e \in Values, d \in Values : Layer(db, DefaultSection, e, d)
  BY <1>2, DefaultIsWhole, OverlayLayer, Zenon
<1>s. PICK s : s = Overlay(my, d) /\ s = DecodeMapToStruct(m).mysql
  BY <1>1, <1>2, <1>d DEF DecodeMapToStruct, Layer
<1>3. CASE my = Nil
  <2>1. s = d
    BY <1>3, <1>s DEF Overlay
  <2>2. \A f \in Fields : Asked(m, f) = e[f]
    BY <1>1, <1>d, <1>3 DEF Asked, Layer
  <2>3. /\ s.addr = Asked(m, "addr")
        /\ s.zone # "" /\ (Asked(m, "zone") # "" => s.zone = Asked(m, "zone"))
    BY <1>d, <2>1, <2>2 DEF Layer, Fields, Values
  <2>4. \A f \in Flags : Asked(m, f) => s[f]
    BY <1>d, <2>1, <2>2 DEF Layer, Fields, Flags, Values
  <2> QED BY <1>1, <1>s, <1>3, <2>3, <2>4
<1>4. CASE my # Nil
  <2>1. PICK x \in Values, w \in Values : Layer(my, d, x, w)
    BY <1>2, <1>4, OverlayLayer, Zenon
  <2>w. w = s
    BY <2>1, <1>s DEF Layer
  <2>2. \A f \in Fields : Asked(m, f) = IF f \in DOMAIN my THEN x[f] ELSE e[f]
    BY <1>1, <1>d, <1>4, <2>1 DEF Asked, Layer
  <2>3. \A f \in Fields : f \notin DOMAIN my => x[f] = d[f]
    BY <2>1 DEF Layer
  <2>4. /\ s.addr = Asked(m, "addr")
        /\ s.zone # "" /\ (Asked(m, "zone") # "" => s.zone = Asked(m, "zone"))
    <3>1. /\ s.addr = x.addr /\ d.addr = e.addr
          /\ s.zone = IF x.zone = "" THEN "local" ELSE x.zone
          /\ d.zone = IF e.zone = "" THEN "local" ELSE e.zone
      BY <1>d, <2>1, <2>w DEF Layer
    <3>2. /\ Asked(m, "addr") = IF "addr" \in DOMAIN my THEN x.addr ELSE e.addr
          /\ Asked(m, "zone") = IF "zone" \in DOMAIN my THEN x.zone ELSE e.zone
      BY <2>2 DEF Fields
    <3>3. /\ "addr" \notin DOMAIN my => x.addr = d.addr
          /\ "zone" \notin DOMAIN my => x.zone = d.zone
      BY <2>3 DEF Fields
    <3> QED BY <3>1, <3>2, <3>3
  <2>5. \A f \in Flags : Asked(m, f) => x[f]
    BY <1>d, <2>1, <2>2, <2>3 DEF Layer, Fields, Flags, Values
  <2>6. \A f \in Flags : x[f] => s[f]
    BY <2>1, <2>w DEF Layer, Flags, Values
  <2>7. \A f, g \in Flags : f # g /\ x[g] /\ ~x[f] => ~s[f]
    BY <2>1, <2>w DEF Layer, Flags, Values
  <2>8. \A f \in Flags : f \in DOMAIN my => x[f] = my[f]
    BY <2>1 DEF Layer, Fields
  <2> QED BY <1>1, <1>s, <2>4, <2>5, <2>6, <2>7, <2>8
<1> QED BY <1>3, <1>4

---------------------------------------------------------------------------
(* The invariant of the options of one TryInit.                            *)

\* The Conf that came from a map is what that map decodes to.
MapOK == o.map # Nil => o.map \in ConfigMaps /\ o.conf = DecodeMapToStruct(o.map)

\* The tables taken so far are of the type that is in force, and it shows.
TablesOK == o.fits /\ o.tables # {} => TypeShown /\ \A t \in o.tables : t.of = TablesType

\* The handlers given so far are in the registry in force, and no registry has others than
\* those meant for it.
GivenOK == o.given \subseteq regs[Chosen]
RegsOK  == \A r \in Registries : \A h \in regs[r] : r \in meant[h]

\* InitDB runs with options that were validated.
ValidOK == step = "init" => validateDriverOptions

\* The inductive invariant.
OptionsInv ==
    /\ TypeOK
    /\ MapOK
    /\ TablesOK
    /\ GivenOK
    /\ RegsOK
    /\ ValidOK
    /\ TablesFitType
    /\ HandlersAsMeant

\* The fields of a DriverOptions whose type was set again.
LEMMA RetypedFields ==
    ASSUME OptionsType, NEW c, NEW t, NEW m
    PROVE  LET n == Retyped(c, t, m)
           IN  /\ DOMAIN n = DOMAIN NoOptions
               /\ n.conf = c /\ n.typ = t /\ n.map = m
               /\ n.tables = o.tables /\ n.handlers = o.handlers /\ n.err = o.err
               /\ n.given = o.given /\ n.fits \in BOOLEAN
               /\ n.fits <=> o.fits /\ (o.tables = {} \/ t = o.typ)
  BY DEF OptionsType, NoOptions, Retyped

\* The tables that the generated metadata has are of the schema.
LEMMA TablesTyped ==
    ASSUME NEW t
    PROVE  /\ GetAllTables(t) \subseteq [of : Types, name : Names]
           /\ \A e \in GetAllTables(t) : e.of = t
  BY DEF GetAllTables

\* The type that is validated is the one that the tables were taken for.
LEMMA ShownType ==
    ASSUME TypeShown
    PROVE  FinalType = TablesType
  BY DEF TypeShown, FinalType, TablesType, NoType, MySQL

\* The options keep their types.
LEMMA OptionsTypeStep ==
    ASSUME OptionsType, Next
    PROVE  OptionsType'
<1> DEFINE Typed(n) ==
             /\ DOMAIN n = DOMAIN NoOptions
             /\ n.typ \in DriverNames
             /\ n.conf \notin Confs \cup {Nil} => n.conf.mysql \in Values /\ n.conf.pgsql \in Values
             /\ n.tables \subseteq [of : Types, name : Names]
             /\ n.handlers \in Registries \cup {Nil}
             /\ n.given \subseteq Handlers
             /\ n.err \in BOOLEAN /\ n.fits \in BOOLEAN
<1>0. Typed(o) /\ (OptionsType' <=> Typed(o'))
  BY DEF OptionsType
<1>1. ASSUME NEW c, NEW t \in DriverNames, NEW m,
             c \notin Confs \cup {Nil} => c.mysql \in Values /\ c.pgsql \in Values
      PROVE  Typed(Retyped(c, t, m))
  <2>1. PICK n : n = Retyped(c, t, m)
    OBVIOUS
  <2>2. /\ DOMAIN n = DOMAIN NoOptions
        /\ n.conf = c /\ n.typ = t /\ n.map = m
        /\ n.tables = o.tables /\ n.handlers = o.handlers /\ n.err = o.err
        /\ n.given = o.given /\ n.fits \in BOOLEAN
    BY <2>1, RetypedFields
  <2>3. Typed(n)
    BY <1>0, <1>1, <2>2
  <2> QED BY <2>1, <2>3
<1>2. Typed(NoOptions)
  BY DEF NoOptions, DriverNames
<1>3. CASE Begin
  BY <1>0, <1>2, <1>3 DEF Begin
<1>4. CASE Refuse \/ Accept \/ InitFails \/ InitSucceeds
  BY <1>0, <1>4 DEF Refuse, Accept, InitFails, InitSucceeds, optVars
<1>5. CASE WithConfigMapFails
  BY <1>0, <1>5 DEF WithConfigMapFails, Option, NoOptions
<1>6. ASSUME NEW c \in Confs \cup {Nil}, WithConfig(c) PROVE OptionsType'
  <2>1. CASE c = Nil
    BY <1>0, <1>6, <2>1 DEF WithConfig, Option, NoOptions
  <2>2. CASE c # Nil
    <3>1. c.driver \in DriverNames
      BY <2>2, OptionsAssumption
    <3>2. o' = Retyped(c, c.driver, Nil)
      BY <1>6, <2>2 DEF WithConfig, Option
    <3> QED BY <1>0, <1>1, <3>1, <3>2
  <2> QED BY <2>1, <2>2
<1>7. ASSUME NEW m \in ConfigMaps, WithConfigMap(m) PROVE OptionsType'
  <2>1. PICK c : c = DecodeMapToStruct(m)
    OBVIOUS
  <2>2. c.driver \in DriverNames /\ c.mysql \in Values /\ c.pgsql \in Values
    BY <2>1, DecodedWhole
  <2>3. o' = Retyped(c, c.driver, m)
    BY <1>7, <2>1 DEF WithConfigMap, Option
  <2> QED BY <1>0, <1>1, <2>2, <2>3
<1>8. ASSUME NEW t \in Types \cup {NoType}, WithDriverType(t) PROVE OptionsType'
  <2>1. t \in DriverNames
    BY OptionsAssumption DEF DriverNames
  <2>2. o' = Retyped(o.conf, t, o.map)
    BY <1>8 DEF WithDriverType, Option
  <2> QED BY <1>0, <1>1, <2>1, <2>2
<1>9. ASSUME NEW t \in Types, WithTables(t) PROVE OptionsType'
  BY <1>0, <1>9, TablesTyped DEF WithTables, Option, NoOptions
<1>10. ASSUME NEW names \in SUBSET Names, WithTablesByDriverType(names) PROVE OptionsType'
  BY <1>0, <1>10, TablesTyped DEF WithTablesByDriverType, Option, NoOptions
<1>11. ASSUME NEW names \in SUBSET Names, ExcludeTables(names) PROVE OptionsType'
  BY <1>0, <1>11 DEF ExcludeTables, Option, NoOptions
<1>12. ASSUME NEW r \in Registries \cup {Nil}, WithHandlerRegistry(r) PROVE OptionsType'
  BY <1>0, <1>12 DEF WithHandlerRegistry, Option, NoOptions
<1>13. ASSUME NEW h \in Handlers, WithHandlers(h) PROVE OptionsType'
  <2>1. Chosen \in Registries
    BY <1>0 DEF Chosen, Registries
  <2> QED BY <1>0, <1>13, <2>1 DEF WithHandlers, Option, NoOptions
<1>14. ASSUME NEW h \in Handlers, NEW r \in Registries, RegisterHandlerFuncs(r, h)
       PROVE  OptionsType'
  BY <1>0, <1>14 DEF RegisterHandlerFuncs, optVars
<1> QED
  BY <1>3, <1>4, <1>5, <1>6, <1>7, <1>8, <1>9, <1>10, <1>11, <1>12, <1>13, <1>14 DEF Next

\* What each step leaves of the options but the one field it is about.
LEMMA OptionsKept ==
    ASSUME OptionsType, Next
    PROVE  /\ \/ o'.map = o.map /\ o'.conf = o.conf
              \/ o'.map = Nil
              \/ o'.map \in ConfigMaps /\ o'.conf = DecodeMapToStruct(o'.map)
           /\ \/ o'.handlers = o.handlers /\ o'.given = o.given
              \/ o'.given = {}
              \/ \E h \in Handlers : WithHandlers(h)
<1> USE DEF OptionsType, NoOptions
<1>1. CASE Begin
  BY <1>1 DEF Begin
<1>2. CASE Refuse \/ Accept \/ InitFails \/ InitSucceeds
  BY <1>2 DEF Refuse, Accept, InitFails, InitSucceeds, optVars
<1>3. CASE WithConfigMapFails
  BY <1>3 DEF WithConfigMapFails, Option
<1>4. ASSUME NEW c \in Confs \cup {Nil}, WithConfig(c)
      PROVE  /\ o'.map = Nil \/ (o'.map = o.map /\ o'.conf = o.conf)
             /\ o'.handlers = o.handlers /\ o'.given = o.given
  BY <1>4 DEF WithConfig, Option, Retyped
<1>5. ASSUME NEW m \in ConfigMaps, WithConfigMap(m)
      PROVE  /\ o'.map \in ConfigMaps /\ o'.conf = DecodeMapToStruct(o'.map)
             /\ o'.handlers = o.handlers /\ o'.given = o.given
  <2>1. PICK c : c = DecodeMapToStruct(m)
    OBVIOUS
  <2> QED BY <1>5, <2>1 DEF WithConfigMap, Option, Retyped
<1>6. ASSUME NEW t \in Types \cup {NoType}, WithDriverType(t)
      PROVE  /\ o'.map = o.map /\ o'.conf = o.conf
             /\ o'.handlers = o.handlers /\ o'.given = o.given
  BY <1>6 DEF WithDriverType, Option, Retyped
<1>7. ASSUME NEW t \in Types, WithTables(t)
      PROVE  /\ o'.map = o.map /\ o'.conf = o.conf
             /\ o'.handlers = o.handlers /\ o'.given = o.given
  BY <1>7 DEF WithTables, Option
<1>8. ASSUME NEW names \in SUBSET Names, WithTablesByDriverType(names) \/ ExcludeTables(names)
      PROVE  /\ o'.map = o.map /\ o'.conf = o.conf
             /\ o'.handlers = o.handlers /\ o'.given = o.given
  BY <1>8 DEF WithTablesByDriverType, ExcludeTables, Option
<1>9. ASSUME NEW r \in Registries \cup {Nil}, WithHandlerRegistry(r)
      PROVE  /\ o'.map = o.map /\ o'.conf = o.conf
             /\ o'.given = {}
  BY <1>9 DEF WithHandlerRegistry, Option
<1>10. ASSUME NEW h \in Handlers, WithHandlers(h)
       PROVE  o'.map = o.map /\ o'.conf = o.conf
  BY <1>10 DEF WithHandlers, Option
<1>11. ASSUME NEW h \in Handlers, NEW r \in Registries, RegisterHandlerFuncs(r, h)
       PROVE  o' = o
  BY <1>11 DEF RegisterHandlerFuncs, optVars
<1> QED
  BY <1>1, <1>2, <1>3, <1>4, <1>5, <1>6, <1>7, <1>8, <1>9, <1>10, <1>11, Zenon DEF Next

\* The Conf stays what its map decodes to: every option that sets one sets both, and
\* WithDriverType neither.
LEMMA MapStep ==
    ASSUME OptionsType, MapOK, Next
    PROVE  MapOK'
  BY OptionsKept DEF MapOK

\* The tables stay of the type in force while fits says so.
LEMMA TablesStep ==
    ASSUME OptionsType, TablesOK, Next
    PROVE  TablesOK'
<1> DEFINE Fits(n) ==
             LET typ == IF n.typ # NoType THEN n.typ ELSE MySQL
             IN  n.fits /\ n.tables # {} =>
                   /\ n.typ # NoType \/ n.conf = Nil \/ n.conf.driver \in {NoType, MySQL}
                   /\ \A t \in n.tables : t.of = typ
<1>0. Fits(o) /\ (TablesOK' <=> Fits(o'))
  BY DEF TablesOK, TypeShown, TablesType
<1>1. ASSUME NEW c, NEW t, NEW m, t = c.driver \/ c = o.conf
      PROVE  Fits(Retyped(c, t, m))
  <2>1. PICK n : n = Retyped(c, t, m)
    OBVIOUS
  <2>2. /\ n.conf = c /\ n.typ = t /\ n.tables = o.tables
        /\ n.fits => o.fits /\ (o.tables = {} \/ t = o.typ)
    BY <2>1, RetypedFields
  <2>3. Fits(n)
    BY <1>0, <1>1, <2>2
  <2> QED BY <2>1, <2>3
<1>2. CASE Begin
  BY <1>0, <1>2 DEF Begin, NoOptions
<1>3. CASE Refuse \/ Accept \/ InitFails \/ InitSucceeds
  BY <1>0, <1>3 DEF Refuse, Accept, InitFails, InitSucceeds, optVars
<1>4. CASE WithConfigMapFails
  BY <1>0, <1>4 DEF WithConfigMapFails, Option, OptionsType, NoOptions
<1>5. ASSUME NEW c \in Confs \cup {Nil}, WithConfig(c) PROVE TablesOK'
  <2>1. CASE c = Nil
    BY <1>0, <1>5, <2>1 DEF WithConfig, Option, OptionsType, NoOptions
  <2>2. CASE c # Nil
    <3>1. o' = Retyped(c, c.driver, Nil)
      BY <1>5, <2>2 DEF WithConfig, Option
    <3> QED BY <1>0, <1>1, <3>1
  <2> QED BY <2>1, <2>2
<1>6. ASSUME NEW m \in ConfigMaps, WithConfigMap(m) PROVE TablesOK'
  <2>1. PICK c : c = DecodeMapToStruct(m)
    OBVIOUS
  <2>2. o' = Retyped(c, c.driver, m)
    BY <1>6, <2>1 DEF WithConfigMap, Option
  <2> QED BY <1>0, <1>1, <2>2
<1>7. ASSUME NEW t \in Types \cup {NoType}, WithDriverType(t) PROVE TablesOK'
  <2>1. o' = Retyped(o.conf, t, o.map)
    BY <1>7 DEF WithDriverType, Option
  <2> QED BY <1>0, <1>1, <2>1
<1>8. ASSUME NEW t \in Types, WithTables(t) PROVE TablesOK'
  <2>1. /\ o'.tables = o.tables \cup GetAllTables(t)
        /\ o'.conf = o.conf /\ o'.typ = o.typ
        /\ o'.fits => o.fits /\ TypeShown /\ t = TablesType
    BY <1>8 DEF WithTables, Option, OptionsType, NoOptions
  <2> QED BY <1>0, <2>1, TablesTyped DEF TypeShown, TablesType
<1>9. ASSUME NEW names \in SUBSET Names, WithTablesByDriverType(names) PROVE TablesOK'
  <2>1. /\ o'.tables = o.tables \cup {t \in GetAllTables(TablesType) : t.name \in names}
        /\ o'.conf = o.conf /\ o'.typ = o.typ
        /\ o'.fits => o.fits /\ TypeShown
    BY <1>9 DEF WithTablesByDriverType, Option, OptionsType, NoOptions
  <2> QED BY <1>0, <2>1, TablesTyped DEF TypeShown, TablesType
<1>10. ASSUME NEW names \in SUBSET Names, ExcludeTables(names) PROVE TablesOK'
  <2>1. /\ o'.tables \subseteq o.tables
        /\ o'.conf = o.conf /\ o'.typ = o.typ /\ o'.fits = o.fits
    BY <1>10 DEF ExcludeTables, Option, OptionsType, NoOptions
  <2> QED BY <1>0, <2>1
<1>11. ASSUME NEW r \in Registries \cup {Nil}, WithHandlerRegistry(r) PROVE TablesOK'
  BY <1>0, <1>11 DEF WithHandlerRegistry, Option, OptionsType, NoOptions
<1>12. ASSUME NEW h \in Handlers, WithHandlers(h) PROVE TablesOK'
  BY <1>0, <1>12 DEF WithHandlers, Option, OptionsType, NoOptions
<1>13. ASSUME NEW h \in Handlers, NEW r \in Registries, RegisterHandlerFuncs(r, h) PROVE TablesOK'
  BY <1>0, <1>13 DEF RegisterHandlerFuncs, optVars
<1> QED
  BY <1>2, <1>3, <1>4, <1>5, <1>6, <1>7, <1>8, <1>9, <1>10, <1>11, <1>12, <1>13 DEF Next

\* A registration puts one handler into one registry and records that it was meant for it.
Registers(r, h) ==
    /\ regs' = [regs EXCEPT ![r] = @ \cup {h}]
    /\ meant' = [meant EXCEPT ![h] = @ \cup {r}]

\* The options of handlers and RegisterHandlerFuncs alone touch the registries.
LEMMA RegistrySteps ==
    ASSUME OptionsType, Next
    PROVE  \/ UNCHANGED <<regs, meant>>
           \/ \E h \in Handlers, r \in Registries : Registers(r, h)
<1>1. Chosen \in Registries /\ Chosen = IF o.handlers = Nil THEN DefaultReg ELSE o.handlers
  BY DEF OptionsType, Chosen, Registries
<1>2. ASSUME NEW h \in Handlers, WithHandlers(h) PROVE Registers(Chosen, h)
  BY <1>2, <1>1 DEF WithHandlers, Registers
<1>3. ASSUME NEW h \in Handlers, NEW r \in Registries, RegisterHandlerFuncs(r, h)
      PROVE  Registers(r, h)
  BY <1>3 DEF RegisterHandlerFuncs, Registers
<1>4. CASE Begin \/ Refuse \/ Accept \/ InitFails \/ InitSucceeds \/ WithConfigMapFails
  BY <1>4 DEF Begin, Refuse, Accept, InitFails, InitSucceeds, WithConfigMapFails
<1>5. CASE \/ \E c \in Confs \cup {Nil} : WithConfig(c)
           \/ \E m \in ConfigMaps : WithConfigMap(m)
           \/ \E t \in Types \cup {NoType} : WithDriverType(t)
           \/ \E t \in Types : WithTables(t)
           \/ \E names \in SUBSET Names : WithTablesByDriverType(names) \/ ExcludeTables(names)
           \/ \E r \in Registries \cup {Nil} : WithHandlerRegistry(r)
  BY <1>5 DEF WithConfig, WithConfigMap, WithDriverType, WithTables, WithTablesByDriverType,
    ExcludeTables, WithHandlerRegistry
<1> QED BY <1>1, <1>2, <1>3, <1>4, <1>5 DEF Next

\* Registries only grow, and hold what was meant for them.
LEMMA RegistriesStep ==
    ASSUME TypeOK, RegsOK, Next
    PROVE  /\ regs' \in [Registries -> SUBSET Handlers]
           /\ meant' \in [Handlers -> SUBSET Registries]
           /\ \A r \in Registries : regs[r] \subseteq regs'[r]
           /\ RegsOK'
<1>1. CASE UNCHANGED <<regs, meant>>
  BY <1>1 DEF TypeOK, RegsOK
<1>2. ASSUME NEW h \in Handlers, NEW r \in Registries, Registers(r, h)
      PROVE  /\ regs' \in [Registries -> SUBSET Handlers]
             /\ meant' \in [Handlers -> SUBSET Registries]
             /\ \A q \in Registries : regs[q] \subseteq regs'[q]
             /\ RegsOK'
  <2>1. /\ regs' \in [Registries -> SUBSET Handlers]
        /\ meant' \in [Handlers -> SUBSET Registries]
    BY <1>2 DEF TypeOK, Registers
  <2>2. \A q \in Registries : regs'[q] = IF q = r THEN regs[q] \cup {h} ELSE regs[q]
    BY <1>2 DEF TypeOK, Registers
  <2>3. \A k \in Handlers : meant'[k] = IF k = h THEN meant[k] \cup {r} ELSE meant[k]
    BY <1>2 DEF TypeOK, Registers
  <2>4. ASSUME NEW q \in Registries, NEW k \in regs'[q] PROVE q \in meant'[k]
    <3>1. k \in Handlers
      BY <2>1
    <3> QED BY <2>2, <2>3, <3>1 DEF RegsOK
  <2> QED BY <2>1, <2>2, <2>4 DEF RegsOK
<1>3. OptionsType
  BY DEF TypeOK
<1> QED BY <1>1, <1>2, <1>3, RegistrySteps

\* What WithHandlers was given stays in the registry that is chosen: choosing another one
\* forgets it, and without a choice it is the registry of the process, as in InitDB.
LEMMA GivenStep ==
    ASSUME TypeOK, RegsOK, GivenOK, Next
    PROVE  GivenOK'
<1>0. OptionsType /\ OptionsType' /\ Chosen \in Registries
  BY OptionsTypeStep DEF TypeOK, OptionsType, Chosen, Registries
<1>1. \A r \in Registries : regs[r] \subseteq regs'[r]
  BY RegistriesStep
<1>2. CASE o'.handlers = o.handlers /\ o'.given = o.given
  BY <1>0, <1>1, <1>2 DEF GivenOK, Chosen
<1>3. CASE o'.given = {}
  BY <1>3 DEF GivenOK
<1>4. ASSUME NEW h \in Handlers, WithHandlers(h) PROVE GivenOK'
  <2>1. o'.handlers = Chosen /\ o'.given = o.given \cup {h}
    BY <1>0, <1>4 DEF WithHandlers, Option, OptionsType, NoOptions
  <2>2. regs'[Chosen] = regs[Chosen] \cup {h}
    BY <1>0, <1>4 DEF WithHandlers, TypeOK
  <2>3. Chosen' = Chosen
    BY <1>0, <2>1, OptionsAssumption DEF Chosen
  <2> QED BY <2>1, <2>2, <2>3 DEF GivenOK
<1> QED BY <1>0, <1>2, <1>3, <1>4, OptionsKept

\* What a step does to the published driver and to the place in TryInit.
LEMMA PlaceSteps ==
    ASSUME OptionsType, Next
    PROVE  \/ InitSucceeds
           \/ Accept
           \/ published' = published /\ (step' = "init" => step = "init" /\ o' = o)
<1>1. CASE Begin \/ Refuse \/ InitFails
  BY <1>1 DEF Begin, Refuse, InitFails
<1>2. CASE WithConfigMapFails
  BY <1>2 DEF WithConfigMapFails, Option
<1>3. ASSUME NEW n, Option(n) PROVE published' = published /\ step' # "init"
  BY <1>3 DEF Option
<1>4. CASE \/ \E c \in Confs \cup {Nil} : WithConfig(c)
           \/ \E m \in ConfigMaps : WithConfigMap(m)
           \/ \E t \in Types \cup {NoType} : WithDriverType(t)
           \/ \E t \in Types : WithTables(t)
           \/ \E names \in SUBSET Names : WithTablesByDriverType(names) \/ ExcludeTables(names)
           \/ \E r \in Registries \cup {Nil} : WithHandlerRegistry(r)
           \/ \E h \in Handlers : WithHandlers(h)
  <2>1. \E n : Option(n)
    BY <1>4, Zenon DEF WithConfig, WithConfigMap, WithDriverType, WithTables,
      WithTablesByDriverType, ExcludeTables, WithHandlerRegistry, WithHandlers
  <2> QED BY <1>3, <2>1
<1>5. ASSUME NEW h \in Handlers, NEW r \in Registries, RegisterHandlerFuncs(r, h)
      PROVE  published' = published /\ (step' = "init" => step = "init" /\ o' = o)
  BY <1>5 DEF RegisterHandlerFuncs, optVars
<1> QED BY <1>1, <1>2, <1>4, <1>5, Zenon DEF Next

\* The bounds are numbers.
LEMMA Bounds == MaxOptions \in Nat /\ MaxInits \in Nat
  BY OptionsAssumption

\* The counters and the place keep their types.
LEMMA PlaceTypes ==
    ASSUME TypeOK, Next
    PROVE  /\ used' \in 0 .. MaxOptions /\ inits' \in 0 .. MaxInits
           /\ step' \in {"idle", "options", "init"}
<1>0. used \in 0 .. MaxOptions /\ inits \in 0 .. MaxInits /\ step \in {"idle", "options", "init"}
  BY DEF TypeOK
<1>1. CASE Begin \/ Refuse \/ Accept \/ InitFails \/ InitSucceeds
  BY <1>0, <1>1, Bounds DEF Begin, Refuse, Accept, InitFails, InitSucceeds, optVars
<1>2. ASSUME NEW n, Option(n)
      PROVE  /\ used' \in 0 .. MaxOptions /\ inits' \in 0 .. MaxInits
             /\ step' \in {"idle", "options", "init"}
  BY <1>0, <1>2, Bounds DEF Option
<1>3. CASE \/ WithConfigMapFails
           \/ \E c \in Confs \cup {Nil} : WithConfig(c)
           \/ \E m \in ConfigMaps : WithConfigMap(m)
           \/ \E t \in Types \cup {NoType} : WithDriverType(t)
           \/ \E t \in Types : WithTables(t)
           \/ \E names \in SUBSET Names : WithTablesByDriverType(names) \/ ExcludeTables(names)
           \/ \E r \in Registries \cup {Nil} : WithHandlerRegistry(r)
           \/ \E h \in Handlers : WithHandlers(h)
  <2>1. \E n : Option(n)
    BY <1>3, Zenon DEF WithConfigMapFails, WithConfig, WithConfigMap, WithDriverType, WithTables,
      WithTablesByDriverType, ExcludeTables, WithHandlerRegistry, WithHandlers
  <2> QED BY <1>2, <2>1
<1>4. ASSUME NEW h \in Handlers, NEW r \in Registries, RegisterHandlerFuncs(r, h)
      PROVE  UNCHANGED <<used, inits, step>>
  BY <1>4 DEF RegisterHandlerFuncs, optVars
<1> QED BY <1>0, <1>1, <1>3, <1>4 DEF Next

\* InitDB runs with the options that buildDriverOptions has validated.
LEMMA ValidStep ==
    ASSUME OptionsType, ValidOK, Next
    PROVE  ValidOK'
<1>1. CASE InitSucceeds
  BY <1>1 DEF InitSucceeds, ValidOK
<1>2. CASE Accept
  <2>1. validateDriverOptions /\ o' = o
    BY <1>2 DEF Accept, optVars
  <2> QED BY <2>1 DEF ValidOK, validateDriverOptions, FinalType
<1>3. CASE published' = published /\ (step' = "init" => step = "init" /\ o' = o)
  BY <1>3 DEF ValidOK, validateDriverOptions, FinalType
<1> QED BY <1>1, <1>2, <1>3, PlaceSteps

\* What is published is what the options said when InitDB succeeded, and registrations after
\* that only add to its registry.
LEMMA PublishedStep ==
    ASSUME OptionsInv, Next
    PROVE  /\ published' # Nil => /\ published'.typ \in Supported /\ published'.tables # {}
                                  /\ published'.reg \in Registries
           /\ TablesFitType' /\ HandlersAsMeant'
<1> USE DEF OptionsInv
<1>0. OptionsType /\ (\A r \in Registries : regs[r] \subseteq regs'[r]) /\ RegsOK'
  BY RegistriesStep DEF TypeOK
<1>1. CASE InitSucceeds
  <2> DEFINE r == Chosen
  <2>0. r \in Registries /\ r = IF o.handlers = Nil THEN DefaultReg ELSE o.handlers
    BY <1>0 DEF OptionsType, Chosen, Registries
  <2>1. /\ published'.typ = FinalType /\ published'.tables = o.tables /\ published'.reg = r
        /\ published'.given = o.given /\ published'.fits = o.fits
        /\ published'.hooked <=> regs[r] # {}
        /\ regs' = regs
    BY <1>1, <2>0 DEF InitSucceeds
  <2>2. FinalType \in Supported /\ o.tables # {}
    BY <1>1 DEF InitSucceeds, ValidOK, validateDriverOptions
  <2>3. o.fits => \A t \in o.tables : t.of = FinalType
    BY <2>2, ShownType DEF TablesOK
  <2>4. o.given \subseteq regs[r]
    BY DEF GivenOK
  <2> HIDE DEF r
  <2>5. TablesFitType'
    BY <2>1, <2>3 DEF TablesFitType
  <2>6. HandlersAsMeant'
    BY <1>0, <2>0, <2>1, <2>4 DEF HandlersAsMeant, RegsOK
  <2> QED BY <2>0, <2>1, <2>2, <2>5, <2>6
<1>2. CASE Accept
  BY <1>2 DEF Accept, TablesFitType, HandlersAsMeant
<1>3. CASE published' = published
  <2>1. TablesFitType'
    BY <1>3 DEF TablesFitType
  <2>2. published # Nil => published.reg \in Registries
    BY DEF TypeOK
  <2>3. HandlersAsMeant'
    BY <1>0, <1>3, <2>2 DEF HandlersAsMeant, RegsOK
  <2> QED BY <1>3, <2>1, <2>3 DEF TypeOK
<1> QED BY <1>0, <1>1, <1>2, <1>3, PlaceSteps

\* The initial state satisfies the invariant.
LEMMA InitOptionsInv == Init => OptionsInv
<1> SUFFICES ASSUME Init PROVE OptionsInv
  OBVIOUS
<1> USE DEF Init
<1>1. OptionsType
  BY DEF OptionsType, NoOptions, DriverNames
<1>2. TypeOK
  BY <1>1, Bounds DEF TypeOK
<1>3. MapOK /\ TablesOK /\ GivenOK /\ RegsOK /\ ValidOK
  BY DEF MapOK, TablesOK, GivenOK, RegsOK, ValidOK, NoOptions
<1> QED BY <1>2, <1>3 DEF OptionsInv, TablesFitType, HandlersAsMeant

\* A stuttering step keeps it.
LEMMA StutterOptionsInv ==
    ASSUME OptionsInv, UNCHANGED vars
    PROVE  OptionsInv'
  BY DEF OptionsInv, vars, optVars, TypeOK, OptionsType, MapOK, TablesOK, TypeShown, TablesType,
    GivenOK, Chosen, RegsOK, ValidOK, validateDriverOptions, FinalType, TablesFitType,
    HandlersAsMeant

\* The invariant holds whatever options are applied in whatever order, by any number of calls
\* of TryInit, with registrations at any time.
THEOREM OptionsInductive == Spec => []OptionsInv
<1>1. OptionsInv /\ [Next]_vars => OptionsInv'
  <2> SUFFICES ASSUME OptionsInv, [Next]_vars PROVE OptionsInv'
    OBVIOUS
  <2>1. CASE Next
    <3>1. OptionsType /\ TypeOK
      BY DEF OptionsInv, TypeOK
    <3>2. TypeOK'
      BY <2>1, <3>1, OptionsTypeStep, RegistriesStep, PlaceTypes, PublishedStep
      DEF TypeOK, OptionsInv
    <3> QED
      BY <2>1, <3>1, <3>2, MapStep, TablesStep, GivenStep, RegistriesStep, ValidStep,
         PublishedStep DEF OptionsInv
  <2>2. CASE UNCHANGED vars
    BY <2>2, StutterOptionsInv
  <2> QED BY <2>1, <2>2
<1> QED BY InitOptionsInv, <1>1, PTL DEF Spec

\* Type correctness: a Conf that was decoded is whole, and what is published has a supported
\* type, tables and a registry.
THEOREM OptionsTypes == Spec => []TypeOK
  BY OptionsInductive, PTL DEF OptionsInv

\* WithTablesByDriverType, WithNodeTables and WithTables give the driver tables of its own type
\* unless the type changed behind them or did not show.
THEOREM OptionsTablesFit == Spec => []TablesFitType
  BY OptionsInductive, PTL DEF OptionsInv

\* hook.Wrap finds around a driver the handlers meant for it, all that its options gave and
\* none of another registry.
THEOREM OptionsHandlers == Spec => []HandlersAsMeant
  BY OptionsInductive, PTL DEF OptionsInv

\* DecodeMapToStruct: [db.mysql] goes before [db], and both before DefaultConf, also through
\* the options that follow WithConfigMap.
THEOREM OptionsExplicitWins == Spec => []ExplicitWins
<1>1. OptionsInv => ExplicitWins
  <2> SUFFICES ASSUME OptionsInv, o.map # Nil, o.map.db # Nil PROVE ExplicitWins
    BY DEF ExplicitWins
  <2>1. PICK m \in ConfigMaps : o.map = m /\ o.conf = DecodeMapToStruct(m)
    BY DEF OptionsInv, MapOK
  <2> QED BY <2>1, MapWins DEF ExplicitWins
<1> QED BY <1>1, OptionsInductive, PTL
==========================================================================
