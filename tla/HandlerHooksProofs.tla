----------------------- MODULE HandlerHooksProofs -----------------------
(***************************************************************************)
(* Proofs about HandlerHooks, for any goroutines, handlers, tables and     *)
(* inner drivers: HookInv is an inductive invariant.                       *)
(***************************************************************************)
EXTENDS HandlerHooks, SequenceTheorems, TLAPS

AnyEntry == [table : Tables \cup {Global}, handler : Handlers]
Events   == (Roles \X Handlers) \cup {<<"inner">>}

---------------------------------------------------------------------------
(* Sequences.                                                              *)

\* append adds one element.
LEMMA AppendSet ==
    ASSUME NEW S, NEW s \in Seq(S), NEW x \in S
    PROVE  Append(s, x) \in Seq(S) /\ ToSet(Append(s, x)) = ToSet(s) \cup {x}
<1> DEFINE a == Append(s, x)
<1>1. /\ a \in Seq(S) /\ Len(a) = Len(s) + 1 /\ Len(s) \in Nat
      /\ \A k \in 1 .. Len(s) : a[k] = s[k]
      /\ a[Len(s) + 1] = x
      /\ DOMAIN a = 1 .. Len(s) + 1 /\ DOMAIN s = 1 .. Len(s)
  BY AppendProperties, LenProperties
<1> HIDE DEF a
<1>2. ToSet(a) \subseteq ToSet(s) \cup {x}
  <2> SUFFICES ASSUME NEW k \in 1 .. Len(s) + 1 PROVE a[k] \in ToSet(s) \cup {x}
    BY <1>1 DEF ToSet
  <2>1. k \in 1 .. Len(s) \/ k = Len(s) + 1
    BY <1>1
  <2> QED BY <1>1, <2>1 DEF ToSet
<1>3. ToSet(s) \cup {x} \subseteq ToSet(a)
  <2>1. Len(s) + 1 \in 1 .. Len(s) + 1 /\ \A k \in 1 .. Len(s) : k \in 1 .. Len(s) + 1
    BY <1>1
  <2> QED BY <1>1, <2>1 DEF ToSet
<1> QED BY <1>1, <1>2, <1>3 DEF a

\* A concatenation has the elements of both.
LEMMA ConcatSet ==
    ASSUME NEW S, NEW s \in Seq(S), NEW q \in Seq(S)
    PROVE  s \o q \in Seq(S) /\ ToSet(s \o q) = ToSet(s) \cup ToSet(q)
<1> DEFINE a == s \o q
<1>1. /\ a \in Seq(S) /\ Len(a) = Len(s) + Len(q) /\ Len(s) \in Nat /\ Len(q) \in Nat
      /\ \A k \in 1 .. Len(s) + Len(q) : a[k] = IF k <= Len(s) THEN s[k] ELSE q[k - Len(s)]
      /\ DOMAIN a = 1 .. Len(s) + Len(q) /\ DOMAIN s = 1 .. Len(s) /\ DOMAIN q = 1 .. Len(q)
  BY ConcatProperties, LenProperties
<1> HIDE DEF a
<1>2. ToSet(a) \subseteq ToSet(s) \cup ToSet(q)
  <2> SUFFICES ASSUME NEW k \in 1 .. Len(s) + Len(q) PROVE a[k] \in ToSet(s) \cup ToSet(q)
    BY <1>1 DEF ToSet
  <2>1. CASE k <= Len(s)
    <3>1. k \in 1 .. Len(s) /\ a[k] = s[k]
      BY <1>1, <2>1
    <3> QED BY <1>1, <3>1 DEF ToSet
  <2>2. CASE ~(k <= Len(s))
    <3>1. k - Len(s) \in 1 .. Len(q) /\ a[k] = q[k - Len(s)]
      BY <1>1, <2>2
    <3> QED BY <1>1, <3>1 DEF ToSet
  <2> QED BY <2>1, <2>2
<1>3. ToSet(s) \subseteq ToSet(a)
  <2> SUFFICES ASSUME NEW k \in 1 .. Len(s) PROVE s[k] \in ToSet(a)
    BY <1>1 DEF ToSet
  <2>1. k \in 1 .. Len(s) + Len(q) /\ a[k] = s[k]
    BY <1>1
  <2> QED BY <1>1, <2>1 DEF ToSet
<1>4. ToSet(q) \subseteq ToSet(a)
  <2> SUFFICES ASSUME NEW k \in 1 .. Len(q) PROVE q[k] \in ToSet(a)
    BY <1>1 DEF ToSet
  <2>1. Len(s) + k \in 1 .. Len(s) + Len(q) /\ a[Len(s) + k] = q[k]
    <3>1. Len(s) + k \in 1 .. Len(s) + Len(q) /\ ~(Len(s) + k <= Len(s)) /\ (Len(s) + k) - Len(s) = k
      BY <1>1
    <3> QED BY <1>1, <3>1
  <2> QED BY <1>1, <2>1 DEF ToSet
<1> QED BY <1>1, <1>2, <1>3, <1>4 DEF a

\* What a loop has left after the element at i.
LEMMA RestOf ==
    ASSUME NEW S, NEW s \in Seq(S), NEW i \in DOMAIN s
    PROVE  /\ i \in 1 .. Len(s) /\ Len(s) \in Nat /\ DOMAIN s = 1 .. Len(s)
           /\ SubSeq(s, i + 1, Len(s)) \in Seq(S)
           /\ DOMAIN SubSeq(s, i + 1, Len(s)) = 1 .. Len(s) - i
           /\ \A k \in 1 .. Len(s) - i : SubSeq(s, i + 1, Len(s))[k] = s[i + k]
           /\ ToSet(SubSeq(s, i + 1, Len(s))) \subseteq ToSet(s)
<1> DEFINE r == SubSeq(s, i + 1, Len(s))
<1>1. i \in 1 .. Len(s) /\ Len(s) \in Nat /\ DOMAIN s = 1 .. Len(s) /\ i \in Nat
  BY LenProperties
<1>2. \A k \in i + 1 .. Len(s) : s[k] \in S
  BY <1>1, ElementOfSeq
<1>3. r = [k \in 1 .. Len(s) - i |-> s[i + k]]
  <2>1. r = [k \in 1 .. (1 + Len(s)) - (i + 1) |-> s[(i + 1 + k) - 1]]
    BY <1>1
  <2>2. (1 + Len(s)) - (i + 1) = Len(s) - i
    BY <1>1
  <2>3. \A k \in 1 .. Len(s) - i : (i + 1 + k) - 1 = i + k
    BY <1>1
  <2> QED BY <2>1, <2>2, <2>3
<1> HIDE DEF r
<1>4. DOMAIN r = 1 .. Len(s) - i /\ \A k \in 1 .. Len(s) - i : r[k] = s[i + k]
  BY <1>3
<1>5. \A k \in 1 .. Len(s) - i : i + k \in 1 .. Len(s) /\ i + k \in i + 1 .. Len(s)
  BY <1>1
<1>6. r \in Seq(S)
  <2>1. Len(s) - i \in Nat
    BY <1>1
  <2>2. r \in [1 .. Len(s) - i -> S]
    BY <1>2, <1>3, <1>5
  <2> QED BY <2>1, <2>2, SeqDef
<1>7. ToSet(r) \subseteq ToSet(s)
  BY <1>1, <1>4, <1>5 DEF ToSet
<1> QED BY <1>1, <1>4, <1>6, <1>7 DEF r

---------------------------------------------------------------------------
(* What a call has seen and done.                                          *)

\* What the properties say of one call.
Guarded(g) ==
    op[g] \in ValueOps /\ (InnerRan(g) \/ phase[g] = "inner") =>
        atInit \cap For(g, "before") \subseteq Ran(g, "before")
Covered(g) ==
    outcome[g] = "returned" => Paired(g) \subseteq Ran(g, "after")

\* What the invariant says of one call.
CallOK(g) ==
    /\ phase[g] \in Roles => wrapping = "hooked" /\ op[g] \notin RawOps
    /\ phase[g] # "idle" => outcome[g] = "none"
    /\ phase[g] \in {"handle", "before"} => ~InnerRan(g)
    /\ phase[g] = "handle" => Ran(g, "before") = {}
    /\ phase[g] = "inner" /\ (wrapping = "direct" \/ op[g] \in RawOps) =>
           Ran(g, "before") = {}
    /\ ToSet(todo[g]) \subseteq Entries
    /\ Ran(g, "before") \subseteq For(g, "before")
    /\ phase[g] = "before" =>
           atInit \cap For(g, "before") \subseteq Ran(g, "before") \cup Left(g)
    /\ phase[g] = "after" => Paired(g) \subseteq Ran(g, "after") \cup Left(g)
    /\ Guarded(g)
    /\ Covered(g)

\* The invariant, call by call.
LEMMA InvByCall ==
    HookInv <=> TypeOK /\ WrapOK /\ \A g \in Goroutines : CallOK(g)
  BY Zenon DEF HookInv, PhasesOK, SnapshotsOK, ProgressOK, GuardsRun, AfterCoversBefore, CallOK,
               Guarded, Covered

\* And after a step.
LEMMA InvByCallNext ==
    HookInv' <=> TypeOK' /\ WrapOK' /\ \A g \in Goroutines : CallOK(g)'
  BY Zenon DEF HookInv, PhasesOK, SnapshotsOK, ProgressOK, GuardsRun, AfterCoversBefore, CallOK,
               Guarded, Covered

\* A call that a step does not concern.
Untouched(g) ==
    /\ phase'[g] = phase[g] /\ op'[g] = op[g] /\ table'[g] = table[g] /\ content'[g] = content[g]
    /\ todo'[g] = todo[g] /\ ran'[g] = ran[g] /\ outcome'[g] = outcome[g]

\* What it has run and has left stays as it is.
LEMMA UntouchedKeeps ==
    ASSUME NEW g \in Goroutines, Untouched(g)
    PROVE  /\ InnerRan(g)' = InnerRan(g) /\ Left(g)' = Left(g) /\ Paired(g)' = Paired(g)
           /\ \A role : Ran(g, role)' = Ran(g, role)
<1>1. InnerRan(g)' = InnerRan(g) /\ \A role : Ran(g, role)' = Ran(g, role)
  BY DEF Untouched, InnerRan, Ran
<1>2. Due(g)' = Due(g)
  BY DEF Untouched, Due
<1>3. Paired(g)' = Paired(g)
  BY <1>1 DEF Untouched, Paired
<1> QED BY <1>1, <1>2, <1>3 DEF Untouched, Left

\* So does all that the invariant says of it, unless the registry changes.
LEMMA OthersKeep ==
    ASSUME NEW g \in Goroutines, Untouched(g), UNCHANGED registry, CallOK(g)
    PROVE  CallOK(g)'
<1>1. /\ InnerRan(g)' = InnerRan(g) /\ Left(g)' = Left(g) /\ Paired(g)' = Paired(g)
      /\ \A role : Ran(g, role)' = Ran(g, role)
  BY UntouchedKeeps
<1>2. /\ Entries' = Entries /\ wrapping' = wrapping /\ atInit' = atInit
      /\ \A role : For(g, role)' = For(g, role)
  BY DEF registry, Entries, For, Untouched
<1> QED BY <1>1, <1>2 DEF CallOK, Guarded, Covered, Untouched

---------------------------------------------------------------------------
(* The registry.                                                           *)

\* Entries have a table or Global, and a handler.
LEMMA EntryTypes ==
    ASSUME TypeOK
    PROVE  /\ entries \in Seq(AnyEntry) /\ fallback \in Seq(AnyEntry)
           /\ Entries \subseteq AnyEntry
           /\ Snapshot \in Seq(AnyEntry) /\ ToSet(Snapshot) = Entries
           /\ Registered \subseteq Handlers
<1>1. /\ [table : Tables, handler : Handlers] \subseteq AnyEntry
      /\ [table : {Global}, handler : Handlers] \subseteq AnyEntry
  BY DEF AnyEntry
<1>2. entries \in Seq(AnyEntry) /\ fallback \in Seq(AnyEntry)
  BY <1>1, SeqMonotonic DEF TypeOK
<1>3. ToSet(entries) \subseteq AnyEntry /\ ToSet(fallback) \subseteq AnyEntry
  BY <1>2, ElementOfSeq, LenProperties DEF ToSet
<1>4. Snapshot \in Seq(AnyEntry) /\ ToSet(Snapshot) = Entries
  BY <1>2, ConcatSet DEF Snapshot, Entries
<1> QED BY <1>2, <1>3, <1>4 DEF Entries, Registered, AnyEntry

\* Register adds an entry of a handler that had none.
LEMMA RegisterAdds ==
    ASSUME TypeOK, NEW h \in Handlers, Register(h)
    PROVE  /\ h \notin Registered
           /\ \E e \in AnyEntry : e.handler = h /\ Entries' = Entries \cup {e}
           /\ entries' \in Seq([table : Tables, handler : Handlers])
           /\ fallback' \in Seq([table : {Global}, handler : Handlers])
<1>1. CASE \E t \in Tables : entries' = Append(entries, Entry(t, h)) /\ UNCHANGED fallback
  <2>1. PICK t \in Tables : entries' = Append(entries, Entry(t, h)) /\ UNCHANGED fallback
    BY <1>1
  <2> DEFINE e == Entry(t, h)
  <2>2. e \in [table : Tables, handler : Handlers] /\ e \in AnyEntry /\ e.handler = h
    BY DEF Entry, AnyEntry
  <2> HIDE DEF e
  <2>3. /\ entries' \in Seq([table : Tables, handler : Handlers])
        /\ ToSet(entries') = ToSet(entries) \cup {e}
    <3> DEFINE S == [table : Tables, handler : Handlers]
    <3>1. entries' = Append(entries, e) /\ entries \in Seq(S) /\ e \in S
      BY <2>1, <2>2 DEF TypeOK, e
    <3> HIDE DEF S
    <3>2. Append(entries, e) \in Seq(S) /\ ToSet(Append(entries, e)) = ToSet(entries) \cup {e}
      BY <3>1, AppendSet
    <3> QED BY <3>1, <3>2 DEF S
  <2>4. Entries' = Entries \cup {e}
    BY <2>1, <2>3 DEF Entries
  <2> QED BY <2>1, <2>2, <2>3, <2>4 DEF Register, TypeOK
<1>2. CASE fallback' = Append(fallback, Entry(Global, h)) /\ UNCHANGED entries
  <2> DEFINE e == Entry(Global, h)
  <2>2. e \in [table : {Global}, handler : Handlers] /\ e \in AnyEntry /\ e.handler = h
    BY DEF Entry, AnyEntry
  <2> HIDE DEF e
  <2>3. /\ fallback' \in Seq([table : {Global}, handler : Handlers])
        /\ ToSet(fallback') = ToSet(fallback) \cup {e}
    <3> DEFINE S == [table : {Global}, handler : Handlers]
    <3>1. fallback' = Append(fallback, e) /\ fallback \in Seq(S) /\ e \in S
      BY <1>2, <2>2 DEF TypeOK, e
    <3> HIDE DEF S
    <3>2. Append(fallback, e) \in Seq(S) /\ ToSet(Append(fallback, e)) = ToSet(fallback) \cup {e}
      BY <3>1, AppendSet
    <3> QED BY <3>1, <3>2 DEF S
  <2>4. Entries' = Entries \cup {e}
    BY <1>2, <2>3 DEF Entries
  <2> QED BY <1>2, <2>2, <2>3, <2>4 DEF Register, TypeOK
<1> QED BY <1>1, <1>2 DEF Register

\* A registration during a call adds nobody to the handlers that were there at TryInit, and
\* takes nobody away from those a phase has found.
LEMMA RegisterKeeps ==
    ASSUME HookInv, NEW h \in Handlers, Register(h)
    PROVE  HookInv'
<1> USE DEF callVars
<1>0. TypeOK /\ WrapOK /\ \A g \in Goroutines : CallOK(g)
  BY InvByCall
<1>1. h \notin Registered
  BY <1>0, RegisterAdds
<1>2. PICK e \in AnyEntry : e.handler = h /\ Entries' = Entries \cup {e}
  BY <1>0, RegisterAdds
<1>3. UNCHANGED <<inner, wrapping, atInit, phase, op, table, content, todo, ran, outcome>>
  BY DEF Register
<1>4. TypeOK'
  BY <1>0, <1>3, RegisterAdds DEF TypeOK
<1>5. Registered' = Registered \cup {h}
  BY <1>2 DEF Registered
<1>6. WrapOK'
  BY <1>0, <1>3, <1>5 DEF WrapOK
<1>7. ASSUME NEW g \in Goroutines PROVE CallOK(g)'
  <2>1. Untouched(g)
    BY <1>3 DEF Untouched
  <2>2. /\ InnerRan(g)' = InnerRan(g) /\ Left(g)' = Left(g) /\ Paired(g)' = Paired(g)
        /\ \A role : Ran(g, role)' = Ran(g, role)
    BY <2>1, UntouchedKeeps
  <2>3. For(g, "before")' \subseteq For(g, "before") \cup {h} /\ For(g, "before") \subseteq For(g, "before")'
    BY <1>2, <1>3 DEF For
  <2>4. h \notin atInit
    BY <1>0, <1>1 DEF WrapOK
  <2>5. atInit' \cap For(g, "before")' = atInit \cap For(g, "before")
    BY <1>3, <2>3, <2>4
  <2>6. Guarded(g)' /\ Covered(g)'
    BY <1>0, <1>3, <2>2, <2>5 DEF CallOK, Guarded, Covered
  <2>7. ToSet(todo[g])' \subseteq Entries' /\ Ran(g, "before")' \subseteq For(g, "before")'
    BY <1>0, <1>2, <1>3, <2>2, <2>3 DEF CallOK
  <2> QED BY <1>0, <1>3, <2>2, <2>5, <2>6, <2>7 DEF CallOK
<1> QED BY <1>4, <1>6, <1>7, InvByCallNext

\* Wrap notes who is registered before the first call.
LEMMA WrapKeeps == HookInv /\ Wrap => HookInv'
<1> SUFFICES ASSUME HookInv, Wrap PROVE HookInv'
  OBVIOUS
<1> USE DEF callVars
<1>0. TypeOK /\ WrapOK /\ \A g \in Goroutines : CallOK(g)
  BY InvByCall
<1>1. /\ wrapping = "none" /\ wrapping' \in {"direct", "hooked"}
      /\ wrapping' = "direct" => Registered = {}
      /\ atInit' = Registered
      /\ UNCHANGED <<entries, fallback, inner, phase, op, table, content, todo, ran, outcome>>
  BY DEF Wrap
<1>2. Registered \subseteq Handlers
  BY <1>0, EntryTypes
<1>3. TypeOK'
  BY <1>0, <1>1, <1>2 DEF TypeOK
<1>4. Entries' = Entries /\ Registered' = Registered
  BY <1>1 DEF Entries, Registered
<1>5. WrapOK'
  BY <1>1, <1>4 DEF WrapOK
<1>6. ASSUME NEW g \in Goroutines PROVE CallOK(g)'
  <2>1. Untouched(g)
    BY <1>1 DEF Untouched
  <2>2. /\ InnerRan(g)' = InnerRan(g) /\ Left(g)' = Left(g) /\ Paired(g)' = Paired(g)
        /\ \A role : Ran(g, role)' = Ran(g, role)
    BY <2>1, UntouchedKeeps
  <2>3. For(g, "before")' = For(g, "before")
    BY <1>1, <1>4 DEF For
  <2>4. op[g] = "none" /\ phase[g] = "idle" /\ "none" \notin ValueOps /\ "idle" \notin Roles
    BY <1>0, <1>1 DEF WrapOK, ValueOps, Roles
  <2>5. Guarded(g)' /\ Covered(g)'
    BY <1>0, <1>1, <2>2, <2>4 DEF CallOK, Guarded, Covered
  <2> QED BY <1>0, <1>1, <1>4, <2>2, <2>3, <2>4, <2>5 DEF CallOK
<1> QED BY <1>3, <1>5, <1>6, InvByCallNext

---------------------------------------------------------------------------
(* The calls.                                                              *)

\* The types, one variable at a time.
LEMMA CallTypes ==
    ASSUME TypeOK, NEW g \in Goroutines
    PROVE  /\ phase \in [Goroutines -> Roles \cup {"idle", "inner"}]
           /\ op \in [Goroutines -> Ops \cup {"none"}]
           /\ table \in [Goroutines -> Tables \cup {Global}]
           /\ content \in [Goroutines -> [Roles -> Contents \cup {Nil}]]
           /\ todo \in [Goroutines -> Seq(AnyEntry)]
           /\ ran \in [Goroutines -> Seq(Events)]
           /\ outcome \in [Goroutines -> Outcomes]
           /\ todo[g] \in Seq(AnyEntry) /\ ran[g] \in Seq(Events)
  BY DEF TypeOK, AnyEntry, Events

\* The step is about the call of g alone.
OnlyCall(g) ==
    /\ UNCHANGED registry
    /\ \A u \in Goroutines \ {g} : Untouched(u)

\* Such a step keeps the invariant when it keeps what the invariant says of that call.
LEMMA OneCall ==
    ASSUME HookInv, NEW g \in Goroutines, OnlyCall(g), wrapping # "none",
           phase' \in [Goroutines -> Roles \cup {"idle", "inner"}],
           op' \in [Goroutines -> Ops \cup {"none"}],
           table' \in [Goroutines -> Tables \cup {Global}],
           content' \in [Goroutines -> [Roles -> Contents \cup {Nil}]],
           todo' \in [Goroutines -> Seq(AnyEntry)],
           ran' \in [Goroutines -> Seq(Events)],
           outcome' \in [Goroutines -> Outcomes],
           CallOK(g)'
    PROVE  HookInv'
<1>0. TypeOK /\ WrapOK /\ \A u \in Goroutines : CallOK(u)
  BY InvByCall
<1>1. TypeOK'
  BY <1>0 DEF TypeOK, OnlyCall, registry, AnyEntry, Events
<1>2. WrapOK'
  <2>1. Registered' = Registered /\ wrapping' = wrapping /\ atInit' = atInit
    BY DEF OnlyCall, registry, Registered, Entries
  <2> QED BY <1>0, <2>1 DEF WrapOK
<1>3. ASSUME NEW u \in Goroutines PROVE CallOK(u)'
  <2>1. CASE u = g
    BY <2>1
  <2>2. CASE u # g
    BY <1>0, <2>2, OthersKeep DEF OnlyCall
  <2> QED BY <2>1, <2>2
<1> QED BY <1>1, <1>2, <1>3, InvByCallNext

\* A call that is not idle has a wrapped driver.
LEMMA BusyIsWrapped ==
    ASSUME HookInv, NEW g \in Goroutines, phase[g] # "idle"
    PROVE  wrapping # "none"
  BY DEF HookInv, WrapOK

\* A handler and the inner driver are different events.
LEMMA EventsDiffer ==
    \A role \in Roles, h \in Handlers :
        /\ <<role, h>> \in Events /\ <<"inner">> \in Events /\ <<role, h>> # <<"inner">>
        /\ \A r \in Roles, x \in Handlers : <<role, h>> = <<r, x>> <=> role = r /\ h = x
<1> SUFFICES ASSUME NEW role \in Roles, NEW h \in Handlers
             PROVE  /\ <<role, h>> \in Events /\ <<"inner">> \in Events /\ <<role, h>> # <<"inner">>
                    /\ \A r \in Roles, x \in Handlers : <<role, h>> = <<r, x>> <=> role = r /\ h = x
  OBVIOUS
<1>1. Len(<<role, h>>) = 2 /\ Len(<<"inner">>) = 1
  OBVIOUS
<1>2. <<role, h>> # <<"inner">>
  BY <1>1
<1> QED BY <1>2 DEF Events

\* Invoking a handler adds it to those that ran in this role, and changes nothing else.
LEMMA InvokeMeans ==
    ASSUME HookInv, NEW g \in Goroutines, NEW role \in Roles, NEW i \in Due(g), Invoke(g, role, i)
    PROVE  /\ todo[g][i].handler \in Handlers /\ todo[g][i].handler \in For(g, role)
           /\ Ran(g, role)' = Ran(g, role) \cup {todo[g][i].handler}
           /\ \A r \in Roles \ {role} : Ran(g, r)' = Ran(g, r)
           /\ InnerRan(g)' = InnerRan(g)
           /\ Entries' = Entries
           /\ ran' \in [Goroutines -> Seq(Events)]
           /\ \A u \in Goroutines \ {g} : ran'[u] = ran[u]
<1> DEFINE e == todo[g][i]
<1>0. TypeOK /\ CallOK(g)
  BY InvByCall
<1>1. i \in DOMAIN todo[g] /\ Matches(role, op[g], table[g], content[g][role], e)
  BY DEF Due, Invoke
<1>2. e \in Entries
  BY <1>0, <1>1 DEF CallOK, ToSet
<1>3. e.handler \in Handlers /\ e.handler \in For(g, role)
  BY <1>0, <1>1, <1>2, EntryTypes DEF For, AnyEntry
<1> DEFINE x == <<role, e.handler>>
<1> HIDE DEF e
<1>4. x \in Events /\ x # <<"inner">>
  BY <1>3, EventsDiffer
<1>5. \A r \in Roles, h \in Handlers : x = <<r, h>> <=> role = r /\ e.handler = h
  BY <1>3, EventsDiffer
<1>6. ran \in [Goroutines -> Seq(Events)] /\ ran' = [ran EXCEPT ![g] = Append(ran[g], x)]
  BY <1>0, CallTypes DEF Invoke, e
<1> HIDE DEF x
<1>7. Append(ran[g], x) \in Seq(Events) /\ ToSet(Append(ran[g], x)) = ToSet(ran[g]) \cup {x}
  BY <1>4, <1>6, AppendSet
<1>8. ran'[g] = Append(ran[g], x)
  BY <1>6
<1>9. ToSet(ran'[g]) = ToSet(ran[g]) \cup {x}
  BY <1>7, <1>8
<1>10. /\ Ran(g, role)' = Ran(g, role) \cup {e.handler}
       /\ \A r \in Roles \ {role} : Ran(g, r)' = Ran(g, r)
       /\ InnerRan(g)' = InnerRan(g)
  <2>1. InnerRan(g)' = InnerRan(g)
    BY <1>4, <1>9 DEF InnerRan
  <2>2. ASSUME NEW r \in Roles, NEW h \in Handlers
        PROVE  h \in Ran(g, r)' <=> h \in Ran(g, r) \/ (role = r /\ h = e.handler)
    BY <1>5, <1>9 DEF Ran
  <2>3. \A r : Ran(g, r) \subseteq Handlers /\ Ran(g, r)' \subseteq Handlers
    BY DEF Ran
  <2> QED BY <1>3, <2>1, <2>2, <2>3
<1>11. ran' \in [Goroutines -> Seq(Events)] /\ \A u \in Goroutines \ {g} : ran'[u] = ran[u]
  BY <1>6, <1>7
<1>12. Entries' = Entries
  BY DEF Invoke, registry, Entries
<1> QED BY <1>3, <1>10, <1>11, <1>12 DEF e

\* A change of the value concerns the phases to come.
LEMMA ChangeMeans ==
    ASSUME TypeOK, NEW g \in Goroutines, NEW phases, MayChange(g, phases)
    PROVE  /\ content' \in [Goroutines -> [Roles -> Contents \cup {Nil}]]
           /\ \A r \in Roles \ phases : content'[g][r] = content[g][r]
           /\ \A u \in Goroutines \ {g} : content'[u] = content[u]
<1>1. PICK v \in Contents :
         content' = [content EXCEPT ![g] =
                       [r \in Roles |-> IF r \in phases /\ op[g] \in ValueOps THEN v ELSE content[g][r]]]
  BY DEF MayChange
<1>2. content \in [Goroutines -> [Roles -> Contents \cup {Nil}]]
  BY CallTypes
<1>3. content'[g] = [r \in Roles |-> IF r \in phases /\ op[g] \in ValueOps THEN v ELSE content[g][r]]
  BY <1>1, <1>2
<1>4. content'[g] \in [Roles -> Contents \cup {Nil}]
  BY <1>2, <1>3
<1> QED BY <1>1, <1>2, <1>3, <1>4

\* It leaves those whom this phase and the ones before it ask.
LEMMA SameFor ==
    ASSUME NEW g \in Goroutines, NEW r \in Roles, Entries' = Entries, op'[g] = op[g],
           table'[g] = table[g], content'[g][r] = content[g][r]
    PROVE  For(g, r)' = For(g, r)
  BY DEF For

\* What is left of the phase after a handler has passed.
LEMMA GoesOnMeans ==
    ASSUME HookInv, NEW g \in Goroutines, NEW role \in Roles, NEW i \in Due(g), Invoke(g, role, i),
           GoesOn(g, i)
    PROVE  /\ Left(g) \subseteq Left(g)' \cup {todo[g][i].handler}
           /\ ToSet(todo'[g]) \subseteq ToSet(todo[g])
           /\ todo' \in [Goroutines -> Seq(AnyEntry)]
           /\ \A u \in Goroutines \ {g} : todo'[u] = todo[u]
           /\ content' \in [Goroutines -> [Roles -> Contents \cup {Nil}]]
           /\ \A r \in Roles \ Later(role) : content'[g][r] = content[g][r]
           /\ \A u \in Goroutines \ {g} : content'[u] = content[u]
           /\ role \notin Later(role)
<1>0. /\ content' \in [Goroutines -> [Roles -> Contents \cup {Nil}]]
      /\ \A r \in Roles \ Later(role) : content'[g][r] = content[g][r]
      /\ \A u \in Goroutines \ {g} : content'[u] = content[u]
  <2>1. MayChange(g, Later(role))
    BY DEF GoesOn, Invoke
  <2> QED BY <2>1, ChangeMeans DEF HookInv
<1>notLater. role \notin Later(role)
  BY DEF Later, Roles
<1> DEFINE s == todo[g]
           r == SubSeq(s, i + 1, Len(s))
<1>1. s \in Seq(AnyEntry) /\ todo \in [Goroutines -> Seq(AnyEntry)] /\ i \in DOMAIN s
  BY CallTypes DEF HookInv, Due
<1> HIDE DEF s
<1>2. /\ i \in 1 .. Len(s) /\ Len(s) \in Nat /\ DOMAIN s = 1 .. Len(s)
      /\ r \in Seq(AnyEntry) /\ DOMAIN r = 1 .. Len(s) - i
      /\ \A k \in 1 .. Len(s) - i : r[k] = s[i + k]
      /\ ToSet(r) \subseteq ToSet(s)
  BY <1>1, RestOf
<1>3. todo' = [todo EXCEPT ![g] = r] /\ todo'[g] = r
  BY <1>1 DEF GoesOn, s
<1> HIDE DEF r
<1>4. ASSUME NEW k \in Due(g), k # i PROVE s[k].handler \in Left(g)'
  <2>1. k \in 1 .. Len(s) /\ i <= k
    BY <1>2 DEF Due, Invoke, s
  <2>2. k - i \in 1 .. Len(s) - i /\ i + (k - i) = k
    BY <1>2, <1>4, <2>1
  <2>3. r[k - i] = s[k]
    BY <1>2, <2>2
  <2>4. Matches(phase[g], op[g], table[g], content[g][phase[g]], s[k])
    BY DEF Due, s
  <2>5. /\ phase' = phase /\ op' = op /\ table' = table
        /\ content'[g][phase'[g]] = content[g][phase[g]]
    BY <1>0, <1>notLater DEF GoesOn, Invoke
  <2>6. Matches(phase'[g], op'[g], table'[g], content'[g][phase'[g]], todo'[g][k - i])
    BY <1>3, <2>3, <2>4, <2>5
  <2>7. k - i \in Due(g)'
    BY <1>2, <1>3, <2>2, <2>6 DEF Due
  <2> QED BY <1>3, <2>3, <2>7 DEF Left
<1>5. Left(g) \subseteq Left(g)' \cup {todo[g][i].handler}
  BY <1>4 DEF Left, s
<1> QED BY <1>0, <1>notLater, <1>1, <1>2, <1>3, <1>5 DEF s

\* A handler passes: it leaves the handlers to come and joins those that ran.
LEMMA PassKeeps ==
    ASSUME HookInv, NEW g \in Goroutines, NEW role \in Roles, NEW i \in Due(g), Invoke(g, role, i),
           GoesOn(g, i)
    PROVE  HookInv'
<1> DEFINE h == todo[g][i].handler
<1>0. TypeOK /\ WrapOK /\ CallOK(g)
  BY InvByCall
<1>1. /\ phase[g] = role /\ role \notin {"idle", "inner"}
      /\ UNCHANGED <<phase, op, table, outcome, registry>>
      /\ wrapping' = wrapping /\ atInit' = atInit
  BY DEF Invoke, GoesOn, Roles, registry
<1>2. /\ h \in For(g, role)
      /\ Ran(g, role)' = Ran(g, role) \cup {h}
      /\ \A r \in Roles \ {role} : Ran(g, r)' = Ran(g, r)
      /\ InnerRan(g)' = InnerRan(g)
      /\ Entries' = Entries
      /\ ran' \in [Goroutines -> Seq(Events)]
      /\ \A u \in Goroutines \ {g} : ran'[u] = ran[u]
  BY InvokeMeans
<1>3. /\ Left(g) \subseteq Left(g)' \cup {h}
      /\ ToSet(todo'[g]) \subseteq ToSet(todo[g])
      /\ todo' \in [Goroutines -> Seq(AnyEntry)]
      /\ \A u \in Goroutines \ {g} : todo'[u] = todo[u]
      /\ content' \in [Goroutines -> [Roles -> Contents \cup {Nil}]]
      /\ \A r \in Roles \ Later(role) : content'[g][r] = content[g][r]
      /\ \A u \in Goroutines \ {g} : content'[u] = content[u]
  BY GoesOnMeans
<1> HIDE DEF h
<1>4. OnlyCall(g)
  BY <1>1, <1>2, <1>3 DEF OnlyCall, Untouched
<1>5. ToSet(todo[g])' \subseteq Entries'
  BY <1>0, <1>2, <1>3 DEF CallOK
<1>6. "before" \in Roles /\ "after" \in Roles /\ "handle" \in Roles
  BY DEF Roles
<1>7. Covered(g)'
  BY <1>0, <1>1 DEF CallOK, Covered
<1>8. CallOK(g)'
  <2>1. CASE role = "handle"
    <3>1. Ran(g, "before")' = {}
      BY <1>0, <1>1, <1>2, <1>6, <2>1 DEF CallOK
    <3>2. ~InnerRan(g)'
      BY <1>0, <1>1, <1>2, <2>1 DEF CallOK
    <3>3. Guarded(g)'
      BY <1>1, <2>1, <3>2 DEF Guarded
    <3> QED BY <1>0, <1>1, <1>5, <1>7, <2>1, <3>1, <3>2, <3>3 DEF CallOK
  <2>2. CASE role = "before"
    <3>1. "before" \in Roles \ Later(role)
      BY <1>6, <2>2 DEF Later
    <3>2. For(g, "before")' = For(g, "before")
      BY <1>1, <1>2, <1>3, <1>6, <3>1, SameFor
    <3>3. Ran(g, "before")' \subseteq For(g, "before")'
      BY <1>0, <1>2, <2>2, <3>2 DEF CallOK
    <3>4. atInit \cap For(g, "before")' \subseteq Ran(g, "before")' \cup Left(g)'
      BY <1>0, <1>1, <1>2, <1>3, <2>2, <3>2 DEF CallOK
    <3>5. ~InnerRan(g)'
      BY <1>0, <1>1, <1>2, <2>2 DEF CallOK
    <3>6. Guarded(g)'
      BY <1>1, <2>2, <3>5 DEF Guarded
    <3> QED BY <1>0, <1>1, <1>5, <1>7, <2>2, <3>3, <3>4, <3>5, <3>6 DEF CallOK
  <2>3. CASE role = "after"
    <3>1. "before" \in Roles \ Later(role) /\ "after" \in Roles \ Later(role)
      BY <1>6, <2>3 DEF Later
    <3>2. For(g, "before")' = For(g, "before")
      BY <1>1, <1>2, <1>3, <1>6, <3>1, SameFor
    <3>3. Ran(g, "before")' = Ran(g, "before")
      BY <1>2, <1>6, <2>3
    <3>4. content'[g]["after"] = content[g]["after"]
      BY <1>3, <3>1
    <3>5. Paired(g)' = Paired(g)
      BY <1>1, <3>3, <3>4 DEF Paired
    <3>6. Paired(g)' \subseteq Ran(g, "after")' \cup Left(g)'
      BY <1>0, <1>1, <1>2, <1>3, <2>3, <3>5 DEF CallOK
    <3>7. Guarded(g)'
      BY <1>0, <1>1, <1>2, <3>2, <3>3 DEF CallOK, Guarded
    <3> QED BY <1>0, <1>1, <1>5, <1>7, <2>3, <3>2, <3>3, <3>6, <3>7 DEF CallOK
  <2> QED BY <2>1, <2>2, <2>3 DEF Roles
<1>9. wrapping # "none"
  BY <1>1, BusyIsWrapped
<1>10. phase' \in [Goroutines -> Roles \cup {"idle", "inner"}] /\ op' \in [Goroutines -> Ops \cup {"none"}]
  BY <1>0, <1>1, CallTypes
<1>11. table' \in [Goroutines -> Tables \cup {Global}] /\ outcome' \in [Goroutines -> Outcomes]
  BY <1>0, <1>1, CallTypes
<1> QED BY <1>2, <1>3, <1>4, <1>8, <1>9, <1>10, <1>11, OneCall

\* A call ends.
LEMMA EndsMeans ==
    ASSUME TypeOK, NEW g \in Goroutines, NEW how \in Outcomes, Ends(g, how)
    PROVE  /\ phase' \in [Goroutines -> Roles \cup {"idle", "inner"}]
           /\ outcome' \in [Goroutines -> Outcomes]
           /\ todo' \in [Goroutines -> Seq(AnyEntry)]
           /\ phase'[g] = "idle" /\ outcome'[g] = how /\ ToSet(todo'[g]) = {}
           /\ \A u \in Goroutines \ {g} :
                 phase'[u] = phase[u] /\ outcome'[u] = outcome[u] /\ todo'[u] = todo[u]
<1>1. /\ phase' = [phase EXCEPT ![g] = "idle"] /\ outcome' = [outcome EXCEPT ![g] = how]
      /\ todo' = [todo EXCEPT ![g] = <<>>]
      /\ <<>> \in Seq(AnyEntry) /\ ToSet(<<>>) = {}
  BY DEF Ends, ToSet
<1>2. todo'[g] = <<>>
  BY <1>1, CallTypes
<1> QED BY <1>1, <1>2, CallTypes

\* A handler that takes the call over or fails ends it: nothing is promised of such a call but
\* that the inner driver was not reached ahead of a guard.
LEMMA StopKeeps ==
    ASSUME HookInv, NEW g \in Goroutines, NEW role \in Roles, NEW i \in Due(g), Invoke(g, role, i),
           NEW how \in Outcomes \ {"returned"}, Ends(g, how), UNCHANGED content
    PROVE  HookInv'
<1> DEFINE h == todo[g][i].handler
<1>0. TypeOK /\ WrapOK /\ CallOK(g)
  BY InvByCall
<1>1. /\ phase[g] = role /\ role \notin {"idle", "inner"}
      /\ UNCHANGED <<op, table, registry>>
      /\ wrapping' = wrapping /\ atInit' = atInit
  BY DEF Invoke, Roles, registry
<1>2. /\ h \in For(g, role)
      /\ Ran(g, role)' = Ran(g, role) \cup {h}
      /\ \A r \in Roles \ {role} : Ran(g, r)' = Ran(g, r)
      /\ InnerRan(g)' = InnerRan(g)
      /\ Entries' = Entries
      /\ ran' \in [Goroutines -> Seq(Events)]
      /\ \A u \in Goroutines \ {g} : ran'[u] = ran[u]
  BY InvokeMeans
<1>sameFor. \A r \in Roles : For(g, r)' = For(g, r)
  BY <1>1, <1>2, SameFor
<1> HIDE DEF h
<1>3. /\ phase' \in [Goroutines -> Roles \cup {"idle", "inner"}]
      /\ outcome' \in [Goroutines -> Outcomes]
      /\ todo' \in [Goroutines -> Seq(AnyEntry)]
      /\ phase'[g] = "idle" /\ outcome'[g] = how /\ ToSet(todo'[g]) = {}
      /\ \A u \in Goroutines \ {g} :
            phase'[u] = phase[u] /\ outcome'[u] = outcome[u] /\ todo'[u] = todo[u]
  BY <1>0, EndsMeans
<1>4. OnlyCall(g)
  BY <1>1, <1>2, <1>3 DEF OnlyCall, Untouched
<1>5. CallOK(g)'
  <2>1. Ran(g, "before")' \subseteq For(g, "before")' /\ ToSet(todo[g])' \subseteq Entries'
    BY <1>0, <1>2, <1>sameFor, <1>3 DEF CallOK, Roles
  <2>2. Guarded(g)'
    <3>1. CASE role = "after"
      BY <1>0, <1>1, <1>2, <1>sameFor, <1>3, <3>1 DEF CallOK, Guarded, Roles
    <3>2. CASE role \in {"handle", "before"}
      BY <1>0, <1>1, <1>2, <1>sameFor, <1>3, <3>2 DEF CallOK, Guarded
    <3> QED BY <3>1, <3>2 DEF Roles
  <2>3. Covered(g)'
    BY <1>3 DEF Covered
  <2> QED BY <1>3, <2>1, <2>2, <2>3 DEF CallOK, Roles
<1>6. wrapping # "none"
  BY <1>1, BusyIsWrapped
<1> QED BY <1>0, <1>1, <1>2, <1>3, <1>4, <1>5, <1>6, OneCall, CallTypes

\* Phases that nobody is left to run in.
LEMMA NobodyLeft ==
    ASSUME NEW g \in Goroutines, Due(g) = {}
    PROVE  Left(g) = {}
  BY DEF Left

\* A phase begins: everybody who is registered for it is still to run.
LEMMA EnterMeans ==
    ASSUME HookInv, NEW g \in Goroutines, NEW role \in Roles, Enter(g, role),
           UNCHANGED registry
    PROVE  /\ phase' \in [Goroutines -> Roles \cup {"idle", "inner"}]
           /\ todo' \in [Goroutines -> Seq(AnyEntry)]
           /\ phase'[g] = role /\ ToSet(todo'[g]) = Entries
           /\ Left(g)' = For(g, role)' /\ Entries' = Entries
           /\ \A u \in Goroutines \ {g} : phase'[u] = phase[u] /\ todo'[u] = todo[u]
<1>0. TypeOK
  BY InvByCall
<1> DEFINE s == Snapshot
<1>1. s \in Seq(AnyEntry) /\ ToSet(s) = Entries
  BY <1>0, EntryTypes
<1>2. phase' = [phase EXCEPT ![g] = role] /\ todo' = [todo EXCEPT ![g] = s]
  BY DEF Enter
<1> HIDE DEF s
<1>3. /\ phase' \in [Goroutines -> Roles \cup {"idle", "inner"}]
      /\ todo' \in [Goroutines -> Seq(AnyEntry)]
      /\ phase'[g] = role /\ todo'[g] = s
      /\ \A u \in Goroutines \ {g} : phase'[u] = phase[u] /\ todo'[u] = todo[u]
  BY <1>0, <1>1, <1>2, CallTypes
<1>4. Due(g)' = {k \in DOMAIN s : Matches(role, op'[g], table'[g], content'[g][role], s[k])}
  BY <1>3 DEF Due
<1>5. Left(g)' = 
           {s[k].handler : k \in {j \in DOMAIN s :
                                     Matches(role, op'[g], table'[g], content'[g][role], s[j])}}
  BY <1>3, <1>4 DEF Left
<1>6. Entries' = Entries
  BY DEF registry, Entries
<1>7. Left(g)' = For(g, role)'
  BY <1>1, <1>5, <1>6 DEF For, ToSet
<1> QED BY <1>1, <1>3, <1>6, <1>7

\* Nobody takes the call: those who were registered at TryInit are in the snapshot of before.
LEMMA NobodyTakesKeeps ==
    ASSUME HookInv, NEW g \in Goroutines, NobodyTakes(g)
    PROVE  HookInv'
<1>0. TypeOK /\ WrapOK /\ CallOK(g)
  BY InvByCall
<1>1. /\ phase[g] = "handle" /\ Enter(g, "before") /\ "before" \in Roles
      /\ UNCHANGED <<registry, op, table, content, ran, outcome>>
      /\ wrapping' = wrapping /\ atInit' = atInit
  BY DEF NobodyTakes, registry, Roles
<1>2. /\ phase' \in [Goroutines -> Roles \cup {"idle", "inner"}]
      /\ todo' \in [Goroutines -> Seq(AnyEntry)]
      /\ phase'[g] = "before" /\ ToSet(todo'[g]) = Entries
      /\ Left(g)' = For(g, "before")' /\ Entries' = Entries
      /\ \A u \in Goroutines \ {g} : phase'[u] = phase[u] /\ todo'[u] = todo[u]
  BY <1>1, EnterMeans
<1>3. For(g, "before")' = For(g, "before") /\ InnerRan(g)' = InnerRan(g) /\ \A r : Ran(g, r)' = Ran(g, r)
  BY <1>1, <1>2 DEF For, InnerRan, Ran
<1>4. OnlyCall(g)
  BY <1>1, <1>2 DEF OnlyCall, Untouched
<1>5. CallOK(g)'
  <2>1. Guarded(g)' /\ Covered(g)'
    BY <1>0, <1>1, <1>2, <1>3 DEF CallOK, Guarded, Covered
  <2> QED BY <1>0, <1>1, <1>2, <1>3, <2>1 DEF CallOK, Roles
<1>6. wrapping # "none"
  BY <1>1, BusyIsWrapped
<1> QED BY <1>0, <1>1, <1>2, <1>4, <1>5, <1>6, OneCall, CallTypes

\* The Before hooks are done: every guard has run when the inner driver is called.
LEMMA BeforeDoneKeeps ==
    ASSUME HookInv, NEW g \in Goroutines, BeforeDone(g)
    PROVE  HookInv'
<1>0. TypeOK /\ WrapOK /\ CallOK(g)
  BY InvByCall
<1>1. /\ phase[g] = "before" /\ "before" \in Roles /\ Left(g) = {}
      /\ UNCHANGED <<registry, op, table, content, ran>>
      /\ wrapping' = wrapping /\ atInit' = atInit
  BY NobodyLeft DEF BeforeDone, registry, Roles
<1>2. /\ For(g, "before")' = For(g, "before") /\ Entries' = Entries
      /\ InnerRan(g)' = InnerRan(g) /\ \A r : Ran(g, r)' = Ran(g, r)
      /\ Paired(g)' = Paired(g)
  BY <1>1 DEF For, InnerRan, Ran, Paired, registry, Entries
<1>3. wrapping # "none"
  BY <1>1, BusyIsWrapped
<1>4. CASE Ends(g, "unsupported")
  <2>1. /\ phase' \in [Goroutines -> Roles \cup {"idle", "inner"}]
        /\ outcome' \in [Goroutines -> Outcomes]
        /\ todo' \in [Goroutines -> Seq(AnyEntry)]
        /\ phase'[g] = "idle" /\ outcome'[g] = "unsupported" /\ ToSet(todo'[g]) = {}
        /\ \A u \in Goroutines \ {g} :
              phase'[u] = phase[u] /\ outcome'[u] = outcome[u] /\ todo'[u] = todo[u]
    BY <1>0, <1>4, EndsMeans DEF Outcomes
  <2>2. OnlyCall(g)
    BY <1>1, <2>1 DEF OnlyCall, Untouched
  <2>3. Guarded(g)' /\ Covered(g)'
    BY <1>0, <1>1, <1>2, <2>1 DEF CallOK, Guarded, Covered
  <2>4. CallOK(g)'
    BY <1>0, <1>1, <1>2, <2>1, <2>3 DEF CallOK, Roles
  <2> QED BY <1>0, <1>1, <1>3, <2>1, <2>2, <2>4, OneCall, CallTypes
<1>5. CASE /\ phase' = [phase EXCEPT ![g] = "inner"]
           /\ todo' = [todo EXCEPT ![g] = <<>>]
           /\ UNCHANGED outcome
  <2>1. /\ phase' \in [Goroutines -> Roles \cup {"idle", "inner"}]
        /\ todo' \in [Goroutines -> Seq(AnyEntry)]
        /\ phase'[g] = "inner" /\ todo'[g] = <<>>
        /\ \A u \in Goroutines \ {g} : phase'[u] = phase[u] /\ todo'[u] = todo[u]
    <3>1. <<>> \in Seq(AnyEntry)
      OBVIOUS
    <3> QED BY <1>0, <1>5, <3>1, CallTypes
  <2>2. OnlyCall(g)
    BY <1>1, <1>5, <2>1 DEF OnlyCall, Untouched
  <2>3. Guarded(g)' /\ Covered(g)'
    BY <1>0, <1>1, <1>2, <1>5, <2>1 DEF CallOK, Guarded, Covered
  <2>4. ToSet(todo'[g]) = {}
    BY <2>1 DEF ToSet
  <2>5. CallOK(g)'
    BY <1>0, <1>1, <1>2, <1>5, <2>1, <2>3, <2>4 DEF CallOK, Roles
  <2> QED BY <1>0, <1>1, <1>3, <1>5, <2>1, <2>2, <2>5, OneCall, CallTypes
<1> QED BY <1>4, <1>5 DEF BeforeDone

\* Whoever ran Before is asked for After too, whatever the value is then.
LEMMA BeforeThenAfter ==
    ASSUME HookInv, NEW g \in Goroutines, NEW h \in Ran(g, "before"), "after" \in Implements[h],
           NEW v, Match(h, op[g], table[g], v)
    PROVE  \E e \in Entries : h = e.handler /\ Matches("after", op[g], table[g], v, e)
<1>1. h \in For(g, "before")
  BY InvByCall DEF CallOK
<1>2. PICK e \in Entries :
         h = e.handler /\ Matches("before", op[g], table[g], content[g]["before"], e)
  BY <1>1 DEF For
<1>3. Matches("after", op[g], table[g], v, e)
  BY <1>2 DEF Matches
<1> QED BY <1>2, <1>3

\* The inner driver returns: a hooked call goes on to the After hooks, of which those who ran
\* Before are a part.
LEMMA InnerReturnsKeeps ==
    ASSUME HookInv, NEW g \in Goroutines, NEW failed \in BOOLEAN, InnerReturns(g, failed)
    PROVE  HookInv'
<1> DEFINE x == <<"inner">>
<1>0. TypeOK /\ WrapOK /\ CallOK(g)
  BY InvByCall
<1>1. /\ phase[g] = "inner" /\ "inner" \notin Roles
      /\ UNCHANGED <<registry, op, table>>
      /\ wrapping' = wrapping /\ atInit' = atInit
      /\ ran' = [ran EXCEPT ![g] = Append(ran[g], x)]
  BY DEF InnerReturns, registry, Roles
<1>2. wrapping # "none" /\ outcome[g] = "none"
  BY <1>0, <1>1, BusyIsWrapped DEF CallOK
<1>3. x \in Events /\ \A r \in Roles, h \in Handlers : x # <<r, h>>
  <2>1. x \in Events
    BY DEF Events
  <2> HIDE DEF x
  <2>2. \A r \in Roles, h \in Handlers : x # <<r, h>>
    BY EventsDiffer DEF x
  <2> QED BY <2>1, <2>2
<1> HIDE DEF x
<1>4. /\ Append(ran[g], x) \in Seq(Events) /\ ToSet(Append(ran[g], x)) = ToSet(ran[g]) \cup {x}
      /\ ran \in [Goroutines -> Seq(Events)]
  <2>1. ran[g] \in Seq(Events) /\ ran \in [Goroutines -> Seq(Events)]
    BY <1>0, CallTypes
  <2> QED BY <1>3, <2>1, AppendSet
<1>5. /\ ran' \in [Goroutines -> Seq(Events)]
      /\ ToSet(ran'[g]) = ToSet(ran[g]) \cup {x}
      /\ \A u \in Goroutines \ {g} : ran'[u] = ran[u]
  BY <1>1, <1>4
<1>6. \A r \in Roles : Ran(g, r)' = Ran(g, r)
  BY <1>3, <1>5 DEF Ran
<1>7. "before" \in Roles /\ "after" \in Roles /\ "before" \in Roles \ {"after"}
  BY DEF Roles
<1>change. /\ content' \in [Goroutines -> [Roles -> Contents \cup {Nil}]]
       /\ content'[g]["before"] = content[g]["before"]
       /\ \A u \in Goroutines \ {g} : content'[u] = content[u]
  <2>1. CASE UNCHANGED content
    BY <1>0, <2>1, CallTypes
  <2>2. CASE MayChange(g, {"after"})
    BY <1>0, <1>7, <2>2, ChangeMeans
  <2> QED BY <2>1, <2>2 DEF InnerReturns
<1>8. Entries' = Entries /\ For(g, "before")' = For(g, "before")
  <2>1. Entries' = Entries
    BY <1>1 DEF registry, Entries
  <2> QED BY <1>1, <1>7, <1>change, <2>1, SameFor
<1>9. Guarded(g)'
  <2>1. op[g] \in ValueOps => atInit \cap For(g, "before") \subseteq Ran(g, "before")
    BY <1>0, <1>1 DEF CallOK, Guarded
  <2> QED BY <1>1, <1>6, <1>8, <1>7, <2>1 DEF Guarded
<1>10. CASE (wrapping = "direct" \/ op[g] \in RawOps) /\ Ends(g, "returned")
  <2>1. /\ phase' \in [Goroutines -> Roles \cup {"idle", "inner"}]
        /\ outcome' \in [Goroutines -> Outcomes]
        /\ todo' \in [Goroutines -> Seq(AnyEntry)]
        /\ phase'[g] = "idle" /\ ToSet(todo'[g]) = {}
        /\ \A u \in Goroutines \ {g} :
              phase'[u] = phase[u] /\ outcome'[u] = outcome[u] /\ todo'[u] = todo[u]
    BY <1>0, <1>10, EndsMeans DEF Outcomes
  <2>2. Ran(g, "before")' = {}
    BY <1>0, <1>1, <1>6, <1>7, <1>10 DEF CallOK
  <2>3. OnlyCall(g)
    BY <1>1, <1>5, <1>change, <2>1 DEF OnlyCall, Untouched
  <2>4. CallOK(g)'
    BY <1>9, <2>1, <2>2 DEF CallOK, Covered, Paired, Roles
  <2> QED BY <1>0, <1>1, <1>2, <1>5, <1>change, <2>1, <2>3, <2>4, OneCall, CallTypes
<1>11. CASE ~(wrapping = "direct" \/ op[g] \in RawOps) /\ Enter(g, "after") /\ UNCHANGED outcome
  <2>1. /\ phase' \in [Goroutines -> Roles \cup {"idle", "inner"}]
        /\ todo' \in [Goroutines -> Seq(AnyEntry)]
        /\ phase'[g] = "after" /\ ToSet(todo'[g]) = Entries
        /\ Left(g)' = For(g, "after")'
        /\ \A u \in Goroutines \ {g} : phase'[u] = phase[u] /\ todo'[u] = todo[u]
    BY <1>1, <1>7, <1>11, EnterMeans
  <2>2. wrapping' = "hooked" /\ op'[g] \notin RawOps /\ outcome'[g] = "none"
    BY <1>0, <1>1, <1>2, <1>11 DEF TypeOK
  <2>3. Paired(g)' \subseteq Left(g)'
    <3> SUFFICES ASSUME NEW h \in Paired(g)' PROVE h \in For(g, "after")'
      BY <2>1
    <3>1. PICK v : v = content'[g]["after"]
      OBVIOUS
    <3>2. h \in Ran(g, "before") /\ "after" \in Implements[h] /\ Match(h, op[g], table[g], v)
      BY <1>1, <1>6, <1>7, <3>1 DEF Paired
    <3>3. PICK e \in Entries : h = e.handler /\ Matches("after", op[g], table[g], v, e)
      BY <3>2, BeforeThenAfter
    <3> QED BY <1>1, <1>8, <3>1, <3>3 DEF For
  <2>4. Ran(g, "before")' \subseteq For(g, "before")'
    BY <1>0, <1>6, <1>8, <1>7 DEF CallOK
  <2>5. OnlyCall(g)
    BY <1>1, <1>5, <1>11, <1>change, <2>1 DEF OnlyCall, Untouched
  <2>6. CallOK(g)'
    BY <1>8, <1>9, <2>1, <2>2, <2>3, <2>4 DEF CallOK, Covered
  <2> QED BY <1>0, <1>1, <1>2, <1>5, <1>11, <1>change, <2>1, <2>5, <2>6, OneCall, CallTypes
<1> QED BY <1>10, <1>11 DEF InnerReturns

\* The After hooks are done: everybody who ran Before was among them.
LEMMA AfterDoneKeeps ==
    ASSUME HookInv, NEW g \in Goroutines, AfterDone(g)
    PROVE  HookInv'
<1>0. TypeOK /\ WrapOK /\ CallOK(g)
  BY InvByCall
<1>1. /\ phase[g] = "after" /\ Left(g) = {} /\ Ends(g, "returned")
      /\ UNCHANGED <<registry, op, table, content, ran>>
      /\ wrapping' = wrapping /\ atInit' = atInit
  BY NobodyLeft DEF AfterDone, registry
<1>2. /\ For(g, "before")' = For(g, "before") /\ Entries' = Entries
      /\ InnerRan(g)' = InnerRan(g) /\ \A r : Ran(g, r)' = Ran(g, r)
      /\ Paired(g)' = Paired(g)
  BY <1>1 DEF For, InnerRan, Ran, Paired, registry, Entries
<1>3. wrapping # "none"
  BY <1>1, BusyIsWrapped
<1>4. /\ phase' \in [Goroutines -> Roles \cup {"idle", "inner"}]
      /\ outcome' \in [Goroutines -> Outcomes]
      /\ todo' \in [Goroutines -> Seq(AnyEntry)]
      /\ phase'[g] = "idle" /\ ToSet(todo'[g]) = {}
      /\ \A u \in Goroutines \ {g} :
            phase'[u] = phase[u] /\ outcome'[u] = outcome[u] /\ todo'[u] = todo[u]
  BY <1>0, <1>1, EndsMeans DEF Outcomes
<1>5. OnlyCall(g)
  BY <1>1, <1>4 DEF OnlyCall, Untouched
<1>6. Guarded(g)' /\ Covered(g)'
  BY <1>0, <1>1, <1>2, <1>4 DEF CallOK, Guarded, Covered
<1>7. CallOK(g)'
  BY <1>0, <1>1, <1>2, <1>4, <1>6 DEF CallOK, Roles
<1> QED BY <1>0, <1>1, <1>3, <1>4, <1>5, <1>7, OneCall, CallTypes

\* A call begins with nothing run.
LEMMA CallKeeps ==
    ASSUME HookInv, NEW g \in Goroutines, Call(g)
    PROVE  HookInv'
<1>0. TypeOK /\ WrapOK /\ CallOK(g)
  BY InvByCall
<1>1. PICK o \in Ops, t \in Tables, v \in Contents :
          /\ op' = [op EXCEPT ![g] = o]
          /\ table' = [table EXCEPT ![g] = IF o \in ValueOps THEN t ELSE Global]
          /\ content' = [content EXCEPT ![g] = [r \in Roles |-> IF o \in ValueOps THEN v ELSE Nil]]
          /\ ran' = [ran EXCEPT ![g] = <<>>]
          /\ IF wrapping = "direct" \/ o \in RawOps
             THEN IF o \in OptionalOps \ inner.has
                  THEN Ends(g, "unsupported")
                  ELSE /\ phase' = [phase EXCEPT ![g] = "inner"]
                       /\ outcome' = [outcome EXCEPT ![g] = "none"]
                       /\ UNCHANGED todo
             ELSE /\ Enter(g, "handle")
                  /\ outcome' = [outcome EXCEPT ![g] = "none"]
  BY DEF Call
<1>2. /\ UNCHANGED registry /\ wrapping' = wrapping /\ atInit' = atInit /\ wrapping # "none"
      /\ wrapping \in {"none", "direct", "hooked"} /\ "none" \in Outcomes
      /\ Entries' = Entries
  BY <1>0 DEF Call, registry, Outcomes, TypeOK, Entries
<1>3. /\ op' \in [Goroutines -> Ops \cup {"none"}] /\ op'[g] = o
      /\ table' \in [Goroutines -> Tables \cup {Global}]
      /\ ran' \in [Goroutines -> Seq(Events)] /\ ran'[g] = <<>>
      /\ content' \in [Goroutines -> [Roles -> Contents \cup {Nil}]]
      /\ \A u \in Goroutines \ {g} : /\ op'[u] = op[u] /\ table'[u] = table[u] /\ ran'[u] = ran[u]
                                     /\ content'[u] = content[u]
  <2>1. /\ <<>> \in Seq(Events) /\ (IF o \in ValueOps THEN t ELSE Global) \in Tables \cup {Global}
        /\ [r \in Roles |-> IF o \in ValueOps THEN v ELSE Nil] \in [Roles -> Contents \cup {Nil}]
    OBVIOUS
  <2> QED BY <1>0, <1>1, <2>1, CallTypes
<1>4. ~InnerRan(g)' /\ Paired(g)' = {} /\ \A r : Ran(g, r)' = {}
  <2>1. ToSet(ran'[g]) = {}
    BY <1>3 DEF ToSet
  <2>2. \A r : Ran(g, r)' = {}
    BY <2>1 DEF Ran
  <2> QED BY <2>1, <2>2 DEF InnerRan, Paired
<1>5. CASE Ends(g, "unsupported")
  <2>1. /\ phase' \in [Goroutines -> Roles \cup {"idle", "inner"}]
        /\ outcome' \in [Goroutines -> Outcomes]
        /\ todo' \in [Goroutines -> Seq(AnyEntry)]
        /\ phase'[g] = "idle" /\ ToSet(todo'[g]) = {}
        /\ \A u \in Goroutines \ {g} :
              phase'[u] = phase[u] /\ outcome'[u] = outcome[u] /\ todo'[u] = todo[u]
    BY <1>0, <1>5, EndsMeans DEF Outcomes
  <2>2. OnlyCall(g)
    BY <1>2, <1>3, <2>1 DEF OnlyCall, Untouched
  <2>3. CallOK(g)'
    BY <1>4, <2>1 DEF CallOK, Guarded, Covered, Roles
  <2> QED BY <1>2, <1>3, <2>1, <2>2, <2>3, OneCall
<1>6. CASE /\ wrapping = "direct" \/ o \in RawOps
           /\ phase' = [phase EXCEPT ![g] = "inner"]
           /\ outcome' = [outcome EXCEPT ![g] = "none"]
           /\ UNCHANGED todo
  <2>1. /\ phase' \in [Goroutines -> Roles \cup {"idle", "inner"}] /\ phase'[g] = "inner"
        /\ outcome' \in [Goroutines -> Outcomes] /\ outcome'[g] = "none"
        /\ todo' \in [Goroutines -> Seq(AnyEntry)]
        /\ \A u \in Goroutines \ {g} :
              phase'[u] = phase[u] /\ outcome'[u] = outcome[u] /\ todo'[u] = todo[u]
    BY <1>0, <1>2, <1>6, CallTypes
  <2>2. OnlyCall(g)
    BY <1>2, <1>3, <2>1 DEF OnlyCall, Untouched
  <2>3. Guarded(g)'
    <3>1. CASE wrapping = "direct"
      BY <1>0, <1>2, <3>1 DEF WrapOK, Guarded
    <3>2. CASE o \in RawOps
      BY <1>3, <3>2 DEF Guarded, RawOps, ValueOps
    <3> QED BY <1>6, <3>1, <3>2
  <2>4. CallOK(g)'
    BY <1>0, <1>2, <1>4, <1>6, <2>1, <2>3 DEF CallOK, Covered, Roles
  <2> QED BY <1>2, <1>3, <2>1, <2>2, <2>4, OneCall
<1>7. CASE /\ ~(wrapping = "direct" \/ o \in RawOps)
           /\ Enter(g, "handle")
           /\ outcome' = [outcome EXCEPT ![g] = "none"]
  <2>1. /\ phase' \in [Goroutines -> Roles \cup {"idle", "inner"}] /\ phase'[g] = "handle"
        /\ todo' \in [Goroutines -> Seq(AnyEntry)] /\ ToSet(todo'[g]) = Entries
        /\ \A u \in Goroutines \ {g} : phase'[u] = phase[u] /\ todo'[u] = todo[u]
    BY <1>2, <1>7, EnterMeans DEF Roles
  <2>2. /\ outcome' \in [Goroutines -> Outcomes] /\ outcome'[g] = "none"
        /\ \A u \in Goroutines \ {g} : outcome'[u] = outcome[u]
    BY <1>0, <1>2, <1>7, CallTypes
  <2>3. OnlyCall(g)
    BY <1>2, <1>3, <2>1, <2>2 DEF OnlyCall, Untouched
  <2>4. Guarded(g)' /\ Covered(g)'
    BY <1>4, <2>1, <2>2 DEF Guarded, Covered
  <2>5. CallOK(g)'
    BY <1>2, <1>3, <1>4, <1>7, <2>1, <2>2, <2>4 DEF CallOK
  <2> QED BY <1>2, <1>3, <2>1, <2>2, <2>3, <2>5, OneCall
<1> QED BY <1>1, <1>5, <1>6, <1>7

---------------------------------------------------------------------------
(* The theorems.                                                           *)

\* The invariant holds before TryInit.
LEMMA HookInit == Init => HookInv
<1> SUFFICES ASSUME Init PROVE HookInv
  OBVIOUS
<1>1. TypeOK
  BY DEF Init, TypeOK, Roles, Outcomes
<1>2. WrapOK
  BY DEF Init, WrapOK
<1>3. ASSUME NEW g \in Goroutines PROVE CallOK(g)
  <2>1. /\ phase[g] = "idle" /\ op[g] = "none" /\ ran[g] = <<>> /\ todo[g] = <<>> /\ outcome[g] = "none"
        /\ "idle" \notin Roles /\ "none" \notin ValueOps
    BY DEF Init, Roles, ValueOps
  <2>2. ToSet(ran[g]) = {} /\ ToSet(todo[g]) = {}
    BY <2>1 DEF ToSet
  <2>3. Paired(g) = {} /\ \A r : Ran(g, r) = {}
    BY <2>2 DEF Ran, Paired
  <2> QED BY <2>1, <2>2, <2>3 DEF CallOK, Guarded, Covered
<1> QED BY <1>1, <1>2, <1>3, InvByCall

\* Every step keeps it.
LEMMA HookStep == HookInv /\ [Next]_vars => HookInv'
<1> SUFFICES ASSUME HookInv, [Next]_vars PROVE HookInv'
  OBVIOUS
<1>1. ASSUME NEW h \in Handlers, Register(h) PROVE HookInv'
  BY <1>1, RegisterKeeps
<1>2. CASE Wrap
  BY <1>2, WrapKeeps
<1>3. ASSUME NEW g \in Goroutines, Call(g) PROVE HookInv'
  BY <1>3, CallKeeps
<1>4. ASSUME NEW g \in Goroutines, Step(g) PROVE HookInv'
  <2>1. CASE HandlerPasses(g) \/ BeforePasses(g) \/ AfterPasses(g)
    <3>1. PICK role \in Roles, i \in Due(g) : Invoke(g, role, i) /\ GoesOn(g, i)
      BY <2>1 DEF HandlerPasses, BeforePasses, AfterPasses, Roles
    <3> QED BY <3>1, PassKeeps
  <2>2. CASE HandlerTakes(g) \/ BeforeRefuses(g) \/ AfterFails(g)
    <3>1. PICK role \in Roles, i \in Due(g), how \in Outcomes \ {"returned"} :
              Invoke(g, role, i) /\ Ends(g, how) /\ UNCHANGED content
      <4>1. /\ {"handle", "before", "after"} \subseteq Roles
            /\ {"handled", "refused", "afterFailed"} \subseteq Outcomes \ {"returned"}
        BY DEF Roles, Outcomes
      <4> QED BY <2>2, <4>1 DEF HandlerTakes, BeforeRefuses, AfterFails
    <3> QED BY <3>1, StopKeeps
  <2>3. CASE NobodyTakes(g)
    BY <2>3, NobodyTakesKeeps
  <2>4. CASE BeforeDone(g)
    BY <2>4, BeforeDoneKeeps
  <2>5. CASE \E failed \in BOOLEAN : InnerReturns(g, failed)
    BY <2>5, InnerReturnsKeeps
  <2>6. CASE AfterDone(g)
    BY <2>6, AfterDoneKeeps
  <2> QED BY <1>4, <2>1, <2>2, <2>3, <2>4, <2>5, <2>6 DEF Step
<1>5. CASE UNCHANGED vars
  <2>1. /\ UNCHANGED registry
        /\ UNCHANGED <<phase, op, table, content, todo, ran, outcome>>
    BY <1>5 DEF vars, registry
  <2>2. TypeOK'
    BY <2>1 DEF HookInv, TypeOK, registry
  <2>3. WrapOK'
    BY <2>1 DEF HookInv, WrapOK, registry, Registered, Entries
  <2>4. ASSUME NEW g \in Goroutines PROVE CallOK(g)'
    BY <2>1, InvByCall, OthersKeep DEF Untouched
  <2> QED BY <2>2, <2>3, <2>4, InvByCallNext
<1> QED BY <1>1, <1>2, <1>3, <1>4, <1>5 DEF Next

\* What registry and wrapped driver keep, whatever is registered during a call.
THEOREM HookInductive == Spec => []HookInv
  BY HookInit, HookStep, PTL DEF Spec

\* The lists of the registry and the state of every call keep their types; the handlers without
\* a table are in the list of their own.
THEOREM HookTypes == Spec => []TypeOK
<1>1. HookInv => TypeOK
  BY DEF HookInv
<1> QED BY <1>1, HookInductive, PTL

\* The inner driver is never reached ahead of a Before hook that was there at TryInit.
THEOREM HookGuardsRun == Spec => []GuardsRun
<1>1. HookInv => GuardsRun
  BY DEF HookInv
<1> QED BY <1>1, HookInductive, PTL

\* Whoever ran Before of a call that returned has run After, when it accepts the value as the
\* call has left it.
THEOREM HookAfterCoversBefore == Spec => []AfterCoversBefore
<1>1. HookInv => AfterCoversBefore
  BY DEF HookInv
<1> QED BY <1>1, HookInductive, PTL
===========================================================================
