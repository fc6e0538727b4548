--------------------------- MODULE HandlerHooks ---------------------------
(***************************************************************************)
(* orm/drivers/internal/hook: the registry of table handlers and the       *)
(* driver that runs them around the calls into the inner driver.           *)
(*                                                                         *)
(* A call goes through the handlers that may take it over ("handle"), the  *)
(* Before hooks, the inner driver and the After hooks.  Each of these      *)
(* phases takes its own snapshot of the registry, to which other           *)
(* goroutines (or a handler itself) may have added in the meantime, and    *)
(* asks the handlers in it with the value as it then is.  The value is the *)
(* caller's: hooks may write to it, and Get and a versioned Save do.       *)
(* Save stands for Get and Delete as well, Find for Count, Exec for Query, *)
(* QueryRow, RunInTx and Ping: their control is the same.                  *)
(***************************************************************************)
EXTENDS Naturals, Sequences, SequencesExt

CONSTANTS
    Goroutines,   \* callers of the wrapped driver
    Handlers,     \* the registrations, each a handler of its own
    Tables,       \* message names
    Global,       \* the empty table name: a handler for every table
    Ops,          \* the operations the callers use
    Contents,     \* what Match can tell apart of a value
    Nil,          \* no value
    Accepts,      \* Accepts[h]: the <<op, table, content>> that Match of h accepts
    Implements,   \* Implements[h]: which optional interfaces h has
    InnerDrivers  \* the kinds of inner driver

ValueOps    == {"Save", "Find"}
AdminOps    == {"InitDB", "CloseDB"}
RawOps      == {"Exec"}
OptionalOps == {"Find", "Exec"}
Roles       == {"handle", "before", "after"}
Outcomes    == {"none", "handled", "refused", "unsupported", "returned", "afterFailed"}

ASSUME HooksAssumption ==
    /\ Ops \subseteq ValueOps \cup AdminOps \cup RawOps
    /\ Global \notin Tables
    /\ Accepts \in [Handlers -> SUBSET (Ops \X (Tables \cup {Global}) \X (Contents \cup {Nil}))]
    /\ Implements \in [Handlers -> SUBSET Roles]
    /\ InnerDrivers \subseteq [full : BOOLEAN, has : SUBSET OptionalOps]
    /\ \A d \in InnerDrivers : d.full => "Find" \in d.has

VARIABLES
    entries,    \* HandlerRegistry.entries: handlers of one table, in order
    fallback,   \* HandlerRegistry.fallback: the global handlers, in order
    inner,      \* the inner driver: a full driverapi.Driver or not, its optional operations
    wrapping,   \* what hook.Wrap returned to TryInit
    atInit,     \* the handlers registered when it did (history)
    phase,      \* phase[g]: where the call of g is
    op,         \* op[g], table[g]: the call and the table of its value
    table,
    content,    \* content[g][r]: the value when phase r asked, before it what the value is now
    todo,       \* todo[g]: the rest of the phase's snapshot of the registry
    ran,        \* ran[g]: the invocations of the call, in order (history)
    outcome     \* outcome[g]: how the last call of g ended (history)

vars == <<entries, fallback, inner, wrapping, atInit, phase, op, table, content, todo, ran,
          outcome>>

TypeOK ==
    /\ entries \in Seq([table : Tables, handler : Handlers])
    /\ fallback \in Seq([table : {Global}, handler : Handlers])
    /\ inner \in InnerDrivers
    /\ wrapping \in {"none", "direct", "hooked"}
    /\ atInit \subseteq Handlers
    /\ phase \in [Goroutines -> Roles \cup {"idle", "inner"}]
    /\ op \in [Goroutines -> Ops \cup {"none"}]
    /\ table \in [Goroutines -> Tables \cup {Global}]
    /\ content \in [Goroutines -> [Roles -> Contents \cup {Nil}]]
    /\ todo \in [Goroutines -> Seq([table : Tables \cup {Global}, handler : Handlers])]
    /\ ran \in [Goroutines -> Seq((Roles \X Handlers) \cup {<<"inner">>})]
    /\ outcome \in [Goroutines -> Outcomes]

Init ==
    /\ entries = <<>>
    /\ fallback = <<>>
    /\ inner \in InnerDrivers
    /\ wrapping = "none"
    /\ atInit = {}
    /\ phase = [g \in Goroutines |-> "idle"]
    /\ op = [g \in Goroutines |-> "none"]
    /\ table = [g \in Goroutines |-> Global]
    /\ content = [g \in Goroutines |-> [r \in Roles |-> Nil]]
    /\ todo = [g \in Goroutines |-> <<>>]
    /\ ran = [g \in Goroutines |-> <<>>]
    /\ outcome = [g \in Goroutines |-> "none"]

callVars == <<phase, op, table, content, todo, ran, outcome>>
registry == <<entries, fallback, inner, wrapping, atInit>>

---------------------------------------------------------------------------
(* The registry.                                                           *)

\* handlerEntry: a handler and the table it is registered for.
Entry(t, h) == [table |-> t, handler |-> h]
Entries     == ToSet(entries) \cup ToSet(fallback)
Registered  == {e.handler : e \in Entries}

\* Mutant: the global handlers are kept among the named ones, under the empty table name.
Register_Untyped(h) ==
    /\ h \notin Registered
    /\ \E t \in Tables \cup {Global} : entries' = Append(entries, Entry(t, h))
    /\ UNCHANGED <<fallback, inner, wrapping, atInit, callVars>>

\* Register and RegisterGlobal, at any time.
Register(h) ==
    /\ h \notin Registered
    /\ \/ \E t \in Tables : entries' = Append(entries, Entry(t, h))
          /\ UNCHANGED fallback
       \/ fallback' = Append(fallback, Entry(Global, h))
          /\ UNCHANGED entries
    /\ UNCHANGED <<inner, wrapping, atInit, callVars>>

\* What a phase takes under the read lock: the handlers of tables, then the global ones.
Snapshot == entries \o fallback

\* Match: a handler accepts the operation, the table and the value.
Match(h, o, t, v) == <<o, t, v>> \in Accepts[h]

\* Whether a phase invokes the handler of an entry.  match asks the handlers of the value's
\* table and the global ones; for InitDB and CloseDB every handler is asked with the table it
\* is registered for and nil, and nil matches nobody before and after the inner call.
Matches(role, o, t, v, e) ==
    /\ role \in Implements[e.handler]
    /\ IF o \in AdminOps
       THEN role = "handle" /\ Match(e.handler, o, e.table, Nil)
       ELSE e.table \in {t, Global} /\ Match(e.handler, o, t, v)

---------------------------------------------------------------------------
(* The wrapped driver.                                                     *)

\* Mutant: a full driver is never wrapped.
Wrap_IgnoresHandlers ==
    /\ wrapping = "none"
    /\ wrapping' = IF inner.full THEN "direct" ELSE "hooked"
    /\ atInit' = Registered
    /\ UNCHANGED <<entries, fallback, inner, callVars>>

\* Wrap, called once by TryInit: without handlers a full driver is published as it is.
Wrap ==
    /\ wrapping = "none"
    /\ wrapping' = IF Registered = {} /\ inner.full THEN "direct" ELSE "hooked"
    /\ atInit' = Registered
    /\ UNCHANGED <<entries, fallback, inner, callVars>>

Enter(g, role) ==
    /\ phase' = [phase EXCEPT ![g] = role]
    /\ todo' = [todo EXCEPT ![g] = Snapshot]

\* The phases after a phase.
Later(role) == CASE role = "handle" -> {"before", "after"}
                 [] role = "before" -> {"after"}
                 [] role = "after"  -> {}

\* The value may change ahead of these phases.
MayChange(g, phases) ==
    \E v \in Contents :
        content' = [content EXCEPT ![g] =
                       [r \in Roles |-> IF r \in phases /\ op[g] \in ValueOps THEN v ELSE @[r]]]

Ends(g, how) ==
    /\ phase' = [phase EXCEPT ![g] = "idle"]
    /\ todo' = [todo EXCEPT ![g] = <<>>]
    /\ outcome' = [outcome EXCEPT ![g] = how]

\* A call begins.  Only the hooked driver looks at handlers, and not for raw operations.
Call(g) ==
    /\ phase[g] = "idle"
    /\ wrapping # "none"
    /\ \E o \in Ops, t \in Tables, v \in Contents :
          /\ op' = [op EXCEPT ![g] = o]
          /\ table' = [table EXCEPT ![g] = IF o \in ValueOps THEN t ELSE Global]
          /\ content' = [content EXCEPT ![g] = [r \in Roles |-> IF o \in ValueOps THEN v ELSE Nil]]
          /\ ran' = [ran EXCEPT ![g] = <<>>]
          /\ IF wrapping = "direct" \/ o \in RawOps
             THEN IF o \in OptionalOps \ inner.has
                  THEN Ends(g, "unsupported")
                  ELSE /\ phase' = [phase EXCEPT ![g] = "inner"]
                       /\ outcome' = [outcome EXCEPT ![g] = "none"]
                       /\ UNCHANGED todo
             ELSE /\ Enter(g, "handle")
                  /\ outcome' = [outcome EXCEPT ![g] = "none"]
    /\ UNCHANGED registry

\* The places in the rest of the snapshot whose handlers the phase has yet to invoke.
Due(g) == {i \in DOMAIN todo[g] :
              Matches(phase[g], op[g], table[g], content[g][phase[g]], todo[g][i])}

\* Invoke the next handler of the phase.
Invoke(g, role, i) ==
    /\ phase[g] = role
    /\ \A j \in Due(g) : i <= j
    /\ ran' = [ran EXCEPT ![g] = Append(@, <<role, todo[g][i].handler>>)]
    /\ UNCHANGED <<registry, op, table>>

\* It lets the call go on; it may have changed the value, which the next phases see.
GoesOn(g, i) ==
    /\ MayChange(g, Later(phase[g]))
    /\ todo' = [todo EXCEPT ![g] = SubSeq(@, i + 1, Len(@))]
    /\ UNCHANGED <<phase, outcome>>

HandlerPasses(g) == \E i \in Due(g) : Invoke(g, "handle", i) /\ GoesOn(g, i)

\* Handled: its result is the result of the call, whatever else is registered.
HandlerTakes(g) == \E i \in Due(g) : Invoke(g, "handle", i) /\ Ends(g, "handled") /\ UNCHANGED content

NobodyTakes(g) ==
    /\ phase[g] = "handle"
    /\ Due(g) = {}
    /\ Enter(g, "before")
    /\ UNCHANGED <<registry, op, table, content, ran, outcome>>

BeforePasses(g) == \E i \in Due(g) : Invoke(g, "before", i) /\ GoesOn(g, i)
BeforeRefuses(g) == \E i \in Due(g) : Invoke(g, "before", i) /\ Ends(g, "refused") /\ UNCHANGED content

\* The Before hooks are done; Find of a driver without it ends here.
BeforeDone(g) ==
    /\ phase[g] = "before"
    /\ Due(g) = {}
    /\ IF op[g] \in OptionalOps \ inner.has
       THEN Ends(g, "unsupported")
       ELSE /\ phase' = [phase EXCEPT ![g] = "inner"]
            /\ todo' = [todo EXCEPT ![g] = <<>>]
            /\ UNCHANGED outcome
    /\ UNCHANGED <<registry, op, table, content, ran>>

\* Mutant: the After hooks are skipped when the inner driver fails.
InnerReturns_AfterOnSuccess(g, failed) ==
    /\ phase[g] = "inner"
    /\ ran' = [ran EXCEPT ![g] = Append(@, <<"inner">>)]
    /\ IF wrapping = "direct" \/ op[g] \in RawOps \/ failed
       THEN Ends(g, "returned") /\ UNCHANGED content
       ELSE /\ Enter(g, "after")
            /\ IF op[g] = "Save" THEN MayChange(g, {"after"}) ELSE UNCHANGED content
            /\ UNCHANGED outcome
    /\ UNCHANGED <<registry, op, table>>

\* The inner driver returns, with or without an error.  Find leaves its condition alone.
InnerReturns(g, failed) ==
    /\ phase[g] = "inner"
    /\ ran' = [ran EXCEPT ![g] = Append(@, <<"inner">>)]
    /\ IF wrapping = "direct" \/ op[g] \in RawOps
       THEN Ends(g, "returned") /\ UNCHANGED content
       ELSE /\ Enter(g, "after")
            /\ IF op[g] = "Save" THEN MayChange(g, {"after"}) ELSE UNCHANGED content
            /\ UNCHANGED outcome
    /\ UNCHANGED <<registry, op, table>>

AfterPasses(g) == \E i \in Due(g) : Invoke(g, "after", i) /\ GoesOn(g, i)
AfterFails(g)  == \E i \in Due(g) : Invoke(g, "after", i) /\ Ends(g, "afterFailed") /\ UNCHANGED content

AfterDone(g) ==
    /\ phase[g] = "after"
    /\ Due(g) = {}
    /\ Ends(g, "returned")
    /\ UNCHANGED <<registry, op, table, content, ran>>

Step(g) ==
    \/ HandlerPasses(g) \/ HandlerTakes(g) \/ NobodyTakes(g)
    \/ BeforePasses(g) \/ BeforeRefuses(g) \/ BeforeDone(g)
    \/ \E failed \in BOOLEAN : InnerReturns(g, failed)
    \/ AfterPasses(g) \/ AfterFails(g) \/ AfterDone(g)

Next ==
    \/ \E h \in Handlers : Register(h)
    \/ Wrap
    \/ \E g \in Goroutines : Call(g) \/ Step(g)

Spec == Init /\ [][Next]_vars

---------------------------------------------------------------------------
Ran(g, role)  == {h \in Handlers : <<role, h>> \in ToSet(ran[g])}
InnerRan(g)   == <<"inner">> \in ToSet(ran[g])

\* The handlers with a role that the registry has for a call, as the phase asks them.
For(g, role) ==
    {e.handler : e \in {x \in Entries : Matches(role, op[g], table[g], content[g][role], x)}}

\* A Before hook that is registered when TryInit wraps the driver guards every later call on
\* its table whose value it accepts: the inner driver is never reached ahead of it, whatever
\* is registered during the call.
GuardsRun ==
    \A g \in Goroutines :
        op[g] \in ValueOps /\ (InnerRan(g) \/ phase[g] = "inner") =>
            atInit \cap For(g, "before") \subseteq Ran(g, "before")

\* Those that ran Before and accept the value as it is when After asks.
Paired(g) ==
    {h \in Ran(g, "before") :
        "after" \in Implements[h] /\ Match(h, op[g], table[g], content[g]["after"])}

\* Handlers that a call with an inner call ran Before get their After, although after takes
\* a snapshot of its own, unless an After hook fails or the call has changed the value into
\* one they do not accept.
AfterCoversBefore ==
    \A g \in Goroutines : outcome[g] = "returned" => Paired(g) \subseteq Ran(g, "after")

---------------------------------------------------------------------------
(* The inductive invariant.                                                *)

\* What the phase of a call has yet to invoke.
Left(g) == {todo[g][i].handler : i \in Due(g)}

\* There are no calls before TryInit has wrapped the driver.  Handlers are never removed, and a
\* driver that is not wrapped had none.
WrapOK ==
    /\ atInit \subseteq Registered
    /\ wrapping = "direct" => atInit = {}
    /\ wrapping = "none" => \A g \in Goroutines : op[g] = "none" /\ phase[g] = "idle"

\* The phases of a call: which calls have them, and what a call that has not ended says.
PhasesOK ==
    \A g \in Goroutines :
        /\ phase[g] \in Roles => wrapping = "hooked" /\ op[g] \notin RawOps
        /\ phase[g] # "idle" => outcome[g] = "none"
        /\ phase[g] \in {"handle", "before"} => ~InnerRan(g)
        /\ phase[g] = "handle" => Ran(g, "before") = {}
        /\ phase[g] = "inner" /\ (wrapping = "direct" \/ op[g] \in RawOps) =>
               Ran(g, "before") = {}

\* Snapshots are old registries, and who ran Before has an entry for the call.
SnapshotsOK ==
    \A g \in Goroutines : ToSet(todo[g]) \subseteq Entries /\ Ran(g, "before") \subseteq For(g, "before")

\* Within a phase a handler has run or is yet to run.
ProgressOK ==
    \A g \in Goroutines :
        /\ phase[g] = "before" =>
               atInit \cap For(g, "before") \subseteq Ran(g, "before") \cup Left(g)
        /\ phase[g] = "after" =>
               Paired(g) \subseteq Ran(g, "after") \cup Left(g)

HookInv ==
    /\ TypeOK /\ WrapOK /\ PhasesOK /\ SnapshotsOK /\ ProgressOK
    /\ GuardsRun /\ AfterCoversBefore

===========================================================================
