-------------------------- MODULE DynamicRegistry --------------------------
(***************************************************************************)
(* The registry of dynamic tools (dynamic_tools.py, class DynamicRegistry) *)
(* over the live Python namespace it observes.                             *)
(*                                                                         *)
(* A registration advertises a tool name backed by a top-level name of the *)
(* namespace.  It remembers the object that was bound there, the object's  *)
(* signature token and the input schema derived from them.  User code may  *)
(* rebind names, change an object's signature state in place, or rebind a  *)
(* global that a string annotation refers to; reconcile finds out later.   *)
(*                                                                         *)
(* Each registry method is one action, in terms of which OwnerOperations   *)
(* builds the runtime's operations.  What a method returns as              *)
(* catalog_changed is the state predicate defined beside it.               *)
(***************************************************************************)
EXTENDS Naturals, FiniteSets

CONSTANTS
    Names,             \* top-level names of user_ns
    ProtectedNames,    \* those that runtime._is_protected_name protects
    Tools,             \* tool names that _valid_tool_name accepts
    StableTools,       \* the tools the server itself publishes
    Descriptions,      \* bounded descriptions: a text and whether it was cut
    Callables,         \* callable objects user code can bind
    Modules,           \* module objects: values that are not callable
    Tokens,            \* signature-affecting states an object can be in
    Globals,           \* values of what string annotations refer to
    Derive,            \* the schema derived from a token and the globals
    Unsupported,       \* what Derive yields when deriving raises
    MaxDynamicTools,   \* config.max_dynamic_tools
    MaxRevision,       \* bound on the revision counter, for TLC
    Unbound,           \* a name that is not in user_ns
    NoEntry,           \* a tool name that is not in _entries
    NoTool             \* a name that is not in _symbols

Schemas == {Derive[k][g] : k \in Tokens, g \in Globals} \ {Unsupported}
Values == Callables \cup Modules
States == {"active", "stale"}
Texts == {d.text : d \in Descriptions}

ASSUME NamesAssumption == ProtectedNames \subseteq Names /\ StableTools \subseteq Tools
ASSUME ToolsFinite == IsFiniteSet(Tools)
ASSUME LimitAssumption == MaxDynamicTools \in Nat \ {0} /\ MaxRevision \in Nat
ASSUME DescriptionsAssumption == \A d \in Descriptions : d.truncated \in BOOLEAN
ASSUME NullAssumption == /\ Unbound \notin Values
                         /\ NoTool \notin Tools
                         /\ Callables \cap Modules = {}

(***************************************************************************)
(* RegistryEntry: the fields the methods read.                             *)
(***************************************************************************)
Entry == [backing : Names, desc : Texts, truncated : BOOLEAN, schema : Schemas,
          obj : Callables, token : Tokens, state : States]

ASSUME NoEntryAssumption == NoEntry \notin Entry

VARIABLES
    ns,         \* user_ns: what each name is bound to
    sig,        \* signature-affecting state of each callable object
    globals,    \* what the string annotations of callables resolve to
    entries,    \* _entries
    symbols,    \* _symbols: the tool a backing name is registered as
    revision,   \* revision
    closed      \* close() has run

liveVars == <<ns, sig, globals>>
registryVars == <<entries, symbols, revision, closed>>
vars == <<ns, sig, globals, entries, symbols, revision, closed>>

Registered == {t \in Tools : entries[t] # NoEntry}
Active(t) == t \in Registered /\ entries[t].state = "active"

\* What a client sees listed: the active tools.  That a description was cut is
\* told in the answer of register_tool only.
Catalog == {<<t, entries[t].schema, entries[t].desc>> : t \in {u \in Tools : Active(u)}}

\* derive_callable_spec of the object c as it is now.
DerivedSchema(c) == Derive[sig[c]][globals]

Init ==
    /\ ns \in [Names -> Values \cup {Unbound}]
    /\ sig \in [Callables -> Tokens]
    /\ globals \in Globals
    /\ entries = [t \in Tools |-> NoEntry]
    /\ symbols = [n \in Names |-> NoTool]
    /\ revision = 0
    /\ closed = FALSE

(***************************************************************************)
(* User code.                                                              *)
(***************************************************************************)
Rebind(n, v) ==
    /\ ns' = [ns EXCEPT ![n] = v]
    /\ UNCHANGED <<sig, globals>>

ChangeSignature(c, k) ==
    /\ sig' = [sig EXCEPT ![c] = k]
    /\ UNCHANGED <<ns, globals>>

RebindGlobal(g) ==
    /\ globals' = g
    /\ UNCHANGED <<ns, sig>>

UserCode ==
    \/ \E n \in Names, v \in Values \cup {Unbound} : Rebind(n, v)
    \/ \E c \in Callables, k \in Tokens : ChangeSignature(c, k)
    \/ \E g \in Globals : RebindGlobal(g)

(***************************************************************************)
(* reconcile: an active entry whose object and token are as remembered is  *)
(* left alone; otherwise the schema is derived again and must be the one   *)
(* advertised.  Stale entries are never looked at.                         *)
(***************************************************************************)
\* A mutation: reconcile compares the object but not its token.
UntouchedObject(e) == ns[e.backing] = e.obj

Untouched(e) == ns[e.backing] = e.obj /\ sig[e.obj] = e.token

\* A mutation: any callable will do, whatever its schema.
CompatibleUncompared(e) == ns[e.backing] \in Callables

Compatible(e) ==
    /\ ns[e.backing] \in Callables
    /\ DerivedSchema(ns[e.backing]) = e.schema

\* A mutation: an entry whose object and token are back is active again.
ReconciledEntryRevives(e) ==
    IF e = NoEntry THEN e
    ELSE IF Untouched(e) THEN [e EXCEPT !.state = "active"]
         ELSE [e EXCEPT !.state = "stale"]

ReconciledEntry(e) ==
    IF e = NoEntry \/ e.state = "stale" \/ Untouched(e) THEN e
    ELSE IF Compatible(e)
         THEN [e EXCEPT !.obj = ns[e.backing], !.token = sig[ns[e.backing]]]
         ELSE [e EXCEPT !.state = "stale"]

Reconciled == [t \in Tools |-> ReconciledEntry(entries[t])]

\* What reconcile returns: some entry goes stale.
ReconcileChanges ==
    \E t \in Tools : Active(t) /\ ReconciledEntry(entries[t]).state = "stale"

Bump(changes) == IF changes THEN 1 ELSE 0

Reconcile ==
    /\ entries' = Reconciled
    /\ revision' = revision + Bump(ReconcileChanges)
    /\ UNCHANGED <<symbols, closed>>

(***************************************************************************)
(* register: every check of the source, in one guard; a refused call       *)
(* changes nothing.                                                        *)
(***************************************************************************)
\* A mutation: the limit is tested with <=.
OneTooMany(t) == t \notin Registered => Cardinality(Registered) <= MaxDynamicTools

HasRoom(t) == t \notin Registered => Cardinality(Registered) < MaxDynamicTools

\* A mutation: a derivation that raises is not noticed.
SupportedUnchecked(n) == TRUE

Supported(n) == DerivedSchema(ns[n]) # Unsupported

Accepts(n, t) ==
    /\ n \notin ProtectedNames
    /\ t \notin StableTools
    /\ ns[n] \in Callables
    /\ t \in Registered => entries[t].backing = n
    /\ symbols[n] \in {NoTool, t}
    /\ HasRoom(t)
    /\ Supported(n)

NewEntry(n, d) ==
    [backing |-> n, desc |-> d.text, truncated |-> d.truncated,
     schema |-> DerivedSchema(ns[n]), obj |-> ns[n], token |-> sig[ns[n]],
     state |-> "active"]

SameAdvertisement(left, right) ==
    /\ left.state = "active"
    /\ left.schema = right.schema
    /\ left.desc = right.desc
    /\ left.truncated = right.truncated

\* A mutation: only a new tool counts, not one that was stale.
RegisterChangesNew(n, t, d) == Accepts(n, t) /\ t \notin Registered

RegisterChanges(n, t, d) ==
    /\ Accepts(n, t)
    /\ t \in Registered => ~SameAdvertisement(entries[t], NewEntry(n, d))

Register(n, t, d) ==
    /\ IF Accepts(n, t)
       THEN /\ entries' = [entries EXCEPT ![t] = NewEntry(n, d)]
            /\ symbols' = [symbols EXCEPT ![n] = t]
       ELSE UNCHANGED <<entries, symbols>>
    /\ revision' = revision + Bump(RegisterChanges(n, t, d))
    /\ UNCHANGED closed

(***************************************************************************)
(* unregister: reconcile, then drop every requested entry.                 *)
(***************************************************************************)
AdvertisedRemoved(tools) ==
    \E t \in tools : Reconciled[t] # NoEntry /\ Reconciled[t].state = "active"

\* A mutation: what its own reconcile found is not reported.
UnregisterChangesOwn(tools) == AdvertisedRemoved(tools)

UnregisterChanges(tools) == ReconcileChanges \/ AdvertisedRemoved(tools)

Unregister(tools) ==
    /\ entries' = [t \in Tools |-> IF t \in tools THEN NoEntry ELSE Reconciled[t]]
    /\ symbols' = [n \in Names |->
                     IF \E t \in tools \cap Registered : entries[t].backing = n
                     THEN NoTool ELSE symbols[n]]
    /\ revision' = revision + Bump(ReconcileChanges) + Bump(AdvertisedRemoved(tools))
    /\ UNCHANGED closed

(***************************************************************************)
(* reset and close: both clear the tables; only reset counts as a change.  *)
(***************************************************************************)
\* A mutation: the index of backing names is forgotten.
ClearedEntries ==
    /\ entries' = [t \in Tools |-> NoEntry]
    /\ UNCHANGED symbols

Cleared ==
    /\ entries' = [t \in Tools |-> NoEntry]
    /\ symbols' = [n \in Names |-> NoTool]

ResetChanges == \E t \in Tools : Active(t)

RegistryReset ==
    /\ Cleared
    /\ revision' = revision + Bump(ResetChanges)
    /\ UNCHANGED closed

RegistryClose ==
    /\ Cleared
    /\ closed' = TRUE
    /\ UNCHANGED revision

(***************************************************************************)
(* The registry on its own: its methods in any order, user code between.   *)
(* The bound stops new calls; unregister may count two changes, so the     *)
(* counter itself can pass MaxRevision.                                    *)
(***************************************************************************)
Method ==
    /\ ~closed
    /\ \/ Reconcile
       \/ \E n \in Names, t \in Tools, d \in Descriptions : Register(n, t, d)
       \/ \E tools \in SUBSET Tools : Unregister(tools)
       \/ RegistryReset
       \/ RegistryClose

Next ==
    \/ revision < MaxRevision /\ Method /\ UNCHANGED liveVars
    \/ UserCode /\ UNCHANGED registryVars

Spec == Init /\ [][Next]_vars

(***************************************************************************)
(* Properties.                                                             *)
(***************************************************************************)

\* Every variable holds a value of its kind: type invariant of the registry.
TypeOK ==
    /\ ns \in [Names -> Values \cup {Unbound}]
    /\ sig \in [Callables -> Tokens]
    /\ globals \in Globals
    /\ entries \in [Tools -> Entry \cup {NoEntry}]
    /\ symbols \in [Names -> Tools \cup {NoTool}]
    /\ revision \in Nat
    /\ closed \in BOOLEAN

\* _entries and _symbols are inverse to each other: a tool's backing name
\* points back at the tool, and every indexed name backs the entry it names.
\* register tests collisions on one table each, unregister and reset update
\* both, so a missed update would lock a name out or let two tools share it.
IndexConsistent ==
    /\ \A t \in Registered : symbols[entries[t].backing] = t
    /\ \A n \in Names : symbols[n] # NoTool =>
          symbols[n] \in Registered /\ entries[symbols[n]].backing = n

\* The registry never exceeds max_dynamic_tools, stale entries included
\* (register counts _entries, not the advertised tools).
WithinCapacity == Cardinality(Registered) <= MaxDynamicTools

\* No method changes what clients see listed without moving the revision, which
\* is what reconcile, register, unregister and reset return as catalog_changed,
\* and there is one false alarm only: a tool is registered again with a text that
\* is the same once cut, and was cut only before or only now.  close is not
\* announced.
RevisionTracksCatalog ==
    [][~closed' =>
          /\ Catalog' # Catalog => revision' # revision
          /\ revision' # revision /\ Catalog' = Catalog =>
                \E t \in Tools : Active(t) /\ entries'[t].truncated # entries[t].truncated]_vars

\* A stale registration comes back only for a callable whose schema was
\* derived at that moment: README "stale until explicit re-registration".
RevivalIsFresh ==
    [][\A t \in Tools :
          (t \in Registered /\ ~Active(t) /\ Active(t)') =>
             /\ ns[entries'[t].backing] = entries'[t].obj
             /\ entries'[t].schema = DerivedSchema(entries'[t].obj)]_vars

\* The schema an entry advertises is the one its remembered token stands for.
\* It is what lets reconcile skip an entry whose object and token are as
\* remembered; it needs tokens that fix the schema (see TokensDetermineSchema).
TokenExplainsSchema ==
    \A t \in Registered : entries[t].schema = Derive[entries[t].token][globals]

\* Every derivation depends on the token alone: no string annotation refers
\* to a global that user code rebinds.
TokensDetermineSchema ==
    \A k \in Tokens : \A g, h \in Globals : Derive[k][g] = Derive[k][h]
=============================================================================
