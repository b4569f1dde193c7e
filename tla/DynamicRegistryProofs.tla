----------------------- MODULE DynamicRegistryProofs -----------------------
(***************************************************************************)
(* Theorems about DynamicRegistry for every value of its constants.        *)
(*                                                                         *)
(* The lemmas about a step take an arbitrary Method under arbitrary        *)
(* well-typed live state, so that they also serve specifications that      *)
(* build their operations from the registry's methods.                     *)
(***************************************************************************)
EXTENDS DynamicRegistry, TLAPS, FiniteSetTheorems

LiveTypeOK ==
    /\ ns \in [Names -> Values \cup {Unbound}]
    /\ sig \in [Callables -> Tokens]
    /\ globals \in Globals

RegistryTypeOK ==
    /\ entries \in [Tools -> Entry \cup {NoEntry}]
    /\ symbols \in [Names -> Tools \cup {NoTool}]
    /\ revision \in Nat
    /\ closed \in BOOLEAN

\* The type invariant, split into what user code and what the registry changes.
LEMMA TypeOKParts == TypeOK <=> LiveTypeOK /\ RegistryTypeOK
BY DEF TypeOK, LiveTypeOK, RegistryTypeOK

(***************************************************************************)
(* Types.                                                                  *)
(***************************************************************************)

\* Reconciling an entry yields an entry of the same tool: same backing name,
\* description and schema, never stale to active.
LEMMA ReconciledEntryFacts ==
    ASSUME LiveTypeOK, NEW e \in Entry
    PROVE  /\ ReconciledEntry(e) \in Entry
           /\ ReconciledEntry(e).backing = e.backing
           /\ ReconciledEntry(e).desc = e.desc
           /\ ReconciledEntry(e).schema = e.schema
           /\ e.state = "stale" => ReconciledEntry(e) = e
<1>1. e # NoEntry
  BY NoEntryAssumption
<1>2. CASE e.state = "stale" \/ Untouched(e)
  BY <1>2 DEF ReconciledEntry
<1>3. CASE ~(e.state = "stale" \/ Untouched(e)) /\ Compatible(e)
  <2>1. ns[e.backing] \in Callables /\ sig[ns[e.backing]] \in Tokens
    BY <1>3 DEF Compatible, LiveTypeOK
  <2>2. ReconciledEntry(e) = [e EXCEPT !.obj = ns[e.backing], !.token = sig[ns[e.backing]]]
    BY <1>1, <1>3 DEF ReconciledEntry
  <2>3. QED BY <1>3, <2>1, <2>2 DEF Entry
<1>4. CASE ~(e.state = "stale" \/ Untouched(e)) /\ ~Compatible(e)
  <2>1. ReconciledEntry(e) = [e EXCEPT !.state = "stale"]
    BY <1>1, <1>4 DEF ReconciledEntry
  <2>2. QED BY <1>4, <2>1 DEF Entry, States
<1>5. QED BY <1>2, <1>3, <1>4

\* reconcile works entry by entry: no registration appears or disappears, and
\* stale entries are returned as they are.
LEMMA ReconciledType ==
    ASSUME LiveTypeOK, RegistryTypeOK
    PROVE  /\ Reconciled \in [Tools -> Entry \cup {NoEntry}]
           /\ \A t \in Tools : Reconciled[t] = NoEntry <=> entries[t] = NoEntry
           /\ \A t \in Registered :
                 /\ entries[t] \in Entry
                 /\ Reconciled[t] \in Entry
                 /\ Reconciled[t].backing = entries[t].backing
                 /\ Reconciled[t].desc = entries[t].desc
                 /\ Reconciled[t].schema = entries[t].schema
                 /\ ~Active(t) => Reconciled[t] = entries[t]
<1>1. \A t \in Tools : entries[t] = NoEntry => Reconciled[t] = NoEntry
  BY DEF Reconciled, ReconciledEntry
<1>2. \A t \in Tools : entries[t] # NoEntry => entries[t] \in Entry
  BY DEF RegistryTypeOK
<1>3. ASSUME NEW t \in Tools, entries[t] # NoEntry
      PROVE  /\ Reconciled[t] \in Entry
             /\ Reconciled[t].backing = entries[t].backing
             /\ Reconciled[t].desc = entries[t].desc
             /\ Reconciled[t].schema = entries[t].schema
             /\ entries[t].state = "stale" => Reconciled[t] = entries[t]
  BY <1>2, <1>3, ReconciledEntryFacts DEF Reconciled
<1>4. \A t \in Registered : ~Active(t) => entries[t].state = "stale"
  BY <1>2 DEF Registered, Active, Entry, States
<1>5. QED
  BY <1>1, <1>2, <1>3, <1>4, NoEntryAssumption DEF Registered, Reconciled

\* What an accepted register puts into _entries is a registry entry.
LEMMA NewEntryType ==
    ASSUME LiveTypeOK, NEW n \in Names, NEW t \in Tools, NEW d \in Descriptions,
           Accepts(n, t)
    PROVE  NewEntry(n, d) \in Entry
<1>1. ns[n] \in Callables /\ sig[ns[n]] \in Tokens /\ globals \in Globals
  BY DEF Accepts, LiveTypeOK
<1>2. DerivedSchema(ns[n]) \in Schemas
  BY <1>1 DEF Accepts, Supported, DerivedSchema, Schemas
<1>3. d.text \in Texts /\ d.truncated \in BOOLEAN
  BY DescriptionsAssumption DEF Texts
<1>4. QED BY <1>1, <1>2, <1>3 DEF NewEntry, Entry, States

\* Every method keeps the registry's variables well typed.
LEMMA MethodType ==
    ASSUME LiveTypeOK, RegistryTypeOK, [Method]_registryVars
    PROVE  RegistryTypeOK'
<1>1. CASE UNCHANGED registryVars
  BY <1>1 DEF RegistryTypeOK, registryVars
<1>2. CASE Method
  <2>1. CASE Reconcile
    BY <2>1, ReconciledType DEF Reconcile, RegistryTypeOK, Bump
  <2>2. ASSUME NEW n \in Names, NEW t \in Tools, NEW d \in Descriptions, Register(n, t, d)
        PROVE  RegistryTypeOK'
    BY <2>2, NewEntryType DEF Register, RegistryTypeOK, Bump
  <2>3. ASSUME NEW tools \in SUBSET Tools, Unregister(tools)
        PROVE  RegistryTypeOK'
    <3>1. entries' \in [Tools -> Entry \cup {NoEntry}]
      BY <2>3, ReconciledType DEF Unregister
    <3>2. symbols' \in [Names -> Tools \cup {NoTool}]
      BY <2>3 DEF Unregister, RegistryTypeOK
    <3>3. revision' \in Nat /\ closed' \in BOOLEAN
      BY <2>3 DEF Unregister, RegistryTypeOK, Bump
    <3>4. QED BY <3>1, <3>2, <3>3 DEF RegistryTypeOK
  <2>4. CASE RegistryReset
    BY <2>4 DEF RegistryReset, Cleared, RegistryTypeOK, Bump
  <2>5. CASE RegistryClose
    BY <2>5 DEF RegistryClose, Cleared, RegistryTypeOK
  <2>6. QED BY <1>2, <2>1, <2>2, <2>3, <2>4, <2>5 DEF Method
<1>3. QED BY <1>1, <1>2

\* User code keeps the namespace and the callables well typed.
LEMMA UserCodeType ==
    ASSUME LiveTypeOK, UserCode
    PROVE  LiveTypeOK'
BY DEF LiveTypeOK, UserCode, Rebind, ChangeSignature, RebindGlobal

\* Type correctness: no method and no user code takes a variable out of its kind.
THEOREM TypeCorrect == Spec => []TypeOK
<1>1. Init => TypeOK
  <2> SUFFICES ASSUME Init PROVE TypeOK
    OBVIOUS
  <2>1. entries \in [Tools -> Entry \cup {NoEntry}]
    BY DEF Init
  <2>2. symbols \in [Names -> Tools \cup {NoTool}]
    BY DEF Init
  <2>3. QED BY <2>1, <2>2 DEF Init, TypeOK
<1>2. TypeOK /\ [Next]_vars => TypeOK'
  <2> SUFFICES ASSUME TypeOK, [Next]_vars PROVE TypeOK'
    OBVIOUS
  <2>1. LiveTypeOK /\ RegistryTypeOK
    BY TypeOKParts
  <2>2. CASE Method /\ UNCHANGED liveVars
    <3>1. LiveTypeOK'
      BY <2>1, <2>2 DEF LiveTypeOK, liveVars
    <3>2. QED BY <2>1, <2>2, <3>1, MethodType DEF TypeOK, LiveTypeOK, RegistryTypeOK
  <2>3. CASE UserCode /\ UNCHANGED registryVars
    <3>1. RegistryTypeOK'
      BY <2>1, <2>3 DEF RegistryTypeOK, registryVars
    <3>2. QED BY <2>1, <2>3, <3>1, UserCodeType DEF TypeOK, LiveTypeOK, RegistryTypeOK
  <2>4. CASE UNCHANGED vars
    BY <2>4 DEF TypeOK, vars
  <2>5. QED BY <2>2, <2>3, <2>4 DEF Next
<1>3. QED BY <1>1, <1>2, PTL DEF Spec
(***************************************************************************)
(* _entries and _symbols stay inverse to each other.                       *)
(***************************************************************************)

\* register: both collision tests together keep the tables inverse.
LEMMA RegisterIndex ==
    ASSUME LiveTypeOK, RegistryTypeOK, IndexConsistent,
           NEW n \in Names, NEW t \in Tools, NEW d \in Descriptions, Register(n, t, d)
    PROVE  IndexConsistent'
<1>1. CASE ~Accepts(n, t)
  BY <1>1 DEF Register, IndexConsistent, Registered
<1>2. CASE Accepts(n, t)
  <2>1. /\ entries' = [entries EXCEPT ![t] = NewEntry(n, d)]
        /\ symbols' = [symbols EXCEPT ![n] = t]
    BY <1>2 DEF Register
  <2>2. NewEntry(n, d).backing = n
    BY DEF NewEntry
  <2>3. entries'[t].backing = n /\ symbols'[n] = t
    BY <2>1, <2>2 DEF RegistryTypeOK
  <2>4. ASSUME NEW u \in Registered'
        PROVE  symbols'[entries'[u].backing] = u
    <3>1. CASE u = t
      BY <2>3, <3>1
    <3>2. CASE u # t
      <4>1. u \in Registered /\ entries'[u] = entries[u]
        BY <2>1, <3>2 DEF Registered, RegistryTypeOK
      <4>2. symbols[entries[u].backing] = u
        BY <4>1 DEF IndexConsistent
      <4>3. entries[u].backing # n
        BY <1>2, <3>2, <4>1, <4>2, NullAssumption DEF Accepts, Registered
      <4>4. entries[u].backing \in Names
        BY <4>1 DEF Registered, RegistryTypeOK, Entry
      <4>5. QED BY <2>1, <4>1, <4>2, <4>3, <4>4 DEF RegistryTypeOK
    <3>3. QED BY <3>1, <3>2
  <2>5. ASSUME NEW m \in Names, symbols'[m] # NoTool
        PROVE  symbols'[m] \in Registered' /\ entries'[symbols'[m]].backing = m
    <3>1. CASE m = n
      <4>1. NewEntry(n, d) # NoEntry
        BY <1>2, NewEntryType, NoEntryAssumption
      <4>2. QED BY <2>1, <2>3, <3>1, <4>1 DEF Registered, RegistryTypeOK
    <3>2. CASE m # n
      <4>1. symbols'[m] = symbols[m]
        BY <2>1, <3>2 DEF RegistryTypeOK
      <4>2. symbols[m] \in Registered /\ entries[symbols[m]].backing = m
        BY <2>5, <4>1 DEF IndexConsistent
      <4>3. symbols[m] # t
        BY <1>2, <3>2, <4>2 DEF Accepts
      <4>4. QED BY <2>1, <4>1, <4>2, <4>3 DEF Registered, RegistryTypeOK
    <3>3. QED BY <3>1, <3>2
  <2>6. QED BY <2>4, <2>5 DEF IndexConsistent
<1>3. QED BY <1>1, <1>2

\* unregister: the index loses exactly the names of the removed entries.
LEMMA UnregisterIndex ==
    ASSUME LiveTypeOK, RegistryTypeOK, IndexConsistent,
           NEW tools \in SUBSET Tools, Unregister(tools)
    PROVE  IndexConsistent'
<1>1. \A t \in Tools : entries'[t] = IF t \in tools THEN NoEntry ELSE Reconciled[t]
  BY DEF Unregister
<1>2. \A n \in Names : symbols'[n] =
          IF \E t \in tools \cap Registered : entries[t].backing = n
          THEN NoTool ELSE symbols[n]
  BY DEF Unregister
<1>3. \A t \in Tools : t \in Registered' <=> t \in Registered /\ t \notin tools
  BY <1>1, ReconciledType DEF Registered
<1>4. \A t \in Registered' : entries'[t].backing = entries[t].backing
  BY <1>1, <1>3, ReconciledType DEF Registered
<1>5. \A t \in Registered : entries[t].backing \in Names
  BY DEF Registered, RegistryTypeOK, Entry
<1>6. ASSUME NEW u \in Registered'
      PROVE  symbols'[entries'[u].backing] = u
  <2>1. u \in Registered /\ u \notin tools /\ entries'[u].backing = entries[u].backing
    BY <1>3, <1>4 DEF Registered
  <2>2. \A t \in tools \cap Registered : entries[t].backing # entries[u].backing
    BY <2>1 DEF IndexConsistent
  <2>3. QED BY <1>2, <1>5, <2>1, <2>2 DEF IndexConsistent
<1>7. ASSUME NEW n \in Names, symbols'[n] # NoTool
      PROVE  symbols'[n] \in Registered' /\ entries'[symbols'[n]].backing = n
  <2>1. /\ symbols'[n] = symbols[n]
        /\ \A t \in tools \cap Registered : entries[t].backing # n
    BY <1>2, <1>7
  <2>2. symbols[n] \in Registered /\ entries[symbols[n]].backing = n
    BY <1>7, <2>1 DEF IndexConsistent
  <2>3. symbols[n] \in Tools /\ symbols[n] \notin tools
    BY <2>1, <2>2 DEF Registered
  <2>4. QED BY <1>3, <1>4, <2>1, <2>2, <2>3
<1>8. QED BY <1>6, <1>7 DEF IndexConsistent

\* Every method keeps the two tables inverse to each other.
LEMMA MethodIndex ==
    ASSUME LiveTypeOK, RegistryTypeOK, IndexConsistent, [Method]_registryVars
    PROVE  IndexConsistent'
<1>1. CASE UNCHANGED registryVars
  BY <1>1 DEF IndexConsistent, Registered, registryVars
<1>2. CASE Reconcile
  <2>1. Registered' = Registered /\ symbols' = symbols
    BY <1>2, ReconciledType DEF Reconcile, Registered
  <2>2. \A t \in Registered : entries'[t].backing = entries[t].backing
    BY <1>2, ReconciledType DEF Reconcile
  <2>3. QED BY <2>1, <2>2 DEF IndexConsistent
<1>3. CASE Cleared
  BY <1>3 DEF Cleared, IndexConsistent, Registered
<1>4. QED
  BY <1>1, <1>2, <1>3, RegisterIndex, UnregisterIndex
  DEF Method, RegistryReset, RegistryClose

\* The two tables are inverse to each other in every reachable state.
THEOREM IndexAlwaysConsistent == Spec => []IndexConsistent
<1>1. Init => IndexConsistent
  BY DEF Init, IndexConsistent, Registered
<1>2. TypeOK /\ IndexConsistent /\ [Next]_vars => IndexConsistent'
  BY MethodIndex, TypeOKParts
  DEF Next, vars, registryVars, IndexConsistent, Registered
<1>3. QED BY <1>1, <1>2, TypeCorrect, PTL DEF Spec

(***************************************************************************)
(* The limit on registrations.                                             *)
(***************************************************************************)

\* Only register adds a registration, and only when there is room.
LEMMA MethodCapacity ==
    ASSUME LiveTypeOK, RegistryTypeOK, WithinCapacity, [Method]_registryVars
    PROVE  WithinCapacity'
<1>0. IsFiniteSet(Registered) /\ Cardinality(Registered) \in Nat /\ MaxDynamicTools \in Nat
  <2>1. Registered \subseteq Tools
    BY DEF Registered
  <2>2. QED BY <2>1, ToolsFinite, FS_Subset, FS_CardinalityType, LimitAssumption
<1>1. ASSUME Registered' \subseteq Registered
      PROVE  WithinCapacity'
  <2>1. Cardinality(Registered') <= Cardinality(Registered) /\ Cardinality(Registered') \in Nat
    BY <1>0, <1>1, FS_Subset, FS_CardinalityType
  <2>2. QED BY <1>0, <2>1 DEF WithinCapacity
<1>2. CASE UNCHANGED registryVars
  BY <1>1, <1>2 DEF Registered, registryVars
<1>3. CASE Reconcile
  BY <1>1, <1>3, ReconciledType DEF Reconcile, Registered
<1>4. ASSUME NEW n \in Names, NEW t \in Tools, NEW d \in Descriptions, Register(n, t, d)
      PROVE  WithinCapacity'
  <2>1. CASE ~Accepts(n, t) \/ t \in Registered
    BY <1>1, <1>4, <2>1 DEF Register, Registered, RegistryTypeOK
  <2>2. CASE Accepts(n, t) /\ t \notin Registered
    <3>1. Registered' \subseteq Registered \cup {t}
      BY <1>4, <2>2 DEF Register, Registered, RegistryTypeOK
    <3>2. Cardinality(Registered) < MaxDynamicTools
      BY <2>2 DEF Accepts, HasRoom
    <3>3. /\ IsFiniteSet(Registered \cup {t})
          /\ Cardinality(Registered \cup {t}) = Cardinality(Registered) + 1
      BY <1>0, <2>2, FS_AddElement
    <3>4. /\ Cardinality(Registered') <= Cardinality(Registered) + 1
          /\ Cardinality(Registered') \in Nat
      BY <3>1, <3>3, FS_Subset, FS_CardinalityType
    <3>5. QED BY <1>0, <3>2, <3>4 DEF WithinCapacity
  <2>3. QED BY <2>1, <2>2
<1>5. ASSUME NEW tools \in SUBSET Tools, Unregister(tools)
      PROVE  WithinCapacity'
  BY <1>1, <1>5, ReconciledType DEF Unregister, Registered
<1>6. CASE Cleared
  BY <1>1, <1>6 DEF Cleared, Registered
<1>7. QED
  BY <1>2, <1>3, <1>4, <1>5, <1>6 DEF Method, RegistryReset, RegistryClose

\* At most max_dynamic_tools registrations exist, stale ones counted.
THEOREM CapacityRespected == Spec => []WithinCapacity
<1>1. Init => WithinCapacity
  <2> SUFFICES ASSUME Init PROVE WithinCapacity
    OBVIOUS
  <2>1. Registered = {}
    BY DEF Init, Registered
  <2>2. QED BY <2>1, FS_EmptySet, LimitAssumption DEF WithinCapacity
<1>2. TypeOK /\ WithinCapacity /\ [Next]_vars => WithinCapacity'
  BY MethodCapacity, TypeOKParts
  DEF Next, vars, registryVars, WithinCapacity, Registered
<1>3. QED BY <1>1, <1>2, TypeCorrect, PTL DEF Spec

(***************************************************************************)
(* The revision and what clients see.                                      *)
(***************************************************************************)

\* The catalog is unchanged exactly when every tool advertises what it did.
LEMMA CatalogSame ==
    ASSUME RegistryTypeOK, RegistryTypeOK'
    PROVE  Catalog' = Catalog <=>
             \A t \in Tools :
                /\ Active(t)' <=> Active(t)
                /\ Active(t) => /\ entries'[t].schema = entries[t].schema
                                /\ entries'[t].desc = entries[t].desc
<1>1. ASSUME NEW t \in Tools
      PROVE  /\ Active(t) <=> \E s, d : <<t, s, d>> \in Catalog
             /\ Active(t)' <=> \E s, d : <<t, s, d>> \in Catalog'
             /\ \A s, d : <<t, s, d>> \in Catalog <=>
                   Active(t) /\ s = entries[t].schema /\ d = entries[t].desc
             /\ \A s, d : <<t, s, d>> \in Catalog' <=>
                   Active(t)' /\ s = entries'[t].schema /\ d = entries'[t].desc
  BY DEF Catalog
<1>2. ASSUME \A t \in Tools :
                /\ Active(t)' <=> Active(t)
                /\ Active(t) => /\ entries'[t].schema = entries[t].schema
                                /\ entries'[t].desc = entries[t].desc
      PROVE  Catalog' = Catalog
  BY <1>2 DEF Catalog
<1>3. ASSUME Catalog' = Catalog, NEW t \in Tools
      PROVE  /\ Active(t)' <=> Active(t)
             /\ Active(t) => /\ entries'[t].schema = entries[t].schema
                             /\ entries'[t].desc = entries[t].desc
  <2>1. Active(t)' <=> Active(t)
    BY <1>1, <1>3
  <2>2. Active(t) => <<t, entries[t].schema, entries[t].desc>> \in Catalog'
    BY <1>1, <1>3
  <2>3. QED BY <1>1, <2>1, <2>2
<1>4. QED BY <1>2, <1>3

\* reconcile reports a change exactly when it takes a tool off the catalog,
\* and keeps what the other tools advertise.
LEMMA ReconcileCatalog ==
    ASSUME LiveTypeOK, RegistryTypeOK
    PROVE  /\ ReconcileChanges <=> \E t \in Tools : Active(t) /\ Reconciled[t].state = "stale"
           /\ \A t \in Tools : Reconciled[t] # NoEntry /\ Reconciled[t].state = "active" => Active(t)
           /\ \A t \in Tools : Active(t) => /\ Reconciled[t] # NoEntry
                                          /\ Reconciled[t].state \in States
<1>1. ReconcileChanges <=> \E t \in Tools : Active(t) /\ Reconciled[t].state = "stale"
  BY DEF ReconcileChanges, Reconciled
<1>2. \A t \in Tools : Reconciled[t] # NoEntry /\ Reconciled[t].state = "active" => Active(t)
  BY ReconciledType DEF Registered, Active
<1>3. \A t \in Tools : Active(t) => Reconciled[t] # NoEntry /\ Reconciled[t].state \in States
  BY ReconciledType, NoEntryAssumption DEF Registered, Active, Entry
<1>4. QED BY <1>1, <1>2, <1>3

\* The revision moves with the catalog, and without it only when a tool that
\* stays listed was cut before and is not now, or the other way round.
FlagOnly == \E t \in Tools : Active(t) /\ entries'[t].truncated # entries[t].truncated

MovesWithCatalog ==
    /\ Catalog' # Catalog => revision' # revision
    /\ revision' # revision /\ Catalog' = Catalog => FlagOnly

\* A method moves the revision exactly when it changes the catalog, but for a
\* registration that changes the flag only.
LEMMA MethodCatalog ==
    ASSUME LiveTypeOK, RegistryTypeOK, Method, ~closed'
    PROVE  MovesWithCatalog
<1>0. RegistryTypeOK' /\ revision \in Nat
  BY MethodType DEF RegistryTypeOK
<1>1. ASSUME Reconcile
      PROVE  revision' # revision <=> Catalog' # Catalog
  <2>1. revision' # revision <=> ReconcileChanges
    BY <1>0, <1>1 DEF Reconcile, Bump
  <2>2. \A t \in Tools : Active(t)' <=> Reconciled[t] # NoEntry /\ Reconciled[t].state = "active"
    BY <1>1 DEF Reconcile, Active, Registered
  <2>3. \A t \in Tools : Active(t) => entries'[t].schema = entries[t].schema
                                   /\ entries'[t].desc = entries[t].desc
    BY <1>1, ReconciledType DEF Reconcile, Active
  <2>4. QED BY <1>0, <2>1, <2>2, <2>3, CatalogSame, ReconcileCatalog DEF States
<1>2. ASSUME NEW n \in Names, NEW t \in Tools, NEW d \in Descriptions, Register(n, t, d)
      PROVE  MovesWithCatalog
  <2>1. revision' # revision <=> RegisterChanges(n, t, d)
    BY <1>0, <1>2 DEF Register, Bump
  <2>2. CASE ~Accepts(n, t)
    BY <1>2, <2>1, <2>2
    DEF Register, RegisterChanges, Catalog, Active, Registered, MovesWithCatalog
  <2>3. CASE Accepts(n, t)
    <3>1. entries' = [entries EXCEPT ![t] = NewEntry(n, d)]
      BY <1>2, <2>3 DEF Register
    <3>2. NewEntry(n, d) # NoEntry /\ NewEntry(n, d).state = "active"
      BY <2>3, NewEntryType, NoEntryAssumption DEF NewEntry
    <3>3. entries'[t] = NewEntry(n, d) /\ \A u \in Tools \ {t} : entries'[u] = entries[u]
      BY <3>1 DEF RegistryTypeOK
    <3>4. Active(t)' /\ \A u \in Tools \ {t} : Active(u)' <=> Active(u)
      BY <3>2, <3>3 DEF Active, Registered
    <3>5. RegisterChanges(n, t, d) <=>
            ~(/\ Active(t)
              /\ entries[t].schema = entries'[t].schema
              /\ entries[t].desc = entries'[t].desc
              /\ entries[t].truncated = entries'[t].truncated)
      BY <2>3, <3>3 DEF RegisterChanges, SameAdvertisement, Active
    <3>6. Catalog' = Catalog <=>
            /\ Active(t)
            /\ entries[t].schema = entries'[t].schema
            /\ entries[t].desc = entries'[t].desc
      BY <1>0, <3>3, <3>4, CatalogSame
    <3>7. QED BY <2>1, <3>5, <3>6 DEF MovesWithCatalog, FlagOnly
  <2>4. QED BY <2>2, <2>3
<1>3. ASSUME NEW tools \in SUBSET Tools, Unregister(tools)
      PROVE  revision' # revision <=> Catalog' # Catalog
  <2>1. revision' # revision <=> ReconcileChanges \/ AdvertisedRemoved(tools)
    BY <1>0, <1>3 DEF Unregister, Bump
  <2>2. \A t \in Tools : entries'[t] = IF t \in tools THEN NoEntry ELSE Reconciled[t]
    BY <1>3 DEF Unregister
  <2>3. \A t \in Tools : Active(t)' <=>
            t \notin tools /\ Reconciled[t] # NoEntry /\ Reconciled[t].state = "active"
    BY <2>2 DEF Active, Registered
  <2>4. \A t \in Tools : Active(t) /\ t \notin tools =>
            entries'[t].schema = entries[t].schema /\ entries'[t].desc = entries[t].desc
    BY <2>2, ReconciledType DEF Active
  <2>5. AdvertisedRemoved(tools) <=>
            \E t \in tools : Reconciled[t] # NoEntry /\ Reconciled[t].state = "active"
    BY DEF AdvertisedRemoved
  <2>6. QED
    BY <1>0, <2>1, <2>3, <2>4, <2>5, CatalogSame, ReconcileCatalog DEF States
<1>4. ASSUME RegistryReset
      PROVE  revision' # revision <=> Catalog' # Catalog
  <2>1. revision' # revision <=> \E t \in Tools : Active(t)
    BY <1>0, <1>4 DEF RegistryReset, ResetChanges, Bump
  <2>2. \A t \in Tools : ~Active(t)'
    BY <1>4 DEF RegistryReset, Cleared, Active, Registered
  <2>3. QED BY <1>0, <2>1, <2>2, CatalogSame
<1>5. CASE RegistryClose
  BY <1>5 DEF RegistryClose
<1>6. QED BY <1>1, <1>2, <1>3, <1>4, <1>5 DEF Method, MovesWithCatalog

\* Every method that is not close moves the revision if it changes what clients
\* see, and otherwise only if it is a registration whose text is as before once
\* cut while the flag is not; user code on its own changes neither.
THEOREM RevisionTracksCatalogAlways == Spec => RevisionTracksCatalog
<1>1. TypeOK /\ [Next]_vars => (~closed' => MovesWithCatalog)
  <2> SUFFICES ASSUME TypeOK, [Next]_vars, ~closed'
               PROVE  MovesWithCatalog
    OBVIOUS
  <2>1. CASE Method
    BY <2>1, TypeOKParts, MethodCatalog
  <2>2. CASE UNCHANGED registryVars
    BY <2>2 DEF registryVars, Catalog, Active, Registered, MovesWithCatalog
  <2>3. QED BY <2>1, <2>2 DEF Next, vars, registryVars
<1>2. [][~closed' => MovesWithCatalog]_vars => RevisionTracksCatalog
  BY PTL DEF MovesWithCatalog, FlagOnly, RevisionTracksCatalog
<1>3. QED BY <1>1, <1>2, TypeCorrect, PTL DEF Spec

(***************************************************************************)
(* What a stale registration needs to come back, and what a token stands   *)
(* for.                                                                    *)
(***************************************************************************)

\* Only register makes an entry active that was stale: reconcile returns stale
\* entries unchanged, and the other methods drop entries.
LEMMA MethodRevival ==
    ASSUME LiveTypeOK, RegistryTypeOK, Method, UNCHANGED liveVars,
           NEW t \in Tools, t \in Registered, ~Active(t), Active(t)'
    PROVE  \E n \in Names, d \in Descriptions :
              /\ Accepts(n, t)
              /\ entries'[t] = NewEntry(n, d)
<1>1. t \in Registered' /\ entries'[t].state = "active"
  BY DEF Active
<1>2. Reconciled[t] = entries[t] /\ entries[t].state # "active"
  BY ReconciledType DEF Active
<1>3. ~Reconcile
  BY <1>1, <1>2 DEF Reconcile
<1>4. ASSUME NEW tools \in SUBSET Tools, Unregister(tools) PROVE FALSE
  BY <1>1, <1>2, <1>4 DEF Unregister, Registered
<1>5. ~Cleared
  BY <1>1 DEF Cleared, Registered
<1>6. PICK n \in Names, u \in Tools, d \in Descriptions : Register(n, u, d)
  BY <1>3, <1>4, <1>5 DEF Method, RegistryReset, RegistryClose
<1>7. entries'[t] # entries[t]
  BY <1>1, <1>2
<1>8. Accepts(n, u) /\ entries' = [entries EXCEPT ![u] = NewEntry(n, d)]
  BY <1>6, <1>7 DEF Register
<1>9. u = t
  BY <1>7, <1>8 DEF RegistryTypeOK
<1>10. QED BY <1>8, <1>9 DEF RegistryTypeOK

\* A stale registration comes back only with the object that is bound and the
\* schema derived from it in the same step.
THEOREM RevivalAlwaysFresh == Spec => RevivalIsFresh
<1>1. TypeOK /\ [Next]_vars =>
        \A t \in Tools :
          (t \in Registered /\ ~Active(t) /\ Active(t)') =>
             /\ ns[entries'[t].backing] = entries'[t].obj
             /\ entries'[t].schema = DerivedSchema(entries'[t].obj)
  <2> SUFFICES ASSUME TypeOK, [Next]_vars, NEW t \in Tools,
                      t \in Registered, ~Active(t), Active(t)'
               PROVE  /\ ns[entries'[t].backing] = entries'[t].obj
                      /\ entries'[t].schema = DerivedSchema(entries'[t].obj)
    OBVIOUS
  <2>1. entries' # entries
    BY DEF Active, Registered
  <2>2. Method /\ UNCHANGED liveVars
    BY <2>1 DEF Next, vars, registryVars
  <2>3. PICK n \in Names, d \in Descriptions : entries'[t] = NewEntry(n, d)
    BY <2>2, TypeOKParts, MethodRevival
  <2>4. QED BY <2>3 DEF NewEntry
<1>2. QED BY <1>1, TypeCorrect, PTL DEF Spec, RevivalIsFresh

\* Reconciling keeps an entry's schema the one its token stands for: a new
\* token is taken over only with an equal schema.
LEMMA ReconciledExplained ==
    ASSUME LiveTypeOK, NEW e \in Entry, e.schema = Derive[e.token][globals]
    PROVE  ReconciledEntry(e).schema = Derive[ReconciledEntry(e).token][globals]
<1>1. e # NoEntry
  BY NoEntryAssumption
<1>2. CASE e.state = "stale" \/ Untouched(e)
  BY <1>2 DEF ReconciledEntry
<1>3. CASE ~(e.state = "stale" \/ Untouched(e)) /\ Compatible(e)
  <2>1. ReconciledEntry(e) = [e EXCEPT !.obj = ns[e.backing], !.token = sig[ns[e.backing]]]
    BY <1>1, <1>3 DEF ReconciledEntry
  <2>2. /\ ReconciledEntry(e).schema = e.schema
        /\ ReconciledEntry(e).token = sig[ns[e.backing]]
    BY <2>1 DEF Entry
  <2>3. QED BY <1>3, <2>2 DEF Compatible, DerivedSchema
<1>4. CASE ~(e.state = "stale" \/ Untouched(e)) /\ ~Compatible(e)
  <2>1. ReconciledEntry(e) = [e EXCEPT !.state = "stale"]
    BY <1>1, <1>4 DEF ReconciledEntry
  <2>2. QED BY <2>1 DEF Entry
<1>5. QED BY <1>2, <1>3, <1>4

\* Every method keeps the schemas explained by the tokens.
LEMMA MethodExplained ==
    ASSUME LiveTypeOK, RegistryTypeOK, TokenExplainsSchema,
           [Method]_registryVars, UNCHANGED globals
    PROVE  TokenExplainsSchema'
<1>0. globals' = globals
  OBVIOUS
<1>1. \A t \in Registered : entries[t] \in Entry /\ entries[t].schema = Derive[entries[t].token][globals]
  BY DEF TokenExplainsSchema, Registered, RegistryTypeOK
<1>2. \A t \in Registered : Reconciled[t].schema = Derive[Reconciled[t].token][globals]
  BY <1>1, ReconciledExplained DEF Reconciled, Registered
<1>3. CASE UNCHANGED registryVars
  BY <1>0, <1>3 DEF TokenExplainsSchema, Registered, registryVars
<1>4. CASE Reconcile
  BY <1>0, <1>2, <1>4, ReconciledType DEF Reconcile, TokenExplainsSchema, Registered
<1>5. ASSUME NEW n \in Names, NEW t \in Tools, NEW d \in Descriptions, Register(n, t, d)
      PROVE  TokenExplainsSchema'
  <2>1. CASE ~Accepts(n, t)
    BY <1>0, <1>5, <2>1 DEF Register, TokenExplainsSchema, Registered
  <2>2. CASE Accepts(n, t)
    <3>1. entries' = [entries EXCEPT ![t] = NewEntry(n, d)]
      BY <1>5, <2>2 DEF Register
    <3>2. entries'[t] = NewEntry(n, d) /\ \A u \in Tools \ {t} : entries'[u] = entries[u]
      BY <3>1 DEF RegistryTypeOK
    <3>3. NewEntry(n, d).schema = Derive[NewEntry(n, d).token][globals]
      BY DEF NewEntry, DerivedSchema
    <3>4. QED BY <1>0, <1>1, <3>2, <3>3 DEF TokenExplainsSchema, Registered
  <2>3. QED BY <2>1, <2>2
<1>6. ASSUME NEW tools \in SUBSET Tools, Unregister(tools)
      PROVE  TokenExplainsSchema'
  <2>1. \A t \in Registered' : t \in Registered /\ entries'[t] = Reconciled[t]
    BY <1>6, ReconciledType DEF Unregister, Registered
  <2>2. QED BY <1>0, <1>2, <2>1 DEF TokenExplainsSchema
<1>7. CASE Cleared
  BY <1>7 DEF Cleared, TokenExplainsSchema, Registered
<1>8. QED
  BY <1>3, <1>4, <1>5, <1>6, <1>7 DEF Method, RegistryReset, RegistryClose

\* Where derivations depend on the token alone, a rebound global leaves every
\* schema explained.
LEMMA GlobalsExplained ==
    ASSUME TokensDetermineSchema, RegistryTypeOK, TokenExplainsSchema,
           globals \in Globals, globals' \in Globals, UNCHANGED registryVars
    PROVE  TokenExplainsSchema'
<1>1. \A t \in Registered : entries[t].token \in Tokens
  BY DEF RegistryTypeOK, Registered, Entry
<1>2. \A t \in Registered : Derive[entries[t].token][globals'] = Derive[entries[t].token][globals]
  BY <1>1 DEF TokensDetermineSchema
<1>3. QED BY <1>2 DEF registryVars, TokenExplainsSchema, Registered

\* reconcile leaves an entry active only if the object bound to its name is
\* callable and has the advertised schema now.
LEMMA ReconciledCompatible ==
    ASSUME LiveTypeOK, NEW e \in Entry, e.schema = Derive[e.token][globals],
           ReconciledEntry(e).state = "active"
    PROVE  Compatible(ReconciledEntry(e))
<1>1. e # NoEntry /\ e.obj \in Callables
  BY NoEntryAssumption DEF Entry
<1>2. CASE e.state = "stale"
  BY <1>2 DEF ReconciledEntry
<1>3. CASE e.state # "stale" /\ Untouched(e)
  BY <1>1, <1>3 DEF ReconciledEntry, Untouched, Compatible, DerivedSchema
<1>4. CASE e.state # "stale" /\ ~Untouched(e) /\ Compatible(e)
  <2>1. ReconciledEntry(e) = [e EXCEPT !.obj = ns[e.backing], !.token = sig[ns[e.backing]]]
    BY <1>1, <1>4 DEF ReconciledEntry
  <2>2. ReconciledEntry(e).backing = e.backing /\ ReconciledEntry(e).schema = e.schema
    BY ReconciledEntryFacts
  <2>3. QED BY <1>4, <2>2 DEF Compatible
<1>5. CASE e.state # "stale" /\ ~Untouched(e) /\ ~Compatible(e)
  <2>1. ReconciledEntry(e) = [e EXCEPT !.state = "stale"]
    BY <1>1, <1>5 DEF ReconciledEntry
  <2>2. ReconciledEntry(e).state = "stale"
    BY <2>1 DEF Entry
  <2>3. QED BY <2>2
<1>6. QED BY <1>2, <1>3, <1>4, <1>5

\* After a reconcile every advertised tool is backed by a live callable with
\* the advertised schema.
LEMMA ReconcileLive ==
    ASSUME LiveTypeOK, RegistryTypeOK, TokenExplainsSchema, Reconcile, UNCHANGED liveVars
    PROVE  \A t \in Tools : Active(t)' => Compatible(entries[t])'
<1> SUFFICES ASSUME NEW t \in Tools, Active(t)' PROVE Compatible(entries[t])'
  OBVIOUS
<1>1. entries'[t] = Reconciled[t] /\ Reconciled[t] # NoEntry /\ Reconciled[t].state = "active"
  BY DEF Reconcile, Active, Registered
<1>2. t \in Registered /\ entries[t] \in Entry
  BY <1>1, ReconciledType DEF Registered
<1>3. entries[t].schema = Derive[entries[t].token][globals]
  BY <1>2 DEF TokenExplainsSchema
<1>4. Compatible(Reconciled[t])
  BY <1>1, <1>2, <1>3, ReconciledCompatible DEF Reconciled
<1>5. QED BY <1>1, <1>4 DEF Compatible, DerivedSchema, liveVars

\* As long as no string annotation refers to a global that user code rebinds,
\* every advertised schema is the one its remembered token stands for; this is
\* the hypothesis under which reconcile may skip an untouched entry.
THEOREM SchemaAlwaysExplained ==
    ASSUME TokensDetermineSchema
    PROVE  Spec => []TokenExplainsSchema
<1>1. Init => TokenExplainsSchema
  BY DEF Init, TokenExplainsSchema, Registered
<1>2. TypeOK /\ TokenExplainsSchema /\ [Next]_vars => TokenExplainsSchema'
  <2> SUFFICES ASSUME TypeOK, TokenExplainsSchema, [Next]_vars
               PROVE  TokenExplainsSchema'
    OBVIOUS
  <2>1. CASE Method /\ UNCHANGED liveVars
    BY <2>1, TypeOKParts, MethodExplained DEF liveVars
  <2>2. CASE UserCode /\ UNCHANGED registryVars
    <3>1. globals \in Globals /\ globals' \in Globals
      BY <2>2, TypeOKParts, UserCodeType DEF LiveTypeOK
    <3>2. QED BY <2>2, <3>1, TypeOKParts, GlobalsExplained
  <2>3. CASE UNCHANGED vars
    BY <2>3 DEF vars, TokenExplainsSchema, Registered
  <2>4. QED BY <2>1, <2>2, <2>3 DEF Next
<1>3. QED BY <1>1, <1>2, TypeCorrect, PTL DEF Spec

=============================================================================
