-------------------------- MODULE OwnerOperations --------------------------
(***************************************************************************)
(* The operations the owner thread of ShellRuntime runs (runtime.py), one  *)
(* at a time, over the live namespace and the DynamicRegistry.             *)
(*                                                                         *)
(* _run_in_owner brackets every operation: whatever the operation did and  *)
(* even when it raised, the registry is reconciled and the snapshot cache  *)
(* that discovery reads from the event loop is published again.  The       *)
(* steps of an operation are the points between which a thread started by  *)
(* user code can run; `at` names the next one.                             *)
(***************************************************************************)
EXTENDS DynamicRegistry, Sequences

CONSTANTS
    Binding,      \* the name a module is bound to when it is reloaded
    Home,         \* what reset binds: runtime bindings, preloaded modules
    ReloadLists,  \* argument lists of reload
    Background,   \* TRUE when user threads outlive the call that made them
    NoTarget      \* call_dynamic has not picked an object yet

Restored == DOMAIN Home

ASSUME HomeAssumption ==
    /\ Restored \subseteq ProtectedNames
    /\ Home \in [Restored -> Values]
    /\ Binding \in [Modules -> Names]
    /\ ReloadLists \subseteq Seq(Modules)
    /\ Background \in BOOLEAN
    /\ NoTarget \notin Callables

(***************************************************************************)
(* One request as the owner receives it.  "plain" stands for list, search, *)
(* inspect and call_function, which differ only in the user code they run; *)
(* `importable` is whether reset can import every configured module.       *)
(***************************************************************************)
Operation ==
    [kind : {"execute", "plain", "close"}]
    \cup [kind : {"reload"}, modules : Seq(Modules)]
    \cup [kind : {"remove"}, names : SUBSET Names]
    \cup [kind : {"reset"}, importable : BOOLEAN]
    \cup [kind : {"register"}, name : Names, tool : Tools, desc : Descriptions]
    \cup [kind : {"unregister"}, tools : SUBSET Tools]
    \cup [kind : {"call"}, tool : Tools, target : Callables \cup {NoTarget}]

Snapshot == [schema : Schemas, desc : Texts, active : BOOLEAN]

VARIABLES
    at,               \* the owner's next step, "idle" between operations
    op,               \* the operation being run, or the last one
    changed,          \* the catalog_changed collected so far
    raised,           \* the operation raised: its result is dropped
    moved,            \* the revision moved during the operation (history)
    cache,            \* _dynamic_tool_cache
    catalogRevision,  \* _catalog_revision
    toolCount         \* _dynamic_tool_count

publishedVars == <<cache, catalogRevision, toolCount>>
ownerVars == <<ns, sig, globals, entries, symbols, revision, closed,
               at, op, changed, raised, moved, cache, catalogRevision, toolCount>>

\* A mutation: the registry's own records are published.
SnapshotsShared(table) == table

SnapshotsOf(table) ==
    [t \in Tools |->
        IF table[t] = NoEntry THEN NoEntry
        ELSE [schema |-> table[t].schema, desc |-> table[t].desc,
              active |-> table[t].state = "active"]]

ActiveCount == Cardinality({t \in Tools : Active(t)})

\* The state after a start that succeeded.
OwnerInit ==
    /\ ns = [n \in Names |-> IF n \in Restored THEN Home[n] ELSE Unbound]
    /\ sig \in [Callables -> Tokens]
    /\ globals \in Globals
    /\ entries = [t \in Tools |-> NoEntry]
    /\ symbols = [n \in Names |-> NoTool]
    /\ revision = 0
    /\ closed = FALSE
    /\ at = "idle"
    /\ op = [kind |-> "plain"]
    /\ changed = FALSE
    /\ raised = FALSE
    /\ moved = FALSE
    /\ cache = [t \in Tools |-> NoEntry]
    /\ catalogRevision = 0
    /\ toolCount = 0

(***************************************************************************)
(* Steps.  Each moves `at` and says what it adds to catalog_changed.       *)
(***************************************************************************)
FirstStep(kind) ==
    CASE kind \in {"execute", "plain"}   -> "user"
      [] kind \in {"register", "reset"}  -> "preReconcile"
      [] kind = "call"                   -> "prepare"
      [] OTHER                           -> kind

Accept(o) ==
    /\ at = "idle" /\ ~closed /\ revision < MaxRevision
    /\ at' = FirstStep(o.kind)
    /\ op' = o
    /\ changed' = FALSE /\ raised' = FALSE /\ moved' = FALSE
    /\ UNCHANGED <<liveVars, registryVars, publishedVars>>

Step(from, to, change) ==
    /\ at = from
    /\ at' = to
    /\ changed' = (changed \/ change)

Raise(from) ==
    /\ Step(from, "refresh", FALSE)
    /\ raised' = TRUE
    /\ UNCHANGED <<op, registryVars, publishedVars>>

\* User code: an executed cell, a called function, a property or __repr__
\* that a search or an inspection evaluates; at any time in a user thread.
RunUserCode ==
    /\ at = "user" \/ (Background /\ ~closed)
    /\ UserCode
    /\ UNCHANGED <<registryVars, at, op, changed, raised, publishedVars>>

ReturnFromUser ==
    /\ Step("user", IF op.kind = "plain" THEN "refresh" ELSE "reconcile", FALSE)
    /\ UNCHANGED <<liveVars, registryVars, op, raised, publishedVars>>

\* An exception that escapes the operation: list, search and inspect let a
\* BaseException of a property or a __repr__ through, and execute and the calls
\* one that user code raises while its result is translated to JSON or its
\* exception described.
Escapes ==
    /\ Raise("user")
    /\ UNCHANGED liveVars

\* A mutation: its result is not combined with the operation's.
ReconcileAfterUnreported ==
    /\ Step("reconcile", "refresh", FALSE)
    /\ Reconcile
    /\ UNCHANGED <<liveVars, op, raised, publishedVars>>

\* The reconcile of execute, remove and call once their own work is done.
ReconcileAfter ==
    /\ Step("reconcile", "refresh", ReconcileChanges)
    /\ Reconcile
    /\ UNCHANGED <<liveVars, op, raised, publishedVars>>

\* _reload_in_owner, one module at a time: bound, or failed and reported.  The
\* module's code runs, and what annotations of its functions refer to may change.
ReloadOne(binds) ==
    /\ op.kind = "reload" /\ op.modules # <<>>
    /\ Step("reload", "reload", FALSE)
    /\ op' = [op EXCEPT !.modules = Tail(op.modules)]
    /\ ns' = IF binds THEN [ns EXCEPT ![Binding[Head(op.modules)]] = Head(op.modules)]
                      ELSE ns
    /\ globals' \in Globals
    /\ UNCHANGED <<sig, registryVars, raised, publishedVars>>

ReloadDone ==
    /\ op.kind = "reload" /\ op.modules = <<>>
    /\ Step("reload", "refresh", FALSE)
    /\ UNCHANGED <<liveVars, registryVars, op, raised, publishedVars>>

\* Importing a module raises SystemExit, which `except Exception` lets through.
ReloadRaises ==
    /\ op.kind = "reload" /\ op.modules # <<>>
    /\ Raise("reload")
    /\ UNCHANGED liveVars

\* _remove_in_owner: protected names are refused, unknown ones reported.
Without(names) == [n \in Names |-> IF n \in names THEN Unbound ELSE ns[n]]

Remove ==
    /\ Step("remove", "reconcile", FALSE)
    /\ ns' = Without(op.names \ ProtectedNames)
    /\ UNCHANGED <<sig, globals, registryVars, op, raised, publishedVars>>

ReconcileBefore ==
    /\ Step("preReconcile", op.kind, ReconcileChanges)
    /\ Reconcile
    /\ UNCHANGED <<liveVars, op, raised, publishedVars>>

RegisterTool ==
    /\ op.kind = "register"
    /\ Step("register", "refresh", RegisterChanges(op.name, op.tool, op.desc))
    /\ Register(op.name, op.tool, op.desc)
    /\ UNCHANGED <<liveVars, op, raised, publishedVars>>

UnregisterTool ==
    /\ op.kind = "unregister"
    /\ Step("unregister", "refresh", UnregisterChanges(op.tools))
    /\ Unregister(op.tools)
    /\ UNCHANGED <<liveVars, op, raised, publishedVars>>

\* A mutation: protected names are spared, but not bound again.
AfterResetSparing ==
    [n \in Names |-> IF n \in ProtectedNames THEN ns[n] ELSE Unbound]

\* _reset_in_owner imports every configured module before it touches the
\* namespace, and the registry is reset only when that went well.
AfterReset ==
    [n \in Names |-> IF n \in Restored THEN Home[n]
                     ELSE IF n \in ProtectedNames THEN ns[n] ELSE Unbound]

Reset ==
    /\ op.kind = "reset" /\ op.importable
    /\ Step("reset", "refresh", ResetChanges)
    /\ ns' = AfterReset
    /\ RegistryReset
    /\ UNCHANGED <<sig, globals, op, raised, publishedVars>>

ResetRefused ==
    /\ op.kind = "reset" /\ ~op.importable
    /\ Step("reset", "refresh", FALSE)
    /\ UNCHANGED <<liveVars, registryVars, op, raised, publishedVars>>

\* A user thread adds or deletes a name while reset or remove iterates or
\* deletes: RuntimeError or KeyError after any part of the names is gone.
DeletionTorn ==
    /\ Background
    /\ op.kind \in {"reset", "remove"}
    /\ Raise(op.kind)
    /\ \E gone \in SUBSET (Names \ ProtectedNames) :
          /\ op.kind = "remove" => gone \subseteq op.names
          /\ ns' = Without(gone)
    /\ UNCHANGED <<sig, globals>>

(***************************************************************************)
(* _call_dynamic_in_owner: prepare_call reconciles, looks the entry up and *)
(* validates the arguments; the live object is then checked again, and if  *)
(* it is another one the entry is prepared a second time.                  *)
(***************************************************************************)
Callable(t) == Reconciled[t] # NoEntry /\ Reconciled[t].state = "active"

Prepare ==
    /\ op.kind = "call"
    /\ \/ Callable(op.tool) /\ Step("prepare", "recheck", ReconcileChanges)
       \/ Step("prepare", "refresh", ReconcileChanges)   \* unknown, stale, bad arguments
    /\ Reconcile
    /\ UNCHANGED <<liveVars, op, raised, publishedVars>>

\* A mutation: the live object is called, the validated one or not.
RecheckOmitted ==
    /\ at = "recheck" /\ op.kind = "call"
    /\ LET live == ns[entries[op.tool].backing]
       IN /\ live \in Callables
          /\ op' = [op EXCEPT !.target = live]
    /\ Step("recheck", "user", FALSE)
    /\ UNCHANGED <<liveVars, registryVars, raised, publishedVars>>

Recheck ==
    /\ at = "recheck" /\ op.kind = "call"
    /\ LET entry == entries[op.tool]
       IN IF ns[entry.backing] = entry.obj
          THEN /\ Step("recheck", "user", FALSE)
               /\ op' = [op EXCEPT !.target = entry.obj]
          ELSE /\ Step("recheck", "reReconcile", FALSE)
               /\ UNCHANGED op
    /\ UNCHANGED <<liveVars, registryVars, raised, publishedVars>>

ReconcileAgain ==
    /\ Step("reReconcile", "rePrepare", ReconcileChanges)
    /\ Reconcile
    /\ UNCHANGED <<liveVars, op, raised, publishedVars>>

\* The second prepare_call: what its own reconcile reports is dropped.
PrepareAgain ==
    /\ op.kind = "call"
    /\ \/ /\ Callable(op.tool)
          /\ Step("rePrepare", "user", FALSE)
          /\ op' = [op EXCEPT !.target = Reconciled[op.tool].obj]
       \/ /\ Step("rePrepare", "refresh", FALSE)
          /\ UNCHANGED op
    /\ Reconcile
    /\ UNCHANGED <<liveVars, raised, publishedVars>>

(***************************************************************************)
(* _refresh_dynamic_cache_in_owner: reconcile, snapshots (which reconciles *)
(* again), then the three published attributes one after the other.  The   *)
(* last step also returns the operation's result, or raises.               *)
(***************************************************************************)
Refresh ==
    /\ Step("refresh", "snapshot", ReconcileChanges)
    /\ Reconcile
    /\ UNCHANGED <<liveVars, op, raised, publishedVars>>

TakeSnapshots ==
    /\ Step("snapshot", "publishRevision", ReconcileChanges)
    /\ Reconcile
    /\ cache' = SnapshotsOf(Reconciled)
    /\ UNCHANGED <<liveVars, op, raised, catalogRevision, toolCount>>

PublishRevision ==
    /\ Step("publishRevision", "publishCount", FALSE)
    /\ catalogRevision' = revision
    /\ UNCHANGED <<liveVars, registryVars, op, raised, cache, toolCount>>

\* A mutation: stale registrations are counted.
PublishCountAll ==
    /\ Step("publishCount", "idle", FALSE)
    /\ toolCount' = Cardinality(Registered)
    /\ UNCHANGED <<liveVars, registryVars, op, raised, cache, catalogRevision>>

PublishCount ==
    /\ Step("publishCount", "idle", FALSE)
    /\ toolCount' = ActiveCount
    /\ UNCHANGED <<liveVars, registryVars, op, raised, cache, catalogRevision>>

\* _close_in_process: without a shell the refresh that follows does nothing.
CloseRegistry ==
    /\ Step("close", "idle", FALSE)
    /\ RegistryClose
    /\ cache' = [t \in Tools |-> NoEntry]
    /\ toolCount' = 0
    /\ UNCHANGED <<liveVars, op, raised, catalogRevision>>

\* Requests a client can make; a call has no target yet.
Requests ==
    [kind : {"execute", "plain", "close"}]
    \cup [kind : {"reload"}, modules : ReloadLists]
    \cup [kind : {"remove"}, names : SUBSET Names]
    \cup [kind : {"reset"}, importable : BOOLEAN]
    \cup [kind : {"register"}, name : Names, tool : Tools, desc : Descriptions]
    \cup [kind : {"unregister"}, tools : SUBSET Tools]
    \cup [kind : {"call"}, tool : Tools, target : {NoTarget}]

OwnerStep ==
    \/ RunUserCode \/ ReturnFromUser \/ Escapes
    \/ ReconcileBefore \/ ReconcileAfter
    \/ \E binds \in BOOLEAN : ReloadOne(binds)
    \/ ReloadDone \/ ReloadRaises
    \/ Remove \/ Reset \/ ResetRefused \/ DeletionTorn
    \/ RegisterTool \/ UnregisterTool
    \/ Prepare \/ Recheck \/ ReconcileAgain \/ PrepareAgain
    \/ Refresh \/ TakeSnapshots \/ PublishRevision \/ PublishCount
    \/ CloseRegistry

\* `moved` only observes: it remembers whether the revision moved since Accept.
OwnerNext ==
    \/ \E o \in Requests : Accept(o)
    \/ OwnerStep /\ moved' = (moved \/ revision' # revision)

OwnerSpec == OwnerInit /\ [][OwnerNext]_ownerVars
(***************************************************************************)
(* Properties.                                                             *)
(***************************************************************************)

\* Every variable holds a value of its kind: type invariant of the owner.
OwnerTypeOK ==
    /\ TypeOK
    /\ at \in {"idle", "user", "reload", "remove", "preReconcile", "register",
                "reset", "unregister", "prepare", "recheck", "reReconcile",
                "rePrepare", "reconcile", "refresh", "snapshot",
                "publishRevision", "publishCount", "close"}
    /\ op \in Operation
    /\ changed \in BOOLEAN /\ raised \in BOOLEAN /\ moved \in BOOLEAN
    /\ cache \in [Tools -> Snapshot \cup {NoEntry}]
    /\ catalogRevision \in Nat
    /\ toolCount \in Nat

\* Between operations the three attributes discovery reads agree with the
\* registry, stale entries included, whatever the last operation did, raising
\* in the middle included: nobody else refreshes them before the next one.
PublishedWhenIdle ==
    at = "idle" =>
        /\ cache = SnapshotsOf(entries)
        /\ catalogRevision = revision
        /\ toolCount = ActiveCount

\* Between operations every advertised tool is backed by a live callable
\* whose schema is the advertised one (README: "A signature-affecting change
\* makes the registration stale"), provided no user thread is running and no
\* annotation refers to a global that is rebound.
CatalogLiveWhenIdle ==
    at = "idle" /\ ~closed => \A t \in Tools : Active(t) => Compatible(entries[t])

\* An operation that returns reports a catalog change exactly when the
\* revision moved, through whichever of its reconciliations it moved.
ReturnedChangeIsExact ==
    at = "idle" /\ ~raised => (changed <=> moved)

\* With user threads running, when any of an operation's reconciliations may be
\* the one that finds a change, what it reports still moved the revision, and
\* what moved the revision is reported but for one case: the second preparation
\* of a dynamic call drops what it finds.
UnreportedOnlyByCalls ==
    at = "idle" /\ ~raised =>
        /\ changed => moved
        /\ moved /\ ~changed => op.kind = "call"

\* The object a dynamic call invokes is the one its arguments were validated
\* for, and the tool is still advertised, even if a user thread rebinds the
\* name between the validation and the call.
InvokesValidatedObject ==
    at = "user" /\ op.kind = "call" =>
        Active(op.tool) /\ op.target = entries[op.tool].obj

\* Only register_tool brings a stale registration back: not a compatible
\* object that reappears, nor a reload or a call.
StaleUntilRegistered ==
    [][\A t \in Tools : (t \in Registered /\ ~Active(t) /\ Active(t)') =>
          at = "register" /\ op.tool = t]_ownerVars

\* After a reset that succeeded the shell is as after startup: configured and
\* runtime bindings are back even if user code had shadowed them, nothing
\* else unprotected is bound, and no tool is registered.
ResetRestores ==
    at = "idle" /\ op.kind = "reset" /\ op.importable =>
        /\ \A n \in Restored : ns[n] = Home[n]
        /\ \A n \in Names \ ProtectedNames : ns[n] = Unbound
        /\ Registered = {}

=============================================================================
