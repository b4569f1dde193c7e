----------------------- MODULE OwnerOperationsProofs -----------------------
(***************************************************************************)
(* Theorems about OwnerOperations for every value of its constants.        *)
(*                                                                         *)
(* The type invariant is not inductive by itself: which step comes next    *)
(* depends on the operation's kind.  OwnerInv adds what the steps of an    *)
(* operation rely on; what the publishing steps rely on is added by        *)
(* Publishing.  The lemmas about registry methods come from                *)
(* DynamicRegistryProofs, since every step is at most one method.          *)
(***************************************************************************)
EXTENDS OwnerOperations, DynamicRegistryProofs

Places == {"idle", "user", "reload", "remove", "preReconcile", "register",
           "reset", "unregister", "prepare", "recheck", "reReconcile",
           "rePrepare", "reconcile", "refresh", "snapshot",
           "publishRevision", "publishCount", "close"}

Kinds == {"execute", "plain", "close", "reload", "remove", "reset",
          "register", "unregister", "call"}

OwnerInv ==
    /\ OwnerTypeOK
    /\ at = "preReconcile" => op.kind \in {"register", "reset"}
    /\ at = "recheck" => op.kind = "call" /\ Active(op.tool)
    /\ closed => at = "idle"

\* The fields each kind of operation has.
LEMMA OperationKinds ==
    ASSUME NEW o \in Operation
    PROVE  /\ o.kind \in Kinds
           /\ o.kind = "reload" => o \in [kind : {"reload"}, modules : Seq(Modules)]
           /\ o.kind = "remove" => o.names \in SUBSET Names
           /\ o.kind = "register" => o.name \in Names /\ o.tool \in Tools
                                                      /\ o.desc \in Descriptions
           /\ o.kind = "unregister" => o.tools \in SUBSET Tools
           /\ o.kind = "call" =>
                 o \in [kind : {"call"}, tool : Tools, target : Callables \cup {NoTarget}]
BY DEF Operation, Kinds

\* A request is an operation.
LEMMA RequestsAreOperations == Requests \subseteq Operation
BY HomeAssumption DEF Requests, Operation

\* Where an operation starts.
LEMMA FirstSteps ==
    ASSUME NEW k \in Kinds
    PROVE  /\ FirstStep(k) \in Places \ {"idle", "recheck", "reReconcile", "rePrepare",
                                         "snapshot", "publishRevision", "publishCount"}
           /\ FirstStep(k) = "preReconcile" => k \in {"register", "reset"}
BY DEF FirstStep, Kinds, Places

\* A step of an operation is at most one method of the registry.
LEMMA OwnerRegistryStep ==
    ASSUME OwnerInv, [OwnerNext]_ownerVars
    PROVE  [Method]_registryVars
<1>1. CASE UNCHANGED ownerVars
  BY <1>1 DEF ownerVars, registryVars
<1>2. ASSUME NEW o \in Requests, Accept(o) PROVE [Method]_registryVars
  BY <1>2 DEF Accept
<1>3. CASE OwnerStep
  <2>1. CASE UNCHANGED registryVars
    BY <2>1
  <2>2. CASE at # "idle" /\ Reconcile
    BY <2>2 DEF OwnerInv, Method
  <2>3. CASE RegisterTool
    <3>1. op.name \in Names /\ op.tool \in Tools /\ op.desc \in Descriptions
      BY <2>3, OperationKinds DEF RegisterTool, OwnerInv, OwnerTypeOK
    <3>2. Register(op.name, op.tool, op.desc) /\ ~closed
      BY <2>3 DEF RegisterTool, Step, OwnerInv
    <3>3. QED BY <3>1, <3>2 DEF Method
  <2>4. CASE UnregisterTool
    <3>1. op.tools \in SUBSET Tools
      BY <2>4, OperationKinds DEF UnregisterTool, OwnerInv, OwnerTypeOK
    <3>2. Unregister(op.tools) /\ ~closed
      BY <2>4 DEF UnregisterTool, Step, OwnerInv
    <3>3. QED BY <3>1, <3>2 DEF Method
  <2>5. CASE Reset
    BY <2>5 DEF Reset, Step, OwnerInv, Method
  <2>6. CASE CloseRegistry
    BY <2>6 DEF CloseRegistry, Step, OwnerInv, Method
  <2>7. OwnerStep =>
          \/ UNCHANGED registryVars
          \/ at # "idle" /\ Reconcile
          \/ RegisterTool \/ UnregisterTool \/ Reset \/ CloseRegistry
    BY DEF OwnerStep, Step, Raise, RunUserCode, ReturnFromUser, Escapes, ReconcileBefore,
           ReconcileAfter, ReloadOne, ReloadDone, ReloadRaises, Remove, ResetRefused,
           DeletionTorn, Prepare, Recheck, ReconcileAgain, PrepareAgain, Refresh,
           TakeSnapshots, PublishRevision, PublishCount
  <2>8. QED BY <1>3, <2>1, <2>2, <2>3, <2>4, <2>5, <2>6, <2>7
<1>4. QED BY <1>1, <1>2, <1>3 DEF OwnerNext

\* Every step of an operation keeps the namespace well typed.
LEMMA OwnerLiveType ==
    ASSUME OwnerInv, [OwnerNext]_ownerVars
    PROVE  LiveTypeOK'
<1>0. LiveTypeOK
  BY TypeOKParts DEF OwnerInv, OwnerTypeOK
<1>1. CASE UNCHANGED liveVars
  BY <1>0, <1>1 DEF LiveTypeOK, liveVars
<1>2. CASE RunUserCode
  BY <1>0, <1>2, UserCodeType DEF RunUserCode
<1>3. ASSUME NEW binds \in BOOLEAN, ReloadOne(binds) PROVE LiveTypeOK'
  <2>1. op.modules \in Seq(Modules) /\ op.modules # <<>>
    BY <1>3, OperationKinds DEF ReloadOne, OwnerInv, OwnerTypeOK
  <2>2. Head(op.modules) \in Modules
    BY <2>1
  <2>3. Head(op.modules) \in Values /\ Binding[Head(op.modules)] \in Names
    BY <2>2, HomeAssumption DEF Values
  <2>4. QED BY <1>0, <1>3, <2>3 DEF ReloadOne, LiveTypeOK
<1>4. CASE Remove
  BY <1>0, <1>4 DEF Remove, Without, LiveTypeOK
<1>5. CASE Reset
  <2>1. AfterReset \in [Names -> Values \cup {Unbound}]
    BY <1>0, HomeAssumption DEF AfterReset, LiveTypeOK
  <2>2. QED BY <1>0, <1>5, <2>1 DEF Reset, LiveTypeOK
<1>6. CASE DeletionTorn
  BY <1>0, <1>6 DEF DeletionTorn, Without, LiveTypeOK
<1>7. OwnerStep =>
        \/ UNCHANGED liveVars
        \/ RunUserCode \/ Remove \/ Reset \/ DeletionTorn
        \/ \E binds \in BOOLEAN : ReloadOne(binds)
  BY DEF OwnerStep, ReturnFromUser, Escapes, ReconcileBefore,
         ReconcileAfter, ReloadDone, ReloadRaises, ResetRefused,
         RegisterTool, UnregisterTool, Prepare, Recheck, ReconcileAgain, PrepareAgain,
         Refresh, TakeSnapshots, PublishRevision, PublishCount, CloseRegistry
<1>8. QED
  BY <1>1, <1>2, <1>3, <1>4, <1>5, <1>6, <1>7 DEF OwnerNext, Accept, ownerVars, liveVars

\* What is published is well typed: the snapshots of registry entries.
LEMMA SnapshotsType ==
    ASSUME NEW table \in [Tools -> Entry \cup {NoEntry}]
    PROVE  SnapshotsOf(table) \in [Tools -> Snapshot \cup {NoEntry}]
<1>1. ASSUME NEW t \in Tools, table[t] # NoEntry
      PROVE  [schema |-> table[t].schema, desc |-> table[t].desc,
              active |-> table[t].state = "active"] \in Snapshot
  BY <1>1 DEF Entry, Snapshot
<1>2. QED BY <1>1 DEF SnapshotsOf

\* There are finitely many registrations to count.
LEMMA ActiveCountType == ActiveCount \in Nat
<1>1. {t \in Tools : Active(t)} \subseteq Tools
  OBVIOUS
<1>2. QED BY <1>1, ToolsFinite, FS_Subset, FS_CardinalityType DEF ActiveCount

\* Every step keeps the published attributes well typed.
LEMMA PublishedType ==
    ASSUME OwnerInv, [OwnerNext]_ownerVars
    PROVE  /\ cache' \in [Tools -> Snapshot \cup {NoEntry}]
           /\ catalogRevision' \in Nat
           /\ toolCount' \in Nat
<1>0. /\ LiveTypeOK /\ RegistryTypeOK
      /\ cache \in [Tools -> Snapshot \cup {NoEntry}]
      /\ catalogRevision \in Nat /\ toolCount \in Nat
  BY TypeOKParts DEF OwnerInv, OwnerTypeOK
<1>1. CASE UNCHANGED publishedVars
  BY <1>0, <1>1 DEF publishedVars
<1>2. CASE TakeSnapshots
  BY <1>0, <1>2, ReconciledType, SnapshotsType DEF TakeSnapshots
<1>3. CASE PublishRevision
  BY <1>0, <1>3 DEF PublishRevision, RegistryTypeOK
<1>4. CASE PublishCount
  BY <1>0, <1>4, ActiveCountType DEF PublishCount
<1>5. CASE CloseRegistry
  BY <1>0, <1>5 DEF CloseRegistry
<1>6. OwnerStep =>
        \/ UNCHANGED publishedVars
        \/ TakeSnapshots \/ PublishRevision \/ PublishCount \/ CloseRegistry
  BY DEF OwnerStep, Raise, RunUserCode, ReturnFromUser, Escapes, ReconcileBefore,
         ReconcileAfter, ReloadOne, ReloadDone, ReloadRaises, Remove, Reset, ResetRefused,
         DeletionTorn, RegisterTool, UnregisterTool, Prepare, Recheck, ReconcileAgain,
         PrepareAgain, Refresh
<1>7. QED
  BY <1>1, <1>2, <1>3, <1>4, <1>5, <1>6 DEF OwnerNext, Accept, ownerVars, publishedVars

\* An operation stays an operation of its kind while it runs.
LEMMA OperationType ==
    ASSUME OwnerInv, [OwnerNext]_ownerVars, UNCHANGED op \/ OwnerStep
    PROVE  /\ op' \in Operation
           /\ op'.kind = op.kind
           /\ op.kind = "call" => op'.tool = op.tool
<1>0. op \in Operation
  BY DEF OwnerInv, OwnerTypeOK
<1>1. CASE UNCHANGED op
  BY <1>0, <1>1
<1>2. ASSUME NEW binds \in BOOLEAN, ReloadOne(binds)
      PROVE  op' \in [kind : {"reload"}, modules : Seq(Modules)]
  <2>1. op \in [kind : {"reload"}, modules : Seq(Modules)] /\ op.modules # <<>>
    BY <1>0, <1>2, OperationKinds DEF ReloadOne
  <2>2. Tail(op.modules) \in Seq(Modules)
    BY <2>1
  <2>3. op' = [op EXCEPT !.modules = Tail(op.modules)]
    BY <1>2 DEF ReloadOne
  <2>4. QED BY <2>1, <2>2, <2>3
<1>3. ASSUME op.kind = "call", NEW c \in Callables, op' = [op EXCEPT !.target = c]
      PROVE  /\ op' \in [kind : {"call"}, tool : Tools, target : Callables \cup {NoTarget}]
             /\ op'.tool = op.tool
  BY <1>0, <1>3, OperationKinds
<1>4. CASE Recheck
  <2>1. CASE UNCHANGED op
    BY <2>1, <1>1
  <2>2. CASE ~UNCHANGED op
    <3>1. op.kind = "call" /\ op' = [op EXCEPT !.target = entries[op.tool].obj]
      BY <1>4, <2>2 DEF Recheck
    <3>2. entries[op.tool] \in Entry
      BY <1>4 DEF OwnerInv, OwnerTypeOK, TypeOK, Registered, Active, Recheck
    <3>3. entries[op.tool].obj \in Callables
      BY <3>2 DEF Entry
    <3>4. QED BY <1>3, <3>1, <3>3 DEF Operation
  <2>3. QED BY <2>1, <2>2
<1>5. CASE PrepareAgain
  <2>1. CASE UNCHANGED op
    BY <2>1, <1>1
  <2>2. CASE ~UNCHANGED op
    <3>1. /\ op.kind = "call" /\ op' = [op EXCEPT !.target = Reconciled[op.tool].obj]
          /\ Callable(op.tool)
      BY <1>5, <2>2 DEF PrepareAgain
    <3>2. op.tool \in Tools
      BY <1>0, <3>1, OperationKinds
    <3>3. Reconciled[op.tool] \in Entry
      BY <3>1, <3>2, ReconciledType, TypeOKParts DEF Callable, OwnerInv, OwnerTypeOK
    <3>4. Reconciled[op.tool].obj \in Callables
      BY <3>3 DEF Entry
    <3>5. QED BY <1>3, <3>1, <3>4 DEF Operation
  <2>3. QED BY <2>1, <2>2
<1>6. OwnerStep =>
        \/ UNCHANGED op \/ Recheck \/ PrepareAgain
        \/ \E binds \in BOOLEAN : ReloadOne(binds)
  BY DEF OwnerStep, Raise, RunUserCode, ReturnFromUser, Escapes, ReconcileBefore,
         ReconcileAfter, ReloadDone, ReloadRaises, Remove, Reset, ResetRefused,
         DeletionTorn, RegisterTool, UnregisterTool, Prepare, ReconcileAgain, Refresh,
         TakeSnapshots, PublishRevision, PublishCount, CloseRegistry
<1>7. ASSUME NEW binds \in BOOLEAN, ReloadOne(binds)
      PROVE  /\ op' \in Operation
             /\ op'.kind = op.kind
             /\ op.kind = "call" => op'.tool = op.tool
  <2>1. op.kind = "reload"
    BY <1>7 DEF ReloadOne
  <2>2. QED BY <1>2, <1>7, <2>1 DEF Operation
<1>8. QED BY <1>1, <1>4, <1>5, <1>6, <1>7

\* Where a step leads to, and what the flags become.
LEMMA OwnerControl ==
    ASSUME OwnerInv, OwnerStep, moved' = (moved \/ revision' # revision)
    PROVE  /\ at' \in Places
           /\ changed' \in BOOLEAN /\ raised' \in BOOLEAN /\ moved' \in BOOLEAN
           /\ at' = "preReconcile" => at = "preReconcile"
           /\ at' = "recheck" => \/ at = "recheck" /\ UNCHANGED <<entries, op>>
                                 \/ /\ op.kind = "call" /\ UNCHANGED op
                                    /\ Callable(op.tool) /\ Reconcile
           /\ closed' => at' = "idle"
<1>0. /\ at \in Places /\ op \in Operation
      /\ changed \in BOOLEAN /\ raised \in BOOLEAN /\ moved \in BOOLEAN
      /\ at = "preReconcile" => op.kind \in {"register", "reset"}
      /\ closed => at = "idle"
  BY DEF OwnerInv, OwnerTypeOK, Places
<1>1. moved' \in BOOLEAN
  BY <1>0
<1>2. CASE RunUserCode
  BY <1>0, <1>1, <1>2 DEF RunUserCode, registryVars, Places
<1>3. CASE ReturnFromUser
  BY <1>0, <1>1, <1>3 DEF ReturnFromUser, Step, registryVars, Places
<1>4. CASE ReconcileAfter
  BY <1>0, <1>1, <1>4 DEF ReconcileAfter, Step, Reconcile, Places
<1>5. CASE ReloadDone
  BY <1>0, <1>1, <1>5 DEF ReloadDone, Step, registryVars, Places
<1>6. CASE Remove
  BY <1>0, <1>1, <1>6 DEF Remove, Step, registryVars, Places
<1>7. CASE ResetRefused
  BY <1>0, <1>1, <1>7 DEF ResetRefused, Step, registryVars, Places
<1>8. CASE Refresh
  BY <1>0, <1>1, <1>8 DEF Refresh, Step, Reconcile, Places
<1>9. CASE RegisterTool
  BY <1>0, <1>1, <1>9 DEF RegisterTool, Step, Register, Places
<1>10. CASE UnregisterTool
  BY <1>0, <1>1, <1>10 DEF UnregisterTool, Step, Unregister, Places
<1>11. CASE Reset
  BY <1>0, <1>1, <1>11 DEF Reset, Step, RegistryReset, Places
<1>12. CASE Escapes
  BY <1>0, <1>1, <1>12 DEF Escapes, Step, Raise, registryVars, Places
<1>13. CASE ReloadRaises
  BY <1>0, <1>1, <1>13 DEF ReloadRaises, Step, Raise, registryVars, Places
<1>14. CASE DeletionTorn
  BY <1>0, <1>1, <1>14 DEF DeletionTorn, Step, Raise, registryVars, Places
<1>15. CASE ReconcileAgain
  BY <1>0, <1>1, <1>15 DEF ReconcileAgain, Step, Reconcile, Places
<1>16. CASE PrepareAgain
  BY <1>0, <1>1, <1>16 DEF PrepareAgain, Step, Reconcile, Places
<1>17. CASE TakeSnapshots
  BY <1>0, <1>1, <1>17 DEF TakeSnapshots, Step, Reconcile, Places
<1>18. CASE PublishRevision
  BY <1>0, <1>1, <1>18 DEF PublishRevision, Step, registryVars, Places
<1>19. CASE PublishCount
  BY <1>0, <1>1, <1>19 DEF PublishCount, Step, registryVars, Places
<1>20. CASE ReconcileBefore
  BY <1>0, <1>1, <1>20 DEF ReconcileBefore, Step, Reconcile, Places
<1>21. CASE \E binds \in BOOLEAN : ReloadOne(binds)
  BY <1>0, <1>1, <1>21 DEF ReloadOne, Step, registryVars, Places
<1>22. CASE Prepare
  BY <1>0, <1>1, <1>22 DEF Prepare, Step, Reconcile, Places
<1>23. CASE Recheck
  BY <1>0, <1>1, <1>23 DEF Recheck, Step, registryVars, Places
<1>24. CASE CloseRegistry
  BY <1>0, <1>1, <1>24 DEF CloseRegistry, Step, Places
<1>25. QED
  BY <1>2, <1>3, <1>4, <1>5, <1>6, <1>7, <1>8, <1>9, <1>10, <1>11, <1>12, <1>13,
     <1>14, <1>15, <1>16, <1>17, <1>18, <1>19, <1>20, <1>21, <1>22, <1>23, <1>24
  DEF OwnerStep

\* The invariant is inductive.
LEMMA OwnerInvStep ==
    ASSUME OwnerInv, [OwnerNext]_ownerVars
    PROVE  OwnerInv'
<1>0. LiveTypeOK /\ RegistryTypeOK
  BY TypeOKParts DEF OwnerInv, OwnerTypeOK
<1>1. LiveTypeOK' /\ RegistryTypeOK'
  BY <1>0, OwnerLiveType, OwnerRegistryStep, MethodType
<1>2. TypeOK'
  BY <1>1 DEF LiveTypeOK, RegistryTypeOK, TypeOK
<1>3. CASE UNCHANGED ownerVars
  BY <1>3 DEF ownerVars, OwnerInv, OwnerTypeOK, TypeOK, Registered, Active
<1>4. ASSUME NEW o \in Requests, Accept(o) PROVE OwnerInv'
  <2>1. o \in Operation /\ o.kind \in Kinds
    BY RequestsAreOperations, OperationKinds
  <2>2. /\ at' \in Places \ {"idle", "recheck"}
        /\ at' = "preReconcile" => op'.kind \in {"register", "reset"}
        /\ op' \in Operation
    BY <1>4, <2>1, FirstSteps DEF Accept
  <2>3. changed' \in BOOLEAN /\ raised' \in BOOLEAN /\ moved' \in BOOLEAN /\ ~closed'
    BY <1>4 DEF Accept, registryVars
  <2>4. OwnerTypeOK'
    BY <1>2, <2>2, <2>3, PublishedType DEF OwnerTypeOK, Places
  <2>5. QED BY <2>2, <2>3, <2>4 DEF OwnerInv
<1>5. CASE OwnerStep /\ moved' = (moved \/ revision' # revision)
  <2>1. /\ op' \in Operation /\ op'.kind = op.kind
        /\ op.kind = "call" => op'.tool = op.tool
    BY <1>5, OperationType
  <2>2. OwnerTypeOK'
    BY <1>2, <1>5, <2>1, OwnerControl, PublishedType DEF OwnerTypeOK, Places
  <2>3. at' = "preReconcile" => op'.kind \in {"register", "reset"}
    BY <1>5, <2>1, OwnerControl DEF OwnerInv
  <2>4. at' = "recheck" => op'.kind = "call" /\ Active(op.tool)' /\ op'.tool = op.tool
    <3>1. CASE at = "recheck" /\ UNCHANGED <<entries, op>>
      BY <3>1 DEF OwnerInv, Active, Registered
    <3>2. CASE /\ op.kind = "call" /\ UNCHANGED op
               /\ Callable(op.tool) /\ Reconcile
      <4>1. op.tool \in Tools
        BY <3>2, OperationKinds DEF OwnerInv, OwnerTypeOK
      <4>2. QED BY <3>2, <4>1 DEF Callable, Reconcile, Active, Registered
    <3>3. QED BY <1>5, <3>1, <3>2, OwnerControl
  <2>5. closed' => at' = "idle"
    BY <1>5, OwnerControl
  <2>6. QED BY <2>2, <2>3, <2>4, <2>5 DEF OwnerInv
<1>6. QED BY <1>3, <1>4, <1>5 DEF OwnerNext

\* The invariant holds after a start that succeeded.
LEMMA OwnerInvInit == OwnerInit => OwnerInv
<1> SUFFICES ASSUME OwnerInit PROVE OwnerInv
  OBVIOUS
<1>1. /\ entries \in [Tools -> Entry \cup {NoEntry}]
      /\ symbols \in [Names -> Tools \cup {NoTool}]
      /\ cache \in [Tools -> Snapshot \cup {NoEntry}]
  BY DEF OwnerInit
<1>2. ns \in [Names -> Values \cup {Unbound}]
  BY HomeAssumption DEF OwnerInit
<1>3. op \in Operation
  BY DEF OwnerInit, Operation
<1>4. QED BY <1>1, <1>2, <1>3 DEF OwnerInit, OwnerInv, OwnerTypeOK, TypeOK

\* The invariant holds in every state of the owner.
LEMMA OwnerInvariant == OwnerSpec => []OwnerInv
BY OwnerInvInit, OwnerInvStep, PTL DEF OwnerSpec

\* Type correctness of the owner: no operation, raising ones included, takes a
\* variable out of its kind.
THEOREM OwnerTypeCorrect == OwnerSpec => []OwnerTypeOK
<1>1. OwnerInv => OwnerTypeOK
  BY DEF OwnerInv
<1>2. QED BY <1>1, OwnerInvariant, PTL

(***************************************************************************)
(* The registry under the owner's operations.                              *)
(***************************************************************************)

\* The theorems about the registry's tables carry over to the operations that
\* are built from its methods.
THEOREM OwnerIndexConsistent == OwnerSpec => []IndexConsistent
<1>1. OwnerInit => IndexConsistent
  BY DEF OwnerInit, IndexConsistent, Registered
<1>2. OwnerInv /\ IndexConsistent /\ [OwnerNext]_ownerVars => IndexConsistent'
  BY OwnerRegistryStep, MethodIndex, TypeOKParts DEF OwnerInv, OwnerTypeOK
<1>3. QED BY <1>1, <1>2, OwnerInvariant, PTL DEF OwnerSpec

\* No sequence of operations registers more than max_dynamic_tools tools.
THEOREM OwnerCapacityRespected == OwnerSpec => []WithinCapacity
<1>1. OwnerInit => WithinCapacity
  <2> SUFFICES ASSUME OwnerInit PROVE WithinCapacity
    OBVIOUS
  <2>1. Registered = {}
    BY DEF OwnerInit, Registered
  <2>2. QED BY <2>1, FS_EmptySet, LimitAssumption DEF WithinCapacity
<1>2. OwnerInv /\ WithinCapacity /\ [OwnerNext]_ownerVars => WithinCapacity'
  BY OwnerRegistryStep, MethodCapacity, TypeOKParts DEF OwnerInv, OwnerTypeOK
<1>3. QED BY <1>1, <1>2, OwnerInvariant, PTL DEF OwnerSpec

\* Only register_tool makes a stale registration active again.
THEOREM StaleAlwaysUntilRegistered == OwnerSpec => StaleUntilRegistered
<1>1. OwnerInv /\ [OwnerNext]_ownerVars =>
        \A t \in Tools : (t \in Registered /\ ~Active(t) /\ Active(t)') =>
          at = "register" /\ op.tool = t
  <2> SUFFICES ASSUME OwnerInv, [OwnerNext]_ownerVars, NEW t \in Tools,
                      t \in Registered, ~Active(t), Active(t)'
               PROVE  at = "register" /\ op.tool = t
    OBVIOUS
  <2>1. entries'[t] # entries[t] /\ entries'[t].state = "active" /\ entries'[t] # NoEntry
    BY DEF Active, Registered
  <2>2. Reconciled[t] = entries[t]
    BY ReconciledType, TypeOKParts DEF OwnerInv, OwnerTypeOK
  <2>3. ~Reconcile
    BY <2>1, <2>2 DEF Reconcile
  <2>4. ~Cleared
    BY <2>1 DEF Cleared
  <2>5. ~UnregisterTool
    BY <2>1, <2>2 DEF UnregisterTool, Unregister
  <2>6. OwnerStep
    BY <2>1 DEF OwnerNext, Accept, registryVars, ownerVars
  <2>7. RegisterTool
    BY <2>1, <2>3, <2>4, <2>5, <2>6
    DEF OwnerStep, Raise, RunUserCode, ReturnFromUser, Escapes, ReconcileBefore,
        ReconcileAfter, ReloadOne, ReloadDone, ReloadRaises, Remove, Reset, ResetRefused,
        DeletionTorn, Prepare, Recheck, ReconcileAgain, PrepareAgain, Refresh,
        TakeSnapshots, PublishRevision, PublishCount, CloseRegistry, registryVars,
        RegistryReset, RegistryClose
  <2>8. entries' = [entries EXCEPT ![op.tool] = NewEntry(op.name, op.desc)]
    BY <2>1, <2>7 DEF RegisterTool, Register
  <2>9. QED BY <2>1, <2>7, <2>8 DEF RegisterTool, Step, OwnerInv, OwnerTypeOK, TypeOK
<1>2. QED BY <1>1, OwnerInvariant, PTL DEF OwnerSpec, StaleUntilRegistered

(***************************************************************************)
(* What discovery reads.                                                   *)
(***************************************************************************)

\* What the steps of the refresh have published so far.
Publishing ==
    /\ PublishedWhenIdle
    /\ at = "publishRevision" => cache = SnapshotsOf(entries)
    /\ at = "publishCount" => cache = SnapshotsOf(entries) /\ catalogRevision = revision
    /\ at = "close" => catalogRevision = revision

\* Only the refresh and close lead back to "idle", and nobody changes the
\* registry between the steps of the refresh.
LEMMA PublishingStep ==
    ASSUME OwnerInv, Publishing, [OwnerNext]_ownerVars
    PROVE  Publishing'
<1>1. CASE UNCHANGED ownerVars
  BY <1>1 DEF ownerVars, Publishing, PublishedWhenIdle, SnapshotsOf, ActiveCount, Active, Registered
<1>2. ASSUME NEW o \in Requests, Accept(o) PROVE Publishing'
  <2>1. o.kind \in Kinds
    BY RequestsAreOperations, OperationKinds
  <2>2. at' \notin {"idle", "publishRevision", "publishCount"}
    BY <1>2, <2>1, FirstSteps DEF Accept
  <2>3. catalogRevision' = revision'
    BY <1>2 DEF Accept, Publishing, PublishedWhenIdle, registryVars, publishedVars
  <2>4. QED BY <2>2, <2>3 DEF Publishing, PublishedWhenIdle
<1>3. CASE RunUserCode
  BY <1>3 DEF RunUserCode, registryVars, publishedVars, Publishing, PublishedWhenIdle,
              SnapshotsOf, ActiveCount, Active, Registered
<1>4. CASE TakeSnapshots
  <2>1. at' = "publishRevision" /\ cache' = SnapshotsOf(Reconciled) /\ entries' = Reconciled
    BY <1>4 DEF TakeSnapshots, Step, Reconcile
  <2>2. QED BY <2>1 DEF Publishing, PublishedWhenIdle, SnapshotsOf
<1>5. CASE PublishRevision
  BY <1>5 DEF PublishRevision, Step, registryVars, Publishing, PublishedWhenIdle, SnapshotsOf
<1>6. CASE PublishCount
  BY <1>6 DEF PublishCount, Step, registryVars, Publishing, PublishedWhenIdle,
              SnapshotsOf, ActiveCount, Active, Registered
<1>7. CASE CloseRegistry
  <2>1. /\ at' = "idle" /\ toolCount' = 0
        /\ entries' = [t \in Tools |-> NoEntry] /\ cache' = [t \in Tools |-> NoEntry]
        /\ revision' = revision /\ catalogRevision' = catalogRevision /\ at = "close"
    BY <1>7 DEF CloseRegistry, Step, RegistryClose, Cleared
  <2>2. cache' = SnapshotsOf(entries')
    BY <2>1 DEF SnapshotsOf
  <2>3. {t \in Tools : Active(t)}' = {}
    BY <2>1 DEF Active, Registered
  <2>4. ActiveCount' = 0
    BY <2>3, FS_EmptySet DEF ActiveCount
  <2>5. QED BY <2>1, <2>2, <2>4 DEF Publishing, PublishedWhenIdle
<1>8. ASSUME at' \notin {"idle", "publishRevision", "publishCount", "close"}
      PROVE  Publishing'
  BY <1>8 DEF Publishing, PublishedWhenIdle
<1>9. OwnerStep =>
        \/ RunUserCode \/ TakeSnapshots \/ PublishRevision \/ PublishCount \/ CloseRegistry
        \/ at' \notin {"idle", "publishRevision", "publishCount", "close"}
  BY DEF OwnerStep, Step, Raise, ReturnFromUser, Escapes, ReconcileBefore,
         ReconcileAfter, ReloadOne, ReloadDone, ReloadRaises, Remove, Reset, ResetRefused,
         DeletionTorn, RegisterTool, UnregisterTool, Prepare, Recheck, ReconcileAgain,
         PrepareAgain, Refresh, OwnerInv
<1>10. QED
  BY <1>1, <1>2, <1>3, <1>4, <1>5, <1>6, <1>7, <1>8, <1>9 DEF OwnerNext

\* Whenever no operation is in progress, the cache, the revision and the count
\* that discovery reads describe the registry as it is, also after operations
\* that raised and with user threads running.
THEOREM AlwaysPublishedWhenIdle == OwnerSpec => []PublishedWhenIdle
<1>1. OwnerInit => Publishing
  <2> SUFFICES ASSUME OwnerInit PROVE Publishing
    OBVIOUS
  <2>1. {t \in Tools : Active(t)} = {}
    BY DEF OwnerInit, Active, Registered
  <2>2. ActiveCount = 0
    BY <2>1, FS_EmptySet DEF ActiveCount
  <2>3. QED BY <2>2 DEF OwnerInit, Publishing, PublishedWhenIdle, SnapshotsOf
<1>2. OwnerInv /\ Publishing /\ [OwnerNext]_ownerVars => Publishing'
  BY PublishingStep
<1>3. Publishing => PublishedWhenIdle
  BY DEF Publishing
<1>4. QED BY <1>1, <1>2, <1>3, OwnerInvariant, PTL DEF OwnerSpec

(***************************************************************************)
(* Calls and what they report.                                             *)
(***************************************************************************)

\* The object called is the one the arguments were validated for: the recheck
\* compares it with the live one, and from there on nothing is reconciled.
THEOREM AlwaysInvokesValidatedObject == OwnerSpec => []InvokesValidatedObject
<1>1. OwnerInit => InvokesValidatedObject
  BY DEF OwnerInit, InvokesValidatedObject
<1>2. OwnerInv /\ InvokesValidatedObject /\ [OwnerNext]_ownerVars => InvokesValidatedObject'
  <2> SUFFICES ASSUME OwnerInv, InvokesValidatedObject, [OwnerNext]_ownerVars,
                      at' = "user", op'.kind = "call"
               PROVE  Active(op.tool)' /\ op'.target = entries'[op'.tool].obj
    BY DEF InvokesValidatedObject
  <2>1. CASE UNCHANGED <<at, op, entries>>
    BY <2>1 DEF InvokesValidatedObject, Active, Registered
  <2>2. ASSUME NEW o \in Requests, Accept(o) PROVE FALSE
    <3>1. op' = o /\ at' = FirstStep(o.kind)
      BY <2>2 DEF Accept
    <3>2. FirstStep("call") = "prepare"
      BY DEF FirstStep
    <3>3. QED BY <3>1, <3>2
  <2>3. CASE Recheck
    <3>1. op' = [op EXCEPT !.target = entries[op.tool].obj] /\ op.kind = "call"
      BY <2>3 DEF Recheck, Step
    <3>2. op \in [kind : {"call"}, tool : Tools, target : Callables \cup {NoTarget}]
      BY <3>1, OperationKinds DEF OwnerInv, OwnerTypeOK
    <3>3. op'.tool = op.tool /\ op'.target = entries[op.tool].obj
      BY <3>1, <3>2
    <3>4. Active(op.tool) /\ UNCHANGED entries
      BY <2>3 DEF Recheck, OwnerInv, registryVars
    <3>5. QED BY <3>3, <3>4 DEF Active, Registered
  <2>4. CASE PrepareAgain
    <3>1. /\ op' = [op EXCEPT !.target = Reconciled[op.tool].obj] /\ op.kind = "call"
          /\ Callable(op.tool)
      BY <2>4 DEF PrepareAgain, Step
    <3>2. op \in [kind : {"call"}, tool : Tools, target : Callables \cup {NoTarget}]
      BY <3>1, OperationKinds DEF OwnerInv, OwnerTypeOK
    <3>3. op'.tool = op.tool /\ op'.target = Reconciled[op.tool].obj /\ op.tool \in Tools
      BY <3>1, <3>2
    <3>4. entries' = Reconciled
      BY <2>4 DEF PrepareAgain, Reconcile
    <3>5. QED BY <3>1, <3>3, <3>4 DEF Callable, Active, Registered
  <2>5. OwnerStep => \/ UNCHANGED <<at, op, entries>> \/ Recheck \/ PrepareAgain
                     \/ at' # "user"
    <3>1. ReconcileBefore => at' # "user"
      BY DEF ReconcileBefore, Step, OwnerInv
    <3>2. QED
      BY <3>1 DEF OwnerStep, Step, Raise, RunUserCode, ReturnFromUser, Escapes,
             ReconcileAfter, ReloadOne, ReloadDone, ReloadRaises, Remove, Reset,
             ResetRefused, DeletionTorn, RegisterTool, UnregisterTool, Prepare,
             ReconcileAgain, Refresh, TakeSnapshots, PublishRevision, PublishCount,
             CloseRegistry, registryVars
  <2>6. QED BY <2>1, <2>2, <2>3, <2>4, <2>5 DEF OwnerNext, ownerVars
<1>3. QED BY <1>1, <1>2, OwnerInvariant, PTL DEF OwnerSpec

\* Without user threads, what an operation has collected is what has happened,
\* and a call is never prepared twice.
Reporting ==
    /\ ~raised => (changed <=> moved)
    /\ at \notin {"reReconcile", "rePrepare"}
    /\ at = "recheck" => ns[entries[op.tool].backing] = entries[op.tool].obj

\* reconcile leaves an entry active only with the object that is bound.
LEMMA ReconciledIsLive ==
    ASSUME LiveTypeOK, NEW e \in Entry, ReconciledEntry(e).state = "active"
    PROVE  ns[ReconciledEntry(e).backing] = ReconciledEntry(e).obj
<1>1. e # NoEntry /\ e.state \in States
  BY NoEntryAssumption DEF Entry
<1>2. CASE e.state = "stale"
  BY <1>2 DEF ReconciledEntry
<1>3. CASE e.state = "active" /\ Untouched(e)
  BY <1>3 DEF ReconciledEntry, Untouched
<1>4. CASE e.state = "active" /\ ~Untouched(e) /\ Compatible(e)
  <2>1. ReconciledEntry(e) = [e EXCEPT !.obj = ns[e.backing], !.token = sig[ns[e.backing]]]
    BY <1>1, <1>4 DEF ReconciledEntry
  <2>2. QED BY <2>1 DEF Entry
<1>5. CASE e.state = "active" /\ ~Untouched(e) /\ ~Compatible(e)
  <2>1. ReconciledEntry(e) = [e EXCEPT !.state = "stale"]
    BY <1>1, <1>5 DEF ReconciledEntry
  <2>2. ReconciledEntry(e).state = "stale"
    BY <2>1 DEF Entry
  <2>3. QED BY <2>2
<1>6. QED BY <1>1, <1>2, <1>3, <1>4, <1>5 DEF States

\* The flag a step adds to catalog_changed is whether it moves the revision, but
\* for the second preparation of a call.
LEMMA StepReports ==
    ASSUME OwnerInv, OwnerStep, ~PrepareAgain
    PROVE  changed' <=> changed \/ revision' # revision
<1>0. revision \in Nat /\ changed \in BOOLEAN
  BY DEF OwnerInv, OwnerTypeOK, TypeOK
<1>1. Reconcile => (revision' # revision <=> ReconcileChanges)
  BY <1>0 DEF Reconcile, Bump
<1>2. CASE RunUserCode
  BY <1>2 DEF RunUserCode, registryVars
<1>3. CASE RegisterTool
  <2>1. revision' # revision <=> RegisterChanges(op.name, op.tool, op.desc)
    BY <1>0, <1>3 DEF RegisterTool, Register, Bump
  <2>2. QED BY <1>3, <2>1 DEF RegisterTool, Step
<1>4. CASE UnregisterTool
  <2>1. revision' # revision <=> UnregisterChanges(op.tools)
    BY <1>0, <1>4 DEF UnregisterTool, Unregister, UnregisterChanges, Bump
  <2>2. QED BY <1>4, <2>1 DEF UnregisterTool, Step
<1>5. CASE Reset
  <2>1. revision' # revision <=> ResetChanges
    BY <1>0, <1>5 DEF Reset, RegistryReset, Bump
  <2>2. QED BY <1>5, <2>1 DEF Reset, Step
<1>6. CASE CloseRegistry
  BY <1>6 DEF CloseRegistry, RegistryClose, Step
<1>7. CASE Prepare
  BY <1>1, <1>7 DEF Prepare, Step
<1>8. ASSUME NEW from, NEW to, Step(from, to, ReconcileChanges), Reconcile
      PROVE  changed' <=> changed \/ revision' # revision
  BY <1>1, <1>8 DEF Step
<1>9. ASSUME NEW from, NEW to, Step(from, to, FALSE), revision' = revision
      PROVE  changed' <=> changed \/ revision' # revision
  BY <1>9 DEF Step
<1>10. CASE ReconcileBefore \/ ReconcileAfter \/ ReconcileAgain \/ Refresh
            \/ TakeSnapshots
  BY <1>8, <1>10 DEF ReconcileBefore, ReconcileAfter, ReconcileAgain, Refresh, TakeSnapshots
<1>11. CASE ReturnFromUser \/ ReloadDone \/ Remove \/ ResetRefused \/ Recheck
            \/ PublishRevision \/ PublishCount \/ \E binds \in BOOLEAN : ReloadOne(binds)
  BY <1>9, <1>11 DEF ReturnFromUser, ReloadDone, Remove, ResetRefused, Recheck,
                     PublishRevision, PublishCount, ReloadOne, registryVars
<1>12. CASE Escapes \/ ReloadRaises \/ DeletionTorn
  BY <1>9, <1>12 DEF Escapes, ReloadRaises, DeletionTorn, Raise, registryVars
<1>13. QED
  BY <1>2, <1>3, <1>4, <1>5, <1>6, <1>7, <1>10, <1>11, <1>12 DEF OwnerStep

\* An operation that has raised stays so until the next one is accepted.
LEMMA RaisedStays ==
    ASSUME OwnerStep, ~raised'
    PROVE  ~raised
BY DEF OwnerStep, Raise, RunUserCode, ReturnFromUser, Escapes, ReconcileBefore,
       ReconcileAfter, ReloadOne, ReloadDone, ReloadRaises, Remove, Reset, ResetRefused,
       DeletionTorn, RegisterTool, UnregisterTool, Prepare, Recheck, ReconcileAgain,
       PrepareAgain, Refresh, TakeSnapshots, PublishRevision, PublishCount, CloseRegistry

\* What the steps of an operation have reported so far.
UnreportedSoFar ==
    ~raised => /\ changed => moved
               /\ moved /\ ~changed => op.kind = "call"

\* With user threads too, every step but the second preparation of a call
\* reports what it moves.
THEOREM AlwaysUnreportedOnlyByCalls == OwnerSpec => []UnreportedOnlyByCalls
<1>1. OwnerInit => UnreportedSoFar
  BY DEF OwnerInit, UnreportedSoFar
<1>2. OwnerInv /\ UnreportedSoFar /\ [OwnerNext]_ownerVars => UnreportedSoFar'
  <2> SUFFICES ASSUME OwnerInv, UnreportedSoFar, [OwnerNext]_ownerVars
               PROVE  UnreportedSoFar'
    OBVIOUS
  <2>1. CASE UNCHANGED ownerVars
    BY <2>1 DEF ownerVars, UnreportedSoFar
  <2>2. ASSUME NEW o \in Requests, Accept(o) PROVE UnreportedSoFar'
    BY <2>2 DEF Accept, UnreportedSoFar
  <2>3. CASE OwnerStep /\ moved' = (moved \/ revision' # revision)
    <3>1. op'.kind = op.kind
      BY <2>3, OperationType
    <3>2. CASE PrepareAgain
      <4>1. changed' = (changed \/ FALSE) /\ op.kind = "call"
        BY <3>2 DEF PrepareAgain, Step
      <4>2. QED BY <2>3, <3>1, <4>1, RaisedStays DEF UnreportedSoFar
    <3>3. CASE ~PrepareAgain
      <4>1. changed' <=> changed \/ revision' # revision
        BY <2>3, <3>3, StepReports
      <4>2. QED BY <2>3, <3>1, <4>1, RaisedStays DEF UnreportedSoFar
    <3>4. QED BY <3>2, <3>3
  <2>4. QED BY <2>1, <2>2, <2>3 DEF OwnerNext
<1>3. UnreportedSoFar => UnreportedOnlyByCalls
  BY DEF UnreportedSoFar, UnreportedOnlyByCalls
<1>4. QED BY <1>1, <1>2, <1>3, OwnerInvariant, PTL DEF OwnerSpec

\* Without user threads every step keeps the report exact: the registry cannot
\* change between the preparation of a call and its recheck.
LEMMA ReportingStep ==
    ASSUME OwnerInv, Reporting, Background = FALSE, [OwnerNext]_ownerVars
    PROVE  Reporting'
<1>1. CASE UNCHANGED ownerVars
  BY <1>1 DEF ownerVars, Reporting
<1>2. ASSUME NEW o \in Requests, Accept(o) PROVE Reporting'
  <2>1. o.kind \in Kinds
    BY RequestsAreOperations, OperationKinds
  <2>2. at' \notin {"recheck", "reReconcile", "rePrepare"}
    BY <1>2, <2>1, FirstSteps DEF Accept
  <2>3. changed' = FALSE /\ moved' = FALSE
    BY <1>2 DEF Accept
  <2>4. QED BY <2>2, <2>3 DEF Reporting
<1>3. CASE OwnerStep /\ moved' = (moved \/ revision' # revision)
  <2>1. changed' <=> changed \/ revision' # revision
    <3>1. ~PrepareAgain
      BY DEF Reporting, PrepareAgain, Step
    <3>2. QED BY <1>3, <3>1, StepReports
  <2>2. ~raised' => ~raised
    BY <1>3, RaisedStays
  <2>3. ~raised' => (changed' <=> moved')
    BY <1>3, <2>1, <2>2 DEF Reporting
  <2>4. at' \notin {"reReconcile", "rePrepare"}
    <3>1. ReconcileBefore => at' \notin {"reReconcile", "rePrepare"}
      BY DEF ReconcileBefore, Step, OwnerInv
    <3>2. Recheck => at' \notin {"reReconcile", "rePrepare"}
      BY DEF Recheck, Step, Reporting
    <3>3. QED
      BY <1>3, <3>1, <3>2 DEF OwnerStep, Step, Raise, RunUserCode, ReturnFromUser, Escapes,
           ReconcileAfter, ReloadOne, ReloadDone, ReloadRaises, Remove, Reset, ResetRefused,
           DeletionTorn, RegisterTool, UnregisterTool, Prepare, ReconcileAgain, PrepareAgain,
           Refresh, TakeSnapshots, PublishRevision, PublishCount, CloseRegistry, Reporting
  <2>5. at' = "recheck" => ns'[entries'[op'.tool].backing] = entries'[op'.tool].obj
    <3>1. SUFFICES ASSUME at' = "recheck"
                   PROVE  ns'[entries'[op'.tool].backing] = entries'[op'.tool].obj
      OBVIOUS
    <3>2. Prepare
      <4>1. ReconcileBefore => at' # "recheck"
        BY DEF ReconcileBefore, Step, OwnerInv
      <4>2. RunUserCode => at' = "user"
        BY DEF RunUserCode
      <4>3. QED
        BY <1>3, <3>1, <4>1, <4>2 DEF OwnerStep, Step, Raise, ReturnFromUser, Escapes,
           ReconcileAfter, ReloadOne, ReloadDone, ReloadRaises, Remove, Reset, ResetRefused,
           DeletionTorn, RegisterTool, UnregisterTool, Recheck, ReconcileAgain, PrepareAgain,
           Refresh, TakeSnapshots, PublishRevision, PublishCount, CloseRegistry
    <3>3. /\ Callable(op.tool) /\ entries' = Reconciled /\ UNCHANGED <<op, ns>>
          /\ op.kind = "call"
      BY <3>1, <3>2 DEF Prepare, Step, Reconcile, liveVars
    <3>4. op.tool \in Tools
      BY <3>3, OperationKinds DEF OwnerInv, OwnerTypeOK
    <3>5. op.tool \in Registered /\ entries[op.tool] \in Entry
      BY <3>3, <3>4, ReconciledType, TypeOKParts
      DEF Callable, Registered, OwnerInv, OwnerTypeOK
    <3>6. /\ Reconciled[op.tool] = ReconciledEntry(entries[op.tool])
          /\ Reconciled[op.tool].state = "active"
      BY <3>3, <3>4 DEF Reconciled, Callable
    <3>7. LiveTypeOK
      BY TypeOKParts DEF OwnerInv, OwnerTypeOK
    <3>8. ns[Reconciled[op.tool].backing] = Reconciled[op.tool].obj
      BY <3>5, <3>6, <3>7, ReconciledIsLive
    <3>9. QED BY <3>3, <3>8
  <2>6. QED BY <2>3, <2>4, <2>5 DEF Reporting
<1>4. QED BY <1>1, <1>2, <1>3 DEF OwnerNext

\* Unless user code leaves threads behind, an operation that returns reports a
\* catalog change exactly when the revision moved: none of its reconciliations
\* is forgotten, and none is reported that changed nothing.
THEOREM AlwaysExactChange ==
    ASSUME Background = FALSE
    PROVE  OwnerSpec => []ReturnedChangeIsExact
<1>1. OwnerInit => Reporting
  BY DEF OwnerInit, Reporting
<1>2. OwnerInv /\ Reporting /\ [OwnerNext]_ownerVars => Reporting'
  BY ReportingStep
<1>3. Reporting => ReturnedChangeIsExact
  BY DEF Reporting, ReturnedChangeIsExact
<1>4. QED BY <1>1, <1>2, <1>3, OwnerInvariant, PTL DEF OwnerSpec

(***************************************************************************)
(* The live namespace between operations.                                  *)
(***************************************************************************)

\* The schemas stay explained by the tokens under every operation: reload and
\* user code change what annotations refer to, the registry's methods do not.
LEMMA OwnerExplained ==
    ASSUME TokensDetermineSchema, OwnerInv, TokenExplainsSchema, [OwnerNext]_ownerVars
    PROVE  TokenExplainsSchema'
<1>1. LiveTypeOK /\ RegistryTypeOK /\ globals \in Globals
  BY TypeOKParts DEF OwnerInv, OwnerTypeOK, LiveTypeOK
<1>2. globals' \in Globals
  BY OwnerLiveType DEF LiveTypeOK
<1>3. CASE UNCHANGED globals
  BY <1>1, <1>3, OwnerRegistryStep, MethodExplained
<1>4. CASE UNCHANGED registryVars
  BY <1>1, <1>2, <1>4, GlobalsExplained
<1>5. UNCHANGED globals \/ UNCHANGED registryVars
  BY DEF OwnerNext, ownerVars, Accept, OwnerStep, Step, Raise, RunUserCode, ReturnFromUser,
         Escapes, ReconcileBefore, ReconcileAfter, ReloadOne, ReloadDone, ReloadRaises,
         Remove, Reset, ResetRefused, DeletionTorn, RegisterTool, UnregisterTool, Prepare,
         Recheck, ReconcileAgain, PrepareAgain, Refresh, TakeSnapshots, PublishRevision,
         PublishCount, CloseRegistry, liveVars
<1>6. QED BY <1>3, <1>4, <1>5

\* From the first reconciliation of the refresh to the next request, every
\* advertised tool is as advertised.
Settled == {"snapshot", "publishRevision", "publishCount", "idle"}

CatalogLive ==
    at \in Settled /\ ~closed => \A t \in Tools : Active(t) => Compatible(entries[t])

\* Only the two reconciliations of the refresh lead among the settled steps,
\* and without user threads nothing live changes there.
LEMMA CatalogLiveStep ==
    ASSUME Background = FALSE, OwnerInv, TokenExplainsSchema, CatalogLive,
           [OwnerNext]_ownerVars
    PROVE  CatalogLive'
<1>1. LiveTypeOK /\ RegistryTypeOK
  BY TypeOKParts DEF OwnerInv, OwnerTypeOK
<1>2. CASE at \in Settled /\ UNCHANGED <<liveVars, registryVars>>
  BY <1>2 DEF CatalogLive, Active, Registered, Compatible, DerivedSchema, liveVars, registryVars
<1>3. CASE Reconcile /\ UNCHANGED liveVars
  BY <1>1, <1>3, ReconcileLive DEF CatalogLive
<1>4. CASE at' \notin Settled \/ closed'
  BY <1>4 DEF CatalogLive
<1>5. CASE UNCHANGED ownerVars
  BY <1>5 DEF ownerVars, CatalogLive, Active, Registered, Compatible, DerivedSchema
<1>6. ASSUME NEW o \in Requests, Accept(o) PROVE at' \notin Settled
  BY <1>6, RequestsAreOperations, OperationKinds, FirstSteps DEF Accept, Settled
<1>7. CASE OwnerStep
  <2>1. ReconcileBefore => at' \notin Settled
    BY DEF ReconcileBefore, Step, OwnerInv, Settled
  <2>2. RunUserCode => at' \notin Settled
    BY DEF RunUserCode, Settled
  <2>3. QED
    BY <1>2, <1>3, <1>4, <1>7, <2>1, <2>2
    DEF OwnerStep, Step, Raise, ReturnFromUser, Escapes, ReconcileAfter, ReloadOne,
        ReloadDone, ReloadRaises, Remove, Reset, ResetRefused, DeletionTorn, RegisterTool,
        UnregisterTool, Prepare, Recheck, ReconcileAgain, PrepareAgain, Refresh,
        TakeSnapshots, PublishRevision, PublishCount, CloseRegistry, RegistryClose, Settled
<1>8. QED BY <1>4, <1>5, <1>6, <1>7 DEF OwnerNext

\* Unless user code leaves threads behind or annotations refer to globals it
\* rebinds, what is advertised between operations can be called as advertised,
\* whatever the last operation did and even if it raised.
THEOREM CatalogAlwaysLiveWhenIdle ==
    ASSUME Background = FALSE, TokensDetermineSchema
    PROVE  OwnerSpec => []CatalogLiveWhenIdle
<1>1. OwnerInit => TokenExplainsSchema /\ CatalogLive
  BY DEF OwnerInit, TokenExplainsSchema, CatalogLive, Active, Registered
<1>2. OwnerInv /\ TokenExplainsSchema /\ [OwnerNext]_ownerVars => TokenExplainsSchema'
  BY OwnerExplained
<1>3. OwnerInv /\ TokenExplainsSchema /\ CatalogLive /\ [OwnerNext]_ownerVars => CatalogLive'
  BY CatalogLiveStep
<1>4. CatalogLive => CatalogLiveWhenIdle
  BY DEF CatalogLive, CatalogLiveWhenIdle, Settled
<1>5. QED BY <1>1, <1>2, <1>3, <1>4, OwnerInvariant, PTL DEF OwnerSpec

\* A reset goes through these steps only, and what it restored is not touched
\* again until the next request.
AfterSuccess == {"refresh"} \cup Settled

LikeStartup ==
    /\ \A n \in Restored : ns[n] = Home[n]
    /\ \A n \in Names \ ProtectedNames : ns[n] = Unbound
    /\ Registered = {}

Resetting ==
    op.kind = "reset" =>
        /\ at \in {"preReconcile", "reset"} \cup AfterSuccess
        /\ op.importable /\ at \in AfterSuccess => LikeStartup

\* Without user threads nothing happens to a reset between its assignments and
\* the publication; reconciling an empty registry leaves it empty.
LEMMA ResettingStep ==
    ASSUME Background = FALSE, OwnerInv, Resetting, [OwnerNext]_ownerVars
    PROVE  Resetting'
<1>1. LiveTypeOK /\ RegistryTypeOK
  BY TypeOKParts DEF OwnerInv, OwnerTypeOK
<1>2. CASE UNCHANGED ownerVars
  BY <1>2 DEF ownerVars, Resetting, LikeStartup, Registered
<1>3. ASSUME NEW o \in Requests, Accept(o) PROVE Resetting'
  BY <1>3 DEF Accept, FirstStep, Resetting, AfterSuccess, Settled
<1>4. CASE OwnerStep
  <2> SUFFICES ASSUME op'.kind = "reset" PROVE Resetting'
    BY DEF Resetting
  <2>1. op.kind = "reset" /\ at \in {"preReconcile", "reset"} \cup AfterSuccess
    BY <1>4, OperationType DEF Resetting
  <2>2. CASE Reset
    <3>1. /\ at' = "refresh" /\ ns' = AfterReset
          /\ entries' = [t \in Tools |-> NoEntry]
      BY <2>2 DEF Reset, Step, RegistryReset, Cleared
    <3>2. LikeStartup'
      BY <3>1, HomeAssumption, NamesAssumption DEF LikeStartup, AfterReset, Registered
    <3>3. QED BY <3>1, <3>2 DEF Resetting, AfterSuccess
  <2>3. CASE ResetRefused
    BY <2>3 DEF ResetRefused, Step, Resetting, AfterSuccess
  <2>4. CASE ReconcileBefore
    BY <2>1, <2>4 DEF ReconcileBefore, Step, Resetting, AfterSuccess, Settled
  <2>5. CASE Refresh \/ TakeSnapshots
    <3>1. /\ Reconcile /\ UNCHANGED <<liveVars, op>>
          /\ at \in AfterSuccess /\ at' \in AfterSuccess
      BY <2>5 DEF Refresh, TakeSnapshots, Step, AfterSuccess, Settled
    <3>2. Registered' = Registered
      BY <1>1, <3>1, ReconciledType DEF Reconcile, Registered
    <3>3. QED BY <3>1, <3>2 DEF Resetting, LikeStartup, liveVars
  <2>6. CASE PublishRevision \/ PublishCount
    BY <2>6 DEF PublishRevision, PublishCount, Step, liveVars, registryVars, Resetting,
                LikeStartup, Registered, AfterSuccess, Settled
  <2>7. Reset \/ ResetRefused \/ ReconcileBefore \/ Refresh \/ TakeSnapshots
          \/ PublishRevision \/ PublishCount
    BY <1>4, <2>1 DEF OwnerStep, Step, Raise, RunUserCode, ReturnFromUser, Escapes,
         ReconcileAfter, ReloadOne, ReloadDone, ReloadRaises, Remove, DeletionTorn,
         RegisterTool, UnregisterTool, Prepare, Recheck, ReconcileAgain, PrepareAgain,
         CloseRegistry, AfterSuccess, Settled
  <2>8. QED BY <2>2, <2>3, <2>4, <2>5, <2>6, <2>7
<1>5. QED BY <1>2, <1>3, <1>4 DEF OwnerNext

\* After a reset that could import its modules, the shell is as after startup,
\* whatever user code had bound, shadowed or registered before.
THEOREM ResetAlwaysRestores ==
    ASSUME Background = FALSE
    PROVE  OwnerSpec => []ResetRestores
<1>1. OwnerInit => Resetting
  BY DEF OwnerInit, Resetting
<1>2. OwnerInv /\ Resetting /\ [OwnerNext]_ownerVars => Resetting'
  BY ResettingStep
<1>3. Resetting => ResetRestores
  BY DEF Resetting, ResetRestores, LikeStartup, AfterSuccess, Settled
<1>4. QED BY <1>1, <1>2, <1>3, OwnerInvariant, PTL DEF OwnerSpec

=============================================================================
