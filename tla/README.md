# Verification of ipython-mcp

TLA+ models of the server in `src/ipython_mcp/`: an MCP server that owns one
IPython shell, runs every operation on it on a single worker thread, and lets a
client publish live callables as tools. The models say what the code does,
TLC checks them on small instances and TLAPS proves the safety properties for
every instance. Paths below are relative to the repository; `runtime.py`,
`dynamic_tools.py`, ... are the files of `src/ipython_mcp/`.

## 1. The system

| Component | State it keeps | Operations | Who calls it |
| --- | --- | --- | --- |
| **Runtime lifecycle** (`ShellRuntime`, runtime.py 150-445) | `_shell`, `_closed`, `_closing`, `_close_future`, `_lifecycle_lock`, the single-worker executor with its queue and futures | `start`, `close`, `_submit`, the completion callbacks `_finish_cancelled_start` and `_finish_close` | the server's lifespan, request handlers, the worker thread (callbacks) |
| **Owner operations** (runtime.py 366-399, 547-1092) | `user_ns`, `_module_bindings`, `_dynamic_tool_cache`, `_catalog_revision`, `_dynamic_tool_count` | `execute`, `list`, `search`, `inspect`, `call_function`, `reload`, `remove`, `reset`, `register_tool`, `unregister_tool`, dynamic calls, close; `_run_in_owner` brackets them | the worker thread, one at a time |
| **Dynamic tool registry** (`DynamicRegistry`, dynamic_tools.py) | `_entries`, `_symbols`, `revision` | `register`, `unregister`, `snapshots`, `prepare_call`, `reconcile`, `reset`, `close` | owner operations |
| **Schema derivation** (dynamic_tools.py 415-834) | none | `derive_callable_spec`, `annotation_schema`, `validate_json_schema`, `signature_affecting_token` | the registry |
| **Environment provisioning** (environment.py 78-234) | a directory in a workspace that servers share, a temporary directory each | `_prepare_uv_environment`: lookup, validation, building with uv, rename, cleanup | the start job |
| **Process inputs** (environment.py, runtime.py 444-500) | `os.environ`, `sys.path`, remembered values for the rollback | `prepare`, `restore`, `prioritize_site_packages`, preloads | start and close jobs |
| **MCP server and provider** (server.py, provider.py) | none of its own | ten handlers, `_list_tools`, `_get_tool`, `notify_tool_list_changed` | FastMCP |
| **Output and JSON translation** (runtime.py 92-136, 547-610, 1136-1245) | `sys.stdout` of the process, the sinks of each execution | `BoundedTextSink.write`, `_json_safe`, `_error_info` | owner operations |
| **Configuration, compact profile, response models** (config.py, compact.py, models.py) | none | validation, pruning of fields | start of the server, handlers |

How they interact:

* A handler awaits one runtime coroutine. The coroutine submits a job to the
  executor (`_submit`) and awaits its future. The worker runs jobs in the order
  in which they were queued. `start` and `close` are jobs in the same queue.
* `_run_in_owner` runs the job, whatever it raises, and then reconciles the
  registry with the namespace and publishes a copy of it in three attributes
  (`_refresh_dynamic_cache_in_owner`). Discovery (`_list_tools`, `_get_tool`)
  reads those attributes on the event loop and never queues behind user code.
* The registry only observes the namespace. User code rebinds names and changes
  functions in place; `reconcile` finds out at the next operation. A method
  returns whether the catalog changed, and the handler turns that into a
  `list_changed` notification.
* Servers that select the same environment meet only in the file system, and
  no lock is taken there.
* Completion callbacks of futures run on whichever thread completes or cancels
  the future: this is how the worker itself comes to queue the close job or to
  shut the executor down.

What is hard here:

* *Concurrency*: coroutines on the event loop against the worker, callbacks on
  either, three locks (`_lifecycle_lock`, the executor's, and the import of
  both in one callback chain); threads that user code leaves behind, which change the namespace
  between any two steps of an operation.
* *Cancellation*: running Python cannot be interrupted, so a cancelled start,
  request or close has work going on behind it.
* *Partial failure*: operations that raise after changing the namespace; reset
  and reload, which consist of several steps.
* *Processes*: several servers build the same environment, each with a timeout
  on uv, and any of them may be killed half way.
* *Process-wide state*: `sys.stdout`, `sys.path` and `os.environ` belong to
  everything in the process, user threads and preloaded modules included, and
  are changed and put back around it.
* *Delivery*: requests are cancelled, notifications fail, and a list travels
  while the catalog changes again.
* *Staleness*: the remembered object and token of a registration, the published
  cache, flags read before the executor is entered.

What makes each component correct is stated as properties of section 3; the
hazards they are aimed at are listed, each with its line, in `PROJECT.json`.

## 2. The modules

```
   DynamicRegistry          registry methods over a changing namespace
        ^  EXTENDS
   OwnerOperations          the owner's operations, step by step
        :                    (a request that runs in ShellRuntime)
   ShellRuntime             lifecycle: event loop, worker, executor, locks
        ^  EXTENDS
   SerialOwnerRefinement -- INSTANCE --> SerialOwner   (abstract specification)

   EnvironmentProvisioning  part of the start job, across server processes
   StartupEnvironment       the start and close jobs over variables and sys.path
   CatalogService           handlers, owner, provider and the client they serve
   JsonTranslation
        ^  EXTENDS
   UserOutput               streams, sinks and the response of an execution
```

`DynamicRegistryProofs`, `OwnerOperationsProofs`, `ShellRuntimeProofs` (which
holds the refinement too), `EnvironmentProvisioningProofs`,
`StartupEnvironmentProofs`, `CatalogServiceProofs` and `UserOutputProofs` extend
the module that they are about; `NumberInduction` is the lemmas on which the
proofs about loops and recursion rest. The `MC` modules hold the instances.

### DynamicRegistry

The namespace is `ns` (what each name is bound to), `sig` (the
signature-affecting state of each callable object) and `globals` (what string
annotations resolve to). `Derive` gives the schema for a signature state and the
globals, or `Unsupported` when `derive_callable_spec` raises: schema derivation
enters the registry only through this function. A registration (`Entry`) is the
`RegistryEntry` with the fields the methods read. A description is its text,
which clients see listed, and whether it was cut to the limit, which the answer of
`register_tool` tells and `_same_advertisement` compares. Each method is an action, and
what it returns as `catalog_changed` is a state predicate of its own
(`ReconcileChanges`, `RegisterChanges`, ...), so that `OwnerOperations` can
collect them as the code does. `register` is one guard (`Accepts`) with every
refusal of the source, since a refusal changes nothing; the order of the error
messages is left out. `Rebind`, `ChangeSignature` and `RebindGlobal` are user
code. Names and tools that are not well formed are refused before anything is
read and have no counterpart.

### OwnerOperations

One request at a time (`op`) advances through steps (`at`). A step is a stretch
of the code that a user thread may separate from the next: each `reconcile`, the
body of the operation, the recheck of a dynamic call, the three assignments of
the refresh. `Accept` is the worker taking the job, `Refresh` to `PublishCount`
are `_refresh_dynamic_cache_in_owner`, `Raise` is the exception path of
`_run_in_owner`, which goes through the same refresh.
`changed` is the flag that the operation collects, `moved` a history variable
that remembers whether the revision really moved. `list`, `search`, `inspect`
and `call_function` differ only in the user code that they run (properties,
`__repr__`, the function itself), so they are one kind, `plain`. With
`Background = TRUE` user code runs between any two steps.

A method of the registry is one step: a user thread that changes the namespace
in the middle of `reconcile` is seen as acting before or after it.

### ShellRuntime

`task` holds the coroutines, `future` the executor's futures, `queue` its work
queue, `at` where the two threads stand in synchronous code. Coroutines are
interleaved at their awaits only; the worker runs at any time. Steps are cut where the other thread can get in:
between reading `_closed`/`_closing` and entering the executor, between
submitting the close job and registering its callback, before each lock. The executor is
CPython's and external: FIFO, one worker, `submit` raising after shutdown,
`shutdown(cancel_futures=True)` cancelling queued futures one by one inside its
lock, with their callbacks. A cancelled request withdraws a future that the
worker has not taken; `start` and `close` are shielded.

`EarlyCallers = FALSE` is the server: `yield` comes after `await start()` in the
lifespan, so nobody calls before start has returned. `EarlyCallers = TRUE` is an
embedder (the repository's tests use `ShellRuntime` directly) who may.

### SerialOwner and SerialOwnerRefinement

The promise to callers without threads, futures or locks: admitted operations
run in order, one at a time, each at most once, never after a withdrawal, never
without a shell, and closing comes last. `waiting` is a set and `ahead` says who
was admitted before whom; an operation begins when nobody waits ahead of it.
`Safely` is the promise without its liveness, `Spec` adds that what was admitted
is run or withdrawn. The refinement mapping reads the phase from
`future["close"]`, `future["start"]` and `shell`, who is waiting from the
requests' futures, who is ahead from the places in the queue (`aheadBar`; a
cancelled item, which stays in the queue, is ahead of nobody), and what runs from
the worker.

### EnvironmentProvisioning

`target` is the path that the servers' configurations name, `temporary` what each
process has built under its own name, `step` where it stands in
`_prepare_uv_environment`. A path is its kind (directory, link, file), the
metadata in it, whether it has a site-packages directory and what is installed
there. Configurations differ by what `_expected_metadata` compares; `Requires`
gives the packages that uv installs for one, so that two configurations may
differ in metadata only. Lookup, validation, each command of uv, the metadata,
the rename and the `finally` clause are steps of their own, and other processes
run between any two of them. `BuildFails` is uv failing or timing out with part
of its work done; `Kill` ends a process anywhere; `Start` begins again with any
configuration. After `Kill` the temporary directory stays on disk under a name
that mkdtemp never gives again, and the next `Start` of that process forgets it.
`RenameErrors` is what the platform raises when the name is taken. Everything
that refuses a start before the build (`_workspace`, a link, a missing uv) is the
one action `LookupFails`, since it changes nothing.

Assumed: nobody but the servers changes the target while they run, `rmtree`
succeeds, and initially a directory that carries this program's metadata is an
environment that it completed (`InitialAssumption`).

### StartupEnvironment

One lifespan of a shell: `at` is the phase that comes next, and every phase may
fail. `previous`, `added`, `originals` and `reordered` are the four attributes
of the class, `None` for a missing key. Indices count from 1 as those of
sequences do. `environ` and `path` belong to everybody: `Touch` is a preloaded
module or the shell's code changing one variable or inserting, appending,
removing or moving one entry of the path, while preloads are imported or the
shell lives. `BuildShell` is lines 468-478: IPython may insert a virtual
environment, which is undone if an environment is selected. Two ways out pass
every handler and restore nothing: a preload that raises `SystemExit`, and
`InteractiveShell.instance()` raising. They are the actions `PreloadEscapes`
and `BuildEscapes`, lead to `escaped`, and no property speaks of what is left
behind there.

Loops over a list are recursive functions of the number of rounds:
`RestoredPath` removes the entries of `_added_paths` one by one, `Applied` goes
through the reversed paths. A library directory that is listed twice is moved to
the front twice, so its last mention counts, and `PrecedenceWhenLive` says so.
`Without` is what foreign code owns of a path: its entries that are not
configured, in their order.

The configuration is checked elsewhere: a library path that is a link or no
directory is a failure of the phase `paths` before anything is changed.

### CatalogService

A catalog is its version, and so is a list. All handlers have one form (one
operation, one `notify_tool_list_changed`, the answer), so a request is one
coroutine: queued, running, answered, about to notify, over. `stage` is where
the owner stands in `_run_in_owner`; that an operation which returns reports its
changes is what `OwnerOperations` shows (dynamic calls with user threads excepted),
here `changed` is that report. `Cancel`
ends a request's coroutine at any await, and the operation behind it goes on if
the worker has taken it (`Skip` drops it otherwise). `wire` is the session, in
order; the client lists the tools to begin with and after every notification,
reading what was published (`ListRead`) at one moment and receiving it at a later
one. `silenced` is a history variable, the versions whose report was dropped:
by a cancellation, by an exception of the operation, by a session that raised.

### UserOutput and JsonTranslation

`stdout` is `sys.stdout`, `saved` what the redirections in force will put back.
Texts are lengths. A thread of user code prints during its execution or any
later one or between operations; it looks the stream up (`StartPrint`) and
writes to it later. `BoundedTextSink.write` is cut where CPython may switch
threads, after the call of `append` (`Write`) and between reading and assigning
`retained_characters` around the call of `len` (`Load`, `Store`). The response
takes the text, the flag and the count in three steps. `own`, `cut`, `gap`,
`overlapped` and `crossed` are history. stderr differs in nothing and is left out.

`publish` tests the limit on displays, translates the data, and then stores it.
The translation runs user code, which may print and may call `display` again on the
same thread: `showing` is, for each thread, the executions of the calls of
`publish` that it is inside, outermost first. `StartDisplay` is the test, allowed
in the middle of another display, `Show` the rest of the innermost call, which stores
nothing when the translation raises. User code that runs in the middle of a write (a
finalizer, a method of a subclass of `str`) and prints there counts as one more
thread of the same execution.

What a thread prints while no operation runs does reach the protocol's stream:
nothing in the code claims otherwise, and `ProtocolKept` speaks of prints that
begin while an operation runs.

`JsonSafe` is `_json_safe` over a heap whose nodes have a kind and items, cycles
included (`HeapsAssumption` says no more than that). `Translated` is the body of
the function, given the calls at greater depths; the calls by depth are a
recursive function. The definition it is compared with (`Visited`, `Shortened`,
`Untranslatable`) goes down level by level from the root.

## 3. What is checked

| Run | Instance | Properties and what they show |
| --- | --- | --- |
| `registry` | 3 names, 3 tools and a stable one, 2 callables, 3 signature states (plain, with an alias, unsupported), 3 descriptions of which two are equal once cut, limit 2, 3 revisions | `IndexConsistent`, `WithinCapacity`, `RevisionTracksCatalog`, `RevivalIsFresh`: the methods in any order, user code between |
| `owner_quiet` | 2 names and a configured alias, 2 tools, 2 descriptions that differ in the cut only, 2 modules of which one shadows the alias when reloaded, no user thread | `PublishedWhenIdle`, `CatalogLiveWhenIdle`, `ReturnedChangeIsExact`, `ResetRestores`, `TokenExplainsSchema`, `StaleUntilRegistered` |
| `owner_threads` | 1 name and the alias, user threads, an unsupported signature | `InvokesValidatedObject` holds even then, and `UnreportedOnlyByCalls` is what remains of `ReturnedChangeIsExact` (`PublishedWhenIdle` and `StaleUntilRegistered` too: they are proved) |
| `runtime_server` | 2 requests, 2 callers of close, the server's discipline, fairness | `NoSelfDeadlock`, `CloseTearsDown`, `CancelledStartReleasesExecutor`, `RequestsResolve`, `ImplementsSerialOwner` |
| `runtime_api` | the same, calls at any time | `ClosedMeansTornDown`, `CloseQueuedOnce` |
| `provisioning` | 2 servers, 3 starts, 4 configurations of which two differ in metadata only, 5 things that may be at the target, both errors of a rename, fairness | `SelectedMatches`, `OnlyCompleteAppears`, `NothingLeftBehind`, `StartsSettle` |
| `startup` | 3 directories, 4 paths at the start (one with an entry twice), 4 library lists, a selected environment or none, 2 variables of which one is configured, 2 foreign changes | `VariablesRestored`, `PathRestoredExactly`, `ForeignKept`, `PrecedenceWhenLive` |
| `catalog` | 3 requests, 2 versions beyond the first, fairness | `BehindOnlyIfSilenced`, `EventuallyCurrent`, `DiscoveryNeverWaits` |
| `output` | 2 threads, 2 executions, 4 prints or displays of length 1 or 2, limit 3, 1 display; heaps of 2 containers with up to 3 items, 2 of them shown, depth 3 | `NothingUnaccounted`, `ExactUnlessOverlapped`, `ProtocolKept`, `ResultsExact` |

`TypeOK`, `OwnerTypeOK` and `RuntimeTypeOK` are the type invariants.

What some of these say less than one might expect, and why:

* `RevisionTracksCatalog` allows one false alarm. `_same_advertisement` compares
  `description_truncated` (dynamic_tools.py 833), which no client sees listed: a tool
  whose description is at the limit and ends in the ellipsis, registered again with a
  longer one that is cut to the same text, moves the revision and is announced
  although the list is as before.
* `BehindOnlyIfSilenced` and `EventuallyCurrent` except a client whose report was
  dropped. README 253 ("Catalog changes emit `notifications/tools/list_changed`")
  has no such exception, but `_run_in_owner` re-raises an operation's exception
  after it has refreshed the cache and so loses the change (runtime.py 378-380;
  `reload` of a module that raises `SystemExit` gets there), a cancelled handler
  never reaches the notification, and `notify_tool_list_changed` suppresses what
  the session raises. The next operation finds nothing changed any more. With user
  threads there is a fourth way: the second `prepare_call` of a dynamic call
  assigns its flag to `_` (runtime.py 1054), and `UnreportedOnlyByCalls` excepts
  dynamic calls. `silenced` is a set, so that a dropped report excuses that very
  version only.
* `ExactUnlessOverlapped` excepts executions in which two writes met in a sink from
  what it says of the text. README 226 ("Exact omitted-character counts") does not
  hold for them: an assignment of `retained_characters` is lost, so text beyond the
  limit is kept and counted as omitted. `NothingUnaccounted` is what remains: nothing
  is lost without being counted. From what it says of the displays it excepts
  executions in which a display passed the test while another had passed it and was
  not stored yet. README 217 ("Retained display payloads per execution") does not
  hold for them, and that needs no second thread: a `__repr__` or `items` that
  displays in its turn, while the last place is being filled, leaves one more.
* `VariablesRestored` and `PathRestoredExactly`, and their theorems, speak of the
  phases whose exceptions a handler catches, and say nothing of a start that
  escaped every handler (see StartupEnvironment).
* `ResultsExact` is about a function. It is a fact about the constants, which TLC
  evaluates in the states in which an execution has been answered.
* `ResetRestores` is about a reset that succeeds; a refused one changes nothing, by
  the order of the source, which `ResetRefused` follows.
* `owner_quiet` has no user thread and one value of `Globals`: a deletion torn by a
  thread and an annotation whose global is rebound do not occur in it. The first is
  in the theorems about `PublishedWhenIdle` and `StaleUntilRegistered`, the second is
  `owner_alias` and the hypothesis of `CatalogAlwaysLiveWhenIdle`.

`closed`, whose docstring (runtime.py 176) also promises that it covers a teardown
in progress, becomes true only when the close job has ended; `_closing` is what
tells earlier.

Three runs end in a counterexample, on what the repository says of itself:

| Run | Statement | What happens |
| --- | --- | --- |
| `owner_alias` | README 250: a signature-affecting change makes the registration stale | rebinding the alias that a string annotation names changes the schema and not the token |
| `runtime_stranded` | comment at runtime.py 187: cancellation cannot strand the executor | `close()` queued behind a start that is cancelled and then fails: shutdown, inside the executor's lock, runs a callback that calls shutdown |
| `provisioning_race` | README 181: rename into place, or verify the existing environment's metadata | where the rename raises `ENOTEMPTY` (ext4, tmpfs, btrfs, APFS; XFS answers `EEXIST`, which is `FileExistsError`), the loser of the race fails although the environment there fits |

**Bounds.** `MaxRevision` stops new operations once the revision counter reaches
it; three revisions are enough for a tool to be registered, to go stale and to
be registered again or removed, and the properties relate two consecutive
catalogs. Two tools and two free names are what collisions need, two callables
what replacing an object needs, a limit below the number of tools what a full
registry needs. Two requests make one wait behind another; two closers, a start
and its callback are all that compete for `_close_future`. Two
servers are what a race needs, three starts let one be killed and start again
beside the other. The
site-packages directory of `startup` is absent, first, last or in the middle of the
path before the start, and may be configured as a library as well; two foreign
changes can undo one another. Three requests let one be cancelled while
another runs and a third waits, and two changes let a publication overtake a list
that is on its way. Four prints fill a sink of three characters, from two threads,
and leave one for a later execution; a depth of three is what a record inside a
container, and a cycle, need to meet the limit. Names, tools and
callables are interchangeable, so the registry and owner runs use symmetry;
none of them checks liveness. Deadlock is not checked where the model really
stops: a closed runtime, a closed registry, the bound on revisions.

**Fairness** (`Fairness` in ShellRuntime). The worker goes on: user code,
imports and uv are assumed to end, which README 15-20 makes the condition for
everything else. The event loop delivers results that are ready and finishes
synchronous code that it has begun. A started process goes on with its startup
(`FairSpec` of EnvironmentProvisioning): `_run` gives every command a timeout and
everything else is a bounded number of calls. Nobody has to call or to cancel: `CallClose`,
`CallSubmit`, the cancellations, `Start` and `Kill` have no fairness. In
CatalogService the loop, the session and the client go on, and so does the owner once
an operation has ended (`Publish`, `Complete`). That user code ends is *not*
assumed there (`Finish` and `Take` have no fairness): a list must be answered
although an operation never ends.

## 4. What is proved

Every safety property that a run checks, action properties included, and the
step part of the refinement, for all values of the constants that satisfy the
named assumptions of the modules. Where a theorem has a hypothesis more, the
table gives it. `TokensDetermineSchema` and, for `NoSelfDeadlock`, `EarlyCallers =
FALSE` are needed: `owner_alias` and `runtime_stranded` are the counterexamples.
`Background = FALSE` says that user code leaves no threads behind that change the
namespace between the steps of an operation.

| Theorem | Says | Argument |
| --- | --- | --- |
| `TypeCorrect` | `[]TypeOK` | one step per method and per kind of user code |
| `IndexAlwaysConsistent` | `[]IndexConsistent` | inductive together with `TypeOK` |
| `CapacityRespected` | `[]WithinCapacity` | `register` adds at most one element to a set whose size it tested; reconcile keeps the set |
| `RevisionTracksCatalogAlways` | `RevisionTracksCatalog` | an entry leaves or enters `Catalog` exactly when the predicate beside its method holds, but for a registration that differs in `truncated` only |
| `RevivalAlwaysFresh` | `RevivalIsFresh` | only `Register` makes an entry active |
| `SchemaAlwaysExplained` | `[]TokenExplainsSchema` | assumes `TokensDetermineSchema`: no annotation refers to a global that is rebound. `owner_alias` is the counterexample without it |
| `OwnerTypeCorrect`, `OwnerIndexConsistent`, `OwnerCapacityRespected` | the same under the owner's steps | `OwnerInv` |
| `StaleAlwaysUntilRegistered` | `StaleUntilRegistered`, user threads included | every step but `RegisterTool` leaves a stale entry stale or removes it |
| `AlwaysPublishedWhenIdle` | `[]PublishedWhenIdle`, user threads included | `Publishing`: what each of the attributes must already equal at every step of the refresh |
| `AlwaysInvokesValidatedObject` | `[]InvokesValidatedObject`, user threads included | the target is fixed in the step that looks at the entry, and nothing reconciles before the call |
| `AlwaysExactChange` | `[]ReturnedChangeIsExact` without user threads | `Reporting`: in every step the collected flag equals the history variable, and from the second reconcile on there is nothing left to find, because nobody ran in between. It assumes `Background = FALSE`: with user threads the flag of the second `prepare_call` is dropped |
| `AlwaysUnreportedOnlyByCalls` | `[]UnreportedOnlyByCalls`, user threads included | `UnreportedSoFar`, the same at every step: each of them adds to the flag exactly what moves the revision (`StepReports`), but for `PrepareAgain` |
| `ProvisioningTypeCorrect`, `SelectedAlwaysMatches`, `NothingEverLeftBehind` | `[]TypeOK`, `[]SelectedMatches`, `[]NothingLeftBehind` of EnvironmentProvisioning | one inductive invariant: the target is foreign or complete for what it records (`Honest`), and `Progress` says what a process has built at each step. A step that leaves the target alone concerns its own process only (`LocalStep`); the winning rename finds the name free, so nobody had selected it |
| `CatalogAlwaysLiveWhenIdle` | `[]CatalogLiveWhenIdle`, assuming `Background = FALSE` and `TokensDetermineSchema` | not inductive while an operation runs: `CatalogLive` speaks of the steps between the last reconcile and the end, in which no user code runs; what reconcile leaves active is bound to a live callable, and its token explains its schema |
| `ResetAlwaysRestores` | `[]ResetRestores`, assuming `Background = FALSE` | `Resetting`: what of the fresh start (`LikeStartup`) already holds after each step of a reset, up to the last assignment of the refresh |
| `OnlyCompleteEverAppears` | `OnlyCompleteAppears` | only the winning rename changes the target |
| `RuntimeTypeCorrect`, `AlwaysTornDownWhenClosed`, `CloseRunsAfterStart` | `[]RuntimeTypeOK`, `[]ClosedMeansTornDown`, and that close never runs before start is over, with `EarlyCallers` TRUE or FALSE | `RuntimeInv`: whoever sets `closed` knows that start is over (`StartOver`), which is stable, and only start makes a shell. For the close job that is the order of the queue (`QueueInv`: before every close stands a start that has yet to run, if there is one), which rests on `_lifecycle_lock` (`LockInv`) and on `closing` being set before close is submitted (`CallInv`: no start enters the executor after that) |
| `LineInvariant`, `CloseAlwaysQueuedOnce` | `[]LineInv`, `[]CloseQueuedOnce`, with `EarlyCallers` TRUE or FALSE | `LineInv`: no job stands in the queue twice, what stands there is pending or a request that was cancelled, and what is pending stands there; only a job whose future is `none` is submitted. While a close job runs its future says so, and who finishes one finds it done |
| `NeverSelfDeadlocks` | `[]NoSelfDeadlock`, assuming `EarlyCallers = FALSE` | `Discipline`: callers who wait for start cannot queue close before start has succeeded, so nothing shuts the executor down while a close is queued |
| `RuntimeIsSerialOwner` | `Spec => Owner!Safely`: every step of ShellRuntime is a step or a stutter of SerialOwner, assuming `EarlyCallers = FALSE` | `ServerInv` adds to the invariants above that nothing is submitted behind close (`CloseLast`) and who may still call when (`CallersInv`). One lemma for each kind of step says what it does to the barred variables: a submitted request is behind all that wait (`SubmissionAdmits`), the head of the queue has nobody ahead of it (`TakingBegins`), a cancelled one leaves (`CancellationWithdraws`), and the close job finds nobody waiting (`CloseShuts`) |
| `VariablesAlwaysRestored` | `[]VariablesRestored` | `RollbackInv`: until the variables are applied nothing was changed, and from then on, in every phase, what is remembered is what the start found |
| `KindsAlwaysRight` | `[]TypeOK` of StartupEnvironment | `Kinds` adds that nothing has happened to the path before it is applied, and that only what is configured is added and only a selected directory moved; removing, moving and inserting keep a list of directories, whichever round of a loop it is |
| `PathAlwaysRestored`, `PrecedenceAlways` | `[]PathRestoredExactly`, `[]PrecedenceWhenLive`, duplicates and any configuration included | `PathInv`: as long as nobody else changes the path it is the start's behind the list of added directories (`Ahead`, `Laid`), perhaps with the selected directory moved to the front (`Foremost`), and the index that was remembered is where it goes back to. That removing one by one what was added leaves the rest, and that the reversed loop lays down the last mentions in order, are lemmas about the loops (`RemovesBetween` and those on `LaidOf`) |
| `ForeignAlwaysKept` | `ForeignKept` | every `list.remove`, `pop` and `insert` of the server concerns a configured directory and so leaves `Without` as it is (`RestoredPathKeeps`), however foreign code arranged the list |
| `StreamsNested`, `ProtocolAlwaysKept` | `[]Streams` and `ProtocolKept` of UserOutput, for any number of threads | the redirections are nested as the phases are, so a stream that is looked up during an operation is one of the two that are in force |
| `NothingGoesUnaccounted` | `[]NothingUnaccounted` | `retained_characters` may be too small, since updates are lost, but is never too large (`Accounted`): each character held is claimed by the one thread that has yet to count it or is settled, and what is stored counts settled characters only |
| `ExactWhenUndivided` | `[]ExactUnlessOverlapped` | `Undivided`: while no two writes have met in a sink it is `Alone` (at most one thread is in it, and what it has yet to count is what is held beyond the count; what is held is a prefix, cut at the limit) and `Told` (each field of the response was taken from the same sink); while no display has passed the limit beside another it is `Orderly` (one call of `publish`, of all threads and however nested, has a place that it is yet to fill) |
| `TranslationIsExact`, `ResultsAlwaysExact` | `TranslationExact`, `[]ResultsExact`: any heap, any limits on items and depth | see below |
| `ServiceTypeCorrect`, `AlwaysBehindOnlyIfSilenced` | `[]TypeOK`, `[]BehindOnlyIfSilenced` of CatalogService | a catalog that is published leaves evidence (the flag, a report, a notification, a list to come), and every step hands it on or records that it was dropped; `ListInv`: one list at a time is under way and it is no older than the client's |

`PublishedWhenIdle` and `ReturnedChangeIsExact` speak of the moments between
operations only and are not inductive: the strengthenings say what holds at
every step in between.

**Loops and recursion.** The prover has no induction over data, so loops of the
source are recursive functions and what they compute is proved by a fact about
sets of numbers (`SetInduction`: a set of naturals that holds 0 and the successor
of each of its members is all of them), which follows from the well-foundedness of
`<`. For each such function there are two steps: that the function which its
equation describes exists (`LeftOfUnfolds`, `SafeUnfolds`, `LevelsUnfold`, ...:
a definition by recursion means nothing until that is shown), and that its
values have the property, round by round.

For the translation, `TranslatedCases` says what a call makes of each kind of value
and `TranslatedAgrees` that it depends on deeper calls within `MaxDepth` only, which
is what makes the calls by depth well defined although a heap may have cycles.
The tree it is compared with is `Reach`, the least set of places that contains
the root and the first items of every container that is opened (`ReachClosed`,
`ReachLeast`); no level beyond `MaxDepth` is needed since every level lies deeper
than the one before (`LevelsDeep`). `Exact` says of one place that its translation
is refused, flagged and shown as what is reached from it; it holds of a value that is not
opened (`ExactAlone`), passes from the items to their container (`ExactOpened`), and so
holds everywhere, by induction on what is left of `MaxDepth`.

**Only model-checked**: the liveness properties (`CloseTearsDown`,
`CancelledStartReleasesExecutor`, `RequestsResolve`, `StartsSettle`, `EventuallyCurrent`,
`DiscoveryNeverWaits`) and the fairness of `SerialOwner` in
`ImplementsSerialOwner`: liveness under fairness and `ENABLED` are beyond
the prover.

## 5. What is not modelled, and the plan

* **Schema derivation** is the function `Derive` only. Next would be
  `annotation_schema` and `validate_json_schema` as operators over a small
  grammar of annotations: every value that a derived schema admits must be
  accepted by the adapter of the same annotation.
* **Texts**: `_error_info`, the bounds of `inspect` and `search`, and the prefix
  cut of single strings are left out of the output modules.
* **_get_tool** reads one entry of the same cache that `_list_tools` reads; the
  call that follows revalidates the registration, which is in OwnerOperations.
* **Proofs** still worth having: properties stronger than those the runs check, such
  as what a start that escapes every handler leaves behind.

Not planned: parsing and validation of the configuration, the compact profile
and the response models are stateless transformations within a unit test's
reach; the benchmark harness, scripts and the skill are not part of the server.
