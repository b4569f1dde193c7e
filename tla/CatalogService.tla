-------------------------- MODULE CatalogService --------------------------
(***************************************************************************)
(* What an MCP client learns about the catalog of dynamic tools.           *)
(*                                                                         *)
(* Handlers (server.py, provider.py) submit an operation to the owner,     *)
(* await it and send list_changed if it reports a change.  tools/list      *)
(* reads the published cache on the event loop, without the owner.  The    *)
(* session carries answers and notifications in the order they are sent.   *)
(* Requests are cancelled by the client at any time.                       *)
(*                                                                         *)
(* Only the identity of a catalog matters here: it is a version, counted   *)
(* up by each change.  What a change is, and that an operation which       *)
(* returns reports it, is the subject of OwnerOperations.  Closing is      *)
(* ShellRuntime's; here the session goes on.                               *)
(***************************************************************************)
EXTENDS Naturals, Sequences

CONSTANTS
    Requests,    \* requests that run an operation, each made once
    NoRequest,
    Changed,     \* the notification list_changed
    MaxVersion   \* bound on the changes of the catalog, for TLC

ASSUME ServiceAssumption ==
    /\ NoRequest \notin Requests
    /\ Changed \notin Nat
    /\ MaxVersion \in Nat

VARIABLES
    version,   \* of the registry's catalog
    cache,     \* the version in _dynamic_tool_cache
    queue,     \* the executor's
    running,   \* the request whose operation the owner runs, or NoRequest
    stage,     \* where the owner stands in _run_in_owner
    changed,   \* what the running operation has to report
    handler,   \* where the coroutine of each request stands
    report,    \* the version its operation published as a change, or 0
    wire,      \* messages to the client: Changed, or the version of a list
    listing,   \* where the client's tools/list stands
    answer,    \* what its handler has read
    view,      \* the version of the client's list
    dirty,     \* the client has yet to list again
    silenced   \* the versions whose report was dropped (history)

owner == <<version, cache, running, stage, changed>>
client == <<wire, listing, answer, view, dirty>>
vars == <<owner, queue, handler, report, client, silenced>>

Init ==
    /\ version = 0 /\ cache = 0
    /\ queue = <<>> /\ running = NoRequest /\ stage = "idle" /\ changed = FALSE
    /\ handler = [r \in Requests |-> "new"]
    /\ report = [r \in Requests |-> 0]
    /\ wire = <<>> /\ listing = "none" /\ answer = 0
    /\ view = 0 /\ dirty = TRUE      \* clients list the tools to begin with
    /\ silenced = {}

\* What was to be reported, a version or 0 for nothing, never is.
Drop(v) == silenced' = silenced \cup ({v} \ {0})

(***************************************************************************)
(* Requests.                                                               *)
(***************************************************************************)
Call(r) ==
    /\ handler[r] = "new"
    /\ handler' = [handler EXCEPT ![r] = "queued"]
    /\ queue' = Append(queue, r)
    /\ UNCHANGED <<owner, report, client, silenced>>

\* Cancelling the coroutine cancels the future if the worker has not taken it,
\* which then skips it.  Otherwise the operation goes on, unheard.
Cancel(r) ==
    /\ handler[r] \in {"queued", "running", "answered", "notify"}
    /\ handler' = [handler EXCEPT ![r] = "over"]
    /\ Drop(report[r])
    /\ UNCHANGED <<owner, queue, report, client>>

\* A mutation: the handler goes on once the owner is idle.
ResumeWhenIdle(r) ==
    /\ handler[r] = "answered" /\ stage = "idle"
    /\ handler' = [handler EXCEPT ![r] = IF report[r] # 0 THEN "notify" ELSE "over"]
    /\ UNCHANGED <<owner, queue, report, client, silenced>>

\* The coroutine goes on with the operation's result.
Resume(r) ==
    /\ handler[r] = "answered"
    /\ handler' = [handler EXCEPT ![r] = IF report[r] # 0 THEN "notify" ELSE "over"]
    /\ UNCHANGED <<owner, queue, report, client, silenced>>

\* A mutation: no notification while the client is listing anyway.
SendUnlessListing(r) ==
    /\ handler[r] = "notify"
    /\ handler' = [handler EXCEPT ![r] = "over"]
    /\ wire' = IF listing = "none" THEN Append(wire, Changed) ELSE wire
    /\ UNCHANGED <<owner, queue, report, listing, answer, view, dirty, silenced>>

\* notify_tool_list_changed, which suppresses what the session raises.
Send(r) ==
    /\ handler[r] = "notify"
    /\ handler' = [handler EXCEPT ![r] = "over"]
    /\ wire' = Append(wire, Changed)
    /\ UNCHANGED <<owner, queue, report, listing, answer, view, dirty, silenced>>

SendFails(r) ==
    /\ handler[r] = "notify"
    /\ handler' = [handler EXCEPT ![r] = "over"]
    /\ Drop(report[r])
    /\ UNCHANGED <<owner, queue, report, client>>

(***************************************************************************)
(* The owner.                                                              *)
(***************************************************************************)
Skip ==
    /\ stage = "idle" /\ queue # <<>> /\ handler[Head(queue)] # "queued"
    /\ queue' = Tail(queue)
    /\ UNCHANGED <<owner, handler, report, client, silenced>>

Take ==
    /\ stage = "idle" /\ queue # <<>> /\ handler[Head(queue)] = "queued"
    /\ running' = Head(queue)
    /\ queue' = Tail(queue)
    /\ handler' = [handler EXCEPT ![Head(queue)] = "running"]
    /\ stage' = "body"
    /\ UNCHANGED <<version, cache, changed, report, client, silenced>>

\* The operation changes the catalog, directly or by what it reconciles.
Change ==
    /\ stage = "body" /\ version < MaxVersion
    /\ version' = version + 1
    /\ changed' = TRUE
    /\ UNCHANGED <<cache, running, stage, queue, handler, report, client, silenced>>

\* It returns or raises.  User code need not do either.
Finish ==
    /\ stage = "body"
    /\ stage' \in {"returned", "raised"}
    /\ UNCHANGED <<version, cache, running, changed, queue, handler, report, client, silenced>>

\* _refresh_dynamic_cache_in_owner, after an exception too.
Publish ==
    /\ stage \in {"returned", "raised"}
    /\ cache' = version
    /\ stage' = IF stage = "returned" THEN "result" ELSE "exception"
    /\ UNCHANGED <<version, running, changed, queue, handler, report, client, silenced>>

\* The future gets the result, or the exception, which reports no change.
Complete ==
    /\ stage \in {"result", "exception"}
    /\ LET heard == stage = "result" /\ handler[running] = "running"
           v     == IF changed THEN cache ELSE 0
       IN /\ report' = [report EXCEPT ![running] = IF heard THEN v ELSE 0]
          /\ handler' = [handler EXCEPT ![running] = IF heard THEN "answered" ELSE "over"]
          /\ Drop(IF heard THEN 0 ELSE v)
    /\ stage' = "idle" /\ running' = NoRequest /\ changed' = FALSE
    /\ UNCHANGED <<version, cache, queue, client>>

(***************************************************************************)
(* tools/list and the client.                                              *)
(***************************************************************************)
AskList ==
    /\ dirty /\ listing = "none"
    /\ dirty' = FALSE
    /\ listing' = "asked"
    /\ UNCHANGED <<owner, queue, handler, report, wire, answer, view, silenced>>

\* Mutations: the list is taken from the registry, or read on the owner.
ListReadRegistry ==
    /\ listing = "asked"
    /\ listing' = "read"
    /\ answer' = version
    /\ UNCHANGED <<owner, queue, handler, report, wire, view, dirty, silenced>>

ListReadByOwner ==
    /\ listing = "asked" /\ stage = "idle"
    /\ listing' = "read"
    /\ answer' = cache
    /\ UNCHANGED <<owner, queue, handler, report, wire, view, dirty, silenced>>

\* _list_tools reads the cache, whatever the owner is doing.
ListRead ==
    /\ listing = "asked"
    /\ listing' = "read"
    /\ answer' = cache
    /\ UNCHANGED <<owner, queue, handler, report, wire, view, dirty, silenced>>

ListRespond ==
    /\ listing = "read"
    /\ listing' = "sent"
    /\ wire' = Append(wire, answer)
    /\ UNCHANGED <<owner, queue, handler, report, answer, view, dirty, silenced>>

ReceiveList ==
    /\ listing = "sent" /\ wire # <<>> /\ Head(wire) # Changed
    /\ listing' = "none"
    /\ view' = Head(wire)
    /\ wire' = Tail(wire)
    /\ UNCHANGED <<owner, queue, handler, report, answer, dirty, silenced>>

ReceiveChanged ==
    /\ wire # <<>> /\ Head(wire) = Changed
    /\ dirty' = TRUE
    /\ wire' = Tail(wire)
    /\ UNCHANGED <<owner, queue, handler, report, listing, answer, view, silenced>>

Next ==
    \/ \E r \in Requests : Call(r) \/ Cancel(r) \/ Resume(r) \/ Send(r) \/ SendFails(r)
    \/ Skip \/ Take \/ Change \/ Finish \/ Publish \/ Complete
    \/ AskList \/ ListRead \/ ListRespond \/ ReceiveList \/ ReceiveChanged

\* The loop, the session and the client go on, and so does the owner once user
\* code has ended: nothing makes it end.
Fairness ==
    /\ WF_vars(Publish) /\ WF_vars(Complete)
    /\ \A r \in Requests : WF_vars(Resume(r)) /\ WF_vars(Send(r) \/ SendFails(r))
    /\ WF_vars(AskList) /\ WF_vars(ListRead) /\ WF_vars(ListRespond)
    /\ WF_vars(ReceiveList) /\ WF_vars(ReceiveChanged)

Spec == Init /\ [][Next]_vars
FairSpec == Spec /\ Fairness

-----------------------------------------------------------------------------
(***************************************************************************)
(* Properties.                                                             *)
(***************************************************************************)

\* Variables have the kinds described above; nothing is reported, listed or
\* seen that was not published.
TypeOK ==
    /\ version \in Nat /\ cache \in 0 .. version
    /\ queue \in Seq(Requests)
    /\ running \in Requests \cup {NoRequest}
    /\ stage \in {"idle", "body", "returned", "raised", "result", "exception"}
    /\ stage = "idle" <=> running = NoRequest
    /\ changed \in BOOLEAN
    /\ handler \in [Requests -> {"new", "queued", "running", "answered", "notify", "over"}]
    /\ report \in [Requests -> 0 .. cache]
    /\ wire \in Seq(Nat \cup {Changed})
    /\ \A i \in 1 .. Len(wire) : wire[i] = Changed \/ wire[i] <= cache
    /\ listing \in {"none", "asked", "read", "sent"}
    /\ answer \in 0 .. cache /\ view \in 0 .. cache /\ silenced \subseteq 1 .. cache
    /\ dirty \in BOOLEAN

Notified == \E i \in 1 .. Len(wire) : wire[i] = Changed
Listed == \/ listing = "asked"
          \/ listing = "read" /\ answer >= cache
          \/ \E i \in 1 .. Len(wire) : wire[i] # Changed /\ wire[i] >= cache
Reporting == \/ changed /\ stage \in {"result", "exception"}
             \/ \E r \in Requests : handler[r] \in {"answered", "notify"} /\ report[r] = cache

\* A client that is behind what was published will hear of exactly that, or is
\* about to list, or the report of that very catalog was dropped by a
\* cancellation, an exception of the operation or a failing session.  No order
\* of publications, notifications and lists loses one (README.md:253-254).
BehindOnlyIfSilenced ==
    view < cache => dirty \/ Notified \/ Listed \/ Reporting \/ cache \in silenced

\* Every version that is published reaches the client, itself or in a later one,
\* unless the report of that very version was dropped.
EventuallyCurrent ==
    \A v \in 1 .. MaxVersion : cache = v ~> view >= v \/ v \in silenced

\* tools/list is answered, though the operation that runs may never end and
\* others wait behind it: discovery never waits for the owner.
DiscoveryNeverWaits == listing = "asked" ~> listing = "none"
=============================================================================
