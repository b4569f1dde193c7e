----------------------- MODULE SerialOwnerRefinement -----------------------
(***************************************************************************)
(* ShellRuntime implements SerialOwner, when its callers use it the way    *)
(* the server's lifespan does: nothing is called before start returned.    *)
(***************************************************************************)
EXTENDS ShellRuntime

phaseBar ==
    IF future["close"] = "ok" \/ future["start"] = "error" THEN "closed"
    ELSE IF shell THEN "open" ELSE "starting"

\* What the worker still has to take; a cancelled item stays in the queue.
waitingBar == {r \in Requests : future[r] = "pending"}

Precedes(s, v, w) == \E i, k \in DOMAIN s : i < k /\ s[i] = v /\ s[k] = w

aheadBar == {pair \in waitingBar \X waitingBar : Precedes(queue, pair[1], pair[2])}

currentBar == IF at["worker"] = "run" /\ doing["worker"] \in Requests
              THEN doing["worker"] ELSE NoOne

finishedBar == {r \in Requests : future[r] \in {"ok", "error"}}
withdrawnBar == {r \in Requests : future[r] = "cancelled"}

Owner == INSTANCE SerialOwner WITH
    Operations <- Requests, Nobody <- NoOne,
    phase <- phaseBar, waiting <- waitingBar, ahead <- aheadBar,
    current <- currentBar, finished <- finishedBar, withdrawn <- withdrawnBar

\* The runtime is a serial owner: FIFO, one operation at a time and each at
\* most once, none after a withdrawal, none without a shell, close last, and
\* no admitted operation waits for ever.
ImplementsSerialOwner == Owner!Spec
=============================================================================
