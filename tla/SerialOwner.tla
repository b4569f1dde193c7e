---------------------------- MODULE SerialOwner ----------------------------
(***************************************************************************)
(* What ShellRuntime promises its callers, without threads, futures or     *)
(* locks: one owner takes admitted operations in the order they were       *)
(* admitted, one at a time and each at most once; an operation withdrawn   *)
(* before its turn never runs; the shell is there for every operation that *)
(* runs, and it is closed only once nothing admitted is left.              *)
(***************************************************************************)
CONSTANTS Operations, Nobody

VARIABLES
    phase,      \* "starting", "open" or "closed"
    waiting,    \* the operations admitted whose turn has not come
    ahead,      \* <<v, w>>: both wait, and v was admitted before w
    current,    \* the operation the owner runs
    finished, withdrawn

ownerVars == <<phase, waiting, ahead, current, finished, withdrawn>>

Known == waiting \cup {current} \cup finished \cup withdrawn

Init ==
    /\ phase = "starting"
    /\ waiting = {} /\ ahead = {}
    /\ current = Nobody
    /\ finished = {} /\ withdrawn = {}

StartUp(outcome) ==
    /\ phase = "starting"
    /\ phase' = outcome
    /\ UNCHANGED <<waiting, ahead, current, finished, withdrawn>>

Admit(o) ==
    /\ phase = "open" /\ o \notin Known
    /\ waiting' = waiting \cup {o}
    /\ ahead' = ahead \cup (waiting \X {o})
    /\ UNCHANGED <<phase, current, finished, withdrawn>>

\* o waits no longer, and nobody waits behind it.
Leave(o) ==
    /\ o \in waiting
    /\ waiting' = waiting \ {o}
    /\ ahead' = {pair \in ahead : o \notin {pair[1], pair[2]}}

Withdraw(o) ==
    /\ Leave(o)
    /\ withdrawn' = withdrawn \cup {o}
    /\ UNCHANGED <<phase, current, finished>>

Begin(o) ==
    /\ phase = "open" /\ current = Nobody
    /\ Leave(o)
    /\ \A v \in waiting : <<v, o>> \notin ahead
    /\ current' = o
    /\ UNCHANGED <<phase, finished, withdrawn>>

Finish ==
    /\ current # Nobody
    /\ finished' = finished \cup {current}
    /\ current' = Nobody
    /\ UNCHANGED <<phase, waiting, ahead, withdrawn>>

Shut ==
    /\ phase = "open" /\ current = Nobody /\ waiting = {}
    /\ phase' = "closed"
    /\ UNCHANGED <<waiting, ahead, current, finished, withdrawn>>

Owns == Finish \/ \E o \in Operations : Begin(o)

Next ==
    \/ \E outcome \in {"open", "closed"} : StartUp(outcome)
    \/ \E o \in Operations : Admit(o) \/ Withdraw(o)
    \/ Owns \/ Shut

\* What may happen.
Safely == Init /\ [][Next]_ownerVars

\* What was admitted is eventually run unless it is withdrawn.
Spec == Safely /\ WF_ownerVars(Owns)
=============================================================================
