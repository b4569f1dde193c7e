---------------------- MODULE EnvironmentProvisioning ----------------------
(***************************************************************************)
(* Provisioning of the selected task environment (environment.py,          *)
(* _prepare_uv_environment) by several server processes whose              *)
(* configurations name the same directory.                                 *)
(*                                                                         *)
(* The target directory is found and validated, or built under a temporary *)
(* name with uv and renamed into place.  Nothing locks the workspace: what *)
(* a process saw at its lookup may have changed when it renames.  A        *)
(* process may be killed between any two steps, and a server started again *)
(* may have another configuration.                                         *)
(*                                                                         *)
(* A symbolic link, a file or a directory of somebody else at the target   *)
(* is part of the initial states; nobody but the servers changes it later. *)
(***************************************************************************)
EXTENDS Naturals

CONSTANTS
    Processes,         \* servers that select the same environment
    Configurations,    \* what _expected_metadata distinguishes
    Packages,          \* what uv can install
    Requires,          \* the packages that a configuration's requirements yield
    InitialTargets,    \* what may be at the target before the first start
    RenameErrors,      \* what renaming onto a non-empty directory can raise
    Absent,            \* no directory of that name
    NoMetadata,        \* a directory without readable metadata
    MaxStarts          \* bound on the starts of all processes, for TLC

Kinds == {"directory", "symlink", "file"}

\* A path that exists: metadata is what _METADATA in it holds, site whether it
\* has a site-packages directory, installed what that contains.
Path == [kind : Kinds, metadata : Configurations \cup {NoMetadata},
         site : BOOLEAN, installed : SUBSET Packages]

\* An environment as this program leaves it for configuration c.
Complete(path, c) ==
    path = [kind |-> "directory", metadata |-> c, site |-> TRUE, installed |-> Requires[c]]

ASSUME RequiresAssumption == Requires \in [Configurations -> SUBSET Packages]
ASSUME AbsentAssumption == Absent \notin Path /\ NoMetadata \notin Configurations
ASSUME StartsAssumption == MaxStarts \in Nat
\* Only this program writes its metadata, into environments that it completes.
ASSUME InitialAssumption ==
    /\ InitialTargets \subseteq Path \cup {Absent}
    /\ \A path \in InitialTargets \ {Absent} :
          path.kind = "directory" /\ path.metadata # NoMetadata
              => Complete(path, path.metadata)

VARIABLES
    target,      \* workspace / active_environment
    temporary,   \* the temporary directory of each process, from mkdtemp
    step,        \* where each process stands
    config,      \* the configuration each process was last started with
    outcome,     \* how its last startup ended, as far as decided
    starts       \* number of starts so far

vars == <<target, temporary, step, config, outcome, starts>>

Building == {"venv", "install", "record", "rename"}
Steps == Building \cup {"down", "lookup", "validate", "cleanup", "ended"}
Outcomes == {"undecided", "selected", "failed", "killed"}

Init ==
    /\ target \in InitialTargets
    /\ temporary = [p \in Processes |-> Absent]
    /\ step = [p \in Processes |-> "down"]
    /\ config \in [Processes -> Configurations]
    /\ outcome = [p \in Processes |-> "undecided"]
    /\ starts = 0

Goto(p, s) == step' = [step EXCEPT ![p] = s]
Decide(p, o) == outcome' = [outcome EXCEPT ![p] = o]
Put(p, path) == temporary' = [temporary EXCEPT ![p] = path]

\* A server is started, the first time or again, with some configuration.
Start(p, c) ==
    /\ step[p] \in {"down", "ended"}
    /\ starts < MaxStarts
    /\ starts' = starts + 1
    /\ config' = [config EXCEPT ![p] = c]
    /\ Put(p, Absent)
    /\ Decide(p, "undecided")
    /\ Goto(p, "lookup")
    /\ UNCHANGED target

(***************************************************************************)
(* Lookup: the workspace and the target's kind, before the try block.      *)
(***************************************************************************)
Escapes(path) == path.kind # "directory"

\* The workspace is refused or cannot be made, the target is a link or no
\* directory, uv is missing, or mkdtemp fails.
LookupFails(p) ==
    /\ step[p] = "lookup"
    /\ Decide(p, "failed")
    /\ Goto(p, "ended")
    /\ UNCHANGED <<target, temporary, config, starts>>

LookupFinds(p) ==
    /\ step[p] = "lookup"
    /\ target # Absent
    /\ ~Escapes(target)
    /\ Goto(p, "validate")
    /\ UNCHANGED <<target, temporary, config, outcome, starts>>

EmptyDirectory ==
    [kind |-> "directory", metadata |-> NoMetadata, site |-> FALSE, installed |-> {}]

MakeTemporary(p) ==
    /\ step[p] = "lookup"
    /\ target = Absent
    /\ Put(p, EmptyDirectory)
    /\ Goto(p, "venv")
    /\ UNCHANGED <<target, config, outcome, starts>>

(***************************************************************************)
(* Validation of an existing environment.  The finally clause runs on the  *)
(* way out if the process had built a temporary directory.                 *)
(***************************************************************************)
\* Mutation: an environment is reused whatever it was built for.
AcceptsAny(path, c) == c \in Configurations /\ path.metadata # NoMetadata /\ path.site

Accepts(path, c) == path.metadata = c /\ path.site

\* Mutation: the process that reuses the winner's environment forgets its own.
LeaveAtOnce(p) == Goto(p, "ended")

Leave(p) == Goto(p, IF temporary[p] = Absent THEN "ended" ELSE "cleanup")

Validate(p) ==
    /\ step[p] = "validate"
    /\ Decide(p, IF Accepts(target, config[p]) THEN "selected" ELSE "failed")
    /\ Leave(p)
    /\ UNCHANGED <<target, temporary, config, starts>>

(***************************************************************************)
(* Building under the temporary name.                                      *)
(***************************************************************************)
CreateVenv(p) ==
    /\ step[p] = "venv"
    /\ \E site \in BOOLEAN : Put(p, [temporary[p] EXCEPT !.site = site])
    /\ Goto(p, IF Requires[config[p]] = {} THEN "record" ELSE "install")
    /\ UNCHANGED <<target, config, outcome, starts>>

Install(p) ==
    /\ step[p] = "install"
    /\ Put(p, [temporary[p] EXCEPT !.installed = Requires[config[p]]])
    /\ Goto(p, "record")
    /\ UNCHANGED <<target, config, outcome, starts>>

\* Mutation: what was installed is recorded in place of the configuration.
RecordedPackages(p) == Requires[config[p]]

Recorded(p) == config[p]

\* Mutation: what uv has built is not looked at.
RecordUnchecked(p) ==
    /\ step[p] = "record"
    /\ Put(p, [temporary[p] EXCEPT !.metadata = Recorded(p)])
    /\ Goto(p, "rename")
    /\ UNCHANGED <<target, config, outcome, starts>>

\* The metadata is written first, then the site-packages directory is looked for.
Record(p) ==
    /\ step[p] = "record"
    /\ Put(p, [temporary[p] EXCEPT !.metadata = Recorded(p)])
    /\ IF temporary[p].site
          THEN Goto(p, "rename") /\ UNCHANGED outcome
          ELSE Goto(p, "cleanup") /\ Decide(p, "failed")
    /\ UNCHANGED <<target, config, starts>>

\* uv fails or exceeds its timeout with part of its work done, or writing the
\* metadata or renaming to a free name raises.
BuildFails(p) ==
    /\ step[p] \in Building
    /\ step[p] = "rename" => target = Absent
    /\ IF step[p] \in {"venv", "install"}
          THEN \E site \in BOOLEAN, some \in SUBSET Requires[config[p]] :
                  Put(p, [temporary[p] EXCEPT !.site = site, !.installed = some])
          ELSE UNCHANGED temporary
    /\ Decide(p, "failed")
    /\ Goto(p, "cleanup")
    /\ UNCHANGED <<target, config, starts>>

RenameWins(p) ==
    /\ step[p] = "rename"
    /\ target = Absent
    /\ target' = temporary[p]
    /\ Put(p, Absent)
    /\ Decide(p, "selected")
    /\ Goto(p, "ended")
    /\ UNCHANGED <<config, starts>>

\* Mutation: a failed rename is tried again until it succeeds.
RenameRetries(p) ==
    /\ step[p] = "rename"
    /\ target # Absent
    /\ UNCHANGED vars

\* Another process was first: FileExistsError leads to its environment, any
\* other error is a failed startup.
RenameLoses(p) ==
    /\ step[p] = "rename"
    /\ target # Absent
    /\ \E error \in RenameErrors :
          IF error = "FileExistsError"
             THEN Goto(p, "validate") /\ UNCHANGED outcome
             ELSE Goto(p, "cleanup") /\ Decide(p, "failed")
    /\ UNCHANGED <<target, temporary, config, starts>>

\* The finally clause; rmtree is assumed to succeed.
Cleanup(p) ==
    /\ step[p] = "cleanup"
    /\ Put(p, Absent)
    /\ Goto(p, "ended")
    /\ UNCHANGED <<target, config, outcome, starts>>

\* The process is killed: what it has built stays, under its own name.
Kill(p) ==
    /\ step[p] \notin {"down", "ended"}
    /\ Decide(p, "killed")
    /\ Goto(p, "ended")
    /\ UNCHANGED <<target, temporary, config, starts>>

Continue(p) ==
    \/ LookupFails(p) \/ LookupFinds(p) \/ MakeTemporary(p) \/ Validate(p)
    \/ CreateVenv(p) \/ Install(p) \/ Record(p) \/ BuildFails(p)
    \/ RenameWins(p) \/ RenameLoses(p) \/ Cleanup(p)

Next == \E p \in Processes : Continue(p) \/ Kill(p) \/ \E c \in Configurations : Start(p, c)

Spec == Init /\ [][Next]_vars

\* A started process goes on: every command of uv has a timeout, everything
\* else is a bounded number of calls.  Nobody has to start or to kill.
FairSpec == Spec /\ \A p \in Processes : WF_vars(Continue(p))

-----------------------------------------------------------------------------
(***************************************************************************)
(* Properties.                                                             *)
(***************************************************************************)

\* The variables have the kinds described above.
TypeOK ==
    /\ target \in Path \cup {Absent}
    /\ temporary \in [Processes -> Path \cup {Absent}]
    /\ step \in [Processes -> Steps]
    /\ config \in [Processes -> Configurations]
    /\ outcome \in [Processes -> Outcomes]
    /\ starts \in Nat

\* A server whose startup has selected the environment finds in it, then and
\* as long as it runs, what its own configuration requires and nothing of a
\* half-built or another configuration's environment, whoever built it and
\* however the others' startups end (_validate_existing, rename).
SelectedMatches ==
    \A p \in Processes : outcome[p] = "selected" => Complete(target, config[p])

\* Whatever fails or is killed, a path that exists at the target is never
\* touched, and what appears there is complete (the temporary directory and
\* its rename).
OnlyCompleteAppears ==
    [][target = Absent /\ \E p \in Processes : Complete(target', config[p])]_target

\* A startup that ended, well or badly, without being killed has left no
\* temporary directory, after a lost race too (the finally clause).
NothingLeftBehind ==
    \A p \in Processes :
        step[p] = "ended" /\ outcome[p] # "killed" => temporary[p] = Absent

\* Every startup ends, whatever the other processes do: a lost race is not
\* waited out.
StartsSettle ==
    \A p \in Processes : step[p] = "lookup" ~> step[p] = "ended"

\* A process that has built its environment does not fail over an existing one
\* that fits its configuration: it verifies and reuses it, as README.md:181-182
\* has it and the handler of FileExistsError intends.
LoserReuses ==
    [][\A p \in Processes :
          step[p] \in {"rename", "validate"} /\ target # Absent /\ outcome'[p] = "failed"
              => ~Accepts(target, config[p])]_vars

=============================================================================
