------------------------ MODULE StartupEnvironment ------------------------
(***************************************************************************)
(* The process inputs of one shell lifespan: os.environ and sys.path, as   *)
(* StartupEnvironment (environment.py) changes and restores them around    *)
(* the phases of _start_in_process and _close_in_process (runtime.py).     *)
(*                                                                         *)
(* Everything runs on the owner thread.  Python code that is not the       *)
(* server's, in preloaded modules and in the live shell, may change        *)
(* variables and the path in between, and IPython may insert a path when   *)
(* the shell is built.  Provisioning is EnvironmentProvisioning's subject  *)
(* and only succeeds or fails here.                                        *)
(***************************************************************************)
EXTENDS Naturals, SequencesExt

CONSTANTS
    Variables,     \* names of environment variables
    Values,        \* their values
    Unset,         \* the value of a variable that is not set
    Configured,    \* config.environment_variables
    Directories,   \* entries of sys.path
    SitePackages,  \* what site-packages provisioning can yield
    NoSite,        \* no environment is selected
    LibraryLists,  \* what config.library_paths can be
    StartPaths,    \* sys.path before the start
    MaxTouches     \* bound on the changes that foreign code makes, for TLC

ASSUME ConfiguredAssumption ==
    /\ DOMAIN Configured \subseteq Variables
    /\ \A v \in DOMAIN Configured : Configured[v] \in Values
    /\ Unset \notin Values
ASSUME PathsAssumption ==
    /\ SitePackages \subseteq Directories \cup {NoSite}
    /\ NoSite \notin Directories
    /\ LibraryLists \subseteq Seq(Directories)
    /\ StartPaths \subseteq Seq(Directories)
    /\ MaxTouches \in Nat

VARIABLES
    at,          \* the phase that comes next
    environ,     \* os.environ
    path,        \* sys.path
    site,        \* site_packages
    libraries,   \* config.library_paths
    previous,    \* _previous_environment, a function of the names in it
    added,       \* _added_paths
    originals,   \* _original_path_positions, a function of the paths in it
    reordered,   \* _reordered_paths: of its only key the index, or None
    startEnviron, startPath,  \* what the start found (history)
    touches,     \* number of changes by foreign code so far
    pathTouched  \* foreign code changed sys.path (history)

remembered == <<previous, added, originals, reordered>>
history == <<startEnviron, startPath, touches, pathTouched>>
vars == <<at, environ, path, site, libraries, remembered, history>>

Phases == {"provision", "variables", "paths", "preload", "shell", "bind", "live"}
Over == {"failed", "escaped", "closed"}
None == 0                         \* indices are those of a sequence, from 1
Nothing == [x \in {} |-> None]

Init ==
    /\ at = "provision"
    /\ environ \in [Variables -> Values \cup {Unset}]
    /\ path \in StartPaths
    /\ site = NoSite
    /\ libraries \in LibraryLists
    /\ previous = Nothing /\ added = <<>> /\ originals = Nothing /\ reordered = None
    /\ startEnviron = environ /\ startPath = path
    /\ touches = 0 /\ pathTouched = FALSE

\* A mutation: indices from 0, one of which then passes for None.
PositionFromZero(d, p) == SelectInSeq(p, LAMBDA e : e = d) - 1

Position(d, p) == SelectInSeq(p, LAMBDA e : e = d)
ToFront(d, p) == <<d>> \o RemoveFirst(p, d)
AtMost(i, n) == IF i < n THEN i ELSE n

(***************************************************************************)
(* restore.  Nothing is remembered afterwards, so that a second restore,   *)
(* as after a failed prepare, changes nothing.                             *)
(***************************************************************************)
\* A mutation: only what still has the configured value is restored.
RestoredIfUnchanged ==
    [v \in Variables |-> IF v \in DOMAIN previous /\ environ[v] = Configured[v]
                         THEN previous[v] ELSE environ[v]]

RestoredEnviron ==
    [v \in Variables |-> IF v \in DOMAIN previous THEN previous[v] ELSE environ[v]]

\* A mutation: the path of the start is put back as a whole.
RestoredSnapshot == startPath

\* left[n] is what the first n rounds of the loop over _added_paths leave.
RestoredPath ==
    LET left[n \in 0..Len(added)] ==
            IF n = 0 THEN path ELSE RemoveFirst(left[n - 1], added[n])
        without == left[Len(added)]
        others  == RemoveFirst(without, site)
    IN IF reordered = None THEN without
       ELSE InsertAt(others, AtMost(reordered, Len(others) + 1), site)

Restore ==
    /\ environ' = RestoredEnviron
    /\ path' = RestoredPath
    /\ previous' = Nothing /\ added' = <<>> /\ originals' = Nothing /\ reordered' = None

\* An Exception in any phase but the building of the shell.
Fail(from) ==
    /\ at = from
    /\ at' = "failed"
    /\ Restore
    /\ UNCHANGED <<site, libraries, history>>

(***************************************************************************)
(* prepare.                                                                *)
(***************************************************************************)
Provision ==
    /\ at = "provision"
    /\ at' = "variables"
    /\ site' \in SitePackages
    /\ UNCHANGED <<environ, path, libraries, remembered, history>>

ApplyVariables ==
    /\ at = "variables"
    /\ at' = "paths"
    /\ previous' = [v \in DOMAIN Configured |-> environ[v]]
    /\ environ' = [v \in Variables |->
                      IF v \in DOMAIN Configured THEN Configured[v] ELSE environ[v]]
    /\ UNCHANGED <<path, site, libraries, added, originals, reordered, history>>

Wanted == (IF site = NoSite THEN <<>> ELSE <<site>>) \o libraries

\* One round of the loop over reversed(paths).
Prepend(d, so) ==
    IF Contains(so.path, d) THEN so
    ELSE [path |-> <<d>> \o so.path, added |-> Append(so.added, d)]

\* A mutation: the loop takes the paths in their own order.
AppliedForwards ==
    LET so[n \in 0..Len(Wanted)] ==
            IF n = 0 THEN [path |-> path, added |-> added]
            ELSE Prepend(Wanted[n], so[n - 1])
    IN so[Len(Wanted)]

\* so[n] is what the first n rounds make, the last of the paths first.
Applied ==
    LET so[n \in 0..Len(Wanted)] ==
            IF n = 0 THEN [path |-> path, added |-> added]
            ELSE Prepend(Wanted[Len(Wanted) + 1 - n], so[n - 1])
    IN so[Len(Wanted)]

ApplyPaths ==
    /\ at = "paths"
    /\ at' = "preload"
    /\ originals' = [d \in {e \in ToSet(Wanted) : Contains(path, e)} |-> Position(d, path)]
    /\ path' = Applied.path
    /\ added' = Applied.added
    /\ UNCHANGED <<environ, site, libraries, previous, reordered, history>>

(***************************************************************************)
(* The rest of the start.                                                  *)
(***************************************************************************)
\* A preloaded module raises what `except Exception` does not catch, such as
\* SystemExit: nothing is restored.
PreloadEscapes ==
    /\ at = "preload"
    /\ at' = "escaped"
    /\ UNCHANGED <<environ, path, site, libraries, remembered, history>>

Preload ==
    /\ at = "preload"
    /\ at' = "shell"
    /\ UNCHANGED <<environ, path, site, libraries, remembered, history>>

\* A mutation: the index remembered is the one behind the paths just added.
PrioritizeCurrent(p) ==
    IF site = NoSite \/ ~Contains(p, site) \/ p[1] = site
    THEN path' = p /\ UNCHANGED reordered
    ELSE /\ path' = ToFront(site, p)
         /\ reordered' = IF Contains(added, site) THEN reordered ELSE Position(site, p)

\* prioritize_site_packages on the path p.
Prioritize(p) ==
    IF site = NoSite \/ ~Contains(p, site) \/ p[1] = site
    THEN path' = p /\ UNCHANGED reordered
    ELSE /\ path' = ToFront(site, p)
         /\ reordered' = IF Contains(added, site) \/ reordered # None THEN reordered
                         ELSE IF site \in DOMAIN originals THEN originals[site]
                         ELSE Position(site, p)

\* IPython may put a virtual environment on the path.  That is undone if an
\* environment is selected, which then takes precedence.
BuildShell ==
    /\ at = "shell"
    /\ at' = "bind"
    /\ \/ Prioritize(path) /\ UNCHANGED pathTouched
       \/ /\ site = NoSite
          /\ \E d \in Directories : path' = <<d>> \o path
          /\ pathTouched' = TRUE
          /\ UNCHANGED reordered
    /\ UNCHANGED <<environ, site, libraries, previous, added, originals,
                   startEnviron, startPath, touches>>

\* InteractiveShell.instance raises outside of every handler.
BuildEscapes ==
    /\ at = "shell"
    /\ at' = "escaped"
    /\ UNCHANGED <<environ, path, site, libraries, remembered, history>>

Bind ==
    /\ at = "bind"
    /\ at' = "live"
    /\ UNCHANGED <<environ, path, site, libraries, remembered, history>>

\* A variable that the system refuses leaves those set before it to the
\* restore of the same call: what remains is nothing.
Failure == \E from \in {"provision", "variables", "paths", "preload", "bind"} : Fail(from)

Close ==
    /\ at = "live"
    /\ at' = "closed"
    /\ Restore
    /\ UNCHANGED <<site, libraries, history>>

(***************************************************************************)
(* Foreign code: preloaded modules and what runs in the shell.             *)
(***************************************************************************)
Touch ==
    /\ at \in {"preload", "live"}
    /\ touches < MaxTouches
    /\ touches' = touches + 1
    /\ \/ /\ \E v \in Variables, x \in Values \cup {Unset} :
                environ' = [environ EXCEPT ![v] = x]
          /\ UNCHANGED <<path, pathTouched>>
       \/ /\ \E d \in Directories :
                path' \in {<<d>> \o path, Append(path, d), RemoveFirst(path, d), ToFront(d, path)}
          /\ pathTouched' = TRUE
          /\ UNCHANGED environ
    /\ UNCHANGED <<at, site, libraries, remembered, startEnviron, startPath>>

Next ==
    \/ Provision \/ ApplyVariables \/ ApplyPaths
    \/ Preload \/ PreloadEscapes \/ BuildShell \/ BuildEscapes \/ Bind
    \/ Failure \/ Close \/ Touch

Spec == Init /\ [][Next]_vars

-----------------------------------------------------------------------------
(***************************************************************************)
(* Properties.                                                             *)
(***************************************************************************)

\* Variables have the kinds described above.
TypeOK ==
    /\ at \in Phases \cup Over
    /\ environ \in [Variables -> Values \cup {Unset}]
    /\ path \in Seq(Directories)
    /\ site \in SitePackages \cup {NoSite}
    /\ libraries \in LibraryLists
    /\ DOMAIN previous \subseteq DOMAIN Configured
    /\ \A v \in DOMAIN previous : previous[v] \in Values \cup {Unset}
    /\ added \in Seq(Directories)
    /\ DOMAIN originals \subseteq Directories
    /\ \A d \in DOMAIN originals : originals[d] \in Nat \ {None}
    /\ reordered \in Nat
    /\ startEnviron \in [Variables -> Values \cup {Unset}]
    /\ startPath \in Seq(Directories)
    /\ touches \in Nat /\ pathTouched \in BOOLEAN

\* Whichever phase fails with an Exception, and after a close, the configured
\* variables are what the start found, even if code of the shell or of a
\* preloaded module set or deleted them meanwhile (README.md:193-196).
VariablesRestored ==
    at \in {"failed", "closed"} =>
        \A v \in DOMAIN Configured : environ[v] = startEnviron[v]

\* If nobody else changed sys.path it is exactly what the start found, order
\* included, though the selected directory may have been on it before, been
\* configured as a library too, or moved to the front once the shell was built.
PathRestoredExactly ==
    at \in {"failed", "closed"} /\ ~pathTouched => path = startPath

\* The entries of s that are not in S, in their order.
Without(s, S) ==
    LET kept[n \in 0..Len(s)] ==
            IF n = 0 THEN <<>>
            ELSE IF s[n] \in S THEN kept[n - 1] ELSE Append(kept[n - 1], s[n])
    IN kept[Len(s)]

\* A restore takes nothing from others: variables that are not configured and
\* entries of the path that the server did not apply stay as foreign code left
\* them, in their order.
ForeignKept ==
    [][at' \in {"failed", "closed"} =>
          /\ Without(path', ToSet(Wanted)) = Without(path, ToSet(Wanted))
          /\ \A v \in Variables \ DOMAIN Configured : environ'[v] = environ[v]]_vars

\* In the live shell the selected site-packages come first, then the library
\* directories that were not on the path before, each once and in the
\* configured order, then what was there before (README.md:183-184).  Of a
\* directory that is listed twice the last mention counts.
PrecedenceWhenLive ==
    at = "live" /\ ~pathTouched =>
        LET first == IF site = NoSite THEN <<>> ELSE <<site>>
            old   == RemoveFirst(startPath, site)
            n     == Len(path) - Len(first) - Len(old)
            new   == SubSeq(path, Len(first) + 1, Len(first) + n)
        IN /\ path = first \o new \o old
           /\ ToSet(new) = ToSet(Wanted) \ ({site} \cup ToSet(startPath))
           /\ \A i, k \in 1..n : i < k =>
                  \E m \in DOMAIN Wanted :
                      /\ Wanted[m] = new[k]
                      /\ \A l \in m..Len(Wanted) : Wanted[l] # new[i]
=============================================================================
