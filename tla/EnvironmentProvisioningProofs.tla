------------------- MODULE EnvironmentProvisioningProofs -------------------
(***************************************************************************)
(* Theorems about EnvironmentProvisioning for any number of servers,       *)
(* configurations and starts.                                              *)
(***************************************************************************)
EXTENDS EnvironmentProvisioning, TLAPS

\* A complete environment is a path, so a free name is not one.
LEMMA CompleteIsPath ==
    ASSUME NEW path, NEW c \in Configurations, Complete(path, c)
    PROVE  /\ path \in Path
           /\ path # Absent
           /\ path.kind = "directory"
           /\ path.metadata = c
           /\ path.metadata # NoMetadata
<1>1. Requires[c] \in SUBSET Packages
  BY RequiresAssumption
<1>2. path \in Path
  BY <1>1 DEF Complete, Path, Kinds
<1>3. QED BY <1>2, AbsentAssumption DEF Complete

\* What is at the target is not ours, or complete for what it records.
Honest(path) ==
    /\ path.kind = "directory" /\ path.metadata # NoMetadata
    => Complete(path, path.metadata)

\* What holds of process p between its steps.
Progress(p) ==
    /\ step[p] = "lookup" => temporary[p] = Absent
    /\ step[p] = "validate" => target # Absent /\ ~Escapes(target)
    /\ step[p] \in Building =>
          /\ temporary[p] # Absent
          /\ temporary[p].kind = "directory"
          /\ target # Absent => ~Escapes(target)
    /\ step[p] = "venv" => temporary[p].installed = {}
    /\ step[p] = "record" => temporary[p].installed = Requires[config[p]]
    /\ step[p] = "rename" => Complete(temporary[p], config[p])
    /\ outcome[p] = "selected" => Complete(target, config[p])
    /\ step[p] = "ended" /\ outcome[p] # "killed" => temporary[p] = Absent

Inv ==
    /\ TypeOK
    /\ target # Absent => Honest(target)
    /\ \A p \in Processes : Progress(p)

LEMMA InitInv == Init => Inv
<1>. SUFFICES ASSUME Init PROVE Inv
  OBVIOUS
<1>1. TypeOK
  BY InitialAssumption DEF Init, TypeOK, Steps, Building, Outcomes
<1>2. target # Absent => Honest(target)
  BY InitialAssumption DEF Init, Honest
<1>3. \A p \in Processes : Progress(p)
  BY DEF Init, Progress, Building
<1>4. QED BY <1>1, <1>2, <1>3 DEF Inv

\* A step of process p that leaves the target and the other processes alone
\* needs to be looked at for p only.
LEMMA LocalStep ==
    ASSUME Inv, TypeOK', NEW p \in Processes, target' = target, Progress(p)',
           \A q \in Processes \ {p} :
              /\ step'[q] = step[q]
              /\ temporary'[q] = temporary[q]
              /\ config'[q] = config[q]
              /\ outcome'[q] = outcome[q]
    PROVE  Inv'
<1>1. \A q \in Processes \ {p} : Progress(q)'
  BY DEF Inv, Progress, Escapes
<1>2. (target # Absent => Honest(target))'
  BY DEF Inv, Honest, Complete
<1>3. QED BY <1>1, <1>2 DEF Inv

\* The EXCEPTs of a step, once and for all.
Only(p) ==
    \A q \in Processes \ {p} :
        /\ step'[q] = step[q]
        /\ temporary'[q] = temporary[q]
        /\ config'[q] = config[q]
        /\ outcome'[q] = outcome[q]

LEMMA StepInv == Inv /\ [Next]_vars => Inv'
<1>. SUFFICES ASSUME Inv, [Next]_vars PROVE Inv'
  OBVIOUS
<1>. USE DEF Goto, Decide, Put
<1>0. TypeOK
  BY DEF Inv
<1>1. CASE UNCHANGED vars
  BY <1>1 DEF Inv, vars, TypeOK, Honest, Complete, Progress, Escapes
<1>2. ASSUME NEW p \in Processes, NEW c \in Configurations, Start(p, c) PROVE Inv'
  <2>1. TypeOK'
    BY <1>0, <1>2 DEF Start, TypeOK, Steps, Outcomes
  <2>2. Only(p) /\ target' = target
    BY <1>0, <1>2 DEF Start, Only, TypeOK
  <2>3. Progress(p)'
    BY <1>0, <1>2 DEF Start, Progress, TypeOK, Building
  <2>4. QED BY <2>1, <2>2, <2>3, LocalStep DEF Only
<1>3. ASSUME NEW p \in Processes, LookupFails(p) PROVE Inv'
  <2>1. TypeOK'
    BY <1>0, <1>3 DEF LookupFails, TypeOK, Steps, Outcomes
  <2>2. Only(p) /\ target' = target
    BY <1>0, <1>3 DEF LookupFails, Only, TypeOK
  <2>3. Progress(p)'
    BY <1>0, <1>3 DEF LookupFails, Inv, Progress, TypeOK, Building
  <2>4. QED BY <2>1, <2>2, <2>3, LocalStep DEF Only
<1>4. ASSUME NEW p \in Processes, LookupFinds(p) PROVE Inv'
  <2>1. TypeOK'
    BY <1>0, <1>4 DEF LookupFinds, TypeOK, Steps
  <2>2. Only(p) /\ target' = target
    BY <1>0, <1>4 DEF LookupFinds, Only, TypeOK
  <2>3. Progress(p)'
    BY <1>0, <1>4 DEF LookupFinds, Inv, Progress, TypeOK, Building, Escapes, Complete
  <2>4. QED BY <2>1, <2>2, <2>3, LocalStep DEF Only
<1>5. ASSUME NEW p \in Processes, MakeTemporary(p) PROVE Inv'
  <2>0. EmptyDirectory \in Path
    BY DEF EmptyDirectory, Path, Kinds
  <2>1. TypeOK'
    BY <1>0, <1>5, <2>0 DEF MakeTemporary, TypeOK, Steps, Building
  <2>2. Only(p) /\ target' = target
    BY <1>0, <1>5 DEF MakeTemporary, Only, TypeOK
  <2>3. Progress(p)'
    BY <1>0, <1>5, <2>0, AbsentAssumption
    DEF MakeTemporary, EmptyDirectory, Inv, Progress, TypeOK, Building, Complete
  <2>4. QED BY <2>1, <2>2, <2>3, LocalStep DEF Only
<1>6. ASSUME NEW p \in Processes, Validate(p) PROVE Inv'
  <2>1. TypeOK'
    BY <1>0, <1>6 DEF Validate, Leave, TypeOK, Steps, Outcomes
  <2>2. Only(p) /\ target' = target
    BY <1>0, <1>6 DEF Validate, Leave, Only, TypeOK
  <2>3. Accepts(target, config[p]) => Complete(target, config[p])
    <3>1. config[p] \in Configurations /\ config[p] # NoMetadata
      BY <1>0, AbsentAssumption DEF TypeOK
    <3>2. target # Absent /\ target.kind = "directory"
      BY <1>6 DEF Validate, Inv, Progress, Escapes
    <3>3. QED BY <3>1, <3>2 DEF Inv, Honest, Accepts
  <2>4. Progress(p)'
    BY <1>0, <1>6, <2>3 DEF Validate, Leave, Inv, Progress, TypeOK, Building, Complete
  <2>5. QED BY <2>1, <2>2, <2>4, LocalStep DEF Only
<1>7. ASSUME NEW p \in Processes, CreateVenv(p) PROVE Inv'
  <2>1. PICK site \in BOOLEAN : Put(p, [temporary[p] EXCEPT !.site = site])
    BY <1>7 DEF CreateVenv
  <2>2. temporary[p] \in Path
    BY <1>0, <1>7 DEF CreateVenv, Inv, Progress, Building, TypeOK
  <2>3. /\ temporary'[p] \in Path
        /\ temporary'[p].kind = temporary[p].kind
        /\ temporary'[p].installed = temporary[p].installed
    BY <1>0, <2>1, <2>2 DEF Path, TypeOK
  <2>4. TypeOK'
    BY <1>0, <1>7, <2>1, <2>3 DEF CreateVenv, TypeOK, Steps, Building
  <2>5. Only(p) /\ target' = target
    BY <1>0, <1>7, <2>1 DEF CreateVenv, Only, TypeOK
  <2>6. Progress(p)'
    BY <1>0, <1>7, <2>3, AbsentAssumption
    DEF CreateVenv, Inv, Progress, TypeOK, Building, Escapes, Complete
  <2>7. QED BY <2>4, <2>5, <2>6, LocalStep DEF Only
<1>8. ASSUME NEW p \in Processes, Install(p) PROVE Inv'
  <2>1. temporary[p] \in Path /\ Requires[config[p]] \in SUBSET Packages
    BY <1>0, <1>8, RequiresAssumption DEF Install, Inv, Progress, Building, TypeOK
  <2>2. /\ temporary'[p] \in Path
        /\ temporary'[p].kind = temporary[p].kind
        /\ temporary'[p].installed = Requires[config[p]]
    BY <1>0, <1>8, <2>1 DEF Install, Path, TypeOK
  <2>3. TypeOK'
    BY <1>0, <1>8, <2>2 DEF Install, TypeOK, Steps, Building
  <2>4. Only(p) /\ target' = target
    BY <1>0, <1>8 DEF Install, Only, TypeOK
  <2>5. Progress(p)'
    BY <1>0, <1>8, <2>2, AbsentAssumption
    DEF Install, Inv, Progress, TypeOK, Building, Escapes, Complete
  <2>6. QED BY <2>3, <2>4, <2>5, LocalStep DEF Only
<1>9. ASSUME NEW p \in Processes, Record(p) PROVE Inv'
  <2>1. /\ temporary[p] \in Path
        /\ temporary[p].kind = "directory"
        /\ temporary[p].installed = Requires[config[p]]
        /\ config[p] \in Configurations
    BY <1>0, <1>9 DEF Record, Inv, Progress, Building, TypeOK
  <2>2. /\ temporary'[p] = [temporary[p] EXCEPT !.metadata = config[p]]
        /\ temporary'[p] \in Path
        /\ temporary'[p].kind = "directory"
    BY <1>0, <1>9, <2>1 DEF Record, Recorded, Path, TypeOK
  <2>3. temporary[p].site => Complete(temporary'[p], config[p])
    BY <2>1, <2>2 DEF Complete, Path
  <2>4. TypeOK'
    BY <1>0, <1>9, <2>2 DEF Record, Recorded, TypeOK, Steps, Building, Outcomes
  <2>5. Only(p) /\ target' = target
    BY <1>0, <1>9 DEF Record, Recorded, Only, TypeOK
  <2>6. Progress(p)'
    BY <1>0, <1>9, <2>2, <2>3, AbsentAssumption
    DEF Record, Inv, Progress, TypeOK, Building, Escapes, Complete
  <2>7. QED BY <2>4, <2>5, <2>6, LocalStep DEF Only
<1>10. ASSUME NEW p \in Processes, BuildFails(p) PROVE Inv'
  <2>1. temporary[p] \in Path /\ Requires[config[p]] \in SUBSET Packages
    BY <1>0, <1>10, RequiresAssumption DEF BuildFails, Building, Inv, Progress, TypeOK
  <2>2. /\ temporary' \in [Processes -> Path \cup {Absent}]
        /\ \A q \in Processes \ {p} : temporary'[q] = temporary[q]
    <3>1. CASE step[p] \in {"venv", "install"}
      <4>1. PICK site \in BOOLEAN, some \in SUBSET Requires[config[p]] :
              Put(p, [temporary[p] EXCEPT !.site = site, !.installed = some])
        BY <1>10, <3>1 DEF BuildFails
      <4>2. [temporary[p] EXCEPT !.site = site, !.installed = some] \in Path
        BY <2>1 DEF Path
      <4>3. QED BY <1>0, <4>1, <4>2 DEF TypeOK
    <3>2. CASE step[p] \notin {"venv", "install"}
      BY <1>0, <1>10, <3>2 DEF BuildFails, TypeOK
    <3>3. QED BY <3>1, <3>2
  <2>3. TypeOK'
    BY <1>0, <1>10, <2>2 DEF BuildFails, TypeOK, Steps, Outcomes
  <2>4. Only(p) /\ target' = target
    BY <1>0, <1>10, <2>2 DEF BuildFails, Only, TypeOK
  <2>5. Progress(p)'
    BY <1>0, <1>10 DEF BuildFails, Progress, TypeOK, Building
  <2>6. QED BY <2>3, <2>4, <2>5, LocalStep DEF Only
<1>11. ASSUME NEW p \in Processes, RenameWins(p) PROVE Inv'
  <2>1. /\ Complete(temporary[p], config[p])
        /\ config[p] \in Configurations
        /\ target' = temporary[p]
    BY <1>0, <1>11 DEF RenameWins, Inv, Progress, TypeOK
  <2>2. /\ target' \in Path
        /\ target' # Absent
        /\ target'.kind = "directory"
        /\ target'.metadata = config[p]
    BY <2>1, CompleteIsPath
  <2>3. TypeOK'
    BY <1>0, <1>11, <2>2 DEF RenameWins, TypeOK, Steps, Outcomes
  <2>4. Honest(target)'
    BY <2>1, <2>2 DEF Honest, Complete
  <2>5. Progress(p)'
    BY <1>0, <1>11, <2>1 DEF RenameWins, Progress, TypeOK, Building, Complete
  <2>6. ASSUME NEW q \in Processes \ {p} PROVE Progress(q)'
    <3>1. ~Complete(target, config[q])
      BY <1>0, <1>11, CompleteIsPath DEF RenameWins, TypeOK
    <3>2. /\ step'[q] = step[q] /\ temporary'[q] = temporary[q]
          /\ config'[q] = config[q] /\ outcome'[q] = outcome[q]
      BY <1>0, <1>11 DEF RenameWins, TypeOK
    <3>3. QED BY <2>2, <3>1, <3>2 DEF Inv, Progress, Escapes, Complete
  <2>7. QED BY <2>3, <2>4, <2>5, <2>6 DEF Inv
<1>12. ASSUME NEW p \in Processes, RenameLoses(p) PROVE Inv'
  <2>1. \/ Goto(p, "validate") /\ UNCHANGED outcome
        \/ Goto(p, "cleanup") /\ Decide(p, "failed")
    BY <1>12 DEF RenameLoses
  <2>2. /\ target # Absent /\ step[p] = "rename"
        /\ UNCHANGED <<target, temporary, config, starts>>
    BY <1>12 DEF RenameLoses
  <2>3. TypeOK'
    BY <1>0, <2>1, <2>2 DEF TypeOK, Steps, Outcomes
  <2>4. Only(p) /\ target' = target
    BY <1>0, <2>1, <2>2 DEF Only, TypeOK
  <2>5. Progress(p)'
    BY <1>0, <2>1, <2>2 DEF Inv, Progress, TypeOK, Building, Escapes, Complete
  <2>6. QED BY <2>3, <2>4, <2>5, LocalStep DEF Only
<1>13. ASSUME NEW p \in Processes, Cleanup(p) PROVE Inv'
  <2>1. TypeOK'
    BY <1>0, <1>13 DEF Cleanup, TypeOK, Steps
  <2>2. Only(p) /\ target' = target
    BY <1>0, <1>13 DEF Cleanup, Only, TypeOK
  <2>3. Progress(p)'
    BY <1>0, <1>13 DEF Cleanup, Inv, Progress, TypeOK, Building, Complete
  <2>4. QED BY <2>1, <2>2, <2>3, LocalStep DEF Only
<1>14. ASSUME NEW p \in Processes, Kill(p) PROVE Inv'
  <2>1. TypeOK'
    BY <1>0, <1>14 DEF Kill, TypeOK, Steps, Outcomes
  <2>2. Only(p) /\ target' = target
    BY <1>0, <1>14 DEF Kill, Only, TypeOK
  <2>3. Progress(p)'
    BY <1>0, <1>14 DEF Kill, Progress, TypeOK, Building
  <2>4. QED BY <2>1, <2>2, <2>3, LocalStep DEF Only
<1>15. QED
  BY <1>1, <1>2, <1>3, <1>4, <1>5, <1>6, <1>7, <1>8, <1>9, <1>10, <1>11, <1>12, <1>13, <1>14
  DEF Next, Continue

LEMMA InvAlways == Spec => []Inv
BY InitInv, StepInv, PTL DEF Spec

\* No step of any startup takes a variable out of its kind.
THEOREM ProvisioningTypeCorrect == Spec => []TypeOK
<1>1. Inv => TypeOK
  BY DEF Inv
<1>2. QED BY <1>1, InvAlways, PTL

\* A server that has started finds exactly what its configuration requires,
\* for any number of servers racing, failing and being killed.
THEOREM SelectedAlwaysMatches == Spec => []SelectedMatches
<1>1. Inv => SelectedMatches
  BY DEF Inv, Progress, SelectedMatches
<1>2. QED BY <1>1, InvAlways, PTL

\* No startup that ended by itself leaves its temporary directory behind.
THEOREM NothingEverLeftBehind == Spec => []NothingLeftBehind
<1>1. Inv => NothingLeftBehind
  BY DEF Inv, Progress, NothingLeftBehind
<1>2. QED BY <1>1, InvAlways, PTL

\* The target is never touched once it exists, and appears complete.
THEOREM OnlyCompleteEverAppears == Spec => OnlyCompleteAppears
<1>1. Inv /\ [Next]_vars =>
        [target = Absent /\ \E p \in Processes : Complete(target', config[p])]_target
  <2>. SUFFICES ASSUME Inv, [Next]_vars, target' # target
                PROVE  target = Absent /\ \E p \in Processes : Complete(target', config[p])
    OBVIOUS
  <2>1. PICK p \in Processes : RenameWins(p)
    BY DEF Next, Continue, vars, Start, LookupFails, LookupFinds, MakeTemporary, Validate,
           CreateVenv, Install, Record, BuildFails, RenameLoses, Cleanup, Kill
  <2>2. QED BY <2>1 DEF RenameWins, Inv, Progress, Complete
<1>2. QED BY <1>1, InvAlways, PTL DEF Spec, OnlyCompleteAppears
=============================================================================
