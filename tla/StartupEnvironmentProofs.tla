--------------------- MODULE StartupEnvironmentProofs ---------------------
(***************************************************************************)
(* The process inputs of a shell lifespan, for all sets of names, values   *)
(* and directories, all configurations and any number of changes by        *)
(* foreign code: first the environment variables, in which sys.path takes  *)
(* no part, then sys.path.                                                 *)
(*                                                                         *)
(* The loops of the source are recursive functions over the number of      *)
(* rounds.  That such a function is what its equation says is proved once  *)
(* for each loop, by an induction over sets of numbers.                    *)
(***************************************************************************)
EXTENDS StartupEnvironment, NumberInduction, SequenceTheorems, TLAPS

-----------------------------------------------------------------------------
(***************************************************************************)
(* The environment variables.                                              *)
(***************************************************************************)
Environs == [Variables -> Values \cup {Unset}]
Remembering == {"paths", "preload", "shell", "bind", "live"}

\* What is remembered is what the start found as soon as the variables are
\* set; until then nothing was changed, and once restored all is put back.
RollbackInv ==
    /\ at \in Phases \cup Over
    /\ environ \in Environs
    /\ at \in {"provision", "variables"} =>
           environ = startEnviron /\ previous = Nothing
    /\ at \in Remembering =>
           previous = [v \in DOMAIN Configured |-> startEnviron[v]]
    /\ VariablesRestored

LEMMA RollbackInit == Init => RollbackInv
  BY DEF Init, RollbackInv, Environs, Phases, Remembering, VariablesRestored

\* A restore puts back whatever was remembered in these phases.
LEMMA RestoreRestores ==
  ASSUME RollbackInv, Restore, UNCHANGED startEnviron,
         startEnviron \in Environs,
         at \in Phases, at' \in {"failed", "closed"}
  PROVE  RollbackInv'
<1> USE ConfiguredAssumption
<1>1. environ' = RestoredEnviron
  BY DEF Restore
<1>2. CASE at \in {"provision", "variables"}
  <2>1. environ = startEnviron /\ DOMAIN previous = {}
    BY <1>2 DEF RollbackInv, Nothing
  <2>2. environ' = startEnviron
    BY <1>1, <2>1 DEF RestoredEnviron, Environs
  <2> QED
    BY <2>2 DEF RollbackInv, VariablesRestored, Phases, Over, Remembering, Environs
<1>3. CASE at \in Remembering
  <2>1. previous = [v \in DOMAIN Configured |-> startEnviron[v]]
    BY <1>3 DEF RollbackInv
  <2>2. environ' = [v \in Variables |->
                       IF v \in DOMAIN Configured THEN startEnviron[v] ELSE environ[v]]
    BY <1>1, <2>1 DEF RestoredEnviron
  <2>3. environ' \in Environs
    BY <2>2 DEF Environs, RollbackInv
  <2>4. VariablesRestored'
    BY <2>2 DEF VariablesRestored
  <2> QED
    BY <2>3, <2>4 DEF RollbackInv, Phases, Over, Remembering
<1> QED
  BY <1>2, <1>3 DEF Phases, Remembering

\* startEnviron never changes, and so keeps its kind.
StartKnown == startEnviron \in Environs

LEMMA StartKnownAlways == Spec => []StartKnown
<1>1. Init => StartKnown
  BY DEF Init, StartKnown, Environs
<1>2. StartKnown /\ [Next]_vars => StartKnown'
  <2> SUFFICES ASSUME StartKnown, [Next]_vars PROVE StartKnown'
    OBVIOUS
  <2>1. UNCHANGED startEnviron
    BY DEF Next, Provision, ApplyVariables, ApplyPaths, Preload, PreloadEscapes,
           BuildShell, BuildEscapes, Bind, Failure, Fail, Close, Touch, vars, history
  <2> QED
    BY <2>1 DEF StartKnown
<1> QED
  BY <1>1, <1>2, PTL DEF Spec

LEMMA RollbackStep == RollbackInv /\ StartKnown /\ [Next]_vars => RollbackInv'
<1> SUFFICES ASSUME RollbackInv, StartKnown, [Next]_vars PROVE RollbackInv'
  OBVIOUS
<1> USE ConfiguredAssumption
<1>1. CASE Provision
  BY <1>1 DEF Provision, remembered, history, RollbackInv, VariablesRestored,
              Phases, Over, Remembering
<1>2. CASE ApplyVariables
  <2>1. environ' \in Environs
    BY <1>2 DEF ApplyVariables, RollbackInv, Environs
  <2>2. previous' = [v \in DOMAIN Configured |-> startEnviron'[v]]
    BY <1>2 DEF ApplyVariables, RollbackInv, history
  <2> QED
    BY <1>2, <2>1, <2>2 DEF ApplyVariables, RollbackInv, VariablesRestored,
                            Phases, Over, Remembering
<1>3. CASE ApplyPaths \/ Preload \/ PreloadEscapes \/ BuildShell \/ BuildEscapes \/ Bind
  <2>1. /\ UNCHANGED <<environ, previous, startEnviron>>
        /\ at \in {"paths", "preload", "shell", "bind"}
        /\ at' \in {"preload", "shell", "bind", "live", "escaped"}
    BY <1>3 DEF ApplyPaths, Preload, PreloadEscapes, BuildShell, BuildEscapes, Bind,
                remembered, history
  <2> QED
    BY <2>1 DEF RollbackInv, VariablesRestored, Phases, Over, Remembering
<1>4. CASE Failure
  <2>1. Restore /\ UNCHANGED startEnviron /\ at \in Phases /\ at' = "failed"
    BY <1>4 DEF Failure, Fail, history, Phases
  <2> QED
    BY <2>1, RestoreRestores DEF StartKnown
<1>5. CASE Close
  <2>1. Restore /\ UNCHANGED startEnviron /\ at \in Phases /\ at' = "closed"
    BY <1>5 DEF Close, history, Phases
  <2> QED
    BY <2>1, RestoreRestores DEF StartKnown
<1>6. CASE Touch
  <2>1. UNCHANGED <<at, previous, startEnviron>> /\ at \in {"preload", "live"}
    BY <1>6 DEF Touch, remembered
  <2>2. environ' \in Environs
    BY <1>6 DEF Touch, RollbackInv, Environs
  <2> QED
    BY <2>1, <2>2 DEF RollbackInv, VariablesRestored, Phases, Over, Remembering
<1>7. CASE UNCHANGED vars
  BY <1>7 DEF vars, remembered, history, RollbackInv, VariablesRestored
<1> QED
  BY <1>1, <1>2, <1>3, <1>4, <1>5, <1>6, <1>7 DEF Next

\* However the start fails with an exception, and after a close, the variables
\* of the configuration are what the start found (StartupEnvironment.restore),
\* whatever preloaded modules and the shell did to them.
THEOREM VariablesAlwaysRestored == Spec => []VariablesRestored
<1>1. RollbackInv => VariablesRestored
  BY DEF RollbackInv
<1> QED
  BY <1>1, RollbackInit, RollbackStep, StartKnownAlways, PTL DEF Spec
-----------------------------------------------------------------------------
(***************************************************************************)
(* Sequences: what Python's index, remove, pop and insert do to a list.    *)
(***************************************************************************)
LEMMA PositionFacts ==
  ASSUME NEW D, NEW s \in Seq(D), NEW d
  PROVE  /\ Contains(s, d) => /\ Position(d, s) \in 1..Len(s)
                              /\ s[Position(d, s)] = d
                              /\ \A i \in 1..Len(s) : s[i] = d => Position(d, s) <= i
         /\ ~Contains(s, d) => Position(d, s) = 0
<1> DEFINE I == {i \in 1..Len(s) : s[i] = d}
<1>1. Position(d, s) = IF I # {} THEN Min(I) ELSE 0
  BY DEF Position, SelectInSeq
<1>2. I \in SUBSET Nat
  OBVIOUS
<1>3. Contains(s, d) <=> I # {}
  BY DEF Contains
<1>4. I # {} => Min(I) \in I /\ \A n \in I : Min(I) <= n
  BY <1>2, LeastElement
<1> QED
  BY <1>1, <1>3, <1>4

\* Concatenation, and one element between two lists, under names of their own:
\* what follows needs the laws stated here and not what \o is.
Cat(s, t) == s \o t
Around(x, d, y) == x \o <<d>> \o y

LEMMA CatKind ==
  ASSUME NEW D, NEW s \in Seq(D), NEW t \in Seq(D)
  PROVE  Cat(s, t) \in Seq(D)
BY DEF Cat

LEMMA CatAssociative ==
  ASSUME NEW D, NEW s \in Seq(D), NEW t \in Seq(D), NEW u \in Seq(D)
  PROVE  Cat(Cat(s, t), u) = Cat(s, Cat(t, u))
BY DEF Cat

LEMMA AroundKind ==
  ASSUME NEW D, NEW x \in Seq(D), NEW y \in Seq(D), NEW d \in D
  PROVE  Around(x, d, y) \in Seq(D)
BY DEF Around

LEMMA AroundIsCat ==
  ASSUME NEW D, NEW x \in Seq(D), NEW y \in Seq(D), NEW d \in D
  PROVE  /\ <<d>> \in Seq(D)
         /\ Around(x, d, y) = Cat(Cat(x, <<d>>), y)
BY DEF Around, Cat

LEMMA AroundCat ==
  ASSUME NEW D, NEW x \in Seq(D), NEW y \in Seq(D), NEW t \in Seq(D), NEW d \in D
  PROVE  /\ Cat(Around(x, d, y), t) = Around(x, d, Cat(y, t))
         /\ Cat(t, Around(x, d, y)) = Around(Cat(t, x), d, y)
<1>0. <<d>> \in Seq(D)
  BY AroundIsCat
<1>e. PICK e \in Seq(D) : e = <<d>>
  BY <1>0
<1>1. /\ Cat(y, t) \in Seq(D) /\ Cat(t, x) \in Seq(D) /\ Cat(x, e) \in Seq(D)
  BY CatKind
<1>2. /\ Around(x, d, y) = Cat(Cat(x, e), y)
      /\ Around(x, d, Cat(y, t)) = Cat(Cat(x, e), Cat(y, t))
      /\ Around(Cat(t, x), d, y) = Cat(Cat(Cat(t, x), e), y)
  BY <1>1, <1>e, AroundIsCat
<1>3. Cat(Cat(Cat(x, e), y), t) = Cat(Cat(x, e), Cat(y, t))
  BY <1>1, CatAssociative
<1>4. Cat(t, Cat(Cat(x, e), y)) = Cat(Cat(t, Cat(x, e)), y)
  BY <1>1, CatAssociative
<1>5. Cat(t, Cat(x, e)) = Cat(Cat(t, x), e)
  BY CatAssociative
<1> QED
  BY <1>2, <1>3, <1>4, <1>5

\* A list that holds d is what stands before the first d, d, and the rest.
LEMMA FirstSplits ==
  ASSUME NEW D, NEW s \in Seq(D), NEW d, Contains(s, d)
  PROVE  \E x, y \in Seq(D) : s = Around(x, d, y) /\ ~Contains(x, d)
<1> DEFINE k == Position(d, s)
           x == SubSeq(s, 1, k - 1)
           y == SubSeq(s, k + 1, Len(s))
<1>1. /\ k \in 1..Len(s) /\ s[k] = d
      /\ \A i \in 1..Len(s) : s[i] = d => k <= i
  BY PositionFacts
<1> HIDE DEF k
<1>2. x \in Seq(D) /\ Len(x) = k - 1 /\ \A i \in 1..k - 1 : x[i] = s[i]
  BY <1>1
<1>3. y \in Seq(D)
  BY <1>1
<1>4. x \o <<d>> = SubSeq(s, 1, k)
  BY <1>1, SubSeqRecursiveSecond
<1>5. SubSeq(s, 1, k) \o y = SubSeq(s, 1, Len(s))
  BY <1>1, ConcatAdjacentSubSeq
<1>6. SubSeq(s, 1, Len(s)) = s
  BY SubSeqFull
<1>7. ~Contains(x, d)
  BY <1>1, <1>2 DEF Contains
<1>8. s = Around(x, d, y)
  BY <1>4, <1>5, <1>6 DEF Around
<1> QED
  BY <1>2, <1>3, <1>7, <1>8

\* The same the other way: such a list has d where x ends.  remove leaves x
\* and y, and an insertion there gives the list back.
LEMMA SplitFirst ==
  ASSUME NEW D, NEW x \in Seq(D), NEW y \in Seq(D), NEW d \in D, ~Contains(x, d)
  PROVE  /\ Contains(Around(x, d, y), d)
         /\ RemoveFirst(Around(x, d, y), d) = Cat(x, y)
         /\ InsertAt(Cat(x, y), Position(d, Around(x, d, y)), d) = Around(x, d, y)
<1> DEFINE s == Around(x, d, y)
           k == Position(d, s)
           r == Cat(x, y)
<1>1. /\ s \in Seq(D)
      /\ Len(s) = Len(x) + 1 + Len(y)
      /\ s[Len(x) + 1] = d
      /\ \A i \in 1..Len(x) : s[i] = x[i]
      /\ \A i \in 1..Len(y) : s[Len(x) + 1 + i] = y[i]
  BY DEF Around
<1> HIDE DEF s
<1>2. Len(x) + 1 \in 1..Len(s)
  BY <1>1
<1>3. Contains(s, d)
  BY <1>1, <1>2 DEF Contains
<1>4. k \in Nat /\ k = Len(x) + 1
  <2>1. /\ k \in 1..Len(s) /\ s[k] = d
        /\ \A i \in 1..Len(s) : s[i] = d => k <= i
    BY <1>1, <1>3, PositionFacts
  <2>2. k <= Len(x) + 1
    BY <1>1, <1>2, <2>1
  <2>3. ~(k <= Len(x))
    BY <1>1, <2>1 DEF Contains
  <2> HIDE DEF k
  <2> QED
    BY <2>1, <2>2, <2>3
<1>5. RemoveFirst(s, d) = RemoveAt(s, k)
  BY <1>3 DEF RemoveFirst, Contains, Position
<1> HIDE DEF k
<1>6. SubSeq(s, 1, k - 1) = x
  <2>1. /\ SubSeq(s, 1, k - 1) \in Seq(D)
        /\ Len(SubSeq(s, 1, k - 1)) = Len(x)
        /\ \A i \in 1..Len(x) : SubSeq(s, 1, k - 1)[i] = x[i]
    BY <1>1, <1>4
  <2> QED
    BY <2>1, SeqEqual
<1>7. SubSeq(s, k + 1, Len(s)) = y
  <2>1. /\ SubSeq(s, k + 1, Len(s)) \in Seq(D)
        /\ Len(SubSeq(s, k + 1, Len(s))) = Len(y)
        /\ \A i \in 1..Len(y) : SubSeq(s, k + 1, Len(s))[i] = s[Len(x) + 1 + i]
    BY <1>1, <1>4
  <2> QED
    BY <1>1, <2>1, SeqEqual
<1>8. RemoveFirst(s, d) = r
  BY <1>5, <1>6, <1>7 DEF RemoveAt, Cat
<1>9. InsertAt(r, k, d) = s
  <2>1. /\ r \in Seq(D) /\ Len(r) = Len(x) + Len(y)
        /\ \A i \in 1..Len(x) : r[i] = x[i]
        /\ \A i \in 1..Len(y) : r[Len(x) + i] = y[i]
    BY DEF Cat
  <2> HIDE DEF r
  <2>2. SubSeq(r, 1, k - 1) = x
    <3>1. /\ SubSeq(r, 1, k - 1) \in Seq(D)
          /\ Len(SubSeq(r, 1, k - 1)) = Len(x)
          /\ \A i \in 1..Len(x) : SubSeq(r, 1, k - 1)[i] = x[i]
      BY <1>4, <2>1
    <3> QED
      BY <3>1, SeqEqual
  <2>3. SubSeq(r, k, Len(r)) = y
    <3>1. /\ SubSeq(r, k, Len(r)) \in Seq(D)
          /\ Len(SubSeq(r, k, Len(r))) = Len(y)
          /\ \A i \in 1..Len(y) : SubSeq(r, k, Len(r))[i] = r[Len(x) + i]
      BY <1>4, <2>1
    <3> QED
      BY <2>1, <3>1, SeqEqual
  <2> QED
    BY <2>2, <2>3 DEF InsertAt, Around, s
<1> QED
  BY <1>3, <1>8, <1>9 DEF k, r, s

\* An element that is taken out and put back where it was first.
LEMMA PutBack ==
  ASSUME NEW D, NEW s \in Seq(D), NEW d \in D, Contains(s, d)
  PROVE  InsertAt(RemoveFirst(s, d), Position(d, s), d) = s
<1>1. PICK x, y \in Seq(D) : s = Around(x, d, y) /\ ~Contains(x, d)
  BY FirstSplits
<1> QED
  BY <1>1, SplitFirst

LEMMA RemoveFirstAbsent ==
  ASSUME NEW s, NEW d, ~Contains(s, d)
  PROVE  RemoveFirst(s, d) = s
BY DEF RemoveFirst, Contains

LEMMA ContainedKind ==
  ASSUME NEW D, NEW s \in Seq(D), NEW d, Contains(s, d)
  PROVE  d \in D
BY DEF Contains

LEMMA RemoveFirstKind ==
  ASSUME NEW D, NEW s \in Seq(D), NEW d
  PROVE  RemoveFirst(s, d) \in Seq(D)
<1>1. CASE Contains(s, d)
  <2>1. PICK x, y \in Seq(D) : s = Around(x, d, y) /\ ~Contains(x, d)
    BY <1>1, FirstSplits
  <2>2. RemoveFirst(s, d) = Cat(x, y)
    BY <1>1, <2>1, ContainedKind, SplitFirst
  <2> QED
    BY <2>2, CatKind
<1> QED
  BY <1>1, RemoveFirstAbsent

LEMMA CatContains ==
  ASSUME NEW D, NEW s \in Seq(D), NEW t \in Seq(D), NEW d
  PROVE  Contains(Cat(s, t), d) <=> Contains(s, d) \/ Contains(t, d)
<1> DEFINE u == Cat(s, t)
<1>0. /\ u \in Seq(D) /\ Len(u) = Len(s) + Len(t)
      /\ \A i \in 1..Len(s) : u[i] = s[i]
      /\ \A i \in 1..Len(t) : u[Len(s) + i] = t[i]
  BY DEF Cat
<1> HIDE DEF u
<1>1. ASSUME Contains(s, d) PROVE Contains(u, d)
  BY <1>0, <1>1 DEF Contains
<1>2. ASSUME Contains(t, d) PROVE Contains(u, d)
  <2>1. PICK i \in 1..Len(t) : t[i] = d
    BY <1>2 DEF Contains
  <2>2. Len(s) + i \in 1..Len(u) /\ u[Len(s) + i] = d
    BY <1>0, <2>1
  <2> QED
    BY <2>2 DEF Contains
<1>3. ASSUME Contains(u, d) PROVE Contains(s, d) \/ Contains(t, d)
  <2>1. PICK i \in 1..Len(u) : u[i] = d
    BY <1>3 DEF Contains
  <2>2. CASE i <= Len(s)
    BY <1>0, <2>1, <2>2 DEF Contains
  <2>3. CASE i > Len(s)
    <3>1. i - Len(s) \in 1..Len(t) /\ Len(s) + (i - Len(s)) = i
      BY <1>0, <2>1, <2>3
    <3>2. t[i - Len(s)] = d
      BY <1>0, <2>1, <3>1
    <3> QED
      BY <3>1, <3>2 DEF Contains
  <2> QED
    BY <1>0, <2>1, <2>2, <2>3
<1> QED
  BY <1>1, <1>2, <1>3 DEF u

\* remove takes the first occurrence, wherever the list is cut in two.
LEMMA RemoveFromCat ==
  ASSUME NEW D, NEW s \in Seq(D), NEW t \in Seq(D), NEW d
  PROVE  /\ Contains(s, d) => RemoveFirst(Cat(s, t), d) = Cat(RemoveFirst(s, d), t)
         /\ ~Contains(s, d) => RemoveFirst(Cat(s, t), d) = Cat(s, RemoveFirst(t, d))
<1>1. CASE Contains(s, d)
  <2>1. PICK x, y \in Seq(D) : s = Around(x, d, y) /\ ~Contains(x, d)
    BY <1>1, FirstSplits
  <2>2. d \in D /\ Cat(y, t) \in Seq(D)
    BY <1>1, ContainedKind, CatKind
  <2>3. RemoveFirst(s, d) = Cat(x, y)
    BY <2>1, <2>2, SplitFirst
  <2>4. Cat(s, t) = Around(x, d, Cat(y, t))
    BY <2>1, <2>2, AroundCat
  <2>5. RemoveFirst(Cat(s, t), d) = Cat(x, Cat(y, t))
    BY <2>1, <2>2, <2>4, SplitFirst
  <2> QED
    BY <1>1, <2>3, <2>5, CatAssociative
<1>2. CASE ~Contains(s, d) /\ Contains(t, d)
  <2>1. PICK x, y \in Seq(D) : t = Around(x, d, y) /\ ~Contains(x, d)
    BY <1>2, FirstSplits
  <2>2. d \in D /\ Cat(s, x) \in Seq(D) /\ ~Contains(Cat(s, x), d)
    BY <1>2, <2>1, ContainedKind, CatKind, CatContains
  <2>3. RemoveFirst(t, d) = Cat(x, y)
    BY <2>1, <2>2, SplitFirst
  <2>4. Cat(s, t) = Around(Cat(s, x), d, y)
    BY <2>1, <2>2, AroundCat
  <2>5. RemoveFirst(Cat(s, t), d) = Cat(Cat(s, x), y)
    BY <2>2, <2>4, SplitFirst
  <2> QED
    BY <1>2, <2>3, <2>5, CatAssociative
<1>3. CASE ~Contains(s, d) /\ ~Contains(t, d)
  BY <1>3, CatContains, RemoveFirstAbsent
<1> QED
  BY <1>1, <1>2, <1>3
LEMMA OneContains ==
  ASSUME NEW d, NEW e
  PROVE  Contains(<<d>>, e) <=> e = d
BY DEF Contains

LEMMA AroundContains ==
  ASSUME NEW D, NEW x \in Seq(D), NEW y \in Seq(D), NEW d \in D, NEW e
  PROVE  Contains(Around(x, d, y), e) <=> Contains(x, e) \/ e = d \/ Contains(y, e)
<1>0. <<d>> \in Seq(D)
  BY AroundIsCat
<1>e. PICK one \in Seq(D) : one = <<d>>
  BY <1>0
<1>1. Contains(one, e) <=> e = d
  BY <1>e, OneContains
<1>2. Around(x, d, y) = Cat(Cat(x, one), y) /\ Cat(x, one) \in Seq(D)
  BY <1>e, AroundIsCat, CatKind
<1> QED
  BY <1>1, <1>2, CatContains

LEMMA RemoveFirstContains ==
  ASSUME NEW D, NEW s \in Seq(D), NEW d, NEW e
  PROVE  /\ Contains(RemoveFirst(s, d), e) => Contains(s, e)
         /\ e # d /\ Contains(s, e) => Contains(RemoveFirst(s, d), e)
<1>1. CASE Contains(s, d)
  <2>1. PICK x, y \in Seq(D) : s = Around(x, d, y) /\ ~Contains(x, d)
    BY <1>1, FirstSplits
  <2>2. d \in D
    BY <1>1, ContainedKind
  <2>3. RemoveFirst(s, d) = Cat(x, y)
    BY <2>1, <2>2, SplitFirst
  <2>4. Contains(s, e) <=> Contains(x, e) \/ e = d \/ Contains(y, e)
    BY <2>1, <2>2, AroundContains
  <2>5. Contains(Cat(x, y), e) <=> Contains(x, e) \/ Contains(y, e)
    BY CatContains
  <2> QED
    BY <2>3, <2>4, <2>5
<1> QED
  BY <1>1, RemoveFirstAbsent

\* Whatever stands before something else is related to it by R.
Sorted(s, R) == \A i, k \in 1..Len(s) : i < k => <<s[i], s[k]>> \in R

\* No element is related to itself, so that a sorted list has no duplicates.
Irreflexive(R) == \A d : <<d, d>> \notin R

LEMMA SortedAround ==
  ASSUME NEW D, NEW x \in Seq(D), NEW y \in Seq(D), NEW d \in D, NEW R,
         Sorted(Around(x, d, y), R)
  PROVE  /\ Sorted(Cat(x, y), R)
         /\ Irreflexive(R) => ~Contains(Cat(x, y), d)
<1> DEFINE s == Around(x, d, y)
           r == Cat(x, y)
           At(i) == IF i <= Len(x) THEN i ELSE i + 1
<1>1. /\ s \in Seq(D)
      /\ Len(s) = Len(x) + 1 + Len(y)
      /\ s[Len(x) + 1] = d
      /\ \A i \in 1..Len(x) : s[i] = x[i]
      /\ \A i \in 1..Len(y) : s[Len(x) + 1 + i] = y[i]
  BY DEF Around
<1>2. /\ r \in Seq(D) /\ Len(r) = Len(x) + Len(y)
      /\ \A i \in 1..Len(x) : r[i] = x[i]
      /\ \A i \in 1..Len(y) : r[Len(x) + i] = y[i]
  BY DEF Cat
<1>3. \A i, k \in 1..Len(s) : i < k => <<s[i], s[k]>> \in R
  BY DEF Sorted
<1> HIDE DEF s, r
<1>4. ASSUME NEW i \in 1..Len(r)
      PROVE  At(i) \in 1..Len(s) /\ At(i) # Len(x) + 1 /\ r[i] = s[At(i)]
  <2>1. CASE i <= Len(x)
    BY <1>1, <1>2, <2>1
  <2>2. CASE i > Len(x)
    <3>1. /\ i - Len(x) \in 1..Len(y) /\ Len(x) + (i - Len(x)) = i
          /\ Len(x) + 1 + (i - Len(x)) = i + 1
      BY <1>2, <2>2
    <3>2. r[i] = y[i - Len(x)] /\ s[i + 1] = y[i - Len(x)]
      BY <1>1, <1>2, <3>1
    <3> QED
      BY <1>1, <1>2, <2>2, <3>2
  <2> QED
    BY <2>1, <2>2
<1>5. \A i, k \in 1..Len(r) : i < k => At(i) < At(k)
  BY <1>2
<1> HIDE DEF At
<1>6. Sorted(r, R)
  <2> SUFFICES ASSUME NEW i \in 1..Len(r), NEW k \in 1..Len(r), i < k
               PROVE  <<r[i], r[k]>> \in R
    BY DEF Sorted
  <2> QED
    BY <1>3, <1>4, <1>5
<1>7. ASSUME Irreflexive(R), Contains(r, d) PROVE FALSE
  <2>1. PICK i \in 1..Len(r) : r[i] = d
    BY <1>7 DEF Contains
  <2>2. At(i) \in 1..Len(s) /\ At(i) # Len(x) + 1 /\ s[At(i)] = d
    BY <1>4, <2>1
  <2>3. Len(x) + 1 \in 1..Len(s)
    BY <1>1
  <2>4. <<d, d>> \in R
    <3>1. At(i) < Len(x) + 1 \/ Len(x) + 1 < At(i)
      BY <1>1, <2>2
    <3> QED
      BY <1>1, <1>3, <2>2, <2>3, <3>1
  <2> QED
    BY <1>7, <2>4 DEF Irreflexive
<1> QED
  BY <1>6, <1>7 DEF r

\* Removing keeps the order; of a list without duplicates nothing is left.
LEMMA SortedRemove ==
  ASSUME NEW D, NEW s \in Seq(D), NEW d, NEW R, Sorted(s, R)
  PROVE  /\ Sorted(RemoveFirst(s, d), R)
         /\ Irreflexive(R) => ~Contains(RemoveFirst(s, d), d)
<1>1. CASE Contains(s, d)
  <2>1. PICK x, y \in Seq(D) : s = Around(x, d, y) /\ ~Contains(x, d)
    BY <1>1, FirstSplits
  <2>2. d \in D
    BY <1>1, ContainedKind
  <2>3. RemoveFirst(s, d) = Cat(x, y)
    BY <2>1, <2>2, SplitFirst
  <2> QED
    BY <2>1, <2>2, <2>3, SortedAround
<1> QED
  BY <1>1, RemoveFirstAbsent

LEMMA SortedPrepend ==
  ASSUME NEW D, NEW s \in Seq(D), NEW d \in D, NEW R, Sorted(s, R),
         \A e \in D : Contains(s, e) => <<d, e>> \in R
  PROVE  Sorted(Cat(<<d>>, s), R)
<1> DEFINE r == Cat(<<d>>, s)
<1>1. /\ Len(r) = Len(s) + 1 /\ r[1] = d
      /\ \A i \in 1..Len(s) : r[i + 1] = s[i]
  BY DEF Cat
<1>2. \A i \in 1..Len(s) : s[i] \in D /\ Contains(s, s[i])
  BY DEF Contains
<1> HIDE DEF r
<1> SUFFICES ASSUME NEW i \in 1..Len(r), NEW k \in 1..Len(r), i < k
             PROVE  <<r[i], r[k]>> \in R
  BY DEF Sorted, r
<1>3. k - 1 \in 1..Len(s) /\ (k - 1) + 1 = k
  BY <1>1
<1>4. r[k] = s[k - 1]
  BY <1>1, <1>3
<1>5. CASE i = 1
  BY <1>1, <1>2, <1>3, <1>4, <1>5
<1>6. CASE i # 1
  <2>1. i - 1 \in 1..Len(s) /\ (i - 1) + 1 = i /\ i - 1 < k - 1
    BY <1>1, <1>6
  <2>2. r[i] = s[i - 1]
    BY <1>1, <2>1
  <2> QED
    BY <1>3, <1>4, <2>1, <2>2 DEF Sorted
<1> QED
  BY <1>5, <1>6
LEMMA EmptyFacts ==
  ASSUME NEW D, NEW s \in Seq(D)
  PROVE  /\ <<>> \in Seq(D)
         /\ Cat(<<>>, s) = s /\ Cat(s, <<>>) = s
         /\ \A d : ~Contains(<<>>, d)
         /\ (\A d \in D : ~Contains(s, d)) => s = <<>>
<1>1. (\A d \in D : ~Contains(s, d)) => s = <<>>
  <2> SUFFICES ASSUME s # <<>> PROVE \E d \in D : Contains(s, d)
    OBVIOUS
  <2>1. 1 \in 1..Len(s)
    OBVIOUS
  <2> QED
    BY <2>1 DEF Contains
<1>2. \A d : ~Contains(<<>>, d)
  BY DEF Contains
<1> QED
  BY <1>1, <1>2 DEF Cat

-----------------------------------------------------------------------------
(***************************************************************************)
(* The loops.                                                              *)
(***************************************************************************)
\* restore's loop: the elements of q are removed from p, one after the other.
LeftOf(p, q) ==
    CHOOSE f : f = [n \in 0..Len(q) |->
                       IF n = 0 THEN p ELSE RemoveFirst(f[n - 1], q[n])]

LEMMA LeftOfUnfolds ==
  ASSUME NEW p, NEW q, Len(q) \in Nat
  PROVE  /\ LeftOf(p, q)[0] = p
         /\ \A n \in 0..Len(q) - 1 :
                LeftOf(p, q)[n + 1] = RemoveFirst(LeftOf(p, q)[n], q[n + 1])
<1> DEFINE Is(f, m) == f = [n \in 0..m |-> IF n = 0 THEN p ELSE RemoveFirst(f[n - 1], q[n])]
           T == {m \in Nat : \E f : Is(f, m)}
<1>1. 0 \in T
  <2>1. Is([n \in 0..0 |-> p], 0)
    OBVIOUS
  <2> QED
    BY <2>1
<1>2. ASSUME NEW m \in T PROVE m + 1 \in T
  <2>1. PICK f : Is(f, m)
    OBVIOUS
  <2> DEFINE g == [n \in 0..m + 1 |-> IF n = m + 1 THEN RemoveFirst(f[m], q[m + 1]) ELSE f[n]]
  <2>2. Is(g, m + 1)
    <3>1. \A n \in 0..m : f[n] = IF n = 0 THEN p ELSE RemoveFirst(f[n - 1], q[n])
      BY <2>1
    <3>2. ASSUME NEW n \in 0..m + 1
          PROVE  g[n] = IF n = 0 THEN p ELSE RemoveFirst(g[n - 1], q[n])
      <4>1. CASE n = m + 1
        BY <4>1
      <4>2. CASE n # m + 1 /\ n # 0
        <5>1. n \in 0..m /\ n - 1 \in 0..m /\ n - 1 # m + 1
          BY <4>2
        <5>2. g[n] = f[n] /\ g[n - 1] = f[n - 1]
          BY <4>2, <5>1
        <5> QED
          BY <3>1, <4>2, <5>1, <5>2
      <4>3. CASE n = 0
        BY <3>1, <4>3
      <4> QED
        BY <4>1, <4>2, <4>3
    <3> QED
      BY <3>2
  <2> HIDE DEF g, Is
  <2> QED
    BY <2>2
<1>3. T = Nat
  <2> HIDE DEF T
  <2>1. T \in SUBSET Nat
    BY DEF T
  <2> QED
    BY <1>1, <1>2, <2>1, SetInduction
<1>4. \E f : Is(f, Len(q))
  BY <1>3
<1>5. Is(LeftOf(p, q), Len(q))
  BY <1>4 DEF LeftOf
<1> DEFINE left == LeftOf(p, q)
<1>6. \A n \in 0..Len(q) : left[n] = IF n = 0 THEN p ELSE RemoveFirst(left[n - 1], q[n])
  <2> HIDE DEF left
  <2> QED
    BY <1>5 DEF left
<1>7. left[0] = p
  BY <1>6
<1>8. ASSUME NEW n \in 0..Len(q) - 1 PROVE left[n + 1] = RemoveFirst(left[n], q[n + 1])
  <2>1. n + 1 \in 0..Len(q) /\ n + 1 # 0 /\ (n + 1) - 1 = n
    OBVIOUS
  <2> QED
    BY <1>6, <2>1
<1> QED
  BY <1>7, <1>8
\* What stands between h and rest is removed if q names all of it and nothing
\* of h and rest.
LEMMA RemovesBetween ==
  ASSUME NEW D, NEW h \in Seq(D), NEW pre \in Seq(D), NEW rest \in Seq(D), NEW q \in Seq(D),
         NEW R, Irreflexive(R), Sorted(pre, R),
         \A d : Contains(pre, d) => Contains(q, d),
         \A d : Contains(q, d) => ~Contains(h, d) /\ ~Contains(rest, d)
  PROVE  LeftOf(Cat(h, Cat(pre, rest)), q)[Len(q)] = Cat(h, rest)
<1> DEFINE left == LeftOf(Cat(h, Cat(pre, rest)), q)
           Is(n, s) == /\ Sorted(s, R)
                       /\ left[n] = Cat(h, Cat(s, rest))
                       /\ \A d : Contains(s, d) => \E k \in n + 1..Len(q) : q[k] = d
           T == {n \in Nat : n <= Len(q) => \E s \in Seq(D) : Is(n, s)}
<1>0. Len(q) \in Nat
  OBVIOUS
<1>1. /\ left[0] = Cat(h, Cat(pre, rest))
      /\ \A n \in 0..Len(q) - 1 : left[n + 1] = RemoveFirst(left[n], q[n + 1])
  BY <1>0, LeftOfUnfolds
<1> HIDE DEF left
<1>2. 0 \in T
  <2>1. ASSUME NEW d, Contains(pre, d) PROVE \E k \in 0 + 1..Len(q) : q[k] = d
    <3>1. Contains(q, d)
      BY <2>1
    <3> QED
      BY <3>1 DEF Contains
  <2>2. Is(0, pre)
    BY <1>1, <2>1
  <2> HIDE DEF Is
  <2> QED
    BY <2>2
<1>3. ASSUME NEW n \in T PROVE n + 1 \in T
  <2> SUFFICES ASSUME n + 1 <= Len(q) PROVE \E s \in Seq(D) : Is(n + 1, s)
    OBVIOUS
  <2>0. n \in 0..Len(q) - 1 /\ n + 1 \in 1..Len(q)
    BY <1>0
  <2>1. PICK s \in Seq(D) : Is(n, s)
    BY <2>0
  <2> DEFINE d == q[n + 1]
             r == RemoveFirst(s, d)
  <2>2. Contains(q, d)
    BY <2>0 DEF Contains
  <2>3. left[n + 1] = RemoveFirst(Cat(h, Cat(s, rest)), d)
    BY <1>1, <2>0, <2>1
  <2>4. ~Contains(h, d) /\ ~Contains(rest, d)
    BY <2>2
  <2> HIDE DEF d
  <2>5. r \in Seq(D) /\ Cat(s, rest) \in Seq(D)
    BY RemoveFirstKind, CatKind
  <2>6. left[n + 1] = Cat(h, RemoveFirst(Cat(s, rest), d))
    BY <2>3, <2>4, <2>5, RemoveFromCat
  <2>7. RemoveFirst(Cat(s, rest), d) = Cat(r, rest)
    <3>1. CASE Contains(s, d)
      BY <3>1, RemoveFromCat
    <3>2. CASE ~Contains(s, d)
      BY <2>4, <3>2, RemoveFromCat, RemoveFirstAbsent
    <3> QED
      BY <3>1, <3>2
  <2>8. Sorted(r, R) /\ ~Contains(r, d)
    BY <2>1, SortedRemove
  <2>9. ASSUME NEW e, Contains(r, e) PROVE \E k \in n + 2..Len(q) : q[k] = e
    <3>1. Contains(s, e) /\ e # d
      BY <2>8, <2>9, RemoveFirstContains
    <3>2. PICK k \in n + 1..Len(q) : q[k] = e
      BY <2>1, <3>1
    <3>3. k # n + 1
      BY <3>1, <3>2 DEF d
    <3> QED
      BY <2>0, <3>2, <3>3
  <2>10. (n + 1) + 1 = n + 2
    BY <2>0
  <2>11. Is(n + 1, r)
    BY <2>6, <2>7, <2>8, <2>9, <2>10
  <2> HIDE DEF Is, r
  <2> QED
    BY <2>5, <2>11
<1>4. T = Nat
  <2> HIDE DEF T
  <2>1. T \in SUBSET Nat
    BY DEF T
  <2> QED
    BY <1>2, <1>3, <2>1, SetInduction
<1>5. PICK s \in Seq(D) : Is(Len(q), s)
  <2> HIDE DEF Is
  <2> QED
    BY <1>0, <1>4
<1>6. \A d \in D : ~Contains(s, d)
  BY <1>0, <1>5
<1>7. s = <<>>
  BY <1>6, EmptyFacts
<1>8. Cat(s, rest) = rest
  BY <1>7, EmptyFacts
<1> QED
  BY <1>5, <1>8 DEF left

\* _apply_paths' loop over the paths w, the last first.
LaidOf(p, a, w) ==
    CHOOSE so : so = [n \in 0..Len(w) |->
                         IF n = 0 THEN [path |-> p, added |-> a]
                         ELSE Prepend(w[Len(w) + 1 - n], so[n - 1])]

LEMMA LaidOfUnfolds ==
  ASSUME NEW p, NEW a, NEW w, Len(w) \in Nat
  PROVE  /\ LaidOf(p, a, w)[0] = [path |-> p, added |-> a]
         /\ \A n \in 0..Len(w) - 1 :
                LaidOf(p, a, w)[n + 1] = Prepend(w[Len(w) - n], LaidOf(p, a, w)[n])
<1> DEFINE base == [path |-> p, added |-> a]
           Is(f, m) == f = [n \in 0..m |-> IF n = 0 THEN base
                                           ELSE Prepend(w[Len(w) + 1 - n], f[n - 1])]
           T == {m \in Nat : \E f : Is(f, m)}
<1> HIDE DEF base
<1>1. 0 \in T
  <2>1. Is([n \in 0..0 |-> base], 0)
    OBVIOUS
  <2> QED
    BY <2>1
<1>2. ASSUME NEW m \in T PROVE m + 1 \in T
  <2>1. PICK f : Is(f, m)
    OBVIOUS
  <2> DEFINE g == [n \in 0..m + 1 |->
                      IF n = m + 1 THEN Prepend(w[Len(w) + 1 - (m + 1)], f[m]) ELSE f[n]]
  <2>2. Is(g, m + 1)
    <3>1. \A n \in 0..m : f[n] = IF n = 0 THEN base ELSE Prepend(w[Len(w) + 1 - n], f[n - 1])
      BY <2>1
    <3>2. ASSUME NEW n \in 0..m + 1
          PROVE  g[n] = IF n = 0 THEN base ELSE Prepend(w[Len(w) + 1 - n], g[n - 1])
      <4>1. CASE n = m + 1
        BY <4>1
      <4>2. CASE n # m + 1 /\ n # 0
        <5>1. n \in 0..m /\ n - 1 \in 0..m /\ n - 1 # m + 1
          BY <4>2
        <5>2. g[n] = f[n] /\ g[n - 1] = f[n - 1]
          BY <4>2, <5>1
        <5> QED
          BY <3>1, <4>2, <5>1, <5>2
      <4>3. CASE n = 0
        BY <3>1, <4>3
      <4> QED
        BY <4>1, <4>2, <4>3
    <3> QED
      BY <3>2
  <2> HIDE DEF g, Is
  <2> QED
    BY <2>2
<1>3. T = Nat
  <2> HIDE DEF T
  <2>1. T \in SUBSET Nat
    BY DEF T
  <2> QED
    BY <1>1, <1>2, <2>1, SetInduction
<1>4. \E f : Is(f, Len(w))
  BY <1>3
<1>5. Is(LaidOf(p, a, w), Len(w))
  BY <1>4 DEF LaidOf, base
<1> DEFINE so == LaidOf(p, a, w)
<1>6. \A n \in 0..Len(w) : so[n] = IF n = 0 THEN base ELSE Prepend(w[Len(w) + 1 - n], so[n - 1])
  <2> HIDE DEF so
  <2> QED
    BY <1>5 DEF so
<1>7. so[0] = base
  BY <1>6
<1>8. ASSUME NEW n \in 0..Len(w) - 1 PROVE so[n + 1] = Prepend(w[Len(w) - n], so[n])
  <2>1. /\ n + 1 \in 0..Len(w) /\ n + 1 # 0 /\ (n + 1) - 1 = n
        /\ Len(w) + 1 - (n + 1) = Len(w) - n
    OBVIOUS
  <2> QED
    BY <1>6, <2>1
<1> QED
  BY <1>7, <1>8 DEF base
\* d stands for the last time before some e: what the loop, which starts at the
\* end and takes every path once, leaves in front of what.
Lasting(D, w) ==
    {pair \in D \X D : \E m \in 1..Len(w) : /\ w[m] = pair[2]
                                            /\ \A l \in m..Len(w) : w[l] # pair[1]}

LEMMA LastingIrreflexive ==
  ASSUME NEW D, NEW w \in Seq(D)
  PROVE  Irreflexive(Lasting(D, w))
<1> SUFFICES ASSUME NEW d, <<d, d>> \in Lasting(D, w) PROVE FALSE
  BY DEF Irreflexive
<1>1. PICK m \in 1..Len(w) : w[m] = d /\ \A l \in m..Len(w) : w[l] # d
  BY DEF Lasting
<1>2. m \in m..Len(w)
  OBVIOUS
<1> QED
  BY <1>1, <1>2

\* The loop puts what p does not hold before p, in this order, and remembers it.
LEMMA LaysAhead ==
  ASSUME NEW D, NEW p \in Seq(D), NEW w \in Seq(D)
  PROVE  \E pre \in Seq(D) :
             /\ LaidOf(p, <<>>, w)[Len(w)].path = Cat(pre, p)
             /\ LaidOf(p, <<>>, w)[Len(w)].added \in Seq(D)
             /\ Sorted(pre, Lasting(D, w))
             /\ \A d : Contains(pre, d) <=> Contains(w, d) /\ ~Contains(p, d)
             /\ \A d : Contains(LaidOf(p, <<>>, w)[Len(w)].added, d) <=> Contains(pre, d)
<1> DEFINE so == LaidOf(p, <<>>, w)
           Taken(n, d) == \E i \in Len(w) + 1 - n..Len(w) : w[i] = d
           Is(n, pre) == /\ so[n].path = Cat(pre, p)
                         /\ so[n].added \in Seq(D)
                         /\ Sorted(pre, Lasting(D, w))
                         /\ \A d : Contains(pre, d) <=> Taken(n, d) /\ ~Contains(p, d)
                         /\ \A d : Contains(so[n].added, d) <=> Contains(pre, d)
           T == {n \in Nat : n <= Len(w) => \E pre \in Seq(D) : Is(n, pre)}
<1>0. Len(w) \in Nat
  OBVIOUS
<1>1. /\ so[0] = [path |-> p, added |-> <<>>]
      /\ \A n \in 0..Len(w) - 1 : so[n + 1] = Prepend(w[Len(w) - n], so[n])
  BY <1>0, LaidOfUnfolds
<1> HIDE DEF so
<1>2. 0 \in T
  <2> SUFFICES \E pre \in Seq(D) : Is(0, pre)
    OBVIOUS
  <2>1. \A d : ~Taken(0, d)
    BY <1>0
  <2>2. so[0].path = p /\ so[0].added = <<>>
    BY <1>1
  <2>3. PICK none \in Seq(D) : none = <<>>
    BY EmptyFacts
  <2>4. Cat(none, p) = p /\ \A d : ~Contains(none, d)
    BY <2>3, EmptyFacts
  <2>5. Sorted(none, Lasting(D, w))
    BY <2>3 DEF Sorted
  <2> HIDE DEF Taken
  <2>6. Is(0, none)
    BY <2>1, <2>2, <2>3, <2>4, <2>5
  <2> HIDE DEF Is
  <2> QED
    BY <2>6
<1>3. ASSUME NEW n \in T PROVE n + 1 \in T
  <2> HIDE DEF Is, Taken
  <2> SUFFICES ASSUME n + 1 <= Len(w) PROVE \E pre \in Seq(D) : Is(n + 1, pre)
    OBVIOUS
  <2>0. /\ n \in 0..Len(w) - 1 /\ Len(w) - n \in 1..Len(w)
        /\ Len(w) + 1 - (n + 1) = Len(w) - n
        /\ Len(w) + 1 - n = (Len(w) - n) + 1
    BY <1>0
  <2>1. PICK pre \in Seq(D) : Is(n, pre)
    BY <2>0
  <2> USE DEF Is, Taken
  <2> DEFINE j == Len(w) - n
             d == w[j]
  <2>2. d \in D /\ so[n + 1] = Prepend(d, so[n])
    BY <1>1, <2>0
  <2>3. \A e : Taken(n + 1, e) <=> e = d \/ Taken(n, e)
    <3>0. j \in Nat /\ j <= Len(w)
      BY <1>0, <2>0
    <3> HIDE DEF j
    <3>1. \A i \in j..Len(w) : i = j \/ i \in j + 1..Len(w)
      BY <1>0, <3>0
    <3>2. j \in j..Len(w) /\ \A i \in j + 1..Len(w) : i \in j..Len(w)
      BY <1>0, <3>0
    <3> QED
      BY <2>0, <3>1, <3>2 DEF j
  <2>4. Cat(pre, p) \in Seq(D)
    BY CatKind
  <2>5. Contains(so[n].path, d) <=> Contains(pre, d) \/ Contains(p, d)
    BY <2>1, CatContains
  <2>6. CASE Contains(so[n].path, d)
    <3>1. so[n + 1] = so[n]
      BY <2>2, <2>6 DEF Prepend
    <3> HIDE DEF d, j, Taken
    <3>2. \A e : Contains(pre, e) <=> Taken(n + 1, e) /\ ~Contains(p, e)
      BY <2>1, <2>3, <2>5, <2>6
    <3>3. Is(n + 1, pre)
      BY <2>1, <3>1, <3>2
    <3> HIDE DEF Is
    <3> QED
      BY <3>3
  <2>7. CASE ~Contains(so[n].path, d)
    <3> HIDE DEF d
    <3>0. <<d>> \in Seq(D)
      BY <2>2
    <3>e. PICK one \in Seq(D) : one = <<d>>
      BY <3>0
    <3> DEFINE more == Cat(one, pre)
    <3>a. \A e : Contains(one, e) <=> e = d
      BY <3>e, OneContains
    <3>1. so[n + 1] = [path |-> <<d>> \o so[n].path, added |-> Append(so[n].added, d)]
      BY <2>2, <2>7, Zenon DEF Prepend
    <3>2. ASSUME NEW e \in D, Contains(pre, e) PROVE <<d, e>> \in Lasting(D, w)
      <4>1. PICK i \in j + 1..Len(w) : w[i] = e
        BY <2>0, <2>1, <3>2
      <4>2. ~Taken(n, d)
        BY <2>1, <2>5, <2>7
      <4>3. \A l \in i..Len(w) : w[l] # d
        BY <2>0, <4>2
      <4>4. i \in 1..Len(w)
        BY <2>0
      <4> QED
        BY <2>2, <4>1, <4>3, <4>4 DEF Lasting
    <3> HIDE DEF j, Taken
    <3>3. more \in Seq(D) /\ \A e : Contains(more, e) <=> e = d \/ Contains(pre, e)
      BY <3>a, CatKind, CatContains
    <3>4. Sorted(more, Lasting(D, w))
      BY <2>1, <2>2, <3>2, <3>e, SortedPrepend
    <3>5. so[n + 1].path = Cat(more, p)
      <4>1. so[n + 1].path = Cat(one, so[n].path)
        BY <3>1, <3>e DEF Cat
      <4>2. so[n].path = Cat(pre, p)
        BY <2>1
      <4>3. Cat(more, p) = Cat(one, Cat(pre, p))
        BY CatAssociative
      <4> QED
        BY <4>1, <4>2, <4>3
    <3>6. \A e : Contains(more, e) <=> Taken(n + 1, e) /\ ~Contains(p, e)
      BY <2>1, <2>3, <2>5, <2>7, <3>3
    <3>7. /\ so[n + 1].added \in Seq(D)
          /\ \A e : Contains(so[n + 1].added, e) <=> Contains(more, e)
      <4>1. so[n].added \in Seq(D)
        BY <2>1
      <4>2. Append(so[n].added, d) = so[n].added \o <<d>>
        BY <2>2, <4>1, AppendIsConcat
      <4>3. so[n + 1].added = Cat(so[n].added, one)
        BY <3>1, <3>e, <4>2 DEF Cat
      <4>4. \A e : Contains(so[n].added, e) <=> Contains(pre, e)
        BY <2>1
      <4> HIDE DEF more
      <4>5. so[n + 1].added \in Seq(D)
        BY <4>1, <4>3, CatKind
      <4>6. ASSUME NEW e
            PROVE  Contains(so[n + 1].added, e) <=> Contains(so[n].added, e) \/ Contains(one, e)
        BY <4>1, <4>3, CatContains
      <4> QED
        BY <3>a, <3>3, <4>4, <4>5, <4>6
    <3>8. Is(n + 1, more)
      BY <3>4, <3>5, <3>6, <3>7
    <3> HIDE DEF Is, more
    <3> QED
      BY <3>3, <3>8
  <2> QED
    BY <2>6, <2>7
<1>4. T = Nat
  <2> HIDE DEF T
  <2>1. T \in SUBSET Nat
    BY DEF T
  <2> QED
    BY <1>2, <1>3, <2>1, SetInduction
<1>5. PICK pre \in Seq(D) : Is(Len(w), pre)
  <2> HIDE DEF Is
  <2> QED
    BY <1>0, <1>4
<1>6. \A d : Taken(Len(w), d) <=> Contains(w, d)
  BY <1>0 DEF Contains
<1> HIDE DEF Taken
<1> QED
  BY <1>5, <1>6 DEF so

-----------------------------------------------------------------------------
(***************************************************************************)
(* Every variable has its kind, and what the phases before the path know.  *)
(***************************************************************************)
\* A loop that starts in S and of which no round leaves S ends in S.
LEMMA LeftOfStays ==
  ASSUME NEW D, NEW q \in Seq(D), NEW S, NEW p \in S,
         \A s \in S : \A k \in 1..Len(q) : RemoveFirst(s, q[k]) \in S
  PROVE  LeftOf(p, q)[Len(q)] \in S
<1> DEFINE left == LeftOf(p, q)
           T == {n \in Nat : n <= Len(q) => left[n] \in S}
<1>0. Len(q) \in Nat
  OBVIOUS
<1>1. left[0] = p /\ \A n \in 0..Len(q) - 1 : left[n + 1] = RemoveFirst(left[n], q[n + 1])
  BY <1>0, LeftOfUnfolds
<1> HIDE DEF left
<1>2. 0 \in T
  BY <1>1
<1>3. ASSUME NEW n \in T PROVE n + 1 \in T
  <2> SUFFICES ASSUME n + 1 <= Len(q) PROVE left[n + 1] \in S
    OBVIOUS
  <2>1. n \in 0..Len(q) - 1 /\ n + 1 \in 1..Len(q) /\ left[n] \in S
    BY <1>0
  <2> QED
    BY <1>1, <2>1
<1>4. T = Nat
  <2> HIDE DEF T
  <2>1. T \in SUBSET Nat
    BY DEF T
  <2> QED
    BY <1>2, <1>3, <2>1, SetInduction
<1> QED
  BY <1>0, <1>4 DEF left

LEMMA InsertKind ==
  ASSUME NEW D, NEW s \in Seq(D), NEW d \in D, NEW i \in 1..Len(s) + 1
  PROVE  \E x, y \in Seq(D) : s = Cat(x, y) /\ InsertAt(s, i, d) = Around(x, d, y)
<1> DEFINE x == SubSeq(s, 1, i - 1)
           y == SubSeq(s, i, Len(s))
<1>1. x \in Seq(D) /\ y \in Seq(D)
  OBVIOUS
<1>2. s = Cat(x, y)
  <2>1. i - 1 \in 0..Len(s) /\ (i - 1) + 1 = i
    OBVIOUS
  <2>2. ASSUME NEW m \in 0..Len(s)
        PROVE  SubSeq(s, 1, m) \o SubSeq(s, m + 1, Len(s)) = SubSeq(s, 1, Len(s))
    <3>1. 1 \in 1..Len(s) + 1 /\ m \in 1 - 1..Len(s) /\ Len(s) \in m..Len(s)
      OBVIOUS
    <3> QED
      BY <3>1, ConcatAdjacentSubSeq
  <2>3. SubSeq(s, 1, i - 1) \o SubSeq(s, (i - 1) + 1, Len(s)) = s
    BY <2>1, <2>2, SubSeqFull
  <2> QED
    BY <2>1, <2>3 DEF Cat
<1>3. InsertAt(s, i, d) = Around(x, d, y)
  BY DEF InsertAt, Around
<1> QED
  BY <1>1, <1>2, <1>3

LEMMA WantedKind ==
  ASSUME TypeOK
  PROVE  Wanted \in Seq(Directories)
<1>1. libraries \in Seq(Directories)
  BY PathsAssumption DEF TypeOK
<1>2. CASE site = NoSite
  BY <1>1, <1>2 DEF Wanted
<1>3. CASE site # NoSite
  <2>1. site \in Directories
    BY <1>3, PathsAssumption DEF TypeOK
  <2>e. <<site>> \in Seq(Directories)
    BY <2>1
  <2>2. PICK one \in Seq(Directories) : one = <<site>>
    BY <2>e
  <2>3. Wanted = one \o libraries
    BY <1>3, <2>2 DEF Wanted
  <2> QED
    BY <1>1, <2>3
<1> QED
  BY <1>2, <1>3

LEMMA WantedHolds ==
  ASSUME TypeOK
  PROVE  /\ \A d : d \in ToSet(Wanted) <=> Contains(Wanted, d)
         /\ site # NoSite => Contains(Wanted, site) /\ site \in Directories
<1>1. Wanted \in Seq(Directories)
  BY WantedKind
<1>2. \A d : d \in ToSet(Wanted) <=> Contains(Wanted, d)
  BY <1>1 DEF ToSet, Contains
<1>3. ASSUME site # NoSite PROVE Contains(Wanted, site) /\ site \in Directories
  <2>1. libraries \in Seq(Directories) /\ site \in Directories
    BY <1>3, PathsAssumption DEF TypeOK
  <2>e. <<site>> \in Seq(Directories)
    BY <2>1
  <2>2. PICK one \in Seq(Directories) : one = <<site>>
    BY <2>e
  <2>3. Wanted = Cat(one, libraries)
    BY <1>3, <2>2 DEF Wanted, Cat
  <2>4. Contains(one, site)
    BY <2>2, OneContains
  <2> QED
    BY <2>1, <2>3, <2>4, CatContains
<1> QED
  BY <1>2, <1>3

\* What the loops of the model are.
LEMMA RestoredPathIs ==
  LET without == LeftOf(path, added)[Len(added)]
      others  == RemoveFirst(without, site)
  IN RestoredPath = IF reordered = None THEN without
                    ELSE InsertAt(others, AtMost(reordered, Len(others) + 1), site)
BY DEF RestoredPath, LeftOf

LEMMA AppliedIs == Applied = LaidOf(path, added, Wanted)[Len(Wanted)]
BY DEF Applied, LaidOf

\* Before the paths are applied sys.path is what the start found.  Only what is
\* wanted was added, and only a selected directory is ever moved.
Untouched ==
    /\ path = startPath /\ ~pathTouched
    /\ added = <<>> /\ reordered = None /\ originals = Nothing

Kinds ==
    /\ TypeOK
    /\ at \in {"provision", "variables", "paths"} => Untouched
    /\ \A d : Contains(added, d) => Contains(Wanted, d)
    /\ reordered # None => site # NoSite

LEMMA KindsInit == Init => Kinds
<1> SUFFICES ASSUME Init PROVE Kinds
  OBVIOUS
<1>1. path \in Seq(Directories) /\ <<>> \in Seq(Directories)
  BY PathsAssumption, EmptyFacts DEF Init
<1>2. \A d : ~Contains(<<>>, d)
  BY DEF Contains
<1> QED
  BY <1>1, <1>2 DEF Init, Kinds, TypeOK, Untouched, Phases, Nothing, None

\* A loop over what was added leaves a list of directories, and a directory is
\* put back at a place the list has.
LEMMA RestoredPathKind ==
  ASSUME Kinds
  PROVE  /\ LeftOf(path, added)[Len(added)] \in Seq(Directories)
         /\ RestoredPath \in Seq(Directories)
<1> DEFINE without == LeftOf(path, added)[Len(added)]
           others  == RemoveFirst(without, site)
<1>1. without \in Seq(Directories)
  <2>1. path \in Seq(Directories) /\ added \in Seq(Directories)
    BY DEF Kinds, TypeOK
  <2>2. \A s \in Seq(Directories) : \A k \in 1..Len(added) :
            RemoveFirst(s, added[k]) \in Seq(Directories)
    BY RemoveFirstKind
  <2> QED
    BY <2>1, <2>2, LeftOfStays
<1> HIDE DEF without
<1>2. others \in Seq(Directories)
  BY <1>1, RemoveFirstKind
<1> HIDE DEF others
<1>3. CASE reordered = None
  BY <1>1, <1>3, RestoredPathIs DEF without
<1>4. CASE reordered # None
  <2>1. AtMost(reordered, Len(others) + 1) \in 1..Len(others) + 1
    BY <1>2, <1>4 DEF AtMost, Kinds, TypeOK, None
  <2>2. site \in Directories
    BY <1>4, WantedHolds DEF Kinds
  <2>3. InsertAt(others, AtMost(reordered, Len(others) + 1), site) \in Seq(Directories)
    BY <1>2, <2>1, <2>2, InsertKind, AroundKind
  <2>4. RestoredPath = InsertAt(others, AtMost(reordered, Len(others) + 1), site)
    BY <1>4, RestoredPathIs, Zenon DEF without, others
  <2> QED
    BY <1>1, <2>3, <2>4 DEF without
<1> QED
  BY <1>1, <1>3, <1>4 DEF without

LEMMA KindsRestore ==
  ASSUME Kinds, Restore, at' \in {"failed", "closed"}, UNCHANGED <<site, libraries, history>>
  PROVE  Kinds'
<1>1. path' \in Seq(Directories)
  BY RestoredPathKind DEF Restore
<1>2. environ' \in [Variables -> Values \cup {Unset}]
  BY ConfiguredAssumption DEF Restore, RestoredEnviron, Kinds, TypeOK
<1>3. /\ DOMAIN previous' = {} /\ added' = <<>> /\ DOMAIN originals' = {} /\ reordered' = None
  BY DEF Restore, Nothing
<1>e. PICK none \in Seq(Directories) : none = <<>> /\ \A d : ~Contains(none, d)
  BY EmptyFacts DEF Kinds, TypeOK
<1>4. added' \in Seq(Directories) /\ \A d : ~Contains(added', d)
  BY <1>3, <1>e
<1>5. TypeOK'
  BY <1>1, <1>2, <1>3, <1>4 DEF Kinds, TypeOK, Over, history, None
<1> QED
  BY <1>3, <1>4, <1>5 DEF Kinds

\* What is decided about the path once the shell is built.
LEMMA PrioritizeKind ==
  ASSUME Kinds, Prioritize(path)
  PROVE  /\ path' \in Seq(Directories)
         /\ reordered' \in Nat
         /\ reordered' # None => site # NoSite
<1>0. path \in Seq(Directories) /\ reordered \in Nat
  BY DEF Kinds, TypeOK
<1>1. CASE site = NoSite \/ ~Contains(path, site) \/ path[1] = site
  BY <1>0, <1>1 DEF Prioritize, Kinds
<1>2. CASE ~(site = NoSite \/ ~Contains(path, site) \/ path[1] = site)
  <2>1. site \in Directories
    BY <1>2, WantedHolds DEF Kinds
  <2>2. RemoveFirst(path, site) \in Seq(Directories)
    BY <1>0, RemoveFirstKind
  <2>3. <<site>> \in Seq(Directories)
    BY <2>1
  <2>4. PICK one \in Seq(Directories) : one = <<site>>
    BY <2>3
  <2>5. path' = Cat(one, RemoveFirst(path, site))
    BY <1>2, <2>4 DEF Prioritize, ToFront, Cat
  <2>6. path' \in Seq(Directories)
    BY <2>2, <2>5, CatKind
  <2>7. Position(site, path) \in Nat
    BY <1>0, <1>2, PositionFacts
  <2>8. site \in DOMAIN originals => originals[site] \in Nat
    BY DEF Kinds, TypeOK
  <2>9. reordered' \in Nat
    BY <1>0, <1>2, <2>7, <2>8 DEF Prioritize
  <2> QED
    BY <1>2, <2>6, <2>9
<1> QED
  BY <1>1, <1>2

LEMMA ApplyPathsLays ==
  ASSUME Kinds, ApplyPaths
  PROVE  \E pre \in Seq(Directories) :
             /\ path' = Cat(pre, path) /\ added' \in Seq(Directories)
             /\ Sorted(pre, Lasting(Directories, Wanted))
             /\ \A d : Contains(pre, d) <=> Contains(Wanted, d) /\ ~Contains(path, d)
             /\ \A d : Contains(added', d) <=> Contains(pre, d)
<1>1. path \in Seq(Directories) /\ Wanted \in Seq(Directories)
  BY WantedKind DEF Kinds, TypeOK
<1>2. path' = Applied.path /\ added' = Applied.added
  BY DEF ApplyPaths
<1>3. Applied = LaidOf(path, <<>>, Wanted)[Len(Wanted)]
  BY AppliedIs DEF ApplyPaths, Kinds, Untouched
<1>4. PICK pre \in Seq(Directories) :
          /\ LaidOf(path, <<>>, Wanted)[Len(Wanted)].path = Cat(pre, path)
          /\ LaidOf(path, <<>>, Wanted)[Len(Wanted)].added \in Seq(Directories)
          /\ Sorted(pre, Lasting(Directories, Wanted))
          /\ \A d : Contains(pre, d) <=> Contains(Wanted, d) /\ ~Contains(path, d)
          /\ \A d : Contains(LaidOf(path, <<>>, Wanted)[Len(Wanted)].added, d)
                        <=> Contains(pre, d)
  BY <1>1, LaysAhead
<1> QED
  BY <1>2, <1>3, <1>4

LEMMA KindsStep == Kinds /\ [Next]_vars => Kinds'
<1> SUFFICES ASSUME Kinds, [Next]_vars PROVE Kinds'
  OBVIOUS
<1> USE ConfiguredAssumption, PathsAssumption
<1>0. path \in Seq(Directories) /\ added \in Seq(Directories)
  BY DEF Kinds, TypeOK
<1>1. CASE Provision
  <2>1. TypeOK'
    BY <1>1 DEF Provision, Kinds, TypeOK, remembered, history, Phases
  <2>e. added = <<>>
    BY <1>1 DEF Provision, Kinds, Untouched
  <2>2. \A d : ~Contains(added, d)
    BY <2>e DEF Contains
  <2> QED
    BY <1>1, <2>1, <2>2 DEF Provision, Kinds, Untouched, remembered, history
<1>2. CASE ApplyVariables
  <2>1. /\ environ' \in [Variables -> Values \cup {Unset}]
        /\ DOMAIN previous' = DOMAIN Configured
        /\ \A v \in DOMAIN previous' : previous'[v] \in Values \cup {Unset}
    BY <1>2 DEF ApplyVariables, Kinds, TypeOK
  <2>2. TypeOK'
    BY <1>2, <2>1 DEF ApplyVariables, Kinds, TypeOK, history, Phases
  <2>3. Wanted' = Wanted
    BY <1>2 DEF ApplyVariables, Wanted
  <2> QED
    BY <1>2, <2>2, <2>3 DEF ApplyVariables, Kinds, Untouched, history
<1>3. CASE ApplyPaths
  <2>1. added = <<>> /\ reordered = None
    BY <1>3 DEF ApplyPaths, Kinds, Untouched
  <2>3. PICK pre \in Seq(Directories) :
            /\ path' = Cat(pre, path) /\ added' \in Seq(Directories)
            /\ \A d : Contains(pre, d) <=> Contains(Wanted, d) /\ ~Contains(path, d)
            /\ \A d : Contains(added', d) <=> Contains(pre, d)
    BY <1>3, ApplyPathsLays
  <2>4. path' \in Seq(Directories)
    BY <1>0, <2>3, CatKind
  <2>5. /\ DOMAIN originals' \subseteq Directories
        /\ \A d \in DOMAIN originals' : originals'[d] \in Nat \ {None}
    <3>1. DOMAIN originals' = {e \in ToSet(Wanted) : Contains(path, e)}
      BY <1>3 DEF ApplyPaths
    <3>2. \A d \in DOMAIN originals' : originals'[d] = Position(d, path)
      BY <1>3, <3>1 DEF ApplyPaths
    <3>3. \A d \in DOMAIN originals' : Contains(path, d)
      BY <3>1
    <3> QED
      BY <1>0, <3>2, <3>3, PositionFacts, ContainedKind DEF None
  <2>6. Wanted' = Wanted
    BY <1>3 DEF ApplyPaths, Wanted
  <2>7. TypeOK'
    BY <1>3, <2>3, <2>4, <2>5 DEF ApplyPaths, Kinds, TypeOK, history, Phases
  <2> QED
    BY <1>3, <2>1, <2>3, <2>6, <2>7 DEF ApplyPaths, Kinds
<1>4. CASE Preload \/ PreloadEscapes \/ BuildEscapes \/ Bind
  <2>1. /\ UNCHANGED <<environ, path, site, libraries, remembered, history>>
        /\ at' \in {"shell", "escaped", "live"}
    BY <1>4 DEF Preload, PreloadEscapes, BuildEscapes, Bind
  <2>2. TypeOK'
    BY <2>1 DEF Kinds, TypeOK, remembered, history, Phases, Over
  <2>3. Wanted' = Wanted
    BY <2>1 DEF Wanted
  <2> QED
    BY <2>1, <2>2, <2>3 DEF Kinds, remembered
<1>5. CASE BuildShell
  <2>1. /\ at' = "bind"
        /\ UNCHANGED <<environ, site, libraries, previous, added, originals,
                       startEnviron, startPath, touches>>
    BY <1>5 DEF BuildShell
  <2>2. Wanted' = Wanted
    BY <2>1 DEF Wanted
  <2>3. /\ path' \in Seq(Directories) /\ reordered' \in Nat /\ pathTouched' \in BOOLEAN
        /\ reordered' # None => site # NoSite
    <3>1. CASE Prioritize(path) /\ UNCHANGED pathTouched
      BY <3>1, PrioritizeKind DEF Kinds, TypeOK
    <3>2. ASSUME NEW d \in Directories, path' = <<d>> \o path, pathTouched', UNCHANGED reordered
          PROVE  /\ path' \in Seq(Directories) /\ reordered' \in Nat
                 /\ reordered' # None => site # NoSite
      BY <1>0, <3>2 DEF Kinds, TypeOK
    <3>3. CASE \E d \in Directories :
                 path' = <<d>> \o path /\ pathTouched' = TRUE /\ UNCHANGED reordered
      BY <3>2, <3>3
    <3> QED
      BY <1>5, <3>1, <3>3 DEF BuildShell
  <2>4. TypeOK'
    BY <2>1, <2>3 DEF Kinds, TypeOK, Phases
  <2> QED
    BY <2>1, <2>2, <2>3, <2>4 DEF Kinds
<1>6. CASE Failure
  BY <1>6, KindsRestore DEF Failure, Fail
<1>7. CASE Close
  BY <1>7, KindsRestore DEF Close
<1>8. CASE Touch
  <2>1. /\ UNCHANGED <<at, site, libraries, remembered, startEnviron, startPath>>
        /\ at \in {"preload", "live"} /\ touches' = touches + 1
    BY <1>8 DEF Touch
  <2>2. Wanted' = Wanted
    BY <2>1 DEF Wanted
  <2>3. /\ environ' \in [Variables -> Values \cup {Unset}]
        /\ path' \in Seq(Directories) /\ pathTouched' \in BOOLEAN
    <3>1. ASSUME NEW d \in Directories
          PROVE  /\ <<d>> \o path \in Seq(Directories)
                 /\ Append(path, d) \in Seq(Directories)
                 /\ RemoveFirst(path, d) \in Seq(Directories)
                 /\ ToFront(d, path) \in Seq(Directories)
      <4>1. RemoveFirst(path, d) \in Seq(Directories)
        BY <1>0, RemoveFirstKind
      <4> QED
        BY <1>0, <4>1 DEF ToFront
    <3>2. CASE (\E v \in Variables, x \in Values \cup {Unset} :
                    environ' = [environ EXCEPT ![v] = x]) /\ UNCHANGED <<path, pathTouched>>
      BY <1>0, <3>2 DEF Kinds, TypeOK
    <3>3. CASE /\ \E d \in Directories :
                    path' \in {<<d>> \o path, Append(path, d), RemoveFirst(path, d), ToFront(d, path)}
               /\ pathTouched' = TRUE /\ UNCHANGED environ
      BY <3>1, <3>3 DEF Kinds, TypeOK
    <3> QED
      BY <1>8, <3>2, <3>3 DEF Touch
  <2>4. TypeOK'
    BY <2>1, <2>3 DEF Kinds, TypeOK, remembered
  <2> QED
    BY <2>1, <2>2, <2>4 DEF Kinds, remembered
<1>9. CASE UNCHANGED vars
  <2>1. TypeOK' /\ Wanted' = Wanted
    BY <1>9 DEF Kinds, TypeOK, Wanted, vars, remembered, history
  <2> QED
    BY <1>9, <2>1 DEF Kinds, Untouched, vars, remembered, history
<1> QED
  BY <1>1, <1>2, <1>3, <1>4, <1>5, <1>6, <1>7, <1>8, <1>9 DEF Next

\* Through every phase, failure and change by foreign code the variables have
\* their kinds: above all sys.path stays a list of directories, and an index
\* that a directory is put back at is one the list has.
THEOREM KindsAlwaysRight == Spec => []TypeOK
<1>1. Kinds => TypeOK
  BY DEF Kinds
<1> QED
  BY <1>1, KindsInit, KindsStep, PTL DEF Spec

-----------------------------------------------------------------------------
(***************************************************************************)
(* sys.path while nobody else changes it.                                  *)
(***************************************************************************)
\* pre is what ApplyPaths put before the path of the start.
Ahead(pre) ==
    /\ pre \in Seq(Directories)
    /\ Sorted(pre, Lasting(Directories, Wanted))
    /\ \A d : Contains(pre, d) <=> Contains(Wanted, d) /\ ~Contains(startPath, d)
    /\ \A d : Contains(added, d) <=> Contains(pre, d)

Laid(pre) ==
    /\ path = Cat(pre, startPath)
    /\ reordered = None
    /\ \A d : d \in DOMAIN originals <=> Contains(Wanted, d) /\ Contains(startPath, d)
    /\ \A d \in DOMAIN originals : originals[d] = Position(d, startPath)

\* The selected directory is first, or was moved there.
Foremost(pre) ==
    \/ /\ path = Cat(pre, startPath) /\ reordered = None
       /\ site = NoSite \/ Cat(pre, startPath)[1] = site
    \/ /\ site # NoSite
       /\ path = Cat(<<site>>, RemoveFirst(Cat(pre, startPath), site))
       /\ reordered = IF Contains(pre, site) THEN None ELSE Position(site, startPath)

Undisturbed ==
    /\ at \in {"preload", "shell"} => \E pre : Ahead(pre) /\ Laid(pre)
    /\ at \in {"bind", "live"} => \E pre : Ahead(pre) /\ Foremost(pre)
    /\ at \in {"failed", "closed"} => path = startPath

PathInv == Kinds /\ (pathTouched \/ Undisturbed)

LEMMA AheadKept ==
  ASSUME NEW pre, Ahead(pre), UNCHANGED <<site, libraries, added, startPath>>
  PROVE  Ahead(pre)'
<1>1. Wanted' = Wanted
  BY DEF Wanted
<1> QED
  BY <1>1 DEF Ahead

LEMMA LaidKept ==
  ASSUME NEW pre, Laid(pre), UNCHANGED <<site, libraries, path, originals, reordered, startPath>>
  PROVE  Laid(pre)'
<1>1. Wanted' = Wanted
  BY DEF Wanted
<1> QED
  BY <1>1 DEF Laid

LEMMA ForemostKept ==
  ASSUME NEW pre, Foremost(pre), UNCHANGED <<site, path, reordered, startPath>>
  PROVE  Foremost(pre)'
BY DEF Foremost

\* Of a list that begins with d nothing changes when d is moved to the front.
LEMMA FrontStays ==
  ASSUME NEW D, NEW s \in Seq(D), NEW d \in D, s # <<>>, s[1] = d
  PROVE  s = Cat(<<d>>, RemoveFirst(s, d))
<1>1. Contains(s, d)
  BY DEF Contains
<1>2. PICK x, y \in Seq(D) : s = Around(x, d, y) /\ ~Contains(x, d)
  BY <1>1, FirstSplits
<1>3. x = <<>>
  <2>1. Len(x) > 0 => 1 \in 1..Len(x) /\ s[1] = x[1]
    BY <1>2 DEF Around
  <2> QED
    BY <1>2, <2>1 DEF Contains
<1>4. RemoveFirst(s, d) = Cat(x, y)
  BY <1>2, SplitFirst
<1>5. RemoveFirst(s, d) = y
  BY <1>3, <1>4, EmptyFacts
<1>6. s = Cat(Cat(x, <<d>>), y)
  BY <1>2, AroundIsCat
<1>7. Cat(x, <<d>>) = <<d>>
  BY <1>3, EmptyFacts, AroundIsCat
<1> QED
  BY <1>5, <1>6, <1>7

\* Restoring finds the start again, wherever the selected directory came from.
LEMMA ForemostRestores ==
  ASSUME Kinds, NEW pre, Ahead(pre), Laid(pre) \/ Foremost(pre)
  PROVE  RestoredPath = startPath
<1>0. /\ pre \in Seq(Directories) /\ startPath \in Seq(Directories)
      /\ added \in Seq(Directories)
  BY DEF Kinds, TypeOK, Ahead
<1>e. PICK none \in Seq(Directories) : none = <<>> /\ \A d : ~Contains(none, d)
  BY <1>0, EmptyFacts
<1> DEFINE Neq == {pair \in Directories \X Directories : pair[1] # pair[2]}
<1>1. Irreflexive(Neq)
  BY DEF Irreflexive
<1>2. Sorted(pre, Neq)
  <2>1. Wanted \in Seq(Directories)
    BY WantedKind DEF Kinds
  <2>2. \A pair \in Lasting(Directories, Wanted) : pair \in Neq
    BY <2>1, LastingIrreflexive DEF Irreflexive, Lasting
  <2> HIDE DEF Neq
  <2> QED
    BY <2>2 DEF Ahead, Sorted
<1> HIDE DEF Neq
\* Whatever list of the same entries stands before the path of the start.
<1>3. ASSUME NEW list \in Seq(Directories), Sorted(list, Neq),
             \A d : Contains(list, d) => Contains(pre, d),
             path = Cat(list, startPath), reordered = None
      PROVE  RestoredPath = startPath
  <2>1. path = Cat(none, Cat(list, startPath))
    BY <1>0, <1>3, <1>e, CatKind, EmptyFacts
  <2>2. \A d : Contains(list, d) => Contains(added, d)
    BY <1>3 DEF Ahead
  <2>3. \A d : Contains(added, d) => ~Contains(none, d) /\ ~Contains(startPath, d)
    BY <1>e DEF Ahead
  <2>4. LeftOf(Cat(none, Cat(list, startPath)), added)[Len(added)] = Cat(none, startPath)
    BY <1>0, <1>1, <1>3, <2>2, <2>3, RemovesBetween
  <2>5. LeftOf(path, added)[Len(added)] = startPath
    BY <1>0, <1>e, <2>1, <2>4, EmptyFacts
  <2> QED
    BY <1>3, <2>5, RestoredPathIs
<1>4. CASE path = Cat(pre, startPath) /\ reordered = None
  BY <1>0, <1>2, <1>3, <1>4
<1>5. CASE /\ site # NoSite
           /\ path = Cat(<<site>>, RemoveFirst(Cat(pre, startPath), site))
           /\ reordered = IF Contains(pre, site) THEN None ELSE Position(site, startPath)
  <2>1. site \in Directories /\ Contains(Wanted, site)
    BY <1>5, WantedHolds DEF Kinds
  <2>2. <<site>> \in Seq(Directories)
    BY <2>1
  <2>3. PICK one \in Seq(Directories) : one = <<site>> /\ \A d : Contains(one, d) <=> d = site
    BY <2>2, OneContains
  <2>4. path = Cat(one, RemoveFirst(Cat(pre, startPath), site))
    BY <1>5, <2>3
  <2>5. CASE Contains(pre, site)
    <3> DEFINE rest == RemoveFirst(pre, site)
               list == Cat(one, rest)
    <3>1. rest \in Seq(Directories) /\ list \in Seq(Directories)
      BY <1>0, RemoveFirstKind, CatKind
    <3>2. path = Cat(list, startPath)
      <4>1. RemoveFirst(Cat(pre, startPath), site) = Cat(rest, startPath)
        BY <1>0, <2>5, RemoveFromCat
      <4> HIDE DEF rest
      <4> QED
        BY <1>0, <2>4, <3>1, <4>1, CatAssociative
    <3>3. Sorted(rest, Neq) /\ ~Contains(rest, site)
      BY <1>0, <1>1, <1>2, SortedRemove
    <3>4. \A d : Contains(rest, d) => Contains(pre, d)
      BY <1>0, RemoveFirstContains
    <3> HIDE DEF rest
    <3>5. Sorted(list, Neq)
      <4>1. \A d \in Directories : Contains(rest, d) => <<site, d>> \in Neq
        BY <2>1, <3>3 DEF Neq
      <4> QED
        BY <2>1, <2>3, <3>1, <3>3, <4>1, SortedPrepend
    <3>6. \A d : Contains(list, d) => Contains(pre, d)
      BY <2>3, <2>5, <3>1, <3>4, CatContains
    <3> HIDE DEF list
    <3> QED
      BY <1>3, <1>5, <2>5, <3>1, <3>2, <3>5, <3>6
  <2>6. CASE ~Contains(pre, site)
    <3> DEFINE rest == RemoveFirst(startPath, site)
    <3>1. Contains(startPath, site)
      BY <2>1, <2>6 DEF Ahead
    <3>2. reordered = Position(site, startPath)
      BY <1>5, <2>6
    <3>3. rest \in Seq(Directories) /\ Len(startPath) = Len(rest) + 1
      <4>1. PICK x, y \in Seq(Directories) : startPath = Around(x, site, y) /\ ~Contains(x, site)
        BY <1>0, <3>1, FirstSplits
      <4>2. rest = Cat(x, y)
        BY <2>1, <4>1, SplitFirst
      <4>3. Len(Cat(x, y)) = Len(x) + Len(y) /\ Len(Around(x, site, y)) = Len(x) + 1 + Len(y)
        BY <2>1, <4>1 DEF Cat, Around
      <4> HIDE DEF rest
      <4> QED
        BY <4>1, <4>2, <4>3, CatKind
    <3>4. path = Cat(one, Cat(pre, rest))
      BY <1>0, <2>4, <2>6, RemoveFromCat
    <3>5. InsertAt(rest, Position(site, startPath), site) = startPath
      BY <1>0, <2>1, <3>1, PutBack
    <3>a. \A d : d # site /\ Contains(rest, d) => Contains(startPath, d)
      BY <1>0, RemoveFirstContains
    <3> HIDE DEF rest
    <3>6. LeftOf(path, added)[Len(added)] = Cat(one, rest)
      <4>1. \A d : Contains(pre, d) => Contains(added, d)
        BY DEF Ahead
      <4>2. \A d : Contains(added, d) => ~Contains(one, d) /\ ~Contains(rest, d)
        BY <2>3, <2>6, <3>a DEF Ahead
      <4> QED
        BY <1>0, <1>1, <1>2, <3>3, <3>4, <4>1, <4>2, RemovesBetween
    <3>7. RemoveFirst(Cat(one, rest), site) = rest
      <4>1. Contains(one, site)
        BY <2>3
      <4>2. RemoveFirst(Cat(one, rest), site) = Cat(RemoveFirst(one, site), rest)
        BY <3>3, <4>1, RemoveFromCat
      <4>3. RemoveFirst(one, site) = <<>>
        <5>1. one = Around(none, site, none)
          BY <1>e, <2>3 DEF Around
        <5>a. ~Contains(none, site)
          BY <1>e
        <5>2. RemoveFirst(Around(none, site, none), site) = Cat(none, none)
          BY <2>1, <5>a, SplitFirst
        <5>3. Cat(none, none) = none
          BY <1>e, EmptyFacts
        <5> QED
          BY <1>e, <5>1, <5>2, <5>3
      <4> QED
        BY <3>3, <4>2, <4>3, EmptyFacts
    <3>8. reordered \in 1..Len(rest) + 1
      BY <1>0, <3>1, <3>2, <3>3, PositionFacts
    <3>9. AtMost(reordered, Len(rest) + 1) = reordered /\ reordered # None
      BY <3>3, <3>8 DEF AtMost, None
    <3>10. RestoredPath = InsertAt(rest, AtMost(reordered, Len(rest) + 1), site)
      BY <3>6, <3>7, <3>9, RestoredPathIs
    <3> QED
      BY <3>2, <3>5, <3>9, <3>10
  <2> QED
    BY <2>5, <2>6
<1> QED
  BY <1>4, <1>5 DEF Laid, Foremost

\* The same for the phases in which nothing was added yet.
LEMMA UntouchedRestores ==
  ASSUME Untouched
  PROVE  RestoredPath = startPath
<1>1. Len(added) = 0 /\ reordered = None /\ path = startPath
  BY DEF Untouched
<1>2. LeftOf(path, added)[0] = path
  BY <1>1, LeftOfUnfolds
<1> QED
  BY <1>1, <1>2, RestoredPathIs

\* What moves the selected directory leaves it foremost.
LEMMA PrioritizeMakesForemost ==
  ASSUME Kinds, NEW pre, Ahead(pre), Laid(pre), Prioritize(path),
         UNCHANGED <<site, startPath>>
  PROVE  Foremost(pre)'
<1>0. pre \in Seq(Directories) /\ startPath \in Seq(Directories)
  BY DEF Kinds, TypeOK, Ahead
<1>1. path = Cat(pre, startPath) /\ reordered = None
  BY DEF Laid
<1>2. CASE site = NoSite \/ path[1] = site
  BY <1>1, <1>2 DEF Prioritize, Foremost
<1>3. CASE site # NoSite /\ path[1] # site
  <2>1. Contains(Wanted, site)
    BY <1>3, WantedHolds DEF Kinds
  <2>2. Contains(pre, site) \/ Contains(startPath, site)
    BY <2>1 DEF Ahead
  <2>3. Contains(path, site)
    BY <1>0, <1>1, <2>2, CatContains
  <2>4. path' = Cat(<<site>>, RemoveFirst(path, site))
    BY <1>3, <2>3, Zenon DEF Prioritize, ToFront, Cat
  <2>5. reordered' = IF Contains(added, site) \/ reordered # None THEN reordered
                     ELSE IF site \in DOMAIN originals THEN originals[site]
                     ELSE Position(site, path)
    BY <1>3, <2>3, Zenon DEF Prioritize
  <2>6. CASE Contains(pre, site)
    <3>1. reordered' = None
      BY <1>1, <2>5, <2>6 DEF Ahead
    <3> QED
      BY <1>1, <1>3, <2>4, <2>6, <3>1, Zenon DEF Foremost
  <2>7. CASE ~Contains(pre, site)
    <3>1. site \in DOMAIN originals
      BY <2>1, <2>2, <2>7 DEF Laid
    <3>2. originals[site] = Position(site, startPath)
      BY <3>1 DEF Laid
    <3>3. ~Contains(added, site)
      BY <2>7 DEF Ahead
    <3>4. reordered' = Position(site, startPath)
      BY <1>1, <2>5, <3>1, <3>2, <3>3
    <3> QED
      BY <1>1, <1>3, <2>4, <2>7, <3>4, Zenon DEF Foremost
  <2> QED
    BY <2>6, <2>7
<1> QED
  BY <1>2, <1>3

LEMMA PathInit == Init => PathInv
BY KindsInit DEF Init, PathInv, Undisturbed

LEMMA PathRestores ==
  ASSUME PathInv, Restore, at \in Phases, at # "shell", at' \in {"failed", "closed"},
         UNCHANGED <<startPath, pathTouched>>
  PROVE  (pathTouched \/ Undisturbed)'
<1> SUFFICES ASSUME ~pathTouched PROVE path' = startPath
  BY DEF Undisturbed
<1>1. Undisturbed /\ Kinds
  BY DEF PathInv
<1>2. CASE at \in {"provision", "variables", "paths"}
  BY <1>1, <1>2, UntouchedRestores DEF Kinds, Restore
<1>3. CASE at \in {"preload", "bind", "live"}
  <2>1. PICK pre : Ahead(pre) /\ (Laid(pre) \/ Foremost(pre))
    BY <1>1, <1>3 DEF Undisturbed
  <2> QED
    BY <1>1, <2>1, ForemostRestores DEF Restore
<1> QED
  BY <1>2, <1>3 DEF Phases

LEMMA PathStep == PathInv /\ [Next]_vars => PathInv'
<1> SUFFICES ASSUME PathInv, [Next]_vars PROVE (pathTouched \/ Undisturbed)'
  BY KindsStep DEF PathInv
<1>0. Kinds /\ (pathTouched \/ Undisturbed)
  BY DEF PathInv
<1>1. CASE Provision \/ ApplyVariables
  BY <1>1 DEF Provision, ApplyVariables, Undisturbed
<1>2. CASE ApplyPaths
  <2>1. /\ path = startPath /\ at' = "preload" /\ reordered' = None
        /\ UNCHANGED <<site, libraries, startPath>>
    BY <1>0, <1>2 DEF ApplyPaths, Kinds, Untouched, history
  <2>2. Wanted' = Wanted
    BY <2>1 DEF Wanted
  <2>3. PICK pre \in Seq(Directories) :
            /\ path' = Cat(pre, path)
            /\ Sorted(pre, Lasting(Directories, Wanted))
            /\ \A d : Contains(pre, d) <=> Contains(Wanted, d) /\ ~Contains(path, d)
            /\ \A d : Contains(added', d) <=> Contains(pre, d)
    BY <1>0, <1>2, ApplyPathsLays
  <2>4. Ahead(pre)'
    BY <2>1, <2>2, <2>3 DEF Ahead
  <2>5. Laid(pre)'
    <3>1. originals' = [d \in {e \in ToSet(Wanted) : Contains(path, e)} |-> Position(d, path)]
      BY <1>2 DEF ApplyPaths
    <3>2. \A d : d \in DOMAIN originals' <=> Contains(Wanted, d) /\ Contains(path, d)
      BY <1>0, <3>1, WantedHolds DEF Kinds
    <3>3. \A d \in DOMAIN originals' : originals'[d] = Position(d, path)
      BY <3>1
    <3> QED
      BY <2>1, <2>2, <2>3, <3>2, <3>3 DEF Laid
  <2> QED
    BY <2>1, <2>4, <2>5 DEF Undisturbed
<1>3. CASE Preload
  <2>1. /\ at = "preload" /\ at' = "shell"
        /\ UNCHANGED <<path, site, libraries, remembered, history>>
    BY <1>3 DEF Preload
  <2>2. ASSUME NEW pre, Ahead(pre), Laid(pre) PROVE (Ahead(pre) /\ Laid(pre))'
    BY <2>1, <2>2, AheadKept, LaidKept DEF remembered, history
  <2> QED
    BY <1>0, <2>1, <2>2 DEF Undisturbed, history
<1>4. CASE PreloadEscapes \/ BuildEscapes
  BY <1>4 DEF PreloadEscapes, BuildEscapes, Undisturbed
<1>5. CASE BuildShell
  <2>1. /\ at = "shell" /\ at' = "bind"
        /\ UNCHANGED <<site, libraries, added, startPath>>
    BY <1>5 DEF BuildShell
  <2>2. CASE pathTouched'
    BY <2>2
  <2>3. CASE ~pathTouched'
    <3>1. Prioritize(path) /\ ~pathTouched
      BY <1>5, <2>3 DEF BuildShell
    <3>2. PICK pre : Ahead(pre) /\ Laid(pre)
      BY <1>0, <2>1, <3>1 DEF Undisturbed
    <3>3. Foremost(pre)'
      BY <1>0, <2>1, <3>1, <3>2, PrioritizeMakesForemost
    <3>4. Ahead(pre)'
      BY <2>1, <3>2, AheadKept
    <3> QED
      BY <2>1, <3>3, <3>4 DEF Undisturbed
  <2> QED
    BY <2>2, <2>3
<1>6. CASE Bind
  <2>1. /\ at = "bind" /\ at' = "live"
        /\ UNCHANGED <<path, site, libraries, remembered, history>>
    BY <1>6 DEF Bind
  <2>2. ASSUME NEW pre, Ahead(pre), Foremost(pre) PROVE (Ahead(pre) /\ Foremost(pre))'
    BY <2>1, <2>2, AheadKept, ForemostKept DEF remembered, history
  <2> QED
    BY <1>0, <2>1, <2>2 DEF Undisturbed, history
<1>7. CASE Failure
  <2>1. /\ Restore /\ at \in Phases /\ at # "shell" /\ at' = "failed"
        /\ UNCHANGED <<startPath, pathTouched>>
    BY <1>7 DEF Failure, Fail, Phases, history
  <2> QED
    BY <2>1, PathRestores
<1>8. CASE Close
  <2>1. /\ Restore /\ at \in Phases /\ at # "shell" /\ at' = "closed"
        /\ UNCHANGED <<startPath, pathTouched>>
    BY <1>8 DEF Close, Phases, history
  <2> QED
    BY <2>1, PathRestores
<1>9. CASE Touch
  <2>1. /\ at \in {"preload", "live"}
        /\ UNCHANGED <<at, site, libraries, remembered, startPath>>
    BY <1>9 DEF Touch
  <2>2. CASE pathTouched'
    BY <2>2
  <2>3. CASE ~pathTouched'
    <3>1. UNCHANGED <<path, pathTouched>>
      BY <1>9, <2>3 DEF Touch
    <3>2. ASSUME NEW pre, Ahead(pre) PROVE Ahead(pre)'
      BY <2>1, <3>2, AheadKept DEF remembered
    <3>3. ASSUME NEW pre, Laid(pre) PROVE Laid(pre)'
      BY <2>1, <3>1, <3>3, LaidKept DEF remembered
    <3>4. ASSUME NEW pre, Foremost(pre) PROVE Foremost(pre)'
      BY <2>1, <3>1, <3>4, ForemostKept DEF remembered
    <3> QED
      BY <1>0, <2>1, <2>3, <3>1, <3>2, <3>3, <3>4 DEF Undisturbed
  <2> QED
    BY <2>2, <2>3
<1>10. CASE UNCHANGED vars
  <2>1. UNCHANGED <<at, path, site, libraries, remembered, startPath, pathTouched>>
    BY <1>10 DEF vars, history
  <2>2. ASSUME NEW pre, Ahead(pre) PROVE Ahead(pre)'
    BY <2>1, <2>2, AheadKept DEF remembered
  <2>3. ASSUME NEW pre, Laid(pre) PROVE Laid(pre)'
    BY <2>1, <2>3, LaidKept DEF remembered
  <2>4. ASSUME NEW pre, Foremost(pre) PROVE Foremost(pre)'
    BY <2>1, <2>4, ForemostKept DEF remembered
  <2> QED
    BY <1>0, <2>1, <2>2, <2>3, <2>4 DEF Undisturbed
<1> QED
  BY <1>1, <1>2, <1>3, <1>4, <1>5, <1>6, <1>7, <1>8, <1>9, <1>10 DEF Next

\* Unless foreign code changes sys.path itself, a start that fails with an
\* exception and a close leave it exactly as the start found it, though the
\* selected directory may have been on it before, at any place and several
\* times, be configured as a library too, or have been moved to the front
\* (restore and prioritize_site_packages).
THEOREM PathAlwaysRestored == Spec => []PathRestoredExactly
<1>1. PathInv => PathRestoredExactly
  BY DEF PathInv, Undisturbed, PathRestoredExactly
<1> QED
  BY <1>1, PathInit, PathStep, PTL DEF Spec

\* Between f and o stands m.
LEMMA Between ==
  ASSUME NEW D, NEW f \in Seq(D), NEW m \in Seq(D), NEW o \in Seq(D),
         NEW s \in Seq(D), s = Cat(f, Cat(m, o))
  PROVE  /\ Len(s) - Len(f) - Len(o) = Len(m)
         /\ SubSeq(s, Len(f) + 1, Len(f) + Len(m)) = m
<1> DEFINE t == Cat(m, o)
<1>1. /\ t \in Seq(D) /\ Len(t) = Len(m) + Len(o)
      /\ \A i \in 1..Len(m) : t[i] = m[i]
  BY DEF Cat
<1> HIDE DEF t
<1>2. /\ Len(s) = Len(f) + Len(t)
      /\ \A i \in 1..Len(t) : s[Len(f) + i] = t[i]
  BY <1>1 DEF Cat, t
<1> DEFINE r == SubSeq(s, Len(f) + 1, Len(f) + Len(m))
<1>3. Len(s) = Len(f) + Len(m) + Len(o)
  BY <1>1, <1>2
<1>4. /\ r \in Seq(D) /\ Len(r) = Len(m)
      /\ \A i \in 1..Len(m) : r[i] = s[Len(f) + i]
  BY <1>3
<1> HIDE DEF r
<1>5. \A i \in 1..Len(m) : i \in 1..Len(t) /\ r[i] = m[i]
  BY <1>1, <1>2, <1>4
<1>6. r = m
  BY <1>4, <1>5, SeqEqual
<1> QED
  BY <1>3, <1>6 DEF r

\* The path of the live shell, cut where its parts meet.
LEMMA ForemostParts ==
  ASSUME Kinds, NEW pre, Ahead(pre), Foremost(pre),
         NEW first \in Seq(Directories), first = IF site = NoSite THEN <<>> ELSE <<site>>
  PROVE  path = Cat(first, Cat(RemoveFirst(pre, site), RemoveFirst(startPath, site)))
<1>0. pre \in Seq(Directories) /\ startPath \in Seq(Directories)
  BY DEF Kinds, TypeOK, Ahead
<1>1. RemoveFirst(pre, site) \in Seq(Directories) /\ RemoveFirst(startPath, site) \in Seq(Directories)
      /\ Cat(pre, startPath) \in Seq(Directories)
  BY <1>0, RemoveFirstKind, CatKind
<1>2. CASE site = NoSite
  <2>1. ~Contains(pre, site) /\ ~Contains(startPath, site)
    BY <1>0, <1>2, ContainedKind, PathsAssumption
  <2>2. path = Cat(pre, startPath)
    BY <1>2 DEF Foremost
  <2>3. Cat(<<>>, Cat(pre, startPath)) = Cat(pre, startPath)
    BY <1>1, EmptyFacts
  <2>4. RemoveFirst(pre, site) = pre /\ RemoveFirst(startPath, site) = startPath
    BY <2>1, RemoveFirstAbsent
  <2> QED
    BY <1>2, <2>2, <2>3, <2>4
<1>3. CASE site # NoSite
  <2>1. site \in Directories /\ Contains(Wanted, site)
    BY <1>3, WantedHolds DEF Kinds
  <2>2. Contains(pre, site) <=> ~Contains(startPath, site)
    BY <2>1 DEF Ahead
  <2>3. path = Cat(<<site>>, RemoveFirst(Cat(pre, startPath), site))
    <3>1. CASE path = Cat(pre, startPath) /\ path[1] = site
      <4>1. Cat(pre, startPath) # <<>>
        <5>1. Contains(Cat(pre, startPath), site)
          BY <1>0, <2>2, CatContains
        <5> QED
          BY <5>1 DEF Contains
      <4> QED
        BY <1>1, <2>1, <3>1, <4>1, FrontStays
    <3> QED
      BY <1>3, <3>1 DEF Foremost
  <2>4. RemoveFirst(Cat(pre, startPath), site)
            = Cat(RemoveFirst(pre, site), RemoveFirst(startPath, site))
    <3>1. CASE Contains(pre, site)
      BY <1>0, <2>2, <3>1, RemoveFromCat, RemoveFirstAbsent
    <3>2. CASE ~Contains(pre, site)
      BY <1>0, <3>2, RemoveFromCat, RemoveFirstAbsent
    <3> QED
      BY <3>1, <3>2
  <2> QED
    BY <1>3, <2>3, <2>4
<1> QED
  BY <1>2, <1>3

LEMMA ForemostPrecedes ==
  ASSUME Kinds, at = "live" /\ ~pathTouched, NEW pre, Ahead(pre), Foremost(pre)
  PROVE  PrecedenceWhenLive
<1> DEFINE first == IF site = NoSite THEN <<>> ELSE <<site>>
           old == RemoveFirst(startPath, site)
           m == RemoveFirst(pre, site)
           n == Len(path) - Len(first) - Len(old)
           new == SubSeq(path, Len(first) + 1, Len(first) + n)
<1>0. /\ pre \in Seq(Directories) /\ startPath \in Seq(Directories)
      /\ path \in Seq(Directories) /\ Wanted \in Seq(Directories)
  BY WantedKind DEF Kinds, TypeOK, Ahead
<1>1. old \in Seq(Directories) /\ m \in Seq(Directories)
  BY <1>0, RemoveFirstKind
<1>2. first \in Seq(Directories)
  <2>1. site # NoSite => site \in Directories
    BY WantedHolds DEF Kinds
  <2> QED
    BY <2>1
<1>3. path = Cat(first, Cat(m, old))
  BY <1>2, ForemostParts
<1>4. \A d : Contains(m, d) <=> Contains(Wanted, d) /\ d # site /\ ~Contains(startPath, d)
  <2>1. Irreflexive(Lasting(Directories, Wanted)) /\ Sorted(pre, Lasting(Directories, Wanted))
    BY <1>0, LastingIrreflexive DEF Ahead
  <2>2. ~Contains(m, site)
    BY <1>0, <2>1, SortedRemove
  <2>3. \A d : d # site => (Contains(m, d) <=> Contains(pre, d))
    BY <1>0, RemoveFirstContains
  <2> HIDE DEF m
  <2> QED
    BY <2>2, <2>3 DEF Ahead
<1>5. Sorted(m, Lasting(Directories, Wanted))
  BY <1>0, SortedRemove DEF Ahead
<1> HIDE DEF m, old, first
<1>6. n = Len(m) /\ new = m
  <2> HIDE DEF n, new
  <2>1. /\ Len(path) - Len(first) - Len(old) = Len(m)
        /\ SubSeq(path, Len(first) + 1, Len(first) + Len(m)) = m
    BY <1>0, <1>1, <1>2, <1>3, Between
  <2>2. n = Len(m)
    BY <2>1 DEF n
  <2> QED
    BY <2>1, <2>2, Zenon DEF new
<1> HIDE DEF n, new
<1>7. path = first \o new \o old
  <2>1. path = Cat(Cat(first, m), old)
    BY <1>1, <1>2, <1>3, CatAssociative
  <2> QED
    BY <1>6, <2>1 DEF Cat
<1>8. ToSet(new) = ToSet(Wanted) \ ({site} \cup ToSet(startPath))
  <2>1. \A s \in Seq(Directories) : \A d : d \in ToSet(s) <=> Contains(s, d)
    BY DEF ToSet, Contains
  <2> QED
    BY <1>0, <1>1, <1>4, <1>6, <2>1
<1>9. ASSUME NEW i \in 1..n, NEW k \in 1..n, i < k
      PROVE  \E l \in DOMAIN Wanted : /\ Wanted[l] = new[k]
                                      /\ \A j \in l..Len(Wanted) : Wanted[j] # new[i]
  <2>1. <<m[i], m[k]>> \in Lasting(Directories, Wanted)
    BY <1>5, <1>6, <1>9 DEF Sorted
  <2>2. PICK l \in 1..Len(Wanted) : /\ Wanted[l] = m[k]
                                    /\ \A j \in l..Len(Wanted) : Wanted[j] # m[i]
    BY <2>1 DEF Lasting
  <2>3. l \in DOMAIN Wanted
    BY <1>0
  <2> QED
    BY <1>6, <2>2, <2>3
<1> QED
  BY <1>7, <1>8, <1>9, Zenon DEF PrecedenceWhenLive, n, new, first, old

\* In the live shell, for every configuration of libraries and every path the
\* start can find, the selected site-packages come first, then each library
\* directory that was not on the path, ordered by its last mention, then what
\* was there (_apply_paths and prioritize_site_packages).
THEOREM PrecedenceAlways == Spec => []PrecedenceWhenLive
<1>1. PathInv => PrecedenceWhenLive
  <2> SUFFICES ASSUME PathInv, at = "live" /\ ~pathTouched PROVE PrecedenceWhenLive
    BY DEF PrecedenceWhenLive
  <2>1. PICK pre : Ahead(pre) /\ Foremost(pre)
    BY DEF PathInv, Undisturbed
  <2> QED
    BY <2>1, ForemostPrecedes DEF PathInv
<1> QED
  BY <1>1, PathInit, PathStep, PTL DEF Spec

-----------------------------------------------------------------------------
(***************************************************************************)
(* What foreign code did is left alone.                                    *)
(***************************************************************************)
KeptOf(s, S) ==
    CHOOSE kept : kept = [n \in 0..Len(s) |->
                             IF n = 0 THEN <<>>
                             ELSE IF s[n] \in S THEN kept[n - 1]
                             ELSE Append(kept[n - 1], s[n])]

LEMMA WithoutIs ==
  ASSUME NEW s, NEW S
  PROVE  Without(s, S) = KeptOf(s, S)[Len(s)]
BY DEF Without, KeptOf

LEMMA KeptOfUnfolds ==
  ASSUME NEW s, NEW S, Len(s) \in Nat
  PROVE  /\ KeptOf(s, S)[0] = <<>>
         /\ \A n \in 0..Len(s) - 1 :
                KeptOf(s, S)[n + 1] = IF s[n + 1] \in S THEN KeptOf(s, S)[n]
                                      ELSE Append(KeptOf(s, S)[n], s[n + 1])
<1> DEFINE Round(x, n) == IF s[n] \in S THEN x ELSE Append(x, s[n])
           Is(f, m) == f = [n \in 0..m |-> IF n = 0 THEN <<>> ELSE Round(f[n - 1], n)]
           T == {m \in Nat : \E f : Is(f, m)}
<1> HIDE DEF Round
<1>1. 0 \in T
  <2>1. Is([n \in 0..0 |-> <<>>], 0)
    OBVIOUS
  <2> QED
    BY <2>1
<1>2. ASSUME NEW m \in T PROVE m + 1 \in T
  <2>1. PICK f : Is(f, m)
    OBVIOUS
  <2> DEFINE g == [n \in 0..m + 1 |-> IF n = m + 1 THEN Round(f[m], m + 1) ELSE f[n]]
  <2>2. Is(g, m + 1)
    <3>1. \A n \in 0..m : f[n] = IF n = 0 THEN <<>> ELSE Round(f[n - 1], n)
      BY <2>1
    <3>2. ASSUME NEW n \in 0..m + 1
          PROVE  g[n] = IF n = 0 THEN <<>> ELSE Round(g[n - 1], n)
      <4>1. CASE n = m + 1
        BY <4>1
      <4>2. CASE n # m + 1 /\ n # 0
        <5>1. n \in 0..m /\ n - 1 \in 0..m /\ n - 1 # m + 1
          BY <4>2
        <5>2. g[n] = f[n] /\ g[n - 1] = f[n - 1]
          BY <4>2, <5>1
        <5> QED
          BY <3>1, <4>2, <5>1, <5>2
      <4>3. CASE n = 0
        BY <3>1, <4>3
      <4> QED
        BY <4>1, <4>2, <4>3
    <3> QED
      BY <3>2
  <2> HIDE DEF g, Is
  <2> QED
    BY <2>2
<1>3. T = Nat
  <2> HIDE DEF T
  <2>1. T \in SUBSET Nat
    BY DEF T
  <2> QED
    BY <1>1, <1>2, <2>1, SetInduction
<1>4. \E f : Is(f, Len(s))
  BY <1>3
<1>5. Is(KeptOf(s, S), Len(s))
  BY <1>4 DEF KeptOf, Round
<1> DEFINE kept == KeptOf(s, S)
<1>6. \A n \in 0..Len(s) : kept[n] = IF n = 0 THEN <<>> ELSE Round(kept[n - 1], n)
  <2> HIDE DEF kept
  <2> QED
    BY <1>5 DEF kept
<1>7. kept[0] = <<>>
  BY <1>6
<1>8. ASSUME NEW n \in 0..Len(s) - 1 PROVE kept[n + 1] = Round(kept[n], n + 1)
  <2>1. n + 1 \in 0..Len(s) /\ n + 1 # 0 /\ (n + 1) - 1 = n
    OBVIOUS
  <2> QED
    BY <1>6, <2>1
<1> QED
  BY <1>7, <1>8 DEF Round

LEMMA KeptOfKind ==
  ASSUME NEW D, NEW s \in Seq(D), NEW S
  PROVE  /\ \A n \in 0..Len(s) : KeptOf(s, S)[n] \in Seq(D)
         /\ Without(s, S) \in Seq(D)
<1> DEFINE kept == KeptOf(s, S)
           T == {n \in Nat : n <= Len(s) => kept[n] \in Seq(D)}
<1>0. Len(s) \in Nat
  OBVIOUS
<1>1. /\ kept[0] = <<>>
      /\ \A n \in 0..Len(s) - 1 : kept[n + 1] = IF s[n + 1] \in S THEN kept[n]
                                                ELSE Append(kept[n], s[n + 1])
  BY <1>0, KeptOfUnfolds
<1> HIDE DEF kept
<1>2. 0 \in T
  BY <1>1, EmptyFacts
<1>3. ASSUME NEW n \in T PROVE n + 1 \in T
  <2> SUFFICES ASSUME n + 1 <= Len(s) PROVE kept[n + 1] \in Seq(D)
    OBVIOUS
  <2>1. n \in 0..Len(s) - 1 /\ n + 1 \in 1..Len(s) /\ kept[n] \in Seq(D)
    BY <1>0
  <2>2. s[n + 1] \in D
    BY <2>1
  <2>3. Append(kept[n], s[n + 1]) \in Seq(D)
    BY <2>1, <2>2
  <2> QED
    BY <1>1, <2>1, <2>3
<1>4. T = Nat
  <2> HIDE DEF T
  <2>1. T \in SUBSET Nat
    BY DEF T
  <2> QED
    BY <1>2, <1>3, <2>1, SetInduction
<1>5. \A n \in 0..Len(s) : kept[n] \in Seq(D)
  BY <1>0, <1>4
<1> QED
  BY <1>0, <1>5, WithoutIs DEF kept

\* As far as s goes, s and what follows it are the same.
LEMMA KeptOfFirst ==
  ASSUME NEW D, NEW s \in Seq(D), NEW t \in Seq(D), NEW S
  PROVE  KeptOf(Cat(s, t), S)[Len(s)] = Without(s, S)
<1> DEFINE u == Cat(s, t)
           all == KeptOf(u, S)
           kept == KeptOf(s, S)
           T == {n \in Nat : n <= Len(s) => all[n] = kept[n]}
<1>0. /\ Len(s) \in Nat /\ Len(u) \in Nat /\ Len(s) <= Len(u)
      /\ \A i \in 1..Len(s) : u[i] = s[i]
  BY DEF Cat
<1> HIDE DEF u
<1>1. /\ all[0] = <<>>
      /\ \A n \in 0..Len(u) - 1 : all[n + 1] = IF u[n + 1] \in S THEN all[n]
                                               ELSE Append(all[n], u[n + 1])
  BY <1>0, KeptOfUnfolds
<1>2. /\ kept[0] = <<>>
      /\ \A n \in 0..Len(s) - 1 : kept[n + 1] = IF s[n + 1] \in S THEN kept[n]
                                                ELSE Append(kept[n], s[n + 1])
  BY <1>0, KeptOfUnfolds
<1> HIDE DEF all, kept
<1>3. 0 \in T
  BY <1>1, <1>2
<1>4. ASSUME NEW n \in T PROVE n + 1 \in T
  <2> SUFFICES ASSUME n + 1 <= Len(s) PROVE all[n + 1] = kept[n + 1]
    OBVIOUS
  <2>1. /\ n \in 0..Len(s) - 1 /\ n \in 0..Len(u) - 1 /\ n + 1 \in 1..Len(s)
        /\ all[n] = kept[n]
    BY <1>0
  <2> QED
    BY <1>0, <1>1, <1>2, <2>1
<1>5. T = Nat
  <2> HIDE DEF T
  <2>1. T \in SUBSET Nat
    BY DEF T
  <2> QED
    BY <1>3, <1>4, <2>1, SetInduction
<1>6. all[Len(s)] = kept[Len(s)]
  BY <1>0, <1>5
<1> QED
  BY <1>6, WithoutIs DEF all, kept, u

LEMMA WithoutCat ==
  ASSUME NEW D, NEW s \in Seq(D), NEW t \in Seq(D), NEW S
  PROVE  Without(Cat(s, t), S) = Cat(Without(s, S), Without(t, S))
<1> DEFINE u == Cat(s, t)
           all == KeptOf(u, S)
           kept == KeptOf(t, S)
           ws == Without(s, S)
           T == {n \in Nat : n <= Len(t) => all[Len(s) + n] = Cat(ws, kept[n])}
<1>0. /\ Len(s) \in Nat /\ Len(t) \in Nat /\ Len(u) \in Nat
      /\ Len(u) = Len(s) + Len(t)
      /\ \A i \in 1..Len(t) : u[Len(s) + i] = t[i]
  BY DEF Cat
<1>1. /\ all[Len(s)] = ws /\ ws \in Seq(D)
      /\ \A n \in 0..Len(t) : kept[n] \in Seq(D)
  BY KeptOfFirst, KeptOfKind
<1> HIDE DEF u, ws
<1>2. /\ all[0] = <<>>
      /\ \A n \in 0..Len(u) - 1 : all[n + 1] = IF u[n + 1] \in S THEN all[n]
                                               ELSE Append(all[n], u[n + 1])
  BY <1>0, KeptOfUnfolds
<1>3. /\ kept[0] = <<>>
      /\ \A n \in 0..Len(t) - 1 : kept[n + 1] = IF t[n + 1] \in S THEN kept[n]
                                                ELSE Append(kept[n], t[n + 1])
  BY <1>0, KeptOfUnfolds
<1> HIDE DEF all, kept
<1>4. 0 \in T
  <2>1. Cat(ws, <<>>) = ws
    BY <1>1, EmptyFacts
  <2> QED
    BY <1>0, <1>1, <1>3, <2>1
<1>5. ASSUME NEW n \in T PROVE n + 1 \in T
  <2> SUFFICES ASSUME n + 1 <= Len(t) PROVE all[Len(s) + (n + 1)] = Cat(ws, kept[n + 1])
    OBVIOUS
  <2>1. /\ n \in 0..Len(t) - 1 /\ n \in 0..Len(t) /\ n + 1 \in 1..Len(t)
        /\ Len(s) + n \in 0..Len(u) - 1 /\ Len(s) + (n + 1) = (Len(s) + n) + 1
        /\ all[Len(s) + n] = Cat(ws, kept[n])
    BY <1>0
  <2>2. u[(Len(s) + n) + 1] = t[n + 1] /\ t[n + 1] \in D /\ kept[n] \in Seq(D)
    BY <1>0, <1>1, <2>1
  <2>3. all[Len(s) + (n + 1)] = IF t[n + 1] \in S THEN Cat(ws, kept[n])
                                ELSE Append(Cat(ws, kept[n]), t[n + 1])
    BY <1>2, <2>1, <2>2
  <2>4. ASSUME NEW k \in Seq(D), NEW d \in D
        PROVE  Append(Cat(ws, k), d) = Cat(ws, Append(k, d))
    <3>1. <<d>> \in Seq(D)
      OBVIOUS
    <3>2. PICK one \in Seq(D) : one = <<d>>
      BY <3>1
    <3>3. \A r \in Seq(D) : Append(r, d) = Cat(r, one)
      BY <3>2, AppendIsConcat DEF Cat
    <3>4. Cat(ws, k) \in Seq(D)
      BY <1>1, CatKind
    <3>5. Append(Cat(ws, k), d) = Cat(Cat(ws, k), one)
      BY <3>3, <3>4, Zenon
    <3>6. Append(k, d) = Cat(k, one)
      BY <3>3, Zenon
    <3>7. Cat(Cat(ws, k), one) = Cat(ws, Cat(k, one))
      BY <1>1, CatAssociative
    <3> QED
      BY <3>5, <3>6, <3>7, Zenon
  <2>5. Append(Cat(ws, kept[n]), t[n + 1]) = Cat(ws, Append(kept[n], t[n + 1]))
    BY <2>2, <2>4
  <2> QED
    BY <1>3, <2>1, <2>3, <2>5
<1>6. T = Nat
  <2> HIDE DEF T
  <2>1. T \in SUBSET Nat
    BY DEF T
  <2> QED
    BY <1>4, <1>5, <2>1, SetInduction
<1>7. all[Len(u)] = Cat(ws, kept[Len(t)])
  <2>1. Len(t) \in T
    BY <1>0, <1>6
  <2> HIDE <1>6
  <2> QED
    BY <1>0, <2>1
<1> QED
  BY <1>7, WithoutIs DEF all, kept, u, ws

\* An element of S makes no difference.
LEMMA WithoutAround ==
  ASSUME NEW D, NEW x \in Seq(D), NEW y \in Seq(D), NEW S, NEW d \in D, d \in S
  PROVE  Without(Around(x, d, y), S) = Without(Cat(x, y), S)
<1>1. <<d>> \in Seq(D) /\ Around(x, d, y) = Cat(Cat(x, <<d>>), y)
  BY AroundIsCat
<1>2. PICK one \in Seq(D) : one = <<d>>
  BY <1>1
<1>3. Without(one, S) = <<>>
  <2>1. Len(one) = 1 /\ one[1] = d
    BY <1>2
  <2>2. KeptOf(one, S)[0] = <<>> /\ KeptOf(one, S)[0 + 1] = KeptOf(one, S)[0]
    <3>1. 0 \in 0..Len(one) - 1 /\ 0 + 1 = 1 /\ Len(one) \in Nat
      BY <2>1
    <3> HIDE <1>2
    <3> QED
      BY <2>1, <3>1, KeptOfUnfolds
  <2>3. Without(one, S) = KeptOf(one, S)[Len(one)]
    BY WithoutIs
  <2> QED
    BY <2>1, <2>2, <2>3
<1>4. Cat(x, one) \in Seq(D) /\ Without(x, S) \in Seq(D)
  BY CatKind, KeptOfKind
<1>5. Without(Cat(x, one), S) = Without(x, S)
  BY <1>3, <1>4, WithoutCat, EmptyFacts
<1>6. Without(Cat(Cat(x, one), y), S) = Cat(Without(x, S), Without(y, S))
  BY <1>4, <1>5, WithoutCat
<1> QED
  BY <1>1, <1>2, <1>6, WithoutCat

LEMMA WithoutRemoved ==
  ASSUME NEW D, NEW s \in Seq(D), NEW S, NEW d \in S
  PROVE  Without(RemoveFirst(s, d), S) = Without(s, S)
<1>1. CASE Contains(s, d)
  <2>1. PICK x, y \in Seq(D) : s = Around(x, d, y) /\ ~Contains(x, d)
    BY <1>1, FirstSplits
  <2>2. d \in D
    BY <1>1, ContainedKind
  <2>3. RemoveFirst(s, d) = Cat(x, y)
    BY <2>1, <2>2, SplitFirst
  <2> QED
    BY <2>1, <2>2, <2>3, WithoutAround
<1> QED
  BY <1>1, RemoveFirstAbsent

\* A restore removes and inserts directories of the configuration only.
LEMMA RestoredPathKeeps ==
  ASSUME Kinds
  PROVE  Without(RestoredPath, ToSet(Wanted)) = Without(path, ToSet(Wanted))
<1> DEFINE W == ToSet(Wanted)
           S == {s \in Seq(Directories) : Without(s, W) = Without(path, W)}
           without == LeftOf(path, added)[Len(added)]
           others  == RemoveFirst(without, site)
<1> HIDE DEF W
<1>0. path \in Seq(Directories) /\ added \in Seq(Directories)
  BY DEF Kinds, TypeOK
<1>1. \A d : Contains(added, d) => d \in W
  BY WantedHolds DEF Kinds, W
<1>2. ASSUME NEW s \in S, NEW k \in 1..Len(added) PROVE RemoveFirst(s, added[k]) \in S
  <2>1. added[k] \in W
    BY <1>0, <1>1 DEF Contains
  <2>2. RemoveFirst(s, added[k]) \in Seq(Directories)
    BY RemoveFirstKind
  <2> QED
    BY <2>1, <2>2, WithoutRemoved
<1>3. without \in S
  <2> HIDE DEF S
  <2>1. path \in S
    BY <1>0 DEF S
  <2> QED
    BY <1>0, <1>2, <2>1, LeftOfStays
<1> HIDE DEF without
<1>4. CASE reordered = None
  BY <1>3, <1>4, RestoredPathIs DEF without, W
<1>5. CASE reordered # None
  <2>1. site \in Directories /\ site \in W
    BY <1>5, WantedHolds DEF Kinds, W
  <2>2. others \in Seq(Directories) /\ Without(others, W) = Without(path, W)
    BY <1>3, <2>1, RemoveFirstKind, WithoutRemoved
  <2> HIDE DEF others
  <2>3. AtMost(reordered, Len(others) + 1) \in 1..Len(others) + 1
    BY <1>5, <2>2 DEF AtMost, Kinds, TypeOK, None
  <2>4. PICK x, y \in Seq(Directories) :
            /\ others = Cat(x, y)
            /\ InsertAt(others, AtMost(reordered, Len(others) + 1), site) = Around(x, site, y)
    BY <2>1, <2>2, <2>3, InsertKind
  <2>5. Without(Around(x, site, y), W) = Without(Cat(x, y), W)
    BY <2>1, WithoutAround
  <2>6. RestoredPath = InsertAt(others, AtMost(reordered, Len(others) + 1), site)
    BY <1>5, RestoredPathIs, Zenon DEF without, others
  <2> QED
    BY <2>2, <2>4, <2>5, <2>6 DEF W
<1> QED
  BY <1>4, <1>5

LEMMA ForeignKeptStep ==
  ASSUME Kinds, [Next]_vars, at' \in {"failed", "closed"}
  PROVE  /\ Without(path', ToSet(Wanted)) = Without(path, ToSet(Wanted))
         /\ \A v \in Variables \ DOMAIN Configured : environ'[v] = environ[v]
<1>1. CASE UNCHANGED <<path, environ>>
  BY <1>1
<1>2. CASE Restore
  <2>1. environ' = RestoredEnviron /\ path' = RestoredPath
    BY <1>2 DEF Restore
  <2>2. \A v \in Variables \ DOMAIN Configured : environ'[v] = environ[v]
    BY <2>1 DEF RestoredEnviron, Kinds, TypeOK
  <2> QED
    BY <2>1, <2>2, RestoredPathKeeps
<1>3. Restore \/ UNCHANGED <<path, environ>>
  BY DEF Next, Provision, ApplyVariables, ApplyPaths, Preload, PreloadEscapes, BuildShell,
         BuildEscapes, Bind, Failure, Fail, Close, Touch, vars, Kinds, TypeOK
<1> QED
  BY <1>1, <1>2, <1>3

\* A failed start and a close leave alone what others did meanwhile: variables
\* that are not configured, and the entries of sys.path that the server did not
\* apply, which stay in the order foreign code left them in (restore).
THEOREM ForeignAlwaysKept == Spec => ForeignKept
<1>1. Kinds /\ [Next]_vars =>
          [at' \in {"failed", "closed"} =>
              /\ Without(path', ToSet(Wanted)) = Without(path, ToSet(Wanted))
              /\ \A v \in Variables \ DOMAIN Configured : environ'[v] = environ[v]]_vars
  BY ForeignKeptStep
<1> QED
  BY <1>1, KindsInit, KindsStep, PTL DEF Spec, ForeignKept
=============================================================================
