------------------------- MODULE MCOwnerOperations -------------------------
(***************************************************************************)
(* Small instances of OwnerOperations: two user names and one configured   *)
(* preload alias, two tools, two callables, two modules of which the       *)
(* second, when it is reloaded, binds over the configured alias.           *)
(***************************************************************************)
EXTENDS OwnerOperations, TLC

CONSTANTS f, g, lib, t1, t2, c1, c2, mLib, mOther, kInt, kStr, kAlias, kBad,
          sInt, sStr, gInt, gStr

MCDerive ==
    kInt   :> (gInt :> sInt @@ gStr :> sInt) @@
    kStr   :> (gInt :> sStr @@ gStr :> sStr) @@
    kAlias :> (gInt :> sInt @@ gStr :> sStr) @@
    kBad   :> (gInt :> Unsupported @@ gStr :> Unsupported)

MCDescriptions == {[text |-> "doc", truncated |-> FALSE]}
MCTwoDescriptions == MCDescriptions \cup {[text |-> "doc", truncated |-> TRUE]}
MCHome == lib :> mLib
MCBinding == mLib :> lib @@ mOther :> lib
MCReloadLists == {<<mLib>>, <<mOther, mLib>>}

Symmetry == UNION {Permutations(Callables), Permutations(Tools),
                   Permutations(Names \ ProtectedNames)}
=============================================================================
