------------------------- MODULE MCDynamicRegistry -------------------------
(***************************************************************************)
(* Small instance of DynamicRegistry: three backing names, three tools     *)
(* beside a stable one, two callables, room for two registrations.         *)
(***************************************************************************)
EXTENDS DynamicRegistry, TLC

CONSTANTS f, g, h, t1, t2, t3, stable, c1, c2, kInt, kAlias, kBad,
          sInt, sStr, gInt, gStr

MCDerive ==
    kInt   :> (gInt :> sInt @@ gStr :> sInt) @@
    kAlias :> (gInt :> sInt @@ gStr :> sStr) @@
    kBad   :> (gInt :> Unsupported @@ gStr :> Unsupported)

\* A text at the limit that ends as cut texts do, a longer one cut to it, and
\* another text.
MCDescriptions ==
    {[text |-> "doc", truncated |-> FALSE], [text |-> "doc", truncated |-> TRUE],
     [text |-> "other", truncated |-> FALSE]}

Symmetry ==
    UNION {Permutations(Callables), Permutations(Tools \ StableTools),
           Permutations(Names \ ProtectedNames)}
=============================================================================
