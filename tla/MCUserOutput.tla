--------------------------- MODULE MCUserOutput ---------------------------
(***************************************************************************)
(* Small instance of UserOutput and JsonTranslation: what an execution     *)
(* wrote and what it returned make up its response.  The heaps whose       *)
(* translation is checked have two containers of any kind, of which the    *)
(* first has up to three items and the second up to one, out of themselves *)
(* and of leaves.                                                          *)
(***************************************************************************)
EXTENDS UserOutput, TLC

CONSTANTS main, other

Inner == "inner"
Leaves == {"scalar", "longText", "nan", "opaque"}
Nodes == {Root, Inner} \cup Leaves
Shapes == {"mapping", "oddMapping", "list", "record"}
SeqUpTo(S, k) == UNION {[1 .. j -> S] : j \in 0 .. k}

MCHeaps ==
    {[n \in Nodes |-> IF n = Root THEN [kind |-> k, items |-> s]
                      ELSE IF n = Inner THEN [kind |-> j, items |-> q]
                      ELSE [kind |-> n, items |-> <<>>]] :
        k \in Shapes, s \in SeqUpTo(Nodes, 3),
        j \in Shapes, q \in SeqUpTo({Root, Inner, "scalar", "opaque"}, 1)}
=============================================================================
