--------------------------- MODULE MCShellRuntime ---------------------------
(***************************************************************************)
(* Small instances of ShellRuntime: a few requests, two callers of close.  *)
(***************************************************************************)
EXTENDS SerialOwnerRefinement, TLC

CONSTANTS r1, r2, r3, c1, c2

Symmetry == Permutations(Requests) \cup Permutations(Closers)
=============================================================================
