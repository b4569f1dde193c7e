--------------------- MODULE MCEnvironmentProvisioning ---------------------
(***************************************************************************)
(* Small instance of EnvironmentProvisioning: a configuration with a       *)
(* requirement, one with two, the latter's in another order (equal         *)
(* packages, other metadata), and one without requirements.                *)
(***************************************************************************)
EXTENDS EnvironmentProvisioning, TLC

CONSTANTS p1, p2, one, both, reordered, none, polars, numpy

MCRequires ==
    one :> {polars} @@ both :> {polars, numpy} @@ reordered :> {polars, numpy} @@ none :> {}

\* An environment that an earlier server left, a directory of somebody else,
\* a link to an environment, a file, or nothing.
MCInitialTargets ==
    {Absent,
     [kind |-> "directory", metadata |-> one, site |-> TRUE, installed |-> {polars}],
     [kind |-> "directory", metadata |-> NoMetadata, site |-> TRUE, installed |-> {numpy}],
     [kind |-> "symlink", metadata |-> one, site |-> TRUE, installed |-> {polars}],
     [kind |-> "file", metadata |-> NoMetadata, site |-> FALSE, installed |-> {}]}
=============================================================================
