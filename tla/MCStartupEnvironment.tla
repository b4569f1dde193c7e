----------------------- MODULE MCStartupEnvironment -----------------------
(***************************************************************************)
(* Small instance of StartupEnvironment: a selected directory that may be  *)
(* on the path already, at any place, and among the libraries as well.     *)
(***************************************************************************)
EXTENDS StartupEnvironment, TLC

CONSTANTS mode, user, on, own, lib, sys

MCConfigured == mode :> on
MCLibraryLists == {<<>>, <<lib, own>>, <<lib, own, lib>>, <<sys, lib>>}
MCStartPaths == {<<sys>>, <<sys, own>>, <<own, sys>>, <<lib, sys, own, sys, own>>}
=============================================================================
