------------------------ MODULE MCCatalogService ------------------------
(***************************************************************************)
(* Small instance of CatalogService.                                       *)
(***************************************************************************)
EXTENDS CatalogService, TLC
=============================================================================
