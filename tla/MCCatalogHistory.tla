-------------------------- MODULE MCCatalogHistory --------------------------
(***************************************************************************)
(* Model checking of CatalogHistory, on the videos and events of           *)
(* MCVideoCatalog.                                                         *)
(***************************************************************************)
EXTENDS MCVideoCatalog, CatalogHistory
=============================================================================
