----------------------------- MODULE MCCatalog ------------------------------
(***************************************************************************)
(* Small instances of PluginCatalog for TLC.                               *)
(***************************************************************************)
EXTENDS PluginCatalog
=============================================================================
