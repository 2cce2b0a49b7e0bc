---------------------------- MODULE MCLoaderPair ----------------------------
(***************************************************************************)
(* Two runs over the export tables of MCPluginLoader.                      *)
(***************************************************************************)
EXTENDS MCPluginLoader, LoaderPair

=============================================================================
