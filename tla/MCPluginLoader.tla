---------------------------- MODULE MCPluginLoader ---------------------------
(***************************************************************************)
(* A small instance of PluginLoader: directories whose entries may lead to *)
(* the same image, and export tables chosen so that names clash with the   *)
(* built-in plugins, with each other, and between the two symbols.         *)
(***************************************************************************)
EXTENDS PluginLoader

\* An image that exports the given names for the given directory only.
Exports(k, plugin, descriptor) ==
    [s \in Symbol |-> IF s = <<k, "plugin">> THEN plugin
                      ELSE IF s = <<k, "descriptor">> THEN descriptor
                      ELSE Unusable]

MCExportTable ==
    { Exports("method", "example", Unusable),    \* METHODS.md
      Exports("method", Unusable, "example"),    \* stdmeth/BBHash
      Exports("method", "example", "other"),     \* falls back when it clashes
      Exports("method", "third", "other"),
      Exports("method", "stdmeth", "example"),   \* clashes with the default
      Exports("target", "example", "stddef"),    \* TARGETS.md
      Exports("target", Unusable, Unusable) }    \* a library of something else

=============================================================================
