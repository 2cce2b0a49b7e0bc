SPECIFICATION Spec
CONSTANTS
    MethodEntry = {m1, m2, m3}
    TargetEntry = {t1}
    Image = {lib1, lib2}
    Name = {"stdmeth", "stddef", "example", "other", "third"}
    BuiltinMethod = {"stdmeth"}
    BuiltinTarget = {"stddef"}
    ExportTable <- MCExportTable
    BuiltinImage = BuiltinImage
    NoEntry = NoEntry
    Skipped = Skipped
    Unstatable = Unstatable
    Broken = Broken
    Unusable = Unusable
CHECK_DEADLOCK FALSE
INVARIANTS
    TypeOK
    NoDanglingDescriptor
    OwnedOnce
    OneHandlePerPlugin
    InstalledPluginsListed
    DefaultsAreBuiltin
    OrderIrrelevantWithoutClash
