SPECIFICATION Spec
CONSTANTS
    MethodEntry = {m1}
    TargetEntry = {t1}
    Image = {lib1}
    Name = {"stdmeth", "stddef", "example", "other", "third"}
    BuiltinMethod = {"stdmeth"}
    BuiltinTarget = {"stddef"}
    ExportTable <- MCExportTable
    BuiltinImage = BuiltinImage
    NoEntry = NoEntry
    Skipped = Skipped
    Unstatable = Unstatable
    Broken = Broken
    Unusable = Unusable
CHECK_DEADLOCK FALSE
INVARIANT
    BrokenPluginTolerated
