SPECIFICATION PairSpec
CONSTANTS
    MethodEntry = {m1, m2}
    TargetEntry = {t1}
    Image = {a, b}
    Name = {"stdmeth", "stddef", "example", "other", "third"}
    BuiltinMethod = {"stdmeth"}
    BuiltinTarget = {"stddef"}
    ExportTable <- MCExportTable
    BuiltinImage = BuiltinImage
    NoEntry = NoEntry
    Skipped = Skipped
    Unstatable = Unstatable
    Broken = Broken
    Unusable = Unusable
CHECK_DEADLOCK FALSE
INVARIANT
    SameListing
