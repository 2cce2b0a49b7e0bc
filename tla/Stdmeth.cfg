SPECIFICATION Spec
CONSTANTS
    Instance = {i1, i2}
    Result = {r1}
    Modulus <- MCModulus
    Text <- MCText
    Strtol <- MCStrtol
    NoNumber = NoNumber
    Width <- MCWidth
    MaxWidth = 2
    Buffer <- MCBuffer
    MaxKeys = 2
    Time <- MCTime
    MaxLost = 1
    Dead = Dead
    Unasked = Unasked
    Idle = Idle
INVARIANTS
    TypeOK
    OptionsAsAsked
    HeapAccounted
PROPERTY
    ToldSizeSuffices
SYMMETRY
    MCSymmetry
