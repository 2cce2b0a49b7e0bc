SPECIFICATION Spec
CONSTANTS
    Text <- MCText
    Length <- MCLength
    DefaultArray = "nuperf_table"
    DefaultGuard = "NUPERF_TABLE"
    True = "true"
    One = "1"
    False = "false"
    Zero = "0"
    Given <- MCGiven
    HashResult <- MCHashResult
    Buffer <- MCBuffer
    MaxLength = 210
    Idle = Idle
INVARIANTS
    TypeOK
    OKMeansWhole
    HeaderSound
    OptionsRestorable
PROPERTY
    ImplementsSink
