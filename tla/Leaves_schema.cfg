SPECIFICATION LeavesSpec
CONSTANTS
    Keyset = {k1, k2}
    Table = {t1, t2}
    Temporary = Temporary
    Handle = {h1, h2, h3, h4}
    Null = Null
    Caller = {"first", "second"}
    Byte = {"o", "p", "n", "m", "hole"}
    Hole = "hole"
    Contents <- MCContents
    Written <- MCWritten
    Absent = Absent
    Unmeasured = Unmeasured
    Document <- MCDocument
    Shown <- MCShown
    Amount <- MCAmount
    Block <- MCBlock
    Seed <- MCSeed
    NullString = Nothing
    Vectors <- MCVectors
    Instance = {"i1", "i2"}
    Result = {"r1", "r2"}
    Modulus = 4
    Text <- MCText
    Stoul <- MCStoul
    Thrown = Nothing
    Width <- MCWidth
    MaxWidth = 2
    Buffer <- MCBuffer
    MaxKeys = 5
    MaxLost = 1
    Dead = Nothing
    Nothing = Nothing
CHECK_DEADLOCK FALSE
INVARIANT
    AcceptedIsValid
