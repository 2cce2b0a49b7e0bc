SPECIFICATION FairSpec
CONSTANTS
    Line <- MCLine
    Blank = "blank"
    Key <- MCKey
    KeyOf <- MCKeyOf
    Name = {"stdmeth", "stddef", "other", "nope"}
    Unset = Unset
    OptionKey = {"method.seed", "x.y"}
    OptionValue = {"1", "2"}
    Malformed = Malformed
    KnownMethod = {"stdmeth", "other"}
    KnownTarget = {"stddef"}
    KnownOption = {"method.seed"}
    Invocation <- MCInvocation
    Source <- MCReadable
    BadDocument = BadDocument
    Nothing = Nothing
    Damaged = Damaged
CHECK_DEADLOCK FALSE
INVARIANTS
    TypeOK
    NoHandleLeak
    CoreCallsAllowed
PROPERTY
    ImplementsCommand
    Returns
