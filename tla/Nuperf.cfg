SPECIFICATION FairSpec
CONSTANTS
    Token <- MCToken
    Value <- MCValue
    Word <- MCWord
    Words <- MCWords
    Form <- MCForm
    CommandLine <- MCCommandLine
    Workspace <- MCWorkspace
    Empty = ""
    Unknown = Unknown
    None = None
CHECK_DEADLOCK FALSE
INVARIANTS
    TypeOK
    LongestCommand
    BuildAsAsked
    WorkspaceAsReported
    RunOrRefused
PROPERTIES
    DiskAsAsked
    Ends
