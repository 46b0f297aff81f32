SPECIFICATION Spec
CONSTANTS
    blank = blank
    short = short
    long = long
    Text = {blank, short, long}
    Empty = blank
    Long = {long}
    Prefix = short
    None = None
    Glued = Glued
    Base <- MCBase
    BaseTerminated = FALSE
    NewlineByte <- MCOneByte
    HistoryLimit = 2
    Pastes <- MCPastes
    MaxLines = 3
    MaxEdits = 2
INVARIANTS
    WalksAgree
    EditsAreSplices
    SavedReopens
    RebaseFaithful
    CleanShowsSaved
    MarkersFaithful
PROPERTY HistoryRetraces
CHECK_DEADLOCK FALSE
