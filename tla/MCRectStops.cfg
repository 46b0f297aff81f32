SPECIFICATION SpecRectStops
CONSTANTS
    blank = blank
    short = short
    long = long
    Text = {blank, short, long}
    Empty = blank
    Long = {long}
    Prefix = short
    None = None
    Glued = Glued
    Base <- MCBase
    BaseTerminated = FALSE
    NewlineByte <- MCOneByte
    HistoryLimit = 2
    Pastes <- MCPastes
    MaxLines = 3
    MaxEdits = 2
INVARIANT CleanShowsSaved
CHECK_DEADLOCK FALSE
