SPECIFICATION Spec
CONSTANTS
    blank = blank
    short = short
    long = long
    Text = {blank, short, long}
    Empty = blank
    Long = {long}
    Prefix = short
    None = None
    Glued = Glued
    Base <- MCShortBase
    BaseTerminated = TRUE
    NewlineByte <- MCUtf16LE
    HistoryLimit = 2
    Pastes <- MCPastes
    MaxLines = 3
    MaxEdits = 2
INVARIANT SavedReopens
CHECK_DEADLOCK FALSE
