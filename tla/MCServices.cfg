CONSTANTS
    Ops = {"r1"}
    OpKinds = {"artifact", "grep", "search", "sort", "action", "snapshot"}
    Batches <- MCBatches
    MaxLines = 3
    MaxId = 4
    MaxRev = 4
    MarkerLimit = 2
    MarkerHistory = 2
    SaveBatch = 1
    Updaters = {"u1", "u2"}
    Errands = {"update", "remove"}
    Orders = {"less", "greater"}
    Inputs <- MCInputs
    Tasks <- MCTasks
    Budget = 2
    FanIn = 2
    Runaway = 3
    Writers = {"w1", "w2"}
    Manners = {"replace", "create", "keep", "split"}
    Parts = 2
    MaxRuns = 2

SPECIFICATION SvSpec

INVARIANTS
    NothingLeft
    AnswerIsTrue
    BookmarksFollow
    InstalledWhole
    ResultExact
    NothingStranded
    PublishedWhole

PROPERTIES
    ExportIsOneView
    WorkersEnd

CHECK_DEADLOCK FALSE
