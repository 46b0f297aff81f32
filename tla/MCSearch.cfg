CONSTANTS
    Analyses = {"a1", "a2"}
    Clients = {"c1", "c2"}
    MaxOps = 1
    MaxDoc = 2
    Growths <- MCGrowths
    Queries <- MCQueries
    Stride = 2
    Chunk = 2
    PrevChunk = 2
    Bins = 2
    MaxHits = 2
    MaxBytes <- MCMaxBytes
    Fills <- MCFills
    BatchLines = 2
    Ops = {"r1", "r2"}
    OpKinds = {"search", "snapshot"}

SPECIFICATION MSSpec

INVARIANTS
    IndexFollows
    MergesExact
    SearchesAgree
    RewritesFollowSearch
    PiecesMakeWhole
    CasesKeepText
    InputStays

PROPERTIES
    ServedIsLive
    AnalysesEnd

CHECK_DEADLOCK FALSE
