\* Two processes, three captures at a time, log files of two lines; one call of the
\* tools and three Vault clients.
CONSTANTS
    p1 = p1
    p2 = p2
    w1 = w1
    w2 = w2
    w3 = w3
    Procs = {p1, p2}
    Writers = {w1, w2, w3}
    ProcOf <- Placement
    NoWriter = nobody
    DefaultLimit = 2
    MaxLimit = 3
    Files = {f1, f2, f3, f4, f5, f6, f7}
    NoFile = nofile
    MaxLines = 2
    Workloads <- MixedWork
    Reports = {r1}
    MaxClient = 3
\* All is logged and answered.
CHECK_DEADLOCK FALSE
SPECIFICATION FairReportSpec
INVARIANTS
    CutsCostOneNeighbour
    HistoryIsNewest
    BootLogIsBounded
    NewestLinesAreKept
    DiagnosisFits
    OkMeansChecked
    SickVaultIsReplaced
PROPERTIES
    CallsEnd
