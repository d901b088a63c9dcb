\* Two activates of one process and its watcher.
CONSTANTS
    p1 = p1
    c1 = c1
    c2 = c2
    Procs = {p1}
    Calls = {c1, c2}
    Host <- Shared
    NoCall = nobody
    MaxErrors = 2
    MaxTicks = 3
    MaxComing = 2
\* When every process was killed nothing is left to happen.
CHECK_DEADLOCK FALSE
SPECIFICATION FairSpec
INVARIANTS
    NoRedundantLaunch
PROPERTIES
    ActivationEnds
    WatchedBootstrapCompletes
