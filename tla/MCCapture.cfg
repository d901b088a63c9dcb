\* A batch of two items and a single capture, one reboot.
CONSTANTS
    c1 = c1
    c2 = c2
    x = x
    Calls = {c1, c2}
    Batch <- Repeated
    MaxGen = 2
\* Every call is made once.
CHECK_DEADLOCK FALSE
SPECIFICATION Spec
INVARIANTS
    ResultsMatchIndex
    DuplicatesOverlapOrDegraded
    QuietItemIsCoherent
PROPERTIES
    ImplementsPromise
