\* Two boot loops and one tool call on a configured host.
CONSTANTS
    Loops = {l1, l2}
    Calls = {c1}
    Attempts = {n1, n2}
    NoAttempt = nil
    Creds = {k1}
    NoCreds = none
    InitConfigs <- Ready
\* After a shutdown the process may be at rest.
CHECK_DEADLOCK FALSE
SPECIFICATION Spec
SYMMETRY Symmetry
CONSTRAINT Calm
INVARIANTS
    SingleDriver
    GateMatchesDriver
    ActiveMeansCoherent
    ConnectionsAreKept
PROPERTIES
    ImplementsGate
