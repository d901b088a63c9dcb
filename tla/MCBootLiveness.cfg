\* One boot loop slot, no tool call, any config.json, fair goroutines, dependencies
\* that recover.
CONSTANTS
    Loops = {l1}
    Calls = {}
    Attempts = {n1, n2, n3, n4}
    NoAttempt = nil
    Creds = {k1}
    NoCreds = none
    InitConfigs <- AnyConfig
\* After a shutdown the process may be at rest.
CHECK_DEADLOCK FALSE
SPECIFICATION FairSpec
CONSTRAINT OneDoomed
PROPERTIES
    BootSettles
    ShutdownStopsBoot
