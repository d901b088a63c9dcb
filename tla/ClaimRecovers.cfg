\* A boot on the file a killed writer left.
CONSTANTS
    Loops = {l1}
    Calls = {}
    Attempts = {n1, n2}
    NoAttempt = nil
    Creds = {k1}
    NoCreds = none
    InitConfigs <- KilledWrite
\* After a shutdown the process may be at rest.
CHECK_DEADLOCK FALSE
SPECIFICATION FairSpec
PROPERTY TruncatedConfigRecovers
