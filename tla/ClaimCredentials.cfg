\* Credentials are rotated while a boot is running.
CONSTANTS
    Loops = {l1, l2}
    Calls = {c1}
    Attempts = {n1, n2}
    NoAttempt = nil
    Creds = {k1, k2}
    NoCreds = none
    InitConfigs <- Ready
\* After a shutdown the process may be at rest.
CHECK_DEADLOCK FALSE
SPECIFICATION Spec
PROPERTY ReloadPicksUpCredentials
