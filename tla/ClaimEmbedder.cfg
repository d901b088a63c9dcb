\* A capture without a deadline, a recall with one, two Health calls, a restart.
CONSTANTS
    capture = capture
    recall = recall
    Calls = {capture, recall}
    Size <- Texts
    Timed = {recall}
    Checks = {h1, h2}
    Limit <- Limits
    NoCall = nobody
    MaxDaemon = 2
    MaxUptime = 1
\* Every call is made once.
CHECK_DEADLOCK FALSE
SPECIFICATION FairSpec
PROPERTY TimedCallsEnd
