\* A capture, a recall and a warm-up over two exchanges of the client.
CONSTANTS
    insert = insert
    score = score
    warmup = warmup
    Calls = {insert, score, warmup}
    Method <- ToolMethod
    Timeout <- ToolTimeout
    CloseAfter = 2
    NoCall = none
    MaxGen = 3
\* After a panic nothing is left to do.
CHECK_DEADLOCK FALSE
SPECIFICATION Spec
INVARIANTS
    InjectedIsUsable
    BriefCallsAreDrained
    OnlyOverstayersPanic
