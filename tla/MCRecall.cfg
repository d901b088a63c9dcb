\* One recall of two expansions, a capture, one change of deployment.
CONSTANTS
    a1 = a1
    a2 = a2
    b = b
    c = c
    x1 = x1
    g = g
    h = h
    none = none
    q = q
    e = e
    f = f
    Ids = {a1, a2, b, c, x1}
    Groups = {g, h}
    NoGroup = none
    Scale = 10
    Age <- Ages
    Wanted = {a1, a2, b, c}
    WantedStatus = {"accepted", "proposed", "unknown"}
    Recalls = {r1}
    Original = q
    Expansions <- TwoExpansions
    TopK = 2
    RoleLimits = {1, 2, 5}
    Sim <- Similarities
    Indexes <- TwoIndexes
    Coming <- Captured
    NotAsked = none
\* Every call is made once.
CHECK_DEADLOCK FALSE
SPECIFICATION FairSpec
INVARIANTS
    TypeOK
    RecordsAnsweredOnce
    ScoresAreGenuine
    BestAreAnswered
PROPERTIES
    AssembliesAreSound
    RecallReplies
