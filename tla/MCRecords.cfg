\* Flat items and items of up to three phases, of which two are read.
CONSTANTS
    Items <- AnyItem
    RawTexts <- Texts
    Redacted <- Clean
    Slug <- Slugs
    PhaseNames <- Names
    Blank = {"", " "}
    Opening = {"plain", "quoted", "agreed", "insight"}
    Lengthy = {"plain", "quoted", "agreed"}
    Quoting = {"quoted"}
    Accepting = {"ok", "agreed", "quoted"}
    NotObject = other
    other = other
    MaxPhases = 2
\* Every item is handled once.
CHECK_DEADLOCK FALSE
SPECIFICATION Spec
INVARIANTS
    TypeOK
    ClaimsAreBacked
    GroupCanBeRecalled
    StoredSaysSomething
