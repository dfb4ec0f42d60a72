SPECIFICATION Spec
CONSTANTS
    p1 = p1
    p2 = p2
    s1 = s1
    s2 = s2
    t1 = t1
    name = name
    short = short
    None = None
    Other = Other
    Pids = {p1, p2}
    Sessions = {s1, s2}
    Threads = {t1}
    NameOf <- Names
    ShortName <- Short
    Unstamped = {s2}
    Queries <- Asked
    MAX_AGENTS = 1
    RecordDelay = 0
    PsDelay = 1
    START_TOLERANCE_MILLIS = 1
    ReuseAfter = 2
    MaxTime = 1
    MaxChanges = 2
INVARIANTS TypeOK NoImpostor
PROPERTIES ImplementsDirectory
