\* The services around the memory, one at a time.  Every part may end: the
\* bounds stop the model, not the program.
CONSTANTS
    KeyProcesses = {kp1, kp2}
    KeyProviders = {k1, k2}
    MaxVaults = 2
    Accounts = {a1}
    AuthProcesses = {ap1, ap2}
    SessionIds = {s1}
    MaxPasswords = 2
    SessionDays = 2
    MonthDays = 1
    MaxDay = 4
    Calls = {c1, c2}
    Ranking <- MCRanking
    Probed = {"x"}
    Cost <- MCCost
    Refused = {"y"}
    DailyLimit = 3
    LastDay = 1
    Nobody = Nobody
    Notes = {n1}
    Wordings = {w1, w2}
    Askers = {ask1, ask2}
    MaxCached = 1
    TtlDays = 0
    MaxAskDay = 1
    Paths = {f1, f2}
    MaxSaves = 2
    Pids = {1, 2}
    MaxStarts = 3
    MaxSilences = 1
    MaxStops = 1
    MaxSlowBeats = 1
    Stores = {here, there}
    Things = {t1, t2}
    Links = {r1}
    Quotes = {q1}
    MaxWritings = 3
    Notepads = {m1}
    Spellings = {"s1", "s2", "s3"}
    Canon <- MCCanon
    EntityTypes = {person}
    MaxEntities = 3
    MaxDeeds = 3
    Items = {i1, i2, i3}
    Callers = {g1, g2}
    MaxUnanswered = 2
    Entries <- MCEntries
    Disks <- MCDisks
    Limits = {1, 2, 5}
    Spoken = {"talk"}
    Heard = {"heard"}
    PiecesOf <- MCPieces
    Budget = 2
    LeastOfPiece = 2
    Paces = {1, 3}
    Patience = 4
    Window = 2
    Mishaps = {"failure", "interruption"}
    Ingesters = {j1, j2}
    MaxCaptures = 2
    Phrases = {ph1}
    Texts = {d1, d2, d3}
    Searches = {z1, z2}
    MinDocuments = 2
    MaxTurns = 4
SPECIFICATION ServicesSpec
CHECK_DEADLOCK FALSE
INVARIANTS
    LiveSessionsAreCurrent
    CeilingHoldsUpToConcurrency
    HealthEventsAlternate
    ServedAnswersAreCurrent
    SettledSavesAreCaptured
    ImportedMemoryIsWhole
    MergedEntitiesAreReplaced
    QueuedIsKeptUntilAnswered
    ClaimsAreProposedOnce
    ConceptsAreDecidedOnce
PROPERTIES
    KeysStayWithinReach
    OneWatcherInTheEnd
