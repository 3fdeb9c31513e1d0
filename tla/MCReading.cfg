\* Relations: two edges between two objects, up to two versions each, two
\* notes.  Context: three pages, one link, two writes,
\* disagreements of two confidences of which one is raised.
\* Access: one connection, one token, one session, every kind of route.
\* Every part may end: the bounds stop the model, not the program.
CONSTANTS
    ObjectIds = {o1, o2}
    Contents = {c1}
    Origins = {"user", "ai"}
    NoObject = NoObject
    MaxEvents = 2
    MaxClock = 2
    RelationIds = {r1, r2}
    Types = {"related_to"}
    Notes = {n1, n2}
    MaxEdgeVersions = 2
    Pages = {"p1", "p2", "p3"}
    NoPage = NoPage
    Standing <- MCStanding
    Chronicle <- MCChronicle
    MaxLinks = 1
    MaxOpens = 1
    Questions <- MCQuestions
    Queries <- MCQueries
    Anchors <- MCAnchors
    Findings <- MCFindings
    Budgets = {200, 3000}
    Opinions <- MCOpinions
    MaxRaised = 1
    MaxWrites = 2
    Requests = {q1}
    TokenIds = {1}
    TokenNames = {prog1}
    SessionKeys = {s1}
    Routes <- MCRoutes
    Lifetime = 1
    MaxInstant = 2
    FirstYear = 2022
    FirstWeekday = 6
    LastYear = 2025
    Todays <- MCTodays
    Menu <- MCMenu
    Stopwords = {"the"}
    PhraseTerms <- MCPhraseTerms
    Texts <- MCTexts
    MaxTyped = 2
    Titles <- MCTitles
    Letters = {"p", "x", " ", "."}
    MaxTypos = 2
SPECIFICATION ReadingSpec
SYMMETRY ReadingSymmetry
CHECK_DEADLOCK FALSE
INVARIANTS
    EdgesStand
    ActsAreEntitled
    DisagreementsAreWhole
    SupersededNeverLeads
    QueriesMeanWhatIsTyped
    DoublesAreAskedAbout
