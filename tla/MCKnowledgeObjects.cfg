\* Two objects, two contents, three origins, updates until four events are logged.
\* Through the gateway: one edge, one proposal, one process, three events.
\* The run may end: the bounds stop the model, not the program.
CONSTANTS
    ObjectIds = {o1, o2}
    Contents = {c1, c2}
    NoObject = NoObject
    Origins = {"user", "source", "ai"}
    MaxEvents = 4
    MaxClock = 2
    RelationIds = {r1}
    Types = {"related_to"}
    Notes = {n1, n2}
    MaxEdgeVersions = 2
    ProposalIds = {p1}
    Processes = {server}
    Idle = Idle
SPECIFICATION RememberedSpec
SYMMETRY ObjectSymmetry
CHECK_DEADLOCK FALSE
INVARIANTS
    HumanWorkStands
    AppliedIffAccepted
    NothingIsOrphaned
    ObjectTypeOK
    HistoryMatchesHead
    SupersededByIsPresent
PROPERTIES
    PastIsSettled
    HistoryIsAppendOnly
