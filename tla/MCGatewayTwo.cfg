\* As MCGateway, with a second process on the same database (the CLI beside a
\* running server).
CONSTANTS
    ObjectIds = {o1, o2}
    Contents = {c1, c2}
    Origins = {"user", "source", "ai"}
    NoObject = NoObject
    MaxEvents = 3
    MaxClock = 1
    RelationIds = {r1}
    Types = {"related_to"}
    Notes = {n1, n2}
    MaxEdgeVersions = 2
    ProposalIds = {p1}
    Processes = {server, cli}
    Idle = Idle
SPECIFICATION Spec
CHECK_DEADLOCK FALSE
INVARIANTS
    AppliedIffAccepted
