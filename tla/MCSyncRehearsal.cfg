\* As MCSyncQuiet, with rehearsals (--dry-run) between exchanges.
CONSTANTS
    ObjectIds = {o1, o2}
    Texts = {t1, t2}
    States = {"active"}
    Facts = {f1}
    NoObject = NoObject
    About = {NoObject}
    Writes = {"edit"}
    Directions = {"both"}
    Faults = {"dry_run"}
    Limit = 3
    MaxClock = 4
SPECIFICATION Spec
CHECK_DEADLOCK FALSE
INVARIANTS
    MarkFollowsDelivery
