\* Everything that can go wrong on the way, payloads of one row of each kind, four
\* writes.  A push alone is an exchange that breaks after the push.
\* The run may end: nothing is left to write and no exchange need ever start.
CONSTANTS
    ObjectIds = {o1, o2}
    Texts = {t1, t2}
    States = {"active", "archived"}
    Facts = {f1}
    NoObject = NoObject
    About = {o1, o2, NoObject}
    Writes = {"edit", "state", "supersede"}
    Directions = {"both", "pull"}
    Faults = {"loss", "busy", "dry_run"}
    Limit = 1
    MaxClock = 4
SPECIFICATION Spec
SYMMETRY SyncSymmetry
CHECK_DEADLOCK FALSE
INVARIANTS
    HistoriesStayLocal
PROPERTIES
    SyncOnlyAdds
