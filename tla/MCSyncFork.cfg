\* As MCSyncQuiet, with payloads that hold everything: both sides edit one object
\* (three texts, so that two people can give it different ones).
CONSTANTS
    ObjectIds = {o1}
    Texts = {t1, t2, t3}
    States = {"active"}
    Facts = {f1}
    NoObject = NoObject
    About = {NoObject}
    Writes = {"edit"}
    Directions = {"both"}
    Faults = {}
    Limit = 3
    MaxClock = 4
SPECIFICATION Spec
CHECK_DEADLOCK FALSE
PROPERTIES
    EditsAreNotLost
