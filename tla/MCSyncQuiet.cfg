\* A reliable line and nobody writing while an exchange runs: four writes in all
\* (three texts, so that two people can differ), payloads of one row of each kind,
\* a fact about either object or about neither.
CONSTANTS
    ObjectIds = {o1, o2}
    Texts = {t1, t2, t3}
    States = {"active"}
    Facts = {f1}
    NoObject = NoObject
    About = {o1, o2, NoObject}
    Writes = {"edit"}
    Directions = {"both"}
    Faults = {}
    Limit = 1
    MaxClock = 4
SPECIFICATION FairSpec
INVARIANTS
    OnlyOvertakenFactsAreLost
    DivergenceIsRaised
PROPERTIES
    EverythingArrives
