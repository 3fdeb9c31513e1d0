\* People write while a rebuild waits for the embedder.
CONSTANTS
    ObjectIds = {o1, o2}
    Texts = {t1, t2}
    States = {"active", "archived", "deleted"}
    MaxPieces = 1
    MaxCount = 2
    MaxJobs = 2
    ChunkIds = {1, 2, 3}
    NoRebuild = NoRebuild
    NoAnn = NoAnn
    WorthFitting = FALSE
    Faults = {"overlap"}
SPECIFICATION Spec
SYMMETRY IndexSymmetry
CHECK_DEADLOCK FALSE
INVARIANT RebuildRestoresRetrieval
