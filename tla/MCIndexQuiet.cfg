\* Every embedder answers and nobody writes during a rebuild: one object in pieces.
\* Clusters over up to four vectors, fitted on three, one list looked through of two.
\* The run may end: when nothing is free to be indexed the bounds stop it.
CONSTANTS
    ObjectIds = {o1}
    Texts = {t1, t2}
    States = {"active", "archived", "deleted"}
    MaxPieces = 2
    MaxCount = 2
    MaxJobs = 2
    ChunkIds = {1, 2, 3}
    NoRebuild = NoRebuild
    NoAnn = NoAnn
    WorthFitting = TRUE
    Faults = {}
    Vectors <- MCVectors
    Radius = 5
    Owners = {ow1, ow2}
    SampleSize = 3
    LeastToFit = 2
    LeastProbes = 1
    MaxEmbedded = 4
SPECIFICATION VectorSpec
SYMMETRY VectorSymmetry
CHECK_DEADLOCK FALSE
INVARIANTS
    VectorIndexIsTrue
    OnlyTheUnprobedIsMissed
