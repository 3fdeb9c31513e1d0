\* Embedders that fail, restarts at any point, and people who write during a rebuild.
\* The run may end: when nothing is free to be indexed the bounds stop it.
CONSTANTS
    ObjectIds = {o1, o2}
    Texts = {t1, t2}
    States = {"active", "archived", "deleted"}
    MaxPieces = 1
    MaxCount = 2
    MaxJobs = 2
    ChunkIds = {1, 2, 3}
    NoRebuild = NoRebuild
    NoAnn = NoAnn
    WorthFitting = FALSE
    Faults = {"embedder", "restart", "overlap"}
    Width = 5
    Height = 2
    MakeUp = 2
    MaxTokens = 10
    Sentences <- MCSentences
    MaxSentences = 4
    Hosts = {"compatible", "claude", "ollama"}
    Asks = {u1, u2}
    Wanted = 3
    Supplied = 3
    Limit = 2
    Replies <- MCReplies
    Captures = {x1, x2}
    Helpers = {h1, h2}
    Alike = {x1, x2}
    MaxNotices = 2
    MaxChanges = 2
    Entries <- MCEntries
    Disks <- MCDisks
    Limits = {1, 2, 5}
SPECIFICATION DocumentsSpec
SYMMETRY DocumentSymmetry
CHECK_DEADLOCK FALSE
INVARIANTS
    FilesAndPagesAreRead
    TextsAreCutWhole
    RepliesAreGrounded
    TextIndexIsTrue
    ErasedIsGone
PROPERTIES
    EnrichmentDefersToPeople
    DisagreementsAreTold
