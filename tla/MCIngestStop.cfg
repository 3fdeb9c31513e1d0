\* One capture at a time that may be interrupted, a folder of two notes.
CONSTANTS
    Entries <- MCEntries
    Disks <- MCDisks
    Limits = {6}
    Spoken = {"talk"}
    Heard = {"heard"}
    PiecesOf <- MCPieces
    Budget = 2
    LeastOfPiece = 2
    Paces = {1, 3}
    Patience = 4
    Window = 2
    Mishaps = {"interruption"}
    Ingesters = {g1}
    MaxCaptures = 2
SPECIFICATION IngestSpec
CHECK_DEADLOCK FALSE
INVARIANT StoppingLosesNothing
