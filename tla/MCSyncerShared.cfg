\* Two clients share a directory, a third has one of its own.
CONSTANTS
    c1 = c1
    c2 = c2
    c3 = c3
    d1 = d1
    d2 = d2
    d3 = d3
    api = api
    Clients = {c1, c2, c3}
    Dirs = {d1, d2}
    DirsFor <- MixedDirsFor
    Settings = {"s"}
    Loop = Loop
    Handlers = {api}
    All = All
    None = None
    Missing = Missing
    Empty = Empty
    MaxUpsets = 3
SPECIFICATION Spec
INVARIANTS
    SyncerInv
    SuccessMeansAllShown
    SuccessMeansOneShown
PROPERTY
    KeepsLoadedClients
    MutexIsReleased
