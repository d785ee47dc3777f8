\* A client is renamed and keeps its directory.
CONSTANTS
    c1 = c1
    c2 = c2
    c3 = c3
    d1 = d1
    d2 = d2
    d3 = d3
    api = api
    Clients = {c1, c2}
    Dirs = {d1}
    DirsFor <- SharedDirsFor
    Settings = {"s"}
    Loop = Loop
    Handlers = {api}
    All = All
    None = None
    Missing = Missing
    Empty = Empty
    MaxUpsets = 3
SPECIFICATION Spec
PROPERTY
    PendingIsUnknown
