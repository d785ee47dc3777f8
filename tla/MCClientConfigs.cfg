\* Two files, two clients, any first state of the files and two edits.
SPECIFICATION FairSpec
CONSTANTS
    NFiles = 2
    Clients = {a, b}
    Names = {key, cert}
    Dirs = {a, b, shared}
    Declared <- MCDeclared
    Key = key
    Cert = cert
    None = None
    Absent = Absent
    Garbled = Garbled
    MaxEdits = 2
INVARIANTS
    TypeOK
    LoadMerges
    InPlaceIsKept
PROPERTY
    Converges
