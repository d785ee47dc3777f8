\* A client is added to one file, then taken out of the other.
SPECIFICATION Spec
CONSTANTS
    NFiles = 2
    Clients = {a, b}
    Names = {key, cert}
    Dirs = {a, b, shared}
    Declared <- MCDeclared
    Key = key
    Cert = cert
    None = None
    Absent = Absent
    Garbled = Garbled
    MaxEdits = 2
INVARIANT
    OnlyDeconfigured
