\* Another process writes one file while keyrestore unpacks.
SPECIFICATION Spec
CONSTANTS
    Names = {x, y, dots}
    Refused = {dots}
    Versions = {v1, v2}
    None = None
    MaxUpsets = 1
PROPERTY
    NothingOverwritten
