\* Two requests, two files, three versions and any two upsets.
SPECIFICATION Spec
CONSTANTS
    v1 = v1
    v2 = v2
    long = long
    Names = {x, y}
    Versions = {v1, v2, long}
    SizeOf <- Sizes
    Requests = {r1, r2}
    None = None
    MaxKeys = 2
    MaxUpsets = 2
SYMMETRY Symmetry
INVARIANTS
    TypeOK
    EntriesWereThere
    UntouchedIsArchived
    AloneFits
CHECK_DEADLOCK FALSE
