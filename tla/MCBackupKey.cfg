\* Two requests, and nothing goes wrong.
SPECIFICATION Spec
CONSTANTS
    v1 = v1
    v2 = v2
    long = long
    Names = {x, y}
    Versions = {v1, v2, long}
    SizeOf <- Sizes
    Requests = {r1, r2}
    None = None
    MaxKeys = 2
    MaxUpsets = 0
INVARIANT
    KeyFitsArchive
CHECK_DEADLOCK FALSE
