\* Nothing fails but that the server is unwell once.
SPECIFICATION Spec
CONSTANTS
    a = a  b = b
    Names = {a, b}
    Versions = {1, 2}
    None = None
    MaxRetries = 2
    Body = 2
    MaxUpsets = 0
    MaxFails = 2
INVARIANT
    RetriedBatchIsWhole
CHECK_DEADLOCK FALSE
