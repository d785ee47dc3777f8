\* One answer other than 200, with attempts left.
SPECIFICATION Spec
CONSTANTS
    a = a  b = b
    Names = {a, b}
    Versions = {1, 2}
    None = None
    MaxRetries = 2
    Body = 2
    MaxUpsets = 0
    MaxFails = 2
INVARIANT
    RetriesNon200
CHECK_DEADLOCK FALSE
