\* One pass succeeds, the later ones fail.
SPECIFICATION Spec
CONSTANTS
    PollIntervals = {0, 4}
    MaxBusy = 2
    MaxAge = 44
    MaxFailed = 8
    MaxUpsets = 2
    None = None
INVARIANT
    ErrorIsKept
CHECK_DEADLOCK FALSE
