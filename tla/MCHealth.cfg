\* Sleeps of four and five units, locks and passes of up to two together.
SPECIFICATION FairSpec
CONSTANTS
    PollIntervals = {0, 4}
    MaxBusy = 2
    MaxAge = 44
    MaxFailed = 8
    MaxUpsets = 2
    None = None
INVARIANTS
    TypeOK
    OkMeansRecent
    AlarmMeansFailures
PROPERTIES
    StatusFollows
CHECK_DEADLOCK FALSE
