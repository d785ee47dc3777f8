\* Two secrets, two attempts, failures of the network and of the server.
SPECIFICATION FairSpec
CONSTANTS
    a = a  b = b
    Names = {a, b}
    Versions = {1, 2}
    None = None
    MaxRetries = 2
    Body = 2
    MaxUpsets = 3
    MaxFails = 2
INVARIANTS
    TypeOK
PROPERTIES
    ImplementsRequest
    RequestEnds
CHECK_DEADLOCK FALSE
