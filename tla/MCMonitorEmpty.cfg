\* No minimum is configured.
SPECIFICATION MonitorSpec
CONSTANTS
    Clients = {a}
    MinSecretsCount = 0
    MinCertLifetime = 1
    Recipient = TRUE
    MaxFiles = 1
    MaxLife = 2
    Missing = Missing
    MaxChanges = 1
INVARIANT
    EmptyIsReported
