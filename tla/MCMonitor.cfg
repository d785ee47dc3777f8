\* One client, and any two changes of the world.
SPECIFICATION MonitorFairSpec
CONSTANTS
    Clients = {a}
    MinSecretsCount = 1
    MinCertLifetime = 1
    Recipient = TRUE
    MaxFiles = 1
    MaxLife = 2
    Missing = Missing
    MaxChanges = 2
INVARIANTS
    MonitorTypeOK
    ReportIsSound
PROPERTY
    LastingShows
