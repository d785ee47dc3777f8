\* Three files, one of which cannot be written, and any three upsets.
SPECIFICATION Spec
CONSTANTS
    Names = {x, y, dots}
    Refused = {dots}
    Versions = {v1, v2}
    None = None
    MaxUpsets = 3
INVARIANTS
    TypeOK
    RestoredIsArchived
PROPERTY
    OverwritesOnlyRaces
