\* Secret a may be in another secret's file or carry an invalid file name.
CONSTANTS
    a = a
    b = b
    sep = sep
    tmp = tmp
    v1 = v1
    v2 = v2
    ro = ro
    rg = rg
    bad = bad
    None = None
    Names = {a, b}
    Files = {a, b, sep, tmp}
    Filenames <- OverrideNames
    Slashed = {sep}
    Dotted = {}
    Temps = {tmp}
    Versions = {v1, v2}
    Attrs = {ro}
    BadAttrs = {}
    MaxUpsets = 3
SYMMETRY VersionSymmetry
SPECIFICATION Spec
INVARIANTS
    PassInv
    SettledOwnNamed
    SettledNeedsNothing
PROPERTIES
    KeepsHeldSecrets
    PassGoesOn
    InstallsOffered
    ImplementsMirror
