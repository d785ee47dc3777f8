\* Two secrets without overrides, two versions, two owners, and a
\* temporary file; any three upsets.
CONSTANTS
    a = a
    b = b
    sep = sep
    tmp = tmp
    v1 = v1
    v2 = v2
    ro = ro
    rg = rg
    bad = bad
    None = None
    Names = {a, b}
    Files = {a, b, tmp}
    Filenames <- PlainNames
    Slashed = {}
    Dotted = {}
    Temps = {tmp}
    Versions = {v1, v2}
    Attrs = {ro, rg}
    BadAttrs = {}
    MaxUpsets = 3
SYMMETRY PlainSymmetry
SPECIFICATION Spec
INVARIANTS
    TypeOK
    Settled
    SettledNeedsNothing
PROPERTIES
    KeepsHeldSecrets
    InstallsOffered
    ImplementsMirror
