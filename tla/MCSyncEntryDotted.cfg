\* The name of secret b has two dots in it.
CONSTANTS
    a = a
    b = b
    sep = sep
    tmp = tmp
    v1 = v1
    v2 = v2
    ro = ro
    rg = rg
    bad = bad
    None = None
    Names = {a, b}
    Files = {a, b, tmp}
    Filenames <- PlainNames
    Slashed = {}
    Dotted = {b}
    Temps = {tmp}
    Versions = {v1, v2}
    Attrs = {ro}
    BadAttrs = {}
    MaxUpsets = 1
SYMMETRY VersionSymmetry
SPECIFICATION Spec
INVARIANT
    SettledServesDottedNames
