\* Convergence once the environment has used up its two upsets, also next to
\* secrets whose mode does not parse.
CONSTANTS
    a = a
    b = b
    sep = sep
    tmp = tmp
    v1 = v1
    v2 = v2
    ro = ro
    rg = rg
    bad = bad
    None = None
    Names = {a, b}
    Files = {a, b, tmp}
    Filenames <- PlainNames
    Slashed = {}
    Dotted = {}
    Temps = {tmp}
    Versions = {v1, v2}
    Attrs = {ro, bad}
    BadAttrs = {bad}
    MaxUpsets = 2
SPECIFICATION FairSpec
PROPERTIES
    Converges
