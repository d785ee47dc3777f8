\* Two writers of one file and a reader who is not keysync's own user.
SPECIFICATION Spec
CONSTANTS
    w1 = w1  w2 = w2  keysync = keysync  app = app
    i1 = i1  i2 = i2  i3 = i3  i4 = i4  v1 = v1  v2 = v2
    Writers = {w1, w2}
    Users = {keysync, app}
    Self = keysync
    Inodes = {i1, i2, i3}
    Values = {v1}
    Infos <- MCInfos
    ChownFiles = TRUE
    Size = 2
    Filesystems = {"tmpfs", "ext"}
    Enforced = {"tmpfs"}
    None = None
    MaxUpsets = 1
SYMMETRY Symmetry
INVARIANTS
    TypeOK
    OnlyPermitted
    ReadsWhole
    NoStrayFiles
PROPERTIES
    ImplementsRegister
