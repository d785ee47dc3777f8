\* Names of the secret, of the client and of the defaults, any of which may be
\* unknown at first, and any two upsets.
SPECIFICATION OwnershipSpec
CONSTANTS
    own = own
    client = client
    global = global
    Accounts = {own, client, global}
    Root = Root
    Self = Self
    Nil = Nil
    Confs <- MCConfs
    Secrets <- MCSecrets
    MaxUpsets = 2
INVARIANTS
    OwnershipTypeOK
    SettledIsJustified
