\* One look-up fails once.
SPECIFICATION OwnershipSpec
CONSTANTS
    own = own
    client = client
    global = global
    Accounts = {own, client, global}
    Root = Root
    Self = Self
    Nil = Nil
    Confs <- MCConfs
    Secrets <- MCSecrets
    MaxUpsets = 1
INVARIANT
    OwnedAsConfigured
