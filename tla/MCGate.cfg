\* Two wallets, four changes, one fault; the byte the gate reads is not 1.
CONSTANTS
    root = root
    user = user
    Wallets <- MCWallets
    Nobody = Nobody
    Authority = root
    ByteIsOne = FALSE
    Blocked = Blocked
    Allowed = Allowed
    MaxChanges = 4
    MaxFaults = 1
SPECIFICATION GateFairSpec
INVARIANTS
    SessionIsEarned
PROPERTIES
    BlockedStaysBlocked
    ApprovedGetsIn
CHECK_DEADLOCK FALSE
