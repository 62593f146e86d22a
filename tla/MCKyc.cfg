\* Two wallets, one of them sanctioned, an officer who submits and registers, and
\* two mints whose tasks can end differently; two approvals and a restart.
CONSTANTS
    Wallets = {w1, w2}
    Customers = {}
    Officers = {officer}
    NoSub = NoSub
    NoWallet = NoWallet
    Mints = {m1, m2}
    Calls = {c1, c2}
    Sanctioned = {w2}
    MaxRestarts = 1
SPECIFICATION KycSpec
SYMMETRY Symmetry
CONSTRAINT OneTargetOneAdrift
INVARIANTS
    KycTypeOK
    OneWalletPerIdentity
    SanctionedIsNeverListed
    
    AuditReportIsComplete
PROPERTIES
    IdentityIsKept
