\* One operator, one wallet to list or to make an admin, two faults, and
\* one key pair more than the ledger, the file and what is adrift can name.
CONSTANTS
    Wallets = {deployer, w1}
    Pool = Pool
    NoKey = NoKey
    MaxAmount = 2
    Networks = {civic}
    NoNetwork = NoNetwork
    Markets = {market}
    NoMarket = NoMarket
    Endowment = 2
    Deployer = deployer
    MintKeys = {k1, k2, k3, k4, k5}
    NoMintKey = NoMintKey
    Amount = 1
    MaxFaults = 2
SPECIFICATION TSFairSpec
INVARIANTS
    TSTypeOK
PROPERTIES
    NoUnbackedWhileInDoubt
    DeploymentFileConverges
    RerunActivates
