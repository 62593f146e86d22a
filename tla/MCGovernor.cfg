\* Two wallets: whichever creates the pool is its root, and either can be an
\* admin, a holder, a liquidator or the key the authority is handed to.
CONSTANTS
    Wallets = {w1, w2}
    Pool = Pool
    NoKey = NoKey
    MaxAmount = 2
    Networks = {civic}
    NoNetwork = NoNetwork
    Markets = {market}
    NoMarket = NoMarket
    Endowment = 1
SPECIFICATION Spec
SYMMETRY Symmetry
INVARIANTS
    TypeOK
    PoolHoldsBothKeys
    CountMatchesEntries
PROPERTIES
    ListingIsFinal
    
    ClosedPoolIsQuiet
    
