\* Nothing is traded: MaxAmount and Endowment are zero, so that the
\* behaviours differ in keys, layouts and entries alone.
CONSTANTS
    Wallets = {w1, w2}
    Pool = Pool
    NoKey = NoKey
    MaxAmount = 0
    Networks = {civic}
    NoNetwork = NoNetwork
    Markets = {market}
    NoMarket = NoMarket
    Endowment = 0
SPECIFICATION FundedSpec
PROPERTIES
    EveryApplicantIsListed
