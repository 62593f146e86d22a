\* Two tabs, two clicks, one event from outside.
CONSTANTS
    deUSX = deUSX
    dtUSDY = dtUSDY
    sUSDC = sUSDC
    Collateral <- MCCollateral
    First = deUSX
    Second = dtUSDY
    Usdc = sUSDC
    Ltv <- MCLtv
    Threshold <- MCThreshold
    Quoted = 1
    Prices = {1, 2}
    StartWallet <- MCWallet
    StartLiquidity = 2
    StartPositions <- MCPositions
    Amounts = {1, 2}
    MaxClicks = 2
    MaxEvents = 1
    MaxTabs = 2
SPECIFICATION LendingSpec
INVARIANTS
    LendingTypeOK
    
    
CHECK_DEADLOCK FALSE
