\* A deposit and a withdrawal, one event among others, one fault.
CONSTANTS
    Tabs <- MCTabs
    Main = "main"
    Amounts = {8}
    Enough = 9
    Grant = 8
    Cooldown = 1
    StartUsdc = 8
    StartAvailable = 4
    StartBorrowed = 4
    StartSupply = 6
    MaxPolls = 2
    MaxTicks = 1
    MaxEvents = 1
    MaxClicks = 2
    MaxFaults = 1
SPECIFICATION SavingsFairSpec
INVARIANTS
    
    GrantsAreSpaced
PROPERTIES
    PaysWhatWasAsked
    BalanceConverges
CHECK_DEADLOCK FALSE
