\* Two pools, so that one whitelisting can fail and the next succeed; two
\* requests and one reader of the whitelist at a time.
CONSTANTS
    PoolCount = 2
    Calls = {c1, c2}
    Gets = {g1}
    Nothing = Nothing
SPECIFICATION EdgeSpec
INVARIANTS
    ReportsAreTrue
PROPERTIES
    ApprovalIsRepaired
    CacheCatchesUp
