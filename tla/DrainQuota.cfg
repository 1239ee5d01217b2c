SPECIFICATION FairSpec
CONSTANTS
    Runs = {r1, r2}
    Window = 1
    MaxLatch = 1
    Backoff = 1
    Cap = 1
    Budget = 1
    HighBudget = 2
    TopBudget = 3
    Usages = {50, 80, 95}
    ExitAt = 55
    ForceAt = 85
    MaxTokens = 4
INVARIANTS QuotaIsHonest WindowBudget 
PROPERTIES QuotaComesBack
