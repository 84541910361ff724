SPECIFICATION FairSpec
CONSTANTS
    Instances = {a1, a2}
    None = None
    MaxHops = 1
    FrontlightPresent = TRUE
PROPERTIES
    WaitReturns
    UpdateIsPainted
    NavigationIsServed
