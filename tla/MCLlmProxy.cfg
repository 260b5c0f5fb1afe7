SPECIFICATION FairSpec
CONSTANTS
    A = A
    B = B
    a1 = a1
    b1 = b1
    high = high
    e1 = e1
    None = None
    Providers = {A, B}
    Models = {a1, b1}
    ProviderOf <- MCProviderOf
    InitialKeys <- MCInitialKeys
    Tiers = {high}
    DefaultTier = high
    Strategies <- MCStrategies
    Calls = {1, 2}
    Edits = {e1}
    MaxSwitches = 1
INVARIANT ProxyInv
INVARIANT StickyAnsweredChat
INVARIANT PoolsConfigured
PROPERTY CallsAnswered
CHECK_DEADLOCK FALSE
