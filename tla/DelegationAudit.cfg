SPECIFICATION Spec
CONSTANTS
    Calls = {"c1", "c2"}
    Clusters = {"k1", "k2"}
    Providers = {"p1", "p2"}
    ProviderOf <- MCProviderOf
    MaxRequests = 2
INVARIANT
    LinesCarryTheIdentity
CHECK_DEADLOCK FALSE
