SPECIFICATION Spec
CONSTANTS
    Calls = {"c1", "c2"}
    Clusters = {"k1", "k2"}
    Providers = {"p1", "p2"}
    ProviderOf <- MCProviderOf
    MaxRequests = 2
INVARIANTS
    TypeOK
    TokensStayWithTheirCall
    LinesNameTheirCaller
PROPERTIES
    WhoAmIVouchesLive
    EveryToolCallAudited
CHECK_DEADLOCK FALSE
