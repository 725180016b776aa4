SPECIFICATION GatesSpec
CONSTANTS
    Requests = {"r1", "r2", "r3", "r4"}
    Keys = {"k1", "k2", "k3"}
    Payers = {"p1", "p2"}
    KeyOf <- MCKeyOf
    PayerOf <- MCPayerOf
    ValueOf <- MCValueOf
    ValidAfter <- MCValidAfter
    ValidBefore <- MCValidBefore
    MaxTimeout <- MCMaxTimeout
    Resolution = 2
    Ttl = 3
    TtlTicks = 6
    Grace = 1
    EntryLimit = 1
    WindowTicks = 4
    MaxRequests = 2
    MaxValue = 3
    BucketLimit = 1
    Horizon = 10
INVARIANTS
    GatesTypeOK
    EntriesCover
    WindowBudget
    CacheOutlivesAuthorization
PROPERTIES
    RetryIsFree
    RefusalIsDeserved
