SPECIFICATION FairSpec
CONSTANTS
    NULL = NULL
    k1 = k1
    k2 = k2
    Threads = {t1, t2}
    Keys = {k1, k2}
    FirstKeys = {k1}
    Tokens <- SomeTokens
    Lifespan = 1
    Cooldown = 1
    Leeway = 1
    FetchTime = 1
    MaxTime = 3
    MaxRotations = 2
INVARIANTS TypeOK
PROPERTIES WithdrawnKeysExpire GoodTokensWork EveryRequestAnswered
CHECK_DEADLOCK FALSE
