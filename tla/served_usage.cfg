SPECIFICATION ServedSpec
CONSTANTS
    plan = plan
    h1 = h1
    Runner = Runner
    Nobody = Nobody
    NoBlock = NoBlock
    NoRev = NoRev
    Providers <- OneProvider
    KindOf <- PlanOnly
    FetcherLists <- OneList
    Orders <- OneOrder
    Handlers <- OneHandler
    Usages = {1, 2}
    Failures = {"error"}
    RetryAfter = {2}
    Intervals = {1}
    MaxCalls = 1
    MaxClock = 2
    MaxCrashes = 1
    MaxSaveFailures = 1
    MaxLate = 1
INVARIANTS TypeOK OkMeansFresh LastGoodIsShown CooldownHonoured MirrorIsSaved
PROPERTIES HeadsAdvance
CHECK_DEADLOCK FALSE
