SPECIFICATION FairSpec
CONSTANTS
    plan = plan
    credit = credit
    h1 = h1
    h2 = h2
    Runner = Runner
    Nobody = Nobody
    NoBlock = NoBlock
    NoRev = NoRev
    Providers <- TwoProviders
    KindOf <- TwoKinds
    FetcherLists <- TwoLists
    Orders <- OneTwoOrder
    Handlers <- TwoHandlers
    Usages = {1}
    Failures = {}
    RetryAfter = {1}
    Intervals = {1}
    MaxCalls = 2
    MaxClock = 1
    MaxCrashes = 1
    MaxSaveFailures = 0
PROPERTIES PollCoversList PutIsReflected TimerLeadsToPoll PollEnds
CHECK_DEADLOCK FALSE
