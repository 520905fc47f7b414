\* The agent routes, one of them in each behaviour.
SPECIFICATION MCSpec
CONSTANTS
    Request <- Request3
    Token = {t1, t2, t3}
    Item = {i1, i2}
    Payment = {p1, p2}
    Key = {k1}
    NoPayment = NoPayment
    NoKey = NoKey
    Body <- Bodies
    Registered = {t1, t3}
    Executing = {t1}
    Scoped = {t1, t2, t3}
    Stocked = {i1}
    MaxSpend <- LifetimeCaps
    MaxDaily <- DailyCaps
    Worth <- MoreThanDeclared
    Days = 2
    t1 = t1
    t2 = t2
    t3 = t3
    i1 = i1
    i2 = i2
    p1 = p1
    p2 = p2
    k1 = k1
    Search <- Searches
    Wanted <- SearchWants
    Indexed <- Collection
    Offline <- OfflineProducts
    AnyCategory = any
    HasClient = TRUE
    Rates <- ExchangeRates
    Currency = {"USD", "PEN", "EUR"}
    NoUrl = NoUrl
    NoScore = NoScore
    Ranking <- Rankings
    Asked <- RankAsks
    Candidates <- CandidateLists
    RankedRow = {row1, row2}
    HasRepository = TRUE
    Shopper <- Shoppers
    ShopCall <- ShopCalls
    NoPool = NoPool
    Chatter <- Chatters
    ChatCall <- ChatCalls
    MaxRequests = 3
    Counter <- Counters
    Maximum <- Maxima
    MaxWallTime = 2
    Amount = {0, 1, 2}
    MaxClock = 3
    MaxUsage = 6
    food = food
    tool = tool
    any = any
    row1 = row1
    row2 = row2
    noRow = noRow
    session1 = session1
CHECK_DEADLOCK FALSE
INVARIANTS
    TypeOK
    DeclaredWithinCap
    PaymentsCounted
    PurchasedWasPaid
    RetryIsFree
    FallbackIsTrue
    OffersAreRanked
    StoredWhole
    PoolsHeld
    RefusalsAreTimed
    BudgetKept
PROPERTIES
    EveryCheckoutAnswered
    ApiCallsAnswered
