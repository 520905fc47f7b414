\* Two concurrent handlers, two intents, two quotes of one payer; or two requests on one
\* thread, with a store of approved quotes.
SPECIFICATION MCSpec
CONSTANTS
    Intent = {b1, b2}
    Quote <- TwoQuotes
    Principal <- TwoPrincipals
    Payer <- OnePayer
    Key = {c1, c2}
    Handler = {a1, a2}
    QuotePrincipal <- OwnerOf
    QuotePayer <- PaidFrom
    QuoteExpiry <- ExpiryOf
    MaxTtl = 1
    MaxTime = 2
    NoIntent = NoIntent
    NoQuote = NoQuote
    NoRow = NoRow
    NoAsk = NoAsk
    pr1 = pr1
    pr2 = pr2
    payer1 = payer1
    q1 = q1
    q2 = q2
    Run = {a1, a2}
    Message = {ask, blank, long}
    Blank = {blank}
    TooLong = {long}
    Signal <- Signals
    NoSignal = NoSignal
    Offer = {b1, b2}
    Results <- AtMostOne
    Wallet = {w1}
    NoPayer = NoPayer
    QuoteId = {c1, c2}
    NoQuoteId = NoQuoteId
    NoState = NoState
    Turns = 2
    HasStore = TRUE
CHECK_DEADLOCK FALSE
SYMMETRY Interchangeable
INVARIANTS
    TypeOK
    OneActivePayer
    ExpiredNeverPosted
    PostedAtMostOnce
    RecordsAgreeWithLedger
    SettledTogether
    KeyNamesOneIntent
    ThreadTypeOK
    SavedWasApproved
    AuthorizedIsSaved
    ApprovalIsOfThisTurn
    SearchedOnlyWhenConfident
PROPERTIES
    ImplementsSettlement
    PaidWithinApproval
