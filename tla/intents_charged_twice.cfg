\* Two intents of one quote; the property is expected to fail.
SPECIFICATION Spec
CONSTANTS
    Intent = {i1, i2}
    Quote <- OneQuote
    Principal <- OnePrincipal
    Payer <- OnePayer
    Key = {k1, k2}
    Handler = {h1, h2}
    QuotePrincipal <- OwnerOf
    QuotePayer <- PaidFrom
    QuoteExpiry <- ExpiryOf
    MaxTtl = 1
    MaxTime = 1
    NoIntent = NoIntent
    NoQuote = NoQuote
    NoRow = NoRow
    NoAsk = NoAsk
    pr1 = pr1
    pr2 = pr2
    payer1 = payer1
    q1 = q1
    q2 = q2
INVARIANTS
    ChargedOnce
