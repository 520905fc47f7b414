\* What the progress view prints under a receipt.
SPECIFICATION MCSpec
CONSTANTS
    Account = {payer, other}
    NoAccount = NoAccount
    MaxCalls = 2
    Intent = {i1, i2}
    NoIntent = NoIntent
    Payer = payer
    Query <- Typed
    Blank = ""
    Product = {lamp, mug, mat}
    Matching <- Matches
    Sold = {mat}
    MaxPrice = 2
    MaxSearches = 3
    MaxQuantity = 2
    Item = {lamp, mug}
    MaxStreams = 3
    MaxBatches = 2
    MaxItems = 2
    Address = {payer, other}
    NoAddress = NoAddress
    MaxDisconnects = 2
    i1 = i1
    i2 = i2
    lamp = lamp
    mug = mug
    mat = mat
CHECK_DEADLOCK FALSE
INVARIANT
    PrintedIsPaid
