SPECIFICATION Spec
CONSTANTS
    Character = {c1, c2, c3}
    Item = {i1, i2}
    MailId = {1, 2, 3}
    AuctionId = {1}
    InitialGold = 2
    MaxHandlers = 5
    BagSize = 1
    MaxBacklog = 1
    MaxOnline = 2
    NULL = NULL
    Postage = 1
    MailGold = {0, 1}
    Wrap = 4
    Prices = {1, 2}
    Deposit = 0
    CutFactor = 0
    GmLogTrade = TRUE
    TradeSlot = {s1, s2}
    NonTraded = s2
    TradeGold = {1}
SYMMETRY Symmetry
INVARIANTS
    TradersPaired
    SavedAsMade
    GoldConserved
    ItemInOnePlace
    CrashLosesNothing
    AcceptedAsShown
CHECK_DEADLOCK FALSE
