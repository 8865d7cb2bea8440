SPECIFICATION FairSpec
CONSTANTS
    Worker = {w1, w2}
    Feeds <- MCFeeds
    Hour = 3
    TTL = 4
    MaxStall = 1
    Quotes <- MCQuotes
INVARIANTS
    FreshOrStopped
    PriceIsRight
PROPERTIES
    FetchesSpaced
    RatesReturn
