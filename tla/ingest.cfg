SPECIFICATION Spec
CONSTANTS
    e1 = e1
    e2 = e2
    e3 = e3
    r1 = r1
    r2 = r2
    r3 = r3
    c1 = c1
    p1 = p1
    Worker = {w1, w2}
    Event = {e1, e2, e3}
    Comment = {e3}
    Flow = {r1, r2}
    Rule = {r1, r2, r3}
    Customer = {c1}
    Product = {p1}
    NoWorker = NoWorker
    NoEvent = NoEvent
    NoRule = NoRule
    NoProduct = NoProduct
    From <- SameSender
    OccurredAt <- Times
    Matches <- ByKind
    Priority <- Order
    ProductOf <- Sells
    Cooldown <- Waits
    MaxFaults = 1
    MaxEdits = 1
    MaxClock = 1
    LeaseOutlivesWork = FALSE
CHECK_DEADLOCK FALSE
SYMMETRY Workers
INVARIANTS
    OneRunPerEvent
    CooldownHolds
    WindowFromLatest
