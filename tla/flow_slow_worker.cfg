SPECIFICATION Spec
CONSTANTS
    f1 = f1
    f2 = f2
    a1 = a1
    a2 = a2
    s1 = s1
    l1 = l1
    l2 = l2
    Worker = {w1, w2}
    Flow = {f1, f2}
    Account = {a1}
    Source = {s1}
    Lead = {l1, l2}
    NoWorker = NoWorker
    NoFlow = NoFlow
    Program <- SendProgram
    AccountOf <- OneAccount
    SourceOf <- OneSource
    LeadOf <- OwnLead
    PublicReply = {}
    MaxAttempts = 2
    MaxCrashes = 0
    LeaseOutlivesWork = FALSE
INVARIANTS
    AtMostOneDelivery
