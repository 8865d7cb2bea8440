SPECIFICATION FairSpec
CONSTANTS
    o1 = o1
    o2 = o2
    o3 = o3
    s1 = s1
    s2 = s2
    Op = {o1, o2, o3}
    Panel = {o1}
    NoOp = NoOp
    Down = Down
    Nothing = Nothing
    Menu <- MCMenu
    SiteOf <- MCSiteOf
    TargetOf <- MCTargetOf
    Site = {s1, s2}
    FirstSite = s1
    Release <- MCRelease
    SchemaOf <- MCSchemaOf
    Row = {x1}
    MaxCrashes = 1
    MaxResends = 1
    OperatorWaits = TRUE
INVARIANTS
    AtMostOnce
    NoOldCodeOnNewSchema
    NothingLost
    QuietIsClean
PROPERTIES
    EveryRequestEnds
