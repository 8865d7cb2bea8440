SPECIFICATION Spec
CONSTANTS
    Thread = {q1, q2}
    NoThread = NoThread
    Owner = {a, b}
    NoOwner = NoOwner
    Event = {e1, e2}
    NotesKeptPerLead = 2
    MaxNotes = 3
    Traffic <- MCTraffic
SYMMETRY Symmetric
INVARIANTS
    OffHolds
    AccountHolds
    NotesKept
    AckedIsQueued
PROPERTIES
    ClosedStays
