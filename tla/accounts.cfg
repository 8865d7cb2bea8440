SPECIFICATION Spec
CONSTANTS
    f = f
    m = m
    n = n
    Thread = {q1, q2}
    User = {f, m, n}
    Founder = f
    Team = {m}
    Token = {t1, t2}
    Telegram = {g1}
    NoUser = NoUser
    NoToken = NoToken
    NoTelegram = NoTelegram
    Traffic <- MCTraffic
    MaxEra = 1
SYMMETRY Symmetric
INVARIANTS
    UsedOnce
    OneLiveToken
    SessionsEnd
    UnlinkHolds
    FounderStays
