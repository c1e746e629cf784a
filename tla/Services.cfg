\* The small services of the backend, one at a time.
SPECIFICATION MCSpec
CONSTANTS
    r1 = r1 r2 = r2 n1 = n1 n2 = n2 x1 = x1 x2 = x2
    u1 = u1 u2 = u2 c1 = c1 c2 = c2 p1 = p1
    Calls = {r1, r2}
    CACHE_TTL_MS = 5
    RETRY_BACKOFF_MS = 3
    DEFAULT_TIMEOUT_MS = 2
    MaxTime = 12
    MaxId = 2
    Names = {n1, n2}
    Texts = {x1, x2}
    Requests = {r1, r2}
    None = None
    Users = {u1, u2}
    Chats = {c1, c2}
    Bot = Bot
    MaxCodes = 2
    Ways = {r1, r2}
    Paintings = {p1}
    MaxAmount = 2
    MaxSignIns = 2
    Sockets = {r1, r2}
    SocketLimit = 2
    AddressLimit = 3
    WindowMs = 2
    Burst = 4
    MaxMoment = 5
SYMMETRY Symmetry
CHECK_DEADLOCK FALSE
INVARIANTS
    OneAtATime
    OneTimeCodes
    CartFollows
    FloodIsBounded
PROPERTY EditsStay
