\* What runs in the browser, one part at a time.
SPECIFICATION MCSpec
CONSTANTS
    c1 = c1 c2 = c2 a1 = a1 a2 = a2 x1 = x1 x2 = x2
    Calls = {c1, c2}
    MaxWrites = 2
    Screens = {}
    Asked = {}
    Both = {a1, a2}
    Titles = {x1, x2}
    NoPart = NoPart
    INTERIOR_MIN = 2
    INTERIOR_MAX = 3
    MaxFailures = 1
    DAY_MS = 2
    Change = 2
    BEFORE = 0
    AFTER = 1
    SHORT = 1
    LONG = 2
    GROUP = 2
    Totals = {1}
    MaxRows = 2
    MaxNow = 4
    MaxChanges = 2
    OrderPrices = {1, 2}
    MaxMishaps = 1
    FILL = 4
    WHEEL_QUIET = 2
    IDLE_DECAY = 3
    VEIL = 1
    MaxEntries = 3
    FrameCount = 3
    RingWorks = 2
    MaxBuilds = 2
    MaxSent = 2
    MaxBefalls = 4
    Conversations = {1, 2}
    MaxHeard = 3
    MaxTurns = 3
SYMMETRY Symmetry
CHECK_DEADLOCK FALSE
INVARIANTS
    CopiesAreTrue
    RefusedForACause
    KeptUnderItsOwner
    FiguresAgree
    ChargedAsShown
    StartsWhereItShould
    CarriesTheScene
    AtRestShowsBest
    ReleasedInDestroy
    WithdrawalStops
    LandsUnderItsWriter
    OneConversation
    AgreesAtRest
PROPERTIES
    SavesWhatWasPicked
    TurnsAreMeant
