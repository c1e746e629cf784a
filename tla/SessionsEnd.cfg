\* Refreshes of one cookie with crashes; changes and resets of the password; sign-ins with
\* Google: two requests, four workloads.
SPECIFICATION MCSpec
CONSTANTS
    tab1 = tab1 laptop = laptop r1 = r1 r2 = r2 p1 = p1 p2 = p2
    Tabs = {tab1}
    Browsers = {laptop}
    BrowserOf <- OneBrowser
    Requests = {r1, r2}
    Passwords = {p1, p2}
    None = None
    MaxTokens = 3
    MaxLinks = 1
    Operations = {"register", "login", "google", "boot", "renew", "forgot", "reset", "logout", "logoutAll", "endSession", "change", "expire", "crash", "deactivate"}
    Workloads <- SessionWork
CHECK_DEADLOCK FALSE
INVARIANTS
    ReplacedOnce
    OldSessionsEnd
PROPERTIES
    EndedStaysEnded
    RefreshesEnd
