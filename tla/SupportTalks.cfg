\* What is said, read and handed over, two calls at a time, in four workloads; in one of them
\* statements fail and the process crashes.  In the end all messages are sent, and all sockets closed.
CHECK_DEADLOCK FALSE
SPECIFICATION MCSpec
CONSTANTS
    g1 = g1 g2 = g2 u1 = u1 s1 = s1 s2 = s2 c1 = c1 c2 = c2
    Guests = {g1, g2}
    Accounts = {u1}
    Admin = Admin
    None = None
    Sockets = {s1, s2}
    Calls = {c1, c2}
    MaxChats = 3
    MaxMessages = 3
    GuestIndex = TRUE
    Operations = {"message", "reply", "join", "open", "read", "claim", "leave", "fail", "crash"}
    Workloads <- ChatWork
INVARIANT Private
PROPERTY CallsEnd
