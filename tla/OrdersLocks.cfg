\* Whole orders in pairs that wait for each other's rows, and requests beside them; crashes.
SPECIFICATION MCFairSpec
CONSTANTS
    Paintings = {1, 2}
    r1 = r1 r2 = r2 r3 = r3
    o1 = o1 o2 = o2 o3 = o3
    alice = alice guest = guest
    OrderIds = {o1, o2}
    Users = {alice}
    Guests = {guest}
    Requests = {r1, r2}
    NoOne = NoOne
    Shelf <- OneOfEach
    MaxQty = 1
    MaxAmount = 2
    EditAmounts = {}
    Repeatable = {1}
    Providers = {"CARD_TRANSFER"}
    Statuses = {"CONFIRMED", "CANCELLED", "COMPLETED"}
    Payments = {"PAID"}
    Ops = {"cart", "checkout", "commission", "cancel", "status", "payment", "proof", "archive", "remove", "edit", "claim"}
    Workloads <- LockWork
CHECK_DEADLOCK FALSE
PROPERTY RequestsFinish
