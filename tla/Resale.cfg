\* Three orders of the same two unique works, nobody editing, one request per order at a time.
SPECIFICATION MCSpec
CONSTANTS
    Paintings = {1, 2}
    r1 = r1 r2 = r2 r3 = r3
    o1 = o1 o2 = o2 o3 = o3
    alice = alice guest = guest
    OrderIds = {o1, o2, o3}
    Users = {alice}
    Guests = {guest}
    Requests = {r1, r2}
    NoOne = NoOne
    Shelf <- OneOfEach
    MaxQty = 1
    MaxAmount = 2
    EditAmounts = {}
    Repeatable = {1}
    Providers = {"CARD_TRANSFER"}
    Statuses = {"CONFIRMED", "CANCELLED", "COMPLETED"}
    Payments = {"PAID"}
    Ops = {"cart", "checkout", "commission", "cancel", "status", "payment", "proof", "archive", "remove", "edit", "claim"}
    Workloads <- ResaleWork
CHECK_DEADLOCK FALSE
INVARIANT NothingSoldTwice
SYMMETRY Symmetry
