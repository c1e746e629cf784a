\* A customer cancels an order; nobody else asks for anything.
SPECIFICATION MCSpec
CONSTANTS
    Users = {a, b}
    Paintings = {p}
    Giveaways = {g}
    Requests = {r1, r2}
    None = None
    MaxToggles = 2
    Statuses = {"SHIPPED", "CANCELLED"}
    Payments = {"PAID"}
    Waybills = {1}
    MaxOps = 2
CHECK_DEADLOCK FALSE
INVARIANT CancelIsConfirmed
