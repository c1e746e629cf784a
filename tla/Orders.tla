------------------------------- MODULE Orders -------------------------------
(***************************************************************************)
(* Orders, carts and stock: OrdersService with the parts of CartService    *)
(* and PaintingsService that touch the same rows.                          *)
(*                                                                         *)
(* Every HTTP request is a process (a member of Requests).  Between two    *)
(* awaits a handler runs without interruption, so one action is the code   *)
(* from one database or network answer to the next.  A handler that reads  *)
(* an order outside a transaction carries a private copy of the row in     *)
(* `entity' and saves it later.                                            *)
(*                                                                         *)
(* save() is TypeORM's: it reads the row again by a plain SELECT (`seen'), *)
(* and sends only the columns in which the entity differs from what that   *)
(* SELECT found - or an INSERT, when it found nothing.  Under REPEATABLE   *)
(* READ all plain SELECTs of one transaction answer from the view that the *)
(* first of them took, however long ago; a SELECT ... FOR UPDATE answers   *)
(* from the current row and takes no view.  checkout and restoreStock save *)
(* each painting before they lock the next, so the view they compare the   *)
(* later rows with is older than the row they changed, and a column whose  *)
(* new value is what the view shows is not written (Written, below).       *)
(*                                                                         *)
(* A locked row is written at once but seen by nobody before the end of    *)
(* the transaction: it stays in the private `buffer', until Commit applies *)
(* everything at once or a rollback drops it.                              *)
(***************************************************************************)
EXTENDS Integers, FiniteSets, Functions

CONSTANTS
    Paintings,   \* painting ids: numbers, because locks are taken in id order
    OrderIds,    \* the order ids that can be used up (bound)
    Users,       \* identities with an account
    Guests,      \* identities that are only a guest token
    Requests,    \* requests that can be in progress at once (bound)
    NoOne,       \* SQL NULL: no owner, no lock holder, no order
    Shelf,       \* the amount each painting starts with
    MaxQty,      \* largest quantity of one painting in a cart (bound)
    EditAmounts, \* what the admin may type as a painting's amount (bound)
    Repeatable,  \* paintings offered for commissions
    Providers,   \* payment providers offered at checkout
    Statuses,    \* the statuses an admin asks for (workload)
    Payments,    \* the payment statuses an admin asks for (workload)
    Ops          \* the operations that are offered (workload)

Buyers == Users \cup Guests

VARIABLES
    painting,  \* paintings table: amount and isAvailable
    cart,      \* cart_items table: quantity of each painting, 0 for no row
    order,     \* orders table with its order_items
    lock,      \* the request whose transaction holds each painting row
    request,   \* the in-memory state of each request
    history    \* no part of the program: what the properties make an exception of

vars == <<painting, cart, order, lock, request, history>>

-----------------------------------------------------------------------------
(* Rows *)

OrderStatus == {"PENDING", "CONFIRMED", "SHIPPED", "CANCELLED", "COMPLETED"}
PaymentStatus == {"PENDING", "PAID", "FAILED"}

ASSUME OrdersAssumption ==
    /\ Paintings \subseteq Nat
    /\ IsFiniteSet(Paintings)
    /\ IsFiniteSet(OrderIds)
    /\ Users \cap Guests = {}
    /\ NoOne \notin Buyers \cup OrderIds \cup Requests
    /\ Shelf \in [Paintings -> Nat]
    /\ MaxQty \in Nat \ {0}
    /\ EditAmounts \subseteq Nat
    /\ Repeatable \subseteq Paintings
    /\ Providers \subseteq {"CASH_ON_DELIVERY", "CARD_TRANSFER"}
    /\ Statuses \subseteq OrderStatus
    /\ Payments \subseteq PaymentStatus

Items == [Paintings -> 0 .. MaxQty]
NoItems == [p \in Paintings |-> 0]
InItems(items) == {p \in Paintings : items[p] > 0}

PaintingRow == [amount : Nat, isAvailable : BOOLEAN]

\* FREE is an id the auto-increment has not given out, REMOVED a deleted row.
OrderRow ==
    [status : OrderStatus \cup {"FREE", "REMOVED"},
     owner : Buyers \cup {NoOne},
     items : Items,
     isCommission : BOOLEAN,
     provider : Providers \cup {"ON_AGREEMENT"},
     payment : PaymentStatus,
     proof : BOOLEAN,
     tracking : BOOLEAN,
     isArchived : BOOLEAN]

Blank(status) ==
    [status |-> status, owner |-> NoOne, items |-> NoItems,
     isCommission |-> FALSE, provider |-> "ON_AGREEMENT",
     payment |-> "PENDING", proof |-> FALSE, tracking |-> FALSE,
     isArchived |-> FALSE]

Placed(who, items, provider, isCommission) ==
    [Blank("PENDING") EXCEPT !.owner = who, !.items = items,
                             !.provider = provider,
                             !.isCommission = isCommission]

IsRow(row) == row.status \in OrderStatus
Exists(o) == IsRow(order[o])

\* movesStock: a commission never took anything off the shelf.
movesStock(row) == ~row.isCommission

-----------------------------------------------------------------------------
(* Requests.                                                               *)
(*   op     the handler                                                    *)
(*   at     "idle", "upstream" (waiting for Nova Poshta or the image host),*)
(*          "txn" (in a transaction, or about to save), "edit" (an admin   *)
(*          has read a painting and is about to save it)                   *)
(*   move   what the transaction does to stock: "take", "give" or "none"   *)
(*   todo   the painting rows still to lock                                *)
(*   was    the status the handler read                                    *)
(*   viewed whether save(), or its transaction's view, has read the rows   *)
(*   seen   what it read of those the request will save                    *)
(*   skips  the locked rows of which a save left out a column it should    *)
(*          have written (no part of the program)                          *)

Operations ==
    {"checkout", "commission", "cancel", "status", "payment", "proof",
     "archive", "remove", "edit", "claim", "cart"}

NoBuffer == [p \in Paintings |-> [amount |-> 0, isAvailable |-> FALSE]]
NoView == [order |-> Blank("FREE"), painting |-> NoBuffer]

Request ==
    [op : Operations \cup {"none"},
     at : {"idle", "upstream", "txn", "edit"},
     order : OrderIds \cup {NoOne},
     entity : OrderRow,
     was : OrderStatus \cup {"FREE", "REMOVED"},
     move : {"take", "give", "none"},
     todo : SUBSET Paintings,
     buffer : [Paintings -> PaintingRow],
     viewed : BOOLEAN,
     seen : [order : OrderRow, painting : [Paintings -> PaintingRow]],
     skips : SUBSET Paintings]

Idle ==
    [op |-> "none", at |-> "idle", order |-> NoOne, entity |-> Blank("FREE"),
     was |-> "FREE", move |-> "none", todo |-> {}, buffer |-> NoBuffer,
     viewed |-> FALSE, seen |-> NoView, skips |-> {}]

IsIdle(r) == request[r].at = "idle"

\* A request at work on an order.
Busy(r) == request[r].at \in {"upstream", "txn"}

\* A request for an order: the entity it will save, and what it does to stock.
Begin(r, op, at, o, entity, move) ==
    /\ op \in Ops
    /\ IsIdle(r)
    /\ request' = [request EXCEPT ![r] =
            [op |-> op, at |-> at, order |-> o, entity |-> entity,
             was |-> order[o].status,
             move |-> IF movesStock(entity) THEN move ELSE "none",
             todo |-> IF movesStock(entity) /\ move # "none"
                      THEN InItems(entity.items) ELSE {},
             buffer |-> NoBuffer, viewed |-> FALSE, seen |-> NoView,
             skips |-> {}]]
    /\ UNCHANGED <<painting, cart, order, lock, history>>

\* The request is answered: its locks, its buffer and its copy are gone.
Finish(r) == request' = [request EXCEPT ![r] = Idle]
Unlocked(r) == [p \in Paintings |-> IF lock[p] = r THEN NoOne ELSE lock[p]]

-----------------------------------------------------------------------------
(* The cart: addItem, updateItem, removeItem and clearCart. *)

CartEdit(c, newCart) ==
    /\ "cart" \in Ops
    /\ cart' = [cart EXCEPT ![c] = newCart]
    /\ UNCHANGED <<painting, order, lock, request, history>>

AtMost(n, m) == IF n <= m THEN n ELSE m

AddItem(c, p) ==
    /\ painting[p].isAvailable
    /\ painting[p].amount > 0
    /\ cart[c][p] < MaxQty
    /\ CartEdit(c, [cart[c] EXCEPT ![p] = AtMost(@ + 1, painting[p].amount)])

UpdateItem(c, p, q) ==
    /\ cart[c][p] > 0
    /\ painting[p].isAvailable
    /\ q <= painting[p].amount
    /\ CartEdit(c, [cart[c] EXCEPT ![p] = q])

RemoveItem(c, p) ==
    /\ cart[c][p] > 0
    /\ CartEdit(c, [cart[c] EXCEPT ![p] = 0])

ClearCart(c) ==
    /\ cart[c] # NoItems
    /\ CartEdit(c, NoItems)

-----------------------------------------------------------------------------
(* Handlers, up to their first await *)

\* An id is taken from the auto-increment once.
Unused(o) ==
    /\ order[o].status = "FREE"
    /\ \A r \in Requests : request[r].order # o

checkout(r, c, o, provider) ==
    /\ Unused(o)
    /\ cart[c] # NoItems
    /\ Begin(r, "checkout", "upstream", o,
             Placed(c, cart[c], provider, FALSE), "take")

createCommission(r, c, o, p) ==
    /\ Unused(o)
    /\ p \in Repeatable
    /\ Begin(r, "commission", "txn", o,
             Placed(c, [NoItems EXCEPT ![p] = 1], "ON_AGREEMENT", TRUE), "none")

\* A customer's cancellation: the row is read, and judged, before the
\* transaction opens.
cancel(r, c, o) ==
    /\ Exists(o)
    /\ order[o].owner = c
    /\ order[o].status \notin {"CANCELLED", "COMPLETED", "SHIPPED"}
    /\ Begin(r, "cancel", "txn", o,
             [order[o] EXCEPT !.status = "CANCELLED"], "give")

\* Mutation of StockMove: a cancelled order is revived without its stock.
ReviveFree(old, new) ==
    IF old # "CANCELLED" /\ new = "CANCELLED" THEN "give" ELSE "none"

StockMove(old, new) ==
    IF old # "CANCELLED" /\ new = "CANCELLED" THEN "give"
    ELSE IF old = "CANCELLED" /\ new # "CANCELLED" THEN "take"
    ELSE "none"

\* Shipping also writes the waybill number down.
WithStatus(row, status) ==
    IF status = "SHIPPED"
    THEN [row EXCEPT !.status = status, !.tracking = TRUE]
    ELSE [row EXCEPT !.status = status]

updateStatusAdmin(r, o, status, ttn) ==
    /\ Exists(o)
    /\ order[o].status # status
    /\ status = "SHIPPED" => ttn
    /\ Begin(r, "status", "txn", o,
             WithStatus(order[o], status),
             StockMove(order[o].status, status))

updatePaymentStatusAdmin(r, o, payment) ==
    /\ Exists(o)
    /\ Begin(r, "payment", "txn", o,
             [order[o] EXCEPT !.payment = payment], "none")

uploadPaymentProof(r, c, o) ==
    /\ Exists(o)
    /\ order[o].owner = c
    /\ order[o].provider = "CARD_TRANSFER"
    /\ Begin(r, "proof", "upstream", o,
             [order[o] EXCEPT !.proof = TRUE], "none")

archiveAdmin(r, o) ==
    /\ order[o].status = "COMPLETED"
    /\ Begin(r, "archive", "txn", o,
             [order[o] EXCEPT !.isArchived = TRUE], "none")

removeAdmin(r, o) ==
    /\ order[o].status = "CANCELLED"
    /\ Begin(r, "remove", "txn", o,
             [order[o] EXCEPT !.status = "REMOVED"], "none")

\* PaintingsService.update.  A field the form leaves out is the empty set.
Given(field, default) ==
    IF field = {} THEN default ELSE CHOOSE value \in field : TRUE

\* Mutation of reconcileAvailability: the form is trusted.
TrustForm(amount, requested) == requested

reconcileAvailability(amount, requested) == amount > 0 /\ requested

Edited(p, amount, isAvailable) ==
    LET newAmount == Given(amount, painting[p].amount)
    IN  [amount |-> newAmount,
         isAvailable |-> reconcileAvailability(
                             newAmount,
                             Given(isAvailable, painting[p].isAvailable))]

update(r, p, amount, isAvailable) ==
    /\ "edit" \in Ops
    /\ IsIdle(r)
    /\ request' = [request EXCEPT ![r] =
            [Idle EXCEPT !.op = "edit", !.at = "edit", !.todo = {p},
                         !.buffer[p] = Edited(p, amount, isAvailable)]]
    /\ UNCHANGED <<painting, cart, order, lock, history>>

-----------------------------------------------------------------------------
(* Handlers, after an await *)

\* Nova Poshta prices the delivery, or the image host stores the screenshot.
UpstreamAnswers(r) ==
    /\ request[r].at = "upstream"
    /\ request' = [request EXCEPT ![r].at = "txn"]
    /\ UNCHANGED <<painting, cart, order, lock, history>>

\* ... or it is unreachable, or knows no such warehouse: the handler throws.
UpstreamFails(r) ==
    /\ request[r].at = "upstream"
    /\ Finish(r)
    /\ UNCHANGED <<painting, cart, order, lock, history>>

\* stockOrder: the row to lock next is the one with the smallest id.
stockOrder(todo) == CHOOSE p \in todo : \A q \in todo : p <= q

\* Mutation of AtLock: rows are locked in the order of the cart.
AnyOrder(r, p) == request[r].at = "txn" /\ p \in request[r].todo

AtLock(r, p) ==
    /\ request[r].at = "txn"
    /\ request[r].todo # {}
    /\ p = stockOrder(request[r].todo)

\* Mutation of Enough: the flag is checked, the amount is not.
OnSaleIsEnough(r, p) == request[r].op = "checkout" => painting[p].isAvailable

\* checkout also refuses what is not on sale; takeStockBack only counts.
Enough(r, p) ==
    /\ painting[p].amount >= request[r].entity.items[p]
    /\ request[r].op = "checkout" => painting[p].isAvailable

\* The two stock movements on a row read under its lock.
Taken(row, quantity) ==
    IF row.amount <= quantity
    THEN [amount |-> 0, isAvailable |-> FALSE]
    ELSE [row EXCEPT !.amount = @ - quantity]

Restored(row, quantity) ==
    [amount |-> row.amount + quantity, isAvailable |-> TRUE]

Moved(r, p) ==
    IF request[r].move = "take"
    THEN Taken(painting[p], request[r].entity.items[p])
    ELSE Restored(painting[p], request[r].entity.items[p])

\* A column that save() leaves as the table has it: its SELECT already showed
\* the new value.
Written(new, seen, current) == IF new = seen THEN current ELSE new

SavedPainting(new, seen, current) ==
    [amount |-> Written(new.amount, seen.amount, current.amount),
     isAvailable |-> Written(new.isAvailable, seen.isAvailable, current.isAvailable)]

\* The rows a plain SELECT answers from, of those the request will save.
View(r) ==
    [order |-> IF request[r].order = NoOne THEN Blank("FREE")
               ELSE order[request[r].order],
     painting |-> [p \in Paintings |->
            IF p \in request[r].todo THEN painting[p] ELSE NoBuffer[p]]]

\* checkout and restoreStock save each row before they lock the next: the
\* first save takes the view.  takeStockBack saves when it holds every lock,
\* so its view is not older than its rows.
SavesAsItLocks(r) == request[r].op = "checkout" \/ request[r].move = "give"

ViewAtSave(r) == IF request[r].viewed THEN request[r].seen ELSE View(r)

LockRow(r, p) ==
    LET new == Moved(r, p)
        saved == IF SavesAsItLocks(r)
                 THEN SavedPainting(new, ViewAtSave(r).painting[p], painting[p])
                 ELSE new
    IN  /\ AtLock(r, p)
        /\ lock[p] = NoOne
        /\ request[r].move = "take" => Enough(r, p)
        /\ lock' = [lock EXCEPT ![p] = r]
        /\ request' = [request EXCEPT ![r] =
                [request[r] EXCEPT
                    !.todo = @ \ {p},
                    !.buffer[p] = saved,
                    !.viewed = SavesAsItLocks(r),
                    !.seen = IF SavesAsItLocks(r) THEN ViewAtSave(r) ELSE @,
                    !.skips = IF saved = new THEN @ ELSE @ \cup {p}]]
        /\ UNCHANGED <<painting, cart, order, history>>

\* The row, once locked, does not have enough: everything is rolled back.
Refuse(r, p) ==
    /\ AtLock(r, p)
    /\ lock[p] = NoOne
    /\ request[r].move = "take" /\ ~Enough(r, p)
    /\ lock' = Unlocked(r)
    /\ Finish(r)
    /\ UNCHANGED <<painting, cart, order, history>>

\* save() reads the row it will compare with, unless a view is there already.
\* (A row that is new has no id to read it by: the step then does nothing.)
Look(r) ==
    /\ \/ request[r].at = "txn" /\ request[r].todo = {}
       \/ request[r].at = "edit"
    /\ ~request[r].viewed
    /\ request' = [request EXCEPT ![r] =
            [request[r] EXCEPT !.viewed = TRUE, !.seen = View(r)]]
    /\ UNCHANGED <<painting, cart, order, lock, history>>

SavedOrder(new, seen, current) ==
    [status |-> Written(new.status, seen.status, current.status),
     owner |-> Written(new.owner, seen.owner, current.owner),
     items |-> Written(new.items, seen.items, current.items),
     isCommission |-> Written(new.isCommission, seen.isCommission, current.isCommission),
     provider |-> Written(new.provider, seen.provider, current.provider),
     payment |-> Written(new.payment, seen.payment, current.payment),
     proof |-> Written(new.proof, seen.proof, current.proof),
     tracking |-> Written(new.tracking, seen.tracking, current.tracking),
     isArchived |-> Written(new.isArchived, seen.isArchived, current.isArchived)]

\* save() found no row by that id, so it is new - or it has been removed.
Inserts(r) == request[r].op # "remove" /\ ~IsRow(request[r].seen.order)

\* What the DELETE, the INSERT or the UPDATE of a request makes of its order.
OrderAfter(r) ==
    LET current == order[request[r].order]
        entity == request[r].entity
    IN  IF request[r].op = "remove" THEN [current EXCEPT !.status = "REMOVED"]
        ELSE IF Inserts(r) THEN entity
        ELSE IF IsRow(current) THEN SavedOrder(entity, request[r].seen.order, current)
        ELSE current

\* Nothing is left to do but to write and to commit.
AtEnd(r) ==
    /\ request[r].at = "txn"
    /\ request[r].todo = {}
    /\ request[r].viewed

\* A status that was decided over one the row no longer has, or that does not
\* reach the row: requests for one order have crossed.
Crosses(r) ==
    \/ order[request[r].order].status # request[r].was
    \/ OrderAfter(r).status # request[r].entity.status

\* The end of the transaction; for a handler that moves no stock, its save().
Commit(r) ==
    /\ AtEnd(r)
    /\ Inserts(r) => ~Exists(request[r].order)
    /\ painting' = [p \in Paintings |->
            IF lock[p] = r THEN request[r].buffer[p] ELSE painting[p]]
    /\ order' = [order EXCEPT ![request[r].order] = OrderAfter(r)]
    /\ cart' = IF request[r].op = "checkout"
               THEN [cart EXCEPT ![request[r].entity.owner] = NoItems]
               ELSE cart
    /\ lock' = Unlocked(r)
    /\ history' = [history EXCEPT
            !.skipped = @ \cup request[r].skips,
            !.crossed = IF Crosses(r) THEN @ \cup {request[r].order} ELSE @]
    /\ Finish(r)

\* A removed order that two saves put back: the second INSERT finds the id
\* taken, and everything is rolled back.
DuplicateKey(r) ==
    /\ AtEnd(r)
    /\ Inserts(r)
    /\ Exists(request[r].order)
    /\ lock' = Unlocked(r)
    /\ Finish(r)
    /\ UNCHANGED <<painting, cart, order, history>>

\* The UPDATE of an edited painting, if there is something to write, waits for
\* the row's lock like any other.
SaveEdit(r, p) ==
    LET new == request[r].buffer[p]
        seen == request[r].seen.painting[p]
        saved == SavedPainting(new, seen, painting[p])
    IN  /\ request[r].at = "edit"
        /\ request[r].viewed
        /\ p \in request[r].todo
        /\ new # seen => lock[p] = NoOne
        /\ painting' = [painting EXCEPT ![p] = saved]
        /\ history' = [history EXCEPT
                !.edited = IF saved.amount = painting[p].amount THEN @ ELSE @ \cup {p},
                !.skipped = IF saved \in {new, painting[p]} THEN @
                            ELSE @ \cup {p}]
        /\ Finish(r)
        /\ UNCHANGED <<cart, order, lock>>

\* claimGuestOrders is one UPDATE statement.
claimGuestOrders(u, g) ==
    /\ "claim" \in Ops
    /\ \E o \in OrderIds : Exists(o) /\ order[o].owner = g
    /\ order' = [o \in OrderIds |->
            IF Exists(o) /\ order[o].owner = g THEN [order[o] EXCEPT !.owner = u]
            ELSE order[o]]
    /\ UNCHANGED <<painting, cart, lock, request, history>>

\* The process dies: requests are lost, open transactions are rolled back.
Crash ==
    /\ \E r \in Requests : ~IsIdle(r)
    /\ lock' = [p \in Paintings |-> NoOne]
    /\ request' = [r \in Requests |-> Idle]
    /\ UNCHANGED <<painting, cart, order, history>>

-----------------------------------------------------------------------------
(* Specification *)

Init ==
    /\ painting = [p \in Paintings |->
            [amount |-> Shelf[p], isAvailable |-> Shelf[p] > 0]]
    /\ cart = [c \in Buyers |-> NoItems]
    /\ order = [o \in OrderIds |-> Blank("FREE")]
    /\ lock = [p \in Paintings |-> NoOne]
    /\ request = [r \in Requests |-> Idle]
    /\ history = [skipped |-> {}, edited |-> {}, crossed |-> {}]

CartStep ==
    \E c \in Buyers :
        \/ ClearCart(c)
        \/ \E p \in Paintings :
            \/ AddItem(c, p)
            \/ RemoveItem(c, p)
            \/ \E q \in 1 .. MaxQty : UpdateItem(c, p, q)

Start(r) ==
    \/ \E o \in OrderIds, c \in Buyers :
        \/ \E provider \in Providers : checkout(r, c, o, provider)
        \/ \E p \in Paintings : createCommission(r, c, o, p)
        \/ cancel(r, c, o)
        \/ uploadPaymentProof(r, c, o)
    \/ \E o \in OrderIds :
        \/ \E status \in Statuses, ttn \in BOOLEAN :
              updateStatusAdmin(r, o, status, ttn)
        \/ \E payment \in Payments : updatePaymentStatusAdmin(r, o, payment)
        \/ archiveAdmin(r, o)
        \/ removeAdmin(r, o)
    \/ \E p \in Paintings,
          amount \in {{}} \cup {{n} : n \in EditAmounts},
          isAvailable \in {{}, {TRUE}, {FALSE}} :
              update(r, p, amount, isAvailable)

Continue(r) ==
    \/ UpstreamAnswers(r)
    \/ UpstreamFails(r)
    \/ \E p \in Paintings : LockRow(r, p) \/ Refuse(r, p) \/ SaveEdit(r, p)
    \/ Look(r)
    \/ Commit(r)
    \/ DuplicateKey(r)

Next ==
    \/ CartStep
    \/ \E r \in Requests : Start(r) \/ Continue(r)
    \/ \E u \in Users, g \in Guests : claimGuestOrders(u, g)
    \/ Crash

Spec == Init /\ [][Next]_vars

\* A lock wait ends: InnoDB grants a row lock in the order it was asked for,
\* so a step that is enabled again and again is eventually taken.
Fairness ==
    \A r \in Requests :
        /\ WF_vars(UpstreamAnswers(r) \/ UpstreamFails(r))
        /\ SF_vars(\E p \in Paintings : LockRow(r, p) \/ Refuse(r, p))
        /\ SF_vars(\E p \in Paintings : SaveEdit(r, p))
        /\ WF_vars(Look(r))
        /\ WF_vars(Commit(r) \/ DuplicateKey(r))

FairSpec == Spec /\ Fairness

-----------------------------------------------------------------------------
(* Properties *)

\* The rows, the locks and the requests have the shapes given above, and every
\* transaction is about an order.
TypeOK ==
    /\ painting \in [Paintings -> PaintingRow]
    /\ cart \in [Buyers -> Items]
    /\ order \in [OrderIds -> OrderRow]
    /\ lock \in [Paintings -> Requests \cup {NoOne}]
    /\ request \in [Requests -> Request]
    /\ history \in [skipped : SUBSET Paintings, edited : SUBSET Paintings,
                    crossed : SUBSET OrderIds]
    /\ \A r \in Requests : Busy(r) => request[r].order \in OrderIds

OnSaleHasStock(row) == row.isAvailable => row.amount > 0

\* A painting with no copies left is never on sale, whatever checkouts,
\* cancellations, restorations and edits from stale forms are interleaved, as
\* long as no save mixed its row with another one's (history.skipped): the
\* catalogue never offers what checkout would have to refuse.  After such a save
\* it may: update() sees to it in its own form, not against a write in between.
AvailableHasStock ==
    \A p \in Paintings \ history.skipped : OnSaleHasStock(painting[p])

\* What a transaction read under its lock is still true when it commits: the
\* row it is about to write is the row now in the table, moved by exactly the
\* quantity of its order, unless the save left a column out.
LockedReadsHold ==
    \A r \in Requests, p \in Paintings :
        lock[p] = r =>
            LET quantity == request[r].entity.items[p]
                written == request[r].buffer[p].amount
            IN  /\ request[r].move = "take" => painting[p].amount >= quantity
                /\ p \notin request[r].skips =>
                      written = IF request[r].move = "take"
                                THEN painting[p].amount - quantity
                                ELSE painting[p].amount + quantity

\* A transaction waiting for a row holds only rows with smaller ids (stockOrder),
\* so no set of transactions wait for each other in a circle.
LocksInOrder ==
    \A r \in Requests : \A p, q \in Paintings :
        lock[p] = r /\ q \in request[r].todo => p < q

\* The units a live order has taken off the shelf.
Live(row) == IsRow(row) /\ row.status # "CANCELLED" /\ movesStock(row)
HeldBy(row) == IF Live(row) THEN row.items ELSE NoItems
Held(o) == HeldBy(order[o])

\* What checkout says of its row locks: nothing is sold that is not there.  In
\* a gallery where nobody edits a painting and no two requests for one order
\* cross, live orders hold no more copies than there have ever been.  The code
\* does not keep it: see Written.
NothingSoldTwice ==
    history.edited = {} /\ history.crossed = {} =>
        \A p \in Paintings :
            SumFunction([o \in OrderIds |-> Held(o)[p]]) <= Shelf[p]

\* The paintings whose stock the service may have lost count of: a save left
\* out a column, the admin typed the amount, or requests crossed on an order.
Marred ==
    history.skipped \cup history.edited
        \cup UNION {InItems(order[o].items) : o \in history.crossed}

\* Stock is only ever moved between the shelf and orders, whole orders at a
\* time: see StockLedger.
Ledger == INSTANCE StockLedger WITH
    shelf <- [p \in Paintings |-> painting[p].amount],
    held <- [o \in OrderIds |-> Held(o)],
    marred <- Marred

LedgerSpec == Ledger!Spec

\* The units of a painting on the shelf and in live orders are those the
\* gallery started with: no two checkouts sell the same copy, and no
\* cancellation, restoration, crash or refusal half-way, and no overlap of
\* requests for one order, loses or invents one - but for the ways of Marred.
NoUnitLost == Ledger!Conservation

\* Every request is answered, unless the process dies.
RequestsFinish == \A r \in Requests : ~IsIdle(r) ~> IsIdle(r)

-----------------------------------------------------------------------------
(* Inductive invariants: what OrdersProofs proves the properties from. *)

\* Who holds a row lock: a transaction that moves stock, with the new row in
\* its buffer.
Holding(r, p) ==
    /\ request[r].at = "txn"
    /\ request[r].move # "none"
    /\ p \in InItems(request[r].entity.items)
    /\ p \notin request[r].todo
    /\ p \notin request[r].skips => OnSaleHasStock(request[r].buffer[p])

LocksHeld == \A r \in Requests, p \in Paintings : lock[p] = r => Holding(r, p)

\* What is left to lock, or to save, belongs to the order, or is consistent.
Sound(req) ==
    /\ req.at \in {"upstream", "txn"} =>
          /\ req.todo \subseteq InItems(req.entity.items)
          /\ req.todo # {} => req.move # "none"
    /\ req.at = "edit" => \A p \in req.todo : OnSaleHasStock(req.buffer[p])

WorkLeft == \A r \in Requests : Sound(request[r])

StockInv ==
    /\ TypeOK
    /\ AvailableHasStock
    /\ LockedReadsHold
    /\ LocksInOrder
    /\ LocksHeld
    /\ WorkLeft

\* A handler moves stock as the status it read and the one it will write say.
MoveOf(was, entity) ==
    IF ~movesStock(entity) THEN "none"
    ELSE LET old == Live([entity EXCEPT !.status = was])
             new == Live(entity)
         IN  IF old = new THEN "none" ELSE IF new THEN "take" ELSE "give"

\* What an order is of does not change once it is placed: the copy a request
\* will save, what its SELECT showed and the row agree in it.
SameItems(row, other) ==
    row.items = other.items /\ row.isCommission = other.isCommission

\* An order being placed is nobody else's and will be inserted; any other has a
\* row, or had one.
Placing(r) == request[r].op \in {"checkout", "commission"}

CopyFits(r) ==
    /\ request[r].move = MoveOf(request[r].was, request[r].entity)
    /\ IsRow(request[r].entity) <=> request[r].op # "remove"
    /\ request[r].op = "remove" => request[r].entity.status = "REMOVED"
    /\ IF Placing(r)
       THEN /\ order[request[r].order].status = "FREE"
            /\ request[r].was = "FREE"
            /\ \A s \in Requests : Busy(s) /\ s # r =>
                  request[s].order # request[r].order
            /\ request[r].viewed => ~IsRow(request[r].seen.order)
       ELSE /\ order[request[r].order].status # "FREE"
            /\ SameItems(request[r].entity, order[request[r].order])
            /\ request[r].viewed => SameItems(request[r].seen.order, order[request[r].order])

CopiesFit == \A r \in Requests : Busy(r) => CopyFits(r)

\* A transaction with nothing left to lock holds every row of its order.
RowsLocked ==
    \A r \in Requests : Busy(r) /\ request[r].move # "none" =>
        \A p \in InItems(request[r].entity.items) \ request[r].todo :
            lock[p] = r

\* Only orders that were placed have been crossed.
CrossedPlaced == \A o \in history.crossed : order[o].status # "FREE"

LedgerInv ==
    /\ StockInv
    /\ CopiesFit
    /\ RowsLocked
    /\ CrossedPlaced

=============================================================================
