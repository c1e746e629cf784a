---------------------------- MODULE OrdersProofs ----------------------------
(***************************************************************************)
(* Proofs about Orders, for any paintings, orders, buyers and requests:    *)
(* its types, the order of its locks, what is on sale, and that it         *)
(* implements StockLedger, so that no unit is lost - all of it for every   *)
(* interleaving of requests, edits, refusals and crashes, with the         *)
(* exceptions that `history' keeps and no others.                          *)
(***************************************************************************)
EXTENDS Orders, DataLemmas

-----------------------------------------------------------------------------
(* Type correctness *)

\* A blank row is a row, in every status it is used with.
LEMMA BlankType ==
    ASSUME NEW status \in OrderStatus \cup {"FREE", "REMOVED"}
    PROVE  Blank(status) \in OrderRow
BY OrdersAssumption DEF Blank, OrderRow, NoItems, Items, PaymentStatus

\* What checkout and createCommission insert is a row.
LEMMA PlacedType ==
    ASSUME NEW who \in Buyers, NEW items \in Items,
           NEW provider \in Providers \cup {"ON_AGREEMENT"},
           NEW isCommission \in BOOLEAN
    PROVE  Placed(who, items, provider, isCommission) \in OrderRow
BY DEF Placed, Blank, OrderRow, PaymentStatus, OrderStatus

\* A row stays one when a handler sets its column.
LEMMA ColumnType ==
    ASSUME NEW row \in OrderRow
    PROVE  /\ [row EXCEPT !.status = "CANCELLED"] \in OrderRow
           /\ [row EXCEPT !.status = "REMOVED"] \in OrderRow
           /\ [row EXCEPT !.proof = TRUE] \in OrderRow
           /\ [row EXCEPT !.isArchived = TRUE] \in OrderRow
           /\ \A payment \in PaymentStatus : [row EXCEPT !.payment = payment] \in OrderRow
<1>1. \A payment \in PaymentStatus : [row EXCEPT !.payment = payment] \in OrderRow
  BY DEF OrderRow
<1>2. [row EXCEPT !.proof = TRUE] \in OrderRow /\ [row EXCEPT !.isArchived = TRUE] \in OrderRow
  BY DEF OrderRow
<1>3. \A status \in OrderStatus \cup {"REMOVED"} : [row EXCEPT !.status = status] \in OrderRow
  BY DEF OrderRow
<1> QED
  BY <1>1, <1>2, <1>3 DEF OrderStatus

\* What updateStatusAdmin saves is a row.
LEMMA StatusType ==
    ASSUME NEW row \in OrderRow, NEW status \in OrderStatus
    PROVE  WithStatus(row, status) \in OrderRow
<1>1. [row EXCEPT !.status = status] \in OrderRow
  BY DEF OrderRow
<1>2. [row EXCEPT !.status = status, !.tracking = TRUE] \in OrderRow
  BY DEF OrderRow
<1> QED
  BY <1>1, <1>2 DEF WithStatus

\* What save() has read before it reads anything is well formed.
LEMMA NoViewType == NoView \in [order : OrderRow, painting : [Paintings -> PaintingRow]]
BY BlankType DEF NoView, NoBuffer, PaintingRow

\* A request that has been answered is well formed.
LEMMA IdleType == Idle \in Request
BY BlankType, NoViewType DEF Idle, Request, NoBuffer, PaintingRow, Operations

\* What a handler read and will save is a row, so the request is well formed.
LEMMA BeginType ==
    ASSUME TypeOK, NEW r \in Requests, NEW op \in Operations,
           NEW at \in {"upstream", "txn"}, NEW o \in OrderIds,
           NEW entity \in OrderRow, NEW move \in {"take", "give", "none"},
           Begin(r, op, at, o, entity, move)
    PROVE  TypeOK'
<1> DEFINE new == [op |-> op, at |-> at, order |-> o, entity |-> entity,
                   was |-> order[o].status,
                   move |-> IF movesStock(entity) THEN move ELSE "none",
                   todo |-> IF movesStock(entity) /\ move # "none"
                            THEN InItems(entity.items) ELSE {},
                   buffer |-> NoBuffer, viewed |-> FALSE, seen |-> NoView,
                   skips |-> {}]
<1>1. order[o].status \in OrderStatus \cup {"FREE", "REMOVED"}
  BY DEF TypeOK, OrderRow
<1>2. new \in Request
  <2>1. NoBuffer \in [Paintings -> PaintingRow]
    BY DEF NoBuffer, PaintingRow
  <2>2. InItems(entity.items) \subseteq Paintings
    BY DEF InItems
  <2> QED
    BY <1>1, <2>1, <2>2, NoViewType DEF Request, movesStock
<1>3. new.order = o
  OBVIOUS
<1> HIDE DEF new
<1> QED
  BY <1>2, <1>3 DEF Begin, TypeOK, Busy, new

\* A request that goes on with the same order leaves every request well formed.
LEMMA SameOrder ==
    ASSUME TypeOK, NEW r \in Requests, NEW new \in Request,
           request' = [request EXCEPT ![r] = new],
           new.order = request[r].order,
           new.at \in {"upstream", "txn"} => Busy(r)
    PROVE  /\ request' \in [Requests -> Request]
           /\ \A s \in Requests : Busy(s)' => request'[s].order \in OrderIds
BY DEF TypeOK, Busy

\* Answering a request leaves every request well formed.
LEMMA FinishType ==
    ASSUME TypeOK, NEW r \in Requests, Finish(r)
    PROVE  /\ request' \in [Requests -> Request]
           /\ \A s \in Requests : Busy(s)' => request'[s].order \in OrderIds
BY IdleType DEF Finish, TypeOK, Busy, Idle

\* Releasing the locks of a request leaves the lock table well formed.
LEMMA UnlockedType ==
    ASSUME TypeOK, NEW r \in Requests
    PROVE  Unlocked(r) \in [Paintings -> Requests \cup {NoOne}]
BY DEF Unlocked, TypeOK

\* Both stock movements make rows: amounts stay natural numbers.
LEMMA MovedType ==
    ASSUME NEW row \in PaintingRow, NEW quantity \in Nat
    PROVE  /\ Taken(row, quantity) \in PaintingRow
           /\ Restored(row, quantity) \in PaintingRow
BY DEF Taken, Restored, PaintingRow

\* What save() reads is made of rows, and so is what it leaves of a painting.
LEMMA ViewType ==
    ASSUME TypeOK, NEW r \in Requests
    PROVE  /\ View(r) \in [order : OrderRow, painting : [Paintings -> PaintingRow]]
           /\ ViewAtSave(r) \in [order : OrderRow, painting : [Paintings -> PaintingRow]]
<1>1. request[r].order = NoOne \/ order[request[r].order] \in OrderRow
  BY DEF TypeOK, Request
<1>2. View(r).order \in OrderRow
  BY <1>1, BlankType DEF View
<1>3. View(r).painting \in [Paintings -> PaintingRow]
  BY DEF View, NoBuffer, PaintingRow, TypeOK
<1>4. View(r) \in [order : OrderRow, painting : [Paintings -> PaintingRow]]
  BY <1>2, <1>3 DEF View
<1>5. request[r].seen \in [order : OrderRow, painting : [Paintings -> PaintingRow]]
  BY DEF TypeOK, Request
<1> QED
  BY <1>4, <1>5 DEF ViewAtSave

LEMMA SavedType ==
    ASSUME NEW new \in PaintingRow, NEW seen \in PaintingRow, NEW current \in PaintingRow
    PROVE  SavedPainting(new, seen, current) \in PaintingRow
BY DEF SavedPainting, Written, PaintingRow

\* ... and of an order.
LEMMA SavedOrderType ==
    ASSUME NEW new \in OrderRow, NEW seen \in OrderRow, NEW current \in OrderRow
    PROVE  SavedOrder(new, seen, current) \in OrderRow
<1> DEFINE W(a, b, c) == Written(a, b, c)
<1>1. \A a, b, c : W(a, b, c) \in {a, c}
  BY DEF Written
<1>2. SavedOrder(new, seen, current) =
        [status |-> W(new.status, seen.status, current.status),
         owner |-> W(new.owner, seen.owner, current.owner),
         items |-> W(new.items, seen.items, current.items),
         isCommission |-> W(new.isCommission, seen.isCommission, current.isCommission),
         provider |-> W(new.provider, seen.provider, current.provider),
         payment |-> W(new.payment, seen.payment, current.payment),
         proof |-> W(new.proof, seen.proof, current.proof),
         tracking |-> W(new.tracking, seen.tracking, current.tracking),
         isArchived |-> W(new.isArchived, seen.isArchived, current.isArchived)]
  BY Zenon DEF SavedOrder
<1> HIDE DEF W
<1> QED
  BY <1>1, <1>2 DEF OrderRow

\* What a request leaves of its order is a row.
LEMMA AfterType ==
    ASSUME TypeOK, NEW r \in Requests, Busy(r)
    PROVE  OrderAfter(r) \in OrderRow
<1>1. /\ request[r].entity \in OrderRow
      /\ request[r].seen.order \in OrderRow
      /\ order[request[r].order] \in OrderRow
  BY DEF TypeOK, Request
<1>2. [order[request[r].order] EXCEPT !.status = "REMOVED"] \in OrderRow
  BY <1>1, ColumnType
<1> QED
  BY <1>1, <1>2, SavedOrderType DEF OrderAfter

\* An edited painting is a row.
LEMMA EditedType ==
    ASSUME TypeOK, NEW p \in Paintings,
           NEW amount \in {{}} \cup {{n} : n \in EditAmounts},
           NEW isAvailable \in {{}, {TRUE}, {FALSE}}
    PROVE  Edited(p, amount, isAvailable) \in PaintingRow
<1>1. Given(amount, painting[p].amount) \in Nat
  BY OrdersAssumption DEF Given, TypeOK, PaintingRow
<1> QED
  BY <1>1 DEF Edited, PaintingRow, reconcileAvailability

\* Every step of every handler keeps the types.
LEMMA TypeStep == TypeOK /\ [Next]_vars => TypeOK'
<1> SUFFICES ASSUME TypeOK, [Next]_vars PROVE TypeOK'
  OBVIOUS
<1>1. CASE CartStep
  BY <1>1, OrdersAssumption
  DEF CartStep, ClearCart, AddItem, RemoveItem, UpdateItem, CartEdit, AtMost,
      TypeOK, Items, NoItems, PaintingRow, Busy
<1>2. ASSUME NEW r \in Requests, Start(r) PROVE TypeOK'
  <2>1. ASSUME NEW o \in OrderIds, NEW c \in Buyers, NEW provider \in Providers,
               checkout(r, c, o, provider)
        PROVE  TypeOK'
    <3>1. Placed(c, cart[c], provider, FALSE) \in OrderRow
      BY PlacedType DEF TypeOK
    <3> QED
      BY <2>1, <3>1, BeginType DEF checkout, Operations
  <2>2. ASSUME NEW o \in OrderIds, NEW c \in Buyers, NEW p \in Paintings,
               createCommission(r, c, o, p)
        PROVE  TypeOK'
    <3>1. [NoItems EXCEPT ![p] = 1] \in Items
      BY OrdersAssumption DEF NoItems, Items
    <3>2. Placed(c, [NoItems EXCEPT ![p] = 1], "ON_AGREEMENT", TRUE) \in OrderRow
      BY <3>1, PlacedType
    <3> QED
      BY <2>2, <3>2, BeginType DEF createCommission, Operations
  <2>3. ASSUME NEW o \in OrderIds, NEW c \in Buyers, cancel(r, c, o)
        PROVE  TypeOK'
    <3>1. [order[o] EXCEPT !.status = "CANCELLED"] \in OrderRow
      BY ColumnType DEF TypeOK
    <3> QED
      BY <2>3, <3>1, BeginType DEF cancel, Operations
  <2>4. ASSUME NEW o \in OrderIds, NEW c \in Buyers, uploadPaymentProof(r, c, o)
        PROVE  TypeOK'
    <3>1. [order[o] EXCEPT !.proof = TRUE] \in OrderRow
      BY ColumnType DEF TypeOK
    <3> QED
      BY <2>4, <3>1, BeginType DEF uploadPaymentProof, Operations
  <2>5. ASSUME NEW o \in OrderIds, NEW status \in Statuses, NEW ttn \in BOOLEAN,
               updateStatusAdmin(r, o, status, ttn)
        PROVE  TypeOK'
    <3>1. WithStatus(order[o], status) \in OrderRow
      BY StatusType, OrdersAssumption DEF TypeOK
    <3>2. StockMove(order[o].status, status) \in {"take", "give", "none"}
      BY DEF StockMove
    <3> QED
      BY <2>5, <3>1, <3>2, BeginType DEF updateStatusAdmin, Operations
  <2>6. ASSUME NEW o \in OrderIds, NEW payment \in Payments,
               updatePaymentStatusAdmin(r, o, payment)
        PROVE  TypeOK'
    <3>1. [order[o] EXCEPT !.payment = payment] \in OrderRow
      BY ColumnType, OrdersAssumption DEF TypeOK
    <3> QED
      BY <2>6, <3>1, BeginType DEF updatePaymentStatusAdmin, Operations
  <2>7. ASSUME NEW o \in OrderIds, archiveAdmin(r, o)
        PROVE  TypeOK'
    <3>1. [order[o] EXCEPT !.isArchived = TRUE] \in OrderRow
      BY ColumnType DEF TypeOK
    <3> QED
      BY <2>7, <3>1, BeginType DEF archiveAdmin, Operations
  <2>8. ASSUME NEW o \in OrderIds, removeAdmin(r, o)
        PROVE  TypeOK'
    <3>1. [order[o] EXCEPT !.status = "REMOVED"] \in OrderRow
      BY ColumnType DEF TypeOK
    <3> QED
      BY <2>8, <3>1, BeginType DEF removeAdmin, Operations
  <2>9. ASSUME NEW p \in Paintings,
               NEW amount \in {{}} \cup {{n} : n \in EditAmounts},
               NEW isAvailable \in {{}, {TRUE}, {FALSE}},
               update(r, p, amount, isAvailable)
        PROVE  TypeOK'
    <3>1. [Idle EXCEPT !.op = "edit", !.at = "edit", !.todo = {p},
                       !.buffer[p] = Edited(p, amount, isAvailable)] \in Request
      <4>1. Edited(p, amount, isAvailable) \in PaintingRow
        BY EditedType
      <4> HIDE DEF Edited
      <4> QED
        BY <4>1, IdleType DEF Request, Operations
    <3>2. [Idle EXCEPT !.op = "edit", !.at = "edit", !.todo = {p},
                       !.buffer[p] = Edited(p, amount, isAvailable)].at = "edit"
      BY DEF Idle
    <3> QED
      BY <2>9, <3>1, <3>2 DEF update, TypeOK, Busy
  <2> QED
    BY <1>2, <2>1, <2>2, <2>3, <2>4, <2>5, <2>6, <2>7, <2>8, <2>9 DEF Start
<1>3. ASSUME NEW r \in Requests, Continue(r) PROVE TypeOK'
  <2> DEFINE Requested == /\ request' \in [Requests -> Request]
                          /\ \A s \in Requests :
                                Busy(s)' => request'[s].order \in OrderIds
  <2>1. CASE UpstreamAnswers(r)
    <3>1. Busy(r) /\ request[r] \in Request
      BY <2>1 DEF TypeOK, UpstreamAnswers, Busy
    <3>2. PICK old, new : old = request[r] /\ new = [old EXCEPT !.at = "txn"]
      OBVIOUS
    <3>3. old \in Request /\ new \in Request /\ new.order = old.order
      BY <3>1, <3>2 DEF Request
    <3>4. request' = [request EXCEPT ![r] = new]
      BY <2>1, <3>2 DEF UpstreamAnswers
    <3>5. Requested
      BY <3>1, <3>2, <3>3, <3>4, SameOrder
    <3> QED
      BY <2>1, <3>5 DEF UpstreamAnswers, TypeOK
  <2>2. CASE UpstreamFails(r)
    BY <2>2, FinishType DEF UpstreamFails, TypeOK
  <2>3. ASSUME NEW p \in Paintings, LockRow(r, p) PROVE TypeOK'
    <3>1. request[r] \in Request /\ painting[p] \in PaintingRow
      BY DEF TypeOK
    <3>2. request[r].entity.items[p] \in Nat
      BY <3>1 DEF Request, OrderRow, Items
    <3>3. Moved(r, p) \in PaintingRow
      BY <3>1, <3>2, MovedType DEF Moved
    <3>4. SavedPainting(Moved(r, p), ViewAtSave(r).painting[p], painting[p]) \in PaintingRow
      BY <3>1, <3>3, ViewType, SavedType
    <3>5. PICK old \in Request, saved \in PaintingRow, viewed \in BOOLEAN,
               seen \in [order : OrderRow, painting : [Paintings -> PaintingRow]],
               skips \in SUBSET Paintings :
            /\ old = request[r]
            /\ saved = IF SavesAsItLocks(r)
                       THEN SavedPainting(Moved(r, p), ViewAtSave(r).painting[p], painting[p])
                       ELSE Moved(r, p)
            /\ viewed = SavesAsItLocks(r)
            /\ seen = IF SavesAsItLocks(r) THEN ViewAtSave(r) ELSE request[r].seen
            /\ skips = IF saved = Moved(r, p) THEN request[r].skips
                       ELSE request[r].skips \cup {p}
      <4>1. request[r].skips \cup {p} \in SUBSET Paintings /\ request[r].skips \in SUBSET Paintings
        BY <3>1 DEF Request
      <4>2. request[r].seen \in [order : OrderRow, painting : [Paintings -> PaintingRow]]
        BY <3>1 DEF Request
      <4>3. SavesAsItLocks(r) \in BOOLEAN
        BY DEF SavesAsItLocks
      <4> QED
        BY <3>1, <3>3, <3>4, <4>1, <4>2, <4>3, ViewType
    <3>6. PICK new :
            new = [old EXCEPT !.todo = @ \ {p}, !.buffer[p] = saved,
                              !.viewed = viewed, !.seen = seen, !.skips = skips]
      OBVIOUS
    <3>7. new \in Request /\ new.order = request[r].order
      <4>1. PICK half : half = [old EXCEPT !.todo = @ \ {p}, !.buffer[p] = saved]
        OBVIOUS
      <4>2. half \in Request /\ half.order = old.order
        BY <4>1 DEF Request
      <4>3. new = [half EXCEPT !.viewed = viewed, !.seen = seen, !.skips = skips]
        BY <3>6, <4>1
      <4>4. new \in Request /\ new.order = half.order
        BY <4>2, <4>3 DEF Request
      <4> QED
        BY <3>5, <4>2, <4>4
    <3>8. request' = [request EXCEPT ![r] = new] /\ Busy(r)
      <4>1. Busy(r)
        BY <2>3 DEF LockRow, AtLock, Busy
      <4> QED
        BY <2>3, <3>5, <3>6, <4>1, Zenon DEF LockRow
    <3>9. Requested
      BY <3>7, <3>8, SameOrder
    <3> QED
      BY <2>3, <3>9 DEF LockRow, TypeOK
  <2>4. ASSUME NEW p \in Paintings, Refuse(r, p) PROVE TypeOK'
    BY <2>4, FinishType, UnlockedType DEF Refuse, TypeOK
  <2>5. ASSUME NEW p \in Paintings, SaveEdit(r, p) PROVE TypeOK'
    <3>1. request[r].buffer[p] \in PaintingRow /\ request[r].seen.painting[p] \in PaintingRow
      BY DEF TypeOK, Request
    <3>2. SavedPainting(request[r].buffer[p], request[r].seen.painting[p], painting[p])
            \in PaintingRow
      BY <3>1, SavedType DEF TypeOK
    <3>3. painting' \in [Paintings -> PaintingRow]
      BY <2>5, <3>2 DEF SaveEdit, TypeOK
    <3>4. history' \in [skipped : SUBSET Paintings, edited : SUBSET Paintings,
                        crossed : SUBSET OrderIds]
      BY <2>5 DEF SaveEdit, TypeOK
    <3> QED
      BY <2>5, <3>3, <3>4, FinishType DEF SaveEdit, TypeOK
  <2>6. CASE Look(r)
    <3>1. PICK old, seen, new : /\ old = request[r] /\ seen = View(r)
                                /\ new = [old EXCEPT !.viewed = TRUE, !.seen = seen]
      OBVIOUS
    <3>2. new \in Request /\ new.order = old.order /\ new.at = old.at
      <4>1. old \in Request /\ seen \in [order : OrderRow, painting : [Paintings -> PaintingRow]]
        BY <3>1, ViewType DEF TypeOK
      <4> QED
        BY <3>1, <4>1 DEF Request
    <3>3. request' = [request EXCEPT ![r] = new]
      BY <2>6, <3>1 DEF Look
    <3>4. Requested
      BY <3>1, <3>2, <3>3, SameOrder DEF Busy
    <3> QED
      BY <2>6, <3>4 DEF Look, TypeOK
  <2>7. CASE Commit(r)
    <3>1. request[r] \in Request /\ Busy(r)
      BY <2>7 DEF TypeOK, Commit, AtEnd, Busy
    <3>2. painting' \in [Paintings -> PaintingRow]
      BY <2>7, <3>1 DEF Commit, TypeOK, Request
    <3>3. order' \in [OrderIds -> OrderRow]
      BY <2>7, <3>1, AfterType DEF Commit, TypeOK
    <3>4. cart' \in [Buyers -> Items]
      <4>1. NoItems \in Items
        BY OrdersAssumption DEF NoItems, Items
      <4> QED
        BY <2>7, <4>1 DEF Commit, TypeOK
    <3>5. history' \in [skipped : SUBSET Paintings, edited : SUBSET Paintings,
                        crossed : SUBSET OrderIds]
      <4>1. request[r].skips \in SUBSET Paintings /\ request[r].order \in OrderIds
        BY <3>1 DEF Request, TypeOK
      <4> QED
        BY <2>7, <4>1 DEF Commit, TypeOK
    <3> QED
      BY <2>7, <3>2, <3>3, <3>4, <3>5, FinishType, UnlockedType DEF Commit, TypeOK
  <2>8. CASE DuplicateKey(r)
    BY <2>8, FinishType, UnlockedType DEF DuplicateKey, TypeOK
  <2> QED
    BY <1>3, <2>1, <2>2, <2>3, <2>4, <2>5, <2>6, <2>7, <2>8 DEF Continue
<1>4. ASSUME NEW u \in Users, NEW g \in Guests, claimGuestOrders(u, g)
      PROVE  TypeOK'
  <2>1. \A o \in OrderIds : [order[o] EXCEPT !.owner = u] \in OrderRow
    BY DEF TypeOK, OrderRow, Buyers
  <2> QED
  BY <1>4, <2>1 DEF claimGuestOrders, TypeOK, Busy
<1>5. CASE Crash
  BY <1>5, IdleType DEF Crash, TypeOK, Busy, Idle
<1>6. CASE UNCHANGED vars
  BY <1>6 DEF vars, TypeOK, Busy
<1> QED
  BY <1>1, <1>2, <1>3, <1>4, <1>5, <1>6 DEF Next

\* Rows, locks and requests always have their types.
THEOREM TypeCorrect == Spec => []TypeOK
<1>1. Init => TypeOK
  BY BlankType, IdleType, OrdersAssumption
  DEF Init, TypeOK, PaintingRow, NoItems, Items, Busy, Idle
<1> QED
  BY <1>1, TypeStep, PTL DEF Spec

-----------------------------------------------------------------------------
(* Stock under every interleaving *)

\* Paintings are numbers, so a non-empty set of them has a smallest one.
LEMMA SmallestRow ==
    ASSUME NEW todo \in SUBSET Paintings, todo # {}
    PROVE  /\ stockOrder(todo) \in todo
           /\ \A q \in todo : stockOrder(todo) <= q
<1> DEFINE Less == {ss \in Nat \X Nat : ss[1] < ss[2]}
<1>1. IsWellFoundedOn(Less, Nat)
  BY NatLessThanWellFounded, Zenon DEF OpToRel
<1>2. PICK p \in todo : \A q \in todo : ~(<<q, p>> \in Less)
  <2> HIDE DEF Less
  <2> QED
    BY <1>1, WFMin, OrdersAssumption
<1>3. ASSUME NEW q \in todo PROVE p <= q
  <2>1. p \in Nat /\ q \in Nat
    BY OrdersAssumption
  <2>2. ~(q < p)
    BY <1>2, <2>1
  <2> QED
    BY <2>1, <2>2
<1> QED
  BY <1>2, <1>3 DEF stockOrder

\* A step of a request that holds no lock, and takes none, disturbs nobody.
LEMMA QuietStep ==
    ASSUME StockInv, NEW r \in Requests, request[r].at # "txn",
           NEW new \in Request,
           Sound(new),
           request' = [request EXCEPT ![r] = new],
           UNCHANGED <<painting, lock, history>>
    PROVE  /\ AvailableHasStock'
           /\ LockedReadsHold'
           /\ LocksInOrder'
           /\ LocksHeld'
           /\ WorkLeft'
<1>1. \A s \in Requests : s # r => request'[s] = request[s]
  BY DEF StockInv, TypeOK
<1>2. \A s \in Requests, p \in Paintings : lock'[p] = s => s # r /\ lock[p] = s
  BY DEF StockInv, LocksHeld, Holding
<1>3. request'[r] = new
  BY DEF StockInv, TypeOK
<1>4. AvailableHasStock'
  BY DEF StockInv, AvailableHasStock
<1>5. LockedReadsHold'
  BY <1>1, <1>2 DEF StockInv, LockedReadsHold
<1>6. LocksInOrder'
  BY <1>1, <1>2 DEF StockInv, LocksInOrder
<1>7. LocksHeld'
  BY <1>1, <1>2 DEF StockInv, LocksHeld, Holding
<1>8. WorkLeft'
  BY <1>1, <1>3 DEF StockInv, WorkLeft
<1> QED
  BY <1>4, <1>5, <1>6, <1>7, <1>8

\* A request that ends, having changed at most the rows it had locked.
LEMMA EndStep ==
    ASSUME StockInv, NEW r \in Requests,
           Finish(r), lock' = Unlocked(r),
           painting' \in [Paintings -> PaintingRow],
           \A p \in Paintings : lock[p] # r => painting'[p] = painting[p],
           AvailableHasStock'
    PROVE  /\ LockedReadsHold'
           /\ LocksInOrder'
           /\ LocksHeld'
           /\ WorkLeft'
<1>1. \A s \in Requests : s # r => request'[s] = request[s]
  BY DEF StockInv, TypeOK, Finish
<1>2. r # NoOne
  BY OrdersAssumption
<1>3. \A s \in Requests, p \in Paintings :
          lock'[p] = s => s # r /\ lock[p] = s /\ painting'[p] = painting[p]
  BY <1>2, OrdersAssumption DEF Unlocked, StockInv, TypeOK
<1>4. request'[r] = Idle
  BY DEF Finish, StockInv, TypeOK
<1>5. LockedReadsHold'
  BY <1>1, <1>3 DEF StockInv, LockedReadsHold
<1>6. LocksInOrder'
  BY <1>1, <1>3 DEF StockInv, LocksInOrder
<1>7. LocksHeld'
  BY <1>1, <1>3 DEF StockInv, LocksHeld, Holding
<1>8. WorkLeft'
  BY <1>1, <1>4 DEF StockInv, WorkLeft, Sound, Idle
<1> QED
  BY <1>5, <1>6, <1>7, <1>8

\* Every step of every handler keeps the stock invariant.
LEMMA StockStep == StockInv /\ [Next]_vars => StockInv'
<1> SUFFICES ASSUME StockInv, [Next]_vars PROVE StockInv'
  OBVIOUS
<1>0. TypeOK /\ TypeOK'
  BY TypeStep DEF StockInv
<1> DEFINE Rest == /\ AvailableHasStock
                   /\ LockedReadsHold
                   /\ LocksInOrder
                   /\ LocksHeld
                   /\ WorkLeft
<1>1. CASE CartStep \/ UNCHANGED vars
  <2>1. UNCHANGED <<painting, lock, request, history>>
    BY <1>1
    DEF CartStep, ClearCart, AddItem, RemoveItem, UpdateItem, CartEdit, vars
  <2> QED
    BY <1>0, <2>1
    DEF StockInv, AvailableHasStock, LockedReadsHold, LocksInOrder, LocksHeld,
        Holding, WorkLeft
<1>2. ASSUME NEW r \in Requests, Start(r) PROVE Rest'
  <2>1. ASSUME NEW op, NEW at \in {"upstream", "txn"}, NEW o, NEW entity, NEW move,
               Begin(r, op, at, o, entity, move)
        PROVE  Rest'
    <3> DEFINE todo == IF movesStock(entity) /\ move # "none"
                       THEN InItems(entity.items) ELSE {}
    <3>1. request'[r].at = at /\ request'[r].todo = todo
          /\ request'[r].entity = entity
      BY <1>0, <2>1 DEF Begin, TypeOK
    <3>2. request' = [request EXCEPT ![r] = request'[r]]
      BY <1>0, <2>1 DEF Begin, TypeOK
    <3>3. request[r].at # "txn"
      BY <2>1 DEF Begin, IsIdle
    <3>4. request'[r] \in Request
      BY <1>0 DEF TypeOK
    <3>5. Sound(request'[r])
      <4>1. /\ todo \subseteq InItems(entity.items)
            /\ todo # {} => request'[r].move # "none"
        BY <1>0, <2>1 DEF Begin, TypeOK
      <4> HIDE DEF todo
      <4> QED
        BY <3>1, <4>1 DEF Sound
    <3>6. UNCHANGED <<painting, lock, history>>
      BY <2>1 DEF Begin
    <3> QED
      BY <3>2, <3>3, <3>4, <3>5, <3>6, QuietStep
  <2>2. ASSUME NEW p \in Paintings,
               NEW amount \in {{}} \cup {{n} : n \in EditAmounts},
               NEW isAvailable \in {{}, {TRUE}, {FALSE}},
               update(r, p, amount, isAvailable)
        PROVE  Rest'
    <3>1. OnSaleHasStock(Edited(p, amount, isAvailable))
      BY DEF OnSaleHasStock, Edited, reconcileAvailability
    <3>2. request'[r].at = "edit" /\ request'[r].todo = {p}
          /\ request'[r].buffer[p] = Edited(p, amount, isAvailable)
      BY <1>0, <2>2, IdleType DEF update, TypeOK, Idle, NoBuffer
    <3>3. request' = [request EXCEPT ![r] = request'[r]]
      BY <1>0, <2>2 DEF update, TypeOK
    <3>4. request'[r] \in Request
      BY <1>0 DEF TypeOK
    <3>5. request[r].at # "txn" /\ UNCHANGED <<painting, lock, history>>
      BY <2>2 DEF update, IsIdle
    <3>6. Sound(request'[r])
      BY <3>1, <3>2 DEF Sound
    <3> QED
      BY <3>3, <3>4, <3>5, <3>6, QuietStep
  <2> QED
    BY <1>2, <2>1, <2>2
    DEF Start, checkout, createCommission, cancel, uploadPaymentProof,
        updateStatusAdmin, updatePaymentStatusAdmin, archiveAdmin, removeAdmin
<1>3. ASSUME NEW r \in Requests, Continue(r) PROVE Rest'
  <2>1. CASE UpstreamAnswers(r)
    <3>1. /\ request'[r].at = "txn"
          /\ request'[r].todo = request[r].todo
          /\ request'[r].move = request[r].move
          /\ request'[r].entity = request[r].entity
          /\ request' = [request EXCEPT ![r] = request'[r]]
      BY <1>0, <2>1 DEF UpstreamAnswers, TypeOK, Request
    <3>2. request'[r] \in Request /\ request[r].at # "txn"
      BY <1>0, <2>1 DEF UpstreamAnswers, TypeOK
    <3>3. Sound(request'[r])
      BY <2>1, <3>1 DEF UpstreamAnswers, StockInv, WorkLeft, Sound
    <3> QED
      BY <2>1, <3>1, <3>2, <3>3, QuietStep DEF UpstreamAnswers
  <2>2. CASE UpstreamFails(r)
    <3>1. Sound(Idle)
      BY DEF Sound, Idle
    <3> QED
      BY <2>2, <3>1, IdleType, QuietStep DEF UpstreamFails, Finish
  <2>3. ASSUME NEW p \in Paintings, LockRow(r, p) PROVE Rest'
    <3> USE <1>0
    <3> DEFINE quantity == request[r].entity.items[p]
    <3>1. /\ request'[r].at = "txn"
          /\ request'[r].move = request[r].move
          /\ request'[r].entity = request[r].entity
          /\ request'[r].todo = request[r].todo \ {p}
          /\ \A q \in Paintings \ {p} :
                /\ request'[r].buffer[q] = request[r].buffer[q]
                /\ q \in request'[r].skips <=> q \in request[r].skips
          /\ p \notin request'[r].skips => request'[r].buffer[p] = Moved(r, p)
      <4>1. PICK old, saved, viewed, seen, skips :
              /\ old = request[r]
              /\ saved = IF SavesAsItLocks(r)
                         THEN SavedPainting(Moved(r, p), ViewAtSave(r).painting[p], painting[p])
                         ELSE Moved(r, p)
              /\ viewed = SavesAsItLocks(r)
              /\ seen = IF SavesAsItLocks(r) THEN ViewAtSave(r) ELSE request[r].seen
              /\ skips = IF saved = Moved(r, p) THEN request[r].skips
                         ELSE request[r].skips \cup {p}
        OBVIOUS
      <4>2. PICK new :
              new = [old EXCEPT !.todo = @ \ {p}, !.buffer[p] = saved,
                                !.viewed = viewed, !.seen = seen, !.skips = skips]
        OBVIOUS
      <4>3. request' = [request EXCEPT ![r] = new]
        BY <2>3, <4>1, <4>2, Zenon DEF LockRow
      <4>4. request'[r] = new
        BY <4>3 DEF TypeOK
      <4>5. old \in Request
        BY <4>1 DEF TypeOK
      <4>6. /\ new.at = old.at /\ new.move = old.move /\ new.entity = old.entity
            /\ new.todo = old.todo \ {p} /\ new.skips = skips
            /\ new.buffer = [old.buffer EXCEPT ![p] = saved]
        BY <4>2, <4>5 DEF Request
      <4>7. old.at = "txn"
        BY <2>3, <4>1 DEF LockRow, AtLock
      <4>8. /\ \A q \in Paintings \ {p} :
                  /\ new.buffer[q] = old.buffer[q]
                  /\ q \in new.skips <=> q \in old.skips
            /\ p \notin new.skips => new.buffer[p] = Moved(r, p)
        BY <4>1, <4>5, <4>6 DEF Request
      <4> QED
        BY <4>1, <4>4, <4>6, <4>7, <4>8
    <3>2. \A s \in Requests : s # r => request'[s] = request[s]
      BY <2>3 DEF LockRow, TypeOK
    <3>3. /\ lock'[p] = r
          /\ \A q \in Paintings : q # p => lock'[q] = lock[q]
          /\ UNCHANGED <<painting, history>>
      BY <2>3 DEF LockRow, TypeOK
    <3>4. /\ p \in request[r].todo
          /\ \A q \in request[r].todo : p <= q
      BY <2>3, SmallestRow DEF LockRow, AtLock, TypeOK, Request
    <3>5. /\ request[r].todo \subseteq InItems(request[r].entity.items)
          /\ request[r].move # "none"
      BY <2>3 DEF LockRow, AtLock, StockInv, WorkLeft, Sound
    <3>6. quantity \in Nat /\ quantity > 0
      BY <3>4, <3>5 DEF TypeOK, Request, OrderRow, Items, InItems
    <3>7. painting[p].amount \in Nat
      BY DEF TypeOK, PaintingRow
    <3>8. AvailableHasStock'
      BY <3>3 DEF StockInv, AvailableHasStock
    <3>9. LockedReadsHold'
      <4>1. ASSUME NEW s \in Requests, NEW q \in Paintings, lock'[q] = s, q # p
            PROVE  /\ lock[q] = s /\ request'[s].buffer[q] = request[s].buffer[q]
                   /\ request'[s].move = request[s].move
                   /\ request'[s].entity = request[s].entity
                   /\ q \in request'[s].skips <=> q \in request[s].skips
        BY <3>1, <3>2, <3>3, <4>1
      <4>2. request[r].move = "take" =>
               /\ painting[p].amount >= quantity
               /\ Moved(r, p).amount = painting[p].amount - quantity
        BY <2>3, <3>6, <3>7 DEF LockRow, Enough, Moved, Taken, PaintingRow, TypeOK
      <4>3. request[r].move # "take" => Moved(r, p).amount = painting[p].amount + quantity
        BY DEF Moved, Restored
      <4>4. ASSUME NEW s \in Requests, lock'[p] = s PROVE s = r
        BY <3>3, <4>4
      <4> HIDE DEF quantity
      <4> QED
        BY <3>1, <3>3, <4>1, <4>2, <4>3, <4>4
        DEF StockInv, LockedReadsHold, quantity
    <3>10. LocksInOrder'
      <4>1. ASSUME NEW s \in Requests, NEW q \in Paintings, NEW q2 \in Paintings,
                   lock'[q] = s, q2 \in request'[s].todo
            PROVE  q < q2
        <5>1. CASE q = p
          <6>1. s = r /\ q2 \in request[r].todo /\ q2 # p
            BY <3>1, <3>3, <4>1, <5>1
          <6>2. q \in Nat /\ q2 \in Nat
            BY OrdersAssumption
          <6> QED
            BY <3>4, <5>1, <6>1, <6>2
        <5>2. CASE q # p
          BY <3>1, <3>2, <3>3, <4>1, <5>2 DEF StockInv, LocksInOrder
        <5> QED
          BY <5>1, <5>2
      <4> QED
        BY <4>1 DEF LocksInOrder
    <3>11. LocksHeld'
      <4>1. Holding(r, p)'
        <5>1. OnSaleHasStock(Moved(r, p))
          BY <3>6, <3>7
          DEF OnSaleHasStock, Moved, Taken, Restored, PaintingRow, TypeOK
        <5> QED
          BY <3>1, <3>4, <3>5, <5>1 DEF Holding
      <4>2. ASSUME NEW s \in Requests, NEW q \in Paintings, lock'[q] = s, q # p
            PROVE  Holding(s, q)'
        <5>1. lock[q] = s /\ Holding(s, q)
          BY <3>3, <4>2 DEF StockInv, LocksHeld
        <5> QED
          BY <3>1, <3>2, <4>2, <5>1 DEF Holding
      <4> QED
        BY <3>3, <4>1, <4>2 DEF LocksHeld
    <3>12. WorkLeft'
      <4>1. Sound(request'[r])
        BY <3>1, <3>5 DEF Sound
      <4> QED
        BY <3>2, <4>1 DEF StockInv, WorkLeft
    <3> QED
      BY <3>8, <3>9, <3>10, <3>11, <3>12
  <2>4. ASSUME NEW p \in Paintings, Refuse(r, p) PROVE Rest'
    <3>1. AvailableHasStock' /\ painting' \in [Paintings -> PaintingRow]
      BY <1>0, <2>4 DEF Refuse, StockInv, AvailableHasStock, TypeOK
    <3> QED
      BY <2>4, <3>1, EndStep DEF Refuse
  <2>5. ASSUME NEW p \in Paintings, SaveEdit(r, p) PROVE Rest'
    <3> DEFINE new == request[r].buffer[p]
               saved == SavedPainting(new, request[r].seen.painting[p], painting[p])
    <3>1. AvailableHasStock'
      <4>1. OnSaleHasStock(new)
        BY <2>5 DEF SaveEdit, StockInv, WorkLeft, Sound
      <4>2. \A q \in Paintings \ history.skipped : OnSaleHasStock(painting[q])
        BY DEF StockInv, AvailableHasStock
      <4>3. /\ painting' = [painting EXCEPT ![p] = saved]
            /\ history.skipped \subseteq history'.skipped
            /\ saved \in {new, painting[p]} \/ p \in history'.skipped
        BY <1>0, <2>5 DEF SaveEdit, TypeOK
      <4> HIDE DEF new, saved
      <4> QED
        BY <1>0, <4>1, <4>2, <4>3 DEF AvailableHasStock, TypeOK
    <3>2. \A q \in Paintings : lock[q] # r
      BY <2>5 DEF SaveEdit, StockInv, LocksHeld, Holding
    <3>3. \A q \in Paintings : lock[q] # NoOne => painting'[q] = painting[q]
      <4>1. new = request[r].seen.painting[p] => saved = painting[p]
        BY <1>0 DEF SavedPainting, Written, TypeOK, PaintingRow
      <4>2. painting' = [painting EXCEPT ![p] = saved]
            /\ (new # request[r].seen.painting[p] => lock[p] = NoOne)
        BY <2>5 DEF SaveEdit
      <4> HIDE DEF new, saved
      <4> QED
        BY <1>0, <4>1, <4>2 DEF TypeOK
    <3>4. \A s \in Requests : s # r => request'[s] = request[s]
      BY <1>0, <2>5 DEF SaveEdit, Finish, TypeOK
    <3>5. request'[r] = Idle /\ UNCHANGED lock
      BY <1>0, <2>5 DEF SaveEdit, Finish, TypeOK
    <3>6. \A s \in Requests, q \in Paintings : lock'[q] = s =>
              s # r /\ lock[q] = s /\ painting'[q] = painting[q]
      BY <3>2, <3>3, <3>5, OrdersAssumption
    <3>7. LockedReadsHold'
      BY <3>4, <3>6 DEF StockInv, LockedReadsHold
    <3>8. LocksInOrder'
      BY <3>4, <3>6 DEF StockInv, LocksInOrder
    <3>9. LocksHeld'
      BY <3>4, <3>6 DEF StockInv, LocksHeld, Holding
    <3>10. WorkLeft'
      BY <3>4, <3>5 DEF StockInv, WorkLeft, Sound, Idle
    <3> QED
      BY <3>1, <3>7, <3>8, <3>9, <3>10
  <2>6. CASE Look(r)
    <3>1. PICK old, seen, new : /\ old = request[r] /\ seen = View(r)
                                /\ new = [old EXCEPT !.viewed = TRUE, !.seen = seen]
      OBVIOUS
    <3>2. /\ new.at = old.at /\ new.move = old.move /\ new.entity = old.entity
          /\ new.todo = old.todo /\ new.buffer = old.buffer /\ new.skips = old.skips
      BY <1>0, <3>1 DEF TypeOK, Request
    <3>3. \A s \in Requests : request'[s] = IF s = r THEN new ELSE request[s]
      BY <1>0, <2>6, <3>1 DEF Look, TypeOK
    <3>4. \A s \in Requests :
              /\ request'[s].at = request[s].at
              /\ request'[s].move = request[s].move
              /\ request'[s].entity = request[s].entity
              /\ request'[s].todo = request[s].todo
              /\ request'[s].buffer = request[s].buffer
              /\ request'[s].skips = request[s].skips
      BY <3>1, <3>2, <3>3
    <3>5. UNCHANGED <<painting, lock, history>>
      BY <2>6 DEF Look
    <3>6. AvailableHasStock' /\ LockedReadsHold' /\ LocksInOrder'
      BY <3>4, <3>5 DEF StockInv, AvailableHasStock, LockedReadsHold, LocksInOrder
    <3>7. LocksHeld' /\ WorkLeft'
      BY <3>4, <3>5 DEF StockInv, LocksHeld, Holding, WorkLeft, Sound
    <3> QED
      BY <3>6, <3>7
  <2>7. CASE Commit(r)
    <3>1. AvailableHasStock'
      <4>1. history'.skipped = history.skipped \cup request[r].skips
        BY <1>0, <2>7 DEF Commit, TypeOK
      <4> QED
        BY <2>7, <4>1 DEF Commit, StockInv, AvailableHasStock, LocksHeld, Holding
    <3>2. painting' \in [Paintings -> PaintingRow]
      BY <1>0 DEF TypeOK
    <3>3. \A p \in Paintings : lock[p] # r => painting'[p] = painting[p]
      BY <2>7 DEF Commit
    <3> QED
      BY <2>7, <3>1, <3>2, <3>3, EndStep DEF Commit
  <2>8. CASE DuplicateKey(r)
    <3>1. AvailableHasStock' /\ painting' \in [Paintings -> PaintingRow]
      BY <1>0, <2>8 DEF DuplicateKey, StockInv, AvailableHasStock, TypeOK
    <3> QED
      BY <2>8, <3>1, EndStep DEF DuplicateKey
  <2> QED
    BY <1>3, <2>1, <2>2, <2>3, <2>4, <2>5, <2>6, <2>7, <2>8 DEF Continue
<1>4. ASSUME NEW u \in Users, NEW g \in Guests, claimGuestOrders(u, g)
      PROVE  Rest'
  BY <1>4
  DEF claimGuestOrders, StockInv, AvailableHasStock, LockedReadsHold,
      LocksInOrder, LocksHeld, Holding, WorkLeft
<1>5. CASE Crash
  <2>1. \A r \in Requests :
            request'[r] = Idle /\ \A p \in Paintings : lock'[p] # r
    BY <1>5, OrdersAssumption DEF Crash
  <2> QED
    BY <1>0, <1>5, <2>1
    DEF Crash, StockInv, AvailableHasStock, LockedReadsHold, LocksInOrder,
        LocksHeld, WorkLeft, Sound, Idle
<1> QED
  BY <1>0, <1>1, <1>2, <1>3, <1>4, <1>5 DEF Next, StockInv

\* The stock invariant holds before the first request.
LEMMA StockInit == Init => StockInv
<1> SUFFICES ASSUME Init PROVE StockInv
  OBVIOUS
<1>1. TypeOK
  BY BlankType, IdleType, OrdersAssumption
  DEF Init, TypeOK, PaintingRow, NoItems, Items, Busy, Idle
<1>2. \A r \in Requests : request[r] = Idle /\ \A p \in Paintings : lock[p] # r
  BY OrdersAssumption DEF Init
<1>3. AvailableHasStock
  BY DEF Init, AvailableHasStock, OnSaleHasStock
<1>4. Sound(Idle)
  BY DEF Sound, Idle
<1>5. LockedReadsHold /\ LocksInOrder /\ LocksHeld /\ WorkLeft
  BY <1>2, <1>4 DEF LockedReadsHold, LocksInOrder, LocksHeld, WorkLeft
<1> QED
  BY <1>1, <1>3, <1>5 DEF StockInv

\* The stock invariant always holds: what the two theorems below are read off.
THEOREM StockCorrect == Spec => []StockInv
BY StockInit, StockStep, PTL DEF Spec

\* Nothing sold out is ever on sale, unless a save mixed its row with another.
THEOREM AvailableHasStockAlways == Spec => []AvailableHasStock
<1>1. StockInv => AvailableHasStock
  BY DEF StockInv
<1> QED
  BY <1>1, StockCorrect, PTL

\* Row locks are always taken in id order.
THEOREM LocksAlwaysInOrder == Spec => []LocksInOrder
<1>1. StockInv => LocksInOrder
  BY DEF StockInv
<1> QED
  BY <1>1, StockCorrect, PTL


-----------------------------------------------------------------------------
(* The ledger invariant *)

\* The copy a handler will save, against the row o it has read.
Fits(op, move, entity, o) ==
    /\ move = MoveOf(order[o].status, entity)
    /\ IsRow(entity) <=> op # "remove"
    /\ op = "remove" => entity.status = "REMOVED"
    /\ IF op \in {"checkout", "commission"}
       THEN Unused(o)
       ELSE order[o].status # "FREE" /\ SameItems(entity, order[o])

\* A request that begins keeps the ledger invariant, if its copy fits.
LEMMA BeginLedger ==
    ASSUME LedgerInv, TypeOK', NEW r \in Requests, NEW op,
           NEW at \in {"upstream", "txn"}, NEW o \in OrderIds, NEW entity, NEW move,
           Begin(r, op, at, o, entity, move),
           Fits(op, IF movesStock(entity) THEN move ELSE "none", entity, o)
    PROVE  CopiesFit' /\ RowsLocked' /\ CrossedPlaced'
<1> DEFINE todo == IF movesStock(entity) /\ move # "none"
                   THEN InItems(entity.items) ELSE {}
           moves == IF movesStock(entity) THEN move ELSE "none"
<1>0. TypeOK
  BY DEF LedgerInv, StockInv
<1>1. /\ request'[r].at = at
      /\ request'[r].op = op
      /\ request'[r].order = o
      /\ request'[r].entity = entity
      /\ request'[r].was = order[o].status
      /\ request'[r].move = moves
      /\ request'[r].todo = todo
      /\ request'[r].viewed = FALSE
  BY <1>0 DEF Begin, TypeOK
<1>2. \A s \in Requests : s # r => request'[s] = request[s]
  BY <1>0 DEF Begin, TypeOK
<1>3. UNCHANGED <<painting, order, lock, history>>
  BY DEF Begin
<1>4. ~Busy(r)
  BY DEF Begin, IsIdle, Busy
<1>5. \A s \in Requests : Busy(s) /\ Placing(s) => request[s].order # o
  BY DEF LedgerInv, CopiesFit, CopyFits, Fits, Unused
<1>6. \A s \in Requests : s # r /\ op \in {"checkout", "commission"} => request[s].order # o
  BY DEF Fits, Unused
<1> HIDE DEF todo, moves
<1>7. CopiesFit'
  <2>1. CopyFits(r)'
    <3>1. /\ moves = MoveOf(order[o].status, entity)
          /\ IsRow(entity) <=> op # "remove"
          /\ op = "remove" => entity.status = "REMOVED"
      BY DEF Fits, moves
    <3>2. CASE op \in {"checkout", "commission"}
      BY <1>1, <1>2, <1>3, <1>6, <3>1, <3>2 DEF CopyFits, Placing, Fits, Unused, Busy
    <3>3. CASE op \notin {"checkout", "commission"}
      BY <1>1, <1>3, <3>1, <3>3 DEF CopyFits, Placing, Fits
    <3> QED
      BY <3>2, <3>3
  <2>2. ASSUME NEW s \in Requests, s # r, Busy(s)'
        PROVE  CopyFits(s)'
    <3>1. Busy(s) /\ CopyFits(s)
      BY <1>2, <2>2 DEF Busy, LedgerInv, CopiesFit
    <3>2. CASE Placing(s)
      <4>1. \A t \in Requests : Busy(t)' /\ t # s => request'[t].order # request[s].order
        BY <1>1, <1>2, <1>5, <3>1, <3>2 DEF CopyFits, Busy
      <4> QED
        BY <1>2, <1>3, <2>2, <3>1, <3>2, <4>1 DEF CopyFits, Placing
    <3>3. CASE ~Placing(s)
      BY <1>2, <1>3, <2>2, <3>1, <3>3 DEF CopyFits, Placing
    <3> QED
      BY <3>2, <3>3
  <2> QED
    BY <2>1, <2>2 DEF CopiesFit
<1>8. RowsLocked'
  <2>1. request'[r].move # "none" =>
           InItems(request'[r].entity.items) \ request'[r].todo = {}
    BY <1>1 DEF todo, moves
  <2> QED
    BY <1>2, <1>3, <2>1 DEF LedgerInv, RowsLocked, Busy
<1>9. CrossedPlaced'
  BY <1>3 DEF LedgerInv, CrossedPlaced
<1> QED
  BY <1>7, <1>8, <1>9

\* A status is changed together with the stock that goes with it.
LEMMA StatusFits ==
    ASSUME NEW row \in OrderRow, row.status \in OrderStatus,
           NEW status \in OrderStatus, row.status # status
    PROVE  /\ (IF movesStock(WithStatus(row, status))
               THEN StockMove(row.status, status) ELSE "none")
                  = MoveOf(row.status, WithStatus(row, status))
           /\ IsRow(WithStatus(row, status))
           /\ SameItems(WithStatus(row, status), row)
<1>1. /\ WithStatus(row, status).status = status
      /\ WithStatus(row, status).items = row.items
      /\ WithStatus(row, status).isCommission = row.isCommission
  BY DEF WithStatus, OrderRow
<1>2. WithStatus(row, status) \in OrderRow
  BY StatusType
<1>3. PICK new \in OrderRow : new = WithStatus(row, status)
  BY <1>2
<1>4. /\ [new EXCEPT !.status = row.status].status = row.status
      /\ [new EXCEPT !.status = row.status].isCommission = new.isCommission
  BY DEF OrderRow
<1>5. (IF movesStock(new) THEN StockMove(row.status, status) ELSE "none")
         = MoveOf(row.status, new)
  BY <1>1, <1>3, <1>4 DEF MoveOf, StockMove, Live, IsRow, movesStock
<1> QED
  BY <1>1, <1>3, <1>5 DEF IsRow, SameItems

\* A handler that leaves the status alone moves nothing.
LEMMA SameStatusFits ==
    ASSUME NEW row \in OrderRow, NEW entity \in OrderRow,
           row.status \in OrderStatus, entity.status = row.status
    PROVE  "none" = MoveOf(row.status, entity) /\ IsRow(entity)
<1>1. [entity EXCEPT !.status = row.status] = entity
  BY DEF OrderRow
<1> QED
  BY <1>1 DEF MoveOf, IsRow

\* What an order is placed as holds all its items, and was nothing before.
LEMMA PlacedFits ==
    ASSUME NEW who, NEW items, NEW provider, NEW isCommission \in BOOLEAN
    PROVE  /\ (IF movesStock(Placed(who, items, provider, isCommission)) THEN "take" ELSE "none")
                  = MoveOf("FREE", Placed(who, items, provider, isCommission))
           /\ IsRow(Placed(who, items, provider, isCommission))
           /\ movesStock(Placed(who, items, provider, isCommission)) = ~isCommission
<1>1. PICK entity : entity = Placed(who, items, provider, isCommission)
  OBVIOUS
<1>2. /\ entity.status = "PENDING"
      /\ entity.isCommission = isCommission
      /\ [entity EXCEPT !.status = "FREE"].status = "FREE"
  BY <1>1 DEF Placed, Blank
<1> QED
  BY <1>1, <1>2 DEF MoveOf, Live, IsRow, movesStock, OrderStatus

\* Every handler, up to its first await, keeps the ledger invariant.
LEMMA StartLedger ==
    ASSUME LedgerInv, TypeOK', NEW r \in Requests, Start(r)
    PROVE  CopiesFit' /\ RowsLocked' /\ CrossedPlaced'
<1> DEFINE Goal == CopiesFit' /\ RowsLocked' /\ CrossedPlaced'
<1>0. TypeOK /\ \A o \in OrderIds : order[o] \in OrderRow
  BY DEF LedgerInv, StockInv, TypeOK
<1>1. ASSUME NEW o \in OrderIds, NEW c \in Buyers, NEW provider \in Providers,
             checkout(r, c, o, provider)
      PROVE  Goal
  <2> DEFINE entity == Placed(c, cart[c], provider, FALSE)
  <2>1. /\ (IF movesStock(entity) THEN "take" ELSE "none") = MoveOf("FREE", entity)
        /\ IsRow(entity)
    BY PlacedFits
  <2> HIDE DEF entity
  <2>2. Fits("checkout", IF movesStock(entity) THEN "take" ELSE "none", entity, o)
    BY <1>1, <2>1 DEF Fits, checkout, Unused
  <2> QED
    BY <1>1, <2>2, BeginLedger DEF checkout, entity
<1>2. ASSUME NEW o \in OrderIds, NEW c \in Buyers, NEW p \in Paintings,
             createCommission(r, c, o, p)
      PROVE  Goal
  <2> DEFINE entity == Placed(c, [NoItems EXCEPT ![p] = 1], "ON_AGREEMENT", TRUE)
  <2>1. "none" = MoveOf("FREE", entity) /\ IsRow(entity) /\ ~movesStock(entity)
    BY PlacedFits
  <2> HIDE DEF entity
  <2>2. Fits("commission", IF movesStock(entity) THEN "none" ELSE "none", entity, o)
    BY <1>2, <2>1 DEF Fits, createCommission, Unused
  <2> QED
    BY <1>2, <2>2, BeginLedger DEF createCommission, entity
<1>3. ASSUME NEW o \in OrderIds, NEW c \in Buyers, cancel(r, c, o)
      PROVE  Goal
  <2>1. PICK row \in OrderRow, entity \in OrderRow :
          row = order[o] /\ entity = [row EXCEPT !.status = "CANCELLED"]
    BY <1>0, ColumnType
  <2>2. row.status \in {"PENDING", "CONFIRMED"}
    BY <1>3, <2>1 DEF cancel, Exists, IsRow, OrderStatus
  <2>3. /\ entity.status = "CANCELLED"
        /\ SameItems(entity, row)
        /\ [entity EXCEPT !.status = row.status].status = row.status
        /\ [entity EXCEPT !.status = row.status].isCommission = entity.isCommission
    BY <2>1 DEF OrderRow, SameItems
  <2>4. (IF movesStock(entity) THEN "give" ELSE "none") = MoveOf(row.status, entity)
    BY <2>2, <2>3 DEF MoveOf, Live, IsRow, movesStock, OrderStatus
  <2>5. Fits("cancel", IF movesStock(entity) THEN "give" ELSE "none", entity, o)
    BY <2>1, <2>2, <2>3, <2>4 DEF Fits, IsRow, OrderStatus
  <2> QED
    BY <1>3, <2>1, <2>5, BeginLedger DEF cancel
<1>4. ASSUME NEW o \in OrderIds, NEW c \in Buyers, uploadPaymentProof(r, c, o)
      PROVE  Goal
  <2>1. PICK row \in OrderRow, entity \in OrderRow :
          row = order[o] /\ entity = [row EXCEPT !.proof = TRUE]
    BY <1>0, ColumnType
  <2>2. entity.status = row.status /\ SameItems(entity, row)
    BY <2>1 DEF OrderRow, SameItems
  <2>3. row.status \in OrderStatus
    BY <1>4, <2>1 DEF uploadPaymentProof, Exists, IsRow
  <2>4. Fits("proof", IF movesStock(entity) THEN "none" ELSE "none", entity, o)
    BY <2>1, <2>2, <2>3, SameStatusFits DEF Fits, OrderStatus
  <2> QED
    BY <1>4, <2>1, <2>4, BeginLedger DEF uploadPaymentProof
<1>5. ASSUME NEW o \in OrderIds, NEW status \in Statuses, NEW ttn \in BOOLEAN,
             updateStatusAdmin(r, o, status, ttn)
      PROVE  Goal
  <2>1. /\ order[o].status \in OrderStatus /\ order[o].status # status
        /\ status \in OrderStatus
    BY <1>5, OrdersAssumption DEF updateStatusAdmin, Exists, IsRow
  <2>2. Fits("status",
             IF movesStock(WithStatus(order[o], status))
             THEN StockMove(order[o].status, status) ELSE "none",
             WithStatus(order[o], status), o)
    BY <1>0, <2>1, StatusFits DEF Fits, OrderStatus
  <2> QED
    BY <1>5, <2>2, BeginLedger DEF updateStatusAdmin
<1>6. ASSUME NEW o \in OrderIds, NEW payment \in Payments,
             updatePaymentStatusAdmin(r, o, payment)
      PROVE  Goal
  <2>1. PICK row \in OrderRow, entity \in OrderRow :
          row = order[o] /\ entity = [row EXCEPT !.payment = payment]
    BY <1>0, ColumnType, OrdersAssumption
  <2>2. entity.status = row.status /\ SameItems(entity, row)
    BY <2>1 DEF OrderRow, SameItems
  <2>3. row.status \in OrderStatus
    BY <1>6, <2>1 DEF updatePaymentStatusAdmin, Exists, IsRow
  <2>4. Fits("payment", IF movesStock(entity) THEN "none" ELSE "none", entity, o)
    BY <2>1, <2>2, <2>3, SameStatusFits DEF Fits, OrderStatus
  <2> QED
    BY <1>6, <2>1, <2>4, BeginLedger DEF updatePaymentStatusAdmin
<1>7. ASSUME NEW o \in OrderIds, archiveAdmin(r, o)
      PROVE  Goal
  <2>1. PICK row \in OrderRow, entity \in OrderRow :
          row = order[o] /\ entity = [row EXCEPT !.isArchived = TRUE]
    BY <1>0, ColumnType
  <2>2. entity.status = row.status /\ SameItems(entity, row)
    BY <2>1 DEF OrderRow, SameItems
  <2>3. row.status \in OrderStatus
    BY <1>7, <2>1 DEF archiveAdmin, OrderStatus
  <2>4. Fits("archive", IF movesStock(entity) THEN "none" ELSE "none", entity, o)
    BY <2>1, <2>2, <2>3, SameStatusFits DEF Fits, OrderStatus
  <2> QED
    BY <1>7, <2>1, <2>4, BeginLedger DEF archiveAdmin
<1>8. ASSUME NEW o \in OrderIds, removeAdmin(r, o)
      PROVE  Goal
  <2>1. PICK row \in OrderRow, entity \in OrderRow :
          row = order[o] /\ entity = [row EXCEPT !.status = "REMOVED"]
    BY <1>0, ColumnType
  <2>2. /\ entity.status = "REMOVED"
        /\ SameItems(entity, row)
        /\ [entity EXCEPT !.status = row.status].status = row.status
    BY <2>1 DEF OrderRow, SameItems
  <2>3. row.status = "CANCELLED"
    BY <1>8, <2>1 DEF removeAdmin
  <2>4. "none" = MoveOf(row.status, entity)
    BY <2>2, <2>3 DEF MoveOf, Live, IsRow, OrderStatus
  <2>5. Fits("remove", IF movesStock(entity) THEN "none" ELSE "none", entity, o)
    BY <2>1, <2>2, <2>3, <2>4 DEF Fits, IsRow, OrderStatus
  <2> QED
    BY <1>8, <2>1, <2>5, BeginLedger DEF removeAdmin
<1>9. ASSUME NEW p \in Paintings, NEW amount, NEW isAvailable,
             update(r, p, amount, isAvailable)
      PROVE  Goal
  <2>1. ~Busy(r)' /\ ~Busy(r) /\ \A s \in Requests : s # r => request'[s] = request[s]
    BY <1>0, <1>9 DEF update, Busy, IsIdle, Idle, TypeOK
  <2>2. UNCHANGED <<order, lock, history>>
    BY <1>9 DEF update
  <2>3. ASSUME NEW s \in Requests, Busy(s)' PROVE CopyFits(s)'
    <3>1. CopyFits(s) /\ request'[s] = request[s]
      BY <2>1, <2>3 DEF LedgerInv, CopiesFit, Busy
    <3>2. \A t \in Requests : Busy(t)' => Busy(t) /\ request'[t] = request[t]
      BY <2>1 DEF Busy
    <3> QED
      BY <2>2, <3>1, <3>2 DEF CopyFits, Placing
  <2> QED
    BY <2>1, <2>2, <2>3 DEF LedgerInv, CopiesFit, RowsLocked, CrossedPlaced, Busy
<1> QED
  BY <1>1, <1>2, <1>3, <1>4, <1>5, <1>6, <1>7, <1>8, <1>9 DEF Start

\* No step touches what an order is of, once it is placed.
ItemsKept ==
    \A o \in OrderIds : order[o].status # "FREE" =>
        order'[o].status # "FREE" /\ SameItems(order'[o], order[o])

\* What a request leaves of its order is of the same items.
LEMMA AfterFits ==
    ASSUME LedgerInv, NEW r \in Requests, AtEnd(r)
    PROVE  /\ OrderAfter(r).status # "FREE"
           /\ Placing(r) => OrderAfter(r) = request[r].entity
           /\ ~Placing(r) => SameItems(OrderAfter(r), order[request[r].order])
<1>0. Busy(r) /\ CopyFits(r) /\ request[r].viewed
  BY DEF AtEnd, Busy, LedgerInv, CopiesFit
<1>1. /\ request[r].order \in OrderIds
      /\ request[r].entity \in OrderRow
      /\ request[r].seen.order \in OrderRow
      /\ order[request[r].order] \in OrderRow
  BY <1>0 DEF LedgerInv, StockInv, TypeOK, Request
<1>2. PICK current \in OrderRow, entity \in OrderRow, seen \in OrderRow :
        /\ current = order[request[r].order]
        /\ entity = request[r].entity
        /\ seen = request[r].seen.order
  BY <1>1
<1>3. OrderAfter(r) =
        IF request[r].op = "remove" THEN [current EXCEPT !.status = "REMOVED"]
        ELSE IF Inserts(r) THEN entity
        ELSE IF IsRow(current) THEN SavedOrder(entity, seen, current)
        ELSE current
  BY <1>2 DEF OrderAfter
<1>4. CASE Placing(r)
  <2>1. Inserts(r) /\ request[r].op # "remove" /\ IsRow(entity)
    BY <1>0, <1>2, <1>4 DEF CopyFits, Placing, Inserts
  <2> QED
    BY <1>2, <1>3, <1>4, <2>1 DEF IsRow, OrderStatus
<1>5. CASE ~Placing(r)
  <2>1. /\ current.status # "FREE"
        /\ SameItems(entity, current) /\ SameItems(seen, current)
        /\ IsRow(entity) <=> request[r].op # "remove"
    BY <1>0, <1>2, <1>5 DEF CopyFits
  <2>2. CASE request[r].op = "remove"
    <3>1. /\ [current EXCEPT !.status = "REMOVED"].status = "REMOVED"
          /\ SameItems([current EXCEPT !.status = "REMOVED"], current)
      BY DEF OrderRow, SameItems
    <3> QED
      BY <1>2, <1>3, <1>5, <2>2, <3>1
  <2>3. CASE request[r].op # "remove" /\ Inserts(r)
    BY <1>2, <1>3, <1>5, <2>1, <2>3 DEF IsRow, OrderStatus
  <2>4. CASE request[r].op # "remove" /\ ~Inserts(r) /\ ~IsRow(current)
    BY <1>2, <1>3, <1>5, <2>1, <2>4 DEF SameItems
  <2>5. CASE request[r].op # "remove" /\ ~Inserts(r) /\ IsRow(current)
    <3>1. /\ SavedOrder(entity, seen, current).status \in {entity.status, current.status}
          /\ SavedOrder(entity, seen, current).items = current.items
          /\ SavedOrder(entity, seen, current).isCommission = current.isCommission
      BY <2>1 DEF SavedOrder, Written, SameItems
    <3> QED
      BY <1>2, <1>3, <1>5, <2>1, <2>5, <3>1 DEF IsRow, OrderStatus, SameItems
  <2> QED
    BY <2>2, <2>3, <2>4, <2>5
<1> QED
  BY <1>4, <1>5

\* A request that is answered leaves the other requests and their locks alone.
LEMMA FinishLedger ==
    ASSUME LedgerInv, NEW r \in Requests, Finish(r), lock' = Unlocked(r),
           ItemsKept,
           \A s \in Requests : s # r /\ Busy(s) /\ Placing(s) =>
               order'[request[s].order] = order[request[s].order],
           \A o \in history'.crossed : o \in history.crossed \/ order'[o].status # "FREE"
    PROVE  CopiesFit' /\ RowsLocked' /\ CrossedPlaced'
<1>0. TypeOK
  BY DEF LedgerInv, StockInv
<1>1. \A s \in Requests : s # r => request'[s] = request[s]
  BY <1>0 DEF Finish, TypeOK
<1>2. request'[r].at = "idle"
  BY <1>0 DEF Finish, TypeOK, Idle
<1>3. \A s \in Requests, p \in Paintings : s # r /\ lock[p] = s => lock'[p] = s
  BY DEF Unlocked
<1>4. CopiesFit'
  <2>1. ASSUME NEW s \in Requests, Busy(s)'
        PROVE  CopyFits(s)'
    <3>1. s # r /\ Busy(s) /\ CopyFits(s) /\ request'[s] = request[s]
          /\ request[s].order \in OrderIds
      BY <1>0, <1>1, <1>2, <2>1 DEF Busy, LedgerInv, CopiesFit, TypeOK
    <3>2. CASE Placing(s)
      <4>1. \A t \in Requests : Busy(t)' => Busy(t) /\ request'[t] = request[t]
        BY <1>1, <1>2 DEF Busy
      <4>2. order'[request[s].order] = order[request[s].order]
        BY <3>1, <3>2
      <4> QED
        BY <3>1, <3>2, <4>1, <4>2 DEF CopyFits, Placing
    <3>3. CASE ~Placing(s)
      <4>1. /\ order'[request[s].order].status # "FREE"
            /\ SameItems(order'[request[s].order], order[request[s].order])
        BY <3>1, <3>3 DEF ItemsKept, CopyFits
      <4> QED
        BY <3>1, <3>3, <4>1 DEF CopyFits, Placing, SameItems
    <3> QED
      BY <3>2, <3>3
  <2> QED
    BY <2>1 DEF CopiesFit
<1>5. RowsLocked'
  BY <1>1, <1>2, <1>3 DEF LedgerInv, RowsLocked, Busy, InItems
<1>6. CrossedPlaced'
  BY <1>0 DEF LedgerInv, CrossedPlaced, ItemsKept, TypeOK
<1> QED
  BY <1>4, <1>5, <1>6

\* A step that changes what no copy is compared in keeps the ledger invariant.
LEMMA SameCopies ==
    ASSUME LedgerInv, UNCHANGED <<order, history>>,
           \A s \in Requests :
              /\ request'[s].order = request[s].order
              /\ request'[s].entity = request[s].entity
              /\ request'[s].move = request[s].move
              /\ request'[s].op = request[s].op
              /\ request'[s].was = request[s].was
              /\ Busy(s)' <=> Busy(s),
           \A s \in Requests : Busy(s) /\ request'[s].viewed =>
              \/ request[s].viewed /\ request'[s].seen = request[s].seen
              \/ request'[s].seen.order = order[request[s].order]
    PROVE  CopiesFit' /\ CrossedPlaced'
<1>1. ASSUME NEW s \in Requests, Busy(s)'
      PROVE  CopyFits(s)'
  <2>1. Busy(s) /\ CopyFits(s)
    BY <1>1 DEF LedgerInv, CopiesFit
  <2>2. CASE Placing(s)
    <3>1. ~IsRow(order[request[s].order])
      BY <2>1, <2>2 DEF CopyFits, IsRow, OrderStatus
    <3> QED
      BY <2>1, <2>2, <3>1 DEF CopyFits, Placing
  <2>3. CASE ~Placing(s)
    BY <2>1, <2>3 DEF CopyFits, Placing, SameItems
  <2> QED
    BY <2>2, <2>3
<1> QED
  BY <1>1 DEF CopiesFit, LedgerInv, CrossedPlaced

\* Every step of every handler keeps the ledger invariant.
LEMMA LedgerStep == LedgerInv /\ [Next]_vars => LedgerInv'
<1> SUFFICES ASSUME LedgerInv, [Next]_vars PROVE LedgerInv'
  OBVIOUS
<1> DEFINE Rest == CopiesFit /\ RowsLocked /\ CrossedPlaced
<1>0. StockInv /\ StockInv' /\ TypeOK /\ TypeOK'
  BY StockStep DEF LedgerInv, StockInv
<1>1. CASE CartStep \/ UNCHANGED vars
  <2>1. UNCHANGED <<painting, order, lock, request, history>>
    BY <1>1
    DEF CartStep, ClearCart, AddItem, RemoveItem, UpdateItem, CartEdit, vars
  <2>2. CopiesFit' /\ CrossedPlaced'
    BY <2>1, SameCopies DEF Busy
  <2> QED
    BY <1>0, <2>1, <2>2 DEF LedgerInv, RowsLocked, Busy
<1>2. ASSUME NEW r \in Requests, Start(r) PROVE Rest'
  BY <1>0, <1>2, StartLedger
<1>3. ASSUME NEW r \in Requests, Continue(r) PROVE Rest'
  <2>1. CASE UpstreamAnswers(r)
    <3>1. PICK old, new : old = request[r] /\ new = [old EXCEPT !.at = "txn"]
      OBVIOUS
    <3>2. /\ new.order = old.order /\ new.entity = old.entity /\ new.move = old.move
          /\ new.op = old.op /\ new.was = old.was /\ new.todo = old.todo
          /\ new.viewed = old.viewed /\ new.seen = old.seen /\ new.at = "txn"
      BY <1>0, <3>1 DEF TypeOK, Request
    <3>3. /\ Busy(r)
          /\ \A s \in Requests : request'[s] = IF s = r THEN new ELSE request[s]
          /\ UNCHANGED <<order, lock, history>>
      BY <1>0, <2>1, <3>1 DEF UpstreamAnswers, Busy, TypeOK
    <3>4. \A s \in Requests :
              /\ request'[s].order = request[s].order
              /\ request'[s].entity = request[s].entity
              /\ request'[s].move = request[s].move
              /\ request'[s].op = request[s].op
              /\ request'[s].was = request[s].was
              /\ request'[s].todo = request[s].todo
              /\ request'[s].viewed = request[s].viewed
              /\ request'[s].seen = request[s].seen
              /\ Busy(s)' <=> Busy(s)
      BY <3>1, <3>2, <3>3 DEF Busy
    <3>5. CopiesFit' /\ CrossedPlaced'
      BY <3>3, <3>4, SameCopies
    <3>6. RowsLocked'
      BY <3>3, <3>4 DEF LedgerInv, RowsLocked
    <3> QED
      BY <3>5, <3>6
  <2>2. CASE UpstreamFails(r)
    <3>1. \A p \in Paintings : lock[p] # r
      BY <2>2 DEF UpstreamFails, LedgerInv, StockInv, LocksHeld, Holding
    <3>2. lock' = Unlocked(r)
      BY <1>0, <2>2, <3>1 DEF UpstreamFails, Unlocked, TypeOK
    <3> QED
      BY <2>2, <3>2, FinishLedger DEF UpstreamFails, ItemsKept, SameItems
  <2>3. ASSUME NEW p \in Paintings, LockRow(r, p) PROVE Rest'
    <3>1. PICK old, saved, viewed, seen, skips :
            /\ old = request[r]
            /\ saved = IF SavesAsItLocks(r)
                       THEN SavedPainting(Moved(r, p), ViewAtSave(r).painting[p], painting[p])
                       ELSE Moved(r, p)
            /\ viewed = SavesAsItLocks(r)
            /\ seen = IF SavesAsItLocks(r) THEN ViewAtSave(r) ELSE request[r].seen
            /\ skips = IF saved = Moved(r, p) THEN request[r].skips
                       ELSE request[r].skips \cup {p}
      OBVIOUS
    <3>2. PICK new :
            new = [old EXCEPT !.todo = @ \ {p}, !.buffer[p] = saved,
                              !.viewed = viewed, !.seen = seen, !.skips = skips]
      OBVIOUS
    <3>3. request' = [request EXCEPT ![r] = new]
      BY <2>3, <3>1, <3>2, Zenon DEF LockRow
    <3>4. /\ old \in Request /\ old.at = "txn"
          /\ \A s \in Requests : request'[s] = IF s = r THEN new ELSE request[s]
      BY <1>0, <2>3, <3>1, <3>3 DEF TypeOK, LockRow, AtLock
    <3>5. /\ new.order = old.order /\ new.entity = old.entity /\ new.move = old.move
          /\ new.op = old.op /\ new.was = old.was /\ new.at = old.at
          /\ new.todo = old.todo \ {p}
          /\ new.viewed = viewed /\ new.seen = seen
      BY <3>2, <3>4 DEF Request
    <3>6. /\ lock[p] = NoOne
          /\ lock' = [lock EXCEPT ![p] = r]
          /\ UNCHANGED <<order, history>>
      BY <2>3 DEF LockRow
    <3>7. \A s \in Requests :
              /\ request'[s].order = request[s].order
              /\ request'[s].entity = request[s].entity
              /\ request'[s].move = request[s].move
              /\ request'[s].op = request[s].op
              /\ request'[s].was = request[s].was
              /\ Busy(s)' <=> Busy(s)
      BY <3>1, <3>4, <3>5 DEF Busy
    <3>8. CopiesFit' /\ CrossedPlaced'
      <4>1. viewed => \/ old.viewed /\ seen = old.seen
                      \/ seen.order = order[old.order]
        <5>1. request[r].order # NoOne
          BY <1>0, <3>1, <3>4, OrdersAssumption DEF TypeOK, Busy
        <5> QED
          BY <3>1, <5>1 DEF ViewAtSave, View
      <4>2. \A s \in Requests : Busy(s) /\ request'[s].viewed =>
              \/ request[s].viewed /\ request'[s].seen = request[s].seen
              \/ request'[s].seen.order = order[request[s].order]
        BY <3>1, <3>4, <3>5, <4>1
      <4> QED
        BY <3>6, <3>7, <4>2, SameCopies
    <3>9. RowsLocked'
      <4>1. lock'[p] = r /\ \A q \in Paintings : q # p => lock'[q] = lock[q]
        BY <1>0, <3>6 DEF TypeOK
      <4>2. ASSUME NEW s \in Requests, Busy(s)', request'[s].move # "none",
                   NEW q \in InItems(request'[s].entity.items) \ request'[s].todo
            PROVE  lock'[q] = s
        <5>1. CASE s = r /\ q = p
          BY <4>1, <5>1
        <5>2. CASE ~(s = r /\ q = p)
          <6>1. q \in InItems(request[s].entity.items) \ request[s].todo
            BY <3>1, <3>4, <3>5, <3>7, <4>2, <5>2
          <6>2. lock[q] = s
            BY <3>7, <4>2, <6>1 DEF LedgerInv, RowsLocked
          <6>3. q # p
            BY <3>6, <6>2, OrdersAssumption
          <6>4. q \in Paintings
            BY <6>1 DEF InItems
          <6> QED
            BY <4>1, <6>2, <6>3, <6>4
        <5> QED
          BY <5>1, <5>2
      <4> QED
        BY <4>2 DEF RowsLocked
    <3> QED
      BY <3>8, <3>9
  <2>4. ASSUME NEW p \in Paintings, Refuse(r, p) PROVE Rest'
    BY <2>4, FinishLedger DEF Refuse, ItemsKept, SameItems
  <2>5. ASSUME NEW p \in Paintings, SaveEdit(r, p) PROVE Rest'
    <3>1. \A q \in Paintings : lock[q] # r
      BY <2>5 DEF SaveEdit, LedgerInv, StockInv, LocksHeld, Holding
    <3>2. lock' = Unlocked(r)
      BY <1>0, <2>5, <3>1 DEF SaveEdit, Unlocked, TypeOK
    <3>3. history'.crossed = history.crossed /\ UNCHANGED order
      BY <1>0, <2>5 DEF SaveEdit, TypeOK
    <3> QED
      BY <2>5, <3>2, <3>3, FinishLedger DEF SaveEdit, ItemsKept, SameItems
  <2>6. CASE Look(r)
    <3>1. PICK old, seen, new : /\ old = request[r] /\ seen = View(r)
                                /\ new = [old EXCEPT !.viewed = TRUE, !.seen = seen]
      OBVIOUS
    <3>2. /\ new.order = old.order /\ new.entity = old.entity /\ new.move = old.move
          /\ new.op = old.op /\ new.was = old.was /\ new.at = old.at
          /\ new.todo = old.todo /\ new.seen = seen
      BY <1>0, <3>1 DEF TypeOK, Request
    <3>3. /\ \A s \in Requests : request'[s] = IF s = r THEN new ELSE request[s]
          /\ UNCHANGED <<order, lock, history>>
      BY <1>0, <2>6, <3>1 DEF Look, TypeOK
    <3>4. \A s \in Requests :
              /\ request'[s].order = request[s].order
              /\ request'[s].entity = request[s].entity
              /\ request'[s].move = request[s].move
              /\ request'[s].op = request[s].op
              /\ request'[s].was = request[s].was
              /\ request'[s].todo = request[s].todo
              /\ Busy(s)' <=> Busy(s)
      BY <3>1, <3>2, <3>3 DEF Busy
    <3>5. Busy(r) => seen.order = order[request[r].order]
      <4>1. Busy(r) => request[r].order # NoOne
        BY <1>0, OrdersAssumption DEF TypeOK
      <4> QED
        BY <3>1, <4>1 DEF View
    <3>6. \A s \in Requests : Busy(s) /\ request'[s].viewed =>
              \/ request[s].viewed /\ request'[s].seen = request[s].seen
              \/ request'[s].seen.order = order[request[s].order]
      BY <3>2, <3>3, <3>5
    <3>7. CopiesFit' /\ CrossedPlaced'
      BY <3>3, <3>4, <3>6, SameCopies
    <3>8. RowsLocked'
      BY <3>3, <3>4 DEF LedgerInv, RowsLocked
    <3> QED
      BY <3>7, <3>8
  <2>7. CASE Commit(r)
    <3> DEFINE o == request[r].order
    <3>1. Busy(r) /\ CopyFits(r) /\ o \in OrderIds
      BY <1>0, <2>7 DEF Commit, AtEnd, Busy, LedgerInv, CopiesFit, TypeOK
    <3>2. /\ order'[o] = OrderAfter(r)
          /\ \A other \in OrderIds : other # o => order'[other] = order[other]
      BY <1>0, <2>7, <3>1 DEF Commit, TypeOK
    <3>3. history'.crossed \subseteq history.crossed \cup {o}
      BY <1>0, <2>7 DEF Commit, TypeOK
    <3>4. /\ OrderAfter(r).status # "FREE"
          /\ order[o].status # "FREE" => SameItems(OrderAfter(r), order[o])
      BY <2>7, <3>1, AfterFits DEF Commit, CopyFits
    <3> HIDE DEF o
    <3>5. ItemsKept
      BY <3>2, <3>4 DEF ItemsKept, SameItems
    <3>6. \A s \in Requests : s # r /\ Busy(s) /\ Placing(s) =>
              request[s].order # o /\ request[s].order \in OrderIds
      BY <1>0, <3>1 DEF LedgerInv, CopiesFit, CopyFits, TypeOK, o
    <3>7. \A x \in history'.crossed : x \in history.crossed \/ order'[x].status # "FREE"
      BY <3>2, <3>3, <3>4
    <3> QED
      BY <2>7, <3>2, <3>5, <3>6, <3>7, FinishLedger DEF Commit
  <2>8. CASE DuplicateKey(r)
    BY <2>8, FinishLedger DEF DuplicateKey, ItemsKept, SameItems
  <2> QED
    BY <1>3, <2>1, <2>2, <2>3, <2>4, <2>5, <2>6, <2>7, <2>8 DEF Continue
<1>4. ASSUME NEW u \in Users, NEW g \in Guests, claimGuestOrders(u, g)
      PROVE  Rest'
  <2>1. UNCHANGED <<lock, request, history>>
    BY <1>4 DEF claimGuestOrders
  <2>2. \A o \in OrderIds : order'[o].status = order[o].status
                            /\ SameItems(order'[o], order[o])
    BY <1>0, <1>4 DEF claimGuestOrders, TypeOK, OrderRow, SameItems
  <2>3. ASSUME NEW s \in Requests, Busy(s)'
        PROVE  CopyFits(s)'
    <3>1. Busy(s) /\ CopyFits(s) /\ request[s].order \in OrderIds
      BY <1>0, <2>1, <2>3 DEF Busy, LedgerInv, CopiesFit, TypeOK
    <3>2. /\ order'[request[s].order].status = order[request[s].order].status
          /\ SameItems(order'[request[s].order], order[request[s].order])
      BY <2>2, <3>1
    <3> QED
      BY <2>1, <3>1, <3>2 DEF CopyFits, Placing, SameItems, Busy
  <2>4. CrossedPlaced'
    BY <1>0, <2>1, <2>2 DEF LedgerInv, CrossedPlaced, TypeOK
  <2> QED
    BY <2>1, <2>3, <2>4 DEF CopiesFit, LedgerInv, RowsLocked, Busy
<1>5. CASE Crash
  <2>1. \A r \in Requests : ~Busy(r)'
    BY <1>5 DEF Crash, Idle, Busy
  <2>2. UNCHANGED <<order, history>>
    BY <1>5 DEF Crash
  <2> QED
    BY <1>0, <2>1, <2>2 DEF LedgerInv, CopiesFit, RowsLocked, CrossedPlaced
<1> QED
  BY <1>0, <1>1, <1>2, <1>3, <1>4, <1>5 DEF Next, LedgerInv

\* The ledger invariant always holds, with no assumption on who overlaps whom.
THEOREM LedgerInvariant == Spec => []LedgerInv
<1>1. Init => LedgerInv
  <2> SUFFICES ASSUME Init PROVE LedgerInv
    OBVIOUS
  <2>1. (\A r \in Requests : ~Busy(r)) /\ history.crossed = {}
    BY DEF Init, Idle, Busy
  <2> QED
    BY <2>1, StockInit DEF LedgerInv, CopiesFit, RowsLocked, CrossedPlaced
<1> QED
  BY <1>1, LedgerStep, PTL DEF Spec

-----------------------------------------------------------------------------
(* The refinement *)

\* A painting that is marred stays marred.
LEMMA MarredGrows ==
    ASSUME LedgerInv, ItemsKept,
           history.skipped \subseteq history'.skipped,
           history.edited \subseteq history'.edited,
           history.crossed \subseteq history'.crossed
    PROVE  Marred \subseteq Marred'
<1>1. \A o \in history.crossed : InItems(order'[o].items) = InItems(order[o].items)
  BY DEF LedgerInv, StockInv, TypeOK, CrossedPlaced, ItemsKept, SameItems, InItems
<1> QED
  BY <1>1 DEF Marred

\* A step that moves no stock, but of what is marred, is a Lapse.
LEMMA LapseStep ==
    ASSUME Marred \subseteq Marred',
           \A p \in Paintings \ Marred' :
              painting'[p].amount = painting[p].amount
              /\ \A o \in OrderIds : Held(o)'[p] = Held(o)[p]
    PROVE  Ledger!Next
BY DEF Ledger!Next, Ledger!Lapse

\* A commit by which requests for one order cross moves stock of its items only,
\* and they are marred.
LEMMA CrossedCommit ==
    ASSUME LedgerInv, NEW r \in Requests, Commit(r), Crosses(r),
           NEW o \in OrderIds, o = request[r].order,
           Marred \subseteq Marred'
    PROVE  Ledger!Next
<1>0. TypeOK /\ Busy(r) /\ CopyFits(r) /\ AtEnd(r)
  BY DEF LedgerInv, StockInv, Commit, AtEnd, Busy, CopiesFit, TypeOK
<1>1. ~Placing(r)
  BY <1>0, AfterFits DEF Crosses, CopyFits
<1>2. /\ SameItems(OrderAfter(r), order[o])
      /\ SameItems(request[r].entity, order[o])
  BY <1>0, <1>1, AfterFits DEF CopyFits
<1>3. order' = [order EXCEPT ![o] = OrderAfter(r)]
  BY DEF Commit
<1>4. InItems(order[o].items) \subseteq Marred'
  <2>1. o \in history'.crossed
    BY <1>0 DEF Commit, TypeOK
  <2>2. InItems(order'[o].items) \subseteq Marred'
    BY <2>1 DEF Marred
  <2> QED
    BY <1>0, <1>2, <1>3, <2>2 DEF TypeOK, SameItems
<1>5. ASSUME NEW p \in Paintings \ Marred'
      PROVE  /\ painting'[p].amount = painting[p].amount
             /\ \A x \in OrderIds : Held(x)'[p] = Held(x)[p]
  <2>1. p \notin InItems(order[o].items)
    BY <1>4, <1>5
  <2>2. lock[p] # r
    BY <1>2, <2>1 DEF LedgerInv, StockInv, LocksHeld, Holding, SameItems
  <2>3. painting'[p] = painting[p]
    BY <2>2 DEF Commit
  <2>4. order[o].items[p] = 0 /\ order'[o].items[p] = 0
    <3>1. order[o].items \in Items
      BY <1>0 DEF TypeOK, OrderRow
    <3>2. order[o].items[p] \in Nat /\ ~(order[o].items[p] > 0)
      BY <2>1, <3>1, OrdersAssumption DEF InItems, Items
    <3> QED
      BY <1>0, <1>2, <1>3, <3>2 DEF TypeOK, SameItems
  <2>5. Held(o)'[p] = 0 /\ Held(o)[p] = 0
    BY <2>4 DEF Held, HeldBy, Live, IsRow, movesStock, NoItems
  <2>6. ASSUME NEW x \in OrderIds, x # o PROVE Held(x)' = Held(x)
    <3>1. order'[x] = order[x]
      BY <1>0, <1>3, <2>6 DEF TypeOK
    <3> QED
      BY <3>1 DEF Held, HeldBy, Live, IsRow, movesStock
  <2> QED
    BY <2>3, <2>5, <2>6
<1> QED
  BY <1>5, LapseStep

\* Any other commit is a Take, a GiveBack or a Lapse of the ledger.
LEMMA OwnCommit ==
    ASSUME LedgerInv, NEW r \in Requests, Commit(r), ~Crosses(r),
           NEW o \in OrderIds, o = request[r].order,
           Marred \subseteq Marred'
    PROVE  Ledger!Next
<1> DEFINE entity == request[r].entity
           move == request[r].move
<1>0. TypeOK /\ Busy(r) /\ CopyFits(r) /\ AtEnd(r)
  BY DEF LedgerInv, StockInv, Commit, AtEnd, Busy, CopiesFit, TypeOK
<1>1. entity \in OrderRow /\ order[o] \in OrderRow /\ OrderAfter(r) \in OrderRow
  BY <1>0, AfterType DEF TypeOK, Request
<1>2. /\ order[o].status = request[r].was
      /\ OrderAfter(r).status = entity.status
      /\ OrderAfter(r).items = entity.items
      /\ OrderAfter(r).isCommission = entity.isCommission
  BY <1>0, AfterFits DEF Crosses, CopyFits, SameItems
<1>3. /\ order'[o] = OrderAfter(r)
      /\ \A x \in OrderIds : x # o => order'[x] = order[x]
  BY <1>0 DEF Commit, TypeOK
<1>4. \A x \in OrderIds : x # o => Held(x)' = Held(x)
  BY <1>3 DEF Held, HeldBy, Live, IsRow, movesStock
<1>5. /\ Held(o)' = IF Live(entity) THEN entity.items ELSE NoItems
      /\ Held(o) = IF Live(order[o]) THEN order[o].items ELSE NoItems
  BY <1>2, <1>3 DEF Held, HeldBy, Live, IsRow, movesStock
<1>6. Live(order[o]) => order[o].items = entity.items
  BY <1>0 DEF CopyFits, SameItems, Live, IsRow, OrderStatus
<1>7. move = IF ~movesStock(entity) \/ (Live(order[o]) <=> Live(entity)) THEN "none"
             ELSE IF Live(entity) THEN "take" ELSE "give"
  <2>1. /\ [entity EXCEPT !.status = request[r].was].status = request[r].was
        /\ [entity EXCEPT !.status = request[r].was].isCommission = entity.isCommission
    BY <1>1 DEF OrderRow
  <2>2. Live([entity EXCEPT !.status = request[r].was])
           <=> IsRow(order[o]) /\ order[o].status # "CANCELLED" /\ ~entity.isCommission
    BY <1>2, <2>1 DEF Live, IsRow, movesStock
  <2>3. IsRow(order[o]) => order[o].isCommission = entity.isCommission
    BY <1>0 DEF CopyFits, SameItems, IsRow, OrderStatus
  <2>4. Live(order[o]) <=> Live([entity EXCEPT !.status = request[r].was])
    BY <2>2, <2>3 DEF Live, movesStock
  <2>5. move = MoveOf(request[r].was, entity)
    BY <1>0 DEF CopyFits
  <2>6. PICK was \in BOOLEAN, is \in BOOLEAN :
          /\ was = Live([entity EXCEPT !.status = request[r].was])
          /\ is = Live(entity)
    BY DEF Live, IsRow
  <2>7. move = IF ~movesStock(entity) THEN "none"
               ELSE IF was = is THEN "none" ELSE IF is THEN "take" ELSE "give"
    BY <2>5, <2>6, Zenon DEF MoveOf
  <2> QED
    BY <2>4, <2>6, <2>7
<1>8. ~movesStock(entity) => ~Live(order[o]) /\ ~Live(entity)
  BY <1>0 DEF CopyFits, SameItems, Live, IsRow, movesStock, OrderStatus
<1>9. \A p \in Paintings :
          /\ painting[p].amount \in Nat
          /\ entity.items[p] \in 0 .. MaxQty
          /\ painting'[p] = IF lock[p] = r THEN request[r].buffer[p] ELSE painting[p]
  BY <1>0, <1>1 DEF TypeOK, PaintingRow, OrderRow, Items, Commit
<1>10. ASSUME move # "none", NEW p \in Paintings
       PROVE  lock[p] = r <=> entity.items[p] > 0
  <2>1. lock[p] = r => p \in InItems(entity.items)
    BY DEF LedgerInv, StockInv, LocksHeld, Holding
  <2>2. p \in InItems(entity.items) => lock[p] = r
    BY <1>0, <1>10 DEF LedgerInv, RowsLocked, AtEnd
  <2> QED
    BY <2>1, <2>2 DEF InItems
<1>11. request[r].skips \subseteq Marred'
  BY <1>0 DEF Commit, TypeOK, Marred
<1>12. ASSUME move # "none", NEW p \in Paintings \ Marred'
       PROVE  IF move = "take"
              THEN /\ entity.items[p] <= painting[p].amount
                   /\ painting'[p].amount = painting[p].amount - entity.items[p]
              ELSE painting'[p].amount = painting[p].amount + entity.items[p]
  <2>1. CASE lock[p] = r
    <3>1. p \notin request[r].skips
      BY <1>11, <1>12
    <3> QED
      BY <1>9, <1>12, <2>1, <3>1 DEF LedgerInv, StockInv, LockedReadsHold
  <2>2. CASE lock[p] # r
    <3>1. ~(entity.items[p] > 0)
      BY <1>10, <1>12, <2>2
    <3>2. entity.items[p] = 0 /\ painting'[p] = painting[p] /\ painting[p].amount \in Nat
      BY <1>9, <2>2, <3>1, OrdersAssumption
    <3> HIDE DEF entity, move
    <3> QED
      BY <3>2
  <2> QED
    BY <2>1, <2>2
<1> HIDE DEF entity, move
<1>13. CASE move = "take"
  <2>1. Held(o) = NoItems /\ Held(o)' = entity.items
    BY <1>5, <1>7, <1>13
  <2>2. PICK units \in Ledger!Units : units = entity.items
    BY <1>1 DEF OrderRow, Items, Ledger!Units
  <2>3. ASSUME NEW p \in Paintings \ Marred'
        PROVE  /\ Held(o)[p] = 0 /\ units[p] <= painting[p].amount
               /\ painting'[p].amount = painting[p].amount + Held(o)[p] - units[p]
               /\ Held(o)'[p] = units[p]
    BY <1>9, <1>12, <1>13, <2>1, <2>2 DEF NoItems
  <2>4. Ledger!Holds(o, units)
    BY <1>0, <1>4, <2>3 DEF Ledger!Holds
  <2>5. Ledger!Take(o, units)
    BY <1>0, <2>3, <2>4 DEF Ledger!Take
  <2> QED
    BY <1>0, <2>5 DEF Ledger!Next
<1>14. CASE move = "give"
  <2>1. Held(o) = entity.items /\ Held(o)' = NoItems
    BY <1>5, <1>6, <1>7, <1>14
  <2>2. ASSUME NEW p \in Paintings \ Marred'
        PROVE  /\ painting'[p].amount = painting[p].amount + Held(o)[p] - 0
               /\ Held(o)'[p] = 0
    BY <1>9, <1>12, <1>14, <2>1 DEF NoItems
  <2>3. Ledger!Holds(o, Ledger!Nothing)
    BY <1>0, <1>4, <2>2 DEF Ledger!Holds, Ledger!Nothing
  <2> QED
    BY <1>0, <2>3 DEF Ledger!Next, Ledger!GiveBack
<1>15. CASE move = "none"
  <2>1. \A p \in Paintings : lock[p] # r
    BY <1>15 DEF LedgerInv, StockInv, LocksHeld, Holding, move
  <2>2. \A p \in Paintings : painting'[p] = painting[p]
    BY <1>9, <2>1
  <2>3. Live(order[o]) <=> Live(entity)
    BY <1>7, <1>8, <1>15
  <2>4. Held(o)' = Held(o)
    BY <1>5, <1>6, <2>3
  <2> QED
    BY <1>4, <2>2, <2>4, LapseStep
<1> QED
  BY <1>7, <1>13, <1>14, <1>15

\* Every step is a step of the ledger or leaves it alone.
LEMMA StepRefines ==
    ASSUME LedgerInv, [Next]_vars
    PROVE  Ledger!Next \/ UNCHANGED Ledger!ledger
<1>0. TypeOK
  BY DEF LedgerInv, StockInv
<1>1. ASSUME UNCHANGED <<painting, order, history>>
      PROVE  UNCHANGED Ledger!ledger
  BY <1>1 DEF Ledger!ledger, Held, HeldBy, Live, IsRow, movesStock, Marred, InItems
<1>2. CASE CartStep \/ UNCHANGED vars \/ Crash
  <2>1. UNCHANGED <<painting, order, history>>
    BY <1>2
    DEF CartStep, ClearCart, AddItem, RemoveItem, UpdateItem, CartEdit, vars, Crash
  <2> QED
    BY <1>1, <2>1
<1>3. ASSUME NEW r \in Requests, Start(r)
      PROVE  UNCHANGED Ledger!ledger
  <2>1. ASSUME NEW o \in OrderIds, NEW c \in Buyers,
               \/ \E provider \in Providers : checkout(r, c, o, provider)
               \/ \E p \in Paintings : createCommission(r, c, o, p)
               \/ cancel(r, c, o)
               \/ uploadPaymentProof(r, c, o)
        PROVE  UNCHANGED <<painting, order, history>>
    BY <2>1 DEF checkout, createCommission, cancel, uploadPaymentProof, Begin
  <2>2. ASSUME NEW o \in OrderIds,
               \/ \E status \in Statuses, ttn \in BOOLEAN :
                      updateStatusAdmin(r, o, status, ttn)
               \/ \E payment \in Payments :
                      updatePaymentStatusAdmin(r, o, payment)
               \/ archiveAdmin(r, o)
               \/ removeAdmin(r, o)
        PROVE  UNCHANGED <<painting, order, history>>
    BY <2>2
    DEF updateStatusAdmin, updatePaymentStatusAdmin, archiveAdmin, removeAdmin, Begin
  <2>3. UNCHANGED <<painting, order, history>>
    BY <1>3, <2>1, <2>2 DEF Start, update
  <2> QED
    BY <1>1, <2>3
<1>4. ASSUME NEW r \in Requests, Continue(r)
      PROVE  Ledger!Next \/ UNCHANGED Ledger!ledger
  <2>1. CASE Commit(r)
    <3>1. ItemsKept
      <4>1. /\ order' = [order EXCEPT ![request[r].order] = OrderAfter(r)]
            /\ Busy(r) /\ AtEnd(r)
        BY <2>1 DEF Commit, AtEnd, Busy
      <4>2. CopyFits(r)
        BY <4>1 DEF LedgerInv, CopiesFit
      <4> QED
        BY <1>0, <4>1, <4>2, AfterFits DEF ItemsKept, SameItems, TypeOK, CopyFits
    <3>2. /\ history.skipped \subseteq history'.skipped
          /\ history.edited \subseteq history'.edited
          /\ history.crossed \subseteq history'.crossed
      BY <1>0, <2>1 DEF Commit, TypeOK
    <3>3. Marred \subseteq Marred'
      BY <3>1, <3>2, MarredGrows
    <3>4. request[r].order \in OrderIds
      BY <1>0, <2>1 DEF Commit, AtEnd, Busy, TypeOK
    <3> QED
      BY <2>1, <3>3, <3>4, CrossedCommit, OwnCommit
  <2>2. ASSUME NEW p \in Paintings, SaveEdit(r, p)
        PROVE  Ledger!Next
    <3> DEFINE saved == SavedPainting(request[r].buffer[p],
                                      request[r].seen.painting[p], painting[p])
    <3>1. /\ painting' = [painting EXCEPT ![p] = saved]
          /\ history.skipped \subseteq history'.skipped
          /\ history.edited \subseteq history'.edited
          /\ history.crossed \subseteq history'.crossed
          /\ saved.amount = painting[p].amount \/ p \in history'.edited
          /\ UNCHANGED order
      BY <1>0, <2>2 DEF SaveEdit, TypeOK
    <3>2. ItemsKept
      BY <3>1 DEF ItemsKept, SameItems
    <3>3. Marred \subseteq Marred'
      BY <3>1, <3>2, MarredGrows
    <3> HIDE DEF saved
    <3>4. \A q \in Paintings \ Marred' : painting'[q].amount = painting[q].amount
      BY <1>0, <3>1 DEF Marred, TypeOK
    <3>5. \A o \in OrderIds : Held(o)' = Held(o)
      BY <3>1 DEF Held, HeldBy, Live, IsRow, movesStock
    <3> QED
      BY <3>3, <3>4, <3>5, LapseStep
  <2>3. CASE \/ UpstreamAnswers(r) \/ UpstreamFails(r) \/ Look(r) \/ DuplicateKey(r)
             \/ \E p \in Paintings : LockRow(r, p) \/ Refuse(r, p)
    BY <1>1, <2>3 DEF UpstreamAnswers, UpstreamFails, LockRow, Refuse, Look, DuplicateKey
  <2> QED
    BY <1>4, <2>1, <2>2, <2>3 DEF Continue
<1>5. ASSUME NEW u \in Users, NEW g \in Guests, claimGuestOrders(u, g)
      PROVE  Ledger!Next
  <2>1. \A o \in OrderIds : order'[o].status = order[o].status
                            /\ SameItems(order'[o], order[o])
    BY <1>0, <1>5 DEF claimGuestOrders, TypeOK, OrderRow, SameItems
  <2>2. \A o \in OrderIds : Held(o)' = Held(o)
    BY <2>1 DEF Held, HeldBy, Live, IsRow, movesStock, SameItems
  <2>3. UNCHANGED <<painting, history>>
    BY <1>5 DEF claimGuestOrders
  <2>4. Marred \subseteq Marred'
    BY <2>1, <2>3, MarredGrows DEF ItemsKept
  <2> QED
    BY <2>2, <2>3, <2>4, LapseStep
<1> QED
  BY <1>2, <1>3, <1>4, <1>5 DEF Next

\* Orders implements StockLedger.
THEOREM OrdersImplementLedger == Spec => LedgerSpec
<1>1. Init => Ledger!Init
  BY OrdersAssumption
  DEF Init, Ledger!Init, Ledger!Nothing, Held, HeldBy, Live, IsRow, Blank,
      OrderStatus, NoItems, Marred
<1>2. LedgerInv /\ [Next]_vars => [Ledger!Next]_(Ledger!ledger)
  BY StepRefines
<1> QED
  BY <1>1, <1>2, LedgerInvariant, PTL DEF Spec, LedgerSpec, Ledger!Spec

-----------------------------------------------------------------------------
(* No unit is lost *)

\* What one term of a sum grows by, another number may give away.
LEMMA SumKeepsTotal ==
    ASSUME NEW S, IsFiniteSet(S), NEW f \in [S -> Int], NEW g \in [S -> Int],
           NEW o \in S, \A x \in S : x # o => g[x] = f[x],
           NEW a \in Int, NEW b \in Int, b = a - (g[o] - f[o])
    PROVE  b + SumFunction(g) = a + SumFunction(f)
<1>1. SumFunction(f) \in Int /\ SumFunction(g) = SumFunction(f) + (g[o] - f[o])
  BY SumChanges, Zenon
<1>2. g[o] \in Int /\ f[o] \in Int
  OBVIOUS
<1> QED BY <1>1, <1>2

\* The ledger counts with the same sums as the lemmas above.
LEMMA SameSum ==
    ASSUME NEW f
    PROVE  Ledger!SumFunction(f) = SumFunction(f)
BY DEF Ledger!SumFunction, Ledger!SumFunctionOnSet, Ledger!FoldFunctionOnSet,
       Ledger!MapThenFoldSet, SumFunction, SumFunctionOnSet, FoldFunctionOnSet,
       MapThenFoldSet

\* The units of a painting: those on the shelf and those in live orders.
TotalOf(p) == painting[p].amount + SumFunction([o \in OrderIds |-> Held(o)[p]])

\* The ledger conserves what this sum counts.
LEMMA ConservedIs ==
    NoUnitLost <=> \A p \in Paintings \ Marred : TotalOf(p) = Shelf[p]
BY SameSum DEF NoUnitLost, Ledger!Conservation, TotalOf

\* The terms of the sum are numbers.
LEMMA UnitsType ==
    ASSUME TypeOK, NEW p \in Paintings
    PROVE  /\ painting[p].amount \in Int
           /\ [o \in OrderIds |-> Held(o)[p]] \in [OrderIds -> Int]
<1>1. ASSUME NEW o \in OrderIds PROVE Held(o)[p] \in Int
  <2>1. order[o].items \in Items
    BY DEF TypeOK, OrderRow
  <2> QED
    BY <2>1, OrdersAssumption DEF Held, HeldBy, NoItems, Items
<1>2. painting[p].amount \in Int
  BY DEF TypeOK, PaintingRow
<1> QED
  BY <1>1, <1>2

\* An order that changes what it holds of an unmarred painting changes the
\* shelf by as much.
LEMMA HoldsKeeps ==
    ASSUME TypeOK, TypeOK', NEW o \in OrderIds, NEW units \in [Paintings -> Int],
           Ledger!Holds(o, units), NEW p \in Paintings \ Marred'
    PROVE  TotalOf(p)' = TotalOf(p)
<1>1. /\ painting'[p].amount = painting[p].amount + Held(o)[p] - units[p]
      /\ Held(o)'[p] = units[p]
      /\ \A other \in OrderIds \ {o} : Held(other)'[p] = Held(other)[p]
  BY DEF Ledger!Holds
<1>2. PICK f, g : /\ f = [x \in OrderIds |-> Held(x)[p]]
                  /\ g = [x \in OrderIds |-> Held(x)'[p]]
  OBVIOUS
<1>3. PICK before, after : before = painting[p].amount /\ after = painting'[p].amount
  OBVIOUS
<1>4. f \in [OrderIds -> Int] /\ before \in Int
  BY <1>2, <1>3, UnitsType
<1>5. g \in [OrderIds -> Int] /\ after \in Int
  <2>1. painting'[p].amount \in Int
    BY DEF TypeOK, PaintingRow
  <2>2. ASSUME NEW x \in OrderIds PROVE Held(x)'[p] \in Int
    BY <1>1, <1>2, <1>4
  <2> QED
    BY <1>2, <1>3, <2>1, <2>2
<1>6. (\A x \in OrderIds : x # o => g[x] = f[x]) /\ g[o] = units[p] /\ f[o] = Held(o)[p]
  BY <1>1, <1>2
<1>7. after = before - (g[o] - f[o])
  BY <1>1, <1>3, <1>4, <1>5, <1>6
<1>8. after + SumFunction(g) = before + SumFunction(f)
  BY <1>4, <1>5, <1>6, <1>7, SumKeepsTotal, OrdersAssumption, SMT
<1> QED
  BY <1>2, <1>3, <1>8 DEF TotalOf

\* A step that moves nothing of a painting keeps its total.
LEMMA SameTotal ==
    ASSUME NEW p \in Paintings, painting'[p].amount = painting[p].amount,
           \A o \in OrderIds : Held(o)'[p] = Held(o)[p]
    PROVE  TotalOf(p)' = TotalOf(p)
<1>1. [o \in OrderIds |-> Held(o)'[p]] = [o \in OrderIds |-> Held(o)[p]]
  OBVIOUS
<1> QED
  BY <1>1 DEF TotalOf

\* No unit of a painting is created or lost, but for those of marred paintings.
THEOREM NoUnitIsEverLost == Spec => []NoUnitLost
<1>1. Init => NoUnitLost
  <2> SUFFICES ASSUME Init, NEW p \in Paintings PROVE TotalOf(p) = Shelf[p]
    BY ConservedIs
  <2>1. \A o \in OrderIds : Held(o)[p] = 0
    BY DEF Init, Held, HeldBy, Live, IsRow, Blank, OrderStatus, NoItems
  <2>2. [o \in OrderIds |-> Held(o)[p]] = [o \in OrderIds |-> 0]
    BY <2>1
  <2>3. SumFunction([o \in OrderIds |-> 0]) = 0
    BY OrdersAssumption, SumOfNothing
  <2>4. painting[p].amount = Shelf[p] /\ Shelf[p] \in Nat
    BY OrdersAssumption DEF Init
  <2> QED
    BY <2>2, <2>3, <2>4 DEF TotalOf
<1>2. ASSUME LedgerInv, [Next]_vars, NoUnitLost
      PROVE  NoUnitLost'
  <2>0. TypeOK /\ TypeOK'
    BY <1>2, TypeStep DEF LedgerInv, StockInv
  <2>1. ASSUME Marred \subseteq Marred',
               \A p \in Paintings \ Marred' : TotalOf(p)' = TotalOf(p)
        PROVE  NoUnitLost'
    <3>1. \A p \in Paintings \ Marred' : TotalOf(p)' = Shelf[p]
      BY <1>2, <2>1, ConservedIs
    <3> QED
      BY <3>1, SameSum DEF NoUnitLost, Ledger!Conservation, TotalOf
  <2>2. CASE UNCHANGED Ledger!ledger
    BY <1>2, <2>2 DEF NoUnitLost, Ledger!Conservation, Ledger!ledger
  <2>3. ASSUME NEW o \in OrderIds, NEW units \in [Paintings -> Int],
               Ledger!Holds(o, units)
        PROVE  NoUnitLost'
    <3>1. Marred \subseteq Marred'
      BY <2>3 DEF Ledger!Holds
    <3> QED
      BY <2>0, <2>1, <2>3, <3>1, HoldsKeeps
  <2>4. ASSUME NEW o \in OrderIds, NEW units \in Ledger!Units, Ledger!Take(o, units)
        PROVE  NoUnitLost'
    <3>1. units \in [Paintings -> Int] /\ Ledger!Holds(o, units)
      BY <2>4, OrdersAssumption DEF Ledger!Units, Ledger!Take
    <3> QED
      BY <2>3, <3>1
  <2>5. ASSUME NEW o \in OrderIds, Ledger!GiveBack(o)
        PROVE  NoUnitLost'
    <3>1. Ledger!Nothing \in [Paintings -> Int] /\ Ledger!Holds(o, Ledger!Nothing)
      BY <2>5 DEF Ledger!Nothing, Ledger!GiveBack
    <3> HIDE DEF Ledger!Nothing
    <3> QED
      BY <2>3, <3>1
  <2>6. CASE Ledger!Lapse
    <3>1. Marred \subseteq Marred'
      BY <2>6 DEF Ledger!Lapse
    <3>2. ASSUME NEW p \in Paintings \ Marred'
          PROVE  /\ painting'[p].amount = painting[p].amount
                 /\ \A o \in OrderIds : Held(o)'[p] = Held(o)[p]
      BY <2>6 DEF Ledger!Lapse
    <3> QED
      BY <2>1, <3>1, <3>2, SameTotal
  <2> QED
    BY <1>2, <2>2, <2>4, <2>5, <2>6, StepRefines DEF Ledger!Next
<1> QED
  BY <1>1, <1>2, LedgerInvariant, PTL DEF Spec

=============================================================================
