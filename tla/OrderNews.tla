----------------------------- MODULE OrderNews -----------------------------
(***************************************************************************)
(* What the customer of an order is told: the letters that OrdersService   *)
(* sends after a change of an order.                                       *)
(*                                                                         *)
(* A handler reads the order, decides, saves it and answers.  What it has  *)
(* to say is left to a job nobody waits for: it looks up the recipient,    *)
(* asks the outbox whether the letter went before, and queues it.  Each    *)
(* step of a job is an await, so the jobs of several requests run between  *)
(* each other and between the changes of the row, and a crash loses them   *)
(* all.  The Telegram message that goes with it reaches the accounts that  *)
(* linked a chat; it is sent and forgotten, and left out.                  *)
(*                                                                         *)
(* Orders models the row, its stock and its locks; MailOutbox what becomes *)
(* of a queued letter, which here is only delivered or given up.           *)
(***************************************************************************)
EXTENDS Integers

CONSTANTS
    Requests,  \* requests, with their jobs, in progress at once (bound)
    Statuses,  \* the statuses the admin asks for (workload)
    Payments,  \* the payment statuses the admin asks for (workload)
    Waybills,  \* the waybill numbers the admin types; 0 is none
    MaxOps     \* requests made in a behaviour (bound)

VARIABLES
    row,      \* the order: one row of the orders table
    outbox,   \* mail_outbox: the letters about this order
    request,  \* the handlers, and the jobs they left behind
    been,     \* history: what the row has said, as <<status, waybill>>
    excused,  \* history: a letter was lost in a way the code accepts
    ops       \* requests made so far (bound by MaxOps)

vars == <<row, outbox, request, been, excused, ops>>

NewsAssumption ==
    /\ Statuses \subseteq {"CONFIRMED", "SHIPPED", "COMPLETED", "CANCELLED"}
    /\ Payments \subseteq {"PAID", "FAILED"}
    /\ Waybills \subseteq Nat \ {0}
    /\ MaxOps \in Nat

-----------------------------------------------------------------------------
(* Rows *)

Row ==
    [status : {"PENDING", "CONFIRMED", "SHIPPED", "COMPLETED", "CANCELLED",
               "REMOVED"},
     payment : {"PENDING", "PAID", "FAILED"},
     waybill : Waybills \cup {0},
     isCommission : BOOLEAN]

Kinds ==
    {"placed", "commission", "proof", "paid", "failed", "shipped",
     "completed", "cancelled", "apology"}

\* `live' is a row that is pending, sending or sent; the others nobody read.
Letter ==
    [kind : Kinds, waybill : Waybills \cup {0}, live : BOOLEAN]

\* letter: the step the letter job is at.  kind: the letter it is about.
Request ==
    [op : {"none", "place", "status", "payment", "cancel", "proof", "force",
           "apology"},
     at : {"idle", "read", "upload", "decided", "answered"},
     entity : Row,
     status : Statuses \cup {"PENDING", "PAID", "FAILED"},
     kind : Kinds \cup {"none"},
     letter : {"none", "fetch", "recipient", "dedupe", "queue"}]

Placed(isCommission) ==
    [status |-> "PENDING", payment |-> "PENDING", waybill |-> 0,
     isCommission |-> isCommission]

Idle ==
    [op |-> "none", at |-> "idle", entity |-> Placed(FALSE),
     status |-> "PENDING", kind |-> "none", letter |-> "none"]

TypeOK ==
    /\ row \in Row
    /\ outbox \subseteq Letter
    /\ request \in [Requests -> Request]
    /\ excused \in BOOLEAN
    /\ ops \in 0 .. MaxOps

There == row.status # "REMOVED"

-----------------------------------------------------------------------------
(* The letters *)

\* emailStatusChange and statusMail: the letter of an order's status.
StatusLetter(entity) ==
    CASE entity.status = "SHIPPED" /\ entity.waybill # 0 -> "shipped"
      [] entity.status = "COMPLETED" -> "completed"
      [] entity.status = "CANCELLED" -> "cancelled"
      [] OTHER -> "none"

\* What statusMail sends on demand: as above, and the receipt again.
DemandLetter(entity) ==
    IF entity.status = "PENDING" THEN "placed" ELSE StatusLetter(entity)

\* updatePaymentStatusAdmin: PENDING says nothing.
PaymentLetter(payment) ==
    CASE payment = "PAID" -> "paid"
      [] payment = "FAILED" -> "failed"
      [] OTHER -> "none"

\* The templates.  What a letter can say that was never so is the status it is
\* about and the waybill; the rest of the wording is left out.
Template(kind, waybill) == [kind |-> kind, live |-> TRUE, waybill |-> waybill]

sendOrderPlaced(entity) == Template("placed", 0)
sendCommissionPlaced(entity) == Template("commission", 0)
sendPaymentProofReceived(entity) == Template("proof", 0)
sendPaymentConfirmed(entity) == Template("paid", 0)
sendPaymentFailed(entity) == Template("failed", 0)
sendOrderShipped(entity) == Template("shipped", entity.waybill)
sendOrderCompleted(entity) == Template("completed", 0)
sendOrderCancelled(entity) == Template("cancelled", 0)
sendOrderApology(entity) == Template("apology", 0)

Compose(r) ==
    CHOOSE l \in {sendOrderPlaced(r.entity), sendCommissionPlaced(r.entity),
                  sendPaymentProofReceived(r.entity), sendPaymentConfirmed(r.entity),
                  sendPaymentFailed(r.entity), sendOrderShipped(r.entity),
                  sendOrderCompleted(r.entity), sendOrderCancelled(r.entity),
                  sendOrderApology(r.entity)} : l.kind = r.kind

\* Mutation of alreadySent: a letter that was given up counts as well.
EverTried(kind) == \E l \in outbox : l.kind = kind

\* alreadySent: queued, in flight or delivered counts.
alreadySent(kind) == \E l \in outbox : l.kind = kind /\ l.live

-----------------------------------------------------------------------------
(* The handlers *)

New(r) ==
    /\ request[r].at = "idle"
    /\ ops < MaxOps
    /\ There
    /\ ops' = ops + 1

\* The handler has read the order; its entity is this copy of the row.
Starts(r, op, status) ==
    /\ New(r)
    /\ request' = [request EXCEPT ![r] =
           [Idle EXCEPT !.op = op, !.at = "read", !.entity = row,
                        !.status = status]]
    /\ UNCHANGED <<row, outbox, been, excused>>

\* After the save: the handler answers, and the letter job starts at `step'
\* with the entity that was saved.
Announced(r, entity, kind, step) ==
    IF kind = "none" THEN Idle
    ELSE [request[r] EXCEPT !.at = "answered", !.entity = entity,
                            !.kind = kind, !.letter = step]

\* save() writes the columns in which the entity differs from the row it
\* finds, which brings back what the entity still has.  A row that is gone
\* is written again.
Saved(entity) ==
    /\ row' = entity
    /\ been' = been \cup {<<entity.status, entity.waybill>>}

\* checkout and createCommission, which Orders models: the order is there,
\* and its receipt is on the way.
Place(r) ==
    /\ request[r].op = "place"
    /\ request[r].at = "read"
    /\ request' = [request EXCEPT ![r] =
           Announced(r, row, IF row.isCommission THEN "commission"
                             ELSE "placed", "fetch")]
    /\ UNCHANGED <<row, outbox, been, excused, ops>>

\* emailOrderPlaced and emailCommissionPlaced read the order once more.
fetchPlaced(r) ==
    /\ request[r].letter = "fetch"
    /\ request' = [request EXCEPT ![r] =
           IF There THEN [request[r] EXCEPT !.entity = row,
                                            !.letter = "recipient"]
           ELSE Idle]
    /\ excused' = (excused \/ ~There)
    /\ UNCHANGED <<row, outbox, been, ops>>

\* updateStatusAdmin, up to what it saves: a waybill is wanted for SHIPPED,
\* and the status the order has already is no change.
updateStatusAdmin(r) ==
    /\ request[r].op = "status"
    /\ request[r].at = "read"
    /\ LET e == request[r].entity IN
       IF e.status = request[r].status
       THEN request' = [request EXCEPT ![r] = Idle]
       ELSE \E w \in IF request[r].status = "SHIPPED" THEN Waybills
                     ELSE {e.waybill} :
                request' = [request EXCEPT ![r] =
                    [request[r] EXCEPT !.at = "decided",
                                       !.entity.waybill = w]]
    /\ UNCHANGED <<row, outbox, been, excused, ops>>

\* Mutation of saveStatus: the letter goes first, the stock is taken after.
LetterFirst(r) ==
    /\ request[r].op = "status"
    /\ request[r].at = "decided"
    /\ LET e == [request[r].entity EXCEPT !.status = request[r].status] IN
       /\ request' = [request EXCEPT ![r] =
              Announced(r, e, StatusLetter(e), "recipient")]
       /\ \/ Saved(e)
          \/ UNCHANGED <<row, been>>
    /\ UNCHANGED <<outbox, excused, ops>>

\* The save, in a transaction with the stock if the order is cancelled or
\* brought back: then the stock may be gone, and nothing has changed.
saveStatus(r) ==
    /\ request[r].op = "status"
    /\ request[r].at = "decided"
    /\ LET e == [request[r].entity EXCEPT !.status = request[r].status] IN
       \/ /\ request' = [request EXCEPT ![r] =
                 Announced(r, e, StatusLetter(e), "recipient")]
          /\ Saved(e)
       \/ /\ request[r].entity.status = "CANCELLED"
          /\ request' = [request EXCEPT ![r] = Idle]
          /\ UNCHANGED <<row, been>>
    /\ UNCHANGED <<outbox, excused, ops>>

\* updatePaymentStatusAdmin.  Its Telegram message is not about a status.
updatePaymentStatusAdmin(r) ==
    /\ request[r].op = "payment"
    /\ request[r].at = "read"
    /\ LET e == [request[r].entity EXCEPT !.payment = request[r].status] IN
       /\ Saved(e)
       /\ request' = [request EXCEPT ![r] =
              Announced(r, e, PaymentLetter(e.payment), "recipient")]
    /\ UNCHANGED <<outbox, excused, ops>>

\* cancel: what the customer may cancel.  No letter: only Telegram is told.
cancel(r) ==
    /\ request[r].op = "cancel"
    /\ request[r].at = "read"
    /\ LET e == [request[r].entity EXCEPT !.status = "CANCELLED"] IN
       IF request[r].entity.status \in {"PENDING", "CONFIRMED"}
       THEN /\ Saved(e)
            /\ request' = [request EXCEPT ![r] =
                   Announced(r, e, "none", "none")]
       ELSE /\ request' = [request EXCEPT ![r] = Idle]
            /\ UNCHANGED <<row, been>>
    /\ UNCHANGED <<outbox, excused, ops>>

\* uploadPaymentProof: the image host is waited for, and may fail.
upload(r) ==
    /\ request[r].op = "proof"
    /\ request[r].at = "read"
    /\ \/ request' = [request EXCEPT ![r].at = "upload"]
       \/ request' = [request EXCEPT ![r] = Idle]
    /\ UNCHANGED <<row, outbox, been, excused, ops>>

\* save() after the upload, with the entity read before it.
uploadPaymentProof(r) ==
    /\ request[r].op = "proof"
    /\ request[r].at = "upload"
    /\ Saved(request[r].entity)
    /\ request' = [request EXCEPT ![r] =
           Announced(r, request[r].entity, "proof", "recipient")]
    /\ UNCHANGED <<outbox, excused, ops>>

\* sendStatusMailAdmin and sendApologyMailAdmin wait for their letter: it is
\* looked up and queued like the others, but with `force'.
sendMailAdmin(r) ==
    /\ request[r].op \in {"force", "apology"}
    /\ request[r].at = "read"
    /\ LET e == request[r].entity
           kind == IF request[r].op = "apology" THEN "apology"
                   ELSE DemandLetter(e)
       IN request' = [request EXCEPT ![r] =
              Announced(r, e, kind, "recipient")]
    /\ UNCHANGED <<row, outbox, been, excused, ops>>

-----------------------------------------------------------------------------
(* The jobs *)

\* recipientOf: the account's address, or the one the guest typed.  The
\* account may be gone.  What the admin sends by hand is never deduplicated.
recipientOf(r) ==
    /\ request[r].letter = "recipient"
    /\ \/ /\ request' = [request EXCEPT ![r].letter =
                 IF request[r].op \in {"force", "apology"} THEN "queue" ELSE "dedupe"]
          /\ UNCHANGED excused
       \/ /\ request' = [request EXCEPT ![r] = Idle]
          /\ excused' = TRUE
    /\ UNCHANGED <<row, outbox, been, ops>>

\* send: the letter went before, or it is to be queued.
dedupe(r) ==
    /\ request[r].letter = "dedupe"
    /\ request' = [request EXCEPT ![r] =
           IF alreadySent(request[r].kind) THEN Idle
           ELSE [request[r] EXCEPT !.letter = "queue"]]
    /\ UNCHANGED <<row, outbox, been, excused, ops>>

\* The row is inserted, or the insert fails and only the log knows.
queue(r) ==
    /\ request[r].letter = "queue"
    /\ request' = [request EXCEPT ![r] = Idle]
    /\ \/ /\ outbox' = outbox \cup {Compose(request[r])}
          /\ UNCHANGED excused
       \/ /\ excused' = TRUE
          /\ UNCHANGED outbox
    /\ UNCHANGED <<row, been, ops>>

-----------------------------------------------------------------------------
(* What else happens to the order and its letters *)

\* removeAdmin: only a cancelled order, and nobody is told.
removeAdmin ==
    /\ row.status = "CANCELLED"
    /\ row' = [row EXCEPT !.status = "REMOVED"]
    /\ UNCHANGED <<outbox, request, been, excused, ops>>

\* The dispatcher gives a letter up.
GiveUp ==
    \E l \in outbox :
        /\ l.live
        /\ outbox' = (outbox \ {l}) \cup {[l EXCEPT !.live = FALSE]}
        /\ UNCHANGED <<row, request, been, excused, ops>>

\* The process ends: handlers and jobs are lost.
Crash ==
    /\ \E r \in Requests : request[r] # Idle
    /\ request' = [r \in Requests |-> Idle]
    /\ excused' = TRUE
    /\ UNCHANGED <<row, outbox, been, ops>>

-----------------------------------------------------------------------------

\* The request that placed the order: any one, they are alike.
First == CHOOSE r \in Requests : TRUE

\* The order was just placed, and its handler is about to say so.
Init ==
    /\ \E isCommission \in BOOLEAN : row = Placed(isCommission)
    /\ outbox = {}
    /\ request = [q \in Requests |->
           IF q = First THEN [Idle EXCEPT !.op = "place", !.at = "read"]
           ELSE Idle]
    /\ been = {<<"PENDING", 0>>}
    /\ excused = FALSE
    /\ ops = 0

Begin(r) ==
    \/ \E s \in Statuses : Starts(r, "status", s)
    \/ \E p \in Payments : Starts(r, "payment", p)
    \/ \E op \in {"cancel", "proof", "force", "apology"} :
           Starts(r, op, "PENDING")

Work(r) ==
    \/ Place(r)
    \/ fetchPlaced(r)
    \/ updateStatusAdmin(r)
    \/ saveStatus(r)
    \/ updatePaymentStatusAdmin(r)
    \/ cancel(r)
    \/ upload(r)
    \/ uploadPaymentProof(r)
    \/ sendMailAdmin(r)
    \/ recipientOf(r)
    \/ dedupe(r)
    \/ queue(r)

Next ==
    \/ \E r \in Requests : Begin(r) \/ Work(r)
    \/ removeAdmin
    \/ GiveUp
    \/ Crash

Spec == Init /\ [][Next]_vars

\* The event loop and the database come to every await that is answered.
FairSpec == Spec /\ \A r \in Requests : WF_vars(Work(r))

-----------------------------------------------------------------------------
(* Properties *)

\* The status a letter of the kind speaks of.
Says(l) ==
    CASE l.kind = "shipped" -> {<<"SHIPPED", l.waybill>>}
      [] l.kind = "completed" -> {<<"COMPLETED", w>> : w \in Waybills \cup {0}}
      [] l.kind = "cancelled" -> {<<"CANCELLED", w>> : w \in Waybills \cup {0}}
      [] OTHER -> {<<"PENDING", 0>>}

\* No customer is written of a status the order has not had, or of a waybill
\* it was not sent with: whatever changes overlap, and although bringing a
\* cancelled order back may fail on its stock.
LettersAreTrue == \A l \in outbox : Says(l) \cap been # {}

Owes(r, kind) ==
    /\ request[r].at = "answered"
    /\ request[r].op = "status"
    /\ kind = CASE request[r].entity.status = "SHIPPED" -> "shipped"
                [] request[r].entity.status = "COMPLETED" -> "completed"
                [] request[r].entity.status = "CANCELLED" -> "cancelled"
                [] OTHER -> "none"
    /\ request[r].letter # "none"

Readable(kind) == \E l \in outbox : l.kind = kind /\ l.live

\* Whoever's order the admin ships, completes or cancels has a letter of it
\* that somebody can read, although each letter goes once only and an earlier
\* one may have been given up: unless the order has nobody to write to, the
\* process ended, or the outbox refused the row.
CustomerIsTold ==
    \A r \in Requests, kind \in {"shipped", "completed", "cancelled"} :
        Owes(r, kind) ~> (Readable(kind) \/ excused)

\* What a comment in cancel() says: a cancellation by the customer is
\* confirmed as the admin's is.
CancelIsConfirmed ==
    (row.status = "CANCELLED" /\ \A r \in Requests : request[r] = Idle)
        => excused \/ \E l \in outbox : l.kind = "cancelled"
=============================================================================
