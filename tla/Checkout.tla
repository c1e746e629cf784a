------------------------------ MODULE Checkout ------------------------------
(***************************************************************************)
(* What delivery costs: the cart page (CartPage) with its choice of city   *)
(* and of payment, the quote that it shows and keeps under a key, and the  *)
(* quote that checkout asks for itself, from the cart it finds.  The       *)
(* carrier, Nova Poshta, may refuse any call.                              *)
(*                                                                         *)
(* A quote stands for what it is computed from; two are the same price if  *)
(* they agree in all of it.  Stock and the order's life are in Orders.     *)
(***************************************************************************)
EXTENDS Integers, FiniteSets, Functions

CONSTANTS
    Works,     \* paintings of the shop (bound)
    Cities,    \* with one warehouse each
    Prices,
    MaxEvents  \* carrier's refusals, changes by others, losses (bound)

VARIABLES
    shop,  \* price of each work, the cart's row, the carrier's tariff, the sender's city
    page,  \* the page's copy of the cart, what is chosen, whether it sends the order
    kept,  \* the quotes in the query cache: sets of [key, quote]
    ask,   \* the page's request for a quote
    call,  \* POST /orders/checkout
    order, \* the last order that was saved
    ghost  \* history: events so far, whether others changed the shop

vars == <<shop, page, kept, ask, call, order, ghost>>

None == "none"
NoQuote == [city |-> None, cod |-> FALSE, works |-> {}, cost |-> 0, tariff |-> 0]
NoCall == [at |-> "none", city |-> None, cod |-> FALSE, items |-> {}, cost |-> 0,
           quote |-> NoQuote, answer |-> None,
           shown |-> [cart |-> {}, total |-> 0, quote |-> NoQuote]]
NoOrder == [items |-> {}, itemsTotal |-> 0, city |-> None, cod |-> FALSE, fee |-> NoQuote,
            shown |-> NoCall.shown, others |-> FALSE]
NoAsk == [at |-> "none", key |-> None, quote |-> NoQuote]
placed == order # NoOrder

CostOf(works) == SumFunctionOnSet(shop.price, works)

\* getDocumentPrice() for a weight and a cost, with or without the redelivery.
Quote(city, cod, works, cost) ==
    [city |-> city, cod |-> cod, works |-> works, cost |-> cost, tariff |-> shop.tariff]

\* Nothing but the cart's copy outlives the page.
Mounted(cart, total) ==
    [cart |-> cart, total |-> total, city |-> None, warehouse |-> None, provider |-> None,
     pending |-> FALSE]

Cheapest == CHOOSE p \in Prices : \A other \in Prices : p <= other

Init ==
    /\ \E sender \in BOOLEAN :
         shop = [price |-> [w \in Works |-> Cheapest], cart |-> Works, gone |-> {},
                 tariff |-> 1, sender |-> sender]
    /\ page = Mounted(shop.cart, CostOf(shop.cart))
    /\ kept = {}
    /\ ask = NoAsk
    /\ call = NoCall
    /\ order = NoOrder
    /\ ghost = [events |-> 0, others |-> FALSE]

-----------------------------------------------------------------------------
(* The shop, changed by others. *)

Event == ghost.events < MaxEvents /\ ghost' = [ghost EXCEPT !.events = @ + 1]

Others(next) ==
    /\ next # shop
    /\ ghost.events < MaxEvents
    /\ ghost' = [events |-> ghost.events + 1, others |-> TRUE]
    /\ shop' = next
    /\ UNCHANGED <<page, kept, ask, call, order>>

SetPrice(w, p) == Others([shop EXCEPT !.price[w] = p])
Sell(w) == Others([shop EXCEPT !.gone = @ \cup {w}])
SetTariff == Others([shop EXCEPT !.tariff = 2])
SetSender(known) == Others([shop EXCEPT !.sender = known])
OtherTab(w) == Others([shop EXCEPT !.cart = IF w \in @ THEN @ \ {w} ELSE @ \cup {w}])

-----------------------------------------------------------------------------
(* The page. *)

PickCity(city) ==
    /\ page' = [page EXCEPT !.city = city, !.warehouse = None]
    /\ UNCHANGED <<shop, kept, ask, call, order, ghost>>

\* Of those listed for the city; none are when the carrier was out.
PickWarehouse ==
    /\ page.city # None
    /\ page' = [page EXCEPT !.warehouse = page.city]
    /\ UNCHANGED <<shop, kept, ask, call, order, ghost>>

ChooseProvider(provider) ==
    /\ page' = [page EXCEPT !.provider = provider]
    /\ UNCHANGED <<shop, kept, ask, call, order, ghost>>

\* Removed here, or put into the cart again on the work's own page.
ChangeCart(w) ==
    /\ shop' = [shop EXCEPT !.cart = IF w \in @ THEN @ \ {w} ELSE @ \cup {w}]
    /\ page' = IF w \in shop.cart THEN page ELSE Mounted(page.cart, page.total)
    /\ page.pending => w \in shop.cart
    /\ w \in shop.cart => w \in page.cart
    /\ UNCHANGED <<kept, ask, call, order, ghost>>

RefetchCart ==
    /\ page' = [page EXCEPT !.cart = shop.cart, !.total = CostOf(shop.cart)]
    /\ UNCHANGED <<shop, kept, ask, call, order, ghost>>

cod == page.provider = "CASH_ON_DELIVERY"

\* Mutation of key: the key of the city alone.
KeyOfCity == [city |-> page.city, cod |-> TRUE, total |-> page.total]
key == [city |-> page.city, cod |-> cod, total |-> page.total]

deliveryPrice ==
    LET found == {entry.quote : entry \in {e \in kept : e.key = key}}
    IN IF page.city = None \/ found = {} THEN NoQuote ELSE CHOOSE q \in found : TRUE

\* An entry older than a minute is asked for again, and shown meanwhile.
AskPrice ==
    /\ page.city # None
    /\ ask.at = "none"
    /\ ask' = [NoAsk EXCEPT !.at = "sent", !.key = key]
    /\ UNCHANGED <<shop, page, kept, call, order, ghost>>

\* calculateDeliveryPriceForIdentity(): from the cart of this moment.
ServePrice ==
    /\ ask.at = "sent"
    /\ shop.cart = {} \/ shop.sender
    /\ ask' = [ask EXCEPT !.at = "answered",
               !.quote = IF shop.cart = {} THEN NoQuote
                         ELSE Quote(ask.key.city, ask.key.cod, shop.cart, CostOf(shop.cart))]
    /\ UNCHANGED <<shop, page, kept, call, order, ghost>>

\* Of no use to the page, which shows no price then.
FailPrice ==
    /\ ask.at \in {"sent", "answered"}
    /\ IF ask.at = "sent" /\ ~shop.sender /\ shop.cart # {} THEN UNCHANGED ghost ELSE Event
    /\ ask' = NoAsk
    /\ UNCHANGED <<shop, page, kept, call, order>>

DeliverPrice ==
    /\ ask.at = "answered"
    /\ kept' = {entry \in kept : entry.key # ask.key} \cup
               (IF ask.quote = NoQuote THEN {} ELSE {[key |-> ask.key, quote |-> ask.quote]})
    /\ ask' = NoAsk
    /\ UNCHANGED <<shop, page, call, order, ghost>>

\* The quote need not be there, and a refused order may be sent again.
handleCheckout ==
    /\ ~page.pending
    /\ page.cart # {}
    /\ page.provider # None
    /\ page.city # None
    /\ page.warehouse # None
    /\ page' = [page EXCEPT !.pending = TRUE]
    /\ call' = [NoCall EXCEPT !.at = "resolve", !.city = page.city, !.cod = cod,
                   !.shown = [cart |-> page.cart, total |-> page.total, quote |-> deliveryPrice]]
    /\ UNCHANGED <<shop, kept, ask, order, ghost>>

-----------------------------------------------------------------------------
(* OrdersService.checkout(). *)

Refuse(why) == call' = [call EXCEPT !.at = "answered", !.answer = why]

\* callNovaPoshta(): a call that the carrier refuses is a 503.
Unavailable == Refuse("unavailable") /\ Event

\* Both are asked at once; the list of warehouses is empty if it is refused.
Resolve ==
    /\ call.at = "resolve"
    /\ \/ Unavailable
       \/ Refuse("pickAgain") /\ Event
       \/ call' = [call EXCEPT !.at = "read"] /\ UNCHANGED ghost
    /\ UNCHANGED <<shop, page, kept, ask, order>>

ReadCart ==
    /\ call.at = "read"
    /\ IF shop.cart = {} THEN Refuse("empty")
       ELSE call' = [call EXCEPT !.at = "quote", !.items = shop.cart, !.cost = CostOf(shop.cart)]
    /\ UNCHANGED <<shop, page, kept, ask, order, ghost>>

Priced(quote) == call' = [call EXCEPT !.at = "commit", !.quote = quote]

Price ==
    /\ call.at = "quote"
    /\ \/ ~shop.sender /\ Refuse("unavailable") /\ UNCHANGED ghost
       \/ shop.sender /\ Unavailable
       \/ /\ shop.sender
          /\ Priced(Quote(call.city, call.cod, call.items, call.cost))
          /\ UNCHANGED ghost
    /\ UNCHANGED <<shop, page, kept, ask, order>>

\* The works at the price of this moment, the fee as quoted; the whole cart goes.
Commit ==
    /\ call.at = "commit"
    /\ IF call.items \cap shop.gone # {}
       THEN Refuse("soldOut") /\ UNCHANGED <<shop, order>>
       ELSE /\ Refuse("placed")
            /\ order' = [items |-> call.items, itemsTotal |-> CostOf(call.items),
                         city |-> call.city, cod |-> call.cod, fee |-> call.quote,
                         shown |-> call.shown, others |-> ghost.others]
            /\ shop' = [shop EXCEPT !.cart = {}, !.gone = @ \cup call.items]
    /\ UNCHANGED <<page, kept, ask, ghost>>

\* The page goes to the orders, or tells why and stays as it was.
Answered ==
    /\ call.at = "answered"
    /\ page' = IF call.answer = "placed" THEN Mounted(page.cart, page.total)
               ELSE [page EXCEPT !.pending = FALSE]
    /\ call' = NoCall
    /\ UNCHANGED <<shop, kept, ask, order, ghost>>

LoseAnswer ==
    /\ call.at = "answered"
    /\ call.answer # "lost"
    /\ Event
    /\ Refuse("lost")
    /\ UNCHANGED <<shop, page, kept, ask, order>>

Next ==
    \/ \E w \in Works : Sell(w) \/ OtherTab(w) \/ ChangeCart(w) \/ \E p \in Prices : SetPrice(w, p)
    \/ SetTariff \/ \E known \in BOOLEAN : SetSender(known)
    \/ \E city \in Cities \cup {None} : PickCity(city)
    \/ \E provider \in {"CARD_TRANSFER", "CASH_ON_DELIVERY"} : ChooseProvider(provider)
    \/ PickWarehouse \/ RefetchCart \/ AskPrice \/ ServePrice \/ FailPrice \/ DeliverPrice
    \/ handleCheckout \/ Resolve \/ ReadCart \/ Price \/ Commit \/ Answered \/ LoseAnswer

Spec == Init /\ [][Next]_vars

-----------------------------------------------------------------------------
(* Properties. *)

\* What the carrier asked for this parcel: these works, to this city, with the
\* redelivery if it is paid on delivery.
OfThisParcel ==
    order.fee = [city |-> order.city, cod |-> order.cod, works |-> order.items,
                 cost |-> order.fee.cost, tariff |-> order.fee.tariff]

\* An order that was saved pays what the carrier asked for its parcel, whatever
\* the carrier refused and whatever was changed on the way ("every checkout
\* placed while Nova Poshta was unreachable ... shipped for free",
\* nova-poshta.service.ts:49).  As long as nobody else changes the shop, that is
\* what the page showed when the order was sent, however often city, payment
\* and cart were changed and however late each quote came; if the page showed a
\* quote, and one of the cart that was ordered.  (useNovaPoshtaDeliveryPrice's
\* key and `grandTotal` against `total` of checkout().)
ChargedAsShown ==
    placed =>
        /\ OfThisParcel
        /\ LET shown == order.shown
           IN ~order.others /\ shown.cart = order.items /\ shown.quote # NoQuote =>
                 /\ shown.total = order.itemsTotal
                 /\ shown.quote.works = order.items => shown.quote = order.fee

\* "an upstream failure is a 503 that says to try again, a bad ref is a 400 that
\* says to pick again" (orders.service.ts:172).
RefusalsTellWhy == call.answer # "pickAgain"

\* "adding/removing items ... triggers a fresh price fetch" (useNovaPoshta.ts:29):
\* a quote that is shown is one of the cart that is shown.
QuoteIsOfTheCart ==
    ~ghost.others /\ page.cart = shop.cart /\ deliveryPrice # NoQuote =>
        deliveryPrice.works = page.cart
=============================================================================
