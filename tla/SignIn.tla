------------------------------- MODULE SignIn -------------------------------
(***************************************************************************)
(* What a guest takes into the account: useFinishSignIn() of the browser,  *)
(* which claims the orders, merges the cart and claims the support thread, *)
(* one request after the other, each failure swallowed; and the merge of   *)
(* the cart on the server (CartService.mergeGuestCart), which is a loop of *)
(* single statements.  A page has several ways in (the password form,      *)
(* Google's button), each with a flag of its own against a second press.   *)
(*                                                                         *)
(* One guest, one account.  A line is named by the cart it was in first    *)
(* and its painting; the unique keys of cart_items allow no other.         *)
(***************************************************************************)
EXTENDS Integers, FiniteSets

CONSTANTS
    Ways,       \* the ways in of the page (LoginForm, GoogleAuthSection)
    Paintings,
    MaxAmount,  \* units of a painting (bound)
    MaxSignIns  \* how often somebody signs in (bound)

VARIABLES
    line,       \* cart_items
    amount,     \* paintings.amount
    claimed,    \* of the guest's orders and thread, what the account has
    token,      \* whether the browser still has the guest's token
    way,        \* how far each way in has come
    merge,      \* the server's side of each way's merge
    signIns,    \* history: how many were begun
    first,      \* history: the quantities the two carts began with
    overlapped, \* history: two merges ran at once
    broken      \* history: a merge was broken off by a crash

browser == <<token, way, signIns>>
tables == <<line, amount, claimed>>
vars == <<tables, browser, merge, first, overlapped, broken>>

SignInAssumption == MaxAmount \in Nat /\ MaxSignIns \in Nat

-----------------------------------------------------------------------------
(* The lines of the two carts. *)

Carts == {"guest", "account"}
Lines == Carts \X Paintings
Quantities == 0 .. 2 * MaxAmount

\* `in`: the cart the line is in now, if it has not been removed.
CartItem == [in : Carts \cup {"none"}, quantity : Quantities]

In(cart, p) == {l \in Lines : l[2] = p /\ line[l].in = cart}

Stages == {"out", "claimOrders", "merge", "claimChat", "navigate"}

\*  at     the next statement
\*  todo   the guest's lines still to come, as they were found
\*  item   the line in hand, and the account's line it is added to
Working ==
    [at : {"none", "find", "next", "save", "remove", "answer"}, todo : SUBSET Lines,
     found : [Lines -> Quantities], item : Lines, existing : Lines, sum : Quantities]

Nowhere == CHOOSE l \in Lines : TRUE
NotMerging ==
    [at |-> "none", todo |-> {}, found |-> [l \in Lines |-> 0], item |-> Nowhere,
     existing |-> Nowhere, sum |-> 0]

Init ==
    /\ line \in [Lines -> [in : Carts \cup {"none"}, quantity : 0 .. MaxAmount]]
    /\ \A l \in Lines :
        /\ line[l].in \in {l[1], "none"}
        /\ line[l].in = "none" <=> line[l].quantity = 0
    /\ amount \in [Paintings -> 0 .. MaxAmount]
    /\ claimed = {}
    /\ token = TRUE
    /\ way = [w \in Ways |-> "out"]
    /\ merge = [w \in Ways |-> NotMerging]
    /\ signIns = 0
    /\ first = [l \in Lines |-> line[l].quantity]
    /\ overlapped = FALSE
    /\ broken = FALSE

Minimum(a, b) == IF a <= b THEN a ELSE b

-----------------------------------------------------------------------------
(* useFinishSignIn() *)

\* An answer to a login: with a guest's token there is something to bring.
finishSignIn(w) ==
    /\ way[w] = "out"
    /\ merge[w].at = "none"
    /\ signIns < MaxSignIns
    /\ signIns' = signIns + 1
    /\ way' = [way EXCEPT ![w] = IF token THEN "claimOrders" ELSE "navigate"]
    /\ UNCHANGED <<tables, token, merge, first, overlapped, broken>>

\* The request succeeds, or fails before or after it has done its work.
Claim(w, at, what, next) ==
    /\ way[w] = at
    /\ way' = [way EXCEPT ![w] = next]
    /\ claimed' \in {claimed, claimed \cup {what}}
    /\ UNCHANGED <<line, amount, token, signIns, first>>

\* The next request is the merge: the server starts on it, or never hears.
claimGuestOrders(w) ==
    /\ Claim(w, "claimOrders", "orders", "merge")
    /\ \E heard \in BOOLEAN :
        /\ merge' = IF heard THEN [merge EXCEPT ![w].at = "find"] ELSE merge
        /\ overlapped' = (overlapped \/ (heard /\ \E other \in Ways \ {w} : merge[other].at # "none"))
    /\ UNCHANGED broken

\* The answer is lost, or an error: the server may be at it still.
mergeFails(w) ==
    /\ way[w] = "merge"
    /\ way' = [way EXCEPT ![w] = "claimChat"]
    /\ UNCHANGED <<tables, token, signIns, merge, first, overlapped, broken>>

\* onSuccess of the mutation clears the token.
mergeSucceeds(w) ==
    /\ way[w] = "merge"
    /\ merge[w].at = "answer"
    /\ token' = FALSE
    /\ way' = [way EXCEPT ![w] = "claimChat"]
    /\ merge' = [merge EXCEPT ![w] = NotMerging]
    /\ UNCHANGED <<tables, signIns, first, overlapped, broken>>

claimGuestChat(w) ==
    /\ Claim(w, "claimChat", "chat", "navigate")
    /\ UNCHANGED <<merge, overlapped, broken>>

\* The visitor is taken home, and may sign out and come back.
navigate(w) ==
    /\ way[w] = "navigate"
    /\ way' = [way EXCEPT ![w] = "out"]
    /\ UNCHANGED <<tables, token, signIns, merge, first, overlapped, broken>>

\* The tab is closed or reloaded: what it was waiting for is not waited for.
CloseTab ==
    /\ \E w \in Ways : way[w] # "out"
    /\ way' = [w \in Ways |-> "out"]
    /\ UNCHANGED <<tables, token, signIns, merge, first, overlapped, broken>>

-----------------------------------------------------------------------------
(* CartService.mergeGuestCart *)

GuestLines == {l \in Lines : line[l].in = "guest"}

find(w) ==
    /\ merge[w].at = "find"
    /\ merge' = [merge EXCEPT ![w].at = "next", ![w].todo = GuestLines,
                              ![w].found = [l \in Lines |-> line[l].quantity]]
    /\ UNCHANGED <<tables, browser, first, overlapped, broken>>

\* The account's line for the same painting, and how many there will be.
findExisting(w) ==
    LET q == merge[w]
    IN /\ q.at = "next"
       /\ \E l \in q.todo :
           IF In("account", l[2]) # {}
           THEN \E e \in In("account", l[2]) :
                  merge' = [merge EXCEPT
                      ![w].at = "save", ![w].item = l, ![w].existing = e,
                      ![w].sum = Minimum(line[e].quantity + q.found[l], amount[l[2]])]
           ELSE merge' = [merge EXCEPT ![w].at = "save", ![w].item = l, ![w].existing = l]
       /\ UNCHANGED <<tables, browser, first, overlapped, broken>>

\* No line of the account for it: the guest's line is handed over.  save()
\* inserts it anew if it has been removed; the unique key refuses a second one.
handOver(w) ==
    LET q == merge[w]
        taken == In("account", q.item[2]) \ {q.item} # {}
    IN /\ q.at = "save"
       /\ q.existing = q.item
       /\ line' = IF taken THEN line
                  ELSE [line EXCEPT ![q.item] = [in |-> "account", quantity |-> q.found[q.item]]]
       /\ merge' = IF taken THEN [merge EXCEPT ![w] = NotMerging]
                   ELSE [merge EXCEPT ![w].at = "next", ![w].todo = @ \ {q.item}]
       /\ UNCHANGED <<amount, claimed, browser, first, overlapped, broken>>

saveExisting(w) ==
    LET q == merge[w]
    IN /\ q.at = "save"
       /\ q.existing # q.item
       /\ line' = [line EXCEPT ![q.existing] = [in |-> "account", quantity |-> q.sum]]
       /\ merge' = [merge EXCEPT ![w].at = "remove"]
       /\ UNCHANGED <<amount, claimed, browser, first, overlapped, broken>>

\* Mutation of removeGuestItem: a DELETE for the painting that forgets to say
\* in whose cart.
RemoveByPainting(w) ==
    LET q == merge[w]
    IN /\ q.at = "remove"
       /\ line' = [l \in Lines |-> IF l[2] = q.item[2] THEN [in |-> "none", quantity |-> 0]
                                   ELSE line[l]]
       /\ merge' = [merge EXCEPT ![w].at = "next", ![w].todo = @ \ {q.item}]
       /\ UNCHANGED <<amount, claimed, browser, first, overlapped, broken>>

\* By its id, whosever it is by now.
removeGuestItem(w) ==
    LET q == merge[w]
    IN /\ q.at = "remove"
       /\ line' = [line EXCEPT ![q.item] = [in |-> "none", quantity |-> 0]]
       /\ merge' = [merge EXCEPT ![w].at = "next", ![w].todo = @ \ {q.item}]
       /\ UNCHANGED <<amount, claimed, browser, first, overlapped, broken>>

\* The loop is over; an answer nobody waits for is dropped.
answer(w) ==
    /\ merge[w].at = "next"
    /\ merge[w].todo = {}
    /\ merge' = [merge EXCEPT ![w] = IF way[w] = "merge" THEN [NotMerging EXCEPT !.at = "answer"]
                                                         ELSE NotMerging]
    /\ UNCHANGED <<tables, browser, first, overlapped, broken>>

drop(w) ==
    /\ merge[w].at = "answer"
    /\ way[w] # "merge"
    /\ merge' = [merge EXCEPT ![w] = NotMerging]
    /\ UNCHANGED <<tables, browser, first, overlapped, broken>>

\* A unit is sold to somebody else, or put back on sale.
SetAmount(p, n) ==
    /\ n # amount[p]
    /\ amount' = [amount EXCEPT ![p] = n]
    /\ UNCHANGED <<line, claimed, browser, merge, first, overlapped, broken>>

\* The server's process ends.
Crash ==
    /\ \E w \in Ways : merge[w].at # "none"
    /\ merge' = [w \in Ways |-> NotMerging]
    /\ broken' = TRUE
    /\ UNCHANGED <<tables, browser, first, overlapped>>

Serve(w) ==
    \/ find(w)
    \/ findExisting(w)
    \/ handOver(w)
    \/ saveExisting(w)
    \/ removeGuestItem(w)
    \/ answer(w)
    \/ drop(w)

Proceed(w) ==
    \/ claimGuestOrders(w)
    \/ mergeFails(w)
    \/ mergeSucceeds(w)
    \/ claimGuestChat(w)
    \/ navigate(w)

Next ==
    \/ \E w \in Ways : finishSignIn(w) \/ Proceed(w) \/ Serve(w)
    \/ CloseTab
    \/ \E p \in Paintings, n \in 0 .. MaxAmount : SetAmount(p, n)
    \/ Crash

Spec == Init /\ [][Next]_vars

-----------------------------------------------------------------------------
(* Properties. *)

TypeOK ==
    /\ line \in [Lines -> CartItem]
    /\ amount \in [Paintings -> 0 .. MaxAmount]
    /\ claimed \subseteq {"orders", "chat"}
    /\ token \in BOOLEAN
    /\ way \in [Ways -> Stages]
    /\ merge \in [Ways -> Working]

Had(p) == \E cart \in Carts : first[<<cart, p>>] > 0

\* A painting that was in either cart is in one of them still, no sign-in makes
\* more of it than there were in both, and the token, which is what the guest's
\* lines are found by, is given up only when there are none left: through
\* sales, lost answers, tabs that close and merges that are repeated, and even
\* broken off by a crash, but for the second; only two merges at once are not
\* held to it.  (cart.service.ts:133-159, useCartMutations.ts:18-32.)
CartFollows ==
    ~overlapped =>
        /\ \A p \in Paintings :
            /\ Had(p) => In("guest", p) \cup In("account", p) # {}
            /\ ~broken => \A l \in In("account", p) :
                  line[l].quantity <= first[<<"guest", p>>] + first[<<"account", p>>]
        /\ ~token => GuestLines = {}

\* "Whatever this browser did as a guest - a cart, a support thread, past
\* orders - follows them into the account" (useFinishSignIn.ts:25-27): once
\* the token is gone nothing is left that only the token opens.
EverythingFollows ==
    (~token /\ \A w \in Ways : way[w] = "out") => "orders" \in claimed

-----------------------------------------------------------------------------
(* The inductive invariant behind CartFollows, while no two merges ran at   *)
(* once.                                                                    *)

OfGuest(p) == <<"guest", p>>
OfAccount(p) == <<"account", p>>

Work ==
    [at : {"none", "find", "next", "save", "remove", "answer"}, todo : SUBSET Lines,
     found : [Lines -> Nat], item : Lines \cup {Nowhere}, existing : Lines \cup {Nowhere},
     sum : Nat]

CartType ==
    /\ line \in [Lines -> [in : Carts \cup {"none"}, quantity : Nat]]
    /\ first \in [Lines -> Nat]
    /\ amount \in [Paintings -> Nat]
    /\ way \in [Ways -> Stages]
    /\ merge \in [Ways -> Work]

\* One merge at a time, and none of a way that still claims orders.
OneMerge ==
    /\ \A v, w \in Ways : merge[v].at # "none" /\ merge[w].at # "none" => v = w
    /\ \A w \in Ways : way[w] = "claimOrders" => merge[w].at = "none"

\* The guest's line goes to the account or goes, and the account's own stays.
Placed(p) ==
    /\ line[OfAccount(p)].in \in {"account", "none"}
    /\ line[OfGuest(p)].in = "guest" => line[OfGuest(p)].quantity = first[OfGuest(p)]
    /\ ~(line[OfGuest(p)].in = "account" /\ line[OfAccount(p)].in = "account")
    /\ Had(p) => line[OfGuest(p)].in # "none" \/ line[OfAccount(p)].in # "none"

\* Without a crash what the account has is what it had, and what the guest had
\* once its line has been added.
Counted(p) ==
    /\ \A l \in In("account", p) : line[l].quantity <= first[OfGuest(p)] + first[OfAccount(p)]
    /\ (/\ line[OfGuest(p)].in = "guest"
        /\ line[OfAccount(p)].in = "account"
        /\ \A w \in Ways : ~(merge[w].at = "remove" /\ merge[w].item = OfGuest(p)))
          => line[OfAccount(p)].quantity <= first[OfAccount(p)]

\* What a merge has found is still so.
Merges(q) ==
    /\ q.at \in {"next", "save", "remove"} =>
        q.todo = GuestLines /\ \A l \in q.todo : q.found[l] = first[l]
    /\ q.at \in {"save", "remove"} => q.item \in q.todo
    /\ q.at = "save" /\ q.existing = q.item => In("account", q.item[2]) = {}
    /\ q.at = "save" /\ q.existing # q.item =>
        /\ q.existing = OfAccount(q.item[2])
        /\ line[q.existing].in = "account"
        /\ ~broken => q.sum <= first[q.item] + first[q.existing]
    /\ q.at = "remove" => line[OfAccount(q.item[2])].in = "account"
    /\ q.at = "answer" => GuestLines = {}

CartInv ==
    ~overlapped =>
        /\ CartType
        /\ OneMerge
        /\ \A p \in Paintings : Placed(p) /\ (~broken => Counted(p))
        /\ \A w \in Ways : Merges(merge[w])
        /\ ~token => GuestLines = {}
=============================================================================
