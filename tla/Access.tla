------------------------------- MODULE Access -------------------------------
(***************************************************************************)
(* Who may ask for what: the routes of the controllers with their guards,  *)
(* the wrappers through which the pages call them, and one browser tab     *)
(* that signs in and out, whose access token expires and is replaced, and  *)
(* that keeps the private answers under keys that name the account.        *)
(*                                                                         *)
(* The tab runs the calls of one `visit`: a call of one page, reduced to   *)
(* the guard of the route it reaches, the conditions under which the page  *)
(* sends it and the key its answer is kept under.  How the server rotates  *)
(* the refresh tokens is in Sessions; here a session lives or it does not. *)
(***************************************************************************)
EXTENDS Integers, FiniteSets, Sequences

CONSTANTS
    Accounts, \* the accounts that sign in
    Nobody,   \* a visitor without one
    Slots,    \* requests of the page under way at once (bound)
    MaxEvents \* what befalls the session in all (bound)

VARIABLES
    visit,   \* the page's call: its guard, its conditions, its key
    role,    \* the server's row of each account: "USER", "ADMIN" or "gone"
    cookie,  \* the refresh cookie: the account it was given to, and whether its session lives
    tab,     \* the store of the tab
    refresh, \* refreshAccessToken(): the one request, "none", "sent" or its answer
    boot,    \* bootstrapAuth(): the same, "done" once it is over
    req,     \* the page's requests
    kept,    \* the answers in the query cache, by the account in their key
    ghost,   \* history: whether the session was disturbed, and who was mixed up
    events   \* history: what has befallen the session

vars == <<visit, role, cookie, tab, refresh, boot, req, kept, ghost, events>>

-----------------------------------------------------------------------------
(* The routes, in the order in which their controller declares them: the   *)
(* first that matches is served.  "*" is a parameter.                      *)

R(verb, path, guard) == [verb |-> verb, path |-> path, guard |-> guard]
At(prefix, routes) ==
    [i \in DOMAIN routes |-> [routes[i] EXCEPT !.path = <<prefix>> \o @]]

AnalyticsController == At("analytics", <<R("get", <<"overview">>, "admin")>>)

AuthController == At("auth",
    <<R("post", <<"register">>, "open"), R("post", <<"login">>, "open"),
      R("post", <<"google">>, "open"), R("get", <<"me">>, "user"),
      R("post", <<"refresh">>, "open"), R("post", <<"logout">>, "open"),
      R("get", <<"sessions">>, "user"), R("delete", <<"sessions", "*">>, "user"),
      R("post", <<"logout-all">>, "user"), R("post", <<"forgot-password">>, "open"),
      R("post", <<"reset-password">>, "open"), R("post", <<"change-password">>, "user")>>)

CartController == At("cart",
    <<R("get", << >>, "optional"), R("post", << >>, "optional"),
      R("patch", <<"*">>, "optional"), R("delete", <<"*">>, "optional"),
      R("delete", << >>, "optional"), R("post", <<"merge">>, "user")>>)

ExchangeRateController == At("exchange-rate", <<R("get", << >>, "open")>>)

GiveawaysController == At("giveaways",
    <<R("get", << >>, "open"), R("get", <<"*">>, "open"),
      R("get", <<"*", "my-status">>, "user"), R("post", <<"*", "join">>, "user"),
      R("post", << >>, "admin"), R("patch", <<"*">>, "admin"), R("delete", <<"*">>, "admin")>>)

LikesController == At("likes",
    <<R("post", <<"*">>, "user"), R("get", <<"mine">>, "user"), R("get", <<"paintings">>, "user")>>)

MailController == At("mail",
    <<R("get", <<"outbox">>, "admin"), R("delete", <<"outbox", "settled">>, "admin"),
      R("get", <<"outbox", "*">>, "admin"), R("post", <<"outbox", "*", "retry">>, "admin")>>)

Dictionary ==
    <<R("post", << >>, "admin"), R("get", << >>, "open"), R("get", <<"*">>, "open"),
      R("patch", <<"*">>, "admin"), R("delete", <<"*">>, "admin")>>

MaterialsController == At("materials", Dictionary)
TechniquesController == At("techniques", Dictionary)

NewsController == At("news",
    <<R("get", << >>, "open"), R("post", << >>, "admin"), R("patch", <<"*">>, "admin"),
      R("delete", <<"*">>, "admin")>>)

NovaPoshtaController == At("nova-poshta",
    <<R("get", <<"cities">>, "open"), R("get", <<"warehouses">>, "open"),
      R("get", <<"delivery-price">>, "optional")>>)

OrdersController == At("orders",
    <<R("post", <<"checkout">>, "optional"), R("post", <<"commission">>, "optional"),
      R("get", << >>, "optional"), R("post", <<"claim-guest">>, "user"),
      R("get", <<"all">>, "admin"), R("get", <<"*">>, "optional"),
      R("patch", <<"*", "cancel">>, "optional"), R("post", <<"*", "payment-proof">>, "optional"),
      R("patch", <<"*", "status">>, "admin"), R("patch", <<"*", "payment-status">>, "admin"),
      R("get", <<"*", "status-mail", "preview">>, "admin"),
      R("post", <<"*", "status-mail">>, "admin"),
      R("get", <<"*", "apology-mail", "preview">>, "admin"),
      R("post", <<"*", "apology-mail">>, "admin"), R("delete", <<"*">>, "admin"),
      R("patch", <<"*", "archive">>, "admin")>>)

PaintingsController == At("paintings",
    <<R("post", << >>, "admin"), R("get", << >>, "open"), R("get", <<"price-range">>, "open"),
      R("get", <<"*">>, "open"), R("patch", <<"*">>, "admin"), R("delete", <<"*">>, "admin")>>)

ReviewsController == At("reviews",
    <<R("get", << >>, "open"), R("get", <<"admin">>, "admin"), R("post", << >>, "optional"),
      R("patch", <<"*">>, "admin"), R("delete", <<"*">>, "admin")>>)

SeriesController == At("series",
    <<R("get", << >>, "open"), R("get", <<"showcase">>, "open"), R("get", <<"admin">>, "admin"),
      R("get", <<"*">>, "open"), R("post", << >>, "admin"), R("patch", <<"*">>, "admin"),
      R("put", <<"*", "paintings">>, "admin"), R("delete", <<"*">>, "admin")>>)

SettingsController == At("settings",
    <<R("get", << >>, "open"), R("get", <<"admin">>, "admin"), R("patch", << >>, "admin"),
      R("post", <<"telegram-link-code">>, "admin"), R("delete", <<"telegram-link">>, "admin"),
      R("get", <<"faq">>, "open"), R("post", <<"faq">>, "admin"),
      R("patch", <<"faq", "reorder">>, "admin"), R("patch", <<"faq", "*">>, "admin"),
      R("delete", <<"faq", "*">>, "admin")>>)

SupportController == At("support",
    <<R("get", <<"my-chat">>, "optional"), R("get", <<"my-chat", "unread">>, "optional"),
      R("post", <<"claim-guest-chat">>, "user"), R("get", <<"chats">>, "admin"),
      R("get", <<"chats", "*", "messages">>, "admin")>>)

UploadsController == At("uploads", <<R("post", <<"image">>, "admin")>>)

\* The whole controller is the administrator's; three routes override it.
UsersController == At("users",
    <<R("get", << >>, "admin"), R("delete", <<"*">>, "admin"),
      R("post", <<"me", "telegram-link-code">>, "user"),
      R("post", <<"me", "telegram-link-code", "redeem">>, "user"),
      R("delete", <<"me", "telegram-link">>, "user")>>)

Routes ==
    AnalyticsController \o AuthController \o CartController \o ExchangeRateController \o
    GiveawaysController \o LikesController \o MailController \o MaterialsController \o
    TechniquesController \o NewsController \o NovaPoshtaController \o OrdersController \o
    PaintingsController \o ReviewsController \o SeriesController \o SettingsController \o
    SupportController \o UploadsController \o UsersController

Serves(route, call) ==
    /\ route.verb = call.verb
    /\ Len(route.path) = Len(call.path)
    /\ \A i \in DOMAIN route.path : route.path[i] \in {call.path[i], "*"}

GuardOf(call) ==
    LET serving == {i \in DOMAIN Routes : Serves(Routes[i], call)}
        first == CHOOSE i \in serving : \A j \in serving : i <= j
    IN IF serving = {} THEN "missing" ELSE Routes[first].guard

-----------------------------------------------------------------------------
(* The wrappers of web/src/api, one request each.  "7" is some id.         *)

Get(path) == [verb |-> "get", path |-> path]
Post(path) == [verb |-> "post", path |-> path]
Patch(path) == [verb |-> "patch", path |-> path]
Put(path) == [verb |-> "put", path |-> path]
Delete(path) == [verb |-> "delete", path |-> path]

analyticsService == [getOverview |-> Get(<<"analytics", "overview">>)]

authService ==
    [register |-> Post(<<"auth", "register">>), login |-> Post(<<"auth", "login">>),
     google |-> Post(<<"auth", "google">>), logout |-> Post(<<"auth", "logout">>),
     forgotPassword |-> Post(<<"auth", "forgot-password">>),
     resetPassword |-> Post(<<"auth", "reset-password">>),
     changePassword |-> Post(<<"auth", "change-password">>),
     getSessions |-> Get(<<"auth", "sessions">>), endSession |-> Delete(<<"auth", "sessions", "7">>),
     logoutEverywhere |-> Post(<<"auth", "logout-all">>)]

cartService ==
    [getCart |-> Get(<<"cart">>), addItem |-> Post(<<"cart">>),
     removeItem |-> Delete(<<"cart", "7">>), mergeGuestCart |-> Post(<<"cart", "merge">>)]

exchangeRateService == [getUsdToUahRate |-> Get(<<"exchange-rate">>)]

faqService ==
    [getFaq |-> Get(<<"settings", "faq">>), createItem |-> Post(<<"settings", "faq">>),
     updateItem |-> Patch(<<"settings", "faq", "7">>),
     deleteItem |-> Delete(<<"settings", "faq", "7">>),
     reorder |-> Patch(<<"settings", "faq", "reorder">>)]

giveawaysService ==
    [getGiveaways |-> Get(<<"giveaways">>), getGiveaway |-> Get(<<"giveaways", "7">>),
     getMyStatus |-> Get(<<"giveaways", "7", "my-status">>),
     join |-> Post(<<"giveaways", "7", "join">>), createGiveaway |-> Post(<<"giveaways">>),
     updateGiveaway |-> Patch(<<"giveaways", "7">>),
     deleteGiveaway |-> Delete(<<"giveaways", "7">>)]

likesService ==
    [toggleLike |-> Post(<<"likes", "7">>), getMyLikedIds |-> Get(<<"likes", "mine">>),
     getMyLikedPaintings |-> Get(<<"likes", "paintings">>)]

mailService ==
    [getOutbox |-> Get(<<"mail", "outbox">>), getLetter |-> Get(<<"mail", "outbox", "7">>),
     retry |-> Post(<<"mail", "outbox", "7", "retry">>),
     clearSettled |-> Delete(<<"mail", "outbox", "settled">>)]

materialsService ==
    [getMaterials |-> Get(<<"materials">>), createMaterial |-> Post(<<"materials">>),
     updateMaterial |-> Patch(<<"materials", "7">>), deleteMaterial |-> Delete(<<"materials", "7">>)]

techniquesService ==
    [getTechniques |-> Get(<<"techniques">>), createTechnique |-> Post(<<"techniques">>),
     updateTechnique |-> Patch(<<"techniques", "7">>),
     deleteTechnique |-> Delete(<<"techniques", "7">>)]

newsService ==
    [getNews |-> Get(<<"news">>), createNews |-> Post(<<"news">>),
     updateNews |-> Patch(<<"news", "7">>), deleteNews |-> Delete(<<"news", "7">>)]

novaPoshtaService ==
    [searchCities |-> Get(<<"nova-poshta", "cities">>),
     getWarehouses |-> Get(<<"nova-poshta", "warehouses">>),
     getDeliveryPrice |-> Get(<<"nova-poshta", "delivery-price">>)]

ordersService ==
    [checkout |-> Post(<<"orders", "checkout">>),
     createCommission |-> Post(<<"orders", "commission">>), getOrders |-> Get(<<"orders">>),
     cancelOrder |-> Patch(<<"orders", "7", "cancel">>), getAllOrders |-> Get(<<"orders", "all">>),
     deleteOrder |-> Delete(<<"orders", "7">>), archiveOrder |-> Patch(<<"orders", "7", "archive">>),
     previewStatusMail |-> Get(<<"orders", "7", "status-mail", "preview">>),
     sendStatusMail |-> Post(<<"orders", "7", "status-mail">>),
     previewApologyMail |-> Get(<<"orders", "7", "apology-mail", "preview">>),
     sendApologyMail |-> Post(<<"orders", "7", "apology-mail">>),
     updateStatus |-> Patch(<<"orders", "7", "status">>),
     updatePaymentStatus |-> Patch(<<"orders", "7", "payment-status">>),
     claimGuestOrders |-> Post(<<"orders", "claim-guest">>),
     uploadPaymentProof |-> Post(<<"orders", "7", "payment-proof">>)]

paintingsService ==
    [getPaintings |-> Get(<<"paintings">>), getPriceRange |-> Get(<<"paintings", "price-range">>),
     getPainting |-> Get(<<"paintings", "7">>), createPainting |-> Post(<<"paintings">>),
     updatePainting |-> Patch(<<"paintings", "7">>), deletePainting |-> Delete(<<"paintings", "7">>)]

reviewsService ==
    [getPublished |-> Get(<<"reviews">>), create |-> Post(<<"reviews">>),
     getAdmin |-> Get(<<"reviews", "admin">>), update |-> Patch(<<"reviews", "7">>),
     remove |-> Delete(<<"reviews", "7">>)]

seriesService ==
    [getSeries |-> Get(<<"series">>), getShowcase |-> Get(<<"series", "showcase">>),
     getSeriesForAdmin |-> Get(<<"series", "admin">>), createSeries |-> Post(<<"series">>),
     updateSeries |-> Patch(<<"series", "7">>), setPaintings |-> Put(<<"series", "7", "paintings">>),
     deleteSeries |-> Delete(<<"series", "7">>)]

settingsService ==
    [getSettings |-> Get(<<"settings">>), getAdminSettings |-> Get(<<"settings", "admin">>),
     updateSettings |-> Patch(<<"settings">>),
     generateAdminTelegramLinkCode |-> Post(<<"settings", "telegram-link-code">>),
     resetAdminTelegramLink |-> Delete(<<"settings", "telegram-link">>)]

supportService ==
    [getMyUnreadCount |-> Get(<<"support", "my-chat", "unread">>),
     claimGuestChat |-> Post(<<"support", "claim-guest-chat">>), getChats |-> Get(<<"support", "chats">>),
     getChatMessages |-> Get(<<"support", "chats", "7", "messages">>)]

uploadImage == Post(<<"uploads", "image">>)

usersService ==
    [getUsers |-> Get(<<"users">>), deleteUser |-> Delete(<<"users", "7">>),
     generateTelegramLinkCode |-> Post(<<"users", "me", "telegram-link-code">>),
     redeemTelegramLinkCode |-> Post(<<"users", "me", "telegram-link-code", "redeem">>),
     resetTelegramLink |-> Delete(<<"users", "me", "telegram-link">>)]

-----------------------------------------------------------------------------
(* What the pages call, and when: the door of the page (open to anyone, to *)
(* who is signed in, to the administrator), the condition of the hook or   *)
(* the button, and whether the answer is kept under the account's key.     *)

Ask(call) == [call |-> call, gate |-> "always", own |-> FALSE]
If(gate, call) == [Ask(call) EXCEPT !.gate = gate]
Own(gate, call) == [If(gate, call) EXCEPT !.own = TRUE]

useCart == Own("always", cartService.getCart)
useLikedIds == Own("user", likesService.getMyLikedIds)
useLikedPaintings == Own("user", likesService.getMyLikedPaintings)
useGiveawayMyStatus == Own("user", giveawaysService.getMyStatus)
useMyOrders == Own("booted", ordersService.getOrders)
useAdminPendingOrdersCount == If("admin", ordersService.getAllOrders)
useAdminPendingReviewsCount == If("admin", reviewsService.getAdmin)
useAdminUnreadSupportCount == If("admin", supportService.getChats)
useMyUnreadSupportCount == If("customer", supportService.getMyUnreadCount)
ReviewPrompt == Own("booted", ordersService.getOrders)
LikeButton == If("user", likesService.toggleLike)
handleJoin == If("user", giveawaysService.join)
useFinishSignIn ==
    {If("user", c) : c \in {ordersService.claimGuestOrders, cartService.mergeGuestCart,
                            supportService.claimGuestChat}}
PaintingForms ==
    {If("admin", c) : c \in {uploadImage, paintingsService.createPainting,
                             paintingsService.updatePainting, paintingsService.deletePainting,
                             seriesService.createSeries}}

\* Header, footer, floating cart and support launcher, on every page.
Shell ==
    {useCart, useAdminPendingOrdersCount, useAdminPendingReviewsCount,
     useAdminUnreadSupportCount, useMyUnreadSupportCount, ReviewPrompt,
     Ask(settingsService.getSettings), Ask(authService.logout)}

Asks(calls) == {Ask(c) : c \in calls}

PaintingCard == {LikeButton} \cup Asks({exchangeRateService.getUsdToUahRate, cartService.addItem})
SeriesWorkCard == PaintingCard
SeriesShowcase == SeriesWorkCard \cup Asks({seriesService.getShowcase})
\* A work's series, chosen or begun on its own page.
PaintingSeriesControl ==
    {If("admin", c) : c \in {seriesService.getSeries, paintingsService.updatePainting,
                             seriesService.createSeries}}
CommissionModal == Asks({settingsService.getSettings, ordersService.createCommission})
HomeReviews == Asks({reviewsService.getPublished})

CatalogPage ==
    {useLikedIds} \cup PaintingForms \cup PaintingCard \cup SeriesShowcase \cup
    Asks({paintingsService.getPaintings, paintingsService.getPriceRange, seriesService.getSeries,
          techniquesService.getTechniques, materialsService.getMaterials})
PaintingPage ==
    {useLikedIds} \cup PaintingCard \cup PaintingSeriesControl \cup CommissionModal \cup
    Asks({paintingsService.getPaintings, paintingsService.getPainting})
HomePage ==
    HomeReviews \cup
    Asks({paintingsService.getPaintings, giveawaysService.getGiveaways, newsService.getNews})
GiveawayDetailPage ==
    {useGiveawayMyStatus, handleJoin} \cup Asks({giveawaysService.getGiveaway})
CartPage ==
    Asks({exchangeRateService.getUsdToUahRate, cartService.removeItem, ordersService.checkout,
          novaPoshtaService.searchCities, novaPoshtaService.getWarehouses,
          novaPoshtaService.getDeliveryPrice})
ReviewModal == Asks({reviewsService.create})
OrderPreviewCard ==
    ReviewModal \cup
    Asks({exchangeRateService.getUsdToUahRate, ordersService.uploadPaymentProof})
OrdersPage == {useMyOrders} \cup OrderPreviewCard \cup Asks({ordersService.cancelOrder})
FaqPage == Asks({faqService.getFaq})
RegisterForm == Asks({authService.register})
LoginForm == Asks({authService.login})
GoogleAuth == Asks({authService.google})
ForgotPasswordForm == Asks({authService.forgotPassword})
ResetPasswordForm == Asks({authService.resetPassword})
AuthPage ==
    useFinishSignIn \cup RegisterForm \cup LoginForm \cup GoogleAuth \cup
    ForgotPasswordForm \cup ResetPasswordForm
FavoritesPage == {useLikedPaintings} \cup PaintingCard
ProfilePage ==
    {useLikedPaintings, useMyOrders} \cup OrderPreviewCard \cup
    Asks({usersService.generateTelegramLinkCode, usersService.redeemTelegramLinkCode,
          usersService.resetTelegramLink})
SecuritySection ==
    Asks({authService.getSessions, authService.endSession, authService.changePassword,
          authService.logoutEverywhere})

AdminAnalyticsPage == Asks({analyticsService.getOverview})
AdminGiveawaysPage ==
    Asks({giveawaysService.createGiveaway, giveawaysService.updateGiveaway,
          giveawaysService.deleteGiveaway, newsService.createNews, newsService.updateNews,
          newsService.deleteNews, uploadImage})
AdminMailPage ==
    Asks({mailService.getOutbox, mailService.getLetter, mailService.retry,
          mailService.clearSettled})
\* The letter as it would go out, and its sending.
MailPreviewDialog ==
    Asks({ordersService.previewStatusMail, ordersService.sendStatusMail,
          ordersService.previewApologyMail, ordersService.sendApologyMail})
AdminOrdersPage ==
    MailPreviewDialog \cup
    Asks({ordersService.getAllOrders, ordersService.updateStatus,
          ordersService.updatePaymentStatus, ordersService.deleteOrder,
          ordersService.archiveOrder})
AdminReviewsPage == Asks({reviewsService.getAdmin, reviewsService.update, reviewsService.remove})
AdminSeriesPage ==
    Asks({seriesService.getSeriesForAdmin, seriesService.createSeries,
          seriesService.updateSeries, seriesService.deleteSeries})
AdminSettingsPage ==
    Asks({settingsService.getAdminSettings, settingsService.updateSettings,
          settingsService.generateAdminTelegramLinkCode, settingsService.resetAdminTelegramLink,
          faqService.createItem, faqService.updateItem, faqService.deleteItem,
          faqService.reorder})
AdminSupportPage == Asks({supportService.getChatMessages})
AdminUsersPage == Asks({usersService.getUsers, usersService.deleteUser})
DictionariesPage ==
    Asks({materialsService.createMaterial, materialsService.updateMaterial,
          materialsService.deleteMaterial, techniquesService.createTechnique,
          techniquesService.updateTechnique, techniquesService.deleteTechnique})

OpenPages ==
    Shell \cup CatalogPage \cup PaintingPage \cup HomePage \cup GiveawayDetailPage \cup
    CartPage \cup OrdersPage \cup FaqPage \cup AuthPage

ProfilePages == FavoritesPage \cup ProfilePage \cup SecuritySection

AdminPages ==
    AdminAnalyticsPage \cup AdminGiveawaysPage \cup AdminMailPage \cup AdminOrdersPage \cup
    AdminReviewsPage \cup AdminSeriesPage \cup AdminSettingsPage \cup AdminSupportPage \cup
    AdminUsersPage \cup DictionariesPage

Behind(door, asks) ==
    {[door |-> door, guard |-> GuardOf(a.call), gate |-> a.gate, own |-> a.own] : a \in asks}

Visits ==
    Behind("open", OpenPages) \cup Behind("signedIn", ProfilePages) \cup
    Behind("admin", AdminPages)

\* Who gets to a call may make it: it is behind a door, or is enabled, for those
\* whom its guard lets pass.
Guarded(v) ==
    /\ v \in [door : {"open", "signedIn", "admin"}, guard : {"open", "optional", "user", "admin"},
              gate : {"always", "user", "booted", "admin", "customer"}, own : BOOLEAN]
    /\ v.guard = "user" => v.door # "open" \/ v.gate \in {"user", "admin"}
    /\ v.guard = "admin" => v.door = "admin" \/ v.gate = "admin"

-----------------------------------------------------------------------------
(* The tab and its requests. *)

NoToken == [of |-> Nobody, fresh |-> FALSE]

Blank == [user |-> Nobody, admin |-> FALSE, token |-> NoToken, booted |-> FALSE]

isAuthenticated == tab.token # NoToken

Idle == [stage |-> "idle", as |-> Nobody, token |-> NoToken, retried |-> FALSE,
         again |-> FALSE, answer |-> "none", owner |-> Nobody, moved |-> FALSE]

Calm == [disturbed |-> FALSE, crossed |-> FALSE]

Init ==
    /\ visit \in Visits
    /\ role \in [Accounts -> {"USER", "ADMIN"}]
    /\ cookie \in [of : Accounts \cup {Nobody}, lives : {TRUE}]
    /\ tab = Blank
    /\ refresh = "none"
    /\ boot = "sent"
    /\ req = [r \in Slots |-> Idle]
    /\ kept = [a \in Accounts \cup {Nobody} |-> [owner |-> "nothing", sure |-> TRUE]]
    /\ ghost = Calm
    /\ events = 0

\* ProtectedRoute renders the page, and the hook or the button is enabled.
Shown ==
    CASE visit.door = "open" -> TRUE
      [] visit.door = "signedIn" -> tab.booted /\ isAuthenticated
      [] visit.door = "admin" -> tab.booted /\ isAuthenticated /\ tab.admin

Enabled ==
    CASE visit.gate = "always" -> TRUE
      [] visit.gate = "user" -> tab.user # Nobody
      [] visit.gate = "booted" -> tab.booted
      [] visit.gate = "admin" -> tab.admin
      [] visit.gate = "customer" -> ~tab.admin

\* The request interceptor: the access token of this moment, or the guest's.
Sent(request) == [request EXCEPT !.stage = "sent", !.token = tab.token]

Begin(r) ==
    /\ req[r].stage = "idle"
    /\ Shown
    /\ Enabled
    /\ req' = [req EXCEPT ![r] = Sent([Idle EXCEPT !.as = tab.user])]
    /\ UNCHANGED <<visit, role, cookie, tab, refresh, boot, kept, ghost>>

\* JwtStrategy.validate(): the row decides, not the token.
Valid(token) == token.of # Nobody /\ token.fresh /\ role[token.of] # "gone"

Answer(guard, token) ==
    CASE guard = "open" -> "served"
      [] guard = "optional" -> IF token = NoToken \/ Valid(token) THEN "served" ELSE "noGuest"
      [] guard = "user" -> IF token # NoToken /\ Valid(token) THEN "served" ELSE "unauthorized"
      [] guard = "admin" ->
            IF token = NoToken \/ ~Valid(token) THEN "unauthorized"
            ELSE IF role[token.of] = "ADMIN" THEN "served" ELSE "forbidden"
      [] guard = "missing" -> "notFound"

Serve(r) ==
    /\ req[r].stage = "sent"
    /\ req' = [req EXCEPT ![r].stage = "answered", ![r].owner = req[r].token.of,
                          ![r].answer = Answer(visit.guard, req[r].token)]
    /\ UNCHANGED <<visit, role, cookie, tab, refresh, boot, kept, ghost>>

Lose(r) ==
    /\ req[r].stage \in {"sent", "answered"}
    /\ req' = [req EXCEPT ![r].stage = "answered", ![r].answer = "lost"]
    /\ UNCHANGED <<visit, role, cookie, tab, refresh, boot, kept, ghost>>

Deliver(r) ==
    /\ req[r].stage = "answered"
    /\ req[r].answer = "served"
    /\ kept' = IF visit.own
               THEN [kept EXCEPT ![req[r].as] = [owner |-> req[r].owner,
                        sure |-> ~req[r].moved /\ ~ghost.crossed]]
               ELSE kept
    /\ req' = [req EXCEPT ![r] = Idle]
    /\ UNCHANGED <<visit, role, cookie, tab, refresh, boot, ghost>>

\* Mutation of Renewable: only a 401 is worth a new token.
UnauthorizedOnly(request) == ~request.retried /\ request.answer = "unauthorized"

Renewable(request) ==
    /\ ~request.retried
    /\ \/ request.answer = "unauthorized"
       \/ request.answer = "noGuest" /\ request.token # NoToken

\* The response interceptor asks for a new token, once for all who wait.
Renew(r) ==
    /\ req[r].stage = "answered"
    /\ Renewable(req[r])
    /\ req' = [req EXCEPT ![r].stage = "waiting", ![r].retried = TRUE]
    /\ refresh' = IF refresh = "none" THEN "sent" ELSE refresh
    /\ UNCHANGED <<visit, role, cookie, tab, boot, kept, ghost>>

\* A refusal is final, but a query is asked once more under the same key.
Refuse(r) ==
    /\ req[r].stage = "answered"
    /\ req[r].answer # "served"
    /\ ~Renewable(req[r])
    /\ req' = [req EXCEPT ![r].stage = "refused"]
    /\ UNCHANGED <<visit, role, cookie, tab, refresh, boot, kept, ghost>>

AskAgain(r) ==
    /\ req[r].stage = "refused"
    /\ visit.own
    /\ ~req[r].again
    /\ req' = [req EXCEPT ![r] = Sent([req[r] EXCEPT !.again = TRUE, !.retried = FALSE])]
    /\ UNCHANGED <<visit, role, cookie, tab, refresh, boot, kept, ghost>>

GiveUp(r) ==
    /\ req[r].stage = "refused"
    /\ visit.own => req[r].again
    /\ req' = [req EXCEPT ![r] = Idle]
    /\ UNCHANGED <<visit, role, cookie, tab, refresh, boot, kept, ghost>>

-----------------------------------------------------------------------------
(* Tokens: the refresh of an expired one, and the one at startup. *)

\* The account a refresh is answered with, from the cookie of this moment.
Minted == IF cookie.of # Nobody /\ cookie.lives THEN cookie.of ELSE Nobody

RefreshServe ==
    /\ refresh = "sent"
    /\ refresh' = Minted
    /\ UNCHANGED <<visit, role, cookie, tab, boot, req, kept, ghost>>

\* Also a failed connection signs the visitor out.
RefreshLose ==
    /\ refresh \in Accounts \cup {"sent"}
    /\ refresh' = Nobody
    /\ ghost' = [ghost EXCEPT !.disturbed = TRUE]
    /\ UNCHANGED <<visit, role, cookie, tab, boot, req, kept>>

Moved(requests) ==
    [r \in Slots |-> IF requests[r].stage = "idle" THEN requests[r]
                     ELSE [requests[r] EXCEPT !.moved = TRUE]]

\* refreshAuth(): only the token is replaced, whoever it is for.
RefreshSucceeds ==
    /\ refresh \in Accounts
    /\ refresh' = "none"
    /\ tab' = [tab EXCEPT !.token = [of |-> refresh, fresh |-> TRUE], !.booted = TRUE]
    /\ req' = [r \in Slots |-> IF req[r].stage = "waiting"
                  THEN [req[r] EXCEPT !.stage = "sent", !.token = tab'.token] ELSE req[r]]
    /\ ghost' = [ghost EXCEPT !.crossed = @ \/ tab.user # refresh]
    /\ UNCHANGED <<visit, role, cookie, boot, kept>>

\* Mutation of RefreshFails: a call that may be a guest's is repeated as one,
\* and the store still shows the account.
FailsSilently ==
    /\ refresh = Nobody
    /\ refresh' = "none"
    /\ req' = [r \in Slots |->
          IF req[r].stage # "waiting" THEN req[r]
          ELSE IF req[r].answer = "noGuest" THEN [req[r] EXCEPT !.stage = "sent", !.token = NoToken]
          ELSE [req[r] EXCEPT !.stage = "refused"]]
    /\ UNCHANGED <<visit, role, cookie, tab, boot, kept, ghost>>

\* logout(); a call that may be a guest's is repeated as one.
RefreshFails ==
    /\ refresh = Nobody
    /\ refresh' = "none"
    /\ tab' = [Blank EXCEPT !.booted = TRUE]
    /\ req' = Moved([r \in Slots |->
          IF req[r].stage # "waiting" THEN req[r]
          ELSE IF req[r].answer = "noGuest" THEN [req[r] EXCEPT !.stage = "sent", !.token = NoToken]
          ELSE [req[r] EXCEPT !.stage = "refused"]])
    /\ UNCHANGED <<visit, role, cookie, boot, kept, ghost>>

BootServe ==
    /\ boot = "sent"
    /\ boot' = Minted
    /\ UNCHANGED <<visit, role, cookie, tab, refresh, req, kept, ghost>>

\* setAuth(): whoever was signed in meanwhile.
SetAuth(a) == [user |-> a, admin |-> role[a] = "ADMIN", token |-> [of |-> a, fresh |-> TRUE], booted |-> TRUE]

BootArrive ==
    /\ boot \in Accounts \cup {Nobody}
    /\ boot' = "done"
    /\ tab' = IF boot = Nobody THEN [tab EXCEPT !.booted = TRUE] ELSE SetAuth(boot)
    /\ req' = IF boot = Nobody THEN req ELSE Moved(req)
    /\ UNCHANGED <<visit, role, cookie, refresh, kept, ghost>>

Expire ==
    /\ tab.token.fresh
    /\ tab' = [tab EXCEPT !.token.fresh = FALSE]
    /\ UNCHANGED <<visit, role, cookie, refresh, boot, req, kept, ghost>>

-----------------------------------------------------------------------------
(* Signing in and out, here and elsewhere. *)

Empty == [a \in Accounts \cup {Nobody} |-> [owner |-> "nothing", sure |-> TRUE]]

Disturb == ghost' = [ghost EXCEPT !.disturbed = TRUE]

SignIn(a) ==
    /\ role[a] # "gone"
    /\ cookie' = [of |-> a, lives |-> TRUE]
    /\ tab' = SetAuth(a)
    /\ req' = Moved(req)
    /\ ghost' = [ghost EXCEPT !.disturbed = @ \/ boot # "done" \/ isAuthenticated \/ refresh # "none"]
    /\ UNCHANGED <<visit, role, refresh, boot, kept>>

\* Header.handleLogout(): the tab is signed out even if the request fails.
SignOut(reached) ==
    /\ isAuthenticated
    /\ cookie' = IF reached THEN [of |-> Nobody, lives |-> TRUE] ELSE cookie
    /\ tab' = [Blank EXCEPT !.booted = TRUE]
    /\ req' = Moved(req)
    /\ kept' = Empty
    /\ Disturb
    /\ UNCHANGED <<visit, role, refresh, boot>>

\* SecuritySection.handleLogoutEverywhere(): the cache stays.
SignOutEverywhere(reached) ==
    /\ isAuthenticated
    /\ visit.door = "signedIn"
    /\ cookie' = IF reached THEN [of |-> Nobody, lives |-> TRUE] ELSE cookie
    /\ tab' = [Blank EXCEPT !.booted = TRUE]
    /\ req' = Moved(req)
    /\ Disturb
    /\ UNCHANGED <<visit, role, refresh, boot, kept>>

\* Another tab of this browser signs in or out.
OtherTab(a) ==
    /\ IF a = Nobody THEN TRUE ELSE role[a] # "gone"
    /\ cookie' = [of |-> a, lives |-> TRUE]
    /\ cookie' # cookie
    /\ Disturb
    /\ UNCHANGED <<visit, role, tab, refresh, boot, req, kept>>

\* The session is over: by time, from another device, by a new password.
EndSession ==
    /\ cookie.lives
    /\ cookie' = [cookie EXCEPT !.lives = FALSE]
    /\ Disturb
    /\ UNCHANGED <<visit, role, tab, refresh, boot, req, kept>>

\* The administrator's rights are given or taken by hand, in the database.
SetRole(a) ==
    /\ role[a] # "gone"
    /\ role' = [role EXCEPT ![a] = IF @ = "ADMIN" THEN "USER" ELSE "ADMIN"]
    /\ Disturb
    /\ UNCHANGED <<visit, cookie, tab, refresh, boot, req, kept>>

RemoveUser(a) ==
    /\ role[a] = "USER"
    /\ role' = [role EXCEPT ![a] = "gone"]
    /\ cookie' = IF cookie.of = a THEN [cookie EXCEPT !.lives = FALSE] ELSE cookie
    /\ Disturb
    /\ UNCHANGED <<visit, tab, refresh, boot, req, kept>>

Reload ==
    /\ tab' = Blank
    /\ refresh' = "none"
    /\ boot' = "sent"
    /\ req' = [r \in Slots |-> Idle]
    /\ kept' = Empty
    /\ ghost' = Calm
    /\ UNCHANGED <<visit, role, cookie>>

Step ==
    \/ \E r \in Slots :
        \/ Begin(r) \/ Serve(r) \/ Deliver(r)
        \/ Renew(r) \/ Refuse(r) \/ AskAgain(r) \/ GiveUp(r)
    \/ RefreshServe \/ RefreshSucceeds \/ RefreshFails
    \/ BootServe \/ BootArrive

Event ==
    \/ \E r \in Slots : Lose(r)
    \/ RefreshLose \/ Expire \/ EndSession \/ Reload
    \/ \E a \in Accounts : SignIn(a) \/ SetRole(a) \/ RemoveUser(a)
    \/ \E a \in Accounts \cup {Nobody} : OtherTab(a)
    \/ \E reached \in BOOLEAN : SignOut(reached) \/ SignOutEverywhere(reached)

Next ==
    \/ Step /\ UNCHANGED events
    \/ Event /\ events < MaxEvents /\ events' = events + 1

Spec == Init /\ [][Next]_vars

-----------------------------------------------------------------------------
(* Properties. *)

\* Whatever the visitor sees fail for want of rights has a cause outside the
\* page: a session that ended, rights that changed, another sign-in, a refresh
\* that was lost.  Neither an expired token nor a page that calls a route its
\* visitor may not use is such a cause.  (client.ts, ProtectedRoute, `enabled`
\* in the query hooks, @UseGuards and the order of the routes.)
RefusedForACause ==
    \A r \in Slots :
        req[r].stage = "refused" /\ req[r].answer # "lost" => ghost.disturbed

\* An answer kept under an account's key is that account's, and one kept under
\* "guest" is the guest's, unless the visitor signed in or out while it was
\* under way or a refresh brought the token of someone else: retries, refreshes
\* and the repetition as a guest never mix two visitors.
\* (useCartIdentity, useOrdersIdentity, the interceptors of client.ts.)
KeptUnderItsOwner ==
    \A a \in DOMAIN kept : kept[a].sure => kept[a].owner \in {"nothing", a}

\* "A rotation that didn't change who is signed in" (authSlice.ts:50).
RotationKeepsWho == isAuthenticated => tab.token.of = tab.user
=============================================================================
