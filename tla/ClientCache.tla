---------------------------- MODULE ClientCache ----------------------------
(***************************************************************************)
(* The storefront's copy of the server's data: the query cache of one      *)
(* browser tab, the hooks that read it (hooks/queries) and the hooks that  *)
(* change the server and then the copy (hooks/mutations).                  *)
(*                                                                         *)
(* The database is the log of the writes committed so far.  A copy is the  *)
(* set of those writes it shows, so a copy is out of date when it misses   *)
(* one.  What a row holds is left out; which kinds of rows a query shows   *)
(* and a mutation writes is not: it comes from the services that answer.   *)
(*                                                                         *)
(* The cache library (@tanstack/react-query) is external, modelled as the  *)
(* hooks use it: invalidateQueries marks every key with the prefix, starts *)
(* a request for those on screen and restarts one under way, unless that   *)
(* is the key's first load; setQueryData replaces the copy and takes the   *)
(* mark off, and stops no request; cancelQueries stops them.               *)
(***************************************************************************)
EXTENDS Integers, FiniteSets, Sequences

CONSTANTS
    Calls,     \* mutations that can be under way at once (bound)
    MaxWrites, \* writes ever committed (bound)
    Screens,   \* the sets of keys that can be on screen together (workload)
    Asked      \* the mutations used (workload)

VARIABLES
    log,      \* the database: the writes, in the order they were committed
    copy,     \* the cache: one entry per key
    onScreen, \* the keys that a mounted component observes
    call,     \* the mutations under way
    known     \* history: the writes this tab has been told of

vars == <<log, copy, onScreen, call, known>>

ASSUME CacheAssumption == MaxWrites \in Nat

-----------------------------------------------------------------------------
(* The queries: a key, the kinds of rows it shows, whether coming back to  *)
(* the window asks again, whether it asks again by itself, and whether     *)
(* leaving the screen stops its request.                                   *)

Query(key, shows) ==
    [key |-> key, shows |-> shows, focus |-> FALSE, poll |-> FALSE, signal |-> FALSE]

Card == {"painting", "stock", "likesCount", "series", "technique", "material"}
Works == Card \cup {"works"}

PaintingList == [Query(<<"paintings", "list">>, Works) EXCEPT !.signal = TRUE]
PaintingDetail == [Query(<<"paintings", "detail">>, Card) EXCEPT !.signal = TRUE]
Related == [Query(<<"paintings", "related">>, Works) EXCEPT !.signal = TRUE]
PriceRange == [Query(<<"paintings", "price-range">>, {"painting", "works"}) EXCEPT !.signal = TRUE]
Techniques == Query(<<"techniques", "list">>, {"technique"})
Materials == Query(<<"materials", "list">>, {"material"})
SeriesList == Query(<<"series", "list">>, {"series"})
Showcase == [Query(<<"series", "showcase">>, Works) EXCEPT !.signal = TRUE]
AdminSeries == Query(<<"series", "admin">>, {"series"})
Giveaways == Query(<<"giveaways", "list">>, {"giveaways", "giveaway", "entry"})
Giveaway == Query(<<"giveaways", "detail">>, {"giveaway", "entry"})
MyStatus == Query(<<"giveaways", "my-status">>, {"myEntry"})
News == Query(<<"news", "list">>, {"news"})
Cart == [Query(<<"cart", "detail">>, {"cart", "painting", "stock"}) EXCEPT !.focus = TRUE]
LikedIds == Query(<<"likes", "mine">>, {"like"})
LikedPaintings == Query(<<"likes", "my-paintings">>, {"like"} \cup Card)
MyOrders == Query(<<"orders", "mine">>, {"order", "review"})
AdminOrders == [Query(<<"orders", "admin">>, {"order"}) EXCEPT !.focus = TRUE]
PendingOrders ==
    [Query(<<"orders", "admin", "pending-count">>, {"order"}) EXCEPT !.focus = TRUE]
AdminUsers == Query(<<"users", "admin">>, {"user"})
MailLog == [Query(<<"mail", "outbox">>, {"letter"}) EXCEPT !.poll = TRUE]
MailLetter == Query(<<"mail", "letter">>, {"letter"})
PublicSettings == Query(<<"settings">>, {"settings"})
AdminSettings == Query(<<"settings", "admin">>, {"settings"})
PublicReviews == Query(<<"reviews", "public">>, {"published"})
AdminReviews == Query(<<"reviews", "admin">>, {"review"})
Faq == Query(<<"faq">>, {"faq"})
Analytics == Query(<<"analytics", "overview">>, {"order", "painting", "user", "likesCount"})

Queries ==
    {PaintingList, PaintingDetail, Related, PriceRange, Techniques, Materials,
     SeriesList, Showcase, AdminSeries, Giveaways, Giveaway, MyStatus, News, Cart,
     LikedIds, LikedPaintings, MyOrders, AdminOrders, PendingOrders, AdminUsers,
     MailLog, MailLetter, PublicSettings, AdminSettings, PublicReviews,
     AdminReviews, Faq, Analytics}

Keys == {q.key : q \in Queries}
QueryOf == [k \in Keys |-> CHOOSE q \in Queries : q.key = k]
Under(k, prefixes) == \E n \in 1 .. Len(k) : SubSeq(k, 1, n) \in prefixes

-----------------------------------------------------------------------------
(* The mutations: the kinds of rows the server changes, the prefixes that  *)
(* are invalidated when it has answered, the keys that are given the       *)
(* answer itself, and whether the copies are changed before it answers.    *)

Mutation(writes, invalidates) ==
    [writes |-> writes, invalidates |-> invalidates, sets |-> {}, optimistic |-> FALSE]

Orders == {<<"orders">>}
Letters == {<<"mail">>}
invalidateSeries == {<<"series">>, <<"paintings">>}

useCancelOrderMutation == Mutation({"order", "stock", "letter"}, Orders)
useUpdateOrderStatusMutation == Mutation({"order", "stock", "letter"}, Orders)
useUpdatePaymentStatusMutation == Mutation({"order", "letter"}, Orders)
useSendStatusMailMutation == Mutation({"letter"}, Letters)
useSendApologyMailMutation == Mutation({"letter"}, Letters)
useUploadPaymentProofMutation == Mutation({"order", "letter"}, Orders)
useArchiveOrderMutation == Mutation({"order"}, Orders)
useDeleteOrderMutation == Mutation({"order", "stock", "review", "published"}, Orders)
useCheckoutMutation ==
    Mutation({"order", "stock", "cart", "letter"}, {<<"cart">>} \cup Orders)
claimGuestOrders == Mutation({"order"}, {})

useAddToCart == Mutation({"cart"}, {<<"cart">>})
useRemoveCartItemMutation == Mutation({"cart"}, {<<"cart">>})
useMergeGuestCartMutation == Mutation({"cart"}, {<<"cart">>, <<"likes">>})
useLikeMutation ==
    [Mutation({"like", "likesCount"}, {<<"paintings">>, <<"likes">>})
        EXCEPT !.optimistic = TRUE]

useCreatePaintingMutation == Mutation({"works"}, {<<"paintings", "list">>})
useUpdatePaintingMutation ==
    Mutation({"painting", "stock"},
             {<<"paintings", "list">>, <<"paintings", "detail">>, <<"paintings", "related">>})
useDeletePaintingMutation ==
    Mutation({"works", "painting", "cart", "like"}, {<<"paintings", "list">>})
useCreateSeriesMutation == Mutation({"series"}, invalidateSeries)
useUpdateSeriesMutation == Mutation({"series"}, invalidateSeries)
useDeleteSeriesMutation == Mutation({"series"}, invalidateSeries)
useAssignPaintingToSeriesMutation == Mutation({"series"}, invalidateSeries)
useMaterialMutations == Mutation({"material"}, {Materials.key})
useTechniqueMutations == Mutation({"technique"}, {Techniques.key})

useCreateGiveawayMutation == Mutation({"giveaways"}, {<<"giveaways", "list">>})
useUpdateGiveawayMutation ==
    Mutation({"giveaway"}, {<<"giveaways", "list">>, <<"giveaways", "detail">>})
useDeleteGiveawayMutation ==
    Mutation({"giveaways", "giveaway", "entry", "myEntry"}, {<<"giveaways", "list">>})
useGiveawayJoinMutation ==
    [Mutation({"entry", "myEntry"}, {<<"giveaways", "list">>}) EXCEPT !.sets = {Giveaway.key, MyStatus.key}]
useCreateNewsMutation == Mutation({"news"}, {News.key})
useUpdateNewsMutation == Mutation({"news"}, {News.key})
useDeleteNewsMutation == Mutation({"news"}, {News.key})

useCreateReviewMutation == Mutation({"review"}, Orders \cup {AdminReviews.key})
useUpdateReviewMutation == Mutation({"review", "published"}, {<<"reviews">>})
useDeleteReviewMutation == Mutation({"review", "published"}, {<<"reviews">>} \cup Orders)
useFaqMutation == [Mutation({"faq"}, {}) EXCEPT !.sets = {Faq.key}]
useResetAdminTelegramLinkMutation ==
    [Mutation({"settings"}, {<<"settings">>}) EXCEPT !.sets = {AdminSettings.key}]
useUpdateSettingsMutation ==
    [Mutation({"settings"}, {<<"settings">>}) EXCEPT !.sets = {AdminSettings.key}]
useRetryMailMutation == Mutation({"letter"}, Letters)
useClearSettledMailMutation == Mutation({"letter"}, Letters)
useDeleteUserMutation ==
    Mutation({"user", "order", "likesCount", "entry"}, {<<"users">>})

MutationOf ==
    [cancelOrder |-> useCancelOrderMutation, orderStatus |-> useUpdateOrderStatusMutation,
     paymentStatus |-> useUpdatePaymentStatusMutation, statusMail |-> useSendStatusMailMutation,
     apologyMail |-> useSendApologyMailMutation, paymentProof |-> useUploadPaymentProofMutation,
     archiveOrder |-> useArchiveOrderMutation, deleteOrder |-> useDeleteOrderMutation,
     checkout |-> useCheckoutMutation, claimOrders |-> claimGuestOrders,
     addToCart |-> useAddToCart, removeCartItem |-> useRemoveCartItemMutation,
     mergeCart |-> useMergeGuestCartMutation, like |-> useLikeMutation,
     createPainting |-> useCreatePaintingMutation, updatePainting |-> useUpdatePaintingMutation,
     deletePainting |-> useDeletePaintingMutation, createSeries |-> useCreateSeriesMutation,
     updateSeries |-> useUpdateSeriesMutation, deleteSeries |-> useDeleteSeriesMutation,
     assignSeries |-> useAssignPaintingToSeriesMutation, material |-> useMaterialMutations,
     technique |-> useTechniqueMutations, createGiveaway |-> useCreateGiveawayMutation,
     updateGiveaway |-> useUpdateGiveawayMutation, deleteGiveaway |-> useDeleteGiveawayMutation,
     joinGiveaway |-> useGiveawayJoinMutation, createNews |-> useCreateNewsMutation,
     updateNews |-> useUpdateNewsMutation, deleteNews |-> useDeleteNewsMutation,
     createReview |-> useCreateReviewMutation, updateReview |-> useUpdateReviewMutation,
     deleteReview |-> useDeleteReviewMutation, faqItem |-> useFaqMutation,
     resetBot |-> useResetAdminTelegramLinkMutation, settings |-> useUpdateSettingsMutation,
     retryMail |-> useRetryMailMutation, clearMail |-> useClearSettledMailMutation,
     deleteUser |-> useDeleteUserMutation]

Mutations == DOMAIN MutationOf

\* Another visitor buys the painting; nobody tells this tab.
WritesOf(w) == IF w = "sale" THEN {"stock", "order"} ELSE MutationOf[w].writes

Shows(k, w) == QueryOf[k].shows \cap WritesOf(w) # {}

-----------------------------------------------------------------------------
(* The state of the tab. *)

Blank ==
    [loaded |-> FALSE, seen |-> {}, patched |-> {}, stale |-> TRUE,
     fetch |-> "none", took |-> {}, overtaken |-> FALSE, late |-> FALSE]

\* `late`: what arrived last had been read, or answered, before something this
\* tab had already been told of.
Entry ==
    [loaded : BOOLEAN, seen : SUBSET (1 .. MaxWrites), patched : SUBSET Calls,
     stale : BOOLEAN, fetch : {"none", "asked", "read"}, took : SUBSET (1 .. MaxWrites),
     overtaken : BOOLEAN, late : BOOLEAN]

Content == [loaded : BOOLEAN, seen : SUBSET (1 .. MaxWrites), patched : SUBSET Calls]

ListShaped == {PaintingList.key, Related.key}
Optimistic == ListShaped \cup {PaintingDetail.key, LikedIds.key}

Idle == [does |-> "nothing", stage |-> "idle", write |-> 0, before |-> << >>]

\* `keys`: those of the queries that this tab uses.
Init(keys) ==
    /\ log = << >>
    /\ copy = [k \in keys |-> Blank]
    /\ onScreen = {}
    /\ call = [c \in Calls |-> Idle]
    /\ known = {}

ContentOf(e) == [loaded |-> e.loaded, seen |-> e.seen, patched |-> e.patched]

\* A request for the key, unless one is under way.
Fetch(e) == IF e.fetch = "none" THEN [e EXCEPT !.fetch = "asked"] ELSE e
Stop(e) == [e EXCEPT !.fetch = "none", !.took = {}, !.overtaken = FALSE]

\* setQueryData(): a request that has already read the database will bring
\* back what was there before.
SetData(e, content) ==
    [e EXCEPT !.loaded = content.loaded, !.seen = content.seen, !.patched = content.patched,
              !.stale = FALSE, !.overtaken = e.overtaken \/ e.fetch = "read"]

\* invalidateQueries(): a first load is not restarted, and neither is a request
\* of a component that has gone.
Invalidated(e, observed) ==
    IF observed /\ (e.fetch = "none" \/ e.loaded)
    THEN [Stop(e) EXCEPT !.stale = TRUE, !.fetch = "asked"]
    ELSE [e EXCEPT !.stale = TRUE, !.overtaken = e.overtaken \/ e.fetch = "read"]

Invalidate(entries, prefixes) ==
    [k \in DOMAIN entries |-> IF Under(k, prefixes) THEN Invalidated(entries[k], k \in onScreen)
                                                       ELSE entries[k]]

-----------------------------------------------------------------------------
(* Components coming and going, time, and the requests of the queries. *)

\* What is shown changes.  A key that comes on screen is asked for if it is
\* stale; the painting's own page asks in any case.
Show(screen) ==
    /\ screen # onScreen
    /\ onScreen' = screen
    /\ copy' = [k \in DOMAIN copy |->
          IF k \in screen \ onScreen /\ (copy[k].stale \/ k = PaintingDetail.key)
          THEN Fetch(copy[k])
          ELSE IF k \in onScreen \ screen /\ QueryOf[k].signal THEN Stop(copy[k])
          ELSE copy[k]]
    /\ UNCHANGED <<log, call, known>>

\* staleTime has passed.
Age(k) ==
    /\ copy[k].loaded
    /\ ~copy[k].stale
    /\ copy' = [copy EXCEPT ![k].stale = TRUE]
    /\ UNCHANGED <<log, onScreen, call, known>>

\* gcTime has passed since the key was last on screen.
Collect(k) ==
    /\ k \notin onScreen
    /\ copy[k].loaded
    /\ copy[k].fetch = "none"
    /\ copy' = [copy EXCEPT ![k] = Blank]
    /\ UNCHANGED <<log, onScreen, call, known>>

\* The window gets the focus back, or the network returns.
Return(online) ==
    /\ copy' = [k \in DOMAIN copy |->
          IF k \in onScreen /\ copy[k].stale /\ (online \/ QueryOf[k].focus)
          THEN Fetch(copy[k]) ELSE copy[k]]
    /\ copy' # copy
    /\ UNCHANGED <<log, onScreen, call, known>>

\* refetchInterval
Poll(k) ==
    /\ k \in onScreen
    /\ QueryOf[k].poll
    /\ copy' = [copy EXCEPT ![k] = Fetch(copy[k])]
    /\ copy' # copy
    /\ UNCHANGED <<log, onScreen, call, known>>

FetchRead(k) ==
    /\ copy[k].fetch = "asked"
    /\ copy' = [copy EXCEPT ![k].fetch = "read", ![k].took = 1 .. Len(log)]
    /\ UNCHANGED <<log, onScreen, call, known>>

FetchArrives(k) ==
    /\ copy[k].fetch = "read"
    /\ copy' = [copy EXCEPT ![k] =
          [Blank EXCEPT !.loaded = TRUE, !.seen = copy[k].took, !.stale = FALSE,
                        !.late = copy[k].overtaken]]
    /\ UNCHANGED <<log, onScreen, call, known>>

\* The request and its one retry fail: the copy stays what it was.
FetchFails(k) ==
    /\ copy[k].fetch # "none"
    /\ copy' = [copy EXCEPT ![k] = Stop(copy[k])]
    /\ UNCHANGED <<log, onScreen, call, known>>

-----------------------------------------------------------------------------
(* The mutations. *)

\* onMutate of a like: the requests stop, the copies are kept for later and
\* changed.  The list of liked works is made up if it has never been loaded.
Patched(c) ==
    [k \in DOMAIN copy |->
        LET e == IF Under(k, {<<"paintings">>, <<"likes">>}) THEN Stop(copy[k]) ELSE copy[k]
        IN IF k \in Optimistic /\ (e.loaded \/ k = LikedIds.key)
           THEN SetData(e, [loaded |-> TRUE, seen |-> e.seen, patched |-> e.patched \cup {c}])
           ELSE e]

Begin(c, m) ==
    /\ call[c].stage = "idle"
    /\ IF MutationOf[m].optimistic
       THEN /\ call' = [call EXCEPT ![c] =
                   [does |-> m, stage |-> "sent", write |-> 0,
                    before |-> [k \in Optimistic \cap DOMAIN copy |-> ContentOf(copy[k])]]]
            /\ copy' = Patched(c)
       ELSE /\ call' = [call EXCEPT ![c] = [Idle EXCEPT !.does = m, !.stage = "sent"]]
            /\ UNCHANGED copy
    /\ UNCHANGED <<log, onScreen, known>>

Sold == \E i \in DOMAIN log : log[i] = "sale"

\* The server commits the write; a work that is sold cannot be put in a cart.
Serve(c) ==
    /\ call[c].stage = "sent"
    /\ Len(log) < MaxWrites
    /\ call[c].does = "addToCart" => ~Sold
    /\ log' = Append(log, call[c].does)
    /\ call' = [call EXCEPT ![c].stage = "served", ![c].write = Len(log) + 1]
    /\ UNCHANGED <<copy, onScreen, known>>

\* The server refuses, or the answer is lost on its way, written or not.
Refuse(c) ==
    /\ call[c].stage \in {"sent", "served"}
    /\ call' = [call EXCEPT ![c].stage = "refused"]
    /\ UNCHANGED <<log, copy, onScreen, known>>

RefuseSold(c) ==
    /\ call[c].stage = "sent"
    /\ call[c].does = "addToCart"
    /\ Sold
    /\ call' = [call EXCEPT ![c].stage = "sold"]
    /\ UNCHANGED <<log, copy, onScreen, known>>

Sale ==
    /\ Len(log) < MaxWrites
    /\ ~Sold
    /\ log' = Append(log, "sale")
    /\ UNCHANGED <<copy, onScreen, call, known>>

\* setQueryData() with the answer.  The giveaway's own page takes only the
\* number of participants from it, and only if it has been loaded.
Given(k, e, w) ==
    IF k # Giveaway.key
    THEN [SetData(e, [loaded |-> TRUE, seen |-> 1 .. w, patched |-> {}])
             EXCEPT !.late = \E i \in known : Shows(k, log[i]) /\ i > w]
    ELSE IF ~e.loaded THEN [e EXCEPT !.overtaken = @ \/ e.fetch = "read"]
    ELSE SetData(e, [ContentOf(e) EXCEPT
                        !.seen = @ \cup {i \in 1 .. w :
                           WritesOf(log[i]) \cap Giveaway.shows = {"entry"}}])

Succeed(c) ==
    LET m == MutationOf[call[c].does]
        given == [k \in DOMAIN copy |-> IF k \in m.sets THEN Given(k, copy[k], call[c].write)
                                                        ELSE copy[k]]
    IN /\ call[c].stage = "served"
       /\ copy' = Invalidate(given, m.invalidates)
       /\ known' = known \cup {call[c].write}
       /\ call' = [call EXCEPT ![c] = Idle]
       /\ UNCHANGED <<log, onScreen>>

\* The copies a like changed are put back as they were before it, but for a
\* list of liked works that was not there; then everything is asked for again.
RolledBack(c) ==
    [k \in DOMAIN copy |->
        IF k \in Optimistic /\ call[c].before[k].loaded
        THEN SetData(copy[k], call[c].before[k]) ELSE copy[k]]

\* Mutation of Fail: the copies are put back, and nothing is asked for again.
FailQuietly(c) ==
    LET m == MutationOf[call[c].does]
    IN /\ call[c].stage = "refused"
       /\ copy' = IF m.optimistic THEN RolledBack(c) ELSE copy
       /\ call' = [call EXCEPT ![c] = Idle]
       /\ UNCHANGED <<log, onScreen, known>>

Fail(c) ==
    LET m == MutationOf[call[c].does]
    IN /\ call[c].stage = "refused"
       /\ copy' = IF m.optimistic THEN Invalidate(RolledBack(c), m.invalidates) ELSE copy
       /\ call' = [call EXCEPT ![c] = Idle]
       /\ UNCHANGED <<log, onScreen, known>>

\* "Sold" is written on the copies that have the work, then they are asked for.
MarkSold(c) ==
    LET sales == {i \in DOMAIN log : log[i] = "sale"}
        marked == [k \in DOMAIN copy |->
            IF k \in {PaintingDetail.key, PaintingList.key} /\ copy[k].loaded
            THEN SetData(copy[k], [ContentOf(copy[k]) EXCEPT !.seen = @ \cup sales])
            ELSE copy[k]]
    IN /\ call[c].stage = "sold"
       /\ copy' = Invalidate(marked, {<<"paintings">>})
       /\ known' = known \cup sales
       /\ call' = [call EXCEPT ![c] = Idle]
       /\ UNCHANGED <<log, onScreen>>

CallStep(c) ==
    \/ Serve(c)
    \/ Refuse(c)
    \/ RefuseSold(c)
    \/ Succeed(c)
    \/ Fail(c)
    \/ MarkSold(c)

KeyStep(k) ==
    \/ Age(k)
    \/ Collect(k)
    \/ Poll(k)
    \/ FetchRead(k)
    \/ FetchArrives(k)
    \/ FetchFails(k)

Next ==
    \/ \E screen \in Screens : Show(screen)
    \/ \E online \in BOOLEAN : Return(online)
    \/ \E k \in DOMAIN copy : KeyStep(k)
    \/ \E c \in Calls : CallStep(c) \/ \E m \in Asked : Begin(c, m)
    \/ Sale

Spec == Init(Keys) /\ [][Next]_vars

-----------------------------------------------------------------------------
(* Properties. *)

TypeOK ==
    /\ log \in Seq(Mutations \cup {"sale"})
    /\ Len(log) <= MaxWrites
    /\ copy \in [DOMAIN copy -> Entry]
    /\ DOMAIN copy \subseteq Keys
    /\ onScreen \subseteq Keys
    /\ \A c \in Calls :
        /\ call[c].does \in Mutations \cup {"nothing"}
        /\ call[c].stage \in {"idle", "sent", "served", "refused", "sold"}
        /\ call[c].write \in 0 .. Len(log)
        /\ call[c].before \in {<< >>} \cup [Optimistic \cap DOMAIN copy -> Content]
    /\ known \subseteq DOMAIN log

Showing(rows) == {q.key : q \in {q \in Queries : q.shows \cap rows # {}}}

\* What no mutation hook refreshes although the write changed it: it is shown
\* as it was until its staleTime is over and it is mounted, or asked for, again.
Outstanding(w) ==
    {Analytics.key} \cup
    CASE w \in {"cancelOrder", "orderStatus"} -> Showing({"stock", "letter"})
      [] w = "checkout" -> Showing({"stock", "letter"}) \ {Cart.key}
      [] w \in {"paymentStatus", "paymentProof"} -> Showing({"letter"})
      [] w = "deleteOrder" -> Showing({"stock", "review", "published"}) \ {MyOrders.key}
      [] w = "claimOrders" -> Showing({"order"})
      [] w = "sale" -> {Showcase.key, LikedPaintings.key, Cart.key} \cup Showing({"order"})
      [] w = "like" -> {Showcase.key}
      [] w = "createPainting" -> Showing({"works"}) \ {PaintingList.key}
      [] w = "updatePainting" -> {Showcase.key, PriceRange.key, Cart.key, LikedPaintings.key}
      [] w = "deletePainting" -> Showing({"works", "painting", "like"}) \ {PaintingList.key}
      [] w \in {"createSeries", "updateSeries", "deleteSeries", "assignSeries"} ->
            {LikedPaintings.key}
      [] w = "material" -> Showing({"material"}) \ {Materials.key}
      [] w = "technique" -> Showing({"technique"}) \ {Techniques.key}
      [] w = "deleteGiveaway" -> {Giveaway.key, MyStatus.key}
      [] w = "updateReview" -> {MyOrders.key}
      [] w = "deleteUser" -> Showing({"order", "likesCount", "entry"})
      [] OTHER -> {}

\* The two tables have no parameter, so these lines are looked up for all of
\* it.  Every query that shows what a mutation writes is invalidated by it, or
\* given its answer, or listed above; so it is for a sale, which is told by the
\* refusal of addToCart.
ASSUME WritesAreAnswered ==
    /\ \A k \in Keys, m \in Mutations :
           Shows(k, m) => k \in Outstanding(m) \/ Under(k, MutationOf[m].invalidates)
                                            \/ k \in MutationOf[m].sets
    /\ \A k \in Keys : Shows(k, "sale") => k \in Outstanding("sale") \/ Under(k, {<<"paintings">>})

\* What is drawn on before the answer is asked for again after it.
ASSUME DrawnOnIsAnswered ==
    /\ \A m \in Mutations :
           MutationOf[m].optimistic => MutationOf[m].invalidates = {<<"paintings">>, <<"likes">>}
    /\ \A k \in Optimistic : Under(k, {<<"paintings">>, <<"likes">>})
    /\ \A k \in {PaintingDetail.key, PaintingList.key} : Under(k, {<<"paintings">>})

\* The giveaway's own page is given an answer only by what adds an entry, and
\* never while something is drawn on it, or marked as sold.
ASSUME EntriesAreGiven ==
    /\ Giveaway.key \notin Optimistic
    /\ \A m \in Mutations : Giveaway.key \in MutationOf[m].sets =>
           WritesOf(m) \cap Giveaway.shows = {"entry"}
    /\ Giveaway.key \notin MutationOf["addToCart"].sets /\ ~MutationOf["addToCart"].optimistic

\* A copy that counts as fresh shows every write this tab has been told of,
\* whatever requests, answers and rollbacks were in flight, but for the pairs
\* listed above, for a copy that was overtaken (a request that cannot be
\* restarted and had read the database before, or answers that changed places)
\* and for one with a like drawn on it, which is the next property's.
\* (Every onSuccess, onError and onSettled of the mutation hooks.)
KnownIsShown ==
    \A k \in DOMAIN copy :
        copy[k].loaded /\ ~copy[k].stale /\ ~copy[k].late /\ copy[k].patched = {} =>
            \A i \in known : Shows(k, log[i]) =>
                i \in copy[k].seen \/ k \in Outstanding(log[i])

\* A like that was drawn before the server answered is either still waiting
\* for that answer, or on a copy that counts as stale and will be replaced: a
\* rollback that puts back a copy with another like on it leaves no phantom
\* that passes for the truth.  (useLikeMutation: onMutate, onError, onSettled.)
PhantomsAreStale ==
    \A k \in DOMAIN copy :
        copy[k].patched # {} =>
            \/ copy[k].stale
            \/ \E c \in Calls : call[c].stage # "idle" /\ call[c].before # << >>

\* What passes for the truth in the cache is what this tab was told: nothing
\* known is missing from it, and no phantom is on it.
CopiesAreTrue == KnownIsShown /\ PhantomsAreStale

\* "Sold since this page was drawn: the work is marked sold everywhere it is
\* cached" (useAddToCart.ts:26-28).
SoldEverywhere ==
    \A k \in DOMAIN copy :
        copy[k].loaded /\ ~copy[k].stale /\ ~copy[k].late =>
            \A i \in known : log[i] = "sale" /\ "stock" \in QueryOf[k].shows =>
                i \in copy[k].seen
=============================================================================
