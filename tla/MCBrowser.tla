----------------------------- MODULE MCBrowser -----------------------------
(***************************************************************************)
(* What runs in the browser, one part at a time: the query cache, who may  *)
(* see what, the forms and pages of the administrator, the pages of the    *)
(* customer, and what moves on them.  The parts share no state, so their   *)
(* product would show nothing more: `part' says which one a behaviour is   *)
(* about; the cache has its variables, and s1 to s12 hold those of any     *)
(* other part, in the order it declares them.  What tells two requests,    *)
(* tabs, selections, pictures or cities apart is what tells two calls.     *)
(***************************************************************************)
EXTENDS ClientCache, FiniteSets, TLC

CONSTANTS
    c1, c2, a1, a2, x1, x2,
    Both,   \* two accounts or works: alike
    Titles,
    NoPart,
    INTERIOR_MIN, INTERIOR_MAX, MaxFailures, \* photographs, and uploads that fail (bound)
    DAY_MS, Change, BEFORE, AFTER, \* the day, and the change of the clock
    SHORT, LONG, GROUP, Totals, MaxRows, MaxNow, \* periods, prices and bounds of the figures
    MaxChanges,     \* of accounts, sessions and rights (bound)
    OrderPrices, MaxMishaps, \* prices, and what befalls an order (bound)
    FILL, WHEEL_QUIET, IDLE_DECAY, VEIL, \* moments of the walk
    MaxEntries,     \* of the tab's history (bound)
    FrameCount,     \* of frames in the strip
    RingWorks, MaxBuilds,
    MaxSent, MaxBefalls, \* messages of the customer's chat, and what befalls it (bounds)
    Conversations, MaxHeard, MaxTurns \* the desk's, its messages and selections (bounds)

VARIABLES part, visit, s1, s2, s3, s4, s5, s6, s7, s8, s9, s10, s11, s12

all == <<part, vars, visit, s1, s2, s3, s4, s5, s6, s7, s8, s9, s10, s11, s12>>

Rights == INSTANCE Access WITH
    Nobody <- NoPart, Accounts <- Both, Slots <- Calls, MaxEvents <- MaxChanges,
    visit <- s1, role <- s2, cookie <- s3, tab <- s4, refresh <- s5,
    boot <- s6, req <- s7, kept <- s8, ghost <- s9, events <- s10

Form == INSTANCE PhotoForm WITH
    Picks <- Calls,
    form <- s1, live <- s2, job <- s3, row <- s4, ghost <- s5

\* The page shows the days of the longer period in groups.
Periods == [days \in {SHORT, LONG} |-> IF days = SHORT THEN 1 ELSE GROUP]

Figures == INSTANCE Analytics WITH
    Offsets <- <<BEFORE, AFTER>>,
    now <- s1, rows <- s2, report <- s3

Order == INSTANCE Checkout WITH
    Works <- Both, Cities <- Calls, Prices <- OrderPrices, MaxEvents <- MaxMishaps,
    shop <- s1, page <- s2, kept <- s3, ask <- s4, call <- s5, order <- s6,
    ghost <- s7

Walk == INSTANCE ScrollContinue WITH
    page <- s1, place <- s2, bar <- s3, wheel <- s4, touch <- s5,
    leaving <- s6, ghost <- s7

Moves == INSTANCE PageMoves WITH
    Pages <- Both,
    history <- s1, shown <- s2, lastAction <- s3, navigated <- s4,
    place <- s5, settle <- s6, gliding <- s7, arrival <- s8

Clips == INSTANCE AlternatingVideo WITH
    scene <- s1, clip <- s2, due <- s3

Strip == INSTANCE HeroSequence WITH
    Count <- FrameCount, Eager <- TRUE, Reduced <- FALSE,
    strip <- s1, onload <- s2, head <- s3, loop <- s4, painted <- s5,
    near <- s6

Ring == INSTANCE Showcase WITH
    Works <- RingWorks,
    page <- s1, job <- s2, ring <- s3, loads <- s4, held <- s5,
    builds <- s6

Counter == INSTANCE Consent WITH
    Tabs <- Calls,
    storage <- s1, store <- s2, tab <- s3, withdrawn <- s4

Chat == INSTANCE CustomerChat WITH
    MaxMessages <- MaxSent, MaxEvents <- MaxBefalls,
    me <- s1, cookie <- s2, sock <- s3, late <- s4, ears <- s5,
    thread <- s6, unread <- s7, screen <- s8, ask <- s9, badge <- s10,
    told <- s11, at <- s12

Desk == INSTANCE SupportDesk WITH
    Chats <- Conversations, Selects <- Calls,
    MaxMessages <- MaxHeard, MaxEvents <- MaxTurns,
    thread <- s1, unread <- s2, rooms <- s3, ears <- s4, list <- s5,
    fetch <- s6, desk <- s7, select <- s8, past <- s9

Questions == INSTANCE FaqEditor WITH
    MaxItems <- 3, MaxCalls <- 2,
    faq <- s1, entries <- s2, order <- s3, field <- s4, dragging <- s5,
    call <- s6, past <- s7

ASSUME BrowserAssumption ==
    /\ Walk!ScrollAssumption
    /\ Form!PhotoAssumption
    /\ Figures!AnalyticsAssumption
    /\ {NoPart, "none", "sent", "done"} \cap Both = {} /\ NoPart \notin {"none", "sent", "done"}
    /\ {FrameCount, RingWorks} \subseteq Nat \ {0}
    /\ {MaxChanges, MaxMishaps, MaxEntries, MaxBuilds, MaxSent, MaxBefalls, MaxHeard, MaxTurns}
           \subseteq Nat
    /\ IsFiniteSet(Conversations) /\ Conversations \subseteq Nat \ {0}

\* The table of the routes and the pages' calls has no parameter: this is all of it.
ASSUME VisitsAreGuarded == \A v \in Rights!Visits : Rights!Guarded(v)

Symmetry == Permutations(Calls) \cup Permutations(Both)

-----------------------------------------------------------------------------
(* What the parts are asked to do, and with what they begin. *)

\* One query that is on screen now and then, and a mutation, twice at a time.
\* Keys do not touch each other and neither do writes, so every pair of a
\* query and a mutation that should reach it is enough; and of the pairs that
\* the cache and its property tell apart by nothing, one.
Meets(m, k) ==
    \/ Shows(k, m) /\ k \notin Outstanding(m)
    \/ k \in MutationOf[m].sets
    \/ k \in Optimistic /\ MutationOf[m].optimistic
    \/ Shows(k, "sale") /\ m = "addToCart"

Named == {PaintingDetail.key, LikedIds.key, Giveaway.key}

Traits(v) ==
    LET q == QueryOf[v.key]
        m == MutationOf[v.does]
    IN <<IF v.key \in Named THEN v.key ELSE << >>, v.key \in Optimistic, q.focus, q.poll, q.signal,
         v.does = "addToCart", v.does = "addToCart" /\ v.key = PaintingList.key, m.optimistic, Shows(v.key, v.does), Shows(v.key, "sale"),
         Under(v.key, m.invalidates), v.key \in m.sets,
         v.key \in Outstanding(v.does), v.key \in Outstanding("sale"),
         m.writes \cap Giveaway.shows = {"entry"}>>

Visits ==
    LET met == {v \in [key : Keys, does : Mutations] : Meets(v.does, v.key)}
    IN {CHOOSE v \in met : Traits(v) = traits : traits \in {Traits(v) : v \in met}}

CacheStep ==
    \/ \E screen \in {{}, {visit.key}} : Show(screen)
    \/ \E online \in BOOLEAN : Return(online)
    \/ KeyStep(visit.key)
    \/ \E c \in Calls : CallStep(c) \/ Begin(c, visit.does)
    \/ visit.does = "addToCart" /\ Sale

\* The accounts are customers' at first, but for one where the page, its door
\* or the route asks for an administrator.
RightsInit ==
    /\ Rights!Init
    /\ \E a \in Both : s2[a] = "USER"
    /\ (\A a \in Both : s2[a] = "USER") \/ "admin" \in {s1.door, s1.guard, s1.gate}

\* The administrator touches a form only while it saves, and keeps at most one
\* picture that was there before.
FormStep ==
    /\ Form!Next
    /\ s5.touched => s3.at # "none"
    /\ s1.open =>
          Cardinality((UNION {Form!Range(s4[s]) : s \in Form!Sections})
                          \ (UNION {s5.picked[s] : s \in Form!Sections})) <= 1

\* Rows come before the report or change once while it is read.
FiguresStep ==
    LET first == {q \in Figures!Queries : Figures!TableOf[q] = "order"} IN
    \/ /\ IF s3.at = "reading" THEN s3.left # Figures!Queries /\ s3.moved = {} ELSE s2 = {}
       /\ \/ \E pays \in {"CARD_TRANSFER", "CASH_ON_DELIVERY"}, buyer \in {"one", "none"},
                total \in Totals : Figures!Place(pays, buyer, total)
          \/ \E table \in {"like", "cart"} : Figures!Add(table)
    \/ \E row \in s2 : s3.moved = {} /\ s3.at # "shown" /\ Figures!Administer(row)
    \/ s3.at = "none" /\ (Figures!Tick \/ \E days \in DOMAIN Periods : Figures!overview(days))
    \/ s3.left = Figures!Queries /\ \E some \in SUBSET first : Figures!Read(some)
    \/ Figures!Read(s3.left)
    \/ Figures!Show

\* One order, sent when no quote is on its way, with at most one in the cache;
\* an order that others spoil is spoilt while it is sent.
OrderStep ==
    /\ ~Order!placed
    /\ Order!Next
    /\ Cardinality(s3') <= 1
    /\ \A quote \in s3 : s4'.at # "none" => quote.key = s4'.key
    /\ s5'.at # "none" => s4'.at = "none"
    /\ s7'.others => s5.at # "none" /\ s3 = {}
    /\ s2.pending =>
          \/ ~s2'.pending
          \/ /\ s2'.city = s2.city
             /\ s2'.provider = s2.provider
             /\ s2'.warehouse = s2.warehouse

\* The ring is turned when no texture is on its way.
RingStep ==
    /\ Ring!Next
    /\ \/ s4 = {}
       \/ s3'.build # s3.build
       \/ s3' = [s3 EXCEPT !.frame = s3'.frame, !.visible = s3'.visible]

\* The administrator types in one row at a time.
FaqStep ==
    /\ Questions!Next
    /\ s4' # s4 /\ s2' = s2 => Cardinality({i \in DOMAIN s2 : s4'[i] # s2[i].title}) <= 1

-----------------------------------------------------------------------------
\* The variables that the part has no use for.
rest12 == <<s12>>
rest11 == <<s11, rest12>>
rest10 == <<s10, rest11>>
rest9 == <<s9, rest10>>
rest8 == <<s8, rest9>>
rest7 == <<s7, rest8>>
rest6 == <<s6, rest7>>
rest5 == <<s5, rest6>>
rest4 == <<s4, rest5>>
rest3 == <<s3, rest4>>
rest2 == <<s2, rest3>>
rest1 == <<s1, rest2>>

Idle12 == s12 = NoPart
Idle11 == s11 = NoPart /\ Idle12
Idle10 == s10 = NoPart /\ Idle11
Idle9 == s9 = NoPart /\ Idle10
Idle8 == s8 = NoPart /\ Idle9
Idle7 == s7 = NoPart /\ Idle8
Idle6 == s6 = NoPart /\ Idle7
Idle5 == s5 = NoPart /\ Idle6
Idle4 == s4 = NoPart /\ Idle5
Idle3 == s3 = NoPart /\ Idle4
Idle2 == s2 = NoPart /\ Idle3
Idle1 == s1 = NoPart /\ Idle2

MCInit ==
    \/ part = "cache" /\ visit \in Visits /\ Init({visit.key}) /\ Idle1
    \/ /\ visit = NoPart /\ Init({})
       /\ \/ part = "rights" /\ RightsInit /\ Idle11
          \/ part = "form" /\ Form!Init /\ Idle6
          \/ part = "figures" /\ Figures!Init /\ Idle4
          \/ part = "order" /\ Order!Init /\ s1.sender /\ Idle8
          \/ part = "walk" /\ Walk!Init /\ Idle8
          \/ part = "moves" /\ Moves!Init /\ Idle9
          \/ part = "clips" /\ Clips!Init /\ Idle4
          \/ part = "strip" /\ Strip!Init /\ Idle7
          \/ part = "ring" /\ Ring!Init /\ Idle7
          \/ part = "counter" /\ Counter!Init /\ Idle5
          \/ part = "chat" /\ Chat!Init
          \/ part = "desk" /\ Desk!Init /\ Idle10
          \/ part = "faq" /\ Questions!Init /\ Idle8

MCNext ==
    /\ UNCHANGED <<part, visit>>
    /\ \/ part = "cache" /\ CacheStep /\ UNCHANGED rest1
       \/ part = "rights" /\ Rights!Next /\ UNCHANGED vars /\ UNCHANGED rest11
       \/ part = "form" /\ FormStep /\ UNCHANGED vars /\ UNCHANGED rest6
       \/ part = "figures" /\ FiguresStep /\ UNCHANGED vars /\ UNCHANGED rest4
       \/ part = "order" /\ OrderStep /\ UNCHANGED vars /\ UNCHANGED rest8
       \/ part = "walk" /\ Walk!Next /\ UNCHANGED vars /\ UNCHANGED rest8
       \/ part = "moves" /\ Moves!Next /\ UNCHANGED vars /\ UNCHANGED rest9
       \/ part = "clips" /\ Clips!Next /\ UNCHANGED vars /\ UNCHANGED rest4
       \/ part = "strip" /\ Strip!Next /\ UNCHANGED vars /\ UNCHANGED rest7
       \/ part = "ring" /\ RingStep /\ UNCHANGED vars /\ UNCHANGED rest7
       \/ part = "counter" /\ Counter!Next /\ UNCHANGED vars /\ UNCHANGED rest5
       \/ part = "chat" /\ Chat!Next /\ UNCHANGED vars
       \/ part = "desk" /\ Desk!Next /\ UNCHANGED vars /\ UNCHANGED rest10
       \/ part = "faq" /\ FaqStep /\ UNCHANGED vars /\ UNCHANGED rest8

MCSpec == MCInit /\ [][MCNext]_all

RefusedForACause == part = "rights" => Rights!RefusedForACause
KeptUnderItsOwner == part = "rights" => Rights!KeptUnderItsOwner
SavesWhatWasPicked == [][(part = "form") => Form!SavesWhatWasPicked]_all
FiguresAgree == part = "figures" => Figures!FiguresAgree
ChargedAsShown == part = "order" => Order!ChargedAsShown
TurnsAreMeant == [][(part = "walk") => Walk!IsMeant]_all
StartsWhereItShould == part = "moves" => Moves!StartsWhereItShould
CarriesTheScene == part = "clips" => Clips!CarriesTheScene
AtRestShowsBest == part = "strip" => Strip!AtRestShowsBest
ReleasedInDestroy == part = "ring" => Ring!ReleasedInDestroy
WithdrawalStops == part = "counter" => Counter!WithdrawalStops
LandsUnderItsWriter == part = "chat" => Chat!LandsUnderItsWriter
OneConversation == part = "desk" => Desk!OneConversation
AgreesAtRest == part = "faq" => Questions!AgreesAtRest
ReorderTakesEffect == part = "faq" => Questions!ReorderTakesEffect
=============================================================================
