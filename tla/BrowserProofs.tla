---------------------------- MODULE BrowserProofs ----------------------------
(***************************************************************************)
(* Theorems about the parts of MCBrowser: each has an inductive invariant  *)
(* of its own, and its theorem says of MCSpec what the run checks of it.   *)
(* Which part a behaviour is about never changes, and what another part    *)
(* does is not seen.                                                       *)
(***************************************************************************)
EXTENDS MCBrowser, DataLemmas

counter == <<s1, s2, s3, s4>>

-----------------------------------------------------------------------------
(* The counter of visits: a yes that is taken back stops it in every tab.  *)

Held == [consent : {"none", "older", "yes", "no"}, ignore : {"none", "true"}]

Page == [open : BOOLEAN, memory : Held, allowed : BOOLEAN, wasAllowed : BOOLEAN,
         script : {"none", "asked", "loaded"}, banner : {"none", "rising", "up", "leaving"},
         settings : {"closed", "yes", "no"}]

CounterType ==
    /\ s1 \in {"open", "full", "blocked"}
    /\ s2 \in Held
    /\ s3 \in [Calls -> Page]
    /\ s4 \in BOOLEAN

\* A page that counts by a yes knows that it does, and will leave an opt-out.
Knows(page) == page.allowed => page.wasAllowed

\* What a withdrawal left in the store.
OptedOut(now) == now.ignore = "true" /\ now.consent = "no"

ConsentInv ==
    /\ CounterType
    /\ s1 = "open" =>
        /\ \A t \in Calls : Knows(s3[t])
        /\ s4 => OptedOut(s2)

Worlds == [store : Held, page : Page]

-----------------------------------------------------------------------------
(* What the helpers do to a page and the store. *)

\* Reading again: types are kept, the page knows what it does, a store that is
\* opted out stays so, and one that says no is opted out by a page that counted.
LEMMA RenderDoes ==
    ASSUME s1 \in {"open", "full", "blocked"}, NEW w \in Worlds
    PROVE  /\ Counter!Render(w) \in Worlds
           /\ s1 = "open" /\ Knows(w.page) => Knows(Counter!Render(w).page)
           /\ s1 = "open" /\ OptedOut(w.store) => OptedOut(Counter!Render(w).store)
           /\ s1 = "open" /\ w.store.consent = "no" /\ Knows(w.page) /\ w.page.allowed
                => OptedOut(Counter!Render(w).store)
<1> DEFINE allowed == Counter!hasConsent(w.store, w.page)
           seen == IF allowed = w.page.allowed THEN w ELSE Counter!Effect(allowed, w)
<1>0. allowed \in BOOLEAN
  BY DEF Counter!hasConsent, Counter!readConsent
<1>1. Counter!Removed("ignore", w) \in Worlds
  BY DEF Counter!Removed, Worlds, Page, Held
<1>2. Counter!Written("ignore", "true", w) \in Worlds
  BY DEF Counter!Written, Worlds, Page, Held
<1>3. /\ Counter!Effect(allowed, w) \in Worlds
      /\ Counter!Effect(allowed, w).page.wasAllowed = allowed
  BY <1>0, <1>1, <1>2 DEF Counter!Effect, Worlds, Page
<1>4. seen \in Worlds
  BY <1>3
<1>5. Counter!Render(w) = [seen EXCEPT !.page.allowed = allowed,
                       !.page.script = IF allowed /\ @ = "none" THEN "asked" ELSE @]
  BY DEF Counter!Render
<1>6. /\ Counter!Render(w) \in Worlds
      /\ Counter!Render(w).store = seen.store
      /\ Counter!Render(w).page.allowed = allowed
      /\ Counter!Render(w).page.wasAllowed = seen.page.wasAllowed
  <2> HIDE DEF allowed, seen
  <2> DEFINE script == IF allowed /\ seen.page.script = "none" THEN "asked"
                       ELSE seen.page.script
  <2>1. script \in {"none", "asked", "loaded"}
    BY <1>4 DEF Worlds, Page
  <2> DEFINE page == [seen.page EXCEPT !.allowed = allowed, !.script = script]
  <2>2. Counter!Render(w) = [seen EXCEPT !.page = page]
    BY <1>4, <1>5 DEF Worlds, Page
  <2>3. seen.page \in Page
    BY <1>4 DEF Worlds
  <2> HIDE DEF script
  <2>4. page \in Page /\ page.allowed = allowed /\ page.wasAllowed = seen.page.wasAllowed
    BY <1>0, <2>1, <2>3 DEF Page
  <2> HIDE DEF page
  <2> QED BY <1>4, <2>2, <2>4 DEF Worlds
<1>7. Knows(w.page) => Knows(Counter!Render(w).page)
  BY <1>3, <1>6 DEF Knows
<1>8. ASSUME s1 = "open", w.store.consent = "no"
      PROVE  ~allowed
  BY <1>8 DEF Counter!hasConsent, Counter!readConsent, Counter!Stored
<1>9. ASSUME s1 = "open", ~allowed
      PROVE  /\ w.store.ignore = "true" => Counter!Effect(allowed, w).store.ignore = "true"
             /\ w.page.wasAllowed => Counter!Effect(allowed, w).store.ignore = "true"
             /\ Counter!Effect(allowed, w).store.consent = w.store.consent
  BY <1>9 DEF Counter!Effect, Counter!Written, Worlds, Page, Held
<1> QED
  BY <1>6, <1>7, <1>8, <1>9 DEF OptedOut, Knows

\* A new instance knows what it does, and takes no opt-out away.
LEMMA MountDoes ==
    ASSUME s1 \in {"open", "full", "blocked"}, NEW w \in Worlds
    PROVE  /\ Counter!Mount(w) \in Worlds
           /\ s1 = "open" => Knows(Counter!Mount(w).page)
           /\ s1 = "open" /\ OptedOut(w.store) => OptedOut(Counter!Mount(w).store)
<1> DEFINE fresh == [w EXCEPT !.page.allowed = FALSE, !.page.wasAllowed = FALSE]
<1>1. fresh \in Worlds /\ Knows(fresh.page) /\ fresh.store = w.store
  BY DEF Worlds, Page, Knows
<1>2. /\ Counter!Render(fresh) \in Worlds
      /\ s1 = "open" => Knows(Counter!Render(fresh).page)
      /\ s1 = "open" /\ OptedOut(w.store) => OptedOut(Counter!Render(fresh).store)
  BY <1>1, RenderDoes
<1>3. /\ Counter!Mount(w) \in Worlds
      /\ Counter!Mount(w).store = Counter!Render(fresh).store
      /\ Counter!Mount(w).page.allowed = Counter!Render(fresh).page.allowed
      /\ Counter!Mount(w).page.wasAllowed = Counter!Render(fresh).page.wasAllowed
  BY <1>2 DEF Counter!Mount, Worlds, Page
<1> QED BY <1>2, <1>3 DEF Knows

\* Recording a decision.
LEMMA WriteDoes ==
    ASSUME s1 \in {"open", "full", "blocked"}, NEW w \in Worlds,
           NEW answer \in {"yes", "no"}
    PROVE  /\ Counter!writeConsent(answer, w) \in Worlds
           /\ s1 = "open" /\ Knows(w.page) => Knows(Counter!writeConsent(answer, w).page)
           /\ s1 = "open" /\ answer = "no" /\ Knows(w.page)
                /\ (OptedOut(w.store) \/ w.page.allowed)
                => OptedOut(Counter!writeConsent(answer, w).store)
<1> DEFINE v == Counter!Written("consent", answer, w)
<1>1. /\ v \in Worlds
      /\ v.page.allowed = w.page.allowed
      /\ v.page.wasAllowed = w.page.wasAllowed
      /\ s1 = "open" =>
            v.store.consent = answer /\ v.store.ignore = w.store.ignore
  BY DEF Counter!Written, Worlds, Page, Held
<1> HIDE DEF v
<1>2. Counter!writeConsent(answer, w) = Counter!Render(v)
  BY DEF Counter!writeConsent, v
<1> QED BY <1>1, <1>2, RenderDoes DEF Knows, OptedOut

-----------------------------------------------------------------------------
(* The steps. *)

\* A tab becomes what one of the helpers made of it.
LEMMA BecomesKeeps ==
    ASSUME ConsentInv, NEW t \in Calls, NEW w \in Worlds, Counter!Becomes(t, w),
           s4' \in BOOLEAN,
           s1 = "open" => Knows(w.page) /\ (s4' => OptedOut(w.store))
    PROVE  ConsentInv'
<1>1. CounterType'
  BY DEF ConsentInv, CounterType, Counter!Becomes, Worlds
<1>2. ASSUME s1 = "open", NEW u \in Calls PROVE Knows(s3'[u])
  BY <1>2 DEF ConsentInv, CounterType, Counter!Becomes
<1> QED BY <1>1, <1>2 DEF ConsentInv, Counter!Becomes

\* What only the banner, the panel or the script's own state is about.
LEMMA PageOnlyKeeps ==
    ASSUME ConsentInv, NEW t \in Calls, NEW page \in Page,
           Knows(s3[t]) => Knows(page),
           s3' = [s3 EXCEPT ![t] = page], UNCHANGED <<s1, s2, s4>>
    PROVE  ConsentInv'
<1>1. CounterType'
  BY DEF ConsentInv, CounterType
<1>2. ASSUME s1 = "open", NEW u \in Calls PROVE Knows(s3'[u])
  BY <1>2 DEF ConsentInv, CounterType
<1> QED BY <1>1, <1>2 DEF ConsentInv

LEMMA DecideKeeps ==
    ASSUME ConsentInv, NEW t \in Calls, NEW answer \in {"yes", "no"}, Counter!decide(t, answer)
    PROVE  ConsentInv'
<1> DEFINE told == Counter!writeConsent(answer, Counter!World(t))
           w == [told EXCEPT !.page.settings = "closed",
                             !.page.banner = IF @ = "none" THEN "none" ELSE "leaving"]
<1>1. Counter!World(t) \in Worlds /\ Counter!World(t).store = s2 /\ Counter!World(t).page = s3[t]
  BY DEF ConsentInv, CounterType, Counter!World, Worlds
<1>2. /\ told \in Worlds
      /\ s1 = "open" => Knows(told.page)
      /\ s1 = "open" /\ answer = "no" /\ (s4 \/ s3[t].allowed)
            => OptedOut(told.store)
  BY <1>1, WriteDoes DEF ConsentInv, CounterType
<1>3. Counter!Becomes(t, w) /\ s4' = (answer = "no" /\ (s4 \/ s3[t].allowed))
  BY DEF Counter!decide
<1> HIDE DEF told
<1>4. /\ w \in Worlds
      /\ w.store = told.store
      /\ w.page.allowed = told.page.allowed /\ w.page.wasAllowed = told.page.wasAllowed
  BY <1>2 DEF Worlds, Page
<1> HIDE DEF w
<1>5. s4' \in BOOLEAN
  BY <1>3
<1>6. s1 = "open" => Knows(w.page) /\ (s4' => OptedOut(w.store))
  BY <1>2, <1>3, <1>4 DEF Knows
<1> QED BY <1>3, <1>4, <1>5, <1>6, BecomesKeeps

LEMMA ConsentStep == ConsentInv /\ [Counter!Next]_counter => ConsentInv'
<1> SUFFICES ASSUME ConsentInv, [Counter!Next]_counter PROVE ConsentInv'
  OBVIOUS
<1>0. CounterType
  BY DEF ConsentInv
<1>1. ASSUME NEW t \in Calls, Counter!Open(t) PROVE ConsentInv'
  <2> DEFINE w == [store |-> s2, page |-> [Counter!Closed EXCEPT !.open = TRUE]]
  <2>1. w \in Worlds /\ w.store = s2
    BY <1>0 DEF CounterType, Worlds, Page, Held, Counter!Closed, Counter!Nothing
  <2>2. Counter!Becomes(t, Counter!Mount(w)) /\ s4' = s4
    BY <1>1 DEF Counter!Open
  <2> HIDE DEF w
  <2> QED BY <1>0, <2>1, <2>2, MountDoes, BecomesKeeps DEF ConsentInv, CounterType
<1>2. ASSUME NEW t \in Calls, Counter!Switch(t) PROVE ConsentInv'
  <2>1. Counter!World(t) \in Worlds /\ Counter!World(t).store = s2
    BY <1>0 DEF CounterType, Worlds, Counter!World
  <2>2. Counter!Becomes(t, Counter!Mount(Counter!World(t))) /\ s4' = s4
    BY <1>2 DEF Counter!Switch
  <2> QED BY <1>0, <2>1, <2>2, MountDoes, BecomesKeeps DEF ConsentInv, CounterType
<1>3. ASSUME NEW t \in Calls, Counter!Close(t) PROVE ConsentInv'
  <2>1. Counter!Closed \in Page /\ Knows(Counter!Closed)
    BY DEF Counter!Closed, Counter!Nothing, Page, Held, Knows
  <2> QED BY <1>3, <2>1, PageOnlyKeeps DEF Counter!Close
<1>4. ASSUME NEW t \in Calls, NEW page \in Page, page.allowed = s3[t].allowed,
             page.wasAllowed = s3[t].wasAllowed, s3' = [s3 EXCEPT ![t] = page],
             UNCHANGED <<s1, s2, s4>>
      PROVE  ConsentInv'
  BY <1>4, PageOnlyKeeps DEF Knows
<1>5. ASSUME NEW t \in Calls, Counter!Arrives(t) \/ Counter!Shown(t) \/ Counter!Leaves(t)
      PROVE  ConsentInv'
  <2>0. s3[t] \in Page
    BY <1>0 DEF CounterType
  <2>1. CASE Counter!Arrives(t)
    <3>1. [s3[t] EXCEPT !.script = "loaded"] \in Page
      BY <2>0 DEF Page
    <3>2. s3' = [s3 EXCEPT ![t] = [s3[t] EXCEPT !.script = "loaded"]]
      BY <1>0, <2>1 DEF Counter!Arrives, CounterType
    <3> QED BY <1>4, <2>0, <2>1, <3>1, <3>2 DEF Counter!Arrives, Page
  <2>2. CASE Counter!Shown(t)
    <3>1. [s3[t] EXCEPT !.banner = "up"] \in Page
      BY <2>0 DEF Page
    <3>2. s3' = [s3 EXCEPT ![t] = [s3[t] EXCEPT !.banner = "up"]]
      BY <1>0, <2>2 DEF Counter!Shown, CounterType
    <3> QED BY <1>4, <2>0, <2>2, <3>1, <3>2 DEF Counter!Shown, Page
  <2>3. CASE Counter!Leaves(t)
    <3>1. [s3[t] EXCEPT !.banner = "none"] \in Page
      BY <2>0 DEF Page
    <3>2. s3' = [s3 EXCEPT ![t] = [s3[t] EXCEPT !.banner = "none"]]
      BY <1>0, <2>3 DEF Counter!Leaves, CounterType
    <3> QED BY <1>4, <2>0, <2>3, <3>1, <3>2 DEF Counter!Leaves, Page
  <2> QED BY <1>5, <2>1, <2>2, <2>3
<1>6. ASSUME NEW t \in Calls, Counter!OpenSettings(t) \/ Counter!Flip(t) \/ Counter!CloseSettings(t)
      PROVE  ConsentInv'
  <2>0. s3[t] \in Page
    BY <1>0 DEF CounterType
  <2>1. ASSUME NEW settings \in {"closed", "yes", "no"},
               s3' = [s3 EXCEPT ![t].settings = settings],
               UNCHANGED <<s1, s2, s4>>
        PROVE  ConsentInv'
    <3>1. [s3[t] EXCEPT !.settings = settings] \in Page
      BY <2>0 DEF Page
    <3>2. s3' = [s3 EXCEPT ![t] = [s3[t] EXCEPT !.settings = settings]]
      BY <1>0, <2>1 DEF CounterType
    <3> QED BY <1>4, <2>0, <2>1, <3>1, <3>2 DEF Page
  <2>2. CASE Counter!OpenSettings(t)
    BY <2>1, <2>2 DEF Counter!OpenSettings
  <2>3. CASE Counter!Flip(t)
    <3>1. s3' = [s3 EXCEPT ![t].settings = IF s3[t].settings = "yes" THEN "no" ELSE "yes"]
      BY <1>0, <2>3 DEF Counter!Flip, CounterType
    <3> QED BY <2>1, <2>3, <3>1 DEF Counter!Flip
  <2>4. CASE Counter!CloseSettings(t)
    BY <2>1, <2>4 DEF Counter!CloseSettings
  <2> QED BY <1>6, <2>2, <2>3, <2>4
<1>7. ASSUME NEW t \in Calls, Counter!Answer(t) PROVE ConsentInv'
  BY <1>7, DecideKeeps DEF Counter!Answer
<1>8. ASSUME NEW t \in Calls, Counter!Confirm(t) PROVE ConsentInv'
  <2>1. s3[t].settings \in {"yes", "no"}
    BY <1>0, <1>8 DEF Counter!Confirm, CounterType, Page
  <2> QED BY <1>8, <2>1, DecideKeeps DEF Counter!Confirm
<1>9. CASE UNCHANGED counter
  BY <1>9 DEF counter, ConsentInv, CounterType
<1> QED BY <1>1, <1>2, <1>3, <1>5, <1>6, <1>7, <1>8, <1>9 DEF Counter!Next

LEMMA CounterInit == Counter!Init => ConsentInv
<1>1. Counter!Closed \in Page /\ Knows(Counter!Closed)
  BY DEF Counter!Closed, Counter!Nothing, Page, Held, Knows
<1>2. ASSUME Counter!Init PROVE s3 \in [Calls -> Page] /\ \A t \in Calls : Knows(s3[t])
  BY <1>1, <1>2 DEF Counter!Init
<1>3. [consent : {"none", "older"}, ignore : {"none"}] \subseteq Held
  BY DEF Held
<1> QED BY <1>2, <1>3 DEF Counter!Init, ConsentInv, CounterType

\* The inductive invariant: where the browser keeps what a site writes, a page
\* that counts will leave an opt-out when it is told no, and what a withdrawal
\* left in the store is there until another yes.  (Analytics.tsx:51-59,
\* consent.ts:77-110, CookieConsent.tsx:64-70.)
LEMMA ConsentInvariant == MCSpec => [](part = "counter" => ConsentInv)
<1> DEFINE Inv == part = "counter" => ConsentInv
<1>1. MCInit => Inv
  BY CounterInit DEF MCInit
<1>2. Inv /\ [MCNext]_all => Inv'
  <2> SUFFICES ASSUME Inv, [MCNext]_all PROVE Inv'
    OBVIOUS
  <2>1. part' = part /\ (part = "counter" => [Counter!Next]_counter)
    BY DEF MCNext, all, counter
  <2> QED BY <2>1, ConsentStep
<1> HIDE DEF Inv
<1>3. MCSpec => []Inv
  BY <1>1, <1>2, PTL DEF MCSpec
<1> QED BY <1>3 DEF Inv

\* In however many tabs the site is open: once a yes is taken back, none counts.
\* (The opt-out of Analytics.tsx:49-59.)
THEOREM WithdrawalAlwaysStops == MCSpec => []WithdrawalStops
<1>1. (part = "counter" => ConsentInv) => WithdrawalStops
  BY DEF ConsentInv, OptedOut, WithdrawalStops, Counter!WithdrawalStops, Counter!Counting
<1> QED BY <1>1, ConsentInvariant, PTL

-----------------------------------------------------------------------------
(* The query cache. *)

\* What a copy holds, with no bound on how much was written.
HeldContent == [loaded : BOOLEAN, seen : SUBSET Int, patched : SUBSET Calls]
Copies ==
    [loaded : BOOLEAN, seen : SUBSET Int, patched : SUBSET Calls, stale : BOOLEAN,
     fetch : {"none", "asked", "read"}, took : SUBSET Int, overtaken : BOOLEAN, late : BOOLEAN]

\* The mutation that the behaviour is about.
used == MutationOf[visit.does]

\* A copy that takes from an answer what it adds is up to date even when stale.
Adds(k, m) == k = Giveaway.key /\ k \in m.sets

\* The known writes that the copy under this key has to show.
Owed(k) == {i \in known : Shows(k, log[i]) /\ k \notin Outstanding(log[i])}

Waiting == {c \in Calls : call[c].stage # "idle" /\ call[c].before # << >>}

\* A copy that counts as fresh shows what it owes; a request that nothing
\* overtook will bring it; only a copy that is stale, or for which a mutation
\* waits, is drawn on.
IsTrue(k, e, m, owed, waiting) ==
    /\ e \in Copies
    /\ e.loaded /\ ~e.late /\ e.patched = {} /\ (~e.stale \/ Adds(k, m)) => owed \subseteq e.seen
    /\ e.fetch = "read" /\ ~e.overtaken => owed \subseteq e.took
    /\ e.patched # {} => k \in Optimistic /\ (e.stale \/ waiting # {})

IsOfUse(q) ==
    /\ q = [does |-> q.does, stage |-> q.stage, write |-> q.write, before |-> q.before]
    /\ q.stage # "idle" =>
          /\ q.does = visit.does
          /\ used.optimistic => q.before \in [Optimistic \cap DOMAIN copy -> HeldContent]
          /\ ~used.optimistic => q.before = << >>
    /\ q.stage = "served" => q.write \in 1 .. Len(log) /\ log[q.write] = visit.does
    /\ q.stage = "sold" => visit.does = "addToCart"

LogIsOfUse ==
    /\ log \in Seq({visit.does, "sale"})
    /\ \A i \in 1 .. Len(log) : log[i] = "sale" => visit.does = "addToCart"
    /\ known \subseteq 1 .. Len(log)

CopiesHold ==
    /\ copy = [k \in DOMAIN copy |-> copy[k]]
    /\ DOMAIN copy \subseteq Keys
    /\ \A k \in DOMAIN copy : IsTrue(k, copy[k], used, Owed(k), Waiting)

CallsHold == call = [c \in Calls |-> call[c]] /\ \A c \in Calls : IsOfUse(call[c])

CacheInv == visit.does \in Mutations /\ LogIsOfUse /\ CopiesHold /\ CallsHold

-----------------------------------------------------------------------------
(* What becomes of one copy. *)

LEMMA BlankCopyIs ==
    Blank = [loaded |-> FALSE, seen |-> {}, patched |-> {}, stale |-> TRUE, fetch |-> "none",
             took |-> {}, overtaken |-> FALSE, late |-> FALSE]
BY DEF Blank

LEMMA BlankIsTrue == ASSUME NEW k, NEW m, NEW owed, NEW waiting PROVE IsTrue(k, Blank, m, owed, waiting)
BY BlankCopyIs DEF IsTrue, Copies

LEMMA StopIs ==
    ASSUME NEW e \in Copies
    PROVE  Stop(e) = [loaded |-> e.loaded, seen |-> e.seen, patched |-> e.patched, stale |-> e.stale,
                      fetch |-> "none", took |-> {}, overtaken |-> FALSE, late |-> e.late]
<1>1. PICK half : half = [e EXCEPT !.fetch = "none", !.took = {}]
  OBVIOUS
<1>2. half = [loaded |-> e.loaded, seen |-> e.seen, patched |-> e.patched, stale |-> e.stale,
              fetch |-> "none", took |-> {}, overtaken |-> e.overtaken, late |-> e.late]
  BY <1>1 DEF Copies
<1>3. PICK last : last = [half EXCEPT !.overtaken = FALSE]
  OBVIOUS
<1>4. last = [loaded |-> e.loaded, seen |-> e.seen, patched |-> e.patched, stale |-> e.stale,
              fetch |-> "none", took |-> {}, overtaken |-> FALSE, late |-> e.late]
  BY <1>2, <1>3
<1>5. Stop(e) = last
  BY <1>1, <1>3, Zenon DEF Stop
<1> QED BY <1>4, <1>5

LEMMA FetchIs ==
    ASSUME NEW e \in Copies
    PROVE  Fetch(e) = [loaded |-> e.loaded, seen |-> e.seen, patched |-> e.patched, stale |-> e.stale,
                       fetch |-> IF e.fetch = "none" THEN "asked" ELSE e.fetch, took |-> e.took,
                       overtaken |-> e.overtaken, late |-> e.late]
BY DEF Copies, Fetch

LEMMA SetDataIs ==
    ASSUME NEW e \in Copies, NEW content \in HeldContent
    PROVE  SetData(e, content)
             = [loaded |-> content.loaded, seen |-> content.seen, patched |-> content.patched,
                stale |-> FALSE, fetch |-> e.fetch, took |-> e.took,
                overtaken |-> e.overtaken \/ e.fetch = "read", late |-> e.late]
<1>1. PICK b \in BOOLEAN : b = (e.overtaken \/ e.fetch = "read")
  OBVIOUS
<1>2. PICK half : half = [e EXCEPT !.loaded = content.loaded, !.seen = content.seen]
  OBVIOUS
<1>3. half = [loaded |-> content.loaded, seen |-> content.seen, patched |-> e.patched,
              stale |-> e.stale, fetch |-> e.fetch, took |-> e.took, overtaken |-> e.overtaken,
              late |-> e.late]
  BY <1>2 DEF Copies
<1>4. PICK most : most = [half EXCEPT !.patched = content.patched, !.stale = FALSE]
  OBVIOUS
<1>5. most = [loaded |-> content.loaded, seen |-> content.seen, patched |-> content.patched,
              stale |-> FALSE, fetch |-> e.fetch, took |-> e.took, overtaken |-> e.overtaken,
              late |-> e.late]
  BY <1>3, <1>4
<1>6. PICK last : last = [most EXCEPT !.overtaken = b]
  OBVIOUS
<1>7. last = [loaded |-> content.loaded, seen |-> content.seen, patched |-> content.patched,
              stale |-> FALSE, fetch |-> e.fetch, took |-> e.took, overtaken |-> b,
              late |-> e.late]
  BY <1>5, <1>6
<1>8. SetData(e, content) = last
  BY <1>1, <1>2, <1>4, <1>6, Zenon DEF SetData
<1> QED BY <1>1, <1>7, <1>8

LEMMA StopIsTrue ==
    ASSUME NEW k, NEW e, NEW m, NEW owed, NEW waiting, IsTrue(k, e, m, owed, waiting)
    PROVE  IsTrue(k, Stop(e), m, owed, waiting)
<1>1. PICK x : x = Stop(e)
  OBVIOUS
<1>2. x = [loaded |-> e.loaded, seen |-> e.seen, patched |-> e.patched, stale |-> e.stale,
           fetch |-> "none", took |-> {}, overtaken |-> FALSE, late |-> e.late]
  BY <1>1, StopIs DEF IsTrue
<1>3. IsTrue(k, x, m, owed, waiting)
  BY <1>2 DEF IsTrue, Copies
<1> QED BY <1>1, <1>3

LEMMA FetchIsTrue ==
    ASSUME NEW k, NEW e, NEW m, NEW owed, NEW waiting, IsTrue(k, e, m, owed, waiting)
    PROVE  IsTrue(k, Fetch(e), m, owed, waiting)
<1>1. PICK x : x = Fetch(e)
  OBVIOUS
<1>2. PICK fetch : fetch = IF e.fetch = "none" THEN "asked" ELSE e.fetch
  OBVIOUS
<1>3. fetch \in {"asked", "read"} /\ (fetch = "read" => e.fetch = "read")
  BY <1>2 DEF IsTrue, Copies
<1>4. x = [loaded |-> e.loaded, seen |-> e.seen, patched |-> e.patched, stale |-> e.stale,
           fetch |-> fetch, took |-> e.took, overtaken |-> e.overtaken, late |-> e.late]
  BY <1>1, <1>2, FetchIs DEF IsTrue
<1>5. IsTrue(k, x, m, owed, waiting)
  BY <1>3, <1>4 DEF IsTrue, Copies
<1> QED BY <1>1, <1>5

\* Whatever is asked for again, or will be, shows later what it owes.
LEMMA InvalidatedIsTrue ==
    ASSUME NEW k, NEW e \in Copies, NEW observed, NEW m, NEW owed, NEW waiting,
           Adds(k, m) /\ e.loaded /\ ~e.late /\ e.patched = {} => owed \subseteq e.seen,
           e.patched # {} => k \in Optimistic
    PROVE  IsTrue(k, Invalidated(e, observed), m, owed, waiting)
<1>1. PICK x : x = Invalidated(e, observed)
  OBVIOUS
<1>2. CASE observed /\ (e.fetch = "none" \/ e.loaded)
  <2>1. PICK stopped : stopped = Stop(e)
    OBVIOUS
  <2>2. stopped = [loaded |-> e.loaded, seen |-> e.seen, patched |-> e.patched, stale |-> e.stale,
                   fetch |-> "none", took |-> {}, overtaken |-> FALSE, late |-> e.late]
    BY <2>1, StopIs
  <2>3. x = [stopped EXCEPT !.stale = TRUE, !.fetch = "asked"]
    BY <1>1, <1>2, <2>1 DEF Invalidated
  <2>4. x = [loaded |-> e.loaded, seen |-> e.seen, patched |-> e.patched, stale |-> TRUE,
             fetch |-> "asked", took |-> {}, overtaken |-> FALSE, late |-> e.late]
    BY <2>2, <2>3
  <2>5. IsTrue(k, x, m, owed, waiting)
    BY <2>4 DEF IsTrue, Copies
  <2> QED BY <1>1, <2>5
<1>3. CASE ~(observed /\ (e.fetch = "none" \/ e.loaded))
  <2>1. PICK b \in BOOLEAN : b = (e.overtaken \/ e.fetch = "read")
    OBVIOUS
  <2>2. x = [e EXCEPT !.stale = TRUE, !.overtaken = b]
    BY <1>1, <1>3, <2>1 DEF Invalidated
  <2>3. x = [loaded |-> e.loaded, seen |-> e.seen, patched |-> e.patched, stale |-> TRUE,
             fetch |-> e.fetch, took |-> e.took, overtaken |-> b, late |-> e.late]
    BY <2>2 DEF Copies
  <2>4. IsTrue(k, x, m, owed, waiting)
    BY <2>1, <2>3 DEF IsTrue, Copies
  <2> QED BY <1>1, <2>4
<1> QED BY <1>2, <1>3

-----------------------------------------------------------------------------
(* Steps that change copies alone. *)

AllTrue == \A k \in DOMAIN copy : IsTrue(k, copy'[k], used, Owed(k), Waiting)

LEMMA CopiesKeep ==
    ASSUME CacheInv, visit' = visit, UNCHANGED <<log, call, known>>, DOMAIN copy' = DOMAIN copy,
           copy' = [k \in DOMAIN copy |-> copy'[k]], AllTrue
    PROVE  CacheInv'
<1>1. used' = used /\ Waiting' = Waiting
  BY DEF used, Waiting
<1>2. \A k : Owed(k)' = Owed(k)
  BY DEF Owed
<1>3. CopiesHold'
  BY <1>1, <1>2 DEF CacheInv, CopiesHold, AllTrue
<1>4. CallsHold'
  BY <1>1 DEF CacheInv, CallsHold, IsOfUse
<1>5. LogIsOfUse'
  BY DEF CacheInv, LogIsOfUse
<1> QED BY <1>3, <1>4, <1>5 DEF CacheInv

\* One of them.
LEMMA CopyKeeps ==
    ASSUME CacheInv, visit' = visit, UNCHANGED <<log, call, known>>, NEW k \in DOMAIN copy, NEW x,
           copy' = [copy EXCEPT ![k] = x], IsTrue(k, x, used, Owed(k), Waiting)
    PROVE  CacheInv'
<1>1. copy = [j \in DOMAIN copy |-> copy[j]]
  BY DEF CacheInv, CopiesHold
<1>2. DOMAIN copy' = DOMAIN copy /\ copy' = [j \in DOMAIN copy |-> copy'[j]]
  BY <1>1
<1>3. ASSUME NEW j \in DOMAIN copy
      PROVE  IsTrue(j, copy'[j], used, Owed(j), Waiting)
  <2>1. IsTrue(j, copy[j], used, Owed(j), Waiting)
    BY DEF CacheInv, CopiesHold
  <2>2. CASE j = k
    BY <1>1, <2>2
  <2>3. CASE j # k
    <3>1. copy'[j] = copy[j]
      BY <1>1, <2>3
    <3> QED BY <2>1, <3>1
  <2> QED BY <2>2, <2>3
<1>4. AllTrue
  BY <1>3 DEF AllTrue
<1> QED BY <1>2, <1>4, CopiesKeep

LEMMA ShowRight ==
    ASSUME CacheInv, visit' = visit, NEW screen, Show(screen)
    PROVE  CacheInv'
<1>1. UNCHANGED <<log, call, known>>
  BY DEF Show
<1>2. DOMAIN copy' = DOMAIN copy /\ copy' = [k \in DOMAIN copy |-> copy'[k]]
  BY DEF Show
<1>3. ASSUME NEW k \in DOMAIN copy
      PROVE  IsTrue(k, copy'[k], used, Owed(k), Waiting)
  <2>1. PICK e : e = copy[k]
    OBVIOUS
  <2>2. IsTrue(k, e, used, Owed(k), Waiting)
    BY <2>1 DEF CacheInv, CopiesHold
  <2>3. copy'[k] = e \/ copy'[k] = Fetch(e) \/ copy'[k] = Stop(e)
    BY <2>1 DEF Show
  <2> QED BY <2>2, <2>3, FetchIsTrue, StopIsTrue
<1>4. AllTrue
  BY <1>3 DEF AllTrue
<1> QED BY <1>1, <1>2, <1>4, CopiesKeep

LEMMA ReturnRight ==
    ASSUME CacheInv, visit' = visit, NEW online \in BOOLEAN, Return(online)
    PROVE  CacheInv'
<1>1. UNCHANGED <<log, call, known>>
  BY DEF Return
<1>2. DOMAIN copy' = DOMAIN copy /\ copy' = [k \in DOMAIN copy |-> copy'[k]]
  BY DEF Return
<1>3. ASSUME NEW k \in DOMAIN copy
      PROVE  IsTrue(k, copy'[k], used, Owed(k), Waiting)
  <2>1. PICK e : e = copy[k]
    OBVIOUS
  <2>2. IsTrue(k, e, used, Owed(k), Waiting)
    BY <2>1 DEF CacheInv, CopiesHold
  <2>3. copy'[k] = e \/ copy'[k] = Fetch(e)
    BY <2>1 DEF Return
  <2> QED BY <2>2, <2>3, FetchIsTrue
<1>4. AllTrue
  BY <1>3 DEF AllTrue
<1> QED BY <1>1, <1>2, <1>4, CopiesKeep

LEMMA KeyStepRight ==
    ASSUME CacheInv, visit' = visit, NEW k \in DOMAIN copy, KeyStep(k)
    PROVE  CacheInv'
<1>0. copy = [j \in DOMAIN copy |-> copy[j]] /\ LogIsOfUse
  BY DEF CacheInv, CopiesHold
<1>1. UNCHANGED <<log, call, known>>
  BY DEF KeyStep, Age, Collect, Poll, FetchRead, FetchArrives, FetchFails
<1>2. PICK e : e = copy[k]
  OBVIOUS
<1>3. IsTrue(k, e, used, Owed(k), Waiting)
  BY <1>2 DEF CacheInv, CopiesHold
<1>4. e \in Copies
  BY <1>3 DEF IsTrue
<1>5. CASE Age(k)
  <2>1. PICK x : x = [e EXCEPT !.stale = TRUE]
    OBVIOUS
  <2>2. copy' = [copy EXCEPT ![k] = x]
    BY <1>2, <1>5, <2>1, Zenon DEF Age
  <2>3. IsTrue(k, x, used, Owed(k), Waiting)
    BY <1>3, <2>1 DEF IsTrue, Copies
  <2> QED BY <1>1, <2>2, <2>3, CopyKeeps
<1>6. CASE Collect(k)
  <2>1. copy' = [copy EXCEPT ![k] = Blank]
    BY <1>6 DEF Collect
  <2> QED BY <1>1, <2>1, BlankIsTrue, CopyKeeps
<1>7. CASE Poll(k)
  <2>1. PICK x : x = Fetch(e)
    OBVIOUS
  <2>2. copy' = [copy EXCEPT ![k] = x]
    BY <1>2, <1>7, <2>1 DEF Poll
  <2>3. IsTrue(k, x, used, Owed(k), Waiting)
    BY <1>3, <2>1, FetchIsTrue
  <2> QED BY <1>1, <2>2, <2>3, CopyKeeps
<1>8. CASE FetchRead(k)
  <2>1. PICK now : now = 1 .. Len(log)
    OBVIOUS
  <2>2. PICK x : x = [e EXCEPT !.fetch = "read", !.took = now]
    OBVIOUS
  <2>3. copy' = [copy EXCEPT ![k] = x]
    BY <1>2, <1>8, <2>1, <2>2, Zenon DEF FetchRead
  <2>4. now \in SUBSET Int /\ Owed(k) \subseteq now
    BY <1>0, <2>1 DEF LogIsOfUse, Owed
  <2>5. x = [loaded |-> e.loaded, seen |-> e.seen, patched |-> e.patched, stale |-> e.stale,
             fetch |-> "read", took |-> now, overtaken |-> e.overtaken, late |-> e.late]
    BY <1>4, <2>2 DEF Copies
  <2>6. IsTrue(k, x, used, Owed(k), Waiting)
    BY <1>3, <2>4, <2>5 DEF IsTrue, Copies
  <2> QED BY <1>1, <2>3, <2>6, CopyKeeps
<1>9. CASE FetchArrives(k)
  <2>1. PICK b : b = Blank
    OBVIOUS
  <2>2. PICK half : half = [b EXCEPT !.loaded = TRUE, !.seen = e.took]
    OBVIOUS
  <2>3. half = [loaded |-> TRUE, seen |-> e.took, patched |-> {}, stale |-> TRUE, fetch |-> "none",
                took |-> {}, overtaken |-> FALSE, late |-> FALSE]
    BY <2>1, <2>2, BlankCopyIs
  <2>4. PICK x : x = [half EXCEPT !.stale = FALSE, !.late = e.overtaken]
    OBVIOUS
  <2>5. x = [loaded |-> TRUE, seen |-> e.took, patched |-> {}, stale |-> FALSE, fetch |-> "none",
             took |-> {}, overtaken |-> FALSE, late |-> e.overtaken]
    BY <2>3, <2>4
  <2>6. copy' = [copy EXCEPT ![k] = x]
    BY <1>2, <1>9, <2>1, <2>2, <2>4, Zenon DEF FetchArrives
  <2>7. e.fetch = "read"
    BY <1>2, <1>9 DEF FetchArrives
  <2>8. IsTrue(k, x, used, Owed(k), Waiting)
    BY <1>3, <2>5, <2>7 DEF IsTrue, Copies
  <2> QED BY <1>1, <2>6, <2>8, CopyKeeps
<1>10. CASE FetchFails(k)
  <2>1. PICK x : x = Stop(e)
    OBVIOUS
  <2>2. copy' = [copy EXCEPT ![k] = x]
    BY <1>2, <1>10, <2>1 DEF FetchFails
  <2>3. IsTrue(k, x, used, Owed(k), Waiting)
    BY <1>3, <2>1, StopIsTrue
  <2> QED BY <1>1, <2>2, <2>3, CopyKeeps
<1> QED BY <1>5, <1>6, <1>7, <1>8, <1>9, <1>10 DEF KeyStep

-----------------------------------------------------------------------------
(* Steps of the server. *)

LEMMA LogGrows ==
    ASSUME CacheInv, visit' = visit, NEW x \in {visit.does, "sale"}, log' = Append(log, x),
           x = "sale" => visit.does = "addToCart", UNCHANGED <<copy, known>>
    PROVE  /\ LogIsOfUse'
           /\ Len(log') = Len(log) + 1 /\ log'[Len(log) + 1] = x
           /\ \A i \in 1 .. Len(log) : log'[i] = log[i]
           /\ Waiting' = Waiting => CopiesHold'
<1>1. log \in Seq({visit.does, "sale"})
  BY DEF CacheInv, LogIsOfUse
<1>2. /\ log' \in Seq({visit.does, "sale"}) /\ Len(log') = Len(log) + 1 /\ log'[Len(log) + 1] = x
      /\ \A i \in 1 .. Len(log) : log'[i] = log[i]
  BY <1>1
<1>3. LogIsOfUse'
  BY <1>1, <1>2 DEF CacheInv, LogIsOfUse
<1>4. \A k : Owed(k)' = Owed(k)
  BY <1>2 DEF CacheInv, LogIsOfUse, Owed
<1>5. Waiting' = Waiting => CopiesHold'
  BY <1>4 DEF CacheInv, CopiesHold, used
<1> QED BY <1>2, <1>3, <1>5

LEMMA SaleRight ==
    ASSUME CacheInv, visit' = visit, visit.does = "addToCart", Sale
    PROVE  CacheInv'
<1>1. log' = Append(log, "sale") /\ UNCHANGED <<copy, call, known>>
  BY DEF Sale
<1>2. /\ LogIsOfUse' /\ Len(log') = Len(log) + 1
      /\ \A i \in 1 .. Len(log) : log'[i] = log[i]
      /\ Waiting' = Waiting => CopiesHold'
  BY <1>1, LogGrows
<1>3. Waiting' = Waiting
  BY <1>1 DEF Waiting
<1>4. CallsHold'
  <2> SUFFICES ASSUME NEW c \in Calls PROVE IsOfUse(call[c])'
    BY <1>1 DEF CacheInv, CallsHold
  <2>1. IsOfUse(call[c]) /\ Len(log) \in Nat
    BY DEF CacheInv, CallsHold, LogIsOfUse
  <2> QED BY <1>1, <1>2, <2>1 DEF IsOfUse, used
<1> QED BY <1>2, <1>3, <1>4 DEF CacheInv

LEMMA ServerWrites ==
    ASSUME CacheInv, visit' = visit, NEW c \in Calls, Serve(c)
    PROVE  CacheInv'
<1>0. call = [b \in Calls |-> call[b]] /\ IsOfUse(call[c]) /\ Len(log) \in Nat
  BY DEF CacheInv, CallsHold, LogIsOfUse
<1>1. call[c].stage = "sent" /\ UNCHANGED <<copy, known>>
  BY DEF Serve
<1>2. call[c].does = visit.does
  BY <1>0, <1>1 DEF IsOfUse
<1>3. log' = Append(log, visit.does)
  BY <1>2 DEF Serve
<1>4. visit.does = "sale" => visit.does = "addToCart"
  BY DEF CacheInv, Mutations, MutationOf
<1>5. /\ LogIsOfUse' /\ Len(log') = Len(log) + 1 /\ log'[Len(log) + 1] = visit.does
      /\ \A i \in 1 .. Len(log) : log'[i] = log[i]
      /\ Waiting' = Waiting => CopiesHold'
  BY <1>1, <1>3, <1>4, LogGrows
<1>6. PICK q : q = call[c]
  OBVIOUS
<1>7. PICK n : n = Len(log) + 1
  OBVIOUS
<1>8. PICK p : p = [q EXCEPT !.stage = "served", !.write = n]
  OBVIOUS
<1>9. p = [does |-> q.does, stage |-> "served", write |-> n, before |-> q.before]
  BY <1>0, <1>6, <1>8 DEF IsOfUse
<1>10. call' = [call EXCEPT ![c] = p]
  BY <1>6, <1>7, <1>8, Zenon DEF Serve
<1>11. call'[c] = p /\ \A b \in Calls \ {c} : call'[b] = call[b]
  BY <1>0, <1>10
<1>12. call' = [b \in Calls |-> call'[b]]
  BY <1>0, <1>10
<1>13. Waiting' = Waiting
  BY <1>1, <1>6, <1>9, <1>11 DEF Waiting
<1>14. IsOfUse(p)'
  BY <1>0, <1>1, <1>5, <1>6, <1>7, <1>9 DEF IsOfUse, used
<1>15. ASSUME NEW b \in Calls PROVE IsOfUse(call[b])'
  <2>1. CASE b = c
    BY <1>11, <1>14, <2>1
  <2>2. CASE b # c
    <3>1. IsOfUse(call[b])
      BY DEF CacheInv, CallsHold
    <3> QED BY <1>0, <1>1, <1>5, <1>11, <2>2, <3>1 DEF IsOfUse, used
  <2> QED BY <2>1, <2>2
<1>16. CallsHold'
  BY <1>12, <1>15 DEF CallsHold
<1> QED BY <1>5, <1>13, <1>16 DEF CacheInv

\* An answer on its way, or none: neither a copy nor the database changes.
LEMMA AnswerKeeps ==
    ASSUME CacheInv, visit' = visit, NEW c \in Calls, NEW stage \in {"refused", "sold"},
           call[c].stage # "idle", stage = "sold" => visit.does = "addToCart",
           call' = [call EXCEPT ![c] = [call[c] EXCEPT !.stage = stage]],
           UNCHANGED <<log, copy, known>>
    PROVE  CacheInv'
<1>0. call = [b \in Calls |-> call[b]] /\ IsOfUse(call[c])
  BY DEF CacheInv, CallsHold
<1>1. PICK q : q = call[c]
  OBVIOUS
<1>2. PICK p : p = [q EXCEPT !.stage = stage]
  OBVIOUS
<1>3. p = [does |-> q.does, stage |-> stage, write |-> q.write, before |-> q.before]
  BY <1>0, <1>1, <1>2 DEF IsOfUse
<1>4. call' = [call EXCEPT ![c] = p]
  BY <1>1, <1>2, Zenon
<1>5. call'[c] = p /\ \A b \in Calls \ {c} : call'[b] = call[b]
  BY <1>0, <1>4
<1>6. call' = [b \in Calls |-> call'[b]]
  BY <1>0, <1>4
<1>7. Waiting' = Waiting
  BY <1>1, <1>3, <1>5 DEF Waiting
<1>8. IsOfUse(p)'
  BY <1>0, <1>1, <1>3 DEF IsOfUse, used
<1>9. ASSUME NEW b \in Calls PROVE IsOfUse(call[b])'
  <2>1. CASE b = c
    BY <1>5, <1>8, <2>1
  <2>2. CASE b # c
    <3>1. IsOfUse(call[b])
      BY DEF CacheInv, CallsHold
    <3> QED BY <1>5, <2>2, <3>1 DEF IsOfUse, used
  <2> QED BY <2>1, <2>2
<1>10. CallsHold'
  BY <1>6, <1>9 DEF CallsHold
<1>11. \A k : Owed(k)' = Owed(k)
  BY DEF Owed
<1>12. CopiesHold' /\ LogIsOfUse'
  BY <1>7, <1>11 DEF CacheInv, CopiesHold, LogIsOfUse, used
<1> QED BY <1>10, <1>12 DEF CacheInv

LEMMA RefusalRight ==
    ASSUME CacheInv, visit' = visit, NEW c \in Calls, Refuse(c) \/ RefuseSold(c)
    PROVE  CacheInv'
<1>1. CASE Refuse(c)
  <2>1. call' = [call EXCEPT ![c] = [call[c] EXCEPT !.stage = "refused"]]
    BY <1>1, Zenon DEF Refuse
  <2>2. call[c].stage # "idle" /\ UNCHANGED <<log, copy, known>>
    BY <1>1 DEF Refuse
  <2> QED BY <2>1, <2>2, AnswerKeeps
<1>2. CASE RefuseSold(c)
  <2>1. call' = [call EXCEPT ![c] = [call[c] EXCEPT !.stage = "sold"]]
    BY <1>2, Zenon DEF RefuseSold
  <2>2. call[c].stage = "sent" /\ call[c].does = "addToCart" /\ UNCHANGED <<log, copy, known>>
    BY <1>2 DEF RefuseSold
  <2>3. visit.does = "addToCart"
    BY <2>2 DEF CacheInv, CallsHold, IsOfUse
  <2> QED BY <2>1, <2>2, <2>3, AnswerKeeps
<1> QED BY <1>1, <1>2

-----------------------------------------------------------------------------
(* A mutation begins and ends. *)

LEMMA HeldBy ==
    ASSUME NEW e \in Copies
    PROVE  ContentOf(e) \in HeldContent
BY DEF Copies, HeldContent, ContentOf

\* More that a copy may wait for, less that it owes.
LEMMA LessIsTrue ==
    ASSUME NEW k, NEW e, NEW m, NEW owed, NEW waiting, IsTrue(k, e, m, owed, waiting),
           NEW less, less \subseteq owed, NEW others,
           waiting \subseteq others \/ e.patched = {} \/ waiting = {}
    PROVE  IsTrue(k, e, m, less, others)
BY DEF IsTrue

LEMMA CallEnds ==
    ASSUME CacheInv, visit' = visit, NEW c \in Calls, call' = [call EXCEPT ![c] = Idle],
           log' = log, DOMAIN copy' = DOMAIN copy
    PROVE  CallsHold' /\ Waiting' = Waiting \ {c}
<1>0. call = [b \in Calls |-> call[b]]
  BY DEF CacheInv, CallsHold
<1>1. call'[c] = Idle /\ \A b \in Calls \ {c} : call'[b] = call[b]
  BY <1>0
<1>2. call' = [b \in Calls |-> call'[b]]
  BY <1>0
<1>3. IsOfUse(Idle)'
  BY DEF IsOfUse, Idle
<1>4. ASSUME NEW b \in Calls PROVE IsOfUse(call[b])'
  <2>1. CASE b = c
    BY <1>1, <1>3, <2>1
  <2>2. CASE b # c
    <3>1. IsOfUse(call[b])
      BY DEF CacheInv, CallsHold
    <3> QED BY <1>1, <2>2, <3>1 DEF IsOfUse, used
  <2> QED BY <2>1, <2>2
<1>5. CallsHold'
  BY <1>2, <1>4 DEF CallsHold
<1>6. Idle.stage = "idle"
  BY DEF Idle
<1>7. Waiting' = Waiting \ {c}
  BY <1>1, <1>6 DEF Waiting
<1> QED BY <1>5, <1>7

LEMMA MutationBegins ==
    ASSUME CacheInv, visit' = visit, NEW c \in Calls, Begin(c, visit.does)
    PROVE  CacheInv'
<1>0. call = [b \in Calls |-> call[b]] /\ copy = [k \in DOMAIN copy |-> copy[k]]
  BY DEF CacheInv, CallsHold, CopiesHold
<1>1. call[c].stage = "idle" /\ UNCHANGED <<log, known>>
  BY DEF Begin
<1>2. \A k : Owed(k)' = Owed(k)
  BY <1>1 DEF Owed
<1>3. used' = used /\ LogIsOfUse'
  BY <1>1 DEF used, CacheInv, LogIsOfUse
<1>4. CASE ~used.optimistic
  <2>1. PICK idle : idle = Idle
    OBVIOUS
  <2>2. PICK p : p = [idle EXCEPT !.does = visit.does, !.stage = "sent"]
    OBVIOUS
  <2>3. p = [does |-> visit.does, stage |-> "sent", write |-> 0, before |-> << >>]
    BY <2>1, <2>2 DEF Idle
  <2>4. call' = [call EXCEPT ![c] = p] /\ copy' = copy
    BY <1>4, <2>1, <2>2 DEF Begin, used
  <2>5. call'[c] = p /\ \A b \in Calls \ {c} : call'[b] = call[b]
    BY <1>0, <2>4
  <2>6. call' = [b \in Calls |-> call'[b]]
    BY <1>0, <2>4
  <2>7. Waiting' = Waiting
    BY <1>1, <2>3, <2>5 DEF Waiting
  <2>8. IsOfUse(p)'
    BY <1>3, <1>4, <2>3 DEF IsOfUse
  <2>9. ASSUME NEW b \in Calls PROVE IsOfUse(call[b])'
    <3>1. CASE b = c
      BY <2>5, <2>8, <3>1
    <3>2. CASE b # c
      <4>1. IsOfUse(call[b])
        BY DEF CacheInv, CallsHold
      <4> QED BY <1>1, <2>4, <2>5, <3>2, <4>1 DEF IsOfUse, used
    <3> QED BY <3>1, <3>2
  <2>10. CallsHold'
    BY <2>6, <2>9 DEF CallsHold
  <2>11. CopiesHold'
    BY <1>2, <1>3, <2>4, <2>7 DEF CacheInv, CopiesHold
  <2> QED BY <1>3, <2>10, <2>11 DEF CacheInv
<1>5. CASE used.optimistic
  <2>1. PICK before : before = [k \in Optimistic \cap DOMAIN copy |-> ContentOf(copy[k])]
    OBVIOUS
  <2>2. PICK p : p = [does |-> visit.does, stage |-> "sent", write |-> 0, before |-> before]
    OBVIOUS
  <2>3. call' = [call EXCEPT ![c] = p] /\ copy' = Patched(c)
    BY <1>5, <2>1, <2>2 DEF Begin, used
  <2>4. call'[c] = p /\ \A b \in Calls \ {c} : call'[b] = call[b]
    BY <1>0, <2>3
  <2>5. call' = [b \in Calls |-> call'[b]]
    BY <1>0, <2>3
  <2>6. DOMAIN copy' = DOMAIN copy /\ copy' = [k \in DOMAIN copy' |-> copy'[k]]
    BY <2>3 DEF Patched
  <2>7. \A k \in DOMAIN copy : copy[k] \in Copies
    BY DEF CacheInv, CopiesHold, IsTrue
  <2>8. before \in [Optimistic \cap DOMAIN copy -> HeldContent]
    BY <2>1, <2>7, HeldBy
  <2>9. IsOfUse(p)'
    BY <1>3, <1>5, <2>2, <2>6, <2>8 DEF IsOfUse
  <2>10. ASSUME NEW b \in Calls PROVE IsOfUse(call[b])'
    <3>1. CASE b = c
      BY <2>4, <2>9, <3>1
    <3>2. CASE b # c
      <4>1. IsOfUse(call[b])
        BY DEF CacheInv, CallsHold
      <4> QED BY <1>1, <2>4, <2>6, <3>2, <4>1 DEF IsOfUse, used
    <3> QED BY <3>1, <3>2
  <2>11. CallsHold'
    BY <2>5, <2>10 DEF CallsHold
  <2>12. PICK waiting : waiting = Waiting'
    OBVIOUS
  <2>13. Waiting \subseteq waiting
    BY <1>1, <2>4, <2>12 DEF Waiting
  <2>14. ASSUME NEW k \in DOMAIN copy, k \in Optimistic
         PROVE  waiting # {}
    <3>1. k \in DOMAIN before
      BY <2>1, <2>14
    <3>2. before # << >>
      BY <3>1
    <3> QED BY <2>2, <2>4, <2>12, <3>2 DEF Waiting
  <2>15. ASSUME NEW k \in DOMAIN copy
         PROVE  IsTrue(k, copy'[k], used, Owed(k), waiting)
    <3>1. PICK e : e = IF Under(k, {<<"paintings">>, <<"likes">>}) THEN Stop(copy[k]) ELSE copy[k]
      OBVIOUS
    <3>2. IsTrue(k, copy[k], used, Owed(k), Waiting)
      BY DEF CacheInv, CopiesHold
    <3>3. IsTrue(k, e, used, Owed(k), Waiting)
      BY <3>1, <3>2, StopIsTrue
    <3>4. IsTrue(k, e, used, Owed(k), waiting)
      BY <2>13, <3>3, LessIsTrue
    <3>5. CASE k \in Optimistic /\ (e.loaded \/ k = LikedIds.key)
      <4>1. PICK content : content = [loaded |-> TRUE, seen |-> e.seen, patched |-> e.patched \cup {c}]
        OBVIOUS
      <4>2. e \in Copies
        BY <3>3 DEF IsTrue
      <4>3. content \in HeldContent
        BY <4>1, <4>2 DEF HeldContent, Copies
      <4>4. PICK x : x = SetData(e, content)
        OBVIOUS
      <4>5. x = [loaded |-> TRUE, seen |-> e.seen, patched |-> e.patched \cup {c}, stale |-> FALSE,
                 fetch |-> e.fetch, took |-> e.took,
                 overtaken |-> e.overtaken \/ e.fetch = "read", late |-> e.late]
        BY <4>1, <4>2, <4>3, <4>4, SetDataIs
      <4>6. PICK b \in BOOLEAN : b = (e.overtaken \/ e.fetch = "read")
        OBVIOUS
      <4>7. x = [loaded |-> TRUE, seen |-> e.seen, patched |-> e.patched \cup {c}, stale |-> FALSE,
                 fetch |-> e.fetch, took |-> e.took, overtaken |-> b, late |-> e.late]
        BY <4>5, <4>6
      <4>8. IsTrue(k, x, used, Owed(k), waiting)
        BY <2>14, <3>5, <4>2, <4>6, <4>7 DEF IsTrue, Copies
      <4>9. copy'[k] = x
        BY <2>3, <3>1, <3>5, <4>1, <4>4 DEF Patched
      <4> QED BY <4>8, <4>9
    <3>6. CASE ~(k \in Optimistic /\ (e.loaded \/ k = LikedIds.key))
      <4>1. copy'[k] = e
        BY <2>3, <3>1, <3>6 DEF Patched
      <4> QED BY <3>4, <4>1
    <3> QED BY <3>5, <3>6
  <2>16. CopiesHold'
    BY <1>2, <1>3, <2>6, <2>12, <2>15 DEF CacheInv, CopiesHold
  <2> QED BY <1>3, <2>11, <2>16 DEF CacheInv
<1> QED BY <1>4, <1>5

-----------------------------------------------------------------------------
(* A mutation is answered. *)

\* The copy that is given the answer shows what it owes, the write with it.
LEMMA GivenIsTrue ==
    ASSUME CacheInv, NEW k \in DOMAIN copy, k \in used.sets, NEW w \in 1 .. Len(log), log[w] = visit.does
    PROVE  /\ Given(k, copy[k], w) \in Copies
           /\ \A waiting : IsTrue(k, Given(k, copy[k], w), used, Owed(k) \cup {w}, waiting)
           /\ Given(k, copy[k], w).patched = {}
<1>1. PICK e : e = copy[k]
  OBVIOUS
<1>2. IsTrue(k, e, used, Owed(k), Waiting)
  BY <1>1 DEF CacheInv, CopiesHold
<1>3. e \in Copies
  BY <1>2 DEF IsTrue
<1>4. log \in Seq({visit.does, "sale"}) /\ known \subseteq 1 .. Len(log)
  BY DEF CacheInv, LogIsOfUse
<1>5. PICK x : x = Given(k, e, w)
  OBVIOUS
<1>6. PICK now : now = 1 .. w
  OBVIOUS
<1>7. now \in SUBSET Int /\ w \in now
  BY <1>4, <1>6
<1>8. CASE k # Giveaway.key
  <2>1. PICK content : content = [loaded |-> TRUE, seen |-> now, patched |-> {}]
    OBVIOUS
  <2>2. content \in HeldContent
    BY <1>7, <2>1 DEF HeldContent
  <2>3. PICK b \in BOOLEAN : b = (e.overtaken \/ e.fetch = "read")
    OBVIOUS
  <2>4. PICK s : s = SetData(e, content)
    OBVIOUS
  <2>5. s = [loaded |-> TRUE, seen |-> now, patched |-> {}, stale |-> FALSE, fetch |-> e.fetch,
             took |-> e.took, overtaken |-> b, late |-> e.late]
    BY <1>3, <2>1, <2>2, <2>3, <2>4, SetDataIs
  <2>6. PICK late \in BOOLEAN : late = (\E i \in known : Shows(k, log[i]) /\ i > w)
    OBVIOUS
  <2>7. x = [s EXCEPT !.late = late]
    BY <1>5, <1>6, <1>8, <2>1, <2>4, <2>6 DEF Given
  <2>8. x = [loaded |-> TRUE, seen |-> now, patched |-> {}, stale |-> FALSE, fetch |-> e.fetch,
             took |-> e.took, overtaken |-> b, late |-> late]
    BY <2>5, <2>7
  <2>9. ~late => Owed(k) \cup {w} \subseteq now
    <3> SUFFICES ASSUME ~late, NEW i \in Owed(k) PROVE i \in now
      BY <1>7
    <3>1. i \in known /\ Shows(k, log[i])
      BY DEF Owed
    <3>2. i \in Nat \ {0} /\ w \in Nat
      BY <1>4, <3>1
    <3>3. ~(i > w)
      BY <2>6, <3>1
    <3> QED BY <1>6, <3>2, <3>3
  <2>10. x \in Copies
    BY <1>3, <1>7, <2>8 DEF Copies
  <2>11. \A waiting : IsTrue(k, x, used, Owed(k) \cup {w}, waiting)
    BY <2>3, <2>8, <2>9, <2>10 DEF IsTrue
  <2>12. x.patched = {}
    BY <2>8
  <2> QED BY <1>1, <1>5, <2>10, <2>11, <2>12, Zenon
<1>9. CASE k = Giveaway.key /\ ~e.loaded
  <2>1. PICK b \in BOOLEAN : b = (e.overtaken \/ e.fetch = "read")
    OBVIOUS
  <2>2. x = [e EXCEPT !.overtaken = b]
    BY <1>5, <1>9, <2>1 DEF Given
  <2>3. x = [loaded |-> e.loaded, seen |-> e.seen, patched |-> e.patched, stale |-> e.stale,
             fetch |-> e.fetch, took |-> e.took, overtaken |-> b, late |-> e.late]
    BY <1>3, <2>2 DEF Copies
  <2>4. e.patched = {}
    BY <1>2, <1>9, EntriesAreGiven DEF IsTrue
  <2>5. x \in Copies
    BY <1>3, <2>3 DEF Copies
  <2>6. \A waiting : IsTrue(k, x, used, Owed(k) \cup {w}, waiting)
    BY <1>9, <2>1, <2>3, <2>4, <2>5 DEF IsTrue
  <2>7. x.patched = {}
    BY <2>3, <2>4
  <2> QED BY <1>1, <1>5, <2>5, <2>6, <2>7, Zenon
<1>10. CASE k = Giveaway.key /\ e.loaded
  <2>1. PICK more : more = {i \in 1 .. w : WritesOf(log[i]) \cap Giveaway.shows = {"entry"}}
    OBVIOUS
  <2>2. PICK held : held = ContentOf(e)
    OBVIOUS
  <2>3. held = [loaded |-> e.loaded, seen |-> e.seen, patched |-> e.patched]
    BY <2>2 DEF ContentOf
  <2>4. PICK content : content = [held EXCEPT !.seen = held.seen \cup more]
    OBVIOUS
  <2>5. content = [loaded |-> e.loaded, seen |-> e.seen \cup more, patched |-> e.patched]
    BY <2>3, <2>4
  <2>6. more \subseteq Int
    BY <1>4, <2>1
  <2>7. content \in HeldContent
    BY <1>3, <2>5, <2>6 DEF HeldContent, Copies
  <2>8. x = SetData(e, content)
    BY <1>5, <1>10, <2>1, <2>2, <2>4 DEF Given
  <2>9. PICK b \in BOOLEAN : b = (e.overtaken \/ e.fetch = "read")
    OBVIOUS
  <2>10. x = [loaded |-> e.loaded, seen |-> e.seen \cup more, patched |-> e.patched, stale |-> FALSE,
              fetch |-> e.fetch, took |-> e.took, overtaken |-> b, late |-> e.late]
    BY <1>3, <2>5, <2>7, <2>8, <2>9, SetDataIs
  <2>11. visit.does \in Mutations /\ Giveaway.key \in MutationOf[visit.does].sets
    BY <1>10 DEF CacheInv, used
  <2>12. w \in more
    BY <1>4, <2>1, <2>11, EntriesAreGiven
  <2>13. e.patched = {}
    BY <1>2, <1>10, EntriesAreGiven DEF IsTrue
  <2>14. Adds(k, used)
    BY <1>10 DEF Adds
  <2>15. e.loaded /\ ~e.late => Owed(k) \subseteq e.seen
    BY <1>2, <2>13, <2>14 DEF IsTrue
  <2>16. x \in Copies
    BY <1>3, <2>6, <2>10 DEF Copies
  <2>17. \A waiting : IsTrue(k, x, used, Owed(k) \cup {w}, waiting)
    BY <2>9, <2>10, <2>12, <2>13, <2>15, <2>16 DEF IsTrue
  <2>18. x.patched = {}
    BY <2>10, <2>13
  <2> QED BY <1>1, <1>5, <2>16, <2>17, <2>18, Zenon
<1> QED BY <1>8, <1>9, <1>10

LEMMA SucceedRight ==
    ASSUME CacheInv, visit' = visit, NEW c \in Calls, Succeed(c)
    PROVE  CacheInv'
<1>1. PICK w : w = call[c].write
  OBVIOUS
<1>2. IsOfUse(call[c]) /\ call[c].stage = "served"
  BY DEF CacheInv, CallsHold, Succeed
<1>3. w \in 1 .. Len(log) /\ log[w] = visit.does /\ MutationOf[call[c].does] = used
  BY <1>1, <1>2 DEF IsOfUse, used
<1>4. PICK given : given = [k \in DOMAIN copy |-> IF k \in used.sets THEN Given(k, copy[k], w)
                                                                    ELSE copy[k]]
  OBVIOUS
<1>5. /\ copy' = Invalidate(given, used.invalidates) /\ known' = known \cup {w}
      /\ call' = [call EXCEPT ![c] = Idle] /\ log' = log
  BY <1>1, <1>3, <1>4 DEF Succeed
<1>6. copy' = [k \in DOMAIN copy |-> IF Under(k, used.invalidates)
                                     THEN Invalidated(given[k], k \in onScreen) ELSE given[k]]
  BY <1>4, <1>5 DEF Invalidate
<1>7. DOMAIN copy' = DOMAIN copy /\ copy' = [k \in DOMAIN copy' |-> copy'[k]]
  BY <1>6
<1>8. CallsHold' /\ Waiting' = Waiting \ {c}
  BY <1>5, <1>7, CallEnds
<1>9. LogIsOfUse'
  BY <1>3, <1>5 DEF CacheInv, LogIsOfUse
<1>10. PICK waiting : waiting = Waiting'
  OBVIOUS
<1>11. visit.does \in Mutations /\ used = MutationOf[visit.does] /\ used' = used
  BY DEF CacheInv, used
<1>12. ASSUME NEW k \in DOMAIN copy
       PROVE  IsTrue(k, copy'[k], used, Owed(k)', waiting)
  <2>1. PICK e : e = copy[k]
    OBVIOUS
  <2>2. IsTrue(k, e, used, Owed(k), Waiting) /\ k \in Keys
    BY <2>1 DEF CacheInv, CopiesHold
  <2>3. PICK owed : owed = Owed(k)'
    OBVIOUS
  <2>4. owed \subseteq Owed(k) \cup {w}
    BY <1>5, <2>3 DEF Owed
  <2>5. e \in Copies /\ (e.patched # {} => k \in Optimistic)
    BY <2>2 DEF IsTrue
  <2>6. CASE k \in used.sets
    <3>1. PICK g : g = Given(k, e, w)
      OBVIOUS
    <3>2. g \in Copies /\ g.patched = {} /\ \A some : IsTrue(k, g, used, Owed(k) \cup {w}, some)
      BY <1>3, <2>1, <2>6, <3>1, GivenIsTrue
    <3>3. IsTrue(k, g, used, Owed(k) \cup {w}, waiting)
      BY <3>2
    <3>4. IsTrue(k, g, used, owed, waiting)
      BY <2>4, <3>3, LessIsTrue
    <3>5. given[k] = g
      BY <1>4, <2>1, <2>6, <3>1
    <3>6. Adds(k, used) /\ g.loaded /\ ~g.late /\ g.patched = {} => owed \subseteq g.seen
      BY <3>4 DEF IsTrue
    <3>7. IsTrue(k, Invalidated(g, k \in onScreen), used, owed, waiting)
      BY <3>2, <3>6, InvalidatedIsTrue
    <3> QED BY <1>6, <2>3, <3>4, <3>5, <3>7
  <2>7. CASE k \notin used.sets
    <3>1. given[k] = e
      BY <1>4, <2>1, <2>7
    <3>2. CASE Under(k, used.invalidates)
      <4>1. ~Adds(k, used)
        BY <2>7 DEF Adds
      <4>2. IsTrue(k, Invalidated(e, k \in onScreen), used, owed, waiting)
        BY <2>5, <4>1, InvalidatedIsTrue
      <4> QED BY <1>6, <2>3, <3>1, <3>2, <4>2
    <3>3. CASE ~Under(k, used.invalidates)
      <4>1. Shows(k, visit.does) => k \in Outstanding(visit.does)
        BY <1>11, <2>2, <2>7, <3>3, WritesAreAnswered
      <4>2. owed \subseteq Owed(k)
        BY <1>3, <1>5, <2>3, <4>1 DEF Owed
      <4>3. Waiting = {} \/ e.patched = {}
        <5>1. CASE used.optimistic
          BY <1>11, <2>5, <3>3, <5>1, DrawnOnIsAnswered, EntriesAreGiven
        <5>2. CASE ~used.optimistic
          BY <5>2 DEF Waiting, CacheInv, CallsHold, IsOfUse
        <5> QED BY <5>1, <5>2
      <4>4. IsTrue(k, e, used, owed, waiting)
        BY <2>2, <4>2, <4>3, LessIsTrue
      <4> QED BY <1>6, <2>3, <3>1, <3>3, <4>4
    <3> QED BY <3>2, <3>3
  <2> QED BY <2>6, <2>7
<1>13. CopiesHold'
  BY <1>7, <1>10, <1>11, <1>12 DEF CacheInv, CopiesHold
<1> QED BY <1>8, <1>9, <1>11, <1>13 DEF CacheInv

LEMMA FailRight ==
    ASSUME CacheInv, visit' = visit, NEW c \in Calls, Fail(c)
    PROVE  CacheInv'
<1>1. IsOfUse(call[c]) /\ call[c].stage = "refused"
  BY DEF CacheInv, CallsHold, Fail
<1>2. MutationOf[call[c].does] = used
  BY <1>1 DEF IsOfUse, used
<1>3. call' = [call EXCEPT ![c] = Idle] /\ log' = log /\ known' = known
  BY DEF Fail
<1>4. visit.does \in Mutations /\ used = MutationOf[visit.does] /\ used' = used
  BY DEF CacheInv, used
<1>5. \A k : Owed(k)' = Owed(k)
  BY <1>3 DEF Owed
<1>6. LogIsOfUse'
  BY <1>3 DEF CacheInv, LogIsOfUse
<1>7. copy = [k \in DOMAIN copy |-> copy[k]]
  BY DEF CacheInv, CopiesHold
<1>8. CASE ~used.optimistic
  <2>1. copy' = copy
    BY <1>2, <1>8 DEF Fail
  <2>2. CallsHold' /\ Waiting' = Waiting \ {c}
    BY <1>3, <2>1, CallEnds
  <2>3. Waiting' = Waiting
    BY <1>1, <1>8, <2>2 DEF Waiting, IsOfUse
  <2>4. CopiesHold'
    BY <1>4, <1>5, <2>1, <2>3 DEF CacheInv, CopiesHold
  <2> QED BY <1>4, <1>6, <2>2, <2>4 DEF CacheInv
<1>9. CASE used.optimistic
  <2>1. PICK back : back = RolledBack(c)
    OBVIOUS
  <2>2. DOMAIN back = DOMAIN copy
    BY <2>1 DEF RolledBack
  <2>3. copy' = Invalidate(back, used.invalidates)
    BY <1>2, <1>9, <2>1 DEF Fail
  <2>4. copy' = [k \in DOMAIN copy |-> IF Under(k, used.invalidates)
                                       THEN Invalidated(back[k], k \in onScreen) ELSE back[k]]
    BY <2>2, <2>3 DEF Invalidate
  <2>5. DOMAIN copy' = DOMAIN copy /\ copy' = [k \in DOMAIN copy' |-> copy'[k]]
    BY <2>4
  <2>6. CallsHold' /\ Waiting' = Waiting \ {c}
    BY <1>3, <2>5, CallEnds
  <2>7. PICK waiting : waiting = Waiting'
    OBVIOUS
  <2>8. PICK before : before = call[c].before
    OBVIOUS
  <2>9. before \in [Optimistic \cap DOMAIN copy -> HeldContent]
    BY <1>1, <1>9, <2>8 DEF IsOfUse
  <2>10. ASSUME NEW k \in DOMAIN copy
         PROVE  IsTrue(k, copy'[k], used, Owed(k), waiting)
    <3>1. PICK e : e = copy[k]
      OBVIOUS
    <3>2. IsTrue(k, e, used, Owed(k), Waiting)
      BY <3>1 DEF CacheInv, CopiesHold
    <3>3. e \in Copies /\ (e.patched # {} => k \in Optimistic)
      BY <3>2 DEF IsTrue
    <3>4. CASE k \in Optimistic
      <4>1. PICK x : x = back[k]
        OBVIOUS
      <4>2. before[k] \in HeldContent
        BY <2>9, <3>4
      <4>3. x = e \/ x = SetData(e, before[k])
        BY <2>1, <2>8, <3>1, <4>1 DEF RolledBack
      <4>4. x \in Copies
        <5>1. CASE x = e
          BY <3>3, <5>1
        <5>2. CASE x = SetData(e, before[k])
          <6>1. PICK held \in HeldContent : held = before[k]
            BY <4>2
          <6>2. PICK b \in BOOLEAN : b = (e.overtaken \/ e.fetch = "read")
            OBVIOUS
          <6>3. x = [loaded |-> held.loaded, seen |-> held.seen, patched |-> held.patched,
                     stale |-> FALSE, fetch |-> e.fetch, took |-> e.took, overtaken |-> b,
                     late |-> e.late]
            BY <3>3, <5>2, <6>1, <6>2, SetDataIs
          <6> QED BY <3>3, <6>1, <6>3 DEF Copies, HeldContent
        <5> QED BY <4>3, <5>1, <5>2
      <4>5. Under(k, used.invalidates) /\ ~Adds(k, used)
        BY <1>4, <1>9, <3>4, DrawnOnIsAnswered, EntriesAreGiven DEF Adds
      <4>6. IsTrue(k, Invalidated(x, k \in onScreen), used, Owed(k), waiting)
        BY <3>4, <4>4, <4>5, InvalidatedIsTrue
      <4> QED BY <2>4, <4>1, <4>5, <4>6
    <3>5. CASE k \notin Optimistic
      <4>1. back[k] = e /\ e.patched = {}
        BY <2>1, <3>1, <3>3, <3>5 DEF RolledBack
      <4>2. Adds(k, used) /\ e.loaded /\ ~e.late /\ e.patched = {} => Owed(k) \subseteq e.seen
        BY <3>2 DEF IsTrue
      <4>3. IsTrue(k, Invalidated(e, k \in onScreen), used, Owed(k), waiting)
        BY <3>3, <4>2, InvalidatedIsTrue
      <4>4. IsTrue(k, e, used, Owed(k), waiting)
        BY <3>2, <4>1, LessIsTrue
      <4> QED BY <2>4, <4>1, <4>3, <4>4
    <3> QED BY <3>4, <3>5
  <2>11. CopiesHold'
    BY <1>4, <1>5, <2>5, <2>7, <2>10 DEF CacheInv, CopiesHold
  <2> QED BY <1>4, <1>6, <2>6, <2>11 DEF CacheInv
<1> QED BY <1>8, <1>9

LEMMA MarkSoldRight ==
    ASSUME CacheInv, visit' = visit, NEW c \in Calls, MarkSold(c)
    PROVE  CacheInv'
<1>1. PICK sales : sales = {i \in DOMAIN log : log[i] = "sale"}
  OBVIOUS
<1>2. PICK marked : marked = [k \in DOMAIN copy |->
            IF k \in {PaintingDetail.key, PaintingList.key} /\ copy[k].loaded
            THEN SetData(copy[k], [ContentOf(copy[k]) EXCEPT !.seen = copy[k].seen \cup sales])
            ELSE copy[k]]
  OBVIOUS
<1>3. /\ copy' = Invalidate(marked, {<<"paintings">>}) /\ known' = known \cup sales
      /\ call' = [call EXCEPT ![c] = Idle] /\ log' = log
  BY <1>1, <1>2 DEF MarkSold, ContentOf
<1>4. copy' = [k \in DOMAIN copy |-> IF Under(k, {<<"paintings">>})
                                     THEN Invalidated(marked[k], k \in onScreen) ELSE marked[k]]
  BY <1>2, <1>3 DEF Invalidate
<1>5. DOMAIN copy' = DOMAIN copy /\ copy' = [k \in DOMAIN copy' |-> copy'[k]]
  BY <1>4
<1>6. CallsHold' /\ Waiting' = Waiting \ {c}
  BY <1>3, <1>5, CallEnds
<1>7. log \in Seq({visit.does, "sale"})
  BY DEF CacheInv, LogIsOfUse
<1>8. sales \subseteq 1 .. Len(log) /\ (\A i \in sales : log[i] = "sale") /\ sales \subseteq Int
  <2>1. DOMAIN log = 1 .. Len(log) /\ Len(log) \in Nat
    BY <1>7
  <2>2. 1 .. Len(log) \subseteq Int
    BY <2>1
  <2> QED BY <1>1, <2>1, <2>2
<1>9. LogIsOfUse'
  BY <1>3, <1>8 DEF CacheInv, LogIsOfUse
<1>10. PICK waiting : waiting = Waiting'
  OBVIOUS
<1>11. visit.does = "addToCart" /\ used' = used
  BY DEF CacheInv, CallsHold, IsOfUse, MarkSold, used
<1>12. ~used.optimistic /\ Giveaway.key \notin used.sets
  BY <1>11, EntriesAreGiven DEF used
<1>13. Waiting = {}
  BY <1>12 DEF Waiting, CacheInv, CallsHold, IsOfUse
<1>14. ASSUME NEW k \in DOMAIN copy
       PROVE  IsTrue(k, copy'[k], used, Owed(k)', waiting)
  <2>1. PICK e : e = copy[k]
    OBVIOUS
  <2>2. IsTrue(k, e, used, Owed(k), Waiting) /\ k \in Keys
    BY <2>1 DEF CacheInv, CopiesHold
  <2>3. e \in Copies /\ (e.patched # {} => k \in Optimistic)
    BY <2>2 DEF IsTrue
  <2>4. PICK owed : owed = Owed(k)'
    OBVIOUS
  <2>5. ~Adds(k, used)
    BY <1>12 DEF Adds
  <2>6. CASE Under(k, {<<"paintings">>})
    <3>1. PICK x : x = marked[k]
      OBVIOUS
    <3>2. PICK held : held = ContentOf(e)
      OBVIOUS
    <3>3. held = [loaded |-> e.loaded, seen |-> e.seen, patched |-> e.patched]
      BY <3>2 DEF ContentOf
    <3>4. PICK content : content = [held EXCEPT !.seen = e.seen \cup sales]
      OBVIOUS
    <3>5. content = [loaded |-> e.loaded, seen |-> e.seen \cup sales, patched |-> e.patched]
      BY <3>3, <3>4
    <3>6. content \in HeldContent
      BY <1>7, <1>8, <2>3, <3>5 DEF HeldContent, Copies
    <3>7. x = e \/ x = SetData(e, content)
      BY <1>2, <2>1, <3>1, <3>2, <3>4
    <3>8. PICK b \in BOOLEAN : b = (e.overtaken \/ e.fetch = "read")
      OBVIOUS
    <3>9. SetData(e, content)
            = [loaded |-> e.loaded, seen |-> e.seen \cup sales, patched |-> e.patched,
               stale |-> FALSE, fetch |-> e.fetch, took |-> e.took, overtaken |-> b, late |-> e.late]
      BY <2>3, <3>5, <3>6, <3>8, SetDataIs
    <3>10. x \in Copies /\ x.patched = e.patched
      <4>1. CASE x = e
        BY <2>3, <4>1
      <4>2. CASE x = SetData(e, content)
        <5>1. e.seen \cup sales \in SUBSET Int
          BY <1>7, <1>8, <2>3 DEF Copies
        <5> QED BY <2>3, <3>9, <4>2, <5>1 DEF Copies
      <4> QED BY <3>7, <4>1, <4>2
    <3>11. IsTrue(k, Invalidated(x, k \in onScreen), used, owed, waiting)
      BY <2>3, <2>5, <3>10, InvalidatedIsTrue
    <3> QED BY <1>4, <2>4, <2>6, <3>1, <3>11
  <2>7. CASE ~Under(k, {<<"paintings">>})
    <3>1. marked[k] = e
      BY <1>2, <2>1, <2>7, DrawnOnIsAnswered
    <3>2. Shows(k, "sale") => k \in Outstanding("sale")
      BY <2>2, <2>7, WritesAreAnswered
    <3>3. owed \subseteq Owed(k)
      BY <1>3, <1>8, <2>4, <3>2 DEF Owed
    <3>4. IsTrue(k, e, used, owed, waiting)
      BY <1>13, <2>2, <3>3, LessIsTrue
    <3> QED BY <1>4, <2>4, <2>7, <3>1, <3>4
  <2> QED BY <2>6, <2>7
<1>15. CopiesHold'
  BY <1>5, <1>10, <1>11, <1>14 DEF CacheInv, CopiesHold
<1> QED BY <1>6, <1>9, <1>15 DEF CacheInv

-----------------------------------------------------------------------------
(* The cache from its beginning on. *)

LEMMA VisitsMeet == ASSUME visit \in Visits PROVE visit.key \in Keys /\ visit.does \in Mutations
<1> DEFINE met == {v \in [key : Keys, does : Mutations] : Meets(v.does, v.key)}
           signs == {Traits(v) : v \in met}
<1>1. Visits = {CHOOSE v \in met : Traits(v) = traits : traits \in signs}
  BY Zenon DEF Visits
<1>2. \A traits \in signs : \E v \in met : Traits(v) = traits
  OBVIOUS
<1>3. \A v \in met : v.key \in Keys /\ v.does \in Mutations
  OBVIOUS
<1> HIDE DEF met, signs
<1>4. PICK traits \in signs : visit = CHOOSE v \in met : Traits(v) = traits
  BY <1>1
<1>5. visit \in met
  BY <1>2, <1>4
<1> QED BY <1>3, <1>5

LEMMA CacheBegins ==
    ASSUME visit \in Visits, Init({visit.key})
    PROVE  CacheInv
<1>1. visit.key \in Keys /\ visit.does \in Mutations
  BY VisitsMeet
<1>2. /\ log = << >> /\ known = {}
      /\ copy = [k \in {visit.key} |-> Blank] /\ call = [c \in Calls |-> Idle]
  BY DEF Init
<1>3. LogIsOfUse
  <2>1. << >> \in Seq({visit.does, "sale"}) /\ Len(<< >>) = 0
    OBVIOUS
  <2> QED BY <1>2, <2>1 DEF LogIsOfUse
<1>4. CopiesHold
  BY <1>1, <1>2, BlankIsTrue DEF CopiesHold
<1>5. CallsHold
  <2>1. Idle = [does |-> "nothing", stage |-> "idle", write |-> 0, before |-> << >>]
    BY DEF Idle
  <2>2. IsOfUse(Idle)
    BY <2>1 DEF IsOfUse
  <2> QED BY <1>2, <2>2 DEF CallsHold
<1> QED BY <1>1, <1>3, <1>4, <1>5 DEF CacheInv

\* The tab uses one query.
OneKey == DOMAIN copy = {visit.key}

LEMMA KeyStays == ASSUME CacheStep, visit' = visit, OneKey PROVE OneKey'
<1>1. ASSUME NEW k, KeyStep(k) PROVE DOMAIN copy' = DOMAIN copy
  BY <1>1 DEF KeyStep, Age, Collect, Poll, FetchRead, FetchArrives, FetchFails
<1>2. ASSUME NEW c \in Calls, CallStep(c) PROVE DOMAIN copy' = DOMAIN copy
  <2>1. ASSUME NEW entries, NEW prefixes
        PROVE  DOMAIN Invalidate(entries, prefixes) = DOMAIN entries
    BY DEF Invalidate
  <2>2. DOMAIN RolledBack(c) = DOMAIN copy
    BY DEF RolledBack
  <2>3. CASE Succeed(c)
    <3>1. PICK given : given = [k \in DOMAIN copy |->
                IF k \in MutationOf[call[c].does].sets THEN Given(k, copy[k], call[c].write)
                                                       ELSE copy[k]]
      OBVIOUS
    <3>2. copy' = Invalidate(given, MutationOf[call[c].does].invalidates)
      BY <2>3, <3>1 DEF Succeed
    <3> QED BY <2>1, <3>1, <3>2
  <2>4. CASE Fail(c)
    BY <2>1, <2>2, <2>4 DEF Fail
  <2>5. CASE MarkSold(c)
    <3>1. PICK marked : /\ DOMAIN marked = DOMAIN copy
                        /\ copy' = Invalidate(marked, {<<"paintings">>})
      BY <2>5 DEF MarkSold
    <3> QED BY <2>1, <3>1
  <2>6. CASE Serve(c) \/ Refuse(c) \/ RefuseSold(c)
    BY <2>6 DEF Serve, Refuse, RefuseSold
  <2> QED BY <1>2, <2>3, <2>4, <2>5, <2>6 DEF CallStep
<1>3. ASSUME NEW c \in Calls, Begin(c, visit.does) PROVE DOMAIN copy' = DOMAIN copy
  <2>1. DOMAIN Patched(c) = DOMAIN copy
    BY DEF Patched
  <2> QED BY <1>3, <2>1 DEF Begin
<1>4. (\E screen : Show(screen)) \/ (\E online \in BOOLEAN : Return(online)) \/ Sale
        => DOMAIN copy' = DOMAIN copy
  BY DEF Show, Return, Sale
<1> QED BY <1>1, <1>2, <1>3, <1>4 DEF CacheStep, OneKey

LEMMA CacheStepKeeps ==
    ASSUME CacheInv, OneKey, visit' = visit, CacheStep
    PROVE  CacheInv'
<1>1. CASE \E screen \in {{}, {visit.key}} : Show(screen)
  BY <1>1, ShowRight
<1>2. CASE \E online \in BOOLEAN : Return(online)
  BY <1>2, ReturnRight
<1>3. CASE KeyStep(visit.key)
  BY <1>3, KeyStepRight DEF OneKey
<1>4. ASSUME NEW c \in Calls, CallStep(c) PROVE CacheInv'
  BY <1>4, ServerWrites, RefusalRight, SucceedRight, FailRight, MarkSoldRight DEF CallStep
<1>5. ASSUME NEW c \in Calls, Begin(c, visit.does) PROVE CacheInv'
  BY <1>5, MutationBegins
<1>6. CASE visit.does = "addToCart" /\ Sale
  BY <1>6, SaleRight
<1> QED BY <1>1, <1>2, <1>3, <1>4, <1>5, <1>6 DEF CacheStep

\* The cache is as it should be; a behaviour of any other part has no copies.
TabInv == (part = "cache" => CacheInv /\ OneKey) /\ (part # "cache" => DOMAIN copy = {})

LEMMA TabInvariant == MCSpec => []TabInv
<1>1. MCInit => TabInv
  <2>1. CASE part = "cache" /\ visit \in Visits /\ Init({visit.key})
    <3>1. OneKey
      BY <2>1 DEF Init, OneKey
    <3> QED BY <2>1, <3>1, CacheBegins DEF TabInv
  <2>2. CASE part # "cache" /\ Init({})
    BY <2>2 DEF Init, TabInv
  <2> QED BY <2>1, <2>2 DEF MCInit
<1>2. TabInv /\ [MCNext]_all => TabInv'
  <2> SUFFICES ASSUME TabInv, [MCNext]_all PROVE TabInv'
    OBVIOUS
  <2>1. part' = part /\ visit' = visit
    BY DEF MCNext, all
  <2>2. CASE part = "cache" /\ CacheStep
    BY <2>1, <2>2, KeyStays, CacheStepKeeps DEF TabInv
  <2>3. CASE UNCHANGED vars
    <3>1. UNCHANGED <<log, copy, call, known>>
      BY <2>3 DEF vars
    <3>2. CacheInv' = CacheInv
      BY <2>1, <3>1 DEF CacheInv, LogIsOfUse, CopiesHold, CallsHold, IsOfUse, IsTrue, Owed,
                        Waiting, used
    <3> QED BY <2>1, <3>1, <3>2 DEF TabInv, OneKey
  <2> QED BY <2>2, <2>3 DEF MCNext, all
<1> QED BY <1>1, <1>2, PTL DEF MCSpec

\* What passes for the truth in the cache is what this tab was told: a copy that
\* counts as fresh shows every write this tab knows of, but for the pairs listed,
\* and a like that was drawn on it and refused is on no copy that counts as fresh.
\* (Every onMutate, onSuccess, onError and onSettled of hooks/mutations.)
THEOREM CopiesStayTrue == MCSpec => []CopiesAreTrue
<1>1. TabInv => CopiesAreTrue
  <2> SUFFICES ASSUME TabInv PROVE CopiesAreTrue
    OBVIOUS
  <2>1. CASE part # "cache"
    BY <2>1 DEF TabInv, CopiesAreTrue, KnownIsShown, PhantomsAreStale
  <2>2. CASE part = "cache"
    <3>1. \A k \in DOMAIN copy : IsTrue(k, copy[k], used, Owed(k), Waiting)
      BY <2>2 DEF TabInv, CacheInv, CopiesHold
    <3>2. KnownIsShown
      BY <3>1 DEF KnownIsShown, IsTrue, Owed
    <3>3. PhantomsAreStale
      BY <3>1 DEF PhantomsAreStale, IsTrue, Waiting
    <3> QED BY <3>2, <3>3 DEF CopiesAreTrue
  <2> QED BY <2>1, <2>2
<1>2. MCSpec => []TabInv
  BY TabInvariant
<1> QED BY <1>1, <1>2, PTL

-----------------------------------------------------------------------------
(* Who may see what. *)

rights == <<s1, s2, s3, s4, s5, s6, s7, s8, s9, s10>>

Everyone == Both \cup {NoPart}
Token == [of : Everyone, fresh : BOOLEAN]
Store == [user : Everyone, admin : BOOLEAN, token : Token, booted : BOOLEAN]
Request == [stage : {"idle", "sent", "answered", "waiting", "refused"}, as : Everyone,
            token : Token, retried : BOOLEAN, again : BOOLEAN,
            answer : {"none", "served", "lost", "unauthorized", "forbidden", "noGuest", "notFound"},
            owner : Everyone, moved : BOOLEAN]

RightsType ==
    /\ Rights!Guarded(s1)
    /\ s2 \in [Both -> {"USER", "ADMIN", "gone"}]
    /\ s3 \in [of : Everyone, lives : BOOLEAN]
    /\ s4 \in Store
    /\ s7 \in [Calls -> Request]
    /\ s8 \in [Everyone -> [owner : Everyone \cup {"nothing"}, sure : BOOLEAN]]
    /\ s9 \in [disturbed : BOOLEAN, crossed : BOOLEAN]

\* A request that nothing came between is of the visitor the tab is of, by its
\* token as well, and so is its answer.
IsOf(q, user, crossed) ==
    /\ q.stage # "idle" /\ ~q.moved /\ ~crossed => q.as = user /\ q.token.of = user
    /\ q.stage = "answered" /\ q.answer = "served" => q.owner = q.token.of

\* While nothing disturbs the session: a request that needs an account has the
\* token of one that may make it; one that was repeated has a fresh one; only a
\* first time is it turned away, for a token that expired.
IsFair(q, user, admin, guard) ==
    q.stage # "idle" =>
        /\ q.token = Rights!NoToken => guard \in {"open", "optional"}
        /\ q.token # Rights!NoToken => user # NoPart /\ q.token.of = user
        /\ guard = "admin" => admin
        /\ q.stage = "sent" /\ q.retried => q.token.fresh
        /\ q.stage = "answered" =>
              \/ q.answer \in {"served", "lost"}
              \/ q.answer \in {"unauthorized", "noGuest"} /\ ~q.retried /\ q.token # Rights!NoToken
        /\ q.stage = "waiting" => q.token # Rights!NoToken
        /\ q.stage = "refused" => q.answer = "lost"

IsRight(q, user, admin, guard, ghost) ==
    /\ q \in Request
    /\ IsOf(q, user, ghost.crossed)
    /\ ~ghost.disturbed => IsFair(q, user, admin, guard)

RequestsAreRight == \A r \in Calls : IsRight(s7[r], s4.user, s4.admin, s1.guard, s9)

\* The session of the cookie is of an account that there is.
CookieIsOfSomeone == s3.lives /\ s3.of # NoPart => s2[s3.of] # "gone"

\* The token is that of the visitor shown.
TokenIsTheirs == ~s9.crossed => s4.token.of = s4.user

\* While nothing disturbs it: the tab shows the account whose session the cookie
\* is of, and what is fetched at startup or in place of a token is the same one.
TabIsOfCookie ==
    ~s9.disturbed =>
        /\ s4.token.of = s4.user
        /\ s4.user = NoPart => s4.token = Rights!NoToken /\ ~s4.admin /\ s5 = "none"
        /\ s4.user # NoPart =>
              /\ s3.of = s4.user /\ s3.lives /\ s6 = "done"
              /\ s4.admin = (s2[s4.user] = "ADMIN")
        /\ s5 \in {"none", "sent", s4.user}
        /\ s6 \in Both => s3.of = s6 /\ s3.lives

RightsInv ==
    /\ RightsType
    /\ RequestsAreRight
    /\ CookieIsOfSomeone
    /\ TokenIsTheirs
    /\ TabIsOfCookie
    /\ Rights!KeptUnderItsOwner

-----------------------------------------------------------------------------

LEMMA MarksAreNoOne ==
    /\ "none" \notin Both /\ "sent" \notin Both /\ "done" \notin Both /\ NoPart \notin Both
    /\ NoPart # "none" /\ NoPart # "sent" /\ NoPart # "done"
BY BrowserAssumption DEF BrowserAssumption

LEMMA NoTokenIs ==
    /\ Rights!NoToken \in Token /\ Rights!NoToken.of = NoPart /\ Rights!NoToken.fresh = FALSE
    /\ \A t \in Token : t.of = NoPart /\ t.fresh = FALSE => t = Rights!NoToken
BY DEF Rights!NoToken, Token, Everyone

LEMMA IdleIsRight ==
    ASSUME NEW user, NEW admin, NEW guard, NEW ghost
    PROVE  IsRight(Rights!Idle, user, admin, guard, ghost)
<1>1. Rights!Idle \in Request /\ Rights!Idle.stage = "idle"
  BY NoTokenIs DEF Rights!Idle, Request, Everyone
<1> QED BY <1>1 DEF IsRight, IsOf, IsFair

\* One request changes, and of the tab nothing that matters to the others.
LEMMA OneRequest ==
    ASSUME RightsInv, NEW r \in Calls, NEW q, s7' = [s7 EXCEPT ![r] = q],
           IsRight(q, s4.user, s4.admin, s1.guard, s9), UNCHANGED <<s1, s4, s9>>
    PROVE  s7' \in [Calls -> Request] /\ RequestsAreRight'
<1>1. s7 \in [Calls -> Request] /\ q \in Request
  BY DEF RightsInv, RightsType, IsRight
<1>2. s7' \in [Calls -> Request] /\ \A p \in Calls : s7'[p] = IF p = r THEN q ELSE s7[p]
  BY <1>1
<1> QED BY <1>2 DEF RightsInv, RequestsAreRight

\* The rest stays: only the requests, what is fetched and what is kept change.
LEMMA RequestMoves ==
    ASSUME RightsInv, UNCHANGED <<s1, s2, s3, s4, s6, s8, s9>>, s5' = s5,
           s7' \in [Calls -> Request], RequestsAreRight'
    PROVE  RightsInv'
BY DEF RightsInv, RightsType, CookieIsOfSomeone, TokenIsTheirs, TabIsOfCookie,
       Rights!KeptUnderItsOwner

LEMMA SentIs ==
    ASSUME RightsInv, NEW q \in Request
    PROVE  /\ Rights!Sent(q) \in Request
           /\ Rights!Sent(q) = [stage |-> "sent", as |-> q.as, token |-> s4.token,
                retried |-> q.retried, again |-> q.again, answer |-> q.answer,
                owner |-> q.owner, moved |-> q.moved]
<1>1. s4.token \in Token
  BY DEF RightsInv, RightsType, Store
<1>2. PICK token \in Token : token = s4.token
  BY <1>1
<1>3. Rights!Sent(q) = [q EXCEPT !.stage = "sent", !.token = token]
  BY <1>2 DEF Rights!Sent
<1>4. PICK p : p = [q EXCEPT !.stage = "sent", !.token = token]
  OBVIOUS
<1>5. p = [stage |-> "sent", as |-> q.as, token |-> token, retried |-> q.retried,
           again |-> q.again, answer |-> q.answer, owner |-> q.owner, moved |-> q.moved]
  BY <1>4 DEF Request
<1>6. p \in Request
  BY <1>2, <1>5 DEF Request
<1> QED BY <1>2, <1>3, <1>4, <1>5, <1>6

LEMMA BeginRight ==
    ASSUME RightsInv, NEW r \in Calls, Rights!Begin(r)
    PROVE  RightsInv'
<1> DEFINE first == [Rights!Idle EXCEPT !.as = s4.user]
<1>0. RightsType /\ TokenIsTheirs /\ TabIsOfCookie
  BY DEF RightsInv
<1>1. s4.user \in Everyone /\ s4.token \in Token /\ s4.admin \in BOOLEAN
  BY <1>0 DEF RightsType, Store
<1>2. PICK user \in Everyone : user = s4.user
  BY <1>1
<1>3. first = [stage |-> "idle", as |-> user, token |-> Rights!NoToken, retried |-> FALSE,
               again |-> FALSE, answer |-> "none", owner |-> NoPart, moved |-> FALSE]
  <2>1. PICK idle : idle = Rights!Idle
    OBVIOUS
  <2>2. idle = [stage |-> "idle", as |-> NoPart, token |-> Rights!NoToken, retried |-> FALSE,
                again |-> FALSE, answer |-> "none", owner |-> NoPart, moved |-> FALSE]
    BY <2>1 DEF Rights!Idle
  <2>3. idle \in Request
    BY <2>2, NoTokenIs DEF Request, Everyone
  <2>4. PICK p : p = [idle EXCEPT !.as = user]
    OBVIOUS
  <2>5. p = [stage |-> idle.stage, as |-> user, token |-> idle.token, retried |-> idle.retried,
             again |-> idle.again, answer |-> idle.answer, owner |-> idle.owner,
             moved |-> idle.moved]
    BY <2>3, <2>4 DEF Request
  <2>6. p = [stage |-> "idle", as |-> user, token |-> Rights!NoToken, retried |-> FALSE,
             again |-> FALSE, answer |-> "none", owner |-> NoPart, moved |-> FALSE]
    BY <2>2, <2>5
  <2> QED BY <1>2, <2>1, <2>4, <2>6
<1>4. first \in Request
  BY <1>2, <1>3, NoTokenIs DEF Request, Everyone
<1>5. s7' = [s7 EXCEPT ![r] = Rights!Sent(first)] /\ UNCHANGED <<s1, s2, s3, s4, s5, s6, s8, s9>>
  BY DEF Rights!Begin
<1> HIDE DEF first
<1>6. PICK q \in Request : q = Rights!Sent(first)
  BY <1>4, SentIs
<1>7. q = [stage |-> "sent", as |-> user, token |-> s4.token, retried |-> FALSE,
           again |-> FALSE, answer |-> "none", owner |-> NoPart, moved |-> FALSE]
  BY <1>3, <1>4, <1>6, SentIs
<1>8. IsOf(q, s4.user, s9.crossed)
  BY <1>0, <1>2, <1>7 DEF IsOf, TokenIsTheirs
<1>9. ASSUME ~s9.disturbed PROVE IsFair(q, s4.user, s4.admin, s1.guard)
  <2>1. s1.guard \in {"user", "admin"} => s4.user # NoPart
    BY <1>0, <1>9, NoTokenIs DEF RightsType, Rights!Guarded, TabIsOfCookie, Rights!Begin,
       Rights!Shown, Rights!Enabled, Rights!isAuthenticated
  <2>2. s1.guard = "admin" => s4.admin
    BY <1>0 DEF RightsType, Rights!Guarded, Rights!Begin, Rights!Shown, Rights!Enabled
  <2>3. s4.token = Rights!NoToken => s1.guard \in {"open", "optional"}
    BY <1>0, <1>9, <2>1, NoTokenIs DEF RightsType, Rights!Guarded, TabIsOfCookie
  <2>4. s4.token # Rights!NoToken => s4.user # NoPart /\ s4.token.of = s4.user
    BY <1>0, <1>9 DEF TabIsOfCookie
  <2> QED BY <1>7, <2>2, <2>3, <2>4 DEF IsFair
<1>10. IsRight(q, s4.user, s4.admin, s1.guard, s9)
  BY <1>8, <1>9 DEF IsRight
<1> QED BY <1>5, <1>6, <1>10, OneRequest, RequestMoves

\* The requests whose rights are right, one by one.
LEMMA ItIsRight ==
    ASSUME RightsInv, NEW r \in Calls
    PROVE  /\ s7[r] \in Request /\ IsOf(s7[r], s4.user, s9.crossed)
           /\ ~s9.disturbed => IsFair(s7[r], s4.user, s4.admin, s1.guard)
BY DEF RightsInv, RequestsAreRight, IsRight

LEMMA ServeRight ==
    ASSUME RightsInv, NEW r \in Calls, Rights!Serve(r)
    PROVE  RightsInv'
<1> DEFINE answer == Rights!Answer(s1.guard, s7[r].token)
<1>0. RightsType /\ TabIsOfCookie /\ CookieIsOfSomeone
  BY DEF RightsInv
<1>1. PICK p \in Request : p = s7[r]
  BY ItIsRight
<1>2. IsOf(p, s4.user, s9.crossed) /\ (~s9.disturbed => IsFair(p, s4.user, s4.admin, s1.guard))
  BY <1>1, ItIsRight
<1>3. p.stage = "sent" /\ UNCHANGED <<s1, s2, s3, s4, s5, s6, s8, s9>>
  BY <1>1 DEF Rights!Serve
<1>4. answer \in {"served", "unauthorized", "forbidden", "noGuest"}
  BY <1>0 DEF RightsType, Rights!Guarded, Rights!Answer
<1>5. PICK said \in {"served", "unauthorized", "forbidden", "noGuest"} : said = answer
  BY <1>4
<1>6. PICK q : q = [stage |-> "answered", as |-> p.as, token |-> p.token, retried |-> p.retried,
                    again |-> p.again, answer |-> said, owner |-> p.token.of, moved |-> p.moved]
  OBVIOUS
<1>7. q \in Request
  BY <1>5, <1>6 DEF Request, Token
<1>8. s7' = [s7 EXCEPT ![r] = q]
  <2>1. s7' = [s7 EXCEPT ![r] = [p EXCEPT !.stage = "answered", !.owner = p.token.of, !.answer = said]]
    BY <1>0, <1>1, <1>5, Zenon DEF Rights!Serve, RightsType
  <2>2. [p EXCEPT !.stage = "answered", !.owner = p.token.of, !.answer = said] = q
    <3>1. PICK owner \in Everyone : owner = p.token.of
      BY DEF Request, Token
    <3>2. PICK p1 : p1 = [p EXCEPT !.stage = "answered", !.owner = owner]
      OBVIOUS
    <3>3. p1 = [stage |-> "answered", as |-> p.as, token |-> p.token, retried |-> p.retried,
                again |-> p.again, answer |-> p.answer, owner |-> owner, moved |-> p.moved]
      BY <3>2 DEF Request
    <3>4. [p1 EXCEPT !.answer = said] = q
      BY <1>6, <3>1, <3>3
    <3>5. [p EXCEPT !.stage = "answered", !.owner = owner, !.answer = said]
            = [[p EXCEPT !.stage = "answered", !.owner = owner] EXCEPT !.answer = said]
      BY Zenon DEF Request
    <3> QED BY <3>1, <3>2, <3>4, <3>5
  <2> QED BY <2>1, <2>2
<1>9. IsOf(q, s4.user, s9.crossed)
  BY <1>2, <1>3, <1>6 DEF IsOf
<1>10. ASSUME ~s9.disturbed PROVE IsFair(q, s4.user, s4.admin, s1.guard)
  <2>1. IsFair(p, s4.user, s4.admin, s1.guard)
    BY <1>2, <1>10
  <2>2. CASE p.token = Rights!NoToken
    <3>1. said = "served"
      BY <1>1, <1>3, <1>5, <2>1, <2>2 DEF IsFair, Rights!Answer
    <3> QED BY <1>3, <1>6, <2>1, <2>2, <3>1 DEF IsFair
  <2>3. CASE p.token # Rights!NoToken
    <3>1. p.token.of = s4.user /\ s4.user # NoPart /\ p.token.fresh \in BOOLEAN
      BY <1>3, <2>1, <2>3 DEF IsFair, Request, Token
    <3>2. s2[s4.user] # "gone" /\ (s1.guard = "admin" => s2[s4.user] = "ADMIN")
      BY <1>0, <1>3, <1>10, <2>1, <3>1 DEF IsFair, TabIsOfCookie, CookieIsOfSomeone
    <3>3. Rights!Valid(p.token) <=> p.token.fresh
      BY <3>1, <3>2 DEF Rights!Valid
    <3>4. said = "served" \/ (said \in {"unauthorized", "noGuest"} /\ ~p.token.fresh)
      BY <1>0, <1>1, <1>5, <2>3, <3>1, <3>2, <3>3 DEF Rights!Answer, RightsType, Rights!Guarded
    <3> QED BY <1>3, <1>6, <2>1, <2>3, <3>1, <3>4 DEF IsFair
  <2> QED BY <2>2, <2>3
<1>11. IsRight(q, s4.user, s4.admin, s1.guard, s9)
  BY <1>7, <1>9, <1>10 DEF IsRight
<1> QED BY <1>3, <1>8, <1>11, OneRequest, RequestMoves

LEMMA LoseRight ==
    ASSUME RightsInv, NEW r \in Calls, Rights!Lose(r)
    PROVE  RightsInv'
<1>0. RightsType
  BY DEF RightsInv
<1>1. PICK p \in Request : p = s7[r]
  BY ItIsRight
<1>2. IsOf(p, s4.user, s9.crossed) /\ (~s9.disturbed => IsFair(p, s4.user, s4.admin, s1.guard))
  BY <1>1, ItIsRight
<1>3. p.stage \in {"sent", "answered"} /\ UNCHANGED <<s1, s2, s3, s4, s5, s6, s8, s9>>
  BY <1>1 DEF Rights!Lose
<1>4. PICK q : q = [p EXCEPT !.stage = "answered", !.answer = "lost"]
  OBVIOUS
<1>5. /\ q \in Request /\ q.stage = "answered" /\ q.answer = "lost" /\ q.as = p.as
      /\ q.token = p.token /\ q.moved = p.moved
  BY <1>4 DEF Request
<1>6. s7' = [s7 EXCEPT ![r] = q]
  BY <1>0, <1>1, <1>4, Zenon DEF Rights!Lose, RightsType
<1>7. IsRight(q, s4.user, s4.admin, s1.guard, s9)
  BY <1>2, <1>3, <1>5 DEF IsRight, IsOf, IsFair
<1> QED BY <1>3, <1>6, <1>7, OneRequest, RequestMoves

LEMMA DeliverRight ==
    ASSUME RightsInv, NEW r \in Calls, Rights!Deliver(r)
    PROVE  RightsInv'
<1>0. RightsType /\ Rights!KeptUnderItsOwner
  BY DEF RightsInv
<1>1. PICK p \in Request : p = s7[r]
  BY ItIsRight
<1>2. IsOf(p, s4.user, s9.crossed)
  BY <1>1, ItIsRight
<1>3. p.stage = "answered" /\ p.answer = "served" /\ UNCHANGED <<s1, s2, s3, s4, s5, s6, s9>>
  BY <1>1 DEF Rights!Deliver
<1>4. s7' = [s7 EXCEPT ![r] = Rights!Idle]
  BY DEF Rights!Deliver
<1>5. s7' \in [Calls -> Request] /\ RequestsAreRight'
  BY <1>3, <1>4, IdleIsRight, OneRequest
<1>6. PICK sure \in BOOLEAN : sure = (~p.moved /\ ~s9.crossed)
  BY <1>0 DEF RightsType, Request
<1>7. PICK answer : answer = [owner |-> p.owner, sure |-> sure]
  OBVIOUS
<1>8. p.as \in Everyone /\ answer \in [owner : Everyone \cup {"nothing"}, sure : BOOLEAN]
  BY <1>7 DEF Request
<1>9. answer.sure => answer.owner = p.as
  BY <1>2, <1>3, <1>6, <1>7 DEF IsOf
<1>10. s8' = s8 \/ s8' = [s8 EXCEPT ![p.as] = answer]
  BY <1>1, <1>6, <1>7 DEF Rights!Deliver
<1>11. /\ s8' \in [Everyone -> [owner : Everyone \cup {"nothing"}, sure : BOOLEAN]]
       /\ \A a \in Everyone : s8'[a] = s8[a] \/ (a = p.as /\ s8'[a] = answer)
  BY <1>0, <1>8, <1>10 DEF RightsType
<1>12. \A a \in Everyone : s8[a].sure => s8[a].owner \in {"nothing", a}
  BY <1>0 DEF RightsType, Rights!KeptUnderItsOwner
<1>13. \A a \in Everyone : s8'[a].sure => s8'[a].owner \in {"nothing", a}
  BY <1>9, <1>11, <1>12
<1>14. Rights!KeptUnderItsOwner'
  BY <1>11, <1>13 DEF Rights!KeptUnderItsOwner
<1> QED BY <1>3, <1>5, <1>11, <1>14 DEF RightsInv, RightsType, CookieIsOfSomeone, TokenIsTheirs,
       TabIsOfCookie

LEMMA RenewRight ==
    ASSUME RightsInv, NEW r \in Calls, Rights!Renew(r)
    PROVE  RightsInv'
<1>0. RightsType /\ TabIsOfCookie
  BY DEF RightsInv
<1>1. PICK p \in Request : p = s7[r]
  BY ItIsRight
<1>2. IsOf(p, s4.user, s9.crossed) /\ (~s9.disturbed => IsFair(p, s4.user, s4.admin, s1.guard))
  BY <1>1, ItIsRight
<1>3. /\ p.stage = "answered" /\ p.answer \in {"unauthorized", "noGuest"}
      /\ UNCHANGED <<s1, s2, s3, s4, s6, s8, s9>>
      /\ s5' = s5 \/ s5' = "sent"
  BY <1>1 DEF Rights!Renew, Rights!Renewable
<1>4. PICK q : q = [p EXCEPT !.stage = "waiting", !.retried = TRUE]
  OBVIOUS
<1>5. /\ q \in Request /\ q.stage = "waiting" /\ q.as = p.as /\ q.token = p.token
      /\ q.moved = p.moved
  BY <1>4 DEF Request
<1>6. s7' = [s7 EXCEPT ![r] = q]
  BY <1>0, <1>1, <1>4, Zenon DEF Rights!Renew, RightsType
<1>7. IsRight(q, s4.user, s4.admin, s1.guard, s9)
  BY <1>2, <1>3, <1>5 DEF IsRight, IsOf, IsFair
<1>8. s7' \in [Calls -> Request] /\ RequestsAreRight'
  BY <1>3, <1>6, <1>7, OneRequest
<1>9. ~s9.disturbed => s4.user # NoPart
  BY <1>2, <1>3 DEF IsFair
<1>10. TabIsOfCookie'
  BY <1>0, <1>3, <1>9 DEF TabIsOfCookie
<1> QED BY <1>3, <1>8, <1>10 DEF RightsInv, RightsType, CookieIsOfSomeone, TokenIsTheirs,
       Rights!KeptUnderItsOwner

LEMMA RefuseRight ==
    ASSUME RightsInv, NEW r \in Calls, Rights!Refuse(r)
    PROVE  RightsInv'
<1>0. RightsType
  BY DEF RightsInv
<1>1. PICK p \in Request : p = s7[r]
  BY ItIsRight
<1>2. IsOf(p, s4.user, s9.crossed) /\ (~s9.disturbed => IsFair(p, s4.user, s4.admin, s1.guard))
  BY <1>1, ItIsRight
<1>3. /\ p.stage = "answered" /\ p.answer # "served" /\ ~Rights!Renewable(p)
      /\ UNCHANGED <<s1, s2, s3, s4, s5, s6, s8, s9>>
  BY <1>1 DEF Rights!Refuse
<1>4. PICK q : q = [p EXCEPT !.stage = "refused"]
  OBVIOUS
<1>5. /\ q \in Request /\ q.stage = "refused" /\ q.as = p.as /\ q.token = p.token
      /\ q.moved = p.moved /\ q.answer = p.answer
  BY <1>4 DEF Request
<1>6. s7' = [s7 EXCEPT ![r] = q]
  BY <1>0, <1>1, <1>4, Zenon DEF Rights!Refuse, RightsType
<1>7. ~s9.disturbed => p.answer = "lost"
  BY <1>2, <1>3 DEF IsFair, Rights!Renewable
<1>8. IsRight(q, s4.user, s4.admin, s1.guard, s9)
  BY <1>2, <1>3, <1>5, <1>7 DEF IsRight, IsOf, IsFair
<1> QED BY <1>3, <1>6, <1>8, OneRequest, RequestMoves

LEMMA AskAgainRight ==
    ASSUME RightsInv, NEW r \in Calls, Rights!AskAgain(r)
    PROVE  RightsInv'
<1>0. RightsType /\ TokenIsTheirs /\ TabIsOfCookie
  BY DEF RightsInv
<1>1. PICK p \in Request : p = s7[r]
  BY ItIsRight
<1>2. IsOf(p, s4.user, s9.crossed) /\ (~s9.disturbed => IsFair(p, s4.user, s4.admin, s1.guard))
  BY <1>1, ItIsRight
<1>3. p.stage = "refused" /\ UNCHANGED <<s1, s2, s3, s4, s5, s6, s8, s9>>
  BY <1>1 DEF Rights!AskAgain
<1>4. PICK once : once = [p EXCEPT !.again = TRUE, !.retried = FALSE]
  OBVIOUS
<1>5. once \in Request /\ once.as = p.as /\ once.moved = p.moved /\ once.retried = FALSE
  BY <1>4 DEF Request
<1>6. PICK q \in Request : q = Rights!Sent(once)
  BY <1>5, SentIs
<1>7. /\ q.stage = "sent" /\ q.as = p.as /\ q.token = s4.token /\ q.moved = p.moved
      /\ q.retried = FALSE
  BY <1>5, <1>6, SentIs
<1>8. s7' = [s7 EXCEPT ![r] = q]
  BY <1>1, <1>4, <1>6 DEF Rights!AskAgain
<1>9. IsOf(q, s4.user, s9.crossed)
  BY <1>0, <1>2, <1>3, <1>7 DEF IsOf, TokenIsTheirs
<1>10. ASSUME ~s9.disturbed PROVE IsFair(q, s4.user, s4.admin, s1.guard)
  <2>1. IsFair(p, s4.user, s4.admin, s1.guard) /\ TabIsOfCookie
    BY <1>0, <1>2, <1>10
  <2>2. s4.token = Rights!NoToken => s1.guard \in {"open", "optional"}
    BY <1>3, <1>10, <2>1, NoTokenIs DEF IsFair, TabIsOfCookie
  <2>3. s4.token # Rights!NoToken => s4.user # NoPart /\ s4.token.of = s4.user
    BY <1>10, <2>1 DEF TabIsOfCookie
  <2> QED BY <1>3, <1>7, <2>1, <2>2, <2>3 DEF IsFair
<1>11. IsRight(q, s4.user, s4.admin, s1.guard, s9)
  BY <1>9, <1>10 DEF IsRight
<1> QED BY <1>3, <1>8, <1>11, OneRequest, RequestMoves

LEMMA GiveUpRight ==
    ASSUME RightsInv, NEW r \in Calls, Rights!GiveUp(r)
    PROVE  RightsInv'
<1>1. s7' = [s7 EXCEPT ![r] = Rights!Idle] /\ UNCHANGED <<s1, s2, s3, s4, s5, s6, s8, s9>>
  BY DEF Rights!GiveUp
<1> QED BY <1>1, IdleIsRight, OneRequest, RequestMoves

\* Whatever is under way when the visitor changes is marked.
LEMMA MovedDoes ==
    ASSUME NEW f \in [Calls -> Request]
    PROVE  /\ Rights!Moved(f) \in [Calls -> Request]
           /\ \A r \in Calls :
                \/ f[r].stage = "idle" /\ Rights!Moved(f)[r] = f[r]
                \/ /\ f[r].stage # "idle" /\ Rights!Moved(f)[r].moved = TRUE
                   /\ Rights!Moved(f)[r].stage = f[r].stage /\ Rights!Moved(f)[r].token = f[r].token
                   /\ Rights!Moved(f)[r].answer = f[r].answer /\ Rights!Moved(f)[r].owner = f[r].owner
                   /\ Rights!Moved(f)[r].retried = f[r].retried
<1>1. ASSUME NEW r \in Calls
      PROVE  /\ Rights!Moved(f)[r] \in Request
             /\ \/ f[r].stage = "idle" /\ Rights!Moved(f)[r] = f[r]
                \/ /\ f[r].stage # "idle" /\ Rights!Moved(f)[r].moved = TRUE
                   /\ Rights!Moved(f)[r].stage = f[r].stage /\ Rights!Moved(f)[r].token = f[r].token
                   /\ Rights!Moved(f)[r].answer = f[r].answer /\ Rights!Moved(f)[r].owner = f[r].owner
                   /\ Rights!Moved(f)[r].retried = f[r].retried
  <2>1. PICK p \in Request : p = f[r]
    OBVIOUS
  <2>2. Rights!Moved(f)[r] = IF p.stage = "idle" THEN p ELSE [p EXCEPT !.moved = TRUE]
    BY <2>1 DEF Rights!Moved
  <2>3. PICK q : q = [p EXCEPT !.moved = TRUE]
    OBVIOUS
  <2>4. /\ q \in Request /\ q.moved = TRUE /\ q.stage = p.stage /\ q.token = p.token
        /\ q.answer = p.answer /\ q.owner = p.owner /\ q.retried = p.retried
    BY <2>3 DEF Request
  <2> QED BY <2>1, <2>2, <2>3, <2>4
<1>2. Rights!Moved(f) \in [Calls -> Request]
  BY <1>1 DEF Rights!Moved
<1> QED BY <1>1, <1>2

\* Another visitor: his requests are marked, and where nothing was disturbed the
\* tab was a guest's before.
LEMMA MovedRight ==
    ASSUME RightsInv, s7' = Rights!Moved(s7), s1' = s1,
           ~s9'.disturbed => ~s9.disturbed /\ s4.user = NoPart
    PROVE  s7' \in [Calls -> Request] /\ RequestsAreRight'
<1>1. s7 \in [Calls -> Request]
  BY DEF RightsInv, RightsType
<1>2. s7' \in [Calls -> Request]
  BY <1>1, MovedDoes
<1>3. ASSUME NEW r \in Calls
      PROVE  IsRight(s7'[r], s4'.user, s4'.admin, s1'.guard, s9')
  <2>1. \/ s7[r].stage = "idle" /\ s7'[r] = s7[r]
        \/ /\ s7[r].stage # "idle" /\ s7'[r].moved = TRUE
           /\ s7'[r].stage = s7[r].stage /\ s7'[r].token = s7[r].token
           /\ s7'[r].answer = s7[r].answer /\ s7'[r].owner = s7[r].owner
           /\ s7'[r].retried = s7[r].retried
    BY <1>1, MovedDoes
  <2>2. PICK p \in Request : p = s7[r]
    BY <1>1
  <2>3. PICK q \in Request : q = s7'[r]
    BY <1>2
  <2>4. IsOf(p, s4.user, s9.crossed) /\ (~s9.disturbed => IsFair(p, s4.user, s4.admin, s1.guard))
    BY <2>2, ItIsRight
  <2>5. \/ p.stage = "idle" /\ q = p
        \/ /\ p.stage # "idle" /\ q.moved = TRUE /\ q.stage = p.stage /\ q.token = p.token
           /\ q.answer = p.answer /\ q.owner = p.owner /\ q.retried = p.retried
    BY <2>1, <2>2, <2>3
  <2>6. IsOf(q, s4'.user, s9'.crossed)
    BY <2>4, <2>5 DEF IsOf
  <2>7. ASSUME ~s9'.disturbed PROVE IsFair(q, s4'.user, s4'.admin, s1.guard)
    <3>1. IsFair(p, NoPart, s4.admin, s1.guard)
      BY <2>4, <2>7
    <3>2. p.stage # "idle" =>
            /\ p.token = Rights!NoToken /\ s1.guard \in {"open", "optional"}
            /\ p.stage = "answered" => p.answer \in {"served", "lost"}
            /\ p.stage # "waiting" /\ (p.stage = "refused" => p.answer = "lost")
            /\ ~(p.stage = "sent" /\ p.retried)
      BY <3>1, NoTokenIs DEF IsFair
    <3> QED BY <2>5, <3>2 DEF IsFair
  <2> QED BY <2>3, <2>6, <2>7 DEF IsRight
<1> QED BY <1>2, <1>3 DEF RequestsAreRight

LEMMA SetAuthIs ==
    ASSUME RightsInv, NEW a \in Both
    PROVE  /\ Rights!SetAuth(a) \in Store
           /\ Rights!SetAuth(a).user = a /\ Rights!SetAuth(a).token.of = a
           /\ Rights!SetAuth(a).admin = (s2[a] = "ADMIN")
<1>1. PICK admin \in BOOLEAN : admin = (s2[a] = "ADMIN")
  OBVIOUS
<1>2. PICK token : token = [of |-> a, fresh |-> TRUE]
  OBVIOUS
<1>3. token \in Token /\ token.of = a
  BY <1>2 DEF Token, Everyone
<1>4. Rights!SetAuth(a) = [user |-> a, admin |-> admin, token |-> token, booted |-> TRUE]
  BY <1>1, <1>2 DEF Rights!SetAuth
<1> QED BY <1>1, <1>3, <1>4 DEF Store, Everyone

LEMMA BlankIs ==
    /\ Rights!Blank \in Store /\ [Rights!Blank EXCEPT !.booted = TRUE] \in Store
    /\ Rights!Blank.user = NoPart /\ Rights!Blank.token = Rights!NoToken /\ ~Rights!Blank.admin
    /\ [Rights!Blank EXCEPT !.booted = TRUE].user = NoPart
    /\ [Rights!Blank EXCEPT !.booted = TRUE].token = Rights!NoToken
    /\ ~[Rights!Blank EXCEPT !.booted = TRUE].admin
<1>1. PICK b : b = Rights!Blank
  OBVIOUS
<1>2. PICK none \in Token : none = Rights!NoToken
  BY NoTokenIs
<1>3. b = [user |-> NoPart, admin |-> FALSE, token |-> none, booted |-> FALSE]
  BY <1>1, <1>2 DEF Rights!Blank
<1>4. PICK c : c = [b EXCEPT !.booted = TRUE]
  OBVIOUS
<1>5. c = [user |-> NoPart, admin |-> FALSE, token |-> none, booted |-> TRUE]
  BY <1>3, <1>4
<1>6. b \in Store /\ c \in Store
  BY <1>3, <1>5 DEF Store, Everyone
<1> QED BY <1>1, <1>2, <1>3, <1>4, <1>5, <1>6

\* Somebody is signed in, by the form or by what the cookie was good for at startup.
LEMMA SetAuthRight ==
    ASSUME RightsInv, NEW a \in Both, s2[a] # "gone" \/ s3' = s3, s4' = Rights!SetAuth(a),
           s7' = Rights!Moved(s7), UNCHANGED <<s1, s2, s8>>,
           s3' \in [of : Everyone, lives : BOOLEAN], CookieIsOfSomeone',
           s9' \in [disturbed : BOOLEAN, crossed : BOOLEAN],
           ~s9'.disturbed => /\ ~s9.disturbed /\ s4.user = NoPart /\ s6' = "done" /\ s5' = s5
                             /\ s3'.of = a /\ s3'.lives
    PROVE  RightsInv'
<1>0. RightsType /\ TabIsOfCookie /\ Rights!KeptUnderItsOwner
  BY DEF RightsInv
<1>1. s7' \in [Calls -> Request] /\ RequestsAreRight'
  BY MovedRight
<1>2. s4' \in Store /\ s4'.user = a /\ s4'.token.of = a /\ s4'.admin = (s2[a] = "ADMIN")
  BY SetAuthIs
<1>3. TabIsOfCookie'
  <2> SUFFICES ASSUME ~s9'.disturbed
               PROVE  /\ s4'.token.of = s4'.user
                      /\ s4'.user = NoPart => s4'.token = Rights!NoToken /\ ~s4'.admin /\ s5' = "none"
                      /\ s4'.user # NoPart =>
                            /\ s3'.of = s4'.user /\ s3'.lives /\ s6' = "done"
                            /\ s4'.admin = (s2'[s4'.user] = "ADMIN")
                      /\ s5' \in {"none", "sent", s4'.user}
                      /\ s6' \in Both => s3'.of = s6' /\ s3'.lives
    BY DEF TabIsOfCookie
  <2>1. s5' = "none"
    BY <1>0 DEF TabIsOfCookie
  <2> QED BY <1>2, <2>1, MarksAreNoOne
<1>4. TokenIsTheirs' /\ Rights!KeptUnderItsOwner'
  BY <1>0, <1>2 DEF TokenIsTheirs, Rights!KeptUnderItsOwner
<1>5. RightsType'
  BY <1>0, <1>1, <1>2 DEF RightsType
<1> QED BY <1>1, <1>3, <1>4, <1>5 DEF RightsInv

LEMMA SignInRight ==
    ASSUME RightsInv, NEW a \in Both, Rights!SignIn(a)
    PROVE  RightsInv'
<1>0. RightsType /\ TabIsOfCookie
  BY DEF RightsInv
<1>1. /\ s2[a] # "gone" /\ s3' = [of |-> a, lives |-> TRUE] /\ s4' = Rights!SetAuth(a)
      /\ s7' = Rights!Moved(s7) /\ UNCHANGED <<s1, s2, s5, s6, s8>>
  BY DEF Rights!SignIn
<1>2. PICK disturbed \in BOOLEAN :
         disturbed = (s9.disturbed \/ s6 # "done" \/ Rights!isAuthenticated \/ s5 # "none")
  BY <1>0 DEF RightsType, Rights!isAuthenticated
<1>3. s9' = [s9 EXCEPT !.disturbed = disturbed]
  BY <1>2 DEF Rights!SignIn
<1>4. s9' \in [disturbed : BOOLEAN, crossed : BOOLEAN] /\ s9'.disturbed = disturbed
  BY <1>0, <1>3 DEF RightsType
<1>5. ~disturbed => ~s9.disturbed /\ s4.user = NoPart /\ s6 = "done"
  BY <1>0, <1>2, NoTokenIs DEF Rights!isAuthenticated, TabIsOfCookie
<1>6. s3' \in [of : Everyone, lives : BOOLEAN] /\ s3'.of = a /\ s3'.lives
  BY <1>1 DEF Everyone
<1>7. CookieIsOfSomeone'
  BY <1>1, <1>6 DEF CookieIsOfSomeone
<1> QED BY <1>1, <1>4, <1>5, <1>6, <1>7, SetAuthRight

LEMMA BootArriveRight ==
    ASSUME RightsInv, Rights!BootArrive
    PROVE  RightsInv'
<1>0. RightsType /\ TabIsOfCookie /\ CookieIsOfSomeone /\ RequestsAreRight
  BY DEF RightsInv
<1>1. /\ s6 \in Both \cup {NoPart} /\ s6' = "done" /\ UNCHANGED <<s1, s2, s3, s5, s8, s9>>
  BY DEF Rights!BootArrive
<1>2. CASE s6 # NoPart
  <2>1. s6 \in Both /\ s4' = Rights!SetAuth(s6) /\ s7' = Rights!Moved(s7)
    BY <1>1, <1>2 DEF Rights!BootArrive
  <2>2. ~s9.disturbed => s4.user = NoPart /\ s3.of = s6 /\ s3.lives
    BY <1>0, <2>1, MarksAreNoOne DEF TabIsOfCookie
  <2>3. s3' \in [of : Everyone, lives : BOOLEAN] /\ s9' \in [disturbed : BOOLEAN, crossed : BOOLEAN]
    BY <1>0, <1>1 DEF RightsType
  <2>4. CookieIsOfSomeone'
    BY <1>0, <1>1 DEF CookieIsOfSomeone
  <2> QED BY <1>1, <2>1, <2>2, <2>3, <2>4, SetAuthRight
<1>3. CASE s6 = NoPart
  <2>1. s4' = [s4 EXCEPT !.booted = TRUE] /\ s7' = s7
    BY <1>3 DEF Rights!BootArrive
  <2>2. s4' \in Store /\ s4'.user = s4.user /\ s4'.token = s4.token /\ s4'.admin = s4.admin
    BY <1>0, <2>1 DEF RightsType, Store
  <2>3. RequestsAreRight'
    BY <1>0, <1>1, <2>1, <2>2 DEF RequestsAreRight
  <2>4. TabIsOfCookie'
    BY <1>0, <1>1, <2>2, MarksAreNoOne DEF TabIsOfCookie
  <2> QED BY <1>0, <1>1, <2>1, <2>2, <2>3, <2>4 DEF RightsInv, RightsType, CookieIsOfSomeone,
         TokenIsTheirs, Rights!KeptUnderItsOwner
<1> QED BY <1>2, <1>3

\* A new token, for the requests that wait for it.
LEMMA RefreshSucceedsRight ==
    ASSUME RightsInv, Rights!RefreshSucceeds
    PROVE  RightsInv'
<1>0. RightsType /\ TabIsOfCookie /\ CookieIsOfSomeone
  BY DEF RightsInv
<1>1. s5 \in Both /\ s5' = "none" /\ UNCHANGED <<s1, s2, s3, s6, s8>>
  BY DEF Rights!RefreshSucceeds
<1>2. PICK token : token = [of |-> s5, fresh |-> TRUE]
  OBVIOUS
<1>3. token \in Token /\ token.of = s5 /\ token.fresh = TRUE /\ token # Rights!NoToken
  BY <1>1, <1>2, MarksAreNoOne, NoTokenIs DEF Token, Everyone
<1>4. s4' = [s4 EXCEPT !.token = token, !.booted = TRUE]
  BY <1>2 DEF Rights!RefreshSucceeds
<1>5. s4' \in Store /\ s4'.token = token /\ s4'.user = s4.user /\ s4'.admin = s4.admin
  BY <1>0, <1>3, <1>4 DEF RightsType, Store
<1>6. PICK crossed \in BOOLEAN : crossed = (s9.crossed \/ s4.user # s5)
  BY <1>0 DEF RightsType
<1>7. s9' = [s9 EXCEPT !.crossed = crossed]
  BY <1>6 DEF Rights!RefreshSucceeds
<1>8. /\ s9' \in [disturbed : BOOLEAN, crossed : BOOLEAN] /\ s9'.crossed = crossed
      /\ s9'.disturbed = s9.disturbed
  BY <1>0, <1>7 DEF RightsType
<1>9. ~s9.disturbed => s5 = s4.user
  BY <1>0, <1>1, MarksAreNoOne DEF TabIsOfCookie
<1>10. s7' = [r \in Calls |-> IF s7[r].stage = "waiting"
                THEN [s7[r] EXCEPT !.stage = "sent", !.token = token] ELSE s7[r]]
  <2>1. s7' = [r \in Calls |-> IF s7[r].stage = "waiting"
                 THEN [s7[r] EXCEPT !.stage = "sent", !.token = s4'.token] ELSE s7[r]]
    BY ZenonT(30) DEF Rights!RefreshSucceeds
  <2>2. s4'.token = token
    BY <1>5
  <2> QED BY <2>1, <2>2, Zenon
<1>11. ASSUME NEW r \in Calls
       PROVE  s7'[r] \in Request /\ IsRight(s7'[r], s4'.user, s4'.admin, s1'.guard, s9')
  <2>1. PICK p \in Request : p = s7[r]
    BY ItIsRight
  <2>2. IsOf(p, s4.user, s9.crossed) /\ (~s9.disturbed => IsFair(p, s4.user, s4.admin, s1.guard))
    BY <2>1, ItIsRight
  <2>3. CASE p.stage # "waiting"
    <3>1. s7'[r] = p
      BY <1>10, <2>1, <2>3
    <3> QED BY <1>1, <1>5, <1>6, <1>8, <2>2, <3>1 DEF IsRight, IsOf
  <2>4. CASE p.stage = "waiting"
    <3>1. PICK q : q = [p EXCEPT !.stage = "sent", !.token = token]
      OBVIOUS
    <3>2. s7'[r] = q
      BY <1>10, <2>1, <2>4, <3>1
    <3>3. q = [stage |-> "sent", as |-> p.as, token |-> token, retried |-> p.retried,
               again |-> p.again, answer |-> p.answer, owner |-> p.owner, moved |-> p.moved]
      BY <3>1 DEF Request
    <3>4. q \in Request
      BY <1>3, <3>3 DEF Request
    <3>5. IsOf(q, s4.user, crossed)
      BY <1>3, <1>6, <2>2, <2>4, <3>3 DEF IsOf
    <3>6. ~s9.disturbed => IsFair(q, s4.user, s4.admin, s1.guard)
      BY <1>3, <1>9, <2>2, <2>4, <3>3 DEF IsFair
    <3> QED BY <1>1, <1>5, <1>8, <3>2, <3>4, <3>5, <3>6 DEF IsRight
  <2> QED BY <2>3, <2>4
<1>12. s7' \in [Calls -> Request] /\ RequestsAreRight'
  <2>1. DOMAIN s7' = Calls /\ s7' = [r \in Calls |-> s7'[r]]
    BY <1>10
  <2> QED BY <1>11, <2>1 DEF RequestsAreRight
<1>13. TokenIsTheirs'
  BY <1>3, <1>5, <1>6, <1>8 DEF TokenIsTheirs
<1>14. TabIsOfCookie'
  BY <1>0, <1>1, <1>3, <1>5, <1>8, <1>9, MarksAreNoOne DEF TabIsOfCookie
<1>15. RightsType' /\ CookieIsOfSomeone' /\ Rights!KeptUnderItsOwner'
  BY <1>0, <1>1, <1>5, <1>8, <1>12 DEF RightsInv, RightsType, CookieIsOfSomeone, Rights!KeptUnderItsOwner
<1> QED BY <1>12, <1>13, <1>14, <1>15 DEF RightsInv

\* No token: it does not come to that while nothing is disturbed.
LEMMA RefreshFailsRight ==
    ASSUME RightsInv, Rights!RefreshFails
    PROVE  RightsInv'
<1> DEFINE left == [r \in Calls |->
                      IF s7[r].stage # "waiting" THEN s7[r]
                      ELSE IF s7[r].answer = "noGuest"
                           THEN [s7[r] EXCEPT !.stage = "sent", !.token = Rights!NoToken]
                      ELSE [s7[r] EXCEPT !.stage = "refused"]]
<1>0. RightsType /\ TabIsOfCookie /\ CookieIsOfSomeone
  BY DEF RightsInv
<1>1. /\ s5 = NoPart /\ s4' = [Rights!Blank EXCEPT !.booted = TRUE]
      /\ s7' = Rights!Moved(left) /\ UNCHANGED <<s1, s2, s3, s6, s8, s9>>
  BY DEF Rights!RefreshFails
<1>2. s9.disturbed
  BY <1>0, <1>1, MarksAreNoOne DEF TabIsOfCookie, RightsType
<1>3. ASSUME NEW r \in Calls
      PROVE  /\ left[r] \in Request
             /\ left[r].stage = "answered" => left[r] = s7[r]
  <2>1. PICK p \in Request : p = s7[r]
    BY ItIsRight
  <2>2. PICK q : q = [p EXCEPT !.stage = "sent", !.token = Rights!NoToken]
    OBVIOUS
  <2>3. q \in Request /\ q.stage = "sent"
    <3>1. PICK none \in Token : none = Rights!NoToken
      BY NoTokenIs
    <3>2. q = [stage |-> "sent", as |-> p.as, token |-> none, retried |-> p.retried,
               again |-> p.again, answer |-> p.answer, owner |-> p.owner, moved |-> p.moved]
      BY <2>2, <3>1 DEF Request
    <3> QED BY <3>1, <3>2 DEF Request
  <2>4. PICK o : o = [p EXCEPT !.stage = "refused"]
    OBVIOUS
  <2>5. o \in Request /\ o.stage = "refused"
    BY <2>4 DEF Request
  <2>6. left[r] = p \/ left[r] = q \/ left[r] = o
    BY <2>1, <2>2, <2>4
  <2> HIDE DEF left
  <2> QED BY <2>1, <2>3, <2>5, <2>6
<1>4. left \in [Calls -> Request]
  BY <1>3
<1> HIDE DEF left
<1>5. s7' \in [Calls -> Request]
  BY <1>1, <1>4, MovedDoes
<1>6. ASSUME NEW r \in Calls
      PROVE  IsRight(s7'[r], s4'.user, s4'.admin, s1'.guard, s9')
  <2>1. \/ left[r].stage = "idle" /\ s7'[r] = left[r]
        \/ /\ left[r].stage # "idle" /\ s7'[r].moved = TRUE
           /\ s7'[r].stage = left[r].stage /\ s7'[r].token = left[r].token
           /\ s7'[r].answer = left[r].answer /\ s7'[r].owner = left[r].owner
    BY <1>1, <1>4, MovedDoes
  <2>2. PICK p \in Request : p = s7[r]
    BY ItIsRight
  <2>3. IsOf(p, s4.user, s9.crossed)
    BY <2>2, ItIsRight
  <2>4. PICK q \in Request : q = s7'[r]
    BY <1>5
  <2>5. IsOf(q, s4'.user, s9'.crossed)
    BY <1>3, <2>1, <2>2, <2>3, <2>4 DEF IsOf
  <2> QED BY <1>1, <1>2, <2>4, <2>5 DEF IsRight
<1>7. RequestsAreRight'
  BY <1>6 DEF RequestsAreRight
<1>8. s4' \in Store /\ s4'.user = NoPart /\ s4'.token = Rights!NoToken
  BY <1>1, BlankIs
<1>9. TokenIsTheirs' /\ TabIsOfCookie'
  BY <1>1, <1>2, <1>8, NoTokenIs DEF TokenIsTheirs, TabIsOfCookie
<1> QED BY <1>0, <1>1, <1>5, <1>7, <1>8, <1>9 DEF RightsInv, RightsType, CookieIsOfSomeone,
       Rights!KeptUnderItsOwner

\* What disturbs the session, and leaves the requests and the tab alone.
LEMMA DisturbRight ==
    ASSUME RightsInv, UNCHANGED <<s1, s4, s7, s8>>, Rights!Disturb,
           s2' \in [Both -> {"USER", "ADMIN", "gone"}], s3' \in [of : Everyone, lives : BOOLEAN],
           CookieIsOfSomeone'
    PROVE  RightsInv'
<1>0. RightsType /\ TokenIsTheirs /\ RequestsAreRight
  BY DEF RightsInv
<1>1. s9' \in [disturbed : BOOLEAN, crossed : BOOLEAN] /\ s9'.disturbed /\ s9'.crossed = s9.crossed
  BY <1>0 DEF RightsType, Rights!Disturb
<1>2. RequestsAreRight'
  BY <1>0, <1>1 DEF RequestsAreRight, IsRight
<1>3. TokenIsTheirs' /\ TabIsOfCookie'
  BY <1>0, <1>1 DEF TokenIsTheirs, TabIsOfCookie
<1> QED BY <1>0, <1>1, <1>2, <1>3 DEF RightsInv, RightsType, Rights!KeptUnderItsOwner

LEMMA EventsRight ==
    ASSUME RightsInv, \/ Rights!EndSession
                      \/ \E a \in Both : Rights!SetRole(a) \/ Rights!RemoveUser(a)
                      \/ \E a \in Both \cup {NoPart} : Rights!OtherTab(a)
                      \/ Rights!RefreshLose
    PROVE  RightsInv'
<1>0. RightsType /\ CookieIsOfSomeone
  BY DEF RightsInv
<1>1. CASE Rights!EndSession
  <2>1. s3' = [s3 EXCEPT !.lives = FALSE] /\ UNCHANGED <<s1, s2, s4, s7, s8>> /\ Rights!Disturb
    BY <1>1 DEF Rights!EndSession
  <2>2. s3' \in [of : Everyone, lives : BOOLEAN] /\ ~s3'.lives
    BY <1>0, <2>1 DEF RightsType
  <2> QED BY <1>0, <2>1, <2>2, DisturbRight DEF RightsType, CookieIsOfSomeone
<1>2. ASSUME NEW a \in Both, Rights!SetRole(a) PROVE RightsInv'
  <2>1. PICK given \in {"USER", "ADMIN"} : s2' = [s2 EXCEPT ![a] = given]
    BY <1>2 DEF Rights!SetRole
  <2>2. UNCHANGED <<s1, s3, s4, s7, s8>> /\ Rights!Disturb
    BY <1>2 DEF Rights!SetRole
  <2>3. s2' \in [Both -> {"USER", "ADMIN", "gone"}] /\ \A b \in Both : s2'[b] = "gone" => s2[b] = "gone"
    BY <1>0, <2>1 DEF RightsType
  <2>4. CookieIsOfSomeone'
    BY <1>0, <2>2, <2>3 DEF CookieIsOfSomeone, RightsType, Everyone
  <2> QED BY <1>0, <2>2, <2>3, <2>4, DisturbRight DEF RightsType
<1>3. ASSUME NEW a \in Both, Rights!RemoveUser(a) PROVE RightsInv'
  <2>1. /\ s2' = [s2 EXCEPT ![a] = "gone"] /\ UNCHANGED <<s1, s4, s7, s8>> /\ Rights!Disturb
        /\ s3' = IF s3.of = a THEN [s3 EXCEPT !.lives = FALSE] ELSE s3
    BY <1>3 DEF Rights!RemoveUser
  <2>2. s2' \in [Both -> {"USER", "ADMIN", "gone"}] /\ \A b \in Both : b # a => s2'[b] = s2[b]
    BY <1>0, <2>1 DEF RightsType
  <2>3. s3' \in [of : Everyone, lives : BOOLEAN] /\ s3'.of = s3.of
        /\ (s3'.lives => s3.lives /\ s3.of # a)
    BY <1>0, <2>1 DEF RightsType
  <2>4. CookieIsOfSomeone'
    BY <1>0, <2>2, <2>3 DEF CookieIsOfSomeone, RightsType, Everyone
  <2> QED BY <2>1, <2>2, <2>3, <2>4, DisturbRight
<1>4. ASSUME NEW a \in Both \cup {NoPart}, Rights!OtherTab(a) PROVE RightsInv'
  <2>1. /\ s3' = [of |-> a, lives |-> TRUE] /\ UNCHANGED <<s1, s2, s4, s7, s8>> /\ Rights!Disturb
        /\ a # NoPart => s2[a] # "gone"
    BY <1>4 DEF Rights!OtherTab
  <2>2. s3' \in [of : Everyone, lives : BOOLEAN] /\ s3'.of = a
    BY <2>1 DEF Everyone
  <2> QED BY <1>0, <2>1, <2>2, DisturbRight DEF RightsType, CookieIsOfSomeone
<1>5. CASE Rights!RefreshLose
  <2>1. UNCHANGED <<s1, s2, s3, s4, s7, s8>> /\ Rights!Disturb
    BY <1>5 DEF Rights!RefreshLose, Rights!Disturb
  <2> QED BY <1>0, <2>1, DisturbRight DEF RightsType, CookieIsOfSomeone
<1> QED BY <1>1, <1>2, <1>3, <1>4, <1>5

LEMMA EmptyIs ==
    /\ Rights!Empty \in [Everyone -> [owner : Everyone \cup {"nothing"}, sure : BOOLEAN]]
    /\ \A a \in Everyone : Rights!Empty[a].owner = "nothing"
BY DEF Rights!Empty, Everyone

\* Signed out, here or everywhere.
LEMMA SignOutRight ==
    ASSUME RightsInv, NEW reached \in BOOLEAN,
           Rights!SignOut(reached) \/ Rights!SignOutEverywhere(reached)
    PROVE  RightsInv'
<1>0. RightsType /\ CookieIsOfSomeone /\ Rights!KeptUnderItsOwner
  BY DEF RightsInv
<1>1. /\ s3' = IF reached THEN [of |-> NoPart, lives |-> TRUE] ELSE s3
      /\ s4' = [Rights!Blank EXCEPT !.booted = TRUE] /\ s7' = Rights!Moved(s7)
      /\ Rights!Disturb /\ UNCHANGED <<s1, s2>> /\ (s8' = s8 \/ s8' = Rights!Empty)
  BY DEF Rights!SignOut, Rights!SignOutEverywhere
<1>2. s9' \in [disturbed : BOOLEAN, crossed : BOOLEAN] /\ s9'.disturbed
  BY <1>0, <1>1 DEF RightsType, Rights!Disturb
<1>3. s7' \in [Calls -> Request] /\ RequestsAreRight'
  BY <1>1, <1>2, MovedRight
<1>4. s4' \in Store /\ s4'.user = NoPart /\ s4'.token = Rights!NoToken
  BY <1>1, BlankIs
<1>5. s3' \in [of : Everyone, lives : BOOLEAN] /\ (s3' = s3 \/ s3'.of = NoPart)
  BY <1>0, <1>1 DEF RightsType, Everyone
<1>6. CookieIsOfSomeone'
  BY <1>0, <1>1, <1>5 DEF CookieIsOfSomeone
<1>7. Rights!KeptUnderItsOwner'
  BY <1>0, <1>1, EmptyIs DEF Rights!KeptUnderItsOwner
<1>8. TokenIsTheirs' /\ TabIsOfCookie'
  BY <1>2, <1>4, NoTokenIs DEF TokenIsTheirs, TabIsOfCookie
<1>9. RightsType'
  BY <1>0, <1>1, <1>2, <1>3, <1>4, <1>5, EmptyIs DEF RightsType
<1> QED BY <1>3, <1>6, <1>7, <1>8, <1>9 DEF RightsInv

LEMMA AllIdle ==
    ASSUME s7' = [r \in Calls |-> Rights!Idle]
    PROVE  s7' \in [Calls -> Request] /\ RequestsAreRight'
<1>1. \A r \in Calls : s7'[r] = Rights!Idle
  OBVIOUS
<1>2. \A r \in Calls : IsRight(s7'[r], s4'.user, s4'.admin, s1'.guard, s9')
  BY <1>1, IdleIsRight
<1>3. Rights!Idle \in Request
  BY NoTokenIs DEF Rights!Idle, Request, Everyone
<1> QED BY <1>2, <1>3 DEF RequestsAreRight

LEMMA ReloadRight ==
    ASSUME RightsInv, Rights!Reload
    PROVE  RightsInv'
<1>0. RightsType /\ CookieIsOfSomeone
  BY DEF RightsInv
<1>1. /\ s4' = Rights!Blank /\ s5' = "none" /\ s6' = "sent" /\ s8' = Rights!Empty
      /\ s9' = [disturbed |-> FALSE, crossed |-> FALSE] /\ UNCHANGED <<s1, s2, s3>>
      /\ s7' = [r \in Calls |-> Rights!Idle]
  BY DEF Rights!Reload, Rights!Calm
<1>2. s7' \in [Calls -> Request] /\ RequestsAreRight'
  BY <1>1, AllIdle
<1>3. s9' \in [disturbed : BOOLEAN, crossed : BOOLEAN]
  BY <1>1
<1>4. s4' \in Store /\ s4'.user = NoPart /\ s4'.token = Rights!NoToken /\ ~s4'.admin
  BY <1>1, BlankIs
<1>5. TokenIsTheirs' /\ TabIsOfCookie'
  BY <1>1, <1>4, NoTokenIs, MarksAreNoOne DEF TokenIsTheirs, TabIsOfCookie
<1>6. Rights!KeptUnderItsOwner'
  BY <1>1, EmptyIs DEF Rights!KeptUnderItsOwner
<1>7. RightsType' /\ CookieIsOfSomeone'
  BY <1>0, <1>1, <1>2, <1>3, <1>4, EmptyIs DEF RightsType, CookieIsOfSomeone
<1> QED BY <1>2, <1>5, <1>6, <1>7 DEF RightsInv

\* A token expires, a token is fetched.
LEMMA TokensRight ==
    ASSUME RightsInv, Rights!Expire \/ Rights!RefreshServe \/ Rights!BootServe
    PROVE  RightsInv'
<1>0. RightsType /\ TabIsOfCookie /\ CookieIsOfSomeone /\ RequestsAreRight /\ TokenIsTheirs
  BY DEF RightsInv
<1>1. CASE Rights!Expire
  <2>1. /\ s4.token.fresh /\ s4' = [s4 EXCEPT !.token.fresh = FALSE]
        /\ UNCHANGED <<s1, s2, s3, s5, s6, s7, s8, s9>>
    BY <1>1 DEF Rights!Expire
  <2>2. PICK t \in Token : t = s4.token
    BY <1>0 DEF RightsType, Store
  <2>3. PICK token : token = [t EXCEPT !.fresh = FALSE]
    OBVIOUS
  <2>4. token \in Token /\ token.of = t.of
    BY <2>3 DEF Token
  <2>5. s4' = [s4 EXCEPT !.token = token]
    BY <1>0, <2>1, <2>2, <2>3, Zenon DEF RightsType, Store
  <2>6. s4' \in Store /\ s4'.user = s4.user /\ s4'.token = token /\ s4'.admin = s4.admin
    BY <1>0, <2>4, <2>5 DEF RightsType, Store
  <2>7. RequestsAreRight'
    BY <1>0, <2>1, <2>6 DEF RequestsAreRight
  <2>8. TokenIsTheirs'
    BY <1>0, <2>1, <2>2, <2>4, <2>6 DEF TokenIsTheirs
  <2>9. ~s9.disturbed => s4.user # NoPart
    BY <1>0, <2>1, NoTokenIs DEF TabIsOfCookie
  <2>10. TabIsOfCookie'
    BY <1>0, <2>1, <2>2, <2>4, <2>6, <2>9 DEF TabIsOfCookie
  <2> QED BY <1>0, <2>1, <2>6, <2>7, <2>8, <2>10 DEF RightsInv, RightsType, CookieIsOfSomeone,
         Rights!KeptUnderItsOwner
<1>2. CASE Rights!RefreshServe
  <2>1. s5 = "sent" /\ s5' = Rights!Minted /\ UNCHANGED <<s1, s2, s3, s4, s6, s7, s8, s9>>
    BY <1>2 DEF Rights!RefreshServe
  <2>2. ~s9.disturbed => s5' = s4.user
    BY <1>0, <2>1, MarksAreNoOne DEF TabIsOfCookie, Rights!Minted
  <2>3. TabIsOfCookie'
    BY <1>0, <2>1, <2>2, MarksAreNoOne DEF TabIsOfCookie
  <2> QED BY <1>0, <2>1, <2>3 DEF RightsInv, RightsType, CookieIsOfSomeone, RequestsAreRight,
         TokenIsTheirs, Rights!KeptUnderItsOwner
<1>3. CASE Rights!BootServe
  <2>1. s6 = "sent" /\ s6' = Rights!Minted /\ UNCHANGED <<s1, s2, s3, s4, s5, s7, s8, s9>>
    BY <1>3 DEF Rights!BootServe
  <2>2. s6' \in Both => s3.of = s6' /\ s3.lives
    BY <2>1, MarksAreNoOne DEF Rights!Minted
  <2>3. TabIsOfCookie'
    BY <1>0, <2>1, <2>2 DEF TabIsOfCookie
  <2> QED BY <1>0, <2>1, <2>3 DEF RightsInv, RightsType, CookieIsOfSomeone, RequestsAreRight,
         TokenIsTheirs, Rights!KeptUnderItsOwner
<1> QED BY <1>1, <1>2, <1>3

LEMMA RightsStepKeeps == RightsInv /\ [Rights!Next]_rights => RightsInv'
<1> SUFFICES ASSUME RightsInv, [Rights!Next]_rights PROVE RightsInv'
  OBVIOUS
<1>1. CASE Rights!Step
  BY <1>1, BeginRight, ServeRight, DeliverRight, RenewRight, RefuseRight, AskAgainRight,
     GiveUpRight, TokensRight, RefreshSucceedsRight, RefreshFailsRight, BootArriveRight
     DEF Rights!Step
<1>2. CASE Rights!Event
  BY <1>2, LoseRight, TokensRight, EventsRight, ReloadRight, SignInRight, SignOutRight
     DEF Rights!Event
<1>3. CASE UNCHANGED rights
  BY <1>3 DEF rights, RightsInv, RightsType, RequestsAreRight, CookieIsOfSomeone, TokenIsTheirs,
     TabIsOfCookie, Rights!KeptUnderItsOwner
<1> QED BY <1>1, <1>2, <1>3 DEF Rights!Next

LEMMA RightsBegin == Rights!Init => RightsInv
<1> SUFFICES ASSUME Rights!Init PROVE RightsInv
  OBVIOUS
<1>1. /\ s1 \in Rights!Visits /\ s2 \in [Both -> {"USER", "ADMIN"}]
      /\ s3 \in [of : Both \cup {NoPart}, lives : {TRUE}] /\ s4 = Rights!Blank /\ s5 = "none"
      /\ s6 = "sent" /\ s7 = [r \in Calls |-> Rights!Idle]
      /\ s8 = [a \in Both \cup {NoPart} |-> [owner |-> "nothing", sure |-> TRUE]]
      /\ s9 = [disturbed |-> FALSE, crossed |-> FALSE]
  BY DEF Rights!Init, Rights!Calm
<1>2. \A r \in Calls : IsRight(s7[r], s4.user, s4.admin, s1.guard, s9)
  BY <1>1, IdleIsRight
<1>3. Rights!Idle \in Request
  BY NoTokenIs DEF Rights!Idle, Request, Everyone
<1>4. Rights!Guarded(s1)
  BY <1>1, VisitsAreGuarded
<1>5. s4 \in Store /\ s4.user = NoPart /\ s4.token = Rights!NoToken /\ ~s4.admin
  BY <1>1, BlankIs
<1>6. RightsType
  BY <1>1, <1>3, <1>4, <1>5 DEF RightsType, Everyone
<1>7. CookieIsOfSomeone
  BY <1>1 DEF CookieIsOfSomeone
<1>8. TokenIsTheirs /\ TabIsOfCookie
  BY <1>1, <1>5, NoTokenIs, MarksAreNoOne DEF TokenIsTheirs, TabIsOfCookie
<1>9. Rights!KeptUnderItsOwner
  BY <1>1 DEF Rights!KeptUnderItsOwner
<1> QED BY <1>2, <1>6, <1>7, <1>8, <1>9 DEF RightsInv, RequestsAreRight

\* The inductive invariant: the token, the requests and the cookie are of one
\* visitor, until something from outside comes between.  (client.ts, authSlice.ts.)
LEMMA RightsInvariant == MCSpec => [](part = "rights" => RightsInv)
<1> DEFINE Inv == part = "rights" => RightsInv
<1>1. MCInit => Inv
  BY RightsBegin DEF MCInit, RightsInit
<1>2. Inv /\ [MCNext]_all => Inv'
  <2> SUFFICES ASSUME Inv, [MCNext]_all PROVE Inv'
    OBVIOUS
  <2>1. part' = part /\ (part = "rights" => [Rights!Next]_rights)
    BY DEF MCNext, all, rights
  <2> QED BY <2>1, RightsStepKeeps
<1> HIDE DEF Inv
<1>3. MCSpec => []Inv
  BY <1>1, <1>2, PTL DEF MCSpec
<1> QED BY <1>3 DEF Inv

\* Of any accounts, with any number of requests under way and whatever befalls the
\* session: no visitor finds another's answer under his key.  (client.ts,
\* useCartIdentity, useOrdersIdentity.)
THEOREM AlwaysKeptUnderItsOwner == MCSpec => []KeptUnderItsOwner
<1>1. (part = "rights" => RightsInv) => KeptUnderItsOwner
  BY DEF RightsInv, KeptUnderItsOwner
<1> QED BY <1>1, RightsInvariant, PTL

\* A page that is guarded as the table says sees nothing refused but for a cause
\* outside it.  (client.ts, ProtectedRoute, @UseGuards.)
THEOREM RefusalsHaveCauses == MCSpec => []RefusedForACause
<1>1. (part = "rights" => RightsInv) => RefusedForACause
  <2> SUFFICES ASSUME part = "rights", RightsInv, NEW r \in Calls,
                      s7[r].stage = "refused", s7[r].answer # "lost"
               PROVE  s9.disturbed
    BY DEF RefusedForACause, Rights!RefusedForACause
  <2>1. ~s9.disturbed => IsFair(s7[r], s4.user, s4.admin, s1.guard)
    BY ItIsRight
  <2>2. s9.disturbed \in BOOLEAN
    BY DEF RightsInv, RightsType
  <2> QED BY <2>1, <2>2 DEF IsFair
<1> QED BY <1>1, RightsInvariant, PTL

-----------------------------------------------------------------------------
(* The forms with photographs. *)

formVars == <<s1, s2, s3, s4, s5>>

\* Pictures picked, and those that were stored at first.
Ids == [section : Form!Sections, number : Nat]
Picture == Calls \cup Ids
Photo == [pick : Picture, url : BOOLEAN]
Shown == [Form!Sections -> Seq(Photo)]

\* No two photographs are of one picture.
Apart(q) == \A i, j \in DOMAIN q : q[i].pick = q[j].pick => i = j
Chosen(q) == {x.pick : x \in Range(q)}

LEMMA ChosenIs == \A q, p : p \in Chosen(q) <=> \E x \in Range(q) : x.pick = p
BY DEF Chosen

LEMMA UrlIs ==
    \A p \in Picture : Form!Url(p) \in Photo /\ Form!Url(p).pick = p /\ Form!Url(p).url
BY DEF Photo, Form!Url

LEMMA FileIs ==
    \A p \in Picture : Form!File(p) \in Photo /\ Form!File(p).pick = p /\ ~Form!File(p).url
BY DEF Photo, Form!File

LEMMA PhotosAre ==
    ASSUME NEW q \in Seq(Photo)
    PROVE  /\ Len(q) \in Nat /\ DOMAIN q = 1 .. Len(q)
           /\ \A i \in DOMAIN q : q[i] \in Photo /\ q[i] \in Range(q)
           /\ \A x \in Range(q) : x \in Photo /\ \E i \in DOMAIN q : q[i] = x
           /\ Form!PicksOf(q) = Chosen(q)
           /\ Form!Of(q) \in Seq(Picture) /\ Range(Form!Of(q)) = Chosen(q)
           /\ Len(Form!Of(q)) = Len(q)
<1>1. Len(q) \in Nat /\ DOMAIN q = 1 .. Len(q) /\ \A i \in DOMAIN q : q[i] \in Photo
  OBVIOUS
<1>2. \A x : x \in Range(q) <=> \E i \in DOMAIN q : q[i] = x
  BY DEF Range
<1>3. PICK o : o = [i \in 1 .. Len(q) |-> q[i].pick]
  OBVIOUS
<1>4. Form!Of(q) = o
  BY <1>1, <1>3 DEF Form!Of
<1>5. \A i \in 1 .. Len(q) : q[i].pick \in Picture
  BY <1>1 DEF Photo
<1>6. o \in Seq(Picture) /\ Len(o) = Len(q) /\ DOMAIN o = 1 .. Len(q)
  BY <1>1, <1>3, <1>5
<1>7. \A p : p \in Range(o) <=> p \in Chosen(q)
  BY <1>1, <1>2, <1>3, <1>6 DEF Range, Chosen
<1>8. Form!Range(o) = Range(o)
  BY DEF Form!Range, Range
<1> QED BY <1>1, <1>2, <1>4, <1>6, <1>7, <1>8 DEF Form!PicksOf

LEMMA ApartIs ==
    ASSUME NEW q \in Seq(Photo)
    PROVE  Apart(q) <=> Once(q) /\ \A a, b \in Range(q) : a.pick = b.pick => a = b
<1>1. \A i \in DOMAIN q : q[i] \in Range(q)
  BY PhotosAre
<1>2. \A x \in Range(q) : \E i \in DOMAIN q : q[i] = x
  BY PhotosAre
<1>3. ASSUME Apart(q) PROVE Once(q) /\ \A a, b \in Range(q) : a.pick = b.pick => a = b
  <2>1. Once(q)
    BY <1>3 DEF Apart, Once
  <2>2. ASSUME NEW a \in Range(q), NEW b \in Range(q), a.pick = b.pick PROVE a = b
    <3>1. PICK i \in DOMAIN q : q[i] = a
      BY <1>2
    <3>2. PICK j \in DOMAIN q : q[j] = b
      BY <1>2
    <3> QED BY <1>3, <2>2, <3>1, <3>2 DEF Apart
  <2> QED BY <2>1, <2>2
<1>4. ASSUME Once(q), \A a, b \in Range(q) : a.pick = b.pick => a = b PROVE Apart(q)
  BY <1>1, <1>4 DEF Apart, Once
<1> QED BY <1>3, <1>4

LEMMA OnlyIsKept == \A q, set : Form!Only(q, set) = TheKept(q, set, Len(q))[Len(q)]
BY Zenon DEF Form!Only, TheKept, AllKept, KeptStep

LEMMA OnlyKeeps ==
    ASSUME NEW q \in Seq(Photo), NEW set, NEW r, r = Form!Only(q, set)
    PROVE  r \in Seq(Photo) /\ Range(r) = Range(q) \cap set /\ (Apart(q) => Apart(r))
<1>1. r = TheKept(q, set, Len(q))[Len(q)]
  BY OnlyIsKept
<1>2. r \in Seq(Photo) /\ Range(r) = Range(q) \cap set /\ (Once(q) => Once(r))
  BY <1>1, KeptFacts
<1>3. Apart(q) => Once(q) /\ \A a, b \in Range(q) : a.pick = b.pick => a = b
  BY ApartIs
<1> QED BY <1>2, <1>3, ApartIs

LEMMA JoinedKeeps ==
    ASSUME NEW q \in Seq(Photo), NEW r \in Seq(Photo), Apart(q), Apart(r),
           \A a \in Range(q), b \in Range(r) : a.pick # b.pick
    PROVE  q \o r \in Seq(Photo) /\ Apart(q \o r) /\ Range(q \o r) = Range(q) \cup Range(r)
<1>1. Once(q) /\ \A a, b \in Range(q) : a.pick = b.pick => a = b
  BY ApartIs
<1>2. Once(r) /\ \A a, b \in Range(r) : a.pick = b.pick => a = b
  BY ApartIs
<1>3. Range(q) \cap Range(r) = {}
  OBVIOUS
<1>4. PICK t : t = q \o r
  OBVIOUS
<1>5. t \in Seq(Photo) /\ Once(t) /\ Range(t) = Range(q) \cup Range(r)
  BY <1>1, <1>2, <1>3, <1>4, JoinFacts
<1>6. \A a, b \in Range(t) : a.pick = b.pick => a = b
  BY <1>1, <1>2, <1>5
<1>7. Apart(t)
  BY <1>5, <1>6, ApartIs
<1> QED BY <1>4, <1>5, <1>7

LEMMA UrlsKeep ==
    ASSUME NEW q \in Seq(Photo), NEW u, u = [i \in DOMAIN q |-> Form!Url(q[i].pick)]
    PROVE  /\ u \in Seq(Photo) /\ (Apart(q) => Apart(u))
           /\ Range(u) = {[pick |-> x.pick, url |-> TRUE] : x \in Range(q)}
<1>1. /\ Len(q) \in Nat /\ DOMAIN q = 1 .. Len(q) /\ DOMAIN u = DOMAIN q
      /\ \A i \in DOMAIN q : q[i] \in Photo /\ u[i] = [pick |-> q[i].pick, url |-> TRUE]
  BY PhotosAre DEF Form!Url
<1>2. \A i \in DOMAIN q : u[i] \in Photo /\ u[i].pick = q[i].pick
  <2> SUFFICES ASSUME NEW i \in DOMAIN q PROVE u[i] \in Photo /\ u[i].pick = q[i].pick
    OBVIOUS
  <2>1. PICK p : p = q[i].pick
    OBVIOUS
  <2>2. p \in Picture
    BY <1>1, <2>1 DEF Photo
  <2>3. u[i] = [pick |-> p, url |-> TRUE]
    BY <1>1, <2>1
  <2>4. PICK v : v = [pick |-> p, url |-> TRUE]
    OBVIOUS
  <2>5. v \in Photo /\ v.pick = p
    BY <2>2, <2>4 DEF Photo
  <2>6. u[i] = v
    BY <2>3, <2>4
  <2> QED BY <2>1, <2>5, <2>6
<1>3. u \in Seq(Photo)
  <2>1. PICK n \in Nat : n = Len(q)
    BY <1>1, Zenon
  <2>2. u = [i \in 1 .. n |-> u[i]] /\ \A i \in 1 .. n : u[i] \in Photo
    BY <1>1, <1>2, <2>1
  <2> QED BY <2>2
<1>4. Apart(q) => Apart(u)
  BY <1>1, <1>2 DEF Apart
<1>5. \A x : x \in Range(u) <=> \E y \in Range(q) : x = [pick |-> y.pick, url |-> TRUE]
  BY <1>1 DEF Range
<1> QED BY <1>3, <1>4, <1>5

\* Every file went up or did not.
Went(q, done, failed) == \A x \in Range(q) : ~x.url => x.pick \in done \cup failed

\* What the section shows of a save that is sorted out.
SortedFrom(q, saved, done, failed) ==
    LET up == Form!Among(saved, done)
    IN Form!Stored(q) \o [i \in DOMAIN up |-> Form!Url(up[i].pick)] \o Form!Among(saved, failed)

\* What did not go up and what did: the same pictures, once each.
LEMMA SortedKeeps ==
    ASSUME NEW q \in Seq(Photo), Apart(q), NEW done, NEW failed, done \cap failed = {},
           Went(q, done, failed), NEW r, r = SortedFrom(q, q, done, failed)
    PROVE  /\ r \in Seq(Photo) /\ Apart(r) /\ Chosen(r) = Chosen(q)
           /\ \A x \in Range(r) : ~x.url => x \in Range(q)
<1>1. PICK stored : stored = Form!Stored(q)
  OBVIOUS
<1>2. PICK rest : rest = Form!Among(q, failed)
  OBVIOUS
<1>20. PICK up : up = Form!Among(q, done)
  OBVIOUS
<1>3. PICK u : u = [i \in DOMAIN up |-> Form!Url(up[i].pick)]
  OBVIOUS
<1>4. \A x \in Range(q) : x \in Photo /\ x = [pick |-> x.pick, url |-> x.url] /\ x.url \in BOOLEAN
  <2> SUFFICES ASSUME NEW x \in Range(q)
               PROVE  x \in Photo /\ x = [pick |-> x.pick, url |-> x.url] /\ x.url \in BOOLEAN
    OBVIOUS
  <2>1. x \in Photo
    BY PhotosAre
  <2> QED BY <2>1 DEF Photo
<1>5. \A a, b \in Range(q) : a.pick = b.pick => a = b
  BY ApartIs
<1>6. stored \in Seq(Photo) /\ Apart(stored) /\ Range(stored) = {x \in Range(q) : x.url}
  <2>1. PICK set : set = {x \in Range(q) : x.url}
    OBVIOUS
  <2>2. stored = Form!Only(q, set)
    BY <1>1, <2>1 DEF Form!Stored, Form!Range, Range
  <2>3. stored \in Seq(Photo) /\ Apart(stored) /\ Range(stored) = Range(q) \cap set
    BY <2>2, OnlyKeeps
  <2> QED BY <2>1, <2>3
<1>7. ASSUME NEW picks, NEW t, t = Form!Among(q, picks)
      PROVE  /\ t \in Seq(Photo) /\ Apart(t)
             /\ Range(t) = {x \in Range(q) : ~x.url /\ x.pick \in picks}
  <2>1. PICK set : set = {[pick |-> p, url |-> FALSE] : p \in picks}
    OBVIOUS
  <2>2. t = Form!Only(q, set)
    BY <1>7, <2>1 DEF Form!Among, Form!File
  <2>3. t \in Seq(Photo) /\ Apart(t) /\ Range(t) = Range(q) \cap set
    BY <2>2, OnlyKeeps
  <2>4. \A x \in Range(q) : x \in set <=> ~x.url /\ x.pick \in picks
    BY <1>4, <2>1
  <2> QED BY <2>3, <2>4
<1>8. /\ up \in Seq(Photo) /\ Apart(up)
      /\ Range(up) = {x \in Range(q) : ~x.url /\ x.pick \in done}
  BY <1>7, <1>20
<1>9. /\ rest \in Seq(Photo) /\ Apart(rest)
      /\ Range(rest) = {x \in Range(q) : ~x.url /\ x.pick \in failed}
  BY <1>2, <1>7
<1>10. /\ u \in Seq(Photo) /\ Apart(u)
       /\ Range(u) = {[pick |-> x.pick, url |-> TRUE] : x \in Range(up)}
  BY <1>3, <1>8, UrlsKeep
<1>11. \A a \in Range(u) : a.url /\ \E x \in Range(q) : x.pick = a.pick /\ ~x.url /\ x.pick \in done
  BY <1>8, <1>10
<1>12. PICK first : first = stored \o u
  OBVIOUS
<1>13. first \in Seq(Photo) /\ Apart(first) /\ Range(first) = Range(stored) \cup Range(u)
  <2>1. \A a \in Range(stored), b \in Range(u) : a.pick # b.pick
    BY <1>5, <1>6, <1>11
  <2> QED BY <1>6, <1>10, <1>12, <2>1, JoinedKeeps
<1>14. PICK whole : whole = first \o rest
  OBVIOUS
<1>19. r = whole
  BY <1>1, <1>2, <1>3, <1>12, <1>14, <1>20, Zenon DEF SortedFrom
<1>15. whole \in Seq(Photo) /\ Apart(whole) /\ Range(whole) = Range(first) \cup Range(rest)
  <2>1. \A a \in Range(first), b \in Range(rest) : a.pick # b.pick
    <3>1. \A a \in Range(stored), b \in Range(rest) : a.pick # b.pick
      BY <1>5, <1>6, <1>9
    <3>2. \A a \in Range(u), b \in Range(rest) : a.pick # b.pick
      BY <1>5, <1>9, <1>11
    <3> QED BY <1>13, <3>1, <3>2
  <2> QED BY <1>9, <1>13, <1>14, <2>1, JoinedKeeps
<1>16. \A x \in Range(r) : ~x.url => x \in Range(q)
  BY <1>6, <1>9, <1>11, <1>13, <1>15, <1>19
<1>17. \A p : (\E x \in Range(r) : x.pick = p) <=> \E x \in Range(q) : x.pick = p
  <2>1. ASSUME NEW x \in Range(r) PROVE \E y \in Range(q) : y.pick = x.pick
    BY <1>6, <1>9, <1>11, <1>13, <1>15, <1>19
  <2>2. ASSUME NEW x \in Range(q) PROVE \E y \in Range(r) : y.pick = x.pick
    <3>1. CASE x.url
      BY <1>6, <1>13, <1>15, <1>19, <3>1
    <3>2. CASE ~x.url /\ x.pick \in failed
      BY <1>9, <1>15, <1>19, <3>2
    <3>3. CASE ~x.url /\ x.pick \in done
      <4>1. x \in Range(up)
        BY <1>8, <3>3
      <4>2. PICK y : y = [pick |-> x.pick, url |-> TRUE]
        OBVIOUS
      <4>3. y \in Range(u) /\ y.pick = x.pick
        BY <1>10, <4>1, <4>2
      <4>4. y \in Range(r)
        BY <1>13, <1>15, <1>19, <4>3
      <4> QED BY <4>3, <4>4
    <3> QED BY <1>4, <3>1, <3>2, <3>3 DEF Went
  <2> QED BY <2>1, <2>2
<1>18. Chosen(r) = Chosen(q)
  <2>1. \A p : p \in Chosen(r) <=> p \in Chosen(q)
    BY <1>17, ChosenIs
  <2> QED BY <2>1
<1> QED BY <1>15, <1>16, <1>18, <1>19

\* Photographs that were picked, each once, and no picture twice among those
\* that are to go up.
Sound(photos, picked, taken) ==
    /\ \A s \in Form!Sections :
          Apart(photos[s]) /\ Chosen(photos[s]) = picked[s] /\ picked[s] \subseteq taken \cup Ids
    /\ \A s, t \in Form!Sections : s # t =>
          \A a \in Range(photos[s]), b \in Range(photos[t]) : ~a.url /\ ~b.url => a.pick # b.pick

\* Of the photographs being saved those that are no more to go up went up or
\* did not.
Progress(q) ==
    /\ q.todo \subseteq [section : Form!Sections, place : Nat]
    /\ \A f \in q.todo :
          /\ f.place \in DOMAIN q.photos[f.section]
          /\ ~q.photos[f.section][f.place].url
          /\ q.photos[f.section][f.place].pick \notin q.done \cup q.failed
    /\ q.done \cap q.failed = {}
    /\ \A s \in Form!Sections : \A i \in DOMAIN q.photos[s] :
          \/ q.photos[s][i].url \/ q.photos[s][i].pick \in q.done \cup q.failed
          \/ [section |-> s, place |-> i] \in q.todo

Selections == [Form!Sections -> SUBSET Picture]

IsForm(f) ==
    /\ f = [open |-> f.open, kind |-> f.kind, saving |-> f.saving, photos |-> f.photos]
    /\ f.open \in BOOLEAN /\ f.saving \in BOOLEAN /\ f.photos \in Shown

IsSave(q) ==
    /\ q = [at |-> q.at, photos |-> q.photos, todo |-> q.todo, done |-> q.done,
            failed |-> q.failed, mine |-> q.mine, picked |-> q.picked, sure |-> q.sure]
    /\ q.photos \in Shown /\ q.mine \in BOOLEAN /\ q.sure \in BOOLEAN

IsHistory(g) ==
    /\ g = [picked |-> g.picked, touched |-> g.touched, used |-> g.used, failures |-> g.failures]
    /\ g.picked \in Selections /\ g.touched \in BOOLEAN

FormType ==
    /\ IsForm(s1) /\ IsSave(s3) /\ IsHistory(s5)
    /\ s4 \in [Form!Sections -> Seq(Picture)]

\* What is stored was picked, each once.
RowIsSound(r, taken) ==
    \A s \in Form!Sections : Once(r[s]) /\ Range(r[s]) \subseteq taken \cup Ids

\* What is being saved is what was picked when it began.
SaveIsSound ==
    s3.at # "none" /\ s3.sure =>
        Sound(s3.photos, s3.picked, s5.used) /\ (s3.at = "uploading" => Progress(s3))

\* The form that began it waits for it.
Waits == s3.mine => s3.at # "none" /\ s1.open /\ s1.saving

FormInv ==
    /\ FormType
    /\ SaveIsSound
    /\ Waits
    /\ ~s5.touched =>
          /\ s3.at # "none" => s3.sure
          /\ s3.mine => s1.photos = s3.photos
          /\ RowIsSound(s4, s5.used)
          /\ s1.open => Sound(s1.photos, s5.picked, s5.used)

LEMMA SectionsAre == Form!Sections = {"cover", "gallery", "interior", "animation"}
BY DEF Form!Sections

LEMMA PickedAreNew == Calls \cap Ids = {}
BY BrowserAssumption DEF BrowserAssumption, Form!PhotoAssumption, Ids, Form!Sections

LEMMA SoundGrows ==
    ASSUME NEW photos, NEW picked, NEW taken, NEW more, taken \subseteq more, Sound(photos, picked, taken)
    PROVE  Sound(photos, picked, more)
BY DEF Sound

\* Other photographs in one section: some of those that were there, perhaps
\* stored by now, or one that was never picked.
WereThere(q, old, taken) == \A x \in Range(q) : ~x.url => x \in Range(old) \/ x.pick \notin taken \cup Ids
IsChange(kept, picked, s, q) ==
    \A t \in Form!Sections : kept[t] = IF t = s THEN Chosen(q) ELSE picked[t]

LEMMA ChangeIsSound ==
    ASSUME NEW photos \in Shown, NEW picked, NEW taken, NEW more, taken \subseteq more,
           Sound(photos, picked, taken), NEW s \in Form!Sections,
           NEW q \in Seq(Photo), Apart(q), Chosen(q) \subseteq more \cup Ids,
           WereThere(q, photos[s], taken),
           NEW after, after = [photos EXCEPT ![s] = q], NEW kept, IsChange(kept, picked, s, q)
    PROVE  after \in Shown /\ Sound(after, kept, more)
<1>1. /\ after \in Shown /\ after[s] = q
      /\ \A t \in Form!Sections : t # s => after[t] = photos[t] /\ kept[t] = picked[t]
  BY DEF Shown, IsChange
<1>2. kept[s] = Chosen(q)
  BY DEF IsChange
<1>3. \A t \in Form!Sections :
        Apart(after[t]) /\ Chosen(after[t]) = kept[t] /\ kept[t] \subseteq more \cup Ids
  <2> SUFFICES ASSUME NEW t \in Form!Sections
      PROVE  Apart(after[t]) /\ Chosen(after[t]) = kept[t] /\ kept[t] \subseteq more \cup Ids
    OBVIOUS
  <2>1. CASE t = s
    BY <1>1, <1>2, <2>1
  <2>2. CASE t # s
    <3>1. Apart(photos[t]) /\ Chosen(photos[t]) = picked[t] /\ picked[t] \subseteq taken \cup Ids
      BY DEF Sound
    <3> QED BY <1>1, <2>2, <3>1
  <2> QED BY <2>1, <2>2
<1>4. \A t \in Form!Sections : \A x \in Range(photos[t]) : x.pick \in taken \cup Ids
  <2> SUFFICES ASSUME NEW t \in Form!Sections, NEW x \in Range(photos[t])
               PROVE  x.pick \in taken \cup Ids
    OBVIOUS
  <2>1. x.pick \in Chosen(photos[t])
    BY ChosenIs
  <2> QED BY <2>1 DEF Sound
<1>5. \A t \in Form!Sections : t # s =>
        \A a \in Range(q), b \in Range(photos[t]) : ~a.url /\ ~b.url => a.pick # b.pick
  <2> SUFFICES ASSUME NEW t \in Form!Sections, t # s, NEW a \in Range(q),
                      NEW b \in Range(photos[t]), ~a.url, ~b.url
               PROVE  a.pick # b.pick
    OBVIOUS
  <2>1. CASE a \in Range(photos[s])
    BY <2>1 DEF Sound
  <2>2. CASE a.pick \notin taken \cup Ids
    BY <1>4, <2>2
  <2> QED BY <2>1, <2>2 DEF WereThere
<1>6. ASSUME NEW t \in Form!Sections, NEW u \in Form!Sections, t # u,
             NEW a \in Range(after[t]), NEW b \in Range(after[u]), ~a.url, ~b.url
      PROVE  a.pick # b.pick
  <2>1. CASE t = s
    BY <1>1, <1>5, <1>6, <2>1
  <2>2. CASE u = s
    BY <1>1, <1>5, <1>6, <2>2
  <2>3. CASE t # s /\ u # s
    BY <1>1, <1>6, <2>3 DEF Sound
  <2> QED BY <2>1, <2>2, <2>3
<1> QED BY <1>1, <1>3, <1>6 DEF Sound

\* The form as it opens: what is stored.
FromRow(r, kind) ==
    [s \in Form!Sections |-> IF kind = "create" THEN << >>
                             ELSE [i \in DOMAIN r[s] |-> Form!Url(r[s][i])]]
AllPicks(photos) == [s \in Form!Sections |-> Form!PicksOf(photos[s])]

LEMMA OpenedIsSound ==
    ASSUME NEW r \in [Form!Sections -> Seq(Picture)], NEW taken, NEW kind,
           NEW photos, photos = FromRow(r, kind), NEW picked, picked = AllPicks(photos)
    PROVE  /\ photos \in Shown /\ picked \in Selections
           /\ RowIsSound(r, taken) => Sound(photos, picked, taken)
<1>1. ASSUME NEW s \in Form!Sections
      PROVE  /\ photos[s] \in Seq(Photo) /\ \A x \in Range(photos[s]) : x.url
             /\ RowIsSound(r, taken) =>
                   Apart(photos[s]) /\ Chosen(photos[s]) \subseteq taken \cup Ids
  <2>1. CASE kind = "create"
    <3>1. photos[s] = << >>
      BY <2>1 DEF FromRow
    <3>2. << >> \in Seq(Photo) /\ DOMAIN << >> = {}
      OBVIOUS
    <3> QED BY <3>1, <3>2 DEF Apart, Chosen, Range
  <2>2. CASE kind # "create"
    <3>1. PICK q \in Seq(Picture) : q = r[s]
      OBVIOUS
    <3>2. PICK p : p = [i \in DOMAIN q |-> Form!Url(q[i])]
      OBVIOUS
    <3>3. photos[s] = p
      BY <2>2, <3>1, <3>2 DEF FromRow
    <3>4. PICK n \in Nat : n = Len(q) /\ DOMAIN q = 1 .. n /\ \A i \in 1 .. n : q[i] \in Picture
      BY <3>1
    <3>5. p = [i \in 1 .. n |-> p[i]] /\ \A i \in 1 .. n : p[i] = Form!Url(q[i])
      BY <3>2, <3>4
    <3>6. \A i \in 1 .. n : p[i] \in Photo /\ p[i].pick = q[i] /\ p[i].url
      BY <3>4, <3>5, UrlIs
    <3>7. p \in Seq(Photo) /\ DOMAIN p = 1 .. n
      <4>1. p = [i \in 1 .. n |-> p[i]] /\ \A i \in 1 .. n : p[i] \in Photo
        BY <3>5, <3>6
      <4>2. p \in [1 .. n -> Photo]
        BY <4>1
      <4>3. p \in Seq(Photo)
        BY <4>2
      <4> QED BY <4>1, <4>3
    <3>8. RowIsSound(r, taken) => Once(q) /\ Range(q) \subseteq taken \cup Ids
      BY <3>1 DEF RowIsSound
    <3>9. RowIsSound(r, taken) => Apart(p)
      BY <3>4, <3>6, <3>7, <3>8 DEF Apart, Once
    <3>10. \A x \in Range(p) : x.url /\ x.pick \in Range(q)
      BY <3>4, <3>6, <3>7 DEF Range
    <3>11. RowIsSound(r, taken) => Chosen(p) \subseteq taken \cup Ids
      BY <3>8, <3>10, ChosenIs
    <3> QED BY <3>3, <3>7, <3>9, <3>10, <3>11
  <2> QED BY <2>1, <2>2
<1>2. photos \in Shown
  BY <1>1 DEF Shown, FromRow
<1>3. \A s \in Form!Sections : picked[s] = Chosen(photos[s]) /\ picked[s] \subseteq Picture
  <2> SUFFICES ASSUME NEW s \in Form!Sections
               PROVE  picked[s] = Chosen(photos[s]) /\ picked[s] \subseteq Picture
    OBVIOUS
  <2>1. PICK q \in Seq(Photo) : q = photos[s]
    BY <1>1
  <2>2. Form!PicksOf(q) = Chosen(q)
    BY PhotosAre
  <2>3. \A x \in Range(q) : x.pick \in Picture
    BY PhotosAre DEF Photo
  <2>4. Chosen(q) \subseteq Picture
    BY <2>3, ChosenIs
  <2> QED BY <2>1, <2>2, <2>4 DEF AllPicks
<1>4. picked \in Selections
  BY <1>3 DEF Selections, AllPicks
<1>5. RowIsSound(r, taken) => Sound(photos, picked, taken)
  BY <1>1, <1>3 DEF Sound
<1> QED BY <1>2, <1>4, <1>5

\* The administrator changes what the open form shows.
LEMMA EditKeeps ==
    ASSUME FormInv, s1.open, NEW photos \in Shown, NEW picked \in Selections, NEW taken, s5.used \subseteq taken,
           s1' = [s1 EXCEPT !.photos = photos],
           s5' = [picked |-> picked, touched |-> s5.touched \/ s1.saving, used |-> taken,
                  failures |-> s5.failures],
           s3' = s3, s4' = s4, ~s5.touched => Sound(photos, picked, taken)
    PROVE  FormInv'
<1>1. s1' = [open |-> s1.open, kind |-> s1.kind, saving |-> s1.saving, photos |-> photos]
  BY DEF FormInv, FormType, IsForm
<1>2. PICK touched \in BOOLEAN : touched = (s5.touched \/ s1.saving)
  OBVIOUS
<1>3. s5' = [picked |-> picked, touched |-> touched, used |-> taken, failures |-> s5.failures]
  BY <1>2
<1>4. PICK f, g : f = [open |-> s1.open, kind |-> s1.kind, saving |-> s1.saving, photos |-> photos]
                  /\ g = [picked |-> picked, touched |-> touched, used |-> taken,
                          failures |-> s5.failures]
  OBVIOUS
<1>5. FormType'
  <2>1. IsForm(f)
    BY <1>4 DEF FormInv, FormType, IsForm
  <2>2. IsHistory(g)
    BY <1>4 DEF IsHistory
  <2>3. s1' = f /\ s5' = g
    BY <1>1, <1>3, <1>4
  <2> QED BY <2>1, <2>2, <2>3 DEF FormInv, FormType
<1>6. SaveIsSound'
  BY <1>3, SoundGrows DEF FormInv, SaveIsSound
<1>7. Waits'
  BY <1>1 DEF FormInv, Waits
<1>8. ~touched => ~s5.touched /\ ~s3.mine
  BY <1>2 DEF FormInv, Waits
<1>9. ~touched => RowIsSound(s4', taken)
  BY <1>8 DEF FormInv, RowIsSound
<1>10. ~touched => (s3'.at # "none" => s3'.sure)
  BY <1>8 DEF FormInv
<1>11. ~touched => Sound(s1'.photos, picked, taken)
  BY <1>1, <1>8
<1> QED BY <1>3, <1>5, <1>6, <1>7, <1>8, <1>9, <1>10, <1>11 DEF FormInv

LEMMA SelectKeeps ==
    ASSUME FormInv, NEW s \in Form!Sections, NEW p \in Calls, Form!Select(s, p)
    PROVE  FormInv'
<1>0. FormType
  BY DEF FormInv
<1>1. PICK q \in Seq(Photo) : q = s1.photos[s]
  BY <1>0 DEF FormType, IsForm, Shown
<1>2. PICK x \in Photo : x = Form!File(p) /\ x.pick = p
  BY FileIs DEF Picture
<1>3. PICK r : r = Append(q, x)
  OBVIOUS
<1>4. r \in Seq(Photo) /\ Range(r) = Range(q) \cup {x} /\ (Once(q) /\ x \notin Range(q) => Once(r))
  BY <1>3, AppendFacts
<1>5. PICK photos : photos = [s1.photos EXCEPT ![s] = r]
  OBVIOUS
<1>6. s1.open /\ p \notin s5.used /\ UNCHANGED <<s3, s4>>
  BY DEF Form!Select
<1>7. s1' = [s1 EXCEPT !.photos = photos]
  BY <1>1, <1>2, <1>3, <1>5, Zenon DEF Form!Select
<1>8. PICK picked : picked = [s5.picked EXCEPT ![s] = s5.picked[s] \cup {p}]
  OBVIOUS
<1>9. PICK taken : taken = s5.used \cup {p}
  OBVIOUS
<1>10. PICK touched \in BOOLEAN : touched = (s5.touched \/ s1.saving)
  OBVIOUS
<1>11. s5' = [[[s5 EXCEPT !.picked = picked] EXCEPT !.touched = touched] EXCEPT !.used = taken]
  BY <1>8, <1>9, <1>10, Zenon DEF Form!Select
<1>12. PICK half : half = [s5 EXCEPT !.picked = picked]
  OBVIOUS
<1>13. half = [picked |-> picked, touched |-> s5.touched, used |-> s5.used, failures |-> s5.failures]
  BY <1>0, <1>12 DEF FormType, IsHistory
<1>14. s5' = [[half EXCEPT !.touched = touched] EXCEPT !.used = taken]
  BY <1>11, <1>12
<1>15. s5' = [picked |-> picked, touched |-> touched, used |-> taken, failures |-> s5.failures]
  BY <1>13, <1>14
<1>16. photos \in Shown
  BY <1>0, <1>4, <1>5 DEF FormType, IsForm, Shown
<1>17. picked \in Selections
  <2>1. s5.picked \in Selections /\ p \in Picture
    BY <1>0 DEF FormType, IsHistory, Picture
  <2> QED BY <1>8, <2>1 DEF Selections
<1>18. ~s5.touched => Sound(photos, picked, taken)
  <2> SUFFICES ASSUME ~s5.touched PROVE Sound(photos, picked, taken)
    OBVIOUS
  <2>1. Sound(s1.photos, s5.picked, s5.used)
    BY <1>6 DEF FormInv
  <2>2. Apart(q) /\ Chosen(q) = s5.picked[s] /\ s5.picked[s] \subseteq s5.used \cup Ids
    BY <1>1, <2>1 DEF Sound
  <2>3. p \notin s5.used \cup Ids
    BY <1>6, PickedAreNew
  <2>4. \A y \in Range(q) : y.pick # p
    BY <2>2, <2>3, ChosenIs
  <2>5. Once(q) /\ \A a, b \in Range(q) : a.pick = b.pick => a = b
    BY <2>2, ApartIs
  <2>6. Once(r)
    BY <1>2, <1>4, <2>4, <2>5
  <2>7. \A a, b \in Range(r) : a.pick = b.pick => a = b
    BY <1>2, <1>4, <2>4, <2>5
  <2>8. Apart(r)
    BY <1>4, <2>6, <2>7, ApartIs
  <2>9. \A y : y \in Chosen(r) <=> y \in Chosen(q) \cup {p}
    BY <1>2, <1>4, ChosenIs
  <2>10. Chosen(r) = Chosen(q) \cup {p}
    BY <2>9
  <2>11. Chosen(r) \subseteq taken \cup Ids
    BY <1>9, <2>2, <2>10
  <2>12. WereThere(r, s1.photos[s], s5.used)
    BY <1>1, <1>2, <1>4, <2>3 DEF WereThere
  <2>13. IsChange(picked, s5.picked, s, r)
    <3>1. s5.picked \in Selections
      BY <1>0 DEF FormType, IsHistory
    <3> QED BY <1>8, <2>2, <2>10, <3>1 DEF Selections, IsChange
  <2>14. s1.photos \in Shown /\ s5.used \subseteq taken
    BY <1>0, <1>9 DEF FormType, IsForm
  <2> QED BY <1>4, <1>5, <2>1, <2>8, <2>11, <2>12, <2>13, <2>14, ChangeIsSound
<1>19. s5' = [picked |-> picked, touched |-> s5.touched \/ s1.saving, used |-> taken,
              failures |-> s5.failures]
  BY <1>10, <1>15
<1>20. s5.used \subseteq taken
  BY <1>9
<1> QED BY <1>6, <1>7, <1>16, <1>17, <1>18, <1>19, <1>20, EditKeeps

\* What Touched() does to the history.
LEMMA TouchedIs ==
    ASSUME FormInv, NEW picked, Form!Touched(picked)
    PROVE  s5' = [picked |-> picked, touched |-> s5.touched \/ s1.saving, used |-> s5.used,
                  failures |-> s5.failures]
<1>1. PICK touched \in BOOLEAN : touched = (s5.touched \/ s1.saving)
  OBVIOUS
<1>2. PICK half : half = [s5 EXCEPT !.picked = picked]
  OBVIOUS
<1>3. half = [picked |-> picked, touched |-> s5.touched, used |-> s5.used, failures |-> s5.failures]
  BY <1>2 DEF FormInv, FormType, IsHistory
<1>4. s5' = [half EXCEPT !.touched = touched]
  BY <1>1, <1>2, Zenon DEF Form!Touched
<1> QED BY <1>1, <1>3, <1>4

LEMMA RemoveKeeps ==
    ASSUME FormInv, NEW s \in Form!Sections, NEW i \in DOMAIN s1.photos[s], Form!RemovePhoto(s, i)
    PROVE  FormInv'
<1>0. FormType
  BY DEF FormInv
<1>1. PICK q \in Seq(Photo) : q = s1.photos[s]
  BY <1>0 DEF FormType, IsForm, Shown
<1>2. PICK r : r = SubSeq(q, 1, i - 1) \o SubSeq(q, i + 1, Len(q))
  OBVIOUS
<1>3. i \in DOMAIN q /\ i \in 1 .. Len(q)
  BY <1>1
<1>4. r \in Seq(Photo)
  <2>1. 1 \in 1 .. Len(q) + 1 /\ i - 1 \in 0 .. Len(q)
    BY <1>1, <1>3
  <2>2. PICK m \in 0 .. Len(q) : m = i - 1
    BY <2>1
  <2>3. SubSeq(q, 1, i - 1) \in Seq(Photo)
    BY <2>1, <2>2, PartFacts
  <2>4. i + 1 \in 1 .. Len(q) + 1 /\ Len(q) \in 0 .. Len(q)
    BY <1>1, <1>3
  <2>5. PICK n \in 1 .. Len(q) + 1 : n = i + 1
    BY <2>4
  <2>6. SubSeq(q, i + 1, Len(q)) \in Seq(Photo)
    BY <2>4, <2>5, PartFacts
  <2> QED BY <1>2, <2>3, <2>6, JoinFacts
<1>5. PICK photos : photos = [s1.photos EXCEPT ![s] = r]
  OBVIOUS
<1>6. s1.open /\ UNCHANGED <<s3, s4>>
  BY DEF Form!RemovePhoto
<1>7. s1' = [s1 EXCEPT !.photos = photos]
  BY <1>1, <1>2, <1>5, Zenon DEF Form!RemovePhoto
<1>8. PICK p : p = q[i].pick
  OBVIOUS
<1>9. PICK picked : picked = [s5.picked EXCEPT ![s] = s5.picked[s] \ {p}]
  OBVIOUS
<1>10. Form!Touched(picked)
  BY <1>1, <1>8, <1>9, Zenon DEF Form!RemovePhoto
<1>11. s5' = [picked |-> picked, touched |-> s5.touched \/ s1.saving, used |-> s5.used,
              failures |-> s5.failures]
  BY <1>10, TouchedIs
<1>12. photos \in Shown
  BY <1>0, <1>4, <1>5 DEF FormType, IsForm, Shown
<1>13. s5.picked \in Selections /\ picked \in Selections
  BY <1>0, <1>9 DEF FormType, IsHistory, Selections
<1>14. ~s5.touched => Sound(photos, picked, s5.used)
  <2> SUFFICES ASSUME ~s5.touched PROVE Sound(photos, picked, s5.used)
    OBVIOUS
  <2>1. Sound(s1.photos, s5.picked, s5.used)
    BY <1>6 DEF FormInv
  <2>2. Apart(q) /\ Chosen(q) = s5.picked[s] /\ s5.picked[s] \subseteq s5.used \cup Ids
    BY <1>1, <2>1 DEF Sound
  <2>3. Once(q) /\ \A a, b \in Range(q) : a.pick = b.pick => a = b
    BY <2>2, ApartIs
  <2>4. Once(r) /\ Range(r) = Range(q) \ {q[i]}
    BY <1>2, <1>3, <2>3, RemoveFacts
  <2>5. Apart(r)
    <3>1. \A a, b \in Range(r) : a.pick = b.pick => a = b
      BY <2>3, <2>4
    <3> QED BY <1>4, <2>4, <3>1, ApartIs
  <2>6. q[i] \in Range(q)
    BY <1>3, PhotosAre
  <2>7. \A x : x \in Chosen(r) <=> x \in Chosen(q) \ {p}
    BY <1>8, <2>3, <2>4, <2>6, ChosenIs
  <2>8. Chosen(r) = Chosen(q) \ {p}
    BY <2>7
  <2>9. Chosen(r) \subseteq s5.used \cup Ids
    BY <2>2, <2>8
  <2>10. WereThere(r, s1.photos[s], s5.used)
    BY <1>1, <2>4 DEF WereThere
  <2>11. IsChange(picked, s5.picked, s, r)
    BY <1>9, <1>13, <2>2, <2>8 DEF Selections, IsChange
  <2>12. s1.photos \in Shown /\ s5.used \subseteq s5.used
    BY <1>0 DEF FormType, IsForm
  <2> QED BY <1>4, <1>5, <2>1, <2>5, <2>9, <2>10, <2>11, <2>12, ChangeIsSound
<1>15. s5.used \subseteq s5.used
  OBVIOUS
<1> QED BY <1>6, <1>7, <1>11, <1>12, <1>13, <1>14, <1>15, EditKeeps

LEMMA MoveKeeps ==
    ASSUME FormInv, NEW i, NEW to, Form!Move(i, to)
    PROVE  FormInv'
<1>0. FormType
  BY DEF FormInv
<1>1. PICK s \in Form!Sections : s = "gallery"
  BY SectionsAre
<1>2. PICK q \in Seq(Photo) : q = s1.photos[s]
  BY <1>0 DEF FormType, IsForm, Shown
<1>3. i \in DOMAIN q /\ to \in DOMAIN q /\ s1.open /\ UNCHANGED <<s3, s4>>
  BY <1>1, <1>2 DEF Form!Move
<1>4. PICK r : r = Swapped(q, i, to)
  OBVIOUS
<1>5. r \in Seq(Photo) /\ Range(r) = Range(q) /\ (Once(q) => Once(r))
  BY <1>3, <1>4, SwapFacts
<1>6. PICK photos : photos = [s1.photos EXCEPT ![s] = r]
  OBVIOUS
<1>7. s1' = [s1 EXCEPT !.photos = photos]
  <2>1. s1' = [s1 EXCEPT !.photos[s][i] = q[to], !.photos[s][to] = q[i]]
    BY <1>1, <1>2, Zenon DEF Form!Move
  <2> QED BY <1>0, <1>1, <1>2, <1>4, <1>6, <2>1 DEF FormType, IsForm, Shown, Swapped
<1>8. s5' = [picked |-> s5.picked, touched |-> s5.touched \/ s1.saving, used |-> s5.used,
             failures |-> s5.failures]
  BY TouchedIs DEF Form!Move
<1>9. photos \in Shown /\ s5.picked \in Selections
  BY <1>0, <1>5, <1>6 DEF FormType, IsForm, IsHistory, Shown
<1>10. ~s5.touched => Sound(photos, s5.picked, s5.used)
  <2> SUFFICES ASSUME ~s5.touched PROVE Sound(photos, s5.picked, s5.used)
    OBVIOUS
  <2>1. Sound(s1.photos, s5.picked, s5.used)
    BY <1>3 DEF FormInv
  <2>2. Apart(q) /\ Chosen(q) = s5.picked[s] /\ s5.picked[s] \subseteq s5.used \cup Ids
    BY <1>2, <2>1 DEF Sound
  <2>3. Apart(r)
    BY <1>5, <2>2, ApartIs
  <2>4. Chosen(r) = Chosen(q)
    BY <1>5 DEF Chosen
  <2>5. WereThere(r, s1.photos[s], s5.used)
    BY <1>2, <1>5 DEF WereThere
  <2>6. IsChange(s5.picked, s5.picked, s, r)
    BY <2>2, <2>4 DEF IsChange
  <2>7. s1.photos \in Shown /\ s5.used \subseteq s5.used
    BY <1>0 DEF FormType, IsForm
  <2>8. Chosen(r) \subseteq s5.used \cup Ids
    BY <2>2, <2>4
  <2> QED BY <1>5, <1>6, <2>1, <2>3, <2>5, <2>6, <2>7, <2>8, ChangeIsSound
<1>11. s5.used \subseteq s5.used
  OBVIOUS
<1> QED BY <1>3, <1>7, <1>8, <1>9, <1>10, <1>11, EditKeeps

LEMMA NothingIsSound ==
    /\ Form!Nothing \in Shown
    /\ \A s \in Form!Sections : Form!Nothing[s] = << >>
<1>1. << >> \in Seq(Photo)
  OBVIOUS
<1> QED BY <1>1 DEF Shown, Form!Nothing

LEMMA NoSave == IsSave(Form!NoJob) /\ Form!NoJob.at = "none" /\ Form!NoJob.mine = FALSE
BY NothingIsSound DEF IsSave, Form!NoJob

\* The form while nothing is being saved, and when it is closed.
LEMMA IdleIs ==
    ASSUME FormType, NEW photos \in Shown, s1' = [s1 EXCEPT !.saving = FALSE, !.photos = photos]
    PROVE  \E f : s1' = f /\ IsForm(f) /\ f.open = s1.open /\ f.photos = photos
<1>1. PICK half : half = [s1 EXCEPT !.saving = FALSE]
  OBVIOUS
<1>2. half = [open |-> s1.open, kind |-> s1.kind, saving |-> FALSE, photos |-> s1.photos]
  BY <1>1 DEF FormType, IsForm
<1>3. s1' = [half EXCEPT !.photos = photos]
  BY <1>1, Zenon
<1>4. PICK f : f = [open |-> s1.open, kind |-> s1.kind, saving |-> FALSE, photos |-> photos]
  OBVIOUS
<1>5. s1' = f
  BY <1>2, <1>3, <1>4
<1>6. IsForm(f) /\ f.open = s1.open /\ f.photos = photos
  BY <1>4 DEF IsForm, FormType
<1> QED BY <1>5, <1>6

LEMMA ClosedIs ==
    ASSUME FormType, s1' = [s1 EXCEPT !.open = FALSE, !.saving = FALSE, !.photos = Form!Nothing]
    PROVE  \E f : s1' = f /\ IsForm(f) /\ ~f.open
<1>1. PICK half : half = [s1 EXCEPT !.open = FALSE]
  OBVIOUS
<1>2. half = [open |-> FALSE, kind |-> s1.kind, saving |-> s1.saving, photos |-> s1.photos]
  BY <1>1 DEF FormType, IsForm
<1>3. PICK nothing \in Shown : nothing = Form!Nothing
  BY NothingIsSound
<1>4. PICK more : more = [half EXCEPT !.saving = FALSE]
  OBVIOUS
<1>5. more = [open |-> FALSE, kind |-> s1.kind, saving |-> FALSE, photos |-> s1.photos]
  BY <1>2, <1>4
<1>6. s1' = [more EXCEPT !.photos = nothing]
  BY <1>1, <1>3, <1>4, Zenon
<1>7. PICK f : f = [open |-> FALSE, kind |-> s1.kind, saving |-> FALSE, photos |-> nothing]
  OBVIOUS
<1>8. s1' = f
  BY <1>5, <1>6, <1>7
<1>9. IsForm(f) /\ ~f.open
  BY <1>7 DEF IsForm
<1> QED BY <1>8, <1>9

\* The form is closed; a save that it began goes on.
LEMMA CloseKeeps == ASSUME FormInv, Form!Close PROVE FormInv'
<1>0. FormType
  BY DEF FormInv
<1>5. PICK f : s1' = f /\ IsForm(f) /\ ~f.open
  BY <1>0, ClosedIs DEF Form!Close
<1>7. s3' = [s3 EXCEPT !.mine = FALSE] /\ s4' = s4 /\ s5' = s5
  BY DEF Form!Close
<1>8. s3' = [at |-> s3.at, photos |-> s3.photos, todo |-> s3.todo, done |-> s3.done,
             failed |-> s3.failed, mine |-> FALSE, picked |-> s3.picked, sure |-> s3.sure]
  BY <1>0, <1>7 DEF FormType, IsSave
<1>9. PICK q : q = [at |-> s3.at, photos |-> s3.photos, todo |-> s3.todo, done |-> s3.done,
                    failed |-> s3.failed, mine |-> FALSE, picked |-> s3.picked, sure |-> s3.sure]
  OBVIOUS
<1>10. s3' = q
  BY <1>8, <1>9
<1>11. IsSave(q) /\ q.at = s3.at /\ q.photos = s3.photos /\ q.picked = s3.picked /\ q.sure = s3.sure
       /\ q.mine = FALSE /\ (Progress(q) <=> Progress(s3))
  BY <1>0, <1>9 DEF FormType, IsSave, Progress
<1>12. FormType'
  BY <1>0, <1>5, <1>7, <1>10, <1>11 DEF FormType
<1>13. SaveIsSound'
  BY <1>7, <1>10, <1>11 DEF FormInv, SaveIsSound
<1>14. Waits'
  BY <1>10, <1>11 DEF Waits
<1> QED BY <1>5, <1>7, <1>10, <1>11, <1>12, <1>13, <1>14 DEF FormInv

\* The photographs of the form that opens, and what is picked in it.
LEMMA OpensWith ==
    ASSUME s4 \in [Form!Sections -> Seq(Picture)], NEW taken, NEW kind
    PROVE  \E f, picked :
              /\ Form!Opened(kind) = f /\ Form!PickedIn(f) = picked
              /\ IsForm(f) /\ f.open /\ ~f.saving /\ picked \in Selections
              /\ RowIsSound(s4, taken) => Sound(f.photos, picked, taken)
<1>1. PICK photos : photos = FromRow(s4, kind)
  OBVIOUS
<1>2. PICK picked : picked = AllPicks(photos)
  OBVIOUS
<1>3. PICK f : f = [open |-> TRUE, kind |-> kind, saving |-> FALSE, photos |-> photos]
  OBVIOUS
<1>4. Form!Opened(kind) = f
  BY <1>1, <1>3, Zenon DEF Form!Opened, FromRow
<1>5. f.photos = photos
  BY <1>3
<1>6. Form!PickedIn(f) = picked
  BY <1>2, <1>5 DEF Form!PickedIn, AllPicks
<1>7. PICK r \in [Form!Sections -> Seq(Picture)] : r = s4
  OBVIOUS
<1>8. photos = FromRow(r, kind)
  BY <1>1, <1>7
<1>9. photos \in Shown /\ picked \in Selections /\ (RowIsSound(r, taken) => Sound(photos, picked, taken))
  BY <1>2, <1>8, OpenedIsSound
<1>10. IsForm(f) /\ f.open /\ ~f.saving
  BY <1>3, <1>9 DEF IsForm
<1> QED BY <1>4, <1>5, <1>6, <1>7, <1>9, <1>10

LEMMA ReopenKeeps == ASSUME FormInv, Form!Open PROVE FormInv'
<1>0. FormType
  BY DEF FormInv
<1>1. s4 \in [Form!Sections -> Seq(Picture)]
  BY <1>0 DEF FormType
<1>2. PICK f, picked :
         /\ Form!Opened(s1.kind) = f /\ Form!PickedIn(f) = picked
         /\ IsForm(f) /\ f.open /\ ~f.saving /\ picked \in Selections
         /\ RowIsSound(s4, s5.used) => Sound(f.photos, picked, s5.used)
  BY <1>1, OpensWith
<1>3. ~s1.open /\ s1' = f /\ s3' = s3 /\ s4' = s4
  BY <1>2 DEF Form!Open
<1>4. s5' = [s5 EXCEPT !.picked = picked]
  <2>1. s5' = [s5 EXCEPT !.picked = Form!PickedIn(s1')]
    BY DEF Form!Open
  <2> QED BY <1>2, <1>3, <2>1
<1>5. PICK g : g = [picked |-> picked, touched |-> s5.touched, used |-> s5.used, failures |-> s5.failures]
  OBVIOUS
<1>6. s5' = g
  BY <1>0, <1>4, <1>5 DEF FormType, IsHistory
<1>7. IsHistory(g) /\ g.picked = picked /\ g.touched = s5.touched /\ g.used = s5.used
  BY <1>0, <1>2, <1>5 DEF FormType, IsHistory
<1>8. FormType'
  BY <1>0, <1>2, <1>3, <1>6, <1>7 DEF FormType
<1>9. SaveIsSound'
  BY <1>3, <1>6, <1>7 DEF FormInv, SaveIsSound
<1>10. Waits' /\ ~s3.mine
  BY <1>3 DEF FormInv, Waits
<1> QED BY <1>2, <1>3, <1>6, <1>7, <1>8, <1>9, <1>10 DEF FormInv

\* Where the files are.
LEMMA FilesAre ==
    \A photos, f : f \in Form!Files(photos) <=>
        /\ f.section \in Form!Sections /\ f = [section |-> f.section, place |-> f.place]
        /\ f.place \in DOMAIN photos[f.section] /\ ~photos[f.section][f.place].url
<1> TAKE photos, f
<1>1. f \in Form!Files(photos) <=>
         \E s \in Form!Sections : \E i \in DOMAIN photos[s] :
            ~photos[s][i].url /\ f = [section |-> s, place |-> i]
  BY DEF Form!Files, Form!IsFile
<1> QED BY <1>1

LEMMA SubmitKeeps == ASSUME FormInv, Form!handleSubmit PROVE FormInv'
<1>0. FormType
  BY DEF FormInv
<1>1. PICK photos \in Shown : photos = s1.photos
  BY <1>0 DEF FormType, IsForm
<1>2. PICK todo : todo = Form!Files(photos)
  OBVIOUS
<1>3. PICK sure \in BOOLEAN : sure = ~s5.touched
  OBVIOUS
<1>4. PICK q : q = [at |-> "uploading", photos |-> photos, todo |-> todo, done |-> {}, failed |-> {},
                    mine |-> TRUE, picked |-> s5.picked, sure |-> sure]
  OBVIOUS
<1>5. s3' = q
  <2>1. PICK b : b = Form!NoJob
    OBVIOUS
  <2>2. b = [at |-> "none", photos |-> Form!Nothing, todo |-> {}, done |-> {}, failed |-> {},
             mine |-> FALSE, picked |-> [s \in Form!Sections |-> {}], sure |-> TRUE]
    BY <2>1 DEF Form!NoJob
  <2>3. s3' = [b EXCEPT !.at = "uploading", !.photos = photos, !.mine = TRUE,
                        !.todo = todo, !.picked = s5.picked, !.sure = sure]
    BY <1>1, <1>2, <1>3, <2>1, Zenon DEF Form!handleSubmit
  <2>4. PICK b1 : b1 = [b EXCEPT !.at = "uploading"]
    OBVIOUS
  <2>5. PICK b2 : b2 = [b1 EXCEPT !.photos = photos]
    OBVIOUS
  <2>6. PICK b3 : b3 = [b2 EXCEPT !.mine = TRUE]
    OBVIOUS
  <2>7. PICK b4 : b4 = [b3 EXCEPT !.todo = todo]
    OBVIOUS
  <2>8. PICK b5 : b5 = [b4 EXCEPT !.picked = s5.picked]
    OBVIOUS
  <2>9. s3' = [b5 EXCEPT !.sure = sure]
    BY <2>3, <2>4, <2>5, <2>6, <2>7, <2>8, Zenon
  <2>10. b2 = [at |-> "uploading", photos |-> photos, todo |-> {}, done |-> {}, failed |-> {},
               mine |-> FALSE, picked |-> [s \in Form!Sections |-> {}], sure |-> TRUE]
    BY <2>2, <2>4, <2>5
  <2>11. b4 = [at |-> "uploading", photos |-> photos, todo |-> todo, done |-> {}, failed |-> {},
               mine |-> TRUE, picked |-> [s \in Form!Sections |-> {}], sure |-> TRUE]
    BY <2>6, <2>7, <2>10
  <2>12. b5 = [at |-> "uploading", photos |-> photos, todo |-> todo, done |-> {}, failed |-> {},
               mine |-> TRUE, picked |-> s5.picked, sure |-> TRUE]
    BY <2>8, <2>11
  <2>13. s3' = [at |-> "uploading", photos |-> photos, todo |-> todo, done |-> {}, failed |-> {},
                mine |-> TRUE, picked |-> s5.picked, sure |-> sure]
    BY <2>9, <2>12
  <2> QED BY <1>4, <2>13
<1>6. s1.open /\ s1' = [s1 EXCEPT !.saving = TRUE] /\ s4' = s4 /\ s5' = s5
  BY DEF Form!handleSubmit
<1>7. PICK f : f = [open |-> s1.open, kind |-> s1.kind, saving |-> TRUE, photos |-> photos]
  OBVIOUS
<1>8. s1' = f
  <2>1. PICK g : g = [s1 EXCEPT !.saving = TRUE]
    OBVIOUS
  <2>2. g = [open |-> s1.open, kind |-> s1.kind, saving |-> TRUE, photos |-> s1.photos]
    BY <1>0, <2>1 DEF FormType, IsForm
  <2>3. s1' = g
    BY <1>6, <2>1
  <2>4. g = f
    BY <1>1, <1>7, <2>2
  <2> QED BY <2>3, <2>4
<1>9. IsForm(f) /\ f.open /\ f.saving /\ f.photos = photos
  BY <1>0, <1>6, <1>7 DEF FormType, IsForm
<1>10. /\ IsSave(q) /\ q.at = "uploading" /\ q.photos = photos /\ q.todo = todo /\ q.done = {}
       /\ q.failed = {} /\ q.mine /\ q.picked = s5.picked /\ q.sure = sure
  BY <1>3, <1>4 DEF IsSave
<1>11. Progress(q)
  <2>1. \A f2 \in todo :
           /\ f2.section \in Form!Sections /\ f2 = [section |-> f2.section, place |-> f2.place]
           /\ f2.place \in DOMAIN photos[f2.section] /\ ~photos[f2.section][f2.place].url
    BY <1>2, FilesAre
  <2>2. \A s \in Form!Sections : DOMAIN photos[s] \subseteq Nat
    BY PhotosAre DEF Shown
  <2>3. todo \subseteq [section : Form!Sections, place : Nat]
    BY <2>1, <2>2
  <2>4. ASSUME NEW s \in Form!Sections, NEW i \in DOMAIN photos[s]
        PROVE  photos[s][i].url \/ [section |-> s, place |-> i] \in todo
    <3>1. PICK f2 : f2 = [section |-> s, place |-> i]
      OBVIOUS
    <3>2. f2.section = s /\ f2.place = i /\ f2 = [section |-> f2.section, place |-> f2.place]
      BY <3>1
    <3>3. ~photos[s][i].url => f2 \in todo
      BY <1>2, <2>4, <3>2, FilesAre
    <3> QED BY <3>1, <3>3
  <2> QED BY <1>10, <2>1, <2>3, <2>4 DEF Progress
<1>12. ~s5.touched => Sound(photos, s5.picked, s5.used)
  BY <1>1, <1>6 DEF FormInv
<1>13. FormType'
  BY <1>0, <1>5, <1>6, <1>8, <1>9, <1>10 DEF FormType
<1>14. SaveIsSound'
  BY <1>3, <1>5, <1>6, <1>10, <1>11, <1>12 DEF SaveIsSound
<1>15. Waits'
  BY <1>5, <1>8, <1>9, <1>10 DEF Waits
<1>16. ~s5.touched => RowIsSound(s4, s5.used)
  BY DEF FormInv
<1> QED BY <1>3, <1>5, <1>6, <1>8, <1>9, <1>10, <1>12, <1>13, <1>14, <1>15, <1>16 DEF FormInv

\* A save ends with its row not written: the form shows the photographs.
LEMMA OverKeeps ==
    ASSUME FormInv, NEW photos \in Shown, Form!Over(photos), s4' = s4,
           IsHistory(s5)', s5'.picked = s5.picked, s5'.touched = s5.touched, s5'.used = s5.used,
           ~s5.touched /\ s3.mine => Sound(photos, s5.picked, s5.used)
    PROVE  FormInv'
<1>0. FormType
  BY DEF FormInv
<1>1. PICK q : q = Form!NoJob
  OBVIOUS
<1>2. s3' = q /\ IsSave(q) /\ q.at = "none" /\ ~q.mine
  BY <1>1, NoSave DEF Form!Over
<1>3. ASSUME s3.mine
      PROVE  \E f : s1' = f /\ IsForm(f) /\ f.open = s1.open /\ f.photos = photos
  <2>1. s1' = [s1 EXCEPT !.saving = FALSE, !.photos = photos]
    BY <1>3 DEF Form!Over
  <2> QED BY <1>0, <2>1, IdleIs
<1>4. ~s3.mine => s1' = s1
  BY DEF Form!Over
<1>5. PICK f : s1' = f /\ IsForm(f) /\ f.open = s1.open
               /\ f.photos = IF s3.mine THEN photos ELSE s1.photos
  <2>1. CASE s3.mine
    BY <1>3, <2>1
  <2>2. CASE ~s3.mine
    <3>1. PICK f : f = s1
      OBVIOUS
    <3> QED BY <1>0, <1>4, <2>2, <3>1 DEF FormType
  <2> QED BY <2>1, <2>2
<1>6. FormType'
  BY <1>0, <1>2, <1>5 DEF FormType
<1>7. SaveIsSound' /\ Waits'
  BY <1>2 DEF SaveIsSound, Waits
<1>8. ~s5.touched /\ s1.open => Sound(f.photos, s5.picked, s5.used)
  BY <1>5 DEF FormInv
<1>9. ~s5.touched => RowIsSound(s4, s5.used)
  BY DEF FormInv
<1> QED BY <1>2, <1>5, <1>6, <1>7, <1>8, <1>9 DEF FormInv

\* What failed is counted, and no more of the history changes.
LEMMA CountsFailure ==
    ASSUME FormType, NEW n, s5' = [s5 EXCEPT !.failures = n]
    PROVE  IsHistory(s5)' /\ s5'.picked = s5.picked /\ s5'.touched = s5.touched /\ s5'.used = s5.used
<1>1. PICK g : g = [picked |-> s5.picked, touched |-> s5.touched, used |-> s5.used, failures |-> n]
  OBVIOUS
<1>2. s5' = g
  BY <1>1 DEF FormType, IsHistory
<1>3. IsHistory(g) /\ g.picked = s5.picked /\ g.touched = s5.touched /\ g.used = s5.used
  BY <1>1 DEF FormType, IsHistory
<1> QED BY <1>2, <1>3

\* The form keeps what it showed.
LEMMA StaysKeeps ==
    ASSUME FormInv, Form!Over(s1.photos), s4' = s4,
           IsHistory(s5)', s5'.picked = s5.picked, s5'.touched = s5.touched, s5'.used = s5.used
    PROVE  FormInv'
<1>1. PICK photos \in Shown : photos = s1.photos
  BY DEF FormInv, FormType, IsForm
<1>2. Form!Over(photos)
  BY <1>1
<1>3. ~s5.touched /\ s3.mine => Sound(photos, s5.picked, s5.used)
  BY <1>1 DEF FormInv, Waits
<1> QED BY <1>2, <1>3, OverKeeps

LEMMA FailsKeeps == ASSUME FormInv, Form!Fails PROVE FormInv'
<1>0. FormType
  BY DEF FormInv
<1>1. Form!Over(s1.photos) /\ s4' = s4
  BY DEF Form!Fails
<1>2. CASE s5' = s5
  BY <1>0, <1>1, <1>2, StaysKeeps DEF FormType
<1>3. CASE s5' = [s5 EXCEPT !.failures = s5.failures + 1]
  <2>1. PICK n : n = s5.failures + 1
    OBVIOUS
  <2>2. IsHistory(s5)' /\ s5'.picked = s5.picked /\ s5'.touched = s5.touched /\ s5'.used = s5.used
    BY <1>0, <1>3, <2>1, CountsFailure
  <2> QED BY <1>1, <2>2, StaysKeeps
<1> QED BY <1>2, <1>3 DEF Form!Fails

\* The row is what was being saved, and what it keeps of a section.
LEMMA WrittenIs ==
    ASSUME FormInv, Form!Written
    PROVE  \A s \in Form!Sections :
              /\ s4'[s] \in Seq(Picture)
              /\ s4'[s] = s4[s] \/ s4'[s] = Form!Of(s3.photos[s])
              /\ ~Form!Kept(s) => s4'[s] = Form!Of(s3.photos[s])
<1> TAKE s \in Form!Sections
<1>1. s4'[s] = IF Form!Kept(s) THEN s4[s] ELSE Form!Of(s3.photos[s])
  BY DEF Form!Written
<1>2. s4[s] \in Seq(Picture)
  BY DEF FormInv, FormType
<1>3. PICK q \in Seq(Photo) : q = s3.photos[s]
  BY DEF FormInv, FormType, IsSave, Shown
<1>4. Form!Of(q) \in Seq(Picture)
  BY PhotosAre
<1> QED BY <1>1, <1>2, <1>3, <1>4

\* What is written of photographs that are sound.
LEMMA OfSound ==
    ASSUME NEW photos \in Shown, NEW picked, NEW taken, Sound(photos, picked, taken),
           NEW s \in Form!Sections, NEW r, r = Form!Of(photos[s])
    PROVE  /\ r \in Seq(Picture) /\ Once(r) /\ Range(r) = picked[s]
           /\ Range(r) \subseteq taken \cup Ids
<1>1. PICK q \in Seq(Photo) : q = photos[s]
  BY DEF Shown
<1>2. Apart(q) /\ Chosen(q) = picked[s] /\ picked[s] \subseteq taken \cup Ids
  BY <1>1 DEF Sound
<1>3. r = Form!Of(q)
  BY <1>1
<1>4. r \in Seq(Picture) /\ Range(r) = Chosen(q)
  BY <1>3, PhotosAre
<1>5. r = [i \in DOMAIN q |-> q[i].pick]
  BY <1>3 DEF Form!Of
<1>6. Once(r)
  BY <1>2, <1>5 DEF Once, Apart
<1> QED BY <1>2, <1>4, <1>6

LEMMA WrittenKeeps == ASSUME FormInv, Form!Written PROVE FormInv'
<1>0. FormType
  BY DEF FormInv
<1>1. s3.at = "uploading" /\ s1' = s1 /\ s5' = s5 /\ s3' = [s3 EXCEPT !.at = "written"]
  BY DEF Form!Written
<1>2. PICK q : q = [at |-> "written", photos |-> s3.photos, todo |-> s3.todo, done |-> s3.done,
                    failed |-> s3.failed, mine |-> s3.mine, picked |-> s3.picked, sure |-> s3.sure]
  OBVIOUS
<1>3. s3' = q
  BY <1>0, <1>1, <1>2 DEF FormType, IsSave
<1>4. /\ IsSave(q) /\ q.at = "written" /\ q.photos = s3.photos /\ q.mine = s3.mine
      /\ q.picked = s3.picked /\ q.sure = s3.sure
  BY <1>0, <1>2 DEF FormType, IsSave
<1>5. PICK r \in [Form!Sections -> Seq(Picture)] : s4' = r
  <2>1. s4' = [s \in Form!Sections |-> IF Form!Kept(s) THEN s4[s] ELSE Form!Of(s3.photos[s])]
    BY DEF Form!Written
  <2>2. \A s \in Form!Sections : s4'[s] \in Seq(Picture)
    BY WrittenIs
  <2>3. s4' \in [Form!Sections -> Seq(Picture)]
    BY <2>1, <2>2
  <2> QED BY <2>3
<1>6. ~s5.touched => RowIsSound(r, s5.used)
  <2> SUFFICES ASSUME ~s5.touched, NEW s \in Form!Sections
               PROVE  Once(r[s]) /\ Range(r[s]) \subseteq s5.used \cup Ids
    BY DEF RowIsSound
  <2>1. r[s] = s4[s] \/ r[s] = Form!Of(s3.photos[s])
    BY <1>5, WrittenIs
  <2>2. Once(s4[s]) /\ Range(s4[s]) \subseteq s5.used \cup Ids
    BY DEF FormInv, RowIsSound
  <2>3. Sound(s3.photos, s3.picked, s5.used) /\ s3.photos \in Shown
    BY <1>1 DEF FormInv, FormType, IsSave, SaveIsSound
  <2>4. PICK t : t = Form!Of(s3.photos[s])
    OBVIOUS
  <2>5. Once(t) /\ Range(t) \subseteq s5.used \cup Ids
    BY <2>3, <2>4, OfSound
  <2> QED BY <2>1, <2>2, <2>4, <2>5
<1>7. FormType'
  BY <1>0, <1>1, <1>3, <1>4, <1>5 DEF FormType
<1>8. SaveIsSound'
  BY <1>1, <1>3, <1>4 DEF FormInv, SaveIsSound
<1>9. Waits'
  BY <1>1, <1>3, <1>4 DEF FormInv, Waits
<1>10. ~s5.touched =>
          /\ s3.sure /\ (s3.mine => s1.photos = s3.photos)
          /\ s1.open => Sound(s1.photos, s5.picked, s5.used)
  BY <1>1 DEF FormInv
<1> QED BY <1>1, <1>3, <1>4, <1>5, <1>6, <1>7, <1>8, <1>9, <1>10 DEF FormInv

\* The form ends with the save.
LEMMA SavedKeeps == ASSUME FormInv, Form!Saved PROVE FormInv'
<1>0. FormType
  BY DEF FormInv
<1>1. PICK q : q = Form!NoJob
  OBVIOUS
<1>2. s3' = q /\ IsSave(q) /\ q.at = "none" /\ ~q.mine
  BY <1>1, NoSave DEF Form!Saved
<1>3. s4' = s4 /\ (~s5.touched => RowIsSound(s4, s5.used))
  BY DEF Form!Saved, FormInv
<1>4. SaveIsSound' /\ Waits'
  BY <1>2 DEF SaveIsSound, Waits
<1>5. CASE s1' = s1 /\ s5' = s5
  <2>1. FormType'
    BY <1>0, <1>2, <1>3, <1>5 DEF FormType
  <2>2. ~s5.touched => (s1.open => Sound(s1.photos, s5.picked, s5.used))
    BY DEF FormInv
  <2> QED BY <1>2, <1>3, <1>4, <1>5, <2>1, <2>2 DEF FormInv
<1>6. CASE s1' = [s1 EXCEPT !.open = FALSE, !.saving = FALSE, !.photos = Form!Nothing] /\ s5' = s5
  <2>1. PICK f : s1' = f /\ IsForm(f) /\ ~f.open
    BY <1>0, <1>6, ClosedIs
  <2>2. FormType'
    BY <1>0, <1>2, <1>3, <1>6, <2>1 DEF FormType
  <2> QED BY <1>2, <1>3, <1>4, <1>6, <2>1, <2>2 DEF FormInv
<1>7. CASE /\ s1' = [s1 EXCEPT !.saving = FALSE, !.photos = Form!Nothing]
           /\ s5' = [s5 EXCEPT !.picked = Form!PickedIn(s1')]
  <2>1. PICK nothing \in Shown : nothing = Form!Nothing
    BY NothingIsSound
  <2>2. s1' = [s1 EXCEPT !.saving = FALSE, !.photos = nothing]
    BY <1>7, <2>1
  <2>3. PICK f : s1' = f /\ IsForm(f) /\ f.photos = nothing
    BY <1>0, <2>2, IdleIs
  <2>4. PICK picked : picked = AllPicks(nothing)
    OBVIOUS
  <2>5. s5' = [s5 EXCEPT !.picked = picked]
    <3>1. Form!PickedIn(f) = picked
      BY <2>3, <2>4 DEF Form!PickedIn, AllPicks
    <3> QED BY <1>7, <2>3, <3>1
  <2>6. \A s \in Form!Sections : nothing[s] = << >>
    BY <2>1, NothingIsSound
  <2>7. << >> \in Seq(Photo) /\ Chosen(<< >>) = {} /\ Range(<< >>) = {} /\ Apart(<< >>)
    BY DEF Chosen, Range, Apart
  <2>8. \A s \in Form!Sections : picked[s] = {}
    BY <2>4, <2>6, <2>7, PhotosAre DEF AllPicks
  <2>9. picked \in Selections
    BY <2>4, <2>8 DEF Selections, AllPicks
  <2>10. Sound(nothing, picked, s5.used)
    BY <2>6, <2>7, <2>8 DEF Sound
  <2>11. PICK g : g = [picked |-> picked, touched |-> s5.touched, used |-> s5.used,
                       failures |-> s5.failures]
    OBVIOUS
  <2>12. s5' = g
    BY <1>0, <2>5, <2>11 DEF FormType, IsHistory
  <2>13. IsHistory(g) /\ g.picked = picked /\ g.touched = s5.touched /\ g.used = s5.used
    BY <1>0, <2>9, <2>11 DEF FormType, IsHistory
  <2>14. FormType'
    BY <1>0, <1>2, <1>3, <2>3, <2>12, <2>13 DEF FormType
  <2> QED BY <1>2, <1>3, <1>4, <2>3, <2>10, <2>12, <2>13, <2>14 DEF FormInv
<1> QED BY <1>5, <1>6, <1>7 DEF Form!Saved

\* One more of the photographs went up, or did not.
PickAt(b, f) == b.photos[f.section][f.place].pick
IsNext(a, b, next) ==
    /\ a.photos = b.photos
    /\ a.todo = b.todo \ {next}
    /\ \/ a.done = b.done \cup {PickAt(b, next)} /\ a.failed = b.failed
       \/ a.done = b.done /\ a.failed = b.failed \cup {PickAt(b, next)}

\* Those of two files that are to go up are two pictures.
LEMMA FilesApart ==
    ASSUME NEW b, b.photos \in Shown, NEW tried, Sound(b.photos, b.picked, tried), Progress(b),
           NEW next \in b.todo, NEW f \in b.todo, f # next
    PROVE  PickAt(b, f) # PickAt(b, next)
<1>1. b.todo \subseteq [section : Form!Sections, place : Nat]
  BY Zenon DEF Progress
<1>2. PICK s, t \in Form!Sections, i, j \in Nat :
         f = [section |-> s, place |-> i] /\ next = [section |-> t, place |-> j]
  BY <1>1
<1>3. PICK q, r \in Seq(Photo) : q = b.photos[s] /\ r = b.photos[t]
  BY DEF Shown
<1>4. f.section = s /\ f.place = i /\ next.section = t /\ next.place = j
  BY <1>2
<1>5. i \in DOMAIN q /\ j \in DOMAIN r /\ ~q[i].url /\ ~r[j].url
  BY <1>3, <1>4, Zenon DEF Progress
<1>6. q[i] \in Range(q) /\ r[j] \in Range(r)
  BY <1>5, PhotosAre
<1>7. q[i].pick # r[j].pick
  <2>1. CASE s # t
    BY <1>3, <1>5, <1>6, <2>1, Zenon DEF Sound
  <2>2. CASE s = t
    <3>1. q = r /\ i # j
      BY <1>2, <1>3, <2>2
    <3>2. Apart(q)
      BY <1>3, Zenon DEF Sound
    <3> QED BY <1>5, <3>1, <3>2, Zenon DEF Apart
  <2> QED BY <2>1, <2>2
<1> QED BY <1>3, <1>4, <1>7 DEF PickAt

LEMMA GoesOn ==
    ASSUME NEW b, b.photos \in Shown, NEW tried, Sound(b.photos, b.picked, tried), Progress(b),
           NEW next \in b.todo, NEW a, IsNext(a, b, next)
    PROVE  Progress(a)
<1>1. /\ b.todo \subseteq [section : Form!Sections, place : Nat]
      /\ \A f \in b.todo : /\ f.place \in DOMAIN b.photos[f.section]
                           /\ ~b.photos[f.section][f.place].url
                           /\ PickAt(b, f) \notin b.done \cup b.failed
      /\ b.done \cap b.failed = {}
  BY Zenon DEF Progress, PickAt
<1>2. /\ a.photos = b.photos /\ a.todo = b.todo \ {next}
      /\ a.done \cup a.failed = b.done \cup b.failed \cup {PickAt(b, next)}
      /\ a.done \cap a.failed = {}
  BY <1>1 DEF IsNext
<1>3. \A f \in a.todo : f \in b.todo /\ PickAt(b, f) # PickAt(b, next)
  BY <1>2, FilesApart
<1>4. ASSUME NEW s \in Form!Sections, NEW i \in DOMAIN b.photos[s]
      PROVE  \/ b.photos[s][i].url \/ b.photos[s][i].pick \in a.done \cup a.failed
             \/ [section |-> s, place |-> i] \in a.todo
  <2>1. \/ b.photos[s][i].url \/ b.photos[s][i].pick \in b.done \cup b.failed
        \/ [section |-> s, place |-> i] \in b.todo
    BY Zenon DEF Progress
  <2>2. PICK f : f = [section |-> s, place |-> i]
    OBVIOUS
  <2>3. PickAt(b, f) = b.photos[s][i].pick
    BY <2>2 DEF PickAt
  <2> QED BY <1>2, <2>1, <2>2, <2>3
<1>5. \A f \in a.todo : /\ f.place \in DOMAIN a.photos[f.section]
                        /\ ~a.photos[f.section][f.place].url
                        /\ PickAt(a, f) \notin a.done \cup a.failed
  BY <1>1, <1>2, <1>3 DEF PickAt
<1> QED BY <1>1, <1>2, <1>4, <1>5 DEF Progress, PickAt

LEMMA SortedIs ==
    ASSUME NEW q \in Seq(Photo), NEW j \in Seq(Photo), NEW done, NEW failed,
           NEW r, r = SortedFrom(q, j, done, failed)
    PROVE  r \in Seq(Photo)
<1>9. PICK up : up = Form!Among(j, done)
  OBVIOUS
<1>1. Form!Stored(q) \in Seq(Photo)
  BY OnlyKeeps DEF Form!Stored
<1>2. PICK rest : rest = Form!Among(j, failed)
  OBVIOUS
<1>8. up \in Seq(Photo) /\ rest \in Seq(Photo)
  BY <1>2, <1>9, OnlyKeeps DEF Form!Among
<1>3. PICK u : u = [i \in DOMAIN up |-> Form!Url(up[i].pick)]
  OBVIOUS
<1>4. u \in Seq(Photo)
  BY <1>3, <1>8, UrlsKeep
<1>5. PICK first : first = Form!Stored(q) \o u
  OBVIOUS
<1>6. first \in Seq(Photo)
  BY <1>1, <1>4, <1>5
<1>7. r = first \o rest
  BY <1>2, <1>3, <1>5, <1>9, Zenon DEF SortedFrom
<1> QED BY <1>6, <1>7, <1>8, JoinFacts

LEMMA UploadedKeeps ==
    ASSUME FormInv, NEW next \in s3.todo, NEW ok \in BOOLEAN, Form!Uploaded(next, ok)
    PROVE  FormInv'
<1>0. FormType
  BY DEF FormInv
<1>1. PICK s, p, todo, done, failed :
         /\ s = next.section /\ p = s3.photos[next.section][next.place].pick
         /\ todo = s3.todo \ {next}
         /\ done = IF ok THEN s3.done \cup {p} ELSE s3.done
         /\ failed = IF ok THEN s3.failed ELSE s3.failed \cup {p}
  OBVIOUS
<1>2. s3.at = "uploading" /\ s4' = s4
  BY DEF Form!Uploaded
<1>3. IsHistory(s5)' /\ s5'.picked = s5.picked /\ s5'.touched = s5.touched /\ s5'.used = s5.used
  <2>1. PICK n : n = s5.failures + IF ok THEN 0 ELSE 1
    OBVIOUS
  <2>2. s5' = [s5 EXCEPT !.failures = n]
    BY <2>1 DEF Form!Uploaded
  <2> QED BY <1>0, <2>2, CountsFailure
<1>4. \/ s3' = [s3 EXCEPT !.todo = todo, !.done = done, !.failed = failed] /\ s1' = s1
      \/ /\ \A f \in todo : f.section # s
         /\ Form!Over([s1.photos EXCEPT ![s] = Form!SortedOut(s, done, failed)])
      \/ Form!Over(s1.photos)
  BY <1>1, Zenon DEF Form!Uploaded
<1>5. PICK q : q = [at |-> s3.at, photos |-> s3.photos, todo |-> todo, done |-> done,
                    failed |-> failed, mine |-> s3.mine, picked |-> s3.picked, sure |-> s3.sure]
  OBVIOUS
<1>6. /\ IsSave(q) /\ q.at = s3.at /\ q.photos = s3.photos /\ q.todo = todo /\ q.done = done
      /\ q.failed = failed /\ q.mine = s3.mine /\ q.picked = s3.picked /\ q.sure = s3.sure
  BY <1>0, <1>5 DEF FormType, IsSave
<1>7. s3.photos \in Shown /\ s1.photos \in Shown
  BY <1>0 DEF FormType, IsSave, IsForm
<1>8. s3.sure => Sound(s3.photos, s3.picked, s5.used) /\ Progress(s3) /\ Progress(q)
  <2>1. s3.sure => Sound(s3.photos, s3.picked, s5.used) /\ Progress(s3)
    BY <1>2 DEF FormInv, SaveIsSound
  <2>2. IsNext(q, s3, next)
    BY <1>1, <1>6, Zenon DEF IsNext, PickAt
  <2> QED BY <1>7, <2>1, <2>2, GoesOn
<1>9. CASE s3' = [s3 EXCEPT !.todo = todo, !.done = done, !.failed = failed] /\ s1' = s1
  <2>1. s3' = q
    <3>1. PICK b : b = [s3 EXCEPT !.todo = todo]
      OBVIOUS
    <3>2. b = [at |-> s3.at, photos |-> s3.photos, todo |-> todo, done |-> s3.done,
               failed |-> s3.failed, mine |-> s3.mine, picked |-> s3.picked, sure |-> s3.sure]
      BY <1>0, <3>1 DEF FormType, IsSave
    <3>3. s3' = [b EXCEPT !.done = done, !.failed = failed]
      BY <1>9, <3>1, Zenon
    <3>4. PICK c : c = [b EXCEPT !.done = done]
      OBVIOUS
    <3>5. c = [at |-> s3.at, photos |-> s3.photos, todo |-> todo, done |-> done,
               failed |-> s3.failed, mine |-> s3.mine, picked |-> s3.picked, sure |-> s3.sure]
      BY <3>2, <3>4
    <3>6. s3' = [c EXCEPT !.failed = failed]
      BY <3>3, <3>4, Zenon
    <3> QED BY <1>5, <3>5, <3>6
  <2>2. FormType'
    BY <1>0, <1>2, <1>3, <1>6, <1>9, <2>1 DEF FormType
  <2>3. SaveIsSound'
    BY <1>3, <1>6, <1>8, <2>1 DEF SaveIsSound
  <2>4. Waits'
    BY <1>2, <1>6, <1>9, <2>1 DEF FormInv, Waits
  <2>5. ~s5.touched =>
           /\ s3.sure /\ (s3.mine => s1.photos = s3.photos) /\ RowIsSound(s4, s5.used)
           /\ s1.open => Sound(s1.photos, s5.picked, s5.used)
    BY <1>2 DEF FormInv
  <2> QED BY <1>2, <1>3, <1>6, <1>9, <2>1, <2>2, <2>3, <2>4, <2>5 DEF FormInv
<1>10. CASE Form!Over(s1.photos)
  BY <1>2, <1>3, <1>10, StaysKeeps
<1>11. CASE /\ \A f \in todo : f.section # s
            /\ Form!Over([s1.photos EXCEPT ![s] = Form!SortedOut(s, done, failed)])
  <2>1. PICK r : r = Form!SortedOut(s, done, failed)
    OBVIOUS
  <2>2. PICK photos : photos = [s1.photos EXCEPT ![s] = r]
    OBVIOUS
  <2>3. Form!Over(photos)
    BY <1>11, <2>1, <2>2
  <2>4. CASE s \notin Form!Sections
    <3>1. photos = s1.photos
      BY <1>7, <2>2, <2>4 DEF Shown
    <3> QED BY <1>2, <1>3, <2>3, <3>1, StaysKeeps
  <2>5. CASE s \in Form!Sections
    <3>1. PICK old, saved \in Seq(Photo) : old = s1.photos[s] /\ saved = s3.photos[s]
      BY <1>7, <2>5 DEF Shown
    <3>3. r = SortedFrom(old, saved, done, failed)
      BY <2>1, <3>1, Zenon DEF Form!SortedOut, SortedFrom
    <3>4. r \in Seq(Photo)
      BY <3>3, SortedIs
    <3>5. photos \in Shown
      BY <1>7, <2>2, <2>5, <3>4 DEF Shown
    <3>6. ~s5.touched /\ s3.mine => Sound(photos, s5.picked, s5.used)
      <4> SUFFICES ASSUME ~s5.touched, s3.mine PROVE Sound(photos, s5.picked, s5.used)
        OBVIOUS
      <4>1. s3.sure /\ s1.photos = s3.photos /\ Sound(s1.photos, s5.picked, s5.used)
        BY <1>2 DEF FormInv, Waits
      <4>2. Apart(old) /\ Chosen(old) = s5.picked[s] /\ s5.picked[s] \subseteq s5.used \cup Ids
        BY <2>5, <3>1, <4>1 DEF Sound
      <4>3. Progress(q) /\ old = saved
        BY <1>8, <3>1, <4>1
      <4>4. done \cap failed = {}
        BY <1>6, <4>3 DEF Progress
      <4>5. Went(old, done, failed)
        <5> SUFFICES ASSUME NEW x \in Range(old), ~x.url PROVE x.pick \in done \cup failed
          BY DEF Went
        <5>1. PICK i \in DOMAIN old : old[i] = x
          BY PhotosAre
        <5>2. PICK f : f = [section |-> s, place |-> i]
          OBVIOUS
        <5>3. f.section = s
          BY <5>2
        <5>4. f \notin todo
          BY <1>11, <5>3
        <5>5. i \in DOMAIN q.photos[s] /\ q.photos[s][i] = x
          BY <1>6, <3>1, <4>3, <5>1
        <5> QED BY <1>6, <2>5, <4>3, <5>2, <5>4, <5>5 DEF Progress
      <4>6. /\ r \in Seq(Photo) /\ Apart(r) /\ Chosen(r) = Chosen(old)
            /\ \A x \in Range(r) : ~x.url => x \in Range(old)
        <5>1. r = SortedFrom(old, old, done, failed)
          BY <3>3, <4>3
        <5> QED BY <4>2, <4>4, <4>5, <5>1, SortedKeeps
      <4>7. WereThere(r, s1.photos[s], s5.used)
        BY <3>1, <4>6 DEF WereThere
      <4>8. IsChange(s5.picked, s5.picked, s, r)
        BY <4>2, <4>6 DEF IsChange
      <4>9. Chosen(r) \subseteq s5.used \cup Ids /\ s5.used \subseteq s5.used
        BY <4>2, <4>6
      <4> QED BY <1>7, <2>2, <2>5, <4>1, <4>6, <4>7, <4>8, <4>9, ChangeIsSound
    <3> QED BY <1>2, <1>3, <2>3, <3>5, <3>6, OverKeeps
  <2> QED BY <2>4, <2>5
<1> QED BY <1>4, <1>9, <1>10, <1>11

LEMMA FormBegins == Form!Init => FormInv
<1> SUFFICES ASSUME Form!Init PROVE FormInv
  OBVIOUS
<1>1. \A many \in [Form!Sections -> Nat] : \A taken :
         Form!RowWith(many) \in [Form!Sections -> Seq(Picture)] /\ RowIsSound(Form!RowWith(many), taken)
  <2> SUFFICES ASSUME NEW many \in [Form!Sections -> Nat], NEW taken
      PROVE  Form!RowWith(many) \in [Form!Sections -> Seq(Picture)] /\ RowIsSound(Form!RowWith(many), taken)
    OBVIOUS
  <2>1. ASSUME NEW s \in Form!Sections, NEW q, q = Form!RowWith(many)[s]
        PROVE  q \in Seq(Picture) /\ Once(q) /\ Range(q) \subseteq taken \cup Ids
    <3>1. PICK n \in Nat : n = many[s]
      OBVIOUS
    <3>2. q = [i \in 1 .. n |-> [section |-> s, number |-> i]]
      BY <2>1, <3>1 DEF Form!RowWith
    <3>3. \A i \in 1 .. n : [section |-> s, number |-> i] \in Ids
      BY DEF Ids
    <3>4. \A i \in 1 .. n : q[i] \in Ids
      BY <3>2, <3>3
    <3>5. q \in [1 .. n -> Ids]
      BY <3>2, <3>3
    <3>6. q \in Seq(Ids) /\ DOMAIN q = 1 .. n
      BY <3>5
    <3>7. q \in Seq(Picture)
      BY <3>5 DEF Picture
    <3>8. \A i, j \in 1 .. n : [section |-> s, number |-> i] = [section |-> s, number |-> j] => i = j
      OBVIOUS
    <3>9. \A i \in 1 .. n : q[i] = [section |-> s, number |-> i]
      BY <3>2
    <3>10. \A i, j \in 1 .. n : q[i] = q[j] => i = j
      <4> SUFFICES ASSUME NEW i \in 1 .. n, NEW j \in 1 .. n, q[i] = q[j] PROVE i = j
        OBVIOUS
      <4>1. [section |-> s, number |-> i] = [section |-> s, number |-> j]
        BY <3>9
      <4> QED BY <4>1
    <3>11. Once(q)
      BY <3>6, <3>10 DEF Once
    <3>12. Range(q) \subseteq Ids
      BY <3>4, <3>6 DEF Range
    <3> QED BY <3>7, <3>11, <3>12
  <2>2. Form!RowWith(many) \in [Form!Sections -> Seq(Picture)]
    <3>1. \A s \in Form!Sections : Form!RowWith(many)[s] \in Seq(Picture)
      BY <2>1
    <3> QED BY <3>1 DEF Form!RowWith
  <2> QED BY <2>1, <2>2 DEF RowIsSound
<1>2. Form!Painted \in [Form!Sections -> Nat] /\ Form!Announced \in [Form!Sections -> Nat]
  <2>1. INTERIOR_MIN \in Nat
    BY BrowserAssumption DEF BrowserAssumption, Form!PhotoAssumption
  <2> QED BY <2>1, SectionsAre DEF Form!Painted, Form!Announced
<1>3. \A taken : /\ Form!Nothing \in [Form!Sections -> Seq(Picture)]
                /\ RowIsSound(Form!Nothing, taken)
  <2>1. \A s \in Form!Sections : Form!Nothing[s] = << >>
    BY NothingIsSound
  <2>2. << >> \in Seq(Picture) /\ Once(<< >>) /\ Range(<< >>) = {}
    BY DEF Once, Range
  <2>3. Form!Nothing \in [Form!Sections -> Seq(Picture)]
    BY <2>2 DEF Form!Nothing
  <2> QED BY <2>1, <2>2, <2>3 DEF RowIsSound
<1>4. s4 \in [Form!Sections -> Seq(Picture)] /\ RowIsSound(s4, {})
  <2>1. s4 = Form!Nothing \/ s4 = Form!RowWith(Form!Painted) \/ s4 = Form!RowWith(Form!Announced)
    BY DEF Form!Init
  <2> QED BY <1>1, <1>2, <1>3, <2>1
<1>5. \E kind : s1 = Form!Opened(kind)
  BY DEF Form!Init
<1>6. PICK f, picked :
         /\ s1 = f /\ Form!PickedIn(f) = picked
         /\ IsForm(f) /\ f.open /\ picked \in Selections /\ Sound(f.photos, picked, {})
  BY <1>4, <1>5, OpensWith
<1>7. s5 = [picked |-> picked, touched |-> FALSE, used |-> {}, failures |-> 0]
  BY <1>6 DEF Form!Init
<1>8. IsHistory(s5) /\ ~s5.touched /\ s5.used = {} /\ s5.picked = picked
  BY <1>6, <1>7 DEF IsHistory
<1>9. s3 = Form!NoJob
  BY DEF Form!Init
<1>10. IsSave(s3) /\ s3.at = "none" /\ ~s3.mine
  BY <1>9, NoSave
<1> QED BY <1>4, <1>6, <1>8, <1>10 DEF FormInv, FormType, SaveIsSound, Waits

LEMMA SameCount == \A set : Form!Cardinality(set) = Cardinality(set)
BY Zenon DEF Form!Cardinality, Cardinality

\* What a save writes is what was picked when it began.
LEMMA SaveIsTrue == ASSUME FormInv, Form!Next PROVE Form!SavesWhatWasPicked
<1> SUFFICES ASSUME s4' # s4, s3.sure, NEW s \in Form!Sections, ~Form!Kept(s)
             PROVE  /\ Form!Range(s4'[s]) = s3.picked[s]
                    /\ Len(s4'[s]) = Cardinality(s3.picked[s])
  BY SameCount DEF Form!SavesWhatWasPicked
<1>1. Form!Written
  BY Zenon DEF Form!Next, Form!Select, Form!RemovePhoto, Form!Move, Form!Close, Form!Open,
         Form!handleSubmit, Form!Uploaded, Form!Fails, Form!Saved
<1>2. PICK r : r = Form!Of(s3.photos[s])
  OBVIOUS
<1>3. s4'[s] = r
  BY <1>1, <1>2, WrittenIs
<1>4. Sound(s3.photos, s3.picked, s5.used) /\ s3.photos \in Shown
  BY <1>1 DEF FormInv, FormType, IsSave, SaveIsSound, Form!Written
<1>5. r \in Seq(Picture) /\ Once(r) /\ Range(r) = s3.picked[s]
  BY <1>2, <1>4, OfSound
<1>6. Cardinality(s3.picked[s]) = Len(r)
  BY <1>5, OnceCounts
<1>7. Form!Range(r) = Range(r)
  BY DEF Form!Range, Range
<1> QED BY <1>3, <1>5, <1>6, <1>7

LEMMA FormStepKeeps ==
    ASSUME FormInv, [Form!Next]_formVars PROVE FormInv' /\ Form!SavesWhatWasPicked
<1>1. CASE UNCHANGED formVars
  <2>1. s1' = s1 /\ s3' = s3 /\ s4' = s4 /\ s5' = s5
    BY <1>1 DEF formVars
  <2>2. FormType' /\ SaveIsSound' /\ Waits'
    BY <2>1 DEF FormInv, FormType, SaveIsSound, Waits
  <2> QED BY <2>1, <2>2 DEF FormInv, Form!SavesWhatWasPicked
<1>2. CASE Form!Next
  <2> SUFFICES FormInv'
    BY <1>2, SaveIsTrue
  <2>1. CASE \E s \in Form!Sections, p \in Calls : Form!Select(s, p)
    BY <2>1, SelectKeeps
  <2>2. CASE \E s \in Form!Sections : \E i \in DOMAIN s1.photos[s] : Form!RemovePhoto(s, i)
    BY <2>2, RemoveKeeps
  <2>3. CASE \E i, to \in DOMAIN s1.photos["gallery"] : Form!Move(i, to)
    BY <2>3, MoveKeeps
  <2>4. CASE Form!Close
    BY <2>4, CloseKeeps
  <2>5. CASE Form!Open
    BY <2>5, ReopenKeeps
  <2>6. CASE Form!handleSubmit
    BY <2>6, SubmitKeeps
  <2>7. CASE \E next \in s3.todo, ok \in BOOLEAN : Form!Uploaded(next, ok)
    BY <2>7, UploadedKeeps
  <2>8. CASE Form!Written
    BY <2>8, WrittenKeeps
  <2>9. CASE Form!Fails
    BY <2>9, FailsKeeps
  <2>10. CASE Form!Saved
    BY <2>10, SavedKeeps
  <2> QED BY <1>2, <2>1, <2>2, <2>3, <2>4, <2>5, <2>6, <2>7, <2>8, <2>9, <2>10
          DEF Form!Next
<1> QED BY <1>1, <1>2

\* However many pictures and failures there are: a save of a form that nobody
\* touched while it was saved writes what was picked and not removed, each picture
\* once and in its section.  (CreatePaintingForm.tsx:295, AdminGiveawaysPage.tsx:279.)
THEOREM SavesAreWhatWasPicked == MCSpec => SavesWhatWasPicked
<1> DEFINE Inv == part = "form" => FormInv
           Meant == part = "form" => Form!SavesWhatWasPicked
<1>1. MCInit => Inv
  BY FormBegins DEF MCInit
<1>2. Inv /\ [MCNext]_all => Inv' /\ [Meant]_all
  <2> SUFFICES ASSUME Inv, [MCNext]_all PROVE Inv' /\ [Meant]_all
    OBVIOUS
  <2>1. part' = part /\ (part = "form" => [Form!Next]_formVars)
    BY DEF MCNext, FormStep, all, formVars
  <2>2. part = "form" => FormInv' /\ Form!SavesWhatWasPicked
    BY <2>1, FormStepKeeps
  <2> QED BY <2>1, <2>2
<1>3. SavesWhatWasPicked <=> [][Meant]_all
  BY PTL DEF SavesWhatWasPicked
<1> HIDE DEF Inv, Meant
<1> QED BY <1>1, <1>2, <1>3, PTL DEF MCSpec

-----------------------------------------------------------------------------
(* The order. *)

orderVars == <<s1, s2, s3, s4, s5, s6, s7>>

\* The sum of the prices; which prices these are is all that it depends on.
Cost(prices, works) == Order!SumFunctionOnSet(prices, works)

LEMMA CostIs == \A works : Order!CostOf(works) = Cost(s1.price, works)
BY DEF Order!CostOf, Cost

FirstPrices == [w \in Both |-> Order!Cheapest]

\* What the records hold; which works, cities and sums does not matter.
IsShop(s) ==
    s = [price |-> s.price, cart |-> s.cart, gone |-> s.gone, tariff |-> s.tariff, sender |-> s.sender]
IsPage(p) ==
    p = [cart |-> p.cart, total |-> p.total, city |-> p.city, warehouse |-> p.warehouse,
         provider |-> p.provider, pending |-> p.pending]
IsAsk(a) == a = [at |-> a.at, key |-> a.key, quote |-> a.quote]
IsCall(c) ==
    c = [at |-> c.at, city |-> c.city, cod |-> c.cod, items |-> c.items, cost |-> c.cost,
         quote |-> c.quote, answer |-> c.answer, shown |-> c.shown]
IsGhost(g) == g = [events |-> g.events, others |-> g.others] /\ g.others \in BOOLEAN

OrderType == IsShop(s1) /\ IsPage(s2) /\ IsAsk(s4) /\ IsCall(s5) /\ IsGhost(s7)

\* A quote for a parcel to the city, at the tariff and the prices there were.
Fair(q, city, cod) ==
    q = [city |-> city, cod |-> cod, works |-> q.works, cost |-> Cost(FirstPrices, q.works),
         tariff |-> 1]

\* While nobody else changes the shop: the page's total is that of the works it
\* shows, every quote is one for the city and the payment it is kept under, and
\* the order was sent with such a total and such a quote.
Undisturbed ==
    /\ s1.price = FirstPrices /\ s1.tariff = 1
    /\ s2.total = Cost(FirstPrices, s2.cart)
    /\ \A e \in s3 : Fair(e.quote, e.key.city, e.key.cod)
    /\ s4.at = "answered" /\ s4.quote # Order!NoQuote => Fair(s4.quote, s4.key.city, s4.key.cod)
    /\ s5.at # "none" =>
          /\ s5.shown.total = Cost(FirstPrices, s5.shown.cart)
          /\ s5.shown.quote # Order!NoQuote => Fair(s5.shown.quote, s5.city, s5.cod)
    /\ s5.at \in {"quote", "commit"} => s5.cost = Cost(FirstPrices, s5.items)
    /\ s5.at = "commit" => s5.quote.tariff = 1

\* The fee about to be saved is the one for the works, the city and the payment.
FeeIsOfParcel ==
    s5.at = "commit" =>
        s5.quote = [city |-> s5.city, cod |-> s5.cod, works |-> s5.items, cost |-> s5.cost,
                    tariff |-> s5.quote.tariff]

OrderInv ==
    /\ OrderType
    /\ ~s7.others => Undisturbed
    /\ FeeIsOfParcel
    /\ Order!ChargedAsShown

LEMMA OrderBegins == Order!Init => OrderInv
<1> SUFFICES ASSUME Order!Init PROVE OrderInv
  OBVIOUS
<1>1. OrderType
  BY DEF Order!Init, OrderType, IsShop, IsPage, IsAsk, IsCall, IsGhost, Order!Mounted, Order!NoAsk,
         Order!NoCall
<1>2. s1.price = FirstPrices /\ s1.tariff = 1
  BY DEF Order!Init, FirstPrices
<1>3. s2.total = Cost(FirstPrices, s2.cart)
  <2>1. s2.total = Order!CostOf(s1.cart) /\ s2.cart = s1.cart
    BY DEF Order!Init, Order!Mounted
  <2> QED BY <1>2, <2>1, CostIs
<1>4. s3 = {} /\ s4.at = "none" /\ s5.at = "none" /\ s6 = Order!NoOrder
  BY DEF Order!Init, Order!NoAsk, Order!NoCall
<1> QED BY <1>1, <1>2, <1>3, <1>4 DEF OrderInv, Undisturbed, FeeIsOfParcel,
        Order!ChargedAsShown, Order!placed

-----------------------------------------------------------------------------
(* Steps of others. *)

LEMMA OthersKeep ==
    ASSUME OrderInv, NEW next, IsShop(next), Order!Others(next)
    PROVE  OrderInv'
<1>1. s1' = next /\ s7' = [events |-> s7.events + 1, others |-> TRUE] /\ UNCHANGED <<s2, s3, s4, s5, s6>>
  BY DEF Order!Others
<1>2. OrderType'
  BY <1>1 DEF OrderInv, OrderType, IsGhost, IsShop, IsPage, IsAsk, IsCall
<1>3. s7'.others
  BY <1>1
<1> QED BY <1>1, <1>2, <1>3 DEF OrderInv, FeeIsOfParcel, Order!ChargedAsShown, Order!placed,
        Order!OfThisParcel

LEMMA OthersRight ==
    ASSUME OrderInv,
           \/ \E w \in Both : Order!Sell(w) \/ Order!OtherTab(w) \/ \E p \in OrderPrices : Order!SetPrice(w, p)
           \/ Order!SetTariff \/ \E there \in BOOLEAN : Order!SetSender(there)
    PROVE  OrderInv'
<1>0. IsShop(s1)
  BY DEF OrderInv, OrderType
<1>1. ASSUME NEW w \in Both, Order!Sell(w) PROVE OrderInv'
  <2>1. PICK next : next = [s1 EXCEPT !.gone = s1.gone \cup {w}]
    OBVIOUS
  <2>2. IsShop(next)
    BY <1>0, <2>1 DEF IsShop
  <2>3. Order!Others(next)
    BY <1>1, <2>1 DEF Order!Sell
  <2> QED BY <2>2, <2>3, OthersKeep
<1>2. ASSUME NEW w \in Both, Order!OtherTab(w) PROVE OrderInv'
  <2>1. PICK next : next = [s1 EXCEPT !.cart = IF w \in s1.cart THEN s1.cart \ {w} ELSE s1.cart \cup {w}]
    OBVIOUS
  <2>2. IsShop(next)
    BY <1>0, <2>1 DEF IsShop
  <2>3. Order!Others(next)
    BY <1>2, <2>1 DEF Order!OtherTab
  <2> QED BY <2>2, <2>3, OthersKeep
<1>3. ASSUME NEW w \in Both, NEW p \in OrderPrices, Order!SetPrice(w, p) PROVE OrderInv'
  <2>1. PICK prices : prices = [s1.price EXCEPT ![w] = p]
    OBVIOUS
  <2>2. PICK next : next = [s1 EXCEPT !.price = prices]
    OBVIOUS
  <2>3. IsShop(next)
    BY <1>0, <2>2 DEF IsShop
  <2>4. Order!Others(next)
    BY <1>3, <2>1, <2>2, Zenon DEF Order!SetPrice
  <2> QED BY <2>3, <2>4, OthersKeep
<1>4. ASSUME Order!SetTariff PROVE OrderInv'
  <2>1. PICK next : next = [s1 EXCEPT !.tariff = 2]
    OBVIOUS
  <2>2. IsShop(next)
    BY <1>0, <2>1 DEF IsShop
  <2>3. Order!Others(next)
    BY <1>4, <2>1 DEF Order!SetTariff
  <2> QED BY <2>2, <2>3, OthersKeep
<1>5. ASSUME NEW there \in BOOLEAN, Order!SetSender(there) PROVE OrderInv'
  <2>1. PICK next : next = [s1 EXCEPT !.sender = there]
    OBVIOUS
  <2>2. IsShop(next)
    BY <1>0, <2>1 DEF IsShop
  <2>3. Order!Others(next)
    BY <1>5, <2>1 DEF Order!SetSender
  <2> QED BY <2>2, <2>3, OthersKeep
<1> QED BY <1>1, <1>2, <1>3, <1>4, <1>5

-----------------------------------------------------------------------------
(* Steps of the page. *)

\* The page is changed but for the works it shows and their total.
LEMMA PageKeeps ==
    ASSUME OrderInv, IsPage(s2)', s2'.cart = s2.cart, s2'.total = s2.total,
           IsShop(s1)', s1'.price = s1.price, s1'.tariff = s1.tariff,
           UNCHANGED <<s3, s4, s5, s6, s7>>
    PROVE  OrderInv'
<1>1. OrderType'
  BY DEF OrderInv, OrderType, IsGhost, IsAsk, IsCall
<1>2. ~s7'.others => Undisturbed'
  BY DEF OrderInv, Undisturbed, Fair
<1> QED BY <1>1, <1>2 DEF OrderInv, FeeIsOfParcel, Order!ChargedAsShown, Order!placed,
        Order!OfThisParcel

LEMMA PageRight ==
    ASSUME OrderInv,
           \/ \E city \in Calls \cup {Order!None} : Order!PickCity(city)
           \/ \E provider \in {"CARD_TRANSFER", "CASH_ON_DELIVERY"} : Order!ChooseProvider(provider)
           \/ Order!PickWarehouse
    PROVE  OrderInv'
<1>0. IsShop(s1) /\ IsPage(s2)
  BY DEF OrderInv, OrderType
<1>1. ASSUME NEW city \in Calls \cup {Order!None}, Order!PickCity(city) PROVE OrderInv'
  <2>1. s2' = [s2 EXCEPT !.city = city, !.warehouse = Order!None] /\ UNCHANGED <<s1, s3, s4, s5, s6, s7>>
    BY <1>1 DEF Order!PickCity
  <2>2. IsPage(s2)' /\ s2'.cart = s2.cart /\ s2'.total = s2.total /\ IsShop(s1)'
    BY <1>0, <2>1 DEF IsPage, IsShop
  <2> QED BY <2>1, <2>2, PageKeeps
<1>2. ASSUME NEW provider, Order!ChooseProvider(provider) PROVE OrderInv'
  <2>1. s2' = [s2 EXCEPT !.provider = provider] /\ UNCHANGED <<s1, s3, s4, s5, s6, s7>>
    BY <1>2 DEF Order!ChooseProvider
  <2>2. IsPage(s2)' /\ s2'.cart = s2.cart /\ s2'.total = s2.total /\ IsShop(s1)'
    BY <1>0, <2>1 DEF IsPage, IsShop
  <2> QED BY <2>1, <2>2, PageKeeps
<1>3. ASSUME Order!PickWarehouse PROVE OrderInv'
  <2>1. s2' = [s2 EXCEPT !.warehouse = s2.city] /\ UNCHANGED <<s1, s3, s4, s5, s6, s7>>
    BY <1>3 DEF Order!PickWarehouse
  <2>2. IsPage(s2)' /\ s2'.cart = s2.cart /\ s2'.total = s2.total /\ IsShop(s1)'
    BY <1>0, <2>1 DEF IsPage, IsShop
  <2> QED BY <2>1, <2>2, PageKeeps
<1> QED BY <1>1, <1>2, <1>3

LEMMA ChangeCartRight ==
    ASSUME OrderInv, NEW w \in Both, Order!ChangeCart(w)
    PROVE  OrderInv'
<1>0. IsShop(s1) /\ IsPage(s2)
  BY DEF OrderInv, OrderType
<1>1. PICK cart : cart = IF w \in s1.cart THEN s1.cart \ {w} ELSE s1.cart \cup {w}
  OBVIOUS
<1>2. s1' = [s1 EXCEPT !.cart = cart] /\ UNCHANGED <<s3, s4, s5, s6, s7>>
  BY <1>1 DEF Order!ChangeCart
<1>3. IsShop(s1)' /\ s1'.price = s1.price /\ s1'.tariff = s1.tariff
  BY <1>0, <1>2 DEF IsShop
<1>4. s2' = s2 \/ s2' = Order!Mounted(s2.cart, s2.total)
  BY DEF Order!ChangeCart
<1>5. IsPage(s2)' /\ s2'.cart = s2.cart /\ s2'.total = s2.total
  BY <1>0, <1>4 DEF IsPage, Order!Mounted
<1> QED BY <1>2, <1>3, <1>5, PageKeeps

LEMMA RefetchCartRight ==
    ASSUME OrderInv, Order!RefetchCart
    PROVE  OrderInv'
<1>0. OrderType
  BY DEF OrderInv
<1>1. PICK total : total = Order!CostOf(s1.cart)
  OBVIOUS
<1>2. s2' = [s2 EXCEPT !.cart = s1.cart, !.total = total] /\ UNCHANGED <<s1, s3, s4, s5, s6, s7>>
  BY <1>1 DEF Order!RefetchCart
<1>3. total = Cost(s1.price, s1.cart)
  BY <1>1, CostIs
<1>4. IsPage(s2)' /\ s2'.cart = s1.cart /\ s2'.total = total
  BY <1>0, <1>2 DEF OrderType, IsPage
<1>5. OrderType'
  BY <1>0, <1>2, <1>4 DEF OrderType, IsShop, IsAsk, IsCall, IsGhost
<1>6. ~s7'.others => Undisturbed'
  BY <1>2, <1>3, <1>4 DEF OrderInv, Undisturbed, Fair
<1> QED BY <1>2, <1>5, <1>6 DEF OrderInv, FeeIsOfParcel, Order!ChargedAsShown, Order!placed,
        Order!OfThisParcel

-----------------------------------------------------------------------------
(* The quote that the page asks for. *)

\* The request is another; what it brought is a quote for what it asked for.
LEMMA AskKeeps ==
    ASSUME OrderInv, IsAsk(s4)', IsGhost(s7)', s7'.others = s7.others, UNCHANGED <<s1, s2, s5, s6>>,
           ~s7.others => \A e \in s3' : Fair(e.quote, e.key.city, e.key.cod),
           ~s7.others /\ s4'.at = "answered" /\ s4'.quote # Order!NoQuote =>
               Fair(s4'.quote, s4'.key.city, s4'.key.cod)
    PROVE  OrderInv'
<1>1. OrderType'
  BY DEF OrderInv, OrderType, IsShop, IsPage, IsCall
<1>2. ~s7'.others => Undisturbed'
  BY DEF OrderInv, Undisturbed, Fair
<1> QED BY <1>1, <1>2 DEF OrderInv, FeeIsOfParcel, Order!ChargedAsShown, Order!placed,
        Order!OfThisParcel

LEMMA AskPriceRight ==
    ASSUME OrderInv, Order!AskPrice
    PROVE  OrderInv'
<1>1. PICK key : key = Order!key
  OBVIOUS
<1>2. s4' = [Order!NoAsk EXCEPT !.at = "sent", !.key = key] /\ UNCHANGED <<s1, s2, s3, s5, s6, s7>>
  BY <1>1 DEF Order!AskPrice
<1>3. IsAsk(s4)' /\ s4'.at = "sent"
  BY <1>2 DEF IsAsk, Order!NoAsk
<1>4. ~s7.others => \A e \in s3' : Fair(e.quote, e.key.city, e.key.cod)
  BY <1>2 DEF OrderInv, Undisturbed
<1>5. IsGhost(s7)'
  BY <1>2 DEF OrderInv, OrderType, IsGhost
<1> QED BY <1>2, <1>3, <1>4, <1>5, AskKeeps

LEMMA ServePriceRight ==
    ASSUME OrderInv, Order!ServePrice
    PROVE  OrderInv'
<1>0. OrderType
  BY DEF OrderInv
<1>1. PICK cost : cost = Order!CostOf(s1.cart)
  OBVIOUS
<1>2. PICK quote : quote = IF s1.cart = {} THEN Order!NoQuote
                           ELSE Order!Quote(s4.key.city, s4.key.cod, s1.cart, cost)
  OBVIOUS
<1>3. s4' = [s4 EXCEPT !.at = "answered", !.quote = quote] /\ UNCHANGED <<s1, s2, s3, s5, s6, s7>>
  BY <1>1, <1>2 DEF Order!ServePrice
<1>4. IsAsk(s4)' /\ s4'.key = s4.key /\ s4'.quote = quote
  BY <1>0, <1>3 DEF OrderType, IsAsk
<1>5. quote # Order!NoQuote =>
        quote = [city |-> s4.key.city, cod |-> s4.key.cod, works |-> s1.cart, cost |-> cost,
                 tariff |-> s1.tariff]
  BY <1>2 DEF Order!Quote
<1>6. cost = Cost(s1.price, s1.cart)
  BY <1>1, CostIs
<1>7. ~s7.others => s1.price = FirstPrices /\ s1.tariff = 1
  BY DEF OrderInv, Undisturbed
<1>8. ~s7.others /\ quote # Order!NoQuote => Fair(quote, s4.key.city, s4.key.cod)
  BY <1>5, <1>6, <1>7 DEF Fair
<1>9. ~s7.others => \A e \in s3' : Fair(e.quote, e.key.city, e.key.cod)
  BY <1>3 DEF OrderInv, Undisturbed
<1>10. IsGhost(s7)'
  BY <1>0, <1>3 DEF OrderType, IsGhost
<1>11. ~s7.others /\ s4'.at = "answered" /\ s4'.quote # Order!NoQuote =>
          Fair(s4'.quote, s4'.key.city, s4'.key.cod)
  BY <1>4, <1>8 DEF Fair
<1> QED BY <1>3, <1>4, <1>9, <1>10, <1>11, AskKeeps

LEMMA FailPriceRight ==
    ASSUME OrderInv, Order!FailPrice
    PROVE  OrderInv'
<1>0. OrderType
  BY DEF OrderInv
<1>1. s4' = Order!NoAsk /\ UNCHANGED <<s1, s2, s3, s5, s6>>
  BY DEF Order!FailPrice
<1>2. IsAsk(s4)' /\ s4'.at = "none"
  BY <1>1 DEF IsAsk, Order!NoAsk
<1>3. s7' = s7 \/ s7' = [s7 EXCEPT !.events = s7.events + 1]
  BY DEF Order!FailPrice, Order!Event
<1>4. IsGhost(s7)' /\ s7'.others = s7.others
  BY <1>0, <1>3 DEF OrderType, IsGhost
<1>5. ~s7.others => \A e \in s3' : Fair(e.quote, e.key.city, e.key.cod)
  BY <1>1 DEF OrderInv, Undisturbed
<1> QED BY <1>1, <1>2, <1>4, <1>5, AskKeeps

LEMMA DeliverPriceRight ==
    ASSUME OrderInv, Order!DeliverPrice
    PROVE  OrderInv'
<1>0. OrderType
  BY DEF OrderInv
<1>1. s4.at = "answered" /\ s4' = Order!NoAsk /\ UNCHANGED <<s1, s2, s5, s6, s7>>
  BY DEF Order!DeliverPrice
<1>2. IsAsk(s4)' /\ s4'.at = "none"
  BY <1>1 DEF IsAsk, Order!NoAsk
<1>3. IsGhost(s7)'
  BY <1>0, <1>1 DEF OrderType, IsGhost
<1>4. \A e \in s3' : e \in s3 \/ (s4.quote # Order!NoQuote /\ e = [key |-> s4.key, quote |-> s4.quote])
  BY DEF Order!DeliverPrice
<1>5. ~s7.others => \A e \in s3' : Fair(e.quote, e.key.city, e.key.cod)
  <2> SUFFICES ASSUME ~s7.others, NEW e \in s3' PROVE Fair(e.quote, e.key.city, e.key.cod)
    OBVIOUS
  <2>1. Undisturbed
    BY DEF OrderInv
  <2>2. CASE e \in s3
    BY <2>1, <2>2 DEF Undisturbed
  <2>3. CASE e \notin s3
    <3>1. s4.quote # Order!NoQuote /\ e.key = s4.key /\ e.quote = s4.quote
      BY <1>4, <2>3
    <3>2. Fair(s4.quote, s4.key.city, s4.key.cod)
      BY <1>1, <2>1, <3>1 DEF Undisturbed
    <3> QED BY <3>1, <3>2
  <2> QED BY <2>2, <2>3
<1> QED BY <1>1, <1>2, <1>3, <1>5, AskKeeps

-----------------------------------------------------------------------------
(* The order. *)

\* A quote that is shown is one for the city and the payment chosen.
LEMMA ShownIsFair ==
    ASSUME Undisturbed, Order!deliveryPrice # Order!NoQuote
    PROVE  Fair(Order!deliveryPrice, s2.city, Order!cod)
<1> DEFINE found == {entry.quote : entry \in {e \in s3 : e.key = Order!key}}
<1>1. found # {} /\ Order!deliveryPrice = CHOOSE q \in found : TRUE
  BY DEF Order!deliveryPrice
<1>2. PICK q \in found : q = Order!deliveryPrice
  BY <1>1
<1>3. PICK e \in s3 : e.key = Order!key /\ e.quote = q
  BY <1>2
<1>4. Fair(e.quote, e.key.city, e.key.cod)
  BY DEF Undisturbed
<1>5. PICK key : key = Order!key
  OBVIOUS
<1>6. PICK cod : cod = Order!cod
  OBVIOUS
<1>7. key = [city |-> s2.city, cod |-> cod, total |-> s2.total]
  BY <1>5, <1>6 DEF Order!key
<1>8. Fair(q, s2.city, cod)
  BY <1>3, <1>4, <1>5, <1>7
<1> QED BY <1>2, <1>6, <1>8

LEMMA HandleCheckoutRight ==
    ASSUME OrderInv, Order!handleCheckout
    PROVE  OrderInv'
<1>0. OrderType
  BY DEF OrderInv
<1>1. PICK cod : cod = Order!cod
  OBVIOUS
<1>2. PICK quote : quote = Order!deliveryPrice
  OBVIOUS
<1>3. PICK shown : shown = [cart |-> s2.cart, total |-> s2.total, quote |-> quote]
  OBVIOUS
<1>4. /\ s2' = [s2 EXCEPT !.pending = TRUE]
      /\ s5' = [Order!NoCall EXCEPT !.at = "resolve", !.city = s2.city, !.cod = cod, !.shown = shown]
      /\ UNCHANGED <<s1, s3, s4, s6, s7>>
  BY <1>1, <1>2, <1>3, Zenon DEF Order!handleCheckout
<1>5. IsPage(s2)' /\ s2'.cart = s2.cart /\ s2'.total = s2.total
  BY <1>0, <1>4 DEF OrderType, IsPage
<1>6. PICK first : first = Order!NoCall
  OBVIOUS
<1>7. IsCall(first)
  BY <1>6 DEF IsCall, Order!NoCall
<1>8. PICK half : half = [first EXCEPT !.at = "resolve", !.city = s2.city]
  OBVIOUS
<1>9. IsCall(half) /\ half.at = "resolve" /\ half.city = s2.city
  BY <1>7, <1>8 DEF IsCall
<1>10. s5' = [half EXCEPT !.cod = cod, !.shown = shown]
  BY <1>4, <1>6, <1>8, Zenon
<1>11. IsCall(s5)' /\ s5'.at = "resolve" /\ s5'.city = s2.city /\ s5'.cod = cod /\ s5'.shown = shown
  BY <1>9, <1>10 DEF IsCall
<1>12. OrderType'
  BY <1>0, <1>4, <1>5, <1>11 DEF OrderType, IsShop, IsAsk, IsGhost
<1>13. ~s7.others /\ quote # Order!NoQuote => Fair(quote, s2.city, cod)
  BY <1>1, <1>2, ShownIsFair DEF OrderInv
<1>14. ~s7'.others => Undisturbed'
  BY <1>3, <1>4, <1>5, <1>11, <1>13 DEF OrderInv, Undisturbed
<1> QED BY <1>4, <1>11, <1>12, <1>14 DEF OrderInv, FeeIsOfParcel, Order!ChargedAsShown, Order!placed,
        Order!OfThisParcel

\* The call goes on, with what it was sent with.
LEMMA CallKeeps ==
    ASSUME OrderInv, IsCall(s5)', s5.at # "none", s5'.at # "none", s5'.city = s5.city, s5'.cod = s5.cod,
           s5'.shown = s5.shown, IsGhost(s7)', s7'.others = s7.others, UNCHANGED <<s1, s2, s3, s4, s6>>,
           FeeIsOfParcel',
           ~s7.others /\ s5'.at \in {"quote", "commit"} => s5'.cost = Cost(FirstPrices, s5'.items),
           ~s7.others /\ s5'.at = "commit" => s5'.quote.tariff = 1
    PROVE  OrderInv'
<1>1. OrderType'
  BY DEF OrderInv, OrderType, IsShop, IsPage, IsAsk
<1>2. ~s7'.others => Undisturbed'
  BY DEF OrderInv, Undisturbed
<1> QED BY <1>1, <1>2 DEF OrderInv, Order!ChargedAsShown, Order!placed, Order!OfThisParcel

LEMMA RefuseKeeps ==
    ASSUME OrderInv, NEW why, Order!Refuse(why), s5.at # "none", s7' = s7 \/ Order!Event,
           UNCHANGED <<s1, s2, s3, s4, s6>>
    PROVE  OrderInv'
<1>0. OrderType
  BY DEF OrderInv
<1>1. s5' = [s5 EXCEPT !.at = "answered", !.answer = why]
  BY DEF Order!Refuse
<1>2. IsCall(s5)' /\ s5'.at = "answered" /\ s5'.city = s5.city /\ s5'.cod = s5.cod /\ s5'.shown = s5.shown
  BY <1>0, <1>1 DEF OrderType, IsCall
<1>3. s7' = s7 \/ s7' = [s7 EXCEPT !.events = s7.events + 1]
  BY DEF Order!Event
<1>4. IsGhost(s7)' /\ s7'.others = s7.others
  BY <1>0, <1>3 DEF OrderType, IsGhost
<1>5. FeeIsOfParcel'
  BY <1>2 DEF FeeIsOfParcel
<1> QED BY <1>2, <1>4, <1>5, CallKeeps

LEMMA ResolveRight ==
    ASSUME OrderInv, Order!Resolve
    PROVE  OrderInv'
<1>0. OrderType
  BY DEF OrderInv
<1>1. s5.at = "resolve" /\ UNCHANGED <<s1, s2, s3, s4, s6>>
  BY DEF Order!Resolve
<1>2. ASSUME NEW why, Order!Refuse(why), Order!Event PROVE OrderInv'
  BY <1>1, <1>2, RefuseKeeps
<1>3. CASE s5' = [s5 EXCEPT !.at = "read"] /\ s7' = s7
  <2>1. IsCall(s5)' /\ s5'.at = "read" /\ s5'.city = s5.city /\ s5'.cod = s5.cod /\ s5'.shown = s5.shown
    BY <1>0, <1>3 DEF OrderType, IsCall
  <2>2. IsGhost(s7)' /\ FeeIsOfParcel'
    BY <1>0, <1>3, <2>1 DEF OrderType, IsGhost, FeeIsOfParcel
  <2> QED BY <1>1, <1>3, <2>1, <2>2, CallKeeps
<1> QED BY <1>2, <1>3 DEF Order!Resolve, Order!Unavailable

LEMMA ReadCartRight ==
    ASSUME OrderInv, Order!ReadCart
    PROVE  OrderInv'
<1>0. OrderType
  BY DEF OrderInv
<1>1. s5.at = "read" /\ UNCHANGED <<s1, s2, s3, s4, s6, s7>>
  BY DEF Order!ReadCart
<1>2. CASE Order!Refuse("empty")
  BY <1>1, <1>2, RefuseKeeps
<1>3. CASE s5' = [s5 EXCEPT !.at = "quote", !.items = s1.cart, !.cost = Order!CostOf(s1.cart)]
  <2>1. PICK cost : cost = Order!CostOf(s1.cart)
    OBVIOUS
  <2>2. s5' = [s5 EXCEPT !.at = "quote", !.items = s1.cart, !.cost = cost]
    BY <1>3, <2>1
  <2>3. /\ IsCall(s5)' /\ s5'.at = "quote" /\ s5'.city = s5.city /\ s5'.cod = s5.cod
        /\ s5'.shown = s5.shown /\ s5'.items = s1.cart /\ s5'.cost = cost
    BY <1>0, <2>2 DEF OrderType, IsCall
  <2>4. IsGhost(s7)' /\ FeeIsOfParcel'
    BY <1>0, <1>1, <2>3 DEF OrderType, IsGhost, FeeIsOfParcel
  <2>5. cost = Cost(s1.price, s1.cart)
    BY <2>1, CostIs
  <2>6. ~s7.others => s5'.cost = Cost(FirstPrices, s5'.items)
    BY <2>3, <2>5 DEF OrderInv, Undisturbed
  <2> QED BY <1>1, <2>3, <2>4, <2>6, CallKeeps
<1> QED BY <1>2, <1>3 DEF Order!ReadCart

LEMMA PriceRight ==
    ASSUME OrderInv, Order!Price
    PROVE  OrderInv'
<1>0. OrderType
  BY DEF OrderInv
<1>1. s5.at = "quote" /\ UNCHANGED <<s1, s2, s3, s4, s6>>
  BY DEF Order!Price
<1>2. CASE Order!Refuse("unavailable") /\ (s7' = s7 \/ Order!Event)
  BY <1>1, <1>2, RefuseKeeps
<1>3. CASE Order!Priced(Order!Quote(s5.city, s5.cod, s5.items, s5.cost)) /\ s7' = s7
  <2>1. PICK quote : quote = Order!Quote(s5.city, s5.cod, s5.items, s5.cost)
    OBVIOUS
  <2>2. s5' = [s5 EXCEPT !.at = "commit", !.quote = quote]
    BY <1>3, <2>1 DEF Order!Priced
  <2>3. /\ IsCall(s5)' /\ s5'.at = "commit" /\ s5'.city = s5.city /\ s5'.cod = s5.cod
        /\ s5'.shown = s5.shown /\ s5'.items = s5.items /\ s5'.cost = s5.cost /\ s5'.quote = quote
    BY <1>0, <2>2 DEF OrderType, IsCall
  <2>4. quote = [city |-> s5.city, cod |-> s5.cod, works |-> s5.items, cost |-> s5.cost,
                 tariff |-> s1.tariff]
    BY <2>1 DEF Order!Quote
  <2>5. IsGhost(s7)'
    BY <1>0, <1>3 DEF OrderType, IsGhost
  <2>6. FeeIsOfParcel'
    BY <2>3, <2>4 DEF FeeIsOfParcel
  <2>7. ~s7.others => s5'.cost = Cost(FirstPrices, s5'.items) /\ s5'.quote.tariff = 1
    BY <1>1, <2>3, <2>4 DEF OrderInv, Undisturbed
  <2> QED BY <1>1, <1>3, <2>3, <2>5, <2>6, <2>7, CallKeeps
<1> QED BY <1>2, <1>3 DEF Order!Price, Order!Unavailable

LEMMA CommitRight ==
    ASSUME OrderInv, Order!Commit
    PROVE  OrderInv'
<1>0. OrderType
  BY DEF OrderInv
<1>1. s5.at = "commit" /\ UNCHANGED <<s2, s3, s4, s7>>
  BY DEF Order!Commit
<1>2. CASE Order!Refuse("soldOut") /\ UNCHANGED <<s1, s6>>
  BY <1>1, <1>2, RefuseKeeps
<1>3. CASE s5.items \cap s1.gone = {}
  <2>1. PICK total : total = Order!CostOf(s5.items)
    OBVIOUS
  <2>2. /\ s5' = [s5 EXCEPT !.at = "answered", !.answer = "placed"]
        /\ s6' = [items |-> s5.items, itemsTotal |-> total, city |-> s5.city, cod |-> s5.cod,
                  fee |-> s5.quote, shown |-> s5.shown, others |-> s7.others]
        /\ s1' = [s1 EXCEPT !.cart = {}, !.gone = s1.gone \cup s5.items]
    BY <1>3, <2>1 DEF Order!Commit, Order!Refuse
  <2>3. IsCall(s5)' /\ s5'.at = "answered" /\ s5'.city = s5.city /\ s5'.cod = s5.cod /\ s5'.shown = s5.shown
    BY <1>0, <2>2 DEF OrderType, IsCall
  <2>4. IsShop(s1)' /\ s1'.price = s1.price /\ s1'.tariff = s1.tariff
    BY <1>0, <2>2 DEF OrderType, IsShop
  <2>5. OrderType'
    BY <1>0, <1>1, <2>3, <2>4 DEF OrderType, IsPage, IsAsk, IsGhost
  <2>6. ~s7'.others => Undisturbed'
    BY <1>1, <2>3, <2>4 DEF OrderInv, Undisturbed
  <2>7. total = Cost(s1.price, s5.items)
    BY <2>1, CostIs
  <2>8. s5.quote = [city |-> s5.city, cod |-> s5.cod, works |-> s5.items, cost |-> s5.cost,
                    tariff |-> s5.quote.tariff]
    BY <1>1 DEF OrderInv, FeeIsOfParcel
  <2>9. Order!OfThisParcel'
    BY <2>2, <2>8 DEF Order!OfThisParcel
  <2>10. ASSUME ~s7.others, s5.shown.cart = s5.items, s5.shown.quote # Order!NoQuote
         PROVE  /\ s5.shown.total = total
                /\ s5.shown.quote.works = s5.items => s5.shown.quote = s5.quote
    <3>1. Undisturbed
      BY <2>10 DEF OrderInv
    <3>2. s5.shown.total = total
      BY <1>1, <2>7, <2>10, <3>1 DEF Undisturbed
    <3>3. /\ Fair(s5.shown.quote, s5.city, s5.cod) /\ s5.cost = Cost(FirstPrices, s5.items)
          /\ s5.quote.tariff = 1
      BY <1>1, <2>10, <3>1 DEF Undisturbed
    <3> QED BY <2>8, <3>2, <3>3 DEF Fair
  <2>11. Order!ChargedAsShown'
    BY <2>2, <2>9, <2>10 DEF Order!ChargedAsShown
  <2> QED BY <2>3, <2>5, <2>6, <2>11 DEF OrderInv, FeeIsOfParcel
<1> QED BY <1>2, <1>3 DEF Order!Commit

LEMMA AnsweredRight ==
    ASSUME OrderInv, Order!Answered
    PROVE  OrderInv'
<1>0. OrderType
  BY DEF OrderInv
<1>1. s5' = Order!NoCall /\ UNCHANGED <<s1, s3, s4, s6, s7>>
  BY DEF Order!Answered
<1>2. s2' = Order!Mounted(s2.cart, s2.total) \/ s2' = [s2 EXCEPT !.pending = FALSE]
  BY DEF Order!Answered
<1>3. IsPage(s2)' /\ s2'.cart = s2.cart /\ s2'.total = s2.total
  BY <1>0, <1>2 DEF OrderType, IsPage, Order!Mounted
<1>4. IsCall(s5)' /\ s5'.at = "none"
  BY <1>1 DEF IsCall, Order!NoCall
<1>5. OrderType'
  BY <1>0, <1>1, <1>3, <1>4 DEF OrderType, IsShop, IsAsk, IsGhost
<1>6. ~s7'.others => Undisturbed'
  BY <1>1, <1>3, <1>4 DEF OrderInv, Undisturbed
<1> QED BY <1>1, <1>4, <1>5, <1>6 DEF OrderInv, FeeIsOfParcel, Order!ChargedAsShown, Order!placed,
        Order!OfThisParcel

LEMMA LoseAnswerRight ==
    ASSUME OrderInv, Order!LoseAnswer
    PROVE  OrderInv'
BY RefuseKeeps DEF Order!LoseAnswer

LEMMA OrderStepKeeps ==
    ASSUME OrderInv, [Order!Next]_orderVars
    PROVE  OrderInv'
<1>1. CASE UNCHANGED orderVars
  BY <1>1 DEF orderVars, OrderInv, OrderType, IsShop, IsPage, IsAsk, IsCall, IsGhost, Undisturbed,
          FeeIsOfParcel, Order!ChargedAsShown, Order!placed, Order!OfThisParcel
<1> QED BY <1>1, OthersRight, PageRight, ChangeCartRight, RefetchCartRight, AskPriceRight, ServePriceRight,
        FailPriceRight, DeliverPriceRight, HandleCheckoutRight, ResolveRight, ReadCartRight, PriceRight,
        CommitRight, AnsweredRight, LoseAnswerRight DEF Order!Next

\* The inductive invariant: while nobody else changes the shop, what is shown,
\* kept, asked for and sent is of the same prices.
LEMMA OrderInvariant == MCSpec => [](part = "order" => OrderInv)
<1> DEFINE Inv == part = "order" => OrderInv
<1>1. MCInit => Inv
  BY OrderBegins DEF MCInit
<1>2. Inv /\ [MCNext]_all => Inv'
  <2> SUFFICES ASSUME Inv, [MCNext]_all PROVE Inv'
    OBVIOUS
  <2>1. part' = part /\ (part = "order" => [Order!Next]_orderVars)
    BY DEF MCNext, OrderStep, all, orderVars
  <2> QED BY <2>1, OrderStepKeeps
<1> HIDE DEF Inv
<1>3. MCSpec => []Inv
  BY <1>1, <1>2, PTL DEF MCSpec
<1> QED BY <1>3 DEF Inv

\* An order pays what the carrier asked for its parcel, and what the page showed
\* when it was sent if nobody else changed the shop.  (CartPage.tsx and
\* OrdersService.checkout().)
THEOREM PriceIsAsShown == MCSpec => []ChargedAsShown
<1>1. (part = "order" => OrderInv) => ChargedAsShown
  BY DEF OrderInv, ChargedAsShown
<1> QED BY <1>1, OrderInvariant, PTL

-----------------------------------------------------------------------------
(* From one page on to the next. *)

walk == <<s1, s2, s3, s4, s5, s6, s7>>

Bar == [target : Int, value : Int, frame : BOOLEAN, idle : Int, arrived : BOOLEAN,
        ready : BOOLEAN]
ByWheel == [armed : BOOLEAN, since : Int, grew : Int]
Finger == [finger : BOOLEAN, y : BOOLEAN, touching : BOOLEAN, down : BOOLEAN]
Ghost == [turns : Nat, here : BOOLEAN]

WalkType == s3 \in Bar /\ s4 \in ByWheel /\ s5 \in Finger /\ s7 \in Ghost

Bare(bar) == bar.target = 0 /\ bar.value = 0 /\ ~bar.arrived

\* The page was turned in this burst: it is about to come, or it came and its bar
\* is empty and has yet to be armed.
TurnedOnce ==
    s7.turns # 0 => s7.turns = 1 /\ (s3.arrived \/ (Bare(s3) /\ ~s4.armed))

\* A finger that was put down on a page with a bar is known to be down; the last
\* page has no bar.
FingerKnown ==
    /\ s7.here /\ s5.finger => s5.down \/ s1 = Walk!Last
    /\ s1 = Walk!Last => Bare(s3) /\ ~s5.down

WalkInv == WalkType /\ TurnedOnce /\ FingerKnown

-----------------------------------------------------------------------------

LEMMA WalkMoments ==
    /\ FILL \in Nat /\ FILL # 0 /\ WHEEL_QUIET \in Int
    /\ IDLE_DECAY \in Int
BY BrowserAssumption DEF BrowserAssumption, Walk!ScrollAssumption

LEMMA LeastOfTwo ==
    ASSUME NEW a \in Int, NEW b \in Int
    PROVE  Walk!Min({a, b}) = IF a <= b THEN a ELSE b
<1>1. \E m \in {a, b} : \A y \in {a, b} : m <= y
  OBVIOUS
<1>2. Walk!Min({a, b}) \in {a, b} /\ \A y \in {a, b} : Walk!Min({a, b}) <= y
  BY <1>1 DEF Walk!Min
<1> QED BY <1>2

LEMMA MostOfTwo ==
    ASSUME NEW a \in Int, NEW b \in Int
    PROVE  Walk!Max({a, b}) = IF a <= b THEN b ELSE a
<1>1. \E m \in {a, b} : \A y \in {a, b} : m >= y
  OBVIOUS
<1>2. Walk!Max({a, b}) \in {a, b} /\ \A y \in {a, b} : Walk!Max({a, b}) >= y
  BY <1>1 DEF Walk!Max
<1> QED BY <1>2

\* Letting go turns nothing, and empties nothing that was not.
LEMMA LetGoDoes ==
    ASSUME NEW b \in Bar
    PROVE  /\ Walk!LetGo(b) \in Bar
           /\ Walk!LetGo(b).arrived = b.arrived
           /\ Bare(b) => Bare(Walk!LetGo(b))
<1>1. PICK frame \in BOOLEAN : frame = (b.frame \/ b.target # 0)
  BY DEF Bar
<1>2. Walk!LetGo(b) = [b EXCEPT !.target = 0, !.frame = frame]
  BY <1>1 DEF Walk!LetGo
<1>3. PICK q : q = [b EXCEPT !.target = 0, !.frame = frame]
  OBVIOUS
<1>5. q = [target |-> 0, value |-> b.value, frame |-> frame, idle |-> b.idle,
           arrived |-> b.arrived, ready |-> b.ready]
  BY <1>3 DEF Bar
<1>4. q \in Bar /\ q.arrived = b.arrived /\ q.target = 0 /\ q.value = b.value
  BY <1>5 DEF Bar
<1> QED BY <1>2, <1>3, <1>4 DEF Bare

\* A push never turns a page either.
LEMMA DisarmedIs == s4 \in ByWheel => Walk!Disarmed \in ByWheel /\ ~Walk!Disarmed.armed
<1> SUFFICES ASSUME s4 \in ByWheel PROVE Walk!Disarmed \in ByWheel /\ ~Walk!Disarmed.armed
  OBVIOUS
<1>1. PICK off \in Int : off = Walk!Off
  BY DEF Walk!Off
<1>2. PICK q : q = [s4 EXCEPT !.armed = FALSE, !.grew = off]
  OBVIOUS
<1>3. q \in ByWheel /\ q.armed = FALSE
  BY <1>2 DEF ByWheel
<1> QED BY <1>1, <1>2, <1>3 DEF Walk!Disarmed

LEMMA PushedDoes ==
    ASSUME NEW b \in Bar, NEW delta \in Int, NEW down \in BOOLEAN
    PROVE  /\ Walk!Pushed(b, delta, down) \in Bar
           /\ Walk!Pushed(b, delta, down).arrived = b.arrived
<1>1. PICK sum \in Int : sum = b.target + delta
  BY DEF Bar
<1>2. PICK low \in Int : low = Walk!Min({FILL, sum})
  BY LeastOfTwo, WalkMoments
<1>3. PICK target \in Int : target = Walk!Max({0, low})
  BY MostOfTwo
<1>4. PICK ready \in BOOLEAN : ready = (b.ready /\ target = FILL)
  BY DEF Bar
<1>5. PICK idle \in Int : idle = IF target = FILL \/ down THEN Walk!Off ELSE IDLE_DECAY
  BY WalkMoments DEF Walk!Off
<1>6. Walk!Pushed(b, delta, down)
        = [b EXCEPT !.target = target, !.ready = ready, !.idle = idle, !.frame = TRUE]
  BY <1>1, <1>2, <1>3, <1>4, <1>5 DEF Walk!Pushed
<1>7. PICK q : q = [b EXCEPT !.target = target, !.ready = ready, !.idle = idle, !.frame = TRUE]
  OBVIOUS
<1>8. q = [target |-> target, value |-> b.value, frame |-> TRUE, idle |-> idle,
           arrived |-> b.arrived, ready |-> ready]
  BY <1>7 DEF Bar
<1>9. q \in Bar /\ q.arrived = b.arrived
  BY <1>8 DEF Bar
<1> QED BY <1>6, <1>7, <1>9

\* Elsewhere than on the last page.
LEMMA WalkMoves ==
    ASSUME WalkInv, s1 # Walk!Last, s1' = s1, s3' \in Bar, s4' \in ByWheel, s5' \in Finger,
           s7' \in Ghost, TurnedOnce', s7'.here /\ s5'.finger => s5'.down
    PROVE  WalkInv'
BY DEF WalkInv, WalkType, FingerKnown

LEMMA WheelKeeps ==
    ASSUME WalkInv, NEW delta \in Walk!Deltas, Walk!Wheel(delta)
    PROVE  WalkInv' /\ s3'.arrived = s3.arrived
<1>0. WalkType /\ TurnedOnce /\ FingerKnown /\ s1 # Walk!Last
  BY DEF WalkInv, Walk!Wheel, Walk!listening
<1>1. s5' = [s5 EXCEPT !.touching = FALSE] /\ UNCHANGED s1
  BY DEF Walk!Wheel
<1>2. s5' \in Finger /\ s5'.down = s5.down /\ s5'.finger = s5.finger
  BY <1>0, <1>1 DEF WalkType, Finger
<1>3. PICK turns \in Nat : turns = IF s4.since \in {Walk!Off, WHEEL_QUIET} THEN 0 ELSE s7.turns
  BY <1>0 DEF WalkType, Ghost
<1>4. s7' = [s7 EXCEPT !.turns = turns]
  BY <1>3 DEF Walk!Wheel
<1>5. s7' \in Ghost /\ s7'.turns = turns /\ s7'.here = s7.here
  BY <1>0, <1>3, <1>4 DEF WalkType, Ghost
<1>6. delta \in Int
  BY WalkMoments DEF Walk!Deltas
<1>7. PICK armed \in BOOLEAN : armed = (s4.armed \/ Walk!Arms)
  BY <1>0 DEF WalkType, ByWheel, Walk!Arms
<1>8. PICK grew \in Int : grew = IF Walk!Arms THEN Walk!Off ELSE s4.grew
  BY <1>0 DEF WalkType, ByWheel, Walk!Off
<1>9. PICK step \in Int : step = Walk!Min({delta, IF grew = Walk!Off THEN 0 ELSE grew})
  BY <1>6, LeastOfTwo
<1>10. PICK grows \in BOOLEAN :
          grows = (~s3.arrived /\ Walk!atBottom(FALSE) /\ delta > 0 /\ armed)
  BY <1>6, <1>7 DEF Walk!atBottom
<1>11. /\ s4' = IF ~s3.arrived /\ ~Walk!atBottom(FALSE)
                THEN [Walk!Disarmed EXCEPT !.since = 0]
                ELSE [armed |-> armed, since |-> 0, grew |-> IF grows THEN 0 ELSE grew]
       /\ s3' = IF s3.arrived THEN s3
                ELSE IF ~Walk!atBottom(FALSE) THEN Walk!LetGo(s3)
                ELSE IF delta < 0 THEN IF s3.target = 0 THEN s3 ELSE Walk!Pushed(s3, delta, s5.down)
                ELSE IF grows THEN [s3 EXCEPT !.target = Walk!Min({FILL, @ + step}),
                                              !.idle = IDLE_DECAY, !.frame = TRUE]
                ELSE s3
  BY <1>7, <1>8, <1>9, <1>10 DEF Walk!Wheel
<1>12. s4' \in ByWheel /\ (s4'.armed => armed)
  <2>1. CASE ~s3.arrived /\ ~Walk!atBottom(FALSE)
    <3>1. PICK off \in Int : off = Walk!Off
      BY DEF Walk!Off
    <3>2. PICK q : q = [s4 EXCEPT !.armed = FALSE, !.grew = off]
      OBVIOUS
    <3>3. q \in ByWheel /\ q.armed = FALSE
      BY <1>0, <3>2 DEF WalkType, ByWheel
    <3>4. s4' = [q EXCEPT !.since = 0]
      BY <1>11, <2>1, <3>1, <3>2 DEF Walk!Disarmed
    <3> QED BY <3>3, <3>4 DEF ByWheel
  <2>2. CASE s3.arrived \/ Walk!atBottom(FALSE)
    <3>1. PICK new \in Int : new = IF grows THEN 0 ELSE grew
      OBVIOUS
    <3>2. s4' = [armed |-> armed, since |-> 0, grew |-> new]
      BY <1>11, <2>2, <3>1
    <3> QED BY <3>2 DEF ByWheel
  <2> QED BY <2>1, <2>2
<1>13. s3 \in Bar
  BY <1>0 DEF WalkType
<1>14. /\ s3' \in Bar /\ s3'.arrived = s3.arrived
       /\ Bare(s3) /\ ~armed => Bare(s3')
  <2>1. CASE s3' = s3
    BY <1>13, <2>1
  <2>2. CASE s3' = Walk!LetGo(s3)
    BY <1>13, <2>2, LetGoDoes
  <2>3. CASE s3.target # 0 /\ s3' = Walk!Pushed(s3, delta, s5.down)
    <3>1. s5.down \in BOOLEAN
      BY <1>0 DEF WalkType, Finger
    <3> QED BY <1>6, <1>13, <2>3, <3>1, PushedDoes DEF Bare
  <2>4. CASE grows /\ s3' = [s3 EXCEPT !.target = Walk!Min({FILL, @ + step}),
                                       !.idle = IDLE_DECAY, !.frame = TRUE]
    <3>1. PICK sum \in Int : sum = s3.target + step
      BY <1>13 DEF Bar
    <3>2. PICK target \in Int : target = Walk!Min({FILL, sum})
      BY LeastOfTwo, WalkMoments
    <3>3. PICK idle \in Int : idle = IDLE_DECAY
      BY WalkMoments
    <3>4. s3' = [s3 EXCEPT !.target = target, !.idle = idle, !.frame = TRUE]
      BY <2>4, <3>1, <3>2, <3>3
    <3>5. s3' \in Bar /\ s3'.arrived = s3.arrived
      BY <1>13, <3>4 DEF Bar
    <3> QED BY <1>10, <2>4, <3>5
  <2> QED BY <1>11, <2>1, <2>2, <2>3, <2>4
<1>15. TurnedOnce'
  <2>1. turns # 0 => turns = s7.turns /\ ~Walk!Arms
    BY <1>3 DEF Walk!Arms
  <2>2. turns # 0 => armed = s4.armed
    BY <1>0, <1>7, <2>1 DEF WalkType, ByWheel
  <2> QED BY <1>0, <1>5, <1>12, <1>14, <2>1, <2>2 DEF TurnedOnce
<1> QED BY <1>0, <1>1, <1>2, <1>5, <1>12, <1>14, <1>15, WalkMoves DEF FingerKnown

LEMMA TouchMoveKeeps ==
    ASSUME WalkInv, NEW delta \in Walk!Deltas, Walk!TouchMove(delta)
    PROVE  WalkInv' /\ s3'.arrived = s3.arrived
<1>0. WalkType /\ TurnedOnce /\ FingerKnown /\ s1 # Walk!Last
  BY DEF WalkInv, Walk!TouchMove, Walk!listening
<1>1. s7' = [s7 EXCEPT !.turns = 0] /\ UNCHANGED <<s1, s5>>
  BY DEF Walk!TouchMove
<1>2. s7' \in Ghost /\ s7'.turns = 0 /\ s7'.here = s7.here
  BY <1>0, <1>1 DEF WalkType, Ghost
<1>3. delta \in Int /\ s3 \in Bar /\ s5.down \in BOOLEAN
  BY <1>0, WalkMoments DEF Walk!Deltas, WalkType, Finger
<1>4. \/ s3' = s3 /\ s4' = s4
      \/ s3' = Walk!Pushed(s3, delta, s5.down) /\ s4' = s4
      \/ s3' = Walk!LetGo(s3) /\ s4' = Walk!Disarmed
  BY DEF Walk!TouchMove
<1>5. s3' \in Bar /\ s3'.arrived = s3.arrived
  BY <1>3, <1>4, PushedDoes, LetGoDoes
<1>6. s4' \in ByWheel
  BY <1>0, <1>4, DisarmedIs DEF WalkType
<1>7. TurnedOnce'
  BY <1>2 DEF TurnedOnce
<1> QED BY <1>0, <1>1, <1>2, <1>5, <1>6, <1>7, WalkMoves DEF FingerKnown, WalkType

LEMMA TouchStartKeeps ==
    ASSUME WalkInv, Walk!TouchStart
    PROVE  WalkInv' /\ s3'.arrived = s3.arrived
<1>0. WalkType /\ TurnedOnce /\ FingerKnown
  BY DEF WalkInv
<1>1. s7' = [s7 EXCEPT !.here = TRUE] /\ UNCHANGED <<s1, s4>>
  BY DEF Walk!TouchStart
<1>2. s7' \in Ghost /\ s7'.turns = s7.turns
  BY <1>0, <1>1 DEF WalkType, Ghost
<1>3. CASE s1 # Walk!Last
  <2>1. /\ s5' = [finger |-> TRUE, y |-> TRUE, touching |-> TRUE, down |-> TRUE]
        /\ s3' = [s3 EXCEPT !.idle = Walk!Off]
    BY <1>3 DEF Walk!TouchStart, Walk!listening
  <2>2. s5' \in Finger /\ s5'.down
    BY <2>1 DEF Finger
  <2>3. s3' \in Bar /\ s3'.arrived = s3.arrived /\ (Bare(s3) => Bare(s3'))
    BY <1>0, <2>1 DEF WalkType, Bar, Bare, Walk!Off
  <2>4. TurnedOnce'
    BY <1>0, <1>1, <1>2, <2>3 DEF TurnedOnce
  <2> QED BY <1>0, <1>1, <1>2, <1>3, <2>2, <2>3, <2>4, WalkMoves DEF WalkType
<1>4. CASE s1 = Walk!Last
  <2>1. s5' = [s5 EXCEPT !.finger = TRUE] /\ s3' = s3
    BY <1>4 DEF Walk!TouchStart, Walk!listening
  <2>2. s5' \in Finger /\ s5'.down = s5.down
    BY <1>0, <2>1 DEF WalkType, Finger
  <2> QED BY <1>0, <1>1, <1>2, <1>4, <2>1, <2>2 DEF WalkInv, WalkType, TurnedOnce, FingerKnown, Bare
<1> QED BY <1>3, <1>4

LEMMA TouchEndKeeps ==
    ASSUME WalkInv, Walk!TouchEnd
    PROVE  WalkInv' /\ s3'.arrived = s3.arrived
<1>0. WalkType /\ TurnedOnce /\ FingerKnown
  BY DEF WalkInv
<1>1. s7' = [s7 EXCEPT !.here = FALSE] /\ UNCHANGED <<s1, s4>>
  BY DEF Walk!TouchEnd
<1>2. s7' \in Ghost /\ s7'.turns = s7.turns /\ s7'.here = FALSE
  BY <1>0, <1>1 DEF WalkType, Ghost
<1>3. PICK y \in BOOLEAN : y = (s5.y /\ ~Walk!listening)
  BY <1>0 DEF WalkType, Finger, Walk!listening
<1>4. s5' = [s5 EXCEPT !.finger = FALSE, !.y = y, !.down = FALSE]
  BY <1>3 DEF Walk!TouchEnd
<1>5. s5' \in Finger /\ s5'.down = FALSE
  BY <1>0, <1>4 DEF WalkType, Finger
<1>6. s3' \in Bar /\ s3'.arrived = s3.arrived /\ (Bare(s3) => Bare(s3'))
  <2>1. CASE s3' = s3
    BY <1>0, <2>1 DEF WalkType
  <2>2. CASE s3' # s3
    <3>1. PICK target \in Int : target = IF s3.target < FILL THEN 0 ELSE s3.target
      BY <1>0 DEF WalkType, Bar
    <3>2. s3' = [s3 EXCEPT !.ready = FALSE, !.target = target, !.frame = TRUE]
      BY <2>2, <3>1 DEF Walk!TouchEnd
    <3>3. s3' \in Bar /\ s3'.arrived = s3.arrived /\ s3'.target = target /\ s3'.value = s3.value
      BY <1>0, <3>2 DEF WalkType, Bar
    <3> QED BY <3>1, <3>3 DEF Bare
  <2> QED BY <2>1, <2>2
<1> QED BY <1>0, <1>1, <1>2, <1>5, <1>6 DEF WalkInv, WalkType, TurnedOnce, FingerKnown

LEMMA ScrollKeeps ==
    ASSUME WalkInv, NEW to \in Walk!Places, Walk!Scroll(to)
    PROVE  WalkInv' /\ s3'.arrived = s3.arrived
<1>0. WalkType /\ TurnedOnce /\ FingerKnown
  BY DEF WalkInv
<1>1. UNCHANGED <<s1, s5, s7>>
  BY DEF Walk!Scroll
<1>2. CASE UNCHANGED <<s3, s4>>
  BY <1>0, <1>1, <1>2 DEF WalkInv, WalkType, TurnedOnce, FingerKnown, Bare
<1>3. CASE s3' = Walk!LetGo(s3) /\ s4' = Walk!Disarmed
  <2>1. s3' \in Bar /\ s3'.arrived = s3.arrived /\ (Bare(s3) => Bare(s3'))
    BY <1>0, <1>3, LetGoDoes DEF WalkType
  <2>2. s4' \in ByWheel /\ ~s4'.armed
    BY <1>0, <1>3, DisarmedIs DEF WalkType
  <2> QED BY <1>0, <1>1, <2>1, <2>2 DEF WalkInv, WalkType, TurnedOnce, FingerKnown
<1> QED BY <1>2, <1>3 DEF Walk!Scroll

\* A frame turns the page only with no finger known to be down, and only where
\* there is a bar: once.
LEMMA StepKeeps ==
    ASSUME WalkInv, Walk!Step
    PROVE  WalkInv' /\ (s3'.arrived /\ ~s3.arrived => ~s5.down /\ s1 # Walk!Last)
<1>0. WalkType /\ TurnedOnce /\ FingerKnown
  BY DEF WalkInv
<1>1. PICK value \in Int : value = Walk!Toward(s3.value, s3.target)
  BY <1>0 DEF WalkType, Bar, Walk!Toward
<1>2. PICK turns \in BOOLEAN : turns = (value = FILL /\ Walk!MayTurn /\ ~s3.arrived)
  BY <1>0 DEF WalkType, Bar
<1>3. PICK ready \in BOOLEAN : ready = (s3.ready \/ (value = FILL /\ ~Walk!MayTurn))
  BY <1>0 DEF WalkType, Bar
<1>4. PICK frame \in BOOLEAN : frame = (value # s3.target)
  OBVIOUS
<1>5. PICK arrived \in BOOLEAN : arrived = (s3.arrived \/ turns)
  BY <1>0 DEF WalkType, Bar
<1>6. s3' = [s3 EXCEPT !.value = value, !.frame = frame, !.ready = ready, !.arrived = arrived]
  BY <1>1, <1>2, <1>3, <1>4, <1>5 DEF Walk!Step
<1>7. PICK q : q = [target |-> s3.target, value |-> value, frame |-> frame, idle |-> s3.idle,
                    arrived |-> arrived, ready |-> ready]
  OBVIOUS
<1>8. s3' = q
  <2>1. s3 \in Bar
    BY <1>0 DEF WalkType
  <2>2. PICK b : b = [s3 EXCEPT !.value = value, !.frame = frame]
    OBVIOUS
  <2>3. b = [target |-> s3.target, value |-> value, frame |-> frame, idle |-> s3.idle,
             arrived |-> s3.arrived, ready |-> s3.ready]
    BY <2>1, <2>2 DEF Bar
  <2>4. b \in Bar
    BY <1>1, <1>4, <2>1, <2>3 DEF Bar
  <2>5. s3' = [[s3 EXCEPT !.value = value, !.frame = frame]
                  EXCEPT !.ready = ready, !.arrived = arrived]
    BY <1>6, <2>1, Zenon DEF Bar
  <2>6. s3' = [b EXCEPT !.ready = ready, !.arrived = arrived]
    BY <2>2, <2>5
  <2>7. s3' = [target |-> b.target, value |-> b.value, frame |-> b.frame, idle |-> b.idle,
               arrived |-> arrived, ready |-> ready]
    BY <2>4, <2>6 DEF Bar
  <2> QED BY <1>7, <2>3, <2>7
<1>9. s3' \in Bar /\ s3'.arrived = arrived /\ s3'.value = value /\ s3'.target = s3.target
  BY <1>0, <1>7, <1>8 DEF WalkType, Bar
<1>10. UNCHANGED <<s1, s4, s5>>
  BY DEF Walk!Step
<1>11. Bare(s3) => ~turns /\ Bare(s3')
  <2> SUFFICES ASSUME Bare(s3) PROVE ~turns /\ Bare(s3')
    OBVIOUS
  <2>1. s3.target = 0 /\ s3.value = 0 /\ ~s3.arrived
    BY DEF Bare
  <2>2. value = 0
    BY <1>1, <2>1 DEF Walk!Toward
  <2>3. ~turns
    BY <1>2, <2>2, WalkMoments
  <2>4. ~arrived
    BY <1>5, <2>1, <2>3
  <2> QED BY <1>9, <2>1, <2>2, <2>3, <2>4 DEF Bare
<1>12. CASE turns
  <2>1. ~s3.arrived /\ ~s5.down /\ arrived /\ s1 # Walk!Last /\ s7.turns = 0
    BY <1>0, <1>2, <1>5, <1>11, <1>12 DEF Walk!MayTurn, FingerKnown, TurnedOnce
  <2>2. PICK n \in Nat : n = Walk!Min({s7.turns + 1, 2})
    BY <1>0, LeastOfTwo DEF WalkType, Ghost
  <2>3. n = 1
    BY <2>1, <2>2, LeastOfTwo
  <2>4. s7' = [s7 EXCEPT !.turns = n]
    BY <1>1, <1>2, <1>12, <2>2 DEF Walk!Step
  <2>5. s7' \in Ghost /\ s7'.turns = 1 /\ s7'.here = s7.here
    BY <1>0, <2>3, <2>4 DEF WalkType, Ghost
  <2> QED BY <1>0, <1>9, <1>10, <2>1, <2>5 DEF WalkInv, WalkType, TurnedOnce, FingerKnown
<1>13. CASE ~turns
  <2>1. UNCHANGED s7 /\ arrived = s3.arrived
    BY <1>0, <1>1, <1>2, <1>5, <1>13 DEF Walk!Step, WalkType, Bar
  <2> QED BY <1>0, <1>9, <1>10, <1>11, <2>1 DEF WalkInv, WalkType, TurnedOnce, FingerKnown
<1> QED BY <1>12, <1>13

LEMMA DecayKeeps ==
    ASSUME WalkInv, Walk!Decay
    PROVE  WalkInv' /\ s3'.arrived = s3.arrived
<1>0. WalkType /\ TurnedOnce /\ FingerKnown
  BY DEF WalkInv
<1>1. /\ s3' = [s3 EXCEPT !.idle = Walk!Off, !.target = 0, !.frame = TRUE]
      /\ UNCHANGED <<s1, s4, s5, s7>>
  BY DEF Walk!Decay
<1>2. s3' \in Bar /\ s3'.arrived = s3.arrived /\ (Bare(s3) => Bare(s3'))
  <2>1. PICK off \in Int : off = Walk!Off
    BY DEF Walk!Off
  <2>2. s3' = [s3 EXCEPT !.idle = off, !.target = 0, !.frame = TRUE]
    BY <1>1, <2>1
  <2>3. s3' = [target |-> 0, value |-> s3.value, frame |-> TRUE, idle |-> off,
               arrived |-> s3.arrived, ready |-> s3.ready]
    BY <1>0, <2>2 DEF WalkType, Bar
  <2> QED BY <1>0, <2>3 DEF WalkType, Bar, Bare
<1> QED BY <1>0, <1>1, <1>2 DEF WalkInv, WalkType, TurnedOnce, FingerKnown

LEMMA TickKeeps ==
    ASSUME WalkInv, Walk!Tick
    PROVE  WalkInv' /\ s3'.arrived = s3.arrived
<1>0. WalkType /\ TurnedOnce /\ FingerKnown
  BY DEF WalkInv
<1>1. PICK idle \in Int : idle = Walk!Counted(s3.idle)
  BY <1>0 DEF WalkType, Bar, Walk!Counted
<1>2. s3' = [s3 EXCEPT !.idle = idle] /\ UNCHANGED <<s1, s5, s7>>
  BY <1>1 DEF Walk!Tick
<1>3. s3' \in Bar /\ s3'.arrived = s3.arrived /\ (Bare(s3) => Bare(s3'))
  BY <1>0, <1>2 DEF WalkType, Bar, Bare
<1>4. ASSUME NEW since \in Int, NEW cap \in Int PROVE Walk!Aged(since, cap) \in Int
  BY LeastOfTwo DEF Walk!Aged, Walk!Off
<1>5. PICK since \in Int : since = Walk!Aged(s4.since, WHEEL_QUIET)
  BY <1>0, <1>4, WalkMoments DEF WalkType, ByWheel
<1>6. PICK grew \in Int : grew = Walk!Aged(s4.grew, FILL)
  BY <1>0, <1>4, WalkMoments DEF WalkType, ByWheel
<1>7. s4' = [s4 EXCEPT !.since = since, !.grew = grew]
  BY <1>5, <1>6 DEF Walk!Tick
<1>8. s4' \in ByWheel /\ s4'.armed = s4.armed
  BY <1>0, <1>7 DEF WalkType, ByWheel
<1> QED BY <1>0, <1>2, <1>3, <1>8 DEF WalkInv, WalkType, TurnedOnce, FingerKnown

\* A page that comes has a bar of its own.
LEMMA OpenKeeps ==
    ASSUME WalkInv, NEW to, Walk!Open(to)
    PROVE  WalkInv' /\ ~s3'.arrived
<1>0. WalkType /\ TurnedOnce /\ FingerKnown
  BY DEF WalkInv
<1>1. s3' \in Bar /\ Bare(s3')
  BY DEF Walk!Open, Walk!EmptyBar, Bar, Bare, Walk!Off
<1>2. s4' \in ByWheel /\ ~s4'.armed
  BY <1>0, DisarmedIs DEF Walk!Open, WalkType
<1>3. s5' \in Finger /\ ~s5'.down
  BY <1>0 DEF Walk!Open, WalkType, Finger
<1>4. s7' \in Ghost /\ s7'.turns = s7.turns /\ ~s7'.here
  BY <1>0 DEF Walk!Open, WalkType, Ghost
<1> QED BY <1>0, <1>1, <1>2, <1>3, <1>4 DEF WalkInv, WalkType, TurnedOnce, FingerKnown, Bare

LEMMA WalkStepKeeps == WalkInv /\ [Walk!Next]_walk => WalkInv' /\ Walk!IsMeant
<1> SUFFICES ASSUME WalkInv, [Walk!Next]_walk PROVE WalkInv' /\ Walk!IsMeant
  OBVIOUS
<1>0. WalkType /\ TurnedOnce /\ FingerKnown
  BY DEF WalkInv
<1>1. WalkInv' /\ (s3'.arrived /\ ~s3.arrived => ~s5.down /\ s1 # Walk!Last)
  <2>1. ASSUME NEW delta \in Walk!Deltas, Walk!Wheel(delta) \/ Walk!TouchMove(delta)
        PROVE  WalkInv' /\ s3'.arrived = s3.arrived
    BY <2>1, WheelKeeps, TouchMoveKeeps
  <2>2. ASSUME NEW to \in Walk!Places, Walk!Scroll(to)
        PROVE  WalkInv' /\ s3'.arrived = s3.arrived
    BY <2>2, ScrollKeeps
  <2>3. ASSUME \/ \E to \in Walk!Places : Walk!Relayout(to)
               \/ Walk!VeilEnds \/ UNCHANGED walk
        PROVE  WalkInv' /\ s3'.arrived = s3.arrived
    <3>1. UNCHANGED <<s1, s3, s4, s5, s7>>
      BY <2>3 DEF Walk!Relayout, Walk!VeilEnds, walk
    <3> QED BY <1>0, <3>1 DEF WalkInv, WalkType, TurnedOnce, FingerKnown, Bare
  <2>4. ASSUME Walk!TouchStart \/ Walk!TouchEnd \/ Walk!Decay \/ Walk!Tick
        PROVE  WalkInv' /\ s3'.arrived = s3.arrived
    BY <2>4, TouchStartKeeps, TouchEndKeeps, DecayKeeps, TickKeeps
  <2>5. CASE Walk!Step
    BY <2>5, StepKeeps
  <2>6. ASSUME Walk!Navigate \/ \E to \in 0 .. Walk!Last : Walk!Follow(to)
        PROVE  WalkInv' /\ ~s3'.arrived
    BY <2>6, OpenKeeps DEF Walk!Navigate, Walk!Follow
  <2> QED BY <2>1, <2>2, <2>3, <2>4, <2>5, <2>6 DEF Walk!Next
<1>2. s7'.turns <= 1
  BY <1>1 DEF WalkInv, TurnedOnce
<1> QED BY <1>0, <1>1, <1>2 DEF FingerKnown, Walk!IsMeant, Walk!OneTurnPerBurst, Walk!WaitsForRelease

LEMMA WalkBegins == Walk!Init => WalkInv
<1> SUFFICES ASSUME Walk!Init PROVE WalkInv
  OBVIOUS
<1>1. s3 \in Bar /\ Bare(s3)
  BY DEF Walk!Init, Walk!EmptyBar, Bar, Bare, Walk!Off
<1>2. s4 \in ByWheel /\ s5 \in Finger /\ ~s5.down
  BY DEF Walk!Init, ByWheel, Finger, Walk!Off
<1>3. s7 \in Ghost /\ s7.turns = 0 /\ ~s7.here
  BY DEF Walk!Init, Ghost
<1> QED BY <1>1, <1>2, <1>3 DEF WalkInv, WalkType, TurnedOnce, FingerKnown

\* Whatever the moments are: a burst of the wheel turns one page, and no page
\* turns under a finger that was put down on it.  (useScrollContinue.ts:40, :130.)
THEOREM EveryTurnIsMeant == MCSpec => TurnsAreMeant
<1> DEFINE Inv == part = "walk" => WalkInv
           Meant == part = "walk" => Walk!IsMeant
<1>1. MCInit => Inv
  BY WalkBegins DEF MCInit
<1>2. Inv /\ [MCNext]_all => Inv' /\ [Meant]_all
  <2> SUFFICES ASSUME Inv, [MCNext]_all PROVE Inv' /\ [Meant]_all
    OBVIOUS
  <2>1. part' = part /\ (part = "walk" => [Walk!Next]_walk)
    BY DEF MCNext, all, walk
  <2>2. part = "walk" => WalkInv' /\ Walk!IsMeant
    BY <2>1, WalkStepKeeps
  <2> QED BY <2>1, <2>2
<1>3. TurnsAreMeant <=> [][Meant]_all
  BY PTL DEF TurnsAreMeant
<1> HIDE DEF Inv, Meant
<1> QED BY <1>1, <1>2, <1>3, PTL DEF MCSpec

-----------------------------------------------------------------------------
(* Where a page starts. *)

movesVars == <<s1, s2, s3, s4, s5, s6, s7, s8>>

Place == [page : Both, place : {"top", "down", "anchor"}]

MovesType ==
    /\ s1 \in [entries : Seq(Place), at : Nat]
    /\ s1.at <= Len(s1.entries)
    /\ s2 \in Both
    /\ s3 \in {"null", "forward", "back"}
    /\ s4 \in BOOLEAN
    /\ s5 \in {"top", "down", "anchor"}
    /\ s6 \in {"off", "resets", "watching"}
    /\ s7 \in BOOLEAN
    /\ s8 \in [by : {"none", "link", "back", "anchor"}, late : BOOLEAN]

\* A link leaves only its resets to be done; whoever came back, or to an anchor,
\* with nothing settling, is where he was put.
MovesInv ==
    /\ MovesType
    /\ Moves!pending => s3 = "back"
    /\ s8.by = "link" /\ s6 # "resets" => s5 = "top" /\ ~s7
    /\ s8.by = "back" /\ ~s8.late => s6 = "off" /\ s5 = Moves!here.place
    /\ s8.by = "anchor" /\ ~s8.late => s6 = "off" /\ s5 = "anchor"

LEMMA MovesKept ==
    ASSUME MovesType, s1.at # 0
    PROVE  /\ Moves!Kept \in Seq(Place) /\ Len(Moves!Kept) = Len(s1.entries)
           /\ DOMAIN Moves!Kept = DOMAIN s1.entries
           /\ \A i \in DOMAIN s1.entries : Moves!Kept[i].page = s1.entries[i].page
           /\ s1.at \in DOMAIN s1.entries
<1>1. s1.at \in 1 .. Len(s1.entries) /\ s1.entries \in Seq(Place)
  BY DEF MovesType
<1>2. PICK e \in Place : e = s1.entries[s1.at]
  BY <1>1
<1>3. PICK kept : kept = [e EXCEPT !.place = s5]
  OBVIOUS
<1>4. kept \in Place /\ kept.page = e.page
  BY <1>3 DEF MovesType, Place
<1>5. Moves!Kept = [s1.entries EXCEPT ![s1.at] = kept]
  BY <1>1, <1>2, <1>3 DEF Moves!Kept
<1> QED BY <1>1, <1>2, <1>4, <1>5

\* A new entry is put behind the one that the reader is at.
LEMMA MovesPushed ==
    ASSUME MovesType, s1.at # 0, NEW e \in Place, s1' = Moves!Pushed(e)
    PROVE  /\ s1' \in [entries : Seq(Place), at : Nat]
           /\ s1'.at = s1.at + 1 /\ s1'.at = Len(s1'.entries)
           /\ s1'.entries[s1'.at] = e
<1>1. /\ Moves!Kept \in Seq(Place) /\ s1.at \in 1 .. Len(Moves!Kept)
  BY MovesKept DEF MovesType
<1> DEFINE start == SubSeq(Moves!Kept, 1, s1.at)
<1>2. start \in Seq(Place) /\ Len(start) = s1.at
  BY <1>1
<1> HIDE DEF start
<1>3. /\ Append(start, e) \in Seq(Place) /\ Len(Append(start, e)) = s1.at + 1
      /\ Append(start, e)[s1.at + 1] = e
  BY <1>1, <1>2
<1>4. s1' = [entries |-> Append(start, e), at |-> s1.at + 1]
  BY DEF Moves!Pushed, start
<1> QED BY <1>1, <1>3, <1>4

\* Where the reader is when a page is opened, and what is left to settle.
LEMMA EffectDoes ==
    ASSUME MovesInv, NEW to \in Both, NEW action, NEW hash \in BOOLEAN,
           NEW there \in {"top", "down", "anchor"}, NEW way,
           Moves!Effect(to, action, hash, there, way),
           s1' \in [entries : Seq(Place), at : Nat], s1'.at <= Len(s1'.entries), s1'.at # 0,
           s1'.entries[s1'.at].page = to,
           \/ way = "link" /\ action # "back" /\ ~hash
           \/ way = "anchor" /\ hash /\ there = "anchor"
           \/ way = "back" /\ action = "back" /\ ~hash /\ there = s1'.entries[s1'.at].place
    PROVE  MovesInv'
<1>1. /\ s2' = to /\ s4' = TRUE /\ s3' = "null" /\ s7' = s7
      /\ s8' = [by |-> way, late |-> s6 # "off"]
  BY DEF Moves!Effect, Moves!By
<1>2. IF action = "back" \/ hash THEN s5' = there /\ s6' = s6 ELSE s5' = "top" /\ s6' = "resets"
  BY DEF Moves!Effect
<1>3. ~Moves!pending'
  BY <1>1 DEF Moves!pending, Moves!here, Moves!left
<1>4. s8'.by = way /\ s8'.late = (s6 # "off")
  BY <1>1
<1>5. MovesType'
  BY <1>1, <1>2 DEF MovesInv, MovesType
<1> QED BY <1>1, <1>2, <1>3, <1>4, <1>5 DEF MovesInv, MovesType, Moves!here

LEMMA ArrivalsDo ==
    ASSUME MovesInv, NEW to \in Both,
           s1' \in [entries : Seq(Place), at : Nat], s1'.at <= Len(s1'.entries), s1'.at # 0,
           s1'.entries[s1'.at].page = to
    PROVE  /\ \A action, there : action # "back" /\ there \in {"top", "down", "anchor"}
                /\ Moves!Effect(to, action, FALSE, there, "link") => MovesInv'
           /\ \A action : Moves!Effect(to, action, TRUE, "anchor", "anchor") => MovesInv'
           /\ \A there : there = s1'.entries[s1'.at].place /\ there \in {"top", "down", "anchor"}
                /\ Moves!Effect(to, "back", FALSE, there, "back") => MovesInv'
BY EffectDoes

\* The reader has moved: nothing is promised of where he is.
LEMMA MovedKeeps ==
    ASSUME MovesInv, s8' = Moves!Nowhere, MovesType', Moves!pending' => s3' = "back"
    PROVE  MovesInv'
BY DEF MovesInv, Moves!Nowhere

LEMMA TraverseKeeps ==
    ASSUME MovesInv, s1.at # 0, NEW to \in DOMAIN s1.entries, Moves!Traverse(to)
    PROVE  MovesInv'
<1>1. /\ Moves!Kept \in Seq(Place) /\ to \in 1 .. Len(Moves!Kept)
  BY MovesKept DEF MovesInv, MovesType
<1>2. s1' = [entries |-> Moves!Kept, at |-> to] /\ s3' = "back" /\ s8' = Moves!Nowhere
  BY DEF Moves!Traverse
<1>3. s1' \in [entries : Seq(Place), at : Nat] /\ s1'.at <= Len(s1'.entries)
  BY <1>1, <1>2
<1>4. Moves!Kept[to].place \in {"top", "down", "anchor"}
  <2>1. Moves!Kept[to] \in Place
    BY <1>1
  <2> QED BY <2>1 DEF Place
<1>5. s5' \in {"top", "down", "anchor"}
  BY <1>4 DEF Moves!Traverse, MovesInv, MovesType
<1>6. MovesType'
  BY <1>2, <1>3, <1>5 DEF Moves!Traverse, MovesInv, MovesType, Moves!Nowhere
<1> QED BY <1>2, <1>6, MovedKeeps

LEMMA PushKeeps ==
    ASSUME MovesInv, s1.at # 0, ~Moves!pending, NEW to \in Both, NEW hash \in BOOLEAN,
           Moves!push(to, hash)
    PROVE  MovesInv'
<1> DEFINE e == [page |-> to, place |-> "top"]
<1>1. e \in Place
  BY DEF Place
<1>2. to # s2 /\ s1' = Moves!Pushed(e)
  BY DEF Moves!push
<1>3. /\ s1' \in [entries : Seq(Place), at : Nat]
      /\ s1'.at = s1.at + 1 /\ s1'.at = Len(s1'.entries)
      /\ s1'.entries[s1'.at] = e
  BY <1>1, <1>2, MovesPushed DEF MovesInv
<1>4. s1'.at # 0 /\ s1'.at <= Len(s1'.entries) /\ s1'.entries[s1'.at].page = to
  BY <1>3 DEF MovesInv, MovesType
<1>5. Moves!Marked(to) # "back"
  BY <1>2 DEF Moves!Marked
<1>6. Moves!Effect(to, Moves!Marked(to), hash, IF hash THEN "anchor" ELSE "top",
                   IF hash THEN "anchor" ELSE "link")
  BY DEF Moves!push
<1>7. CASE hash
  <2>1. Moves!Effect(to, Moves!Marked(to), TRUE, "anchor", "anchor")
    BY <1>6, <1>7
  <2> QED BY <1>3, <1>4, <2>1, ArrivalsDo
<1>8. CASE ~hash
  <2>1. Moves!Effect(to, Moves!Marked(to), FALSE, "top", "link")
    BY <1>6, <1>8
  <2> QED BY <1>3, <1>4, <1>5, <2>1, ArrivalsDo
<1> QED BY <1>7, <1>8

LEMMA MovesStepKeeps == MovesInv /\ [Moves!Next]_movesVars => MovesInv'
<1> SUFFICES ASSUME MovesInv, [Moves!Next]_movesVars PROVE MovesInv'
  OBVIOUS
<1>0. MovesType
  BY DEF MovesInv
<1>1. CASE UNCHANGED movesVars
  BY <1>1 DEF movesVars, MovesInv, MovesType, Moves!pending, Moves!left, Moves!here
<1>2. CASE Moves!Next
  <2>0. s1.at # 0
    BY <1>2 DEF Moves!Next, Moves!left
  <2>1. ASSUME NEW to \in Both, Moves!goBack(to), ~Moves!pending PROVE MovesInv'
    <3>1. CASE Moves!hasInAppHistory /\ s1.at > 1 /\ Moves!Traverse(s1.at - 1)
      <4>1. s1.at - 1 \in DOMAIN s1.entries
        BY <1>0, <3>1 DEF MovesType
      <4> QED BY <2>0, <3>1, <4>1, TraverseKeeps
    <3>2. CASE /\ s1' = [s1 EXCEPT !.at = 0]
               /\ s8' = Moves!Nowhere
               /\ UNCHANGED <<s2, s3, s4, s5, s6, s7>>
      <4>1. s1' \in [entries : Seq(Place), at : Nat] /\ s1'.at = 0 /\ s1'.at <= Len(s1'.entries)
        BY <1>0, <3>2 DEF MovesType
      <4>2. MovesType'
        BY <1>0, <3>2, <4>1 DEF MovesType, Moves!Nowhere
      <4>3. ~Moves!pending'
        BY <4>1 DEF Moves!pending, Moves!left
      <4> QED BY <3>2, <4>2, <4>3, MovedKeeps
    <3>3. CASE Moves!push(to, FALSE)
      BY <2>0, <2>1, <3>3, PushKeeps
    <3> QED BY <2>1, <3>1, <3>2, <3>3 DEF Moves!goBack
  <2>2. ASSUME NEW to \in Both, Moves!replace(to) PROVE MovesInv'
    <3>1. s1.at \in 1 .. Len(s1.entries) /\ s1.entries \in Seq(Place)
      BY <1>0, <2>0 DEF MovesType
    <3>2. PICK old \in Place : old = s1.entries[s1.at]
      BY <3>1
    <3>11. PICK e : e = [old EXCEPT !.page = to]
      OBVIOUS
    <3>3. e \in Place /\ e.page = to
      BY <3>11 DEF Place
    <3>4. PICK entries : entries = [s1.entries EXCEPT ![s1.at] = e]
      OBVIOUS
    <3>5. entries \in Seq(Place) /\ Len(entries) = Len(s1.entries) /\ entries[s1.at] = e
      BY <3>1, <3>3, <3>4
    <3>6. s1' = [s1 EXCEPT !.entries = entries]
      BY <1>0, <2>2, <3>1, <3>2, <3>11, <3>4 DEF Moves!replace, MovesType, Place
    <3>7. /\ s1' \in [entries : Seq(Place), at : Nat] /\ s1'.at = s1.at /\ s1'.entries = entries
      BY <1>0, <3>5, <3>6 DEF MovesType
    <3>8. Moves!Effect(to, Moves!Marked(to), FALSE, s5, "link") /\ Moves!Marked(to) # "back"
      BY <2>2 DEF Moves!replace, Moves!Marked
    <3>9. s1'.at <= Len(s1'.entries) /\ s1'.at # 0 /\ s1'.entries[s1'.at].page = to
      BY <2>0, <3>1, <3>3, <3>5, <3>7
    <3>10. s5 \in {"top", "down", "anchor"}
      BY <1>0 DEF MovesType
    <3> QED BY <3>7, <3>8, <3>9, <3>10, ArrivalsDo
  <2>3. ASSUME NEW to \in Both, NEW hash \in BOOLEAN, Moves!push(to, hash), ~Moves!pending
        PROVE  MovesInv'
    BY <2>0, <2>3, PushKeeps
  <2>4. ASSUME NEW to \in DOMAIN s1.entries, Moves!Traverse(to) PROVE MovesInv'
    BY <2>0, <2>4, TraverseKeeps
  <2>5. CASE Moves!Within
    <3> DEFINE e == [page |-> s2, place |-> "top"]
    <3>1. e \in Place
      BY <1>0 DEF Place, MovesType
    <3>2. s1' = Moves!Pushed(e) /\ s8' = Moves!Nowhere /\ s2' = s2
      BY <2>5 DEF Moves!Within
    <3>3. /\ s1' \in [entries : Seq(Place), at : Nat]
          /\ s1'.at = Len(s1'.entries) /\ s1'.entries[s1'.at] = e
      BY <1>0, <2>0, <3>1, <3>2, MovesPushed
    <3>4. ~Moves!pending'
      BY <3>2, <3>3 DEF Moves!pending, Moves!here
    <3>5. MovesType'
      BY <1>0, <2>5, <3>2, <3>3 DEF Moves!Within, Moves!Marked, MovesType, Moves!Nowhere
    <3> QED BY <3>2, <3>4, <3>5, MovedKeeps
  <2>6. CASE Moves!pending /\ Moves!Commit
    <3>1. /\ Moves!Effect(Moves!here.page, "back", FALSE, Moves!here.place, "back")
          /\ s1' = s1
      BY <2>6 DEF Moves!Commit, MovesInv
    <3>2. Moves!here = s1.entries[s1.at] /\ Moves!here \in Place
      BY <1>0, <2>0 DEF Moves!here, MovesType
    <3>3. Moves!here.page \in Both /\ Moves!here.place \in {"top", "down", "anchor"}
      BY <3>2 DEF Place
    <3>4. /\ s1' \in [entries : Seq(Place), at : Nat] /\ s1'.at <= Len(s1'.entries) /\ s1'.at # 0
          /\ s1'.entries[s1'.at] = Moves!here
      BY <1>0, <2>0, <3>1, <3>2 DEF MovesType
    <3>5. PICK to, there : to = Moves!here.page /\ there = Moves!here.place
      OBVIOUS
    <3>6. /\ to \in Both /\ there \in {"top", "down", "anchor"}
          /\ Moves!Effect(to, "back", FALSE, there, "back")
          /\ s1'.entries[s1'.at].page = to /\ there = s1'.entries[s1'.at].place
      BY <3>1, <3>3, <3>4, <3>5
    <3> QED BY <3>4, <3>6, ArrivalsDo
  <2>7. ASSUME UNCHANGED <<s1, s2, s3>>
        PROVE  Moves!pending' => s3' = "back"
    BY <2>7 DEF MovesInv, Moves!pending, Moves!left, Moves!here
  <2>8. CASE Moves!Reset
    BY <1>0, <2>7, <2>8 DEF Moves!Reset, MovesInv, MovesType, Moves!here
  <2>9. CASE Moves!SettleEnds
    BY <1>0, <2>7, <2>9 DEF Moves!SettleEnds, MovesInv, MovesType, Moves!here
  <2>10. CASE Moves!Input \/ Moves!Drag
    <3>1. /\ s1' = s1 /\ s2' = s2 /\ s3' = s3 /\ s4' = s4 /\ s8' = Moves!Nowhere
          /\ s5' \in {"top", "down"} /\ s6' \in {"off", s6} /\ s7' \in BOOLEAN \cup {s7}
      BY <2>10 DEF Moves!Input, Moves!Drag, Moves!Places
    <3>2. MovesType'
      BY <1>0, <3>1 DEF Moves!Nowhere, MovesType
    <3> QED BY <2>7, <3>1, <3>2, MovedKeeps
  <2>11. CASE Moves!Glide
    <3>1. CASE s8.by = "link"
      BY <1>0, <2>7, <2>11, <3>1 DEF Moves!Glide, MovesInv, MovesType, Moves!here
    <3>2. CASE s8.by # "link"
      <4>1. MovesType'
        BY <1>0, <2>11, <3>2 DEF Moves!Glide, Moves!Nowhere, MovesType
      <4> QED BY <2>7, <2>11, <3>2, <4>1, MovedKeeps DEF Moves!Glide
    <3> QED BY <3>1, <3>2
  <2> QED BY <1>2, <2>1, <2>2, <2>3, <2>4, <2>5, <2>6, <2>8, <2>9, <2>10, <2>11 DEF Moves!Next
<1> QED BY <1>1, <1>2

LEMMA MovesBegin == Moves!Init => MovesInv
<1> SUFFICES ASSUME Moves!Init PROVE MovesInv
  OBVIOUS
<1>1. PICK page \in Both :
        s1 = [entries |-> <<[page |-> page, place |-> "top"]>>, at |-> 1] /\ s2 = page
  BY DEF Moves!Init
<1>2. /\ s1.entries \in Seq(Place) /\ s1.at = 1 /\ Len(s1.entries) = 1
      /\ s1.entries[1].page = s2
      /\ s1 \in [entries : Seq(Place), at : Nat]
  BY <1>1 DEF Place
<1>3. ~Moves!pending
  BY <1>2 DEF Moves!pending, Moves!here
<1>4. s8 = [by |-> "none", late |-> FALSE]
  BY DEF Moves!Init, Moves!Nowhere
<1>5. s3 = "null" /\ s4 = FALSE /\ s5 = "top" /\ s6 = "off" /\ s7 = FALSE
  BY DEF Moves!Init
<1>6. MovesType
  <2>1. s8 \in [by : {"none", "link", "back", "anchor"}, late : BOOLEAN] /\ s2 \in Both
    BY <1>1, <1>4
  <2>2. s1.at <= Len(s1.entries)
    BY <1>2
  <2> QED BY <1>2, <1>5, <2>1, <2>2 DEF MovesType
<1> QED BY <1>3, <1>4, <1>6 DEF MovesInv

\* The inductive invariant: what is still to settle, and where it leaves the
\* reader who has not moved.  (NavigationTracker.tsx.)
LEMMA MovesInvariant == MCSpec => [](part = "moves" => MovesInv)
<1> DEFINE Inv == part = "moves" => MovesInv
<1>1. MCInit => Inv
  BY MovesBegin DEF MCInit
<1>2. Inv /\ [MCNext]_all => Inv'
  <2> SUFFICES ASSUME Inv, [MCNext]_all PROVE Inv'
    OBVIOUS
  <2>1. part' = part /\ (part = "moves" => [Moves!Next]_movesVars)
    BY DEF MCNext, all, movesVars
  <2> QED BY <2>1, MovesStepKeeps
<1> HIDE DEF Inv
<1>3. MCSpec => []Inv
  BY <1>1, <1>2, PTL DEF MCSpec
<1> QED BY <1>3 DEF Inv

\* However many pages and entries there are, a page begins where it should.
\* (NavigationTracker.tsx:12.)
THEOREM PagesAlwaysStartRight == MCSpec => []StartsWhereItShould
<1>1. (part = "moves" => MovesInv) => StartsWhereItShould
  BY DEF MovesInv, MovesType, StartsWhereItShould, Moves!StartsWhereItShould
<1> QED BY <1>1, MovesInvariant, PTL

-----------------------------------------------------------------------------
(* The two clips. *)

clipsVars == <<s1, s2, s3>>

Hook == [current : Clips!Clips, timer : BOOLEAN, broken : SUBSET Clips!Clips,
         waiting : BOOLEAN, disposed : BOOLEAN, warmed : BOOLEAN, fallback : BOOLEAN]

Clip == [data : {"none", "loading", "metadata", "canplay", "broken"},
         play : {"off", "asked", "playing"}]

ClipsType == s1 \in Hook /\ s2 \in [Clips!Clips -> Clip]

Metadata == {"metadata", "canplay"}

\* Of a clip that broke, the hook knows or is about to; the one on screen was
\* asked for, is not known to be broken as long as the other is left, and has
\* its timer, or news that will set it, from when its length is known.
Carried ==
    /\ s2[s1.current].data # "none"
    /\ \A x \in Clips!Clips :
          s2[x].data = "broken" => x \in s1.broken \/ <<x, "error">> \in s3
    /\ s1.broken # Clips!Clips =>
          /\ s1.current \notin s1.broken
          /\ s2[s1.current].data \in Metadata =>
                s1.timer \/ <<s1.current, "progress">> \in s3

ClipsInv == ClipsType /\ (~s1.disposed => Carried)

LEMMA PlayedDoes ==
    ASSUME ClipsType, NEW x \in Clips!Clips
    PROVE  /\ Clips!Played(s2, x) \in [Clips!Clips -> Clip]
           /\ \A y \in Clips!Clips : Clips!Played(s2, x)[y].data =
                 IF y = x /\ s2[y].data = "none" THEN "loading" ELSE s2[y].data
<1>1. PICK c \in Clip : c = s2[x]
  BY DEF ClipsType
<1>2. PICK data, play : /\ data = IF c.data = "none" THEN "loading" ELSE c.data
                        /\ play = IF c.play = "playing" THEN c.play ELSE "asked"
  OBVIOUS
<1>3. PICK d : d = [data |-> data, play |-> play]
  OBVIOUS
<1>4. d \in Clip /\ d.data = data
  BY <1>1, <1>2, <1>3 DEF Clip
<1>5. Clips!Played(s2, x) = [s2 EXCEPT ![x] = d]
  <2>1. PICK half : half = [c EXCEPT !.data = data]
    OBVIOUS
  <2>8. half = [data |-> data, play |-> c.play]
    BY <2>1 DEF Clip
  <2>2. half.play = c.play /\ [half EXCEPT !.play = play] = d
    BY <1>3, <2>8
  <2>3. PICK w : w = [s2 EXCEPT ![x] = half]
    OBVIOUS
  <2>4. w[x] = half
    BY <2>3 DEF ClipsType
  <2>5. w = [s2 EXCEPT ![x].data = IF s2[x].data = "none" THEN "loading" ELSE s2[x].data]
    BY <1>1, <1>2, <2>1, <2>3 DEF ClipsType
  <2>6. Clips!Played(s2, x) =
            [w EXCEPT ![x].play = IF w[x].play = "playing" THEN w[x].play ELSE "asked"]
    BY <2>5, Zenon DEF Clips!Played
  <2>7. Clips!Played(s2, x) = [w EXCEPT ![x] = d]
    BY <1>2, <2>2, <2>4, <2>6
  <2> QED BY <2>3, <2>7 DEF ClipsType
<1> QED BY <1>1, <1>2, <1>4, <1>5 DEF ClipsType

LEMMA ArmedDoes ==
    ASSUME ClipsType, NEW s \in Hook
    PROVE  /\ Clips!Armed(s) \in Hook
           /\ Clips!Armed(s).current = s.current /\ Clips!Armed(s).broken = s.broken
           /\ Clips!Armed(s).disposed = s.disposed
           /\ Clips!Armed(s).timer = (~s.disposed /\ s2[s.current].data \in Metadata)
BY DEF Clips!Armed, Clips!HasMetadata, Metadata, Hook

\* Handing over to the other clip, or the same one again.
LEMMA HandKeeps ==
    ASSUME ClipsType, NEW broken \in SUBSET Clips!Clips, Clips!Hand(broken),
           ~s1.disposed => s2[s1.current].data # "none",
           ~s1.disposed => \A x \in Clips!Clips :
                s2[x].data = "broken" => x \in broken \/ <<x, "error">> \in s3'
    PROVE  ClipsInv'
<1>1. Clips!next \in Clips!Clips /\ s1.current \in Clips!Clips /\ s1.current # Clips!next
  BY DEF ClipsType, Hook, Clips!next, Clips!Other, Clips!Clips
<1> DEFINE x == IF Clips!next \in broken THEN s1.current ELSE Clips!next
<1>2. PICK s : s = [s1 EXCEPT !.broken = broken, !.current = x]
  OBVIOUS
<1>3. /\ s \in Hook /\ s.current = x /\ s.broken = broken /\ s.disposed = s1.disposed
      /\ x \in Clips!Clips
  BY <1>1, <1>2 DEF ClipsType, Hook
<1>4. s1' = Clips!Armed(s) /\ s2' = Clips!Played(s2, x)
  <2>1. CASE Clips!next \in broken
    <3>1. s = [s1 EXCEPT !.broken = broken]
      BY <1>2, <2>1 DEF ClipsType, Hook
    <3> QED BY <2>1, <3>1 DEF Clips!Hand
  <2>2. CASE Clips!next \notin broken
    BY <1>2, <2>2 DEF Clips!Hand
  <2> QED BY <2>1, <2>2
<1>5. broken # Clips!Clips => x \notin broken
  BY <1>1 DEF Clips!Clips
<1> HIDE DEF x
<1>6. /\ s1' \in Hook /\ s1'.current = x /\ s1'.broken = broken /\ s1'.disposed = s1.disposed
      /\ s1'.timer = (~s1.disposed /\ s2[x].data \in Metadata)
  BY <1>3, <1>4, ArmedDoes
<1>7. /\ s2' \in [Clips!Clips -> Clip]
      /\ \A y \in Clips!Clips : s2'[y].data =
            IF y = x /\ s2[y].data = "none" THEN "loading" ELSE s2[y].data
  BY <1>3, <1>4, PlayedDoes
<1>8. ASSUME ~s1.disposed PROVE Carried'
  <2>1. s2'[x].data # "none"
    BY <1>3, <1>7
  <2>2. \A y \in Clips!Clips :
            s2'[y].data = "broken" => y \in broken \/ <<y, "error">> \in s3'
    BY <1>7, <1>8
  <2>3. s2'[x].data \in Metadata => s1'.timer
    BY <1>3, <1>6, <1>7, <1>8 DEF Metadata
  <2> QED BY <1>5, <1>6, <2>1, <2>2, <2>3 DEF Carried
<1> QED BY <1>6, <1>7, <1>8 DEF ClipsInv, ClipsType

\* The hook stays as it is but for what nothing here depends on, or forgets
\* nothing.
LEMMA HookKeeps ==
    ASSUME ClipsInv, s1' \in Hook, s2' = s2,
           s1'.current = s1.current, s1'.disposed = s1.disposed,
           s1'.broken # Clips!Clips => s1.current \notin s1'.broken,
           s1.broken \subseteq s1'.broken,
           \A x \in Clips!Clips :
              <<x, "error">> \in s3 => <<x, "error">> \in s3' \/ x \in s1'.broken,
           s1'.broken # Clips!Clips /\ s2[s1.current].data \in Metadata
              /\ (s1.timer \/ <<s1.current, "progress">> \in s3) =>
                 s1'.timer \/ <<s1.current, "progress">> \in s3'
    PROVE  ClipsInv'
<1>1. ClipsType'
  BY DEF ClipsInv, ClipsType
<1>2. ASSUME ~s1.disposed PROVE Carried'
  <2>1. Carried /\ s1.broken \in SUBSET Clips!Clips /\ s1'.broken \in SUBSET Clips!Clips
    BY <1>2 DEF ClipsInv, ClipsType, Hook
  <2> QED BY <2>1 DEF Carried
<1> QED BY <1>1, <1>2 DEF ClipsInv

\* A clip gets on, or not, and what there is to hear of it is on its way.
LEMMA ClipKeeps ==
    ASSUME ClipsInv, NEW x \in Clips!Clips, NEW c \in Clip, NEW types,
           Clips!Becomes(x, c, types), s2[x].data # "none" => c.data # "none",
           c.data = "broken" => s2[x].data = "broken" \/ "error" \in types,
           c.data \in Metadata => s2[x].data \in Metadata \/ "progress" \in types
    PROVE  ClipsInv'
<1>1. s1' = s1 /\ s2' = [s2 EXCEPT ![x] = c] /\ s3' = s3 \cup {<<x, type>> : type \in types}
  BY DEF Clips!Becomes
<1>2. s2' \in [Clips!Clips -> Clip] /\ \A y \in Clips!Clips : s2'[y] = IF y = x THEN c ELSE s2[y]
  BY <1>1 DEF ClipsInv, ClipsType
<1>3. s1.current \in Clips!Clips
  BY DEF ClipsInv, ClipsType, Hook
<1>4. ASSUME ~s1.disposed PROVE Carried'
  <2>1. s2'[s1.current].data # "none"
    BY <1>2, <1>3, <1>4 DEF ClipsInv, Carried
  <2>2. ASSUME NEW y \in Clips!Clips, s2'[y].data = "broken"
        PROVE  y \in s1.broken \/ <<y, "error">> \in s3'
    BY <1>1, <1>2, <1>4, <2>2 DEF ClipsInv, Carried
  <2>3. ASSUME s1.broken # Clips!Clips
        PROVE  /\ s1.current \notin s1.broken
               /\ s2'[s1.current].data \in Metadata =>
                     s1.timer \/ <<s1.current, "progress">> \in s3'
    BY <1>1, <1>2, <1>3, <1>4, <2>3 DEF ClipsInv, Carried
  <2> QED BY <1>1, <2>1, <2>2, <2>3 DEF Carried
<1> QED BY <1>1, <1>2, <1>4 DEF ClipsInv, ClipsType

\* The partner is fetched from the beginning, and what was to be heard of it is
\* forgotten.
LEMMA WarmKeeps ==
    ASSUME ClipsInv, NEW s \in Hook, NEW events, Clips!WarmPartner(s, events),
           s.current = s1.current, s.timer = s1.timer, s.broken = s1.broken,
           s.disposed = s1.disposed,
           \A x \in Clips!Clips : \A type \in {"error", "progress"} :
              <<x, type>> \in s3 => <<x, type>> \in events
    PROVE  ClipsInv'
<1>1. CASE Clips!next = "b" /\ ~s1.warmed
  <2> DEFINE fresh == [data |-> "loading", play |-> "off"]
  <2>1. s1.current = "a" /\ "a" \in Clips!Clips /\ "b" \in Clips!Clips
    BY <1>1 DEF ClipsInv, ClipsType, Hook, Clips!next, Clips!Other, Clips!Clips
  <2>2. /\ s1' = [s EXCEPT !.warmed = TRUE]
        /\ s2' = [s2 EXCEPT !["b"] = fresh]
        /\ s3' = {event \in events : event[1] # "b"}
    BY <1>1 DEF Clips!WarmPartner
  <2>3. /\ s1' \in Hook /\ s1'.current = s1.current /\ s1'.timer = s1.timer
        /\ s1'.broken = s1.broken /\ s1'.disposed = s1.disposed
    BY <2>2 DEF Hook
  <2>4. fresh \in Clip /\ fresh.data = "loading"
    BY DEF Clip
  <2> HIDE DEF fresh
  <2>5. /\ s2' \in [Clips!Clips -> Clip]
        /\ \A y \in Clips!Clips : s2'[y] = IF y = "b" THEN fresh ELSE s2[y]
    BY <2>1, <2>2, <2>4 DEF ClipsInv, ClipsType
  <2>6. \A type \in {"error", "progress"} : <<"a", type>> \in s3 => <<"a", type>> \in s3'
    BY <2>1, <2>2
  <2>7. ASSUME ~s1.disposed PROVE Carried'
    <3>1. s2'["a"] = s2["a"]
      BY <2>1, <2>5
    <3>2. ASSUME NEW y \in Clips!Clips, s2'[y].data = "broken"
          PROVE  y \in s1.broken \/ <<y, "error">> \in s3'
      <4>1. y = "a"
        BY <2>4, <2>5, <3>2 DEF Clips!Clips
      <4> QED BY <2>1, <2>6, <2>7, <3>1, <3>2, <4>1 DEF ClipsInv, Carried
    <3> QED BY <2>1, <2>3, <2>6, <2>7, <3>1, <3>2 DEF ClipsInv, Carried
  <2> QED BY <2>3, <2>5, <2>7 DEF ClipsInv, ClipsType
<1>2. CASE ~(Clips!next = "b" /\ ~s1.warmed)
  <2>1. s1' = s /\ s3' = events /\ s2' = s2
    BY <1>2 DEF Clips!WarmPartner
  <2>2. ~s1.disposed => Carried'
    <3>1. s1.current \in Clips!Clips
      BY DEF ClipsInv, ClipsType, Hook
    <3> QED BY <2>1, <3>1 DEF ClipsInv, Carried
  <2> QED BY <2>1, <2>2 DEF ClipsInv, ClipsType
<1> QED BY <1>1, <1>2

LEMMA ClipsStepKeeps == ClipsInv /\ [Clips!Next]_clipsVars => ClipsInv'
<1> SUFFICES ASSUME ClipsInv, [Clips!Next]_clipsVars PROVE ClipsInv'
  OBVIOUS
<1>0. ClipsType /\ s1 \in Hook /\ s1.current \in Clips!Clips /\ s1.broken \in SUBSET Clips!Clips
  BY DEF ClipsInv, ClipsType, Hook
<1>1. ASSUME NEW x \in Clips!Clips, Clips!OnProgress(x) PROVE ClipsInv'
  <2>1. s2' = s2 /\ s3' = s3 \ {<<x, "progress">>} /\ ~s1.disposed
    BY <1>1 DEF Clips!OnProgress
  <2>2. CASE x = s1.current
    <3>1. s1' = Clips!Armed(s1)
      BY <1>1, <2>2 DEF Clips!OnProgress
    <3>2. /\ s1' \in Hook /\ s1'.current = s1.current /\ s1'.broken = s1.broken
          /\ s1'.disposed = s1.disposed /\ s1'.timer = (s2[s1.current].data \in Metadata)
      BY <1>0, <2>1, <3>1, ArmedDoes
    <3> QED BY <2>1, <3>2, HookKeeps DEF ClipsInv, Carried
  <2>3. CASE x # s1.current
    <3>1. s1' = s1
      BY <1>1, <2>3 DEF Clips!OnProgress
    <3> QED BY <1>0, <2>1, <2>3, <3>1, HookKeeps DEF ClipsInv, Carried
  <2> QED BY <2>2, <2>3
<1>2. ASSUME NEW x \in Clips!Clips, Clips!OnEnded(x) PROVE ClipsInv'
  <2>1. s3' = s3 \ {<<x, "ended">>} /\ ~s1.disposed /\ Carried
    BY <1>2 DEF Clips!OnEnded, ClipsInv
  <2>2. CASE x = s1.current
    <3>1. Clips!Hand(s1.broken)
      BY <1>2, <2>2 DEF Clips!OnEnded
    <3> QED BY <1>0, <2>1, <3>1, HandKeeps DEF Carried
  <2>3. CASE x # s1.current
    <3>1. s1' = s1 /\ s2' = s2
      BY <1>2, <2>3 DEF Clips!OnEnded
    <3> QED BY <1>0, <2>1, <3>1, HookKeeps DEF Carried
  <2> QED BY <2>2, <2>3
<1>3. ASSUME NEW x \in Clips!Clips, Clips!OnError(x) PROVE ClipsInv'
  <2>1. s3' = s3 \ {<<x, "error">>} /\ ~s1.disposed /\ Carried
    BY <1>3 DEF Clips!OnError, ClipsInv
  <2>2. PICK broken : broken = s1.broken \cup {x}
    OBVIOUS
  <2>3. broken \in SUBSET Clips!Clips
    BY <1>0, <2>2
  <2>4. CASE broken = Clips!Clips
    <3>1. s1' = [s1 EXCEPT !.broken = broken, !.timer = FALSE] /\ s2' = s2
      BY <1>3, <2>2, <2>4 DEF Clips!OnError
    <3>2. /\ s1' \in Hook /\ s1'.current = s1.current /\ s1'.disposed = s1.disposed
          /\ s1'.broken = broken
      BY <1>0, <2>3, <3>1 DEF Hook
    <3> QED BY <2>1, <2>2, <2>4, <3>1, <3>2, HookKeeps
  <2>5. CASE broken # Clips!Clips /\ x = s1.current
    <3>1. Clips!Hand(broken)
      BY <1>3, <2>2, <2>5 DEF Clips!OnError
    <3>2. Clips!next \notin broken
      BY <1>0, <2>2, <2>5 DEF Clips!next, Clips!Other, Clips!Clips
    <3>3. \A y \in Clips!Clips : s2[y].data = "broken" => y \in broken \/ <<y, "error">> \in s3'
      BY <2>1, <2>2 DEF Carried
    <3> QED BY <1>0, <2>1, <2>3, <3>1, <3>2, <3>3, HandKeeps DEF Carried
  <2>6. CASE broken # Clips!Clips /\ x # s1.current
    <3>1. s1' = [s1 EXCEPT !.broken = broken] /\ s2' = s2
      BY <1>3, <2>2, <2>6 DEF Clips!OnError
    <3>2. /\ s1' \in Hook /\ s1'.current = s1.current /\ s1'.disposed = s1.disposed
          /\ s1'.broken = broken /\ s1'.timer = s1.timer
      BY <1>0, <2>3, <3>1 DEF Hook
    <3>3. s1.current \notin broken
      BY <1>0, <2>1, <2>2, <2>6 DEF Carried
    <3> QED BY <2>1, <2>2, <3>1, <3>2, <3>3, HookKeeps
  <2> QED BY <2>4, <2>5, <2>6
<1>4. ASSUME NEW x \in Clips!Clips, Clips!OnRefused(x) PROVE ClipsInv'
  <2>1. /\ s1' = [s1 EXCEPT !.waiting = s1.waiting \/ ~s1.disposed]
        /\ s2' = s2 /\ s3' = s3 \ {<<x, "refused">>}
    BY <1>4 DEF Clips!OnRefused
  <2>2. /\ s1' \in Hook /\ s1'.current = s1.current /\ s1'.disposed = s1.disposed
        /\ s1'.broken = s1.broken /\ s1'.timer = s1.timer
    BY <1>0, <2>1 DEF Hook
  <2> QED BY <2>1, <2>2 DEF ClipsInv, ClipsType, Carried
<1>5. ASSUME NEW x \in Clips!Clips,
             Clips!Loads(x) \/ Clips!Plays(x) \/ Clips!Stalls(x) \/ Clips!Ends(x)
                \/ Clips!Refuses(x) \/ Clips!Breaks(x)
      PROVE  ClipsInv'
  <2>1. PICK old \in Clip : old = s2[x]
    BY <1>0 DEF ClipsType
  <2>2. \A play \in {"off", "asked", "playing"} :
            /\ [old EXCEPT !.play = play] \in Clip
            /\ [old EXCEPT !.play = play].data = old.data
    BY DEF Clip
  <2>3. \A data \in {"metadata", "canplay"} :
            /\ [old EXCEPT !.data = data] \in Clip
            /\ [old EXCEPT !.data = data].data = data
    BY DEF Clip
  <2>4. CASE Clips!Loads(x)
    <3>1. CASE old.data = "loading" /\ Clips!Becomes(x, [old EXCEPT !.data = "metadata"], {"progress"})
      BY <2>1, <2>3, <3>1, ClipKeeps
    <3>2. CASE /\ old.data = "metadata"
               /\ \E types : Clips!Becomes(x, [old EXCEPT !.data = "canplay"], types)
      BY <2>1, <2>3, <3>2, ClipKeeps DEF Metadata
    <3> QED BY <2>1, <2>4, <3>1, <3>2 DEF Clips!Loads
  <2>5. ASSUME NEW play \in {"off", "asked", "playing"}, NEW types,
               Clips!Becomes(x, [old EXCEPT !.play = play], types)
        PROVE  ClipsInv'
    BY <2>1, <2>2, <2>5, ClipKeeps
  <2>6. CASE Clips!Plays(x)
    <3>1. CASE Clips!Becomes(x, [old EXCEPT !.play = "playing"], {"progress"})
      BY <2>5, <3>1
    <3>2. CASE Clips!Becomes(x, old, {"progress"})
      BY <2>1, <3>2, ClipKeeps
    <3> QED BY <2>1, <2>6, <3>1, <3>2 DEF Clips!Plays
  <2>7. CASE Clips!Stalls(x) \/ Clips!Ends(x) \/ Clips!Refuses(x)
    BY <2>1, <2>5, <2>7 DEF Clips!Stalls, Clips!Ends, Clips!Refuses
  <2>8. CASE Clips!Breaks(x)
    <3>1. PICK c, types : /\ c = [data |-> "broken", play |-> "off"] /\ "error" \in types
                          /\ Clips!Becomes(x, c, types)
      BY <2>8 DEF Clips!Breaks
    <3>2. c \in Clip /\ c.data = "broken"
      BY <3>1 DEF Clip
    <3> QED BY <3>1, <3>2, ClipKeeps DEF Metadata
  <2> QED BY <1>5, <2>4, <2>6, <2>7, <2>8
<1>6. CASE Clips!TimerFires
  <2>1. Clips!Hand(s1.broken) /\ s3' = s3
    BY <1>6 DEF Clips!TimerFires
  <2> QED BY <1>0, <2>1, HandKeeps DEF ClipsInv, Carried
<1>7. CASE Clips!OnGesture
  <2>1. /\ s1' = [s1 EXCEPT !.waiting = FALSE] /\ s3' = s3
        /\ s2' = Clips!Played(s2, s1.current)
    BY <1>7 DEF Clips!OnGesture
  <2>2. /\ s1' \in Hook /\ s1'.current = s1.current /\ s1'.disposed = s1.disposed
        /\ s1'.broken = s1.broken /\ s1'.timer = s1.timer
    BY <1>0, <2>1 DEF Hook
  <2>3. /\ s2' \in [Clips!Clips -> Clip]
        /\ \A y \in Clips!Clips : s2'[y].data =
              IF y = s1.current /\ s2[y].data = "none" THEN "loading" ELSE s2[y].data
    BY <1>0, <2>1, PlayedDoes
  <2>4. ASSUME ~s1.disposed PROVE Carried'
    <3>1. \A y \in Clips!Clips : s2'[y].data = "broken" => s2[y].data = "broken"
      BY <2>3
    <3>2. s2'[s1.current].data = s2[s1.current].data /\ s2[s1.current].data # "none"
      BY <1>0, <2>3, <2>4 DEF ClipsInv, Carried
    <3> QED BY <1>0, <2>1, <2>2, <2>4, <3>1, <3>2 DEF ClipsInv, Carried
  <2> QED BY <2>2, <2>3, <2>4 DEF ClipsInv, ClipsType
<1>8. CASE Clips!OnCanPlay
  BY <1>0, <1>8, WarmKeeps DEF Clips!OnCanPlay
<1>9. CASE Clips!WarmFallback
  <2>1. PICK s : s = [s1 EXCEPT !.fallback = FALSE]
    OBVIOUS
  <2>2. /\ s \in Hook /\ s.current = s1.current /\ s.timer = s1.timer /\ s.broken = s1.broken
        /\ s.disposed = s1.disposed
    BY <1>0, <2>1 DEF Hook
  <2>3. Clips!WarmPartner(s, s3)
    BY <1>9, <2>1 DEF Clips!WarmFallback
  <2> QED BY <2>2, <2>3, WarmKeeps
<1>10. CASE Clips!Dispose
  <2>3. s2' = s2
    BY <1>10 DEF Clips!Dispose
  <2>4. PICK half : half = [s1 EXCEPT !.disposed = TRUE, !.timer = FALSE]
    OBVIOUS
  <2>5. half = [current |-> s1.current, timer |-> FALSE, broken |-> s1.broken,
                waiting |-> s1.waiting, disposed |-> TRUE, warmed |-> s1.warmed,
                fallback |-> s1.fallback]
    BY <1>0, <2>4 DEF Hook
  <2>6. s1' = [half EXCEPT !.fallback = FALSE, !.waiting = FALSE]
    BY <1>10, <2>4, Zenon DEF Clips!Dispose
  <2>8. PICK most : most = [half EXCEPT !.fallback = FALSE]
    OBVIOUS
  <2>9. most = [current |-> s1.current, timer |-> FALSE, broken |-> s1.broken,
                waiting |-> s1.waiting, disposed |-> TRUE, warmed |-> s1.warmed,
                fallback |-> FALSE]
    BY <2>5, <2>8
  <2>10. s1' = [most EXCEPT !.waiting = FALSE]
    BY <2>6, <2>8, Zenon
  <2>11. most \in Hook /\ most.disposed
    BY <1>0, <2>9 DEF Hook
  <2>12. s1' \in Hook /\ s1'.disposed
    BY <2>10, <2>11 DEF Hook
  <2> QED BY <2>3, <2>12, <1>0 DEF ClipsInv, ClipsType
<1>11. CASE UNCHANGED clipsVars
  BY <1>11 DEF clipsVars, ClipsInv, ClipsType, Carried
<1> QED BY <1>1, <1>2, <1>3, <1>4, <1>5, <1>6, <1>7, <1>8, <1>9, <1>10, <1>11 DEF Clips!Next

LEMMA ClipsBegin == Clips!Init => ClipsInv
BY DEF Clips!Init, ClipsInv, ClipsType, Carried, Hook, Clip, Metadata, Clips!Clips

\* The inductive invariant: from when its length is known, the clip on screen has
\* a timer or will have.  (useAlternatingVideo.ts.)
LEMMA ClipsInvariant == MCSpec => [](part = "clips" => ClipsInv)
<1> DEFINE Inv == part = "clips" => ClipsInv
<1>1. MCInit => Inv
  BY ClipsBegin DEF MCInit
<1>2. Inv /\ [MCNext]_all => Inv'
  <2> SUFFICES ASSUME Inv, [MCNext]_all PROVE Inv'
    OBVIOUS
  <2>1. part' = part /\ (part = "clips" => [Clips!Next]_clipsVars)
    BY DEF MCNext, all, clipsVars
  <2> QED BY <2>1, ClipsStepKeeps
<1> HIDE DEF Inv
<1>3. MCSpec => []Inv
  BY <1>1, <1>2, PTL DEF MCSpec
<1> QED BY <1>3 DEF Inv

\* One clip that is left carries the scene.  (useAlternatingVideo.ts:50.)
THEOREM OneClipCarries == MCSpec => []CarriesTheScene
<1>1. (part = "clips" => ClipsInv) => CarriesTheScene
  <2> SUFFICES ASSUME part = "clips", ClipsInv, ~s1.disposed, s1.broken # Clips!Clips
               PROVE  /\ s1.current \notin s1.broken
                      /\ Clips!SomethingMovesIt \/ s2[s1.current].data = "loading"
    BY DEF CarriesTheScene, Clips!CarriesTheScene
  <2>1. Carried /\ s1.current \in Clips!Clips
    BY DEF ClipsInv, ClipsType, Hook
  <2>2. s2[s1.current].data \in {"none", "loading", "metadata", "canplay", "broken"}
    BY <2>1 DEF ClipsInv, ClipsType, Clip
  <2> QED BY <2>1, <2>2 DEF Carried, Metadata, Clips!SomethingMovesIt, Clips!Heard
<1> QED BY <1>1, ClipsInvariant, PTL

-----------------------------------------------------------------------------
(* The strip of frames. *)

stripVars == <<s1, s2, s3, s4, s5, s6>>

StripType ==
    /\ s1 \in [attached : BOOLEAN,
               image : [Strip!Frames -> {"none", "loading", "ready", "broken"}]]
    /\ s2 \in SUBSET Strip!Frames
    /\ s3 \in [target : Strip!Positions, at : Strip!Positions]
    /\ s4 \in {"asleep", "requested", "thrown"}

\* Asleep, the loop has brought the playhead to where it goes, and what it
\* painted is the best of what has come since.
StripInv ==
    /\ StripType
    /\ s4 = "asleep" => s3.at = s3.target
    /\ s4 = "asleep" /\ s2 = {} /\ Strip!broken = {} /\ Strip!Complete # {} =>
          s5 = Strip!Best(s3.at, Strip!Complete)

Less == {p \in Nat \X Nat : p[1] < p[2]}

\* Of the frames that came there is a nearest one, and it is what is taken.
LEMMA NearestIsOne ==
    ASSUME NEW want \in Int, NEW complete \in SUBSET Strip!Frames, complete # {}
    PROVE  Strip!Nearest(want, complete) \in complete
<1> DEFINE Distance(f) == IF f > want THEN 2 * (f - want) + 1 ELSE 2 * (want - f)
           far == {Distance(f) : f \in complete}
<1>1. \A f \in complete : f \in Int
  BY BrowserAssumption DEF Strip!Frames
<1>2. \A f \in complete : Distance(f) \in Nat
  BY <1>1
<1>3. far \subseteq Nat /\ far # {}
  BY <1>2
<1>4. IsWellFoundedOn(Less, Nat)
  <2>1. Less = OpToRel(<, Nat)
    BY Zenon DEF Less, OpToRel
  <2> QED BY <2>1, NatLessThanWellFounded
<1>5. PICK d \in far : \A e \in far : <<e, d>> \notin Less
  <2> HIDE DEF far
  <2> QED BY <1>3, <1>4, WFMin, Zenon
<1>6. PICK f \in complete : d = Distance(f)
  BY <1>5
<1>7. \A g \in complete : Distance(f) <= Distance(g)
  <2>1. ASSUME NEW g \in complete PROVE Distance(f) <= Distance(g)
    <3>1. Distance(g) \in far /\ Distance(g) \in Nat /\ d \in Nat
      BY <1>2, <1>3, <1>5
    <3>2. ~(Distance(g) < d)
      <4> HIDE DEF Distance, far
      <4> QED BY <1>5, <3>1 DEF Less
    <3> QED
      <4> HIDE DEF Distance, far
      <4> QED BY <1>6, <3>1, <3>2
  <2> QED BY <2>1
<1>8. Strip!Nearest(want, complete) =
        CHOOSE g \in complete : \A h \in complete : Distance(g) <= Distance(h)
  BY Zenon DEF Strip!Nearest
<1> HIDE DEF Distance
<1> QED BY <1>7, <1>8

LEMMA BestIsThere ==
    ASSUME NEW position \in Strip!Positions, NEW complete \in SUBSET Strip!Frames,
           complete # {}
    PROVE  /\ Strip!Best(position, complete).a \in complete
           /\ Strip!Best(position, complete).b \in complete
<1>1. position \div 2 \in Int /\ position \div 2 + 1 \in Int
  BY BrowserAssumption DEF Strip!Positions
<1>2. /\ Strip!Nearest(position \div 2, complete) \in complete
      /\ Strip!Nearest(position \div 2 + 1, complete) \in complete
  BY <1>1, NearestIsOne
<1> QED BY <1>2 DEF Strip!Best

\* The loop that has something to do is awake.
LEMMA AwakeKeeps == ASSUME StripType', s4' # "asleep" PROVE StripInv'
BY DEF StripInv

\* Nothing that came is left to draw, or something came that was not heard of.
LEMMA UnseenKeeps ==
    ASSUME StripInv, StripType', s3' = s3, s4' = s4,
           s2' # {} \/ Strip!broken' # {} \/ Strip!Complete' = {}
    PROVE  StripInv'
BY DEF StripInv

LEMMA ObserveKeeps ==
    ASSUME StripInv, NEW seen \in BOOLEAN, Strip!Observe(seen)
    PROVE  StripInv'
<1>1. CASE seen = s1.attached
  <2>1. UNCHANGED <<s1, s2, s3, s4, s5>>
    BY <1>1 DEF Strip!Observe
  <2> QED BY <2>1 DEF StripInv, StripType, Strip!Complete, Strip!broken
<1>2. CASE seen # s1.attached
  <2>1. s1' = (IF seen THEN Strip!Fetched ELSE Strip!Nothing) /\ s2' = {} /\ s3' = s3 /\ s4' = s4
    BY <1>2 DEF Strip!Observe
  <2>2. /\ s1' \in [attached : BOOLEAN,
                    image : [Strip!Frames -> {"none", "loading", "ready", "broken"}]]
        /\ \A f \in Strip!Frames : s1'.image[f] \in {"none", "loading"}
    BY <2>1 DEF Strip!Fetched, Strip!Nothing
  <2>3. Strip!Complete' = {}
    BY <2>2 DEF Strip!Complete
  <2> QED BY <2>1, <2>2, <2>3, UnseenKeeps DEF StripInv, StripType
<1> QED BY <1>1, <1>2

LEMMA FrameKeeps ==
    ASSUME StripInv, NEW f \in Strip!Frames,
           Strip!Lands(f) \/ Strip!Breaks(f) \/ Strip!OnLoad(f)
    PROVE  StripInv'
<1>0. StripType
  BY DEF StripInv
<1>1. ASSUME NEW got \in {"ready", "broken"}, s1' = [s1 EXCEPT !.image[f] = got]
      PROVE  /\ s1' \in [attached : BOOLEAN,
                         image : [Strip!Frames -> {"none", "loading", "ready", "broken"}]]
             /\ s1'.image[f] = got
  BY <1>0, <1>1 DEF StripType
<1>2. CASE Strip!Lands(f)
  <2>1. s1' = [s1 EXCEPT !.image[f] = "ready"] /\ s2' = s2 \cup {f} /\ s3' = s3 /\ s4' = s4
    BY <1>2 DEF Strip!Lands
  <2>2. StripType' /\ s2' # {}
    BY <1>0, <1>1, <2>1 DEF StripType
  <2> QED BY <2>1, <2>2, UnseenKeeps
<1>3. CASE Strip!Breaks(f)
  <2>1. s1' = [s1 EXCEPT !.image[f] = "broken"] /\ s2' = s2 /\ s3' = s3 /\ s4' = s4
    BY <1>3 DEF Strip!Breaks
  <2>2. StripType' /\ f \in Strip!broken'
    BY <1>0, <1>1, <2>1 DEF StripType, Strip!broken
  <2> QED BY <2>1, <2>2, UnseenKeeps
<1>4. CASE Strip!OnLoad(f)
  <2>1. StripType' /\ s4' = "requested"
    BY <1>0, <1>4 DEF Strip!OnLoad, Strip!Woken, StripType
  <2> QED BY <2>1, AwakeKeeps
<1> QED BY <1>2, <1>3, <1>4

LEMMA LoopKeeps == ASSUME StripInv, Strip!Step PROVE StripInv'
<1>0. StripType
  BY DEF StripInv
<1> DEFINE at == Strip!Toward(s3.at, s3.target)
           best == Strip!Best(at, Strip!Complete)
<1>1. s3.at \in Strip!Positions /\ s3.target \in Strip!Positions
  BY <1>0 DEF StripType
<1>2. at \in Strip!Positions /\ (at = s3.at => s3.at = s3.target)
  BY <1>1, BrowserAssumption DEF Strip!Toward, Strip!Positions
<1>3. s1' = s1 /\ s2' = s2 /\ s3' = [s3 EXCEPT !.at = at]
  BY DEF Strip!Step
<1>4. s4' \in {"thrown", "requested", "asleep"} /\ (s4' = "asleep" => at = s3.at)
  BY DEF Strip!Step
<1> HIDE DEF at
<1>5. StripType' /\ s3'.at = at /\ s3'.target = s3.target
  BY <1>0, <1>2, <1>3, <1>4 DEF StripType
<1>6. Strip!Complete' = Strip!Complete /\ Strip!broken' = Strip!broken
  BY <1>3 DEF Strip!Complete, Strip!broken
<1>7. ASSUME Strip!broken = {}, Strip!Complete # {}
      PROVE  s5' = best
  <2>1. Strip!Complete \in SUBSET Strip!Frames
    BY DEF Strip!Complete
  <2>2. best.a \in Strip!Complete /\ best.b \in Strip!Complete
    BY <1>2, <1>7, <2>1, BestIsThere
  <2> HIDE DEF best
  <2>3. s1.image[best.a] = "ready" /\ s1.image[best.b] # "broken"
    BY <1>7, <2>2 DEF Strip!Complete, Strip!broken
  <2>4. s5' = IF /\ Strip!Complete # {} /\ s1.image[best.a] = "ready"
                 /\ ~(/\ Strip!Complete # {} /\ s1.image[best.a] = "ready"
                      /\ s1.image[best.b] = "broken")
              THEN best ELSE s5
    BY DEF Strip!Step, at, best
  <2> QED BY <1>7, <2>3, <2>4
<1> HIDE DEF best
<1>8. ASSUME s4' = "asleep" PROVE s3'.at = s3'.target
  BY <1>2, <1>4, <1>5, <1>8
<1>9. ASSUME Strip!broken' = {}, Strip!Complete' # {}
      PROVE  s5' = Strip!Best(s3'.at, Strip!Complete')
  BY <1>5, <1>6, <1>7, <1>9 DEF best
<1> QED BY <1>5, <1>8, <1>9 DEF StripInv

LEMMA StripStepKeeps == StripInv /\ [Strip!Next]_stripVars => StripInv'
<1> SUFFICES ASSUME StripInv, [Strip!Next]_stripVars PROVE StripInv'
  OBVIOUS
<1>0. StripType
  BY DEF StripInv
<1>1. ASSUME NEW f \in Strip!Frames, Strip!Lands(f) \/ Strip!Breaks(f) \/ Strip!OnLoad(f)
      PROVE  StripInv'
  BY <1>1, FrameKeeps
<1>2. ASSUME NEW seen \in BOOLEAN, Strip!Observe(seen) PROVE StripInv'
  BY <1>2, ObserveKeeps
<1>3. ASSUME NEW position \in Strip!Positions,
             Strip!Scroll(position) \/ Strip!Restart(position)
      PROVE  StripInv'
  <2>1. /\ s1' = s1 /\ s2' = s2 /\ s4' = "requested"
        /\ s3' = [s3 EXCEPT !.target = position]
    BY <1>3 DEF Strip!Scroll, Strip!Restart
  <2>2. StripType'
    BY <1>0, <2>1 DEF StripType
  <2> QED BY <2>1, <2>2, AwakeKeeps
<1>4. CASE Strip!Step
  BY <1>4, LoopKeeps
<1>5. CASE Strip!Point
  <2>1. StripType' /\ s4' = "requested"
    BY <1>0, <1>5 DEF Strip!Point, StripType
  <2> QED BY <2>1, AwakeKeeps
<1>6. CASE UNCHANGED stripVars
  BY <1>6 DEF stripVars, StripInv, StripType, Strip!Complete, Strip!broken
<1> QED BY <1>1, <1>2, <1>3, <1>4, <1>5, <1>6 DEF Strip!Next

LEMMA StripBegins == Strip!Init => StripInv
<1> SUFFICES ASSUME Strip!Init PROVE StripInv
  OBVIOUS
<1>1. PICK position \in Strip!Positions : s3 = [target |-> position, at |-> 0]
  BY DEF Strip!Init
<1>2. 0 \in Strip!Positions
  BY BrowserAssumption DEF Strip!Positions
<1>3. s1 = Strip!Fetched /\ s2 = {} /\ s4 = "requested"
  BY DEF Strip!Init, Strip!Woken
<1>4. s1 \in [attached : BOOLEAN,
             image : [Strip!Frames -> {"none", "loading", "ready", "broken"}]]
  BY <1>3 DEF Strip!Fetched
<1>5. StripType
  BY <1>1, <1>2, <1>3, <1>4 DEF StripType
<1> QED BY <1>3, <1>5 DEF StripInv

\* The inductive invariant: the loop sleeps only on what is painted.
\* (useHeroSequence.ts.)
LEMMA StripInvariant == MCSpec => [](part = "strip" => StripInv)
<1> DEFINE Inv == part = "strip" => StripInv
<1>1. MCInit => Inv
  BY StripBegins DEF MCInit
<1>2. Inv /\ [MCNext]_all => Inv'
  <2> SUFFICES ASSUME Inv, [MCNext]_all PROVE Inv'
    OBVIOUS
  <2>1. part' = part /\ (part = "strip" => [Strip!Next]_stripVars)
    BY DEF MCNext, all, stripVars
  <2> QED BY <2>1, StripStepKeeps
<1> HIDE DEF Inv
<1>3. MCSpec => []Inv
  BY <1>1, <1>2, PTL DEF MCSpec
<1> QED BY <1>3 DEF Inv

\* However many frames a strip has, in whatever order they come: at rest the best
\* of them is on the canvas.  (useHeroSequence.ts:141.)
THEOREM RestAlwaysShowsBest == MCSpec => []AtRestShowsBest
<1>1. (part = "strip" => StripInv) => AtRestShowsBest
  BY DEF StripInv, AtRestShowsBest, Strip!AtRestShowsBest, Strip!atRest
<1> QED BY <1>1, StripInvariant, PTL

-----------------------------------------------------------------------------
(* The painting on the wall. *)

ringVars == <<s1, s2, s3, s4, s5, s6>>

\* A scene, or the lack of one.
IsRing(r) == DOMAIN r = DOMAIN Ring!NoRing /\ r.build \in Nat

\* No scene is alive before its job is done; what hangs is of the scene that is
\* alive, but for lamps.
RingInv ==
    /\ s6 \in Nat
    /\ IsRing(s3)
    /\ "mounted" \in DOMAIN s1
    /\ ~s1.mounted => s2 = "done"
    /\ s2 # "done" \/ ~s1.mounted => s3.build = 0
    /\ s5 \in [room : SUBSET ((Nat \ {0}) \X Ring!Made),
               textures : SUBSET ((Nat \ {0}) \X Ring!Slots)]
    /\ \A h \in s5.room : h[2] = "lamp" \/ h[1] = s3.build
    /\ \A h \in s5.textures : h[1] = s3.build

\* It is the same scene.
Same(r) == IsRing(r) /\ r.build = s3.build

\* Whatever turns the ring, and shows it or hides it, it is the same scene.
LEMMA TurnsTheSame ==
    ASSUME NEW r, Same(r)
    PROVE  /\ \A index : Same(Ring!Towards(index, r))
           /\ \A x : /\ Same([r EXCEPT !.rotation = x]) /\ Same([r EXCEPT !.togo = x])
                     /\ Same([r EXCEPT !.velocity = x]) /\ Same([r EXCEPT !.dragging = x])
                     /\ Same([r EXCEPT !.moved = x]) /\ Same([r EXCEPT !.visible = x])
                     /\ Same([r EXCEPT !.frame = x]) /\ Same([r EXCEPT !.active = x])
           /\ Same(Ring!Started(r))
           /\ \A q \in Ring!Moved(r) : Same(q)
<1>1. \A x : /\ Same([r EXCEPT !.rotation = x]) /\ Same([r EXCEPT !.togo = x])
             /\ Same([r EXCEPT !.velocity = x]) /\ Same([r EXCEPT !.dragging = x])
             /\ Same([r EXCEPT !.moved = x]) /\ Same([r EXCEPT !.visible = x])
             /\ Same([r EXCEPT !.frame = x]) /\ Same([r EXCEPT !.active = x])
  BY DEF Same, IsRing, Ring!NoRing
<1>3. \A index : Same(Ring!Towards(index, r))
  BY <1>1 DEF Ring!Towards
<1>4. Same(Ring!Started(r))
  BY <1>1 DEF Ring!Started
<1>5. ASSUME NEW q \in Ring!Moved(r) PROVE Same(q)
  <2>1. CASE r.dragging
    BY <1>5, <2>1 DEF Ring!Moved
  <2>2. CASE ~r.dragging /\ r.togo # Ring!None
    <3>1. PICK x, y : q = [r EXCEPT !.rotation = x, !.togo = y]
      BY <1>5, <2>2 DEF Ring!Moved
    <3> QED BY <3>1 DEF Same, IsRing, Ring!NoRing
  <2>3. CASE ~r.dragging /\ r.togo = Ring!None /\ r.velocity # 0
    <3>1. PICK x, y : q = [r EXCEPT !.rotation = x, !.velocity = y]
      BY <1>5, <2>3 DEF Ring!Moved
    <3> QED BY <3>1 DEF Same, IsRing, Ring!NoRing
  <2>4. CASE ~r.dragging /\ r.togo = Ring!None /\ r.velocity = 0
    <3>1. \E y : q = [r EXCEPT !.togo = y]
      BY <1>5, <2>4 DEF Ring!Moved
    <3> QED BY <1>1, <3>1
  <2> QED BY <2>1, <2>2, <2>3, <2>4
<1> QED BY <1>1, <1>3, <1>4, <1>5

\* The section is as it was, but for whether it is there.
SamePage(p) == "mounted" \in DOMAIN p /\ p.mounted = s1.mounted

LEMMA PageStays ==
    ASSUME "mounted" \in DOMAIN s1
    PROVE  \A x : /\ SamePage([s1 EXCEPT !.mode = x]) /\ SamePage([s1 EXCEPT !.active = x])
                  /\ SamePage([s1 EXCEPT !.hidden = x])
BY DEF SamePage

\* A step that leaves the scene, and what was created for it, as they are.
LEMMA SameSceneKeeps ==
    ASSUME RingInv, Same(s3'), SamePage(s1'), s5' = s5, s6' = s6,
           s2 = "done" => s2' = "done"
    PROVE  RingInv'
BY DEF RingInv, Same, SamePage, IsRing

\* The scene is gone, with what was created for it.
LEMMA TearDownKeeps ==
    ASSUME RingInv, Ring!TearDown, "mounted" \in DOMAIN s1', ~s1'.mounted => s2' = "done"
    PROVE  RingInv'
<1>1. IsRing(s3') /\ s3'.build = 0
  BY DEF Ring!TearDown, Ring!NoRing, IsRing
<1>2. /\ s5'.room = s5.room \ ({s3.build} \X Ring!Disposed)
      /\ s5'.textures = s5.textures \ ({s3.build} \X Ring!Slots)
      /\ s5' \in [room : SUBSET ((Nat \ {0}) \X Ring!Made),
                  textures : SUBSET ((Nat \ {0}) \X Ring!Slots)]
  BY DEF RingInv, Ring!TearDown, Ring!Destroyed
<1>3. ASSUME NEW h \in s5'.room PROVE h[2] = "lamp"
  <2>1. h \in s5.room /\ h \in (Nat \ {0}) \X Ring!Made
    BY <1>2 DEF RingInv
  <2>2. h = <<h[1], h[2]>> /\ h[2] \in Ring!Made
    BY <2>1
  <2>3. CASE h[2] # "lamp"
    <3>1. h[1] = s3.build /\ h[2] \in Ring!Disposed
      BY <2>1, <2>2, <2>3 DEF RingInv, Ring!Disposed
    <3> QED BY <1>2, <2>2, <3>1
  <2> QED BY <2>3
<1>4. s5'.textures = {}
  <2>1. ASSUME NEW h \in s5'.textures PROVE FALSE
    <3>1. h \in s5.textures /\ h \in (Nat \ {0}) \X Ring!Slots
      BY <1>2 DEF RingInv
    <3>2. h = <<h[1], h[2]>> /\ h[2] \in Ring!Slots /\ h[1] = s3.build
      BY <3>1 DEF RingInv
    <3> QED BY <1>2, <2>1, <3>2
  <2> QED BY <2>1
<1>5. s6' = s6
  BY DEF Ring!TearDown
<1> QED BY <1>1, <1>2, <1>3, <1>4, <1>5 DEF RingInv

LEMMA BuildKeeps == ASSUME RingInv, Ring!Build PROVE RingInv'
<1>1. s6' = s6 + 1 /\ s6' \in Nat \ {0} /\ s1' = s1 /\ s2' = "done" /\ s2 = "scheduled"
  BY DEF RingInv, Ring!Build
<1>2. s3.build = 0 /\ s1.mounted /\ "mounted" \in DOMAIN s1
  BY <1>1 DEF RingInv
<1> DEFINE fresh == [Ring!NoRing EXCEPT !.build = s6', !.togo = 0]
<1>3. IsRing(fresh) /\ fresh.build = s6'
  BY <1>1 DEF IsRing, Ring!NoRing
<1>4. s3' = Ring!Started(fresh)
  BY DEF Ring!Build
<1> HIDE DEF fresh
<1>5. IsRing(s3') /\ s3'.build = s6'
  BY <1>3, <1>4 DEF IsRing, Ring!NoRing, Ring!Started
<1>6. /\ s5'.room = s5.room \cup ({s6'} \X Ring!Made)
      /\ s5'.textures = s5.textures
      /\ s5' \in [room : SUBSET ((Nat \ {0}) \X Ring!Made),
                  textures : SUBSET ((Nat \ {0}) \X Ring!Slots)]
  BY <1>1 DEF RingInv, Ring!Build
<1>7. ASSUME NEW h \in s5'.room PROVE h[2] = "lamp" \/ h[1] = s3'.build
  <2>1. CASE h \in s5.room
    <3>1. h[1] \in Nat \ {0}
      BY <2>1 DEF RingInv
    <3> QED BY <1>2, <2>1, <3>1 DEF RingInv
  <2>2. CASE h \in {s6'} \X Ring!Made
    BY <1>5, <2>2
  <2> QED BY <1>6, <1>7, <2>1, <2>2
<1>8. s5.textures = {}
  <2>1. ASSUME NEW h \in s5.textures PROVE FALSE
    BY <1>2, <2>1 DEF RingInv
  <2> QED BY <2>1
<1> QED BY <1>1, <1>2, <1>5, <1>6, <1>7, <1>8 DEF RingInv

\* A picture is hung on the scene that asked for it, and on no other.
LEMMA LandsKeeps ==
    ASSUME RingInv, NEW build \in 1 .. MaxBuilds, NEW i \in Ring!Slots,
           Ring!TextureLands(build, i)
    PROVE  RingInv'
<1>1. s3' = s3 /\ s2' = s2 /\ s6' = s6 /\ SamePage(s1')
  BY PageStays DEF RingInv, Ring!TextureLands, Ring!Settled, SamePage
<1>2. CASE build # s3.build
  <2>1. s5' = s5
    BY <1>2 DEF Ring!TextureLands
  <2> QED BY <1>1, <2>1, SameSceneKeeps DEF RingInv, Same
<1>3. CASE build = s3.build
  <2>1. /\ s5'.room = s5.room
        /\ s5'.textures = s5.textures \cup {<<build, i>>}
        /\ s5' \in [room : SUBSET ((Nat \ {0}) \X Ring!Made),
                    textures : SUBSET ((Nat \ {0}) \X Ring!Slots)]
    BY <1>3, BrowserAssumption DEF RingInv, Ring!TextureLands
  <2> QED BY <1>1, <1>3, <2>1 DEF RingInv, SamePage
<1> QED BY <1>2, <1>3

LEMMA RingStepKeeps == RingInv /\ [Ring!Next]_ringVars => RingInv'
<1> SUFFICES ASSUME RingInv, [Ring!Next]_ringVars PROVE RingInv'
  OBVIOUS
<1>0. Same(s3) /\ SamePage(s1) /\ "mounted" \in DOMAIN s1
  BY DEF RingInv, Same, SamePage
<1>1. CASE Ring!Intersects \/ Ring!Imported \/ Ring!ImportFails \/ Ring!BuildThrows
  <2>1. s3' = s3 /\ s5' = s5 /\ s6' = s6 /\ s2 # "done"
    BY <1>1 DEF Ring!Intersects, Ring!Imported, Ring!Strip, Ring!ImportFails, Ring!BuildThrows
  <2>2. SamePage(s1')
    BY <1>0, <1>1, PageStays DEF Ring!Intersects, Ring!Imported, Ring!Strip, Ring!ImportFails,
            Ring!BuildThrows
  <2> QED BY <1>0, <2>1, <2>2, SameSceneKeeps DEF Same, IsRing
<1>2. CASE Ring!Build
  BY <1>2, BuildKeeps
<1>3. CASE Ring!Rebuild
  <2>1. Ring!TearDown /\ s1' = s1 /\ s1.mounted
    BY <1>3 DEF Ring!Rebuild
  <2> QED BY <1>0, <2>1, TearDownKeeps
<1>4. CASE Ring!Leave
  <2>1. Ring!TearDown /\ s2' = "done" /\ "mounted" \in DOMAIN s1'
    BY <1>0, <1>4 DEF Ring!Leave
  <2> QED BY <2>1, TearDownKeeps
<1>5. CASE Ring!Return
  BY <1>5 DEF RingInv, Ring!Return, Ring!Mounted, IsRing
<1>6. ASSUME NEW build \in 1 .. MaxBuilds, NEW i \in Ring!Slots,
             Ring!TextureLands(build, i) \/ Ring!TextureFails(build, i)
      PROVE  RingInv'
  <2>1. CASE Ring!TextureFails(build, i)
    <3>1. s3' = s3 /\ s2' = s2 /\ s5' = s5 /\ s6' = s6 /\ SamePage(s1')
      BY <1>0, <2>1, PageStays DEF Ring!TextureFails, Ring!Settled
    <3> QED BY <1>0, <3>1, SameSceneKeeps
  <2> QED BY <1>6, <2>1, LandsKeeps
<1>7. CASE Ring!Tick
  <2>1. PICK r, x : /\ r = s3 \/ r = Ring!Towards(s3.active + 1, s3)
                    /\ \E q \in Ring!Moved(r) :
                          s3' = [q EXCEPT !.active = Ring!Front(q.rotation), !.frame = x]
    BY <1>7 DEF Ring!Tick
  <2>2. Same(r)
    BY <1>0, <2>1, TurnsTheSame
  <2>3. PICK q \in Ring!Moved(r) :
               s3' = [q EXCEPT !.active = Ring!Front(q.rotation), !.frame = x]
    BY <2>1
  <2>4. Same(q)
    BY <2>2, TurnsTheSame
  <2>5. Same([q EXCEPT !.active = Ring!Front(q.rotation), !.frame = x])
    BY <2>4 DEF Same, IsRing, Ring!NoRing
  <2>6. s2' = s2 /\ s5' = s5 /\ s6' = s6 /\ SamePage(s1')
    BY <1>0, <1>7, PageStays DEF Ring!Tick
  <2> QED BY <2>3, <2>5, <2>6, SameSceneKeeps
<1>8. ASSUME NEW r, Ring!Input(r), Same(r) PROVE RingInv'
  BY <1>0, <1>8, SameSceneKeeps DEF Ring!Input
<1>9. CASE Ring!NextWork \/ Ring!PrevWork
  <2>1. \A index : Same(Ring!goTo(index))
    BY <1>0, TurnsTheSame DEF Ring!goTo
  <2> QED BY <1>8, <1>9, <2>1 DEF Ring!NextWork, Ring!PrevWork
<1>10. CASE Ring!PointerDown
  <2>1. Same([s3 EXCEPT !.dragging = TRUE, !.moved = FALSE, !.velocity = 0, !.togo = Ring!None])
    BY <1>0 DEF Same, IsRing, Ring!NoRing
  <2> QED BY <1>8, <1>10, <2>1 DEF Ring!PointerDown
<1>11. ASSUME NEW by \in {-1, 1}, Ring!PointerMove(by) PROVE RingInv'
  <2>1. \A x : Same([s3 EXCEPT !.rotation = x, !.velocity = by, !.moved = TRUE])
    BY <1>0 DEF Same, IsRing, Ring!NoRing
  <2>2. \E x : Ring!Input([s3 EXCEPT !.rotation = x, !.velocity = by, !.moved = TRUE])
    BY <1>11 DEF Ring!PointerMove
  <2> QED BY <1>8, <2>1, <2>2
<1>12. CASE Ring!PointerUp
  <2>1. PICK r : r = [s3 EXCEPT !.dragging = FALSE]
    OBVIOUS
  <2>2. Same(r) /\ Same([r EXCEPT !.velocity = 0])
    BY <1>0, <2>1, TurnsTheSame
  <2>3. \A i : Same([Ring!goTo(i) EXCEPT !.dragging = FALSE])
    BY <1>0, TurnsTheSame DEF Ring!goTo
  <2>4. \/ Ring!Input(r) \/ Ring!Input([r EXCEPT !.velocity = 0])
        \/ \E i \in Ring!Slots : Ring!Input([Ring!goTo(i) EXCEPT !.dragging = FALSE])
    BY <1>12, <2>1 DEF Ring!PointerUp
  <2> QED BY <1>8, <2>2, <2>3, <2>4
<1>13. CASE Ring!PointerCancel
  BY <1>0, <1>8, <1>13, TurnsTheSame DEF Ring!PointerCancel
<1>14. ASSUME NEW visible \in BOOLEAN, Ring!See(visible) PROVE RingInv'
  <2>1. PICK r : r = [s3 EXCEPT !.visible = visible]
    OBVIOUS
  <2>2. Same(r) /\ Same(Ring!Started(r))
    BY <1>0, <2>1, TurnsTheSame
  <2>3. Ring!Input(r) \/ Ring!Input(Ring!Started(r))
    BY <1>14, <2>1 DEF Ring!See
  <2> QED BY <1>8, <2>2, <2>3
<1>15. CASE Ring!Hide \/ Ring!Unhide
  <2>1. s2' = s2 /\ s5' = s5 /\ s6' = s6 /\ SamePage(s1')
    BY <1>0, <1>15, PageStays DEF Ring!Hide, Ring!Unhide
  <2>2. s3' = s3 \/ \E x : s3' = [s3 EXCEPT !.frame = x]
    BY <1>15 DEF Ring!Hide, Ring!Unhide
  <2>3. Same(s3')
    <3>1. CASE s3' = s3
      BY <1>0, <3>1 DEF Same, IsRing
    <3>2. ASSUME NEW x, s3' = [s3 EXCEPT !.frame = x] PROVE Same(s3')
      BY <1>0, <3>2 DEF Same, IsRing, Ring!NoRing
    <3> QED BY <2>2, <3>1, <3>2
  <2> QED BY <2>1, <2>3, SameSceneKeeps
<1>16. CASE UNCHANGED ringVars
  BY <1>16 DEF ringVars, RingInv, IsRing
<1> QED BY <1>1, <1>2, <1>3, <1>4, <1>5, <1>6, <1>7, <1>9, <1>10, <1>11, <1>12, <1>13, <1>14,
       <1>15, <1>16 DEF Ring!Next

LEMMA RingBegins == Ring!Init => RingInv
BY DEF Ring!Init, Ring!Mounted, Ring!NoRing, RingInv, IsRing

\* The inductive invariant: a scene is alive only when the job that builds it is
\* done, and what hangs is its own.  (PaintingShowcase.tsx, paintingRingScene.ts.)
LEMMA RingInvariant == MCSpec => [](part = "ring" => RingInv)
<1> DEFINE Inv == part = "ring" => RingInv
<1>1. MCInit => Inv
  BY RingBegins DEF MCInit
<1>2. Inv /\ [MCNext]_all => Inv'
  <2> SUFFICES ASSUME Inv, [MCNext]_all PROVE Inv'
    OBVIOUS
  <2>1. part' = part /\ (part = "ring" => [Ring!Next]_ringVars)
    BY DEF MCNext, RingStep, all, ringVars
  <2> QED BY <2>1, RingStepKeeps
<1> HIDE DEF Inv
<1>3. MCSpec => []Inv
  BY <1>1, <1>2, PTL DEF MCSpec
<1> QED BY <1>3 DEF Inv

\* However many works and scenes there are: what was created for a scene goes
\* with it.
THEOREM SceneAlwaysReleased == MCSpec => []ReleasedInDestroy
<1>1. (part = "ring" => RingInv) => ReleasedInDestroy
  BY DEF RingInv, ReleasedInDestroy, Ring!ReleasedInDestroy
<1> QED BY <1>1, RingInvariant, PTL

-----------------------------------------------------------------------------
(* The customer's chat. *)

chatVars == <<s1, s2, s3, s4, s5, s6, s7, s8, s9, s10, s11, s12>>

Tab == [store : Chat!Owners, known : BOOLEAN, token : {"fresh", "expired"},
        page : {"elsewhere", "chat"}]
Socket == [state : {"connecting", "on", "ended"}, as : Chat!Owners, room : BOOLEAN,
           up : Seq(Nat)]
OnItsWay == [as : Chat!Owners, id : Nat]
Message == [id : Nat, by : {"USER", "ADMIN"}]
Told == [messages : Nat, events : Nat]

ChatType ==
    /\ s1 \in Tab
    /\ s2 \in Chat!Owners
    /\ s3 \in Socket
    /\ s4 \in Seq(OnItsWay)
    /\ s6 \in [Chat!Owners -> Seq(Message)]
    /\ s11 \in Told
    /\ s12 \in Seq(Chat!Owners)
    /\ Len(s12) = s11.messages

\* Nobody is signed in until the cookie was asked; a connection that came about
\* is that of whoever the tab says it is.
WhoItIs ==
    /\ ~s1.known => s1.store = "guest"
    /\ s3.state = "on" => s3.as = s1.store

WroteIt(id, o) == id \in DOMAIN s12 /\ s12[id] = o

\* Whatever waits, is on its way or was saved goes, or went, to its writer.
ToItsWriter ==
    /\ \A i \in DOMAIN s3.up : WroteIt(s3.up[i], s1.store)
    /\ \A i \in DOMAIN s4 : WroteIt(s4[i].id, s4[i].as)
    /\ \A o \in Chat!Owners : \A i \in DOMAIN s6[o] : WroteIt(s6[o][i].id, o)

\* A message is in one place, once.
OnePlace ==
    /\ \A i, j \in DOMAIN s3.up : s3.up[i] = s3.up[j] => i = j
    /\ \A i, j \in DOMAIN s4 : s4[i].id = s4[j].id => i = j
    /\ \A o \in Chat!Owners : \A i, j \in DOMAIN s6[o] : s6[o][i].id = s6[o][j].id => i = j
    /\ \A i \in DOMAIN s3.up : \A j \in DOMAIN s4 : s3.up[i] # s4[j].id
    /\ \A i \in DOMAIN s3.up : \A o \in Chat!Owners : \A j \in DOMAIN s6[o] :
          s3.up[i] # s6[o][j].id
    /\ \A i \in DOMAIN s4 : \A o \in Chat!Owners : \A j \in DOMAIN s6[o] :
          s4[i].id # s6[o][j].id

ChatInv == ChatType /\ WhoItIs /\ ToItsWriter /\ OnePlace

-----------------------------------------------------------------------------

LEMMA TailIsRest ==
    ASSUME NEW S, NEW q \in Seq(S), q # << >>
    PROVE  /\ Tail(q) \in Seq(S) /\ 1 \in DOMAIN q /\ Head(q) = q[1] /\ Head(q) \in S
           /\ \A i \in DOMAIN Tail(q) : i + 1 \in DOMAIN q /\ i + 1 # 1 /\ Tail(q)[i] = q[i + 1]
           /\ \A i, j \in DOMAIN Tail(q) : i + 1 = j + 1 => i = j
OBVIOUS

LEMMA AppendIsOneMore ==
    ASSUME NEW S, NEW q \in Seq(S), NEW e \in S
    PROVE  /\ Append(q, e) \in Seq(S) /\ Len(Append(q, e)) = Len(q) + 1
           /\ Len(q) + 1 \notin DOMAIN q
           /\ \A i \in DOMAIN Append(q, e) :
                \/ i = Len(q) + 1 /\ Append(q, e)[i] = e
                \/ i \in DOMAIN q /\ Append(q, e)[i] = q[i]
           /\ \A i \in DOMAIN q : i \in DOMAIN Append(q, e) /\ Append(q, e)[i] = q[i]
           /\ Len(q) + 1 \in DOMAIN Append(q, e) /\ Append(q, e)[Len(q) + 1] = e
OBVIOUS

LEMMA SavedAdds ==
    ASSUME NEW f \in [Chat!Owners -> Seq(Message)], NEW o \in Chat!Owners, NEW message \in Message,
           NEW g, g = [f EXCEPT ![o] = Append(f[o], message)]
    PROVE  /\ g \in [Chat!Owners -> Seq(Message)]
           /\ \A p \in Chat!Owners : \A i \in DOMAIN g[p] :
                \/ p = o /\ i = Len(f[o]) + 1 /\ g[p][i] = message
                \/ i \in DOMAIN f[p] /\ g[p][i] = f[p][i]
<1>1. f[o] \in Seq(Message)
  OBVIOUS
<1>2. /\ Append(f[o], message) \in Seq(Message)
      /\ \A i \in DOMAIN Append(f[o], message) :
            \/ i = Len(f[o]) + 1 /\ Append(f[o], message)[i] = message
            \/ i \in DOMAIN f[o] /\ Append(f[o], message)[i] = f[o][i]
  BY <1>1, AppendIsOneMore
<1>3. PICK q : q = Append(f[o], message)
  OBVIOUS
<1>4. g = [f EXCEPT ![o] = q]
  BY <1>3
<1>5. g[o] = q /\ (\A p \in Chat!Owners : p # o => g[p] = f[p]) /\ g \in [Chat!Owners -> Seq(Message)]
  BY <1>2, <1>3, <1>4
<1>6. ASSUME NEW p \in Chat!Owners, NEW i \in DOMAIN g[p]
      PROVE  \/ p = o /\ i = Len(f[o]) + 1 /\ g[p][i] = message
             \/ i \in DOMAIN f[p] /\ g[p][i] = f[p][i]
  <2>1. CASE p = o
    BY <1>2, <1>3, <1>5, <2>1
  <2>2. CASE p # o
    BY <1>5, <2>2
  <2> QED BY <2>1, <2>2
<1> QED BY <1>5, <1>6

LEMMA ToldCounts ==
    ASSUME ChatType, Chat!Befalls
    PROVE  s11' \in Told /\ s11'.messages = s11.messages
<1>1. PICK n \in Nat : n = s11.events + 1
  BY DEF ChatType, Told
<1>2. s11' = [s11 EXCEPT !.events = n]
  BY <1>1 DEF Chat!Befalls
<1> QED BY <1>2 DEF ChatType, Told

\* What the socket and the server have stays where it is.
LEMMA ChatQuiet ==
    ASSUME ChatInv, s1' \in Tab, s1'.store = s1.store, s1'.known \/ s1'.known = s1.known,
           s2' \in Chat!Owners, s11' \in Told, s11'.messages = s11.messages,
           UNCHANGED <<s3, s4, s6, s12>>
    PROVE  ChatInv'
BY DEF ChatInv, ChatType, WhoItIs, ToItsWriter, OnePlace, WroteIt

\* Another connection, for whomever: what was emitted is on its way, or lost.
LEMMA RebuildKeeps ==
    ASSUME ChatInv, s1' \in Tab, ~s1'.known => s1'.store = "guest", s2' \in Chat!Owners,
           s11' \in Told, s11'.messages = s11.messages, UNCHANGED <<s6, s12>>,
           s3' = Chat!Connecting, NEW lost \in BOOLEAN, Chat!Parting(lost)
    PROVE  ChatInv'
<1>0. ChatType /\ WhoItIs /\ ToItsWriter /\ OnePlace
  BY DEF ChatInv
<1>1. /\ s3' \in Socket /\ s3'.state = "connecting" /\ s3'.up = << >>
  BY <1>0 DEF Chat!Connecting, Chat!Owners, Socket
<1>2. CASE s4' = s4
  BY <1>0, <1>1, <1>2 DEF ChatInv, ChatType, WhoItIs, ToItsWriter, OnePlace, WroteIt
<1>3. CASE s4' # s4
  <2> DEFINE sent == [i \in DOMAIN s3.up |-> [as |-> s3.as, id |-> s3.up[i]]]
  <2>1. s3.state = "on" /\ s4' = s4 \o sent
    BY <1>3 DEF Chat!Parting
  <2>2. s3.up \in Seq(Nat) /\ s3.as = s1.store /\ s3.as \in Chat!Owners
    BY <1>0, <2>1 DEF ChatType, Socket, WhoItIs
  <2>3. /\ sent \in Seq(OnItsWay) /\ DOMAIN sent = DOMAIN s3.up
        /\ \A i \in DOMAIN s3.up : sent[i].id = s3.up[i] /\ sent[i].as = s1.store
    <3>1. \A i \in DOMAIN s3.up : sent[i] \in OnItsWay
      BY <2>2 DEF OnItsWay
    <3>2. DOMAIN s3.up = 1 .. Len(s3.up) /\ Len(s3.up) \in Nat
      BY <2>2
    <3>3. sent \in [1 .. Len(s3.up) -> OnItsWay]
      BY <3>1, <3>2
    <3> QED BY <2>2, <3>2, <3>3
  <2> HIDE DEF sent
  <2>4. s4 \in Seq(OnItsWay)
    BY <1>0 DEF ChatType
  <2>5. /\ s4' \in Seq(OnItsWay)
        /\ \A i \in DOMAIN s4' :
              \/ i \in DOMAIN s4 /\ s4'[i] = s4[i]
              \/ i - Len(s4) \in DOMAIN sent /\ s4'[i] = sent[i - Len(s4)]
        /\ \A i, j \in DOMAIN s4' : i - Len(s4) = j - Len(s4) => i = j
    BY <2>1, <2>3, <2>4
  <2>6. ChatType'
    BY <1>0, <1>1, <2>5 DEF ChatType
  <2>7. WhoItIs'
    BY <1>1 DEF WhoItIs
  <2>8. ToItsWriter'
    <3>1. \A i \in DOMAIN s4' : WroteIt(s4'[i].id, s4'[i].as)
      BY <1>0, <2>3, <2>5 DEF ToItsWriter
    <3> QED BY <1>0, <1>1, <3>1 DEF ToItsWriter, WroteIt
  <2>9. OnePlace'
    <3>1. ASSUME NEW i \in DOMAIN s4', NEW j \in DOMAIN s4', s4'[i].id = s4'[j].id
          PROVE  i = j
      BY <1>0, <2>3, <2>5, <3>1 DEF OnePlace
    <3>2. ASSUME NEW i \in DOMAIN s4', NEW o \in Chat!Owners, NEW j \in DOMAIN s6[o]
          PROVE  s4'[i].id # s6[o][j].id
      BY <1>0, <2>3, <2>5 DEF OnePlace
    <3> QED BY <1>0, <1>1, <3>1, <3>2 DEF OnePlace
  <2> QED BY <2>6, <2>7, <2>8, <2>9 DEF ChatInv
<1> QED BY <1>2, <1>3

\* A connection comes about as whoever the tab says it is, or is ended.
LEMMA AttemptKeeps == ASSUME ChatInv, Chat!Attempt PROVE ChatInv'
<1>0. ChatType /\ WhoItIs /\ ToItsWriter /\ OnePlace
  BY DEF ChatInv
<1>1. UNCHANGED <<s1, s2, s4, s6, s11, s12>>
  BY DEF Chat!Attempt
<1>2. s1.store \in Chat!Owners
  BY <1>0 DEF ChatType, Tab
<1>3. CASE s3' = [s3 EXCEPT !.state = "ended", !.up = << >>]
  <2>a. << >> \in Seq(Nat)
    OBVIOUS
  <2>0. PICK none \in Seq(Nat) : none = << >>
    BY <2>a
  <2>1. s3' \in Socket /\ s3'.state = "ended" /\ s3'.up = none
    <3>1. s3' = [s3 EXCEPT !.state = "ended", !.up = none]
      BY <1>3, <2>0
    <3> QED BY <1>0, <3>1 DEF ChatType, Socket
  <2> QED BY <1>0, <1>1, <2>0, <2>1 DEF ChatInv, ChatType, WhoItIs, ToItsWriter, OnePlace, WroteIt
<1>4. CASE s3' # [s3 EXCEPT !.state = "ended", !.up = << >>]
  <2>1. PICK room \in BOOLEAN :
           s3' = [s3 EXCEPT !.state = "on", !.as = s1.store, !.room = room]
    BY <1>4 DEF Chat!Attempt
  <2>2. s3' \in Socket /\ s3'.as = s1.store /\ s3'.up = s3.up
    BY <1>0, <1>2, <2>1 DEF ChatType, Socket
  <2> QED BY <1>0, <1>1, <2>2 DEF ChatInv, ChatType, WhoItIs, ToItsWriter, OnePlace, WroteIt
<1> QED BY <1>3, <1>4

\* What was emitted is saved, where it belongs.
LEMMA ServeKeeps == ASSUME ChatInv, Chat!Serve PROVE ChatInv'
<1>0. ChatType /\ WhoItIs /\ ToItsWriter /\ OnePlace
  BY DEF ChatInv
<1> DEFINE o == s3.as
           message == [id |-> Head(s3.up), by |-> "USER"]
<1>1. /\ s3.state = "on" /\ s3.up # << >> /\ s3.up \in Seq(Nat) /\ o \in Chat!Owners
      /\ o = s1.store
  BY <1>0 DEF Chat!Serve, ChatType, Socket, WhoItIs
<1>2. /\ Tail(s3.up) \in Seq(Nat) /\ 1 \in DOMAIN s3.up /\ Head(s3.up) = s3.up[1]
      /\ \A i \in DOMAIN Tail(s3.up) :
            i + 1 \in DOMAIN s3.up /\ i + 1 # 1 /\ Tail(s3.up)[i] = s3.up[i + 1]
      /\ \A i, j \in DOMAIN Tail(s3.up) : i + 1 = j + 1 => i = j
  BY <1>1, TailIsRest
<1>3. message \in Message /\ message.id = s3.up[1]
  BY <1>1, <1>2 DEF Message
<1>4. /\ s6' = [s6 EXCEPT ![o] = Append(s6[o], message)]
      /\ s3' = [s3 EXCEPT !.up = Tail(s3.up), !.room = TRUE]
      /\ UNCHANGED <<s1, s2, s4, s11, s12>>
  BY DEF Chat!Serve, Chat!Saved
<1> HIDE DEF message, o
<1>5. s3' \in Socket /\ s3'.up = Tail(s3.up) /\ s3'.state = s3.state /\ s3'.as = s3.as
  BY <1>0, <1>2, <1>4 DEF ChatType, Socket
<1>7. /\ s6' \in [Chat!Owners -> Seq(Message)]
      /\ \A p \in Chat!Owners : \A i \in DOMAIN s6'[p] :
            \/ p = o /\ i = Len(s6[o]) + 1 /\ s6'[p][i] = message
            \/ i \in DOMAIN s6[p] /\ s6'[p][i] = s6[p][i]
  BY <1>0, <1>1, <1>3, <1>4, SavedAdds DEF ChatType
<1>9. ChatType'
  BY <1>0, <1>4, <1>5, <1>7 DEF ChatType
<1>10. WhoItIs'
  BY <1>0, <1>4, <1>5 DEF WhoItIs
<1>11. ToItsWriter'
  <2>1. \A i \in DOMAIN s3'.up : WroteIt(s3'.up[i], s1.store)
    BY <1>0, <1>2, <1>5 DEF ToItsWriter
  <2>2. ASSUME NEW p \in Chat!Owners, NEW i \in DOMAIN s6'[p] PROVE WroteIt(s6'[p][i].id, p)
    BY <1>0, <1>1, <1>2, <1>3, <1>7 DEF ToItsWriter, o
  <2> QED BY <1>0, <1>4, <2>1, <2>2 DEF ToItsWriter, WroteIt
<1>12. OnePlace'
  <2>1. \A i, j \in DOMAIN s3'.up : s3'.up[i] = s3'.up[j] => i = j
    BY <1>0, <1>2, <1>5 DEF OnePlace
  <2>2. \A p \in Chat!Owners : \A i, j \in DOMAIN s6'[p] : s6'[p][i].id = s6'[p][j].id => i = j
    <3>1. \A p \in Chat!Owners : \A i \in DOMAIN s6[p] : s6[p][i].id # message.id
      BY <1>0, <1>2, <1>3 DEF OnePlace
    <3>2. \A p \in Chat!Owners : \A i, j \in DOMAIN s6[p] : s6[p][i].id = s6[p][j].id => i = j
      BY <1>0 DEF OnePlace
    <3> SUFFICES ASSUME NEW p \in Chat!Owners, NEW i \in DOMAIN s6'[p],
                        NEW j \in DOMAIN s6'[p], s6'[p][i].id = s6'[p][j].id
                 PROVE  i = j
      OBVIOUS
    <3>3. \/ i = Len(s6[o]) + 1 /\ s6'[p][i] = message
          \/ i \in DOMAIN s6[p] /\ s6'[p][i] = s6[p][i]
      BY <1>7
    <3>4. \/ j = Len(s6[o]) + 1 /\ s6'[p][j] = message
          \/ j \in DOMAIN s6[p] /\ s6'[p][j] = s6[p][j]
      BY <1>7
    <3> QED BY <3>1, <3>2, <3>3, <3>4
  <2>3. \A i \in DOMAIN s3'.up : \A j \in DOMAIN s4 : s3'.up[i] # s4[j].id
    BY <1>0, <1>2, <1>5 DEF OnePlace
  <2>4. ASSUME NEW i \in DOMAIN s3'.up, NEW p \in Chat!Owners, NEW j \in DOMAIN s6'[p]
        PROVE  s3'.up[i] # s6'[p][j].id
    <3>1. i + 1 \in DOMAIN s3.up /\ i + 1 # 1 /\ s3'.up[i] = s3.up[i + 1]
      BY <1>2, <1>5
    <3>2. CASE s6'[p][j] = message
      BY <1>0, <1>2, <1>3, <3>1, <3>2 DEF OnePlace
    <3>3. CASE j \in DOMAIN s6[p] /\ s6'[p][j] = s6[p][j]
      BY <1>0, <3>1, <3>3 DEF OnePlace
    <3> QED BY <1>7, <3>2, <3>3
  <2>5. ASSUME NEW i \in DOMAIN s4, NEW p \in Chat!Owners, NEW j \in DOMAIN s6'[p]
        PROVE  s4[i].id # s6'[p][j].id
    BY <1>0, <1>2, <1>3, <1>7 DEF OnePlace
  <2> QED BY <1>0, <1>4, <2>1, <2>2, <2>3, <2>4, <2>5 DEF OnePlace
<1> QED BY <1>9, <1>10, <1>11, <1>12 DEF ChatInv

LEMMA ServeLateKeeps == ASSUME ChatInv, Chat!ServeLate PROVE ChatInv'
<1>0. ChatType /\ WhoItIs /\ ToItsWriter /\ OnePlace
  BY DEF ChatInv
<1> DEFINE o == Head(s4).as
           message == [id |-> Head(s4).id, by |-> "USER"]
<1>1. s4 # << >> /\ s4 \in Seq(OnItsWay)
  BY <1>0 DEF Chat!ServeLate, ChatType
<1>2. /\ Tail(s4) \in Seq(OnItsWay) /\ 1 \in DOMAIN s4 /\ Head(s4) = s4[1] /\ s4[1] \in OnItsWay
      /\ \A i \in DOMAIN Tail(s4) : i + 1 \in DOMAIN s4 /\ i + 1 # 1 /\ Tail(s4)[i] = s4[i + 1]
      /\ \A i, j \in DOMAIN Tail(s4) : i + 1 = j + 1 => i = j
  BY <1>1, TailIsRest
<1>3. message \in Message /\ message.id = s4[1].id /\ o \in Chat!Owners /\ o = s4[1].as
  BY <1>2 DEF Message, OnItsWay
<1>4. /\ s6' = [s6 EXCEPT ![o] = Append(s6[o], message)]
      /\ s4' = Tail(s4)
      /\ UNCHANGED <<s1, s2, s3, s11, s12>>
  BY DEF Chat!ServeLate, Chat!Saved
<1> HIDE DEF message, o
<1>7. /\ s6' \in [Chat!Owners -> Seq(Message)]
      /\ \A p \in Chat!Owners : \A i \in DOMAIN s6'[p] :
            \/ p = o /\ i = Len(s6[o]) + 1 /\ s6'[p][i] = message
            \/ i \in DOMAIN s6[p] /\ s6'[p][i] = s6[p][i]
  BY <1>0, <1>3, <1>4, SavedAdds DEF ChatType
<1>9. ChatType'
  BY <1>0, <1>2, <1>4, <1>7 DEF ChatType
<1>10. WhoItIs'
  BY <1>0, <1>4 DEF WhoItIs
<1>11. ToItsWriter'
  <2>1. \A i \in DOMAIN s4' : WroteIt(s4'[i].id, s4'[i].as)
    BY <1>0, <1>2, <1>4 DEF ToItsWriter
  <2>2. ASSUME NEW p \in Chat!Owners, NEW i \in DOMAIN s6'[p] PROVE WroteIt(s6'[p][i].id, p)
    BY <1>0, <1>2, <1>3, <1>7 DEF ToItsWriter
  <2> QED BY <1>0, <1>4, <2>1, <2>2 DEF ToItsWriter, WroteIt
<1>12. OnePlace'
  <2>1. \A i, j \in DOMAIN s4' : s4'[i].id = s4'[j].id => i = j
    BY <1>0, <1>2, <1>4 DEF OnePlace
  <2>2. \A p \in Chat!Owners : \A i, j \in DOMAIN s6'[p] : s6'[p][i].id = s6'[p][j].id => i = j
    <3>1. \A p \in Chat!Owners : \A i \in DOMAIN s6[p] : s6[p][i].id # message.id
      BY <1>0, <1>2, <1>3 DEF OnePlace
    <3>2. \A p \in Chat!Owners : \A i, j \in DOMAIN s6[p] : s6[p][i].id = s6[p][j].id => i = j
      BY <1>0 DEF OnePlace
    <3> SUFFICES ASSUME NEW p \in Chat!Owners, NEW i \in DOMAIN s6'[p],
                        NEW j \in DOMAIN s6'[p], s6'[p][i].id = s6'[p][j].id
                 PROVE  i = j
      OBVIOUS
    <3>3. \/ i = Len(s6[o]) + 1 /\ s6'[p][i] = message
          \/ i \in DOMAIN s6[p] /\ s6'[p][i] = s6[p][i]
      BY <1>7
    <3>4. \/ j = Len(s6[o]) + 1 /\ s6'[p][j] = message
          \/ j \in DOMAIN s6[p] /\ s6'[p][j] = s6[p][j]
      BY <1>7
    <3> QED BY <3>1, <3>2, <3>3, <3>4
  <2>3. \A i \in DOMAIN s3.up : \A j \in DOMAIN s4' : s3.up[i] # s4'[j].id
    BY <1>0, <1>2, <1>4 DEF OnePlace
  <2>4. ASSUME NEW i \in DOMAIN s4', NEW p \in Chat!Owners, NEW j \in DOMAIN s6'[p]
        PROVE  s4'[i].id # s6'[p][j].id
    BY <1>0, <1>2, <1>3, <1>4, <1>7 DEF OnePlace
  <2>5. ASSUME NEW i \in DOMAIN s3.up, NEW p \in Chat!Owners, NEW j \in DOMAIN s6'[p]
        PROVE  s3.up[i] # s6'[p][j].id
    BY <1>0, <1>2, <1>3, <1>7 DEF OnePlace
  <2> QED BY <1>0, <1>4, <2>1, <2>2, <2>3, <2>4, <2>5 DEF OnePlace
<1> QED BY <1>9, <1>10, <1>11, <1>12 DEF ChatInv

\* A new message has a number of its own, and its writer is noted.
LEMMA NewMessage ==
    ASSUME ChatInv, NEW o \in Chat!Owners, s12' = Append(s12, o),
           s11' = [s11 EXCEPT !.messages = s11.messages + 1]
    PROVE  /\ s11' \in Told /\ s12' \in Seq(Chat!Owners) /\ Len(s12') = s11'.messages
           /\ s11.messages + 1 \in Nat /\ s12'[s11.messages + 1] = o
           /\ s11.messages + 1 \in DOMAIN s12' /\ s11.messages + 1 \notin DOMAIN s12
           /\ \A id \in DOMAIN s12 : id \in DOMAIN s12' /\ s12'[id] = s12[id]
<1>1. s12 \in Seq(Chat!Owners) /\ Len(s12) = s11.messages /\ s11.messages \in Nat
  BY DEF ChatInv, ChatType, Told
<1>2. PICK n \in Nat : n = s11.messages + 1
  BY <1>1
<1>3. s11' \in Told /\ s11'.messages = n
  <2>1. s11' = [s11 EXCEPT !.messages = n]
    BY <1>2
  <2> QED BY <2>1 DEF ChatInv, ChatType, Told
<1> QED BY <1>1, <1>2, <1>3, AppendIsOneMore

LEMMA ReplyKeeps == ASSUME ChatInv, NEW o \in Chat!Owners, Chat!Reply(o) PROVE ChatInv'
<1>0. ChatType /\ WhoItIs /\ ToItsWriter /\ OnePlace
  BY DEF ChatInv
<1> DEFINE message == [id |-> s11.messages + 1, by |-> "ADMIN"]
<1>1. /\ s12' = Append(s12, o) /\ s11' = [s11 EXCEPT !.messages = s11.messages + 1]
      /\ s6' = [s6 EXCEPT ![o] = Append(s6[o], message)]
      /\ UNCHANGED <<s1, s2, s3, s4>>
  BY DEF Chat!Reply, Chat!Saved
<1>2. /\ s11' \in Told /\ s12' \in Seq(Chat!Owners) /\ Len(s12') = s11'.messages
      /\ s11.messages + 1 \in Nat /\ s12'[s11.messages + 1] = o
      /\ s11.messages + 1 \in DOMAIN s12' /\ s11.messages + 1 \notin DOMAIN s12
      /\ \A id \in DOMAIN s12 : id \in DOMAIN s12' /\ s12'[id] = s12[id]
  BY <1>1, NewMessage
<1>3. message \in Message /\ message.id = s11.messages + 1
  BY <1>2 DEF Message
<1> HIDE DEF message
<1>7. /\ s6' \in [Chat!Owners -> Seq(Message)]
      /\ \A p \in Chat!Owners : \A i \in DOMAIN s6'[p] :
            \/ p = o /\ i = Len(s6[o]) + 1 /\ s6'[p][i] = message
            \/ i \in DOMAIN s6[p] /\ s6'[p][i] = s6[p][i]
  BY <1>0, <1>1, <1>3, SavedAdds DEF ChatType
<1>9. ChatType'
  BY <1>0, <1>1, <1>2, <1>7 DEF ChatType
<1>10. WhoItIs'
  BY <1>0, <1>1 DEF WhoItIs
<1>11. ToItsWriter'
  <2>1. ASSUME NEW p \in Chat!Owners, NEW i \in DOMAIN s6'[p]
        PROVE  s6'[p][i].id \in DOMAIN s12' /\ s12'[s6'[p][i].id] = p
    <3>1. CASE p = o /\ s6'[p][i] = message
      BY <1>2, <1>3, <3>1
    <3>2. CASE i \in DOMAIN s6[p] /\ s6'[p][i] = s6[p][i]
      <4>1. s6[p][i].id \in DOMAIN s12 /\ s12[s6[p][i].id] = p
        BY <1>0, <3>2 DEF ToItsWriter, WroteIt
      <4> QED BY <1>2, <3>2, <4>1
    <3> QED BY <1>7, <3>1, <3>2
  <2>2. \A i \in DOMAIN s3.up : s3.up[i] \in DOMAIN s12' /\ s12'[s3.up[i]] = s1.store
    BY <1>0, <1>2 DEF ToItsWriter, WroteIt
  <2>3. \A i \in DOMAIN s4 : s4[i].id \in DOMAIN s12' /\ s12'[s4[i].id] = s4[i].as
    BY <1>0, <1>2 DEF ToItsWriter, WroteIt
  <2> QED BY <1>1, <2>1, <2>2, <2>3 DEF ToItsWriter, WroteIt
<1>12. OnePlace'
  <2>1. /\ \A i \in DOMAIN s3.up : s3.up[i] # message.id
        /\ \A i \in DOMAIN s4 : s4[i].id # message.id
        /\ \A p \in Chat!Owners : \A i \in DOMAIN s6[p] : s6[p][i].id # message.id
    BY <1>0, <1>2, <1>3 DEF ToItsWriter, WroteIt
  <2>2. \A p \in Chat!Owners : \A i, j \in DOMAIN s6'[p] : s6'[p][i].id = s6'[p][j].id => i = j
    <3>1. \A p \in Chat!Owners : \A i \in DOMAIN s6[p] : s6[p][i].id # message.id
      BY <2>1
    <3>2. \A p \in Chat!Owners : \A i, j \in DOMAIN s6[p] : s6[p][i].id = s6[p][j].id => i = j
      BY <1>0 DEF OnePlace
    <3> SUFFICES ASSUME NEW p \in Chat!Owners, NEW i \in DOMAIN s6'[p],
                        NEW j \in DOMAIN s6'[p], s6'[p][i].id = s6'[p][j].id
                 PROVE  i = j
      OBVIOUS
    <3>3. \/ i = Len(s6[o]) + 1 /\ s6'[p][i] = message
          \/ i \in DOMAIN s6[p] /\ s6'[p][i] = s6[p][i]
      BY <1>7
    <3>4. \/ j = Len(s6[o]) + 1 /\ s6'[p][j] = message
          \/ j \in DOMAIN s6[p] /\ s6'[p][j] = s6[p][j]
      BY <1>7
    <3> QED BY <3>1, <3>2, <3>3, <3>4
  <2>4. ASSUME NEW i \in DOMAIN s4, NEW p \in Chat!Owners, NEW j \in DOMAIN s6'[p]
        PROVE  s4[i].id # s6'[p][j].id
    BY <1>0, <1>7, <2>1 DEF OnePlace
  <2>5. ASSUME NEW i \in DOMAIN s3.up, NEW p \in Chat!Owners, NEW j \in DOMAIN s6'[p]
        PROVE  s3.up[i] # s6'[p][j].id
    BY <1>0, <1>7, <2>1 DEF OnePlace
  <2> QED BY <1>0, <1>1, <2>2, <2>4, <2>5 DEF OnePlace
<1> QED BY <1>9, <1>10, <1>11, <1>12 DEF ChatInv

\* What is typed waits in the socket of whoever typed it.
LEMMA SendKeeps == ASSUME ChatInv, Chat!handleSend PROVE ChatInv'
<1>0. ChatType /\ WhoItIs /\ ToItsWriter /\ OnePlace
  BY DEF ChatInv
<1> DEFINE id == s11.messages + 1
<1>1. /\ s12' = Append(s12, s1.store) /\ s11' = [s11 EXCEPT !.messages = s11.messages + 1]
      /\ s3' = [s3 EXCEPT !.up = Append(s3.up, id)]
      /\ UNCHANGED <<s1, s2, s4, s6>>
  BY DEF Chat!handleSend
<1>2. s1.store \in Chat!Owners /\ s3.up \in Seq(Nat)
  BY <1>0 DEF ChatType, Tab, Socket
<1>3. /\ s11' \in Told /\ s12' \in Seq(Chat!Owners) /\ Len(s12') = s11'.messages
      /\ id \in Nat /\ s12'[id] = s1.store
      /\ id \in DOMAIN s12' /\ id \notin DOMAIN s12
      /\ \A old \in DOMAIN s12 : old \in DOMAIN s12' /\ s12'[old] = s12[old]
  BY <1>1, <1>2, NewMessage
<1> HIDE DEF id
<1>4. PICK up : up = Append(s3.up, id)
  OBVIOUS
<1>5. /\ up \in Seq(Nat)
      /\ \A i \in DOMAIN up : \/ i = Len(s3.up) + 1 /\ up[i] = id
                              \/ i \in DOMAIN s3.up /\ up[i] = s3.up[i]
  BY <1>2, <1>3, <1>4, AppendIsOneMore
<1>6. s3' \in Socket /\ s3'.up = up /\ s3'.state = s3.state /\ s3'.as = s3.as
  BY <1>0, <1>1, <1>4, <1>5 DEF ChatType, Socket
<1>7. ChatType'
  BY <1>0, <1>1, <1>3, <1>6 DEF ChatType
<1>8. WhoItIs'
  BY <1>0, <1>1, <1>6 DEF WhoItIs
<1>9. ToItsWriter'
  <2>1. \A i \in DOMAIN up : up[i] \in DOMAIN s12' /\ s12'[up[i]] = s1.store
    BY <1>0, <1>3, <1>5 DEF ToItsWriter, WroteIt
  <2>2. \A i \in DOMAIN s4 : s4[i].id \in DOMAIN s12' /\ s12'[s4[i].id] = s4[i].as
    BY <1>0, <1>3 DEF ToItsWriter, WroteIt
  <2>3. \A o \in Chat!Owners : \A i \in DOMAIN s6[o] :
            s6[o][i].id \in DOMAIN s12' /\ s12'[s6[o][i].id] = o
    BY <1>0, <1>3 DEF ToItsWriter, WroteIt
  <2> QED BY <1>1, <1>6, <2>1, <2>2, <2>3 DEF ToItsWriter, WroteIt
<1>10. OnePlace'
  <2>1. /\ \A i \in DOMAIN s3.up : s3.up[i] # id
        /\ \A i \in DOMAIN s4 : s4[i].id # id
        /\ \A p \in Chat!Owners : \A i \in DOMAIN s6[p] : s6[p][i].id # id
    BY <1>0, <1>3 DEF ToItsWriter, WroteIt
  <2>2. \A i, j \in DOMAIN up : up[i] = up[j] => i = j
    BY <1>0, <1>5, <2>1 DEF OnePlace
  <2>3. \A i \in DOMAIN up : \A j \in DOMAIN s4 : up[i] # s4[j].id
    BY <1>0, <1>5, <2>1 DEF OnePlace
  <2>4. \A i \in DOMAIN up : \A o \in Chat!Owners : \A j \in DOMAIN s6[o] : up[i] # s6[o][j].id
    BY <1>0, <1>5, <2>1 DEF OnePlace
  <2> QED BY <1>0, <1>1, <1>6, <2>2, <2>3, <2>4 DEF OnePlace
<1> QED BY <1>7, <1>8, <1>9, <1>10 DEF ChatInv

\* The guest's conversation becomes the account's, with what is noted of it.
LEMMA ClaimKeeps == ASSUME ChatInv, Chat!Claim PROVE ChatInv'
<1>0. ChatType /\ WhoItIs /\ ToItsWriter /\ OnePlace
  BY DEF ChatInv
<1>1. /\ s1.store = "account" /\ s6["account"] = << >>
      /\ \A i \in DOMAIN s4 : s4[i].as = "account"
      /\ s6' = [o \in Chat!Owners |-> IF o = "account" THEN s6["guest"] ELSE << >>]
      /\ s12' = [i \in DOMAIN s12 |->
                   IF \E j \in DOMAIN s6["guest"] : s6["guest"][j].id = i
                   THEN "account" ELSE s12[i]]
      /\ UNCHANGED <<s1, s2, s3, s4, s11>>
  BY DEF Chat!Claim
<1>2. Chat!Owners = {"guest", "account"}
  BY DEF Chat!Owners
<1>3. s6["guest"] \in Seq(Message) /\ s12 \in Seq(Chat!Owners)
  BY <1>0, <1>2 DEF ChatType
<1>4. s12' \in Seq(Chat!Owners) /\ Len(s12') = Len(s12) /\ DOMAIN s12' = DOMAIN s12
  <2>1. DOMAIN s12 = 1 .. Len(s12) /\ Len(s12) \in Nat
    BY <1>3
  <2>2. \A i \in DOMAIN s12 : s12[i] \in Chat!Owners
    BY <1>3
  <2>3. s12' \in [1 .. Len(s12) -> Chat!Owners]
    BY <1>1, <1>2, <2>1, <2>2
  <2> QED BY <2>1, <2>3
<1>5. /\ s6'["guest"] = << >> /\ s6'["account"] = s6["guest"]
      /\ s6' \in [Chat!Owners -> Seq(Message)]
  <2>1. PICK gone : gone = << >>
    OBVIOUS
  <2>2. PICK taken : taken = s6["guest"]
    OBVIOUS
  <2>3. gone \in Seq(Message) /\ taken \in Seq(Message)
    BY <1>3, <2>1, <2>2
  <2>4. s6' = [o \in Chat!Owners |-> IF o = "account" THEN taken ELSE gone]
    BY <1>1, <2>1, <2>2
  <2> QED BY <1>2, <2>1, <2>2, <2>3, <2>4
<1>6. ChatType'
  BY <1>0, <1>1, <1>4, <1>5 DEF ChatType
<1>7. \A i \in DOMAIN s12 :
         IF \E j \in DOMAIN s6["guest"] : s6["guest"][j].id = i
         THEN s12'[i] = "account" ELSE s12'[i] = s12[i]
  BY <1>1
<1>8. ToItsWriter'
  <2>1. \A i \in DOMAIN s6["guest"] :
            s6["guest"][i].id \in DOMAIN s12' /\ s12'[s6["guest"][i].id] = "account"
    BY <1>0, <1>2, <1>4, <1>7 DEF ToItsWriter, WroteIt
  <2>2. \A i \in DOMAIN s3.up : s3.up[i] \in DOMAIN s12' /\ s12'[s3.up[i]] = s1.store
    BY <1>0, <1>2, <1>4, <1>7 DEF ToItsWriter, OnePlace, WroteIt
  <2>3. \A i \in DOMAIN s4 : s4[i].id \in DOMAIN s12' /\ s12'[s4[i].id] = s4[i].as
    BY <1>0, <1>2, <1>4, <1>7 DEF ToItsWriter, OnePlace, WroteIt
  <2>4. ASSUME NEW o \in Chat!Owners, NEW i \in DOMAIN s6'[o]
        PROVE  s6'[o][i].id \in DOMAIN s12' /\ s12'[s6'[o][i].id] = o
    BY <1>2, <1>5, <2>1
  <2>5. s1' = s1 /\ s3' = s3 /\ s4' = s4
    BY <1>1
  <2> QED BY <2>2, <2>3, <2>4, <2>5 DEF ToItsWriter, WroteIt
<1>9. OnePlace'
  <2>1. ASSUME NEW o \in Chat!Owners, NEW i \in DOMAIN s6'[o]
        PROVE  /\ i \in DOMAIN s6["guest"] /\ s6'[o][i] = s6["guest"][i] /\ o = "account"
    BY <1>2, <1>5
  <2>2. "guest" \in Chat!Owners
    BY <1>2
  <2>3. \A o \in Chat!Owners : \A i, j \in DOMAIN s6'[o] : s6'[o][i].id = s6'[o][j].id => i = j
    BY <1>0, <2>1, <2>2 DEF OnePlace
  <2>4. \A i \in DOMAIN s3.up : \A o \in Chat!Owners : \A j \in DOMAIN s6'[o] :
            s3.up[i] # s6'[o][j].id
    BY <1>0, <2>1, <2>2 DEF OnePlace
  <2>5. \A i \in DOMAIN s4 : \A o \in Chat!Owners : \A j \in DOMAIN s6'[o] :
            s4[i].id # s6'[o][j].id
    BY <1>0, <2>1, <2>2 DEF OnePlace
  <2> QED BY <1>0, <1>1, <2>3, <2>4, <2>5 DEF OnePlace
<1>10. WhoItIs'
  BY <1>0, <1>1 DEF WhoItIs
<1> QED BY <1>6, <1>8, <1>9, <1>10 DEF ChatInv

LEMMA ChatStepKeeps == ChatInv /\ [Chat!Next]_chatVars => ChatInv'
<1> SUFFICES ASSUME ChatInv, [Chat!Next]_chatVars PROVE ChatInv'
  OBVIOUS
<1>0. ChatType /\ WhoItIs
  BY DEF ChatInv
<1>1. CASE Chat!Attempt
  BY <1>1, AttemptKeeps
<1>2. CASE Chat!Serve
  BY <1>2, ServeKeeps
<1>3. CASE Chat!ServeLate
  BY <1>3, ServeLateKeeps
<1>4. ASSUME NEW o \in Chat!Owners, Chat!Reply(o) PROVE ChatInv'
  BY <1>4, ReplyKeeps
<1>5. CASE Chat!handleSend
  BY <1>5, SendKeeps
<1>6. CASE Chat!Claim
  BY <1>6, ClaimKeeps
<1>7. CASE Chat!GetMyChat \/ Chat!Answer \/ Chat!Hear \/ Chat!Count
  <2>1. UNCHANGED <<s1, s2, s3, s4, s6, s11, s12>>
    BY <1>7 DEF Chat!GetMyChat, Chat!Answer, Chat!Hear, Chat!Count
  <2> QED BY <1>0, <2>1, ChatQuiet DEF ChatType
<1>8. CASE Chat!Expire \/ Chat!Renew
  <2>1. PICK token \in {"fresh", "expired"} : s1' = [s1 EXCEPT !.token = token]
    BY <1>8 DEF Chat!Expire, Chat!Renew
  <2>2. s1' \in Tab /\ s1'.store = s1.store /\ s1'.known = s1.known
    BY <1>0, <2>1 DEF ChatType, Tab
  <2>3. s11' \in Told /\ s11'.messages = s11.messages
    BY <1>0, <1>8, ToldCounts DEF Chat!Expire, Chat!Renew, ChatType
  <2>4. UNCHANGED <<s2, s3, s4, s6, s12>>
    BY <1>8 DEF Chat!Expire, Chat!Renew
  <2> QED BY <1>0, <2>2, <2>3, <2>4, ChatQuiet DEF ChatType
<1>9. CASE Chat!Blip
  <2>1. PICK lost \in BOOLEAN : Chat!Parting(lost)
    BY <1>9 DEF Chat!Blip
  <2>2. s3' = Chat!Connecting /\ UNCHANGED <<s1, s2, s6, s12>> /\ Chat!Befalls
    BY <1>9 DEF Chat!Blip
  <2> QED BY <1>0, <2>1, <2>2, ToldCounts, RebuildKeeps DEF ChatType, WhoItIs
<1>10. ASSUME NEW page \in {"elsewhere", "chat"}, Chat!Go(page) PROVE ChatInv'
  <2>1. s1' = [s1 EXCEPT !.page = page]
    BY <1>10 DEF Chat!Go
  <2>2. s1' \in Tab /\ s1'.store = s1.store /\ s1'.known = s1.known
    BY <1>0, <2>1 DEF ChatType, Tab
  <2>3. /\ s3' = Chat!Connecting /\ Chat!Parting(FALSE) /\ UNCHANGED <<s2, s6, s12>>
        /\ Chat!Befalls
    BY <1>10 DEF Chat!Go, Chat!Rebuild
  <2> QED BY <1>0, <2>2, <2>3, ToldCounts, RebuildKeeps DEF ChatType, WhoItIs
<1>11. ASSUME NEW page \in {"elsewhere", "chat"}, Chat!Reload(page) PROVE ChatInv'
  <2>1. s1' = [store |-> "guest", known |-> FALSE, token |-> "fresh", page |-> page]
    BY <1>11 DEF Chat!Reload
  <2>2. s1' \in Tab /\ s1'.store = "guest"
    BY <2>1 DEF Chat!Owners, Tab
  <2>3. /\ s3' = Chat!Connecting /\ Chat!Parting(FALSE) /\ UNCHANGED <<s2, s6, s12>>
        /\ Chat!Befalls
    BY <1>11 DEF Chat!Reload, Chat!Rebuild
  <2> QED BY <1>0, <2>2, <2>3, ToldCounts, RebuildKeeps DEF ChatType
<1>12. CASE Chat!Boot
  <2>1. ~s1.known /\ s1' = [s1 EXCEPT !.known = TRUE, !.store = s2, !.token = "fresh"]
        /\ UNCHANGED <<s2, s6, s11, s12>>
    BY <1>12 DEF Chat!Boot
  <2>2. s1' \in Tab /\ s1'.store = s2 /\ s1'.known = TRUE
    BY <1>0, <2>1 DEF ChatType, Tab
  <2>3. CASE s2 = "account"
    <3>1. s3' = Chat!Connecting /\ Chat!Parting(FALSE)
      BY <1>12, <2>3 DEF Chat!Boot, Chat!Identity, Chat!Rebuild
    <3> QED BY <1>0, <2>1, <2>2, <3>1, RebuildKeeps DEF ChatType
  <2>4. CASE s2 # "account"
    <3>1. UNCHANGED <<s3, s4>>
      BY <1>12, <2>4 DEF Chat!Boot
    <3>2. s1'.store = s1.store
      BY <1>0, <2>1, <2>2, <2>4 DEF ChatType, WhoItIs, Chat!Owners
    <3> QED BY <1>0, <2>1, <2>2, <3>1, <3>2, ChatQuiet DEF ChatType
  <2> QED BY <2>3, <2>4
<1>13. CASE Chat!SignIn \/ Chat!SignOut
  <2>1. PICK store \in Chat!Owners : s1' = [s1 EXCEPT !.store = store, !.token = "fresh"]
    BY <1>13 DEF Chat!SignIn, Chat!SignOut, Chat!Owners
  <2>2. s1.known
    BY <1>0, <1>13 DEF Chat!SignIn, Chat!SignOut, WhoItIs
  <2>3. s1' \in Tab /\ s1'.known
    BY <1>0, <2>1, <2>2 DEF ChatType, Tab
  <2>4. /\ s3' = Chat!Connecting /\ Chat!Parting(FALSE) /\ UNCHANGED <<s6, s12>>
        /\ Chat!Befalls /\ s2' \in Chat!Owners
    BY <1>13 DEF Chat!SignIn, Chat!SignOut, Chat!Identity, Chat!Rebuild, Chat!Owners
  <2> QED BY <1>0, <2>3, <2>4, ToldCounts, RebuildKeeps
<1>14. CASE UNCHANGED chatVars
  <2>1. UNCHANGED <<s1, s2, s3, s4, s6, s11, s12>>
    BY <1>14 DEF chatVars
  <2> QED BY <1>0, <2>1, ChatQuiet DEF ChatType
<1> QED BY <1>1, <1>2, <1>3, <1>4, <1>5, <1>6, <1>7, <1>8, <1>9, <1>10, <1>11, <1>12, <1>13,
       <1>14 DEF Chat!Next

LEMMA ChatBegins == Chat!Init => ChatInv
<1> SUFFICES ASSUME Chat!Init PROVE ChatInv
  OBVIOUS
<1>1. s1 \in Tab /\ s1.store = "guest" /\ s2 \in Chat!Owners
  BY DEF Chat!Init, Tab, Chat!Owners
<1>2. s3 \in Socket /\ s3.up = << >> /\ s3.state = "connecting"
  BY DEF Chat!Init, Chat!Connecting, Socket, Chat!Owners
<1>3. /\ s4 = << >> /\ s12 = << >> /\ s6 = [o \in Chat!Owners |-> << >>]
      /\ s11 = [messages |-> 0, events |-> 0]
  BY DEF Chat!Init
<1>4. s11 \in Told /\ s11.messages = 0 /\ s6 \in [Chat!Owners -> Seq(Message)]
  BY <1>3 DEF Told
<1>5. ChatType
  BY <1>1, <1>2, <1>3, <1>4 DEF ChatType
<1> QED BY <1>1, <1>2, <1>3, <1>5 DEF ChatInv, WhoItIs, ToItsWriter, OnePlace

\* The inductive invariant: a message is in one place, and every place is its
\* writer's.  (useSupportSocket.ts.)
LEMMA ChatInvariant == MCSpec => [](part = "chat" => ChatInv)
<1> DEFINE Inv == part = "chat" => ChatInv
<1>1. MCInit => Inv
  BY ChatBegins DEF MCInit
<1>2. Inv /\ [MCNext]_all => Inv'
  <2> SUFFICES ASSUME Inv, [MCNext]_all PROVE Inv'
    OBVIOUS
  <2>1. part' = part /\ (part = "chat" => [Chat!Next]_chatVars)
    BY DEF MCNext, all, chatVars
  <2> QED BY <2>1, ChatStepKeeps
<1> HIDE DEF Inv
<1>3. MCSpec => []Inv
  BY <1>1, <1>2, PTL DEF MCSpec
<1> QED BY <1>3 DEF Inv

\* However many messages there are and whatever befalls the tab: what a visitor
\* writes is delivered as theirs, once.  (useSupportSocket.ts:13.)
THEOREM AlwaysUnderItsWriter == MCSpec => []LandsUnderItsWriter
<1>1. (part = "chat" => ChatInv) => LandsUnderItsWriter
  <2> SUFFICES ASSUME part = "chat", ChatInv PROVE Chat!LandsUnderItsWriter
    BY DEF LandsUnderItsWriter
  <2>1. \A o \in Chat!Owners : \A i \in DOMAIN s6[o] :
            s6[o][i].by = "USER" => s12[s6[o][i].id] = o
    BY DEF ChatInv, ToItsWriter, WroteIt
  <2>2. \A o \in Chat!Owners : Chat!IsInjective([i \in DOMAIN s6[o] |-> s6[o][i].id])
    BY DEF ChatInv, OnePlace, Chat!IsInjective
  <2> QED BY <2>1, <2>2 DEF Chat!LandsUnderItsWriter
<1> QED BY <1>1, ChatInvariant, PTL

-----------------------------------------------------------------------------
(* The administrator's desk. *)

deskVars == <<s1, s2, s3, s4, s5, s6, s7, s8, s9>>

Note == [chat : Conversations, n : Nat]

Said == [event : {"message", "chatUpdate"}, what : Note]

Selection == [at : {"none", "sent", "read", "marked", "joining"},
              chat : Conversations \cup {0}, got : Seq(Note)]

DeskType ==
    /\ s1 \in [Conversations -> Seq(Note)]
    /\ s2 \in [Conversations -> Nat]
    /\ s4 \in Seq(Said)
    /\ s7 \in [selected : Conversations \cup {0}, shown : Seq(Note), loading : BOOLEAN]
    /\ s8 \in [Calls -> Selection]
    /\ s9 \in [messages : Nat, events : Nat, last : Conversations \cup {0}]

\* Messages of one chat.
AllOf(notes, c) == \A i \in DOMAIN notes : notes[i].chat = c

\* What a chat has said, and what a selection read, is one conversation; and so
\* is what is shown of the chat whose answer was the last to come, as long as no
\* other answer is waited for.
DeskInv ==
    /\ DeskType
    /\ \A c \in Conversations : AllOf(s1[c], c)
    /\ \A s \in Calls : /\ s8[s].at # "none" => s8[s].chat \in Conversations
                        /\ AllOf(s8[s].got, s8[s].chat)
    /\ ~s7.loading /\ s7.selected # 0 /\ s7.selected = s9.last => AllOf(s7.shown, s7.selected)

LEMMA NothingSaid == << >> \in Seq(Note) /\ \A c : AllOf(<< >>, c)
BY DEF AllOf

LEMMA EventsCount ==
    ASSUME DeskType, NEW event, event = [s9 EXCEPT !.events = s9.events + 1]
    PROVE  /\ event \in [messages : Nat, events : Nat, last : Conversations \cup {0}]
           /\ event.last = s9.last
<1>1. PICK n \in Nat : n = s9.events + 1
  BY DEF DeskType
<1>2. event = [s9 EXCEPT !.events = n]
  BY <1>1
<1> QED BY <1>2 DEF DeskType

\* A step in which nothing is selected or shown.
LEMMA DeskQuiet ==
    ASSUME DeskInv, DeskType', s1' = s1, s7' = s7, s8' = s8, s9'.last = s9.last
    PROVE  DeskInv'
BY DEF DeskInv

\* What a selection is about stays, and what it reads is of its chat.
LEMMA SelectionKeeps ==
    ASSUME DeskInv, DeskType', s1' = s1, s7' = s7, s9' = s9,
           NEW s \in Calls, NEW q \in Selection, s8' = [s8 EXCEPT ![s] = q],
           q.at # "none" => q.chat \in Conversations, AllOf(q.got, q.chat)
    PROVE  DeskInv'
<1>1. \A r \in Calls : s8'[r] = IF r = s THEN q ELSE s8[r]
  BY DEF DeskInv, DeskType
<1> QED BY <1>1 DEF DeskInv

LEMMA MessageKeeps ==
    ASSUME DeskInv, NEW c \in Conversations, NEW counts \in {0, 1}, Desk!Message(c, counts),
           UNCHANGED <<s7, s8>>
    PROVE  DeskInv'
<1>0. DeskType
  BY DEF DeskInv
<1> DEFINE note == [chat |-> c, n |-> s9.messages + 1]
           update == [chat |-> c, n |-> s2'[c]]
<1>1. s9' = [s9 EXCEPT !.messages = s9.messages + 1] /\ s2' = [s2 EXCEPT ![c] = s2[c] + counts]
  BY DEF Desk!Message
<1>2. /\ s9' \in [messages : Nat, events : Nat, last : Conversations \cup {0}]
      /\ s9'.last = s9.last
  BY <1>0, <1>1 DEF DeskType
<1>3. s2' \in [Conversations -> Nat]
  BY <1>0, <1>1 DEF DeskType
<1>4. note \in Note /\ update \in Note /\ note.chat = c
  BY <1>0, <1>3 DEF DeskType, Note
<1>5. /\ s1' = [s1 EXCEPT ![c] = Append(s1[c], note)]
      /\ s4' = s4 \o (IF c \in s3 THEN <<[event |-> "message", what |-> note]>> ELSE << >>)
                  \o <<[event |-> "chatUpdate", what |-> update]>>
  BY DEF Desk!Message
<1> HIDE DEF note, update
<1>6. [event |-> "message", what |-> note] \in Said /\ [event |-> "chatUpdate", what |-> update] \in Said
  BY <1>4 DEF Said
<1>7. s4' \in Seq(Said)
  <2>1. PICK more : more = IF c \in s3 THEN <<[event |-> "message", what |-> note]>> ELSE << >>
    OBVIOUS
  <2>2. more \in Seq(Said)
    BY <1>6, <2>1
  <2>3. PICK last : last = <<[event |-> "chatUpdate", what |-> update]>>
    OBVIOUS
  <2>4. last \in Seq(Said)
    BY <1>6, <2>3
  <2>5. s4' = s4 \o more \o last
    BY <1>5, <2>1, <2>3
  <2> QED BY <1>0, <2>2, <2>4, <2>5 DEF DeskType
<1>8. s1[c] \in Seq(Note)
  BY <1>0 DEF DeskType
<1>9. Append(s1[c], note) \in Seq(Note)
  BY <1>4, <1>8
<1>10. s1' \in [Conversations -> Seq(Note)]
  BY <1>0, <1>5, <1>9 DEF DeskType
<1>11. ASSUME NEW d \in Conversations PROVE AllOf(s1'[d], d)
  <2>1. CASE d = c
    <3>1. s1'[d] = Append(s1[c], note)
      BY <1>0, <1>5, <2>1 DEF DeskType
    <3>2. \A i \in DOMAIN Append(s1[c], note) :
             Append(s1[c], note)[i] = IF i = Len(s1[c]) + 1 THEN note ELSE s1[c][i]
      BY <1>4, <1>8
    <3>3. \A i \in DOMAIN Append(s1[c], note) : i = Len(s1[c]) + 1 \/ i \in DOMAIN s1[c]
      BY <1>4, <1>8
    <3>4. AllOf(s1[c], c)
      BY DEF DeskInv
    <3> QED BY <1>4, <2>1, <3>1, <3>2, <3>3, <3>4 DEF AllOf
  <2>2. CASE d # c
    BY <1>0, <1>5, <2>2 DEF DeskInv, DeskType
  <2> QED BY <2>1, <2>2
<1>12. DeskType'
  BY <1>0, <1>2, <1>3, <1>7, <1>10 DEF DeskType
<1> QED BY <1>2, <1>11, <1>12 DEF DeskInv

\* An answer replaces what is shown, by messages of its chat or by nothing.
LEMMA SelectedKeeps ==
    ASSUME DeskInv, NEW s \in Calls, Desk!Selected(s)
    PROVE  DeskInv'
<1>0. DeskType
  BY DEF DeskInv
<1>1. PICK q \in Selection : q = s8[s]
  BY <1>0 DEF DeskType
<1>2. q.chat \in Conversations /\ AllOf(q.got, q.chat) /\ q.got \in Seq(Note)
  BY <1>1 DEF DeskInv, Desk!Selected, Selection
<1>3. PICK shown : /\ shown = q.got \/ shown = << >>
                   /\ s7' = [s7 EXCEPT !.shown = shown, !.loading = FALSE]
  BY <1>1 DEF Desk!Selected
<1>4. shown \in Seq(Note) /\ AllOf(shown, q.chat)
  <2>1. CASE shown = q.got
    BY <1>2, <2>1
  <2>2. CASE shown = << >>
    BY <2>2, NothingSaid
  <2> QED BY <1>3, <2>1, <2>2
<1>5. /\ s7' \in [selected : Conversations \cup {0}, shown : Seq(Note), loading : BOOLEAN]
      /\ s7'.shown = shown
  BY <1>0, <1>3, <1>4 DEF DeskType
<1>6. PICK next : next = [q EXCEPT !.at = "joining", !.got = << >>]
  OBVIOUS
<1>7. next \in Selection /\ next.chat = q.chat /\ AllOf(next.got, next.chat)
  <2>1. next \in Selection /\ next.chat = q.chat /\ next.got = << >>
    BY <1>1, <1>6, NothingSaid DEF Selection
  <2> QED BY <2>1, NothingSaid
<1>8. s8' = [s8 EXCEPT ![s] = next]
  BY <1>0, <1>1, <1>6 DEF Desk!Selected, DeskType
<1>9. s9' = [s9 EXCEPT !.last = q.chat] /\ UNCHANGED <<s1, s2, s4>>
  BY <1>1 DEF Desk!Selected
<1>10. /\ s9' \in [messages : Nat, events : Nat, last : Conversations \cup {0}]
       /\ s9'.last = q.chat
  BY <1>0, <1>2, <1>9 DEF DeskType
<1>11. s8' \in [Calls -> Selection] /\ \A r \in Calls : s8'[r] = IF r = s THEN next ELSE s8[r]
  BY <1>0, <1>7, <1>8 DEF DeskType
<1>12. DeskType'
  BY <1>0, <1>5, <1>9, <1>10, <1>11 DEF DeskType
<1> QED BY <1>2, <1>4, <1>5, <1>7, <1>9, <1>10, <1>11, <1>12 DEF DeskInv

LEMMA MessageHeardKeeps == ASSUME DeskInv, Desk!handleMessage PROVE DeskInv'
<1>0. DeskType
  BY DEF DeskInv
<1>1. s4 # << >> /\ s4 \in Seq(Said) /\ s4' = Tail(s4)
  BY <1>0 DEF Desk!handleMessage, DeskType
<1>2. Head(s4) \in Said /\ s4' \in Seq(Said)
  BY <1>1
<1>3. PICK note \in Note : note = Head(s4).what
  BY <1>2 DEF Said
<1>4. s7' = Desk!Heard(note) /\ UNCHANGED <<s1, s2, s8, s9>>
  BY <1>3 DEF Desk!handleMessage
<1>5. CASE note.chat = s7.selected
  <2>1. s7.shown \in Seq(Note)
    BY <1>0 DEF DeskType
  <2>2. PICK shown : shown = Append(s7.shown, note)
    OBVIOUS
  <2>3. shown \in Seq(Note)
    BY <2>1, <2>2
  <2>4. \A i \in DOMAIN shown : shown[i] = note \/ (i \in DOMAIN s7.shown /\ shown[i] = s7.shown[i])
    BY <2>1, <2>2
  <2>5. s7' = [s7 EXCEPT !.shown = shown]
    BY <1>4, <1>5, <2>2 DEF Desk!Heard
  <2>6. /\ s7' \in [selected : Conversations \cup {0}, shown : Seq(Note), loading : BOOLEAN]
        /\ s7'.shown = shown /\ s7'.selected = s7.selected /\ s7'.loading = s7.loading
    BY <1>0, <2>3, <2>5 DEF DeskType
  <2>7. AllOf(s7.shown, s7.selected) => AllOf(shown, s7.selected)
    BY <1>5, <2>4 DEF AllOf
  <2>8. DeskType'
    BY <1>0, <1>2, <1>4, <2>6 DEF DeskType
  <2> QED BY <1>4, <2>6, <2>7, <2>8 DEF DeskInv
<1>6. CASE note.chat # s7.selected
  <2>1. s7' = s7
    BY <1>4, <1>6 DEF Desk!Heard
  <2>2. DeskType'
    BY <1>0, <1>2, <1>4, <2>1 DEF DeskType
  <2> QED BY <1>4, <2>1, <2>2, DeskQuiet
<1> QED BY <1>5, <1>6

LEMMA DeskStepKeeps == DeskInv /\ [Desk!Next]_deskVars => DeskInv'
<1> SUFFICES ASSUME DeskInv, [Desk!Next]_deskVars PROVE DeskInv'
  OBVIOUS
<1>0. DeskType
  BY DEF DeskInv
<1>1. ASSUME NEW c \in Conversations, Desk!Write(c) PROVE DeskInv'
  BY <1>1, MessageKeeps DEF Desk!Write
<1>2. ASSUME NEW s \in Calls, NEW c \in Conversations, Desk!handleSelectChat(s, c)
      PROVE  DeskInv'
  <2>1. PICK q : q = [at |-> "sent", chat |-> c, got |-> << >>]
    OBVIOUS
  <2>2. q \in Selection /\ q.chat = c /\ AllOf(q.got, q.chat)
    BY <2>1 DEF Selection, AllOf
  <2>3. /\ s8' = [s8 EXCEPT ![s] = q]
        /\ s7' = [s7 EXCEPT !.selected = c, !.loading = TRUE]
        /\ s9' = [s9 EXCEPT !.events = s9.events + 1]
        /\ UNCHANGED <<s1, s2, s4>>
    BY <1>2, <2>1 DEF Desk!handleSelectChat, Desk!Befalls
  <2>4. s8' \in [Calls -> Selection] /\ \A r \in Calls : s8'[r] = IF r = s THEN q ELSE s8[r]
    BY <1>0, <2>2, <2>3 DEF DeskType
  <2>5. /\ s7' \in [selected : Conversations \cup {0}, shown : Seq(Note), loading : BOOLEAN]
        /\ s7'.loading
    BY <1>0, <2>3 DEF DeskType
  <2>6. s9' \in [messages : Nat, events : Nat, last : Conversations \cup {0}]
    BY <1>0, <2>3, EventsCount
  <2>7. DeskType'
    BY <1>0, <2>3, <2>4, <2>5, <2>6 DEF DeskType
  <2> QED BY <2>2, <2>3, <2>4, <2>5, <2>7 DEF DeskInv
<1>3. CASE Desk!handleSend
  <2>1. s7.selected \in Conversations /\ Desk!Message(s7.selected, 0) /\ UNCHANGED <<s7, s8>>
    BY <1>0, <1>3 DEF Desk!handleSend, DeskType
  <2> QED BY <2>1, MessageKeeps
<1>4. CASE Desk!getChats \/ Desk!Listed
  <2>1. UNCHANGED <<s1, s2, s4, s7, s8, s9>>
    BY <1>4 DEF Desk!getChats, Desk!Listed
  <2> QED BY <1>0, <2>1, DeskQuiet DEF DeskType
<1>5. ASSUME NEW s \in Calls, Desk!getChatMessages(s) \/ Desk!handleJoinChat(s)
      PROVE  DeskInv'
  <2>0. PICK q \in Selection : q = s8[s]
    BY <1>0 DEF DeskType
  <2>1. ASSUME NEW p \in Selection, s8' = [s8 EXCEPT ![s] = p], UNCHANGED <<s1, s4, s7, s9>>,
               \/ s2' = s2 \/ s2' = [s2 EXCEPT ![q.chat] = 0],
               p.at # "none" => p.chat \in Conversations, AllOf(p.got, p.chat)
        PROVE  DeskInv'
    <3>1. s2' \in [Conversations -> Nat]
      <4>1. \A c : [s2 EXCEPT ![c] = 0] \in [Conversations -> Nat]
        BY <1>0 DEF DeskType
      <4>2. CASE s2' = s2
        BY <1>0, <4>2 DEF DeskType
      <4>3. CASE s2' = [s2 EXCEPT ![q.chat] = 0]
        BY <4>1, <4>3
      <4> QED BY <2>1, <4>2, <4>3
    <3>2. s8' \in [Calls -> Selection]
      BY <1>0, <2>1 DEF DeskType
    <3>3. DeskType'
      BY <1>0, <2>1, <3>1, <3>2 DEF DeskType
    <3> QED BY <2>1, <3>3, SelectionKeeps
  <2>2. CASE q.at = "sent" /\ Desk!getChatMessages(s)
    <3>1. q.chat \in Conversations
      BY <2>0, <2>2 DEF DeskInv
    <3>2. s1[q.chat] \in Seq(Note) /\ AllOf(s1[q.chat], q.chat)
      BY <1>0, <3>1 DEF DeskInv, DeskType
    <3>3. PICK p : p = [q EXCEPT !.at = "read", !.got = s1[q.chat]]
      OBVIOUS
    <3>4. p \in Selection /\ p.chat = q.chat /\ p.got = s1[q.chat]
      BY <3>2, <3>3 DEF Selection
    <3>5. s8' = [s8 EXCEPT ![s] = p] /\ UNCHANGED <<s1, s2, s4, s7, s9>>
      BY <1>0, <2>0, <2>2, <3>3 DEF Desk!getChatMessages, DeskType
    <3> QED BY <2>1, <3>1, <3>2, <3>4, <3>5
  <2>3. CASE q.at # "sent" /\ Desk!getChatMessages(s)
    <3>1. q.chat \in Conversations /\ AllOf(q.got, q.chat)
      BY <2>0, <2>3 DEF DeskInv, Desk!getChatMessages
    <3>2. PICK p : p = [q EXCEPT !.at = "marked"]
      OBVIOUS
    <3>3. p \in Selection /\ p.chat = q.chat /\ p.got = q.got
      BY <3>2 DEF Selection
    <3>4. /\ s8' = [s8 EXCEPT ![s] = p] /\ UNCHANGED <<s1, s4, s7, s9>>
          /\ s2' = [s2 EXCEPT ![q.chat] = 0]
      BY <1>0, <2>0, <2>3, <3>2 DEF Desk!getChatMessages, DeskType
    <3> QED BY <2>1, <3>1, <3>3, <3>4
  <2>4. CASE Desk!handleJoinChat(s)
    <3>1. Desk!Gone \in Selection /\ Desk!Gone.at = "none" /\ AllOf(Desk!Gone.got, Desk!Gone.chat)
      BY DEF Desk!Gone, Selection, AllOf
    <3>2. /\ s8' = [s8 EXCEPT ![s] = Desk!Gone] /\ UNCHANGED <<s1, s4, s7, s9>>
          /\ s2' = [s2 EXCEPT ![q.chat] = 0]
      BY <2>0, <2>4 DEF Desk!handleJoinChat
    <3> QED BY <2>1, <3>1, <3>2
  <2> QED BY <1>5, <2>2, <2>3, <2>4
<1>6. ASSUME NEW s \in Calls, Desk!Selected(s) PROVE DeskInv'
  BY <1>6, SelectedKeeps
<1>7. CASE Desk!Reconnect
  <2>1. s4' = << >> /\ UNCHANGED <<s1, s2, s7, s8>> /\ s9' = [s9 EXCEPT !.events = s9.events + 1]
    BY <1>7 DEF Desk!Reconnect, Desk!Befalls
  <2>2. /\ s9' \in [messages : Nat, events : Nat, last : Conversations \cup {0}]
        /\ s9'.last = s9.last
    BY <1>0, <2>1, EventsCount
  <2>3. s4' \in Seq(Said)
    BY <2>1
  <2>4. DeskType'
    BY <1>0, <2>1, <2>2, <2>3 DEF DeskType
  <2> QED BY <2>1, <2>2, <2>4, DeskQuiet
<1>8. CASE Desk!Back
  <2>1. s7' = [s7 EXCEPT !.selected = 0] /\ UNCHANGED <<s1, s2, s4, s8, s9>>
    BY <1>8 DEF Desk!Back
  <2>2. /\ s7' \in [selected : Conversations \cup {0}, shown : Seq(Note), loading : BOOLEAN]
        /\ s7'.selected = 0
    BY <1>0, <2>1 DEF DeskType
  <2>3. DeskType'
    BY <1>0, <2>1, <2>2 DEF DeskType
  <2> QED BY <2>1, <2>2, <2>3 DEF DeskInv
<1>9. CASE Desk!handleMessage
  BY <1>9, MessageHeardKeeps
<1>10. CASE Desk!handleChatUpdate
  <2>1. s4' = Tail(s4) /\ s4 # << >> /\ UNCHANGED <<s1, s2, s7, s8, s9>>
    BY <1>10 DEF Desk!handleChatUpdate
  <2>2. s4' \in Seq(Said)
    BY <1>0, <2>1 DEF DeskType
  <2>3. DeskType'
    BY <1>0, <2>1, <2>2 DEF DeskType
  <2> QED BY <2>1, <2>3, DeskQuiet
<1>11. CASE UNCHANGED deskVars
  BY <1>11 DEF deskVars, DeskInv, DeskType
<1> QED BY <1>1, <1>2, <1>3, <1>4, <1>5, <1>6, <1>7, <1>8, <1>9, <1>10, <1>11 DEF Desk!Next

\* The desk counts what the modules it is made of count.
LEMMA DeskCounts == Desk!Cardinality(Conversations) \in Nat
<1>1. Desk!Cardinality(Conversations) = Cardinality(Conversations)
  BY DEF Desk!Cardinality, Cardinality
<1> QED BY <1>1, FS_CardinalityType, BrowserAssumption

LEMMA DeskBegins == Desk!Init => DeskInv
<1> SUFFICES ASSUME Desk!Init PROVE DeskInv
  OBVIOUS
<1>1. \A c \in Conversations : c \in Nat
  BY BrowserAssumption
<1>2. ASSUME NEW c \in Conversations
      PROVE  s1[c] \in Seq(Note) /\ AllOf(s1[c], c)
  <2>1. PICK note : note = [chat |-> c, n |-> c]
    OBVIOUS
  <2>2. note \in Note /\ note.chat = c
    BY <1>1, <2>1 DEF Note
  <2>3. s1[c] = <<note>>
    BY <2>1 DEF Desk!Init
  <2> QED BY <2>2, <2>3 DEF AllOf
<1>3. s1 \in [Conversations -> Seq(Note)]
  <2>1. s1 = [c \in Conversations |-> <<[chat |-> c, n |-> c]>>]
    BY DEF Desk!Init
  <2> QED BY <1>2, <2>1
<1>4. s2 \in [Conversations -> Nat]
  BY DEF Desk!Init
<1>5. /\ s7 \in [selected : Conversations \cup {0}, shown : Seq(Note), loading : BOOLEAN]
      /\ s7.selected = 0
  BY DEF Desk!Init
<1>6. Desk!Gone \in Selection /\ Desk!Gone.at = "none" /\ AllOf(Desk!Gone.got, Desk!Gone.chat)
  BY DEF Desk!Gone, Selection, AllOf
<1>7. s8 \in [Calls -> Selection] /\ \A s \in Calls : s8[s] = Desk!Gone
  BY <1>6 DEF Desk!Init
<1>8. s9 \in [messages : Nat, events : Nat, last : Conversations \cup {0}]
  BY DeskCounts DEF Desk!Init
<1>9. s4 \in Seq(Said)
  BY DEF Desk!Init
<1> QED BY <1>2, <1>3, <1>4, <1>5, <1>6, <1>7, <1>8, <1>9 DEF DeskInv, DeskType

\* The inductive invariant: an answer, when it comes, makes the transcript one
\* conversation, and until then it is not shown.  (AdminSupportPage.tsx.)
LEMMA DeskInvariant == MCSpec => [](part = "desk" => DeskInv)
<1> DEFINE Inv == part = "desk" => DeskInv
<1>1. MCInit => Inv
  BY DeskBegins DEF MCInit
<1>2. Inv /\ [MCNext]_all => Inv'
  <2> SUFFICES ASSUME Inv, [MCNext]_all PROVE Inv'
    OBVIOUS
  <2>1. part' = part /\ (part = "desk" => [Desk!Next]_deskVars)
    BY DEF MCNext, all, deskVars
  <2> QED BY <2>1, DeskStepKeeps
<1> HIDE DEF Inv
<1>3. MCSpec => []Inv
  BY <1>1, <1>2, PTL DEF MCSpec
<1> QED BY <1>3 DEF Inv

\* Of however many chats, selected in whatever order: what is open is one
\* conversation.  (AdminSupportPage.tsx.)
THEOREM AlwaysOneConversation == MCSpec => []OneConversation
<1>1. (part = "desk" => DeskInv) => OneConversation
  BY DEF DeskInv, AllOf, OneConversation, Desk!OneConversation, Desk!Open
<1> QED BY <1>1, DeskInvariant, PTL

-----------------------------------------------------------------------------
(* The editor of questions. *)

faqVars == <<s1, s2, s3, s4, s5, s6, s7>>

IsFaqCall(q) ==
    /\ q = [op |-> q.op, at |-> q.at, id |-> q.id, title |-> q.title, body |-> q.body, row |-> q.row]
    /\ q.op = "none" => q.at = "none"

IsOrder(o) == o = [ids |-> o.ids, shown |-> o.shown]

IsPast(p) ==
    /\ p = [calls |-> p.calls, added |-> p.added, overlapped |-> p.overlapped, unheard |-> p.unheard,
            refused |-> p.refused, released |-> p.released]
    /\ {p.overlapped, p.unheard, p.refused} \subseteq BOOLEAN

FaqType ==
    /\ IsOrder(s3) /\ IsPast(s7)
    /\ s6 = [c \in Calls |-> s6[c]] /\ \A c \in Calls : IsFaqCall(s6[c])

NoTwoRequests == \A c, d \in Calls : s6[c].op # "none" /\ s6[d].op # "none" => c = d

\* What the cache holds is what there is, but for what was saved and is not
\* answered yet: that answer is what there is.
AnswerIsFaq ==
    /\ (\A c \in Calls : s6[c].at # "saved") => s2 = s1
    /\ \A c \in Calls : s6[c].at = "saved" => s6[c].row = s1

\* The rows are in the order of the entries, or are being dragged, or a new order
\* was sent, which will be refused.
RowsAreInOrder ==
    s3.ids = Questions!Sorted(s2) \/ s5 # 0 \/ \E c \in Calls : s6[c].op = "reorder"

FaqInv ==
    /\ FaqType
    /\ ~s7.overlapped => NoTwoRequests
    /\ ~s7.overlapped /\ ~s7.unheard => AnswerIsFaq
    /\ ~s7.refused => RowsAreInOrder

LEMMA FaqCallBecomes ==
    ASSUME FaqType, NEW c \in Calls, NEW q, s6' = [s6 EXCEPT ![c] = q], IsFaqCall(q)
    PROVE  /\ s6' = [d \in Calls |-> s6'[d]] /\ \A d \in Calls : IsFaqCall(s6'[d])
           /\ s6'[c] = q /\ \A d \in Calls \ {c} : s6'[d] = s6[d]
<1>1. s6'[c] = q /\ \A d \in Calls \ {c} : s6'[d] = s6[d]
  BY DEF FaqType
<1>2. s6' = [d \in Calls |-> s6'[d]]
  BY DEF FaqType
<1>3. \A d \in Calls : IsFaqCall(s6'[d])
  BY <1>1 DEF FaqType
<1> QED BY <1>1, <1>2, <1>3

\* A request is sent; the rows are as they were, or it is their order.
LEMMA SendsKeeps ==
    ASSUME FaqInv, NEW c \in Calls, NEW op \in {"create", "update", "delete", "reorder"},
           NEW id, NEW title, NEW body, Questions!Sends(c, Questions!Request(op, id, title, body)),
           s1' = s1, s2' = s2, IsOrder(s3'), op = "reorder" \/ (s3' = s3 /\ s5' = s5)
    PROVE  FaqInv'
<1>1. PICK q : q = [op |-> op, at |-> "sent", id |-> id, title |-> title, body |-> body,
                    row |-> << >>]
  OBVIOUS
<1>2. q = Questions!Request(op, id, title, body) /\ q.op = op /\ q.at = "sent" /\ op # "none"
  BY <1>1 DEF Questions!Request
<1>3. IsFaqCall(q)
  BY <1>1, <1>2 DEF IsFaqCall
<1>4. s6[c].op = "none" /\ s6' = [s6 EXCEPT ![c] = q]
  BY <1>2 DEF Questions!Sends
<1>5. /\ s6' = [d \in Calls |-> s6'[d]] /\ \A d \in Calls : IsFaqCall(s6'[d])
      /\ s6'[c] = q /\ \A d \in Calls \ {c} : s6'[d] = s6[d]
  BY <1>3, <1>4, FaqCallBecomes DEF FaqInv
<1>6. PICK over \in BOOLEAN : over = (s7.overlapped \/ \E d \in Calls : s6[d].op # "none")
  OBVIOUS
<1>7. PICK released : released = IF q.op = "reorder" THEN q.body ELSE << >>
  OBVIOUS
<1>8. PICK half : half = [s7 EXCEPT !.calls = s7.calls + 1, !.overlapped = over]
  OBVIOUS
<1>9. half = [calls |-> s7.calls + 1, added |-> s7.added, overlapped |-> over, unheard |-> s7.unheard,
              refused |-> s7.refused, released |-> s7.released]
  BY <1>8 DEF FaqInv, FaqType, IsPast
<1>10. s7' = [half EXCEPT !.released = released]
  BY <1>2, <1>6, <1>7, <1>8, Zenon DEF Questions!Sends
<1>11. s7' = [calls |-> s7.calls + 1, added |-> s7.added, overlapped |-> over, unheard |-> s7.unheard,
              refused |-> s7.refused, released |-> released]
  BY <1>9, <1>10
<1>12. IsPast(s7') /\ s7'.overlapped = over /\ s7'.unheard = s7.unheard /\ s7'.refused = s7.refused
  BY <1>11 DEF IsPast, FaqInv, FaqType
<1>13. FaqType'
  BY <1>5, <1>12 DEF FaqType
<1>14. ~over => NoTwoRequests'
  BY <1>5, <1>6 DEF NoTwoRequests
<1>15. ~over /\ ~s7.unheard => AnswerIsFaq'
  BY <1>2, <1>4, <1>5, <1>6 DEF FaqInv, FaqType, IsFaqCall, AnswerIsFaq
<1>16. ~s7.refused => RowsAreInOrder'
  BY <1>2, <1>4, <1>5 DEF FaqInv, RowsAreInOrder
<1> QED BY <1>12, <1>13, <1>14, <1>15, <1>16 DEF FaqInv

\* A request that is not sent goes on, or goes wrong.
LEMMA FaqStepKeeps == ASSUME FaqInv, [Questions!Next]_faqVars PROVE FaqInv'
<1>0. FaqType
  BY DEF FaqInv
<1>1. CASE Questions!Render
  <2>1. s3' = [s3 EXCEPT !.shown = s3.ids] /\ UNCHANGED <<s1, s2, s5, s6, s7>>
    BY <1>1 DEF Questions!Render
  <2>2. IsOrder(s3') /\ s3'.ids = s3.ids
    BY <1>0, <2>1 DEF FaqType, IsOrder
  <2> QED BY <2>1, <2>2 DEF FaqInv, FaqType, NoTwoRequests, AnswerIsFaq, RowsAreInOrder
<1>2. ASSUME NEW i, Questions!handlePointerDown(i) PROVE FaqInv'
  <2>1. s5 = 0 /\ UNCHANGED <<s1, s2, s3, s6, s7>>
    BY <1>2 DEF Questions!handlePointerDown
  <2> QED BY <2>1 DEF FaqInv, FaqType, NoTwoRequests, AnswerIsFaq, RowsAreInOrder
<1>3. ASSUME NEW over, Questions!handlePointerMove(over) PROVE FaqInv'
  <2>1. PICK ids : ids = Questions!MovedOver(s3.ids, s5, over)
    OBVIOUS
  <2>2. s5 # 0 /\ s3' = [s3 EXCEPT !.ids = ids] /\ UNCHANGED <<s1, s2, s5, s6, s7>>
    BY <1>3, <2>1 DEF Questions!handlePointerMove
  <2>3. IsOrder(s3')
    BY <1>0, <2>2 DEF FaqType, IsOrder
  <2> QED BY <2>2, <2>3 DEF FaqInv, FaqType, NoTwoRequests, AnswerIsFaq, RowsAreInOrder
<1>4. ASSUME NEW i, NEW title, Questions!Types(i, title) PROVE FaqInv'
  <2>1. UNCHANGED <<s1, s2, s3, s5, s6, s7>>
    BY <1>4 DEF Questions!Types
  <2> QED BY <2>1 DEF FaqInv, FaqType, NoTwoRequests, AnswerIsFaq, RowsAreInOrder
<1>5. ASSUME NEW c \in Calls, NEW title, Questions!handleAdd(c, title) PROVE FaqInv'
  <2>1. /\ Questions!Sends(c, Questions!Request("create", 0, title, << >>))
        /\ UNCHANGED <<s1, s2, s3, s5>>
    BY <1>5 DEF Questions!handleAdd
  <2> QED BY <1>0, <2>1, SendsKeeps DEF FaqType
<1>6. ASSUME NEW c \in Calls, NEW i, Questions!handleSaveItem(c, i) \/ Questions!handleDelete(c, i)
      PROVE  FaqInv'
  <2>1. /\ UNCHANGED <<s1, s2, s3, s5>>
        /\ \/ Questions!Sends(c, Questions!Request("update", i, s4[i], << >>))
           \/ Questions!Sends(c, Questions!Request("delete", i, "", << >>))
    BY <1>6 DEF Questions!handleSaveItem, Questions!handleDelete
  <2> QED BY <1>0, <2>1, SendsKeeps DEF FaqType
<1>7. ASSUME NEW c \in Calls, NEW i, NEW over, Questions!handleHandleKeyDown(c, i, over)
      PROVE  FaqInv'
  <2>1. PICK ids : ids = Questions!MovedOver(s3.shown, i, over)
    OBVIOUS
  <2>2. /\ s3' = [ids |-> ids, shown |-> s3.shown] /\ s1' = s1 /\ s2' = s2
        /\ Questions!Sends(c, Questions!Request("reorder", 0, "", ids))
    BY <1>7, <2>1 DEF Questions!handleHandleKeyDown, Questions!commitOrder
  <2>3. IsOrder(s3')
    BY <2>2 DEF IsOrder
  <2> QED BY <2>2, <2>3, SendsKeeps
<1>8. ASSUME NEW c \in Calls, Questions!handlePointerUp(c) PROVE FaqInv'
  <2>1. /\ UNCHANGED <<s1, s2, s3>> /\ Questions!Sends(c, Questions!Request("reorder", 0, "", s3.shown))
    BY <1>8 DEF Questions!handlePointerUp, Questions!commitOrder
  <2> QED BY <1>0, <2>1, SendsKeeps DEF FaqType
<1>9. ASSUME NEW c \in Calls, Questions!Read(c) PROVE FaqInv'
  <2>1. PICK q : q = s6[c]
    OBVIOUS
  <2>2. PICK p : p = [q EXCEPT !.at = "read", !.row = s1]
    OBVIOUS
  <2>3. p = [op |-> q.op, at |-> "read", id |-> q.id, title |-> q.title, body |-> q.body, row |-> s1]
    <3>1. q = [op |-> q.op, at |-> q.at, id |-> q.id, title |-> q.title, body |-> q.body,
               row |-> q.row]
      BY <1>0, <2>1 DEF FaqType, IsFaqCall
    <3> QED BY <2>2, <3>1
  <2>4. s6' = [s6 EXCEPT ![c] = p] /\ q.at = "sent" /\ UNCHANGED <<s1, s2, s3, s5, s7>>
    BY <1>9, <2>1, <2>2, Zenon DEF Questions!Read
  <2>5. IsFaqCall(p) /\ p.op = q.op
    <3>1. q.op # "none"
      BY <1>0, <2>1, <2>4 DEF FaqType, IsFaqCall
    <3> QED BY <2>3, <3>1 DEF IsFaqCall
  <2>6. /\ s6' = [d \in Calls |-> s6'[d]] /\ \A d \in Calls : IsFaqCall(s6'[d])
        /\ s6'[c] = p /\ \A d \in Calls \ {c} : s6'[d] = s6[d]
    BY <1>0, <2>4, <2>5, FaqCallBecomes
  <2>7. FaqType'
    BY <1>0, <2>4, <2>6 DEF FaqType
  <2>8. NoTwoRequests => NoTwoRequests'
    BY <2>1, <2>5, <2>6 DEF NoTwoRequests
  <2>9. AnswerIsFaq => AnswerIsFaq'
    BY <2>1, <2>3, <2>4, <2>6 DEF AnswerIsFaq
  <2>10. RowsAreInOrder => RowsAreInOrder'
    BY <2>1, <2>4, <2>5, <2>6 DEF RowsAreInOrder
  <2> QED BY <2>4, <2>7, <2>8, <2>9, <2>10 DEF FaqInv
<1>10. ASSUME NEW c \in Calls, Questions!Save(c) PROVE FaqInv'
  <2>1. PICK q : q = s6[c]
    OBVIOUS
  <2>2. PICK f : f = Questions!Changed(c)
    OBVIOUS
  <2>3. PICK p : p = [q EXCEPT !.at = "saved", !.row = f]
    OBVIOUS
  <2>4. p = [op |-> q.op, at |-> "saved", id |-> q.id, title |-> q.title, body |-> q.body, row |-> f]
    <3>1. q = [op |-> q.op, at |-> q.at, id |-> q.id, title |-> q.title, body |-> q.body,
               row |-> q.row]
      BY <1>0, <2>1 DEF FaqType, IsFaqCall
    <3> QED BY <2>3, <3>1
  <2>5. /\ s6' = [s6 EXCEPT ![c] = p] /\ q.at = "read" /\ s1' = f /\ UNCHANGED <<s2, s3, s5>>
    BY <1>10, <2>1, <2>2, <2>3, Zenon DEF Questions!Save
  <2>6. PICK more : more = IF s6[c].op = "create" THEN s7.added + 1 ELSE s7.added
    OBVIOUS
  <2>7. s7' = [s7 EXCEPT !.added = more]
    BY <1>10, <2>6, Zenon DEF Questions!Save
  <2>8. s7' = [calls |-> s7.calls, added |-> more, overlapped |-> s7.overlapped,
               unheard |-> s7.unheard, refused |-> s7.refused, released |-> s7.released]
    BY <1>0, <2>7 DEF FaqType, IsPast
  <2>9. /\ IsPast(s7') /\ s7'.overlapped = s7.overlapped /\ s7'.unheard = s7.unheard
        /\ s7'.refused = s7.refused
    BY <1>0, <2>8 DEF FaqType, IsPast
  <2>10. q.op # "none" /\ IsFaqCall(p) /\ p.op = q.op
    <3>1. q.op # "none"
      BY <1>0, <2>1, <2>5 DEF FaqType, IsFaqCall
    <3> QED BY <2>4, <3>1 DEF IsFaqCall
  <2>11. /\ s6' = [d \in Calls |-> s6'[d]] /\ \A d \in Calls : IsFaqCall(s6'[d])
         /\ s6'[c] = p /\ \A d \in Calls \ {c} : s6'[d] = s6[d]
    BY <1>0, <2>5, <2>10, FaqCallBecomes
  <2>12. FaqType'
    BY <1>0, <2>5, <2>9, <2>11 DEF FaqType
  <2>13. NoTwoRequests => NoTwoRequests'
    BY <2>1, <2>10, <2>11 DEF NoTwoRequests
  <2>14. NoTwoRequests => AnswerIsFaq'
    <3> SUFFICES ASSUME NoTwoRequests PROVE AnswerIsFaq'
      OBVIOUS
    <3>1. \A d \in Calls \ {c} : s6[d].op = "none" /\ s6[d].at = "none"
      BY <1>0, <2>1, <2>10 DEF NoTwoRequests, FaqType, IsFaqCall
    <3> QED BY <2>4, <2>5, <2>11, <3>1 DEF AnswerIsFaq
  <2>15. RowsAreInOrder => RowsAreInOrder'
    BY <2>1, <2>5, <2>10, <2>11 DEF RowsAreInOrder
  <2> QED BY <2>9, <2>12, <2>13, <2>14, <2>15 DEF FaqInv
<1>11. ASSUME NEW c \in Calls, Questions!onSuccess(c) PROVE FaqInv'
  <2>1. PICK f : f = s6[c].row
    OBVIOUS
  <2>2. PICK ids : ids = Questions!Sorted(f)
    OBVIOUS
  <2>3. /\ s6[c].at = "saved" /\ s6' = [s6 EXCEPT ![c] = Questions!Idle] /\ s1' = s1 /\ s7' = s7
        /\ s2' = f /\ s3' = [s3 EXCEPT !.ids = ids]
    BY <1>11, <2>1, <2>2 DEF Questions!onSuccess, Questions!Shows
  <2>4. IsOrder(s3') /\ s3'.ids = Questions!Sorted(s2')
    BY <1>0, <2>2, <2>3 DEF FaqType, IsOrder
  <2>5. IsFaqCall(Questions!Idle) /\ Questions!Idle.op = "none" /\ Questions!Idle.at = "none"
    BY DEF IsFaqCall, Questions!Idle
  <2>6. /\ s6' = [d \in Calls |-> s6'[d]] /\ \A d \in Calls : IsFaqCall(s6'[d])
        /\ s6'[c] = Questions!Idle /\ \A d \in Calls \ {c} : s6'[d] = s6[d]
    BY <1>0, <2>3, <2>5, FaqCallBecomes
  <2>7. FaqType'
    BY <1>0, <2>3, <2>4, <2>6 DEF FaqType
  <2>8. NoTwoRequests => NoTwoRequests'
    BY <2>5, <2>6 DEF NoTwoRequests
  <2>9. AnswerIsFaq => AnswerIsFaq'
    BY <2>1, <2>3, <2>5, <2>6 DEF AnswerIsFaq
  <2> QED BY <2>3, <2>4, <2>7, <2>8, <2>9 DEF FaqInv, RowsAreInOrder
<1>12. ASSUME NEW c \in Calls, Questions!onError(c) PROVE FaqInv'
  <2>1. PICK unheard \in BOOLEAN : unheard = (s7.unheard \/ s6[c].at = "saved")
    OBVIOUS
  <2>2. PICK refused \in BOOLEAN : refused = (s7.refused \/ s6[c].op = "reorder")
    OBVIOUS
  <2>3. /\ s6[c].at \in {"sent", "saved"} /\ s6' = [s6 EXCEPT ![c] = Questions!Idle]
        /\ UNCHANGED <<s1, s2, s3, s5>>
    BY <1>12 DEF Questions!onError
  <2>4. s7' = [s7 EXCEPT !.unheard = unheard, !.refused = refused]
    BY <1>12, <2>1, <2>2, Zenon DEF Questions!onError
  <2>5. s7' = [calls |-> s7.calls, added |-> s7.added, overlapped |-> s7.overlapped,
               unheard |-> unheard, refused |-> refused, released |-> s7.released]
    BY <1>0, <2>4 DEF FaqType, IsPast
  <2>6. /\ IsPast(s7') /\ s7'.overlapped = s7.overlapped /\ s7'.unheard = unheard
        /\ s7'.refused = refused
    BY <1>0, <2>5 DEF FaqType, IsPast
  <2>7. IsFaqCall(Questions!Idle) /\ Questions!Idle.op = "none" /\ Questions!Idle.at = "none"
    BY DEF IsFaqCall, Questions!Idle
  <2>8. /\ s6' = [d \in Calls |-> s6'[d]] /\ \A d \in Calls : IsFaqCall(s6'[d])
        /\ s6'[c] = Questions!Idle /\ \A d \in Calls \ {c} : s6'[d] = s6[d]
    BY <1>0, <2>3, <2>7, FaqCallBecomes
  <2>9. FaqType'
    BY <1>0, <2>3, <2>6, <2>8 DEF FaqType
  <2>10. NoTwoRequests => NoTwoRequests'
    BY <2>7, <2>8 DEF NoTwoRequests
  <2>11. ~unheard /\ AnswerIsFaq => AnswerIsFaq'
    BY <2>1, <2>3, <2>7, <2>8 DEF AnswerIsFaq
  <2>12. ~refused /\ RowsAreInOrder => RowsAreInOrder'
    BY <2>2, <2>3, <2>8 DEF RowsAreInOrder
  <2> QED BY <2>1, <2>2, <2>6, <2>9, <2>10, <2>11, <2>12 DEF FaqInv
<1>13. CASE UNCHANGED faqVars
  BY <1>13 DEF faqVars, FaqInv, FaqType, NoTwoRequests, AnswerIsFaq, RowsAreInOrder
<1> QED BY <1>1, <1>2, <1>3, <1>4, <1>5, <1>6, <1>7, <1>8, <1>9, <1>10, <1>11, <1>12, <1>13
        DEF Questions!Next

LEMMA FaqBegins == Questions!Init => FaqInv
<1> SUFFICES ASSUME Questions!Init PROVE FaqInv
  OBVIOUS
<1>1. IsFaqCall(Questions!Idle) /\ Questions!Idle.op = "none" /\ Questions!Idle.at = "none"
  BY DEF IsFaqCall, Questions!Idle
<1>2. FaqType /\ s7.overlapped = FALSE /\ s7.unheard = FALSE /\ s7.refused = FALSE
  BY <1>1 DEF Questions!Init, FaqType, IsOrder, IsPast
<1>3. NoTwoRequests /\ AnswerIsFaq
  BY <1>1 DEF Questions!Init, NoTwoRequests, AnswerIsFaq
<1>4. s3.ids = Questions!Sorted(s2)
  BY DEF Questions!Init
<1> QED BY <1>2, <1>3, <1>4 DEF FaqInv, RowsAreInOrder

\* The inductive invariant: what the editor has is what there is or is about to
\* be, and its rows are in that order or are on the way to be.  (FaqAdminEditor.)
LEMMA FaqInvariant == MCSpec => [](part = "faq" => FaqInv)
<1> DEFINE Inv == part = "faq" => FaqInv
<1>1. MCInit => Inv
  BY FaqBegins DEF MCInit
<1>2. Inv /\ [MCNext]_all => Inv'
  <2> SUFFICES ASSUME Inv, [MCNext]_all PROVE Inv'
    OBVIOUS
  <2>1. part' = part /\ (part = "faq" => [Questions!Next]_faqVars)
    BY DEF MCNext, all, faqVars, FaqStep
  <2> QED BY <2>1, FaqStepKeeps
<1> HIDE DEF Inv
<1>3. MCSpec => []Inv
  BY <1>1, <1>2, PTL DEF MCSpec
<1> QED BY <1>3 DEF Inv

\* Of any questions, with any number of requests: at rest the editor shows what
\* there is, in the shop's order, unless requests overlapped, an answer was lost
\* or an order was refused.  (FaqAdminEditor.tsx, useFaqMutations.ts.)
THEOREM EditorAlwaysAgrees == MCSpec => []AgreesAtRest
<1>1. (part = "faq" => FaqInv) => AgreesAtRest
  <2> SUFFICES ASSUME part = "faq", FaqInv, Questions!AtRest, ~s7.overlapped, ~s7.unheard
               PROVE  s2 = s1 /\ (~s7.refused => s3.shown = Questions!Sorted(s1))
    BY DEF AgreesAtRest, Questions!AgreesAtRest
  <2>1. (\A c \in Calls : s6[c].op = "none" /\ s6[c].at = "none") /\ s5 = 0 /\ s3.shown = s3.ids
    BY DEF Questions!AtRest, FaqInv, FaqType, IsFaqCall
  <2>2. s2 = s1
    BY <2>1 DEF FaqInv, AnswerIsFaq
  <2> QED BY <2>1, <2>2 DEF FaqInv, RowsAreInOrder
<1> QED BY <1>1, FaqInvariant, PTL

=============================================================================
