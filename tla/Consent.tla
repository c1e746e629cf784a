------------------------------ MODULE Consent ------------------------------
(***************************************************************************)
(* The cookie decision, the banner and panel that take it, and the visit   *)
(* counter that may run once it is a yes, in the tabs of one browser.      *)
(*                                                                         *)
(* The tabs share the browser's storage and nothing else.  A tab reads the *)
(* decision when the counter is mounted and when a decision is made in it; *)
(* what was decided elsewhere it does not hear.  The counter's script      *)
(* cannot be unloaded: it looks at a key of its own before every event.    *)
(***************************************************************************)
EXTENDS Naturals

CONSTANT Tabs

VARIABLES
    storage,   \* how the browser treats it: "open", "full" (no writes), "blocked"
    store,     \* what it holds: the decision, and the counter's opt-out
    tab,       \* the pages
    withdrawn  \* history: the yes was taken back in a page that knew of it

vars == <<storage, store, tab, withdrawn>>

Nothing == [consent |-> "none", ignore |-> "none"]

Closed == [open |-> FALSE, memory |-> Nothing, allowed |-> FALSE, wasAllowed |-> FALSE,
           script |-> "none", banner |-> "none", settings |-> "closed"]

\* A record of an older list of categories may have stayed from before.
Init ==
    /\ storage \in {"open", "full", "blocked"}
    /\ store \in [consent : {"none", "older"}, ignore : {"none"}]
    /\ tab = [t \in Tabs |-> Closed]
    /\ withdrawn = FALSE

-----------------------------------------------------------------------------
(* The storage may refuse: what is written then stays with the page, and   *)
(* is read back only where reading is refused as well.                     *)

Stored(now, page, key) == IF storage = "blocked" THEN page.memory[key] ELSE now[key]

readConsent(now, page) ==
    LET consent == Stored(now, page, "consent") IN
        IF consent = "older" THEN "none" ELSE consent

hasConsent(now, page) == readConsent(now, page) = "yes"

\* The tab t, and the store, once `value' is written under `key'.
Written(key, value, w) ==
    IF storage = "open" THEN [w EXCEPT !.store[key] = value]
    ELSE [w EXCEPT !.page.memory[key] = value]

Removed(key, w) ==
    LET forgotten == [w EXCEPT !.page.memory[key] = "none"] IN
        IF storage = "blocked" THEN forgotten ELSE [forgotten EXCEPT !.store[key] = "none"]

-----------------------------------------------------------------------------
(* The counter. *)

\* The effect that follows a change of `allowed', with the opt-out forgotten.
EffectForgets(allowed, w) ==
    [(IF allowed THEN Removed("ignore", w) ELSE w) EXCEPT !.page.wasAllowed = allowed]

\* A withdrawal, and only a withdrawal, leaves the opt-out; the next yes takes
\* it away.
Effect(allowed, w) ==
    LET opted == IF allowed THEN Removed("ignore", w)
                 ELSE IF w.page.wasAllowed THEN Written("ignore", "true", w)
                 ELSE w
    IN  [opted EXCEPT !.page.wasAllowed = allowed]

\* The component reads the decision again, and renders with it.
Render(w) ==
    LET allowed == hasConsent(w.store, w.page)
        seen == IF allowed = w.page.allowed THEN w ELSE Effect(allowed, w)
    IN  [seen EXCEPT !.page.allowed = allowed,
                     !.page.script = IF allowed /\ @ = "none" THEN "asked" ELSE @]

\* A new instance: what it was allowed before is forgotten, the script is not.
Mount(w) ==
    LET mounted == Render([w EXCEPT !.page.allowed = FALSE, !.page.wasAllowed = FALSE]) IN
        [mounted EXCEPT
            !.page.banner = IF readConsent(w.store, w.page) = "none" THEN "rising" ELSE "none",
            !.page.settings = "closed"]

Becomes(t, w) ==
    /\ store' = w.store
    /\ tab' = [tab EXCEPT ![t] = w.page]
    /\ UNCHANGED storage

World(t) == [store |-> store, page |-> tab[t]]

Open(t) ==
    /\ Becomes(t, Mount([store |-> store, page |-> [Closed EXCEPT !.open = TRUE]]))
    /\ UNCHANGED withdrawn

\* The other language: the layout is another one, the page is the same.
Switch(t) ==
    /\ tab[t].open
    /\ Becomes(t, Mount(World(t)))
    /\ UNCHANGED withdrawn

Close(t) ==
    /\ tab[t].open
    /\ tab' = [tab EXCEPT ![t] = Closed]
    /\ UNCHANGED <<storage, store, withdrawn>>

Arrives(t) ==
    /\ tab[t].script = "asked"
    /\ tab' = [tab EXCEPT ![t].script = "loaded"]
    /\ UNCHANGED <<storage, store, withdrawn>>

-----------------------------------------------------------------------------
(* The banner and the panel. *)

Shown(t) ==
    /\ tab[t].banner = "rising"
    /\ tab' = [tab EXCEPT ![t].banner = "up"]
    /\ UNCHANGED <<storage, store, withdrawn>>

Leaves(t) ==
    /\ tab[t].banner = "leaving"
    /\ tab' = [tab EXCEPT ![t].banner = "none"]
    /\ UNCHANGED <<storage, store, withdrawn>>

\* Recorded, and told to this page.
writeConsent(answer, w) == Render(Written("consent", answer, w))

decide(t, answer) ==
    LET told == writeConsent(answer, World(t)) IN
    /\ Becomes(t, [told EXCEPT !.page.settings = "closed",
                               !.page.banner = IF @ = "none" THEN "none" ELSE "leaving"])
    /\ withdrawn' = (answer = "no" /\ (withdrawn \/ tab[t].allowed))

Answer(t) ==
    /\ tab[t].banner \in {"rising", "up", "leaving"}
    /\ tab[t].settings = "closed"
    /\ \E answer \in {"yes", "no"} : decide(t, answer)

\* From the banner, the footer, the menu or the privacy page; the panel is
\* modal, and starts from the decision there is.
OpenSettings(t) ==
    /\ tab[t].open
    /\ tab[t].settings = "closed"
    /\ tab' = [tab EXCEPT ![t].settings = IF hasConsent(store, tab[t]) THEN "yes" ELSE "no"]
    /\ UNCHANGED <<storage, store, withdrawn>>

Flip(t) ==
    /\ tab[t].settings # "closed"
    /\ tab' = [tab EXCEPT ![t].settings = IF @ = "yes" THEN "no" ELSE "yes"]
    /\ UNCHANGED <<storage, store, withdrawn>>

CloseSettings(t) ==
    /\ tab[t].settings # "closed"
    /\ tab' = [tab EXCEPT ![t].settings = "closed"]
    /\ UNCHANGED <<storage, store, withdrawn>>

Confirm(t) ==
    /\ tab[t].settings # "closed"
    /\ decide(t, tab[t].settings)

Next ==
    \E t \in Tabs :
        \/ Open(t) \/ Switch(t) \/ Close(t)
        \/ Arrives(t)
        \/ Shown(t) \/ Leaves(t)
        \/ Answer(t)
        \/ OpenSettings(t) \/ Flip(t) \/ CloseSettings(t) \/ Confirm(t)

Spec == Init /\ [][Next]_vars

-----------------------------------------------------------------------------

\* The script sends the page's events unless it reads its opt-out.
Counting(t) == tab[t].script = "loaded" /\ ~(storage # "blocked" /\ store.ignore = "true")

\* Where the browser lets a site keep anything, a yes that is taken back in a
\* page that counted by it stops the counters of every tab, whichever tabs
\* were opened, switched or told before, until there is another yes: the
\* opt-out outlives the instance of the component that wrote it.
WithdrawalStops ==
    storage = "open" /\ withdrawn => \A t \in Tabs : ~Counting(t)

\* The visit counter only runs once the visitor agrees (privacy.ts:284), and
\* goes by the last decision.  Not so: a no given in a tab that was opened
\* before the yes leaves no opt-out, and the tab of the yes counts on.
CountsByDecision ==
    storage = "open" => \A t \in Tabs : Counting(t) => store.consent = "yes"

\* The opt-out "stops the counter without a page reload" (privacy.ts:280).
\* Not so where the storage is refused: the key stays in the page's memory,
\* where the script does not look; nor where only writing is, for there the
\* older yes is read on.
StopsWithoutReload ==
    withdrawn => \A t \in Tabs : ~Counting(t)
=============================================================================
