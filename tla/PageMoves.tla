----------------------------- MODULE PageMoves -----------------------------
(***************************************************************************)
(* From page to page of the site (NavigationTracker, inAppHistory and      *)
(* useBack): where on the page the reader is after a link, after "back",   *)
(* and while a swipe of before still carries him on.                       *)
(*                                                                         *)
(* A push and the layout effect of its page are one commit of React; the   *)
(* popstate of a traversal comes before the commit of its page.            *)
(***************************************************************************)
EXTENDS Integers, Sequences

CONSTANTS Pages, MaxEntries

VARIABLES
    history,    \* the tab's entries on this site, and which one it is at
    shown,      \* pathname, as React last rendered it
    lastAction,
    navigated,
    place,      \* where the reader is: top, down, or at an anchor
    settle,     \* off, resets (timers are left), watching (only the page's height)
    gliding,    \* the momentum of a swipe
    arrival     \* how the reader came here, until he moves; over a settle's end?

vars == <<history, shown, lastAction, navigated, place, settle, gliding, arrival>>

Places == {"top", "down"}
Nowhere == [by |-> "none", late |-> FALSE]
By(way) == [by |-> way, late |-> settle # "off"]

\* A tab opened on a page of the site, at an entry with nothing of ours behind.
Init ==
    /\ \E page \in Pages :
        /\ history = [entries |-> <<[page |-> page, place |-> "top"]>>, at |-> 1]
        /\ shown = page
    /\ lastAction = "null"
    /\ navigated = FALSE
    /\ place = "top"
    /\ settle = "off"
    /\ gliding = FALSE
    /\ arrival = Nowhere

here == history.entries[history.at]
\* The reader goes off the site.
left == history.at = 0
\* The popstate came, the page did not yet.
pending == ~left /\ here.page # shown

\* The browser keeps where the reader was on the entry that he leaves.
Kept == [history.entries EXCEPT ![history.at].place = place]

-----------------------------------------------------------------------------
(* What NavigationTracker does. *)

\* Mutation of Marked: the popstate flag outlives a write, as in the earlier
\* version.
MarkedUnlessBack(to) ==
    IF to # shown /\ lastAction # "back" THEN "forward" ELSE lastAction

\* The patched pushState and replaceState: isNewPage() before the write.
Marked(to) == IF to # shown THEN "forward" ELSE lastAction

\* The layout effect of a new pathname; `there' is where the browser or Next
\* puts the reader, and what came before is stopped only to start afresh.
Effect(to, action, hash, there, way) ==
    /\ shown' = to
    /\ navigated' = TRUE
    /\ lastAction' = "null"
    /\ IF action = "back" \/ hash
       THEN place' = there /\ UNCHANGED settle
       ELSE place' = "top" /\ settle' = "resets"
    /\ arrival' = By(way)
    /\ UNCHANGED gliding

Pushed(entry) ==
    [entries |-> Append(SubSeq(Kept, 1, history.at), entry), at |-> history.at + 1]

\* A link: the push goes to the top at once, unless to an anchor.
push(to, hash) ==
    /\ to # shown
    /\ history.at < MaxEntries
    /\ history' = Pushed([page |-> to, place |-> "top"])
    /\ Effect(to, Marked(to), hash, IF hash THEN "anchor" ELSE "top",
              IF hash THEN "anchor" ELSE "link")

\* router.replace(): marks, and leaves the scrolling to the effect.
replace(to) ==
    /\ to # shown
    /\ history' = [history EXCEPT !.entries[history.at].page = to]
    /\ Effect(to, Marked(to), FALSE, place, "link")

\* A page of the catalogue, a lightbox: the same pathname, no effect runs.
Within ==
    /\ history.at < MaxEntries
    /\ history' = Pushed([page |-> shown, place |-> "top"])
    /\ lastAction' = Marked(shown)
    /\ place' \in {place, "top"}
    /\ arrival' = Nowhere
    /\ UNCHANGED <<shown, navigated, settle, gliding>>

\* popstate; on the same page the browser restores the place and that is all.
Traverse(to) ==
    /\ history' = [entries |-> Kept, at |-> to]
    /\ lastAction' = "back"
    /\ place' = IF Kept[to].page = shown THEN Kept[to].place ELSE place
    /\ arrival' = Nowhere
    /\ UNCHANGED <<shown, navigated, settle, gliding>>

Commit == Effect(here.page, lastAction, FALSE, here.place, "back") /\ UNCHANGED history

\* Set by the first change of a page, and never unset.
hasInAppHistory == navigated

\* useBack(): back, also from the first entry of ours once a page was changed.
goBack(fallback) ==
    \/ hasInAppHistory /\ history.at > 1 /\ Traverse(history.at - 1)
    \/ /\ hasInAppHistory /\ history.at = 1
       /\ history' = [history EXCEPT !.at = 0]
       /\ arrival' = Nowhere
       /\ UNCHANGED <<shown, lastAction, navigated, place, settle, gliding>>
    \/ ~hasInAppHistory /\ push(fallback, FALSE)

\* toTop(), on a timer or as the page grows; the momentum of a swipe is over
\* before the last of the timers.
Reset ==
    /\ settle # "off"
    /\ place' = "top"
    /\ settle' \in {settle} \cup IF gliding THEN {} ELSE {"watching"}
    /\ UNCHANGED <<history, shown, lastAction, navigated, gliding, arrival>>

SettleEnds ==
    /\ settle = "watching"
    /\ settle' = "off"
    /\ UNCHANGED <<history, shown, lastAction, navigated, place, gliding, arrival>>

\* onInput(): a finger, the wheel or a key; a finger may leave a momentum.
Input ==
    /\ settle' = "off"
    /\ place' \in Places
    /\ gliding' \in BOOLEAN
    /\ arrival' = Nowhere
    /\ UNCHANGED <<history, shown, lastAction, navigated>>

-----------------------------------------------------------------------------
(* What the browser does by itself. *)

\* The scrollbar is nobody's input.
Drag ==
    /\ place' \in Places
    /\ arrival' = Nowhere
    /\ UNCHANGED <<history, shown, lastAction, navigated, settle, gliding>>

Glide ==
    /\ gliding
    /\ gliding' \in BOOLEAN
    /\ place' = "down"
    /\ arrival' = IF arrival.by = "link" THEN arrival ELSE Nowhere
    /\ UNCHANGED <<history, shown, lastAction, navigated, settle>>

\* The router takes one navigation after the other.
Next ==
    /\ ~left
    /\ \/ /\ ~pending
          /\ \/ \E to \in Pages :
                  goBack(to) \/ replace(to) \/ \E hash \in BOOLEAN : push(to, hash)
             \/ \E to \in DOMAIN history.entries \ {history.at} : Traverse(to)
             \/ Within
       \/ pending /\ Commit
       \/ Reset \/ SettleEnds \/ Input \/ Drag \/ Glide

Spec == Init /\ [][Next]_vars

-----------------------------------------------------------------------------
(* Properties. *)

\* However links, anchors, "back" and moves within a page follow each other,
\* and whatever momentum a swipe had: a page reached by a link is at its top
\* once it has settled, and one reached by "back", or at an anchor, is where
\* the browser put it - unless another page was still settling.  ("Starts every
\* new page at the top", NavigationTracker.tsx:12; the flag that outlived its
\* page, :19-24.)
StartsWhereItShould ==
    /\ arrival.by = "link" /\ settle = "off" => place = "top"
    /\ arrival.by = "back" /\ ~arrival.late => place = here.place
    /\ arrival.by = "anchor" /\ ~arrival.late => place = "anchor"

\* "Browser back/forward is left alone" (NavigationTracker.tsx:15).
BackIsLeft == arrival.by = "back" /\ ~pending => place = here.place

\* "A link to an anchor on the new page scrolls there itself"
\* (NavigationTracker.tsx:123).
AnchorIsLeft == arrival.by = "anchor" => place = "anchor"

\* "A "back" that always lands on the site" (useBack.ts:31).
BackStaysOnSite == ~left
=============================================================================
