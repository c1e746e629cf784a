--------------------------- MODULE ScrollContinue ---------------------------
(***************************************************************************)
(* Scrolling past the bottom of one page on to the next one                *)
(* (useScrollContinue): the bar that wheel and fingers fill, its frames,   *)
(* the timer that empties it, the veil, and the listeners that every page  *)
(* sets up anew while some of the refs live on.                            *)
(*                                                                         *)
(* Time goes by in moments.  The bar is full at FILL, and grows by one in  *)
(* a moment of wheel at the most; what is drawn follows it frame by frame. *)
(***************************************************************************)
EXTENDS Integers, FiniteSetsExt

CONSTANTS
    FILL,           \* MIN_FILL_MS, and a full bar
    WHEEL_QUIET,
    IDLE_DECAY,
    VEIL

ScrollAssumption ==
    /\ {FILL, WHEEL_QUIET, IDLE_DECAY, VEIL} \subseteq Nat \ {0}
    /\ VEIL <= WHEEL_QUIET /\ WHEEL_QUIET <= IDLE_DECAY /\ IDLE_DECAY <= FILL

VARIABLES
    page,   \* its number in the walk
    place,  \* how far down the reader is
    bar,    \* target, value, frame, idleTimer, arrived, ready
    wheel,  \* wheelArmed, moments since lastWheelAt and since lastGrowAt
    touch,  \* the finger, and touchY, touching and fingerDown that follow it
    leaving, \* the veil's timer, and where the router was sent
    ghost   \* pages turned since a pause of the wheel or a drag; finger put down on this page

vars == <<page, place, bar, wheel, touch, leaving, ghost>>

Off == -1
Last == 2
Places == {"above", "near", "bottom"}
Deltas == {-1, 1, FILL}

Counted(timer) == IF timer > 0 THEN timer - 1 ELSE timer
Aged(since, cap) == IF since = Off THEN Off ELSE Min({since + 1, cap})

EmptyBar ==
    [target |-> 0, value |-> 0, frame |-> FALSE, idle |-> Off, arrived |-> FALSE, ready |-> FALSE]

Init ==
    /\ page = 0
    /\ place = "above"
    /\ bar = EmptyBar
    /\ wheel = [armed |-> FALSE, since |-> Off, grew |-> Off]
    /\ touch = [finger |-> FALSE, y |-> FALSE, touching |-> FALSE, down |-> FALSE]
    /\ leaving = [veil |-> Off, to |-> Off]
    /\ ghost = [turns |-> 0, here |-> FALSE]

listening == page # Last
atBottom(touching) == place = "bottom" \/ (touching /\ place = "near")

-----------------------------------------------------------------------------
(* The bar. *)

\* Let go, from wherever the bottom was left: its decay goes on if it was due.
LetGo(b) == [b EXCEPT !.target = 0, !.frame = @ \/ b.target # 0]
Disarmed == [wheel EXCEPT !.armed = FALSE, !.grew = Off]

\* addTo() without the wheel's limit.
Pushed(b, delta, down) ==
    LET target == Max({0, Min({FILL, b.target + delta})})
    IN [b EXCEPT !.target = target,
                 !.ready = @ /\ target = FILL,
                 !.idle = IF target = FILL \/ down THEN Off ELSE IDLE_DECAY,
                 !.frame = TRUE]

\* Mutation of Arms: the burst that came down here arms the bar as well.
ArmsAtOnce == ~wheel.armed /\ atBottom(FALSE)
Arms == ~wheel.armed /\ atBottom(FALSE) /\ wheel.since \in {Off, WHEEL_QUIET}

\* onWheel(): addTo(), where a push down is limited and needs an armed bar.
Wheel(delta) ==
    /\ listening
    /\ touch' = [touch EXCEPT !.touching = FALSE]
    /\ LET armed == wheel.armed \/ Arms
           grew == IF Arms THEN Off ELSE wheel.grew
           grows == ~bar.arrived /\ atBottom(FALSE) /\ delta > 0 /\ armed
           step == Min({delta, IF grew = Off THEN 0 ELSE grew})
       IN /\ wheel' = IF ~bar.arrived /\ ~atBottom(FALSE)
                      THEN [Disarmed EXCEPT !.since = 0]
                      ELSE [armed |-> armed, since |-> 0, grew |-> IF grows THEN 0 ELSE grew]
          /\ bar' = IF bar.arrived THEN bar
                    ELSE IF ~atBottom(FALSE) THEN LetGo(bar)
                    ELSE IF delta < 0 THEN IF bar.target = 0 THEN bar ELSE Pushed(bar, delta, touch.down)
                    ELSE IF grows THEN [bar EXCEPT !.target = Min({FILL, @ + step}),
                                                   !.idle = IDLE_DECAY, !.frame = TRUE]
                    ELSE bar
    /\ ghost' = [ghost EXCEPT !.turns = IF wheel.since \in {Off, WHEEL_QUIET} THEN 0 ELSE @]
    /\ UNCHANGED <<page, place, leaving>>

\* A finger moves nothing that it was not seen to touch.
TouchStart ==
    /\ ~touch.finger
    /\ touch' = IF listening
                THEN [finger |-> TRUE, y |-> TRUE, touching |-> TRUE, down |-> TRUE]
                ELSE [touch EXCEPT !.finger = TRUE]
    /\ bar' = IF listening THEN [bar EXCEPT !.idle = Off] ELSE bar
    /\ ghost' = [ghost EXCEPT !.here = TRUE]
    /\ UNCHANGED <<page, place, wheel, leaving>>

TouchMove(delta) ==
    /\ touch.finger /\ touch.y /\ listening /\ ~bar.arrived
    /\ IF atBottom(touch.touching)
       THEN /\ bar' = IF delta < 0 /\ bar.target = 0 THEN bar
                      ELSE Pushed(bar, delta, touch.down)
            /\ UNCHANGED wheel
       ELSE bar' = LetGo(bar) /\ wheel' = Disarmed
    /\ ghost' = [ghost EXCEPT !.turns = 0]
    /\ UNCHANGED <<page, place, touch, leaving>>

\* touchend and touchcancel.
TouchEnd ==
    /\ touch.finger
    /\ touch' = [touch EXCEPT !.finger = FALSE, !.y = @ /\ ~listening, !.down = FALSE]
    /\ bar' = IF ~touch.down THEN bar
              ELSE [bar EXCEPT !.ready = FALSE, !.target = IF @ < FILL THEN 0 ELSE @,
                               !.frame = TRUE]
    /\ ghost' = [ghost EXCEPT !.here = FALSE]
    /\ UNCHANGED <<page, place, wheel, leaving>>

\* onScroll(), by wheel, finger, keyboard or scrollbar.
Scroll(to) ==
    /\ place # to
    /\ place' = to
    /\ IF listening /\ ~(to = "bottom" \/ (touch.touching /\ to = "near"))
       THEN bar' = LetGo(bar) /\ wheel' = Disarmed
       ELSE UNCHANGED <<bar, wheel>>
    /\ UNCHANGED <<page, touch, leaving, ghost>>

\* The page grows under the reader, or shrinks: nothing is told.
Relayout(to) ==
    /\ place # to
    /\ place' = to
    /\ UNCHANGED <<page, bar, wheel, touch, leaving, ghost>>

-----------------------------------------------------------------------------
(* Frames and timers. *)

Toward(a, b) == IF a < b THEN a + 1 ELSE IF a > b THEN a - 1 ELSE a

MayTurn == ~touch.down

\* step(): with reduced motion there is no veil.
Step ==
    /\ bar.frame
    /\ LET value == Toward(bar.value, bar.target)
           full == value = FILL
           turns == full /\ MayTurn /\ ~bar.arrived
       IN /\ bar' = [bar EXCEPT !.value = value, !.frame = value # bar.target,
                                !.ready = @ \/ (full /\ ~MayTurn), !.arrived = @ \/ turns]
          /\ IF turns
             THEN /\ \/ leaving' = [leaving EXCEPT !.veil = VEIL]
                     \/ leaving' = [leaving EXCEPT !.to = page + 1]
                  /\ ghost' = [ghost EXCEPT !.turns = Min({@ + 1, 2})]
             ELSE UNCHANGED <<leaving, ghost>>
    /\ UNCHANGED <<page, place, wheel, touch>>

Decay ==
    /\ bar.idle = 0
    /\ bar' = [bar EXCEPT !.idle = Off, !.target = 0, !.frame = TRUE]
    /\ UNCHANGED <<page, place, wheel, touch, leaving, ghost>>

VeilEnds ==
    /\ leaving.veil = 0
    /\ leaving' = [veil |-> Off, to |-> page + 1]
    /\ UNCHANGED <<page, place, bar, wheel, touch, ghost>>

Tick ==
    /\ bar' = [bar EXCEPT !.idle = Counted(@)]
    /\ leaving' = [leaving EXCEPT !.veil = Counted(@)]
    /\ wheel' = [wheel EXCEPT !.since = Aged(@, WHEEL_QUIET), !.grew = Aged(@, FILL)]
    /\ UNCHANGED <<page, place, touch, ghost>>

-----------------------------------------------------------------------------
(* Pages. *)

\* Both effects run: a fresh bar, fresh listeners, and the refs that stay -
\* touchY and lastWheelAt.  The new page may be short at first.
Open(to) ==
    /\ page' = to
    /\ place' \in Places
    /\ bar' = EmptyBar
    /\ wheel' = Disarmed
    /\ touch' = [touch EXCEPT !.touching = FALSE, !.down = FALSE]
    /\ leaving' = [veil |-> Off, to |-> Off]
    /\ ghost' = [ghost EXCEPT !.here = FALSE]

\* Where the bar led, by a link, or to the same page in the other language.
Navigate == leaving.to # Off /\ Open(leaving.to)
Follow(to) == Open(to)

Next ==
    \/ \E delta \in Deltas : Wheel(delta) \/ TouchMove(delta)
    \/ \E to \in Places : Scroll(to) \/ Relayout(to)
    \/ TouchStart \/ TouchEnd \/ Step \/ Decay \/ VeilEnds \/ Tick
    \/ Navigate \/ \E to \in 0 .. Last : Follow(to)

Spec == Init /\ [][Next]_vars

-----------------------------------------------------------------------------
(* Properties. *)

\* One burst of the wheel - events with no pause between them, however hard and
\* however long they come - turns one page at the most, also when the page that
\* comes is still too short to scroll, and whatever is clicked or resized
\* meanwhile.  ("Without it a free-spinning wheel would carry the reader from
\* page to page to page", useScrollContinue.ts:40.)
OneTurnPerBurst == ghost.turns <= 1

\* No page turns under a finger that was put down on it: a bar that is full
\* waits, and what is due waits with it.  ("with a finger still down it waits
\* for the release", useScrollContinue.ts:130.)
WaitsForRelease == ~(ghost.here /\ touch.finger /\ bar'.arrived /\ ~bar.arrived)

\* A reader turns the pages, and nothing turns them for him: neither the rest of
\* a burst nor a bar that fills under a resting finger.
IsMeant == OneTurnPerBurst' /\ WaitsForRelease
TurnsAreMeant == [][IsMeant]_vars

\* "the bar is full but the finger is still down - the prompt says release"
\* (useScrollContinue.ts:77).
ReadyMeansFull == bar.ready => bar.target = FILL

\* "The page only turns once the finger lifts" (useScrollContinue.ts:52).
TurnsWithNoFinger == [][bar'.arrived /\ ~bar.arrived => ~touch.finger]_vars
=============================================================================
