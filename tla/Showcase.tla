------------------------------ MODULE Showcase ------------------------------
(***************************************************************************)
(* The featured works on a turning ring: the section that fetches the      *)
(* scene, builds it and tears it down again (PaintingShowcase), and the    *)
(* scene itself, with its textures, its loop and its pointer               *)
(* (PaintingRingScene).                                                    *)
(*                                                                         *)
(* The ring turns by half steps, two from a work to the next, and round is *)
(* where it began.  An ease is one half step at a time.                    *)
(***************************************************************************)
EXTENDS Integers, FiniteSets

CONSTANTS
    Works,      \* how many hang on the ring
    MaxBuilds   \* scenes that are built (bound)

VARIABLES
    page,   \* the section: mounted, mode, active; the document hidden or not
    job,    \* how far the effect has come with its scene
    ring,   \* the scene that is alive
    loads,  \* textures asked for: <<build, work>>
    held,   \* created and not disposed of: of the room <<build, part>>, textures <<build, work>>
    builds  \* scenes built so far

vars == <<page, job, ring, loads, held, builds>>

None == -99
Slots == 0 .. Works - 1
Round == 2 * Works

\* What a constructor creates, next to the textures it asks for.
Made == {"weave", "floorFade", "moteSprite", "edge", "back", "motes", "floor", "lamp", "slots"}
Disposed == Made \ {"lamp"}

NoRing == [build |-> 0, rotation |-> 0, togo |-> None, velocity |-> 0, active |-> -1,
           dragging |-> FALSE, moved |-> FALSE, visible |-> TRUE, frame |-> FALSE]
alive == ring.build # 0

Mounted(hidden) == [mounted |-> TRUE, mode |-> "waiting", active |-> 0, hidden |-> hidden]

Init ==
    /\ page = Mounted(FALSE)
    /\ job = "observing"
    /\ ring = NoRing
    /\ loads = {}
    /\ held = [room |-> {}, textures |-> {}]
    /\ builds = 0

-----------------------------------------------------------------------------
(* The section. *)

Intersects ==
    /\ job = "observing"
    /\ job' = "importing"
    /\ page' = [page EXCEPT !.mode = "loading"]
    /\ UNCHANGED <<ring, loads, held, builds>>

Strip ==
    /\ job' = "done"
    /\ page' = [page EXCEPT !.mode = "strip"]
    /\ UNCHANGED <<ring, loads, held, builds>>

\* The module arrives, and the browser may turn out to have no WebGL.
Imported ==
    /\ job \in {"importing", "retrying"}
    /\ \/ Strip
       \/ job' = "scheduled" /\ UNCHANGED <<page, ring, loads, held, builds>>

ImportFails ==
    \/ /\ job = "importing"
       /\ job' = "retrying"
       /\ UNCHANGED <<page, ring, loads, held, builds>>
    \/ job = "retrying" /\ Strip

\* start(): not while hidden, or off screen.
Started(r) == [r EXCEPT !.frame = @ \/ (r.visible /\ ~page.hidden)]

Build ==
    /\ job = "scheduled"
    /\ builds < MaxBuilds
    /\ job' = "done"
    /\ builds' = builds + 1
    /\ ring' = Started([NoRing EXCEPT !.build = builds', !.togo = 0])
    /\ held' = [held EXCEPT !.room = @ \cup ({builds'} \X Made)]
    /\ loads' = loads \cup ({builds'} \X Slots)
    /\ UNCHANGED page

\* No context for the renderer: the exception ends an idle callback.
BuildThrows ==
    /\ job = "scheduled"
    /\ job' = "threw"
    /\ UNCHANGED <<page, ring, loads, held, builds>>

\* destroy(): the textures are those that the scene was given.
Destroyed ==
    [room |-> held.room \ ({ring.build} \X Disposed),
     textures |-> held.textures \ ({ring.build} \X Slots)]

\* Cleanup.
TearDown ==
    /\ ring' = NoRing
    /\ held' = Destroyed
    /\ UNCHANGED <<loads, builds>>

\* Other works, or another language: what is on screen stays until it is known
\* whether the section is near.
Rebuild ==
    /\ page.mounted
    /\ job' = "observing"
    /\ TearDown
    /\ UNCHANGED page

Leave ==
    /\ page.mounted
    /\ page' = [page EXCEPT !.mounted = FALSE, !.mode = "waiting"]
    /\ job' = "done"
    /\ TearDown

Return ==
    /\ ~page.mounted
    /\ page' = Mounted(page.hidden)
    /\ job' = "observing"
    /\ UNCHANGED <<ring, loads, held, builds>>

-----------------------------------------------------------------------------
(* Textures. *)

\* settle(): once the last has come, or failed.
Settled(build) ==
    page' = IF build = ring.build /\ ~(\E l \in loads' : l[1] = build)
            THEN [page EXCEPT !.mode = "ring"] ELSE page

\* Mutation of TextureLands: hung on a scene that is gone.
TextureLandsAnyway(build, i) ==
    /\ <<build, i>> \in loads
    /\ loads' = loads \ {<<build, i>>}
    /\ held' = [held EXCEPT !.textures = @ \cup {<<build, i>>}]
    /\ Settled(build)
    /\ UNCHANGED <<job, ring, builds>>

TextureLands(build, i) ==
    /\ <<build, i>> \in loads
    /\ loads' = loads \ {<<build, i>>}
    /\ held' = IF build # ring.build THEN held
                ELSE [held EXCEPT !.textures = @ \cup {<<build, i>>}]
    /\ Settled(build)
    /\ UNCHANGED <<job, ring, builds>>

TextureFails(build, i) ==
    /\ <<build, i>> \in loads
    /\ loads' = loads \ {<<build, i>>}
    /\ Settled(build)
    /\ UNCHANGED <<job, ring, held, builds>>

-----------------------------------------------------------------------------
(* The ring. *)

Turned(rotation, by) == (rotation + by + Round) % Round
\* wrapAngle(): the short way round.
Wrap(angle) == ((angle + Works) % Round) - Works
Towards(index, r) == [r EXCEPT !.togo = Wrap(-2 * index - r.rotation)]
\* Of two works as near, Math.round() takes the one that is reached backwards.
Front(rotation) == ((Round - rotation + 1) \div 2) % Works
Sign(n) == IF n > 0 THEN 1 ELSE IF n < 0 THEN -1 ELSE 0

\* One step of update(): towards a target, by what momentum is left, or on to
\* the work that is nearest.
Moved(r) ==
    IF r.dragging THEN {r}
    ELSE IF r.togo # None
    THEN {[r EXCEPT !.rotation = Turned(@, Sign(r.togo)),
                    !.togo = IF @ - Sign(@) = 0 THEN None ELSE @ - Sign(@)]}
    ELSE IF r.velocity # 0
    THEN {[r EXCEPT !.rotation = Turned(@, r.velocity), !.velocity = v] : v \in {0, r.velocity}}
    ELSE {[r EXCEPT !.togo = IF r.rotation % 2 = 0 THEN None
                             ELSE Wrap(-2 * Front(r.rotation) - r.rotation)]}

\* tick(): the ring turns on by itself once it was left alone for a while.
Tick ==
    /\ ring.frame
    /\ \E alone \in {FALSE, ~ring.dragging /\ Works > 1} :
         \E r \in Moved(IF alone THEN Towards(ring.active + 1, ring) ELSE ring) :
            LET front == Front(r.rotation)
            IN /\ ring' = [r EXCEPT !.active = front, !.frame = ring.visible /\ ~page.hidden]
               /\ page' = IF front # ring.active THEN [page EXCEPT !.active = front] ELSE page
    /\ UNCHANGED <<job, loads, held, builds>>

Input(r) == alive /\ ring' = r /\ UNCHANGED <<page, job, loads, held, builds>>

goTo(index) == [Towards(index, ring) EXCEPT !.velocity = 0]
NextWork == Input(goTo(ring.active + 1))
PrevWork == Input(goTo(ring.active - 1))

PointerDown ==
    Input([ring EXCEPT !.dragging = TRUE, !.moved = FALSE, !.velocity = 0, !.togo = None])

PointerMove(by) ==
    /\ ring.dragging
    /\ Input([ring EXCEPT !.rotation = Turned(@, by), !.velocity = by, !.moved = TRUE])

\* After a drag, or on a work: the one in front is opened, any other comes to
\* the front.
PointerUp ==
    /\ ring.dragging
    /\ LET released == [ring EXCEPT !.dragging = FALSE]
       IN IF ring.moved THEN Input(released)
          ELSE \/ Input([released EXCEPT !.velocity = 0])
               \/ \E i \in Slots \ {ring.active} : Input([goTo(i) EXCEPT !.dragging = FALSE])

PointerCancel == ring.dragging /\ Input([ring EXCEPT !.dragging = FALSE])

See(visible) ==
    LET seen == [ring EXCEPT !.visible = visible]
    IN Input(IF visible THEN Started(seen) ELSE seen)

Hide ==
    /\ page' = [page EXCEPT !.hidden = TRUE]
    /\ UNCHANGED <<job, ring, loads, held, builds>>

Unhide ==
    /\ page' = [page EXCEPT !.hidden = FALSE]
    /\ ring' = IF alive THEN [ring EXCEPT !.frame = @ \/ ring.visible] ELSE ring
    /\ UNCHANGED <<job, loads, held, builds>>

Next ==
    \/ Intersects \/ Imported \/ ImportFails \/ Build \/ BuildThrows
    \/ Rebuild \/ Leave \/ Return
    \/ \E build \in 1 .. MaxBuilds, i \in Slots : TextureLands(build, i) \/ TextureFails(build, i)
    \/ Tick \/ NextWork \/ PrevWork \/ PointerDown \/ PointerUp \/ PointerCancel
    \/ \E by \in {-1, 1} : PointerMove(by)
    \/ \E visible \in BOOLEAN : See(visible)
    \/ Hide \/ Unhide

Spec == Init /\ [][Next]_vars

-----------------------------------------------------------------------------
(* Properties. *)

\* Whatever was created for a scene is disposed of with it, also the textures
\* that arrive when it is gone, and nothing is created for one that was given
\* up before it was built; the lamp's shadow map stays.  ("Everything it creates
\* is released in destroy()", paintingRingScene.ts:38.)
ReleasedInDestroy ==
    /\ \A h \in held.room : h[2] = "lamp" \/ h[1] = ring.build
    /\ \A h \in held.textures : h[1] = ring.build

\* "Everything it creates is released in destroy()", the lamp with it.
AllReleased == \A h \in held.room : h[1] = ring.build

\* "if the scene fails to load, the same works are shown as a plain swipeable
\* strip" (PaintingShowcase.tsx:26).
FailuresShowStrip == job = "threw" => page.mode = "strip"
=============================================================================
