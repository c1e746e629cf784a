---------------------------- MODULE HeroSequence ----------------------------
(***************************************************************************)
(* The footage that scrolling walks through (useHeroSequence): a strip of  *)
(* stills fetched when its section comes near and let go when it is far,   *)
(* arriving in any order, and the loop that eases the playhead and paints  *)
(* the two frames beside it - asleep unless something wakes it.            *)
(*                                                                         *)
(* The playhead moves by half frames: on one, or between it and the next.  *)
(***************************************************************************)
EXTENDS Integers, FiniteSets

CONSTANTS
    Count,  \* of frames in the strip
    Eager,
    Reduced \* prefers-reduced-motion

VARIABLES
    strip,    \* attached; each frame's image: none, loading, ready, broken
    onload,   \* the frames whose load event is not handled yet
    head,     \* progressTarget, progress
    loop,     \* asleep, a frame of animation requested, or ended by an exception
    painted,  \* the pair of frames on the canvas
    near      \* the section, as the observer last saw it

vars == <<strip, onload, head, loop, painted, near>>

Frames == 0 .. Count - 1
Positions == 0 .. 2 * (Count - 1)
\* wakeRef does nothing for a visitor with reduced motion.
Woken == IF Reduced THEN "asleep" ELSE "requested"
Blank == [a |-> -1, b |-> -1]
Nothing == [attached |-> FALSE, image |-> [f \in Frames |-> "none"]]
Fetched == [attached |-> TRUE, image |-> [f \in Frames |-> "loading"]]

\* The reader may be anywhere on the page when it opens.
Init ==
    /\ strip = IF Eager THEN Fetched ELSE Nothing
    /\ onload = {}
    /\ \E position \in Positions : head = [target |-> position, at |-> 0]
    /\ loop = Woken
    /\ painted = Blank
    /\ near = FALSE

-----------------------------------------------------------------------------
(* The strip. *)

\* The observer's callback: attach(), or release().
Observe(seen) ==
    /\ near' = seen
    /\ IF seen = strip.attached THEN UNCHANGED <<strip, onload, painted>>
       ELSE /\ strip' = IF seen THEN Fetched ELSE Nothing
            /\ onload' = {}
            /\ painted' = Blank
    /\ UNCHANGED <<head, loop>>

Lands(f) ==
    /\ strip.image[f] = "loading"
    /\ strip' = [strip EXCEPT !.image[f] = "ready"]
    /\ onload' = onload \cup {f}
    /\ UNCHANGED <<head, loop, painted, near>>

\* Complete as well, with nothing to draw and nobody told.
Breaks(f) ==
    /\ strip.image[f] = "loading"
    /\ strip' = [strip EXCEPT !.image[f] = "broken"]
    /\ UNCHANGED <<onload, head, loop, painted, near>>

\* Mutation of OnLoad: an arrival is left to the next scroll.
OnLoadQuietly(f) ==
    /\ f \in onload
    /\ onload' = onload \ {f}
    /\ UNCHANGED <<strip, head, loop, painted, near>>

OnLoad(f) ==
    /\ f \in onload
    /\ onload' = onload \ {f}
    /\ loop' = Woken
    /\ UNCHANGED <<strip, head, painted, near>>

-----------------------------------------------------------------------------
(* The loop. *)

\* nearestReady(): of two as near, the one before.
Nearest(want, complete) ==
    LET Distance(f) == IF f > want THEN 2 * (f - want) + 1 ELSE 2 * (want - f)
    IN IF complete = {} THEN -1
       ELSE CHOOSE f \in complete : \A g \in complete : Distance(f) <= Distance(g)

Best(position, complete) ==
    LET lower == position \div 2
        a == Nearest(lower, complete)
    IN [a |-> a, b |-> IF position % 2 = 0 THEN a ELSE Nearest(lower + 1, complete)]

Complete == {f \in Frames : strip.image[f] \in {"ready", "broken"}}

Toward(a, b) == IF a < b THEN a + 1 ELSE IF a > b THEN a - 1 ELSE a

\* step() and paint(): a first frame without a picture leaves the canvas as it
\* was, and a second one throws, before what was drawn is noted and before the
\* next frame is asked for.
Step ==
    /\ loop = "requested"
    /\ LET at == Toward(head.at, head.target)
           best == Best(at, Complete)
           drawable == Complete # {} /\ strip.image[best.a] = "ready"
           throws == drawable /\ strip.image[best.b] = "broken"
       IN /\ head' = [head EXCEPT !.at = at]
          /\ loop' = IF throws THEN "thrown" ELSE IF at # head.at THEN loop ELSE "asleep"
          /\ painted' = IF drawable /\ ~throws THEN best ELSE painted
    /\ UNCHANGED <<strip, onload, near>>

\* onScroll() and onResize().
Scroll(position) ==
    /\ ~Reduced
    /\ head' = [head EXCEPT !.target = position]
    /\ loop' = "requested"
    /\ UNCHANGED <<strip, onload, painted, near>>

\* The stage leans with the pointer, and comes back.
Point ==
    /\ ~Reduced
    /\ loop' = "requested"
    /\ UNCHANGED <<strip, onload, head, painted, near>>

\* The sequence's effect is run again, on a canvas that may be a new one.
Restart(position) ==
    /\ ~Reduced
    /\ painted' = Blank
    /\ head' = [head EXCEPT !.target = position]
    /\ loop' = "requested"
    /\ UNCHANGED <<strip, onload, near>>

Next ==
    \/ \E f \in Frames : Lands(f) \/ Breaks(f) \/ OnLoad(f)
    \/ \E seen \in BOOLEAN : Observe(seen)
    \/ \E position \in Positions : Scroll(position) \/ Restart(position)
    \/ Step \/ Point

Spec == Init /\ [][Next]_vars

-----------------------------------------------------------------------------
(* Properties. *)

broken == {f \in Frames : strip.image[f] = "broken"}
atRest == loop = "asleep" /\ onload = {}

\* Once the loop sleeps, the playhead is where the reader is and the canvas
\* shows the frames nearest to it of those that came, however they came, were
\* let go and fetched again meanwhile - if all of them can be drawn.  ("Without
\* it a reader who scrolls to a section and stops before its strip has arrived
\* would sit looking at the poster", useHeroSequence.ts:141.)
AtRestShowsBest ==
    atRest /\ ~Reduced /\ broken = {} =>
        /\ head.at = head.target
        /\ Complete # {} => painted = Best(head.at, Complete)

\* "The draw below always falls back to the nearest one that has landed"
\* (useHeroSequence.ts:169).
FallsBack ==
    atRest /\ ~Reduced /\ Complete \ broken # {} =>
        painted = Best(head.at, Complete \ broken)

\* "even for a reduced-motion visitor, who still needs a first frame to look at"
\* (useHeroSequence.ts:155).
FirstFrame == atRest /\ strip.image[0] = "ready" => painted # Blank
=============================================================================
