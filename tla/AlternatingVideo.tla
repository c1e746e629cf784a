-------------------------- MODULE AlternatingVideo --------------------------
(***************************************************************************)
(* The background of the sign-in page (useAlternatingVideo): two clips     *)
(* that hand over to each other, of which any may stall, be refused or     *)
(* turn out broken, at any moment.                                         *)
(*                                                                         *)
(* How long things take is left out: a timer that is set may go off, and   *)
(* what a clip has come to is heard of some time after.                    *)
(***************************************************************************)
EXTENDS Naturals, FiniteSets

VARIABLES
    scene, \* the hook: current, timer, broken, waiting, disposed, warmed, fallback
    clip,  \* what has arrived of each clip, and whether it plays
    due    \* events that are not handled yet: <<clip, type>>

vars == <<scene, clip, due>>

Clips == {"a", "b"}
Other(x) == IF x = "a" THEN "b" ELSE "a"
\* `next' is the one that is not current.
next == Other(scene.current)

HasMetadata(x) == clip[x].data \in {"metadata", "canplay"}
Moves(x) == clip[x].play = "playing"

Init ==
    /\ scene = [current |-> "a", timer |-> FALSE, broken |-> {},
                waiting |-> FALSE, disposed |-> FALSE, warmed |-> FALSE, fallback |-> TRUE]
    /\ clip = [a |-> [data |-> "loading", play |-> "asked"],
               b |-> [data |-> "none", play |-> "off"]]
    /\ due = {}

-----------------------------------------------------------------------------
(* What the hook does. *)

\* play(): what was not loaded yet is now; one that plays begins again.
Played(c, x) ==
    [c EXCEPT ![x].data = IF @ = "none" THEN "loading" ELSE @,
              ![x].play = IF @ = "playing" THEN @ ELSE "asked"]

\* arm(): the duration of the clip on screen has to be known.
Armed(s) == [s EXCEPT !.timer = ~s.disposed /\ HasMetadata(s.current)]

\* The clip that is current is the one on screen.
\* hand(), when the timer went off and on `ended' and `error'.
Hand(broken) ==
    IF next \in broken
    THEN /\ clip' = Played(clip, scene.current)
         /\ scene' = Armed([scene EXCEPT !.broken = broken])
    ELSE /\ clip' = Played(clip, next)
         /\ scene' = Armed([scene EXCEPT !.broken = broken, !.current = next])

TimerFires ==
    /\ scene.timer
    /\ Hand(scene.broken)
    /\ UNCHANGED due

\* onProgress() for loadedmetadata, playing and timeupdate.
OnProgress(x) ==
    /\ ~scene.disposed
    /\ <<x, "progress">> \in due
    /\ due' = due \ {<<x, "progress">>}
    /\ scene' = IF x = scene.current THEN Armed(scene) ELSE scene
    /\ UNCHANGED clip

OnEnded(x) ==
    /\ ~scene.disposed
    /\ <<x, "ended">> \in due
    /\ due' = due \ {<<x, "ended">>}
    /\ IF x = scene.current THEN Hand(scene.broken) ELSE UNCHANGED <<scene, clip>>

\* Mutation of OnError: noted, and left to the timer.
OnErrorNoted(x) ==
    /\ ~scene.disposed
    /\ <<x, "error">> \in due
    /\ due' = due \ {<<x, "error">>}
    /\ scene' = [scene EXCEPT !.broken = @ \cup {x}]
    /\ UNCHANGED clip

OnError(x) ==
    /\ ~scene.disposed
    /\ <<x, "error">> \in due
    /\ due' = due \ {<<x, "error">>}
    /\ LET broken == scene.broken \cup {x}
       IN IF broken = Clips
          THEN scene' = [scene EXCEPT !.broken = broken, !.timer = FALSE] /\ UNCHANGED clip
          ELSE IF x = scene.current THEN Hand(broken)
          ELSE scene' = [scene EXCEPT !.broken = broken] /\ UNCHANGED clip

\* Autoplay refused, or a clip that cannot be played at all.
OnRefused(x) ==
    /\ <<x, "refused">> \in due
    /\ due' = due \ {<<x, "refused">>}
    /\ scene' = [scene EXCEPT !.waiting = @ \/ ~scene.disposed]
    /\ UNCHANGED clip

OnGesture ==
    /\ scene.waiting
    /\ scene' = [scene EXCEPT !.waiting = FALSE]
    /\ clip' = Played(clip, scene.current)
    /\ UNCHANGED due

\* The first clip is preloaded as it is: only the second one is ever warmed.
WarmPartner(s, events) ==
    IF next = "b" /\ ~scene.warmed
    THEN /\ scene' = [s EXCEPT !.warmed = TRUE]
         /\ clip' = [clip EXCEPT !["b"] = [data |-> "loading", play |-> "off"]]
         /\ due' = {event \in events : event[1] # "b"}
    ELSE scene' = s /\ due' = events /\ UNCHANGED clip

OnCanPlay ==
    /\ ~scene.disposed
    /\ <<"a", "canplay">> \in due
    /\ WarmPartner(scene, due \ {<<"a", "canplay">>})

WarmFallback ==
    /\ scene.fallback
    /\ WarmPartner([scene EXCEPT !.fallback = FALSE], due)

Dispose ==
    /\ scene' = [scene EXCEPT !.disposed = TRUE, !.timer = FALSE, !.fallback = FALSE,
                              !.waiting = FALSE]
    /\ UNCHANGED <<clip, due>>

-----------------------------------------------------------------------------
(* What becomes of a clip. *)

Becomes(x, c, types) ==
    /\ clip' = [clip EXCEPT ![x] = c]
    /\ due' = due \cup {<<x, type>> : type \in types}
    /\ UNCHANGED scene

Loads(x) ==
    \/ /\ clip[x].data = "loading"
       /\ Becomes(x, [clip[x] EXCEPT !.data = "metadata"], {"progress"})
    \/ /\ clip[x].data = "metadata"
       /\ Becomes(x, [clip[x] EXCEPT !.data = "canplay"], IF x = "a" THEN {"canplay"} ELSE {})

Plays(x) ==
    \/ /\ clip[x] = [data |-> "canplay", play |-> "asked"]
       /\ Becomes(x, [clip[x] EXCEPT !.play = "playing"], {"progress"})
    \/ /\ Moves(x)
       /\ Becomes(x, clip[x], {"progress"})

\* Starved of data, and fed again.
Stalls(x) ==
    /\ Moves(x)
    /\ Becomes(x, [clip[x] EXCEPT !.play = "asked"], {})

Ends(x) ==
    /\ Moves(x)
    /\ Becomes(x, [clip[x] EXCEPT !.play = "off"], {"ended"})

Refuses(x) ==
    /\ clip[x].play = "asked"
    /\ Becomes(x, [clip[x] EXCEPT !.play = "off"], {"refused"})

Breaks(x) ==
    /\ clip[x].data \in {"loading", "metadata", "canplay"}
    /\ Becomes(x, [data |-> "broken", play |-> "off"],
               {"error"} \cup (IF clip[x].play = "asked" THEN {"refused"} ELSE {}))

Next ==
    \/ \E x \in Clips :
        \/ OnProgress(x) \/ OnEnded(x) \/ OnError(x) \/ OnRefused(x)
        \/ Loads(x) \/ Plays(x) \/ Stalls(x) \/ Ends(x) \/ Refuses(x) \/ Breaks(x)
    \/ TimerFires \/ OnGesture \/ OnCanPlay \/ WarmFallback \/ Dispose

Spec == Init /\ [][Next]_vars

-----------------------------------------------------------------------------
(* Properties. *)

Heard(x, type) == <<x, type>> \in due

SomethingMovesIt ==
    \/ Moves(scene.current)
    \/ scene.timer \/ scene.waiting
    \/ \E type \in {"ended", "error", "refused", "progress"} : Heard(scene.current, type)

\* As long as a clip is left that is not known to be broken, such a one is on
\* screen, and it moves, or is about to, or something that is set or on its way
\* moves it - unless its metadata never come.  ("A broken one is never handed
\* to again and the other carries the scene alone - losing one clip costs the
\* alternation, not the background", useAlternatingVideo.ts:50.)
CarriesTheScene ==
    ~scene.disposed /\ scene.broken # Clips =>
        /\ scene.current \notin scene.broken
        /\ SomethingMovesIt \/ clip[scene.current].data = "loading"

\* "if playback wedges the timer still fires and hands over to the partner"
\* (useAlternatingVideo.ts:106): also when the wedged clip has no metadata.
NeverFrozen ==
    ~scene.disposed /\ scene.broken # Clips /\ HasMetadata(next) => SomethingMovesIt
=============================================================================
