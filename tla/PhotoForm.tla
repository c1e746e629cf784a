------------------------------ MODULE PhotoForm ------------------------------
(***************************************************************************)
(* The administrator's forms with photographs: a painting, new or edited   *)
(* (CreatePaintingForm), and a news entry (AdminGiveawaysPage).  Pictures  *)
(* are picked and removed, each with a preview URL of its own; saving      *)
(* uploads those that are not stored yet one after the other, then writes  *)
(* the row.  An upload that fails keeps what was uploaded, or starts all   *)
(* over, by the section it is in.                                          *)
(*                                                                         *)
(* The form stays open to changes while it saves, and may be closed: the   *)
(* saving goes on with what the form showed when it began.  A form opened  *)
(* anew is not saved before that of the closed one has ended.              *)
(***************************************************************************)
EXTENDS Integers, FiniteSets, Sequences, Functions

CONSTANTS
    Picks,       \* pictures picked from the disk (bound)
    INTERIOR_MIN,
    INTERIOR_MAX,
    MaxFailures  \* requests that fail (bound)

\* A picture that is picked is none of those stored already.
PhotoAssumption ==
    /\ Picks \cap [section : {"cover", "gallery", "interior", "animation"}, number : Nat] = {}
    /\ INTERIOR_MIN \in Nat

VARIABLES
    form, \* what is on screen: its kind, its photographs, whether it saves
    live, \* the pictures whose preview URL holds its file
    job,  \* the save under way
    row,  \* the row of the database: the stored pictures of each section
    ghost \* history: what was picked, whether ever while saving, what failed

vars == <<form, live, job, row, ghost>>

Kinds == {"create", "edit", "news"}
Sections == {"cover", "gallery", "interior", "animation"}
SectionsOf(kind) == IF kind = "news" THEN {"cover", "gallery"} ELSE Sections

\* Those of one picture, whose button is there while they have none.
Single == {"cover", "animation"}

\* Whose uploads go on after one that failed.
Sorted(kind) == IF kind = "news" THEN {} ELSE {"gallery", "interior"}

Url(p) == [pick |-> p, url |-> TRUE]
File(p) == [pick |-> p, url |-> FALSE]
IsFile(photo) == ~photo.url
Of(photos) == [i \in DOMAIN photos |-> photos[i].pick]
PicksOf(photos) == Range(Of(photos))
Nothing == [s \in Sections |-> << >>]

\* Those of the photographs that are in the set, in their order.
Only(photos, set) ==
    LET only[n \in 0 .. Len(photos)] ==
            IF n = 0 THEN << >>
            ELSE IF photos[n] \in set THEN Append(only[n - 1], photos[n]) ELSE only[n - 1]
    IN only[Len(photos)]

\* Where the files are among the photographs, and which is uploaded first.
Files(photos) ==
    UNION {{[section |-> s, place |-> i] : i \in {j \in DOMAIN photos[s] : IsFile(photos[s][j])}} :
              s \in Sections}

Turn == [cover |-> 1, gallery |-> 2, interior |-> 3, animation |-> 4]

Precedes(a, b) ==
    Turn[a.section] < Turn[b.section] \/ (a.section = b.section /\ a.place < b.place)

Pending(photos) == {photos[f.section][f.place].pick : f \in Files(photos)}

NoJob == [at |-> "none", photos |-> Nothing, todo |-> {}, done |-> {}, failed |-> {},
          mine |-> FALSE, picked |-> [s \in Sections |-> {}], sure |-> TRUE]

\* The form as it opens for the row.
Opened(kind) ==
    [open |-> TRUE, kind |-> kind, saving |-> FALSE,
     photos |-> [s \in Sections |-> IF kind = "create" THEN << >>
                                    ELSE [i \in DOMAIN row[s] |-> Url(row[s][i])]]]

PickedIn(f) == [s \in Sections |-> PicksOf(f.photos[s])]

\* A painting in an interior but with no further photographs, or a news entry.
Painted == [cover |-> 1, gallery |-> 0, interior |-> INTERIOR_MIN, animation |-> 1]
Announced == [cover |-> 1, gallery |-> 1, interior |-> 0, animation |-> 0]

RowWith(many) == [s \in Sections |-> [i \in 1 .. many[s] |-> [section |-> s, number |-> i]]]

Init ==
    /\ \/ row = Nothing /\ form = Opened("create")
       \/ row = RowWith(Painted) /\ form = Opened("edit")
       \/ row = RowWith(Announced) /\ form = Opened("news")
    /\ live = {}
    /\ job = NoJob
    /\ ghost = [picked |-> PickedIn(form), touched |-> FALSE,
                used |-> {}, failures |-> 0]

-----------------------------------------------------------------------------
(* The administrator. *)

Touched(picked) ==
    ghost' = [ghost EXCEPT !.picked = picked, !.touched = @ \/ form.saving]

Select(s, p) ==
    /\ form.open
    /\ s \in SectionsOf(form.kind)
    /\ p \notin ghost.used
    /\ s \in Single => form.photos[s] = << >>
    /\ s = "interior" => Len(form.photos[s]) < INTERIOR_MAX
    /\ form' = [form EXCEPT !.photos[s] = Append(@, File(p))]
    /\ live' = live \cup {p}
    /\ ghost' = [ghost EXCEPT !.picked[s] = @ \cup {p}, !.touched = @ \/ form.saving,
                              !.used = @ \cup {p}]
    /\ UNCHANGED <<job, row>>

RemovePhoto(s, i) ==
    /\ form.open
    /\ i \in DOMAIN form.photos[s]
    /\ form' = [form EXCEPT !.photos[s] = SubSeq(@, 1, i - 1) \o SubSeq(@, i + 1, Len(@))]
    /\ live' = live \ {form.photos[s][i].pick}
    /\ Touched([ghost.picked EXCEPT ![s] = @ \ {form.photos[s][i].pick}])
    /\ UNCHANGED <<job, row>>

\* handleNewsGalleryMove(): by -1 or 1.
Move(i, to) ==
    /\ form.open
    /\ form.kind = "news"
    /\ {i, to} \subseteq DOMAIN form.photos["gallery"]
    /\ to - i \in {-1, 1}
    /\ form' = [form EXCEPT !.photos["gallery"][i] = form.photos["gallery"][to],
                            !.photos["gallery"][to] = form.photos["gallery"][i]]
    /\ Touched(ghost.picked)
    /\ UNCHANGED <<live, job, row>>

\* A click beside the form, or another page: its pending previews go.
Close ==
    /\ form.open
    /\ form' = [form EXCEPT !.open = FALSE, !.saving = FALSE, !.photos = Nothing]
    /\ live' = live \ Pending(form.photos)
    /\ job' = [job EXCEPT !.mine = FALSE]
    /\ UNCHANGED <<row, ghost>>

Open ==
    /\ ~form.open
    /\ form' = Opened(form.kind)
    /\ ghost' = [ghost EXCEPT !.picked = PickedIn(form')]
    /\ UNCHANGED <<live, job, row>>

-----------------------------------------------------------------------------
(* Saving.  Everything after the first await runs with what the form       *)
(* showed at handleSubmit().                                               *)

Complete ==
    \/ form.kind = "news"
    \/ /\ form.photos["cover"] # << >>
       /\ Len(form.photos["interior"]) \notin 1 .. INTERIOR_MIN - 1

handleSubmit ==
    /\ form.open
    /\ ~form.saving
    /\ Complete
    /\ job.at = "none"
    /\ form' = [form EXCEPT !.saving = TRUE]
    /\ job' = [NoJob EXCEPT !.at = "uploading", !.photos = form.photos, !.mine = TRUE,
                            !.todo = Files(form.photos), !.picked = ghost.picked,
                            !.sure = ~ghost.touched]
    /\ UNCHANGED <<live, row, ghost>>

Stored(photos) == Only(photos, {photo \in Range(photos) : photo.url})
Among(photos, picks) == Only(photos, {File(p) : p \in picks})

\* Mutation of SortedOut: the uploaded ones are not kept.
OnlyFailed(s, done, failed) == Stored(form.photos[s]) \o Among(job.photos[s], failed)

\* The pictures of the section that went up, and those that did not.
SortedOut(s, done, failed) ==
    LET up == Among(job.photos[s], done)
    IN Stored(form.photos[s]) \o [i \in DOMAIN up |-> Url(up[i].pick)]
           \o Among(job.photos[s], failed)

\* The save ends; a closed form does not hear of it.
Over(photos) ==
    /\ form' = IF job.mine THEN [form EXCEPT !.saving = FALSE, !.photos = photos] ELSE form
    /\ job' = NoJob

Uploaded(next, ok) ==
    /\ job.at = "uploading"
    /\ \A other \in job.todo \ {next} : Precedes(next, other)
    /\ ok \/ ghost.failures < MaxFailures
    /\ LET s == next.section
           p == job.photos[s][next.place].pick
           todo == job.todo \ {next}
           done == IF ok THEN job.done \cup {p} ELSE job.done
           failed == IF ok THEN job.failed ELSE job.failed \cup {p}
           last == \A f \in todo : f.section # s
       IN IF failed = {} \/ (s \in Sorted(form.kind) /\ ~last)
          THEN /\ job' = [job EXCEPT !.todo = todo, !.done = done, !.failed = failed]
               /\ UNCHANGED form
          ELSE IF s \in Sorted(form.kind)
          THEN Over([form.photos EXCEPT ![s] = SortedOut(s, done, failed)])
          ELSE Over(form.photos)
    /\ live' = IF ok /\ form.kind # "news" THEN live \ {job.photos[next.section][next.place].pick} ELSE live
    /\ ghost' = [ghost EXCEPT !.failures = @ + IF ok THEN 0 ELSE 1]
    /\ UNCHANGED row

\* A field that is undefined is not sent, and the row keeps its value.
Omitted(kind) == CASE kind = "create" -> {} [] kind = "edit" -> {"animation"} [] kind = "news" -> {"cover"}

Kept(s) == job.photos[s] = << >> /\ s \in Omitted(form.kind)

\* The service; a new painting is refused when one has its title.
Written ==
    /\ job.at = "uploading"
    /\ job.todo = {}
    /\ form.kind = "create" => row = Nothing
    /\ row' = [s \in Sections |-> IF Kept(s) THEN row[s] ELSE Of(job.photos[s])]
    /\ job' = [job EXCEPT !.at = "written"]
    /\ UNCHANGED <<form, live, ghost>>

\* Refused, or the answer is lost.
Fails ==
    /\ \/ job.at = "uploading" /\ job.todo = {}
       \/ job.at = "written"
    /\ \/ /\ ghost.failures < MaxFailures
          /\ ghost' = [ghost EXCEPT !.failures = @ + 1]
       \/ /\ form.kind = "create" /\ row # Nothing /\ job.at = "uploading"
          /\ UNCHANGED ghost
    /\ Over(form.photos)
    /\ UNCHANGED <<live, row>>

\* onSaved(): the page closes the form that is open now; the news page empties
\* its form, and frees the previews that it had at handleNewsSubmit().
Saved ==
    /\ job.at = "written"
    /\ job' = NoJob
    /\ IF form.kind # "news"
       THEN /\ form' = [form EXCEPT !.open = FALSE, !.saving = FALSE, !.photos = Nothing]
            /\ live' = live \ Pending(form.photos)
            /\ UNCHANGED ghost
       ELSE IF job.mine
       THEN /\ form' = [form EXCEPT !.saving = FALSE, !.photos = Nothing]
            /\ live' = live \ Pending(job.photos)
            /\ ghost' = [ghost EXCEPT !.picked = PickedIn(form')]
       ELSE UNCHANGED <<form, live, ghost>>
    /\ UNCHANGED row

\* A further entry begins with the emptied form.
Next ==
    \/ \E s \in Sections, p \in Picks : Select(s, p)
    \/ \E s \in Sections : \E i \in DOMAIN form.photos[s] : RemovePhoto(s, i)
    \/ \E i, to \in DOMAIN form.photos["gallery"] : Move(i, to)
    \/ Close \/ Open \/ handleSubmit
    \/ \E next \in job.todo, ok \in BOOLEAN : Uploaded(next, ok)
    \/ Written \/ Fails \/ Saved

Spec == Init /\ [][Next]_vars

-----------------------------------------------------------------------------
(* Properties. *)

\* After a save the row has each picture that was picked and not removed, once
\* and in its section, through any number of uploads that failed and saves that
\* were begun again; unless the form was changed while an earlier save ran, and
\* but for the field that is not sent when it is empty.
\* ("we keep whatever already succeeded", CreatePaintingForm.tsx:295; "All or
\* nothing", AdminGiveawaysPage.tsx:279.)
SavesWhatWasPicked ==
    row' # row /\ job.sure =>
        \A s \in Sections :
            \/ Kept(s)
            \/ /\ Range(row'[s]) = job.picked[s]
               /\ Len(row'[s]) = Cardinality(job.picked[s])

\* "only ever revoked when that entry is explicitly removed or the form
\* unmounts" (CreatePaintingForm.tsx:125): what a form shows has its preview.
PreviewsHold == form.open => Pending(form.photos) \subseteq live

\* A save closes the form that began it and no other.
ClosesItsOwn == (job.at = "written" /\ job'.at = "none" /\ form.open /\ ~form'.open) => job.mine
=============================================================================
