----------------------------- MODULE FaqEditor -----------------------------
(***************************************************************************)
(* The administrator's FAQ: the editor whose rows are dragged, typed into, *)
(* added and deleted (FaqAdminEditor), the requests it sends, and the      *)
(* service that keeps all questions in one column of the settings.         *)
(*                                                                         *)
(* A question is its title and its place.  Every request reads the column, *)
(* changes it and saves it, and is answered with all of it.                *)
(***************************************************************************)
EXTENDS Integers, Sequences, FiniteSets, TLC, Functions

CONSTANTS
    Titles,   \* what a question may say
    Calls,    \* requests of the editor under way at once (bound)
    MaxItems, \* questions ever added (bound)
    MaxCalls  \* requests ever sent (bound)

VARIABLES
    faq,      \* settings.faq
    entries,  \* the answer in the query cache
    order,    \* orderedIds, and as it was last rendered (orderedIdsRef)
    field,    \* what is typed in the row of each question
    dragging, \* draggingId, 0 for null
    call,     \* the requests
    past      \* history: how many there were, whether two overlapped, which went wrong, the
              \* order of the last release

vars == <<faq, entries, order, field, dragging, call, past>>

Ids == 1 .. MaxItems
Idle == [op |-> "none", at |-> "none", id |-> 0, title |-> "", body |-> << >>, row |-> << >>]

Request(op, id, title, body) ==
    [op |-> op, at |-> "sent", id |-> id, title |-> title, body |-> body, row |-> << >>]

\* sortFaqEntries(); a sort that is stable, on keys in the order they came.
Sorted(f) ==
    CHOOSE s \in [1 .. Cardinality(DOMAIN f) -> DOMAIN f] :
        \A k, l \in DOMAIN s : k < l =>
            \/ f[s[k]].order < f[s[l]].order
            \/ f[s[k]].order = f[s[l]].order /\ s[k] < s[l]

Two == [i \in 1 .. 2 |-> [title |-> CHOOSE t \in Titles : TRUE, order |-> i - 1]]

\* The editor was opened, and its query answered.
Init ==
    /\ faq = Two
    /\ entries = faq
    /\ order = [ids |-> Sorted(faq), shown |-> Sorted(faq)]
    /\ field = [i \in DOMAIN faq |-> faq[i].title]
    /\ dragging = 0
    /\ call = [c \in Calls |-> Idle]
    /\ past = [calls |-> 0, added |-> 2, overlapped |-> FALSE, unheard |-> FALSE,
               refused |-> FALSE, released |-> << >>]

\* Renders are batched: what was set is on the screen, and in the ref, later.
Render ==
    /\ order.shown # order.ids
    /\ order' = [order EXCEPT !.shown = order.ids]
    /\ UNCHANGED <<faq, entries, field, dragging, call, past>>

-----------------------------------------------------------------------------
(* What the administrator does. *)

Sends(c, request) ==
    /\ call[c].op = "none"
    /\ past.calls < MaxCalls
    /\ call' = [call EXCEPT ![c] = request]
    /\ past' = [past EXCEPT !.calls = @ + 1,
                            !.overlapped = @ \/ \E d \in Calls : call[d].op # "none",
                            !.released = IF request.op = "reorder" THEN request.body ELSE << >>]

\* The button is disabled while one is being added.
handleAdd(c, title) ==
    /\ past.added < MaxItems
    /\ \A d \in Calls : call[d].op # "create"
    /\ Sends(c, Request("create", 0, title, << >>))
    /\ UNCHANGED <<faq, entries, order, field, dragging>>

Types(i, title) ==
    /\ field[i] # title
    /\ field' = [field EXCEPT ![i] = title]
    /\ UNCHANGED <<faq, entries, order, dragging, call, past>>

\* There is a button to save with while the row is not as the entry is.
handleSaveItem(c, i) ==
    /\ field[i] # entries[i].title
    /\ Sends(c, Request("update", i, field[i], << >>))
    /\ UNCHANGED <<faq, entries, order, field, dragging>>

handleDelete(c, i) ==
    /\ Sends(c, Request("delete", i, "", << >>))
    /\ UNCHANGED <<faq, entries, order, field, dragging>>

handlePointerDown(i) ==
    /\ dragging = 0
    /\ dragging' = i
    /\ UNCHANGED <<faq, entries, order, field, call, past>>

\* moveOver(): out of its place, and into that of the row beneath.
MovedOver(ids, i, over) ==
    LET rest == SelectSeq(ids, LAMBDA j : j # i)
        place == CHOOSE k \in DOMAIN ids : ids[k] = over
    IN  SubSeq(rest, 1, place - 1) \o <<i>> \o SubSeq(rest, place, Len(rest))

handlePointerMove(over) ==
    /\ dragging # 0
    /\ dragging \in Range(order.ids) /\ over \in Range(order.ids)
    /\ dragging # over
    /\ order' = [order EXCEPT !.ids = MovedOver(@, dragging, over)]
    /\ UNCHANGED <<faq, entries, field, dragging, call, past>>

\* The places by id: an object, where the service takes a list.
commitOrder(c, ids) == Sends(c, Request("reorder", 0, "", ids))
Shape == "object"

handlePointerUp(c) ==
    /\ dragging # 0
    /\ dragging \in Range(order.shown)
    /\ dragging' = 0
    /\ commitOrder(c, order.shown)
    /\ UNCHANGED <<faq, entries, order, field>>

handleHandleKeyDown(c, i, over) ==
    /\ i \in Range(order.shown) /\ over \in Range(order.shown)
    /\ \E k \in DOMAIN order.shown :
           \/ order.shown[k] = i /\ k + 1 \in DOMAIN order.shown /\ order.shown[k + 1] = over
           \/ order.shown[k] = over /\ k + 1 \in DOMAIN order.shown /\ order.shown[k + 1] = i
    /\ order' = [ids |-> MovedOver(order.shown, i, over), shown |-> order.shown]
    /\ commitOrder(c, MovedOver(order.shown, i, over))
    /\ UNCHANGED <<faq, entries, field, dragging>>

-----------------------------------------------------------------------------
(* The service. *)

\* ReorderFaqDto: every element of the list is an id and a place.  The pipe
\* takes an object for one such element, which has neither.
ReorderFaqDto == Shape = "list"

Accepts(c, row) ==
    CASE call[c].op = "reorder" -> ReorderFaqDto
      [] call[c].op = "create" -> TRUE
      [] OTHER -> call[c].id \in DOMAIN row

Read(c) ==
    /\ call[c].at = "sent"
    /\ Accepts(c, faq)
    /\ call' = [call EXCEPT ![c].at = "read", ![c].row = faq]
    /\ UNCHANGED <<faq, entries, order, field, dragging, past>>

createFaqItem(row, title) ==
    LET last == CHOOSE n \in -1 .. MaxItems :
                    /\ \A i \in DOMAIN row : row[i].order <= n
                    /\ n = -1 \/ \E i \in DOMAIN row : row[i].order = n
    IN  row @@ (past.added + 1 :> [title |-> title, order |-> last + 1])

updateFaqItem(row, i, title) == [row EXCEPT ![i].title = title]

deleteFaqItem(row, i) == [j \in DOMAIN row \ {i} |-> row[j]]

reorderFaq(row, ids) ==
    [i \in DOMAIN row |->
        IF i \in Range(ids) THEN [row[i] EXCEPT !.order = (CHOOSE k \in DOMAIN ids : ids[k] = i) - 1]
        ELSE row[i]]

Changed(c) ==
    CASE call[c].op = "create" -> createFaqItem(call[c].row, call[c].title)
      [] call[c].op = "update" -> updateFaqItem(call[c].row, call[c].id, call[c].title)
      [] call[c].op = "delete" -> deleteFaqItem(call[c].row, call[c].id)
      [] call[c].op = "reorder" -> reorderFaq(call[c].row, call[c].body)

Save(c) ==
    /\ call[c].at = "read"
    /\ faq' = Changed(c)
    /\ call' = [call EXCEPT ![c].at = "saved", ![c].row = Changed(c)]
    /\ past' = [past EXCEPT !.added = IF call[c].op = "create" THEN @ + 1 ELSE @]
    /\ UNCHANGED <<entries, order, field, dragging>>

-----------------------------------------------------------------------------
(* The answers. *)

\* Were the rows laid out once, when the editor opens.
ShowsAtFirst(f) ==
    /\ entries' = f
    /\ field' = [i \in DOMAIN f |-> IF i \in DOMAIN field THEN field[i] ELSE f[i].title]
    /\ UNCHANGED order

\* Rows of the same questions stay mounted, with what is typed in them.
Shows(f) ==
    /\ entries' = f
    /\ order' = [order EXCEPT !.ids = Sorted(f)]
    /\ field' = [i \in DOMAIN f |-> IF i \in DOMAIN field THEN field[i] ELSE f[i].title]

\* onSuccess: all of it, into the cache.
onSuccess(c) ==
    /\ call[c].at = "saved"
    /\ Shows(call[c].row)
    /\ call' = [call EXCEPT ![c] = Idle]
    /\ dragging' = IF dragging \in DOMAIN call[c].row THEN dragging ELSE 0
    /\ UNCHANGED <<faq, past>>

\* onError: a toast.
onError(c) ==
    /\ call[c].op # "none"
    /\ \/ call[c].at = "sent" /\ ~Accepts(c, faq)
       \/ call[c].at = "saved"
    /\ call' = [call EXCEPT ![c] = Idle]
    /\ past' = [past EXCEPT !.unheard = @ \/ call[c].at = "saved",
                            !.refused = @ \/ call[c].op = "reorder"]
    /\ UNCHANGED <<faq, entries, order, field, dragging>>

Next ==
    \/ Render
    \/ \E i \in DOMAIN entries :
        \/ handlePointerDown(i) \/ handlePointerMove(i)
        \/ \E title \in Titles : Types(i, title)
    \/ \E c \in Calls :
        \/ \E title \in Titles : handleAdd(c, title)
        \/ \E i \in DOMAIN entries :
            \/ handleSaveItem(c, i) \/ handleDelete(c, i)
            \/ \E j \in DOMAIN entries : handleHandleKeyDown(c, i, j)
        \/ handlePointerUp(c)
        \/ Read(c) \/ Save(c)
        \/ onSuccess(c) \/ onError(c)

Spec == Init /\ [][Next]_vars

-----------------------------------------------------------------------------

AtRest ==
    /\ \A c \in Calls : call[c].op = "none"
    /\ dragging = 0
    /\ order.shown = order.ids

\* Once everything was answered, the editor shows the questions there are, as
\* they are, in the order the shop shows them in: also when an answer came in
\* the middle of a drag or of typing.  An answer that was lost and requests
\* that overlapped are other matters; after an order that was refused the rows
\* stay as they were dragged.
AgreesAtRest ==
    AtRest /\ ~past.overlapped /\ ~past.unheard =>
        /\ entries = faq
        /\ ~past.refused => order.shown = Sorted(faq)

\* The rows can be reordered, by pointer and by key (FaqAdminEditor.tsx:189,
\* 248).  Not so: the editor sends an object where the service wants a list.
ReorderTakesEffect ==
    AtRest /\ ~past.overlapped /\ past.released # << >> /\ DOMAIN faq = Range(past.released) =>
        Sorted(faq) = past.released

\* A request saves what it read, changed by what it was asked.  Not so for two
\* at once: each saves the whole column (settings.service.ts:247).
SavesOverNothing ==
    [][\A c \in Calls : call[c].at = "read" /\ call'[c].at = "saved" => call[c].row = faq]_vars

\* Letting go sends the order the rows were dragged into.  Not so when the
\* last move was not rendered yet: it is sent as it was rendered
\* (FaqAdminEditor.tsx:245).
LandsWhereReleased ==
    [][\A c \in Calls :
        call[c].op = "none" /\ call'[c].op = "reorder" => call'[c].body = order'.ids]_vars
=============================================================================
