----------------------------- MODULE Catalogue -----------------------------
(***************************************************************************)
(* What admins edit: paintings, series, materials, techniques, news,       *)
(* giveaways and reviews.  Each table has a service of its own; they       *)
(* differ in whether a name is looked up first, in whether an update saves *)
(* the row it read or patches columns, and in what a removal runs into.    *)
(*                                                                         *)
(* A request is a process; one action is one statement, and nothing but    *)
(* the statement is atomic.  save() of a row that was read writes all its  *)
(* columns, and inserts the row again if it has been removed meanwhile.    *)
(***************************************************************************)
EXTENDS Integers, FiniteSets

CONSTANTS
    MaxId,     \* how many rows a table is ever given (bound)
    Names,     \* what is unique in a table; the order, for a review
    Texts,     \* what the other columns say
    Requests,  \* requests that can be in progress at once (bound)
    None       \* no name, no text, no series

VARIABLES
    row,      \* the rows of each table, Absent where there is none
    issued,   \* the last id that each table gave out
    used,     \* rows that an order or a painting refers to
    request,  \* each request in progress
    raced     \* history: rows that two changes were at together

vars == <<row, issued, used, request, raced>>

CatalogueAssumption ==
    /\ MaxId \in Nat
    /\ None \notin Nat \cup Names \cup Texts

-----------------------------------------------------------------------------
(* The services. *)

\* Whether names are unique, and which operations look a name up before they
\* leave that to the key; whether update() saves the whole row it read or
\* patches columns; whether rows of other tables may hold on to a row.
Service(unique, looksUp, saves, restricted) ==
    [unique |-> unique, looksUp |-> looksUp, saves |-> saves, restricted |-> restricted]

PaintingsService == Service(TRUE, {"create", "update"}, TRUE, TRUE)
SeriesService == Service(TRUE, {"create", "update"}, TRUE, FALSE)
MaterialsService == Service(TRUE, {"create"}, TRUE, TRUE)
TechniquesService == Service(TRUE, {"create"}, TRUE, TRUE)
ReviewsService == Service(TRUE, {"create"}, TRUE, FALSE)
GiveawaysService == Service(FALSE, {}, FALSE, FALSE)

\* Mutation of NewsService: the entry that was read is changed and saved.
SavedNews == Service(FALSE, {}, TRUE, FALSE)

NewsService == Service(FALSE, {}, FALSE, FALSE)

ServiceOf ==
    [painting |-> PaintingsService, series |-> SeriesService,
     material |-> MaterialsService, technique |-> TechniquesService,
     review |-> ReviewsService, news |-> NewsService, giveaway |-> GiveawaysService]

Tables == DOMAIN ServiceOf

-----------------------------------------------------------------------------
(* Rows and requests. *)

Ids == 1 .. MaxId
Columns == {"name", "text", "series"}
Row == [name : Names, text : Texts, series : Ids \cup {None}]
Absent == [name |-> None, text |-> None, series |-> None]

Exists(t, i) == row[t][i] # Absent
IdsOf(t) == {i \in Ids : Exists(t, i)}
Works(s) == {i \in IdsOf("painting") : row["painting"][i].series = s}

\*  sends    the columns the request carries
\*  entity   the row as it will be saved
\*  works    the paintings a series is given
\*  alone    no other change of the same rows while it ran
\*  done     the last call was answered with success
Request ==
    [op : {"none", "create", "update", "remove", "setPaintings"}, table : Tables,
     at : {"idle", "lookUp", "release", "write"},
     id : Ids \cup {0}, sends : SUBSET Columns, entity : Row \cup {Absent},
     works : SUBSET Ids, alone : BOOLEAN,
     done : BOOLEAN]

Idle ==
    [op |-> "none", table |-> "painting", at |-> "idle", id |-> 0, sends |-> {},
     entity |-> Absent, works |-> {}, alone |-> TRUE, done |-> FALSE]

NoRows == [t \in Tables |-> [i \in Ids |-> Absent]]

\* `rows`: what there is already, under the first ids.
Init(rows) ==
    /\ row = rows
    /\ issued = [t \in Tables |->
          CHOOSE n \in 0 .. MaxId : \A i \in Ids : rows[t][i] # Absent <=> i <= n]
    /\ used = {}
    /\ request = [r \in Requests |-> Idle]
    /\ raced = {}

Running(r) == request[r].at # "idle"

\* The rows that a request may change: a series changes the works in it.
Changes(q) ==
    CASE q.op = "setPaintings" \/ (q.op = "remove" /\ q.table = "series") ->
            {<<"series", q.id>>} \cup {<<"painting", i>> : i \in Ids}
      [] q.op = "create" /\ q.entity.series # None -> {<<"series", q.entity.series>>}
      [] q.op = "update" \/ (q.op = "remove" /\ q.table # "series") -> {<<q.table, q.id>>}
      [] OTHER -> {}

Together(q) ==
    {other \in Requests : Running(other) /\ Changes(request[other]) \cap Changes(q) # {}}

Begin(r, q) ==
    /\ request[r].at = "idle"
    /\ request' = [other \in Requests |->
          IF other = r THEN [q EXCEPT !.alone = Together(q) = {}]
          ELSE IF other \in Together(q) THEN [request[other] EXCEPT !.alone = FALSE]
          ELSE request[other]]
    /\ raced' = raced \cup UNION {Changes(q) \cap Changes(request[other]) : other \in Together(q)}

Go(r, at) == request' = [request EXCEPT ![r].at = at]
Answer(r, done) == request' = [request EXCEPT ![r] = [Idle EXCEPT !.done = done]]

\* A request that is answered before it has changed anything.
Refuse(r) ==
    /\ request[r].at = "idle"
    /\ Answer(r, FALSE)
    /\ UNCHANGED raced

NameTaken(t, name, but) == \E i \in IdsOf(t) \ {but} : row[t][i].name = name

\* The unique key of the table; the foreign key of a painting's series.
Clashes(t, i, e) == ServiceOf[t].unique /\ NameTaken(t, e.name, i)
Dangles(e) == e.series # None /\ ~Exists("series", e.series)

\* The row is written if the keys of its table let it.
Write(r, i, e) ==
    LET t == request[r].table
    IN IF Clashes(t, i, e) \/ Dangles(e)
       THEN UNCHANGED row /\ Answer(r, FALSE)
       ELSE row' = [row EXCEPT ![t][i] = e] /\ Answer(r, TRUE)

-----------------------------------------------------------------------------
(* create() *)

create(r, t, e) ==
    LET q == [Idle EXCEPT !.op = "create", !.at = "write", !.table = t, !.entity = e]
    IN /\ issued[t] < MaxId
       /\ t # "painting" => e.series = None
       /\ IF "create" \in ServiceOf[t].looksUp /\ NameTaken(t, e.name, 0)
          THEN Refuse(r) ELSE Begin(r, q)
       /\ UNCHANGED <<row, issued, used>>

insert(r) ==
    LET t == request[r].table
    IN /\ request[r].op = "create"
       /\ request[r].at = "write"
       /\ issued[t] < MaxId
       /\ issued' = [issued EXCEPT ![t] = @ + 1]
       /\ Write(r, issued[t] + 1, request[r].entity)
       /\ UNCHANGED <<used, raced>>

-----------------------------------------------------------------------------
(* update() *)

\* The row is read and what was sent is put over it.
update(r, t, i, sends, e) ==
    LET q == [Idle EXCEPT !.op = "update", !.table = t, !.id = i, !.sends = sends,
                !.entity = [c \in Columns |-> IF c \in sends THEN e[c] ELSE row[t][i][c]]]
        renames == "name" \in sends /\ e.name # row[t][i].name
    IN /\ sends # {}
       /\ t = "review" => "name" \notin sends
       /\ t # "painting" => "series" \notin sends
       /\ i <= issued[t]
       /\ IF ~Exists(t, i) THEN Refuse(r)
          ELSE Begin(r, [q EXCEPT !.at =
                  IF renames /\ "update" \in ServiceOf[t].looksUp THEN "lookUp" ELSE "write"])
       /\ UNCHANGED <<row, issued, used>>

lookUp(r) ==
    LET q == request[r]
    IN /\ q.at = "lookUp"
       /\ IF NameTaken(q.table, q.entity.name, 0) THEN Answer(r, FALSE) ELSE Go(r, "write")
       /\ UNCHANGED <<row, issued, used, raced>>

\* save(): every column as the request has it, in a row that may be gone.
save(r) ==
    LET q == request[r]
    IN /\ q.op = "update"
       /\ q.at = "write"
       /\ ServiceOf[q.table].saves
       /\ Write(r, q.id, q.entity)
       /\ UNCHANGED <<issued, used, raced>>

\* update(id, patch): only what was sent, and only in a row that is there.
patch(r) ==
    LET q == request[r]
        old == row[q.table][q.id]
    IN /\ q.op = "update"
       /\ q.at = "write"
       /\ ~ServiceOf[q.table].saves
       /\ IF old = Absent THEN UNCHANGED row /\ Answer(r, FALSE)
          ELSE Write(r, q.id, [c \in Columns |-> IF c \in q.sends THEN q.entity[c] ELSE old[c]])
       /\ UNCHANGED <<issued, used, raced>>

-----------------------------------------------------------------------------
(* remove() *)

remove(r, t, i) ==
    LET q == [Idle EXCEPT !.op = "remove", !.table = t, !.id = i]
    IN /\ i <= issued[t]
       /\ IF ~Exists(t, i) THEN Refuse(r)
          ELSE Begin(r, [q EXCEPT !.at = IF t = "series" THEN "release" ELSE "write"])
       /\ UNCHANGED <<row, issued, used>>

\* The paintings of a series lose it, those assigned since release() included.
WithoutSeries(s) ==
    [i \in Ids |-> IF i \in Works(s) THEN [row["painting"][i] EXCEPT !.series = None]
                                     ELSE row["painting"][i]]

delete(r) ==
    LET q == request[r]
        t == q.table
    IN /\ q.op = "remove"
       /\ q.at = "write"
       /\ IF <<t, q.id>> \in used THEN UNCHANGED row /\ Answer(r, FALSE)
          ELSE /\ row' = IF t = "series"
                         THEN [row EXCEPT !["series"][q.id] = Absent,
                                          !["painting"] = WithoutSeries(q.id)]
                         ELSE [row EXCEPT ![t][q.id] = Absent]
               /\ Answer(r, TRUE)
       /\ UNCHANGED <<issued, used, raced>>

\* A customer orders a painting, or a painting gets a material; and the other
\* way round.
Use(t, i) ==
    /\ ServiceOf[t].restricted
    /\ Exists(t, i)
    /\ used' = (used \ {<<t, i>>}) \cup ({<<t, i>>} \ used)
    /\ UNCHANGED <<row, issued, request, raced>>

-----------------------------------------------------------------------------
(* SeriesService.setPaintings: two statements. *)

setPaintings(r, s, works) ==
    LET q == [Idle EXCEPT !.op = "setPaintings", !.at = "release", !.table = "series",
                !.id = s, !.works = works]
    IN /\ s <= issued["series"]
       /\ IF Exists("series", s) THEN Begin(r, q) ELSE Refuse(r)
       /\ UNCHANGED <<row, issued, used>>

release(r) ==
    /\ request[r].at = "release"
    /\ row' = [row EXCEPT !["painting"] = WithoutSeries(request[r].id)]
    /\ Go(r, "write")
    /\ UNCHANGED <<issued, used, raced>>

\* Ids of paintings that do not exist are not moved.
assign(r) ==
    LET q == request[r]
        moved == q.works \cap IdsOf("painting")
        there == Exists("series", q.id)
    IN /\ q.op = "setPaintings"
       /\ q.at = "write"
       /\ row' = IF there
                 THEN [row EXCEPT !["painting"] =
                        [i \in Ids |-> IF i \in moved THEN [@[i] EXCEPT !.series = q.id] ELSE @[i]]]
                 ELSE row
       /\ Answer(r, there)
       /\ UNCHANGED <<issued, used, raced>>

-----------------------------------------------------------------------------

\* The process ends between two statements of whatever is in progress.
Crash ==
    /\ \E r \in Requests : Running(r)
    /\ request' = [r \in Requests |-> Idle]
    /\ UNCHANGED <<row, issued, used, raced>>

Step(r) ==
    \/ insert(r)
    \/ lookUp(r)
    \/ save(r)
    \/ patch(r)
    \/ delete(r)
    \/ release(r)
    \/ assign(r)

\* What is asked about one row.
Ask(r, t, i) ==
    \/ \E sends \in SUBSET Columns, e \in Row : update(r, t, i, sends, e)
    \/ remove(r, t, i)

Next ==
    \/ \E r \in Requests :
        \/ \E t \in Tables, e \in Row : create(r, t, e)
        \/ \E t \in Tables, i \in Ids : Ask(r, t, i)
        \/ \E s \in Ids, works \in SUBSET Ids : setPaintings(r, s, works)
        \/ Step(r)
    \/ \E t \in Tables, i \in Ids : Use(t, i)
    \/ Crash

Spec == Init(NoRows) /\ [][Next]_vars

-----------------------------------------------------------------------------
(* Properties. *)

\* The types, and no row under an id that was not given out.
TypeOK ==
    /\ row \in [Tables -> [Ids -> Row \cup {Absent}]]
    /\ issued \in [Tables -> 0 .. MaxId]
    /\ used \subseteq Tables \X Ids
    /\ request \in [Requests -> Request]
    /\ raced \subseteq Tables \X Ids
    /\ \A t \in Tables : \A i \in IdsOf(t) : i <= issued[t]

\* A request that carries the column, or moves paintings between series.
MayChange(r, t, i, c) ==
    LET q == request[r]
    IN /\ Running(r)
       /\ \/ q.op = "update" /\ q.table = t /\ q.id = i /\ c \in q.sends
          \/ t = "painting" /\ c = "series" /\ q.table = "series" /\ q.op # "update"

\* What one admin has saved stays until somebody sends that column again, and
\* what was removed stays removed: always for news and giveaways, which are
\* patched (news.service.ts:39-57, giveaways.service.ts:97-116), and for the
\* tables that save the row they read as long as no two changes of one row
\* were under way together.
KeepsEdits ==
    \A t \in Tables, i \in Ids :
        /\ row'[t][i] # row[t][i]
        /\ t \in {"news", "giveaway"} \/ <<t, i>> \notin raced
        =>
            /\ ~Exists(t, i) /\ i <= issued[t] => row'[t][i] = Absent
            /\ \A c \in Columns :
                row[t][i] # Absent /\ row'[t][i] # Absent /\ row'[t][i][c] # row[t][i][c] =>
                    \E r \in Requests : MayChange(r, t, i, c)

\* "These and only these": an admin who gives a series its works, with nobody
\* else at them, is answered when exactly those are in it, whatever earlier
\* calls broke off half-way.  (SeriesService.setPaintings,
\* series.service.ts:243-257.)
LeavesThese ==
    \A r \in Requests, s \in Ids :
        /\ Running(r) /\ request'[r].at = "idle" /\ request'[r].done
        /\ request[r].op = "setPaintings" /\ request[r].alone /\ request[r].id = s
        => Works(s)' = request[r].works \cap IdsOf("painting")

LeavesEdits == KeepsEdits /\ LeavesThese

EditsStay == [][LeavesEdits]_vars

-----------------------------------------------------------------------------
(* The inductive invariant. *)

\* What a request is about goes with the step it is at.
Shaped(q) ==
    /\ q.at = "idle" <=> q.op = "none"
    /\ q.op = "create" => q.at = "write" /\ q.entity \in Row
    /\ q.op = "update" => q.at \in {"lookUp", "write"} /\ q.id # 0 /\ q.entity \in Row
    /\ q.op = "remove" =>
        /\ q.id # 0
        /\ q.at = "write" \/ (q.at = "release" /\ q.table = "series")
    /\ q.op = "setPaintings" =>
        q.at \in {"release", "write"} /\ q.id # 0 /\ q.table = "series"

\* The copy of an update is the row, but for what was sent.
Current(q) ==
    q.op = "update" =>
        /\ q.id <= issued[q.table]
        /\ <<q.table, q.id>> \notin raced =>
            /\ Exists(q.table, q.id)
            /\ \A c \in Columns \ q.sends : q.entity[c] = row[q.table][q.id][c]

\* The series that is given its works has none for the moment.
Released(q) ==
    q.op = "setPaintings" /\ q.at = "write" /\ q.alone => Works(q.id) = {}

\* Two requests are at one row only if that is known of the row and of both.
Apart ==
    \A r, s \in Requests :
        r # s =>
            LET both == Changes(request[r]) \cap Changes(request[s])
            IN both \subseteq raced /\ (request[r].alone => both = {})

EditsInv ==
    /\ TypeOK
    /\ \A r \in Requests :
        Shaped(request[r]) /\ Current(request[r]) /\ Released(request[r])
    /\ Apart
=============================================================================
