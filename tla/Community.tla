----------------------------- MODULE Community -----------------------------
(***************************************************************************)
(* Likes, giveaways and the removal of accounts: LikesService.toggleLike,  *)
(* GiveawaysService.join and UsersService.remove, which write the same     *)
(* rows, with the removals of paintings and giveaways that cascade to them.*)
(*                                                                         *)
(* Every request is a process; one action is one statement of it.  A       *)
(* statement waits for the row locks it needs, its transaction keeps them, *)
(* and what the transaction changes is applied when it commits.  Reads     *)
(* take no lock and see what is committed.  MySQL rolls one transaction of *)
(* a deadlock back.                                                        *)
(***************************************************************************)
EXTENDS Integers, FiniteSets

CONSTANTS
    Users,
    Paintings,
    Giveaways,
    Requests,   \* requests that can be in progress at once (bound)
    None,       \* no user, no painting, no giveaway
    MaxToggles  \* how many toggles are ever begun (bound)

VARIABLES
    accounts,   \* the rows of users
    paintings,  \* the rows of paintings
    giveaways,  \* the rows of giveaways
    open,       \* the giveaways whose deadline is still to come
    like,       \* the likes table: the id of the row of a user and a painting, 0 for none
    likesCount, \* paintings.likes_count
    entries,    \* giveaway_participants: pairs of a user and a giveaway
    request,    \* each request in progress
    toggles,    \* history: how many toggles were begun; gives the rows their ids
    raced       \* history: paintings that two requests of one user were at together

tables == <<accounts, paintings, giveaways, open, like, likesCount, entries>>
vars == <<tables, request, toggles, raced>>

ASSUME CommunityAssumption ==
    /\ IsFiniteSet(Users)
    /\ MaxToggles \in Nat
    /\ None \notin Users \cup Paintings \cup Giveaways

-----------------------------------------------------------------------------
(* Requests.                                                               *)
(*   id     the id that a like it writes is given                          *)
(*   found  the ids of the likes that the first read of its transaction saw*)
(*   todo   the paintings still to count down                              *)
(*   locks  the rows its transaction has locked, exclusively or shared     *)

Rows ==
    {<<"user", u>> : u \in Users} \cup {<<"painting", p>> : p \in Paintings} \cup
    {<<"giveaway", g>> : g \in Giveaways} \cup
    {<<"like", u, p>> : u \in Users, p \in Paintings} \cup
    {<<"entry", u, g>> : u \in Users, g \in Giveaways}

Locks == {"shared", "exclusive"} \X Rows

Stages ==
    {"idle", "look", "delete", "insert", "count", "countDown", "deleteRows",
     "deleteUser", "commit", "join", "again", "answered"}

Answers == {"none", "joined", "already", "closed", "error"}

Request ==
    [op : {"none", "toggle", "join", "remove"}, at : Stages,
     user : Users \cup {None}, target : Paintings \cup Giveaways \cup {None},
     id : 0 .. MaxToggles, found : [Paintings -> Nat], todo : SUBSET Paintings, locks : SUBSET Locks,
     answer : Answers]

NoLikes == [p \in Paintings |-> 0]

Idle ==
    [op |-> "none", at |-> "idle", user |-> None, target |-> None,
     id |-> 0, found |-> NoLikes, todo |-> {}, locks |-> {}, answer |-> "none"]

Init ==
    /\ accounts \in SUBSET Users
    /\ paintings \in SUBSET Paintings
    /\ giveaways \in SUBSET Giveaways
    /\ open = giveaways
    /\ like = [u \in Users |-> NoLikes]
    /\ likesCount = [p \in Paintings |-> 0]
    /\ entries = {}
    /\ request = [r \in Requests |-> Idle]
    /\ toggles = 0
    /\ raced = {}

Running(r) == request[r].at \notin {"idle", "answered"}

\* The counters a request may write.
Touches(q) ==
    IF q.op = "toggle" THEN {q.target} ELSE IF q.op = "remove" THEN Paintings ELSE {}

Begin(r, q) ==
    /\ request[r].at = "idle"
    /\ request' = [request EXCEPT ![r] = q]
    /\ raced' = raced \cup
          {p \in Touches(q) : \E other \in Requests \ {r} :
              Running(other) /\ request[other].user = q.user /\ p \in Touches(request[other])}

\* The end of a transaction, with or without its changes.
Finish(r) == request' = [request EXCEPT ![r] = Idle]

\* What somebody who wants to take part is told.
Answer(r, answer) == request' = [request EXCEPT ![r].at = "answered", ![r].answer = answer]

Forget(r) ==
    /\ request[r].at = "answered"
    /\ Finish(r)
    /\ UNCHANGED <<tables, toggles, raced>>

-----------------------------------------------------------------------------
(* Row locks *)

Exclusive(rows) == {"exclusive"} \X rows
Shared(rows) == {"shared"} \X rows

Conflict(a, b) == a[2] = b[2] /\ "exclusive" \in {a[1], b[1]}

\* What the next statement of a request locks.  An insert locks its own row
\* and, for the foreign keys, shares the rows it refers to.
Needs(q) ==
    CASE q.at = "delete" -> Exclusive({<<"like", q.user, q.target>>})
      [] q.at = "insert" ->
            Exclusive({<<"like", q.user, q.target>>}) \cup
            Shared({<<"user", q.user>>, <<"painting", q.target>>})
      [] q.at = "count" -> Exclusive({<<"painting", q.target>>})
      [] q.at = "deleteRows" ->
            Exclusive({<<"like", q.user, p>> : p \in Paintings} \cup
                      {<<"entry", q.user, g>> : g \in Giveaways})
      [] q.at = "deleteUser" -> Exclusive({<<"user", q.user>>})
      [] q.at = "join" ->
            Exclusive({<<"entry", q.user, q.target>>}) \cup
            Shared({<<"user", q.user>>, <<"giveaway", q.target>>})
      [] OTHER -> {}

Blocked(locks, other) == \E a \in locks, b \in request[other].locks : Conflict(a, b)

CanLock(r, locks) == \A other \in Requests \ {r} : ~Blocked(locks, other)

\* The locks of a statement, whichever painting is counted down next.
WaitsFor(r, other) ==
    /\ other # r
    /\ IF request[r].at = "countDown"
       THEN \E p \in request[r].todo : Blocked(Exclusive({<<"painting", p>>}), other)
       ELSE Blocked(Needs(request[r]), other)

\* A set of requests each of which waits for another one of them.
Deadlocked(rs) == rs # {} /\ \A r \in rs : \E other \in rs : WaitsFor(r, other)

Take(r, locks, at) ==
    /\ CanLock(r, locks)
    /\ request' = [request EXCEPT ![r].at = at, ![r].locks = @ \cup locks]

-----------------------------------------------------------------------------
(* LikesService.toggleLike *)

toggleLike(r, u, p) ==
    /\ toggles < MaxToggles
    /\ u \in accounts
    /\ p \in paintings
    /\ Begin(r, [Idle EXCEPT !.op = "toggle", !.at = "look", !.user = u, !.target = p,
                       !.id = toggles + 1])
    /\ toggles' = toggles + 1
    /\ UNCHANGED tables

findLike(r) ==
    LET q == request[r]
    IN /\ q.op = "toggle"
       /\ q.at = "look"
       /\ request' = [request EXCEPT
              ![r].found = [NoLikes EXCEPT ![q.target] = like[q.user][q.target]],
              ![r].at = IF like[q.user][q.target] # 0 THEN "delete" ELSE "insert"]
       /\ UNCHANGED <<tables, toggles, raced>>

deleteLike(r) ==
    /\ request[r].at = "delete"
    /\ Take(r, Needs(request[r]), "count")
    /\ UNCHANGED <<tables, toggles, raced>>

\* The unique key and the foreign keys refuse the row, or it is written.
insertLike(r) ==
    LET q == request[r]
        fits == q.user \in accounts /\ q.target \in paintings /\ like[q.user][q.target] = 0
    IN /\ q.at = "insert"
       /\ CanLock(r, Needs(q))
       /\ IF fits THEN Take(r, Needs(q), "count") ELSE Finish(r)
       /\ UNCHANGED <<tables, toggles, raced>>

count(r) ==
    /\ request[r].at = "count"
    /\ Take(r, Needs(request[r]), "commit")
    /\ UNCHANGED <<tables, toggles, raced>>

Counted(p, by) ==
    IF p \in paintings THEN [likesCount EXCEPT ![p] = @ + by] ELSE likesCount

\* The like is deleted by its id, the counter goes down whether it was there
\* or not; or the new row and its count are written.
commitToggle(r) ==
    LET q == request[r]
        row == like[q.user][q.target]
        was == q.found[q.target]
    IN /\ q.op = "toggle"
       /\ q.at = "commit"
       /\ IF was # 0
          THEN /\ like' = IF row = was THEN [like EXCEPT ![q.user][q.target] = 0] ELSE like
               /\ likesCount' = Counted(q.target, -1)
          ELSE /\ like' = [like EXCEPT ![q.user][q.target] = q.id]
               /\ likesCount' = Counted(q.target, 1)
       /\ Finish(r)
       /\ UNCHANGED <<accounts, paintings, giveaways, open, entries, toggles, raced>>

-----------------------------------------------------------------------------
(* GiveawaysService *)

\* The deadline and the entry are looked at; then the insert.
join(r, u, g) ==
    /\ u \in accounts
    /\ g \in giveaways
    /\ LET q == [Idle EXCEPT !.op = "join", !.user = u, !.target = g]
       IN Begin(r, IF g \notin open THEN [q EXCEPT !.at = "answered", !.answer = "closed"]
                   ELSE IF <<u, g>> \in entries
                   THEN [q EXCEPT !.at = "answered", !.answer = "already"]
                   ELSE [q EXCEPT !.at = "join"])
    /\ UNCHANGED <<tables, toggles>>

insertEntry(r) ==
    LET q == request[r]
        entry == <<q.user, q.target>>
    IN /\ q.at = "join"
       /\ CanLock(r, Needs(q))
       /\ IF q.user \in accounts /\ q.target \in giveaways /\ entry \notin entries
          THEN entries' = entries \cup {entry} /\ Answer(r, "joined")
          ELSE UNCHANGED entries /\ request' = [request EXCEPT ![r].at = "again"]
       /\ UNCHANGED <<accounts, paintings, giveaways, open, like, likesCount, toggles, raced>>

\* Mutation of findEntry: the loser of the unique key is told of its error.
TellError(r) ==
    /\ request[r].at = "again"
    /\ Answer(r, "error")
    /\ UNCHANGED <<tables, toggles, raced>>

\* Mutation of findEntry: the loser of the unique key inserts once more.
TryAgain(r) ==
    /\ request[r].at = "again"
    /\ request' = [request EXCEPT ![r].at = "join"]
    /\ UNCHANGED <<tables, toggles, raced>>

findEntry(r) ==
    LET q == request[r]
    IN /\ q.at = "again"
       /\ Answer(r, IF <<q.user, q.target>> \in entries THEN "already" ELSE "error")
       /\ UNCHANGED <<tables, toggles, raced>>

\* Time passes, or an admin moves the deadline.
setDeadline(g) ==
    /\ g \in giveaways
    /\ open' = (open \ {g}) \cup ({g} \ open)
    /\ UNCHANGED <<accounts, paintings, giveaways, like, likesCount, entries, request,
                   toggles, raced>>

\* The entries go with their giveaway.
removeGiveaway(g) ==
    /\ g \in giveaways
    /\ CanLock(None, Exclusive({<<"giveaway", g>>} \cup {<<"entry", u, g>> : u \in Users}))
    /\ giveaways' = giveaways \ {g}
    /\ open' = open \ {g}
    /\ entries' = {e \in entries : e[2] # g}
    /\ UNCHANGED <<accounts, paintings, like, likesCount, request, toggles, raced>>

-----------------------------------------------------------------------------
(* PaintingsService.remove: the likes go with their painting. *)

removePainting(p) ==
    /\ p \in paintings
    /\ CanLock(None, Exclusive({<<"painting", p>>} \cup {<<"like", u, p>> : u \in Users}))
    /\ paintings' = paintings \ {p}
    /\ like' = [u \in Users |-> [like[u] EXCEPT ![p] = 0]]
    /\ likesCount' = [likesCount EXCEPT ![p] = 0]
    /\ UNCHANGED <<accounts, giveaways, open, entries, request, toggles, raced>>

-----------------------------------------------------------------------------
(* UsersService.remove *)

remove(r, u, requester) ==
    /\ requester \in accounts \ {u}
    /\ u \in accounts
    /\ Begin(r, [Idle EXCEPT !.op = "remove", !.at = "look", !.user = u])
    /\ UNCHANGED <<tables, toggles>>

\* Mutation of findLikes: the rows go, and nobody looks what they counted for.
SkipLikes(r) ==
    /\ request[r].op = "remove"
    /\ request[r].at = "look"
    /\ request' = [request EXCEPT ![r].at = "deleteRows"]
    /\ UNCHANGED <<tables, toggles, raced>>

findLikes(r) ==
    LET q == request[r]
    IN /\ q.op = "remove"
       /\ q.at = "look"
       /\ request' = [request EXCEPT ![r].found = like[q.user], ![r].at = "countDown",
                                     ![r].todo = {p \in Paintings : like[q.user][p] # 0}]
       /\ UNCHANGED <<tables, toggles, raced>>

countDown(r, p) ==
    /\ request[r].at = "countDown"
    /\ p \in request[r].todo
    /\ CanLock(r, Exclusive({<<"painting", p>>}))
    /\ request' = [request EXCEPT ![r].todo = @ \ {p},
                                  ![r].locks = @ \cup Exclusive({<<"painting", p>>})]
    /\ UNCHANGED <<tables, toggles, raced>>

countedDown(r) ==
    /\ request[r].at = "countDown"
    /\ request[r].todo = {}
    /\ request' = [request EXCEPT ![r].at = "deleteRows"]
    /\ UNCHANGED <<tables, toggles, raced>>

deleteRows(r) ==
    /\ request[r].at = "deleteRows"
    /\ Take(r, Needs(request[r]), "deleteUser")
    /\ UNCHANGED <<tables, toggles, raced>>

deleteUser(r) ==
    /\ request[r].at = "deleteUser"
    /\ Take(r, Needs(request[r]), "commit")
    /\ UNCHANGED <<tables, toggles, raced>>

commitRemove(r) ==
    LET q == request[r]
    IN /\ q.op = "remove"
       /\ q.at = "commit"
       /\ accounts' = accounts \ {q.user}
       /\ like' = [like EXCEPT ![q.user] = NoLikes]
       /\ likesCount' = [p \in Paintings |->
              IF q.found[p] # 0 THEN Counted(p, -1)[p] ELSE likesCount[p]]
       /\ entries' = {e \in entries : e[1] # q.user}
       /\ Finish(r)
       /\ UNCHANGED <<paintings, giveaways, open, toggles, raced>>

-----------------------------------------------------------------------------

\* MySQL breaks a deadlock: one transaction of it is rolled back.
Victim(r) ==
    /\ \E rs \in SUBSET Requests : r \in rs /\ Deadlocked(rs)
    /\ Finish(r)
    /\ UNCHANGED <<tables, toggles, raced>>

\* The process ends: transactions are rolled back, nobody is answered.
Crash ==
    /\ \E r \in Requests : Running(r)
    /\ request' = [r \in Requests |-> Idle]
    /\ UNCHANGED <<tables, toggles, raced>>

Step(r) ==
    \/ findLike(r)
    \/ deleteLike(r)
    \/ insertLike(r)
    \/ count(r)
    \/ commitToggle(r)
    \/ insertEntry(r)
    \/ findEntry(r)
    \/ findLikes(r)
    \/ \E p \in Paintings : countDown(r, p)
    \/ countedDown(r)
    \/ deleteRows(r)
    \/ deleteUser(r)
    \/ commitRemove(r)

Next ==
    \/ \E r \in Requests :
        \/ \E u \in Users, p \in Paintings : toggleLike(r, u, p)
        \/ \E u \in Users, g \in Giveaways : join(r, u, g)
        \/ \E u, requester \in Users : remove(r, u, requester)
        \/ Step(r)
        \/ Victim(r)
        \/ Forget(r)
    \/ \E g \in Giveaways : setDeadline(g) \/ removeGiveaway(g)
    \/ \E p \in Paintings : removePainting(p)
    \/ Crash

\* A statement waits in the queue of its locks and gets them in the end; MySQL
\* looks for deadlocks by itself.
Fairness ==
    /\ \A r \in Requests : SF_vars(Step(r))
    /\ WF_vars(\E r \in Requests : Victim(r))

Spec == Init /\ [][Next]_vars
FairSpec == Spec /\ Fairness

-----------------------------------------------------------------------------
(* Properties. *)

\* The types.  A counter may be negative: see LikesCounted.
TypeOK ==
    /\ accounts \subseteq Users
    /\ paintings \subseteq Paintings
    /\ giveaways \subseteq Giveaways
    /\ open \subseteq giveaways
    /\ like \in [Users -> [Paintings -> Nat]]
    /\ likesCount \in [Paintings -> Int]
    /\ entries \subseteq Users \X Giveaways
    /\ request \in [Requests -> Request]
    /\ toggles \in 0 .. MaxToggles
    /\ raced \subseteq Paintings

Fans(p) == {u \in Users : like[u][p] # 0}

\* The counter next to a painting is the number of its likes, whatever the
\* likes, unlikes, removals of accounts and crashes of different users do at
\* the same time, unless two requests about one user were at it together: then
\* both find the like that one of them deletes, and both count it.
\* (likes.service.ts:20-51 and the drift users.service.ts:159-163 is about.)
LikesCounted ==
    \A p \in paintings \ raced : likesCount[p] = Cardinality(Fans(p))

\* "Already in" is only said to who is in, and a second click is never an
\* error: an error means that the account or the giveaway has gone.
\* (The race giveaways.service.ts:163-166 describes.)
RefusalsAreTrue ==
    \A r \in Requests :
        LET q == request[r]
        IN q.op = "join" /\ q.answer \in {"already", "error"} =>
            \/ q.answer = "already" /\ <<q.user, q.target>> \in entries
            \/ q.user \notin accounts
            \/ q.target \notin giveaways

\* Every request comes to its end, deadlocks included: two people who like one
\* painting share its row for their inserts and both want it for the count.
RequestsEnd == \A r \in Requests : Running(r) ~> ~Running(r)
=============================================================================
