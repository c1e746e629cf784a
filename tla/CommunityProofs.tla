--------------------------- MODULE CommunityProofs ---------------------------
(***************************************************************************)
(* Theorems about Community, for any number of people, paintings and       *)
(* requests, and at the end about OrderNews, for any number of requests    *)
(* and of operations on the order.                                         *)
(*                                                                         *)
(* Two requests can be about the same like only when they are about the    *)
(* same user; then the painting is `raced' and LikesCounted says nothing   *)
(* of it.  Of any other painting that is still there, a request that has   *)
(* looked knows what the table says of its user, until it commits: so the  *)
(* counter goes up exactly when a like comes, and down when one goes.      *)
(***************************************************************************)
EXTENDS MCCustomers, FiniteSetTheorems, TLAPS

USE CommunityAssumption

-----------------------------------------------------------------------------
(* The inductive invariant *)

\* What a request is about goes with the stage it is at.
Shape(q) ==
    /\ q.op # "none" => q.user \in Users
    /\ q.op = "toggle" =>
        /\ q.target \in Paintings
        /\ q.id # 0
        /\ q.at \in {"look", "delete", "insert", "count", "commit"}
    /\ q.op = "remove" =>
        q.at \in {"look", "countDown", "deleteRows", "deleteUser", "commit"}
    /\ q.op = "join" => q.target \in Giveaways /\ q.at \in {"join", "again", "answered"}
    /\ q.op = "none" => q.at = "idle"

\* What it has read is still true.
Sees(q) ==
    q.at # "look" =>
        \A p \in (Touches(q) \cap paintings) \ raced : q.found[p] = like[q.user][p]

Apart ==
    \A r, s \in Requests :
        r # s /\ request[r].user = request[s].user =>
            Touches(request[r]) \cap Touches(request[s]) \subseteq raced

LikesInv ==
    /\ TypeOK
    /\ LikesCounted
    /\ \A r \in Requests : Shape(request[r]) /\ Sees(request[r])
    /\ Apart

-----------------------------------------------------------------------------
(* Lemmas *)

LEMMA FansCount ==
    ASSUME TypeOK, NEW p \in Paintings
    PROVE  /\ IsFiniteSet(Fans(p))
           /\ Cardinality(Fans(p)) \in Nat
           /\ \A u \in Fans(p) : Cardinality(Fans(p) \ {u}) = Cardinality(Fans(p)) - 1
           /\ \A u \in Users \ Fans(p) :
                Cardinality(Fans(p) \cup {u}) = Cardinality(Fans(p)) + 1
<1>1. IsFiniteSet(Fans(p))
  BY FS_Subset DEF Fans
<1> QED BY <1>1, FS_CardinalityType, FS_RemoveElement, FS_AddElement

LEMMA IdleIsQuiet ==
    /\ Idle \in Request /\ Shape(Idle) /\ Touches(Idle) = {} /\ Sees(Idle)
    /\ Idle.op = "none"
BY DEF Idle, Request, Shape, Touches, Sees, Stages, Answers, NoLikes

\* What a statement locks are rows.
LEMMA NeedsLocks ==
    ASSUME NEW q \in Request, Shape(q)
    PROVE  Needs(q) \in SUBSET Locks
<1>1. CASE q.at \in {"delete", "insert", "count"}
  <2>1. q.user \in Users /\ q.target \in Paintings
    BY <1>1 DEF Shape, Request
  <2> QED BY <1>1, <2>1 DEF Needs, Locks, Rows, Exclusive, Shared
<1>2. CASE q.at \in {"deleteRows", "deleteUser"}
  <2>1. q.user \in Users
    BY <1>2 DEF Shape, Request
  <2> QED BY <1>2, <2>1 DEF Needs, Locks, Rows, Exclusive, Shared
<1>3. CASE q.at = "join"
  <2>1. q.user \in Users /\ q.target \in Giveaways
    BY <1>3 DEF Shape, Request
  <2> QED BY <1>3, <2>1 DEF Needs, Locks, Rows, Exclusive, Shared
<1>4. CASE q.at \notin {"delete", "insert", "count", "deleteRows", "deleteUser", "join"}
  BY <1>4 DEF Needs
<1> QED BY <1>1, <1>2, <1>3, <1>4

\* A request goes on, or ends, and the likes stay.
LEMMA GoesOn ==
    ASSUME LikesInv, NEW r \in Requests, NEW q \in Request, Shape(q), Sees(q),
           request' = [request EXCEPT ![r] = q],
           \/ q.op = "none"
           \/ /\ q.op = request[r].op
              /\ q.user = request[r].user
              /\ q.target = request[r].target,
           entries' \in SUBSET (Users \X Giveaways),
           UNCHANGED <<accounts, paintings, giveaways, open, like, likesCount, toggles, raced>>
    PROVE  LikesInv'
<1>1. \A s \in Requests : request'[s] = IF s = r THEN q ELSE request[s]
  BY DEF LikesInv, TypeOK
<1>2. TypeOK'
  BY DEF LikesInv, TypeOK
<1>3. LikesCounted'
  BY DEF LikesInv, LikesCounted, Fans
<1>4. \A s \in Requests : Shape(request'[s]) /\ Sees(request[s])'
  BY <1>1 DEF LikesInv, Sees, Touches
<1>5. /\ Touches(q) \subseteq Touches(request[r])
      /\ Touches(q) # {} => q.user = request[r].user
  BY DEF Touches
<1>6. Apart'
  <2> SUFFICES ASSUME NEW s \in Requests, NEW t \in Requests, s # t,
                      request'[s].user = request'[t].user
               PROVE  Touches(request'[s]) \cap Touches(request'[t]) \subseteq raced
    BY DEF Apart, Touches
  <2>1. CASE s = r
    BY <1>1, <1>5, <2>1 DEF LikesInv, Apart
  <2>2. CASE t = r
    BY <1>1, <1>5, <2>2 DEF LikesInv, Apart
  <2>3. CASE s # r /\ t # r
    BY <1>1, <2>3 DEF LikesInv, Apart
  <2> QED BY <2>1, <2>2, <2>3
<1> QED BY <1>2, <1>3, <1>4, <1>6 DEF LikesInv, Shape

\* It has locked more rows, and is at another stage.
LEMMA Locked ==
    ASSUME LikesInv, NEW r \in Requests, NEW at \in Stages \ {"look"},
           request[r].at # "look",
           NEW locks \in SUBSET Locks,
           request' = [request EXCEPT ![r].at = at, ![r].locks = @ \cup locks],
           Shape([request[r] EXCEPT !.at = at]),
           UNCHANGED <<tables, toggles, raced>>
    PROVE  LikesInv'
<1>1. PICK q : q = [request[r] EXCEPT !.at = at, !.locks = @ \cup locks]
  OBVIOUS
<1>2. request[r] \in Request
  BY DEF LikesInv, TypeOK
<1>3. /\ q \in Request /\ q.op = request[r].op /\ q.user = request[r].user
      /\ q.target = request[r].target /\ q.found = request[r].found /\ q.at = at
      /\ q.id = request[r].id
  BY <1>1, <1>2 DEF Request
<1>4. request' = [request EXCEPT ![r] = q]
  BY <1>1
<1>5. Shape(q)
  BY <1>2, <1>3 DEF Shape, Request
<1>6. Sees(q)
  BY <1>3 DEF LikesInv, Sees, Touches
<1>7. entries' \in SUBSET (Users \X Giveaways)
  BY DEF LikesInv, TypeOK, tables
<1> QED BY <1>3, <1>4, <1>5, <1>6, <1>7, GoesOn DEF tables

LEMMA Ends ==
    ASSUME LikesInv, NEW r \in Requests, Finish(r), UNCHANGED <<tables, toggles, raced>>
    PROVE  LikesInv'
<1>1. entries' \in SUBSET (Users \X Giveaways)
  BY DEF LikesInv, TypeOK, tables
<1> QED BY <1>1, IdleIsQuiet, GoesOn DEF tables, Finish

\* A request begins: whoever else is about the same likes races with it.
LEMMA Begins ==
    ASSUME LikesInv, NEW r \in Requests, NEW q \in Request, Shape(q), q.op # "none",
           q.at = "look" \/ Touches(q) = {},
           Begin(r, q), toggles' \in 0 .. MaxToggles, UNCHANGED tables
    PROVE  LikesInv'
<1>1. \A s \in Requests : request'[s] = IF s = r THEN q ELSE request[s]
  BY DEF LikesInv, TypeOK, Begin
<1>2. /\ raced \subseteq raced'
      /\ \A s \in Requests \ {r} :
            Running(s) /\ request[s].user = q.user =>
                Touches(q) \cap Touches(request[s]) \subseteq raced'
  BY DEF Begin
<1>3. Touches(q) \subseteq Paintings
  BY DEF Touches, Shape
<1>4. TypeOK'
  BY <1>3 DEF LikesInv, TypeOK, Begin, tables
<1>5. LikesCounted'
  BY <1>2 DEF LikesInv, LikesCounted, Fans, tables
<1>6. \A s \in Requests : Shape(request'[s])
  BY <1>1 DEF LikesInv
<1>7. \A s \in Requests : Sees(request[s])'
  <2> SUFFICES ASSUME NEW s \in Requests PROVE Sees(request[s])'
    OBVIOUS
  <2>1. CASE s = r
    BY <1>1, <2>1 DEF Sees, Touches
  <2>2. CASE s # r
    BY <1>1, <1>2, <2>2 DEF LikesInv, Sees, Touches, tables
  <2> QED BY <2>1, <2>2
<1>8. \A s \in Requests : Touches(request[s]) # {} => Running(s)
  BY DEF LikesInv, Shape, Touches, Running
<1>9. Apart'
  <2> SUFFICES ASSUME NEW s \in Requests, NEW t \in Requests, s # t,
                      request'[s].user = request'[t].user
               PROVE  Touches(request'[s]) \cap Touches(request'[t]) \subseteq raced'
    BY DEF Apart, Touches
  <2>1. CASE s = r
    BY <1>1, <1>2, <1>8, <2>1
  <2>2. CASE t = r
    BY <1>1, <1>2, <1>8, <2>2
  <2>3. CASE s # r /\ t # r
    BY <1>1, <1>2, <2>3 DEF LikesInv, Apart
  <2> QED BY <2>1, <2>2, <2>3
<1> QED BY <1>4, <1>5, <1>6, <1>7, <1>9 DEF LikesInv, Shape

-----------------------------------------------------------------------------
(* One lemma per action *)

LEMMA toggleLikeStep ==
    ASSUME LikesInv, NEW r \in Requests, NEW u \in Users, NEW p \in Paintings,
           toggleLike(r, u, p)
    PROVE  LikesInv'
<1>1. PICK q : q = [Idle EXCEPT !.op = "toggle", !.at = "look", !.user = u, !.target = p,
                                !.id = toggles + 1]
  OBVIOUS
<1>2. Begin(r, q) /\ toggles' = toggles + 1 /\ toggles < MaxToggles /\ UNCHANGED tables
  BY <1>1 DEF toggleLike
<1>3. /\ toggles' \in 0 .. MaxToggles
      /\ toggles + 1 \in 0 .. MaxToggles /\ toggles + 1 # 0
  BY <1>2 DEF LikesInv, TypeOK
<1>4. q \in Request /\ Shape(q) /\ q.op # "none" /\ q.at = "look"
  BY <1>1, <1>3, IdleIsQuiet DEF Idle, Request, Shape, Stages
<1> QED BY <1>2, <1>3, <1>4, Begins

LEMMA joinStep ==
    ASSUME LikesInv, NEW r \in Requests, NEW u \in Users, NEW g \in Giveaways, join(r, u, g)
    PROVE  LikesInv'
<1> DEFINE
      asked == [Idle EXCEPT !.op = "join", !.user = u, !.target = g]
      Refused(answer) == [asked EXCEPT !.at = "answered", !.answer = answer]
      goes == [asked EXCEPT !.at = "join"]
<1>0. Begin(r, Refused("closed")) \/ Begin(r, Refused("already")) \/ Begin(r, goes)
  <2>1. CASE g \notin open
    BY <2>1 DEF join
  <2>2. CASE g \in open /\ <<u, g>> \in entries
    BY <2>2 DEF join
  <2>3. CASE g \in open /\ <<u, g>> \notin entries
    BY <2>3 DEF join
  <2> QED BY <2>1, <2>2, <2>3
<1>1. PICK q : /\ Begin(r, q) /\ UNCHANGED <<tables, toggles>>
               /\ q \in {Refused("closed"), Refused("already"), goes}
  BY <1>0 DEF join
<1>2. q \in Request /\ Shape(q) /\ q.op # "none" /\ Touches(q) = {}
  <2>1. asked \in Request /\ asked.op = "join" /\ asked.user = u /\ asked.target = g
    BY IdleIsQuiet DEF Request, Idle
  <2> HIDE DEF asked
  <2>2. CASE q = goes
    BY <2>1, <2>2 DEF Request, Shape, Stages, Touches
  <2>3. CASE q = Refused("closed")
    BY <2>1, <2>3 DEF Request, Shape, Stages, Touches, Answers
  <2>4. CASE q = Refused("already")
    BY <2>1, <2>4 DEF Request, Shape, Stages, Touches, Answers
  <2> QED BY <1>1, <2>2, <2>3, <2>4
<1>3. toggles' \in 0 .. MaxToggles
  BY <1>1 DEF LikesInv, TypeOK
<1> QED BY <1>1, <1>2, <1>3, Begins

LEMMA removeStep ==
    ASSUME LikesInv, NEW r \in Requests, NEW u \in Users, NEW requester \in Users,
           remove(r, u, requester)
    PROVE  LikesInv'
<1>1. PICK q : q = [Idle EXCEPT !.op = "remove", !.at = "look", !.user = u]
  OBVIOUS
<1>2. Begin(r, q) /\ UNCHANGED <<tables, toggles>>
  BY <1>1 DEF remove
<1>3. q \in Request /\ Shape(q) /\ q.op # "none" /\ q.at = "look"
  BY <1>1, IdleIsQuiet DEF Idle, Request, Shape, Stages
<1>4. toggles' \in 0 .. MaxToggles
  BY <1>2 DEF LikesInv, TypeOK
<1> QED BY <1>2, <1>3, <1>4, Begins

\* What a request goes on as, when nothing is written.
LEMMA Reads ==
    ASSUME LikesInv, NEW r \in Requests, NEW q \in Request, Shape(q), Sees(q),
           request' = [request EXCEPT ![r] = q],
           q.op = request[r].op, q.user = request[r].user, q.target = request[r].target,
           UNCHANGED <<tables, toggles, raced>>
    PROVE  LikesInv'
<1>1. entries' \in SUBSET (Users \X Giveaways)
  BY DEF LikesInv, TypeOK, tables
<1> QED BY <1>1, GoesOn DEF tables

LEMMA findLikeStep ==
    ASSUME LikesInv, NEW r \in Requests, findLike(r)
    PROVE  LikesInv'
<1>1. PICK a : a = request[r]
  OBVIOUS
<1>2. a \in Request /\ Shape(a) /\ a.op = "toggle" /\ a.at = "look"
  BY <1>1 DEF LikesInv, TypeOK, findLike
<1>3. a.user \in Users /\ a.target \in Paintings
  BY <1>2 DEF Shape
<1>4. like[a.user][a.target] \in Nat
  BY <1>3 DEF LikesInv, TypeOK
<1>5. PICK q : q = [a EXCEPT
          !.found = [NoLikes EXCEPT ![a.target] = like[a.user][a.target]],
          !.at = IF like[a.user][a.target] # 0 THEN "delete" ELSE "insert"]
  OBVIOUS
<1>6. request' = [request EXCEPT ![r] = q] /\ UNCHANGED <<tables, toggles, raced>>
  BY <1>1, <1>5 DEF findLike, LikesInv, TypeOK
<1>7. [NoLikes EXCEPT ![a.target] = like[a.user][a.target]] \in [Paintings -> Nat]
  BY <1>3, <1>4 DEF NoLikes
<1>8. /\ q \in Request /\ q.op = a.op /\ q.user = a.user /\ q.target = a.target
      /\ q.id = a.id /\ q.at \in {"delete", "insert"}
      /\ q.found[a.target] = like[a.user][a.target]
  BY <1>2, <1>3, <1>5, <1>7 DEF Request, Stages, NoLikes
<1>9. Shape(q) /\ Sees(q)
  BY <1>2, <1>8 DEF Shape, Sees, Touches
<1> QED BY <1>1, <1>6, <1>8, <1>9, Reads

LEMMA findLikesStep ==
    ASSUME LikesInv, NEW r \in Requests, findLikes(r)
    PROVE  LikesInv'
<1>1. PICK a : a = request[r]
  OBVIOUS
<1>2. a \in Request /\ Shape(a) /\ a.op = "remove" /\ a.at = "look"
  BY <1>1 DEF LikesInv, TypeOK, findLikes
<1>3. a.user \in Users /\ like[a.user] \in [Paintings -> Nat]
  BY <1>2 DEF Shape, LikesInv, TypeOK
<1>4. PICK q : q = [a EXCEPT !.found = like[a.user], !.at = "countDown",
                             !.todo = {p \in Paintings : like[a.user][p] # 0}]
  OBVIOUS
<1>5. request' = [request EXCEPT ![r] = q] /\ UNCHANGED <<tables, toggles, raced>>
  BY <1>1, <1>4 DEF findLikes, LikesInv, TypeOK
<1>6. /\ q \in Request /\ q.op = a.op /\ q.user = a.user /\ q.target = a.target
      /\ q.at = "countDown" /\ q.found = like[a.user]
  BY <1>2, <1>3, <1>4 DEF Request, Stages
<1>7. Shape(q) /\ Sees(q)
  BY <1>2, <1>6 DEF Shape, Sees, Touches
<1> QED BY <1>1, <1>5, <1>6, <1>7, Reads

\* The statements that only take locks.
LEMMA LockSteps ==
    ASSUME LikesInv, NEW r \in Requests,
           deleteLike(r) \/ insertLike(r) \/ count(r) \/ deleteRows(r) \/ deleteUser(r)
    PROVE  LikesInv'
<1>1. PICK a : a = request[r]
  OBVIOUS
<1>2. a \in Request /\ Shape(a)
  BY <1>1 DEF LikesInv, TypeOK
<1>3. Needs(a) \in SUBSET Locks
  BY <1>2, NeedsLocks
<1>4. CASE Finish(r) /\ UNCHANGED <<tables, toggles, raced>>
  BY <1>4, Ends
<1>5. ASSUME NEW at \in {"count", "commit", "deleteUser"}, Take(r, Needs(a), at),
             a.at # "look", UNCHANGED <<tables, toggles, raced>>,
             Shape([a EXCEPT !.at = at])
      PROVE  LikesInv'
  BY <1>1, <1>3, <1>5, Locked DEF Take, Stages
<1>6. CASE /\ a.at \in {"delete", "insert"} /\ Take(r, Needs(a), "count")
           /\ UNCHANGED <<tables, toggles, raced>>
  <2>1. Shape([a EXCEPT !.at = "count"])
    BY <1>2, <1>6 DEF Shape, Request
  <2> QED BY <1>5, <1>6, <2>1
<1>7. CASE /\ a.at \in {"count", "deleteUser"} /\ Take(r, Needs(a), "commit")
           /\ UNCHANGED <<tables, toggles, raced>>
  <2>1. Shape([a EXCEPT !.at = "commit"])
    BY <1>2, <1>7 DEF Shape, Request
  <2> QED BY <1>5, <1>7, <2>1
<1>8. CASE /\ a.at = "deleteRows" /\ Take(r, Needs(a), "deleteUser")
           /\ UNCHANGED <<tables, toggles, raced>>
  <2>1. Shape([a EXCEPT !.at = "deleteUser"])
    BY <1>2, <1>8 DEF Shape, Request
  <2> QED BY <1>5, <1>8, <2>1
<1> QED BY <1>1, <1>4, <1>6, <1>7, <1>8
        DEF deleteLike, insertLike, count, deleteRows, deleteUser

LEMMA countDownStep ==
    ASSUME LikesInv, NEW r \in Requests, NEW p \in Paintings, countDown(r, p)
    PROVE  LikesInv'
<1>1. PICK a : a = request[r]
  OBVIOUS
<1>2. a \in Request /\ Shape(a) /\ Sees(a) /\ a.at = "countDown"
  BY <1>1 DEF LikesInv, TypeOK, countDown
<1>3. PICK q : q = [a EXCEPT !.todo = @ \ {p},
                             !.locks = @ \cup Exclusive({<<"painting", p>>})]
  OBVIOUS
<1>4. request' = [request EXCEPT ![r] = q] /\ UNCHANGED <<tables, toggles, raced>>
  BY <1>1, <1>3 DEF countDown, LikesInv, TypeOK
<1>5. Exclusive({<<"painting", p>>}) \subseteq Locks
  BY DEF Exclusive, Locks, Rows
<1>6. /\ q \in Request /\ q.op = a.op /\ q.user = a.user /\ q.target = a.target
      /\ q.at = a.at /\ q.found = a.found /\ q.id = a.id
  BY <1>2, <1>3, <1>5 DEF Request
<1>7. Shape(q) /\ Sees(q)
  BY <1>2, <1>6 DEF Shape, Sees, Touches
<1> QED BY <1>1, <1>4, <1>6, <1>7, Reads

LEMMA countedDownStep ==
    ASSUME LikesInv, NEW r \in Requests, countedDown(r)
    PROVE  LikesInv'
<1>1. PICK a : a = request[r]
  OBVIOUS
<1>2. a \in Request /\ Shape(a) /\ Sees(a) /\ a.at = "countDown"
  BY <1>1 DEF LikesInv, TypeOK, countedDown
<1>3. PICK q : q = [a EXCEPT !.at = "deleteRows"]
  OBVIOUS
<1>4. request' = [request EXCEPT ![r] = q] /\ UNCHANGED <<tables, toggles, raced>>
  BY <1>1, <1>3 DEF countedDown, LikesInv, TypeOK
<1>5. /\ q \in Request /\ q.op = a.op /\ q.user = a.user /\ q.target = a.target
      /\ q.at = "deleteRows" /\ q.found = a.found /\ q.id = a.id
  BY <1>2, <1>3 DEF Request, Stages
<1>6. Shape(q) /\ Sees(q)
  BY <1>2, <1>5 DEF Shape, Sees, Touches
<1> QED BY <1>1, <1>4, <1>5, <1>6, Reads

LEMMA insertEntryStep ==
    ASSUME LikesInv, NEW r \in Requests, insertEntry(r)
    PROVE  LikesInv'
<1>1. PICK a : a = request[r]
  OBVIOUS
<1>2. a \in Request /\ Shape(a) /\ a.at = "join" /\ a.op = "join"
  BY <1>1 DEF LikesInv, TypeOK, insertEntry, Shape, Request
<1>3. \/ request' = [request EXCEPT ![r].at = "again"]
      \/ request' = [request EXCEPT ![r].at = "answered", ![r].answer = "joined"]
  BY DEF insertEntry, Answer
<1>4. PICK q : /\ request' = [request EXCEPT ![r] = q]
               /\ \E at \in {"again", "answered"}, answer \in {a.answer, "joined"} :
                     q = [a EXCEPT !.at = at, !.answer = answer]
  <2>1. CASE request' = [request EXCEPT ![r].at = "again"]
    <3>1. [a EXCEPT !.at = "again"] = [a EXCEPT !.at = "again", !.answer = a.answer]
      BY <1>2 DEF Request
    <3> QED BY <1>1, <2>1, <3>1
  <2>2. CASE request' = [request EXCEPT ![r].at = "answered", ![r].answer = "joined"]
    BY <1>1, <2>2
  <2> QED BY <1>3, <2>1, <2>2
<1>5. /\ q \in Request /\ q.op = "join" /\ q.user = a.user /\ q.target = a.target
      /\ q.at \in {"again", "answered"}
  BY <1>2, <1>4 DEF Request, Stages, Answers
<1>6. Shape(q) /\ Sees(q)
  BY <1>2, <1>5 DEF Shape, Sees, Touches
<1>7. /\ entries' \in SUBSET (Users \X Giveaways)
      /\ UNCHANGED <<accounts, paintings, giveaways, open, like, likesCount, toggles, raced>>
  BY DEF insertEntry, LikesInv, TypeOK
<1> QED BY <1>1, <1>2, <1>4, <1>5, <1>6, <1>7, GoesOn

LEMMA findEntryStep ==
    ASSUME LikesInv, NEW r \in Requests, findEntry(r)
    PROVE  LikesInv'
<1>1. PICK a : a = request[r]
  OBVIOUS
<1>2. a \in Request /\ Shape(a) /\ a.at = "again" /\ a.op = "join"
  BY <1>1 DEF LikesInv, TypeOK, findEntry, Shape, Request
<1>3. PICK answer \in Answers : Answer(r, answer)
  <2>1. IF <<a.user, a.target>> \in entries THEN Answer(r, "already") ELSE Answer(r, "error")
    BY <1>1 DEF findEntry
  <2> QED BY <2>1 DEF Answers
<1>4. PICK q : q = [a EXCEPT !.at = "answered", !.answer = answer]
  OBVIOUS
<1>5. request' = [request EXCEPT ![r] = q]
  BY <1>1, <1>3, <1>4 DEF Answer, LikesInv, TypeOK
<1>6. /\ q \in Request /\ q.op = "join" /\ q.user = a.user /\ q.target = a.target
      /\ q.at = "answered"
  BY <1>2, <1>4 DEF Request, Stages
<1>7. Shape(q) /\ Sees(q)
  BY <1>2, <1>6 DEF Shape, Sees, Touches
<1>8. UNCHANGED <<tables, toggles, raced>>
  BY DEF findEntry
<1> QED BY <1>1, <1>2, <1>5, <1>6, <1>7, <1>8, Reads

\* The counter follows the table: one like comes or goes with one count.
LEMMA commitToggleStep ==
    ASSUME LikesInv, NEW r \in Requests, commitToggle(r)
    PROVE  LikesInv'
<1>1. PICK q : q = request[r]
  OBVIOUS
<1>2. /\ q \in Request /\ q.op = "toggle" /\ q.at = "commit"
      /\ q.user \in Users /\ q.target \in Paintings /\ q.id # 0
  BY <1>1 DEF LikesInv, TypeOK, commitToggle, Shape
<1>3. PICK u \in Users, p \in Paintings : u = q.user /\ p = q.target
  BY <1>2
<1>4. /\ UNCHANGED <<accounts, paintings, giveaways, open, entries, toggles, raced>>
      /\ request' = [request EXCEPT ![r] = Idle]
  BY DEF commitToggle, Finish
<1>5. PICK new \in Nat, by \in {-1, 0, 1} :
         /\ like' = [like EXCEPT ![u][p] = new]
         /\ likesCount' = Counted(p, by)
         /\ q.found[p] # 0 => by = -1 /\ new = (IF like[u][p] = q.found[p] THEN 0 ELSE like[u][p])
         /\ q.found[p] = 0 => by = 1 /\ new = q.id
  <2>1. CASE q.found[p] # 0
    <3>1. like = [like EXCEPT ![u][p] = like[u][p]]
      BY DEF LikesInv, TypeOK
    <3>2. like[u][p] \in Nat
      BY DEF LikesInv, TypeOK
    <3>3. likesCount' = Counted(p, -1)
      BY <1>1, <1>3, <2>1 DEF commitToggle
    <3>4. CASE like[u][p] = q.found[p]
      <4>1. like' = [like EXCEPT ![u][p] = 0]
        BY <1>1, <1>3, <2>1, <3>4 DEF commitToggle
      <4> QED BY <2>1, <3>3, <3>4, <4>1
    <3>5. CASE like[u][p] # q.found[p]
      <4>1. like' = [like EXCEPT ![u][p] = like[u][p]]
        BY <1>1, <1>3, <2>1, <3>1, <3>5 DEF commitToggle
      <4> QED BY <2>1, <3>2, <3>3, <3>5, <4>1
    <3> QED BY <3>4, <3>5
  <2>2. CASE q.found[p] = 0
    <3>1. like' = [like EXCEPT ![u][p] = q.id] /\ likesCount' = Counted(p, 1)
      BY <1>1, <1>3, <2>2 DEF commitToggle
    <3>2. q.id \in Nat
      BY <1>2 DEF Request, LikesInv, TypeOK
    <3> QED BY <2>2, <3>1, <3>2
  <2> QED BY <2>1, <2>2
<1>6. /\ \A v \in Users, o \in Paintings :
            like'[v][o] = IF v = u /\ o = p THEN new ELSE like[v][o]
      /\ like' \in [Users -> [Paintings -> Nat]]
  BY <1>5 DEF LikesInv, TypeOK
<1>7. /\ likesCount' \in [Paintings -> Int]
      /\ \A o \in Paintings : likesCount'[o] =
            IF o = p /\ p \in paintings THEN likesCount[o] + by ELSE likesCount[o]
  BY <1>5 DEF Counted, LikesInv, TypeOK
<1>8. \A s \in Requests : request'[s] = IF s = r THEN Idle ELSE request[s]
  BY <1>4 DEF LikesInv, TypeOK
<1>9. TypeOK'
  BY <1>4, <1>6, <1>7, IdleIsQuiet DEF LikesInv, TypeOK
<1>10. LikesCounted'
  <2> SUFFICES ASSUME NEW o \in paintings \ raced
               PROVE  likesCount'[o] = Cardinality(Fans(o)')
    BY <1>4 DEF LikesCounted
  <2>0. o \in Paintings /\ likesCount[o] = Cardinality(Fans(o))
    BY DEF LikesInv, TypeOK, LikesCounted
  <2>1. CASE o # p
    <3>1. Fans(o)' = Fans(o)
      BY <1>6, <2>0, <2>1 DEF Fans
    <3> QED BY <1>7, <2>0, <2>1, <3>1
  <2>2. CASE o = p
    <3>1. q.found[p] = like[u][p]
      BY <1>1, <1>2, <1>3, <2>2 DEF LikesInv, Sees, Touches
    <3>2. CASE q.found[p] # 0
      <4>1. u \in Fans(p) /\ Fans(p)' = Fans(p) \ {u}
        BY <1>5, <1>6, <3>1, <3>2 DEF Fans
      <4>2. Cardinality(Fans(p) \ {u}) = Cardinality(Fans(p)) - 1
        BY <4>1, FansCount DEF LikesInv
      <4>3. likesCount'[p] = likesCount[p] - 1
        BY <1>5, <1>7, <2>2, <3>2, FansCount DEF LikesInv, TypeOK
      <4> QED BY <2>0, <2>2, <4>1, <4>2, <4>3
    <3>3. CASE q.found[p] = 0
      <4>1. u \in Users \ Fans(p) /\ Fans(p)' = Fans(p) \cup {u}
        <5>1. u \notin Fans(p) /\ new # 0
          BY <1>2, <1>5, <3>1, <3>3 DEF Fans
        <5>2. \A v \in Users : like'[v][p] # 0 <=> v = u \/ like[v][p] # 0
          BY <1>6, <5>1
        <5> QED BY <5>1, <5>2 DEF Fans
      <4>2. Cardinality(Fans(p) \cup {u}) = Cardinality(Fans(p)) + 1
        BY <4>1, FansCount DEF LikesInv
      <4>3. likesCount'[p] = likesCount[p] + 1
        BY <1>5, <1>7, <2>2, <3>3
      <4> QED BY <2>0, <2>2, <4>1, <4>2, <4>3
    <3> QED BY <3>2, <3>3
  <2> QED BY <2>1, <2>2
<1>11. \A s \in Requests : Shape(request'[s]) /\ Sees(request[s])'
  <2> SUFFICES ASSUME NEW s \in Requests PROVE Shape(request'[s]) /\ Sees(request[s])'
    OBVIOUS
  <2>1. CASE s = r
    BY <1>8, <2>1, IdleIsQuiet DEF Sees, Touches
  <2>2. CASE s # r
    <3>1. request'[s] = request[s] /\ Shape(request[s]) /\ Sees(request[s])
      BY <1>8, <2>2 DEF LikesInv
    <3>2. request[s].user = u => p \notin Touches(request[s]) \ raced
      BY <1>1, <1>2, <1>3, <2>2 DEF LikesInv, Apart, Touches
    <3>3. Touches(request[s]) # {} => request[s].user \in Users
      BY <3>1 DEF Touches, Shape
    <3>4. Touches(request[s]) \subseteq Paintings
      BY <3>1 DEF Touches, Shape
    <3> QED BY <1>4, <1>6, <3>1, <3>2, <3>3, <3>4 DEF Sees, Touches
  <2> QED BY <2>1, <2>2
<1>12. Apart'
  BY <1>4, <1>8, IdleIsQuiet DEF LikesInv, Apart, Touches
<1> QED BY <1>9, <1>10, <1>11, <1>12 DEF LikesInv, Shape

\* The likes of an account go with it, and are counted down as they were found.
LEMMA commitRemoveStep ==
    ASSUME LikesInv, NEW r \in Requests, commitRemove(r)
    PROVE  LikesInv'
<1>1. PICK q : q = request[r]
  OBVIOUS
<1>2. q \in Request /\ q.op = "remove" /\ q.at = "commit" /\ q.user \in Users
  BY <1>1 DEF LikesInv, TypeOK, commitRemove, Shape
<1>3. PICK u \in Users : u = q.user
  BY <1>2
<1>4. /\ UNCHANGED <<paintings, giveaways, open, toggles, raced>>
      /\ request' = [request EXCEPT ![r] = Idle]
      /\ accounts' = accounts \ {u} /\ entries' = {e \in entries : e[1] # u}
      /\ like' = [like EXCEPT ![u] = NoLikes]
      /\ likesCount' = [p \in Paintings |->
            IF q.found[p] # 0 THEN Counted(p, -1)[p] ELSE likesCount[p]]
  BY <1>1, <1>3 DEF commitRemove, Finish
<1>5. /\ \A v \in Users, p \in Paintings : like'[v][p] = IF v = u THEN 0 ELSE like[v][p]
      /\ like' \in [Users -> [Paintings -> Nat]]
  BY <1>4 DEF LikesInv, TypeOK, NoLikes
<1>6. \A p \in Paintings : likesCount'[p] =
         IF q.found[p] # 0 /\ p \in paintings THEN likesCount[p] - 1 ELSE likesCount[p]
  BY <1>4 DEF Counted, LikesInv, TypeOK
<1>7. \A s \in Requests : request'[s] = IF s = r THEN Idle ELSE request[s]
  BY <1>4 DEF LikesInv, TypeOK
<1>8. TypeOK'
  <2>1. likesCount' \in [Paintings -> Int]
    BY <1>4, <1>6 DEF LikesInv, TypeOK
  <2> QED BY <1>4, <1>5, <2>1, IdleIsQuiet DEF LikesInv, TypeOK
<1>9. LikesCounted'
  <2> SUFFICES ASSUME NEW p \in paintings \ raced
               PROVE  likesCount'[p] = Cardinality(Fans(p)')
    BY <1>4 DEF LikesCounted
  <2>1. /\ p \in Paintings /\ likesCount[p] = Cardinality(Fans(p))
        /\ q.found[p] = like[u][p]
    BY <1>1, <1>2, <1>3 DEF LikesInv, TypeOK, LikesCounted, Sees, Touches
  <2>2. Fans(p)' = Fans(p) \ {u}
    BY <1>5, <2>1 DEF Fans
  <2>3. CASE u \in Fans(p)
    <3>1. likesCount'[p] = likesCount[p] - 1
      BY <1>6, <2>1, <2>3 DEF Fans
    <3> QED BY <2>1, <2>2, <2>3, <3>1, FansCount DEF LikesInv
  <2>4. CASE u \notin Fans(p)
    <3>1. likesCount'[p] = likesCount[p] /\ Fans(p) \ {u} = Fans(p)
      BY <1>6, <2>1, <2>4 DEF Fans
    <3> QED BY <2>1, <2>2, <3>1
  <2> QED BY <2>3, <2>4
<1>10. \A s \in Requests : Shape(request'[s]) /\ Sees(request[s])'
  <2> SUFFICES ASSUME NEW s \in Requests PROVE Shape(request'[s]) /\ Sees(request[s])'
    OBVIOUS
  <2>1. CASE s = r
    BY <1>7, <2>1, IdleIsQuiet DEF Sees, Touches
  <2>2. CASE s # r
    <3>1. request'[s] = request[s] /\ Shape(request[s]) /\ Sees(request[s])
      BY <1>7, <2>2 DEF LikesInv
    <3>2. Touches(request[s]) \subseteq Paintings
      BY <3>1 DEF Touches, Shape
    <3>3. request[s].user = u => Touches(request[s]) \subseteq raced
      BY <1>1, <1>2, <1>3, <2>2, <3>2 DEF LikesInv, Apart, Touches
    <3>4. Touches(request[s]) # {} => request[s].user \in Users
      BY <3>1 DEF Touches, Shape
    <3> QED BY <1>4, <1>5, <3>1, <3>2, <3>3, <3>4 DEF Sees, Touches
  <2> QED BY <2>1, <2>2
<1>11. Apart'
  BY <1>4, <1>7, IdleIsQuiet DEF LikesInv, Apart, Touches
<1> QED BY <1>8, <1>9, <1>10, <1>11 DEF LikesInv, Shape

\* A painting that has gone is nobody's concern any more.
LEMMA removePaintingStep ==
    ASSUME LikesInv, NEW p \in Paintings, removePainting(p)
    PROVE  LikesInv'
<1>1. /\ paintings' = paintings \ {p}
      /\ like' = [u \in Users |-> [like[u] EXCEPT ![p] = 0]]
      /\ likesCount' = [likesCount EXCEPT ![p] = 0]
      /\ UNCHANGED <<accounts, giveaways, open, entries, request, toggles, raced>>
  BY DEF removePainting
<1>2. /\ \A u \in Users, o \in Paintings \ {p} : like'[u][o] = like[u][o]
      /\ like' \in [Users -> [Paintings -> Nat]]
  BY <1>1 DEF LikesInv, TypeOK
<1>3. TypeOK'
  BY <1>1, <1>2 DEF LikesInv, TypeOK
<1>4. LikesCounted'
  <2> SUFFICES ASSUME NEW o \in paintings \ raced, o # p
               PROVE  likesCount'[o] = Cardinality(Fans(o)')
    BY <1>1 DEF LikesCounted
  <2>1. o \in Paintings /\ likesCount[o] = Cardinality(Fans(o))
    BY DEF LikesInv, TypeOK, LikesCounted
  <2>2. Fans(o)' = Fans(o)
    BY <1>2, <2>1 DEF Fans
  <2> QED BY <1>1, <2>1, <2>2 DEF LikesInv, TypeOK
<1>5. \A s \in Requests : Sees(request[s])'
  <2> SUFFICES ASSUME NEW s \in Requests PROVE Sees(request[s])'
    OBVIOUS
  <2>1. /\ Sees(request[s])
        /\ Touches(request[s]) \subseteq Paintings
        /\ Touches(request[s]) # {} => request[s].user \in Users
    BY DEF LikesInv, Touches, Shape
  <2> QED BY <1>1, <1>2, <2>1 DEF Sees, Touches
<1>6. Apart'
  BY <1>1 DEF LikesInv, Apart, Touches
<1> QED BY <1>1, <1>3, <1>4, <1>5, <1>6 DEF LikesInv, Shape

\* Giveaways are nothing to the likes.
LEMMA GiveawaySteps ==
    ASSUME LikesInv, NEW g \in Giveaways, setDeadline(g) \/ removeGiveaway(g)
    PROVE  LikesInv'
<1>1. UNCHANGED <<accounts, paintings, like, likesCount, request, toggles, raced>>
  BY DEF setDeadline, removeGiveaway
<1>2. TypeOK'
  <2>1. /\ giveaways' \subseteq Giveaways /\ open' \subseteq giveaways'
        /\ entries' \subseteq Users \X Giveaways
    BY DEF setDeadline, removeGiveaway, LikesInv, TypeOK
  <2> QED BY <1>1, <2>1 DEF LikesInv, TypeOK
<1> QED BY <1>1, <1>2 DEF LikesInv, LikesCounted, Fans, Sees, Touches, Apart, Shape

LEMMA CrashStep ==
    ASSUME LikesInv, Crash
    PROVE  LikesInv'
<1>1. /\ request' = [r \in Requests |-> Idle] /\ UNCHANGED <<tables, toggles, raced>>
  BY DEF Crash
<1>2. TypeOK'
  BY <1>1, IdleIsQuiet DEF LikesInv, TypeOK, tables
<1>3. LikesCounted'
  BY <1>1 DEF LikesInv, LikesCounted, Fans, tables
<1>4. \A s \in Requests : Shape(request'[s]) /\ Sees(request[s])'
  BY <1>1, IdleIsQuiet DEF Sees, Touches
<1>5. Apart'
  BY <1>1, IdleIsQuiet DEF Apart, Touches
<1> QED BY <1>2, <1>3, <1>4, <1>5 DEF LikesInv, Shape

LEMMA InitLikes == Init => LikesInv
<1> SUFFICES ASSUME Init PROVE LikesInv
  OBVIOUS
<1>1. TypeOK
  BY IdleIsQuiet DEF Init, TypeOK, NoLikes
<1>2. LikesCounted
  <2>1. \A p \in Paintings : Fans(p) = {}
    BY DEF Init, Fans, NoLikes
  <2> QED BY <1>1, <2>1, FS_EmptySet DEF Init, LikesCounted, TypeOK
<1>3. \A r \in Requests : Shape(request[r]) /\ Sees(request[r])
  BY IdleIsQuiet DEF Init
<1>4. Apart
  BY IdleIsQuiet DEF Init, Apart
<1> QED BY <1>1, <1>2, <1>3, <1>4 DEF LikesInv

LEMMA LikesStep == LikesInv /\ [Next]_vars => LikesInv'
<1> SUFFICES ASSUME LikesInv, [Next]_vars PROVE LikesInv'
  OBVIOUS
<1>1. ASSUME NEW r \in Requests, Step(r) PROVE LikesInv'
  BY <1>1, findLikeStep, LockSteps, commitToggleStep, insertEntryStep, findEntryStep,
     findLikesStep, countDownStep, countedDownStep, commitRemoveStep DEF Step
<1>2. ASSUME NEW r \in Requests, Victim(r) \/ Forget(r) PROVE LikesInv'
  BY <1>2, Ends DEF Victim, Forget
<1>3. CASE UNCHANGED vars
  BY <1>3 DEF vars, tables, LikesInv, TypeOK, LikesCounted, Fans, Shape, Sees, Touches, Apart
<1> QED BY <1>1, <1>2, <1>3, toggleLikeStep, joinStep, removeStep, GiveawaySteps,
           removePaintingStep, CrashStep DEF Next

-----------------------------------------------------------------------------
(* What who takes part in a giveaway is told *)

\* Its account or its giveaway is no longer there.
Gone(q) == q.user \notin accounts \/ q.target \notin giveaways

\* Whoever is to look again, or was told "already", found an entry in the way:
\* it stays for as long as the account and the giveaway do.
Refused(q) ==
    q.op = "join" =>
        /\ q.at = "again" \/ q.answer = "already" =>
            <<q.user, q.target>> \in entries \/ Gone(q)
        /\ q.answer = "error" => Gone(q)
        /\ q.at \in {"join", "again"} => q.answer = "none"

RefusalsInv == LikesInv /\ \A r \in Requests : Refused(request[r])

\* Accounts and giveaways only go, and an entry goes with one of them.
LEMMA EntriesStay ==
    ASSUME LikesInv, [Next]_vars
    PROVE  /\ accounts' \subseteq accounts
           /\ giveaways' \subseteq giveaways
           /\ \A u, g : <<u, g>> \in entries \ entries' =>
                u \notin accounts' \/ g \notin giveaways'
<1> DEFINE Goal ==
        /\ accounts' \subseteq accounts
        /\ giveaways' \subseteq giveaways
        /\ \A u, g : <<u, g>> \in entries \ entries' =>
              u \notin accounts' \/ g \notin giveaways'
<1>1. CASE UNCHANGED vars
  BY <1>1 DEF vars, tables
<1>2. ASSUME NEW r \in Requests, NEW u \in Users,
             \/ \E p \in Paintings : toggleLike(r, u, p)
             \/ \E g \in Giveaways : join(r, u, g)
             \/ \E requester \in Users : remove(r, u, requester)
      PROVE  Goal
  BY <1>2 DEF toggleLike, join, remove, tables
<1>3. ASSUME NEW r \in Requests, Victim(r) \/ Forget(r) \/ Crash
      PROVE  Goal
  BY <1>3 DEF Victim, Forget, Crash, tables
<1>4. ASSUME NEW r \in Requests, Step(r)
      PROVE  Goal
  <2>1. CASE commitRemove(r)
    BY <2>1 DEF commitRemove
  <2>2. CASE insertEntry(r)
    BY <2>2 DEF insertEntry
  <2>3. CASE \/ findLike(r) \/ deleteLike(r) \/ insertLike(r) \/ count(r)
             \/ findEntry(r) \/ findLikes(r) \/ countedDown(r) \/ deleteRows(r)
             \/ deleteUser(r) \/ \E p \in Paintings : countDown(r, p)
    BY <2>3 DEF findLike, deleteLike, insertLike, count, findEntry, findLikes,
                countedDown, deleteRows, deleteUser, countDown, tables
  <2>4. CASE commitToggle(r)
    BY <2>4 DEF commitToggle
  <2> QED BY <1>4, <2>1, <2>2, <2>3, <2>4 DEF Step
<1>5. ASSUME NEW g \in Giveaways, setDeadline(g) \/ removeGiveaway(g)
      PROVE  Goal
  BY <1>5 DEF setDeadline, removeGiveaway
<1>6. ASSUME NEW p \in Paintings, removePainting(p)
      PROVE  Goal
  BY <1>6 DEF removePainting
<1>7. CASE Crash
  BY <1>7 DEF Crash, tables
<1> QED BY <1>1, <1>2, <1>3, <1>4, <1>5, <1>6, <1>7 DEF Next

\* What was true of a request that did not move still is.
LEMMA RefusedStays ==
    ASSUME LikesInv, [Next]_vars, NEW r \in Requests, Refused(request[r]),
           request'[r] = request[r]
    PROVE  Refused(request[r])'
BY EntriesStay DEF Refused, Gone

\* A request that is not about a giveaway is refused nothing.
LEMMA RefusedMoves ==
    ASSUME LikesInv, [Next]_vars, NEW r \in Requests, Refused(request[r]),
           request'[r] # request[r]
    PROVE  Refused(request[r])'
<1> DEFINE q == request[r]
<1>0. q \in Request /\ Shape(q) /\ \A s \in Requests : request[s] \in Request
  BY DEF LikesInv, TypeOK
<1>1. ASSUME NEW s \in Requests, NEW new, request' = [request EXCEPT ![s] = new]
      PROVE  s = r /\ request'[r] = new
  BY <1>1 DEF LikesInv, TypeOK
<1>2. CASE request'[r] = Idle
  BY <1>2 DEF Idle, Refused
<1>3. CASE \E s \in Requests : Finish(s)
  BY <1>1, <1>2, <1>3 DEF Finish
<1>4. CASE UNCHANGED request
  BY <1>4
<1>5. ASSUME NEW s \in Requests, NEW u \in Users, NEW p \in Paintings, toggleLike(s, u, p)
      PROVE  Refused(request[r])'
  BY <1>1, <1>5 DEF toggleLike, Begin, Idle, Refused
<1>6. ASSUME NEW s \in Requests, NEW u \in Users, NEW v \in Users, remove(s, u, v)
      PROVE  Refused(request[r])'
  BY <1>1, <1>6 DEF remove, Begin, Idle, Refused
<1>7. ASSUME NEW s \in Requests, NEW u \in Users, NEW g \in Giveaways, join(s, u, g)
      PROVE  Refused(request[r])'
  <2> DEFINE asked == [Idle EXCEPT !.op = "join", !.user = u, !.target = g]
  <2>0. asked.user = u /\ asked.target = g /\ asked.answer = "none"
        /\ asked \in Request
    BY IdleIsQuiet DEF Idle, Request
  <2> HIDE DEF asked
  <2>1. CASE g \notin open
    <3>1. request'[r] = [asked EXCEPT !.at = "answered", !.answer = "closed"]
      BY <1>1, <1>7, <2>1 DEF join, Begin, asked
    <3> QED BY <2>0, <3>1 DEF Refused, Request
  <2>2. CASE g \in open /\ <<u, g>> \in entries
    <3>1. request'[r] = [asked EXCEPT !.at = "answered", !.answer = "already"]
      BY <1>1, <1>7, <2>2 DEF join, Begin, asked
    <3>2. UNCHANGED entries
      BY <1>7 DEF join, tables
    <3> QED BY <2>0, <2>2, <3>1, <3>2 DEF Refused, Request
  <2>3. CASE g \in open /\ <<u, g>> \notin entries
    <3>1. request'[r] = [asked EXCEPT !.at = "join"]
      BY <1>1, <1>7, <2>3 DEF join, Begin, asked
    <3> QED BY <2>0, <3>1 DEF Refused, Request
  <2> QED BY <2>1, <2>2, <2>3
<1>8. ASSUME NEW s \in Requests, insertEntry(s)
      PROVE  Refused(request[r])'
  <2>1. CASE q.user \in accounts /\ q.target \in giveaways /\ <<q.user, q.target>> \notin entries
    <3>1. request'[r] = [q EXCEPT !.at = "answered", !.answer = "joined"]
      BY <1>8, <2>1 DEF insertEntry, Answer, LikesInv, TypeOK
    <3> QED BY <1>0, <3>1 DEF Refused, Request
  <2>2. CASE ~(q.user \in accounts /\ q.target \in giveaways /\ <<q.user, q.target>> \notin entries)
    <3>1. request'[r] = [q EXCEPT !.at = "again"] /\ UNCHANGED <<accounts, giveaways, entries>>
      BY <1>8, <2>2 DEF insertEntry, Answer, LikesInv, TypeOK
    <3>2. q.op = "join" /\ q.answer = "none"
      <4>1. s = r /\ request[s].at = "join"
        BY <1>8, <2>2 DEF insertEntry, Answer, LikesInv, TypeOK
      <4>2. q.op = "join"
        BY <1>0, <4>1 DEF Shape, Request
      <4> QED BY <4>1, <4>2 DEF Refused
    <3> QED BY <1>0, <2>2, <3>1, <3>2 DEF Refused, Gone, Request
  <2> QED BY <2>1, <2>2
<1>9. ASSUME NEW s \in Requests, findEntry(s)
      PROVE  Refused(request[r])'
  <2>1. s = r /\ q.at = "again" /\ UNCHANGED <<accounts, giveaways, entries>>
    BY <1>9 DEF findEntry, Answer, tables, LikesInv, TypeOK
  <2>2. CASE <<q.user, q.target>> \in entries
    <3>1. request'[r] = [q EXCEPT !.at = "answered", !.answer = "already"]
      BY <1>9, <2>1, <2>2 DEF findEntry, Answer, LikesInv, TypeOK
    <3> QED BY <1>0, <2>1, <2>2, <3>1 DEF Refused, Request
  <2>3. CASE <<q.user, q.target>> \notin entries
    <3>1. request'[r] = [q EXCEPT !.at = "answered", !.answer = "error"]
      BY <1>9, <2>1, <2>3 DEF findEntry, Answer, LikesInv, TypeOK
    <3> QED BY <1>0, <2>1, <2>3, <3>1 DEF Refused, Gone, Request
  <2> QED BY <2>2, <2>3
<1>10. ASSUME NEW s \in Requests,
              \/ findLike(s) \/ deleteLike(s) \/ insertLike(s) \/ count(s)
              \/ findLikes(s) \/ countedDown(s) \/ deleteRows(s) \/ deleteUser(s)
              \/ \E p \in Paintings : countDown(s, p)
       PROVE  Refused(request[r])'
  <2>1. CASE Finish(s)
    BY <1>3, <2>1
  <2>2. CASE ~Finish(s)
    <3>1. request[s].op # "join"
      <4>1. request[s].at \in {"look", "delete", "insert", "count", "countDown", "deleteRows",
                               "deleteUser"}
        BY <1>10
        DEF findLike, deleteLike, insertLike, count, findLikes, countedDown, deleteRows,
            deleteUser, countDown
      <4>2. Shape(request[s])
        BY DEF LikesInv
      <4> QED BY <4>1, <4>2 DEF Shape
    <3>2. s = r /\ request'[r].op = request[r].op
      <4>1. CASE \/ deleteLike(s) \/ insertLike(s) \/ count(s) \/ deleteRows(s) \/ deleteUser(s)
        <5>1. PICK locks, at : Take(s, locks, at)
          BY <2>2, <4>1 DEF deleteLike, insertLike, count, deleteRows, deleteUser
        <5> QED BY <1>0, <5>1 DEF Take, LikesInv, TypeOK, Request
      <4>2. CASE findLike(s)
        BY <1>0, <4>2 DEF findLike, LikesInv, TypeOK, Request
      <4>3. CASE findLikes(s) \/ countedDown(s)
        BY <1>0, <4>3 DEF findLikes, countedDown, LikesInv, TypeOK, Request
      <4>4. CASE \E p \in Paintings : countDown(s, p)
        BY <1>0, <4>4 DEF countDown, LikesInv, TypeOK, Request
      <4> QED BY <1>10, <4>1, <4>2, <4>3, <4>4
    <3> QED BY <3>1, <3>2 DEF Refused
  <2> QED BY <2>1, <2>2
<1>11. CASE Crash
  BY <1>2, <1>11 DEF Crash
<1> QED
  BY <1>3, <1>4, <1>5, <1>6, <1>7, <1>8, <1>9, <1>10, <1>11
  DEF Next, Step, Victim, Forget, commitToggle, commitRemove, setDeadline,
      removeGiveaway, removePainting, vars

LEMMA RefusalsStep == RefusalsInv /\ [Next]_vars => RefusalsInv'
BY LikesStep, RefusedStays, RefusedMoves DEF RefusalsInv

-----------------------------------------------------------------------------
(* Theorems *)

\* The inductive invariant: a request knows its user's likes of every painting
\* that no two requests of that user are at.  (likes.service.ts:20-51,
\* users.service.ts:150-170.)
THEOREM LikesInvariant == Spec => []LikesInv
BY InitLikes, LikesStep, PTL DEF Spec

\* The tables and the requests keep their types.
THEOREM TypeCorrect == Spec => []TypeOK
<1>1. LikesInv => TypeOK
  BY DEF LikesInv
<1> QED BY <1>1, LikesInvariant, PTL

\* The counter next to a painting is the number of its likes, whatever
\* different users, removed accounts, deadlocks and crashes do.
\* (likes.service.ts:20-51, users.service.ts:159-170.)
THEOREM LikesAlwaysCounted == Spec => []LikesCounted
<1>1. LikesInv => LikesCounted
  BY DEF LikesInv
<1> QED BY <1>1, LikesInvariant, PTL

\* Nobody is told "already" who is not in, nor is a second click an error.
\* (giveaways.service.ts:140-170.)
THEOREM RefusalsAlwaysTrue == Spec => []RefusalsAreTrue
<1>1. Init => RefusalsInv
  <2>1. Init => \A r \in Requests : Refused(request[r])
    BY DEF Init, Idle, Refused
  <2> QED BY <2>1, InitLikes DEF RefusalsInv
<1>2. RefusalsInv => RefusalsAreTrue
  BY DEF RefusalsInv, RefusalsAreTrue, Refused, Gone
<1> QED BY <1>1, <1>2, RefusalsStep, PTL DEF Spec

-----------------------------------------------------------------------------
(* The letters about an order.  A letter is composed of the copy of the    *)
(* row that its handler saved, or read, some awaits before: what counts is *)
(* that the copy has said, or was, what the row has said at some time.     *)

\* The row has said what the letter is about to say.
Backed(q) ==
    /\ q.kind = "shipped" => <<"SHIPPED", q.entity.waybill>> \in been
    /\ q.kind = "completed" => \E w \in Waybills \cup {0} : <<"COMPLETED", w>> \in been
    /\ q.kind = "cancelled" => \E w \in Waybills \cup {0} : <<"CANCELLED", w>> \in been

\* A copy that was read and not changed yet was the row once; the receipt of a
\* new order, which reads the row again, speaks of no status.
Truthful(q) ==
    /\ q.at \in {"read", "upload"} => <<q.entity.status, q.entity.waybill>> \in been
    /\ q.op = "status" => q.status \in Statuses
    /\ q.op = "payment" => q.status \in Payments
    /\ q.letter # "none" => q.at = "answered" /\ q.kind # "none" /\ Backed(q)
    /\ q.letter = "fetch" => q.kind \in {"placed", "commission"}

NewsInv ==
    /\ News!TypeOK
    /\ <<"PENDING", 0>> \in been
    /\ News!There => <<row.status, row.waybill>> \in been
    /\ \A r \in Requests : Truthful(handler[r])
    /\ LettersAreTrue

\* What a handler remembers once it has saved its copy and leaves the letter to
\* a job.
JobOf(h, e, kind, step) ==
    [h EXCEPT !.at = "answered", !.entity = e, !.kind = kind, !.letter = step]

LEMMA JobStarts ==
    ASSUME NEW h \in News!Request, NEW e \in News!Row, NEW kind \in News!Kinds,
           NEW step \in {"fetch", "recipient"}
    PROVE  /\ JobOf(h, e, kind, step) \in News!Request
           /\ JobOf(h, e, kind, step).at = "answered" /\ JobOf(h, e, kind, step).letter = step
           /\ JobOf(h, e, kind, step).kind = kind /\ JobOf(h, e, kind, step).entity = e
           /\ JobOf(h, e, kind, step).op = h.op /\ JobOf(h, e, kind, step).status = h.status
BY DEF News!Request, JobOf

LEMMA LetterComposed ==
    ASSUME NEW q \in News!Request, q.kind # "none"
    PROVE  /\ News!Compose(q) \in News!Letter
           /\ News!Compose(q).kind = q.kind
           /\ q.kind = "shipped" => News!Compose(q).waybill = q.entity.waybill
<1> DEFINE all9 == {News!sendOrderPlaced(q.entity), News!sendCommissionPlaced(q.entity),
                  News!sendPaymentProofReceived(q.entity), News!sendPaymentConfirmed(q.entity),
                  News!sendPaymentFailed(q.entity), News!sendOrderShipped(q.entity),
                  News!sendOrderCompleted(q.entity), News!sendOrderCancelled(q.entity),
                  News!sendOrderApology(q.entity)}
<1>1. q.kind \in News!Kinds /\ q.entity.waybill \in Waybills \cup {0}
  BY DEF News!Request, News!Row
<1>2. \A kind \in News!Kinds, w \in Waybills \cup {0} :
        /\ News!Template(kind, w) \in News!Letter
        /\ News!Template(kind, w).kind = kind /\ News!Template(kind, w).waybill = w
  BY DEF News!Letter, News!Template
<1>6. \A l \in all9 : /\ l \in News!Letter
                      /\ l.kind = "shipped" => l.waybill = q.entity.waybill
  <2> SUFFICES ASSUME NEW l \in all9
               PROVE  l \in News!Letter /\ (l.kind = "shipped" => l.waybill = q.entity.waybill)
    OBVIOUS
  <2>1. \E kind \in News!Kinds : \/ l = News!Template(kind, 0) /\ kind # "shipped"
                                 \/ l = News!Template("shipped", q.entity.waybill)
    BY DEF News!Kinds, News!sendOrderPlaced,
       News!sendCommissionPlaced, News!sendPaymentProofReceived, News!sendPaymentConfirmed,
       News!sendPaymentFailed, News!sendOrderShipped, News!sendOrderCompleted,
       News!sendOrderCancelled, News!sendOrderApology
  <2>2. "shipped" \in News!Kinds /\ 0 \in Waybills \cup {0}
    BY DEF News!Kinds
  <2> HIDE DEF all9
  <2>3. CASE l = News!Template("shipped", q.entity.waybill)
    BY <1>1, <1>2, <2>2, <2>3
  <2>4. ASSUME NEW kind \in News!Kinds, l = News!Template(kind, 0), kind # "shipped"
        PROVE  l \in News!Letter /\ l.kind # "shipped"
    BY <1>2, <2>2, <2>4
  <2> QED BY <2>1, <2>3, <2>4
<1>3. \E l \in all9 : l.kind = q.kind
  BY <1>1 DEF News!Kinds, News!Template, News!sendOrderPlaced,
     News!sendCommissionPlaced, News!sendPaymentProofReceived, News!sendPaymentConfirmed,
     News!sendPaymentFailed, News!sendOrderShipped, News!sendOrderCompleted,
     News!sendOrderCancelled, News!sendOrderApology
<1>4. News!Compose(q) = CHOOSE l \in all9 : l.kind = q.kind
  BY DEF News!Compose
<1> HIDE DEF all9
<1>5. News!Compose(q) \in all9 /\ News!Compose(q).kind = q.kind
  BY <1>3, <1>4
<1> QED BY <1>5, <1>6

\* What the row has said it has said.
LEMMA SaidIsSaid ==
    ASSUME NEW q, Truthful(q), been \subseteq been'
    PROVE  Truthful(q)'
BY DEF Truthful, Backed

\* A step of one handler, with what it does to the row and to the letters.
LEMMA OneHandler ==
    ASSUME NewsInv, NEW r \in Requests, NEW q \in News!Request,
           handler' = [handler EXCEPT ![r] = q], Truthful(q)',
           been \subseteq been', row' \in News!Row,
           row'.status # "REMOVED" => <<row'.status, row'.waybill>> \in been',
           outbox' \subseteq News!Letter,
           \A l \in outbox' \ outbox : News!Says(l) \cap been' # {},
           excused' \in BOOLEAN, ops' \in 0 .. MaxOps
    PROVE  NewsInv'
<1>1. handler' \in [Requests -> News!Request]
  BY DEF NewsInv, News!TypeOK
<1>2. ASSUME NEW s \in Requests PROVE Truthful(handler[s])'
  <2>1. CASE s = r
    BY <2>1 DEF NewsInv, News!TypeOK
  <2>2. CASE s # r
    <3>1. PICK u : u = handler[s]
      OBVIOUS
    <3>2. handler'[s] = u /\ Truthful(u)
      BY <2>2, <3>1 DEF NewsInv, News!TypeOK
    <3> QED BY <3>2, SaidIsSaid
  <2> QED BY <2>1, <2>2
<1>3. LettersAreTrue'
  BY DEF NewsInv, LettersAreTrue, News!LettersAreTrue, News!Says
<1> QED BY <1>1, <1>2, <1>3 DEF NewsInv, News!TypeOK, News!There

LEMMA NothingLeft == News!Idle \in News!Request /\ (<<"PENDING", 0>> \in been => Truthful(News!Idle))
BY DEF News!Idle, News!Request, News!Placed, News!Row, News!Kinds, Truthful, Backed

\* A handler is over, or has a step behind it that changes no table.
LEMMA HandlerOver ==
    ASSUME NewsInv, NEW r \in Requests, handler' = [handler EXCEPT ![r] = News!Idle],
           UNCHANGED <<row, outbox, been>>, excused' \in BOOLEAN, ops' \in 0 .. MaxOps
    PROVE  NewsInv'
<1>1. PICK q : q = News!Idle
  OBVIOUS
<1>2. q \in News!Request /\ Truthful(q)
  BY <1>1, NothingLeft DEF NewsInv
<1>3. Truthful(q)'
  BY <1>2, SaidIsSaid
<1> QED BY <1>1, <1>2, <1>3, OneHandler DEF NewsInv, News!TypeOK, News!There

LEMMA HandlerGoesOn ==
    ASSUME NewsInv, NEW r \in Requests, NEW q \in News!Request, Truthful(q),
           handler' = [handler EXCEPT ![r] = q],
           UNCHANGED <<row, outbox, been>>, excused' \in BOOLEAN, ops' \in 0 .. MaxOps
    PROVE  NewsInv'
<1>1. Truthful(q)'
  BY SaidIsSaid
<1> QED BY <1>1, OneHandler DEF NewsInv, News!TypeOK, News!There

\* A letter of what a copy says, once the row has said it.
LEMMA LetterBacked ==
    ASSUME NEW q \in News!Request, <<q.entity.status, q.entity.waybill>> \in been,
           \/ q.kind \notin {"shipped", "completed", "cancelled"}
           \/ q.kind = News!StatusLetter(q.entity)
    PROVE  Backed(q)
BY DEF Backed, News!StatusLetter, News!Request, News!Row

\* The end of a handler that saved a row: the row has said it, and the letter
\* is about the copy that was saved.
LEMMA SavedAnnounced ==
    ASSUME NewsInv, NEW r \in Requests, NEW e \in News!Row, NEW kind \in News!Kinds \cup {"none"},
           \/ kind \notin {"shipped", "completed", "cancelled"}
           \/ kind = News!StatusLetter(e),
           handler' = [handler EXCEPT ![r] = News!Announced(r, e, kind, "recipient")],
           row' = e, been' = been \cup {<<e.status, e.waybill>>},
           UNCHANGED <<outbox, excused, ops>>
    PROVE  NewsInv'
<1>1. PICK q : q = News!Announced(r, e, kind, "recipient")
  OBVIOUS
<1>2. q \in News!Request /\ Truthful(q)'
  <2>1. CASE kind = "none"
    <3>1. q = News!Idle
      BY <1>1, <2>1 DEF News!Announced
    <3>2. Truthful(q)
      BY <3>1, NothingLeft DEF NewsInv
    <3> QED BY <3>1, <3>2, SaidIsSaid, NothingLeft
  <2>2. CASE kind # "none"
    <3>1. PICK h : h = handler[r]
      OBVIOUS
    <3>2. h \in News!Request /\ Truthful(h)
      BY <3>1 DEF NewsInv, News!TypeOK
    <3>3. q = [h EXCEPT !.at = "answered", !.entity = e, !.kind = kind, !.letter = "recipient"]
      BY <1>1, <2>2, <3>1 DEF News!Announced
    <3>4. /\ q.at = "answered" /\ q.entity = e /\ q.kind = kind /\ q.letter = "recipient"
          /\ q.op = h.op /\ q.status = h.status /\ q \in News!Request
      BY <3>2, <3>3 DEF News!Request
    <3>5. /\ kind = "shipped" => e.status = "SHIPPED"
          /\ kind = "completed" => e.status = "COMPLETED"
          /\ kind = "cancelled" => e.status = "CANCELLED"
          /\ e.waybill \in Waybills \cup {0}
      BY DEF News!StatusLetter, News!Row
    <3> QED BY <2>2, <3>2, <3>4, <3>5 DEF Truthful, Backed
  <2> QED BY <2>1, <2>2
<1> QED BY <1>1, <1>2, OneHandler DEF NewsInv, News!TypeOK, News!There

LEMMA NewsBegins ==
    ASSUME NewsInv, NEW r \in Requests, News!Begin(r)
    PROVE  NewsInv'
<1>1. PICK op \in {"status", "payment", "cancel", "proof", "force", "apology"},
           status \in Statuses \cup Payments \cup {"PENDING"} :
        /\ News!Starts(r, op, status)
        /\ op = "status" => status \in Statuses
        /\ op = "payment" => status \in Payments
  BY DEF News!Begin
<1>2. PICK q : q = [News!Idle EXCEPT !.op = op, !.at = "read", !.entity = row, !.status = status]
  OBVIOUS
<1>3. /\ q.op = op /\ q.at = "read" /\ q.entity = row /\ q.status = status
      /\ q.kind = "none" /\ q.letter = "none"
  BY <1>2 DEF News!Idle
<1>4. q \in News!Request
  BY <1>2, LettersAssumption DEF News!NewsAssumption, News!Idle, News!Request, NewsInv, News!TypeOK
<1>5. News!There /\ ops' = ops + 1 /\ ops < MaxOps
      /\ handler' = [handler EXCEPT ![r] = q] /\ UNCHANGED <<row, outbox, been, excused>>
  BY <1>1, <1>2 DEF News!Starts, News!New
<1>6. Truthful(q)
  BY <1>1, <1>3, <1>5 DEF Truthful, NewsInv, Backed
<1>7. excused' \in BOOLEAN /\ ops' \in 0 .. MaxOps
  BY <1>5, LettersAssumption DEF News!NewsAssumption, NewsInv, News!TypeOK
<1> QED BY <1>4, <1>5, <1>6, <1>7, HandlerGoesOn

LEMMA NewsWorks ==
    ASSUME NewsInv, NEW r \in Requests, News!Work(r)
    PROVE  NewsInv'
<1> PICK h : h = handler[r]
  OBVIOUS
<1>1. /\ h \in News!Request /\ Truthful(h)
      /\ excused \in BOOLEAN /\ ops \in 0 .. MaxOps /\ row \in News!Row
  BY DEF NewsInv, News!TypeOK
<1>2. CASE News!Place(r)
  <2>0. PICK kind : kind = IF row.isCommission THEN "commission" ELSE "placed"
    OBVIOUS
  <2>5. kind \in News!Kinds /\ kind \in {"placed", "commission"} /\ row \in News!Row
    BY <1>1, <2>0 DEF News!Kinds
  <2>1. PICK q : q = News!Announced(r, row, kind, "fetch")
    OBVIOUS
  <2>2. q = JobOf(h, row, kind, "fetch")
    BY <2>1, <2>5 DEF News!Announced, JobOf
  <2>3. /\ q.at = "answered" /\ q.letter = "fetch" /\ q.kind \in {"placed", "commission"}
        /\ q.op = h.op /\ q.status = h.status /\ q \in News!Request
    <3>1. h \in News!Request /\ row \in News!Row /\ kind \in News!Kinds
      BY <1>1, <2>5
    <3>2. /\ q.at = "answered" /\ q.letter = "fetch" /\ q.kind = kind
          /\ q.op = h.op /\ q.status = h.status /\ q \in News!Request
      BY <3>1, <2>2, JobStarts
    <3> QED BY <3>2, <2>5
  <2>4. Truthful(q)
    BY <1>1, <2>3 DEF Truthful, Backed
  <2> QED BY <1>1, <1>2, <2>0, <2>1, <2>3, <2>4, HandlerGoesOn DEF News!Place
<1>3. CASE News!fetchPlaced(r)
  <2>1. CASE News!There
    <3>1. PICK q : q = [h EXCEPT !.entity = row, !.letter = "recipient"]
      OBVIOUS
    <3>2. /\ q.at = h.at /\ q.letter = "recipient" /\ q.kind = h.kind /\ q.entity = row
          /\ q.op = h.op /\ q.status = h.status /\ q \in News!Request
      BY <1>1, <3>1 DEF News!Request
    <3>3. Truthful(q)
      BY <1>1, <1>3, <2>1, <3>2 DEF Truthful, Backed, News!fetchPlaced, NewsInv
    <3> QED BY <1>1, <1>3, <2>1, <3>1, <3>2, <3>3, HandlerGoesOn DEF News!fetchPlaced
  <2>2. CASE ~News!There
    BY <1>1, <1>3, <2>2, HandlerOver DEF News!fetchPlaced
  <2> QED BY <2>1, <2>2
<1>4. CASE News!updateStatusAdmin(r)
  <2>1. CASE handler' = [handler EXCEPT ![r] = News!Idle]
    BY <1>1, <1>4, <2>1, HandlerOver DEF News!updateStatusAdmin
  <2>2. ASSUME NEW w \in Waybills \cup {0},
               handler' = [handler EXCEPT ![r] = [h EXCEPT !.at = "decided", !.entity.waybill = w]]
        PROVE  NewsInv'
    <3>1. PICK q : q = [h EXCEPT !.at = "decided", !.entity.waybill = w]
      OBVIOUS
    <3>5. PICK e : e = [h.entity EXCEPT !.waybill = w]
      OBVIOUS
    <3>6. e \in News!Row
      BY <1>1, <3>5 DEF News!Request, News!Row
    <3>7. q = [h EXCEPT !.at = "decided", !.entity = e]
      BY <1>1, <3>1, <3>5 DEF News!Request
    <3>2. /\ q.at = "decided" /\ q.letter = h.letter /\ q.kind = h.kind
          /\ q.op = h.op /\ q.status = h.status /\ q \in News!Request
      BY <1>1, <3>6, <3>7 DEF News!Request
    <3>3. h.letter = "none"
      BY <1>1, <1>4 DEF News!updateStatusAdmin, Truthful
    <3>4. Truthful(q)
      BY <1>1, <3>2, <3>3 DEF Truthful
    <3> QED BY <1>1, <1>4, <2>2, <3>1, <3>2, <3>4, HandlerGoesOn DEF News!updateStatusAdmin
  <2>3. h.entity.waybill \in Waybills \cup {0}
    BY <1>1 DEF News!Request, News!Row
  <2> QED BY <1>4, <2>1, <2>2, <2>3 DEF News!updateStatusAdmin
<1>5. CASE News!saveStatus(r)
  <2>1. PICK e : e = [h.entity EXCEPT !.status = h.status]
    OBVIOUS
  <2>2. e \in News!Row /\ News!StatusLetter(e) \in News!Kinds \cup {"none"}
    BY <1>1, <1>5, <2>1, LettersAssumption DEF News!NewsAssumption, News!saveStatus, Truthful,
       News!Request, News!Row, News!StatusLetter, News!Kinds
  <2>3. CASE News!Saved(e) /\ handler' = [handler EXCEPT ![r] =
               News!Announced(r, e, News!StatusLetter(e), "recipient")]
    BY <1>5, <2>2, <2>3, SavedAnnounced DEF News!saveStatus, News!Saved
  <2>4. CASE handler' = [handler EXCEPT ![r] = News!Idle] /\ UNCHANGED <<row, been>>
    BY <1>1, <1>5, <2>4, HandlerOver DEF News!saveStatus
  <2> QED BY <1>5, <2>1, <2>3, <2>4 DEF News!saveStatus
<1>6. CASE News!updatePaymentStatusAdmin(r)
  <2>1. PICK e : e = [h.entity EXCEPT !.payment = h.status]
    OBVIOUS
  <2>2. e \in News!Row
    BY <1>1, <1>6, <2>1, LettersAssumption DEF News!NewsAssumption,
       News!updatePaymentStatusAdmin, Truthful, News!Request, News!Row
  <2>3. News!PaymentLetter(e.payment) \in {"paid", "failed", "none"}
    BY DEF News!PaymentLetter
  <2>4. /\ News!PaymentLetter(e.payment) \in News!Kinds \cup {"none"}
        /\ News!PaymentLetter(e.payment) \notin {"shipped", "completed", "cancelled"}
    BY <2>3 DEF News!Kinds
  <2> QED BY <1>6, <2>1, <2>2, <2>4, SavedAnnounced DEF News!updatePaymentStatusAdmin, News!Saved
<1>7. CASE News!cancel(r)
  <2>1. PICK e : e = [h.entity EXCEPT !.status = "CANCELLED"]
    OBVIOUS
  <2>2. e \in News!Row
    BY <1>1, <2>1 DEF News!Request, News!Row
  <2>3. CASE News!Saved(e) /\ handler' = [handler EXCEPT ![r] = News!Announced(r, e, "none", "none")]
    <3>1. News!Announced(r, e, "none", "none") = News!Announced(r, e, "none", "recipient")
      BY DEF News!Announced
    <3> QED BY <1>7, <2>2, <2>3, <3>1, SavedAnnounced DEF News!cancel, News!Saved
  <2>4. CASE handler' = [handler EXCEPT ![r] = News!Idle] /\ UNCHANGED <<row, been>>
    BY <1>1, <1>7, <2>4, HandlerOver DEF News!cancel
  <2> QED BY <1>7, <2>1, <2>3, <2>4 DEF News!cancel
<1>8. CASE News!upload(r)
  <2>1. CASE handler' = [handler EXCEPT ![r] = News!Idle]
    BY <1>1, <1>8, <2>1, HandlerOver DEF News!upload
  <2>2. CASE handler' = [handler EXCEPT ![r].at = "upload"]
    <3>1. PICK q : q = [h EXCEPT !.at = "upload"]
      OBVIOUS
    <3>2. /\ q.at = "upload" /\ q.letter = h.letter /\ q.kind = h.kind /\ q.entity = h.entity
          /\ q.op = h.op /\ q.status = h.status /\ q \in News!Request
      BY <1>1, <3>1 DEF News!Request
    <3>3. Truthful(q)
      BY <1>1, <1>8, <3>2 DEF Truthful, Backed, News!upload
    <3>4. handler' = [handler EXCEPT ![r] = q]
      BY <2>2, <3>1
    <3> QED BY <1>1, <1>8, <3>2, <3>3, <3>4, HandlerGoesOn DEF News!upload
  <2> QED BY <1>8, <2>1, <2>2 DEF News!upload
<1>9. CASE News!uploadPaymentProof(r)
  <2>1. PICK e : e = h.entity
    OBVIOUS
  <2>2. e \in News!Row /\ "proof" \in News!Kinds
    BY <1>1, <2>1 DEF News!Request, News!Kinds
  <2> QED BY <1>9, <2>1, <2>2, SavedAnnounced DEF News!uploadPaymentProof, News!Saved
<1>10. CASE News!sendMailAdmin(r)
  <2>1. PICK kind : kind = IF h.op = "apology" THEN "apology" ELSE News!DemandLetter(h.entity)
    OBVIOUS
  <2>2. /\ kind \in News!Kinds \cup {"none"}
        /\ kind \notin {"shipped", "completed", "cancelled"} \/ kind = News!StatusLetter(h.entity)
    BY <2>1 DEF News!DemandLetter, News!StatusLetter, News!Kinds
  <2>3. handler' = [handler EXCEPT ![r] = News!Announced(r, h.entity, kind, "recipient")]
    BY <1>10, <2>1 DEF News!sendMailAdmin
  <2>4. CASE kind = "none"
    BY <1>1, <1>10, <2>3, <2>4, HandlerOver DEF News!sendMailAdmin, News!Announced
  <2>5. CASE kind # "none"
    <3>1. PICK q : q = JobOf(h, h.entity, kind, "recipient")
      OBVIOUS
    <3>6. kind \in News!Kinds
      BY <2>2, <2>5
    <3>7. h.entity \in News!Row
      BY <1>1 DEF News!Request
    <3>2. /\ q.at = "answered" /\ q.letter = "recipient" /\ q.kind = kind /\ q.entity = h.entity
          /\ q.op = h.op /\ q.status = h.status /\ q \in News!Request
      <4>1. h \in News!Request
        BY <1>1
      <4> QED BY <4>1, <3>6, <3>7, <3>1, JobStarts
    <3>3. Backed(q)
      BY <1>1, <1>10, <2>2, <3>2, LetterBacked DEF News!sendMailAdmin, Truthful
    <3>4. Truthful(q)
      BY <1>1, <2>5, <3>2, <3>3 DEF Truthful
    <3>5. handler' = [handler EXCEPT ![r] = q]
      BY <2>3, <2>5, <3>1 DEF News!Announced, JobOf
    <3> QED BY <1>1, <1>10, <3>2, <3>4, <3>5, HandlerGoesOn DEF News!sendMailAdmin
  <2> QED BY <2>4, <2>5
<1>11. CASE News!recipientOf(r) \/ News!dedupe(r)
  <2>1. CASE handler' = [handler EXCEPT ![r] = News!Idle]
    BY <1>1, <1>11, <2>1, HandlerOver DEF News!recipientOf, News!dedupe
  <2>2. ASSUME NEW step \in {"queue", "dedupe"}, h.letter \in {"recipient", "dedupe"},
               handler' = [handler EXCEPT ![r] = [h EXCEPT !.letter = step]]
        PROVE  NewsInv'
    <3>1. PICK q : q = [h EXCEPT !.letter = step]
      OBVIOUS
    <3>2. /\ q.at = h.at /\ q.letter = step /\ q.kind = h.kind /\ q.entity = h.entity
          /\ q.op = h.op /\ q.status = h.status /\ q \in News!Request
      BY <1>1, <3>1 DEF News!Request
    <3>3. Truthful(q)
      BY <1>1, <2>2, <3>2 DEF Truthful, Backed
    <3> QED BY <1>1, <1>11, <2>2, <3>1, <3>2, <3>3, HandlerGoesOn DEF News!recipientOf, News!dedupe
  <2> QED BY <1>11, <2>1, <2>2 DEF News!recipientOf, News!dedupe
<1>12. CASE News!queue(r)
  <2>1. PICK l : l = News!Compose(h)
    OBVIOUS
  <2>2. h.kind # "none" /\ Backed(h)
    BY <1>1, <1>12 DEF News!queue, Truthful
  <2>3. /\ l \in News!Letter /\ l.kind = h.kind
        /\ h.kind = "shipped" => l.waybill = h.entity.waybill
    BY <1>1, <2>1, <2>2, LetterComposed
  <2>4. News!Says(l) \cap been # {}
    BY <2>2, <2>3 DEF News!Says, Backed, NewsInv
  <2>5. PICK q : q = News!Idle
    OBVIOUS
  <2>6. q \in News!Request /\ Truthful(q)
    BY <2>5, NothingLeft DEF NewsInv
  <2>7. /\ handler' = [handler EXCEPT ![r] = q] /\ UNCHANGED <<row, been, ops>>
        /\ excused' \in BOOLEAN /\ outbox' \subseteq outbox \cup {l}
    BY <1>1, <1>12, <2>1, <2>5 DEF News!queue
  <2>8. Truthful(q)'
    BY <2>6, <2>7, SaidIsSaid
  <2>9. /\ outbox' \subseteq News!Letter
        /\ \A x \in outbox' \ outbox : News!Says(x) \cap been' # {}
    BY <2>3, <2>4, <2>7 DEF NewsInv, News!TypeOK
  <2> QED BY <1>1, <2>6, <2>7, <2>8, <2>9, OneHandler DEF NewsInv, News!There
<1> QED BY <1>2, <1>3, <1>4, <1>5, <1>6, <1>7, <1>8, <1>9, <1>10, <1>11, <1>12 DEF News!Work

LEMMA NewsStays == NewsInv /\ [News!Next]_news => NewsInv'
<1> SUFFICES ASSUME NewsInv, [News!Next]_news PROVE NewsInv'
  OBVIOUS
<1>1. CASE UNCHANGED news
  BY <1>1 DEF news, NewsInv, News!TypeOK, News!There, Truthful, Backed, LettersAreTrue,
     News!LettersAreTrue
<1>2. CASE News!removeAdmin
  BY <1>2 DEF News!removeAdmin, NewsInv, News!TypeOK, News!Row, News!There, Truthful, Backed,
     LettersAreTrue, News!LettersAreTrue
<1>3. CASE News!GiveUp
  <2>1. PICK l \in outbox : outbox' = (outbox \ {l}) \cup {[l EXCEPT !.live = FALSE]}
    BY <1>3 DEF News!GiveUp
  <2>2. PICK x : x = [l EXCEPT !.live = FALSE]
    OBVIOUS
  <2>3. x \in News!Letter /\ x.kind = l.kind /\ x.waybill = l.waybill
    BY <2>2 DEF NewsInv, News!TypeOK, News!Letter
  <2>4. News!Says(x) = News!Says(l)
    BY <2>3 DEF News!Says
  <2>5. UNCHANGED <<row, handler, been, excused, ops>>
    BY <1>3 DEF News!GiveUp
  <2> QED BY <2>1, <2>2, <2>3, <2>4, <2>5 DEF NewsInv, News!TypeOK, News!There, Truthful, Backed,
       LettersAreTrue, News!LettersAreTrue
<1>4. CASE News!Crash
  <2>1. PICK q : q = News!Idle
    OBVIOUS
  <2>2. q \in News!Request /\ Truthful(q)
    BY <2>1, NothingLeft DEF NewsInv
  <2>3. Truthful(q)'
    BY <1>4, <2>2, SaidIsSaid DEF News!Crash
  <2>4. /\ handler' = [r \in Requests |-> q] /\ UNCHANGED <<row, outbox, been, ops>>
        /\ excused' \in BOOLEAN
    BY <1>4, <2>1 DEF News!Crash
  <2> QED BY <2>2, <2>3, <2>4 DEF NewsInv, News!TypeOK, News!There, LettersAreTrue,
       News!LettersAreTrue
<1> QED BY <1>1, <1>2, <1>3, <1>4, NewsBegins, NewsWorks DEF News!Next

LEMMA NewsStarts == News!Init => NewsInv
<1> SUFFICES ASSUME News!Init PROVE NewsInv
  OBVIOUS
<1>1. PICK q : q = [News!Idle EXCEPT !.op = "place", !.at = "read"]
  OBVIOUS
<1>2. /\ q \in News!Request /\ q.op = "place" /\ q.at = "read" /\ q.letter = "none"
      /\ q.entity = News!Placed(FALSE)
  BY <1>1 DEF News!Idle, News!Request, News!Placed, News!Row, News!Kinds
<1>3. <<"PENDING", 0>> \in been
  BY DEF News!Init
<1>4. Truthful(q) /\ Truthful(News!Idle) /\ News!Idle \in News!Request
  BY <1>2, <1>3, NothingLeft DEF Truthful, News!Placed
<1>5. \A r \in Requests : handler[r] \in {q, News!Idle}
  BY <1>1 DEF News!Init
<1>6. handler \in [Requests -> News!Request]
  BY <1>1, <1>2, <1>4 DEF News!Init
<1>7. row \in News!Row /\ <<row.status, row.waybill>> \in been
  BY DEF News!Init, News!Placed, News!Row
<1>8. \A r \in Requests : Truthful(handler[r])
  BY <1>4, <1>5
<1>9. outbox = {} /\ excused \in BOOLEAN /\ ops \in 0 .. MaxOps
  <2>1. outbox = {} /\ excused = FALSE /\ ops = 0
    BY DEF News!Init
  <2>2. ops \in 0 .. MaxOps
    BY <2>1, LettersAssumption DEF News!NewsAssumption
  <2>3. excused \in BOOLEAN
    BY <2>1, Zenon
  <2> QED BY <2>1, <2>2, <2>3, Zenon
<1>10. News!TypeOK /\ News!There
  BY <1>6, <1>7, <1>9 DEF News!TypeOK, News!There, News!Init, News!Placed
<1>11. LettersAreTrue
  BY <1>9 DEF LettersAreTrue, News!LettersAreTrue
<1> QED BY <1>3, <1>7, <1>8, <1>10, <1>11 DEF NewsInv

\* However many requests on the order overlap: no customer is written of a status
\* the order has not had, or of a waybill it was not sent with.
\* (orders.service.ts:915-1060, 1062-1192.)
THEOREM LettersAlwaysTrue == MCSpec => []LettersAreTrue
<1>1. MCInit => NewsInv
  BY NewsStarts DEF MCInit
<1>2. NewsInv /\ [CommunityStep \/ NewsStep]_all => NewsInv'
  <2>1. [CommunityStep \/ NewsStep]_all => [News!Next]_news
    BY DEF CommunityStep, NewsStep, all, news
  <2> QED BY <2>1, NewsStays
<1>3. NewsInv => LettersAreTrue
  BY DEF NewsInv
<1> QED BY <1>1, <1>2, <1>3, PTL DEF MCSpec
=============================================================================
