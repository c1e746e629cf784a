--------------------------- MODULE SessionsProofs ---------------------------
(***************************************************************************)
(* Theorems about Sessions.                                                *)
(*                                                                         *)
(* The table of sessions and the history of the tokens are moved by three  *)
(* kinds of steps only: some rows are deleted, a row is added, or a row is *)
(* given its next token.  Each goes `Forward'; a request that was sound    *)
(* stays so while others go forward, and is sound after its own step.      *)
(***************************************************************************)
EXTENDS Sessions, TLAPS

USE SessionsAssumption

\* The part of the invariant about rows and tokens.
Rows ==
    /\ session \in [Tokens -> Tokens \cup {0}]
    /\ issued \in 0 .. MaxTokens
    /\ token \in [Tokens -> [row : Tokens \cup {0}, of : Tokens \cup {0}]]
    /\ \A t \in Tokens : t > issued =>
            /\ token[t] = Free
            /\ session[t] = 0
            /\ \A u \in Tokens : session[u] # t /\ token[u].of # t
    /\ ReplacedOnce
    /\ RotatedIsDead

\* ... about one request ...
Sound ==
    {q \in Request :
        /\ q.cookie <= issued
        /\ q.answer <= issued
        /\ q.at = "alarm" => q.cookie # 0 /\ HeldBy(q.cookie) = {}
        /\ Ended(q) => OldSessions(q) = {}
        /\ OnItsWay(q)}

\* ... and about the rest.
Rest ==
    /\ account \in Account
    /\ link \in [Links -> {"free", "live", "used", "gone"}]
    /\ jar \in [Browsers -> Tokens \cup {0}]
    /\ \A j \in Browsers : jar[j] <= issued
    /\ page \in [Tabs -> Page]
    /\ expired \subseteq Tokens

Requested == /\ request \in [Requests -> Request]
             /\ \A r \in Requests : request[r] \in Sound

\* Sessions end for good, no token returns, and history is not rewritten.
Forward ==
    /\ issued <= issued'
    /\ \A t \in Tokens : t <= issued => token'[t] = token[t]
    /\ \A i \in Tokens :
        session'[i] # 0 =>
            /\ i <= issued => session[i] # 0
            /\ session'[i] = session[i] \/ session'[i] > issued

\* The parts are the whole.
LEMMA Parts == SessionInv <=> Rows /\ Rest /\ Requested
<1> USE DEF SessionInv, TypeOK, TokensAreSigned, AlarmIsTrue, OldSessionsEnd,
            Progress, At, Rows, Rest, Requested, Sound
<1>1. ASSUME SessionInv PROVE Rows /\ Rest /\ Requested
  <2>1. \A j \in Browsers : jar[j] <= issued
    BY <1>1 DEF Tokens
  <2>2. \A r \in Requests :
            request[r].cookie <= issued /\ request[r].answer <= issued
    <3>1. \A r \in Requests : request[r].cookie \in Tokens \cup {0}
                              /\ request[r].answer \in Tokens \cup {0}
      BY <1>1 DEF Request
    <3> QED BY <1>1, <3>1 DEF Tokens
  <2> QED BY <1>1, <2>1, <2>2
<1>2. ASSUME Rows, Rest, Requested PROVE SessionInv
  <2>1. \A t \in Tokens : t > issued =>
            /\ \A j \in Browsers : jar[j] # t
            /\ \A r \in Requests : request[r].cookie # t /\ request[r].answer # t
    <3>1. \A r \in Requests : request[r].cookie \in Tokens \cup {0}
                              /\ request[r].answer \in Tokens \cup {0}
      BY <1>2 DEF Request
    <3> QED BY <1>2, <3>1 DEF Tokens
  <2> QED BY <1>2, <2>1
<1> QED BY <1>1, <1>2

\* A request is as sound as before when the table went forward.
LEMMA SoundStays ==
    ASSUME Rows, issued' \in 0 .. MaxTokens,
           session' \in [Tokens -> Tokens \cup {0}], Forward, NEW q \in Sound
    PROVE  q \in Sound'
<1>1. q \in Request /\ q.cookie \in Tokens \cup {0} /\ q.mark \in Nat
  BY DEF Sound, Request
<1>2. q.cookie <= issued' /\ q.answer <= issued' /\ q.mark <= issued'
  <2>1. q.answer \in Tokens \cup {0}
    BY DEF Sound, Request
  <2> QED BY <1>1, <2>1 DEF Sound, OnItsWay, Forward, Rows, Tokens
<1>3. q.at = "alarm" => HeldBy(q.cookie)' = {}
  <2>1. SUFFICES ASSUME q.at = "alarm", NEW i \in Tokens, session'[i] # 0,
                        session'[i] = q.cookie
                 PROVE FALSE
    BY DEF HeldBy
  <2>2. session'[i] = session[i] \/ session'[i] > issued
    BY <2>1 DEF Forward
  <2>3. session'[i] = session[i]
    BY <1>1, <2>1, <2>2 DEF Sound, Rows, Tokens
  <2> QED BY <2>1, <2>3 DEF Sound, HeldBy
<1>4. OldSessions(q)' \subseteq OldSessions(q)
  <2>1. Kept(q)' = Kept(q)
    BY <1>1 DEF Kept, Forward, Sound, Tokens
  <2>2. \A i \in Live' : i <= q.mark => i \in Live
    BY <1>1 DEF Live, Forward, Sound, OnItsWay, Rows, Tokens
  <2> QED BY <2>1, <2>2 DEF OldSessions
<1> QED BY <1>1, <1>2, <1>3, <1>4 DEF Sound, Ended, OnItsWay

\* The other requests, when one changed.
LEMMA OneRequest ==
    ASSUME Rows, Rows', Forward, Requested, NEW r \in Requests, NEW q \in Sound',
           request' = [request EXCEPT ![r] = q]
    PROVE  Requested'
<1>1. issued' \in 0 .. MaxTokens /\ session' \in [Tokens -> Tokens \cup {0}]
  BY DEF Rows
<1>2. \A p \in Requests : request'[p] \in Sound'
  <2>1. \A p \in Requests : request[p] \in Sound'
    BY <1>1, SoundStays DEF Requested
  <2> QED BY <2>1 DEF Requested
<1>3. request' \in [Requests -> Request]
  BY DEF Requested, Sound
<1> QED BY <1>2, <1>3 DEF Requested

\* Nothing happens to the rows, ...
LEMMA RowsStay ==
    ASSUME Rows, UNCHANGED <<session, issued, token>>
    PROVE  Rows' /\ Forward
BY DEF Rows, Forward, ReplacedOnce, RotatedIsDead, Live, Tokens

\* ... some are deleted, ...
LEMMA RowsEnd ==
    ASSUME Rows, NEW rows, EndSessions(rows), UNCHANGED <<issued, token>>
    PROVE  Rows' /\ Forward
<1>1. /\ session' \in [Tokens -> Tokens \cup {0}]
      /\ \A i \in Tokens : session'[i] = 0 \/ session'[i] = session[i]
  BY DEF EndSessions, Without, Rows
<1> QED BY <1>1 DEF Rows, Forward, ReplacedOnce, RotatedIsDead, Live, Tokens

\* ... one is added, ...
LEMMA RowAdded ==
    ASSUME Rows, Sign(NextToken, 0), NEW swept,
           session' = [Without(swept) EXCEPT ![NextToken] = NextToken]
    PROVE  Rows' /\ Forward
<1> DEFINE n == issued + 1
<1>1. n \in Tokens /\ issued' = n /\ n > issued
  BY DEF Sign, NextToken, Rows, Tokens
<1>2. token' = [token EXCEPT ![n] = [row |-> n, of |-> 0]]
  BY DEF Sign, NextToken
<1>3. /\ session' \in [Tokens -> Tokens \cup {0}]
      /\ session'[n] = n
      /\ \A i \in Tokens \ {n} : session'[i] = 0 \/ session'[i] = session[i]
  BY <1>1 DEF Without, NextToken, Rows
<1>4. /\ token' \in [Tokens -> [row : Tokens \cup {0}, of : Tokens \cup {0}]]
      /\ token'[n].row = n /\ token'[n].of = 0
      /\ \A t \in Tokens \ {n} : token'[t] = token[t]
  BY <1>1, <1>2 DEF Rows
<1>0. /\ issued \in Nat /\ Tokens \subseteq Nat /\ n # 0
      /\ session \in [Tokens -> Tokens \cup {0}]
      /\ \A t \in Tokens : session[t] # n /\ token[t].of # n
      /\ \A t \in Tokens : t > n => t > issued
  BY <1>1 DEF Rows, Tokens
<1> HIDE DEF n
<1>5. Forward
  <2>1. \A t \in Tokens : t <= issued => t # n
    BY <1>0, <1>1
  <2>2. ASSUME NEW i \in Tokens, session'[i] # 0
        PROVE  /\ i <= issued => session[i] # 0
               /\ session'[i] = session[i] \/ session'[i] > issued
    <3>1. CASE i = n
      BY <1>0, <1>1, <1>3, <3>1
    <3>2. CASE i # n
      BY <1>3, <2>2, <3>2
    <3> QED BY <3>1, <3>2
  <2>3. issued <= issued'
    BY <1>0, <1>1
  <2> QED BY <1>4, <2>1, <2>2, <2>3 DEF Forward
<1>6. ReplacedOnce'
  BY <1>1, <1>4 DEF ReplacedOnce, Rows, Tokens
<1>7. RotatedIsDead'
  <2>1. SUFFICES ASSUME NEW i \in Tokens, session'[i] # 0, NEW u \in Tokens
                 PROVE  token'[session'[i]].row = i /\ token'[u].of # session'[i]
    BY DEF RotatedIsDead, Live
  <2>2. CASE i = n
    BY <1>0, <1>1, <1>3, <1>4, <2>2
  <2>3. CASE i # n
    <3>1. session'[i] = session[i] /\ session[i] \in Tokens /\ session[i] # n
      BY <1>0, <1>3, <2>1, <2>3
    <3>2. token[session[i]].row = i /\ \A v \in Tokens : token[v].of # session[i]
      BY <2>1, <3>1 DEF Rows, RotatedIsDead, Live
    <3> QED BY <1>0, <1>4, <2>1, <3>1, <3>2
  <2> QED BY <2>2, <2>3
<1>8. ASSUME NEW t \in Tokens, t > issued'
      PROVE  /\ token'[t] = Free
             /\ session'[t] = 0
             /\ \A u \in Tokens : session'[u] # t /\ token'[u].of # t
  <2>1. /\ t # n /\ token[t] = Free /\ session[t] = 0
        /\ \A u \in Tokens : session[u] # t /\ token[u].of # t
    BY <1>0, <1>1, <1>8 DEF Rows
  <2>2. ASSUME NEW u \in Tokens PROVE session'[u] # t /\ token'[u].of # t
    <3>1. CASE u = n
      BY <1>0, <1>3, <1>4, <2>1, <3>1
    <3>2. CASE u # n
      BY <1>0, <1>3, <1>4, <2>1, <3>2
    <3> QED BY <3>1, <3>2
  <2>3. session'[t] = 0
    BY <1>3, <2>1
  <2> QED BY <1>4, <2>1, <2>2, <2>3
<1>9. issued' \in 0 .. MaxTokens
  BY <1>1 DEF Tokens
<1> QED BY <1>3, <1>4, <1>5, <1>6, <1>7, <1>8, <1>9 DEF Rows

\* ... or one is given its next token, if it still holds the one presented.
LEMMA RowRotated ==
    ASSUME Rows, NEW i \in Tokens, NEW t \in Tokens, Holds(i, t), Sign(i, t),
           session' = [session EXCEPT ![i] = NextToken]
    PROVE  Rows' /\ Forward
<1> DEFINE n == issued + 1
<1>1. n \in Tokens /\ issued' = n /\ n > issued
  BY DEF Sign, NextToken, Rows, Tokens
<1>2. token' = [token EXCEPT ![n] = [row |-> i, of |-> t]]
  BY DEF Sign, NextToken
<1>3. /\ session' \in [Tokens -> Tokens \cup {0}]
      /\ session'[i] = n
      /\ \A j \in Tokens \ {i} : session'[j] = session[j]
  BY <1>1 DEF NextToken, Rows
<1>4. /\ token' \in [Tokens -> [row : Tokens \cup {0}, of : Tokens \cup {0}]]
      /\ token'[n].row = i /\ token'[n].of = t
      /\ \A u \in Tokens \ {n} : token'[u] = token[u]
  BY <1>1, <1>2 DEF Rows
<1>5. session[i] = t /\ t # 0 /\ t <= issued /\ i <= issued /\ token[t].row = i
  BY DEF Holds, Rows, Tokens, RotatedIsDead, Live
<1>6. \A u \in Tokens : token[u].of # t
  BY <1>5 DEF Rows, RotatedIsDead, Live, Tokens
<1> HIDE DEF n
<1>7. Forward
  BY <1>1, <1>3, <1>4, <1>5 DEF Forward, Rows, Tokens
<1>8. ReplacedOnce'
  BY <1>1, <1>4, <1>6 DEF ReplacedOnce, Rows, Tokens
<1>9. RotatedIsDead'
  <2>1. SUFFICES ASSUME NEW j \in Tokens, session'[j] # 0, NEW u \in Tokens
                 PROVE  token'[session'[j]].row = j /\ token'[u].of # session'[j]
    BY DEF RotatedIsDead, Live
  <2>2. CASE j = i
    BY <1>1, <1>3, <1>4, <1>5, <2>2 DEF Rows, Tokens
  <2>3. CASE j # i
    <3>1. session'[j] = session[j] /\ session[j] \in Tokens /\ session[j] # n
      BY <1>1, <1>3, <2>1, <2>3 DEF Rows, Tokens
    <3>2. token[session[j]].row = j /\ \A v \in Tokens : token[v].of # session[j]
      BY <2>1, <3>1 DEF Rows, RotatedIsDead, Live
    <3>3. session[j] # t
      BY <1>5, <2>3, <3>2
    <3> QED BY <1>4, <3>1, <3>2, <3>3
  <2> QED BY <2>2, <2>3
<1>10. ASSUME NEW u \in Tokens, u > issued'
       PROVE  /\ token'[u] = Free
              /\ session'[u] = 0
              /\ \A v \in Tokens : session'[v] # u /\ token'[v].of # u
  BY <1>1, <1>3, <1>4, <1>5, <1>10 DEF Rows, Tokens
<1>11. issued' \in 0 .. MaxTokens
  BY <1>1 DEF Tokens
<1> QED BY <1>3, <1>4, <1>7, <1>8, <1>9, <1>10, <1>11 DEF Rows

\* A token is signed that no row takes.
LEMMA TokenWasted ==
    ASSUME Rows, NEW i \in Tokens, Sign(i, 0), UNCHANGED session
    PROVE  Rows' /\ Forward
<1> DEFINE n == issued + 1
<1>1. n \in Tokens /\ issued' = n /\ n > issued /\ issued \in Nat
  BY DEF Sign, NextToken, Rows, Tokens
<1>2. token' = [token EXCEPT ![n] = [row |-> i, of |-> 0]]
  BY DEF Sign, NextToken
<1>3. /\ token' \in [Tokens -> [row : Tokens \cup {0}, of : Tokens \cup {0}]]
      /\ token'[n].of = 0
      /\ \A u \in Tokens \ {n} : token'[u] = token[u]
  BY <1>1, <1>2 DEF Rows
<1>4. \A u \in Tokens : token[u].of # n /\ session[u] # n
  BY <1>1 DEF Rows, Tokens
<1> HIDE DEF n
<1>5. Forward
  BY <1>1, <1>3 DEF Forward, Rows, Tokens
<1>6. ReplacedOnce'
  BY <1>1, <1>3 DEF ReplacedOnce, Rows, Tokens
<1>7. RotatedIsDead'
  BY <1>1, <1>3, <1>4 DEF RotatedIsDead, Live, Rows, Tokens
<1>8. ASSUME NEW u \in Tokens, u > issued'
      PROVE  /\ token'[u] = Free
             /\ session'[u] = 0
             /\ \A v \in Tokens : session'[v] # u /\ token'[v].of # u
  BY <1>1, <1>3, <1>8 DEF Rows, Tokens
<1>9. issued' \in 0 .. MaxTokens
  BY <1>1 DEF Tokens
<1> QED BY <1>3, <1>5, <1>6, <1>7, <1>8, <1>9 DEF Rows

-----------------------------------------------------------------------------
(* What a handler may make of its request *)

\* Where there is no mark there are no old sessions.
LEMMA NoMark ==
    ASSUME NEW q, q.mark = 0
    PROVE  OldSessions(q) = {}
BY DEF OldSessions, Live, Tokens

\* A handler may end, if no old sessions are left or it did not succeed ...
LEMMA MayFinish ==
    ASSUME Rows, NEW q \in Sound,
           NEW result \in {"open", "done", "cleared", "refused"},
           result = "refused" \/ OldSessions(q) = {}
    PROVE  [q EXCEPT !.at = "answered", !.result = result, !.answer = 0,
                     !.row = 0, !.todo = {}, !.given = None, !.new = None]
                \in Sound
<1> DEFINE p == [q EXCEPT !.at = "answered", !.result = result, !.answer = 0,
                          !.row = 0, !.todo = {}, !.given = None, !.new = None]
<1>1. q \in Request
  BY DEF Sound
<1>2. /\ p \in Request /\ p.op = q.op /\ p.cookie = q.cookie /\ p.mark = q.mark
      /\ p.at = "answered" /\ p.result = result /\ p.answer = 0
  <2>1. p \in Request
    BY <1>1 DEF Request, Steps
  <2>2. p.op = q.op /\ p.cookie = q.cookie /\ p.mark = q.mark
    BY <1>1 DEF Request
  <2>3. p.at = "answered" /\ p.result = result /\ p.answer = 0
    BY <1>1 DEF Request
  <2> QED BY <2>1, <2>2, <2>3
<1> HIDE DEF p
<1>3. OldSessions(p) = OldSessions(q)
  BY <1>2 DEF OldSessions, Kept
<1>4. p.cookie <= issued /\ p.answer <= issued /\ p.mark <= issued
  <2>1. issued \in Nat
    BY DEF Rows
  <2> QED BY <1>2, <2>1 DEF Sound, OnItsWay
<1>5. OnItsWay(p)
  BY <1>2, <1>4 DEF OnItsWay
<1> QED BY <1>2, <1>3, <1>4, <1>5 DEF Sound, Ended, p

\* ... or go on.
LEMMA MayGo ==
    ASSUME NEW q \in Sound, NEW step \in Steps \ {"alarm", "answered", "endEach"},
           step = "open" => OldSessions(q) = {},
           q.mark = 0 \/ step \in {"spend", "list", "endAll", "open"},
           step = "list" => q.op = "change",
           step = "setPassword" => q.op \in {"reset", "change"},
           step = "findLink" => q.op = "reset",
           step # "guard",
           step = "compare" => q.op \in {"login", "change"},
           step \in {"findSession", "findUser", "rotate"} => q.cookie # 0,
           step \in {"findUser", "rotate"} => q.row \in Tokens,
           q.at # "answered"
    PROVE  [q EXCEPT !.at = step] \in Sound
<1> DEFINE p == [q EXCEPT !.at = step]
<1>1. q \in Request
  BY DEF Sound
<1>2. /\ p \in Request /\ p.op = q.op /\ p.cookie = q.cookie /\ p.mark = q.mark
      /\ p.at = step /\ p.answer = q.answer /\ p.row = q.row
      /\ p.result = q.result
  BY <1>1 DEF Request
<1> HIDE DEF p
<1>3. OldSessions(p) = OldSessions(q)
  BY <1>2 DEF OldSessions, Kept
<1>4. /\ p.cookie <= issued /\ p.answer <= issued /\ p.mark <= issued
      /\ p.result = "open"
  BY <1>2 DEF Sound, OnItsWay
<1>5. OnItsWay(p)
  BY <1>2, <1>4 DEF OnItsWay
<1> QED BY <1>2, <1>3, <1>4, <1>5 DEF Sound, Ended, p

\* The request that a visit sends.
LEMMA SentSound ==
    ASSUME Rows, Rest, NEW t \in Tabs, NEW row \in Nat,
           NEW op \in WaysIn \cup Refreshes \cup Mails \cup SignedIn,
           NEW step \in {"findByEmail", "compare", "findByGoogleId", "verify",
                         "forget", "guard", "findLink"},
           step = "compare" => op = "login",
           step = "findLink" => op = "reset",
           step = "guard" => op \in {"logoutAll", "endSession", "change"},
           NEW given \in Passwords \cup {None}, NEW new \in Passwords \cup {None}
    PROVE  Sent(t, op, step, given, new, row) \in Sound
<1> DEFINE p == Sent(t, op, step, given, new, row)
<1>1. jar[BrowserOf[t]] \in Tokens \cup {0} /\ jar[BrowserOf[t]] <= issued
  BY DEF Rest
<1>2. issued \in Nat
  BY DEF Rows
<1>3. /\ p \in Request /\ p.op = op /\ p.at = step /\ p.mark = 0 /\ p.answer = 0
      /\ p.result = "open" /\ p.cookie \in {0, jar[BrowserOf[t]]}
  <2>1. /\ p.op = op /\ p.at = step /\ p.mark = 0 /\ p.answer = 0
        /\ p.result = "open"
    BY DEF Sent
  <2>2. p.cookie \in {0, jar[BrowserOf[t]]}
    BY DEF Sent
  <2>3. p \in Request
    <3> DEFINE c == IF op \in LooksAtCookie THEN jar[BrowserOf[t]] ELSE 0
    <3>1. c \in Tokens \cup {0} /\ step \in Steps
      BY <1>1 DEF Steps
    <3>2. p = [op |-> op, at |-> step, tab |-> t, cookie |-> c, given |-> given,
               new |-> new, row |-> row, todo |-> {}, mark |-> 0,
               result |-> "open", answer |-> 0]
      BY DEF Sent
    <3> HIDE DEF c, p
    <3> QED BY <3>1, <3>2 DEF Request
  <2> QED BY <2>1, <2>2, <2>3
<1> HIDE DEF p
<1>4. OldSessions(p) = {}
  BY <1>3, NoMark
<1>5. p.cookie <= issued /\ p.answer <= issued /\ p.mark <= issued
  BY <1>1, <1>2, <1>3
<1>6. OnItsWay(p)
  BY <1>3, <1>4, <1>5 DEF OnItsWay
<1> QED BY <1>3, <1>4, <1>5, <1>6 DEF Sound, Ended, p

\* One request goes on, and the tables are as before.
LEMMA OnlyRequest ==
    ASSUME Rows, Requested, NEW r \in Requests, NEW q \in Sound,
           request' = [request EXCEPT ![r] = q],
           UNCHANGED <<session, history>>
    PROVE  Rows' /\ Forward /\ Requested'
<1>1. Rows' /\ Forward
  BY RowsStay DEF history
<1>2. q \in Sound'
  BY <1>1, SoundStays DEF Rows
<1> QED BY <1>1, <1>2, OneRequest

\* One request goes on, and sessions are ended.
LEMMA OnlyEnds ==
    ASSUME Rows, Requested, NEW r \in Requests, NEW q \in Sound,
           request' = [request EXCEPT ![r] = q],
           NEW rows, EndSessions(rows), UNCHANGED history
    PROVE  Rows' /\ Forward /\ Requested'
<1>1. Rows' /\ Forward
  BY RowsEnd DEF history
<1>2. q \in Sound'
  BY <1>1, SoundStays DEF Rows
<1> QED BY <1>1, <1>2, OneRequest

-----------------------------------------------------------------------------
(* One lemma per group of actions *)

Before == Rows /\ Rest /\ Requested
After == Rows' /\ Forward /\ Rest' /\ Requested'

\* What is in no table but `account' and `link' stays right by itself.
LEMMA RestStays ==
    ASSUME Rest, Rows, Rows', Forward, UNCHANGED <<clients, expired>>,
           account' \in Account,
           link' \in [Links -> {"free", "live", "used", "gone"}]
    PROVE  Rest'
<1>1. \A j \in Browsers : jar'[j] <= issued'
  BY DEF Rest, Rows, Forward, Tokens, clients
<1> QED BY <1>1 DEF Rest, clients

\* A handler goes on, and does nothing else to sessions.
LEMMA Goes ==
    ASSUME Rows, Requested, NEW r \in Requests, UNCHANGED <<session, history>>,
           NEW step \in Steps \ {"alarm", "answered", "endEach"}, Goto(r, step),
           step = "open" => OldSessions(request[r]) = {},
           request[r].mark = 0 \/ step \in {"spend", "list", "endAll", "open"},
           step = "list" => request[r].op = "change",
           step = "setPassword" => request[r].op \in {"reset", "change"},
           step = "findLink" => request[r].op = "reset",
           step # "guard",
           step = "compare" => request[r].op \in {"login", "change"},
           step \in {"findSession", "findUser", "rotate"} => request[r].cookie # 0,
           step \in {"findUser", "rotate"} => request[r].row \in Tokens,
           request[r].at # "answered"
    PROVE  Rows' /\ Forward /\ Requested'
<1> DEFINE p == [request[r] EXCEPT !.at = step]
<1>1. request[r] \in Sound
  BY DEF Requested
<1>2. p \in Sound
  BY <1>1, MayGo
<1>3. request' = [request EXCEPT ![r] = p]
  BY DEF Goto
<1> HIDE DEF p
<1> QED BY <1>2, <1>3, OnlyRequest

\* A handler ends, and does nothing else to sessions.
LEMMA Finishes ==
    ASSUME Rows, Requested, NEW r \in Requests, UNCHANGED <<session, history>>,
           NEW result \in {"open", "done", "cleared", "refused"},
           Finish(r, result, 0),
           result = "refused" \/ OldSessions(request[r]) = {}
    PROVE  Rows' /\ Forward /\ Requested'
<1> DEFINE p == [request[r] EXCEPT !.at = "answered", !.result = result,
                     !.answer = 0, !.row = 0, !.todo = {}, !.given = None,
                     !.new = None]
<1>1. request[r] \in Sound
  BY DEF Requested
<1>2. p \in Sound
  BY <1>1, MayFinish
<1>3. request' = [request EXCEPT ![r] = p]
  BY DEF Finish
<1> HIDE DEF p
<1> QED BY <1>2, <1>3, OnlyRequest

\* A handler ends some sessions and with that is at its end.
LEMMA FinishesEnding ==
    ASSUME Rows, Requested, NEW r \in Requests, NEW rows, EndSessions(rows),
           UNCHANGED history,
           NEW result \in {"open", "done", "cleared", "refused"},
           Finish(r, result, 0),
           result = "refused" \/ OldSessions(request[r]) = {}
    PROVE  Rows' /\ Forward /\ Requested'
<1> DEFINE p == [request[r] EXCEPT !.at = "answered", !.result = result,
                     !.answer = 0, !.row = 0, !.todo = {}, !.given = None,
                     !.new = None]
<1>1. request[r] \in Sound
  BY DEF Requested
<1>2. p \in Sound
  BY <1>1, MayFinish
<1>3. request' = [request EXCEPT ![r] = p]
  BY DEF Finish
<1> HIDE DEF p
<1> QED BY <1>2, <1>3, OnlyEnds

\* Where nothing was updated, there is no mark and there are no old sessions.
LEMMA Unmarked ==
    ASSUME Requested, NEW r \in Requests,
           request[r].at \notin {"spend", "list", "endEach", "endAll", "open",
                                 "answered"}
    PROVE  request[r].mark = 0 /\ OldSessions(request[r]) = {}
<1>1. request[r].mark = 0
  BY DEF Requested, Sound, OnItsWay
<1> QED BY <1>1, NoMark

\* A visit sends a request.
LEMMA VisitSends ==
    ASSUME Before, NEW r \in Requests, NEW t \in Tabs, NEW row \in Nat,
           NEW op \in WaysIn \cup Refreshes \cup Mails \cup SignedIn,
           NEW step \in {"findByEmail", "compare", "findByGoogleId", "verify",
                         "forget", "guard", "findLink"},
           step = "compare" => op = "login",
           step = "findLink" => op = "reset",
           step = "guard" => op \in {"logoutAll", "endSession", "change"},
           NEW given \in Passwords \cup {None}, NEW new \in Passwords \cup {None},
           Send(r, t, op, step, given, new, row), UNCHANGED <<session, history>>
    PROVE  Rows' /\ Forward /\ Requested'
<1> DEFINE p == Sent(t, op, step, given, new, row)
<1>1. p \in Sound
  BY SentSound DEF Before
<1>2. request' = [request EXCEPT ![r] = p]
  BY DEF Send
<1> HIDE DEF p
<1> QED BY <1>1, <1>2, OnlyRequest DEF Before

\* Everything that visitors start.
LEMMA VisitStep ==
    ASSUME Before, NEW r \in Requests, NEW t \in Tabs, Visit(r, t)
    PROVE  After
<1> USE DEF Before, WaysIn, Refreshes, Mails, SignedIn
<1>1. CASE bootstrapAuth(r, t)
  <2> DEFINE orphaned == [q \in Requests |-> IF request[q].tab = t
                               THEN [request[q] EXCEPT !.tab = None]
                               ELSE request[q]]
             p == Sent(t, "boot", "verify", None, None, 0)
  <2>1. Rows' /\ Forward
    BY <1>1, RowsStay DEF bootstrapAuth, database, history
  <2>2. p \in Sound
    BY SentSound
  <2>3. \A q \in Requests : orphaned[q] \in Sound
    <3>1. SUFFICES ASSUME NEW q \in Sound
                   PROVE  [q EXCEPT !.tab = None] \in Sound
      BY DEF Requested
    <3> DEFINE o == [q EXCEPT !.tab = None]
    <3>2. o \in Request
      BY DEF Sound, Request
    <3>3. /\ o.op = q.op /\ o.at = q.at /\ o.cookie = q.cookie /\ o.mark = q.mark
          /\ o.result = q.result /\ o.answer = q.answer /\ o.todo = q.todo
          /\ o.row = q.row
      BY DEF Sound, Request
    <3> HIDE DEF o
    <3>4. OldSessions(o) = OldSessions(q)
      BY <3>3 DEF OldSessions, Kept
    <3>5. OnItsWay(o)
      BY <3>3, <3>4 DEF Sound, OnItsWay
    <3>6. o \in Sound
      BY <3>2, <3>3, <3>4, <3>5 DEF Sound, Ended
    <3> QED BY <3>6 DEF o
  <2>4. request' = [orphaned EXCEPT ![r] = p]
    BY <1>1 DEF bootstrapAuth
  <2> HIDE DEF p
  <2>5. \A q \in Requests : request'[q] \in Sound
    BY <2>2, <2>3, <2>4
  <2>6. \A q \in Requests : request'[q] \in Sound'
    BY <2>1, <2>5, SoundStays DEF Rows
  <2>7. request' \in [Requests -> Request]
    BY <2>4, <2>5 DEF Sound
  <2>8. Requested'
    BY <2>6, <2>7 DEF Requested
  <2>9. Rest'
    BY <1>1, <2>1 DEF bootstrapAuth, Rest, database, history, Page, Blank
  <2> QED BY <2>1, <2>8, <2>9 DEF After
<1>2. CASE refreshAccessToken(r, t)
  <2>1. Rows' /\ Forward /\ Requested'
    BY <1>2, VisitSends DEF refreshAccessToken, database, history
  <2>2. Rest'
    BY <1>2 DEF refreshAccessToken, Rest, database, history, Page
  <2> QED BY <2>1, <2>2 DEF After
<1>3. ASSUME Rows', Forward, UNCHANGED <<database, clients, expired>> PROVE Rest'
  BY <1>3, RestStays DEF database, Rest
<1>4. CASE googleSignIn(r, t)
  BY <1>3, <1>4, VisitSends DEF googleSignIn, After, database, history
<1>5. CASE logout(r, t)
  BY <1>3, <1>5, VisitSends DEF logout, After, database, history
<1>6. CASE logoutEverywhere(r, t)
  BY <1>3, <1>6, VisitSends DEF logoutEverywhere, After, database, history
<1>7. CASE requestPasswordReset(r, t)
  BY <1>3, <1>7, VisitSends DEF requestPasswordReset, After, database, history
<1>8. ASSUME NEW i \in Tokens, endSession(r, t, i) PROVE After
  BY <1>3, <1>8, VisitSends DEF endSession, After, database, history, Tokens
<1>9. ASSUME NEW p \in Passwords, register(r, t, p) PROVE After
  BY <1>3, <1>9, VisitSends DEF register, After, database, history
<1>10. ASSUME NEW p \in Passwords, login(r, t, p) PROVE After
  BY <1>3, <1>10, VisitSends DEF login, After, database, history
<1>11. ASSUME NEW p \in Passwords, NEW l \in Links, resetPassword(r, t, l, p)
       PROVE  After
  BY <1>3, <1>11, VisitSends DEF resetPassword, After, database, history, Links
<1>12. ASSUME NEW p \in Passwords, NEW new \in Passwords,
              changePassword(r, t, p, new)
       PROVE  After
  BY <1>3, <1>12, VisitSends DEF changePassword, After, database, history
<1> QED BY <1>1, <1>2, <1>4, <1>5, <1>6, <1>7, <1>8, <1>9, <1>10, <1>11, <1>12
        DEF Visit

\* Handlers that have read something and decide.
LEMMA ReadStep ==
    ASSUME Before, NEW r \in Requests,
           \/ findByEmail(r) \/ findByGoogleId(r) \/ findAgain(r) \/ verify(r)
           \/ findSession(r) \/ findUser(r) \/ guard(r) \/ findLink(r)
           \/ compare(r) \/ list(r)
    PROVE  After
<1> USE DEF Before, After
<1>1. UNCHANGED <<account, link, session, history, clients, expired>>
  BY DEF findByEmail, findByGoogleId, findAgain, verify, findSession, findUser,
         guard, findLink, compare, list, database
<1>2. ASSUME Rows', Forward PROVE Rest'
  BY <1>1, <1>2, RestStays DEF Rest
<1>3. ASSUME Refuse(r) PROVE Rows' /\ Forward /\ Requested'
  BY <1>1, <1>3, Finishes DEF Refuse
<1>4. ASSUME request[r].at \notin {"spend", "list", "endEach", "endAll", "open",
                                   "answered"},
             NEW step \in Steps \ {"alarm", "answered", "endEach", "list"},
             Goto(r, step),
             step = "setPassword" => request[r].op \in {"reset", "change"},
             step = "findLink" => request[r].op = "reset",
             step # "guard",
             step = "compare" => request[r].op \in {"login", "change"},
             step \in {"findSession", "findUser", "rotate"} => request[r].cookie # 0,
             step \in {"findUser", "rotate"} => request[r].row \in Tokens
      PROVE  Rows' /\ Forward /\ Requested'
  BY <1>1, <1>4, Goes, Unmarked
<1>5. ASSUME request[r].at \notin {"spend", "list", "endEach", "endAll", "open",
                                   "answered"}, Done(r)
      PROVE  Rows' /\ Forward /\ Requested'
  BY <1>1, <1>5, Finishes, Unmarked DEF Done
<1>6. CASE findByEmail(r)
  BY <1>2, <1>3, <1>4, <1>5, <1>6 DEF findByEmail, At, IfActive, Steps
<1>7. CASE findByGoogleId(r)
  BY <1>2, <1>3, <1>4, <1>7 DEF findByGoogleId, At, IfActive, Steps
<1>8. CASE findAgain(r)
  BY <1>2, <1>3, <1>4, <1>8 DEF findAgain, At, IfActive, Steps
<1>9. CASE verify(r)
  BY <1>2, <1>3, <1>4, <1>9 DEF verify, At, Steps
<1>10. CASE findUser(r)
  <2>1. request[r].cookie # 0 /\ request[r].row \in Tokens
    BY <1>10 DEF findUser, At, Requested, Sound, OnItsWay
  <2>2. CASE account.active
    BY <1>2, <1>4, <1>10, <2>1, <2>2 DEF findUser, At, Steps
  <2>3. CASE ~account.active
    BY <1>2, <1>4, <1>10, <2>3 DEF findUser, At, Steps
  <2> QED BY <2>2, <2>3
<1>11. CASE guard(r)
  <2>1. request[r].op \in {"logoutAll", "endSession", "change"}
    BY <1>11 DEF guard, At, Requested, Sound, OnItsWay
  <2> QED BY <1>2, <1>3, <1>4, <1>11, <2>1 DEF guard, At, IfActive, Steps
<1>12. CASE findLink(r)
  <2>1. request[r].op = "reset"
    BY <1>12 DEF findLink, At, Requested, Sound, OnItsWay
  <2> QED BY <1>2, <1>3, <1>4, <1>12, <2>1 DEF findLink, At, Steps
<1>13. CASE compare(r)
  <2>1. request[r].op \in {"login", "change"}
    BY <1>13 DEF compare, At, Requested, Sound, OnItsWay
  <2> QED BY <1>2, <1>3, <1>4, <1>13, <2>1 DEF compare, At, Steps
<1>14. CASE findSession(r)
  <2> DEFINE t == request[r].cookie
  <2>1. t # 0 /\ request[r] \in Sound
    BY <1>14 DEF findSession, At, Requested, Sound, OnItsWay
  <2>2. request[r].mark = 0 /\ request[r].result = "open"
    BY <1>14, Unmarked DEF findSession, At, Requested, Sound, OnItsWay
  <2>3. CASE HeldBy(t) = {}
    <3> DEFINE p == [request[r] EXCEPT !.at = "alarm"]
    <3>1. /\ p \in Request /\ p.op = request[r].op /\ p.cookie = t /\ p.mark = 0
          /\ p.at = "alarm" /\ p.answer = request[r].answer
          /\ p.result = request[r].result
      BY <2>1, <2>2 DEF Sound, Request, Steps
    <3>2. request' = [request EXCEPT ![r] = p]
      BY <1>14, <2>3 DEF findSession, Goto
    <3> HIDE DEF p
    <3>3. p \in Sound
      BY <2>1, <2>2, <2>3, <3>1 DEF Sound, Ended, OnItsWay
    <3> QED BY <1>1, <1>2, <3>2, <3>3, OnlyRequest
  <2>4. CASE HeldBy(t) # {}
    <3>1. PICK i \in HeldBy(t) :
              request' = [request EXCEPT
                    ![r].at = IF t \in expired THEN "drop" ELSE "findUser",
                    ![r].row = i]
      BY <1>14, <2>4 DEF findSession
    <3> DEFINE step == IF t \in expired THEN "drop" ELSE "findUser"
               p == [request[r] EXCEPT !.at = step, !.row = i]
    <3>2. i \in Nat /\ i \in Tokens
      BY DEF HeldBy, Tokens
    <3>3. step \in {"drop", "findUser"}
      OBVIOUS
    <3>4. request' = [request EXCEPT ![r] = p]
      BY <3>1
    <3> HIDE DEF step
    <3>5. /\ p \in Request /\ p.op = request[r].op /\ p.cookie = t /\ p.mark = 0
          /\ p.at = step /\ p.answer = request[r].answer /\ p.row = i
          /\ p.result = request[r].result
      <4>1. request[r] \in Request /\ step \in Steps
        BY <2>1, <3>3 DEF Sound, Steps
      <4>2. p \in Request
        BY <3>2, <4>1 DEF Request
      <4> QED BY <2>2, <4>1, <4>2 DEF Request
    <3> HIDE DEF p
    <3>6. p \in Sound
      BY <2>1, <2>2, <3>2, <3>3, <3>5 DEF Sound, Ended, OnItsWay
    <3> QED BY <1>1, <1>2, <3>4, <3>6, OnlyRequest
  <2> QED BY <2>3, <2>4
<1>15. CASE list(r)
  <2> DEFINE t == request[r].cookie
             p == [request[r] EXCEPT !.at = "endEach", !.todo = Others(t)]
  <2>1. /\ request[r] \in Sound /\ request[r].op = "change"
        /\ request[r].result = "open"
    BY <1>15 DEF list, At, Requested, Sound, OnItsWay
  <2>2. Others(t) \subseteq Tokens
    BY DEF Others, Live
  <2>3. /\ p \in Request /\ p.op = "change" /\ p.cookie = t
        /\ p.mark = request[r].mark /\ p.at = "endEach"
        /\ p.answer = request[r].answer /\ p.todo = Others(t)
        /\ p.result = "open"
    <3>1. request[r] \in Request
      BY <2>1 DEF Sound
    <3>2. p \in Request
      BY <2>2, <3>1 DEF Request, Steps
    <3> QED BY <2>1, <3>1, <3>2 DEF Request
  <2>4. request' = [request EXCEPT ![r] = p]
    BY <1>15 DEF list
  <2> HIDE DEF p
  <2>5. OldSessions(p) \subseteq p.todo
    <3>1. SUFFICES ASSUME NEW i \in Live, i \in HeldBy(t)
                   PROVE  i \in Kept(p)
      BY <2>3 DEF OldSessions, Others
    <3>2. session[i] = t /\ t # 0 /\ token[t].row = i
      BY <3>1 DEF HeldBy, Live, Rows, RotatedIsDead
    <3> QED BY <2>3, <3>2 DEF Kept
  <2>6. p \in Sound
    BY <2>1, <2>3, <2>5 DEF Sound, Ended, OnItsWay
  <2> QED BY <1>1, <1>2, <2>4, <2>6, OnlyRequest
<1> QED BY <1>6, <1>7, <1>8, <1>9, <1>10, <1>11, <1>12, <1>13, <1>14, <1>15

\* Handlers that end sessions.
LEMMA EndStep ==
    ASSUME Before, NEW r \in Requests,
           \/ drop(r) \/ alarm(r) \/ forget(r) \/ endOne(r) \/ endAll(r)
           \/ endEach(r)
    PROVE  After
<1> USE DEF Before, After
<1>1. UNCHANGED <<account, link, history, clients, expired>>
  BY DEF drop, alarm, forget, endOne, endAll, endEach
<1>2. ASSUME Rows', Forward PROVE Rest'
  BY <1>1, <1>2, RestStays DEF Rest
<1>3. ASSUME NEW rows, EndSessions(rows), Refuse(r)
      PROVE  Rows' /\ Forward /\ Requested'
  BY <1>1, <1>3, FinishesEnding DEF Refuse
<1>4. CASE drop(r)
  BY <1>2, <1>3, <1>4 DEF drop
<1>5. CASE alarm(r)
  BY <1>2, <1>3, <1>5 DEF alarm
<1>6. CASE forget(r)
  <2>1. OldSessions(request[r]) = {}
    BY <1>6, Unmarked DEF forget, At
  <2> QED BY <1>1, <1>2, <1>6, <2>1, FinishesEnding DEF forget
<1>7. CASE endOne(r)
  <2>1. OldSessions(request[r]) = {}
    BY <1>7, Unmarked DEF endOne, At
  <2>2. Done(r) => Finish(r, "done", 0)
    BY DEF Done
  <2>3. Refuse(r) => Finish(r, "refused", 0)
    BY DEF Refuse
  <2> QED BY <1>1, <1>2, <1>7, <2>1, <2>2, <2>3, FinishesEnding DEF endOne
<1>8. CASE endAll(r)
  <2>1. Rows' /\ Forward
    BY <1>1, <1>8, RowsEnd DEF endAll, history
  <2>2. Live' = {}
    BY <1>8 DEF endAll, EndSessions, Without, Live
  <2>3. \A q : OldSessions(q)' = {}
    BY <2>2 DEF OldSessions
  <2>4. request[r] \in Sound /\ request[r] \in Request /\ request[r].result = "open"
    BY <1>8 DEF endAll, At, Requested, Sound, OnItsWay
  <2>5. request[r] \in Sound'
    BY <2>1, <2>4, SoundStays DEF Rows
  <2>6. CASE request[r].op = "google"
    <3> DEFINE p == [request[r] EXCEPT !.at = "open"]
    <3>1. request' = [request EXCEPT ![r] = p]
      BY <1>8, <2>6 DEF endAll, Goto
    <3>2. p \in Request
      BY <2>4 DEF Request, Steps
    <3>3. /\ p.op = "google" /\ p.cookie = request[r].cookie /\ p.at = "open"
          /\ p.mark = request[r].mark /\ p.answer = request[r].answer
          /\ p.result = "open"
      BY <2>4, <2>6 DEF Request
    <3> HIDE DEF p
    <3>4. p \in Sound'
      BY <2>3, <2>5, <3>2, <3>3 DEF Sound, OnItsWay
    <3> QED BY <1>2, <2>1, <3>1, <3>4, OneRequest
  <2>7. CASE request[r].op \in {"logoutAll", "reset"}
    <3> DEFINE p == [request[r] EXCEPT !.at = "answered", !.result = "cleared",
                         !.answer = 0, !.row = 0, !.todo = {}, !.given = None,
                         !.new = None]
    <3>1. request' = [request EXCEPT ![r] = p]
      BY <1>8, <2>7 DEF endAll, Finish
    <3>2. p \in Request
      BY <2>4 DEF Request, Steps
    <3>3. /\ p.cookie = request[r].cookie /\ p.at = "answered"
          /\ p.mark = request[r].mark /\ p.answer = 0
      BY <2>4 DEF Request
    <3> HIDE DEF p
    <3>4. issued' \in Nat
      BY <2>1 DEF Rows
    <3>5. p \in Sound'
      BY <2>3, <2>5, <3>2, <3>3, <3>4 DEF Sound, OnItsWay
    <3> QED BY <1>2, <2>1, <3>1, <3>5, OneRequest
  <2>8. CASE request[r].op \notin {"google", "logoutAll", "reset"}
    BY <1>2, <1>3, <1>8, <2>8 DEF endAll
  <2> QED BY <2>6, <2>7, <2>8
<1>9. CASE endEach(r)
  <2>1. /\ request[r] \in Sound /\ request[r] \in Request
        /\ request[r].op = "change" /\ request[r].at = "endEach"
        /\ request[r].result = "open"
        /\ OldSessions(request[r]) \subseteq request[r].todo
    BY <1>9 DEF endEach, At, Requested, Sound, OnItsWay
  <2>2. CASE request[r].todo = {}
    <3>1. OldSessions(request[r]) = {} /\ UNCHANGED session
      BY <1>9, <2>1, <2>2 DEF endEach
    <3>2. Finish(r, "done", 0)
      BY <1>9, <2>2 DEF endEach, Done
    <3> QED BY <1>1, <1>2, <3>1, <3>2, Finishes
  <2>3. CASE request[r].todo # {}
    <3>1. PICK i \in request[r].todo :
              /\ EndSessions({i})
              /\ request' = [request EXCEPT ![r].todo = @ \ {i}]
      BY <1>9, <2>3 DEF endEach
    <3> DEFINE p == [request[r] EXCEPT !.todo = request[r].todo \ {i}]
    <3>2. request' = [request EXCEPT ![r] = p]
      BY <3>1
    <3>3. p \in Request
      BY <2>1 DEF Request
    <3>4. /\ p.op = "change" /\ p.cookie = request[r].cookie /\ p.at = "endEach"
          /\ p.mark = request[r].mark /\ p.answer = request[r].answer
          /\ p.todo = request[r].todo \ {i} /\ p.result = "open"
      BY <2>1 DEF Request
    <3> HIDE DEF p
    <3>5. Rows' /\ Forward
      BY <1>1, <3>1, RowsEnd DEF history
    <3>6. request[r] \in Sound'
      BY <2>1, <3>5, SoundStays DEF Rows
    <3>7. ASSUME NEW j \in Tokens, session'[j] # 0, j <= p.mark,
                 ~(p.cookie # 0 /\ j = token'[p.cookie].row)
          PROVE  j \in p.todo
      <4>1. j # i /\ session[j] # 0
        BY <3>1, <3>7 DEF EndSessions, Without
      <4>2. j \in OldSessions(request[r])
        BY <1>1, <2>1, <3>4, <3>7, <4>1 DEF OldSessions, Kept, Live, history
      <4> QED BY <2>1, <3>4, <4>1, <4>2
    <3>8. p \in Sound'
      <4>1. {j \in Live' : j <= p.mark} \ {token'[p.cookie].row} \subseteq p.todo
        BY <3>7 DEF Live
      <4>2. p.cookie = 0 => {j \in Live' : j <= p.mark} \subseteq p.todo
        BY <3>7 DEF Live
      <4> QED BY <2>1, <3>3, <3>4, <3>6, <4>1, <4>2
              DEF Sound, Ended, OnItsWay, OldSessions, Kept
    <3> QED BY <1>2, <3>2, <3>5, <3>8, OneRequest
  <2> QED BY <2>2, <2>3
<1> QED BY <1>4, <1>5, <1>6, <1>7, <1>8, <1>9

\* Handlers that write to the account or to its links.
LEMMA WriteStep ==
    ASSUME Before, NEW r \in Requests,
           \/ create(r) \/ linkGoogle(r) \/ setPassword(r)
           \/ replace(r) \/ insert(r) \/ spend(r)
    PROVE  After
<1> USE DEF Before, After
<1>1. UNCHANGED <<session, history, clients, expired>>
  BY DEF create, linkGoogle, setPassword, replace, insert, spend
<1>2. request[r] \in Sound /\ request[r] \in Request
  BY DEF Requested, Sound
<1>3. ASSUME account' \in Account, UNCHANGED link, Rows', Forward PROVE Rest'
  BY <1>1, <1>3, RestStays DEF Rest
<1>4. ASSUME link' \in [Links -> {"free", "live", "used", "gone"}],
             UNCHANGED account, Rows', Forward
      PROVE  Rest'
  BY <1>1, <1>4, RestStays DEF Rest
<1>5. CASE create(r)
  <2>1. request[r].mark = 0 /\ OldSessions(request[r]) = {}
    BY <1>5, Unmarked DEF create, At
  <2>2. account' \in Account /\ UNCHANGED link
    <3>1. request[r].new \in Passwords \cup {None}
      BY <1>2 DEF Request
    <3> DEFINE google == request[r].op = "google"
    <3>2. google \in BOOLEAN
      OBVIOUS
    <3>3. account' = account \/ account' = Opened(request[r].new, google)
      BY <1>5 DEF create
    <3> HIDE DEF google
    <3>4. Opened(request[r].new, google) \in Account
      BY <3>1, <3>2 DEF Opened, Account
    <3>5. account' \in Account
      BY <3>3, <3>4 DEF Rest
    <3> QED BY <1>5, <3>5 DEF create
  <2>3. \/ Goto(r, "findAgain") \/ Goto(r, "open") \/ Finish(r, "refused", 0)
    BY <1>5 DEF create, Refuse
  <2>4. Rows' /\ Forward /\ Requested'
    BY <1>1, <1>5, <2>1, <2>3, Goes, Finishes DEF create, At, Steps
  <2> QED BY <1>3, <2>2, <2>4
<1>6. ASSUME linkGoogle(r) \/ setPassword(r) PROVE Rows' /\ Forward /\ Requested'
  <2>1. PICK step \in {"endAll", "spend", "list"} :
            request' = [request EXCEPT ![r].at = step, ![r].mark = issued]
    BY <1>6 DEF linkGoogle, setPassword
  <2>2. step = "list" => request[r].op = "change"
    <3>1. CASE linkGoogle(r)
      <4>1. request'[r].at = "endAll"
        BY <3>1 DEF linkGoogle, Requested
      <4>2. request'[r].at = step
        BY <1>2, <2>1 DEF Requested, Request
      <4> QED BY <4>1, <4>2
    <3>2. CASE setPassword(r)
      <4>1. request[r].op \in {"reset", "change"}
        BY <3>2 DEF setPassword, At, Requested, Sound, OnItsWay
      <4>2. request[r].op = "reset" => request'[r].at = "spend"
        BY <1>2, <3>2 DEF setPassword, Requested, Request
      <4>3. request'[r].at = step
        BY <1>2, <2>1 DEF Requested, Request
      <4> QED BY <4>1, <4>2, <4>3
    <3> QED BY <1>6, <3>1, <3>2
  <2> DEFINE p == [request[r] EXCEPT !.at = step, !.mark = issued]
  <2>3. request' = [request EXCEPT ![r] = p]
    BY <2>1
  <2>4. issued \in Nat /\ request[r].result = "open"
    BY <1>6 DEF linkGoogle, setPassword, At, Requested, Sound, OnItsWay, Rows
  <2>5. p \in Request
    BY <1>2, <2>4 DEF Request, Steps
  <2>6. /\ p.op = request[r].op /\ p.cookie = request[r].cookie /\ p.at = step
        /\ p.mark = issued /\ p.answer = request[r].answer
        /\ p.result = request[r].result
    BY <1>2 DEF Request
  <2> HIDE DEF p
  <2>7. p \in Sound
    BY <1>2, <2>2, <2>4, <2>5, <2>6 DEF Sound, Ended, OnItsWay
  <2> QED BY <1>1, <2>3, <2>7, OnlyRequest
<1>7. CASE linkGoogle(r)
  <2>1. account' \in Account /\ UNCHANGED link
    BY <1>7 DEF linkGoogle, Account, Rest
  <2> QED BY <1>3, <1>6, <1>7, <2>1
<1>8. CASE setPassword(r)
  <2>1. account' \in Account /\ UNCHANGED link
    BY <1>2, <1>8 DEF setPassword, Account, Rest, Request
  <2> QED BY <1>3, <1>6, <1>8, <2>1
<1>9. CASE replace(r)
  <2>1. request[r].mark = 0
    BY <1>9, Unmarked DEF replace, At
  <2>2. Rows' /\ Forward /\ Requested'
    BY <1>1, <1>9, <2>1, Goes DEF replace, At, Steps
  <2> QED BY <1>4, <1>9, <2>2 DEF replace, Rest
<1>10. CASE insert(r)
  <2>1. OldSessions(request[r]) = {}
    BY <1>10, Unmarked DEF insert, At
  <2>2. Rows' /\ Forward /\ Requested'
    BY <1>1, <1>10, <2>1, Finishes DEF insert, Done
  <2>3. link' \in [Links -> {"free", "live", "used", "gone"}]
    BY <1>10 DEF insert, Rest
  <2> QED BY <1>4, <1>10, <2>2, <2>3 DEF insert
<1>11. CASE spend(r)
  <2>1. Rows' /\ Forward /\ Requested'
    BY <1>1, <1>11, Goes DEF spend, At, Steps
  <2>2. link' \in [Links -> {"free", "live", "used", "gone"}]
    BY <1>11 DEF spend, Rest
  <2> QED BY <1>4, <1>11, <2>1, <2>2 DEF spend
<1> QED BY <1>5, <1>7, <1>8, <1>9, <1>10, <1>11

\* Handlers that sign a token.
LEMMA SignStep ==
    ASSUME Before, NEW r \in Requests, open(r) \/ rotate(r)
    PROVE  After
<1> USE DEF Before, After
<1>1. UNCHANGED <<account, link, clients, expired>>
  BY DEF open, rotate
<1>2. ASSUME Rows', Forward PROVE Rest'
  BY <1>1, <1>2, RestStays DEF Rest
<1>3. request[r] \in Sound /\ request[r] \in Request
  BY DEF Requested, Sound
<1>4. Finish(r, "open", NextToken) /\ issued' = NextToken /\ NextToken \in Tokens
  BY DEF open, issueSession, rotate, Holds, Sign, NextToken, Rows, Tokens
<1> DEFINE p == [request[r] EXCEPT !.at = "answered", !.result = "open",
                     !.answer = NextToken, !.row = 0, !.todo = {},
                     !.given = None, !.new = None]
<1>5. request' = [request EXCEPT ![r] = p]
  BY <1>4 DEF Finish
<1>6. p \in Request
  BY <1>3, <1>4 DEF Request, Steps
<1>7. /\ p.op = request[r].op /\ p.cookie = request[r].cookie
      /\ p.mark = request[r].mark /\ p.at = "answered" /\ p.answer = NextToken
      /\ p.result = "open"
  BY <1>3 DEF Request
<1> HIDE DEF p
<1>8. ASSUME Rows', Forward, Ended(request[r]) \/ request[r].mark = 0
             \/ request[r].op \notin {"google", "reset", "change"}
      PROVE  p \in Sound'
  <2>1. request[r] \in Sound'
    BY <1>3, <1>8, SoundStays DEF Rows
  <2>2. p.cookie <= issued' /\ p.answer <= issued' /\ p.mark <= issued'
    BY <1>4, <1>7, <1>8, <2>1 DEF Sound, OnItsWay, Rows, Tokens
  <2>3. ASSUME Ended(p), NEW j \in Live', j <= p.mark,
               ~(p.op = "change" /\ p.cookie # 0 /\ j = token'[p.cookie].row)
        PROVE  FALSE
    <3>1. CASE Ended(request[r])
      BY <1>7, <2>1, <2>3, <3>1 DEF Sound, Ended, OldSessions, Kept
    <3>2. CASE request[r].mark = 0
      BY <1>7, <2>3, <3>2 DEF Live, Tokens
    <3>3. CASE request[r].op \notin {"google", "reset", "change"}
      BY <1>7, <2>3, <3>3 DEF Ended
    <3> QED BY <1>8, <3>1, <3>2, <3>3
  <2> QED BY <1>6, <1>7, <2>2, <2>3 DEF Sound, Ended, OnItsWay, OldSessions, Kept
<1>9. CASE open(r)
  <2>1. Rows' /\ Forward
    BY <1>9, RowAdded DEF open, issueSession
  <2>2. \/ Ended(request[r])
        \/ request[r].op \notin {"google", "reset", "change"}
    BY <1>9 DEF open, At, Ended, Requested, Sound, OnItsWay
  <2> QED BY <1>2, <1>5, <1>8, <2>1, <2>2, OneRequest
<1>10. CASE rotate(r)
  <2>1. /\ request[r].cookie # 0 /\ request[r].mark = 0
        /\ request[r].row \in Tokens
    BY <1>10, Unmarked DEF rotate, At, Requested, Sound, OnItsWay
  <2> DEFINE i == request[r].row
             t == request[r].cookie
  <2>2. i \in Tokens /\ t \in Tokens
    BY <1>3, <2>1 DEF Request
  <2>3. Rows' /\ Forward
    <3>1. CASE Holds(i, t)
      BY <1>10, <2>2, <3>1, RowRotated DEF rotate
    <3>2. CASE ~Holds(i, t)
      BY <1>10, <2>2, <3>2, TokenWasted DEF rotate
    <3> QED BY <3>1, <3>2
  <2> QED BY <1>2, <1>5, <1>8, <2>1, <2>3, OneRequest
<1> QED BY <1>9, <1>10

\* The answer arrives, and the browser remembers what it is told.
LEMMA AnswerStep ==
    ASSUME Before, NEW r \in Requests, Answer(r)
    PROVE  After
<1> USE DEF Before, After
<1>1. UNCHANGED <<account, link, session, issued, token, expired>>
  BY DEF Answer, database, history
<1>2. Rows' /\ Forward
  BY <1>1, RowsStay
<1>3. Idle \in Sound'
  <2>1. Idle.mark = 0 /\ Idle.at = "idle" /\ Idle.cookie = 0 /\ Idle.answer = 0
        /\ Idle.result = "open"
    BY DEF Idle
  <2>2. Idle \in Request
    BY DEF Idle, Request, Steps
  <2>3. issued' \in Nat
    BY <1>2 DEF Rows
  <2> QED BY <2>1, <2>2, <2>3 DEF Sound, Ended, OnItsWay
<1>4. Requested'
  BY <1>2, <1>3, OneRequest DEF Answer
<1>5. Rest'
  <2> DEFINE q == request[r]
  <2>1. q \in Sound /\ q \in Request
    BY DEF Requested, Sound
  <2>2. CASE q.tab = None
    BY <1>1, <1>2, <2>2, RestStays DEF Answer, Rest
  <2>3. CASE q.tab # None
    <3>1. q.tab \in Tabs /\ q.answer \in Tokens \cup {0} /\ q.answer <= issued
      BY <2>1, <2>3 DEF Sound, Request
    <3>2. /\ jar' = [jar EXCEPT ![BrowserOf[q.tab]] = Cookie(@, q)]
          /\ page' = [page EXCEPT ![q.tab] = Remembers(@, q.op, q.result)]
      BY <2>3 DEF Answer
    <3>3. \A c \in Tokens \cup {0} : c <= issued =>
              Cookie(c, q) \in Tokens \cup {0} /\ Cookie(c, q) <= issued
      <4>1. 0 <= issued
        BY DEF Rows
      <4> QED BY <3>1, <4>1 DEF Cookie
    <3>4. jar' \in [Browsers -> Tokens \cup {0}]
          /\ \A j \in Browsers : jar'[j] <= issued'
      BY <1>1, <3>1, <3>2, <3>3 DEF Rest
    <3>5. \A k \in Page : Remembers(k, q.op, q.result) \in Page
      BY DEF Remembers, Unlocked, Page
    <3>6. page' \in [Tabs -> Page]
      BY <3>1, <3>2, <3>5 DEF Rest
    <3> QED BY <1>1, <3>4, <3>6 DEF Rest
  <2> QED BY <2>2, <2>3
<1> QED BY <1>2, <1>4, <1>5

\* Nothing happens to requests, and nothing to sessions.
LEMMA RequestsStay ==
    ASSUME Rows, Requested, UNCHANGED <<session, issued, token, request>>
    PROVE  Rows' /\ Forward /\ Requested'
<1>1. Rows' /\ Forward
  BY RowsStay
<1>2. \A r \in Requests : request'[r] \in Sound'
  <2>1. \A r \in Requests : request[r] \in Sound'
    BY <1>1, SoundStays DEF Rows, Requested
  <2> QED BY <2>1
<1> QED BY <1>1, <1>2 DEF Requested

\* What happens to the account, its tokens, its links and the backend.
LEMMA EventStep ==
    ASSUME Before,
           \/ Deactivate
           \/ \E t \in Tokens : Expire(t)
           \/ \E l \in Links : ExpireLink(l)
           \/ Crash
    PROVE  After
<1> USE DEF Before, After
<1>1. CASE Deactivate
  <2>1. UNCHANGED <<session, link, issued, token, request, clients, expired>>
    BY <1>1 DEF Deactivate, history
  <2>2. account' \in Account
    BY <1>1 DEF Deactivate, Rest, Account
  <2>3. Rows' /\ Forward /\ Requested'
    BY <2>1, RequestsStay
  <2> QED BY <2>1, <2>2, <2>3, RestStays DEF Rest
<1>2. ASSUME NEW t \in Tokens, Expire(t) PROVE After
  <2>1. UNCHANGED <<account, session, link, issued, token, request, clients>>
    BY <1>2 DEF Expire, database, history
  <2>2. Rows' /\ Forward /\ Requested'
    BY <2>1, RequestsStay
  <2>3. expired' \subseteq Tokens
    BY <1>2 DEF Expire, Rest
  <2> QED BY <2>1, <2>2, <2>3 DEF Rest, clients
<1>3. ASSUME NEW l \in Links, ExpireLink(l) PROVE After
  <2>1. UNCHANGED <<account, session, issued, token, request, clients, expired>>
    BY <1>3 DEF ExpireLink, history
  <2>2. Rows' /\ Forward /\ Requested'
    BY <2>1, RequestsStay
  <2>3. link' \in [Links -> {"free", "live", "used", "gone"}]
    BY <1>3 DEF ExpireLink, Rest
  <2> QED BY <2>1, <2>2, <2>3, RestStays DEF Rest
<1>4. CASE Crash
  <2>1. UNCHANGED <<account, session, link, issued, token, clients, expired>>
    BY <1>4 DEF Crash, database, history
  <2>2. Rows' /\ Forward
    BY <2>1, RowsStay
  <2>3. ASSUME NEW q \in Sound
        PROVE  [q EXCEPT !.at = "answered", !.result = "refused", !.answer = 0,
                         !.todo = {}] \in Sound
    <3> DEFINE p == [q EXCEPT !.at = "answered", !.result = "refused",
                              !.answer = 0, !.todo = {}]
    <3>1. q \in Request
      BY DEF Sound
    <3>2. p \in Request
      BY <3>1 DEF Request, Steps
    <3>3. /\ p.at = "answered" /\ p.result = "refused" /\ p.cookie = q.cookie
          /\ p.mark = q.mark /\ p.answer = 0 /\ 0 <= issued
      BY <3>1 DEF Request, Rows
    <3> HIDE DEF p
    <3>4. p \in Sound
      BY <3>2, <3>3 DEF Sound, Ended, OnItsWay
    <3> QED BY <3>4 DEF p
  <2>4. \A r \in Requests : request'[r] \in Sound
    BY <1>4, <2>3 DEF Crash, Requested
  <2>5. \A r \in Requests : request'[r] \in Sound'
    BY <2>2, <2>4, SoundStays DEF Rows
  <2>6. request' \in [Requests -> Request]
    <3>1. \A r \in Requests : request'[r] \in Request
      BY <2>4 DEF Sound
    <3> QED BY <1>4, <3>1 DEF Crash
  <2>7. Requested'
    BY <2>5, <2>6 DEF Requested
  <2> QED BY <2>1, <2>2, <2>7, RestStays DEF Rest
<1> QED BY <1>1, <1>2, <1>3, <1>4

-----------------------------------------------------------------------------
(* The theorems *)

LEMMA InitSound == Init => SessionInv
<1> SUFFICES ASSUME Init PROVE Rows /\ Rest /\ Requested
  BY Parts
<1>1. Rows
  <2>1. /\ session \in [Tokens -> Tokens \cup {0}]
        /\ issued \in 0 .. MaxTokens
        /\ token \in [Tokens -> [row : Tokens \cup {0}, of : Tokens \cup {0}]]
    BY DEF Init, Free
  <2>2. \A t \in Tokens : t # 0 /\ session[t] = 0 /\ token[t] = Free
                          /\ token[t].of = 0
    BY DEF Init, Free, Tokens
  <2>3. ReplacedOnce /\ RotatedIsDead
    BY <2>2 DEF ReplacedOnce, RotatedIsDead, Live
  <2> QED BY <2>1, <2>2, <2>3 DEF Rows
<1>2. Rest
  <2>1. NoAccount \in Account /\ \A p \in Passwords : Opened(p, FALSE) \in Account
    BY DEF NoAccount, Opened, Account
  <2>2. account \in Account
    BY <2>1 DEF Init
  <2>3. issued = 0 /\ jar \in [Browsers -> Tokens \cup {0}]
        /\ \A j \in Browsers : jar[j] <= issued
    BY DEF Init
  <2> QED BY <2>2, <2>3 DEF Init, Rest, Page, Blank
<1>3. Idle \in Sound
  <2>1. Idle.mark = 0 /\ Idle.at = "idle" /\ Idle.cookie = 0 /\ Idle.answer = 0
        /\ Idle.result = "open" /\ issued = 0
    BY DEF Idle, Init
  <2>2. Idle \in Request
    BY DEF Idle, Request, Steps
  <2> QED BY <2>1, <2>2 DEF Sound, Ended, OnItsWay
<1>4. Requested
  BY <1>3 DEF Init, Requested, Sound
<1> QED BY <1>1, <1>2, <1>4

LEMMA Step == SessionInv /\ [Next]_vars => SessionInv' /\ Forward
<1>1. SUFFICES ASSUME SessionInv, [Next]_vars PROVE Rows' /\ Rest' /\ Requested' /\ Forward
  BY Parts, PTL
<1>2. Before
  BY <1>1, Parts DEF Before
<1>3. ASSUME NEW r \in Requests, NEW t \in Tabs, Visit(r, t) PROVE After
  BY <1>2, <1>3, VisitStep
<1>4. ASSUME NEW r \in Requests, Handle(r) PROVE After
  BY <1>2, <1>4, ReadStep, EndStep, WriteStep, SignStep DEF Handle
<1>5. ASSUME NEW r \in Requests, Answer(r) PROVE After
  BY <1>2, <1>5, AnswerStep
<1>6. CASE UNCHANGED vars
  <2>1. UNCHANGED <<account, link, session, issued, token, request, clients,
                    expired>>
    BY <1>6 DEF vars, database, history
  <2>2. Rows' /\ Forward /\ Requested'
    BY <1>2, <2>1, RequestsStay DEF Before
  <2>3. Rest'
    BY <1>2, <2>1, <2>2, RestStays DEF Before, Rest
  <2> QED BY <2>2, <2>3
<1>7. CASE Next
  <2>1. After
    BY <1>2, <1>3, <1>4, <1>5, <1>7, EventStep DEF Next
  <2> QED BY <2>1 DEF After
<1> QED BY <1>1, <1>6, <1>7

\* However the requests of any number of tabs interleave, and whatever is
\* deactivated, expires or crashes: the whole invariant holds.
THEOREM SessionsInvariant == Spec => []SessionInv
BY InitSound, Step, PTL DEF Spec

\* AuthService and the client keep their types, and nobody bears a token that
\* was not signed.
THEOREM TypeCorrect == Spec => []TypeOK
<1>1. SessionInv => TypeOK
  BY DEF SessionInv
<1> QED BY <1>1, SessionsInvariant, PTL

\* refresh(): of the requests that present one token, at most one replaces it.
THEOREM OneSuccessor == Spec => []ReplacedOnce
<1>1. SessionInv => ReplacedOnce
  BY DEF SessionInv
<1> QED BY <1>1, SessionsInvariant, PTL

\* refresh(): no session is held by a token that was replaced.
THEOREM RotatedStaysDead == Spec => []RotatedIsDead
<1>1. SessionInv => RotatedIsDead
  BY DEF SessionInv
<1> QED BY <1>1, SessionsInvariant, PTL

\* refresh(): the alarm is never raised about a token that holds a session.
THEOREM NoFalseAlarm == Spec => []AlarmIsTrue
<1>1. SessionInv => AlarmIsTrue
  BY DEF SessionInv
<1> QED BY <1>1, SessionsInvariant, PTL

\* changePassword(), resetPassword() and googleSignIn(): when they are through,
\* the sessions from before are over, but for the device that asked.
THEOREM OldSessionsAlwaysEnd == Spec => []OldSessionsEnd
<1>1. SessionInv => OldSessionsEnd
  BY DEF SessionInv
<1> QED BY <1>1, SessionsInvariant, PTL

\* refresh(), open() and every other statement: none brings back a session that
\* was ended.
THEOREM EndedForGood == Spec => EndedStaysEnded
<1>1. SessionInv /\ [Next]_vars =>
        [\A i \in Tokens : i <= issued /\ session[i] = 0 => session'[i] = 0]_vars
  BY Step DEF Forward
<1> QED BY <1>1, SessionsInvariant, PTL DEF Spec, EndedStaysEnded

=============================================================================
