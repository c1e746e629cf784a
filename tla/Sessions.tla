------------------------------ MODULE Sessions ------------------------------
(***************************************************************************)
(* The sessions, the password and the reset links of one account:          *)
(* AuthService, the routes of AuthController and, in the browsers, the     *)
(* client that renews access tokens (client.ts, bootstrap.ts).             *)
(*                                                                         *)
(* A tab is one page with its own memory; the tabs of a browser share the  *)
(* refresh cookie.  A request is one call of a tab, from the moment it is  *)
(* sent, with the cookie the browser has then, to the moment its answer is *)
(* read.  Every statement of a handler is one action, so what a handler    *)
(* decided may be out of date when it acts.                                *)
(*                                                                         *)
(* Accounts share nothing (every statement names a user, a token or an     *)
(* address), so one is enough.  It is not removed here.                    *)
(***************************************************************************)
EXTENDS Integers, FiniteSets

CONSTANTS
    Tabs,
    Browsers,
    BrowserOf,    \* the browser of each tab
    Requests,     \* requests that can be in progress at once (bound)
    Passwords,
    None,         \* no password, no tab, no operation
    MaxTokens,    \* refresh tokens ever signed (bound)
    MaxLinks,     \* reset links ever written down (bound)
    Operations    \* what visitors do, and what happens to them (workload)

VARIABLES
    account,  \* the row of users, if there is one
    session,  \* refresh_sessions: the token of each row, 0 where there is none
    link,     \* password_resets
    jar,      \* each browser's refresh cookie, 0 for none
    page,     \* each tab's memory
    request,  \* each request in progress
    expired,  \* the tokens whose thirty days are over
    issued,   \* history: how many tokens were signed; the next is issued + 1
    token     \* history: what each was signed for

database == <<account, session, link>>
clients == <<jar, page>>
history == <<issued, token>>
vars == <<database, clients, request, expired, history>>

Tokens == 1 .. MaxTokens
Links == 1 .. MaxLinks
WaysIn == {"register", "login", "google"}
Refreshes == {"boot", "renew"}
Mails == {"forgot", "reset"}
SignedIn == {"logout", "logoutAll", "endSession", "change"}
Events == {"deactivate", "expire", "crash"}

ASSUME SessionsAssumption ==
    /\ BrowserOf \in [Tabs -> Browsers]
    /\ None \notin Passwords \cup Tabs
    /\ MaxTokens \in Nat
    /\ MaxLinks \in Nat
    /\ Operations \subseteq WaysIn \cup Refreshes \cup Mails \cup SignedIn \cup Events

Account ==
    [exists : BOOLEAN, active : BOOLEAN, password : Passwords \cup {None},
     google : BOOLEAN]

NoAccount ==
    [exists |-> FALSE, active |-> TRUE, password |-> None, google |-> FALSE]

Opened(password, google) ==
    [exists |-> TRUE, active |-> TRUE, password |-> password,
     google |-> google]

\* access: the tab has an access token, good or past its fifteen minutes.
\* refreshing: refreshPromise is not null.
Page == [access : BOOLEAN, refreshing : BOOLEAN]

Blank == [access |-> FALSE, refreshing |-> FALSE]

Steps ==
    {"idle", "findByEmail", "create", "findByGoogleId", "findAgain", "link",
     "compare", "open", "verify", "findSession", "findUser", "drop", "rotate",
     "guard", "forget", "endOne", "endAll", "alarm", "replace", "insert",
     "findLink", "setPassword", "spend", "list", "endEach",
     "answered"}

Request ==
    [op : WaysIn \cup Refreshes \cup Mails \cup SignedIn \cup {None},
     at : Steps,
     tab : Tabs \cup {None},                \* where the answer goes
     cookie : Tokens \cup {0},              \* sent along
     given : Passwords \cup {None},         \* the password to be checked
     new : Passwords \cup {None},           \* ... and the one to be set
     row : Nat,                             \* the session or link it is about
     todo : SUBSET Tokens,                  \* sessions it has still to end
     mark : Nat,                            \* history: issued at its update
     result : {"open", "done", "cleared", "refused"},
     answer : Tokens \cup {0}]              \* the cookie that is set

Idle ==
    [op |-> None, at |-> "idle", tab |-> None, cookie |-> 0, given |-> None,
     new |-> None, row |-> 0, todo |-> {}, mark |-> 0, result |-> "open",
     answer |-> 0]

Free == [row |-> 0, of |-> 0]

-----------------------------------------------------------------------------
(* Requests *)

At(r, step) == request[r].at = step
Goto(r, step) == request' = [request EXCEPT ![r].at = step]

\* The end of a handler.  clearRefreshCookie() is what "cleared" stands for.
Finish(r, result, answer) ==
    request' = [request EXCEPT
        ![r] = [@ EXCEPT !.at = "answered", !.result = result,
                         !.answer = answer, !.row = 0, !.todo = {},
                         !.given = None, !.new = None]]

Done(r) == Finish(r, "done", 0)
Refuse(r) == Finish(r, "refused", 0)

\* assertActive, and the guard's validate(): the handler goes on, or not.
IfActive(r, step) == IF account.active THEN Goto(r, step) ELSE Refuse(r)

\* The cookie travels to all routes under /auth; these look at it.
LooksAtCookie == Refreshes \cup {"logout", "change"}

Sent(t, op, step, given, new, row) ==
    [op |-> op, at |-> step, tab |-> t,
     cookie |-> IF op \in LooksAtCookie THEN jar[BrowserOf[t]] ELSE 0,
     given |-> given, new |-> new, row |-> row, todo |-> {}, mark |-> 0,
     result |-> "open", answer |-> 0]

Send(r, t, op, step, given, new, row) ==
    /\ op \in Operations
    /\ At(r, "idle")
    /\ request' = [request EXCEPT ![r] = Sent(t, op, step, given, new, row)]

\* DELETE FROM refresh_sessions.
Without(rows) == [i \in Tokens |-> IF i \in rows THEN 0 ELSE session[i]]
EndSessions(rows) == session' = Without(rows)

HeldBy(t) == {i \in Tokens : session[i] # 0 /\ session[i] = t}
Live == {i \in Tokens : session[i] # 0}

\* signTokens(): no two tokens are the same, thanks to their jwtid.
NextToken == issued + 1

\* History only: `of' is the token that the new one replaces in row `row', 0 if
\* it replaces none.
Sign(row, of) ==
    /\ issued < MaxTokens
    /\ issued' = NextToken
    /\ token' = [token EXCEPT ![NextToken] = [row |-> row, of |-> of]]

-----------------------------------------------------------------------------
(* Ways in *)

register(r, t, new) ==
    /\ ~page[t].access
    /\ Send(r, t, "register", "findByEmail", None, new, 0)
    /\ UNCHANGED <<database, clients, expired, history>>

login(r, t, given) ==
    /\ ~page[t].access
    /\ Send(r, t, "login", "compare", given, None, 0)
    /\ UNCHANGED <<database, clients, expired, history>>

googleSignIn(r, t) ==
    /\ ~page[t].access
    /\ Send(r, t, "google", "findByGoogleId", None, None, 0)
    /\ UNCHANGED <<database, clients, expired, history>>

findByGoogleId(r) ==
    /\ At(r, "findByGoogleId")
    /\ IF account.google THEN IfActive(r, "open") ELSE Goto(r, "findByEmail")
    /\ UNCHANGED <<database, clients, expired, history>>

\* A newcomer through Google may be asked for a phone or a name first.
findByEmail(r) ==
    /\ At(r, "findByEmail")
    /\ CASE request[r].op = "register" ->
                IF account.exists THEN Refuse(r) ELSE Goto(r, "create")
         [] request[r].op = "google" ->
                IF account.exists THEN IfActive(r, "link")
                ELSE Goto(r, "create") \/ Refuse(r)
         [] OTHER ->
                IF account.exists /\ account.active
                THEN Goto(r, "replace") ELSE Done(r)
    /\ UNCHANGED <<database, clients, expired, history>>

\* The address and the Google identity are unique keys.
create(r) ==
    /\ At(r, "create")
    /\ IF account.exists
       THEN /\ IF request[r].op = "google" THEN Goto(r, "findAgain") ELSE Refuse(r)
            /\ UNCHANGED account
       ELSE /\ account' = Opened(request[r].new, request[r].op = "google")
            /\ Goto(r, "open")
    /\ UNCHANGED <<session, link, clients, expired, history>>

findAgain(r) ==
    /\ At(r, "findAgain")
    /\ IF account.google THEN IfActive(r, "open") ELSE Refuse(r)
    /\ UNCHANGED <<database, clients, expired, history>>

linkGoogle(r) ==
    /\ At(r, "link")
    /\ account' = [account EXCEPT !.google = TRUE]
    /\ request' = [request EXCEPT ![r].at = "endAll", ![r].mark = issued]
    /\ UNCHANGED <<session, link, clients, expired, history>>

\* The session's id is its first token.  Rows past their time are swept, but
\* nobody waits for that, or hears that it failed.
issueSession(r) ==
    LET overdue == {i \in Live : session[i] \in expired} IN
    /\ Sign(NextToken, 0)
    /\ \E swept \in {{}, overdue} :
            session' = [Without(swept) EXCEPT ![NextToken] = NextToken]
    /\ Finish(r, "open", NextToken)

open(r) ==
    /\ At(r, "open")
    /\ issueSession(r)
    /\ UNCHANGED <<account, link, clients, expired>>

-----------------------------------------------------------------------------
(* Refreshing *)

\* A page is loaded, or loaded again: its memory is gone, nobody waits for the
\* answers of its earlier requests, and bootstrapAuth() asks who is there.
bootstrapAuth(r, t) ==
    LET orphaned ==
            [q \in Requests |-> IF request[q].tab = t
                               THEN [request[q] EXCEPT !.tab = None]
                               ELSE request[q]]
    IN  /\ "boot" \in Operations
        /\ At(r, "idle")
        /\ request' = [orphaned EXCEPT
                ![r] = Sent(t, "boot", "verify", None, None, 0)]
        /\ page' = [page EXCEPT ![t] = Blank]
        /\ UNCHANGED <<database, jar, expired, history>>

\* A call met a 401; all such calls of a tab wait for one refresh, and are
\* then repeated.
refreshAccessToken(r, t) ==
    /\ page[t].access
    /\ ~page[t].refreshing
    /\ Send(r, t, "renew", "verify", None, None, 0)
    /\ page' = [page EXCEPT ![t].refreshing = TRUE]
    /\ UNCHANGED <<database, jar, expired, history>>

verify(r) ==
    LET t == request[r].cookie IN
    /\ At(r, "verify")
    /\ IF t = 0 \/ t \in expired THEN Refuse(r) ELSE Goto(r, "findSession")
    /\ UNCHANGED <<database, clients, expired, history>>

\* No row holds the token: the alarm.
findSession(r) ==
    LET t == request[r].cookie IN
    /\ At(r, "findSession")
    /\ IF HeldBy(t) = {} THEN Goto(r, "alarm")
       ELSE \E i \in HeldBy(t) :
                request' = [request EXCEPT
                    ![r].at = IF t \in expired THEN "drop" ELSE "findUser",
                    ![r].row = i]
    /\ UNCHANGED <<database, clients, expired, history>>

drop(r) ==
    /\ At(r, "drop")
    /\ EndSessions({request[r].row})
    /\ Refuse(r)
    /\ UNCHANGED <<account, link, clients, expired, history>>

\* Reuse of a token that was rotated away, or so the code takes it: every
\* session of the account is ended.
alarm(r) ==
    /\ At(r, "alarm")
    /\ EndSessions(Tokens)
    /\ Refuse(r)
    /\ UNCHANGED <<account, link, clients, expired, history>>

\* A deactivated account loses its sessions as well.
findUser(r) ==
    /\ At(r, "findUser")
    /\ Goto(r, IF account.active THEN "rotate" ELSE "endAll")
    /\ UNCHANGED <<database, clients, expired, history>>

\* Mutation of Holds: the row is found by its id alone.
SameRow(i, t) == session[i] # 0

\* Mutation of Holds: the row is saved as it was read.
SavedAnyway(i, t) == i \in Tokens

\* The row's id and the token presented are the criteria of the UPDATE.
Holds(i, t) == session[i] = t

\* Whether the update found its row is not looked at: the new token is given
\* out in any case.
rotate(r) ==
    LET i == request[r].row
        t == request[r].cookie
    IN  /\ At(r, "rotate")
        /\ IF Holds(i, t)
           THEN /\ Sign(i, t)
                /\ session' = [session EXCEPT ![i] = NextToken]
           ELSE /\ Sign(i, 0)
                /\ UNCHANGED session
        /\ Finish(r, "open", NextToken)
        /\ UNCHANGED <<account, link, clients, expired>>

-----------------------------------------------------------------------------
(* Ways out *)

logout(r, t) ==
    /\ page[t].access
    /\ Send(r, t, "logout", "forget", None, None, 0)
    /\ UNCHANGED <<database, clients, expired, history>>

forget(r) ==
    /\ At(r, "forget")
    /\ EndSessions(HeldBy(request[r].cookie))
    /\ Finish(r, "cleared", 0)
    /\ UNCHANGED <<account, link, clients, expired, history>>

logoutEverywhere(r, t) ==
    /\ page[t].access
    /\ Send(r, t, "logoutAll", "guard", None, None, 0)
    /\ UNCHANGED <<database, clients, expired, history>>

\* One of the list that listSessions() gave.
endSession(r, t, i) ==
    /\ page[t].access
    /\ i \in Live
    /\ Send(r, t, "endSession", "guard", None, None, i)
    /\ UNCHANGED <<database, clients, expired, history>>

\* JwtAuthGuard: the account is read again on each request.
guard(r) ==
    /\ At(r, "guard")
    /\ IfActive(r, CASE request[r].op = "logoutAll" -> "endAll"
                     [] request[r].op = "endSession" -> "endOne"
                     [] request[r].op = "change" -> "compare")
    /\ UNCHANGED <<database, clients, expired, history>>

endOne(r) ==
    LET i == request[r].row IN
    /\ At(r, "endOne")
    /\ EndSessions({i})
    /\ IF session[i] = 0 THEN Refuse(r) ELSE Done(r)
    /\ UNCHANGED <<account, link, clients, expired, history>>

\* The last statement of four handlers, and not of googleSignIn().
endAll(r) ==
    /\ At(r, "endAll")
    /\ EndSessions(Tokens)
    /\ CASE request[r].op = "google" -> Goto(r, "open")
         [] request[r].op \in {"logoutAll", "reset"} -> Finish(r, "cleared", 0)
         [] OTHER -> Refuse(r)
    /\ UNCHANGED <<account, link, clients, expired, history>>

-----------------------------------------------------------------------------
(* Passwords *)

requestPasswordReset(r, t) ==
    /\ Send(r, t, "forgot", "findByEmail", None, None, 0)
    /\ UNCHANGED <<database, clients, expired, history>>

replace(r) ==
    /\ At(r, "replace")
    /\ link' = [l \in Links |-> IF link[l] = "free" THEN "free" ELSE "gone"]
    /\ Goto(r, "insert")
    /\ UNCHANGED <<account, session, clients, expired, history>>

\* ... and the link goes out by mail.
insert(r) ==
    /\ At(r, "insert")
    /\ \E l \in Links :
            /\ link[l] = "free"
            /\ \A m \in Links : m < l => link[m] # "free"
            /\ link' = [link EXCEPT ![l] = "live"]
    /\ Done(r)
    /\ UNCHANGED <<account, session, clients, expired, history>>

\* Somebody opens a link that was sent, and chooses a password.
resetPassword(r, t, l, new) ==
    /\ link[l] # "free"
    /\ Send(r, t, "reset", "findLink", None, new, l)
    /\ UNCHANGED <<database, clients, expired, history>>

findLink(r) ==
    /\ At(r, "findLink")
    /\ IF link[request[r].row] = "live" THEN Goto(r, "setPassword") ELSE Refuse(r)
    /\ UNCHANGED <<database, clients, expired, history>>

changePassword(r, t, given, new) ==
    /\ page[t].access
    /\ Send(r, t, "change", "guard", given, new, 0)
    /\ UNCHANGED <<database, clients, expired, history>>

\* login() and changePassword(): the account is read and its password compared.
\* One opened through Google has none, and sets its first.
compare(r) ==
    LET given == request[r].given
        mayEnter == account.exists /\ account.password = given /\ account.active
        mayChange == \/ account.password = None
                     \/ account.password = given /\ given # request[r].new
    IN  /\ At(r, "compare")
        /\ IF request[r].op = "login"
           THEN IF mayEnter THEN Goto(r, "open") ELSE Refuse(r)
           ELSE IF mayChange THEN Goto(r, "setPassword") ELSE Refuse(r)
        /\ UNCHANGED <<database, clients, expired, history>>

setPassword(r) ==
    LET next == IF request[r].op = "reset" THEN "spend" ELSE "list" IN
    /\ At(r, "setPassword")
    /\ account' = [account EXCEPT !.password = request[r].new]
    /\ request' = [request EXCEPT ![r].at = next, ![r].mark = issued]
    /\ UNCHANGED <<session, link, clients, expired, history>>

spend(r) ==
    LET l == request[r].row IN
    /\ At(r, "spend")
    /\ link' = [link EXCEPT ![l] = IF @ = "gone" THEN @ ELSE "used"]
    /\ Goto(r, "endAll")
    /\ UNCHANGED <<account, session, clients, expired, history>>

\* Mutation of Others: without a cookie there is nothing to compare with, and
\* nothing is ended.
OthersIfKnown(t) == IF t = 0 THEN {} ELSE Live \ HeldBy(t)

\* All sessions but the one whose token came with the request.
Others(t) == Live \ HeldBy(t)

list(r) ==
    /\ At(r, "list")
    /\ request' = [request EXCEPT ![r].at = "endEach",
                                  ![r].todo = Others(request[r].cookie)]
    /\ UNCHANGED <<database, clients, expired, history>>

endEach(r) ==
    /\ At(r, "endEach")
    /\ IF request[r].todo = {}
       THEN Done(r) /\ UNCHANGED session
       ELSE \E i \in request[r].todo :
                /\ EndSessions({i})
                /\ request' = [request EXCEPT ![r].todo = @ \ {i}]
    /\ UNCHANGED <<account, link, clients, expired, history>>

-----------------------------------------------------------------------------
(* What happens to them *)

\* Mutation of Unlocked: a refresh that failed stays in flight for ever.
UnlockedByAnswer(p, result) ==
    [p EXCEPT !.access = result = "open",
              !.refreshing = result # "open"]

\* .finally(), then refreshAuth() or the client's logout().
Unlocked(p, result) ==
    [p EXCEPT !.access = result = "open", !.refreshing = FALSE]

\* What a tab remembers after an answer.  The storefront forgets who is signed
\* in whether or not its logout was heard.
Remembers(p, op, result) ==
    CASE op = "renew" -> Unlocked(p, result)
      [] op \in {"logout", "logoutAll"} -> [p EXCEPT !.access = FALSE]
      [] op \in WaysIn \cup {"boot"} ->
            [p EXCEPT !.access = @ \/ result = "open"]
      [] OTHER -> p

\* The browser keeps the cookie it is given, or drops the one it is told to.
Cookie(c, q) ==
    CASE q.result = "open" -> q.answer
      [] q.result = "cleared" -> 0
      [] OTHER -> c

\* The answer arrives.  Nobody waits for one whose page is gone.
Answer(r) ==
    LET q == request[r] IN
    /\ At(r, "answered")
    /\ request' = [request EXCEPT ![r] = Idle]
    /\ IF q.tab = None THEN UNCHANGED clients
       ELSE /\ jar' = [jar EXCEPT ![BrowserOf[q.tab]] = Cookie(@, q)]
            /\ page' = [page EXCEPT ![q.tab] = Remembers(@, q.op, q.result)]
    /\ UNCHANGED <<database, expired, history>>

\* By hand, in the database: nothing in the code sets isActive.
Deactivate ==
    /\ "deactivate" \in Operations
    /\ account.exists
    /\ account' = [account EXCEPT !.active = FALSE]
    /\ UNCHANGED <<session, link, clients, request, expired, history>>

\* Thirty days are over.
Expire(t) ==
    /\ "expire" \in Operations
    /\ t <= issued
    /\ expired' = expired \cup {t}
    /\ UNCHANGED <<database, clients, request, history>>

\* An hour is over.
ExpireLink(l) ==
    /\ "expire" \in Operations
    /\ link[l] = "live"
    /\ link' = [link EXCEPT ![l] = "gone"]
    /\ UNCHANGED <<account, session, clients, request, expired, history>>

\* The backend goes down: its handlers are gone, and so are answers that were
\* not heard yet.  Their clients get an error.
Crash ==
    /\ "crash" \in Operations
    /\ \E heard \in SUBSET {r \in Requests : At(r, "answered")} :
            request' = [r \in Requests |->
                IF At(r, "idle") \/ r \in heard THEN request[r]
                ELSE [request[r] EXCEPT !.at = "answered", !.result = "refused",
                                        !.answer = 0, !.todo = {}]]
    /\ UNCHANGED <<database, clients, expired, history>>

Init ==
    /\ account \in {NoAccount} \cup {Opened(p, FALSE) : p \in Passwords}
    /\ session = [i \in Tokens |-> 0]
    /\ link = [l \in Links |-> "free"]
    /\ jar = [b \in Browsers |-> 0]
    /\ page = [t \in Tabs |-> Blank]
    /\ request = [r \in Requests |-> Idle]
    /\ expired = {}
    /\ issued = 0
    /\ token = [t \in Tokens |-> Free]

\* What a visitor does.
Visit(r, t) ==
    \/ bootstrapAuth(r, t) \/ refreshAccessToken(r, t)
    \/ googleSignIn(r, t) \/ logout(r, t) \/ logoutEverywhere(r, t)
    \/ requestPasswordReset(r, t)
    \/ \E i \in Tokens : endSession(r, t, i)
    \/ \E p \in Passwords :
        \/ register(r, t, p) \/ login(r, t, p)
        \/ \E l \in Links : resetPassword(r, t, l, p)
        \/ \E new \in Passwords : changePassword(r, t, p, new)

\* What the backend does about it.
Handle(r) ==
    \/ findByEmail(r) \/ create(r) \/ findByGoogleId(r) \/ findAgain(r)
    \/ linkGoogle(r) \/ open(r)
    \/ verify(r) \/ findSession(r) \/ findUser(r) \/ drop(r) \/ alarm(r)
    \/ rotate(r)
    \/ guard(r) \/ forget(r) \/ endOne(r) \/ endAll(r)
    \/ replace(r) \/ insert(r) \/ findLink(r) \/ compare(r) \/ setPassword(r)
    \/ spend(r) \/ list(r) \/ endEach(r)

Next ==
    \/ \E r \in Requests :
        (\E t \in Tabs : Visit(r, t)) \/ Handle(r) \/ Answer(r)
    \/ Deactivate
    \/ \E t \in Tokens : Expire(t)
    \/ \E l \in Links : ExpireLink(l)
    \/ Crash

\* Handlers go on and answers arrive.  Nobody has to visit.
Fairness == \A r \in Requests : WF_vars(Handle(r)) /\ WF_vars(Answer(r))

Spec == Init /\ [][Next]_vars /\ Fairness

-----------------------------------------------------------------------------
(* Invariants and properties *)

\* No row, cookie or request bears a token that was not signed.
TokensAreSigned ==
    \A t \in Tokens : t > issued =>
        /\ token[t] = Free
        /\ session[t] = 0
        /\ \A u \in Tokens : session[u] # t /\ token[u].of # t
        /\ \A j \in Browsers : jar[j] # t
        /\ \A r \in Requests : request[r].cookie # t /\ request[r].answer # t

\* The variables have their types, and the tokens in them were signed.
TypeOK ==
    /\ account \in Account
    /\ session \in [Tokens -> Tokens \cup {0}]
    /\ link \in [Links -> {"free", "live", "used", "gone"}]
    /\ jar \in [Browsers -> Tokens \cup {0}]
    /\ page \in [Tabs -> Page]
    /\ request \in [Requests -> Request]
    /\ expired \subseteq Tokens
    /\ issued \in 0 .. MaxTokens
    /\ token \in [Tokens -> [row : Tokens \cup {0}, of : Tokens \cup {0}]]
    /\ TokensAreSigned

\* A session that was ended stays ended, whatever requests that had found it
\* before still do (refresh() updates the row it read, and saves nothing).
EndedStaysEnded ==
    [][\A i \in Tokens :
        i <= issued /\ session[i] = 0 => session'[i] = 0]_vars

\* However many refreshes present one token, one of them replaces it: no two
\* tokens have succeeded to the same one.
ReplacedOnce ==
    \A s, t \in Tokens : token[s].of # 0 /\ token[s].of = token[t].of => s = t

\* No session is held by a token that was replaced, or signed for another one.
RotatedIsDead ==
    \A i \in Live :
        /\ token[session[i]].row = i
        /\ \A t \in Tokens : token[t].of # session[i]

\* When refresh() raises the alarm, the token presented holds no session any
\* more: a token is not given out before its row is there, and a row does
\* not return to an earlier token.
AlarmIsTrue ==
    \A r \in Requests :
        At(r, "alarm") => request[r].cookie # 0 /\ HeldBy(request[r].cookie) = {}

\* The one session changePassword() may leave.
Kept(q) ==
    IF q.op = "change" /\ q.cookie # 0 THEN {token[q.cookie].row} ELSE {}

Ended(q) ==
    /\ q.op \in {"google", "reset", "change"}
    /\ q.at \in {"open", "answered"}
    /\ q.result # "refused"

OldSessions(q) == {i \in Live : i <= q.mark} \ Kept(q)

\* Once a password was changed or reset, or Google vouched for the owner, the
\* sessions opened before are over, but for the device that asked; refreshes,
\* sign-ins and other changes that ran at the same time bring none back.
OldSessionsEnd ==
    \A r \in Requests : Ended(request[r]) => OldSessions(request[r]) = {}

\* How far a handler is with the old sessions: where it has not updated the
\* account there is no mark, and endEach() has still to end those in `todo'.
OnItsWay(q) ==
    /\ q.mark <= issued
    /\ q.mark # 0 => q.at \in {"spend", "list", "endEach", "endAll", "open",
                              "answered"}
    /\ q.at \in {"list", "endEach"} => q.op = "change"
    /\ q.at = "setPassword" => q.op \in {"reset", "change"}
    /\ q.at = "findLink" => q.op = "reset"
    /\ q.at = "guard" => q.op \in {"logoutAll", "endSession", "change"}
    /\ q.at = "compare" => q.op \in {"login", "change"}
    /\ q.at \in {"findSession", "findUser", "rotate"} => q.cookie # 0
    /\ q.at \in {"findUser", "rotate"} => q.row \in Tokens
    /\ q.at # "answered" => q.result = "open"
    /\ q.at = "endEach" => OldSessions(q) \subseteq q.todo

Progress == \A r \in Requests : OnItsWay(request[r])

\* Inductive: what the four invariants before rest on.
SessionInv ==
    /\ TypeOK
    /\ ReplacedOnce
    /\ RotatedIsDead
    /\ AlarmIsTrue
    /\ OldSessionsEnd
    /\ Progress

\* client.ts: a refresh does not stay in flight, so that a tab can always ask
\* for another one (MaxTokens: no token is left to sign).
RefreshesEnd ==
    \A t \in Tabs :
        page[t].refreshing ~> ~page[t].refreshing \/ issued = MaxTokens

\* auth.service.ts:369: no session holds the token, "which means it was already
\* rotated away".
ReuseMeansRotated ==
    \A r \in Requests : At(r, "alarm") =>
        \E t \in Tokens : token[t].of = request[r].cookie

\* auth.service.ts:420: "What must not happen is logout failing and leaving a
\* live refresh token behind."
LogoutEndsSession ==
    \A r \in Requests :
        /\ request[r].op = "logout"
        /\ request[r].result = "cleared"
        /\ request[r].cookie # 0
        => \A i \in Live : i # token[request[r].cookie].row

=============================================================================
