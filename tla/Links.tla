------------------------------- MODULE Links -------------------------------
(***************************************************************************)
(* The settings row and the Telegram links: SettingsService, the linking   *)
(* calls of UsersService, and the commands of the bot (TelegramService).   *)
(*                                                                         *)
(* The row of the settings is created by whoever asks for it first.  Every *)
(* change of it reads it, changes its copy and saves the whole copy.  The  *)
(* bot takes one update at a time (long polling); the requests of the site *)
(* interleave with it.  One action is one statement.  save() selects the   *)
(* row before it writes it: for the new row these are two steps, for a row *)
(* that was read they are taken as one.                                    *)
(***************************************************************************)
EXTENDS Integers, FiniteSets

CONSTANTS
    Users,
    Chats,
    Texts,     \* what the form, and the FAQ, can say
    Requests,  \* requests of the site in progress at once (bound)
    Bot,       \* the process that handles the bot's updates
    MaxCodes,  \* how many codes are ever issued (bound)
    None

VARIABLES
    chatOf,    \* users.telegram_chat_id
    codeOf,    \* users.telegram_link_code
    pending,   \* telegram_pending_links: the code a chat was given, 0 for none
    settings,  \* app_settings: its row, or NoRow
    opted,     \* supportModeChats: in memory
    live,      \* the codes whose ten minutes are not over
    issued,    \* the last code that was issued
    request,   \* each request, and the update of the bot, in progress
    bound,     \* history: what each code has linked
    raced      \* history: codes that two were at together, or one died with

vars == <<chatOf, codeOf, pending, settings, opted, live, issued, request, bound, raced>>

LinksAssumption ==
    /\ MaxCodes \in Nat
    /\ Bot \notin Requests
    /\ None \notin Users \cup Chats \cup Texts

-----------------------------------------------------------------------------
(* The row of the settings: the form, the FAQ, the artist's chat and the   *)
(* code that will set it.                                                  *)

Codes == 1 .. MaxCodes
Processes == Requests \cup {Bot}
Admin == "admin"

Default == [form |-> None, faq |-> None, chat |-> None, code |-> 0]
NoRow == << >>
Columns == DOMAIN Default
Row ==
    [form : Texts \cup {None}, faq : Texts \cup {None}, chat : Chats \cup {None},
     code : 0 .. MaxCodes]

\*  row     the settings as they were read, changed or not
\*  sends   the columns the request is there to change
\*  late    somebody has saved the settings since they were read
Idle ==
    [op |-> "none", at |-> "idle", user |-> None, chat |-> None, code |-> 0,
     row |-> Default, sends |-> {}, set |-> Default, late |-> FALSE]

Init ==
    /\ chatOf = [u \in Users |-> None]
    /\ codeOf = [u \in Users |-> 0]
    /\ pending = [c \in Chats |-> 0]
    /\ settings \in {NoRow, Default}
    /\ opted = {}
    /\ live = {}
    /\ issued = 0
    /\ request = [r \in Processes |-> Idle]
    /\ bound = {}
    /\ raced = {}

accountsUnchanged == UNCHANGED <<chatOf, codeOf, pending>>
codesUnchanged == UNCHANGED <<live, issued>>
historyUnchanged == UNCHANGED <<bound, raced>>

Go(r, at) == request' = [request EXCEPT ![r].at = at]
Done(r) == request' = [request EXCEPT ![r] = Idle]

\* The next code, alive for ten minutes.
Issue ==
    /\ issued < MaxCodes
    /\ issued' = issued + 1
    /\ live' = live \cup {issued + 1}

\* Whoever takes a code in hand while another has it.
Shares(r, code) ==
    raced' = IF code # 0 /\ \E other \in Processes \ {r} : request[other].code = code
             THEN raced \cup {code} ELSE raced

-----------------------------------------------------------------------------
(* SettingsService *)

\* A call that reads the settings, and perhaps changes the columns of `sends`.
AskSettings(r, op, sends, set) ==
    /\ request[r].at = "idle"
    /\ request' = [request EXCEPT ![r] =
          [Idle EXCEPT !.op = op, !.at = "get", !.sends = sends, !.set = set]]
    /\ UNCHANGED settings

update(r, text) == AskSettings(r, "update", {"form"}, [Default EXCEPT !.form = text])

\* createFaqItem(), updateFaqItem(), deleteFaqItem() and reorderFaq(): the FAQ
\* is one column.
editFaq(r, text) == AskSettings(r, "faq", {"faq"}, [Default EXCEPT !.faq = text])

resetAdminTelegramLink(r) == AskSettings(r, "reset", {"chat", "code"}, Default)

generateAdminTelegramLinkCode(r) ==
    /\ Issue
    /\ AskSettings(r, "generate", {"code"}, [Default EXCEPT !.code = issued + 1])

\* getPublic(), getFaq() and every service that reads a setting
readSettings(r) == AskSettings(r, "read", {}, Default)

\* What the copy becomes.  The bot's code is compared with the copy.
Edited(q, row) ==
    [c \in Columns |-> IF c \in q.sends THEN q.set[c] ELSE row[c]]

\* The row is here: the call goes on with its copy.
WithRow(r, row) ==
    LET q == request[r]
        matches == q.code # 0 /\ row.code = q.code /\ q.code \in live
    IN IF q.op = "read" \/ (q.op = "redeem" /\ ~matches)
       THEN [request EXCEPT ![r] = Idle]
       ELSE [request EXCEPT ![r].at = "save", ![r].row = Edited(q, row)]

findRow(r) ==
    /\ request[r].at = "get"
    /\ IF settings = NoRow THEN Go(r, "create") ELSE request' = WithRow(r, settings)
    /\ UNCHANGED <<settings, opted>>
    /\ accountsUnchanged /\ codesUnchanged /\ historyUnchanged

\* createDefaultRow() is a save() of a row that has its id: it looks first.
\* A row that has come meanwhile is written over with the defaults.
createDefaultRow(r) ==
    /\ request[r].at = "create"
    /\ Go(r, IF settings = NoRow THEN "insert" ELSE "overwrite")
    /\ UNCHANGED <<settings, opted>>
    /\ accountsUnchanged /\ codesUnchanged /\ historyUnchanged

\* Whoever holds a copy holds an old one from now on.
Outdated(requests, r) ==
    [other \in Processes |->
        IF other # r /\ requests[other].at \in {"save", "overwrite"}
        THEN [requests[other] EXCEPT !.late = TRUE] ELSE requests[other]]

\* The other half of the race has inserted first: its row is read again.
insertRow(r) ==
    /\ request[r].at = "insert"
    /\ settings' = IF settings = NoRow THEN Default ELSE settings
    /\ request' = WithRow(r, settings')
    /\ UNCHANGED opted
    /\ accountsUnchanged /\ codesUnchanged /\ historyUnchanged

overwriteRow(r) ==
    /\ request[r].at = "overwrite"
    /\ settings' = Default
    /\ request' = Outdated(WithRow(r, Default), r)
    /\ UNCHANGED opted
    /\ accountsUnchanged /\ codesUnchanged /\ historyUnchanged

save(r) ==
    LET q == request[r]
    IN /\ request[r].at = "save"
       /\ settings' = q.row
       /\ request' = Outdated([request EXCEPT ![r] = Idle], r)
       /\ bound' = IF q.op = "redeem" THEN bound \cup {<<q.code, Admin, q.chat>>} ELSE bound
       /\ raced' = IF q.late THEN raced \cup ({q.row.code} \ {0}) ELSE raced
       /\ UNCHANGED opted
       /\ accountsUnchanged /\ codesUnchanged

-----------------------------------------------------------------------------
(* UsersService: from the account to the bot, and from the bot to the      *)
(* account.                                                                *)

generateTelegramLinkCode(u) ==
    /\ Issue
    /\ codeOf' = [codeOf EXCEPT ![u] = issued + 1]
    /\ UNCHANGED <<chatOf, pending, settings, opted, request>>
    /\ historyUnchanged

resetTelegramLink(u) ==
    /\ chatOf' = [chatOf EXCEPT ![u] = None]
    /\ codeOf' = [codeOf EXCEPT ![u] = 0]
    /\ <<chatOf, codeOf>>' # <<chatOf, codeOf>>
    /\ UNCHANGED <<pending, settings, opted, request>>
    /\ codesUnchanged /\ historyUnchanged

\* redeemTelegramPendingCode(): the row of the code the user has typed in ...
redeemTelegramPendingCode(r, u, code) ==
    /\ r # Bot
    /\ request[r].at = "idle"
    /\ code \in live
    /\ \E c \in Chats :
        /\ pending[c] = code
        /\ request' = [request EXCEPT ![r] =
              [Idle EXCEPT !.op = "link", !.at = "check", !.user = u, !.chat = c, !.code = code]]
    /\ Shares(r, code)
    /\ UNCHANGED <<settings, opted, bound>>
    /\ accountsUnchanged /\ codesUnchanged

LinkedTo(c) == {u \in Users : chatOf[u] = c}

\* ... "one chat, one account": somebody else's is refused ...
findByTelegramChatId(r) ==
    LET q == request[r]
    IN /\ q.at = "check"
       /\ Go(r, IF LinkedTo(q.chat) \subseteq {q.user} THEN "link" ELSE "drop")
       /\ UNCHANGED <<settings, opted>>
       /\ accountsUnchanged /\ codesUnchanged /\ historyUnchanged

\* ... and two statements follow.
link(r) ==
    LET q == request[r]
    IN /\ q.op = "link"
       /\ q.at = "link"
       /\ chatOf' = [chatOf EXCEPT ![q.user] = q.chat]
       /\ bound' = bound \cup {<<q.code, q.user, q.chat>>}
       /\ Go(r, "drop")
       /\ UNCHANGED <<codeOf, pending, settings, opted, raced>>
       /\ codesUnchanged

\* By its id: a code the chat has been given since is another row.
drop(r) ==
    LET q == request[r]
    IN /\ q.at = "drop"
       /\ pending' = [pending EXCEPT ![q.chat] = IF @ = q.code THEN 0 ELSE @]
       /\ Done(r)
       /\ UNCHANGED <<chatOf, codeOf, settings, opted>>
       /\ codesUnchanged /\ historyUnchanged

-----------------------------------------------------------------------------
(* The bot *)

\* /start with nothing: the chat's code is deleted, a new one inserted.
start(c) ==
    /\ request[Bot].at = "idle"
    /\ pending' = [pending EXCEPT ![c] = 0]
    /\ request' = [request EXCEPT ![Bot] =
          [Idle EXCEPT !.op = "start", !.at = "issue", !.chat = c]]
    /\ UNCHANGED <<chatOf, codeOf, settings, opted>>
    /\ codesUnchanged /\ historyUnchanged

savePendingLink ==
    /\ request[Bot].at = "issue"
    /\ Issue
    /\ pending' = [pending EXCEPT ![request[Bot].chat] = issued + 1]
    /\ Done(Bot)
    /\ UNCHANGED <<chatOf, codeOf, settings, opted>>
    /\ historyUnchanged

\* /start with a code: an account's, or else the artist's.
startWith(c, code) ==
    LET q == [Idle EXCEPT !.chat = c, !.code = code]
        owners == {u \in Users : codeOf[u] = code /\ code \in live}
    IN /\ request[Bot].at = "idle"
       /\ code \in 1 .. issued
       /\ request' = [request EXCEPT ![Bot] =
             IF owners # {}
             THEN [q EXCEPT !.op = "bind", !.at = "bind", !.user = CHOOSE u \in owners : TRUE]
             ELSE [q EXCEPT !.op = "redeem", !.at = "get", !.sends = {"chat", "code"},
                            !.set = [Default EXCEPT !.chat = c]]]
       /\ Shares(Bot, code)
       /\ UNCHANGED <<settings, opted, bound>>
       /\ accountsUnchanged /\ codesUnchanged

\* Mutation of bind: the code stays in its column.
BindOnly ==
    LET q == request[Bot]
    IN /\ q.at = "bind"
       /\ chatOf' = [chatOf EXCEPT ![q.user] = q.chat]
       /\ bound' = bound \cup {<<q.code, q.user, q.chat>>}
       /\ Done(Bot)
       /\ UNCHANGED <<codeOf, pending, settings, opted, raced>>
       /\ codesUnchanged

bind ==
    LET q == request[Bot]
    IN /\ q.at = "bind"
       /\ chatOf' = [chatOf EXCEPT ![q.user] = q.chat]
       /\ codeOf' = [codeOf EXCEPT ![q.user] = 0]
       /\ bound' = bound \cup {<<q.code, q.user, q.chat>>}
       /\ Done(Bot)
       /\ UNCHANGED <<pending, settings, opted, raced>>
       /\ codesUnchanged

\* /support, or a chat that asks for a work again
support(c) ==
    /\ request[Bot].at = "idle"
    /\ opted' = opted \cup {c}
    /\ UNCHANGED <<settings, request>>
    /\ accountsUnchanged /\ codesUnchanged /\ historyUnchanged

\* Plain text is passed on to the artist's chat, if there is one: the settings
\* are read for it.  A chat that did not ask for support is told how to.
relay(c) ==
    /\ c \in opted
    /\ readSettings(Bot)
    /\ UNCHANGED opted
    /\ accountsUnchanged /\ codesUnchanged /\ historyUnchanged

-----------------------------------------------------------------------------

\* Ten minutes have passed since the code was issued.
Expire(code) ==
    /\ live' = live \ {code}
    /\ live' # live
    /\ UNCHANGED <<settings, opted, issued, request>>
    /\ accountsUnchanged /\ historyUnchanged

\* The process ends: what is in progress stops between two statements, and the
\* bot forgets who is talking to support.
Restart ==
    /\ opted' = {}
    /\ request' = [r \in Processes |-> Idle]
    /\ raced' = raced \cup ({request[r].code : r \in Processes} \ {0})
    /\ <<opted, request>>' # <<opted, request>>
    /\ UNCHANGED <<settings, bound>>
    /\ accountsUnchanged /\ codesUnchanged

Step(r) ==
    \/ findRow(r)
    \/ createDefaultRow(r)
    \/ insertRow(r)
    \/ overwriteRow(r)
    \/ save(r)
    \/ findByTelegramChatId(r)
    \/ link(r)
    \/ drop(r)

Asks(r) ==
    /\ \/ \E text \in Texts : (update(r, text) \/ editFaq(r, text)) /\ codesUnchanged
       \/ (resetAdminTelegramLink(r) \/ readSettings(r)) /\ codesUnchanged
       \/ generateAdminTelegramLinkCode(r)
    /\ UNCHANGED opted
    /\ accountsUnchanged /\ historyUnchanged

BotStep ==
    \/ savePendingLink
    \/ bind
    \/ \E c \in Chats : start(c) \/ support(c) \/ relay(c) \/ \E code \in Codes : startWith(c, code)

Next ==
    \/ \E r \in Processes : Step(r)
    \/ \E r \in Requests :
        \/ Asks(r)
        \/ \E u \in Users, code \in Codes : redeemTelegramPendingCode(r, u, code)
    \/ BotStep
    \/ \E u \in Users : generateTelegramLinkCode(u) \/ resetTelegramLink(u)
    \/ \E code \in Codes : Expire(code)
    \/ Restart

Spec == Init /\ [][Next]_vars

-----------------------------------------------------------------------------
(* Properties. *)

TypeOK ==
    /\ chatOf \in [Users -> Chats \cup {None}]
    /\ codeOf \in [Users -> 0 .. issued]
    /\ pending \in [Chats -> 0 .. issued]
    /\ settings \in Row \cup {NoRow}
    /\ opted \subseteq Chats
    /\ live \subseteq Codes
    /\ issued \in 0 .. MaxCodes
    /\ \A r \in Processes : request[r].row \in Row /\ request[r].sends \subseteq Columns

\* A code links one account, or the artist, to one chat and is spent, in
\* whichever direction it travelled and whatever was reset or issued since: but
\* for a code that two had in hand at once, one whose redemption was cut short,
\* and an artist's code that an overlapping save of the settings has brought
\* back.  (telegram.service.ts:117-141, users.service.ts:90-116,
\* settings.service.ts:183-207.)
OneTimeCodes ==
    \A a, b \in bound : a[1] = b[1] => a = b \/ a[1] \in raced

\* Whoever saves the settings leaves alone what they did not set out to change,
\* unless somebody saved them between the read and the save, or the row was
\* being created.  ("Fields the caller omits are left as-is",
\* settings.service.ts:143-145.)
LeavesSettings ==
    settings # NoRow =>
        \A c \in Columns : settings'[c] # settings[c] =>
            \E r \in Processes :
                \/ request[r].at = "save" /\ (c \in request[r].sends \/ request[r].late)
                \/ request[r].at = "overwrite"

\* "One chat, one account" (users.service.ts:99).
OneChat ==
    \A u, v \in Users : chatOf[u] # None /\ chatOf[u] = chatOf[v] => u = v

-----------------------------------------------------------------------------
(* The inductive invariant behind OneTimeCodes: where a code can be.  A     *)
(* code is an account's, a chat's or the artist's, and never changes sides. *)

Call ==
    [op : {"none", "update", "faq", "reset", "generate", "read", "link", "start", "bind", "redeem"},
     at : {"idle", "get", "create", "insert", "overwrite", "save", "check", "link", "drop",
           "issue", "bind"},
     user : Users \cup {None}, chat : Chats \cup {None}, code : 0 .. MaxCodes,
     row : Row, sends : SUBSET Columns, set : Row, late : BOOLEAN]

LinksType ==
    /\ codeOf \in [Users -> 0 .. MaxCodes]
    /\ pending \in [Chats -> 0 .. MaxCodes]
    /\ settings \in Row \cup {NoRow}
    /\ issued \in 0 .. MaxCodes
    /\ live \subseteq 1 .. issued
    /\ request \in [Processes -> Call]

\* What kind of call is where, and whose it is.
Shaped(r, q) ==
    /\ q.op \in {"start", "bind", "redeem"} => r = Bot
    /\ q.op = "link" <=> q.at \in {"check", "link", "drop"}
    /\ q.op = "bind" <=> q.at = "bind"
    /\ q.op = "start" <=> q.at = "issue"
    /\ q.op = "none" <=> q.at = "idle"
    /\ q.op \in {"link", "bind"} => q.user \in Users /\ q.chat \in Chats /\ q.code # 0
    /\ q.op = "start" => q.chat \in Chats
    /\ q.op = "redeem" => "code" \in q.sends
    /\ q.op = "redeem" /\ q.at = "save" => q.code # 0 /\ q.row.code = 0
    /\ q.op = "generate" => "code" \in q.sends
    /\ q.op # "generate" => q.set.code = 0

Binds(r) ==
    \/ request[r].op = "link" /\ request[r].at \in {"check", "link"}
    \/ request[r].op = "bind"
    \/ request[r].op = "redeem" /\ request[r].at = "save"

IsBound(k) == \E b \in bound : b[1] = k
InSettings(k) == settings # NoRow /\ settings.code = k
Generates(r, k) == request[r].op = "generate" /\ request[r].set.code = k
Writes(r, k) == request[r].at = "save" /\ request[r].row.code = k
Redeems(r, k) == request[r].op = "redeem" /\ request[r].at = "save" /\ request[r].code = k
Sends(r, k) == request[r].op = "link" /\ request[r].code = k
Takes(r, k) == request[r].op = "bind" /\ request[r].code = k

OfAccount(k) == (\E u \in Users : codeOf[u] = k) \/ \E r \in Processes : Takes(r, k)
OfChat(k) == (\E c \in Chats : pending[c] = k) \/ \E r \in Processes : Sends(r, k)
OfArtist(k) ==
    InSettings(k) \/ \E r \in Processes : Generates(r, k) \/ Writes(r, k) \/ Redeems(r, k)

\* Nobody has heard of a code that has not been issued.
Fresh(k) ==
    /\ ~OfAccount(k) /\ ~OfChat(k) /\ ~OfArtist(k) /\ ~IsBound(k)
    /\ \A r \in Processes : request[r].code # k

OneSide(k) ==
    /\ ~(OfAccount(k) /\ OfChat(k))
    /\ ~(OfAccount(k) /\ OfArtist(k))
    /\ ~(OfChat(k) /\ OfArtist(k))

\* One owner, also for whoever has the code in hand.
OneOwner(k) ==
    /\ \A u, v \in Users : codeOf[u] = k /\ codeOf[v] = k => u = v
    /\ \A c, d \in Chats : pending[c] = k /\ pending[d] = k => c = d
    /\ \A r \in Processes :
        /\ Takes(r, k) => \A u \in Users : codeOf[u] = k => u = request[r].user
        /\ Sends(r, k) => \A c \in Chats : pending[c] = k => c = request[r].chat
        /\ Generates(r, k) =>
            /\ ~InSettings(k)
            /\ \A s \in Processes : ~Redeems(s, k) /\ (Generates(s, k) \/ Writes(s, k) => s = r)

OneHand(k) ==
    k \notin raced =>
        \A r, s \in Processes : request[r].code = k /\ request[s].code = k => r = s

\* What has linked once will not do so again.
Spent(k) ==
    IsBound(k) /\ k \notin raced =>
        /\ \A u \in Users : codeOf[u] # k
        /\ ~InSettings(k)
        /\ \A c \in Chats : pending[c] = k =>
            \E r \in Processes : /\ Sends(r, k) /\ request[r].at = "drop" /\ request[r].chat = c
        /\ \A r \in Processes :
            /\ ~Generates(r, k)
            /\ Writes(r, k) => request[r].late
            /\ request[r].code = k => ~Binds(r)

Safe(k) == OneSide(k) /\ OneOwner(k) /\ OneHand(k) /\ Spent(k)

CodesInv ==
    /\ LinksType
    /\ \A r \in Processes : Shaped(r, request[r])
    /\ \A k \in Codes : Safe(k) /\ (k > issued => Fresh(k))
    /\ OneTimeCodes

-----------------------------------------------------------------------------
(* The inductive invariant behind LeavesSettings: a copy that nobody has    *)
(* saved over is the row, but for what it is there to change.               *)

Timely(q) ==
    q.at = "save" /\ ~q.late =>
        /\ settings # NoRow
        /\ \A c \in Columns \ q.sends : q.row[c] = settings[c]

TimelyInv == \A r \in Processes : Timely(request[r])
=============================================================================
