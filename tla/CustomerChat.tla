---------------------------- MODULE CustomerChat ----------------------------
(***************************************************************************)
(* The customer's side of the support chat: one tab of a visitor who may   *)
(* have an account, with the chat page (SupportChatPage, ChatThread), the  *)
(* badge elsewhere on the site (useMyUnreadSupportCount), and the socket   *)
(* each of the two opens for itself (useSupportSocket).                    *)
(*                                                                         *)
(* What the gateway does between a handshake and its rooms is in           *)
(* SupportChat; here a handshake is one step.  A message typed while the   *)
(* socket is not connected waits in it, and goes with it.                  *)
(***************************************************************************)
EXTENDS Integers, Sequences, FiniteSets, Functions

CONSTANTS
    MaxMessages,  \* messages of both threads (bound)
    MaxEvents     \* pages opened, identities changed, sockets cut, tokens expired (bound)

VARIABLES
    me,      \* the tab: who its store says it is, whether that is known yet, its token, its page
    cookie,  \* whom the refresh cookie names
    sock,    \* the socket of the page, or of the badge
    late,    \* sent through sockets that are gone, and still to be served
    ears,    \* told to the socket and not heard yet
    thread,  \* the messages of either chat, as they were saved
    unread,  \* its unread_by_user
    screen,  \* the chat page
    ask,     \* its request
    badge,   \* the count, and the request for it
    told,    \* history: messages so far, and what befell
    at       \* history: who wrote each message

vars == <<me, cookie, sock, late, ears, thread, unread, screen, ask, badge, told, at>>

Owners == {"guest", "account"}
Idle == [at |-> "none", as |-> "guest", got |-> << >>]
Blank == [open |-> FALSE, shown |-> << >>, loading |-> FALSE]

\* io(): connecting, with nothing to send.
Connecting == [state |-> "connecting", as |-> "guest", room |-> FALSE, up |-> << >>]

Init ==
    /\ cookie \in Owners
    /\ me = [store |-> "guest", known |-> FALSE, token |-> "fresh", page |-> "elsewhere"]
    /\ sock = Connecting
    /\ late = << >>
    /\ ears = << >>
    /\ thread = [o \in Owners |-> << >>]
    /\ unread = [o \in Owners |-> 0]
    /\ screen = Blank
    /\ ask = Idle
    /\ badge = [count |-> 0, at |-> "none", got |-> 0]
    /\ told = [messages |-> 0, events |-> 0]
    /\ at = << >>

Befalls ==
    /\ told.events < MaxEvents
    /\ told' = [told EXCEPT !.events = @ + 1]

-----------------------------------------------------------------------------
(* The socket. *)

\* What was emitted on an open connection reaches the server, or what was
\* emitted before the network went may not.
Parting(lost) ==
    /\ late' = IF sock.state # "on" \/ lost THEN late
               ELSE late \o [i \in DOMAIN sock.up |-> [as |-> sock.as, id |-> sock.up[i]]]
    /\ ears' = << >>

\* The effect, keyed on who the visitor is: another one, another connection.
Rebuild ==
    /\ sock' = Connecting
    /\ Parting(FALSE)

\* Were it keyed on whether there is to be a socket only.
Keep == UNCHANGED <<sock, late, ears>>

\* A change of identity, as the effect sees it.
Identity == Rebuild

\* The token is read for every attempt.  The gateway lets the connection come
\* about and ends it when the token is not good, and a client that was
\* disconnected by its server does not try again.
Attempt ==
    /\ sock.state = "connecting"
    /\ sock' = IF me.store = "account" /\ me.token = "expired"
               THEN [sock EXCEPT !.state = "ended", !.up = << >>]
               ELSE [sock EXCEPT !.state = "on", !.as = me.store,
                                 !.room = thread[me.store] # << >>]
    /\ UNCHANGED <<me, cookie, late, ears, thread, unread, screen, ask, badge, told, at>>

Blip ==
    /\ sock.state = "on"
    /\ Befalls
    /\ sock' = Connecting
    /\ \E lost \in BOOLEAN : Parting(lost)
    /\ UNCHANGED <<me, cookie, thread, unread, screen, ask, badge, at>>

-----------------------------------------------------------------------------
(* The server. *)

\* addMessage() and the event, to those who are in the room; the sender's
\* own socket enters it with the first message.
Saved(o, message, joins) ==
    /\ thread' = [thread EXCEPT ![o] = Append(@, message)]
    /\ ears' = IF sock.state = "on" /\ sock.as = o /\ (sock.room \/ joins)
               THEN Append(ears, message) ELSE ears

Serve ==
    /\ sock.state = "on"
    /\ sock.up # << >>
    /\ Saved(sock.as, [id |-> Head(sock.up), by |-> "USER"], TRUE)
    /\ sock' = [sock EXCEPT !.up = Tail(@), !.room = TRUE]
    /\ UNCHANGED <<me, cookie, late, unread, screen, ask, badge, told, at>>

ServeLate ==
    /\ late # << >>
    /\ Saved(Head(late).as, [id |-> Head(late).id, by |-> "USER"], FALSE)
    /\ late' = Tail(late)
    /\ UNCHANGED <<me, cookie, sock, unread, screen, ask, badge, told, at>>

\* The artist answers.
Reply(o) ==
    /\ thread[o] # << >>
    /\ told.messages < MaxMessages
    /\ told' = [told EXCEPT !.messages = @ + 1]
    /\ at' = Append(at, o)
    /\ Saved(o, [id |-> told.messages + 1, by |-> "ADMIN"], FALSE)
    /\ unread' = [unread EXCEPT ![o] = @ + 1]
    /\ UNCHANGED <<me, cookie, sock, late, screen, ask, badge>>

-----------------------------------------------------------------------------
(* The chat page. *)

handleSend ==
    /\ screen.open
    /\ told.messages < MaxMessages
    /\ told' = [told EXCEPT !.messages = @ + 1]
    /\ at' = Append(at, me.store)
    /\ sock' = [sock EXCEPT !.up = Append(@, told.messages + 1)]
    /\ UNCHANGED <<me, cookie, late, ears, thread, unread, screen, ask, badge>>

\* getMyChat(): as whoever the store named when it was sent.
GetMyChat ==
    \/ /\ ask.at = "sent"
       /\ ask' = [ask EXCEPT !.at = "read", !.got = thread[ask.as]]
       /\ UNCHANGED <<me, cookie, sock, late, ears, thread, unread, screen, badge, told, at>>
    \/ /\ ask.at = "read"
       /\ ask' = [ask EXCEPT !.at = "marked"]
       /\ unread' = IF ask.got = << >> THEN unread ELSE [unread EXCEPT ![ask.as] = 0]
       /\ UNCHANGED <<me, cookie, sock, late, ears, thread, screen, badge, told, at>>

\* setMessages() with what was read, whatever was heard meanwhile; a failure
\* leaves what there is.
Answer ==
    /\ \/ /\ ask.at = "marked"
          /\ screen' = IF screen.open THEN [screen EXCEPT !.shown = ask.got, !.loading = FALSE]
                       ELSE screen
       \/ /\ ask.at # "none"
          /\ screen' = [screen EXCEPT !.loading = FALSE]
    /\ ask' = Idle
    /\ UNCHANGED <<me, cookie, sock, late, ears, thread, unread, badge, told, at>>

Hear ==
    /\ ears # << >>
    /\ ears' = Tail(ears)
    /\ IF screen.open
       THEN /\ screen' = [screen EXCEPT !.shown = Append(@, Head(ears))]
            /\ UNCHANGED badge
       ELSE /\ badge' = [badge EXCEPT !.count = IF Head(ears).by = "ADMIN" THEN @ + 1 ELSE @]
            /\ UNCHANGED screen
    /\ UNCHANGED <<me, cookie, sock, late, thread, unread, ask, told, at>>

\* The badge's query, while the page is not the chat.
Count ==
    \/ /\ badge.at = "none" /\ ~screen.open
       /\ badge' = [badge EXCEPT !.at = "read", !.got = unread[me.store]]
       /\ UNCHANGED <<me, cookie, sock, late, ears, thread, unread, screen, ask, told, at>>
    \/ /\ badge.at = "read"
       /\ badge' = [badge EXCEPT !.at = "none", !.got = 0, !.count = badge.got]
       /\ UNCHANGED <<me, cookie, sock, late, ears, thread, unread, screen, ask, told, at>>

-----------------------------------------------------------------------------
(* The tab. *)

\* The page of the chat opens with a request and a socket of its own.
Mounted(page, store) ==
    /\ screen' = IF page = "chat" THEN [Blank EXCEPT !.open = TRUE, !.loading = TRUE] ELSE Blank
    /\ ask' = IF page = "chat" THEN [Idle EXCEPT !.at = "sent", !.as = store] ELSE ask

Go(page) ==
    /\ me.page # page
    /\ page = "chat" => ask.at = "none"
    /\ Befalls
    /\ me' = [me EXCEPT !.page = page]
    /\ Mounted(page, me.store)
    /\ Rebuild
    /\ UNCHANGED <<cookie, thread, unread, badge, at>>

\* The whole page again: nobody is signed in until the cookie was asked.
Reload(page) ==
    /\ ask.at = "none"
    /\ Befalls
    /\ me' = [store |-> "guest", known |-> FALSE, token |-> "fresh", page |-> page]
    /\ Mounted(page, "guest")
    /\ badge' = [count |-> 0, at |-> "none", got |-> 0]
    /\ Rebuild
    /\ UNCHANGED <<cookie, thread, unread, at>>

\* bootstrapAuth() has its answer.
Boot ==
    /\ ~me.known
    /\ me' = [me EXCEPT !.known = TRUE, !.store = cookie, !.token = "fresh"]
    /\ IF cookie = "account" THEN Identity ELSE UNCHANGED <<sock, late, ears>>
    /\ UNCHANGED <<cookie, thread, unread, screen, ask, badge, told, at>>

SignIn ==
    /\ me.known /\ me.store = "guest" /\ me.page = "elsewhere"
    /\ Befalls
    /\ cookie' = "account"
    /\ me' = [me EXCEPT !.store = "account", !.token = "fresh"]
    /\ Identity
    /\ UNCHANGED <<thread, unread, screen, ask, badge, at>>

\* claimGuestChat(), the third request after a sign-in: the thread changes
\* hands when the account has none.  What the guest's socket sent was served
\* by then; a message in between is a matter of SupportChat.
Claim ==
    /\ me.store = "account" /\ me.page = "elsewhere"
    /\ \A i \in DOMAIN late : late[i].as = "account"
    /\ thread["guest"] # << >> /\ thread["account"] = << >>
    /\ thread' = [o \in Owners |-> IF o = "account" THEN thread["guest"] ELSE << >>]
    /\ unread' = [guest |-> 0, account |-> unread["guest"]]
    /\ at' = [i \in DOMAIN at |->
                IF \E j \in DOMAIN thread["guest"] : thread["guest"][j].id = i
                THEN "account" ELSE at[i]]
    /\ UNCHANGED <<me, cookie, sock, late, ears, screen, ask, badge, told>>

\* Signed out from the menu, or found out by a refresh that was refused.
SignOut ==
    /\ me.store = "account"
    /\ Befalls
    /\ cookie' = "guest"
    /\ me' = [me EXCEPT !.store = "guest", !.token = "fresh"]
    /\ Identity
    /\ UNCHANGED <<thread, unread, screen, ask, badge, at>>

Expire ==
    /\ me.store = "account" /\ me.token = "fresh"
    /\ Befalls
    /\ me' = [me EXCEPT !.token = "expired"]
    /\ UNCHANGED <<cookie, sock, late, ears, thread, unread, screen, ask, badge, at>>

\* Some request was refused and refreshed the token.
Renew ==
    /\ me.token = "expired"
    /\ me' = [me EXCEPT !.token = "fresh"]
    /\ UNCHANGED <<cookie, sock, late, ears, thread, unread, screen, ask, badge, told, at>>

Next ==
    \/ Attempt \/ Blip
    \/ Serve \/ ServeLate \/ (\E o \in Owners : Reply(o))
    \/ handleSend \/ GetMyChat \/ Answer \/ Hear \/ Count
    \/ \E page \in {"elsewhere", "chat"} : Go(page) \/ Reload(page)
    \/ Boot \/ SignIn \/ Claim \/ SignOut \/ Expire \/ Renew

Spec == Init /\ [][Next]_vars

-----------------------------------------------------------------------------

\* What a visitor writes lands in the thread of whoever they were when they
\* wrote it, or nowhere: neither a message that waits in a socket while the
\* network is away, nor one on its way while the session ends or begins, is
\* delivered under the other identity; and it lands there once.
LandsUnderItsWriter ==
    /\ \A o \in Owners : \A i \in DOMAIN thread[o] :
           thread[o][i].by = "USER" => at[thread[o][i].id] = o
    /\ \A o \in Owners : IsInjective([i \in DOMAIN thread[o] |-> thread[o][i].id])

Settled == me.known /\ ask.at = "none" /\ ears = << >> /\ screen.open /\ ~screen.loading

\* The chat page shows the conversation of the visitor ("connects as whoever
\* the visitor is", useSupportSocket.ts:13).  Not so: the request is sent
\* when the page mounts, which after a reload is before the cookie was asked,
\* and is not sent again (SupportChatPage.tsx:37).
ShowsItsOwn ==
    Settled => \A i \in DOMAIN screen.shown :
                   \E j \in DOMAIN thread[me.store] : thread[me.store][j] = screen.shown[i]
ShowsAll ==
    Settled /\ sock.state = "on" /\ told.events = 1 =>
        \A j \in DOMAIN thread[me.store] :
            \E i \in DOMAIN screen.shown : screen.shown[i] = thread[me.store][j]

\* Nothing is on the screen twice.  Not so: saved, read by the request, and
\* only then told (SupportChatPage.tsx:44).
ShownOnce == screen.open => IsInjective([i \in DOMAIN screen.shown |-> screen.shown[i].id])

\* A refused handshake is repaired with a new token and another try
\* (useSupportSocket.ts:49).  Not so: the gateway ends the connection after it
\* came about, which is no connect_error, and nobody connects again.
ComesBack == sock.state = "ended" => me.token = "expired"

\* The count is refetched "on the way back from the chat, where reading it
\* just zeroed the count" (useSupport.ts:55).  Not so for what was read as it
\* came: only opening the page marks anything.
ReadIsRead ==
    screen.open /\ ~screen.loading /\ ask.at = "none" /\ ears = << >> /\ me.known =>
        unread[me.store] <= Cardinality({j \in DOMAIN thread[me.store] :
            thread[me.store][j].by = "ADMIN" /\
            \A i \in DOMAIN screen.shown : screen.shown[i] # thread[me.store][j]})
=============================================================================
