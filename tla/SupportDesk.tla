---------------------------- MODULE SupportDesk ----------------------------
(***************************************************************************)
(* The administrator's support page: the list of chats, the one that is    *)
(* selected with its transcript, and the socket that tells of all of them  *)
(* (AdminSupportPage, useAdminUnreadSupportCount).                         *)
(***************************************************************************)
EXTENDS Integers, Sequences, FiniteSets

CONSTANTS
    Chats,       \* the conversations, each begun by its customer
    Selects,     \* selections whose requests are under way at once (bound)
    MaxMessages, \* messages of all of them (bound)
    MaxEvents    \* selections and reconnections (bound)

VARIABLES
    thread,   \* the messages of each chat: [chat, n]
    unread,   \* unread_by_admin
    rooms,    \* chats whose room the socket is in
    ears,     \* told to the page and not heard yet
    list,     \* the rows of the page: the unread count of each chat, -1 when it is not there
    fetch,    \* the request for the list, and what it read
    desk,     \* the selected chat (0 for null), the transcript
    select,   \* handleSelectChat(), as far as it has come
    past      \* history: messages, events, and the chat whose answer was shown last

vars == <<thread, unread, rooms, ears, list, fetch, desk, select, past>>

Gone == [at |-> "none", chat |-> 0, got |-> << >>]

Init ==
    /\ thread = [c \in Chats |-> <<[chat |-> c, n |-> c]>>]
    /\ unread = [c \in Chats |-> 1]
    /\ rooms = {}
    /\ ears = << >>
    /\ list = [c \in Chats |-> -1]
    /\ fetch = [at |-> "sent", got |-> [c \in Chats |-> -1]]
    /\ desk = [selected |-> 0, shown |-> << >>, loading |-> FALSE]
    /\ select = [s \in Selects |-> Gone]
    /\ past = [messages |-> Cardinality(Chats), events |-> 0, last |-> 0]

Befalls ==
    /\ past.events < MaxEvents
    /\ past' = [past EXCEPT !.events = @ + 1]

-----------------------------------------------------------------------------
(* The server. *)

\* addMessage(), then the message to its room and the summary to all admins.
Message(c, counts) ==
    /\ past.messages < MaxMessages
    /\ past' = [past EXCEPT !.messages = @ + 1]
    /\ unread' = [unread EXCEPT ![c] = @ + counts]
    /\ LET message == [chat |-> c, n |-> past.messages + 1] IN
        /\ thread' = [thread EXCEPT ![c] = Append(@, message)]
        /\ ears' = ears \o
               (IF c \in rooms THEN <<[event |-> "message", what |-> message]>> ELSE << >>)
               \o <<[event |-> "chatUpdate", what |-> [chat |-> c, n |-> unread'[c]]]>>

Write(c) ==
    /\ Message(c, 1)
    /\ UNCHANGED <<rooms, list, fetch, desk, select>>

\* The administrator's own, to the chat that is selected.
handleSend ==
    /\ desk.selected # 0
    /\ Message(desk.selected, 0)
    /\ UNCHANGED <<rooms, list, fetch, desk, select>>

getChats ==
    /\ fetch.at = "sent"
    /\ fetch' = [at |-> "read", got |-> unread]
    /\ UNCHANGED <<thread, unread, rooms, ears, list, desk, select, past>>

\* Read, and then marked.
getChatMessages(s) ==
    \/ /\ select[s].at = "sent"
       /\ select' = [select EXCEPT ![s].at = "read", ![s].got = thread[select[s].chat]]
       /\ UNCHANGED <<thread, unread, rooms, ears, list, fetch, desk, past>>
    \/ /\ select[s].at = "read"
       /\ select' = [select EXCEPT ![s].at = "marked"]
       /\ unread' = [unread EXCEPT ![select[s].chat] = 0]
       /\ UNCHANGED <<thread, rooms, ears, list, fetch, desk, past>>

\* The room, and everything in it is read.
handleJoinChat(s) ==
    /\ select[s].at = "joining"
    /\ rooms' = rooms \cup {select[s].chat}
    /\ unread' = [unread EXCEPT ![select[s].chat] = 0]
    /\ select' = [select EXCEPT ![s] = Gone]
    /\ UNCHANGED <<thread, ears, list, fetch, desk, past>>

\* The network comes back on a socket in no room but the administrators'.
Reconnect ==
    /\ Befalls
    /\ rooms' = {}
    /\ ears' = << >>
    /\ UNCHANGED <<thread, unread, list, fetch, desk, select>>

-----------------------------------------------------------------------------
(* The page. *)

\* The list replaces what was heard before it came.
Listed ==
    /\ fetch.at = "read"
    /\ list' = fetch.got
    /\ fetch' = [at |-> "done", got |-> [c \in Chats |-> -1]]
    /\ UNCHANGED <<thread, unread, rooms, ears, desk, select, past>>

handleSelectChat(s, c) ==
    /\ list[c] # -1
    /\ select[s].at = "none"
    /\ Befalls
    /\ select' = [select EXCEPT ![s] = [at |-> "sent", chat |-> c, got |-> << >>]]
    /\ desk' = [desk EXCEPT !.selected = c, !.loading = TRUE]
    /\ list' = [list EXCEPT ![c] = 0]
    /\ UNCHANGED <<thread, unread, rooms, ears, fetch>>

\* The rest of it, whichever chat is selected by then.
Selected(s) ==
    /\ \/ /\ select[s].at = "marked"
          /\ desk' = [desk EXCEPT !.shown = select[s].got, !.loading = FALSE]
       \/ /\ select[s].at \in {"sent", "read", "marked"}
          /\ desk' = [desk EXCEPT !.shown = << >>, !.loading = FALSE]
    /\ select' = [select EXCEPT ![s].at = "joining", ![s].got = << >>]
    /\ past' = [past EXCEPT !.last = select[s].chat]
    /\ UNCHANGED <<thread, unread, rooms, ears, list, fetch>>

\* The way back to the list, on a phone.
Back ==
    /\ desk.selected # 0
    /\ desk' = [desk EXCEPT !.selected = 0]
    /\ UNCHANGED <<thread, unread, rooms, ears, list, fetch, select, past>>

\* Were the message taken for the open chat's.
HeardByAll(message) ==
    IF desk.selected # 0 THEN [desk EXCEPT !.shown = Append(@, message)] ELSE desk

\* The socket stays in the room of every chat that was ever selected.
Heard(message) ==
    IF message.chat = desk.selected THEN [desk EXCEPT !.shown = Append(@, message)] ELSE desk

handleMessage ==
    /\ ears # << >> /\ Head(ears).event = "message"
    /\ desk' = Heard(Head(ears).what)
    /\ ears' = Tail(ears)
    /\ UNCHANGED <<thread, unread, rooms, list, fetch, select, past>>

handleChatUpdate ==
    /\ ears # << >> /\ Head(ears).event = "chatUpdate"
    /\ LET summary == Head(ears).what IN
        list' = [list EXCEPT
            ![summary.chat] = IF summary.chat = desk.selected THEN 0 ELSE summary.n]
    /\ ears' = Tail(ears)
    /\ UNCHANGED <<thread, unread, rooms, fetch, desk, select, past>>

Next ==
    \/ \E c \in Chats : Write(c) \/ \E s \in Selects : handleSelectChat(s, c)
    \/ handleSend \/ getChats \/ Listed \/ Back \/ Reconnect
    \/ \E s \in Selects : getChatMessages(s) \/ Selected(s) \/ handleJoinChat(s)
    \/ handleMessage \/ handleChatUpdate

Spec == Init /\ [][Next]_vars

-----------------------------------------------------------------------------

Open == desk.selected # 0 /\ ~desk.loading /\ \A s \in Selects : select[s].at = "none"

\* The transcript is one conversation: while messages of every chat that was
\* opened before keep coming in, an open chat whose answer was the last to
\* come shows that chat's messages and no others.
OneConversation ==
    Open /\ past.last = desk.selected =>
        \A i \in DOMAIN desk.shown : desk.shown[i].chat = desk.selected

\* ... and so it is whichever answer came last.  Not so: the answer of a chat
\* that was selected before replaces the transcript of the one that is, and
\* what the administrator writes goes to the latter (AdminSupportPage.tsx:107).
ShowsTheSelected ==
    Open => \A i \in DOMAIN desk.shown : desk.shown[i].chat = desk.selected

\* An open chat shows every message.  Not so for one that is saved after the
\* transcript was read and before the room was joined, nor after a
\* reconnection, which joins no room (AdminSupportPage.tsx:114).
NothingIsMissed ==
    Open /\ past.last = desk.selected /\ ears = << >> /\ desk.shown # << >> =>
        Len(desk.shown) >= Len(thread[desk.selected])

\* What the page counts as read, the server does ("the two can never
\* disagree", useSupport.ts:36).  Not so: a message to the open chat is not
\* marked, and the header goes on counting it (AdminSupportPage.tsx:58).
ReadIsRead ==
    Open /\ ears = << >> /\ fetch.at = "done" => list[desk.selected] = unread[desk.selected]
=============================================================================
