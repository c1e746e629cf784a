----------------------------- MODULE SupportChat -----------------------------
(***************************************************************************)
(* The support chat: SupportGateway, SupportService, SupportPresence and   *)
(* the routes of SupportController that change something or show a thread. *)
(*                                                                         *)
(* A customer is a guest token or an account; the shop's staff are one     *)
(* identity, Admin.  A call is one run of a handler.  Every await of a     *)
(* handler ends a step, so the row a handler read may be out of date when  *)
(* it is saved, and save() writes the whole row.  A socket that is open    *)
(* when its handler goes on may have closed since it sent the message.     *)
(*                                                                         *)
(* The rate limit is a refusal that may come at any time.  Texts, names    *)
(* and the notification to Telegram are left out.                          *)
(***************************************************************************)
EXTENDS Integers, FiniteSets

CONSTANTS
    Guests,       \* guest tokens
    Accounts,
    Admin,
    None,         \* nobody, no socket
    Sockets,      \* connections ever made (bound)
    Calls,        \* handlers that can be running at once (bound)
    MaxChats,     \* rows of support_chats (bound)
    MaxMessages,  \* messages ever sent (bound)
    GuestIndex,   \* whether guest_token has its unique index
    Operations    \* what people do, and what happens to them (workload)

VARIABLES
    chat,     \* support_chats; a row without an owner is not there
    message,  \* support_messages; a row without a chat is not there
    socket,   \* client.data of each connection
    room,     \* the sockets in the room of each chat
    online,   \* onlineChatIds
    call,     \* the handlers
    owned,    \* history: who each chat has belonged to
    heard     \* history: who was shown messages of each chat

tables == <<chat, message>>
gateway == <<socket, room, online>>
history == <<owned, heard>>
vars == <<tables, gateway, call, history>>

Chats == 1 .. MaxChats
Messages == 1 .. MaxMessages
Customers == Guests \cup Accounts
People == Customers \cup {Admin}

ASSUME SupportAssumption ==
    /\ Guests \cap Accounts = {}
    /\ Admin \notin Customers
    /\ None \notin People \cup Sockets
    /\ MaxChats \in Nat
    /\ MaxMessages \in Nat
    /\ GuestIndex \in BOOLEAN
    /\ Operations \subseteq
          {"message", "reply", "join", "open", "read", "claim",
           "leave", "fail", "crash"}

\* userId and guestToken: one of them is set, and says whose chat it is.
\* last: the message lastMessageAt is from, 0 for NULL.
Row ==
    [owner : Customers \cup {None}, last : Messages \cup {0},
     unreadByAdmin : Nat, unreadByUser : Nat]

NoRow == [owner |-> None, last |-> 0, unreadByAdmin |-> 0, unreadByUser |-> 0]

Message == [chat : Chats \cup {0}, from : People \cup {None}]

NoMessage == [chat |-> 0, from |-> None]

\* `ready' has resolved when the socket is at "ready".  At "enter", `chat' is
\* the row joinOwnChat() has found; data.chatId is not set yet.
Connection ==
    [who : People \cup {None}, at : {"new", "identify", "enter", "ready"},
     open : BOOLEAN, chat : Chats \cup {0}]

Unconnected == [who |-> None, at |-> "new", open |-> FALSE, chat |-> 0]

Steps ==
    {"idle", "ready", "find", "insert", "findAgain", "enter", "read", "write",
     "save", "emit", "list", "mark", "copy", "own", "hand"}

Call ==
    [op : {"message", "join", "open", "read", "claim", "none"},
     at : Steps,
     socket : Sockets \cup {None},
     who : People \cup {None},
     guest : Guests \cup {None},   \* the token in a claim
     chat : Chats \cup {0},
     row : Row,                    \* the chat as it was read
     message : Messages \cup {0}]

Idle ==
    [op |-> "none", at |-> "idle", socket |-> None, who |-> None,
     guest |-> None, chat |-> 0, row |-> NoRow, message |-> 0]

-----------------------------------------------------------------------------
(* Helpers *)

At(c, step) == call[c].at = step
Goto(c, step) == call' = [call EXCEPT ![c].at = step]
GotoWith(c, step, k) == call' = [call EXCEPT ![c].at = step, ![c].chat = k]
End(c) == call' = [call EXCEPT ![c] = Idle]

Begin(c, op, step, s, who, guest, k) ==
    /\ At(c, "idle")
    /\ call' = [call EXCEPT
            ![c] = [op |-> op, at |-> step, socket |-> s, who |-> who,
                    guest |-> guest, chat |-> k, row |-> NoRow, message |-> 0]]

Rows == {k \in Chats : chat[k].owner # None}
Written == {m \in Messages : message[m].chat # 0}

\* Mutation of Threads: a guest has no userId, and a condition that is
\* undefined is no condition.
AnyThread(who) == {k \in Rows : who \in Guests \/ chat[k].owner = who}

\* identityWhere().
Threads(who) == {k \in Rows : chat[k].owner = who}

\* The unique indexes of support_chats: nobody else's row may be `who's.
Clash(who, k) ==
    /\ who \in Accounts \/ GuestIndex
    /\ \E j \in Rows : j # k /\ chat[j].owner = who

\* The id that the next row gets.
IsNext(k) == k \notin Rows /\ \A j \in 1 .. (k - 1) : j \in Rows

\* data.chatId.
ChatOf(s) == IF socket[s].at = "ready" THEN socket[s].chat ELSE 0

\* enterChat(), whether or not the socket is still open.
Enter(s, k) ==
    /\ socket' = [socket EXCEPT ![s].at = "ready", ![s].chat = k]
    /\ room' = [room EXCEPT ![k] = @ \cup {s}]
    /\ online' = online \cup {k}

Left(s) == [k \in Chats |-> room[k] \ {s}]

-----------------------------------------------------------------------------
(* Connections *)

handleConnection(s, who) ==
    /\ socket[s].at = "new"
    /\ socket' = [socket EXCEPT
            ![s] = [who |-> who, open |-> TRUE, chat |-> 0,
                    at |-> IF who = Admin THEN "ready" ELSE "identify"]]
    /\ UNCHANGED <<tables, room, online, call, history>>

\* joinOwnChat(): with no thread yet there is no room to enter.
joinOwnChat(s) ==
    /\ socket[s].at = "identify"
    /\ \/ /\ Threads(socket[s].who) = {}
          /\ socket' = [socket EXCEPT ![s].at = "ready"]
       \/ \E k \in Threads(socket[s].who) :
            socket' = [socket EXCEPT ![s].at = "enter", ![s].chat = k]
    /\ UNCHANGED <<tables, room, online, call, history>>

enterChat(s) ==
    /\ socket[s].at = "enter"
    /\ Enter(s, socket[s].chat)
    /\ UNCHANGED <<tables, call, history>>

\* The catch of identify(): the socket is dropped, and `ready' resolves.
identifyFails(s) ==
    /\ "fail" \in Operations
    /\ socket[s].at = "identify"
    /\ socket' = [socket EXCEPT ![s].open = FALSE, ![s].at = "ready"]
    /\ UNCHANGED <<tables, room, online, call, history>>

handleDisconnect(s) ==
    /\ "leave" \in Operations
    /\ socket[s].open
    /\ socket' = [socket EXCEPT ![s].open = FALSE]
    /\ room' = Left(s)
    /\ online' = IF socket[s].who = Admin THEN online ELSE online \ {ChatOf(s)}
    /\ UNCHANGED <<tables, call, history>>

-----------------------------------------------------------------------------
(* Messages *)

\* Messages written and messages that may still be.
Spent == Cardinality(Written) + Cardinality({c \in Calls : call[c].op = "message"})

\* 'support:message' arrives; the staff's names a chat.
handleMessage(c, s, k) ==
    /\ socket[s].open
    /\ Spent < MaxMessages
    /\ IF socket[s].who = Admin THEN "reply" \in Operations /\ k \in Rows
       ELSE "message" \in Operations /\ k = 0
    /\ Begin(c, "message", "ready", s, socket[s].who, None, k)
    /\ UNCHANGED <<tables, gateway, history>>

\* The socket has been placed.  A customer may be over the rate limit, and one
\* without a thread starts it.
accept(c) ==
    LET q == call[c] IN
    /\ At(c, "ready")
    /\ q.op = "message"
    /\ socket[q.socket].at = "ready"
    /\ \/ q.who = Admin /\ Goto(c, "read")
       \/ q.who # Admin /\ End(c)
       \/ /\ q.who # Admin
          /\ ChatOf(q.socket) # 0
          /\ GotoWith(c, "read", ChatOf(q.socket))
       \/ /\ q.who # Admin
          /\ ChatOf(q.socket) = 0
          /\ Goto(c, "find")
    /\ UNCHANGED <<tables, gateway, history>>

\* findChat(), for getOrCreateChat() and for getMyChat().
findChat(c) ==
    LET q == call[c] IN
    /\ At(c, "find")
    /\ \/ \E k \in Threads(q.who) :
            GotoWith(c, IF q.op = "open" THEN "list" ELSE "enter", k)
       \/ /\ Threads(q.who) = {}
          /\ IF q.op = "open" THEN End(c) ELSE Goto(c, "insert")
    /\ UNCHANGED <<tables, gateway, history>>

insert(c) ==
    LET q == call[c] IN
    /\ At(c, "insert")
    /\ \E k \in Chats :
        /\ IsNext(k)
        /\ IF Clash(q.who, k)
           THEN Goto(c, "findAgain") /\ UNCHANGED <<chat, owned>>
           ELSE /\ chat' = [chat EXCEPT ![k] = [NoRow EXCEPT !.owner = q.who]]
                /\ owned' = [owned EXCEPT ![k] = @ \cup {q.who}]
                /\ GotoWith(c, "enter", k)
    /\ UNCHANGED <<message, gateway, heard>>

\* Mutation of findAgain: the insert is tried again until it works.
TryAgain(c) ==
    /\ At(c, "findAgain")
    /\ \/ \E k \in Threads(call[c].who) : GotoWith(c, "enter", k)
       \/ Threads(call[c].who) = {} /\ Goto(c, "insert")
    /\ UNCHANGED <<tables, gateway, history>>

\* Lost the race, or the insert failed: look again, and give up otherwise.
findAgain(c) ==
    /\ At(c, "findAgain")
    /\ \/ \E k \in Threads(call[c].who) : GotoWith(c, "enter", k)
       \/ Threads(call[c].who) = {} /\ End(c)
    /\ UNCHANGED <<tables, gateway, history>>

startChat(c) ==
    /\ At(c, "enter")
    /\ Enter(call[c].socket, call[c].chat)
    /\ Goto(c, "read")
    /\ UNCHANGED <<tables, history>>

\* addMessage().
getChatById(c) ==
    /\ At(c, "read")
    /\ call' = [call EXCEPT ![c].at = "write", ![c].row = chat[call[c].chat]]
    /\ UNCHANGED <<tables, gateway, history>>

write(c) ==
    /\ At(c, "write")
    /\ \E m \in Messages \ Written :
        /\ \A n \in 1 .. (m - 1) : n \in Written
        /\ message' = [message EXCEPT
                ![m] = [chat |-> call[c].chat, from |-> call[c].who]]
        /\ call' = [call EXCEPT ![c].at = "save", ![c].message = m]
    /\ UNCHANGED <<chat, gateway, history>>

Counted(row, who, m) ==
    IF who = Admin THEN [row EXCEPT !.last = m, !.unreadByUser = @ + 1]
    ELSE [row EXCEPT !.last = m, !.unreadByAdmin = @ + 1]

\* save() reads the row again and writes every column that differs: in effect,
\* the whole row as the handler knows it.  The indexes may refuse it.
Save(c, row, step) ==
    LET k == call[c].chat IN
    IF Clash(row.owner, k)
    THEN End(c) /\ UNCHANGED <<chat, owned>>
    ELSE /\ chat' = [chat EXCEPT ![k] = row]
         /\ owned' = [owned EXCEPT ![k] = @ \cup {row.owner}]
         /\ IF step = "idle" THEN End(c) ELSE Goto(c, step)

save(c) ==
    /\ At(c, "save")
    /\ Save(c, Counted(call[c].row, call[c].who, call[c].message), "emit")
    /\ UNCHANGED <<message, gateway, heard>>

\* Who is in the room, and still there.
Audience(k) == {s \in room[k] : socket[s].open}

emit(c) ==
    LET k == call[c].chat IN
    /\ At(c, "emit")
    /\ heard' = [heard EXCEPT ![k] = @ \cup {socket[s].who : s \in Audience(k)}]
    /\ End(c)
    /\ UNCHANGED <<tables, gateway, owned>>

-----------------------------------------------------------------------------
(* Reading *)

handleJoinChat(c, s, k) ==
    /\ "join" \in Operations
    /\ socket[s].who = Admin
    /\ socket[s].open
    /\ k \in Rows
    /\ Begin(c, "join", "mark", s, Admin, None, k)
    /\ room' = [room EXCEPT ![k] = @ \cup {s}]
    /\ UNCHANGED <<tables, socket, online, history>>

getMyChat(c, who) ==
    /\ "open" \in Operations
    /\ Begin(c, "open", "find", None, who, None, 0)
    /\ UNCHANGED <<tables, gateway, history>>

getChatMessages(c, k) ==
    /\ "read" \in Operations
    /\ k \in Rows
    /\ Begin(c, "read", "list", None, Admin, None, k)
    /\ UNCHANGED <<tables, gateway, history>>

getMessages(c) ==
    LET q == call[c] IN
    /\ At(c, "list")
    /\ heard' = [heard EXCEPT ![q.chat] = @ \cup {q.who}]
    /\ Goto(c, "mark")
    /\ UNCHANGED <<tables, gateway, owned>>

\* markReadByUser() and markReadByAdmin().
Read(row, op) ==
    IF op = "open" THEN [row EXCEPT !.unreadByUser = 0]
    ELSE [row EXCEPT !.unreadByAdmin = 0]

markRead(c) ==
    /\ At(c, "mark")
    /\ chat' = [chat EXCEPT ![call[c].chat] = Read(@, call[c].op)]
    /\ End(c)
    /\ UNCHANGED <<message, gateway, history>>

-----------------------------------------------------------------------------
(* A guest signs in *)

claimGuestChat(c, who, guest) ==
    /\ "claim" \in Operations
    /\ Begin(c, "claim", "copy", None, who, guest, 0)
    /\ UNCHANGED <<tables, gateway, history>>

copyGuestChat(c) ==
    LET q == call[c] IN
    /\ At(c, "copy")
    /\ \/ Threads(q.guest) = {} /\ End(c)
       \/ \E k \in Threads(q.guest) :
            call' = [call EXCEPT ![c].at = "own", ![c].chat = k,
                                 ![c].row = chat[k]]
    /\ UNCHANGED <<tables, gateway, history>>

findOwnChat(c) ==
    /\ At(c, "own")
    /\ IF Threads(call[c].who) = {} THEN Goto(c, "hand") ELSE End(c)
    /\ UNCHANGED <<tables, gateway, history>>

handOver(c) ==
    /\ At(c, "hand")
    /\ Save(c, [call[c].row EXCEPT !.owner = call[c].who], "idle")
    /\ UNCHANGED <<message, gateway, heard>>

-----------------------------------------------------------------------------
(* Failures *)

\* The statement a handler waits for fails, and the handler with it, but that
\* getOrCreateChat() looks again.
DatabaseFails(c) ==
    /\ "fail" \in Operations
    /\ call[c].at \notin {"idle", "ready", "enter"}
    /\ IF At(c, "insert") THEN Goto(c, "findAgain") ELSE End(c)
    /\ UNCHANGED <<tables, gateway, history>>

\* Rooms and presence are in the memory of the process.
Crash ==
    /\ "crash" \in Operations
    /\ socket' = [s \in Sockets |->
            IF socket[s].at = "new" THEN socket[s]
            ELSE [socket[s] EXCEPT !.at = "ready", !.open = FALSE]]
    /\ room' = [k \in Chats |-> {}]
    /\ online' = {}
    /\ call' = [c \in Calls |-> Idle]
    /\ UNCHANGED <<tables, history>>

Init ==
    /\ chat = [k \in Chats |-> NoRow]
    /\ message = [m \in Messages |-> NoMessage]
    /\ socket = [s \in Sockets |-> Unconnected]
    /\ room = [k \in Chats |-> {}]
    /\ online = {}
    /\ call = [c \in Calls |-> Idle]
    /\ owned = [k \in Chats |-> {}]
    /\ heard = [k \in Chats |-> {}]

Ask(c) ==
    \/ \E s \in Sockets :
        \/ \E k \in Chats \cup {0} : handleMessage(c, s, k)
        \/ \E k \in Chats : handleJoinChat(c, s, k)
    \/ \E who \in Customers : getMyChat(c, who)
    \/ \E k \in Chats : getChatMessages(c, k)
    \/ \E who \in Accounts, guest \in Guests : claimGuestChat(c, who, guest)

Handle(c) ==
    \/ accept(c) \/ findChat(c) \/ insert(c) \/ findAgain(c) \/ startChat(c)
    \/ getChatById(c) \/ write(c) \/ save(c) \/ emit(c)
    \/ getMessages(c) \/ markRead(c)
    \/ copyGuestChat(c) \/ findOwnChat(c) \/ handOver(c)

Identify(s) == joinOwnChat(s) \/ enterChat(s)

Next ==
    \/ \E c \in Calls : Ask(c) \/ Handle(c) \/ DatabaseFails(c)
    \/ \E s \in Sockets :
        \/ \E who \in People : handleConnection(s, who)
        \/ Identify(s) \/ identifyFails(s) \/ handleDisconnect(s)
    \/ Crash

\* The statements a handler waits for are answered.
Fairness ==
    /\ \A c \in Calls : WF_vars(Handle(c))
    /\ \A s \in Sockets : WF_vars(Identify(s))

Spec == Init /\ [][Next]_vars /\ Fairness

-----------------------------------------------------------------------------
(* Invariants and properties *)

\* The variables have their types, and what a handler does next has what it
\* needs: a chat that exists, a customer to look for, a message it wrote.
TypeOK ==
    /\ chat \in [Chats -> Row]
    /\ message \in [Messages -> Message]
    /\ socket \in [Sockets -> Connection]
    /\ room \in [Chats -> SUBSET Sockets]
    /\ online \subseteq Chats
    /\ call \in [Calls -> Call]
    /\ owned \in [Chats -> SUBSET Customers]
    /\ heard \in [Chats -> SUBSET People]

\* One chat per identity: what the unique indexes say, and SupportInv rests on.
OneThread ==
    \A j, k \in Rows : chat[j].owner = chat[k].owner => j = k

\* Messages of a chat were written by, and shown to, people it belonged to and
\* the staff: rooms, chat ids that sockets remember, and rows found before a
\* hand-over never lead into somebody else's conversation.
Private ==
    /\ \A k \in Chats : heard[k] \subseteq owned[k] \cup {Admin}
    /\ \A m \in Written : message[m].from \in owned[message[m].chat] \cup {Admin}

\* Whoever writes is there for the answer: from the moment a customer's message
\* goes to the table, its socket is in the room, or has closed.
InRoom(q) ==
    /\ q.op = "message"
    /\ q.at \in {"read", "write", "save", "emit"}
    /\ q.who # Admin
    /\ socket[q.socket].open
    => q.socket \in room[q.chat]

SenderIsInRoom == \A c \in Calls : InRoom(call[c])

\* A message or a request is dealt with: `ready' resolves for every socket.
CallsEnd == \A c \in Calls : ~At(c, "idle") ~> At(c, "idle")

OwnersKnown == \A k \in Rows : chat[k].owner \in owned[k]

\* Where a connection is.
Placed(s) ==
    LET x == socket[s] IN
    /\ x.at # "new" => x.who \in People
    /\ x.open => x.at # "new"
    /\ x.at \in {"identify", "enter"} => x.who \in Customers
    /\ x.at = "identify" => x.chat = 0
    /\ x.at = "enter" => x.chat # 0
    /\ x.chat # 0 => x.chat \in Rows /\ x.who \in owned[x.chat]
    /\ x.open /\ x.at = "ready" /\ x.chat # 0 => s \in room[x.chat]

Rooms ==
    \A k \in Chats : \A s \in room[k] :
        socket[s].at # "new" /\ socket[s].who \in owned[k] \cup {Admin}

\* Which handler is where, and what it has found by then.
OnItsWay(q) ==
    /\ q.op = "message" =>
          /\ q.socket \in Sockets
          /\ socket[q.socket].at # "new"
          /\ socket[q.socket].who = q.who
    /\ q.op = "claim" <=> q.at \in {"copy", "own", "hand"}
    /\ q.op = "claim" => q.who \in Accounts /\ q.guest \in Guests
    /\ q.at \in {"ready", "insert", "findAgain", "enter", "read", "write",
                 "save", "emit"} => q.op = "message" /\ q.who \in People
    /\ q.at = "find" => q.op \in {"message", "open"}
    /\ q.at \in {"find", "insert", "findAgain", "enter"} => q.who \in Customers
    /\ q.at = "ready" /\ q.who = Admin => q.chat \in Rows
    /\ q.at = "ready" /\ q.who # Admin => q.chat = 0
    /\ q.at \in {"enter", "read", "write", "save", "emit", "list", "mark"} =>
          q.chat \in Rows /\ q.who \in owned[q.chat] \cup {Admin}
    /\ q.at \in {"own", "hand"} => q.chat \in Rows
    /\ q.at \in {"write", "save", "own", "hand"} => q.row.owner \in Customers
    /\ q.at \in {"save", "emit"} => q.message \in Messages

\* Inductive: a chat, once found, stays a chat; its owners are only added to;
\* and every id on its way was found by somebody it belonged to.
SupportInv ==
    /\ TypeOK
    /\ GuestIndex => OneThread
    /\ Private
    /\ SenderIsInRoom
    /\ OwnersKnown
    /\ \A s \in Sockets : Placed(s)
    /\ Rooms
    /\ \A c \in Calls : OnItsWay(call[c])

\* support.service.ts:64: a guest's "thread follows them into the account
\* instead of being stranded behind a token the site stops sending".
StaysInAccount ==
    [][\A k \in Rows : chat[k].owner \in Accounts => chat'[k].owner \notin Guests]_vars

=============================================================================
