---------------------------- MODULE SupportProofs ----------------------------
(***************************************************************************)
(* Theorems about SupportChat.                                             *)
(*                                                                         *)
(* Chats are only added and handed on, and whoever has owned one is        *)
(* remembered; connections stay who they are, and leave rooms only when    *)
(* they close.  While both go `Forward', a handler that was sound stays    *)
(* so, whatever it has read; so each action is about its own handler.      *)
(***************************************************************************)
EXTENDS SupportChat, TLAPS

USE SupportAssumption

\* The part of the invariant about the tables ...
Tables ==
    /\ chat \in [Chats -> Row]
    /\ message \in [Messages -> Message]
    /\ owned \in [Chats -> SUBSET Customers]
    /\ heard \in [Chats -> SUBSET People]
    /\ GuestIndex => OneThread
    /\ OwnersKnown
    /\ Private

\* ... about the connections ...
Connections ==
    /\ socket \in [Sockets -> Connection]
    /\ room \in [Chats -> SUBSET Sockets]
    /\ online \subseteq Chats
    /\ \A s \in Sockets : Placed(s)
    /\ Rooms

\* ... and about the handlers.
Sound == {q \in Call : OnItsWay(q) /\ InRoom(q)}

Handlers == call \in [Calls -> Call] /\ \A c \in Calls : call[c] \in Sound

TablesForward ==
    /\ Rows \subseteq Rows'
    /\ \A k \in Chats : owned[k] \subseteq owned'[k]

ConnectionsForward ==
    \A s \in Sockets : socket[s].at # "new" =>
        /\ socket'[s].at # "new"
        /\ socket'[s].who = socket[s].who
        /\ socket'[s].open =>
              socket[s].open /\ \A k \in Chats : s \in room[k] => s \in room'[k]

\* The parts are the whole.
LEMMA Parts == SupportInv <=> Tables /\ Connections /\ Handlers
BY DEF SupportInv, TypeOK, Tables, Connections, Handlers, Sound, SenderIsInRoom

\* A handler is as sound as before when the others went forward.
LEMMA SoundStays ==
    ASSUME TablesForward, ConnectionsForward, NEW q \in Sound
    PROVE  q \in Sound'
<1>1. q \in Call /\ OnItsWay(q) /\ InRoom(q)
  BY DEF Sound
<1>2. q.chat \in Chats \cup {0}
  BY <1>1 DEF Call
<1>3. OnItsWay(q)'
  <2>1. q.chat \in Rows => q.chat \in Rows' /\ q.chat \in Chats
    BY DEF TablesForward, Rows
  <2>2. q.chat \in Rows /\ q.who \in owned[q.chat] \cup {Admin} =>
            q.who \in owned'[q.chat] \cup {Admin}
    BY <2>1 DEF TablesForward
  <2>3. q.op = "message" => socket'[q.socket].at # "new"
                            /\ socket'[q.socket].who = q.who
    BY <1>1 DEF OnItsWay, ConnectionsForward
  <2> QED BY <1>1, <2>1, <2>2, <2>3 DEF OnItsWay
<1>4. InRoom(q)'
  <2>1. SUFFICES ASSUME q.op = "message", q.who # Admin,
                        q.at \in {"read", "write", "save", "emit"},
                        socket'[q.socket].open
                 PROVE  q.socket \in room'[q.chat]
    BY DEF InRoom
  <2>2. q.socket \in Sockets /\ socket[q.socket].at # "new" /\ q.chat \in Chats
    BY <1>1, <2>1 DEF OnItsWay, Rows
  <2> QED BY <1>1, <2>1, <2>2 DEF InRoom, ConnectionsForward
<1> QED BY <1>1, <1>3, <1>4 DEF Sound

\* The other handlers, when one changed.
LEMMA OneHandler ==
    ASSUME Handlers, TablesForward, ConnectionsForward,
           NEW c \in Calls, NEW q \in Sound', call' = [call EXCEPT ![c] = q]
    PROVE  Handlers'
<1>1. \A d \in Calls : call[d] \in Sound'
  BY SoundStays DEF Handlers
<1>2. \A d \in Calls : call'[d] \in Sound'
  BY <1>1 DEF Handlers
<1>3. call' \in [Calls -> Call]
  BY DEF Handlers, Sound
<1> QED BY <1>2, <1>3 DEF Handlers

LEMMA NoRowIsRow == NoRow \in Row
BY DEF NoRow, Row

LEMMA IdleSound == Idle \in Sound /\ Idle \in Sound'
<1>1. Idle \in Call
  BY NoRowIsRow DEF Idle, Call, Steps
<1> QED BY <1>1 DEF Idle, Sound, OnItsWay, InRoom

\* Nothing happens to the tables, ...
LEMMA TablesStay ==
    ASSUME Tables, UNCHANGED <<tables, history>>
    PROVE  Tables' /\ TablesForward
BY DEF Tables, TablesForward, tables, history, OneThread, OwnersKnown, Private,
       Rows, Written

\* ... or a row is written that the indexes allow: a new one, or one that was
\* read before.
LEMMA RowWritten ==
    ASSUME Tables, NEW k \in Chats, NEW row \in Row, row.owner \in Customers,
           ~Clash(row.owner, k), chat' = [chat EXCEPT ![k] = row],
           owned' = [owned EXCEPT ![k] = @ \cup {row.owner}],
           UNCHANGED <<message, heard>>
    PROVE  Tables' /\ TablesForward /\ k \in Rows' /\ row.owner \in owned'[k]
<1>1. /\ chat' \in [Chats -> Row]
      /\ chat'[k] = row
      /\ \A j \in Chats \ {k} : chat'[j] = chat[j]
  BY DEF Tables
<1>2. /\ owned' \in [Chats -> SUBSET Customers]
      /\ owned'[k] = owned[k] \cup {row.owner}
      /\ \A j \in Chats \ {k} : owned'[j] = owned[j]
  BY DEF Tables
<1>3. Rows' = Rows \cup {k}
  <2>1. row.owner # None
    BY DEF People
  <2> QED BY <1>1, <2>1 DEF Rows
<1>4. TablesForward
  BY <1>2, <1>3 DEF TablesForward
<1>5. GuestIndex => OneThread'
  <2>1. SUFFICES ASSUME GuestIndex, NEW i \in Rows', NEW j \in Rows',
                        chat'[i].owner = chat'[j].owner
                 PROVE  i = j
    BY DEF OneThread
  <2>2. CASE i = k /\ j # k
    BY <1>1, <1>3, <2>1, <2>2 DEF Clash, Rows
  <2>3. CASE j = k /\ i # k
    BY <1>1, <1>3, <2>1, <2>3 DEF Clash, Rows
  <2>4. CASE i # k /\ j # k
    BY <1>1, <1>3, <2>1, <2>4 DEF Tables, OneThread, Rows
  <2> QED BY <2>2, <2>3, <2>4
<1>6. OwnersKnown'
  BY <1>1, <1>2, <1>3 DEF Tables, OwnersKnown, Rows
<1>7. Private'
  <2>1. \A j \in Chats : owned[j] \subseteq owned'[j]
    BY <1>4 DEF TablesForward
  <2>2. \A m \in Written : message[m].chat \in Chats
    BY DEF Tables, Message, Written
  <2> QED BY <2>1, <2>2 DEF Tables, Private, Written
<1> QED BY <1>1, <1>2, <1>3, <1>4, <1>5, <1>6, <1>7 DEF Tables

\* Nothing happens to the connections.
LEMMA ConnectionsStay ==
    ASSUME Connections, Tables, TablesForward, UNCHANGED gateway
    PROVE  Connections' /\ ConnectionsForward
<1>1. UNCHANGED <<socket, room, online>>
  BY DEF gateway
<1>2. \A k \in Chats : owned[k] \subseteq owned'[k]
  BY DEF TablesForward
<1>3. \A s \in Sockets : Placed(s)'
  <2>1. \A s \in Sockets : Placed(s) /\ socket[s].chat \in Chats \cup {0}
    BY DEF Connections, Connection
  <2> QED BY <1>1, <1>2, <2>1 DEF Placed, TablesForward
<1>4. Rooms'
  BY <1>1, <1>2 DEF Connections, Rooms
<1> QED BY <1>1, <1>3, <1>4 DEF Connections, ConnectionsForward

\* A customer enters the room of a chat it has owned.
LEMMA Entered ==
    ASSUME Connections, Tables, NEW s \in Sockets, NEW k \in Rows, Enter(s, k),
           socket[s].at # "new", socket[s].who \in owned[k],
           UNCHANGED <<tables, history>>
    PROVE  /\ Connections'
           /\ ConnectionsForward
           /\ s \in room'[k]
<1>1. k \in Chats /\ k # 0
  BY DEF Rows, Chats
<1>2. /\ socket' \in [Sockets -> Connection]
      /\ socket'[s].at = "ready" /\ socket'[s].chat = k
      /\ socket'[s].who = socket[s].who /\ socket'[s].open = socket[s].open
      /\ \A t \in Sockets \ {s} : socket'[t] = socket[t]
  <2>1. /\ socket \in [Sockets -> Connection]
        /\ socket' = [socket EXCEPT
                ![s] = [socket[s] EXCEPT !.at = "ready", !.chat = k]]
    BY DEF Enter, Connections
  <2>2. socket[s] \in Connection
    BY <2>1
  <2> DEFINE x == [socket[s] EXCEPT !.at = "ready", !.chat = k]
  <2>3. /\ x \in Connection
        /\ x.at = "ready" /\ x.chat = k
        /\ x.who = socket[s].who /\ x.open = socket[s].open
    BY <1>1, <2>2 DEF Connection
  <2>4. socket' = [socket EXCEPT ![s] = x]
    BY <2>1
  <2> HIDE DEF x
  <2> QED BY <2>1, <2>3, <2>4
<1>3. /\ room' \in [Chats -> SUBSET Sockets]
      /\ room'[k] = room[k] \cup {s}
      /\ \A j \in Chats \ {k} : room'[j] = room[j]
  BY <1>1 DEF Enter, Connections
<1>4. online' \subseteq Chats
  BY <1>1 DEF Enter, Connections
<1>5. Rows' = Rows /\ owned' = owned /\ owned \in [Chats -> SUBSET Customers]
  BY DEF Rows, tables, history, Tables
<1>6. \A t \in Sockets : Placed(t)'
  <2>1. Placed(s)'
    BY <1>1, <1>2, <1>3, <1>5 DEF Placed, People
  <2>2. \A t \in Sockets \ {s} :
            Placed(t) /\ socket[t].chat \in Chats \cup {0}
    BY DEF Connections, Connection
  <2>3. \A t \in Sockets \ {s} : Placed(t)'
    BY <1>2, <1>3, <1>5, <2>2 DEF Placed, Rows
  <2> QED BY <2>1, <2>3
<1>7. Rooms'
  <2>1. SUFFICES ASSUME NEW j \in Chats, NEW t \in room'[j]
                 PROVE  socket'[t].at # "new"
                        /\ socket'[t].who \in owned[j] \cup {Admin}
    BY <1>5 DEF Rooms
  <2>2. t \in Sockets
    BY <1>3
  <2>3. CASE t = s /\ j = k
    BY <1>2, <2>3
  <2>4. CASE t \in room[j]
    BY <1>2, <2>2, <2>4 DEF Connections, Rooms
  <2> QED BY <1>3, <2>3, <2>4
<1>8. ConnectionsForward
  BY <1>2, <1>3 DEF ConnectionsForward
<1> QED BY <1>2, <1>3, <1>4, <1>6, <1>7, <1>8 DEF Connections

Before == Tables /\ Connections /\ Handlers
After == Tables' /\ Connections' /\ Handlers'

\* Steps of a handler that change nothing else.
LEMMA HandlerGoesOn ==
    ASSUME Before, UNCHANGED <<tables, gateway, history>>, NEW c \in Calls,
           NEW q \in Sound, call' = [call EXCEPT ![c] = q]
    PROVE  After
<1>1. Tables' /\ TablesForward
  BY TablesStay DEF Before
<1>2. Connections' /\ ConnectionsForward
  BY <1>1, ConnectionsStay DEF Before
<1>3. q \in Sound'
  BY <1>1, <1>2, SoundStays
<1> QED BY <1>1, <1>2, <1>3, OneHandler DEF Before, After

LEMMA HandlerEnds ==
    ASSUME Before, UNCHANGED <<tables, gateway, history>>, NEW c \in Calls, End(c)
    PROVE  After
BY HandlerGoesOn, IdleSound DEF End

\* What a handler that runs is known to be.
LEMMA Running ==
    ASSUME Before, NEW c \in Calls
    PROVE  /\ call[c] \in Sound /\ call[c] \in Call
           /\ OnItsWay(call[c]) /\ InRoom(call[c])
BY DEF Before, Handlers, Sound

\* The record of a handler that goes on to another step, about chat k.
Like(x, q, step, k) ==
    /\ x.at = step /\ x.chat = k
    /\ x.op = q.op /\ x.who = q.who /\ x.socket = q.socket
    /\ x.guest = q.guest /\ x.row = q.row /\ x.message = q.message

LEMMA Moved ==
    ASSUME Before, NEW c \in Calls, NEW step \in Steps, NEW k \in Chats \cup {0},
           GotoWith(c, step, k) \/ (Goto(c, step) /\ k = call[c].chat)
    PROVE  \E x \in Call : Like(x, call[c], step, k) /\ call' = [call EXCEPT ![c] = x]
<1>1. call \in [Calls -> Call] /\ call[c] \in Call
  BY DEF Before, Handlers
<1> DEFINE x == [call[c] EXCEPT !.at = step, !.chat = k]
<1>2. x \in Call /\ Like(x, call[c], step, k)
  BY <1>1 DEF Call, Like
<1>3. CASE GotoWith(c, step, k)
  BY <1>1, <1>2, <1>3 DEF GotoWith
<1>4. CASE Goto(c, step) /\ k = call[c].chat
  <2>1. x = [call[c] EXCEPT !.at = step]
    BY <1>1, <1>4 DEF Call
  <2> QED BY <1>1, <1>2, <1>4, <2>1 DEF Goto
<1> QED BY <1>3, <1>4

\* The chats a person is found by are its own.
LEMMA Found ==
    ASSUME Before, NEW who, NEW k \in Threads(who)
    PROVE  k \in Rows /\ k \in Chats /\ k # 0 /\ who \in owned[k]
BY DEF Threads, Rows, Chats, Before, Tables, OwnersKnown

LEMMA acceptStep ==
    ASSUME Before, NEW c \in Calls, accept(c)
    PROVE  After
<1>0. PICK q : q = call[c]
  OBVIOUS
<1>1. /\ q \in Call /\ OnItsWay(q) /\ q.at = "ready" /\ q.op = "message"
      /\ UNCHANGED <<tables, gateway, history>>
  BY <1>0, Running DEF accept, At
<1>2. /\ q.socket \in Sockets /\ socket[q.socket].who = q.who
      /\ q.who \in People /\ q.chat \in Chats \cup {0}
  BY <1>1 DEF OnItsWay, Call
<1>3. CASE q.who = Admin /\ Goto(c, "read")
  <2>1. q.chat \in Rows
    BY <1>1, <1>3 DEF OnItsWay
  <2>2. PICK x \in Call :
            Like(x, q, "read", q.chat) /\ call' = [call EXCEPT ![c] = x]
    BY <1>0, <1>2, <1>3, Moved DEF Steps
  <2>3. x \in Sound
    BY <1>1, <1>3, <2>1, <2>2 DEF Like, Sound, OnItsWay, InRoom
  <2> QED BY <1>1, <2>2, <2>3, HandlerGoesOn
<1>4. CASE End(c)
  BY <1>1, <1>4, HandlerEnds
<1>5. CASE /\ q.who # Admin
           /\ ChatOf(q.socket) # 0
           /\ GotoWith(c, "read", ChatOf(q.socket))
  <2>1. PICK k : k = ChatOf(q.socket)
    OBVIOUS
  <2>2. Placed(q.socket) /\ k = socket[q.socket].chat /\ socket[q.socket].at = "ready"
    BY <1>2, <1>5, <2>1 DEF Before, Connections, ChatOf
  <2>3. /\ k \in Rows /\ k \in Chats /\ q.who \in owned[k]
        /\ socket[q.socket].open => q.socket \in room[k]
    BY <1>2, <1>5, <2>1, <2>2 DEF Placed, Rows
  <2>4. PICK x \in Call : Like(x, q, "read", k) /\ call' = [call EXCEPT ![c] = x]
    BY <1>0, <1>5, <2>1, <2>3, Moved DEF Steps
  <2>5. x \in Sound
    BY <1>1, <1>2, <2>3, <2>4 DEF Like, Sound, OnItsWay, InRoom
  <2> QED BY <1>1, <2>4, <2>5, HandlerGoesOn
<1>6. CASE q.who # Admin /\ Goto(c, "find")
  <2>1. PICK x \in Call :
            Like(x, q, "find", q.chat) /\ call' = [call EXCEPT ![c] = x]
    BY <1>0, <1>2, <1>6, Moved DEF Steps
  <2>2. x \in Sound
    BY <1>1, <1>2, <1>6, <2>1 DEF Like, Sound, OnItsWay, InRoom, People
  <2> QED BY <1>1, <2>1, <2>2, HandlerGoesOn
<1> QED BY <1>0, <1>3, <1>4, <1>5, <1>6 DEF accept

LEMMA findChatStep ==
    ASSUME Before, NEW c \in Calls, findChat(c)
    PROVE  After
<1>0. PICK q : q = call[c]
  OBVIOUS
<1>1. /\ q \in Call /\ OnItsWay(q) /\ q.at = "find"
      /\ UNCHANGED <<tables, gateway, history>>
  BY <1>0, Running DEF findChat, At
<1>2. /\ q.who \in Customers /\ q.op \in {"message", "open"}
      /\ q.who \in People /\ q.chat \in Chats \cup {0}
  BY <1>1 DEF OnItsWay, People, Call
<1>3. ASSUME NEW k \in Threads(q.who), NEW step \in {"list", "enter"},
             step = "enter" => q.op = "message", GotoWith(c, step, k)
      PROVE  After
  <2>1. k \in Rows /\ k \in Chats /\ q.who \in owned[k]
    BY Found
  <2>2. PICK x \in Call : Like(x, q, step, k) /\ call' = [call EXCEPT ![c] = x]
    BY <1>0, <1>3, <2>1, Moved DEF Steps
  <2>3. x \in Sound
    BY <1>1, <1>2, <1>3, <2>1, <2>2 DEF Like, Sound, OnItsWay, InRoom
  <2> QED BY <1>1, <2>2, <2>3, HandlerGoesOn
<1>4. CASE End(c)
  BY <1>1, <1>4, HandlerEnds
<1>5. CASE q.op # "open" /\ Goto(c, "insert")
  <2>1. PICK x \in Call :
            Like(x, q, "insert", q.chat) /\ call' = [call EXCEPT ![c] = x]
    BY <1>0, <1>2, <1>5, Moved DEF Steps
  <2>2. x \in Sound
    BY <1>1, <1>2, <1>5, <2>1 DEF Like, Sound, OnItsWay, InRoom
  <2> QED BY <1>1, <2>1, <2>2, HandlerGoesOn
<1> QED BY <1>0, <1>2, <1>3, <1>4, <1>5 DEF findChat

LEMMA findAgainStep ==
    ASSUME Before, NEW c \in Calls, findAgain(c)
    PROVE  After
<1>0. PICK q : q = call[c]
  OBVIOUS
<1>1. /\ q \in Call /\ OnItsWay(q) /\ q.at = "findAgain"
      /\ UNCHANGED <<tables, gateway, history>>
  BY <1>0, Running DEF findAgain, At
<1>2. ASSUME NEW k \in Threads(q.who), GotoWith(c, "enter", k)
      PROVE  After
  <2>1. k \in Rows /\ k \in Chats /\ q.who \in owned[k]
    BY Found
  <2>2. PICK x \in Call : Like(x, q, "enter", k) /\ call' = [call EXCEPT ![c] = x]
    BY <1>0, <1>2, <2>1, Moved DEF Steps
  <2>3. x \in Sound
    BY <1>1, <2>1, <2>2 DEF Like, Sound, OnItsWay, InRoom
  <2> QED BY <1>1, <2>2, <2>3, HandlerGoesOn
<1>3. CASE End(c)
  BY <1>1, <1>3, HandlerEnds
<1> QED BY <1>0, <1>2, <1>3 DEF findAgain

LEMMA getChatByIdStep ==
    ASSUME Before, NEW c \in Calls, getChatById(c)
    PROVE  After
<1>0. PICK q : q = call[c]
  OBVIOUS
<1>1. /\ q \in Call /\ OnItsWay(q) /\ InRoom(q) /\ q.at = "read"
      /\ UNCHANGED <<tables, gateway, history>>
  BY <1>0, Running DEF getChatById, At
<1>2. q.chat \in Chats /\ chat[q.chat] \in Row /\ chat[q.chat].owner \in Customers
  BY <1>1 DEF OnItsWay, Rows, Before, Tables, Row
<1> DEFINE x == [q EXCEPT !.at = "write", !.row = chat[q.chat]]
<1>3. /\ x \in Call /\ Like(x, [q EXCEPT !.row = x.row], "write", q.chat)
      /\ x.row = chat[q.chat]
  BY <1>1, <1>2 DEF Call, Like, Steps
<1>4. call' = [call EXCEPT ![c] = x]
  BY <1>0, <1>1 DEF getChatById, Before, Handlers
<1>5. /\ x.at = "write" /\ x.chat = q.chat /\ x.op = q.op /\ x.who = q.who
      /\ x.socket = q.socket /\ x.guest = q.guest
  BY <1>1 DEF Call
<1> HIDE DEF x
<1>6. x \in Sound
  BY <1>1, <1>2, <1>3, <1>5 DEF Sound, OnItsWay, InRoom
<1> QED BY <1>1, <1>4, <1>6, HandlerGoesOn

LEMMA copyGuestChatStep ==
    ASSUME Before, NEW c \in Calls, copyGuestChat(c)
    PROVE  After
<1>0. PICK q : q = call[c]
  OBVIOUS
<1>1. /\ q \in Call /\ OnItsWay(q) /\ q.at = "copy"
      /\ UNCHANGED <<tables, gateway, history>>
  BY <1>0, Running DEF copyGuestChat, At
<1>2. CASE End(c)
  BY <1>1, <1>2, HandlerEnds
<1>3. ASSUME NEW k \in Threads(q.guest),
             call' = [call EXCEPT ![c].at = "own", ![c].chat = k, ![c].row = chat[k]]
      PROVE  After
  <2>1. /\ k \in Rows /\ k \in Chats /\ chat[k] \in Row
        /\ chat[k].owner \in Customers
    BY Found DEF Before, Tables, Rows, Row
  <2> DEFINE x == [q EXCEPT !.at = "own", !.chat = k, !.row = chat[k]]
  <2>2. /\ x \in Call /\ x.at = "own" /\ x.chat = k /\ x.op = q.op
        /\ x.who = q.who /\ x.guest = q.guest /\ x.row = chat[k]
    BY <1>1, <2>1 DEF Call, Steps
  <2>3. call' = [call EXCEPT ![c] = x]
    BY <1>0, <1>1, <1>3 DEF Before, Handlers
  <2> HIDE DEF x
  <2>4. x \in Sound
    BY <1>1, <2>1, <2>2 DEF Sound, OnItsWay, InRoom
  <2> QED BY <1>1, <2>3, <2>4, HandlerGoesOn
<1> QED BY <1>0, <1>2, <1>3 DEF copyGuestChat

LEMMA findOwnChatStep ==
    ASSUME Before, NEW c \in Calls, findOwnChat(c)
    PROVE  After
<1>0. PICK q : q = call[c]
  OBVIOUS
<1>1. /\ q \in Call /\ OnItsWay(q) /\ q.at = "own" /\ q.chat \in Chats \cup {0}
      /\ UNCHANGED <<tables, gateway, history>>
  BY <1>0, Running DEF findOwnChat, At, Call
<1>2. CASE End(c)
  BY <1>1, <1>2, HandlerEnds
<1>3. CASE Goto(c, "hand")
  <2>1. PICK x \in Call :
            Like(x, q, "hand", q.chat) /\ call' = [call EXCEPT ![c] = x]
    BY <1>0, <1>1, <1>3, Moved DEF Steps
  <2>2. x \in Sound
    BY <1>1, <2>1 DEF Like, Sound, OnItsWay, InRoom
  <2> QED BY <1>1, <2>1, <2>2, HandlerGoesOn
<1> QED BY <1>2, <1>3 DEF findOwnChat

LEMMA DatabaseFailsStep ==
    ASSUME Before, NEW c \in Calls, DatabaseFails(c)
    PROVE  After
<1>0. PICK q : q = call[c]
  OBVIOUS
<1>1. /\ q \in Call /\ OnItsWay(q) /\ q.chat \in Chats \cup {0}
      /\ UNCHANGED <<tables, gateway, history>>
  BY <1>0, Running DEF DatabaseFails, Call
<1>2. CASE End(c)
  BY <1>1, <1>2, HandlerEnds
<1>3. CASE At(c, "insert") /\ Goto(c, "findAgain")
  <2>1. PICK x \in Call :
            Like(x, q, "findAgain", q.chat) /\ call' = [call EXCEPT ![c] = x]
    BY <1>0, <1>1, <1>3, Moved DEF Steps
  <2>2. x \in Sound
    BY <1>0, <1>1, <1>3, <2>1 DEF Like, Sound, OnItsWay, InRoom, At
  <2> QED BY <1>1, <2>1, <2>2, HandlerGoesOn
<1> QED BY <1>2, <1>3 DEF DatabaseFails

\* A handler that begins.
LEMMA Begun ==
    ASSUME Before, NEW c \in Calls, NEW step \in Steps,
           NEW op \in {"message", "join", "open", "read", "claim"},
           NEW s \in Sockets \cup {None}, NEW who \in People,
           NEW guest \in Guests \cup {None}, NEW k \in Chats \cup {0},
           Begin(c, op, step, s, who, guest, k)
    PROVE  \E x \in Call :
              /\ call' = [call EXCEPT ![c] = x]
              /\ x.at = step /\ x.op = op /\ x.socket = s /\ x.who = who
              /\ x.guest = guest /\ x.chat = k
<1> DEFINE x == [op |-> op, at |-> step, socket |-> s, who |-> who,
                 guest |-> guest, chat |-> k, row |-> NoRow, message |-> 0]
<1>1. x \in Call
  BY NoRowIsRow DEF Call
<1> QED BY <1>1 DEF Begin

LEMMA AskStep ==
    ASSUME Before, NEW c \in Calls, Ask(c)
    PROVE  After
<1>1. ASSUME NEW s \in Sockets, NEW k \in Chats \cup {0}, handleMessage(c, s, k)
      PROVE  After
  <2>1. /\ socket[s].at # "new" /\ socket[s].who \in People
        /\ UNCHANGED <<tables, gateway, history>>
    BY <1>1 DEF handleMessage, Before, Connections, Placed
  <2>2. PICK x \in Call :
              /\ call' = [call EXCEPT ![c] = x]
              /\ x.at = "ready" /\ x.op = "message" /\ x.socket = s
              /\ x.who = socket[s].who /\ x.chat = k
    <3>1. PICK who \in People : who = socket[s].who
      BY <2>1
    <3>2. Begin(c, "message", "ready", s, who, None, k)
      BY <1>1, <3>1 DEF handleMessage
    <3>3. "ready" \in Steps
      BY DEF Steps
    <3> QED BY <3>1, <3>2, <3>3, Begun
  <2>3. x \in Sound
    BY <1>1, <2>1, <2>2 DEF Sound, OnItsWay, InRoom, handleMessage
  <2> QED BY <2>1, <2>2, <2>3, HandlerGoesOn
<1>2. ASSUME NEW s \in Sockets, NEW k \in Chats, handleJoinChat(c, s, k)
      PROVE  After
  <2>1. /\ socket[s].at # "new" /\ socket[s].who = Admin /\ k \in Rows
        /\ UNCHANGED <<tables, socket, online, history>>
        /\ room' = [room EXCEPT ![k] = @ \cup {s}]
    BY <1>2 DEF handleJoinChat, Before, Connections, Placed
  <2>2. PICK x \in Call :
              /\ call' = [call EXCEPT ![c] = x]
              /\ x.at = "mark" /\ x.op = "join" /\ x.who = Admin /\ x.chat = k
    BY <1>2, Begun DEF handleJoinChat, Steps, People
  <2>3. x \in Sound
    BY <2>1, <2>2 DEF Sound, OnItsWay, InRoom
  <2>4. Tables' /\ TablesForward
    BY <2>1, TablesStay DEF Before
  <2>5. /\ room' \in [Chats -> SUBSET Sockets]
        /\ \A j \in Chats : room[j] \subseteq room'[j]
        /\ \A j \in Chats : \A t \in room'[j] : t \in room[j] \/ t = s
    BY <2>1 DEF Before, Connections
  <2>6. ConnectionsForward
    BY <2>1, <2>5 DEF ConnectionsForward
  <2>7. Connections'
    <3>1. \A t \in Sockets : Placed(t)'
      <4>1. \A t \in Sockets : Placed(t)
        BY DEF Before, Connections
      <4>2. Rows' = Rows /\ Rows \subseteq Chats /\ owned' = owned
        BY <2>1 DEF Rows, tables, history
      <4> QED BY <2>1, <2>5, <4>1, <4>2 DEF Placed
    <3>2. Rooms'
      BY <2>1, <2>5 DEF Before, Connections, Rooms, history
    <3> QED BY <2>1, <2>5, <3>1, <3>2 DEF Before, Connections
  <2> QED BY <2>2, <2>3, <2>4, <2>6, <2>7, SoundStays, OneHandler DEF Before, After
<1>3. ASSUME NEW who \in Customers, getMyChat(c, who)
      PROVE  After
  <2>1. UNCHANGED <<tables, gateway, history>>
    BY <1>3 DEF getMyChat
  <2>2. PICK x \in Call :
              /\ call' = [call EXCEPT ![c] = x]
              /\ x.at = "find" /\ x.op = "open" /\ x.who = who
    BY <1>3, Begun DEF getMyChat, Steps, People
  <2>3. x \in Sound
    BY <2>2 DEF Sound, OnItsWay, InRoom
  <2> QED BY <2>1, <2>2, <2>3, HandlerGoesOn
<1>4. ASSUME NEW k \in Chats, getChatMessages(c, k)
      PROVE  After
  <2>1. k \in Rows /\ UNCHANGED <<tables, gateway, history>>
    BY <1>4 DEF getChatMessages
  <2>2. PICK x \in Call :
              /\ call' = [call EXCEPT ![c] = x]
              /\ x.at = "list" /\ x.op = "read" /\ x.who = Admin /\ x.chat = k
    BY <1>4, Begun DEF getChatMessages, Steps, People
  <2>3. x \in Sound
    BY <2>1, <2>2 DEF Sound, OnItsWay, InRoom
  <2> QED BY <2>1, <2>2, <2>3, HandlerGoesOn
<1>5. ASSUME NEW who \in Accounts, NEW guest \in Guests, claimGuestChat(c, who, guest)
      PROVE  After
  <2>1. UNCHANGED <<tables, gateway, history>>
    BY <1>5 DEF claimGuestChat
  <2>2. PICK x \in Call :
              /\ call' = [call EXCEPT ![c] = x]
              /\ x.at = "copy" /\ x.op = "claim" /\ x.who = who /\ x.guest = guest
    BY <1>5, Begun DEF claimGuestChat, Steps, People, Customers
  <2>3. x \in Sound
    BY <2>2 DEF Sound, OnItsWay, InRoom
  <2> QED BY <2>1, <2>2, <2>3, HandlerGoesOn
<1> QED BY <1>1, <1>2, <1>3, <1>4, <1>5 DEF Ask

\* A row is changed, but not whose it is.
LEMMA SameOwner ==
    ASSUME Tables, NEW k \in Rows, NEW row \in Row, row.owner = chat[k].owner,
           chat' = [chat EXCEPT ![k] = row], UNCHANGED <<message, history>>
    PROVE  Tables' /\ TablesForward
<1>1. /\ chat' \in [Chats -> Row]
      /\ \A j \in Chats : chat'[j].owner = chat[j].owner
      /\ UNCHANGED <<message, owned, heard>>
  BY DEF Tables, Rows, history
<1>2. Rows' = Rows /\ Written' = Written /\ Rows \subseteq Chats
  BY <1>1 DEF Rows, Written
<1> QED BY <1>1, <1>2 DEF Tables, TablesForward, OneThread, OwnersKnown, Private

\* save() is refused, or writes a row of somebody; then the handler goes on.
LEMMA Saved ==
    ASSUME Before, NEW c \in Calls, NEW row \in Row, row.owner \in Customers,
           NEW step \in {"emit", "idle"}, Save(c, row, step),
           call[c].at \in {"save", "hand"}, step = "emit" <=> call[c].at = "save",
           UNCHANGED <<message, gateway, heard>>
    PROVE  After
<1>0. PICK q : q = call[c]
  OBVIOUS
<1>1. /\ q \in Sound /\ q \in Call /\ OnItsWay(q) /\ InRoom(q)
      /\ q.chat \in Chats
  BY <1>0, Running DEF OnItsWay, Rows
<1>2. CASE End(c) /\ UNCHANGED <<chat, owned>>
  BY <1>2, HandlerEnds DEF tables, history
<1>3. CASE /\ ~Clash(row.owner, q.chat)
           /\ chat' = [chat EXCEPT ![q.chat] = row]
           /\ owned' = [owned EXCEPT ![q.chat] = @ \cup {row.owner}]
           /\ IF step = "idle" THEN End(c) ELSE Goto(c, step)
  <2>1. Tables' /\ TablesForward
    BY <1>1, <1>3, RowWritten DEF Before
  <2>2. Connections' /\ ConnectionsForward
    BY <2>1, ConnectionsStay DEF Before
  <2>3. CASE End(c)
    BY <2>1, <2>2, <2>3, IdleSound, OneHandler DEF End, Before, After
  <2>4. CASE step = "emit" /\ Goto(c, step)
    <3>1. PICK x \in Call :
              Like(x, q, "emit", q.chat) /\ call' = [call EXCEPT ![c] = x]
      BY <1>0, <1>1, <2>4, Moved DEF Steps
    <3>2. x \in Sound
      BY <1>0, <1>1, <2>4, <3>1 DEF Like, Sound, OnItsWay, InRoom
    <3>3. x \in Sound'
      BY <2>1, <2>2, <3>2, SoundStays
    <3> QED BY <2>1, <2>2, <3>1, <3>3, OneHandler DEF Before, After
  <2> QED BY <1>3, <2>3, <2>4
<1> QED BY <1>0, <1>2, <1>3 DEF Save

LEMMA saveStep ==
    ASSUME Before, NEW c \in Calls, save(c)
    PROVE  After
<1>0. PICK q : q = call[c]
  OBVIOUS
<1>1. q \in Call /\ OnItsWay(q) /\ q.at = "save"
  BY <1>0, Running DEF save, At
<1>2. q.row \in Row /\ q.row.owner \in Customers /\ q.message \in Messages
  BY <1>1 DEF OnItsWay, Call
<1>3. PICK row : row = Counted(q.row, q.who, q.message)
  OBVIOUS
<1>4. row \in Row /\ row.owner = q.row.owner
  <2>1. q.row.unreadByUser + 1 \in Nat /\ q.row.unreadByAdmin + 1 \in Nat
    BY <1>2 DEF Row
  <2>2. CASE q.who = Admin
    BY <1>2, <1>3, <2>1, <2>2 DEF Counted, Row
  <2>3. CASE q.who # Admin
    BY <1>2, <1>3, <2>1, <2>3 DEF Counted, Row
  <2> QED BY <2>2, <2>3
<1>5. Save(c, row, "emit") /\ UNCHANGED <<message, gateway, heard>>
  BY <1>0, <1>3 DEF save
<1> QED BY <1>0, <1>1, <1>2, <1>4, <1>5, Saved

LEMMA handOverStep ==
    ASSUME Before, NEW c \in Calls, handOver(c)
    PROVE  After
<1>0. PICK q : q = call[c]
  OBVIOUS
<1>1. q \in Call /\ OnItsWay(q) /\ q.at = "hand"
  BY <1>0, Running DEF handOver, At
<1>2. q.row \in Row /\ q.who \in Customers
  BY <1>1 DEF OnItsWay, Call, Customers
<1>3. PICK row : row = [q.row EXCEPT !.owner = q.who]
  OBVIOUS
<1>4. row \in Row /\ row.owner = q.who
  BY <1>2, <1>3 DEF Row
<1>5. Save(c, row, "idle") /\ UNCHANGED <<message, gateway, heard>>
  BY <1>0, <1>3 DEF handOver
<1> QED BY <1>0, <1>1, <1>2, <1>4, <1>5, Saved

LEMMA insertStep ==
    ASSUME Before, NEW c \in Calls, insert(c)
    PROVE  After
<1>0. PICK q : q = call[c]
  OBVIOUS
<1>1. /\ q \in Call /\ OnItsWay(q) /\ q.at = "insert" /\ q.chat \in Chats \cup {0}
      /\ UNCHANGED <<message, gateway, heard>>
  BY <1>0, Running DEF insert, At, Call
<1>2. q.who \in Customers /\ q.op = "message"
  BY <1>1 DEF OnItsWay
<1>3. CASE Goto(c, "findAgain") /\ UNCHANGED <<chat, owned>>
  <2>1. PICK x \in Call :
            Like(x, q, "findAgain", q.chat) /\ call' = [call EXCEPT ![c] = x]
    BY <1>0, <1>1, <1>3, Moved DEF Steps
  <2>2. x \in Sound
    BY <1>1, <2>1 DEF Like, Sound, OnItsWay, InRoom
  <2> QED BY <1>1, <1>3, <2>1, <2>2, HandlerGoesOn DEF tables, history
<1>4. ASSUME NEW k \in Chats, ~Clash(q.who, k),
             chat' = [chat EXCEPT ![k] = [NoRow EXCEPT !.owner = q.who]],
             owned' = [owned EXCEPT ![k] = @ \cup {q.who}],
             GotoWith(c, "enter", k)
      PROVE  After
  <2>1. PICK row \in Row : row = [NoRow EXCEPT !.owner = q.who] /\ row.owner = q.who
    <3> DEFINE row == [NoRow EXCEPT !.owner = q.who]
    <3>1. row = [owner |-> q.who, last |-> 0, unreadByAdmin |-> 0, unreadByUser |-> 0]
      BY DEF NoRow
    <3>2. row \in Row /\ row.owner = q.who
      BY <1>2, <3>1 DEF Row
    <3> QED BY <3>2
  <2>2. Tables' /\ TablesForward /\ k \in Rows' /\ q.who \in owned'[k]
    BY <1>1, <1>2, <1>4, <2>1, RowWritten DEF Before
  <2>3. Connections' /\ ConnectionsForward
    BY <1>1, <2>2, ConnectionsStay DEF Before
  <2>4. PICK x \in Call : Like(x, q, "enter", k) /\ call' = [call EXCEPT ![c] = x]
    BY <1>0, <1>4, Moved DEF Steps
  <2>5. x \in Sound'
    BY <1>1, <1>2, <2>2, <2>4 DEF Like, Sound, OnItsWay, InRoom, gateway
  <2> QED BY <2>2, <2>3, <2>4, <2>5, OneHandler DEF Before, After
<1> QED BY <1>0, <1>3, <1>4 DEF insert

LEMMA startChatStep ==
    ASSUME Before, NEW c \in Calls, startChat(c)
    PROVE  After
<1>0. PICK q : q = call[c]
  OBVIOUS
<1>1. /\ q \in Call /\ OnItsWay(q) /\ q.at = "enter" /\ Enter(q.socket, q.chat)
      /\ Goto(c, "read") /\ UNCHANGED <<tables, history>>
  BY <1>0, Running DEF startChat, At
<1>2. /\ q.op = "message" /\ q.chat \in Rows /\ q.chat \in Chats
      /\ q.who \in Customers /\ q.who \in owned[q.chat]
      /\ q.socket \in Sockets /\ socket[q.socket].at # "new"
      /\ socket[q.socket].who = q.who
  BY <1>1 DEF OnItsWay, Rows, People
<1>3. Tables' /\ TablesForward
  BY <1>1, TablesStay DEF Before
<1>4. Connections' /\ ConnectionsForward /\ q.socket \in room'[q.chat]
  BY <1>1, <1>2, Entered DEF Before
<1>5. PICK x \in Call :
          Like(x, q, "read", q.chat) /\ call' = [call EXCEPT ![c] = x]
  BY <1>0, <1>1, <1>2, Moved DEF Steps
<1>6. x \in Sound'
  <2>1. q.chat \in Rows' /\ q.who \in owned'[q.chat] \cup {Admin}
    BY <1>2, <1>3 DEF TablesForward
  <2>2. socket'[q.socket].at # "new" /\ socket'[q.socket].who = q.who
    BY <1>2, <1>4 DEF ConnectionsForward
  <2> QED BY <1>1, <1>2, <1>4, <1>5, <2>1, <2>2 DEF Like, Sound, OnItsWay, InRoom
<1> QED BY <1>3, <1>4, <1>5, <1>6, OneHandler DEF Before, After

LEMMA writeStep ==
    ASSUME Before, NEW c \in Calls, write(c)
    PROVE  After
<1>0. PICK q : q = call[c]
  OBVIOUS
<1>1. /\ q \in Call /\ OnItsWay(q) /\ InRoom(q) /\ q.at = "write"
      /\ UNCHANGED <<chat, gateway, history>>
  BY <1>0, Running DEF write, At
<1>2. /\ q.op = "message" /\ q.chat \in Chats /\ q.chat # 0 /\ q.who \in People
      /\ q.who \in owned[q.chat] \cup {Admin}
  BY <1>1 DEF OnItsWay, Rows, Chats
<1>3. PICK m \in Messages :
        /\ message' = [message EXCEPT ![m] = [chat |-> q.chat, from |-> q.who]]
        /\ call' = [call EXCEPT ![c].at = "save", ![c].message = m]
  BY <1>0 DEF write
<1>4. /\ message' \in [Messages -> Message]
      /\ message'[m].chat = q.chat /\ message'[m].from = q.who
      /\ \A n \in Messages \ {m} : message'[n] = message[n]
  BY <1>2, <1>3 DEF Before, Tables, Message
<1>5. Tables' /\ TablesForward
  <2>1. UNCHANGED <<chat, owned, heard>>
    BY <1>1 DEF history
  <2>2. Rows' = Rows
    BY <2>1 DEF Rows
  <2>3. Private'
    BY <1>2, <1>4, <2>1 DEF Before, Tables, Private, Written
  <2> QED BY <1>4, <2>1, <2>2, <2>3
        DEF Before, Tables, TablesForward, OneThread, OwnersKnown
<1>6. Connections' /\ ConnectionsForward
  BY <1>1, <1>5, ConnectionsStay DEF Before
<1> DEFINE x == [q EXCEPT !.at = "save", !.message = m]
<1>7. /\ x \in Call /\ x.at = "save" /\ x.message = m /\ x.chat = q.chat
      /\ x.op = q.op /\ x.who = q.who /\ x.socket = q.socket
      /\ x.guest = q.guest /\ x.row = q.row
  BY <1>1 DEF Call, Steps
<1>8. call' = [call EXCEPT ![c] = x]
  BY <1>0, <1>1, <1>3 DEF Before, Handlers
<1> HIDE DEF x
<1>9. x \in Sound
  BY <1>1, <1>7 DEF Sound, OnItsWay, InRoom
<1> QED BY <1>5, <1>6, <1>8, <1>9, SoundStays, OneHandler DEF Before, After

\* Messages are shown to people of that chat.
LEMMA Shown ==
    ASSUME Tables, NEW k \in Chats,
           NEW people, people \subseteq owned[k] \cup {Admin},
           heard' = [heard EXCEPT ![k] = @ \cup people],
           UNCHANGED <<tables, owned>>
    PROVE  Tables' /\ TablesForward
<1>1. UNCHANGED <<chat, message>>
  BY DEF tables
<1>2. Rows' = Rows /\ Written' = Written
  BY <1>1 DEF Rows, Written
<1>3. /\ heard' \in [Chats -> SUBSET People]
      /\ \A j \in Chats : heard'[j] \subseteq owned[j] \cup {Admin}
  <2>1. people \subseteq People
    BY DEF Tables, People
  <2> QED BY <2>1 DEF Tables, Private
<1> QED BY <1>1, <1>2, <1>3
        DEF Tables, TablesForward, OneThread, OwnersKnown, Private

LEMMA emitStep ==
    ASSUME Before, NEW c \in Calls, emit(c)
    PROVE  After
<1>0. PICK q : q = call[c]
  OBVIOUS
<1>1. /\ q \in Call /\ OnItsWay(q) /\ q.at = "emit"
      /\ UNCHANGED <<tables, gateway, owned>>
      /\ End(c)
      /\ heard' = [heard EXCEPT
            ![q.chat] = @ \cup {socket[s].who : s \in Audience(q.chat)}]
  BY <1>0, Running DEF emit, At
<1>2. q.chat \in Chats /\ q.message \in Messages
  BY <1>1 DEF OnItsWay, Rows
<1>3. PICK people : /\ people = {socket[s].who : s \in Audience(q.chat)}
                    /\ heard' = [heard EXCEPT ![q.chat] = @ \cup people]
  BY <1>1
<1>4. people \subseteq owned[q.chat] \cup {Admin}
  BY <1>2, <1>3 DEF Audience, Before, Connections, Rooms
<1>6. Tables' /\ TablesForward
  <2>1. Tables /\ UNCHANGED <<tables, owned>>
    BY <1>1 DEF Before
  <2>2. heard' = [heard EXCEPT ![q.chat] = @ \cup people]
    BY <1>3
  <2>3. q.chat \in Chats /\ people \subseteq owned[q.chat] \cup {Admin}
    BY <1>2, <1>4
  <2> QED BY <2>1, <2>2, <2>3, Shown
<1>7. Connections' /\ ConnectionsForward
  BY <1>1, <1>6, ConnectionsStay DEF Before
<1> QED BY <1>1, <1>6, <1>7, IdleSound, OneHandler DEF End, Before, After

LEMMA getMessagesStep ==
    ASSUME Before, NEW c \in Calls, getMessages(c)
    PROVE  After
<1>0. PICK q : q = call[c]
  OBVIOUS
<1>1. /\ q \in Call /\ OnItsWay(q) /\ q.at = "list"
      /\ UNCHANGED <<tables, gateway, owned>>
      /\ Goto(c, "mark") /\ heard' = [heard EXCEPT ![q.chat] = @ \cup {q.who}]
  BY <1>0, Running DEF getMessages, At
<1>2. q.chat \in Chats /\ q.who \in owned[q.chat] \cup {Admin}
  BY <1>1 DEF OnItsWay, Rows
<1>3. PICK people : people = {q.who}
  OBVIOUS
<1>4. Tables' /\ TablesForward
  <2>1. Tables /\ UNCHANGED <<tables, owned>>
    BY <1>1 DEF Before, Tables
  <2>2. heard' = [heard EXCEPT ![q.chat] = @ \cup people]
    BY <1>1, <1>3
  <2>3. q.chat \in Chats /\ people \subseteq owned[q.chat] \cup {Admin}
    BY <1>2, <1>3
  <2> QED BY <2>1, <2>2, <2>3, Shown
<1>5. Connections' /\ ConnectionsForward
  BY <1>1, <1>4, ConnectionsStay DEF Before
<1>6. PICK x \in Call :
          Like(x, q, "mark", q.chat) /\ call' = [call EXCEPT ![c] = x]
  BY <1>0, <1>1, <1>2, Moved DEF Steps
<1>7. x \in Sound
  BY <1>1, <1>6 DEF Like, Sound, OnItsWay, InRoom
<1> QED BY <1>4, <1>5, <1>6, <1>7, SoundStays, OneHandler DEF Before, After

LEMMA markReadStep ==
    ASSUME Before, NEW c \in Calls, markRead(c)
    PROVE  After
<1>0. PICK q : q = call[c]
  OBVIOUS
<1>1. /\ q \in Call /\ OnItsWay(q) /\ q.at = "mark"
      /\ UNCHANGED <<message, gateway, history>> /\ End(c)
      /\ chat' = [chat EXCEPT ![q.chat] = Read(chat[q.chat], q.op)]
  BY <1>0, Running DEF markRead, At
<1>2. q.chat \in Rows /\ chat[q.chat] \in Row
  BY <1>1 DEF OnItsWay, Rows, Before, Tables
<1>3. PICK row : row = Read(chat[q.chat], q.op)
  OBVIOUS
<1>4. row \in Row /\ row.owner = chat[q.chat].owner
  BY <1>2, <1>3 DEF Read, Row
<1>5. Tables' /\ TablesForward
  BY <1>1, <1>2, <1>3, <1>4, SameOwner DEF Before
<1>6. Connections' /\ ConnectionsForward
  BY <1>1, <1>5, ConnectionsStay DEF Before
<1> QED BY <1>1, <1>5, <1>6, IdleSound, OneHandler DEF End, Before, After

\* Only a connection changes: the handlers and the tables stay as they were.
LEMMA ConnectionsMove ==
    ASSUME Before, Connections', ConnectionsForward,
           UNCHANGED <<tables, call, history>>
    PROVE  After
<1>1. Tables' /\ TablesForward
  BY TablesStay DEF Before
<1>2. Handlers'
  BY <1>1, SoundStays DEF Before, Handlers
<1> QED BY <1>1, <1>2 DEF After

\* One connection changes; if it is open, it stays in its rooms.
LEMMA OneConnection ==
    ASSUME Before, NEW s \in Sockets, NEW x \in Connection,
           UNCHANGED <<tables, room, online, call, history>>,
           socket' = [socket EXCEPT ![s] = x],
           socket[s].at # "new" =>
              x.who = socket[s].who /\ (x.open => socket[s].open),
           x.at # "new", Placed(s)'
    PROVE  After
<1>1. /\ socket' \in [Sockets -> Connection]
      /\ socket'[s] = x
      /\ \A t \in Sockets \ {s} : socket'[t] = socket[t]
  BY DEF Before, Connections
<1>2. ConnectionsForward
  BY <1>1 DEF ConnectionsForward
<1>3. \A t \in Sockets : Placed(t)'
  <2>1. ASSUME NEW t \in Sockets \ {s} PROVE Placed(t)'
    <3>1. Placed(t) /\ Rows' = Rows /\ UNCHANGED <<owned, room>>
      BY DEF Before, Connections, Rows, tables, history
    <3> QED BY <1>1, <3>1 DEF Placed
  <2> QED BY <2>1
<1>4. Rooms'
  <2>1. SUFFICES ASSUME NEW k \in Chats, NEW t \in room[k]
                 PROVE  socket'[t].at # "new"
                        /\ socket'[t].who \in owned[k] \cup {Admin}
    BY DEF Rooms, history
  <2>2. /\ t \in Sockets /\ socket[t].at # "new"
        /\ socket[t].who \in owned[k] \cup {Admin}
    BY DEF Before, Connections, Rooms
  <2> QED BY <1>1, <2>2
<1>5. Connections'
  BY <1>1, <1>3, <1>4 DEF Before, Connections
<1> QED BY <1>2, <1>5, ConnectionsMove

LEMMA handleConnectionStep ==
    ASSUME Before, NEW s \in Sockets, NEW who \in People, handleConnection(s, who)
    PROVE  After
<1>1. PICK at \in {"ready", "identify"} : at = "identify" <=> who # Admin
  BY DEF People
<1> DEFINE x == [who |-> who, open |-> TRUE, chat |-> 0, at |-> at]
<1>2. /\ x \in Connection /\ x.who = who /\ x.at = at /\ x.chat = 0
      /\ socket' = [socket EXCEPT ![s] = x]
  BY <1>1 DEF Connection, handleConnection
<1>3. socket[s].at = "new" /\ UNCHANGED <<tables, room, online, call, history>>
  BY DEF handleConnection
<1> HIDE DEF x
<1>4. socket'[s] = x
  BY <1>2 DEF Before, Connections
<1>5. Placed(s)'
  BY <1>1, <1>2, <1>4 DEF Placed, People
<1> QED BY <1>1, <1>2, <1>3, <1>5, OneConnection

LEMMA joinOwnChatStep ==
    ASSUME Before, NEW s \in Sockets, joinOwnChat(s)
    PROVE  After
<1>1. /\ socket[s] \in Connection /\ Placed(s) /\ socket[s].at = "identify"
      /\ UNCHANGED <<tables, room, online, call, history>>
  BY DEF joinOwnChat, Before, Connections
<1>2. socket[s].who \in Customers
  BY <1>1 DEF Placed
<1>3. CASE socket' = [socket EXCEPT ![s].at = "ready"]
  <2> DEFINE x == [socket[s] EXCEPT !.at = "ready"]
  <2>1. /\ x \in Connection /\ x.at = "ready" /\ x.who = socket[s].who
        /\ x.open = socket[s].open /\ x.chat = socket[s].chat
    BY <1>1 DEF Connection
  <2>2. socket' = [socket EXCEPT ![s] = x]
    BY <1>3
  <2> HIDE DEF x
  <2>3. socket'[s] = x
    BY <2>2 DEF Before, Connections
  <2>4. socket[s].chat = 0
    BY <1>1 DEF Placed
  <2>5. Placed(s)'
    BY <1>1, <1>2, <2>1, <2>3, <2>4 DEF Placed, People
  <2> QED BY <1>1, <2>1, <2>2, <2>5, OneConnection
<1>4. ASSUME NEW k \in Threads(socket[s].who),
             socket' = [socket EXCEPT ![s].at = "enter", ![s].chat = k]
      PROVE  After
  <2>1. k \in Rows /\ k \in Chats /\ k # 0 /\ socket[s].who \in owned[k]
    BY Found
  <2> DEFINE x == [socket[s] EXCEPT !.at = "enter", !.chat = k]
  <2>2. /\ x \in Connection /\ x.at = "enter" /\ x.who = socket[s].who
        /\ x.open = socket[s].open /\ x.chat = k
    BY <1>1, <2>1 DEF Connection
  <2>3. socket' = [socket EXCEPT ![s] = x]
    BY <1>4 DEF Before, Connections
  <2> HIDE DEF x
  <2>4. socket'[s] = x
    BY <2>3 DEF Before, Connections
  <2>5. Placed(s)'
    <3>1. Rows' = Rows /\ owned' = owned
      BY <1>1 DEF Rows, tables, history
    <3> QED BY <1>1, <1>2, <2>1, <2>2, <2>4, <3>1 DEF Placed, People
  <2> QED BY <1>1, <2>2, <2>3, <2>5, OneConnection
<1> QED BY <1>3, <1>4 DEF joinOwnChat

LEMMA enterChatStep ==
    ASSUME Before, NEW s \in Sockets, enterChat(s)
    PROVE  After
<1>1. /\ socket[s].at = "enter" /\ Enter(s, socket[s].chat) /\ Placed(s)
      /\ UNCHANGED <<tables, call, history>>
  BY DEF enterChat, Before, Connections
<1>2. socket[s].chat \in Rows /\ socket[s].who \in owned[socket[s].chat]
  BY <1>1 DEF Placed
<1>3. Connections' /\ ConnectionsForward
  BY <1>1, <1>2, Entered DEF Before
<1> QED BY <1>1, <1>3, ConnectionsMove

LEMMA identifyFailsStep ==
    ASSUME Before, NEW s \in Sockets, identifyFails(s)
    PROVE  After
<1>1. /\ socket[s] \in Connection /\ Placed(s) /\ socket[s].at = "identify"
      /\ UNCHANGED <<tables, room, online, call, history>>
  BY DEF identifyFails, Before, Connections
<1> DEFINE x == [socket[s] EXCEPT !.open = FALSE, !.at = "ready"]
<1>2. /\ x \in Connection /\ x.at = "ready" /\ x.who = socket[s].who
      /\ ~x.open /\ x.chat = socket[s].chat
  BY <1>1 DEF Connection
<1>3. socket' = [socket EXCEPT ![s] = x]
  BY DEF identifyFails, Before, Connections
<1> HIDE DEF x
<1>4. socket'[s] = x
  BY <1>3 DEF Before, Connections
<1>5. Placed(s)'
  <2>1. Rows' = Rows /\ owned' = owned
    BY <1>1 DEF Rows, tables, history
  <2> QED BY <1>1, <1>2, <1>4, <2>1 DEF Placed
<1> QED BY <1>1, <1>2, <1>3, <1>5, OneConnection

\* A closed socket has left its rooms.
LEMMA handleDisconnectStep ==
    ASSUME Before, NEW s \in Sockets, handleDisconnect(s)
    PROVE  After
<1>1. /\ socket[s] \in Connection /\ Placed(s) /\ socket[s].open
      /\ UNCHANGED <<tables, call, history>>
  BY DEF handleDisconnect, Before, Connections
<1>2. /\ socket' \in [Sockets -> Connection]
      /\ ~socket'[s].open /\ socket'[s].at = socket[s].at
      /\ socket'[s].who = socket[s].who /\ socket'[s].chat = socket[s].chat
      /\ \A t \in Sockets \ {s} : socket'[t] = socket[t]
  BY <1>1 DEF handleDisconnect, Before, Connections, Connection
<1>3. /\ room' \in [Chats -> SUBSET Sockets]
      /\ \A k \in Chats : room'[k] = room[k] \ {s}
      /\ online' \subseteq Chats
  BY DEF handleDisconnect, Left, Before, Connections
<1>4. Rows' = Rows /\ owned' = owned /\ Rows \subseteq Chats
  BY <1>1 DEF Rows, tables, history
<1>5. ConnectionsForward
  BY <1>2, <1>3 DEF ConnectionsForward
<1>6. \A t \in Sockets : Placed(t)'
  <2>1. \A t \in Sockets : Placed(t)
    BY DEF Before, Connections
  <2> QED BY <1>2, <1>3, <1>4, <2>1 DEF Placed
<1>7. Rooms'
  BY <1>2, <1>3, <1>4 DEF Before, Connections, Rooms
<1> QED BY <1>1, <1>2, <1>3, <1>5, <1>6, <1>7, ConnectionsMove DEF Connections

LEMMA CrashStep ==
    ASSUME Before, Crash
    PROVE  After
<1>1. Tables' /\ TablesForward
  BY TablesStay DEF Before, Crash
<1>2. /\ socket' \in [Sockets -> Connection]
      /\ \A s \in Sockets :
            /\ socket[s].at = "new" => socket'[s] = socket[s]
            /\ socket[s].at # "new" =>
                  /\ socket'[s].at = "ready" /\ ~socket'[s].open
                  /\ socket'[s].who = socket[s].who
                  /\ socket'[s].chat = socket[s].chat
  <2>1. \A s \in Sockets : socket[s] \in Connection
    BY DEF Before, Connections
  <2> QED BY <2>1 DEF Crash, Connection
<1>3. Rows' = Rows /\ owned' = owned
  BY DEF Crash, Rows, tables, history
<1>4. \A s \in Sockets : Placed(s)'
  <2>1. \A s \in Sockets : Placed(s)
    BY DEF Before, Connections
  <2>2. ASSUME NEW s \in Sockets, socket[s].at = "new" PROVE Placed(s)'
    BY <1>2, <1>3, <2>1, <2>2 DEF Placed
  <2>3. ASSUME NEW s \in Sockets, socket[s].at # "new" PROVE Placed(s)'
    BY <1>2, <1>3, <2>1, <2>3 DEF Placed
  <2> QED BY <2>2, <2>3
<1>5. Connections'
  BY <1>2, <1>4 DEF Crash, Connections, Rooms
<1>6. Handlers'
  <2>1. call' = [c \in Calls |-> Idle]
    BY DEF Crash
  <2> QED BY <2>1, IdleSound DEF Handlers, Sound
<1> QED BY <1>1, <1>5, <1>6 DEF After

LEMMA InitSound == Init => SupportInv
<1> SUFFICES ASSUME Init PROVE Tables /\ Connections /\ Handlers
  BY Parts
<1>1. Tables
  BY NoRowIsRow DEF Init, Tables, NoRow, Message, NoMessage, OneThread,
     OwnersKnown, Private, Rows, Written
<1>2. Connections
  BY DEF Init, Connections, Connection, Unconnected, Placed, Rooms
<1>3. Handlers
  BY IdleSound DEF Init, Handlers, Sound
<1> QED BY <1>1, <1>2, <1>3

LEMMA Step == SupportInv /\ [Next]_vars => SupportInv'
<1> SUFFICES ASSUME SupportInv, [Next]_vars PROVE SupportInv'
  OBVIOUS
<1>1. Before
  BY Parts DEF Before
<1>2. After => SupportInv'
  BY Parts, PTL DEF After
<1>3. CASE UNCHANGED vars
  <2>1. UNCHANGED <<tables, gateway, history, call>>
    BY <1>3 DEF vars
  <2>2. Tables' /\ TablesForward
    BY <1>1, <2>1, TablesStay DEF Before
  <2>3. Connections' /\ ConnectionsForward
    BY <1>1, <2>1, <2>2, ConnectionsStay DEF Before
  <2> QED BY <1>1, <1>2, <2>1, <2>2, <2>3, ConnectionsMove
<1>4. ASSUME NEW c \in Calls, Handle(c) PROVE After
  BY <1>1, <1>4, acceptStep, findChatStep, insertStep, findAgainStep,
     startChatStep, getChatByIdStep, writeStep, saveStep, emitStep,
     getMessagesStep, markReadStep, copyGuestChatStep, findOwnChatStep,
     handOverStep DEF Handle
<1>5. ASSUME NEW c \in Calls, Ask(c) \/ DatabaseFails(c) PROVE After
  BY <1>1, <1>5, AskStep, DatabaseFailsStep
<1>6. ASSUME NEW s \in Sockets,
             \/ \E who \in People : handleConnection(s, who)
             \/ Identify(s) \/ identifyFails(s) \/ handleDisconnect(s)
      PROVE  After
  BY <1>1, <1>6, handleConnectionStep, joinOwnChatStep, enterChatStep,
     identifyFailsStep, handleDisconnectStep DEF Identify
<1>7. CASE Next
  BY <1>1, <1>2, <1>4, <1>5, <1>6, <1>7, CrashStep DEF Next
<1> QED BY <1>3, <1>7

\* Whatever people do at once, whatever fails, and however many connections and
\* crashes there are: the whole invariant holds.
THEOREM SupportInvariant == Spec => []SupportInv
BY InitSound, Step, PTL DEF Spec

\* SupportGateway and SupportService keep their types; a handler that goes on
\* has the chat, the customer and the message it needs.
THEOREM TypeCorrect == Spec => []TypeOK
<1>1. SupportInv => TypeOK
  BY DEF SupportInv
<1> QED BY <1>1, SupportInvariant, PTL

\* enterChat(), addMessage(), getMyChat() and claimGuestChat(): nobody is shown
\* messages of a thread that has never been theirs, or writes into one.
THEOREM ConversationsStayPrivate == Spec => []Private
<1>1. SupportInv => Private
  BY DEF SupportInv
<1> QED BY <1>1, SupportInvariant, PTL

\* startChat() before addMessage(): who writes is in the room, or has left.
THEOREM SendersHear == Spec => []SenderIsInRoom
<1>1. SupportInv => SenderIsInRoom
  BY DEF SupportInv
<1> QED BY <1>1, SupportInvariant, PTL

=============================================================================
