----------------------------- MODULE MCServices -----------------------------
(***************************************************************************)
(* Five services that share no state, in one run: the exchange rate, the   *)
(* catalogue's tables, the settings and the linked chats, a sign-in with   *)
(* what the guest had and the rate limit.  `part' says which one a         *)
(* behaviour is about; the others stay where they began, for their product *)
(* would show nothing more.  The catalogue is about one table at a time,   *)
(* or about paintings and series; the links are about the settings with    *)
(* the artist's chat, or about accounts and theirs.                        *)
(***************************************************************************)
EXTENDS ExchangeRate, FiniteSets, TLC

CONSTANTS
    r1, r2, n1, n2, x1, x2, u1, u2, c1, c2, p1,
    MaxId, Names, Texts, Requests, None,
    Users, Chats, Bot, MaxCodes,
    Ways, Paintings, MaxAmount, MaxSignIns,
    Sockets, SocketLimit, AddressLimit, WindowMs, Burst, MaxMoment

VARIABLES
    part,
    row, issuedIds, used, editing, racedRows,
    chatOf, codeOf, pending, settings, opted, live, issued, request, bound, raced,
    line, amount, claimed, token, way, merge, signIns, first, overlapped, broken,
    moment, sockets, address, allowed

catalogue == <<row, issuedIds, used, editing, racedRows>>
links == <<chatOf, codeOf, pending, settings, opted, live, issued, request, bound, raced>>
signIn == <<line, amount, claimed, token, way, merge, signIns, first, overlapped, broken>>
limits == <<moment, sockets, address, allowed>>
all == <<part, vars, catalogue, links, signIn, limits>>

Rows == INSTANCE Catalogue
    WITH issued <- issuedIds, request <- editing, raced <- racedRows
Chat == INSTANCE Links WITH Texts <- {x1}
Guest == INSTANCE SignIn
Limit == INSTANCE RateLimit WITH now <- moment, MaxTime <- MaxMoment

ASSUME ServicesAssumption ==
    /\ {n1, n2} \subseteq Names /\ x1 \in Texts
    /\ Rows!CatalogueAssumption
    /\ Chat!LinksAssumption
    /\ Guest!SignInAssumption
    /\ Limit!RateLimitAssumption

\* Whoever acts in a part - requests, pages that ask for the rate, ways to
\* sign in, sockets - is one of r1 and r2: few permutations to look at.
Symmetry == UNION {Permutations(s) : s \in {Requests, Users, Chats}}

\* Two works and two series, nothing hung yet.
Hung ==
    LET two == [i \in Rows!Ids |->
            CASE i = 1 -> [name |-> n1, text |-> x1, series |-> None]
              [] i = 2 -> [name |-> n2, text |-> x1, series |-> None]
              [] OTHER -> Rows!Absent]
    IN [Rows!NoRows EXCEPT !["painting"] = two, !["series"] = two]

\* What is not at work has no state.
MCInit ==
    /\ part \in Rows!Tables \cup {"rate", "settings", "accounts", "signIn", "limits"}
    /\ Init
    /\ \/ /\ part \in Rows!Tables
          /\ Rows!Init(IF part = "series" THEN Hung ELSE Rows!NoRows)
       \/ /\ part \notin Rows!Tables
          /\ row = None /\ issuedIds = None /\ used = None /\ editing = None
          /\ racedRows = None
    /\ \/ /\ part = "settings"
          /\ Chat!Init
       \/ /\ part = "accounts"
          /\ settings = Chat!Default
          /\ Chat!Init
       \/ /\ part \notin {"settings", "accounts"}
          /\ chatOf = None /\ codeOf = None /\ pending = None /\ settings = None
          /\ opted = None /\ live = None /\ issued = None /\ request = None
          /\ bound = None /\ raced = None
    /\ \/ /\ part = "signIn"
          /\ Guest!Init
       \/ /\ part # "signIn"
          /\ line = None /\ amount = None /\ claimed = None /\ token = None
          /\ way = None /\ merge = None /\ signIns = None /\ first = None
          /\ overlapped = None /\ broken = None
    /\ \/ /\ part = "limits"
          /\ Limit!Init
       \/ /\ part # "limits"
          /\ moment = None /\ sockets = None /\ address = None /\ allowed = None

RateStep ==
    /\ part = "rate"
    /\ Next
    /\ UNCHANGED <<part, catalogue, links, signIn, limits>>

\* Series and the works in them.
Hang(r) ==
    \/ \E i \in Rows!Ids, s \in Rows!Ids \cup {None} :
        Rows!update(r, "painting", i, {"series"}, [name |-> n1, text |-> x1, series |-> s])
    \/ \E t \in {"painting", "series"}, i \in Rows!Ids : Rows!remove(r, t, i)
    \/ \E s \in Rows!Ids, works \in SUBSET Rows!Ids : Rows!setPaintings(r, s, works)
    \/ Rows!Step(r)

\* One of the other tables, its requests writing a column each.
Edit(r) ==
    \/ \E name \in Names, series \in IF part = "painting" THEN {None, 1} ELSE {None} :
        Rows!create(r, part, [name |-> name, text |-> x1, series |-> series])
    \/ \E i \in 1 .. MaxId :
        \/ \E name \in Names :
            Rows!update(r, part, i, {"name"}, [name |-> name, text |-> x1, series |-> None])
        \/ \E text \in Texts :
            Rows!update(r, part, i, {"text"}, [name |-> n1, text |-> text, series |-> None])
    \/ \E i \in 1 .. MaxId : Rows!remove(r, part, i)
    \/ Rows!Step(r)

CatalogueStep ==
    /\ part \in Rows!Tables
    /\ \/ \E r \in Requests : (part = "series" /\ Hang(r)) \/ (part # "series" /\ Edit(r))
       \/ \E i \in 1 .. MaxId : part # "series" /\ Rows!Use(part, i)
       \/ Rows!Crash
    /\ UNCHANGED <<part, vars, links, signIn, limits>>

\* One form, one code of the artist's.
ArtistStep ==
    \/ \E r \in Requests :
        Chat!Asks(r) /\ \A other \in Requests : request[other].at = "idle"
    \/ opted = {} /\ \E c \in Chats : Chat!support(c)

AccountStep ==
    \/ \E c \in Chats : Chat!start(c)
    \/ \E u \in Users :
        \/ Chat!generateTelegramLinkCode(u)
        \/ Chat!resetTelegramLink(u)
        \/ \E code \in 1 .. MaxCodes, r \in Requests :
            Chat!redeemTelegramPendingCode(r, u, code)

LinksStep ==
    /\ part \in {"settings", "accounts"}
    /\ \/ part = "settings" /\ ArtistStep
       \/ part = "accounts" /\ AccountStep
       \/ \E r \in Requests \cup {Bot} : Chat!Step(r)
       \/ Chat!savePendingLink
       \/ Chat!bind
       \/ \E c \in Chats : Chat!relay(c) \/ \E code \in 1 .. MaxCodes : Chat!startWith(c, code)
       \/ \E code \in 1 .. MaxCodes : Chat!Expire(code)
       \/ Chat!Restart
    /\ part = "settings" => issued' <= 1
    /\ UNCHANGED <<part, vars, catalogue, signIn, limits>>

\* Nothing is said of what two merges at once leave.
SignInStep ==
    /\ part = "signIn"
    /\ ~overlapped
    /\ Guest!Next
    /\ UNCHANGED <<part, vars, catalogue, links, limits>>

LimitStep ==
    /\ part = "limits"
    /\ Limit!Next
    /\ UNCHANGED <<part, vars, catalogue, links, signIn>>

MCNext == RateStep \/ CatalogueStep \/ LinksStep \/ SignInStep \/ LimitStep

MCSpec == MCInit /\ [][MCNext]_all

EditsStay ==
    [][/\ part \in Rows!Tables => Rows!LeavesEdits
       /\ part \in {"settings", "accounts"} => Chat!LeavesSettings]_all
OneTimeCodes == part \in {"settings", "accounts"} => Chat!OneTimeCodes
CartFollows == part = "signIn" => Guest!CartFollows
FloodIsBounded == part = "limits" => Limit!FloodIsBounded
=============================================================================
