---------------------------- MODULE MCCustomers ----------------------------
(***************************************************************************)
(* Two instances that share no state, in one run: the rows that likes,     *)
(* giveaways and removed accounts touch, and the letters about an order.   *)
(* `part' says which one a behaviour is about; the other stays where it    *)
(* began, for the product of the two would show nothing more.              *)
(***************************************************************************)
EXTENDS Community, TLC

CONSTANTS
    Statuses, Payments, Waybills, MaxOps

VARIABLES part, row, outbox, handler, been, excused, ops

News == INSTANCE OrderNews WITH request <- handler

ASSUME LettersAssumption == News!NewsAssumption

news == <<row, outbox, handler, been, excused, ops>>
all == <<part, vars, news>>

\* A shop with paintings to like, or with giveaways to enter.
MCInit ==
    /\ Init
    /\ News!Init
    /\ accounts = Users
    /\ \/ /\ part = "community"
          /\ \/ paintings = Paintings /\ giveaways = {}
             \/ paintings = {} /\ giveaways = Giveaways
       \/ /\ part = "news"
          /\ paintings = {}
          /\ giveaways = {}

CommunityStep ==
    /\ part = "community"
    /\ Next
    /\ UNCHANGED <<part, news>>

NewsStep ==
    /\ part = "news"
    /\ News!Next
    /\ UNCHANGED <<part, vars>>

MCSpec ==
    /\ MCInit
    /\ [][CommunityStep \/ NewsStep]_all
    /\ Fairness
    /\ \A r \in Requests :
           WF_all(part = "news" /\ News!Work(r) /\ UNCHANGED <<part, vars>>)

LettersAreTrue == News!LettersAreTrue
CustomerIsTold == News!CustomerIsTold
CancelIsConfirmed == News!CancelIsConfirmed
=============================================================================
