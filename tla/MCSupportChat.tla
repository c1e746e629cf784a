---------------------------- MODULE MCSupportChat ----------------------------
(***************************************************************************)
(* Instances of SupportChat small enough to be checked exhaustively.  A    *)
(* behaviour has one workload from beginning to end: what is asked for, by *)
(* whom, over how many sockets, with how many messages, and what goes      *)
(* wrong.  Calls are alike, and so are sockets that were never used: a     *)
(* second one is begun only while the first is in use.                     *)
(***************************************************************************)
EXTENDS SupportChat, TLC

CONSTANTS g1, g2, u1, s1, s2, c1, c2, Workloads

VARIABLE work

\* What is asked for is in the workload.
Offered ==
    /\ \A c \in Calls : call[c].op \in work.ops \cup {"none"}
    /\ {socket[s].who : s \in Sockets} \subseteq work.people \cup {None}
    /\ \A c \in Calls : call[c].op = "claim" => call[c].guest \in work.people
    /\ Cardinality({s \in Sockets : socket[s].at # "new"}) <= work.sockets
    /\ Spent <= work.started
    /\ Cardinality(Written) <= 2

MCInit == Init /\ work \in Workloads

MCNext ==
    /\ \/ \E c \in Calls : (Ask(c) /\ (c = c2 => ~At(c1, "idle"))) \/ Handle(c)
       \/ \E s \in Sockets :
           \/ \E who \in work.people :
                handleConnection(s, who) /\ (s = s2 => socket[s1].at # "new")
           \/ Identify(s)
           \/ "leave" \in work.ops /\ handleDisconnect(s)
       \/ /\ work.fails
          /\ \/ \E c \in Calls : DatabaseFails(c)
             \/ \E s \in Sockets : identifyFails(s)
             \/ Crash
    /\ UNCHANGED work
    /\ Offered'

MCSpec == MCInit /\ [][MCNext]_<<vars, work>> /\ Fairness

\* A guest, the artist and an account that may be the guest's: what is said and read;
\* what becomes of the guest's thread, and of a second one; and what fails.
Talking ==
    [ops |-> {"message", "join", "read", "leave"}, people |-> {g1, u1, Admin}, sockets |-> 2,
     started |-> 2, fails |-> FALSE]
Following == [Talking EXCEPT !.ops = {"message", "claim"}, !.started = 3]
Failing ==
    [Talking EXCEPT !.ops = {"message", "open", "claim", "leave"}, !.sockets = 1, !.fails = TRUE]

\* The threads of two guests, and one account to go to.
Moving ==
    [Talking EXCEPT !.ops = {"message", "claim", "leave"}, !.people = {g1, g2, u1}]

ChatWork == {Talking, Following, Failing, Moving}
=============================================================================
