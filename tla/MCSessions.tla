----------------------------- MODULE MCSessions -----------------------------
(***************************************************************************)
(* Instances of Sessions small enough to be checked exhaustively.  A       *)
(* behaviour has one workload from beginning to end: what is asked for,    *)
(* with which passwords, how many tokens there are before nobody signs in  *)
(* or refreshes any more, and what else happens.  Requests are alike, and  *)
(* so are two passwords as long as one of them is nobody's: the second     *)
(* request is begun while the first is under way, and the account begins   *)
(* with the first password.                                                *)
(***************************************************************************)
EXTENDS Sessions, TLC

CONSTANTS tab1, laptop, r1, r2, p1, p2, Workloads

VARIABLE work

OneBrowser == [t \in Tabs |-> laptop]

\* What is asked for is in the workload.
Offered ==
    \A r \in Requests :
        /\ request[r].op \in work.ops \cup {None}
        /\ {request[r].given, request[r].new} \subseteq work.passwords \cup {None}
        /\ request[r].op = "register" => request[r].new # p2

Begins(r) ==
    /\ \E t \in Tabs : Visit(r, t)
    /\ r = r2 => ~At(r1, "idle")
    /\ request'[r].op \in WaysIn \cup Refreshes => issued < work.tokens

MCInit == Init /\ work \in Workloads /\ account.password # p2

MCNext ==
    /\ \/ \E r \in Requests : Begins(r) \/ Handle(r) \/ Answer(r)
       \/ "deactivate" \in work.events /\ Deactivate
       \/ "crash" \in work.events /\ Crash
       \/ /\ "expire" \in work.events
          /\ \/ \E t \in Tokens : Expire(t)
             \/ \E l \in Links : ExpireLink(l)
    /\ UNCHANGED work
    /\ Offered'

MCSpec == MCInit /\ [][MCNext]_<<vars, work>> /\ Fairness

\* One account's sessions, refreshed and ended.
Refreshing ==
    [ops |-> {"login", "boot", "renew", "logout", "endSession"}, passwords |-> {p1}, tokens |-> 3,
     events |-> {"crash", "deactivate"}]

\* Ways to end whatever an intruder has opened, beside sign-ins and refreshes.
Changing ==
    [ops |-> {"login", "renew", "forgot", "reset", "change"}, passwords |-> {p1, p2},
     tokens |-> 2, events |-> {}]
Resetting ==
    [Changing EXCEPT !.ops = {"login", "renew", "forgot", "reset"}, !.events = {"expire"}]
Vouching ==
    [Changing EXCEPT !.ops = {"register", "login", "boot", "renew", "google", "logoutAll"},
                     !.tokens = 3]

SessionWork == {Refreshing, Changing, Resetting, Vouching}
=============================================================================
