------------------------------ MODULE MCOrders ------------------------------
(***************************************************************************)
(* Instances of Orders small enough to be checked exhaustively.  A         *)
(* behaviour has one workload from beginning to end: what is asked for,    *)
(* for which paintings and orders, by whom, and by how many at once.       *)
(* Several small workloads in one run cover what one instance with         *)
(* everything in it would be too large for.                                *)
(***************************************************************************)
EXTENDS Orders, TLC

CONSTANTS
    r1, r2, r3, o1, o2, o3, alice, guest,
    Workloads,
    MaxAmount   \* no request starts to give a unit back, or to edit the amount,
                \* while the shelf holds as many (bound)

VARIABLE work

\* The shelf of a gallery of unique works.
OneOfEach == [p \in Paintings |-> 1]

Symmetry == Permutations(Requests) \cup Permutations(OrderIds)

\* Order ids that are given out, or that a checkout under way will be given.
Numbers ==
    {o \in OrderIds : order[o].status # "FREE" \/ \E r \in Requests : request[r].order = o}

\* What is asked for is in the workload.
Offered ==
    /\ \A r \in Requests :
          /\ request[r].op \in work.ops \cup {"none"}
          /\ request[r].op = "edit" => request[r].todo \subseteq work.paintings
          /\ request[r].op = "status" => request[r].entity.status \in work.statuses
    /\ Cardinality({r \in Requests : ~IsIdle(r)}) <= work.requests
    /\ Cardinality(Numbers) <= work.orders
    /\ \A c \in Buyers, p \in Paintings :
          cart[c][p] > 0 => c \in work.buyers /\ p \in work.paintings

Bounded ==
    \A r \in Requests, p \in Paintings :
        /\ IsIdle(r)
        /\ p \in request'[r].todo
        /\ request'[r].move # "take"
        => painting[p].amount < MaxAmount

MCInit == Init /\ work \in Workloads
MCNext == Next /\ UNCHANGED work /\ Offered' /\ Bounded
MCSpec == MCInit /\ [][MCNext]_<<vars, work>>
MCFairSpec == MCSpec /\ Fairness

\* Two orders of the same two works: locks, views and the shelf.
Selling ==
    [ops |-> {"checkout", "commission", "cancel", "remove"}, statuses |-> {},
     paintings |-> {1, 2}, buyers |-> {alice}, orders |-> 2, requests |-> 2]
Restoring ==
    [Selling EXCEPT !.ops = {"checkout", "cancel", "status"}, !.statuses = {"CONFIRMED"}]

\* One work, and everything that is done to its order and to itself.
Editing ==
    [ops |-> {"checkout", "status", "archive", "edit"},
     statuses |-> {"CANCELLED", "COMPLETED"},
     paintings |-> {1}, buyers |-> {alice}, orders |-> 1, requests |-> 2]
Paying ==
    [Editing EXCEPT !.ops = {"checkout", "cancel", "payment", "proof"}, !.buyers = {guest}]
Reviving ==
    [Editing EXCEPT !.ops = {"checkout", "cancel", "payment", "remove"}, !.requests = 3]

StockWork == {Selling, Restoring, Editing, Paying, Reviving}

\* What waits for locks: whole orders, in pairs, and edits.
Queueing == [Selling EXCEPT !.ops = {"checkout", "cancel", "remove"}]
Answering ==
    [Editing EXCEPT !.ops = {"checkout", "status", "proof", "edit"}, !.statuses = {"CANCELLED"}]

LockWork == {Queueing, Answering}

\* A third order finds on the shelf what the second one has taken.
Reselling == [Queueing EXCEPT !.ops = {"checkout", "cancel"}, !.buyers = Buyers, !.orders = 3]
ResaleWork == {Reselling}
=============================================================================
