----------------------------- MODULE StockLedger -----------------------------
(***************************************************************************)
(* What checkout, cancellation and restoration promise about stock, with   *)
(* no requests, locks or rows: an order takes all of its units from the    *)
(* shelf in one step, if they are there, and gives all of them back in one *)
(* step.  Nothing is promised of the paintings that are marred, and one    *)
(* that is not was never touched by what marred the others.  Orders        *)
(* implements it (Orders!LedgerSpec).                                      *)
(***************************************************************************)
EXTENDS Integers, FiniteSets, Functions

CONSTANTS
    Paintings,
    OrderIds,
    MaxQty,   \* largest quantity of one painting in one order
    Shelf     \* the amount each painting starts with

VARIABLES
    shelf,    \* units of each painting that are for sale
    held,     \* units of each painting taken by each order
    marred    \* the paintings whose units nobody answers for any more

ledger == <<shelf, held, marred>>

Units == [Paintings -> 0 .. MaxQty]
Nothing == [p \in Paintings |-> 0]

Init ==
    /\ shelf = Shelf
    /\ held = [o \in OrderIds |-> Nothing]
    /\ marred = {}

\* From now on order o holds these units, and the shelf has what is left.
Holds(o, units) ==
    /\ marred \subseteq marred'
    /\ \A p \in Paintings \ marred' :
          /\ shelf'[p] = shelf[p] + held[o][p] - units[p]
          /\ held'[o][p] = units[p]
          /\ \A other \in OrderIds \ {o} : held'[other][p] = held[other][p]

\* checkout, and takeStockBack: all the units, or none.
Take(o, units) ==
    /\ \A p \in Paintings \ marred' : held[o][p] = 0 /\ units[p] <= shelf[p]
    /\ Holds(o, units)

\* restoreStock: exactly the units the order held.
GiveBack(o) == Holds(o, Nothing)

\* No units are moved, but some painting may be marred.
Lapse ==
    /\ marred \subseteq marred'
    /\ \A p \in Paintings \ marred' :
          shelf'[p] = shelf[p] /\ \A o \in OrderIds : held'[o][p] = held[o][p]

Next ==
    \/ \E o \in OrderIds :
        \/ \E units \in Units : Take(o, units)
        \/ GiveBack(o)
    \/ Lapse

Spec == Init /\ [][Next]_ledger

-----------------------------------------------------------------------------

\* No unit is created or lost: the units on the shelf and in live orders are
\* those the gallery started with.  (Checkout clamps amount at 0, which would
\* hide an oversell from the shelf alone.)
Conservation ==
    \A p \in Paintings \ marred :
        shelf[p] + SumFunction([o \in OrderIds |-> held[o][p]]) = Shelf[p]

=============================================================================
