------------------------------ MODULE Analytics ------------------------------
(***************************************************************************)
(* The dashboard's numbers (AnalyticsService.overview): one answer put     *)
(* together from queries that are sent at once but answered one by one,    *)
(* outside a transaction, while the shop goes on; and days that are those  *)
(* of Kyiv, where the clock is put forward or back, over moments in UTC.   *)
(* The page groups the days by week or month (AdminAnalyticsPage).         *)
(* Accounts are counted as likes are, and techniques as series.            *)
(***************************************************************************)
EXTENDS Integers, FiniteSets, Functions

CONSTANTS
    DAY_MS,  \* the length of a day, in units of the clock's change
    Offsets, \* how far Kyiv is ahead of UTC before and after the change
    Change,  \* the moment of the change
    Periods, \* OVERVIEW_PERIODS, and how many days the page puts in one group
    Totals,  \* what an order may cost
    MaxRows, \* rows of all tables (bound)
    MaxNow   \* (bound)

AnalyticsAssumption ==
    /\ DAY_MS \in Nat \ {0} /\ Change \in Int
    /\ {Offsets[1], Offsets[2]} \subseteq Int
    /\ Totals \subseteq Nat
    /\ \A days \in DOMAIN Periods : {days, Periods[days]} \subseteq Nat \ {0}

VARIABLES
    now,   \* the moment, in UTC
    rows,  \* the rows of orders, likes and cart_items
    report \* the answer under way: its period, its moment, what it has read; the rows
           \* that changed since

vars == <<now, rows, report>>

\* Each query and the table it reads; the last three fill the activity grid.
TableOf ==
    [orders |-> "order", pipeline |-> "order", likes |-> "like", sales |-> "order",
     allLikes |-> "like", carts |-> "cart", placed |-> "order"]
Queries == DOMAIN TableOf

NoReport == [at |-> "none", days |-> 1, now |-> 0, read |-> [q \in Queries |-> {}],
             left |-> {}, moved |-> {}]

Init == now = 0 /\ rows = {} /\ report = NoReport

-----------------------------------------------------------------------------
(* The shop. *)

Moves(changed) ==
    /\ report' = [report EXCEPT !.moved = IF report.at = "none" THEN @ ELSE @ \cup changed]
    /\ UNCHANGED now

Id == Cardinality(rows) + 1

Insert(row) ==
    /\ Cardinality(rows) < MaxRows
    /\ rows' = rows \cup {row}
    /\ Moves({Id})

\* An order of one work.
Place(provider, series, total) ==
    Insert([id |-> Id, table |-> "order", at |-> now, status |-> "PENDING", paid |-> FALSE,
            provider |-> provider, series |-> series, total |-> total])

Add(table) ==
    Insert([id |-> Id, table |-> table, at |-> now, status |-> "none", paid |-> FALSE,
            provider |-> "none", series |-> "none", total |-> 0])

Becomes(row, next) ==
    /\ next # row
    /\ rows' = (rows \ {row}) \cup {next}
    /\ Moves({row.id})

Administer(row) ==
    /\ row.table = "order"
    /\ \/ \E status \in {"PENDING", "CANCELLED", "COMPLETED"} :
            Becomes(row, [row EXCEPT !.status = status])
       \/ Becomes(row, [row EXCEPT !.paid = ~@])

Tick ==
    /\ now < MaxNow
    /\ now' = now + 1
    /\ UNCHANGED <<rows, report>>

-----------------------------------------------------------------------------
(* The report. *)

from == report.now - report.days * DAY_MS
previousFrom == from - report.days * DAY_MS
inPeriod(row) == row.at >= from

\* Mutation of isEarned: money that came in for an order cancelled since.
PaidIsEarned(row) == row.paid \/ row.status = "COMPLETED"
isEarned(row) == row.status # "CANCELLED" /\ (row.paid \/ row.status = "COMPLETED")

overview(days) ==
    /\ report.at # "reading"
    /\ report' = [NoReport EXCEPT !.at = "reading", !.days = days, !.now = now, !.left = Queries]
    /\ UNCHANGED <<now, rows>>

\* The WHERE of each query.
Selects(q, row) ==
    /\ row.table = TableOf[q]
    /\ CASE q = "orders" -> row.at >= previousFrom
         [] q = "likes" -> row.at >= previousFrom
         [] q = "pipeline" -> row.status \notin {"CANCELLED", "COMPLETED"} /\ ~row.paid
         [] q \in {"sales", "placed"} -> inPeriod(row) /\ row.status # "CANCELLED"
         [] q \in {"allLikes", "carts"} -> inPeriod(row)

\* Queries that are answered with nothing in between.
Read(some) ==
    /\ report.at = "reading"
    /\ some \subseteq report.left
    /\ report' = [report EXCEPT !.left = @ \ some,
          !.read = [q \in Queries |-> IF q \in some THEN {row \in rows : Selects(q, row)} ELSE @[q]]]
    /\ UNCHANGED <<now, rows>>

Show ==
    /\ report.at = "reading"
    /\ report.left = {}
    /\ report' = [report EXCEPT !.at = "shown"]
    /\ UNCHANGED <<now, rows>>

Next ==
    \/ \E p \in {"CARD_TRANSFER", "CASH_ON_DELIVERY"}, s \in {"one", "none"}, t \in Totals :
        Place(p, s, t)
    \/ \E table \in {"like", "cart"} : Add(table)
    \/ \E row \in rows : Administer(row)
    \/ Tick \/ Show
    \/ \E days \in DOMAIN Periods : overview(days)
    \/ \E some \in SUBSET Queries : Read(some)

Spec == Init /\ [][Next]_vars

-----------------------------------------------------------------------------
(* The numbers. *)

AmountOf(set) == SumFunctionOnSet([row \in set |-> row.total], set)
SumOver(f) == SumFunctionOnSet(f, DOMAIN f)

current == {row \in report.read["orders"] : inPeriod(row)}
placed(set) == {row \in set : row.status # "CANCELLED"}
earned(set) == {row \in set : isEarned(row)}
revenueOf(set) == AmountOf(earned(set))

byStatus == [s \in {row.status : row \in current} |-> {row \in current : row.status = s}]
byProvider ==
    [p \in {row.provider : row \in placed(current)} |-> {row \in placed(current) : row.provider = p}]
\* Works without a series are a slice of their own.
slice == [s \in {row.series : row \in report.read["sales"]} |->
            {row \in report.read["sales"] : row.series = s}]

\* The day in Kyiv, and the hour.
Offset(t) == IF t < Change THEN Offsets[1] ELSE Offsets[2]
toDay(t) == (t + Offset(t)) \div DAY_MS
weekdayHour(t) == (t + Offset(t)) % (7 * DAY_MS)

activity ==
    LET seen == report.read["allLikes"] \cup report.read["carts"] \cup report.read["placed"]
    IN [hour \in {weekdayHour(row.at) : row \in seen} |->
            {row \in seen : weekdayHour(row.at) = hour}]

\* The days that have a point: one every DAY_MS up to now.
Days == {toDay(from + n * DAY_MS) : n \in 1 .. report.days}

daily == [d \in Days |-> {row \in current : toDay(row.at) = d}]

\* The page's groups: by so many days, counted back from the last.
bucket ==
    LET last == CHOOSE d \in Days : \A other \in Days : other <= d
        key(d) == (last - d) \div Periods[report.days]
    IN [k \in {key(d) : d \in Days} |-> UNION {daily[d] : d \in {x \in Days : key(x) = k}}]

-----------------------------------------------------------------------------
(* Properties. *)

Held(set) == {row \in set : row.id \notin report.moved}

\* Every order of the period is in one status; every placed one with one
\* provider and in one slice of what was sold, and either earned or in the
\* pipeline, never both; and the grid has each like, cart row and placed order
\* once.  (overview(), extras(), isEarned() and "a pending order is a promise,
\* counted separately as the pipeline", analytics.service.ts:44.)
PartsAddUp ==
    report.at = "shown" =>
        LET many(f) == SumOver([k \in DOMAIN f |-> Cardinality(Held(f[k]))])
            money(f) == SumOver([k \in DOMAIN f |-> revenueOf(Held(f[k]))])
            orders == Held(placed(current))
            pipeline == Held(report.read["pipeline"])
        IN /\ many(byStatus) = Cardinality(Held(current))
           /\ many(byProvider) = Cardinality(orders) /\ many(slice) = Cardinality(orders)
           /\ money(byProvider) = revenueOf(Held(current))
           /\ orders \subseteq earned(orders) \cup pipeline
           /\ earned(Held(current)) \cap pipeline = {}
           /\ many(activity) = Cardinality(orders) +
                Cardinality({row \in Held(rows) : row.table # "order" /\ inPeriod(row)})

\* Unless the clock changed, the points are the days after the first to this
\* one, and the page's groups hold what the headline counts but for the orders
\* of the rest of the first day, which have no point.
\* ("One point per calendar day in Kyiv, zero-filled", analytics.service.ts:234.)
DaysAddUp ==
    report.at = "shown" /\ Change \notin from + 1 .. report.now =>
        /\ Days = toDay(from) + 1 .. toDay(report.now)
        /\ SumOver([k \in DOMAIN bucket |-> revenueOf(Held(bucket[k]))]) =
              revenueOf({row \in Held(current) : toDay(row.at) # toDay(from)})

\* Over the rows that did not change since the report was asked for, its figures
\* agree, though its queries found them at several moments.
FiguresAgree == PartsAddUp /\ DaysAddUp

\* "a missing day is a zero day" (analytics.service.ts:235): every day has its
\* point also when the clock changed.
EveryDay == report.at = "shown" => toDay(from) + 1 .. toDay(report.now) \subseteq Days

\* What the headline counts is in the chart.
ChartIsComplete ==
    report.at = "shown" /\ report.moved = {} =>
        SumOver([d \in Days |-> revenueOf(daily[d])]) = revenueOf(current)
=============================================================================
