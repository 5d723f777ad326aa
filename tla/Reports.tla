-------------------------------- MODULE Reports --------------------------------
(* What staff are told of orders: the figures of a customer                 *)
(* (admin-customers.service.ts) and of the shop (admin-analytics.service.ts)*)
(* over the same rows, each worked out by a query or a loop of its own.     *)
(* Instants are whole numbers, counted from the midnight (UTC) of a Monday, *)
(* days the numbers of those that end at midnight, and amounts whole        *)
(* numbers. Ranges go from midnight to midnight of the clock of the server; *)
(* charts name days by UTC. The two clocks are always as far apart.         *)
EXTENDS Requests, FiniteSetsExt, Functions

CONSTANTS
  Sales,      \* orders
  Buyers,     \* customers
  Goods,      \* products
  Now,        \* an instant
  DayLength,  \* in the unit of instants: a day
  Offset,     \* of the server's clock from UTC
  TopSize     \* how many a list of the most used or sold is cut to: 10

ASSUME ReportAssumption ==
  /\ IsFiniteSet(Sales) /\ IsFiniteSet(Buyers) /\ Now \in Int /\ Offset \in Int
  /\ DayLength \in Nat \ {0} /\ TopSize \in Nat

VARIABLES
  sale,   \* order -> [user, time, status, type, total, code or Null, discount, lines]
  usage,  \* the orders with a CouponUsage row
  year    \* the days that a year begins on

reportVars == <<sale, usage, year>>

SaleStatus == {"PENDING", "CONFIRMED", "PREPARING", "READY", "OUT_FOR_DELIVERY",
               "COMPLETED", "CANCELLED"}
SaleType == {"DELIVERY", "PICKUP"}

UtcDay(t) == t \div DayLength
LocalDay(t) == (t + Offset) \div DayLength
ThisDay == LocalDay(Now)

\* Any orders of the customers, whose numbers have their columns' types, in
\* years that reach back beyond the days that are looked at. An order gets a
\* usage row with it if it has a code that takes something off.
ReportsTypeOK ==
  /\ \A o \in Sales :
       /\ sale[o].user \in Buyers /\ sale[o].time \in Int /\ sale[o].total \in Int
       /\ sale[o].status \in SaleStatus /\ sale[o].type \in SaleType /\ sale[o].discount \in Nat
  /\ usage = {o \in Sales : sale[o].code # Null /\ sale[o].discount > 0}
  /\ year \subseteq Int /\ \E y \in year : y < ThisDay - 60

\* The queries only read; the orders go on as they may.
ReportsSpec == ReportsTypeOK /\ [][ReportsTypeOK']_reportVars

\* Faulty: orders on their way left out of those in progress.
InProgressAtHome == {"PENDING", "CONFIRMED", "PREPARING", "READY"}

InProgress == {"PENDING", "CONFIRMED", "PREPARING", "READY", "OUT_FOR_DELIVERY"}

Total(os) == SumFunction([o \in os |-> sale[o].total])
Having(os, statuses) == {o \in os : sale[o].status \in statuses}
SoldUnits(p, os) == SumFunction([o \in os |-> sale[o].lines[p]])
Kept(os) == Having(os, SaleStatus \ {"CANCELLED"})
Completed(os) == Having(os, {"COMPLETED"})
Of(u) == {o \in Sales : sale[o].user = u}
LastOrderAt(os) == IF os = {} THEN Null ELSE Max({sale[o].time : o \in os})
\* An average is kept as what is divided by what.
Average(os) == IF os = {} THEN <<0, 1>> ELSE <<Total(os), Cardinality(os)>>

\* The orders of some days of the server's clock.
On(os, days) == {o \in os : LocalDay(sale[o].time) \in days}
\* The UTC days of some orders, and those of one of these days.
UtcDays(os) == {UtcDay(sale[o].time) : o \in os}
OnUtc(os, d) == {o \in os : UtcDay(sale[o].time) = d}

\* The greatest of some numbers, as many as a list shows: sorted and sliced.
IsTop(S, f, n) == Cardinality(S) = n /\ \A x \in S, y \in DOMAIN f \ S : f[x] >= f[y]
Top(f) ==
  IF Cardinality(DOMAIN f) <= TopSize THEN f
  ELSE Restrict(f, CHOOSE S \in SUBSET DOMAIN f : IsTop(S, f, TopSize))

-----------------------------------------------------------------------------
(* A customer: in the list, by himself, in short and in charts. *)
CouponUsages(u) == {o \in usage : sale[o].user = u}

ListRow(u) ==
  [orders |-> Cardinality(Of(u)), spend |-> Total(Kept(Of(u))), last |-> LastOrderAt(Kept(Of(u)))]

Customer(u) ==
  [orders |-> Cardinality(Of(u)), spend |-> Total(Kept(Of(u))), last |-> LastOrderAt(Kept(Of(u))),
   coupons |-> Cardinality(CouponUsages(u))]

Summary(u) ==
  LET byStatus == [s \in SaleStatus |-> Cardinality(Having(Of(u), {s}))] IN
  [orders |-> SumFunction(byStatus),
   completed |-> byStatus["COMPLETED"], cancelled |-> byStatus["CANCELLED"],
   inProgress |-> SumFunctionOnSet(byStatus, InProgress),
   spend |-> Total(Kept(Of(u))), last |-> LastOrderAt(Kept(Of(u))),
   coupons |-> Cardinality(CouponUsages(u)),
   average |-> IF Completed(Of(u)) # {} THEN Average(Completed(Of(u))) ELSE Average(Kept(Of(u)))]

\* Two windows of thirty days, the last of them ending today, the other at the
\* last instant before it.
Window(n) ==
  LET first == ThisDay - 29
      previousTo == first - 1 IN
  IF n = 1 THEN first..ThisDay ELSE (previousTo - 29)..previousTo

WithCode(os) == {o \in os : sale[o].code # Null}
CodesOf(os) == {sale[o].code : o \in WithCode(os)}

Charts(u) ==
  LET all == Of(u)
      bought == {p \in Goods : \E o \in Kept(all) : sale[o].lines[p] > 0}
      period(n) == [orders |-> Cardinality(On(all, Window(n))), spend |-> Total(Kept(On(all, Window(n)))),
                    average |-> Average(Completed(On(all, Window(n))))] IN
  [spend |-> [d \in UtcDays(Kept(all)) |-> Total(OnUtc(Kept(all), d))],
   orders |-> [d \in UtcDays(all) |-> Cardinality(OnUtc(all, d))],
   types |-> [t \in SaleType |-> Cardinality({o \in all : sale[o].type = t})],
   goods |-> Top([p \in bought |-> SoldUnits(p, Kept(all))]),
   coupons |-> Top([c \in CodesOf(all) |-> Cardinality({o \in WithCode(all) : sale[o].code = c})]),
   cancelled |-> <<Cardinality(Having(all, {"CANCELLED"})), Cardinality(all)>>,
   average |-> Average(Completed(all)), last30 |-> period(1), previous30 |-> period(2)]

-----------------------------------------------------------------------------
(* The shop, over a range of days. Revenue is of completed orders only. *)
CompletedSales(days) ==
  LET os == Completed(On(Sales, days)) IN
  [total |-> Total(os), average |-> Average(os), count |-> Cardinality(os)]

Overview(days) ==
  [byStatus |-> [s \in SaleStatus |-> Cardinality(Having(Sales, {s}))],
   totalOrders |-> Cardinality(Sales), ordersToday |-> Cardinality(On(Sales, {ThisDay})),
   sales |-> CompletedSales(days), today |-> CompletedSales({ThisDay}),
   week |-> CompletedSales((ThisDay - 6)..ThisDay)]

\* The first and the last UTC day of a range may have only some of their hours
\* in it.
DailySeries(days) ==
  LET os == On(Sales, days) IN
  [d \in UtcDays(os) |->
    [orders |-> Cardinality(OnUtc(os, d)), sales |-> Total(Completed(OnUtc(os, d)))]]

ByFulfilment(days) ==
  [t \in SaleType |->
    LET os == {o \in Completed(On(Sales, days)) : sale[o].type = t} IN
    [count |-> Cardinality(os), revenue |-> Total(os)]]

TopProducts(days) ==
  LET os == Completed(On(Sales, days)) IN
  Top([p \in {p \in Goods : \E o \in os : sale[o].lines[p] > 0} |-> SoldUnits(p, os)])

CancellationRate(days) ==
  <<Cardinality(Having(On(Sales, days), {"CANCELLED"})), Cardinality(On(Sales, days))>>

YearOf(d) == Max({y \in year : y <= d})

\* Faulty: Sundays as day 0 of the week.
IsoWeekKeySunday(d) ==
  LET thursday == d + 4 - ((d + 1) % 7) IN
  <<YearOf(thursday), (thursday - YearOf(thursday) + 1 + 6) \div 7>>

\* isoWeekKey: the year of the Thursday of the day's week, and which of its
\* weeks. getUTCDay is 0 on a Sunday, which counts as 7.
IsoWeekKey(d) ==
  LET utcDay == (d + 1) % 7
      thursday == d + 4 - (IF utcDay = 0 THEN 7 ELSE utcDay) IN
  <<YearOf(thursday), (thursday - YearOf(thursday) + 1 + 6) \div 7>>

\* bucketSeries: the days of a series with one key, added up.
BucketSeries(daily, key) ==
  [k \in {key[d] : d \in DOMAIN daily} |->
    LET days == {d \in DOMAIN daily : key[d] = k} IN
    [orders |-> SumFunction([d \in days |-> daily[d].orders]),
     sales |-> SumFunction([d \in days |-> daily[d].sales])]]

-----------------------------------------------------------------------------
(* Properties. *)

\* Every view of a customer tells the same orders and the same money, however
\* the orders of the customer stand; the codes in the charts, as long as none
\* was cut off, are the usages and the orders whose code took nothing off, and
\* never more than that; and the two periods that are compared are the last
\* sixty days, none of them in both.
CustomerFiguresAgree ==
  \A u \in Buyers :
    LET row == ListRow(u)
        short == Summary(u)
        charts == Charts(u)
        coded == Customer(u).coupons + Cardinality({o \in WithCode(Of(u)) : sale[o].discount = 0}) IN
    /\ row = [orders |-> Customer(u).orders, spend |-> Customer(u).spend, last |-> Customer(u).last]
    /\ row = [orders |-> short.orders, spend |-> short.spend, last |-> short.last]
    /\ short.orders = short.completed + short.cancelled + short.inProgress
    /\ row.orders = SumFunction(charts.orders) /\ row.spend = SumFunction(charts.spend)
    /\ row.orders = SumFunction(charts.types)
    /\ short.coupons = Customer(u).coupons /\ SumFunction(charts.coupons) <= coded
    /\ Cardinality(CodesOf(Of(u))) <= TopSize => SumFunction(charts.coupons) = coded
    /\ short.completed > 0 => short.average = charts.average
    /\ charts.last30.orders + charts.previous30.orders
         = Cardinality(On(Of(u), (ThisDay - 59)..ThisDay))

\* What the overview says of a range is what its charts add up to, by the
\* day, by the week and by the way of delivery, though a chart names days by
\* another clock than the one that the range is of; the orders of the shop are
\* those of its customers, in all and over the last thirty days; and a week is
\* seven days from a Monday, also where one year gives way to the next.
ShopFiguresAgree ==
  /\ \A days \in {(ThisDay - 6)..ThisDay, (ThisDay - 29)..ThisDay} :
       LET daily == DailySeries(days)
           weekly == BucketSeries(daily, [d \in DOMAIN daily |-> IsoWeekKey(d)])
           sales == Overview(days).sales
           week == [d \in days |-> IsoWeekKey(d)] IN
       /\ sales.total = SumFunction([d \in DOMAIN daily |-> daily[d].sales])
       /\ sales.total = SumFunction([k \in DOMAIN weekly |-> weekly[k].sales])
       /\ sales.total = SumFunction([t \in SaleType |-> ByFulfilment(days)[t].revenue])
       /\ sales.count = SumFunction([t \in SaleType |-> ByFulfilment(days)[t].count])
       /\ CancellationRate(days)[2] = SumFunction([d \in DOMAIN daily |-> daily[d].orders])
       /\ Overview(days).totalOrders = SumFunction(Overview(days).byStatus)
       /\ Overview(days).totalOrders = SumFunction([u \in Buyers |-> ListRow(u).orders])
       /\ \A d, e \in days : week[d] = week[e] <=> d \div 7 = e \div 7
  /\ CancellationRate((ThisDay - 29)..ThisDay)[2]
       = SumFunction([u \in Buyers |-> Charts(u).last30.orders])

FiguresAdd == CustomerFiguresAgree /\ ShopFiguresAgree
=============================================================================
