-------------------------------- MODULE Reports --------------------------------
(***************************************************************************)
(* The seven reports over shipments: src/reports.                           *)
(*                                                                         *)
(* Six of them are one call to the database and arithmetic on what it       *)
(* returns; shipments per customer are two calls, between which shipments   *)
(* and customers come and go.  Reports over time fill a Map of periods, by  *)
(* stepping a date from the start of the range to its end, and then add up. *)
(* Time is counted in ticks, in UTC; weeks and months begin where the       *)
(* constants say.                                                          *)
(***************************************************************************)
EXTENDS Integers, SequencesExt

CONSTANTS
    Shipments, Customers, Vehicles, \* ids in the tables; each vehicle has its driver (bounds)
    Rows,           \* what rows of Shipment may hold (a bound)
    Asks,           \* what clients may ask (a bound)
    Calls,          \* reports that may be computed together (a bound)
    PeriodLength,   \* ticks of a minute, an hour, a day and a week
    MonthStart,     \* the ticks at which the months start, in their order
    None            \* no row, NULL, undefined

Statuses      == {"PENDING", "IN_TRANSIT", "DELIVERED"}
Granularities == DOMAIN PeriodLength \cup {"monthly"}
SeriesTypes   == {"total-shipments", "total-distance-covered", "revenue-over-time"}
ReportTypes   == SeriesTypes \cup {"shipments-by-status", "vehicle-utilization",
                                   "customer-shipments", "driver-performance"}

(* Prices and distances are in tenths of what is shown of them.             *)
ShipmentRow == [createdAt : Nat, price : Nat \cup {None}, distance : Nat \cup {None},
                status : Statuses, customer : Customers, vehicle : Vehicles \cup {None}]

(* ReportRequestDto. *)
Ask == [type : ReportTypes, granularity : Granularities \cup {None}, start : Nat, end : Nat]

Months == 1..Len(MonthStart)

ASSUME ReportsAssumption ==
    /\ PeriodLength \in [{"minute", "hourly", "daily", "weekly"} -> Nat \ {0}]
    /\ MonthStart \in Seq(Nat) /\ MonthStart[1] = 0
    /\ \A m, n \in Months : m < n => MonthStart[m] < MonthStart[n]
    /\ Asks \subseteq Ask /\ Rows \subseteq ShipmentRow
    /\ IsFiniteSet(Shipments) /\ IsFiniteSet(Customers) /\ IsFiniteSet(Vehicles)
    /\ \A t \in {a.end : a \in Asks} \cup {w.createdAt : w \in Rows} :
          \E m \in Months : t < MonthStart[m]
    /\ None \notin ShipmentRow \cup Granularities \cup Customers \cup Vehicles

VARIABLES
    shipments, customers,   \* the tables
    nameless,               \* customers whose name is empty
    calls,                  \* customer-shipments reports between their two reads
    answer                  \* the report that has just been sent

vars == <<shipments, customers, nameless, calls, answer>>

-----------------------------------------------------------------------------
(* The calendar. *)

MonthOf(t) == CHOOSE m \in Months : m + 1 \in Months /\ t \in MonthStart[m]..MonthStart[m + 1] - 1

PeriodOf(t, granularity) ==
    IF granularity = "monthly" THEN MonthOf(t) ELSE t \div PeriodLength[granularity]

(* setMonth goes to the same day and time of the next month, and as many     *)
(* days past its end as it is too short.                                    *)
Increment(t, granularity) ==
    IF granularity = "monthly"
    THEN t + (MonthStart[MonthOf(t) + 1] - MonthStart[MonthOf(t)])
    ELSE t + PeriodLength[granularity]

(* Mutant of Zeros: the end itself is not a date of the range. *)
ZerosBeforeEnd(ask) ==
    LET zeros[t \in Nat] ==
            IF t >= ask.end THEN <<>>
            ELSE <<[period |-> PeriodOf(t, ask.granularity), value |-> 0]>>
                 \o zeros[Increment(t, ask.granularity)]
    IN  zeros[ask.start]

(* The Map of groupDataByGranularity: first a zero for every date visited. *)
Zeros(ask) ==
    LET zeros[t \in Nat] ==
            IF t > ask.end THEN <<>>
            ELSE <<[period |-> PeriodOf(t, ask.granularity), value |-> 0]>>
                 \o zeros[Increment(t, ask.granularity)]
    IN  zeros[ask.start]

(* Mutant of Add: a period the loop has not visited is passed over. *)
AddIfThere(points, item) ==
    [i \in DOMAIN points |->
        IF points[i].period = item.period THEN [points[i] EXCEPT !.value = @ + item.value]
                                          ELSE points[i]]

(* Then each value; a period the loop has not visited comes at the end.     *)
Add(points, item) ==
    IF \E i \in DOMAIN points : points[i].period = item.period
    THEN [i \in DOMAIN points |->
             IF points[i].period = item.period THEN [points[i] EXCEPT !.value = @ + item.value]
                                               ELSE points[i]]
    ELSE Append(points, item)

-----------------------------------------------------------------------------
(* What a report reads, and its arithmetic. *)

ShipmentIds == {s \in Shipments : shipments[s] # None}

InRange(ask) == {s \in ShipmentIds : shipments[s].createdAt \in ask.start..ask.end}

Count(S) == Cardinality(S)
Sum(values) == MapThenSumSet(LAMBDA s : values[s], DOMAIN values)

(* What a report over time adds up: one for each shipment, or the prices or    *)
(* distances that are not null.                                             *)
Ones(ask)      == [s \in InRange(ask) |-> 1]
Prices(ask)    == [s \in {x \in InRange(ask) : shipments[x].price # None} |-> shipments[s].price]
Distances(ask) == [s \in {x \in InRange(ask) : shipments[x].distance # None} |-> shipments[s].distance]

(* Math.round(value * 100) / 100; a number of shipments is left as it is.    *)
Shown(type, value) == IF type = "total-shipments" THEN value ELSE (value + 5) \div 10

(* Mutant of Percent: rounded down. *)
PercentFloor(n, total) == (100 * n) \div total

Percent(n, total) == (200 * n + total) \div (2 * total)

Tally == [value : Nat, percent : Nat \cup {None}, name : BOOLEAN]
Point == [period : Nat, value : Nat]

TypeOK ==
    /\ shipments \in [Shipments -> Rows \cup {None}]
    /\ customers \subseteq Customers /\ nameless \subseteq customers
    /\ \A s \in ShipmentIds : shipments[s].customer \in customers
    /\ \A c \in Calls : calls[c] # None =>
          /\ calls[c].ask \in Asks /\ calls[c].ask.type = "customer-shipments"
          /\ DOMAIN calls[c].groups \subseteq Customers
          /\ \A u \in DOMAIN calls[c].groups : calls[c].groups[u] \in Nat \ {0}
          /\ calls[c].gone \subseteq Customers
    /\ answer # None =>
          /\ answer.ask \in Asks
          /\ answer.total \in Nat
          /\ IF answer.ask.type \in SeriesTypes
             THEN \A i \in DOMAIN answer.points : answer.points[i] \in Point
             ELSE \A k \in DOMAIN answer.points : answer.points[k] \in Tally

Init ==
    /\ shipments = [s \in Shipments |-> None]
    /\ customers = {} /\ nameless = {}
    /\ calls = [c \in Calls |-> None]
    /\ answer = None

-----------------------------------------------------------------------------
(* The reports. *)

(* Per period; the rows come in no order the query names.                    *)
PerPeriod(ask, values) ==
    \E order \in SetToSeqs(DOMAIN values) :
        LET items  == [i \in DOMAIN order |->
                          [period |-> PeriodOf(shipments[order[i]].createdAt, ask.granularity),
                           value |-> values[order[i]]]]
            points == FoldLeft(Add, Zeros(ask), items)
        IN  answer' = [ask |-> ask, total |-> Shown(ask.type, Sum(values)), gone |-> {},
                       points |-> [i \in DOMAIN points |->
                           [points[i] EXCEPT !.value = Shown(ask.type, @)]]]

(* Without a granularity, one point, the start of the range.                *)
InOne(ask, values) ==
    LET total == Shown(ask.type, Sum(values)) IN
    answer' = [ask |-> ask, total |-> total, gone |-> {},
               points |-> <<[period |-> ask.start, value |-> total]>>]

OverTime(ask, values) == \/ ask.granularity # None /\ PerPeriod(ask, values)
                         \/ ask.granularity = None /\ InOne(ask, values)

TotalShipments(ask)  == ask.type = "total-shipments" /\ OverTime(ask, Ones(ask))
RevenueOverTime(ask) == ask.type = "revenue-over-time" /\ OverTime(ask, Prices(ask))
TotalDistance(ask)   == ask.type = "total-distance-covered" /\ OverTime(ask, Distances(ask))

Tallied(ask, points, gone) ==
    answer' = [ask |-> ask, points |-> points, gone |-> gone,
               total |-> Sum([k \in DOMAIN points |-> points[k].value])]

ShipmentsByStatus(ask) ==
    LET Of(status) == {s \in InRange(ask) : shipments[s].status = status} IN
    /\ ask.type = "shipments-by-status"
    /\ Tallied(ask, [status \in {st \in Statuses : Of(st) # {}} |->
                       [value |-> Count(Of(status)), name |-> TRUE,
                        percent |-> Percent(Count(Of(status)), Count(InRange(ask)))]], {})

VehicleUtilization(ask) ==
    /\ ask.type = "vehicle-utilization"
    /\ Tallied(ask, [v \in Vehicles |->
                       [value |-> Count({s \in InRange(ask) : shipments[s].vehicle = v}),
                        name |-> TRUE, percent |-> None]], {})

(* A driver has one vehicle, by which he goes here.                         *)
DriverPerformance(ask) ==
    LET Of(v)   == {s \in InRange(ask) : shipments[s].vehicle = v}
        Done(v) == {s \in Of(v) : shipments[s].status = "DELIVERED"} IN
    /\ ask.type = "driver-performance"
    /\ Tallied(ask, [v \in Vehicles |->
                       [value |-> Count(Done(v)), name |-> TRUE,
                        percent |-> IF Of(v) # {} THEN Percent(Count(Done(v)), Count(Of(v))) ELSE 0]],
                {})

(* ReportsService.generateReport, for all but customer-shipments (computed    *)
(* here while no call waits: a bound, as they share nothing with it).        *)
GenerateReport(ask) ==
    /\ answer = None /\ \A c \in Calls : calls[c] = None
    /\ \/ TotalShipments(ask) \/ RevenueOverTime(ask) \/ TotalDistance(ask)
       \/ ShipmentsByStatus(ask) \/ VehicleUtilization(ask) \/ DriverPerformance(ask)
    /\ UNCHANGED <<shipments, customers, nameless, calls>>

(* groupBy. *)
GroupByCustomer(c, ask) ==
    /\ answer = None /\ calls[c] = None
    /\ ask.type = "customer-shipments"
    /\ LET Of(u) == {s \in InRange(ask) : shipments[s].customer = u}
       IN  calls' = [calls EXCEPT ![c] =
               [ask |-> ask, gone |-> {},
                groups |-> [u \in {x \in Customers : Of(x) # {}} |-> Count(Of(u))]]]
    /\ UNCHANGED <<shipments, customers, nameless, answer>>

(* findMany of the customers in the groups; one that is not found, or whose   *)
(* name is empty, is called 'Unknown Customer' (customer?.name || ...).       *)
NameCustomers(c) ==
    LET r == calls[c] IN
    /\ answer = None /\ r # None
    /\ Tallied(r.ask, [u \in DOMAIN r.groups |->
                          [value |-> r.groups[u], percent |-> None, name |-> u \in customers \ nameless]],
               r.gone)
    /\ calls' = [calls EXCEPT ![c] = None]
    /\ UNCHANGED <<shipments, customers, nameless>>

(* A call fails: the request ends with an error. *)
ReportFails(c) ==
    /\ answer = None /\ calls[c] # None
    /\ calls' = [calls EXCEPT ![c] = None]
    /\ UNCHANGED <<shipments, customers, nameless, answer>>

-----------------------------------------------------------------------------
(* The other requests that change what reports read. *)

(* Mutant of WriteShipment: no foreign key to the customer. *)
WriteShipmentUnchecked(s, row) ==
    /\ answer = None
    /\ shipments[s] # None => shipments[s].createdAt = row.createdAt
    /\ shipments' = [shipments EXCEPT ![s] = row]
    /\ UNCHANGED <<customers, nameless, calls, answer>>

(* A shipment is created, or changed: all but its date may be.              *)
WriteShipment(s, row) ==
    /\ answer = None
    /\ row.customer \in customers
    /\ shipments[s] # None => shipments[s].createdAt = row.createdAt
    /\ shipments' = [shipments EXCEPT ![s] = row]
    /\ UNCHANGED <<customers, nameless, calls, answer>>

DeleteShipment(s) ==
    /\ answer = None
    /\ shipments[s] # None
    /\ shipments' = [shipments EXCEPT ![s] = None]
    /\ UNCHANGED <<customers, nameless, calls, answer>>

(* By itself or with a shipment, whose name for the customer nobody asks not   *)
(* to be empty.  An id that an update has given may be drawn again.           *)
CreateCustomer(u) ==
    /\ answer = None
    /\ u \notin customers
    /\ customers' = customers \cup {u}
    /\ nameless' \in {nameless, nameless \cup {u}}
    /\ UNCHANGED <<shipments, calls, answer>>

(* What goes from the table is gone for the reports between their two reads.   *)
Gone(u) == calls' = [c \in Calls |->
    IF calls[c] = None THEN None ELSE [calls[c] EXCEPT !.gone = @ \cup {u}]]

(* An update may name a customer, or empty his name. *)
RenameCustomer(u) ==
    /\ answer = None
    /\ u \in customers
    /\ nameless' = IF u \in nameless THEN nameless \ {u} ELSE nameless \cup {u}
    /\ UNCHANGED <<shipments, customers, calls, answer>>

(* Or give him another id, as the body is not reduced to the fields of its     *)
(* class; the foreign key takes his shipments along.                         *)
RenumberCustomer(u, v) ==
    /\ answer = None
    /\ u \in customers /\ v \notin customers
    /\ shipments' = [s \in Shipments |->
           IF s \in ShipmentIds /\ shipments[s].customer = u
           THEN [shipments[s] EXCEPT !.customer = v] ELSE shipments[s]]
    /\ \A s \in ShipmentIds : shipments'[s] \in Rows    \* a bound
    /\ customers' = (customers \ {u}) \cup {v}
    /\ nameless' = IF u \in nameless THEN (nameless \ {u}) \cup {v} ELSE nameless
    /\ Gone(u)
    /\ UNCHANGED answer

(* Mutant of DeleteCustomer: the customer goes, and his shipments stay. *)
DeleteCustomerAnyway(u) ==
    /\ answer = None
    /\ u \in customers
    /\ customers' = customers \ {u} /\ nameless' = nameless \ {u}
    /\ Gone(u)
    /\ UNCHANGED <<shipments, answer>>

(* The foreign key keeps a customer who has shipments. *)
DeleteCustomer(u) ==
    /\ answer = None
    /\ u \in customers
    /\ \A s \in ShipmentIds : shipments[s].customer # u
    /\ customers' = customers \ {u} /\ nameless' = nameless \ {u}
    /\ Gone(u)
    /\ UNCHANGED <<shipments, answer>>

(* The client takes the answer, which is looked at before anything else.     *)
Receive ==
    /\ answer # None
    /\ answer' = None
    /\ UNCHANGED <<shipments, customers, nameless, calls>>

Next ==
    \/ \E ask \in Asks : GenerateReport(ask) \/ \E c \in Calls : GroupByCustomer(c, ask)
    \/ \E c \in Calls : NameCustomers(c) \/ ReportFails(c)
    \/ \E s \in Shipments : DeleteShipment(s) \/ \E row \in Rows : WriteShipment(s, row)
    \/ \E u \in Customers : CreateCustomer(u) \/ RenameCustomer(u) \/ DeleteCustomer(u)
    \/ \E u, v \in Customers : RenumberCustomer(u, v)
    \/ Receive

Spec == Init /\ [][Next]_vars

-----------------------------------------------------------------------------
(* Properties of the answers. *)

OverTimeAnswer == answer # None /\ answer.ask.type \in SeriesTypes /\ answer.ask.granularity # None

(* The bounds of a period, by the calendar alone. *)
From(p, granularity) ==
    IF granularity = "monthly" THEN MonthStart[p] ELSE p * PeriodLength[granularity]
Within(t, p, granularity) == From(p, granularity) <= t /\ t < From(p + 1, granularity)

(* Periods that the range touches. *)
Touched(ask) == PeriodOf(ask.start, ask.granularity)..PeriodOf(ask.end, ask.granularity)

Values(ask) == CASE ask.type = "total-shipments" -> Ones(ask)
                 [] ask.type = "revenue-over-time" -> Prices(ask)
                 [] ask.type = "total-distance-covered" -> Distances(ask)

ValueAt(p) ==
    Sum([i \in {j \in DOMAIN answer.points : answer.points[j].period = p} |->
            answer.points[i].value])

(* A report over time says of every period what happened in it, and says it  *)
(* once: no shipment is lost because its period was not among those the loop *)
(* laid out, and none is counted under two (groupDataByGranularity).         *)
SeriesExact ==
    OverTimeAnswer =>
        LET ask    == answer.ask
            values == Values(ask)
            In(p)  == {s \in DOMAIN values : Within(shipments[s].createdAt, p, ask.granularity)} IN
        /\ \A i, j \in DOMAIN answer.points :
              answer.points[i].period = answer.points[j].period => i = j
        /\ \A i \in DOMAIN answer.points : answer.points[i].period \in Touched(ask)
        /\ \A p \in Touched(ask) :
              ValueAt(p) = Shown(ask.type, Sum([s \in In(p) |-> values[s]]))

(* The start's day is one that every month of the range has. *)
EveryMonthHasItsDay(ask) ==
    ask.granularity = "monthly" =>
        \A m \in Touched(ask) :
            ask.start - MonthStart[MonthOf(ask.start)] < MonthStart[m + 1] - MonthStart[m]

Offset(t, granularity) == t - From(PeriodOf(t, granularity), granularity)

(* A quiet period is shown as a zero, and periods stand in their order: the  *)
(* chart has no hole.  Two exceptions, both of the code's stepping a date:   *)
(* the last period, when the range ends earlier in it than it starts in its  *)
(* first; and months, when some are too short for the day of the start.      *)
NoGaps ==
    OverTimeAnswer /\ EveryMonthHasItsDay(answer.ask) /\ answer.ask.start <= answer.ask.end =>
        LET ask   == answer.ask
            first == PeriodOf(ask.start, ask.granularity)
            last  == PeriodOf(ask.end, ask.granularity)
            n     == Len(answer.points) IN
        /\ \A i \in 1..n : answer.points[i].period = first + i - 1
        /\ \/ n = last - first + 1
           \/ /\ n = last - first
              /\ Offset(ask.start, ask.granularity) > Offset(ask.end, ask.granularity)

Distance(a, b) == IF a < b THEN b - a ELSE a - b

(* The parts of an answer and its total, which the code adds up separately,  *)
(* agree: up to half a unit of rounding at each point of a chart, half a     *)
(* percent at each share, and exactly where shipments are counted.           *)
TotalsAgree ==
    answer # None =>
        LET ask    == answer.ask
            points == answer.points
            sum    == Sum([k \in DOMAIN points |-> points[k].value]) IN
        CASE ask.type = "total-shipments" -> sum = answer.total
          [] ask.type \in SeriesTypes \ {"total-shipments"} ->
                2 * Distance(sum, answer.total) <= Cardinality(DOMAIN points) + 1
          [] ask.type = "shipments-by-status" ->
                /\ answer.total = Count(InRange(ask))
                /\ \A k \in DOMAIN points :
                      2 * Distance(100 * points[k].value, points[k].percent * answer.total)
                          <= answer.total
          [] ask.type = "vehicle-utilization" ->
                answer.total = Count({s \in InRange(ask) : shipments[s].vehicle # None})
          [] ask.type = "driver-performance" ->
                /\ answer.total <= Count({s \in InRange(ask) : shipments[s].vehicle # None})
                /\ \A k \in DOMAIN points : points[k].percent \in 0..100
          [] OTHER -> TRUE

(* A customer called 'Unknown Customer' has no name, or lost his id, by a     *)
(* deletion or an update, while the report was being computed: the two reads   *)
(* of customer-shipments lose no other name, though they are not one           *)
(* transaction (customer-shipments.handler.ts:17-49).                         *)
UnknownIsExplained ==
    answer # None /\ answer.ask.type = "customer-shipments" =>
        \A u \in DOMAIN answer.points :
            ~answer.points[u].name => u \in answer.gone \cup nameless
=============================================================================
