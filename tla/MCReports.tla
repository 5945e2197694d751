------------------------------- MODULE MCReports -------------------------------
(* A small calendar for Reports: hours of two ticks, days of three, weeks of  *)
(* six, and months of ten, four, ten and ten.                                *)
EXTENDS Reports, TLC

CONSTANTS u1, u2, v1

MCPeriodLength == [minute |-> 1, hourly |-> 2, daily |-> 3, weekly |-> 6]
MCMonthStart   == <<0, 10, 14, 24, 34>>

Row(t, price, distance, status, u, v) ==
    [createdAt |-> t, price |-> price, distance |-> distance, status |-> status,
     customer |-> u, vehicle |-> v]

(* Two rows of one date, so that an update can turn one into the other; two    *)
(* that differ in their customer, so that his id may change.                 *)
MCRows == {Row(8, 14, 7, "PENDING", u1, v1), Row(8, 14, 7, "DELIVERED", u2, v1),
           Row(12, 13, None, "DELIVERED", u1, None), Row(16, None, 18, "IN_TRANSIT", u2, v1),
           Row(16, None, 18, "IN_TRANSIT", u1, v1)}

OverTimeAsks(types, granularities, ranges) ==
    {[type |-> ty, granularity |-> g, start |-> r[1], end |-> r[2]] :
        ty \in types, g \in granularities, r \in ranges}

(* From the first day; from a day that the second month lacks; from late in a *)
(* period to early in another; and of a moment.                               *)
MCAsks ==
    OverTimeAsks({"revenue-over-time"}, Granularities, {<<0, 18>>, <<8, 16>>, <<5, 12>>, <<12, 12>>, <<9, 8>>})
    \cup OverTimeAsks({"total-shipments", "total-distance-covered"}, {"weekly", "monthly"}, {<<5, 18>>})
    \cup OverTimeAsks(ReportTypes, {None}, {<<0, 18>>})

Alike == Permutations(Shipments) \cup Permutations(Calls)
=============================================================================
