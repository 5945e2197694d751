------------------------------- MODULE MCFleet -------------------------------
(* Instances of Fleet for TLC: what is in the tables at the start, and what   *)
(* clients may ask.                                                          *)
EXTENDS Fleet, TLC

CONSTANTS v1, v2, v3, v4, s1, dr1, dr2, dr3, dr4, c1, d1, d2, a1, a2, p1, p2, p3, p4

Ask(op, table, id) ==
    [op |-> op, table |-> table, id |-> id, plate |-> Absent, device |-> Absent,
     status |-> Absent, parent |-> Absent, newParent |-> FALSE, vehicle |-> Absent]

(* One vehicle on the road, and no shipment yet.                              *)
OneVehicle ==
    (v1 :> None) @@ (v2 :> [plate |-> p2, device |-> None, status |-> "STOPPED", driver |-> dr1])
NoMotion == [d \in {d1} |-> "none"]
NoAlias == [a \in {} |-> None]
NoShipment == [s \in {s1} |-> None]

(* Requests that compete for a device, a plate, a driver and a row, with and   *)
(* without a driver or customer of their own.                                *)
RowRequests == {
    [Ask("create", "vehicle", Absent) EXCEPT !.plate = p1, !.device = d1, !.status = "ACTIVE",
                                             !.parent = dr1],
    [Ask("update", "vehicle", v2) EXCEPT !.plate = p1],
    [Ask("update", "vehicle", v2) EXCEPT !.device = d1, !.parent = dr1, !.newParent = TRUE],
    [Ask("create", "shipment", Absent) EXCEPT !.vehicle = v2],
    [Ask("update", "shipment", s1) EXCEPT !.parent = c1],
    Ask("delete", "vehicle", v2), Ask("delete", "shipment", s1),
    Ask("delete", "driver", dr1), Ask("delete", "customer", c1)}

(* Two vehicles under way, each with a driver and a device; and two whose     *)
(* deviceId is '007', the number of the first device, and 'abc', no number.  *)
FourVehicles ==
    (v1 :> [plate |-> p1, device |-> d1, status |-> "INACTIVE", driver |-> dr1])
    @@ (v2 :> [plate |-> p2, device |-> d2, status |-> "INACTIVE", driver |-> dr2])
    @@ (v3 :> [plate |-> p3, device |-> a1, status |-> "ACTIVE", driver |-> dr3])
    @@ (v4 :> [plate |-> p4, device |-> a2, status |-> "ACTIVE", driver |-> dr4])
OneParked == (d1 :> "none") @@ (d2 :> "still")
TwoAliases == (a1 :> d1) @@ (a2 :> None)
OneShipment == [s \in {s1} |-> [customer |-> c1, vehicle |-> v1]]

(* The shipment goes from one vehicle to the other.                          *)
ListingRequests == {
    [Ask("update", "shipment", s1) EXCEPT !.vehicle = v2, !.parent = c1]}

(* The second device stays where it is: a bound. *)
ParkedSpec == Init /\ [][Next /\ motion'[d2] = motion[d2]]_vars
=============================================================================
