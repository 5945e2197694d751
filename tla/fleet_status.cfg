\* Two listings overlap while vehicles start, stop and change their shipments.
SPECIFICATION ParkedSpec
CONSTANTS
    v1 = v1
    v2 = v2
    v3 = v3
    v4 = v4
    s1 = s1
    dr1 = dr1
    dr2 = dr2
    dr3 = dr3
    dr4 = dr4
    c1 = c1
    d1 = d1
    d2 = d2
    a1 = a1
    a2 = a2
    p1 = p1
    p2 = p2
    p3 = p3
    p4 = p4
    None = None
    Absent = Absent
    Vehicles = {v1, v2, v3, v4}
    Shipments = {s1}
    Drivers = {dr1, dr2, dr3, dr4}
    Customers = {c1}
    Devices = {d1, d2}
    Aliases = {a1, a2}
    Meant <- TwoAliases
    Plates = {p1, p2, p3, p4}
    Requests <- ListingRequests
    Edits = {e1}
    Listings = {l1, l2}
    FirstMotion <- OneParked
    FirstVehicles <- FourVehicles
    FirstShipments <- OneShipment
    FirstDrivers = {dr1, dr2, dr3, dr4}
    FirstCustomers = {c1}
INVARIANTS
    ListingSettles
PROPERTY
    StatusSettles
