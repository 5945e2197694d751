\* Requests on the same rows overlap, with one listing that writes status.
SPECIFICATION Spec
CONSTANTS
    v1 = v1
    v2 = v2
    v3 = v3
    v4 = v4
    s1 = s1
    dr1 = dr1
    dr2 = dr2
    dr3 = dr3
    dr4 = dr4
    c1 = c1
    d1 = d1
    d2 = d2
    a1 = a1
    a2 = a2
    p1 = p1
    p2 = p2
    p3 = p3
    p4 = p4
    None = None
    Absent = Absent
    Vehicles = {v1, v2}
    Shipments = {s1}
    Drivers = {dr1, dr2}
    Customers = {c1}
    Devices = {d1}
    Aliases = {}
    Meant <- NoAlias
    Plates = {p1, p2}
    Requests <- RowRequests
    Edits = {e1, e2}
    Listings = {l1}
    FirstMotion <- NoMotion
    FirstVehicles <- OneVehicle
    FirstShipments <- NoShipment
    FirstDrivers = {dr1}
    FirstCustomers = {}
INVARIANTS
    TypeOK
PROPERTY
    NothingUndone
