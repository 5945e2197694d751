-------------------------------- MODULE Fleet --------------------------------
(***************************************************************************)
(* Vehicles, drivers, shipments and customers of one organization:          *)
(* src/vehicles, src/drivers, src/shipments, src/customers, the part of     *)
(* src/positions they use, and the indexes and foreign keys of prisma/.     *)
(*                                                                         *)
(* A request is a sequence of calls to the database, each atomic, none of   *)
(* them in a common transaction.  GET /vehicles writes as well as reads: it *)
(* sets the status of every vehicle from positions and shipments it read    *)
(* before.  Any call may fail, with its effect or without.                  *)
(***************************************************************************)
EXTENDS FiniteSets

CONSTANTS
    Vehicles, Shipments, Drivers, Customers,    \* ids the tables may draw (bounds)
    Devices,            \* Traccar's devices, each also the deviceId that is its number in decimal
    Aliases, Meant,     \* other deviceIds, and the device each is the number of: '007', 'abc', ''
    Plates,
    Requests,           \* what clients may ask to be written (a bound)
    Edits, Listings,    \* requests that may be in flight together (bounds)
    FirstVehicles, FirstShipments, FirstDrivers, FirstCustomers, \* the tables at the start
    FirstMotion,        \* what Traccar has of its devices then
    None,               \* no row, NULL
    Absent              \* a field that a request does not have

Statuses == {"ACTIVE", "INACTIVE", "UNASSIGNED", "STOPPED"}
Motions  == {"none", "still", "moving"}     \* no position; speed 0; speed above 0

(* The deviceId of a vehicle is any string. *)
DeviceIds == Devices \cup Aliases

VehicleRow  == [plate : Plates, device : DeviceIds \cup {None}, status : Statuses,
                driver : Drivers]
ShipmentRow == [customer : Customers, vehicle : Vehicles \cup {None}]

(* The body of a POST or PUT, the id of a PUT or DELETE, as the DTOs let      *)
(* them through.  parent is the driverId or customerId, newParent says that  *)
(* a driver is described; the name of a customer is always there.           *)
VehicleDto(op, ids) ==
    [op : {op}, table : {"vehicle"}, id : ids, plate : Plates \cup {Absent},
     device : DeviceIds \cup {None, Absent}, status : Statuses \cup {Absent},
     parent : Drivers \cup {Absent}, newParent : BOOLEAN, vehicle : {Absent}]
CreateVehicleDto ==
    {r \in VehicleDto("create", {Absent}) : /\ Absent \notin {r.plate, r.status}
                                           /\ (r.parent # Absent \/ r.newParent)}
UpdateVehicleDto == VehicleDto("update", Vehicles)

ShipmentDto(op, ids) ==
    [op : {op}, table : {"shipment"}, id : ids, plate : {Absent}, device : {Absent},
     status : {Absent}, parent : Customers \cup {Absent}, newParent : {FALSE},
     vehicle : Vehicles \cup {Absent}]
CreateShipmentDto == ShipmentDto("create", {Absent})
UpdateShipmentDto == ShipmentDto("update", Shipments)

Deletion(table, ids) ==
    [op : {"delete"}, table : {table}, id : ids, plate : {Absent}, device : {Absent},
     status : {Absent}, parent : {Absent}, newParent : {FALSE}, vehicle : {Absent}]

Request ==
    UNION {CreateVehicleDto, UpdateVehicleDto, CreateShipmentDto, UpdateShipmentDto,
           Deletion("vehicle", Vehicles), Deletion("shipment", Shipments),
           Deletion("driver", Drivers), Deletion("customer", Customers)}

ASSUME FleetAssumption ==
    /\ Requests \subseteq Request
    /\ FirstVehicles \in [Vehicles -> VehicleRow \cup {None}]
    /\ FirstShipments \in [Shipments -> ShipmentRow \cup {None}]
    /\ FirstMotion \in [Devices -> Motions]
    /\ FirstDrivers \subseteq Drivers /\ FirstCustomers \subseteq Customers
    /\ Devices \cap Aliases = {} /\ Meant \in [Aliases -> Devices \cup {None}]
    /\ None \notin VehicleRow \cup ShipmentRow \cup DeviceIds \cup Vehicles \cup Drivers
                   \cup Customers
    /\ Absent \notin Vehicles \cup Shipments \cup Drivers \cup Customers \cup Plates
                     \cup DeviceIds \cup Statuses \cup {None}

VARIABLES
    vehicles, shipments, drivers, customers,    \* the tables
    motion,     \* external: what the latest position of a device in Traccar says
    edits,      \* POST, PUT and DELETE requests, each at an await
    listings,   \* VehiclesService.findAll calls, each at its awaits
    disturbed   \* history: listings during which somebody else changed what they read or wrote

tables == <<vehicles, shipments, drivers, customers>>
vars   == <<tables, motion, edits, listings, disturbed>>

-----------------------------------------------------------------------------
(* The tables. *)

Rows(table) == {i \in DOMAIN table : table[i] # None}

(* The unique indexes and the foreign key of Vehicle. *)
VehicleFits(v, row) ==
    /\ row.driver \in drivers
    /\ \A w \in Rows(vehicles) \ {v} :
          /\ vehicles[w].plate # row.plate
          /\ vehicles[w].driver # row.driver
          /\ vehicles[w].device # row.device \/ row.device = None

(* The foreign keys of Shipment. *)
ShipmentFits(row) ==
    /\ row.customer \in customers
    /\ row.vehicle \in Rows(vehicles) \cup {None}

Idle == [step |-> "idle"]

(* The call a request awaits: findById, findByPlateNumber, the creation of   *)
(* its driver or customer, or the write it is about.                        *)
Edit == [step : {"find", "plate", "parent", "write"}, ask : Requests,
         made : Drivers \cup Customers \cup {None}]

(* Number(deviceId), None for what is falsy: null, NaN and 0. *)
Number(id) == IF id \in Aliases THEN Meant[id] ELSE id

Numeric == {id \in DeviceIds : Number(id) # None}

(* findAll after it has read the vehicles: deviceIds it has still to ask     *)
(* Traccar about, devices it has a position of, those seen moving, vehicles  *)
(* seen with shipments, and the status updates it awaits.                   *)
Listing == [step : {"reads", "writes"}, fleet : [Vehicles -> DeviceIds \cup {None}],
            unread : SUBSET Numeric, positions : SUBSET Devices, moving : SUBSET Devices,
            shipmentsRead : BOOLEAN, laden : SUBSET Vehicles,
            pending : SUBSET Vehicles, failed : BOOLEAN]

TypeOK ==
    /\ vehicles \in [Vehicles -> VehicleRow \cup {None}]
    /\ shipments \in [Shipments -> ShipmentRow \cup {None}]
    /\ drivers \subseteq Drivers /\ customers \subseteq Customers
    /\ \A v \in Rows(vehicles) : VehicleFits(v, vehicles[v])
    /\ \A s \in Rows(shipments) : ShipmentFits(shipments[s])
    /\ motion \in [Devices -> Motions]
    /\ edits \in [Edits -> Edit \cup {Idle}]
    /\ listings \in [Listings -> Listing \cup {Idle}]
    /\ disturbed \subseteq Listings

(* The tables start with rows that their indexes and foreign keys allow.      *)
Init ==
    /\ vehicles = FirstVehicles /\ shipments = FirstShipments
    /\ drivers = FirstDrivers /\ customers = FirstCustomers
    /\ \A v \in Rows(vehicles) : VehicleFits(v, vehicles[v])
    /\ \A s \in Rows(shipments) : ShipmentFits(shipments[s])
    /\ motion = FirstMotion
    /\ edits = [e \in Edits |-> Idle]
    /\ listings = [l \in Listings |-> Idle]
    /\ disturbed = {}

Busy == {l \in Listings : listings[l].step # "idle"}

(* The step is not one of the listings in flight, but touches their matter. *)
Disturbs(others) == disturbed' = disturbed \cup (Busy \cap others)

-----------------------------------------------------------------------------
(* Requests that write. *)

At(e, step)  == edits[e].step = step
Asks(e, op, table) == At(e, "write") /\ edits[e].ask.op = op /\ edits[e].ask.table = table
GoOn(e, step) == edits' = [edits EXCEPT ![e].step = step]
End(e)       == edits' = [edits EXCEPT ![e] = Idle]

(* A create or update that describes its driver or customer, instead of      *)
(* naming it, creates one first.  Where both are there, create takes the     *)
(* driverId, update the description.                                        *)
NeedsParent(r) ==
    /\ r.op # "delete"
    /\ IF r.op = "update" /\ r.table = "vehicle" THEN r.newParent ELSE r.parent = Absent

AfterChecks(r) == IF NeedsParent(r) THEN "parent" ELSE "write"

(* VehiclesService.update and every delete look for their row first;         *)
(* ShipmentsService.update does not.                                        *)
FirstStep(r) ==
    IF r.op = "delete" \/ (r.op = "update" /\ r.table = "vehicle") THEN "find" ELSE AfterChecks(r)

Start(e, r) ==
    /\ At(e, "idle")
    /\ edits' = [edits EXCEPT ![e] = [step |-> FirstStep(r), ask |-> r, made |-> None]]
    /\ UNCHANGED <<tables, motion, listings, disturbed>>

Present(r) ==
    \/ r.table = "vehicle"  /\ r.id \in Rows(vehicles)
    \/ r.table = "shipment" /\ r.id \in Rows(shipments)
    \/ r.table = "driver"   /\ r.id \in drivers
    \/ r.table = "customer" /\ r.id \in customers

Find(e) ==
    LET r == edits[e].ask IN
    /\ At(e, "find")
    /\ IF Present(r)
       THEN GoOn(e, IF r.plate # Absent THEN "plate" ELSE AfterChecks(r))
       ELSE End(e)
    /\ UNCHANGED <<tables, motion, listings, disturbed>>

(* The plate number of another vehicle is refused with a conflict. *)
FindPlate(e) ==
    LET r == edits[e].ask IN
    /\ At(e, "plate")
    /\ IF \E v \in Rows(vehicles) \ {r.id} : vehicles[v].plate = r.plate
       THEN End(e)
       ELSE GoOn(e, AfterChecks(r))
    /\ UNCHANGED <<tables, motion, listings, disturbed>>

(* Ids are not drawn twice: an id that a request or a listing still holds is *)
(* not free.                                                                *)
Held == UNION {{edits[e].ask.id, edits[e].ask.parent, edits[e].ask.vehicle, edits[e].made} :
                   e \in {x \in Edits : ~ At(x, "idle")}}
Free(ids) == ids \ Held
FreeVehicles == {v \in Free(Vehicles) : \A l \in Busy : listings[l].fleet[v] = None
                                                        /\ v \notin listings[l].laden}

Insert(e, x) == edits' = [edits EXCEPT ![e].step = "write", ![e].made = x] \/ End(e)

MakeDriver(e) ==
    /\ At(e, "parent") /\ edits[e].ask.table = "vehicle"
    /\ \E d \in Free(Drivers) \ drivers : drivers' = drivers \cup {d} /\ Insert(e, d)
    /\ UNCHANGED <<vehicles, shipments, customers, motion, listings, disturbed>>

MakeCustomer(e) ==
    /\ At(e, "parent") /\ edits[e].ask.table = "shipment"
    /\ \E c \in Free(Customers) \ customers : customers' = customers \cup {c} /\ Insert(e, c)
    /\ UNCHANGED <<vehicles, shipments, drivers, motion, listings, disturbed>>

Parent(e) == IF edits[e].made # None THEN edits[e].made ELSE edits[e].ask.parent

(* Prisma leaves a column alone whose field is undefined. *)
Given(field, old) == IF field = Absent THEN old ELSE field

(* Mutant of Merged: a device that is not given is written as null. *)
MergedForgets(e, old) ==
    LET r == edits[e].ask IN
    [plate |-> Given(r.plate, old.plate), device |-> Given(r.device, None),
     status |-> Given(r.status, old.status), driver |-> Given(Parent(e), old.driver)]

Merged(e, old) ==
    LET r == edits[e].ask IN
    [plate |-> Given(r.plate, old.plate), device |-> Given(r.device, old.device),
     status |-> Given(r.status, old.status), driver |-> Given(Parent(e), old.driver)]

PutVehicle(e, v, row) ==
    /\ VehicleFits(v, row)
    /\ vehicles' = [vehicles EXCEPT ![v] = row]
    /\ End(e)
    /\ Disturbs(Listings)
    /\ UNCHANGED <<shipments, drivers, customers, motion, listings>>

CreateVehicle(e) ==
    LET r == edits[e].ask IN
    /\ Asks(e, "create", "vehicle")
    /\ \E v \in FreeVehicles \ Rows(vehicles) :
          PutVehicle(e, v, [plate |-> r.plate, device |-> Given(r.device, None),
                            status |-> r.status, driver |-> Parent(e)])

UpdateVehicle(e) ==
    LET v == edits[e].ask.id IN
    /\ Asks(e, "update", "vehicle")
    /\ v \in Rows(vehicles)
    /\ PutVehicle(e, v, Merged(e, vehicles[v]))

(* Mutant of DeleteVehicle: its shipments keep their vehicleId. *)
DeleteVehicleOnly(e) ==
    /\ Asks(e, "delete", "vehicle")
    /\ edits[e].ask.id \in Rows(vehicles)
    /\ vehicles' = [vehicles EXCEPT ![edits[e].ask.id] = None]
    /\ End(e)
    /\ Disturbs(Listings)
    /\ UNCHANGED <<shipments, drivers, customers, motion, listings>>

(* The vehicleId of its shipments is set null. *)
DeleteVehicle(e) ==
    LET v == edits[e].ask.id IN
    /\ Asks(e, "delete", "vehicle")
    /\ v \in Rows(vehicles)
    /\ vehicles' = [vehicles EXCEPT ![v] = None]
    /\ shipments' = [s \in Shipments |->
           IF s \in Rows(shipments) /\ shipments[s].vehicle = v
           THEN [shipments[s] EXCEPT !.vehicle = None] ELSE shipments[s]]
    /\ End(e)
    /\ Disturbs(Listings)
    /\ UNCHANGED <<drivers, customers, motion, listings>>

PutShipment(e, s, row) ==
    /\ shipments' = [shipments EXCEPT ![s] = row]
    /\ End(e)
    /\ Disturbs(Listings)
    /\ UNCHANGED <<vehicles, drivers, customers, motion, listings>>

(* create, and update as well, takes a missing vehicleId for no vehicle. *)
WriteShipment(e) ==
    LET r == edits[e].ask
        row == [customer |-> Parent(e), vehicle |-> Given(r.vehicle, None)] IN
    /\ At(e, "write") /\ r.table = "shipment" /\ r.op # "delete"
    /\ ShipmentFits(row)
    /\ \/ r.op = "create"
          /\ \E s \in Free(Shipments) \ Rows(shipments) : PutShipment(e, s, row)
       \/ r.op = "update" /\ r.id \in Rows(shipments) /\ PutShipment(e, r.id, row)

DeleteShipment(e) ==
    /\ Asks(e, "delete", "shipment")
    /\ edits[e].ask.id \in Rows(shipments)
    /\ PutShipment(e, edits[e].ask.id, None)

(* The foreign keys keep a driver who has a vehicle, and a customer who has  *)
(* a shipment.                                                              *)
DeleteDriver(e) ==
    LET d == edits[e].ask.id IN
    /\ Asks(e, "delete", "driver")
    /\ d \in drivers
    /\ \A v \in Rows(vehicles) : vehicles[v].driver # d
    /\ drivers' = drivers \ {d}
    /\ End(e)
    /\ UNCHANGED <<vehicles, shipments, customers, motion, listings, disturbed>>

DeleteCustomer(e) ==
    LET c == edits[e].ask.id IN
    /\ Asks(e, "delete", "customer")
    /\ c \in customers
    /\ \A s \in Rows(shipments) : shipments[s].customer # c
    /\ customers' = customers \ {c}
    /\ End(e)
    /\ UNCHANGED <<vehicles, shipments, drivers, motion, listings, disturbed>>

(* A call fails, for a constraint or for the database; what the request made *)
(* before stays.                                                            *)
EditFails(e) ==
    /\ ~ At(e, "idle")
    /\ End(e)
    /\ UNCHANGED <<tables, motion, listings, disturbed>>

(* POST /drivers and POST /customers are one call. *)
CreateDriver(d) ==
    /\ d \in Free(Drivers) \ drivers
    /\ drivers' = drivers \cup {d}
    /\ UNCHANGED <<vehicles, shipments, customers, motion, edits, listings, disturbed>>

CreateCustomer(c) ==
    /\ c \in Free(Customers) \ customers
    /\ customers' = customers \cup {c}
    /\ UNCHANGED <<vehicles, shipments, drivers, motion, edits, listings, disturbed>>

-----------------------------------------------------------------------------
(* VehiclesService.findAll. *)

(* External: the device sends a position. *)
TraccarReports(d, m) ==
    /\ m \notin {motion[d], "none"}
    /\ motion' = [motion EXCEPT ![d] = m]
    /\ Disturbs(Listings)
    /\ UNCHANGED <<tables, edits, listings>>

StatusFor(laden, moving) ==
    IF laden THEN IF moving THEN "ACTIVE" ELSE "STOPPED"
             ELSE IF moving THEN "UNASSIGNED" ELSE "INACTIVE"

NewStatus(r, v) == StatusFor(v \in r.laden, r.fleet[v] \in r.moving)

(* Mutant of ReadsDone: the shipments are not waited for. *)
PositionsDone(r) == r.unread = {}

ReadsDone(r) == r.unread = {} /\ r.shipmentsRead

(* The code after Promise.all of both reads starts the updates of all        *)
(* vehicles whose deviceId is the decimal form of the device of a position.  *)
After(r) ==
    IF ReadsDone(r)
    THEN [r EXCEPT !.step = "writes", !.pending = {v \in Vehicles : r.fleet[v] \in r.positions}]
    ELSE r

ListVehicles(l) ==
    /\ listings[l].step = "idle"
    /\ LET fleet == [v \in Vehicles |-> IF v \in Rows(vehicles) THEN vehicles[v].device ELSE None]
       IN listings' = [listings EXCEPT ![l] =
              [step |-> "reads", fleet |-> fleet,
               unread |-> {fleet[v] : v \in Vehicles} \cap Numeric,
               positions |-> {}, moving |-> {}, shipmentsRead |-> FALSE, laden |-> {},
               pending |-> {}, failed |-> FALSE]]
    /\ UNCHANGED <<tables, motion, edits, disturbed>>

(* The devices are asked one after the other; one without a position ends    *)
(* the listing (ListingFails).  Of two positions of a device the first is     *)
(* found.                                                                   *)
ReadPosition(l, id) ==
    LET r == listings[l]
        d == Number(id) IN
    /\ r.step = "reads"
    /\ id \in r.unread
    /\ motion[d] # "none"
    /\ listings' = [listings EXCEPT ![l] =
           After([r EXCEPT !.unread = @ \ {id},
                           !.positions = @ \cup {d},
                           !.moving = IF d \notin r.positions /\ motion[d] = "moving"
                                      THEN @ \cup {d} ELSE @])]
    /\ UNCHANGED <<tables, motion, edits, disturbed>>

ReadShipments(l) ==
    LET r == listings[l] IN
    /\ r.step = "reads" /\ ~ r.shipmentsRead
    /\ listings' = [listings EXCEPT ![l] =
           After([r EXCEPT !.shipmentsRead = TRUE,
                           !.laden = {shipments[s].vehicle : s \in Rows(shipments)} \ {None}])]
    /\ UNCHANGED <<tables, motion, edits, disturbed>>

(* One of the updates, which are under way together; its answer may be lost. *)
WriteStatus(l, v) ==
    /\ listings[l].step = "writes" /\ v \in listings[l].pending
    /\ v \in Rows(vehicles)
    /\ vehicles' = [vehicles EXCEPT ![v].status = NewStatus(listings[l], v)]
    /\ \E lost \in BOOLEAN :
          listings' = [listings EXCEPT ![l].pending = @ \ {v}, ![l].failed = @ \/ lost]
    /\ Disturbs(IF vehicles' = vehicles THEN {} ELSE Listings \ {l})
    /\ UNCHANGED <<shipments, drivers, customers, motion, edits>>

(* Mutant of WriteFails: an update that fails is passed over. *)
WriteFailsUnseen(l, v) ==
    /\ listings[l].step = "writes" /\ v \in listings[l].pending
    /\ listings' = [listings EXCEPT ![l].pending = @ \ {v}]
    /\ UNCHANGED <<tables, motion, edits, disturbed>>

(* An update fails - the vehicle is gone, or the database is - and the       *)
(* request is answered with an error while its other updates go on.         *)
WriteFails(l, v) ==
    /\ listings[l].step = "writes" /\ v \in listings[l].pending
    /\ listings' = [listings EXCEPT ![l].pending = @ \ {v}, ![l].failed = TRUE]
    /\ UNCHANGED <<tables, motion, edits, disturbed>>

Done(l) == listings[l].step = "writes" /\ listings[l].pending = {}

(* The vehicles are read again, and returned. *)
Answer(l) ==
    /\ Done(l) /\ ~ listings[l].failed
    /\ listings' = [listings EXCEPT ![l] = Idle]
    /\ disturbed' = disturbed \ {l}
    /\ UNCHANGED <<tables, motion, edits>>

(* A read fails, or a device has no position; or an update has failed and    *)
(* all the others have ended.                                               *)
ListingFails(l) ==
    /\ listings[l].step = "reads" \/ Done(l)
    /\ listings' = [listings EXCEPT ![l] = Idle]
    /\ disturbed' = disturbed \ {l}
    /\ UNCHANGED <<tables, motion, edits>>

-----------------------------------------------------------------------------
EditStep(e) ==
    \/ \E r \in Requests : Start(e, r)
    \/ Find(e) \/ FindPlate(e) \/ MakeDriver(e) \/ MakeCustomer(e)
    \/ CreateVehicle(e) \/ UpdateVehicle(e) \/ DeleteVehicle(e)
    \/ WriteShipment(e) \/ DeleteShipment(e) \/ DeleteDriver(e) \/ DeleteCustomer(e)
    \/ EditFails(e)

ListingStep(l) ==
    \/ ListVehicles(l) \/ ReadShipments(l) \/ Answer(l) \/ ListingFails(l)
    \/ \E id \in Numeric : ReadPosition(l, id)
    \/ \E v \in Vehicles : WriteStatus(l, v) \/ WriteFails(l, v)

Next ==
    \/ \E e \in Edits : EditStep(e)
    \/ \E l \in Listings : ListingStep(l)
    \/ \E d \in Drivers : CreateDriver(d)
    \/ \E c \in Customers : CreateCustomer(c)
    \/ \E d \in Devices, m \in Motions : TraccarReports(d, m)

Spec == Init /\ [][Next]_vars

-----------------------------------------------------------------------------
(* Properties. *)

(* A vehicle whose deviceId is the decimal form of a device has the status    *)
(* that follows from the position of the device and from the shipments; and   *)
(* there is a position of every device that a listing asks for.  The status   *)
(* of a vehicle whose deviceId is another string ('007', 'abc', '') is its    *)
(* owner's alone: a listing asks Traccar for device 7 and finds no vehicle.   *)
Fits(v) ==
    LET id == vehicles[v].device IN
    /\ id \in Numeric => motion[Number(id)] # "none"
    /\ id \in Devices => vehicles[v].status =
          StatusFor(\E s \in Rows(shipments) : shipments[s].vehicle = v, motion[id] = "moving")

StatusesFit == \A v \in Rows(vehicles) : Fits(v)

(* A listing that is about to answer has set every status right that is not   *)
(* its owner's alone, by the tables and the positions of that moment, unless  *)
(* somebody else changed what it read or wrote in the meantime               *)
(* (vehicles.service.ts, lines 15-43).                                       *)
ListingSettles ==
    \A l \in Listings \ disturbed : Done(l) /\ ~ listings[l].failed => StatusesFit

(* When nobody changes the fleet, its shipments or its motion any more, and  *)
(* listings go on to be answered, the statuses come to be right and stay so: *)
(* no update of a listing that read older data, or that failed and was       *)
(* answered long ago, upsets them for good.                                  *)
OnlyListingsWrite ==
    /\ UNCHANGED <<shipments, motion>>
    /\ vehicles' = vehicles \/ \E l \in Listings, v \in Vehicles : WriteStatus(l, v)

SomeAnswer == \E l \in Listings : Answer(l)

StatusSettles ==
    <>[][OnlyListingsWrite]_vars /\ []<><<SomeAnswer>>_vars => <>[]StatusesFit

(* Requests in flight together do not undo each other's work: whatever       *)
(* overlaps, a row comes from a create, goes with a delete, and a field of   *)
(* it changes because a request that is at its write gives that very value,  *)
(* a listing only the status; a shipment loses its vehicle also when that is *)
(* deleted (vehicles.repository.ts, lines 67-102; shipments.repository.ts,   *)
(* lines 70-121).                                                           *)
Writes(e, op, table, i) == Asks(e, op, table) /\ edits[e].ask.id \in {i, Absent}

VehicleChange(v) ==
    LET old == vehicles[v]
        new == vehicles'[v]
        Asked(op) == {e \in Edits : Writes(e, op, "vehicle", v)} IN
    \/ new = old
    \/ old = None /\ Asked("create") # {}
    \/ new = None /\ Asked("delete") # {}
    \/ old # None /\ new # None /\ \E e \in Asked("update") :
          /\ new.plate  \in {old.plate, edits[e].ask.plate}
          /\ new.device \in {old.device, edits[e].ask.device}
          /\ new.status \in {old.status, edits[e].ask.status}
          /\ new.driver \in {old.driver, edits[e].ask.parent, edits[e].made}
    \/ old # None /\ new # None /\ new = [old EXCEPT !.status = new.status]
       /\ \E l \in Listings : listings[l].step = "writes" /\ v \in listings[l].pending

ShipmentChange(s) ==
    LET old == shipments[s]
        new == shipments'[s]
        Asked(op) == {e \in Edits : Writes(e, op, "shipment", s)} IN
    \/ new = old
    \/ old = None /\ Asked("create") # {}
    \/ new = None /\ Asked("delete") # {}
    \/ old # None /\ new # None /\ \E e \in Asked("update") :
          /\ new.customer \in {edits[e].ask.parent, edits[e].made}
          /\ new.vehicle \in {edits[e].ask.vehicle, None}
    \/ old # None /\ new = [old EXCEPT !.vehicle = None] /\ vehicles'[old.vehicle] = None

NothingUndone ==
    [][/\ \A v \in Vehicles : VehicleChange(v)
       /\ \A s \in Shipments : ShipmentChange(s)]_vars
=============================================================================
