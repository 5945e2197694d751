----------------------------- MODULE FleetProofs ------------------------------
(***************************************************************************)
(* Theorems about Fleet, for any tables, requests and listings in flight.   *)
(***************************************************************************)
EXTENDS Fleet, TLAPS

-----------------------------------------------------------------------------
(* Rows and what the constraints of the database say of them. *)

(* What a row is, seen through its table. *)
LEMMA RowFacts ==
    ASSUME TypeOK
    PROVE  /\ Rows(vehicles) = {v \in Vehicles : vehicles[v] # None}
           /\ Rows(shipments) = {s \in Shipments : shipments[s] # None}
           /\ \A v \in Rows(vehicles) : vehicles[v] \in VehicleRow
           /\ \A s \in Rows(shipments) : shipments[s] \in ShipmentRow
  BY DEF TypeOK, Rows

(* None and Absent are no rows, ids or values. *)
LEMMA Nothing ==
    /\ None \notin VehicleRow /\ None \notin ShipmentRow /\ None \notin DeviceIds
    /\ None \notin Vehicles /\ None \notin Drivers /\ None \notin Customers
    /\ Absent \notin Vehicles /\ Absent \notin Shipments /\ Absent \notin Drivers
    /\ Absent \notin Customers /\ Absent \notin Plates /\ Absent \notin DeviceIds
    /\ Absent \notin Statuses /\ Absent # None
  BY FleetAssumption

(* A deviceId that is a number is the number of a device; a device is its own. *)
LEMMA Numbers ==
    /\ Numeric \subseteq DeviceIds /\ \A id \in Numeric : Number(id) \in Devices
    /\ Devices \subseteq Numeric /\ \A d \in Devices : Number(d) = d
    /\ None \notin Numeric
<1>1. \A d \in Devices : d \notin Aliases /\ d \in DeviceIds /\ d # None
  BY FleetAssumption DEF DeviceIds
<1>2. \A id \in Numeric : Number(id) \in Devices
  BY FleetAssumption DEF Numeric, Number, DeviceIds
<1> QED
  BY <1>1, <1>2, Nothing DEF Numeric, Number

(* What a request that is not idle asks for. *)
LEMMA EditFacts ==
    ASSUME TypeOK, NEW e \in Edits, ~ At(e, "idle")
    PROVE  /\ edits[e] \in Edit
           /\ edits[e].ask \in Requests /\ edits[e].ask \in Request
           /\ edits[e].made \in Drivers \cup Customers \cup {None}
<1>1. edits[e] # Idle
  BY DEF At, Idle
<1>2. edits[e] \in Edit
  BY <1>1 DEF TypeOK
<1> QED
  BY <1>2, FleetAssumption DEF Edit

(* What the DTOs leave of a request, by what it is for. *)
LEMMA VehicleAsk ==
    ASSUME NEW r \in Request, r.table = "vehicle", r.op # "delete"
    PROVE  /\ r.plate \in Plates \cup {Absent} /\ r.device \in DeviceIds \cup {None, Absent}
           /\ r.status \in Statuses \cup {Absent} /\ r.parent \in Drivers \cup {Absent}
           /\ r.op = "create" => r.id = Absent /\ r.plate # Absent /\ r.status # Absent
           /\ r.op = "update" => r.id \in Vehicles
<1>1. \/ r \in CreateVehicleDto \/ r \in UpdateVehicleDto
      \/ r \in CreateShipmentDto \/ r \in UpdateShipmentDto
      \/ \E t, ids : r \in Deletion(t, ids)
  BY DEF Request
<1>2. r \notin CreateShipmentDto /\ r \notin UpdateShipmentDto
  BY DEF CreateShipmentDto, UpdateShipmentDto, ShipmentDto
<1>3. ~ \E t, ids : r \in Deletion(t, ids)
  BY DEF Deletion
<1>4. CASE r \in CreateVehicleDto
  BY <1>4 DEF CreateVehicleDto, VehicleDto
<1>5. CASE r \in UpdateVehicleDto
  BY <1>5 DEF UpdateVehicleDto, VehicleDto
<1> QED
  BY <1>1, <1>2, <1>3, <1>4, <1>5

LEMMA ShipmentAsk ==
    ASSUME NEW r \in Request, r.table = "shipment", r.op # "delete"
    PROVE  /\ r.parent \in Customers \cup {Absent} /\ r.vehicle \in Vehicles \cup {Absent}
           /\ r.op = "create" => r.id = Absent
           /\ r.op \in {"create", "update"}
<1>1. \/ r \in CreateVehicleDto \/ r \in UpdateVehicleDto
      \/ r \in CreateShipmentDto \/ r \in UpdateShipmentDto
      \/ \E t, ids : r \in Deletion(t, ids)
  BY DEF Request
<1>2. r \notin CreateVehicleDto /\ r \notin UpdateVehicleDto
  BY DEF CreateVehicleDto, UpdateVehicleDto, VehicleDto
<1>3. ~ \E t, ids : r \in Deletion(t, ids)
  BY DEF Deletion
<1>4. CASE r \in CreateShipmentDto
  BY <1>4 DEF CreateShipmentDto, ShipmentDto
<1>5. CASE r \in UpdateShipmentDto
  BY <1>5 DEF UpdateShipmentDto, ShipmentDto
<1> QED
  BY <1>1, <1>2, <1>3, <1>4, <1>5

-----------------------------------------------------------------------------
(* TypeOK, the tables and what is in flight apart. *)

TablesOK ==
    /\ vehicles \in [Vehicles -> VehicleRow \cup {None}]
    /\ shipments \in [Shipments -> ShipmentRow \cup {None}]
    /\ drivers \subseteq Drivers /\ customers \subseteq Customers
    /\ \A v \in Rows(vehicles) : VehicleFits(v, vehicles[v])
    /\ \A s \in Rows(shipments) : ShipmentFits(shipments[s])

FlightsOK ==
    /\ motion \in [Devices -> Motions]
    /\ edits \in [Edits -> Edit \cup {Idle}]
    /\ listings \in [Listings -> Listing \cup {Idle}]
    /\ disturbed \subseteq Listings

LEMMA TypeParts == TypeOK <=> TablesOK /\ FlightsOK
  BY DEF TypeOK, TablesOK, FlightsOK

LEMMA TablesKept ==
    ASSUME TypeOK, UNCHANGED tables
    PROVE  TablesOK'
  BY DEF TypeOK, tables, TablesOK, Rows, VehicleFits, ShipmentFits

LEMMA FlightsKept ==
    ASSUME TypeOK, UNCHANGED <<motion, edits, listings>>, disturbed' \subseteq Listings
    PROVE  FlightsOK'
  BY DEF TypeOK, FlightsOK

(* A vehicle gets a row that fits: it fits the others, and the others it.     *)
LEMMA VehiclePut ==
    ASSUME TypeOK, NEW v \in Vehicles, NEW row \in VehicleRow, VehicleFits(v, row),
           vehicles' = [vehicles EXCEPT ![v] = row], UNCHANGED <<shipments, drivers, customers>>
    PROVE  TablesOK'
<1>1. vehicles' \in [Vehicles -> VehicleRow \cup {None}]
  BY DEF TypeOK
<1>2. \A w \in Vehicles : vehicles'[w] = IF w = v THEN row ELSE vehicles[w]
  BY DEF TypeOK
<1>3. Rows(vehicles') = Rows(vehicles) \cup {v}
  <2>1. Rows(vehicles') = {w \in Vehicles : vehicles'[w] # None}
    BY <1>1 DEF Rows
  <2> QED
    BY <1>2, <2>1, RowFacts, Nothing
<1>4. ASSUME NEW w \in Rows(vehicles') PROVE VehicleFits(w, vehicles[w])'
  <2>1. CASE w = v
    <3>1. vehicles'[w] = row
      BY <1>2, <2>1
    <3>2. \A x \in Rows(vehicles') \ {v} : x \in Rows(vehicles) \ {v} /\ vehicles'[x] = vehicles[x]
      BY <1>2, <1>3, RowFacts
    <3>3. row.driver \in drivers'
      BY DEF VehicleFits
    <3>4. ASSUME NEW x \in Rows(vehicles') \ {w}
          PROVE  /\ vehicles'[x].plate # row.plate
                 /\ vehicles'[x].driver # row.driver
                 /\ vehicles'[x].device # row.device \/ row.device = None
      BY <2>1, <3>2 DEF VehicleFits
    <3> QED
      BY <3>1, <3>3, <3>4 DEF VehicleFits
  <2>2. CASE w # v
    <3>1. w \in Rows(vehicles) /\ w \in Vehicles /\ vehicles'[w] = vehicles[w]
      BY <1>2, <1>3, <2>2, RowFacts
    <3>2. VehicleFits(w, vehicles[w])
      BY <3>1 DEF TypeOK
    <3>3. ASSUME NEW x \in Rows(vehicles') \ {w}
          PROVE  /\ vehicles'[x].plate # vehicles[w].plate
                 /\ vehicles'[x].driver # vehicles[w].driver
                 /\ vehicles'[x].device # vehicles[w].device \/ vehicles[w].device = None
      <4>1. CASE x = v
        BY <1>2, <2>2, <3>1, <4>1 DEF VehicleFits
      <4>2. CASE x # v
        <5>1. x \in Rows(vehicles) \ {w} /\ vehicles'[x] = vehicles[x]
          BY <1>2, <1>3, <3>3, <4>2, RowFacts
        <5> QED
          BY <3>2, <5>1 DEF VehicleFits
      <4> QED
        BY <4>1, <4>2
    <3>4. vehicles[w].driver \in drivers'
      BY <3>2 DEF VehicleFits
    <3> QED
      BY <3>1, <3>3, <3>4 DEF VehicleFits
  <2> QED
    BY <2>1, <2>2
<1>5. ASSUME NEW s \in Rows(shipments') PROVE ShipmentFits(shipments[s])'
  BY <1>3, <1>5 DEF TypeOK, ShipmentFits
<1> QED
  BY <1>1, <1>4, <1>5 DEF TypeOK, TablesOK

(* A shipment gets a row that fits, or none.                                  *)
LEMMA ShipmentPut ==
    ASSUME TypeOK, NEW s \in Shipments, NEW row \in ShipmentRow \cup {None},
           row # None => ShipmentFits(row),
           shipments' = [shipments EXCEPT ![s] = row], UNCHANGED <<vehicles, drivers, customers>>
    PROVE  TablesOK'
<1>1. shipments' \in [Shipments -> ShipmentRow \cup {None}]
  BY DEF TypeOK
<1>2. \A x \in Shipments : shipments'[x] = IF x = s THEN row ELSE shipments[x]
  BY DEF TypeOK
<1>3. Rows(shipments') = {x \in Shipments : shipments'[x] # None}
  BY <1>1 DEF Rows
<1>4. ASSUME NEW x \in Rows(shipments') PROVE ShipmentFits(shipments[x])'
  BY <1>2, <1>3, <1>4, RowFacts DEF TypeOK, ShipmentFits
<1>5. ASSUME NEW v \in Rows(vehicles') PROVE VehicleFits(v, vehicles[v])'
  BY <1>5 DEF TypeOK, VehicleFits
<1> QED
  BY <1>1, <1>4, <1>5 DEF TypeOK, TablesOK

(* Drivers and customers come, or go while no row names them.                 *)
LEMMA PeoplePut ==
    ASSUME TypeOK, UNCHANGED <<vehicles, shipments>>,
           drivers' \subseteq Drivers, customers' \subseteq Customers,
           \A v \in Rows(vehicles) : vehicles[v].driver \in drivers => vehicles[v].driver \in drivers',
           \A s \in Rows(shipments) :
              shipments[s].customer \in customers => shipments[s].customer \in customers'
    PROVE  TablesOK'
<1>1. ASSUME NEW v \in Rows(vehicles) PROVE VehicleFits(v, vehicles[v])'
  BY <1>1 DEF TypeOK, VehicleFits
<1>2. ASSUME NEW s \in Rows(shipments) PROVE ShipmentFits(shipments[s])'
  BY <1>2 DEF TypeOK, ShipmentFits
<1> QED
  BY <1>1, <1>2 DEF TypeOK, TablesOK

(* A request goes to another step, or ends.                                   *)
LEMMA EditsMove ==
    ASSUME TypeOK, NEW e \in Edits,
           \/ End(e)
           \/ /\ ~ At(e, "idle")
              /\ \E step \in {"find", "plate", "parent", "write"} : GoOn(e, step)
           \/ /\ ~ At(e, "idle")
              /\ \E x \in Drivers \cup Customers \cup {None} : Insert(e, x)
    PROVE  edits' \in [Edits -> Edit \cup {Idle}]
<1>1. edits \in [Edits -> Edit \cup {Idle}]
  BY DEF TypeOK
<1>2. CASE End(e)
  BY <1>1, <1>2 DEF End
<1>3. ASSUME ~ At(e, "idle"), NEW step \in {"find", "plate", "parent", "write"}, GoOn(e, step)
      PROVE  edits' \in [Edits -> Edit \cup {Idle}]
  <2>1. [edits[e] EXCEPT !.step = step] \in Edit
    BY <1>3, EditFacts DEF Edit
  <2>2. edits' = [edits EXCEPT ![e] = [edits[e] EXCEPT !.step = step]]
    BY <1>1, <1>3 DEF GoOn
  <2> QED
    BY <1>1, <2>1, <2>2
<1>4. ASSUME ~ At(e, "idle"), NEW x \in Drivers \cup Customers \cup {None},
             edits' = [edits EXCEPT ![e].step = "write", ![e].made = x]
      PROVE  edits' \in [Edits -> Edit \cup {Idle}]
  <2>1. [edits[e] EXCEPT !.step = "write", !.made = x] \in Edit
    BY <1>4, EditFacts DEF Edit
  <2>2. edits' = [edits EXCEPT ![e] = [edits[e] EXCEPT !.step = "write", !.made = x]]
    BY <1>1, <1>4
  <2> QED
    BY <1>1, <2>1, <2>2
<1> QED
  BY <1>2, <1>3, <1>4 DEF Insert

(* What a listing that is not idle holds.                                     *)
LEMMA ListingFacts ==
    ASSUME TypeOK, NEW l \in Listings, listings[l].step # "idle"
    PROVE  listings[l] \in Listing
<1>1. listings[l] # Idle
  BY DEF Idle
<1> QED
  BY <1>1 DEF TypeOK

LEMMA AfterFacts ==
    ASSUME NEW r \in Listing
    PROVE  After(r) \in Listing
  BY DEF After, Listing

(* A listing goes on, or ends.                                                *)
LEMMA ListingMoves ==
    ASSUME TypeOK, NEW l \in Listings, NEW q \in Listing \cup {Idle},
           listings' = [listings EXCEPT ![l] = q]
    PROVE  listings' \in [Listings -> Listing \cup {Idle}]
  BY DEF TypeOK

LEMMA FlightsMove ==
    ASSUME TypeOK, motion' \in [Devices -> Motions], edits' \in [Edits -> Edit \cup {Idle}],
           listings' \in [Listings -> Listing \cup {Idle}], disturbed' \subseteq Listings
    PROVE  FlightsOK'
  BY DEF FlightsOK

(* The steps of a request that write no table.                                *)
LEMMA AskingType ==
    ASSUME TypeOK, NEW e \in Edits,
           (\E r \in Requests : Start(e, r)) \/ Find(e) \/ FindPlate(e) \/ EditFails(e)
    PROVE  TypeOK'
<1>1. UNCHANGED <<tables, motion, listings, disturbed>>
  BY DEF Start, Find, FindPlate, EditFails
<1>2. edits' \in [Edits -> Edit \cup {Idle}]
  <2>1. ASSUME NEW r \in Requests, Start(e, r) PROVE edits' \in [Edits -> Edit \cup {Idle}]
    <3>1. [step |-> FirstStep(r), ask |-> r, made |-> None] \in Edit
      BY DEF FirstStep, AfterChecks, Edit
    <3> QED
      BY <2>1, <3>1 DEF Start, TypeOK
  <2>2. CASE Find(e)
    BY <2>2, EditsMove DEF Find, AfterChecks, At
  <2>3. CASE FindPlate(e)
    BY <2>3, EditsMove DEF FindPlate, AfterChecks, At
  <2>4. CASE EditFails(e)
    BY <2>4, EditsMove DEF EditFails
  <2> QED
    BY <2>1, <2>2, <2>3, <2>4
<1>3. TablesOK' 
  BY <1>1, TablesKept
<1>4. FlightsOK'
  BY <1>1, <1>2, FlightsMove DEF TypeOK
<1> QED
  BY <1>3, <1>4, TypeParts, PTL

(* A driver or customer comes or goes.                                        *)
LEMMA PeopleType ==
    ASSUME TypeOK,
           \/ \E d \in Drivers : CreateDriver(d)
           \/ \E c \in Customers : CreateCustomer(c)
           \/ \E e \in Edits : MakeDriver(e) \/ MakeCustomer(e) \/ DeleteDriver(e) \/ DeleteCustomer(e)
    PROVE  TypeOK'
<1>1. UNCHANGED <<vehicles, shipments, motion, listings, disturbed>>
  BY DEF CreateDriver, CreateCustomer, MakeDriver, MakeCustomer, DeleteDriver, DeleteCustomer
<1>2. drivers' \subseteq Drivers /\ customers' \subseteq Customers
  BY DEF TypeOK, CreateDriver, CreateCustomer, MakeDriver, MakeCustomer, DeleteDriver,
         DeleteCustomer, Free
<1>3. ASSUME NEW v \in Rows(vehicles), vehicles[v].driver \in drivers
      PROVE  vehicles[v].driver \in drivers'
  BY <1>3 DEF CreateDriver, CreateCustomer, MakeDriver, MakeCustomer, DeleteDriver, DeleteCustomer
<1>4. ASSUME NEW s \in Rows(shipments), shipments[s].customer \in customers
      PROVE  shipments[s].customer \in customers'
  BY <1>4 DEF CreateDriver, CreateCustomer, MakeDriver, MakeCustomer, DeleteDriver, DeleteCustomer
<1>5. edits' \in [Edits -> Edit \cup {Idle}]
  <2>1. CASE UNCHANGED edits
    BY <2>1 DEF TypeOK
  <2>2. ASSUME NEW e \in Edits, DeleteDriver(e) \/ DeleteCustomer(e)
        PROVE  edits' \in [Edits -> Edit \cup {Idle}]
    BY <2>2, EditsMove DEF DeleteDriver, DeleteCustomer
  <2>3. ASSUME NEW e \in Edits, MakeDriver(e) \/ MakeCustomer(e)
        PROVE  edits' \in [Edits -> Edit \cup {Idle}]
    <3>1. ~ At(e, "idle")
      BY <2>3 DEF MakeDriver, MakeCustomer, At
    <3>2. \E x \in Drivers \cup Customers \cup {None} : Insert(e, x)
      BY <2>3 DEF MakeDriver, MakeCustomer, Free
    <3> QED
      BY <3>1, <3>2, EditsMove
  <2> QED
    BY <2>1, <2>2, <2>3 DEF CreateDriver, CreateCustomer
<1>6. TablesOK'
  BY <1>1, <1>2, <1>3, <1>4, PeoplePut
<1>7. FlightsOK'
  BY <1>1, <1>5, FlightsMove DEF TypeOK
<1> QED
  BY <1>6, <1>7, TypeParts, PTL

(* What follows a write of a vehicle or a shipment.                           *)
LEMMA WrittenFlights ==
    ASSUME TypeOK, NEW e \in Edits, End(e), Disturbs(Listings), UNCHANGED <<motion, listings>>
    PROVE  FlightsOK'
<1>1. edits' \in [Edits -> Edit \cup {Idle}]
  BY EditsMove
<1>2. disturbed' \subseteq Listings
  BY DEF TypeOK, Disturbs
<1> QED
  BY <1>1, <1>2, FlightsMove DEF TypeOK

(* A row made of a request that fits is a row.                                *)
LEMMA CreatedRow ==
    ASSUME TypeOK, NEW e \in Edits, Asks(e, "create", "vehicle"), NEW v,
           VehicleFits(v, [plate |-> edits[e].ask.plate, device |-> Given(edits[e].ask.device, None),
                           status |-> edits[e].ask.status, driver |-> Parent(e)])
    PROVE  /\ [plate |-> edits[e].ask.plate, device |-> Given(edits[e].ask.device, None),
               status |-> edits[e].ask.status, driver |-> Parent(e)] \in VehicleRow
           /\ edits[e].ask.id = Absent
<1> DEFINE r == edits[e].ask
<1>1. ~ At(e, "idle") /\ r.op = "create" /\ r.table = "vehicle"
  BY DEF Asks, At
<1>2. r \in Request
  BY <1>1, EditFacts
<1>3. /\ r.plate \in Plates /\ r.device \in DeviceIds \cup {None, Absent}
      /\ r.status \in Statuses /\ r.id = Absent
  BY <1>1, <1>2, VehicleAsk
<1>4. Parent(e) \in Drivers
  BY DEF VehicleFits, TypeOK
<1>5. Given(r.device, None) \in DeviceIds \cup {None}
  BY <1>3 DEF Given
<1> QED
  BY <1>3, <1>4, <1>5 DEF VehicleRow

LEMMA MergedFacts ==
    ASSUME TypeOK, NEW e \in Edits, Asks(e, "update", "vehicle"), NEW v \in Rows(vehicles),
           VehicleFits(v, Merged(e, vehicles[v]))
    PROVE  /\ Merged(e, vehicles[v]) \in VehicleRow
           /\ Merged(e, vehicles[v]).plate \in {vehicles[v].plate, edits[e].ask.plate}
           /\ Merged(e, vehicles[v]).device \in {vehicles[v].device, edits[e].ask.device}
           /\ Merged(e, vehicles[v]).status \in {vehicles[v].status, edits[e].ask.status}
           /\ Merged(e, vehicles[v]).driver \in {vehicles[v].driver, edits[e].ask.parent, edits[e].made}
<1> DEFINE r == edits[e].ask
           old == vehicles[v]
           plate == Given(r.plate, old.plate)
           device == Given(r.device, old.device)
           status == Given(r.status, old.status)
           driver == Given(Parent(e), old.driver)
<1>1. ~ At(e, "idle") /\ r.op = "update" /\ r.table = "vehicle"
  BY DEF Asks, At
<1>2. r \in Request /\ old \in VehicleRow
  BY <1>1, EditFacts, RowFacts
<1>3. /\ r.plate \in Plates \cup {Absent} /\ r.device \in DeviceIds \cup {None, Absent}
      /\ r.status \in Statuses \cup {Absent}
  BY <1>1, <1>2, VehicleAsk
<1>4. old.plate \in Plates /\ old.device \in DeviceIds \cup {None} /\ old.status \in Statuses
  BY <1>2 DEF VehicleRow
<1>5. /\ plate \in Plates /\ plate \in {old.plate, r.plate}
      /\ device \in DeviceIds \cup {None} /\ device \in {old.device, r.device}
      /\ status \in Statuses /\ status \in {old.status, r.status}
      /\ driver \in {old.driver, r.parent, edits[e].made}
  BY <1>3, <1>4 DEF Given, Parent
<1>6. Merged(e, old) = [plate |-> plate, device |-> device, status |-> status, driver |-> driver]
  BY DEF Merged
<1> HIDE DEF plate, device, status, driver
<1>7. driver \in Drivers
  BY <1>6 DEF VehicleFits, TypeOK
<1> QED
  BY <1>5, <1>6, <1>7 DEF VehicleRow

(* The vehicles are written.                                                  *)
LEMMA VehicleType ==
    ASSUME TypeOK, NEW e \in Edits, CreateVehicle(e) \/ UpdateVehicle(e)
    PROVE  TypeOK'
<1>1. PICK v \in Vehicles, row \in VehicleRow : PutVehicle(e, v, row)
  <2>1. CASE CreateVehicle(e)
    <3>1. PICK v \in Vehicles :
             PutVehicle(e, v, [plate |-> edits[e].ask.plate, device |-> Given(edits[e].ask.device, None),
                               status |-> edits[e].ask.status, driver |-> Parent(e)])
      BY <2>1 DEF CreateVehicle, FreeVehicles, Free
    <3> QED
      BY <2>1, <3>1, CreatedRow DEF CreateVehicle, PutVehicle
  <2>2. CASE UpdateVehicle(e)
    <3>1. edits[e].ask.id \in Rows(vehicles)
      BY <2>2 DEF UpdateVehicle
    <3> QED
      BY <2>2, <3>1, MergedFacts, RowFacts DEF UpdateVehicle, PutVehicle
  <2> QED
    BY <2>1, <2>2
<1>2. /\ VehicleFits(v, row) /\ vehicles' = [vehicles EXCEPT ![v] = row]
      /\ UNCHANGED <<shipments, drivers, customers>>
      /\ End(e) /\ Disturbs(Listings) /\ UNCHANGED <<motion, listings>>
  BY <1>1 DEF PutVehicle
<1>3. TablesOK'
  BY <1>2, VehiclePut
<1>4. FlightsOK'
  BY <1>2, WrittenFlights
<1> QED
  BY <1>3, <1>4, TypeParts, PTL

LEMMA DeleteVehicleType ==
    ASSUME TypeOK, NEW e \in Edits, DeleteVehicle(e)
    PROVE  TypeOK'
<1> DEFINE v == edits[e].ask.id
           cleared(s) == [shipments[s] EXCEPT !.vehicle = None]
<1>1. v \in Vehicles /\ v \in Rows(vehicles)
  BY RowFacts DEF DeleteVehicle
<1>2. /\ vehicles' \in [Vehicles -> VehicleRow \cup {None}]
      /\ \A w \in Vehicles : vehicles'[w] = IF w = v THEN None ELSE vehicles[w]
      /\ UNCHANGED <<drivers, customers>>
  BY DEF DeleteVehicle, TypeOK
<1>3. Rows(vehicles') = Rows(vehicles) \ {v}
  BY <1>2, RowFacts DEF Rows
<1>4. ASSUME NEW s \in Rows(shipments)
      PROVE  /\ shipments[s] \in ShipmentRow /\ ShipmentFits(shipments[s])
             /\ cleared(s) \in ShipmentRow /\ cleared(s) # None
             /\ cleared(s).vehicle = None /\ cleared(s).customer = shipments[s].customer
  <2>1. shipments[s] \in ShipmentRow /\ ShipmentFits(shipments[s])
    BY <1>4, RowFacts DEF TypeOK
  <2>2. /\ cleared(s) \in ShipmentRow
        /\ cleared(s).vehicle = None /\ cleared(s).customer = shipments[s].customer
    BY <2>1 DEF ShipmentRow
  <2> QED
    BY <2>1, <2>2, Nothing
<1>5. \A s \in Shipments : shipments'[s] =
          IF s \in Rows(shipments) /\ shipments[s].vehicle = v THEN cleared(s) ELSE shipments[s]
  BY DEF DeleteVehicle
<1>6. DOMAIN shipments' = Shipments /\ shipments' = [s \in Shipments |-> shipments'[s]]
  BY DEF DeleteVehicle
<1> HIDE DEF cleared
<1>7. ASSUME NEW s \in Shipments PROVE shipments'[s] \in ShipmentRow \cup {None}
  BY <1>4, <1>5, RowFacts
<1>8. shipments' \in [Shipments -> ShipmentRow \cup {None}]
  BY <1>6, <1>7
<1>9. ASSUME NEW s \in Rows(shipments') PROVE ShipmentFits(shipments[s])'
  <2>1. s \in Rows(shipments)
    BY <1>4, <1>5, <1>6, <1>9, RowFacts DEF Rows
  <2>2. /\ shipments'[s].customer = shipments[s].customer
        /\ shipments'[s].vehicle = None \/ (shipments'[s].vehicle = shipments[s].vehicle
                                            /\ shipments[s].vehicle # v)
    BY <1>4, <1>5, <2>1, RowFacts
  <2> QED
    BY <1>2, <1>3, <1>4, <2>1, <2>2 DEF ShipmentFits
<1>10. ASSUME NEW w \in Rows(vehicles') PROVE VehicleFits(w, vehicles[w])'
  BY <1>2, <1>3, <1>10, RowFacts DEF TypeOK, VehicleFits
<1>11. TablesOK'
  BY <1>2, <1>8, <1>9, <1>10 DEF TablesOK, TypeOK
<1>12. FlightsOK'
  BY WrittenFlights DEF DeleteVehicle
<1> QED
  BY <1>11, <1>12, TypeParts, PTL

LEMMA ShipmentType ==
    ASSUME TypeOK, NEW e \in Edits, WriteShipment(e) \/ DeleteShipment(e)
    PROVE  TypeOK'
<1> DEFINE new == [customer |-> Parent(e), vehicle |-> Given(edits[e].ask.vehicle, None)]
<1>1. PICK s \in Shipments, row \in ShipmentRow \cup {None} :
          PutShipment(e, s, row) /\ (row # None => ShipmentFits(row))
  <2>1. CASE WriteShipment(e)
    <3>1. ShipmentFits(new)
      BY <2>1 DEF WriteShipment
    <3>2. new \in ShipmentRow
      BY <3>1, RowFacts DEF ShipmentFits, ShipmentRow, TypeOK
    <3>3. PICK s \in Shipments : PutShipment(e, s, new)
      BY <2>1, RowFacts DEF WriteShipment, Free
    <3> QED
      BY <3>1, <3>2, <3>3
  <2>2. CASE DeleteShipment(e)
    BY <2>2, RowFacts DEF DeleteShipment
  <2> QED
    BY <2>1, <2>2
<1>2. /\ shipments' = [shipments EXCEPT ![s] = row]
      /\ UNCHANGED <<vehicles, drivers, customers>>
      /\ End(e) /\ Disturbs(Listings) /\ UNCHANGED <<motion, listings>>
  BY <1>1 DEF PutShipment
<1>3. TablesOK'
  BY <1>1, <1>2, ShipmentPut
<1>4. FlightsOK'
  BY <1>2, WrittenFlights
<1> QED
  BY <1>3, <1>4, TypeParts, PTL

(* What a listing notes as it reads a position.                               *)
Noted(r, id) ==
    [r EXCEPT !.unread = @ \ {id}, !.positions = @ \cup {Number(id)},
              !.moving = IF Number(id) \notin r.positions /\ motion[Number(id)] = "moving"
                         THEN @ \cup {Number(id)} ELSE @]

LEMMA ReadNotes ==
    ASSUME TypeOK, NEW l \in Listings, listings[l].step = "reads"
    PROVE  /\ \A id \in Numeric : Noted(listings[l], id) \in Listing
           /\ \A S \in SUBSET Vehicles :
                [listings[l] EXCEPT !.shipmentsRead = TRUE, !.laden = S] \in Listing
<1>1. listings[l] \in Listing
  BY ListingFacts
<1>2. ASSUME NEW id \in Numeric PROVE Noted(listings[l], id) \in Listing
  BY <1>1, Numbers DEF Listing, Noted
<1> QED
  BY <1>1, <1>2 DEF Listing

LEMMA LadenFacts ==
    ASSUME TypeOK
    PROVE  {shipments[s].vehicle : s \in Rows(shipments)} \ {None} \subseteq Vehicles
<1>1. ASSUME NEW s \in Rows(shipments) PROVE shipments[s].vehicle \in Vehicles \cup {None}
  BY RowFacts DEF ShipmentRow
<1> QED
  BY <1>1

LEMMA FleetRead ==
    ASSUME TypeOK
    PROVE  [v \in Vehicles |-> IF v \in Rows(vehicles) THEN vehicles[v].device ELSE None]
               \in [Vehicles -> DeviceIds \cup {None}]
<1>1. ASSUME NEW v \in Rows(vehicles) PROVE vehicles[v].device \in DeviceIds \cup {None}
  BY RowFacts DEF VehicleRow
<1> QED
  BY <1>1

LEMMA ReadingType ==
    ASSUME TypeOK, NEW l \in Listings,
           \/ ListVehicles(l) \/ ReadShipments(l) \/ \E id \in Numeric : ReadPosition(l, id)
           \/ \E v \in Vehicles : WriteFails(l, v)
    PROVE  TypeOK'
<1>1. UNCHANGED <<tables, motion, edits, disturbed>>
  BY DEF ListVehicles, ReadShipments, ReadPosition, WriteFails
<1>2. \E q \in Listing : listings' = [listings EXCEPT ![l] = q]
  <2>1. CASE ListVehicles(l)
    <3> DEFINE fleet == [v \in Vehicles |-> IF v \in Rows(vehicles) THEN vehicles[v].device ELSE None]
               unread == {fleet[v] : v \in Vehicles} \cap Numeric
               q == [step |-> "reads", fleet |-> fleet, unread |-> unread,
                     positions |-> {}, moving |-> {}, shipmentsRead |-> FALSE, laden |-> {},
                     pending |-> {}, failed |-> FALSE]
    <3>1. fleet \in [Vehicles -> DeviceIds \cup {None}]
      BY FleetRead
    <3>2. unread \subseteq Numeric
      OBVIOUS
    <3>3. listings' = [listings EXCEPT ![l] = q]
      BY <2>1 DEF ListVehicles
    <3> HIDE DEF fleet, unread
    <3>4. q \in Listing
      BY <3>1, <3>2 DEF Listing
    <3> QED
      BY <3>3, <3>4
  <2>2. CASE ReadShipments(l)
    BY <2>2, LadenFacts, ReadNotes, AfterFacts DEF ReadShipments
  <2>3. ASSUME NEW id \in Numeric, ReadPosition(l, id)
        PROVE  \E q \in Listing : listings' = [listings EXCEPT ![l] = q]
    BY <2>3, ReadNotes, AfterFacts DEF ReadPosition, Noted
  <2>4. ASSUME NEW v \in Vehicles, WriteFails(l, v)
        PROVE  \E q \in Listing : listings' = [listings EXCEPT ![l] = q]
    <3>1. listings[l] \in Listing
      BY <2>4, ListingFacts DEF WriteFails
    <3>2. [listings[l] EXCEPT !.pending = @ \ {v}, !.failed = TRUE] \in Listing
      BY <3>1 DEF Listing
    <3>3. listings' = [listings EXCEPT ![l] = [listings[l] EXCEPT !.pending = @ \ {v}, !.failed = TRUE]]
      BY <2>4 DEF WriteFails, TypeOK
    <3> QED
      BY <3>2, <3>3
  <2> QED
    BY <2>1, <2>2, <2>3, <2>4
<1>3. listings' \in [Listings -> Listing \cup {Idle}]
  BY <1>2, ListingMoves
<1>4. TablesOK'
  BY <1>1, TablesKept
<1>5. FlightsOK'
  BY <1>1, <1>3, FlightsMove DEF TypeOK
<1> QED
  BY <1>4, <1>5, TypeParts, PTL

LEMMA EndingType ==
    ASSUME TypeOK, NEW l \in Listings, Answer(l) \/ ListingFails(l)
    PROVE  TypeOK'
<1>1. UNCHANGED <<tables, motion, edits>> /\ disturbed' \subseteq disturbed
  BY DEF Answer, ListingFails
<1>2. listings' \in [Listings -> Listing \cup {Idle}]
  BY ListingMoves DEF Answer, ListingFails
<1>3. TablesOK'
  BY <1>1, TablesKept
<1>4. FlightsOK'
  BY <1>1, <1>2, FlightsMove DEF TypeOK
<1> QED
  BY <1>3, <1>4, TypeParts, PTL

(* The status an update writes, and the row it leaves.                        *)
LEMMA StatusRow ==
    ASSUME TypeOK, NEW v \in Rows(vehicles), NEW r
    PROVE  LET row == [vehicles[v] EXCEPT !.status = NewStatus(r, v)] IN
           /\ row \in VehicleRow /\ VehicleFits(v, row)
           /\ row.device = vehicles[v].device /\ row.status = NewStatus(r, v)
<1> DEFINE status == NewStatus(r, v)
           row == [vehicles[v] EXCEPT !.status = status]
<1>1. status \in Statuses
  BY DEF NewStatus, StatusFor, Statuses
<1>2. vehicles[v] \in VehicleRow
  BY RowFacts
<1> HIDE DEF status
<1>3. /\ row \in VehicleRow /\ row.status = status
      /\ row.plate = vehicles[v].plate /\ row.driver = vehicles[v].driver
      /\ row.device = vehicles[v].device
  BY <1>1, <1>2 DEF VehicleRow
<1>4. VehicleFits(v, vehicles[v])
  BY DEF TypeOK
<1> HIDE DEF row
<1>5. VehicleFits(v, row)
  BY <1>3, <1>4 DEF VehicleFits
<1> QED
  BY <1>3, <1>5 DEF row, status

LEMMA WriteStatusType ==
    ASSUME TypeOK, NEW l \in Listings, NEW v \in Vehicles, WriteStatus(l, v)
    PROVE  TypeOK'
<1> DEFINE row == [vehicles[v] EXCEPT !.status = NewStatus(listings[l], v)]
<1>1. v \in Rows(vehicles)
  BY DEF WriteStatus
<1>2. row \in VehicleRow /\ VehicleFits(v, row)
  BY <1>1, StatusRow
<1>3. vehicles' = [vehicles EXCEPT ![v] = row] /\ UNCHANGED <<shipments, drivers, customers>>
  BY DEF WriteStatus, TypeOK
<1> HIDE DEF row
<1>4. TablesOK'
  BY <1>2, <1>3, VehiclePut
<1>5. PICK lost \in BOOLEAN :
         listings' = [listings EXCEPT ![l].pending = @ \ {v}, ![l].failed = @ \/ lost]
  BY DEF WriteStatus
<1>6. listings[l] \in Listing
  BY ListingFacts DEF WriteStatus
<1>7. (listings[l].failed \/ lost) \in BOOLEAN
  OBVIOUS
<1>8. [listings[l] EXCEPT !.pending = @ \ {v}, !.failed = @ \/ lost] \in Listing
  BY <1>6, <1>7 DEF Listing
<1>9. listings' = [listings EXCEPT ![l] = [listings[l] EXCEPT !.pending = @ \ {v}, !.failed = @ \/ lost]]
  BY <1>5 DEF TypeOK
<1>10. listings' \in [Listings -> Listing \cup {Idle}]
  BY <1>8, <1>9, ListingMoves
<1>11. UNCHANGED <<motion, edits>> /\ disturbed' \subseteq Listings
  BY DEF WriteStatus, Disturbs, TypeOK
<1>12. FlightsOK'
  BY <1>10, <1>11, FlightsMove DEF TypeOK
<1> QED
  BY <1>4, <1>12, TypeParts, PTL

LEMMA ReportType ==
    ASSUME TypeOK, NEW d \in Devices, NEW m \in Motions, TraccarReports(d, m)
    PROVE  TypeOK'
<1>1. TablesOK'
  BY TablesKept DEF TraccarReports
<1>2. /\ motion' \in [Devices -> Motions] /\ disturbed' \subseteq Listings
      /\ UNCHANGED <<edits, listings>>
  BY DEF TraccarReports, TypeOK, Disturbs
<1>3. FlightsOK'
  BY <1>2, FlightsMove DEF TypeOK
<1> QED
  BY <1>1, <1>3, TypeParts, PTL

LEMMA TypeStep == TypeOK /\ [Next]_vars => TypeOK'
<1> SUFFICES ASSUME TypeOK, [Next]_vars PROVE TypeOK'
  OBVIOUS
<1>1. CASE UNCHANGED vars
  <2>1. UNCHANGED tables /\ UNCHANGED <<motion, edits, listings, disturbed>>
    BY <1>1 DEF vars
  <2>2. TablesOK' /\ FlightsOK'
    BY <2>1, TablesKept, FlightsKept DEF TypeOK
  <2> QED
    BY <2>2, TypeParts, PTL
<1>2. ASSUME NEW e \in Edits, EditStep(e) PROVE TypeOK'
  BY <1>2, AskingType, PeopleType, VehicleType, DeleteVehicleType, ShipmentType DEF EditStep
<1>3. ASSUME NEW l \in Listings, ListingStep(l) PROVE TypeOK'
  BY <1>3, ReadingType, EndingType, WriteStatusType DEF ListingStep
<1> QED
  BY <1>1, <1>2, <1>3, PeopleType, ReportType DEF Next

LEMMA TypeInit == Init => TypeOK
  BY FleetAssumption DEF Init, TypeOK

(* In every state plates, devices and drivers belong to one vehicle each,     *)
(* and rows name drivers, customers and vehicles that there are.             *)
THEOREM TypeCorrect == Spec => []TypeOK
  BY TypeInit, TypeStep, PTL DEF Spec

-----------------------------------------------------------------------------
(* What a listing that nobody disturbs knows. *)

DeviceOf(v) == IF v \in Rows(vehicles) THEN vehicles[v].device ELSE None
Laden       == {shipments[s].vehicle : s \in Rows(shipments)} \ {None}

(* What has been read is still so, and an update that has not failed is in    *)
(* the table.                                                               *)
Devised(q) == \A v \in Vehicles : q.fleet[v] = DeviceOf(v)
Covered(q) ==
    /\ q.moving \subseteq q.positions
    /\ \A d \in q.positions : motion[d] # "none"
    /\ \A v \in Vehicles : q.fleet[v] \in Numeric \ q.unread => Number(q.fleet[v]) \in q.positions
Watched(q) == Covered(q) /\ \A d \in q.positions : d \in q.moving <=> motion[d] = "moving"
Loaded(q)  == q.shipmentsRead => q.laden = Laden
Written(q) ==
    q.step = "writes" =>
       /\ q.unread = {} /\ q.shipmentsRead
       /\ ~ q.failed => \A v \in Vehicles \ q.pending :
             q.fleet[v] \in Devices => vehicles[v].status = NewStatus(q, v)

Fresh(q) == Devised(q) /\ Watched(q) /\ Loaded(q) /\ Written(q)

FreshInv == \A l \in Listings \ disturbed : listings[l].step # "idle" => Fresh(listings[l])

LEMMA FreshStays ==
    ASSUME NEW q, Fresh(q), UNCHANGED <<vehicles, shipments, motion>>
    PROVE  Fresh(q)'
  BY DEF Fresh, Devised, Watched, Covered, Loaded, Written, DeviceOf, Laden

(* The steps that leave the listings alone: either they leave alone what      *)
(* these read and write, or they disturb them.                              *)
LEMMA OthersKeepFresh ==
    ASSUME FreshInv, UNCHANGED listings,
           \/ UNCHANGED <<vehicles, shipments, motion, disturbed>>
           \/ Disturbs(Listings)
    PROVE  FreshInv'
<1>1. CASE UNCHANGED <<vehicles, shipments, motion, disturbed>>
  BY <1>1, FreshStays DEF FreshInv
<1>2. CASE Disturbs(Listings)
  <2>1. ASSUME NEW l \in Listings, l \notin disturbed', listings'[l].step # "idle"
        PROVE  FALSE
    BY <1>2, <2>1 DEF Disturbs, Busy
  <2> QED
    BY <2>1 DEF FreshInv
<1> QED
  BY <1>1, <1>2

(* One listing reads, or ends.                                                *)
LEMMA OneListing ==
    ASSUME TypeOK, FreshInv, NEW l \in Listings, NEW q \in Listing \cup {Idle},
           listings' = [listings EXCEPT ![l] = q], UNCHANGED <<vehicles, shipments, motion>>,
           disturbed \subseteq disturbed' \cup {l},
           q.step # "idle" /\ l \notin disturbed' => Fresh(q)
    PROVE  FreshInv'
<1>1. ASSUME NEW x \in Listings, x \notin disturbed', listings'[x].step # "idle"
      PROVE  Fresh(listings'[x])
  <2>1. listings'[x] = IF x = l THEN q ELSE listings[x]
    BY DEF TypeOK
  <2> QED
    BY <1>1, <2>1 DEF FreshInv
<1>2. ASSUME NEW x \in Listings, x \notin disturbed', listings'[x].step # "idle"
      PROVE  Fresh(listings[x])'
  <2>1. Fresh(listings'[x])
    BY <1>1, <1>2
  <2> QED
    BY <2>1 DEF Fresh, Devised, Watched, Covered, Loaded, Written, DeviceOf, Laden
<1> QED
  BY <1>2 DEF FreshInv

LEMMA AfterFresh ==
    ASSUME NEW r \in Listing, r.step = "reads", Fresh(r)
    PROVE  Fresh(After(r)) /\ After(r) \in Listing /\ After(r).step # "idle"
<1> DEFINE q == [r EXCEPT !.step = "writes", !.pending = {v \in Vehicles : r.fleet[v] \in r.positions}]
<1>1. CASE ~ ReadsDone(r)
  BY <1>1, AfterFacts DEF After
<1>2. CASE ReadsDone(r)
  <2>1. /\ q.fleet = r.fleet /\ q.unread = r.unread /\ q.positions = r.positions /\ q.moving = r.moving
        /\ q.shipmentsRead = r.shipmentsRead /\ q.laden = r.laden /\ q.step = "writes"
        /\ q.pending = {v \in Vehicles : r.fleet[v] \in r.positions} /\ q.positions = r.positions
    BY DEF Listing
  <2>2. After(r) = q
    BY <1>2 DEF After
  <2>3. r.unread = {} /\ r.shipmentsRead
    BY <1>2 DEF ReadsDone
  <2> HIDE DEF q
  <2>4. Devised(q) /\ Watched(q) /\ Loaded(q)
    BY <2>1 DEF Fresh, Devised, Watched, Covered, Loaded
  <2>5. ASSUME NEW v \in Vehicles \ q.pending PROVE q.fleet[v] \notin Devices
    BY <2>1, <2>3, Numbers DEF Fresh, Watched, Covered
  <2>6. Written(q)
    BY <2>1, <2>3, <2>5 DEF Written
  <2> QED
    BY <2>1, <2>2, <2>4, <2>6, AfterFacts DEF Fresh
<1> QED
  BY <1>1, <1>2

LEMMA ListFresh ==
    ASSUME TypeOK, FreshInv, NEW l \in Listings, ListVehicles(l)
    PROVE  FreshInv'
<1> DEFINE fleet == [v \in Vehicles |-> IF v \in Rows(vehicles) THEN vehicles[v].device ELSE None]
           unread == {fleet[v] : v \in Vehicles} \cap Numeric
           q == [step |-> "reads", fleet |-> fleet, unread |-> unread,
                 positions |-> {}, moving |-> {}, shipmentsRead |-> FALSE, laden |-> {},
                 pending |-> {}, failed |-> FALSE]
<1>1. fleet \in [Vehicles -> DeviceIds \cup {None}]
  BY FleetRead
<1>2. \A v \in Vehicles : fleet[v] = DeviceOf(v)
  BY DEF DeviceOf
<1>3. listings' = [listings EXCEPT ![l] = q] /\ UNCHANGED <<vehicles, shipments, motion, disturbed>>
  BY DEF ListVehicles, tables
<1> HIDE DEF fleet
<1>4. unread \subseteq Numeric /\ \A v \in Vehicles : fleet[v] \notin Numeric \ unread
  OBVIOUS
<1> HIDE DEF unread
<1>5. /\ q.fleet = fleet /\ q.unread = unread /\ q.positions = {} /\ q.moving = {}
      /\ q.shipmentsRead = FALSE
      /\ q.step = "reads"
  OBVIOUS
<1>6. q \in Listing
  BY <1>1, <1>4 DEF Listing
<1> HIDE DEF q
<1>7. Fresh(q)
  BY <1>2, <1>4, <1>5 DEF Fresh, Devised, Watched, Covered, Loaded, Written
<1> QED
  BY <1>3, <1>6, <1>7, OneListing

(* Another position of a device changes nothing: the first is found.          *)
LEMMA NotedTrue ==
    ASSUME TypeOK, NEW r \in Listing, NEW id \in Numeric, motion[Number(id)] # "none"
    PROVE  /\ Noted(r, id).fleet = r.fleet /\ Noted(r, id).laden = r.laden
           /\ Noted(r, id).shipmentsRead = r.shipmentsRead /\ Noted(r, id).step = r.step
           /\ Covered(r) => Covered(Noted(r, id))
           /\ Watched(r) => Watched(Noted(r, id))
<1> DEFINE q == Noted(r, id)
           d == Number(id)
<1>1. /\ q.fleet = r.fleet /\ q.laden = r.laden
      /\ q.shipmentsRead = r.shipmentsRead /\ q.step = r.step
      /\ q.unread = r.unread \ {id} /\ q.positions = r.positions \cup {d}
      /\ q.moving = IF d \notin r.positions /\ motion[d] = "moving" THEN r.moving \cup {d} ELSE r.moving
  BY DEF Noted, Listing
<1> HIDE DEF q, d
<1>2. Covered(r) => Covered(q)
  <2> SUFFICES ASSUME Covered(r) PROVE Covered(q)
    OBVIOUS
  <2>1. q.moving \subseteq q.positions /\ \A x \in q.positions : motion[x] # "none"
    BY <1>1 DEF Covered, d
  <2>2. ASSUME NEW v \in Vehicles, q.fleet[v] \in Numeric \ q.unread
        PROVE  Number(q.fleet[v]) \in q.positions
    <3>1. CASE q.fleet[v] = id
      BY <1>1, <3>1 DEF d
    <3>2. CASE q.fleet[v] # id
      BY <1>1, <2>2, <3>2 DEF Covered
    <3> QED
      BY <3>1, <3>2
  <2> QED
    BY <2>1, <2>2 DEF Covered
<1>3. Watched(r) => Watched(q)
  <2> SUFFICES ASSUME Watched(r) PROVE Watched(q)
    OBVIOUS
  <2>1. ASSUME NEW x \in q.positions PROVE x \in q.moving <=> motion[x] = "moving"
    BY <1>1, <2>1 DEF Watched, Covered
  <2> QED
    BY <1>2, <2>1 DEF Watched
<1> QED
  BY <1>1, <1>2, <1>3 DEF q

LEMMA ReadPositionFresh ==
    ASSUME TypeOK, FreshInv, NEW l \in Listings, NEW id \in Numeric, ReadPosition(l, id)
    PROVE  FreshInv'
<1> DEFINE r == listings[l]
           q == Noted(r, id)
<1>1. r \in Listing /\ r.step = "reads" /\ motion[Number(id)] # "none"
  BY ListingFacts DEF ReadPosition
<1>2. listings' = [listings EXCEPT ![l] = After(q)]
      /\ UNCHANGED <<vehicles, shipments, motion, disturbed>>
  BY DEF ReadPosition, Noted, tables
<1>3. q \in Listing
  BY <1>1, ReadNotes
<1>4. /\ q.fleet = r.fleet /\ q.laden = r.laden /\ q.shipmentsRead = r.shipmentsRead
      /\ q.step = "reads"
      /\ Watched(r) => Watched(q)
  BY <1>1, NotedTrue
<1> HIDE DEF q
<1>5. ASSUME l \notin disturbed PROVE Fresh(q)
  <2>1. Fresh(r)
    BY <1>1, <1>5 DEF FreshInv
  <2> QED
    BY <1>4, <2>1 DEF Fresh, Devised, Loaded, Written
<1>6. After(q) \in Listing
  BY <1>3, AfterFacts
<1>7. l \notin disturbed => Fresh(After(q))
  BY <1>3, <1>4, <1>5, AfterFresh
<1> QED
  BY <1>2, <1>6, <1>7, OneListing

LEMMA ReadShipmentsFresh ==
    ASSUME TypeOK, FreshInv, NEW l \in Listings, ReadShipments(l)
    PROVE  FreshInv'
<1> DEFINE r == listings[l]
           q == [r EXCEPT !.shipmentsRead = TRUE, !.laden = Laden]
<1>1. r \in Listing /\ r.step = "reads"
  BY ListingFacts DEF ReadShipments
<1>2. listings' = [listings EXCEPT ![l] = After(q)]
      /\ UNCHANGED <<vehicles, shipments, motion, disturbed>>
  BY DEF ReadShipments, tables, Laden
<1>3. q \in Listing
  BY <1>1, ReadNotes, LadenFacts DEF Laden
<1>4. /\ q.fleet = r.fleet /\ q.unread = r.unread /\ q.positions = r.positions /\ q.moving = r.moving
      /\ q.laden = Laden /\ q.step = "reads"
  BY <1>1 DEF Listing
<1> HIDE DEF q
<1>5. ASSUME l \notin disturbed PROVE Fresh(q)
  <2>1. Fresh(r)
    BY <1>1, <1>5 DEF FreshInv
  <2> QED
    BY <1>4, <2>1 DEF Fresh, Devised, Watched, Covered, Loaded, Written
<1>6. After(q) \in Listing
  BY <1>3, AfterFacts
<1>7. l \notin disturbed => Fresh(After(q))
  BY <1>3, <1>4, <1>5, AfterFresh
<1> QED
  BY <1>2, <1>6, <1>7, OneListing

(* An update that fails is not counted on any more.                           *)
LEMMA WriteFailsFresh ==
    ASSUME TypeOK, FreshInv, NEW l \in Listings, NEW v \in Vehicles, WriteFails(l, v)
    PROVE  FreshInv'
<1> DEFINE r == listings[l]
           q == [r EXCEPT !.pending = @ \ {v}, !.failed = TRUE]
<1>1. r \in Listing /\ r.step = "writes"
  BY ListingFacts DEF WriteFails
<1>2. listings' = [listings EXCEPT ![l] = q] /\ UNCHANGED <<vehicles, shipments, motion, disturbed>>
  BY DEF WriteFails, TypeOK, tables
<1>3. /\ q.fleet = r.fleet /\ q.unread = r.unread /\ q.positions = r.positions /\ q.moving = r.moving /\ q.failed
      /\ q.shipmentsRead = r.shipmentsRead /\ q.laden = r.laden /\ q.step = "writes"
  BY <1>1 DEF Listing
<1>4. q \in Listing
  BY <1>1 DEF Listing
<1> HIDE DEF q
<1>5. ASSUME l \notin disturbed PROVE Fresh(q)
  <2>1. Fresh(r)
    BY <1>1, <1>5 DEF FreshInv
  <2> QED
    BY <1>1, <1>3, <2>1 DEF Fresh, Devised, Watched, Covered, Loaded, Written
<1> QED
  BY <1>2, <1>4, <1>5, OneListing

LEMMA EndingFresh ==
    ASSUME TypeOK, FreshInv, NEW l \in Listings, Answer(l) \/ ListingFails(l)
    PROVE  FreshInv'
<1> DEFINE q == Idle
<1>1. /\ listings' = [listings EXCEPT ![l] = q] /\ UNCHANGED <<vehicles, shipments, motion>>
      /\ disturbed \subseteq disturbed' \cup {l}
  BY DEF Answer, ListingFails, tables
<1>2. q.step = "idle" /\ q \in Listing \cup {Idle}
  BY DEF Idle
<1> HIDE DEF q
<1> QED
  BY <1>1, <1>2, OneListing

(* An update puts into the table what the listing counts on, and disturbs     *)
(* the other listings if it changes anything.                               *)
LEMMA WriteStatusFresh ==
    ASSUME TypeOK, FreshInv, NEW l \in Listings, NEW v \in Vehicles, WriteStatus(l, v)
    PROVE  FreshInv'
<1> DEFINE r == listings[l]
           row == [vehicles[v] EXCEPT !.status = NewStatus(r, v)]
<1>1. /\ r \in Listing /\ r.step = "writes" /\ v \in Rows(vehicles)
      /\ UNCHANGED <<shipments, motion>>
  BY ListingFacts DEF WriteStatus
<1>2. /\ row \in VehicleRow
      /\ row.device = vehicles[v].device /\ row.status = NewStatus(r, v)
  BY <1>1, StatusRow
<1>3. vehicles' = [vehicles EXCEPT ![v] = row]
  BY DEF WriteStatus, TypeOK
<1> HIDE DEF row
<1>4. \A w \in Vehicles : vehicles'[w] = IF w = v THEN row ELSE vehicles[w]
  BY <1>3 DEF TypeOK
<1>5. Rows(vehicles') = Rows(vehicles)
  <2>1. DOMAIN vehicles' = Vehicles
    BY <1>3 DEF TypeOK
  <2> QED
    BY <1>1, <1>2, <1>4, <2>1, RowFacts, Nothing DEF Rows
<1>6. \A w \in Vehicles : DeviceOf(w)' = DeviceOf(w)
  BY <1>1, <1>2, <1>4, <1>5 DEF DeviceOf
<1>7. PICK lost \in BOOLEAN :
         listings' = [listings EXCEPT ![l].pending = @ \ {v}, ![l].failed = @ \/ lost]
  BY DEF WriteStatus
<1>8. PICK q : q = [r EXCEPT !.pending = @ \ {v}, !.failed = @ \/ lost]
  OBVIOUS
<1>9. listings' = [listings EXCEPT ![l] = q]
  BY <1>7, <1>8 DEF TypeOK
<1>10. /\ q.fleet = r.fleet /\ q.unread = r.unread /\ q.positions = r.positions /\ q.moving = r.moving
      /\ q.shipmentsRead = r.shipmentsRead /\ q.laden = r.laden /\ q.step = "writes"
      /\ q.pending = r.pending \ {v} /\ (r.failed => q.failed)
  BY <1>1, <1>8 DEF Listing
<1>11. \A x \in Listings : listings'[x] = IF x = l THEN q ELSE listings[x]
  BY <1>9 DEF TypeOK
<1>12. ASSUME Fresh(r)
       PROVE  Fresh(q)'
  <2>1. Devised(q)'
    BY <1>6, <1>10, <1>12 DEF Fresh, Devised
  <2>2. Watched(q)' /\ Loaded(q)'
    BY <1>1, <1>10, <1>12 DEF Fresh, Watched, Covered, Loaded, Laden
  <2>3. ASSUME ~ q.failed, NEW w \in Vehicles \ q.pending, q.fleet[w] \in Devices
        PROVE  vehicles'[w].status = NewStatus(q, w)
    <3>1. NewStatus(q, w) = NewStatus(r, w)
      BY <1>10 DEF NewStatus
    <3>2. CASE w = v
      BY <1>2, <1>4, <3>1, <3>2
    <3>3. CASE w # v
      <4>1. w \in Vehicles \ r.pending /\ r.fleet[w] \in Devices /\ ~ r.failed
        BY <1>10, <2>3, <3>3
      <4> QED
        BY <1>1, <1>4, <1>12, <3>1, <3>3, <4>1 DEF Fresh, Written
    <3> QED
      BY <3>2, <3>3
  <2>4. q.unread = {} /\ q.shipmentsRead
    BY <1>1, <1>10, <1>12 DEF Fresh, Written
  <2>5. Written(q)'
    BY <2>3, <2>4 DEF Written, NewStatus
  <2> QED
    BY <2>1, <2>2, <2>5 DEF Fresh
<1>13. ASSUME NEW x \in Listings, x \notin disturbed', listings'[x].step # "idle"
       PROVE  Fresh(listings[x])'
  <2>1. x \notin disturbed
    BY <1>13 DEF WriteStatus, Disturbs
  <2>2. CASE x = l
    <3>1. Fresh(r)
      BY <1>1, <2>1, <2>2 DEF FreshInv
    <3>2. Fresh(q)' /\ listings'[x] = q
      BY <1>11, <1>12, <2>2, <3>1
    <3> QED
      BY <3>2 DEF Fresh, Devised, Watched, Covered, Loaded, Written, DeviceOf, Laden
  <2>3. CASE x # l
    <3>1. listings'[x] = listings[x] /\ x \in Busy
      BY <1>11, <1>13, <2>3 DEF Busy
    <3>2. vehicles' = vehicles
      BY <1>13, <2>3, <3>1 DEF WriteStatus, Disturbs
    <3>3. Fresh(listings[x])
      BY <1>13, <2>1, <3>1 DEF FreshInv
    <3> QED
      BY <1>1, <3>1, <3>2, <3>3
         DEF Fresh, Devised, Watched, Covered, Loaded, Written, DeviceOf, Laden
  <2> QED
    BY <2>2, <2>3
<1> QED
  BY <1>13 DEF FreshInv

LEMMA FreshStep == TypeOK /\ FreshInv /\ [Next]_vars => FreshInv'
<1> SUFFICES ASSUME TypeOK, FreshInv, [Next]_vars PROVE FreshInv'
  OBVIOUS
<1>1. CASE UNCHANGED vars
  BY <1>1, OthersKeepFresh DEF vars, tables
<1>2. ASSUME NEW e \in Edits, EditStep(e) PROVE FreshInv'
  <2>1. /\ UNCHANGED listings
        /\ \/ UNCHANGED <<vehicles, shipments, motion, disturbed>>
           \/ Disturbs(Listings)
    BY <1>2 DEF EditStep, Start, Find, FindPlate, EditFails, MakeDriver, MakeCustomer,
         DeleteDriver, DeleteCustomer, CreateVehicle, UpdateVehicle, PutVehicle, DeleteVehicle,
         WriteShipment, DeleteShipment, PutShipment, tables
  <2> QED
    BY <2>1, OthersKeepFresh
<1>3. ASSUME NEW l \in Listings, ListingStep(l) PROVE FreshInv'
  BY <1>3, ListFresh, ReadShipmentsFresh, ReadPositionFresh, WriteStatusFresh, WriteFailsFresh,
     EndingFresh DEF ListingStep
<1>4. CASE (\E d \in Drivers : CreateDriver(d)) \/ (\E c \in Customers : CreateCustomer(c))
  BY <1>4, OthersKeepFresh DEF CreateDriver, CreateCustomer
<1>5. ASSUME NEW d \in Devices, NEW m \in Motions, TraccarReports(d, m) PROVE FreshInv'
  BY <1>5, OthersKeepFresh DEF TraccarReports
<1> QED
  BY <1>1, <1>2, <1>3, <1>4, <1>5 DEF Next

(* What a listing that counts on all its updates has found is what there is.  *)
LEMMA FreshSettles ==
    ASSUME TypeOK, NEW l \in Listings, Fresh(listings[l]), Done(l), ~ listings[l].failed
    PROVE  StatusesFit
<1> DEFINE q == listings[l]
<1> SUFFICES ASSUME NEW v \in Rows(vehicles)
             PROVE  Fits(v)
  BY DEF StatusesFit
<1>1. q.step = "writes" /\ q.pending = {} /\ q.unread = {} /\ q.shipmentsRead
  BY DEF Done, Fresh, Written
<1>2. v \in Vehicles
  BY RowFacts
<1>3. PICK id : id = vehicles[v].device /\ q.fleet[v] = id
  BY <1>2 DEF Fresh, Devised, DeviceOf
<1>4. ASSUME id \in Numeric PROVE motion[Number(id)] # "none"
  BY <1>1, <1>2, <1>3, <1>4 DEF Fresh, Watched, Covered
<1>5. ASSUME id \in Devices
      PROVE  vehicles[v].status =
                StatusFor(\E s \in Rows(shipments) : shipments[s].vehicle = v, motion[id] = "moving")
  <2>1. id \in q.positions
    BY <1>1, <1>2, <1>3, <1>5, Numbers DEF Fresh, Watched, Covered
  <2>2. id \in q.moving <=> motion[id] = "moving"
    BY <2>1 DEF Fresh, Watched
  <2>3. v \in q.laden <=> \E s \in Rows(shipments) : shipments[s].vehicle = v
    BY <1>1, <1>2, Nothing DEF Fresh, Loaded, Laden
  <2>4. vehicles[v].status = NewStatus(q, v)
    BY <1>1, <1>2, <1>3, <1>5 DEF Fresh, Written
  <2> QED
    BY <1>3, <2>2, <2>3, <2>4 DEF NewStatus, StatusFor
<1> QED
  BY <1>3, <1>4, <1>5 DEF Fits

(* A listing that nobody disturbs answers when every status is right: what    *)
(* it has read is still so, and none of its updates is missing.              *)
THEOREM ListingsSettle == Spec => []ListingSettles
<1>1. Init => FreshInv
  BY DEF Init, FreshInv, Idle
<1>2. TypeOK /\ FreshInv => ListingSettles
  <2> SUFFICES ASSUME TypeOK, FreshInv, NEW l \in Listings \ disturbed, Done(l), ~ listings[l].failed
               PROVE  StatusesFit
    BY DEF ListingSettles
  <2>1. Fresh(listings[l])
    BY DEF FreshInv, Done
  <2> QED
    BY <2>1, FreshSettles
<1> QED
  BY <1>1, <1>2, FreshStep, TypeCorrect, PTL DEF Spec

-----------------------------------------------------------------------------
(* Where a change of a row comes from. *)

Accounted == (\A v \in Vehicles : VehicleChange(v)) /\ (\A s \in Shipments : ShipmentChange(s))

LEMMA RowsStay ==
    /\ UNCHANGED vehicles => \A v \in Vehicles : VehicleChange(v)
    /\ UNCHANGED shipments => \A s \in Shipments : ShipmentChange(s)
  BY DEF VehicleChange, ShipmentChange

(* A create draws a new id, whatever the request.                             *)
LEMMA CreateAccounted ==
    ASSUME TypeOK, NEW e \in Edits, CreateVehicle(e)
    PROVE  Accounted
<1> DEFINE row == [plate |-> edits[e].ask.plate, device |-> Given(edits[e].ask.device, None),
                   status |-> edits[e].ask.status, driver |-> Parent(e)]
<1>1. PICK v \in Vehicles : v \notin Rows(vehicles) /\ PutVehicle(e, v, row)
  BY DEF CreateVehicle, FreeVehicles, Free
<1>2. Asks(e, "create", "vehicle")
  BY DEF CreateVehicle
<1>3. edits[e].ask.id = Absent
  BY <1>1, <1>2, CreatedRow DEF PutVehicle
<1> HIDE DEF row
<1>4. vehicles' = [vehicles EXCEPT ![v] = row] /\ UNCHANGED shipments
  BY <1>1 DEF PutVehicle
<1>5. ASSUME NEW w \in Vehicles PROVE VehicleChange(w)
  <2>1. CASE w = v
    <3>1. vehicles[w] = None
      BY <1>1, <2>1, RowFacts
    <3>2. Writes(e, "create", "vehicle", w)
      BY <1>2, <1>3 DEF Writes
    <3> QED
      BY <3>1, <3>2 DEF VehicleChange
  <2>2. CASE w # v
    BY <1>4, <2>2 DEF VehicleChange, TypeOK
  <2> QED
    BY <2>1, <2>2
<1> QED
  BY <1>4, <1>5, RowsStay DEF Accounted

LEMMA UpdateAccounted ==
    ASSUME TypeOK, NEW e \in Edits, UpdateVehicle(e)
    PROVE  Accounted
<1> DEFINE v == edits[e].ask.id
           row == Merged(e, vehicles[v])
<1>1. Asks(e, "update", "vehicle") /\ v \in Rows(vehicles) /\ v \in Vehicles /\ PutVehicle(e, v, row)
  BY RowFacts DEF UpdateVehicle
<1>2. /\ row \in VehicleRow
      /\ row.plate \in {vehicles[v].plate, edits[e].ask.plate}
      /\ row.device \in {vehicles[v].device, edits[e].ask.device}
      /\ row.status \in {vehicles[v].status, edits[e].ask.status}
      /\ row.driver \in {vehicles[v].driver, edits[e].ask.parent, edits[e].made}
  BY <1>1, MergedFacts DEF PutVehicle
<1> HIDE DEF row
<1>3. vehicles' = [vehicles EXCEPT ![v] = row] /\ UNCHANGED shipments
  BY <1>1 DEF PutVehicle
<1>4. ASSUME NEW w \in Vehicles PROVE VehicleChange(w)
  <2>1. CASE w = v
    <3>1. vehicles[w] # None /\ vehicles'[w] = row /\ row # None
      BY <1>1, <1>2, <1>3, <2>1, RowFacts, Nothing DEF TypeOK
    <3>2. Writes(e, "update", "vehicle", w)
      BY <1>1, <2>1 DEF Writes
    <3> QED
      BY <1>2, <2>1, <3>1, <3>2 DEF VehicleChange
  <2>2. CASE w # v
    BY <1>3, <2>2 DEF VehicleChange, TypeOK
  <2> QED
    BY <2>1, <2>2
<1> QED
  BY <1>3, <1>4, RowsStay DEF Accounted

LEMMA DeleteAccounted ==
    ASSUME TypeOK, NEW e \in Edits, DeleteVehicle(e)
    PROVE  Accounted
<1> DEFINE v == edits[e].ask.id
<1>1. Asks(e, "delete", "vehicle") /\ v \in Vehicles /\ v \in Rows(vehicles)
  BY RowFacts DEF DeleteVehicle
<1>2. \A w \in Vehicles : vehicles'[w] = IF w = v THEN None ELSE vehicles[w]
  BY DEF DeleteVehicle, TypeOK
<1>3. \A s \in Shipments : shipments'[s] =
          IF s \in Rows(shipments) /\ shipments[s].vehicle = v
          THEN [shipments[s] EXCEPT !.vehicle = None] ELSE shipments[s]
  BY DEF DeleteVehicle
<1>4. ASSUME NEW w \in Vehicles PROVE VehicleChange(w)
  <2>1. CASE w = v
    <3>1. Writes(e, "delete", "vehicle", w)
      BY <1>1, <2>1 DEF Writes
    <3> QED
      BY <1>2, <2>1, <3>1 DEF VehicleChange
  <2>2. CASE w # v
    BY <1>2, <2>2 DEF VehicleChange
  <2> QED
    BY <2>1, <2>2
<1>5. ASSUME NEW s \in Shipments PROVE ShipmentChange(s)
  <2>1. CASE s \in Rows(shipments) /\ shipments[s].vehicle = v
    <3>1. shipments[s] # None /\ vehicles'[shipments[s].vehicle] = None
      BY <1>1, <1>2, <2>1, RowFacts
    <3> QED
      BY <1>3, <2>1, <3>1 DEF ShipmentChange
  <2>2. CASE ~ (s \in Rows(shipments) /\ shipments[s].vehicle = v)
    BY <1>3, <2>2 DEF ShipmentChange
  <2> QED
    BY <2>1, <2>2
<1> QED
  BY <1>4, <1>5 DEF Accounted

LEMMA ShipmentAccounted ==
    ASSUME TypeOK, NEW e \in Edits, WriteShipment(e) \/ DeleteShipment(e)
    PROVE  Accounted
<1> DEFINE r == edits[e].ask
<1>1. UNCHANGED vehicles
  BY DEF WriteShipment, DeleteShipment, PutShipment
<1>2. CASE DeleteShipment(e)
  <2>1. /\ Asks(e, "delete", "shipment") /\ r.id \in Shipments
        /\ shipments' = [shipments EXCEPT ![r.id] = None]
    BY <1>2, RowFacts DEF DeleteShipment, PutShipment
  <2>2. ASSUME NEW s \in Shipments PROVE ShipmentChange(s)
    <3>1. CASE s = r.id
      <4>1. Writes(e, "delete", "shipment", s) /\ shipments'[s] = None
        BY <2>1, <3>1 DEF Writes, TypeOK
      <4> QED
        BY <4>1 DEF ShipmentChange
    <3>2. CASE s # r.id
      BY <2>1, <3>2 DEF ShipmentChange, TypeOK
    <3> QED
      BY <3>1, <3>2
  <2> QED
    BY <1>1, <2>2, RowsStay DEF Accounted
<1>3. CASE WriteShipment(e)
  <2> DEFINE row == [customer |-> Parent(e), vehicle |-> Given(r.vehicle, None)]
  <2>1. At(e, "write") /\ ~ At(e, "idle") /\ r.table = "shipment" /\ r.op # "delete"
    BY <1>3 DEF WriteShipment, At
  <2>2. r \in Request
    BY <2>1, EditFacts
  <2>3. row \in ShipmentRow
    <3>1. ShipmentFits(row)
      BY <1>3 DEF WriteShipment
    <3> QED
      BY <3>1, RowFacts DEF ShipmentFits, ShipmentRow, TypeOK
  <2>4. /\ row # None /\ row.customer \in {r.parent, edits[e].made}
        /\ row.vehicle \in {r.vehicle, None}
    BY <2>3, Nothing DEF Parent, Given
  <2>5. PICK t \in Shipments :
           /\ shipments' = [shipments EXCEPT ![t] = row]
           /\ \/ r.op = "create" /\ t \notin Rows(shipments)
              \/ r.op = "update" /\ t = r.id /\ t \in Rows(shipments)
    BY <1>3, RowFacts DEF WriteShipment, PutShipment, Free
  <2> HIDE DEF row
  <2>6. ASSUME NEW s \in Shipments PROVE ShipmentChange(s)
    <3>1. CASE s = t /\ r.op = "create"
      <4>1. r.id = Absent /\ shipments[s] = None
        BY <2>1, <2>2, <2>5, <3>1, ShipmentAsk, RowFacts
      <4>2. Writes(e, "create", "shipment", s)
        BY <2>1, <3>1, <4>1 DEF Writes, Asks
      <4> QED
        BY <4>1, <4>2 DEF ShipmentChange
    <3>2. CASE s = t /\ r.op # "create"
      <4>1. r.op = "update" /\ r.id = s /\ shipments[s] # None /\ shipments'[s] = row
        BY <2>5, <3>2, RowFacts DEF TypeOK
      <4>2. Writes(e, "update", "shipment", s)
        BY <2>1, <4>1 DEF Writes, Asks
      <4> QED
        BY <2>4, <4>1, <4>2 DEF ShipmentChange
    <3>3. CASE s # t
      BY <2>5, <3>3 DEF ShipmentChange, TypeOK
    <3> QED
      BY <3>1, <3>2, <3>3
  <2> QED
    BY <1>1, <2>6, RowsStay DEF Accounted
<1> QED
  BY <1>2, <1>3

(* A listing writes the status and nothing else.                              *)
LEMMA StatusAccounted ==
    ASSUME TypeOK, NEW l \in Listings, NEW v \in Vehicles, WriteStatus(l, v)
    PROVE  Accounted
<1> DEFINE row == [vehicles[v] EXCEPT !.status = NewStatus(listings[l], v)]
<1>1. /\ v \in Rows(vehicles) /\ listings[l].step = "writes" /\ v \in listings[l].pending
      /\ UNCHANGED shipments
  BY DEF WriteStatus
<1>2. vehicles' = [vehicles EXCEPT ![v] = row]
  BY DEF WriteStatus, TypeOK
<1>3. row \in VehicleRow /\ row.status = NewStatus(listings[l], v)
  BY <1>1, StatusRow
<1>4. row = [vehicles[v] EXCEPT !.status = row.status]
  BY <1>3
<1> HIDE DEF row
<1>5. ASSUME NEW w \in Vehicles PROVE VehicleChange(w)
  <2>1. CASE w = v
    <3>1. vehicles[w] # None /\ vehicles'[w] = row /\ row # None
      BY <1>1, <1>2, <1>3, <2>1, RowFacts, Nothing DEF TypeOK
    <3> QED
      BY <1>1, <1>4, <2>1, <3>1 DEF VehicleChange
  <2>2. CASE w # v
    BY <1>2, <2>2 DEF VehicleChange, TypeOK
  <2> QED
    BY <2>1, <2>2
<1> QED
  BY <1>1, <1>5, RowsStay DEF Accounted

LEMMA StepAccounted == TypeOK /\ [Next]_vars => Accounted
<1> SUFFICES ASSUME TypeOK, [Next]_vars PROVE Accounted
  OBVIOUS
<1>1. CASE UNCHANGED <<vehicles, shipments>>
  BY <1>1, RowsStay DEF Accounted
<1>2. ASSUME NEW e \in Edits, EditStep(e) PROVE Accounted
  <2>1. \/ UNCHANGED <<vehicles, shipments>>
        \/ CreateVehicle(e) \/ UpdateVehicle(e) \/ DeleteVehicle(e)
        \/ WriteShipment(e) \/ DeleteShipment(e)
    BY <1>2 DEF EditStep, Start, Find, FindPlate, EditFails, MakeDriver, MakeCustomer,
         DeleteDriver, DeleteCustomer, tables
  <2> QED
    BY <1>1, <2>1, CreateAccounted, UpdateAccounted, DeleteAccounted, ShipmentAccounted
<1>3. ASSUME NEW l \in Listings, ListingStep(l) PROVE Accounted
  <2>1. UNCHANGED <<vehicles, shipments>> \/ \E v \in Vehicles : WriteStatus(l, v)
    BY <1>3 DEF ListingStep, ListVehicles, ReadShipments, Answer, ListingFails, ReadPosition,
         WriteFails, tables
  <2> QED
    BY <1>1, <2>1, StatusAccounted
<1>4. CASE \/ UNCHANGED vars
           \/ \E d \in Drivers : CreateDriver(d)
           \/ \E c \in Customers : CreateCustomer(c)
           \/ \E d \in Devices, m \in Motions : TraccarReports(d, m)
  BY <1>1, <1>4 DEF vars, tables, CreateDriver, CreateCustomer, TraccarReports
<1> QED
  BY <1>2, <1>3, <1>4 DEF Next

(* However requests and listings overlap, a row comes, goes and changes only  *)
(* because a request that is at its write asks for that very thing, or a     *)
(* listing writes its status.                                               *)
THEOREM NothingIsUndone == Spec => NothingUndone
<1>1. TypeOK /\ [Next]_vars => [Accounted]_vars
  BY StepAccounted
<1>2. Accounted <=> /\ \A v \in Vehicles : VehicleChange(v)
                    /\ \A s \in Shipments : ShipmentChange(s)
  BY DEF Accounted
<1> QED
  BY <1>1, <1>2, TypeCorrect, PTL DEF Spec, NothingUndone
-----------------------------------------------------------------------------
(* The statuses settle. *)

Apt(v) == v \in Rows(vehicles) => Fits(v)

(* What has been read is still so; unlike Fresh, nothing is said of updates.  *)
Truthful(q) ==
    /\ Devised(q) /\ Watched(q) /\ Loaded(q)
    /\ q.step = "writes" => q.unread = {} /\ q.shipmentsRead

(* An update that leaves the status of its vehicle other than it should be.   *)
Upsets(l, v) == WriteStatus(l, v) /\ ~ Apt(v)'

(* The listing has read what is no longer so, and has v still to update.      *)
MayUpset(l, v) ==
    /\ listings[l].step # "idle" /\ ~ Truthful(listings[l])
    /\ listings[l].step = "writes" => v \in listings[l].pending

LEMMA FitsAll == TypeOK => (StatusesFit <=> \A v \in Vehicles : Apt(v))
  BY RowFacts DEF StatusesFit, Apt

LEMMA UpdateFacts ==
    ASSUME TypeOK, NEW l \in Listings, NEW v \in Vehicles, WriteStatus(l, v)
    PROVE  /\ \A w \in Vehicles : DeviceOf(w)' = DeviceOf(w)
           /\ \A w \in Vehicles \ {v} : vehicles'[w] = vehicles[w]
           /\ vehicles'[v].status = NewStatus(listings[l], v)
           /\ Rows(vehicles') = Rows(vehicles)
<1> DEFINE row == [vehicles[v] EXCEPT !.status = NewStatus(listings[l], v)]
<1>1. v \in Rows(vehicles) /\ listings[l] \in Listing /\ listings[l].step = "writes"
  BY ListingFacts DEF WriteStatus
<1>2. /\ row \in VehicleRow
      /\ row.device = vehicles[v].device /\ row.status = NewStatus(listings[l], v)
  BY <1>1, StatusRow
<1>3. vehicles' = [vehicles EXCEPT ![v] = row]
  BY DEF WriteStatus, TypeOK
<1> HIDE DEF row
<1>4. \A w \in Vehicles : vehicles'[w] = IF w = v THEN row ELSE vehicles[w]
  BY <1>3 DEF TypeOK
<1>5. Rows(vehicles') = Rows(vehicles)
  <2>1. DOMAIN vehicles' = Vehicles
    BY <1>3 DEF TypeOK
  <2> QED
    BY <1>1, <1>2, <1>4, <2>1, RowFacts, Nothing DEF Rows
<1>6. \A w \in Vehicles : DeviceOf(w)' = DeviceOf(w)
  BY <1>1, <1>2, <1>4, <1>5 DEF DeviceOf
<1> QED
  BY <1>2, <1>4, <1>5, <1>6

LEMMA QuietFacts ==
    ASSUME TypeOK, OnlyListingsWrite
    PROVE  /\ UNCHANGED <<shipments, motion>>
           /\ \A w \in Vehicles : DeviceOf(w)' = DeviceOf(w)
<1>1. CASE vehicles' = vehicles
  BY <1>1 DEF OnlyListingsWrite, DeviceOf
<1>2. CASE vehicles' # vehicles
  BY <1>2, UpdateFacts DEF OnlyListingsWrite
<1> QED
  BY <1>1, <1>2 DEF OnlyListingsWrite

LEMMA TruthStays ==
    ASSUME TypeOK, OnlyListingsWrite, NEW q, Truthful(q)
    PROVE  Truthful(q)'
<1>1. Devised(q)'
  BY QuietFacts DEF Truthful, Devised
<1>2. Watched(q)' /\ Loaded(q)'
  BY QuietFacts DEF Truthful, Watched, Covered, Loaded, Laden
<1> QED
  BY <1>1, <1>2 DEF Truthful

(* The status that follows from what is so.                                   *)
Due(v, id) == StatusFor(\E s \in Rows(shipments) : shipments[s].vehicle = v, motion[id] = "moving")

LEMMA TruthFits ==
    ASSUME TypeOK, NEW q, Truthful(q), q.step = "writes", NEW v \in Rows(vehicles),
           NEW id, id = vehicles[v].device
    PROVE  /\ id \in Numeric => motion[Number(id)] # "none"
           /\ id \in Devices => NewStatus(q, v) = Due(v, id)
<1>1. v \in Vehicles /\ q.unread = {} /\ q.shipmentsRead
  BY RowFacts DEF Truthful
<1>2. q.fleet[v] = id
  BY <1>1 DEF Truthful, Devised, DeviceOf
<1>3. id \in Numeric => Number(id) \in q.positions /\ motion[Number(id)] # "none"
  BY <1>1, <1>2 DEF Truthful, Watched, Covered
<1>4. id \in Devices => (id \in q.moving <=> motion[id] = "moving")
  BY <1>3, Numbers DEF Truthful, Watched
<1>5. v \in q.laden <=> \E s \in Rows(shipments) : shipments[s].vehicle = v
  BY <1>1, Nothing DEF Truthful, Loaded, Laden
<1> QED
  BY <1>2, <1>3, <1>4, <1>5 DEF NewStatus, StatusFor, Due

LEMMA FreshIsTruthful ==
    ASSUME NEW q, Truthful(q), q.step = "reads"
    PROVE  Fresh(q)
  BY DEF Truthful, Fresh, Written

LEMMA TruthfulIfFresh ==
    ASSUME NEW q, Fresh(q)
    PROVE  Truthful(q)
  BY DEF Truthful, Fresh, Written

(* A listing starts with what is so.                                          *)
LEMMA StartsTruthful ==
    ASSUME TypeOK, NEW l \in Listings, ListVehicles(l)
    PROVE  listings'[l].step = "reads" /\ Truthful(listings'[l])
<1> DEFINE fleet == [v \in Vehicles |-> IF v \in Rows(vehicles) THEN vehicles[v].device ELSE None]
           unread == {fleet[v] : v \in Vehicles} \cap Numeric
           q == [step |-> "reads", fleet |-> fleet, unread |-> unread,
                 positions |-> {}, moving |-> {}, shipmentsRead |-> FALSE, laden |-> {},
                 pending |-> {}, failed |-> FALSE]
<1>1. fleet \in [Vehicles -> DeviceIds \cup {None}]
  BY FleetRead
<1>2. \A v \in Vehicles : fleet[v] = DeviceOf(v)
  BY DEF DeviceOf
<1>3. listings' = [listings EXCEPT ![l] = q]
  BY DEF ListVehicles
<1> HIDE DEF fleet
<1>4. unread \subseteq Numeric /\ \A v \in Vehicles : fleet[v] \notin Numeric \ unread
  OBVIOUS
<1> HIDE DEF unread
<1>5. /\ q.fleet = fleet /\ q.unread = unread /\ q.positions = {} /\ q.moving = {}
      /\ q.shipmentsRead = FALSE
      /\ q.step = "reads"
  OBVIOUS
<1> HIDE DEF q
<1>6. Truthful(q)
  BY <1>2, <1>4, <1>5 DEF Truthful, Devised, Watched, Covered, Loaded
<1>7. listings'[l] = q
  BY <1>3 DEF TypeOK
<1> QED
  BY <1>5, <1>6, <1>7

(* Updates start for all the vehicles whose deviceId is that of a position.    *)
Updates(q) ==
    q.step = "writes" /\ q.unread = {} /\ q.pending = {v \in Vehicles : q.fleet[v] \in q.positions}

LEMMA AfterUpdates ==
    ASSUME NEW r \in Listing, r.step = "reads"
    PROVE  /\ After(r).fleet = r.fleet
           /\ Covered(r) => Covered(After(r))
           /\ \/ After(r).step = "reads"
              \/ Updates(After(r))
<1>1. /\ After(r).fleet = r.fleet /\ After(r).unread = r.unread
      /\ After(r).positions = r.positions /\ After(r).moving = r.moving
  BY DEF After, Listing
<1>2. Covered(r) => Covered(After(r))
  BY <1>1 DEF Covered
<1>3. After(r).step = "reads" \/ Updates(After(r))
  BY DEF After, Listing, ReadsDone, Updates
<1> QED
  BY <1>1, <1>2, <1>3

(* What a listing reads is so.                                                *)
LEMMA ReadsTruthfully ==
    ASSUME TypeOK, NEW l \in Listings,
           ReadShipments(l) \/ \E id \in Numeric : ReadPosition(l, id)
    PROVE  /\ listings[l].step = "reads"
           /\ listings'[l].fleet = listings[l].fleet
           /\ listings'[l].step = "reads" \/ Updates(listings'[l])
           /\ Covered(listings[l]) => Covered(listings'[l])
           /\ Truthful(listings[l]) => Truthful(listings'[l])
<1> DEFINE r == listings[l]
           Goal == /\ listings'[l].fleet = r.fleet
                   /\ listings'[l].step = "reads" \/ Updates(listings'[l])
                   /\ Covered(r) => Covered(listings'[l])
                   /\ Truthful(r) => Truthful(listings'[l])
<1>1. r \in Listing /\ r.step = "reads"
  BY ListingFacts DEF ReadShipments, ReadPosition
<1>2. ASSUME NEW q \in Listing, listings' = [listings EXCEPT ![l] = After(q)],
             q.fleet = r.fleet, q.step = "reads",
             Covered(r) => Covered(q), Truthful(r) => Truthful(q)
      PROVE  Goal
  <2>1. listings'[l] = After(q)
    BY <1>2 DEF TypeOK
  <2>2. ASSUME Truthful(q) PROVE Truthful(After(q))
    <3>1. Fresh(q)
      BY <1>2, <2>2, FreshIsTruthful
    <3>2. Fresh(After(q))
      BY <1>2, <3>1, AfterFresh
    <3> QED
      BY <3>2, TruthfulIfFresh
  <2> QED
    BY <1>2, <2>1, <2>2, AfterUpdates
<1>3. ASSUME ReadShipments(l) PROVE Goal
  <2> DEFINE q == [r EXCEPT !.shipmentsRead = TRUE, !.laden = Laden]
  <2>1. listings' = [listings EXCEPT ![l] = After(q)]
    BY <1>3 DEF ReadShipments, Laden
  <2>2. q \in Listing
    BY <1>1, ReadNotes, LadenFacts DEF Laden
  <2>3. /\ q.fleet = r.fleet /\ q.unread = r.unread /\ q.positions = r.positions
        /\ q.moving = r.moving /\ q.laden = Laden /\ q.step = "reads"
    BY <1>1 DEF Listing
  <2> HIDE DEF q
  <2>4. (Covered(r) => Covered(q)) /\ (Watched(r) => Watched(q))
    BY <2>3 DEF Watched, Covered
  <2>5. Truthful(r) => Truthful(q)
    BY <2>3, <2>4 DEF Truthful, Devised, Loaded
  <2>6. q.fleet = r.fleet /\ q.step = "reads"
    BY <2>3
  <2> HIDE DEF Goal
  <2> QED
    BY <1>2, <2>1, <2>2, <2>4, <2>5, <2>6
<1>4. ASSUME NEW id \in Numeric, ReadPosition(l, id) PROVE Goal
  <2> DEFINE q == Noted(r, id)
  <2>1. listings' = [listings EXCEPT ![l] = After(q)] /\ motion[Number(id)] # "none"
    BY <1>4 DEF ReadPosition, Noted
  <2>2. q \in Listing
    BY <1>1, ReadNotes
  <2>3. /\ q.fleet = r.fleet /\ q.laden = r.laden /\ q.shipmentsRead = r.shipmentsRead
        /\ q.step = "reads"
        /\ Covered(r) => Covered(q)
        /\ Watched(r) => Watched(q)
    BY <1>1, <2>1, NotedTrue
  <2> HIDE DEF q
  <2>4. Truthful(r) => Truthful(q)
    BY <2>3 DEF Truthful, Devised, Loaded
  <2> HIDE DEF Goal
  <2> QED
    BY <1>1, <1>2, <2>1, <2>2, <2>3, <2>4
<1> QED
  BY <1>1, <1>3, <1>4

(* An update takes its vehicle off the list, done or not.                     *)
LEMMA UpdatesEnd ==
    ASSUME TypeOK, NEW l \in Listings, NEW v \in Vehicles, WriteStatus(l, v) \/ WriteFails(l, v)
    PROVE  /\ listings[l].step = "writes" /\ listings'[l].step = "writes"
           /\ v \in listings[l].pending
           /\ listings'[l].pending = listings[l].pending \ {v}
           /\ listings'[l].fleet = listings[l].fleet
           /\ listings[l].failed \/ WriteFails(l, v) => listings'[l].failed
           /\ Covered(listings[l]) => Covered(listings'[l])
           /\ Truthful(listings[l]) => Truthful(listings'[l])
<1> DEFINE r == listings[l]
<1>1. r \in Listing /\ r.step = "writes" /\ v \in r.pending
  BY ListingFacts DEF WriteStatus, WriteFails
<1>2. PICK lost \in BOOLEAN :
         /\ listings' = [listings EXCEPT ![l].pending = @ \ {v}, ![l].failed = @ \/ lost]
         /\ WriteFails(l, v) => lost
  <2>1. CASE WriteStatus(l, v) /\ ~ WriteFails(l, v)
    BY <2>1 DEF WriteStatus
  <2>2. CASE WriteFails(l, v)
    <3>1. listings' = [listings EXCEPT ![l].pending = @ \ {v}, ![l].failed = TRUE]
      BY <2>2 DEF WriteFails
    <3>2. r.failed \/ TRUE <=> TRUE
      OBVIOUS
    <3> QED
      BY <1>1, <3>1, <3>2 DEF TypeOK
  <2> QED
    BY <2>1, <2>2
<1>3. PICK q : q = [r EXCEPT !.pending = @ \ {v}, !.failed = @ \/ lost]
  OBVIOUS
<1>4. listings'[l] = q
  BY <1>2, <1>3 DEF TypeOK
<1>5. /\ q.fleet = r.fleet /\ q.unread = r.unread /\ q.positions = r.positions /\ q.moving = r.moving
      /\ q.shipmentsRead = r.shipmentsRead /\ q.laden = r.laden /\ q.step = "writes"
      /\ q.pending = r.pending \ {v} /\ (r.failed \/ lost => q.failed)
  BY <1>1, <1>3 DEF Listing
<1>6. (Covered(r) => Covered(q)) /\ (Truthful(r) => Truthful(q))
  BY <1>1, <1>5 DEF Truthful, Devised, Watched, Covered, Loaded
<1> QED
  BY <1>1, <1>2, <1>4, <1>5, <1>6

LEMMA OthersListings ==
    ASSUME TypeOK, NEW l \in Listings, [Next]_vars
    PROVE  ListingStep(l) \/ listings'[l] = listings[l]
<1>1. UNCHANGED vars => listings' = listings
  BY DEF vars
<1>2. ASSUME NEW e \in Edits, EditStep(e) PROVE listings' = listings
  BY <1>2 DEF EditStep, Start, Find, FindPlate, EditFails, MakeDriver, MakeCustomer,
     DeleteDriver, DeleteCustomer, CreateVehicle, UpdateVehicle, PutVehicle, DeleteVehicle,
     WriteShipment, DeleteShipment, PutShipment
<1>3. ASSUME NEW m \in Listings, m # l, ListingStep(m) PROVE listings'[l] = listings[l]
  BY <1>3 DEF ListingStep, ListVehicles, ReadShipments, Answer, ListingFails, ReadPosition,
     WriteStatus, WriteFails, TypeOK
<1>4. (\E d \in Drivers : CreateDriver(d)) \/ (\E c \in Customers : CreateCustomer(c))
      \/ (\E d \in Devices, m \in Motions : TraccarReports(d, m)) => listings' = listings
  BY DEF CreateDriver, CreateCustomer, TraccarReports
<1> QED
  BY <1>1, <1>2, <1>3, <1>4 DEF Next

LEMMA EndsIdle ==
    ASSUME TypeOK, NEW l \in Listings, Answer(l) \/ ListingFails(l)
    PROVE  listings'[l].step = "idle"
  BY DEF Answer, ListingFails, TypeOK, Idle

(* When only listings write, one that has read what is so goes on to know     *)
(* what is so, and one that has not comes to no new update.                   *)
LEMMA UpsetsNoMore ==
    ASSUME TypeOK, [Next]_vars, OnlyListingsWrite, NEW l \in Listings, NEW v \in Vehicles
    PROVE  MayUpset(l, v)' => MayUpset(l, v)
<1> SUFFICES ASSUME MayUpset(l, v)', ~ MayUpset(l, v) PROVE FALSE
  OBVIOUS
<1>1. PICK r, q : r = listings[l] /\ q = listings'[l]
  OBVIOUS
<1>2. /\ q.step # "idle" /\ ~ Truthful(q)'
      /\ q.step = "writes" => v \in q.pending
  BY <1>1 DEF MayUpset, Truthful, Devised, Watched, Covered, Loaded, DeviceOf, Laden
<1>3. ~ Truthful(q)
  BY <1>2, TruthStays
<1>4. \/ r.step = "idle" \/ Truthful(r)
      \/ r.step = "writes" /\ v \notin r.pending
  BY <1>1 DEF MayUpset
<1>5. CASE q = r
  BY <1>2, <1>3, <1>4, <1>5
<1>6. CASE ListVehicles(l)
  BY <1>1, <1>3, <1>6, StartsTruthful DEF Truthful
<1>7. CASE ReadShipments(l) \/ \E id \in Numeric : ReadPosition(l, id)
  BY <1>1, <1>3, <1>4, <1>7, ReadsTruthfully DEF Truthful
<1>8. ASSUME NEW w \in Vehicles, WriteStatus(l, w) \/ WriteFails(l, w) PROVE FALSE
  BY <1>1, <1>2, <1>3, <1>4, <1>8, UpdatesEnd DEF Truthful
<1>9. CASE Answer(l) \/ ListingFails(l)
  BY <1>1, <1>2, <1>9, EndsIdle
<1> QED
  BY <1>1, <1>5, <1>6, <1>7, <1>8, <1>9, OthersListings DEF ListingStep

LEMMA UpsetsOnce ==
    ASSUME TypeOK, [Next]_vars, OnlyListingsWrite, NEW l \in Listings, NEW v \in Vehicles,
           Upsets(l, v)
    PROVE  MayUpset(l, v) /\ ~ MayUpset(l, v)'
<1>1. PICK r : r = listings[l]
  OBVIOUS
<1>2. r.step = "writes" /\ v \in r.pending
  BY <1>1 DEF Upsets, WriteStatus
<1>3. ~ Truthful(r)
  <2> SUFFICES ASSUME Truthful(r) PROVE FALSE
    OBVIOUS
  <2>1. ~ Apt(v)'
    BY DEF Upsets
  <2>2. PICK id : id = vehicles'[v].device
    OBVIOUS
  <2>3. vehicles'[v].status = NewStatus(r, v) /\ Rows(vehicles') = Rows(vehicles)
    BY <1>1, UpdateFacts DEF Upsets
  <2>4. v \in Rows(vehicles)
    BY <2>1, <2>3 DEF Apt
  <2>5. id = vehicles[v].device
    BY <2>2, <2>3, <2>4, UpdateFacts DEF Upsets, DeviceOf
  <2>6. shipments' = shipments /\ motion' = motion
    BY DEF OnlyListingsWrite
  <2>7. /\ id \in Numeric => motion[Number(id)] # "none"
        /\ id \in Devices => NewStatus(r, v) = Due(v, id)
    BY <1>2, <2>4, <2>5, TruthFits
  <2>8. Fits(v)'
    BY <2>2, <2>3, <2>6, <2>7 DEF Fits, StatusFor, Due
  <2> QED
    BY <2>1, <2>8 DEF Apt
<1>4. ~ MayUpset(l, v)'
  <2>1. listings'[l].step = "writes" /\ v \notin listings'[l].pending
    BY UpdatesEnd DEF Upsets
  <2> QED
    BY <2>1 DEF MayUpset
<1> QED
  BY <1>1, <1>2, <1>3, <1>4 DEF MayUpset, Truthful

LEMMA Quiet ==
    ASSUME [OnlyListingsWrite]_vars
    PROVE  OnlyListingsWrite
  BY DEF OnlyListingsWrite, vars, tables

(* Once only listings write, a listing that has read older data sets no       *)
(* status of a vehicle wrong more than once, be it a request that was         *)
(* answered long ago: whatever listings overlap, from some moment on none     *)
(* of its updates does (vehicles.service.ts, lines 22-43).                    *)
THEOREM OldUpdatesEnd ==
    ASSUME NEW l \in Listings, NEW v \in Vehicles
    PROVE  Spec /\ <>[][OnlyListingsWrite]_vars => <>[][~ Upsets(l, v)]_vars
<1> DEFINE May == MayUpset(l, v)
           Wrong == Upsets(l, v)
<1>1. TypeOK /\ [Next]_vars /\ [OnlyListingsWrite]_vars => (May' => May)
  BY Quiet, UpsetsNoMore
<1>2. TypeOK /\ [Next]_vars /\ [OnlyListingsWrite]_vars /\ Wrong => May /\ ~ May'
  BY Quiet, UpsetsOnce
<1> HIDE DEF May, Wrong
<1>3. Spec /\ <>[][OnlyListingsWrite]_vars => <>[][~ Wrong]_vars
  BY <1>1, <1>2, TypeCorrect, PTL DEF Spec
<1> QED
  BY <1>3 DEF Wrong

(* From then on a status that is right stays so.                              *)
NoneUpsets == \A l \in Listings, v \in Vehicles : ~ Upsets(l, v)

LEMMA FitStays ==
    ASSUME TypeOK, OnlyListingsWrite, NoneUpsets, NEW v \in Vehicles, Apt(v)
    PROVE  Apt(v)'
<1>1. shipments' = shipments /\ motion' = motion
  BY DEF OnlyListingsWrite
<1>2. CASE vehicles' = vehicles
  BY <1>1, <1>2 DEF Apt, Fits
<1>3. ASSUME NEW l \in Listings, NEW w \in Vehicles, WriteStatus(l, w) PROVE Apt(v)'
  <2>1. CASE w = v
    BY <1>3, <2>1 DEF NoneUpsets, Upsets
  <2>2. CASE w # v
    <3>1. vehicles'[v] = vehicles[v] /\ Rows(vehicles') = Rows(vehicles)
      BY <1>3, <2>2, UpdateFacts
    <3> QED
      BY <1>1, <3>1 DEF Apt, Fits
  <2> QED
    BY <2>1, <2>2
<1> QED
  BY <1>2, <1>3 DEF OnlyListingsWrite

(* A listing that knows which vehicles have a device, and has made right      *)
(* every status that it has not still to update.                              *)
Right(l) ==
    listings[l].step # "idle" =>
        /\ Devised(listings[l]) /\ Covered(listings[l])
        /\ listings[l].step = "writes" /\ ~ listings[l].failed =>
              \A v \in Vehicles \ listings[l].pending : Apt(v)

LEMMA RightStays ==
    ASSUME TypeOK, [Next]_vars, OnlyListingsWrite, NoneUpsets, NEW l \in Listings, Right(l)
    PROVE  Right(l)'
<1>1. PICK r, q : r = listings[l] /\ q = listings'[l]
  OBVIOUS
<1>2. SUFFICES ASSUME q.step # "idle"
               PROVE  /\ Devised(q) /\ Covered(q)
                      /\ q.step = "writes" /\ ~ q.failed =>
                            \A v \in Vehicles \ q.pending : Apt(v)'
  <2>1. (Devised(q) => Devised(q)') /\ (Covered(q) => Covered(q)')
    BY QuietFacts DEF Devised, Covered
  <2> QED
    BY <1>1, <2>1 DEF Right, Devised, Covered, DeviceOf
<1>3. r.step # "idle" =>
         /\ Devised(r) /\ Covered(r)
         /\ r.step = "writes" /\ ~ r.failed => \A v \in Vehicles \ r.pending : Apt(v)
  BY <1>1 DEF Right
<1>4. CASE q = r
  BY <1>2, <1>3, <1>4, FitStays
<1>5. CASE ListVehicles(l)
  BY <1>1, <1>5, StartsTruthful DEF Truthful, Watched, Devised
<1>6. CASE ReadShipments(l) \/ \E id \in Numeric : ReadPosition(l, id)
  <2>1. /\ r.step = "reads" /\ q.fleet = r.fleet
        /\ q.step = "reads" \/ Updates(q)
        /\ Covered(r) => Covered(q)
    BY <1>1, <1>6, ReadsTruthfully
  <2>2. Devised(q) /\ Covered(q)
    BY <1>3, <2>1 DEF Devised
  <2>3. ASSUME Updates(q), NEW v \in Vehicles \ q.pending PROVE Apt(v)'
    <3>1. SUFFICES ASSUME v \in Rows(vehicles') PROVE Fits(v)'
      BY DEF Apt
    <3>2. vehicles'[v].device = q.fleet[v]
      BY <2>2, <3>1, QuietFacts DEF Devised, DeviceOf
    <3>3. q.fleet[v] \in Numeric => Number(q.fleet[v]) \in q.positions
      BY <2>2, <2>3 DEF Updates, Covered
    <3>4. q.fleet[v] \notin Devices
      BY <2>3, <3>3, Numbers DEF Updates
    <3>5. q.fleet[v] \in Numeric => motion'[Number(q.fleet[v])] # "none"
      BY <2>2, <3>3, QuietFacts DEF Covered
    <3> QED
      BY <3>2, <3>4, <3>5 DEF Fits
  <2> QED
    BY <2>1, <2>2, <2>3 DEF Updates
<1>7. ASSUME NEW w \in Vehicles, WriteStatus(l, w) \/ WriteFails(l, w)
      PROVE  /\ Devised(q) /\ Covered(q)
             /\ ~ q.failed => \A v \in Vehicles \ q.pending : Apt(v)'
  <2>1. /\ r.step = "writes" /\ q.fleet = r.fleet /\ q.pending = r.pending \ {w}
        /\ r.failed \/ WriteFails(l, w) => q.failed
        /\ Covered(r) => Covered(q)
    BY <1>1, <1>7, UpdatesEnd
  <2>2. Devised(q) /\ Covered(q)
    BY <1>3, <2>1 DEF Devised
  <2>3. ASSUME ~ q.failed, NEW v \in Vehicles \ q.pending PROVE Apt(v)'
    <3>1. CASE v = w
      BY <1>7, <2>1, <2>3, <3>1 DEF NoneUpsets, Upsets
    <3>2. CASE v # w
      BY <1>3, <2>1, <2>3, <3>2, FitStays
    <3> QED
      BY <3>1, <3>2
  <2> QED
    BY <2>2, <2>3
<1>8. ~ Answer(l) /\ ~ ListingFails(l)
  BY <1>1, <1>2, EndsIdle
<1> QED
  BY <1>1, <1>4, <1>5, <1>6, <1>7, <1>8, OthersListings DEF ListingStep

LEMMA AnswersRight ==
    ASSUME TypeOK, NEW l \in Listings, Right(l), Answer(l)
    PROVE  StatusesFit
<1>1. \A v \in Vehicles : Apt(v)
  BY DEF Right, Answer, Done
<1> QED
  BY <1>1, FitsAll

LEMMA NothingMoves ==
    ASSUME UNCHANGED vars, NEW l \in Listings
    PROVE  (Right(l) => Right(l)') /\ (StatusesFit => StatusesFit')
<1>1. UNCHANGED <<vehicles, shipments, motion, listings>>
  BY DEF vars, tables
<1>2. ASSUME NEW v, Apt(v) PROVE Apt(v)'
  BY <1>1, <1>2 DEF Apt, Fits
<1>3. Devised(listings[l]) /\ Covered(listings[l]) => Devised(listings[l])' /\ Covered(listings[l])'
  BY <1>1 DEF Devised, Covered, DeviceOf
<1>4. StatusesFit => StatusesFit'
  <2>1. StatusesFit <=> \A v \in Rows(vehicles) : Apt(v)
    BY DEF StatusesFit, Apt
  <2>2. StatusesFit' <=> \A v \in Rows(vehicles') : Apt(v)'
    BY DEF StatusesFit, Apt
  <2>3. Rows(vehicles') = Rows(vehicles)
    BY <1>1
  <2> QED
    BY <1>2, <2>1, <2>2, <2>3
<1> QED
  BY <1>1, <1>2, <1>3, <1>4 DEF Right

LEMMA AllStay ==
    ASSUME TypeOK, TypeOK', OnlyListingsWrite, NoneUpsets, StatusesFit
    PROVE  StatusesFit'
<1>1. \A v \in Vehicles : Apt(v)'
  BY FitsAll, FitStays
<1>2. Rows(vehicles') \subseteq Vehicles
  BY DEF TypeOK, Rows
<1> QED
  BY <1>1, <1>2 DEF StatusesFit, Apt

(* And once none does, a listing that goes on to be asked for and answered    *)
(* makes every status right, and so they stay: what StatusSettles says but    *)
(* for this, that the updates of the theorem above, of which each comes to an *)
(* end, are finitely many (vehicles.service.ts, lines 15-43).                 *)
THEOREM StatusesSettle ==
    ASSUME NEW l \in Listings
    PROVE  Spec /\ <>[][OnlyListingsWrite]_vars /\ <>[][NoneUpsets]_vars
                /\ []<><<Answer(l)>>_vars
           => <>[]StatusesFit
<1> DEFINE Sound == Right(l)
           Ends  == Answer(l)
<1>1. TypeOK /\ [Next]_vars /\ [OnlyListingsWrite]_vars /\ [NoneUpsets]_vars => (Sound => Sound')
  BY Quiet, RightStays, NothingMoves
<1>2. TypeOK /\ TypeOK' /\ [OnlyListingsWrite]_vars /\ [NoneUpsets]_vars
      => (StatusesFit => StatusesFit')
  BY Quiet, AllStay, NothingMoves
<1>3. TypeOK /\ Ends /\ Sound => StatusesFit
  BY AnswersRight
<1>4. TypeOK /\ Ends => Sound'
  BY EndsIdle DEF Right
<1> HIDE DEF Sound, Ends
<1>5. Spec /\ <>[][OnlyListingsWrite]_vars /\ <>[][NoneUpsets]_vars /\ []<><<Ends>>_vars
      => <>[]StatusesFit
  BY <1>1, <1>2, <1>3, <1>4, TypeCorrect, PTL DEF Spec
<1> QED
  BY <1>5 DEF Ends
=============================================================================
