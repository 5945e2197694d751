# enroute-backend in TLA+

A TLA+ model of the Enroute logistics backend (NestJS, PostgreSQL through Prisma, S3, Redis,
Traccar and Mapbox): the parts of it where handlers interleave, calls fail and events race.
TLC checks the models on small instances, TLAPS proves their main invariants for every instance.

Paths are relative to the root of the repository, whose TypeScript is under `src/`; the sources
named in `PROJECT.json` have that prefix twice for it (`src/src/devices/devices.gateway.ts`).

    tlc -workers 2 -config gateway_clients.cfg MCGateway      # one run
    tlapm DevicesGatewayProofs.tla                            # one proof

Contents: [inventory](#1-inventory), [plan](#2-plan), [modules](#3-modules),
[runs and bounds](#4-runs-and-bounds), [fairness](#5-fairness), [proofs](#6-proofs),
[what the code does not keep](#7-what-the-code-does-not-keep), [limits](#8-what-is-not-modelled).

## 1. Inventory

The process is one Node.js event loop: code runs alone between two awaits, and what interleaves
are the handlers suspended at an await. Nothing in the process holds a lock, and only two parts
keep state in memory: the gateway and the Traccar connection. Everything else keeps its state
outside: in PostgreSQL, S3, Redis.

| Component | State | Operations | Talks to | Hard because | Correct if |
|---|---|---|---|---|---|
| **Live-tracking gateway** `devices/devices.gateway.ts` | `deviceSubscriptions` (Map device -> Set of sockets), `subscribedDevices` (the filter), handlers at an await | connect, disconnect, subscribe, unsubscribe, a Traccar message | socket.io clients; `DevicesService`; `MapboxService`; is called back by `TraccarSocketService` | subscribe has three awaits; broadcasts are not awaited and iterate over live Sets across awaits; a device id is a number or a string | the two tables agree, as far as ids are numbers; confirmations are true; no subscriber is skipped; what is owed is delivered; a snapshot goes to who asked |
| **Traccar connection** `common/services/traccar-socket.service.ts` | `ws`, `reconnectAttempts`, timers and `connect()` calls under way | `initialize`, `connect`, four WebSocket events, timers, shutdown | Traccar session endpoint and `/api/socket`; the gateway | two events for one failure, each schedules a reconnect; nothing is ever cancelled | the feed is not dropped in silence; counted attempts are made |
| **File store** `file-upload/` | tables `File`, `VehicleFile`, `ShipmentFile`; objects in S3 | upload, download, delete, two listings | Prisma, S3 | two stores without a transaction; a call may fail with its effect | a row has its object; an answer stays true |
| **Fleet** `vehicles/`, `drivers/` | tables `Vehicle`, `Driver` | create, update, delete; listing *writes* the status | Prisma, `PositionsService`, `ShipmentsService` | listing reads positions and shipments, then writes what follows from them; a driver is created before its vehicle, outside a transaction | plates, drivers and devices are unique; overlapping requests undo nothing of each other; statuses come to follow motion and shipments |
| **Shipments and customers** `shipments/`, `customers/` | tables `Shipment`, `Customer` | create, update, delete; customers on the way | Prisma | a customer is created by a call of its own before the shipment is written | references hold; a failed request leaves at most a customer |
| **Accounts** `auth/`, `users/`, `organizations/` | tables `User`, `Organization` | register, login, add, change and remove users | Prisma, JWT | the e-mail address is looked up first and created later; a transaction stays open while a password is hashed; tokens outlive users | one account per address; an organization has its administrator; a token given is of a user |
| **Geocoding cache** `common/services/mapbox.service.ts`, `redis-cache.service.ts` | keys in Redis with a time to live | reverse geocoding by exact key, nearby key, Mapbox; address and route search | Redis, Mapbox | keys expire between listing and reading; errors count as misses | a hit is near the coordinates asked for; Mapbox is the last resort; look-ups end |
| **HTTP response cache** `common/interceptors/redis-cache.interceptor.ts` | whole answers in Redis | look up, or compute, answer and set | Redis | the answer goes out before it is set; of two misses the older may be set last | what is served belongs to the question; what is stale goes |
| **Reports** `reports/` | none | seven handlers over shipments, customers, vehicles | Prisma | a date is stepped from the start of the range; parts and totals are rounded apart; one report is two reads | every period says what happened in it, none is missing, parts and total agree, no name is lost but for a reason |
| **Timestamps and positions over HTTP** `common/utils.ts`, `positions/`, `devices/devices.service.ts` | none | the routes of the positions and the devices controllers | Traccar REST, Mapbox | a position is shifted on several paths, one of them through a cache; past positions are thinned out by a filter | shifted once on each; past positions are apart, and no stretch of the way is gone |
| **Traccar REST client** `common/services/traccar-api-client.service.ts` | none | get, post, put, delete; only get has callers | Traccar | its errors, with their status, end the caller's await | - |
| **Guards, controllers, DTOs, filter, middleware, wiring** | none | validate, delegate, log | - | - | - |

How they interact:

    socket.io client --> DevicesGateway --> DevicesService --> Traccar REST
                            ^    |               `--> MapboxService --> Redis, Mapbox
                            |    `--> populateAddress -----^
    Traccar /api/socket --> TraccarSocketService (callback: handleTraccarMessage)

    HTTP --> controllers --> VehiclesService --> VehiclesRepository --> PostgreSQL
                                |  `--> PositionsService --> Traccar REST
                                `--> ShipmentsService --> repositories --> PostgreSQL
             controllers --> FileUploadService --> PostgreSQL, S3
             controllers --> AuthService, UsersService, ReportsService --> PostgreSQL
             controllers --> RedisCacheInterceptor (past positions only) --> Redis
                                |--> DevicesService --> Traccar REST, MapboxService
                                `--> PositionsService --> Traccar REST

`PROJECT.json` lists every component with its sources, and under `hazards` the places in the
code, each at its line, where an interleaving, a failure or a boundary bites and a unit test
would hardly reach.

## 2. Plan

In the order of importance; all but the last is done.

1. `DevicesGateway` - the product is live tracking, and this is where all of it meets; `LiveFeed`,
   its abstract specification, and the refinement.
2. `TraccarSocket` - without the feed the gateway is silent.
3. `FileStore` - the only component that writes two stores.
4. `Fleet` - vehicles, drivers, shipments and customers over one database, and the listing that
   writes what it read.
5. `GeoCache` - exact hit, nearby search, Mapbox, store, against keys that expire between the
   calls.
6. `Accounts` - register, users, tokens: check-then-act against the unique index and the
   transaction.
7. `Reports` - periods, sums and shares against what a calendar and the tables say.
8. `Positions` - every path a timestamp takes to a client, the filter of past positions, and the
   cache of answers.
9. *Left:* a composition of gateway and connection, in which messages arrive only while the feed is
   connected, and twice while it is connected twice. Its state space is the product of the two
   largest here; what it would add to `feed`, of which nothing is assumed but that messages come
   one after the other, is when none comes, and that two may have the same content.

Theorems: every safety property the passing runs check is proved (section 6), and of the liveness
properties one as a whole and two in their two halves; the rest of liveness is model-checked.
Each module is written for proof as well as for TLC: parameters are CONSTANTS with named
assumptions, one action per operation, no RECURSIVE operator. The number of runs is kept small; what
asks the same question of two instances is one run.

## 3. Modules

| Module | Models | Runs |
|---|---|---|
| `DevicesGateway` | `devices.gateway.ts`, two calls of `devices.service.ts` | through `MCGateway` |
| `MCGateway` | the messages and the symmetry of the instances | `gateway_*` |
| `LiveFeed` | what live tracking promises its clients: the abstract specification that `DevicesGateway` implements | through `LF` in `DevicesGateway` |
| `DevicesGatewayProofs` | lemmas on insertion-ordered Sets; the theorems on the tables, on what the clients get, and the refinement | - |
| `TraccarSocket`, `TraccarSocketProofs` | `traccar-socket.service.ts` | `socket_*` |
| `FileStore`, `MCFileStore`, `FileStoreProofs` | `file-upload.service.ts`, its controller, foreign keys | `filestore_*` |
| `Fleet`, `MCFleet`, `FleetProofs` | vehicles, drivers, shipments, customers: services, repositories, tables | `fleet_*` |
| `GeoCache`, `MCGeoCache`, `GeoCacheProofs` | `mapbox.service.ts` over `redis-cache.service.ts` | `geocache_lookups` |
| `Accounts`, `MCAccounts`, `AccountsProofs` | `auth.service.ts`, `users/`, the guard, the tables `User` and `Organization` | `accounts_requests` |
| `Positions`, `MCPositions`, `PositionsProofs` | devices and positions over HTTP, the response cache, the Traccar client | `positions_http` |
| `Reports`, `MCReports`, `ReportsProofs` | `reports/` and what changes the tables it reads | `reports_answers` |

### DevicesGateway

An action is the stretch of a handler from one await to the next.

| State | Code |
|---|---|
| `sockets` | `server.sockets.sockets` |
| `deviceSubscriptions` | the Map; each Set is the sequence of its ids in insertion order |
| `subscribedDevices` | the Set of the same name, of ids as they were sent: `<<"number", d>>` or `<<"string", n>>` |
| `calls` | invocations of `handleSubscribeToDevice`, each at one of its three awaits, with the id sent and the position read (`snap`) |
| `feed`, `heard` | messages Traccar has pushed; how many of them were handled |
| `broadcasts` | the invocation of `broadcastPositionUpdates` of each message: the socket and device whose address it awaits, the rest of the Set it iterates over, the later positions |
| `told`, `got`, `since` | history: last answer per client and device, elements and snapshots received, `heard` when the client joined |
| `passed` | history: the devices that were in the filter when each message was handled |
| `strung` | history: the devices whose entry a string opened or closed, or whose number an alias took out of the filter, after a number last opened or closed it |

| Action | Code |
|---|---|
| `NameOf`, `Number` | `toString()`, which makes the key of the Map, and `parseInt` of a key (lines 65, 79, 111) |
| `HandleConnection`, `HandleDisconnect` | lines 50-69 |
| `Subscribe`, `DeviceFound`, `PositionsRead`, `SnapshotReady` | lines 71-100, cut at the await of `findOne`, at Traccar's answer inside `getPositionsByDeviceId`, and at its address look-up |
| `SubscribeFails` | the catch block, from any of the awaits |
| `HandleUnsubscribeFromDevice` | lines 107-126, no await |
| `TraccarReports` | external: Traccar records and pushes data |
| `HandleTraccarMessage` | lines 128-165 with the first stretch of the broadcast, and the whole of `broadcastDeviceUpdates` and `broadcastEventUpdates` |
| `AddressPopulated` | lines 176-180: emit, and on to the next stop |

Points a reader may miss:

- A JavaScript Set is iterated live, in insertion order: an id added during the iteration is
  visited, one deleted before it was reached is not, one deleted and added again is visited
  again at the end. That is why a Set is a sequence, why `Enlist` and `Unlist` also change the
  `todo` of the broadcasts that iterate over that Set, and why `attached` is needed: a Set that
  became empty leaves the Map, a later subscription makes another one, and a broadcast that
  iterates over the old one does not see it. With Sets as plain sets a client that rejoins for
  ever would hold up the one that waits in the same Set; as it is, it holds up the later positions
  only (section 7), and `OwedIsDelivered` says both.
- A client sends any JSON value as a device id, and most clients have it as a string
  (`VehicleResponseDto.deviceId`). The Map is keyed by `toString()`, so that 5 and "5" share an entry; the
  filter holds the value as it came, and lets pass what equals the number in a message of Traccar;
  `handleDisconnect` takes the `parseInt` of the key out of it, `handleUnsubscribeFromDevice` the value as it
  came. The model sends the number of a device, the same as a string, and other strings that Traccar and
  `parseInt` read as the device ("007": `Aliases`, `Spells`), whose entry is one of its own. `FilterMatchesMap` and
  `NobodySkipped` say which devices the two tables agree about: all but those in `strung`. Section 7 says
  what happens to these.
- `getPositionsByDeviceId(id, 1)` answers with the newest position of the moment Traccar
  answers, and is emitted after a look-up of the address; a broadcast of a newer position may
  reach the client in between. The snapshot goes to the client that called, also when it has left
  the Set again; it is in `got`, with the device as the client named it.
- The guards of the WebSocket handlers only verify a token (`verifyAsync` of a local secret) and
  leave the event loop no room for a disconnect, so `Subscribe` and
  `HandleUnsubscribeFromDevice` take a connected client.
- Socket ids are random and not reused. The model reuses an id once nothing in the process
  refers to it (`Forgotten`), which keeps the set of ids finite without creating confusion.
- The order of the elements of an array is left open, since a message holds a set of devices.

The last section of the module maps it to `LiveFeed`, which knows no Sets, handlers or awaits: a
client listens to devices, an element that is published goes to the listeners of its device, at
once or one client after the other, and the publication of a position may not be closed while a
listener is due it. A client that joins may also get one snapshot for each time it asked.

| `LiveFeed` | `DevicesGateway` |
|---|---|
| `listening` | the connected clients in the Set of a device (`Listening`) |
| `answered` | the devices of which `told` has an answer (`Answered`) |
| `published` | the elements of the messages handled (`Published`) |
| `open` | the positions that a broadcast awaits or has still ahead of it (`Open`) |
| `due` | the positions handled since the listener joined that it has not got (`Due`) |
| `asking` | the calls, by the device named, of connected clients that were confirmed and have not ended (`Asking`) |
| `Join`, `Leave` or `Reply` | `DeviceFound`, `HandleUnsubscribeFromDevice` |
| `Forgo`, `Show`, `Fail` | `PositionsRead` without a position, `SnapshotReady`, `SubscribeFails` |
| `Publish`, `Deliver`, `Skip` | `HandleTraccarMessage`, `AddressPopulated` for a client that is there, or gone |

### TraccarSocket

| State | Code |
|---|---|
| `process` | before `afterInit`, running, or ended by an unhandled rejection |
| `config` | `TRACCAR_API_URL`: usable, or one that axios takes and `ws` refuses in its constructor (a fragment, for instance) |
| `ws`, `attempts` | `this.ws`, `this.reconnectAttempts` |
| `timers`, `sessions`, `socket` | pending `setTimeout`, `connect()` at its await, and every WebSocket alive |
| `faults`, `tries` | history: failures (the bound), timers fired since a connection opened |

`Initialize`, `TimerFires`, `SessionFails`, `SessionEstablished` and `ConstructorThrows` are the
stretches of `initialize` and `connect`; `Opened`, `HandshakeFails`, `ConnectionLost`,
`ProtocolError` and `Closed` the events, as the `ws` library raises them: 'error' and then
'close' in one turn for a failed handshake, 'close' alone for a lost connection, 'error' and later
'close' for a protocol error. `OnModuleDestroy` is lines 136-142; it runs only where something
calls `app.close()`, since `main.ts` enables no shutdown hooks. It takes back neither timers nor a
session request, and the 'close' of the WebSocket it closes schedules a reconnect, so in the model
a connection may open after it; nothing states that it does not. Missing Traccar settings, which
lines 22-28 test, cannot occur: `TraccarApiClientService` throws in its constructor without them.

### FileStore

| State | Code |
|---|---|
| `rows`, `links`, `owners` | tables `File`; `VehicleFile` and `ShipmentFile`; `Vehicle` and `Shipment` |
| `bucket` | the objects in S3 |
| `requests` | `uploadFile` (from the routes `UploadVehicleFile` and `UploadShipmentFile`), `downloadFile`, `deleteFile`, each at one of its calls |
| `uploaded`, `condemned`, `deleted` | history: answer of each upload, deletions that reached S3, deletions answered with success |

One action per call to a store. Each call succeeds, fails without effect (`UploadFails`,
`RequestFails`), or takes effect and fails all the same, for a lost answer (`GoOnOrEnd` and the
second disjuncts of `PutObject`, `CreateRow`, `DeleteRow`). `Crash` ends the process between
any two calls. `DeleteOwner` is the deletion of a vehicle or a shipment, with the cascades of
the migrations. `file.create` with its nested link is one transaction, as Prisma makes it.

### Fleet

| State | Code |
|---|---|
| `vehicles`, `shipments`, `drivers`, `customers` | the tables, one organization; of each row the columns that another part looks at |
| `Devices`, `Aliases`, `Number` | the deviceIds, which are strings: those that are a device's number in decimal, and the others with the number each is read as by `Number(deviceId)`, if any ('007', 'abc', '') |
| `motion` | the speed in the latest position Traccar has of a device: none, 0, above 0 |
| `edits` | POST, PUT and DELETE requests of the four controllers, each at the call it awaits |
| `listings` | `VehiclesService.findAll` calls: the vehicles read, the deviceIds still to ask for, the devices a position was got of, what was seen, the status updates under way |
| `disturbed` | history: listings in flight during which somebody else changed their matter |

| Action | Code |
|---|---|
| `Start`, `Find`, `FindPlate` | the checks of `update` and `delete`; `ShipmentsService.update` has none |
| `MakeDriver`, `MakeCustomer` | the driver or customer that is created before its vehicle or shipment |
| `CreateVehicle`, `UpdateVehicle`, `DeleteVehicle`, `WriteShipment`, `DeleteShipment`, `DeleteDriver`, `DeleteCustomer` | the one write a request is about, with the unique indexes, foreign keys and `SET NULL` of the schema |
| `EditFails` | any call fails; the driver or customer made before stays |
| `ListVehicles`, `ReadPosition`, `ReadShipments` | `findAll`, lines 16-24: every deviceId that is a number is asked for by that number, one after the other, beside the shipments |
| `WriteStatus`, `WriteFails` | lines 26-41: the updates of the vehicles whose deviceId is the decimal form of a device that has answered are under way together; when one fails the request is answered with an error, and the rest goes on |
| `Answer`, `ListingFails` | line 42, and an error of any read; a device without a position is one |

Where `driverId` and `driver` are both given, `create` takes the first and `update` the second; an
update of a shipment without a `vehicleId` takes its vehicle away. Both are in the model as they
are in the code. `FindPlate` and the unique index are two guards, one of which answers with a
conflict and the other with a server error; what the answer says is not modelled. What a client
may ask is what the DTOs let through (`Request`): a vehicle is created with a plate, a status and a
driver, named or described; nothing else is required. The tables may start with any rows that
satisfy the indexes and foreign keys.

### GeoCache

| State | Code |
|---|---|
| `cache` | Redis: for each key, the key whose result it holds, so that an answer passed from one key to another shows |
| `lookups` | `getAddressFromCoordinates`, `searchAddress`, `searchRoute`, each at the call it awaits: `get` of its own key, `keys`, `get` of a key nearby, Mapbox, `set` |
| `answered` | history: the query answered last and the key whose result it got |
| `excused` | history: look-ups in flight for which nothing near was cached at the start, or a key near expired since, or Redis failed |

`Ask` to `ReadNearby` and `MapboxAnswers` to `Store` are lines 42-106; the two searches are the same
without the search for a key nearby. `ListKeys` takes any key within the threshold, since Redis
lists keys in no order; only the first one is tried. `RedisFails` is the catch block of each
operation of `RedisCacheService`: `get` answers null, `keys` an empty list, `set` nothing. `Expire`
is Redis. Coordinates are points of a grid, in whose unit the threshold is given.

### Accounts

| State | Code |
|---|---|
| `users`, `orgs` | the committed rows of `User` (address, organization, role) and `Organization` |
| `requests` | requests, each at the call it awaits; a registration past its first insert carries what its open transaction has written |
| `tokens` | the tokens that clients were given: id, organization and role of the payload |
| `drawn` | the sequence of the ids, which draws none twice |
| `left`, `late` | history: users, as a token names them, that were deleted, moved to another organization or given another id; requests in flight, sent when nobody had the id of their token |

| Action | Code |
|---|---|
| `Register`, `Login`, `AddUser`, `EditUser`, `RemoveUser` | the requests of the three controllers; all but the first two pass the guard |
| `Validate` | `JwtStrategy.validate`, and for `AddUser` the test of the role in the token |
| `Check`, `Find`, `Hash`, `Compare` | look-ups of an address and of an id, bcrypt |
| `CreateOrganization`, `InsertAdmin`, `Commit` | the transaction of `register`, lines 80-119 |
| `CreateUser`, `UpdateUser`, `DeleteUser` | the one write of the other requests |
| `Fails`, `Crash` | a call fails, the transaction exceeds its time, the process ends: the transaction is rolled back |

An insert waits while an open transaction holds the same address (`Waits`), and fails when that
one commits. The role in a token is that of the moment it was made, as in the code. Of the three
roles only ADMIN is ever tested, so two are kept. `UpdateUser` writes the body as it is
(`users.repository.ts:42-46`), and the validation pipe keeps fields that the DTO has not
(`main.ts:29`): an update may set the organization and even the id.

### Positions

| State | Code |
|---|---|
| `track` | external: the positions Traccar has recorded |
| `cache` | Redis, as the interceptor uses it: for each key nothing, or an answer and whether it has a time to live |
| `requests` | requests of the two controllers, each at a call to Redis, to Traccar or to Mapbox, or answered |

| Action | Code |
|---|---|
| `Send` | a route of `devices.controller.ts` or `positions.controller.ts` |
| `ReadCache`, `Store`, `RedisFails` | `intercept`, lines 20-45, and the catch blocks of `RedisCacheService` |
| `TraccarAnswers`, `TraccarFails` | `TraccarApiClientService` and what the services make of its answer up to the next call: the shift of `utils.ts`, the filter of past positions, 404 |
| `AddressFound`, `AddressFails` | the loop of `getPositionsByDeviceId`, one look-up after the other |
| `Close`, `Expire`, `TraccarRecords` | the answer is sent; Redis; Traccar |

Of a timestamp the model keeps how often it was shifted, so a path that shifts twice, or not at
all, shows. A request whose answer was not cached has sent it when it is `to store`. Entries are
kept per user by their key, so one user is enough. `Handler` says where a url really goes:
`/positions/latest` and `/positions/history` are declared after `/positions/:id`, which takes them.

### Reports

| State | Code |
|---|---|
| `shipments`, `customers` | the tables, one organization; vehicles and their drivers do not change |
| `nameless` | customers whose name is the empty string, which no DTO refuses |
| `calls` | `customer-shipments` reports between `groupBy` and `findMany` |
| `answer` | the report sent last, looked at before anything else happens |

| Action | Code |
|---|---|
| `GenerateReport` | `ReportsService.generateReport` with one of the six handlers that read once: `TotalShipments` to `DriverPerformance` |
| `GroupByCustomer`, `NameCustomers`, `ReportFails` | the two reads of `customer-shipments.handler.ts` |
| `WriteShipment`, `DeleteShipment`, `CreateCustomer`, `RenameCustomer`, `RenumberCustomer`, `DeleteCustomer` | the other requests, one write each, with the foreign key; an update of a customer writes its whole body, and may hold an `id` |
| `Receive` | the client has its answer |

`Zeros` and `Add` are the two loops of `groupDataByGranularity`, a Map being a sequence of periods
in insertion order; `Increment` is `incrementDateByGranularity`, with months of unequal length, since
`setMonth` runs over the end of a short one; `Shown` and `Percent` are the two roundings. The
reference the answers are compared with (`Within`, `Touched`) knows the bounds of the periods only.
`gone`, in a call and in its answer, is history: ids of customers deleted or changed while it was computed.

## 4. Runs and bounds

Runs that hold:

| Run | Instance | Shows |
|---|---|---|
| `gateway_clients` | 2 clients, 1 device and an alias of it, ids as numbers and as strings, 2 subscribe calls, 1 message of every kind (`Uncrowded`) | `TypeOK`, `FilterMatchesMap`, `ConfirmationsAreTrue`, `NobodySkipped`, `OnlyAfterAnswer`, `ImplementsLiveFeed` |
| `gateway_delivery` | 2 clients, one that stays in one Set and one that comes and goes, 2 devices, 1 call, 2 messages with a position of each, fairness | `NobodySkipped` with two broadcasts over two Sets; `OwedIsDelivered` |
| `socket_feed` | 5 attempts, 4 WebSockets at once, 3 failures, fairness | `TypeOK`, `NeverSilentlyDown`, `EveryAttemptIsMade`, `ReconnectsOrGivesUp` |
| `filestore_requests` | 2 files, 1 vehicle, 1 shipment, 2 organizations, 2 requests | `TypeOK`, `RowKeepsObject`, `AnswersStayTrue` |
| `fleet_rows` | 2 vehicles, 1 shipment, 2 drivers, 1 customer, 1 device, 2 edits of 9 kinds, 1 listing | `TypeOK` (with references and unique columns), `NothingUndone` |
| `fleet_status` | 4 vehicles: of a device that moves, of one that is parked, of '007', of 'abc'; 1 shipment that changes vehicle, 2 listings | `ListingSettles`, `StatusSettles` |
| `geocache_lookups` | 3 places in a row, 1 search, 2 look-ups at once, threshold 1, fairness | `TypeOK`, `AnswersAreNear`, `MapboxIsLastResort`, `LookupsEnd` |
| `accounts_requests` | 2 addresses, 2 users, 2 organizations, 2 requests; updates of one column, the organization and the id among them; 2 tokens and 2 users that leave (`TwoTokens`) | `TypeOK` (with the unique address and the reference to the organization), `TokensNameUsers`, `LateAreRefused`, `BothOrNeither` |
| `positions_http` | 2 requests at once, 4 positions of one device and a silent device, 2 cache keys, every route; fairness | `TypeOK`, `ShiftedOnce`, `PastPairwiseApart`, `NoStretchVanishes`, `AnswersFit`, `StaleDataGoes` |
| `reports_answers` | 3 shipments, 2 customers, 1 vehicle, 2 calls; a calendar of months of 10, 4, 10 and 10 ticks | `TypeOK`, `SeriesExact`, `NoGaps`, `TotalsAgree`, `UnknownIsExplained` |

Why the bounds are enough. *Clients*: a Set of two is the smallest in which an iteration has a
rest, an id can be deleted ahead of the iterator or behind it, and the last member can leave or
stay. *Devices*: one with every handler free; two in `gateway_delivery`, where a broadcast goes
from the Set of one device to that of the other while both change. There one client stays, subscribed to
one device (`OneStays`): its Set is never empty, the other's comes and goes; and the calls of the
client that joins end without a snapshot, which `gateway_clients` has. *Device ids*: a number, the same
as a string and one alias are all the forms the code tells apart: equal to what the feed says, equal as a key
only, and equal for `parseInt` only. *Calls*: two in flight let a subscribe call overtake another of the same client
and device, or of the same device in another form. To keep the run short, a client with two calls in
flight is alone, and so is one that uses an alias, which has one call then and hears no message
(`Uncrowded`, a bound on the states); the theorems are without it. *Messages*: two
overlap, and one of them is the newer. *Sockets and faults*: three failures
use up the five attempts (2 + 2 + 1), which is the only limit in the code; four WebSockets are
more than three failures keep alive at once. *Files and requests*: two requests on one file make
every pair of operations interleave; the second file shows that they do not disturb it. *Fleet*: two edits are enough for two checks
to pass before either writes, and for one to delete what the other has just made; the kinds are
chosen to compete for a plate, a device, a driver and a row. Two listings are enough for the older
to write last; two vehicles, for a listing that has failed to go on writing; a third whose deviceId is
another form of the first's number, and a fourth whose deviceId is no number. The second device stays
parked (`ParkedSpec`, a bound): one that starts and stops is enough for older positions. *Places*: of three in a
row the middle one is near both others, which are not near each other, as a drift needs; two
look-ups let one store, and keys expire, between any two calls of the other. *Accounts*:
two registrations compete for an address within their transactions, or one with an addition or an
update outside of one; of each user a second id is enough to move to. The tokens given and the users that left are bounded by two each (`TwoTokens`), as they only ever grow; more of everything is in the theorems. *Positions*: four make a way that creeps off
in steps below the threshold and comes back at once, so that being around a place is not
transitive and a dropped position is the neighbour of another; two requests are the least in which
an older answer is stored last, and the two keys are ranges of which one lies in the other. *Reports*:
three shipments put two into one period and one into another, or one outside of the range; the
short month is one that `setMonth` jumps over from late in the first; the ranges start late in a period
and end early in one, are a moment, and are empty; prices add up to sums that are
rounded up and to others that are rounded down.

Every property has a mutant in `PROJECT.json`: a change to one definition, of the kind a slip in
the code would be (written in the module as an operator "Mutant of ..."), under which the run
refutes that property.

The runs that refute a statement of the code are those of section 7.

## 5. Fairness

- `DevicesGateway`: a received message is handled, and an address look-up comes back. The first is
  the event loop, which does not lose callbacks; for the second, `populateAddress` catches every
  error, and a call to Mapbox or Redis ends with an answer or an error; a peer that stays connected and
  silent, for which neither client has a timeout, is left out. Subscribe calls and clients have none. That
  the later positions of a broadcast are delivered is stated for the time when no client is
  put into a Set any more (`Joins`): it is a condition, not a fairness the code has.
- `TraccarSocket`: a timer that is due fires, `afterInit` runs, and a closing handshake ends (`ws`
  gives it 30 seconds of its own). Nothing else: the session request has no timeout (lines 37-49) and the
  WebSocket no `handshakeTimeout` (lines 83-87), so a peer that accepts the connection and stays
  silent holds an attempt for ever. `ReconnectsOrGivesUp` says so in its first half: a service that is trying is in time
  settled, or waits for Traccar (`AwaitsTraccar`). Its second half has the answer of
  Traccar as its condition (`TraccarAnswers`), stated in the property and not in the specification. That a
  connection stays open, or fails, is not assumed.
- `FileStore` has no liveness: nothing retries, and a request that failed stays failed.
- `GeoCache`: every call comes back, with an answer or an error, as in the gateway: ioredis ends a
  command after its retries, axios when the connection ends. Neither has a timeout of its own for
  a peer that stays connected and silent, which is left out.
- `Accounts` has no liveness: nothing is retried.
- `Positions`: calls come back, as above, and Redis drops an entry whose time is over.
  `StaleDataGoes` speaks of the time after Traccar has recorded the last position.
- `Reports` has no liveness.
- `Fleet` assumes no fairness. `StatusSettles` is conditional: nobody lists the vehicles but the
  clients, so it says what follows when they go on doing it and are answered again and again.

The fairness of `GeoCache` and `Positions` is written with one name for each `WF_` formula
(`GoesOn`, `GoesAway`), which is the form the proofs of section 6 can quote.

## 6. Proofs

All theorems hold for every value of the constants that the named assumptions admit; those
assumptions only say that bounds are naturals and that the model values for "none" are not
elements, that requests have the form their DTOs require (`Fleet`), that no two positions have one
time (`Positions`), and that the tables are finite and months follow one another (`Reports`).

| Theorem | States |
|---|---|
| `DevicesGatewayProofs!TypeCorrect` | `Spec => []TypeOK` |
| `DevicesGatewayProofs!TablesAgree` | `Spec => []FilterMatchesMap` |
| `DevicesGatewayProofs!ConfirmationsHold` | `Spec => []ConfirmationsAreTrue` |
| `DevicesGatewayProofs!SubscribersServed` | `Spec => []NobodySkipped` |
| `DevicesGatewayProofs!AnsweredFirst` | `Spec => []OnlyAfterAnswer` |
| `DevicesGatewayProofs!GatewayImplementsLiveFeed` | `Spec => ImplementsLiveFeed` |
| `TraccarSocketProofs!TypeCorrect` | `Spec => []TypeOK` |
| `TraccarSocketProofs!FeedNeverSilentlyDropped` | `Spec => []NeverSilentlyDown` |
| `TraccarSocketProofs!AttemptsAreMade` | `Spec => []EveryAttemptIsMade` |
| `FileStoreProofs!TypeCorrect` | `Spec => []TypeOK` |
| `FileStoreProofs!RowsKeepObjects` | `Spec => []RowKeepsObject` |
| `FileStoreProofs!AnswersHold` | `Spec => []AnswersStayTrue` |
| `FleetProofs!TypeCorrect` | `Spec => []TypeOK` |
| `FleetProofs!ListingsSettle` | `Spec => []ListingSettles` |
| `FleetProofs!NothingIsUndone` | `Spec => NothingUndone` |
| `FleetProofs!OldUpdatesEnd` | of each listing and vehicle: once only listings write, in time no update of it sets the status wrong |
| `FleetProofs!StatusesSettle` | of each listing: once none is set wrong and it is answered again and again, `<>[]StatusesFit` |
| `GeoCacheProofs!TypeCorrect` | `Spec => []TypeOK` |
| `GeoCacheProofs!AnswersNear` | `Spec => []AnswersAreNear` |
| `GeoCacheProofs!LastResort` | `Spec => []MapboxIsLastResort` |
| `GeoCacheProofs!LookupsComeToAnEnd` | `Spec /\ (\A l \in Lookups : CanGoOn(l)) => LookupsEnd` |
| `AccountsProofs!TypeCorrect` | `Spec => []TypeOK` |
| `AccountsProofs!TokensKept` | `Spec => []TokensNameUsers` |
| `AccountsProofs!LateRefused` | `Spec => []LateAreRefused` |
| `AccountsProofs!OrganizationWithAdmin` | `Spec => BothOrNeither` |
| `PositionsProofs!TypeCorrect` | `Spec => []TypeOK` |
| `PositionsProofs!TimesShiftedOnce` | `Spec => []ShiftedOnce` |
| `PositionsProofs!PastIsApart` | `Spec => []PastPairwiseApart` |
| `PositionsProofs!StretchesStay` | `Spec => []NoStretchVanishes` |
| `PositionsProofs!AnswersBelong` | `Spec => []AnswersFit` |
| `PositionsProofs!OldReadsEnd` | of each request: once Traccar records nothing more, in time it holds no older data |
| `PositionsProofs!OldEntriesGo` | of each key: once no request holds older data, in time its entry is what would be answered now, for good |
| `ReportsProofs!TypeCorrect` | `Spec => []TypeOK` |
| `ReportsProofs!SeriesAreExact` | `Spec => []SeriesExact` |
| `ReportsProofs!NoHoles` | `Spec => []NoGaps` |
| `ReportsProofs!TotalsAlwaysAgree` | `Spec => []TotalsAgree` |
| `ReportsProofs!UnknownAreExplained` | `Spec => []UnknownIsExplained` |

**Gateway.** The lemmas at the start of the module say what adding to, and deleting from, an insertion-ordered Set does to
its elements and that both keep them distinct. `FilterMatchesMap` is inductive with the types:
`Vacated` names exactly the entries that a deletion empties, and what a string does to the filter alone makes
its device one of `strung`. `ConfirmationsAreTrue` is not
inductive: a client that is not connected may be in a Set (the leak of section 7), and would be
told nothing about it when its id connected. The strengthening `ToldInv` states the second half
for every client and the first for those connected, and adds that a client that is gone has been
told nothing (`GoneIsSilent`); a connection is made only for an id no Set holds.

`NobodySkipped` is inductive with `TypeOK` and `FilterMatchesMap` (without the second a message
could be filtered out under its subscribers). Its core are lemmas on what a broadcast owes:
a client that is and stays in a Set is owed the same after `Enlist`, `Unlist` and `RunOn`, but for the
element just delivered. `OnlyAfterAnswer` needs `CallsInv`, that a call with a snapshot to show is of a client
that was told something or has gone, and `FanOutInv`: what an iterator has still to visit
are members of its Set, each once, and nobody when the Set has left the map; the client whose
address is awaited has been told something. Were a deleted id left in an iteration, a client could
leave, reconnect and receive data it never asked for.

The refinement adds `HistoryInv` (broadcasts, clients and subscriptions know of handled messages only) and has one
lemma on what each kind of step does to the calls that may still show a snapshot (`AskingAfter`, `AskingEnds`), and one
lemma per action of the gateway that names the abstract action it maps to. `NobodySkipped` of the next
state is what lets a broadcast end: it says that whatever is due is still open (`DueIsOpen`). The
other steps need that deleting a client from Sets changes nothing for another (`UnlistMaps`), and
that adding one leaves the broadcasts where they are (`EnlistOpen`).

**Connection.** `NeverSilentlyDown` needs that before `afterInit` there is no WebSocket
(`FreshAtStart`), or `initialize` would return without connecting. `EveryAttemptIsMade` speaks of
quiet states only; its inductive form `AttemptsAccounted` says at all times that the attempts
counted are covered by timers that fired and timers that are pending: a connection that opens
resets both counters and leaves the timers.

**File store.** The invariant `IInv` adds what a request knows at each of its steps: an upload at
its second call has put its object, and its file is fresh, known to no row and no other request
(`UploadsFresh`); a request between `DeleteObject` and `file.delete` works on a condemned file,
and a row that a request has read was there (`RequestsKnow`). From it follows that a second
deletion never brings back what the first removed.

**Fleet.** `TypeOK` holds the unique indexes and the foreign keys, and a request may be told
between any two of its calls that another has changed the tables. Its proof is about rows: one
that fits the table leaves all others fitting, and a deletion is allowed, or sets NULL, where a row
is referred to. `ListingSettles` looks at a listing's last moment, and at the vehicles whose deviceId is
the decimal form of a device; of the others it says that a listing is answered only when the device their
deviceId is a number of has a position (`Covered`). The invariant `FreshInv` says of an
undisturbed one at every moment that the devices, the positions and the shipments it has read so
far are still what is in the tables (`Devised`, `Watched`, `Loaded`), and that a status it has
already written, without failing, is there (`Written`). For `NothingUndone` each action is shown to
change a column only as its request asked (`Accounted`); the ids that an insertion draws are of no
row.

**Geocoding cache.** `AnswersAreNear` needs that a key holds its own result and nothing else
(`OwnResults`), and that a look-up reads and stores accordingly (`LookupsNear`).
`MapboxIsLastResort` adds `Unexcused`: as long as a look-up has no excuse, what it has yet to read
is cached; only `Expire` takes keys away, and it excuses every look-up they might have answered.

**Accounts.** The unique address is not inductive alone: between the insert of a transaction and
its commit the table does not show the row. `Fits` says that an open transaction holds an id and
an address that no row has, and `Apart` that no two hold the same; every other write of an address
waits for it (`Waits`), which is where the proof uses PostgreSQL. `Good` keeps a token, and what
login is about to make one of, on a user of its organization, or on one who has `left` it: every write of a
row is shown to leave its organization and its place alone or to be such a leaving (`Written`). A token that
names nobody stays `late` as long as no write gives its id to somebody (`EndWith`).

**Positions.** The invariant says of a request on its way out, and of an entry in the cache, that it
was made from positions of Traccar's answer to its own question, shifted once and filtered (`Good`
and `Belongs`); an entry is read by no other question, since the key is the whole of it. That past
positions are apart follows from the filter and the order of time, in which one of any two is the
earlier. `NoStretchVanishes` holds because the earliest position of a stretch has nothing around it
that comes before; that there is an earliest is where the finite track is used.

**Reports.** Between the two reads a customer of a group may be deleted, renamed, or given another id; `Inv` says that
shipments refer to customers that are there (`CustomersKept`), so that at its first read a report has
only such, and that whoever of them is not there any more was noted as gone (`Known`).

An answer is looked at when it is sent, so the other four properties are about what one handler
computes, from any tables. Two things have to be shown of the model before anything can be said of its
loops: that the recursive functions it is written with exist, and what they compute, which is
induction over data. The library's induction theorems take an operator, which no installed prover
can instantiate; a *set* in place of the predicate is first-order, so `LeastNat` (the library's
well-foundedness of `<`) gives `NatSetInduction`, and that `SubsetInduction` over the subsets of a
finite set; `RecursionExists` gives a function for every recursion that goes down a measure. From
there the argument goes in five stages:

- *Sums.* `Total` is the fold of the community modules over any part of a table: any element may
  be taken out first (`TotalRemove`), one changed value changes it by the difference, rounding each
  term moves it by half a unit a term (`TotalRounded`), disjoint classes are counted apart
  (`TotalOfClasses`).
- *Calendar.* Periods start in their order and a moment lies between the start of its own and the
  next (`PeriodFacts`, `PeriodIsWithin`), whatever the lengths of the months; a step of the date never
  stays in its period (`IncrementFacts`), and moves to the very next one as long as no period is
  shorter than the day of the start (`NextPeriod`).
- *First loop.* From any date of the range on it lays zeros of ever later periods (`LaysLaid`),
  without a hole but for the last (`LaysDense`).
- *Second loop.* `Tells` is its invariant: after any part of the rows every period stands once, with
  the sum of those rows that are in it, none left out; `Follows` keeps what the first loop laid in
  its place. Each `Add` preserves both, in whatever order the rows come (`FoldTells`).
- *Answers.* `Charted` is what follows for the answer of a report over time (`ChartIsCharted`): its
  periods are those the range touches, its values the rounded sums, its total off by half a unit a
  point. For the reports of counts, the classes of a status or a vehicle are disjoint, and a rounded
  percentage is off by half a percent.

`IInv` joins `Inv`, `TypeOK` and `AnswersOK` (an answer has its type and is such a chart, or has a total that its counts
add up to). The types are needed for the sums to be sums of naturals; `Known`, for the type of a
group between the two reads of `customer-shipments`.

**Liveness.** Under `WF_vars(A)` a step `A` is taken again and again, or is again and again not
enabled. The temporal prover knows this, but nothing that is installed knows what `ENABLED A` says of
a state, so the theorems have it as a hypothesis: `CanGoOn` is that a request or look-up under way
can take a step, `CanGo` that an entry can expire. They are true of the model (any call may return an
error, any entry may end), and TLC finds them true in every state of `geocache_lookups` and
`positions_http`. The rest is proved:

- `LookupsComeToAnEnd`: a look-up makes its calls in one order and none twice (`Onward`), and
  nobody else moves it (`OnlyOnward`); so each of its steps leads to the next, and the last to its end. No bound is
  assumed on what Redis holds and drops, or on the look-ups that overlap.
- `OldReadsEnd`, `OldEntriesGo`: a request reads what is true now (`ReadIsNow`), so one that holds
  older data read them before Traccar's last record, ends, and never gets any again. When no request
  holds older data none is stored; an entry with older data stays at most until it expires, and no
  other takes its place.
- `OldUpdatesEnd`, `StatusesSettle`: an update that sets a status wrong was computed before the fleet
  was still, and can be written once; a new one is computed from what is there. When none is left, a
  listing that begins and is answered writes every status right (`Right` follows it through its
  reads, the other listings at work beside it), and a right status stays.

The two halves say all that `StaleDataGoes` and `StatusSettles` say but for one thing: that what in time
is true for good of *each* request, or of each listing and vehicle, is in time true for good of
*all*, as they are finitely many. That is an induction over a temporal formula, which no prover here
does; TLC checks the two properties as wholes.

Only model-checked: those two as wholes; `OwedIsDelivered`, for the steps that a broadcast has before it
are as many as its Sets have members, and `ReconnectsOrGivesUp`, for those of the connection are as
many as its limit allows: both are again induction.

## 7. What the code does not keep

Runs that TLC refutes, each a statement that a comment, a log or an error message of the code makes.

| Run | Statement | What happens |
|---|---|---|
| `gateway_leak` | "Clean up subscriptions when a client disconnects" (`devices.gateway.ts:57`) | a disconnect during `findOne`: the clean-up runs first, the client is added after it, and stays for ever |
| `socket_one` | "WebSocket connection already initialized" (`traccar-socket.service.ts:19`) | one failed handshake, two events, two timers, two connections: every message is handled twice |

Seen while modelling, and not refuted by a run of its own, because nothing in the repository promises
the contrary, or because a property above states it with its exceptions:

- "Set of all subscribed device IDs" (`devices.gateway.ts:30`): it holds ids as clients sent them, and what Traccar
  sends are numbers. A client that sends "5" is confirmed and gets its snapshot, but if it opens the entry, "5" is
  in the filter instead of 5 (line 82): neither it nor those who join the entry later, with either form, hear
  anything, until the entry has gone and a number opens it anew. When it disconnects, 5 is taken out of the
  filter and "5" stays for good (line 65); when the last subscriber unsubscribes with the other form than
  opened the entry, what opened it stays in the filter (line 120), and messages of a device nobody listens to pass.
  A client that sends "007" has an entry of its own that nothing is sent to, and takes 7 out of the filter
  under the subscribers of 7 when it disconnects. `FilterMatchesMap` and `NobodySkipped` name these devices (`strung`).
- A client that unsubscribes while its subscribe call awaits the position still gets the `positionUpdate` of
  line 97 (`Show` of `LiveFeed` allows it).
- A position read that fails after the client was added to the tables answers "Failed to subscribe to
  device" (`devices.gateway.ts:103`) to a client that then gets the updates.
- "Failed to upload file to storage" (`file-upload.service.ts:120`) may mean that only the row could
  not be written: the object stays in S3, known to nothing.
- "Initialize all time periods with 0" (`base-report.handler.ts:24`): a month that is too short for
  the day of the start is jumped over (line 76), and so is the last period of a range that ends
  earlier in its period than it starts. Such a period has a point only if something happened in it,
  out of its place. `NoGaps` states both exceptions; `SeriesExact` says that nothing is lost.
- The periods of a chart are rounded one by one and its total as a whole; they agree up to half a
  unit at each point (`TotalsAgree`), not exactly.
- The status of a vehicle whose deviceId is not the decimal form of a device, such as '007' or 'abc', is
  never written by a listing: `Number` reads '007' as 7 (`vehicles.service.ts:18`), the listing asks Traccar
  for device 7 and fails when that has no position, and line 29 compares '7' with '007'. `ListingSettles`
  and `StatusSettles` speak of the other vehicles.
- A customer whose name is empty is 'Unknown Customer' in a report, as one is who is not found
  (`customer-shipments.handler.ts:49`); `UpdateCustomerDto` and `UpdateShipmentDto` take the empty name.
- A weekly period is found by the weekday of the server's time zone and named by the date in UTC
  (`base-report.handler.ts:52-55`). The model is in UTC, where the two are one.
- "filter out locations that are around the same location within 10 meters"
  (`devices.service.ts:89`): 0.00001 degrees are about 1.1 m, and a drive whose every step is shorter
  than that keeps its start alone (`NoStretchVanishes` says what does stay).
- `/positions/latest` and `/positions/history` are taken by `/positions/:id`, declared before them
  (`positions.controller.ts`).
- One position whose address cannot be found, and `getPositionsByDeviceId` answers with 404 for the
  positions of the device (`devices.service.ts:69`).
- `utils.ts:6` speaks of 6 hours, the code adds 3. `getLatestPositionByDeviceIds` shifts twice, but
  only the listing of vehicles reads its result, and no time of it.
- Past positions asked for without a range are of the last days until now, but cached by the question,
  which has no dates in it: for two minutes the answer stays what it was.
- A client that leaves the Set of a device and joins it again while a broadcast iterates over it is
  visited again (`devices.gateway.ts:173`). One that goes on doing so in a Set with another member keeps the
  broadcast at that position, and the positions after it in the same message wait for as long as they go on.
  Nobody in the Set itself waits for ever: who rejoins goes to the end (`OwedIsDelivered`).
- The reconnect limit counts events, not failures, and any connection that opens resets it. The
  connection to Traccar has neither ping nor timeout, and neither has an attempt to make one: a session
  request or an opening handshake that is not answered is never given up, and no other attempt is made.
- A token keeps the organization it was signed for (`jwt.strategy.ts:20-35` looks up the id alone): after
  `PUT /users/:id` with an `organizationId`, which no DTO has and the pipe lets through, it goes on speaking
  for the old one; after one with an `id`, for whoever has the old id, or nobody. `TokensNameUsers` names
  these exceptions.
- "Cache the result with no expiration" (`mapbox.service.ts:70`): the call gives it a time to live
  of seven days. No property rests on either; `Expire` may come at any time.

## 8. What is not modelled

- Wording, logging, DTO validation, Swagger, request logging: no state.
- Authentication: the handlers are modelled behind the guards.
- `DevicesGateway`: the WebSocket's own transport. An emit to a connected socket arrives; socket.io
  keeps the order on one connection and drops what it could not send when the connection closes,
  as `HandleDisconnect` does with the history of the client. A second Traccar connection, which
  delivers messages twice (`socket_one`), is not composed with the gateway yet; messages that
  arrive twice are two elements of `feed`.
- `TraccarSocket`: a peer that vanishes without closing. The code has neither ping nor timeout; an
  open connection of the model may stay open for ever.
- `FileStore`: an S3 call that takes effect after its error was answered; deletion of an
  organization, which cascades to its files' rows; that deleting a shipment leaves the row and the
  object of its files, for the migration cascades to their links only, is in the model
  (`DeleteOwner`) and no property; presigned urls, which only name the object.
- `Accounts`: names, phone numbers and passwords; the random code of an organization, whose rare
  collision is a call that fails; of the fields beyond its DTO that a body may have, all but the id and the
  organization of an update.
- `Positions`: speeds and fuel levels, which are converted; users, who share no cache entry; a range left
  open, whose default is a range like any other; the histories of `PositionsService` that no route
  reaches. A look-up of an address is `GeoCache`, of which only success and failure are kept here.
- `Reports`: organizations, of which there is one; time zones (UTC); the revenue that
  `customer-shipments` shows beside each count, a sum the database makes in the same read. Rows and what a query includes with them are one
  read. `GenerateReport` runs while no call waits: a bound, since it shares nothing with one.
- `Fleet`: organizations, of which there is one; dates, capacities, prices and names. The validation pipe
  keeps fields that no DTO has (`main.ts:29`), and `vehicles.repository.ts:86` and
  `customers.repository.ts:41` write a body as it is, so that an update of a vehicle or of a customer may
  also give `id`, `organizationId` or a nested write. `Reports` has customers that change their id, and
  `Accounts` users that change theirs or their organization; `Fleet` has the columns of the DTOs only.
  Devices that stop having a position: Traccar keeps the last one. A status is never left alone
  for a position without a speed, which Traccar always sends.
- The components listed as not modelled in `PROJECT.json`, for the reasons given there; those with
  state of their own are in the plan.
