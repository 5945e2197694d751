------------------------------ MODULE FileStore ------------------------------
(***************************************************************************)
(* Files of vehicles and shipments: src/file-upload/file-upload.service.ts, *)
(* with the foreign keys of prisma/migrations that touch them.              *)
(*                                                                         *)
(* A file lives in two stores that no transaction spans: an object in the   *)
(* S3 bucket, and a row of table File with a row of VehicleFile or          *)
(* ShipmentFile.  A request makes one call to a store after another; any    *)
(* call may fail, with its effect or without, the process may end between   *)
(* two calls, and requests interleave at their calls.                       *)
(***************************************************************************)
EXTENDS Naturals, FiniteSets

CONSTANTS
    Files,          \* one for each uuid an upload draws (a bound)
    Vehicles, Shipments,
    Organizations,
    Requests,       \* requests that may be in flight together (a bound)
    NoOwner         \* an upload whose vehicle or shipment id is not a number

Owners == Vehicles \cup Shipments

ASSUME FileStoreAssumption ==
    /\ Vehicles \cap Shipments = {}
    /\ NoOwner \notin Owners

VARIABLES
    owners,     \* the vehicles and shipments that have a row
    bucket,     \* keys of the objects in S3
    rows,       \* table File: file -> organization
    links,      \* tables VehicleFile and ShipmentFile
    requests,   \* uploadFile, downloadFile and deleteFile calls, each at an await
    uploaded,   \* history: what the upload of each file was answered
    condemned,  \* history: files whose deletion has reached S3
    deleted     \* history: files whose deletion was answered with success

history == <<uploaded, condemned, deleted>>
vars    == <<owners, bucket, rows, links, requests, history>>

-----------------------------------------------------------------------------
Idle == [step |-> "idle"]

(* The call a request awaits: PutObject, file.create; findFirst, GetObject; *)
(* findFirst, DeleteObject, the two deleteMany, file.delete.                *)
Upload   == [step : {"put", "create"}, file : Files, owner : Owners \cup {NoOwner},
             org : Organizations]
Download == [step : {"look", "get"}, file : Files, org : Organizations]
Delete   == [step : {"find", "object", "vehicleLinks", "shipmentLinks", "row"}, file : Files,
             org : Organizations]

TypeOK ==
    /\ owners \subseteq Owners
    /\ bucket \subseteq Files
    /\ DOMAIN rows \subseteq Files
    /\ rows \in [DOMAIN rows -> Organizations]
    /\ links \subseteq Owners \X Files
    /\ requests \in [Requests -> Upload \cup Download \cup Delete \cup {Idle}]
    /\ uploaded \in [Files -> {"no", "asked", "url", "failed"}]
    /\ condemned \subseteq Files
    /\ deleted \subseteq Files

Init ==
    /\ owners = Owners
    /\ bucket = {}
    /\ rows = [f \in {} |-> NoOwner]
    /\ links = {}
    /\ requests = [k \in Requests |-> Idle]
    /\ uploaded = [f \in Files |-> "no"]
    /\ condemned = {} /\ deleted = {}

-----------------------------------------------------------------------------
At(k, step) == requests[k].step = step

Begin(k, r)  == At(k, "idle") /\ requests' = [requests EXCEPT ![k] = r]
GoOn(k, step) == requests' = [requests EXCEPT ![k].step = step]
End(k)       == requests' = [requests EXCEPT ![k] = Idle]

(* The call took effect: the request goes on, or ends for an error that hid *)
(* the answer.                                                              *)
GoOnOrEnd(k, step) == GoOn(k, step) \/ End(k)

-----------------------------------------------------------------------------
(* uploadFile.  The key of the object holds a new uuid. *)

StartUpload(k, f, w, o) ==
    /\ uploaded[f] = "no"
    /\ Begin(k, [step |-> "put", file |-> f, owner |-> w, org |-> o])
    /\ uploaded' = [uploaded EXCEPT ![f] = "asked"]
    /\ UNCHANGED <<owners, bucket, rows, links, condemned, deleted>>

(* The two routes; an id in the url may be no number, which is no owner.     *)
UploadVehicleFile(k, f, o) ==
    \E v \in Vehicles \cup {NoOwner} : StartUpload(k, f, v, o)
UploadShipmentFile(k, f, o) ==
    \E s \in Shipments \cup {NoOwner} : StartUpload(k, f, s, o)

(* Mutant of PutObject: the promise of the S3 client is not awaited. *)
PutNotAwaited(k) ==
    /\ At(k, "put")
    /\ GoOn(k, "create")
    /\ UNCHANGED <<owners, bucket, rows, links, history>>

PutObject(k) ==
    /\ At(k, "put")
    /\ bucket' = bucket \cup {requests[k].file}
    /\ \/ GoOn(k, "create") /\ UNCHANGED uploaded
       \/ End(k) /\ uploaded' = [uploaded EXCEPT ![requests[k].file] = "failed"]
    /\ UNCHANGED <<owners, rows, links, condemned, deleted>>

(* Mutant of CreateRow: the link is made for any id. *)
CreateAnyLink(k) ==
    LET r == requests[k] IN
    /\ At(k, "create")
    /\ r.owner \in owners \cup {NoOwner}
    /\ rows' = [f \in DOMAIN rows \cup {r.file} |-> IF f = r.file THEN r.org ELSE rows[f]]
    /\ links' = links \cup {<<r.owner, r.file>>}
    /\ End(k)
    /\ \E answer \in {"url", "failed"} : uploaded' = [uploaded EXCEPT ![r.file] = answer]
    /\ UNCHANGED <<owners, bucket, condemned, deleted>>

(* file.create writes the row and its link in one transaction; a vehicle or *)
(* shipment that is gone fails it.                                          *)
CreateRow(k) ==
    LET r == requests[k] IN
    /\ At(k, "create")
    /\ r.owner \in owners \cup {NoOwner}
    /\ rows' = [f \in DOMAIN rows \cup {r.file} |-> IF f = r.file THEN r.org ELSE rows[f]]
    /\ links' = links \cup ({r.owner} \cap Owners) \X {r.file}
    /\ End(k)
    /\ \E answer \in {"url", "failed"} : uploaded' = [uploaded EXCEPT ![r.file] = answer]
    /\ UNCHANGED <<owners, bucket, condemned, deleted>>

(* A call of uploadFile fails without effect: the catch block answers       *)
(* "Failed to upload file to storage".                                      *)
UploadFails(k) ==
    /\ At(k, "put") \/ At(k, "create")
    /\ End(k)
    /\ uploaded' = [uploaded EXCEPT ![requests[k].file] = "failed"]
    /\ UNCHANGED <<owners, bucket, rows, links, condemned, deleted>>

-----------------------------------------------------------------------------
(* downloadFile and deleteFile.  Both look the row up under the caller's    *)
(* organization first; a row that is not there ends them.                   *)

Found(k) ==
    /\ requests[k].file \in DOMAIN rows
    /\ rows[requests[k].file] = requests[k].org

StartDownload(k, f, o) ==
    /\ Begin(k, [step |-> "look", file |-> f, org |-> o])
    /\ UNCHANGED <<owners, bucket, rows, links, history>>

FindToDownload(k) ==
    /\ At(k, "look")
    /\ IF Found(k) THEN GoOnOrEnd(k, "get") ELSE End(k)
    /\ UNCHANGED <<owners, bucket, rows, links, history>>

GetObject(k) ==
    /\ At(k, "get")
    /\ End(k)
    /\ UNCHANGED <<owners, bucket, rows, links, history>>

StartDelete(k, f, o) ==
    /\ Begin(k, [step |-> "find", file |-> f, org |-> o])
    /\ UNCHANGED <<owners, bucket, rows, links, history>>

FindToDelete(k) ==
    /\ At(k, "find")
    /\ IF Found(k) THEN GoOnOrEnd(k, "object") ELSE End(k)
    /\ UNCHANGED <<owners, bucket, rows, links, history>>

(* Mutant of DeleteObject: an error of S3 is swallowed. *)
DeleteObjectBestEffort(k) ==
    /\ At(k, "object")
    /\ bucket' \in {bucket, bucket \ {requests[k].file}}
    /\ condemned' = condemned \cup {requests[k].file}
    /\ GoOnOrEnd(k, "vehicleLinks")
    /\ UNCHANGED <<owners, rows, links, uploaded, deleted>>

DeleteObject(k) ==
    /\ At(k, "object")
    /\ bucket' = bucket \ {requests[k].file}
    /\ condemned' = condemned \cup {requests[k].file}
    /\ GoOnOrEnd(k, "vehicleLinks")
    /\ UNCHANGED <<owners, rows, links, uploaded, deleted>>

DeleteVehicleLinks(k) ==
    /\ At(k, "vehicleLinks")
    /\ links' = links \ (Vehicles \X {requests[k].file})
    /\ GoOnOrEnd(k, "shipmentLinks")
    /\ UNCHANGED <<owners, bucket, rows, history>>

DeleteShipmentLinks(k) ==
    /\ At(k, "shipmentLinks")
    /\ links' = links \ (Shipments \X {requests[k].file})
    /\ GoOnOrEnd(k, "row")
    /\ UNCHANGED <<owners, bucket, rows, history>>

(* file.delete cascades to the links, and throws when the row is gone.      *)
DeleteRow(k) ==
    LET f == requests[k].file IN
    /\ At(k, "row")
    /\ f \in DOMAIN rows
    /\ rows' = [g \in DOMAIN rows \ {f} |-> rows[g]]
    /\ links' = links \ (Owners \X {f})
    /\ deleted' \in {deleted, deleted \cup {f}}
    /\ End(k)
    /\ UNCHANGED <<owners, bucket, uploaded, condemned>>

(* A call of downloadFile or deleteFile fails without effect. *)
RequestFails(k) ==
    /\ ~ At(k, "idle") /\ ~ At(k, "put") /\ ~ At(k, "create")
    /\ End(k)
    /\ UNCHANGED <<owners, bucket, rows, links, history>>

-----------------------------------------------------------------------------
(* The shipment or vehicle is deleted: its links cascade. *)
DeleteOwner(w) ==
    /\ w \in owners
    /\ owners' = owners \ {w}
    /\ links' = links \ ({w} \X Files)
    /\ UNCHANGED <<bucket, rows, requests, history>>

(* The process ends between two calls; nobody is answered. *)
Crash ==
    /\ requests' = [k \in Requests |-> Idle]
    /\ UNCHANGED <<owners, bucket, rows, links, history>>

Step(k) ==
    \/ \E f \in Files, o \in Organizations :
          \/ UploadVehicleFile(k, f, o)
          \/ UploadShipmentFile(k, f, o)
          \/ StartDownload(k, f, o)
          \/ StartDelete(k, f, o)
    \/ PutObject(k) \/ CreateRow(k) \/ UploadFails(k)
    \/ FindToDownload(k) \/ GetObject(k)
    \/ FindToDelete(k) \/ DeleteObject(k) \/ DeleteVehicleLinks(k) \/ DeleteShipmentLinks(k)
    \/ DeleteRow(k) \/ RequestFails(k)

Next == (\E k \in Requests : Step(k)) \/ (\E w \in Owners : DeleteOwner(w)) \/ Crash

Spec == Init /\ [][Next]_vars

-----------------------------------------------------------------------------
(* Properties. *)

(* A row never points to nothing: the object of a file in the table is in   *)
(* the bucket unless the file's deletion has begun, and that is still so    *)
(* for a row that a download has read and is about to use (lines 79-91,     *)
(* 158-175), whatever fails, crashes or interleaves.                        *)
RowKeepsObject ==
    /\ DOMAIN rows \subseteq bucket \cup condemned
    /\ \A k \in Requests : At(k, "get") => requests[k].file \in bucket \cup condemned

(* An answer stays true: a file whose upload returned its url is in both    *)
(* stores until its deletion begins, and a file whose deletion succeeded is *)
(* in neither, and has no link, for good, whichever other deletions of it   *)
(* are half way (lines 116-117, 188-208).                                   *)
AnswersStayTrue ==
    /\ \A f \in Files : uploaded[f] = "url" => f \in condemned \/ f \in bucket \cap DOMAIN rows
    /\ \A f \in deleted : /\ f \notin bucket \cup DOMAIN rows
                           /\ \A w \in Owners : <<w, f>> \notin links

=============================================================================
