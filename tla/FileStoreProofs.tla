-------------------------- MODULE FileStoreProofs --------------------------
(* Type correctness and the safety properties of FileStore, for any files,  *)
(* owners, organizations and requests.                                      *)
EXTENDS FileStore, TLAPS

(* Every action of Next that a request takes is at one step of it, and      *)
(* leaves the other requests alone.                                         *)
LEMMA RequestTyped ==
    ASSUME TypeOK, NEW k \in Requests
    PROVE  /\ requests[k] \in Upload \cup Download \cup Delete \cup {Idle}
           /\ requests[k] \in Upload <=> requests[k].step \in {"put", "create"}
           /\ requests[k] \in Download <=> requests[k].step \in {"look", "get"}
           /\ requests[k] \in Delete
                <=> requests[k].step \in {"find", "object", "vehicleLinks", "shipmentLinks", "row"}
           /\ requests[k].step # "idle" => requests[k].file \in Files /\ requests[k].org \in Organizations
  BY DEF TypeOK, Upload, Download, Delete, Idle

LEMMA EndTyped ==
    ASSUME TypeOK, NEW k \in Requests, End(k)
    PROVE  requests' \in [Requests -> Upload \cup Download \cup Delete \cup {Idle}]
  BY DEF TypeOK, End

LEMMA GoOnTyped ==
    ASSUME TypeOK, NEW k \in Requests, NEW s, GoOn(k, s),
           \/ requests[k] \in Upload /\ s = "create"
           \/ requests[k] \in Download /\ s = "get"
           \/ requests[k] \in Delete /\ s \in {"object", "vehicleLinks", "shipmentLinks", "row"}
    PROVE  requests' \in [Requests -> Upload \cup Download \cup Delete \cup {Idle}]
<1>1. [requests[k] EXCEPT !.step = s] \in Upload \cup Download \cup Delete
  <2>1. CASE requests[k] \in Upload /\ s = "create"
    BY <2>1 DEF Upload
  <2>2. CASE requests[k] \in Download /\ s = "get"
    BY <2>2 DEF Download
  <2>3. CASE requests[k] \in Delete /\ s \in {"object", "vehicleLinks", "shipmentLinks", "row"}
    BY <2>3 DEF Delete
  <2> QED
    BY <2>1, <2>2, <2>3
<1>2. requests' = [requests EXCEPT ![k] = [requests[k] EXCEPT !.step = s]]
  BY DEF GoOn
<1> QED
  BY <1>1, <1>2 DEF TypeOK

LEMMA BeginTyped ==
    ASSUME TypeOK, NEW k \in Requests, NEW r \in Upload \cup Download \cup Delete, Begin(k, r)
    PROVE  requests' \in [Requests -> Upload \cup Download \cup Delete \cup {Idle}]
  BY DEF TypeOK, Begin

(* Both routes start the upload of a file of some owner, or of none.        *)
LEMMA UploadsAreStarted ==
    ASSUME NEW k \in Requests, NEW f \in Files, NEW o \in Organizations,
           UploadVehicleFile(k, f, o) \/ UploadShipmentFile(k, f, o)
    PROVE  \E w \in Owners \cup {NoOwner} : StartUpload(k, f, w, o)
  BY DEF UploadVehicleFile, UploadShipmentFile, Owners

(* Whatever requests do and whatever fails, the two stores, the links and   *)
(* the requests in flight keep their shapes.                                *)
THEOREM TypeCorrect == Spec => []TypeOK
<1>1. Init => TypeOK
  BY DEF Init, TypeOK
<1>2. TypeOK /\ [Next]_vars => TypeOK'
  <2> SUFFICES ASSUME TypeOK, [Next]_vars PROVE TypeOK'
    OBVIOUS
  <2>1. ASSUME NEW k \in Requests, NEW f \in Files, NEW o \in Organizations,
               NEW w \in Owners \cup {NoOwner}, StartUpload(k, f, w, o)
        PROVE  TypeOK'
    <3>1. [step |-> "put", file |-> f, owner |-> w, org |-> o] \in Upload
      BY DEF Upload
    <3> QED
      BY <2>1, <3>1, BeginTyped DEF StartUpload, TypeOK
  <2>2. ASSUME NEW k \in Requests, NEW f \in Files, NEW o \in Organizations,
               StartDownload(k, f, o) \/ StartDelete(k, f, o)
        PROVE  TypeOK'
    <3>1. /\ [step |-> "look", file |-> f, org |-> o] \in Download
          /\ [step |-> "find", file |-> f, org |-> o] \in Delete
      BY DEF Download, Delete
    <3>2. requests' \in [Requests -> Upload \cup Download \cup Delete \cup {Idle}]
      BY <2>2, <3>1, BeginTyped DEF StartDownload, StartDelete
    <3> QED
      BY <2>2, <3>2 DEF StartDownload, StartDelete, history, TypeOK
  <2>3. ASSUME NEW k \in Requests, PutObject(k) PROVE TypeOK'
    <3>1. requests[k] \in Upload /\ requests[k].file \in Files
      BY <2>3, RequestTyped DEF PutObject, At
    <3>2. requests' \in [Requests -> Upload \cup Download \cup Delete \cup {Idle}]
      BY <2>3, <3>1, GoOnTyped, EndTyped DEF PutObject
    <3> QED
      BY <2>3, <3>1, <3>2 DEF PutObject, TypeOK
  <2>4. ASSUME NEW k \in Requests, CreateRow(k) PROVE TypeOK'
    <3> DEFINE r == requests[k]
    <3>1. r.file \in Files /\ r.org \in Organizations
      BY <2>4, RequestTyped DEF CreateRow, At
    <3>2. requests' \in [Requests -> Upload \cup Download \cup Delete \cup {Idle}]
      BY <2>4, EndTyped DEF CreateRow
    <3>3. DOMAIN rows' \subseteq Files /\ rows' \in [DOMAIN rows' -> Organizations]
      BY <2>4, <3>1 DEF CreateRow, TypeOK
    <3>4. links' \subseteq Owners \X Files
      BY <2>4, <3>1 DEF CreateRow, TypeOK
    <3> QED
      BY <2>4, <3>2, <3>3, <3>4 DEF CreateRow, TypeOK
  <2>5. ASSUME NEW k \in Requests, UploadFails(k) PROVE TypeOK'
    BY <2>5, EndTyped DEF UploadFails, TypeOK
  <2>6. ASSUME NEW k \in Requests, FindToDownload(k) \/ GetObject(k) \/ FindToDelete(k) \/ RequestFails(k)
        PROVE  TypeOK'
    <3>1. requests' \in [Requests -> Upload \cup Download \cup Delete \cup {Idle}]
      BY <2>6, RequestTyped, GoOnTyped, EndTyped
         DEF FindToDownload, GetObject, FindToDelete, RequestFails, At, GoOnOrEnd
    <3> QED
      BY <2>6, <3>1 DEF FindToDownload, GetObject, FindToDelete, RequestFails, history, TypeOK
  <2>7. ASSUME NEW k \in Requests, DeleteObject(k) \/ DeleteVehicleLinks(k) \/ DeleteShipmentLinks(k)
        PROVE  TypeOK'
    <3>1. requests[k] \in Delete /\ requests[k].file \in Files
      BY <2>7, RequestTyped DEF DeleteObject, DeleteVehicleLinks, DeleteShipmentLinks, At
    <3>2. requests' \in [Requests -> Upload \cup Download \cup Delete \cup {Idle}]
      BY <2>7, <3>1, GoOnTyped, EndTyped
         DEF DeleteObject, DeleteVehicleLinks, DeleteShipmentLinks, GoOnOrEnd
    <3> QED
      BY <2>7, <3>1, <3>2
         DEF DeleteObject, DeleteVehicleLinks, DeleteShipmentLinks, history, TypeOK
  <2>8. ASSUME NEW k \in Requests, DeleteRow(k) PROVE TypeOK'
    <3>1. requests' \in [Requests -> Upload \cup Download \cup Delete \cup {Idle}]
      BY <2>8, EndTyped DEF DeleteRow
    <3> QED
      BY <2>8, <3>1 DEF DeleteRow, TypeOK
  <2>9. ASSUME NEW w \in Owners, DeleteOwner(w) PROVE TypeOK'
    BY <2>9 DEF DeleteOwner, history, TypeOK
  <2>10. CASE Crash
    BY <2>10 DEF Crash, history, TypeOK
  <2>11. CASE UNCHANGED vars
    BY <2>11 DEF vars, history, TypeOK
  <2> QED
    BY <2>1, <2>2, <2>3, <2>4, <2>5, <2>6, <2>7, <2>8, <2>9, <2>10, <2>11,
       UploadsAreStarted DEF Next, Step
<1> QED
  BY <1>1, <1>2, PTL DEF Spec

-----------------------------------------------------------------------------
(* What the requests in flight know of their files. *)

Answered(f) == uploaded[f] \in {"url", "failed"}

Uploading(k) == At(k, "put") \/ At(k, "create")

(* An upload in flight is unanswered and the only one of its file; a row,   *)
(* and a deletion, are of an answered upload only.                          *)
UploadsFresh ==
    /\ \A k \in Requests : Uploading(k) => uploaded[requests[k].file] = "asked"
    /\ \A j, k \in Requests : Uploading(j) /\ Uploading(k) /\ requests[j].file = requests[k].file => j = k
    /\ \A f \in DOMAIN rows \cup deleted : Answered(f)

(* A create has its object; a request past its look-up has an answered      *)
(* file, and past DeleteObject one that is condemned and not in the bucket. *)
RequestsKnow ==
    \A k \in Requests :
        LET f == requests[k].file IN
        /\ At(k, "create") => f \in bucket \cup condemned
        /\ requests[k].step \in {"object", "vehicleLinks", "shipmentLinks", "row"} => Answered(f)
        /\ requests[k].step \in {"vehicleLinks", "shipmentLinks", "row"} => f \in condemned \ bucket

IInv == TypeOK /\ UploadsFresh /\ RequestsKnow /\ RowKeepsObject /\ AnswersStayTrue

(* What a step of request k leaves of the requests. *)
LEMMA EndLeaves ==
    ASSUME TypeOK, NEW k \in Requests, End(k)
    PROVE  requests'[k].step = "idle" /\ \A j \in Requests \ {k} : requests'[j] = requests[j]
  BY DEF TypeOK, End, Idle

LEMMA GoOnLeaves ==
    ASSUME TypeOK, NEW k \in Requests, ~ At(k, "idle"), NEW s, GoOn(k, s)
    PROVE  /\ requests'[k].step = s /\ requests'[k].file = requests[k].file
           /\ \A j \in Requests \ {k} : requests'[j] = requests[j]
<1>1. requests[k] \in Upload \cup Download \cup Delete
  BY DEF TypeOK, At, Idle
<1>2. requests' = [requests EXCEPT ![k] = [requests[k] EXCEPT !.step = s]]
  BY DEF GoOn
<1>3. /\ [requests[k] EXCEPT !.step = s].step = s
      /\ [requests[k] EXCEPT !.step = s].file = requests[k].file
  BY <1>1 DEF Upload, Download, Delete
<1> QED
  BY <1>2, <1>3 DEF TypeOK

LEMMA BeginLeaves ==
    ASSUME TypeOK, NEW k \in Requests, NEW r, Begin(k, r)
    PROVE  requests'[k] = r /\ \A j \in Requests \ {k} : requests'[j] = requests[j]
  BY DEF TypeOK, Begin

(* A request that moves on or ends without a change of the stores. *)
LEMMA QuietStep ==
    ASSUME IInv, NEW k \in Requests, ~ Uploading(k), ~ At(k, "idle"),
           UNCHANGED <<bucket, rows, uploaded, condemned, deleted>>,
           links' \subseteq links,
           \/ End(k)
           \/ GoOn(k, "get") /\ Found(k)
           \/ GoOn(k, "object") /\ Found(k)
           \/ At(k, "vehicleLinks") /\ GoOn(k, "shipmentLinks")
           \/ At(k, "shipmentLinks") /\ GoOn(k, "row")
    PROVE  UploadsFresh' /\ RequestsKnow' /\ RowKeepsObject' /\ AnswersStayTrue'
<1>1. \A j \in Requests \ {k} : requests'[j] = requests[j]
  BY EndLeaves, GoOnLeaves DEF IInv
<1>2. \/ requests'[k].step = "idle"
      \/ /\ requests'[k].file = requests[k].file
         /\ \/ requests'[k].step \in {"get", "object"} /\ Found(k)
            \/ At(k, "vehicleLinks") /\ requests'[k].step = "shipmentLinks"
            \/ At(k, "shipmentLinks") /\ requests'[k].step = "row"
  BY EndLeaves, GoOnLeaves DEF IInv
<1>3. UploadsFresh'
  BY <1>1, <1>2 DEF IInv, UploadsFresh, Uploading, At, Answered
<1>4. RequestsKnow'
  <2>1. Found(k) => Answered(requests[k].file)
    BY DEF Found, IInv, UploadsFresh
  <2> QED
    BY <1>1, <1>2, <2>1 DEF IInv, RequestsKnow, At, Answered
<1>5. RowKeepsObject'
  BY <1>1, <1>2 DEF IInv, RowKeepsObject, At, Found
<1>6. AnswersStayTrue'
  BY DEF IInv, AnswersStayTrue
<1> QED
  BY <1>3, <1>4, <1>5, <1>6

LEMMA UploadKeeps ==
    ASSUME IInv, NEW k \in Requests,
           \/ \E f \in Files, w \in Owners \cup {NoOwner}, o \in Organizations : StartUpload(k, f, w, o)
           \/ PutObject(k)
           \/ UploadFails(k)
    PROVE  UploadsFresh' /\ RequestsKnow' /\ RowKeepsObject' /\ AnswersStayTrue'
<1>1. ASSUME NEW f \in Files, NEW w \in Owners \cup {NoOwner}, NEW o \in Organizations,
             StartUpload(k, f, w, o)
      PROVE  UploadsFresh' /\ RequestsKnow' /\ RowKeepsObject' /\ AnswersStayTrue'
  <2>1. /\ requests'[k] = [step |-> "put", file |-> f, owner |-> w, org |-> o]
        /\ \A j \in Requests \ {k} : requests'[j] = requests[j]
    BY <1>1, BeginLeaves DEF StartUpload, IInv
  <2>2. uploaded[f] = "no" /\ uploaded' = [uploaded EXCEPT ![f] = "asked"]
        /\ UNCHANGED <<bucket, rows, links, condemned, deleted>>
    BY <1>1 DEF StartUpload
  <2>3. uploaded'[f] = "asked" /\ \A g \in Files \ {f} : uploaded'[g] = uploaded[g]
    BY <2>2 DEF IInv, TypeOK
  <2>4. \A j \in Requests : requests[j].step # "idle" => requests[j].file \in Files
    BY RequestTyped DEF IInv
  <2>5. UploadsFresh'
    BY <2>1, <2>2, <2>3, <2>4 DEF IInv, TypeOK, UploadsFresh, Uploading, At, Answered
  <2>6. RequestsKnow'
    BY <2>1, <2>2, <2>3, <2>4 DEF IInv, RequestsKnow, At, Answered
  <2>7. RowKeepsObject'
    BY <2>1, <2>2 DEF IInv, RowKeepsObject, At
  <2>8. AnswersStayTrue'
    BY <2>2, <2>3 DEF IInv, AnswersStayTrue
  <2> QED
    BY <2>5, <2>6, <2>7, <2>8
<1>2. ASSUME PutObject(k) \/ UploadFails(k)
      PROVE  UploadsFresh' /\ RequestsKnow' /\ RowKeepsObject' /\ AnswersStayTrue'
  <2> DEFINE f == requests[k].file
  <2>1. Uploading(k) /\ f \in Files /\ uploaded[f] = "asked" /\ f \notin DOMAIN rows \cup deleted
    BY <1>2, RequestTyped DEF PutObject, UploadFails, Uploading, At, IInv, UploadsFresh, Answered
  <2>2. /\ bucket \subseteq bucket' /\ bucket' \subseteq bucket \cup {f}
        /\ UNCHANGED <<rows, links, condemned, deleted>>
    BY <1>2 DEF PutObject, UploadFails
  <2>3. \A j \in Requests \ {k} : requests'[j] = requests[j]
    BY <1>2, <2>1, EndLeaves, GoOnLeaves DEF PutObject, UploadFails, IInv, Uploading, At
  <2>4. \/ /\ requests'[k].step = "create" /\ requests'[k].file = f
           /\ f \in bucket' /\ uploaded' = uploaded
        \/ requests'[k].step = "idle" /\ uploaded' = [uploaded EXCEPT ![f] = "failed"]
    BY <1>2, <2>1, EndLeaves, GoOnLeaves DEF PutObject, UploadFails, IInv, Uploading, At
  <2>5. \A j \in Requests : requests[j].step # "idle" => requests[j].file \in Files
    BY RequestTyped DEF IInv
  <2>6. \A g \in Files \ {f} : uploaded'[g] = uploaded[g]
    BY <2>4 DEF IInv, TypeOK
  <2>7. \A j \in Requests \ {k} : Uploading(j) => requests[j].file # f
    BY <2>1 DEF IInv, UploadsFresh
  <2> HIDE DEF f
  <2>8. UploadsFresh'
    BY <2>1, <2>2, <2>3, <2>4, <2>5, <2>6, <2>7 DEF IInv, TypeOK, UploadsFresh, Uploading, At, Answered, f
  <2>9. RequestsKnow'
    BY <2>1, <2>2, <2>3, <2>4, <2>5, <2>6 DEF IInv, TypeOK, RequestsKnow, At, Answered
  <2>10. RowKeepsObject'
    BY <2>1, <2>2, <2>3, <2>4 DEF IInv, RowKeepsObject, At
  <2>11. AnswersStayTrue'
    BY <2>1, <2>2, <2>4, <2>6 DEF IInv, TypeOK, AnswersStayTrue
  <2> QED
    BY <2>8, <2>9, <2>10, <2>11
<1> QED
  BY <1>1, <1>2

LEMMA CreateKeeps ==
    ASSUME IInv, NEW k \in Requests, CreateRow(k)
    PROVE  UploadsFresh' /\ RequestsKnow' /\ RowKeepsObject' /\ AnswersStayTrue'
<1> DEFINE f == requests[k].file
<1>1. Uploading(k) /\ f \in Files /\ uploaded[f] = "asked" /\ f \notin deleted
  BY RequestTyped DEF CreateRow, Uploading, At, IInv, UploadsFresh, Answered
<1>2. f \in bucket \cup condemned
  BY DEF CreateRow, At, IInv, RequestsKnow
<1>3. /\ DOMAIN rows' = DOMAIN rows \cup {f}
      /\ links' \subseteq links \cup (Owners \X {f})
      /\ UNCHANGED <<bucket, condemned, deleted>>
  BY DEF CreateRow
<1>4. requests'[k].step = "idle" /\ \A j \in Requests \ {k} : requests'[j] = requests[j]
  BY EndLeaves DEF CreateRow, IInv
<1>5. uploaded'[f] \in {"url", "failed"} /\ \A g \in Files \ {f} : uploaded'[g] = uploaded[g]
  BY <1>1 DEF CreateRow, IInv, TypeOK
<1>6. \A j \in Requests \ {k} : Uploading(j) => requests[j].file \in Files \ {f}
  BY <1>1, RequestTyped DEF IInv, UploadsFresh, Uploading, At
<1>7. \A j \in Requests : requests[j].step # "idle" => requests[j].file \in Files
  BY RequestTyped DEF IInv
<1>8. DOMAIN rows \cup deleted \subseteq Files
  BY DEF IInv, TypeOK
<1> HIDE DEF f
<1>9. UploadsFresh'
  BY <1>1, <1>3, <1>4, <1>5, <1>6, <1>8 DEF IInv, UploadsFresh, Uploading, At, Answered
<1>10. RequestsKnow'
  BY <1>3, <1>4, <1>5, <1>7 DEF IInv, RequestsKnow, At, Answered
<1>11. RowKeepsObject'
  BY <1>2, <1>3, <1>4 DEF IInv, RowKeepsObject, At
<1>12. AnswersStayTrue'
  BY <1>1, <1>2, <1>3, <1>5 DEF IInv, AnswersStayTrue
<1> QED
  BY <1>9, <1>10, <1>11, <1>12

LEMMA DeleteKeeps ==
    ASSUME IInv, NEW k \in Requests, DeleteObject(k) \/ DeleteRow(k)
    PROVE  UploadsFresh' /\ RequestsKnow' /\ RowKeepsObject' /\ AnswersStayTrue'
<1> DEFINE f == requests[k].file
<1>1. f \in Files /\ Answered(f) /\ ~ Uploading(k) /\ ~ At(k, "idle")
  BY RequestTyped DEF DeleteObject, DeleteRow, Uploading, At, IInv, RequestsKnow
<1>2. uploaded' = uploaded /\ links' \subseteq links
  BY DEF DeleteObject, DeleteRow
<1>3. \A j \in Requests \ {k} : requests'[j] = requests[j]
  BY <1>1, EndLeaves, GoOnLeaves DEF DeleteObject, DeleteRow, GoOnOrEnd, IInv
<1>4. CASE DeleteObject(k)
  <2>1. /\ bucket' = bucket \ {f} /\ condemned' = condemned \cup {f}
        /\ UNCHANGED <<rows, deleted>>
    BY <1>4 DEF DeleteObject
  <2>2. \/ requests'[k].step = "idle"
        \/ requests'[k].step = "vehicleLinks" /\ requests'[k].file = f
    BY <1>1, <1>4, EndLeaves, GoOnLeaves DEF DeleteObject, GoOnOrEnd, IInv
  <2> HIDE DEF f
  <2>3. UploadsFresh'
    BY <1>1, <1>2, <1>3, <2>1, <2>2 DEF IInv, UploadsFresh, Uploading, At, Answered
  <2>4. RequestsKnow'
    BY <1>1, <1>2, <1>3, <2>1, <2>2 DEF IInv, RequestsKnow, At, Answered
  <2>5. RowKeepsObject'
    BY <1>3, <2>1, <2>2 DEF IInv, RowKeepsObject, At
  <2>6. AnswersStayTrue'
    BY <1>2, <2>1 DEF IInv, AnswersStayTrue
  <2> QED
    BY <2>3, <2>4, <2>5, <2>6
<1>5. CASE DeleteRow(k)
  <2>1. /\ DOMAIN rows' = DOMAIN rows \ {f} /\ f \in DOMAIN rows
        /\ links' = links \ (Owners \X {f})
        /\ deleted' \subseteq deleted \cup {f} /\ deleted \subseteq deleted'
        /\ UNCHANGED <<bucket, condemned>>
    BY <1>5 DEF DeleteRow
  <2>2. f \in condemned \ bucket
    BY <1>5 DEF DeleteRow, At, IInv, RequestsKnow
  <2>3. requests'[k].step = "idle"
    BY <1>5, EndLeaves DEF DeleteRow, IInv
  <2> HIDE DEF f
  <2>4. UploadsFresh'
    BY <1>1, <1>2, <1>3, <2>1, <2>3 DEF IInv, UploadsFresh, Uploading, At, Answered
  <2>5. RequestsKnow'
    BY <1>2, <1>3, <2>1, <2>3 DEF IInv, RequestsKnow, At, Answered
  <2>6. RowKeepsObject'
    BY <1>3, <2>1, <2>3 DEF IInv, RowKeepsObject, At
  <2>7. AnswersStayTrue'
    BY <1>2, <2>1, <2>2 DEF IInv, AnswersStayTrue
  <2> QED
    BY <2>4, <2>5, <2>6, <2>7
<1> QED
  BY <1>4, <1>5

LEMMA InvariantKept == IInv /\ [Next]_vars => UploadsFresh' /\ RequestsKnow' /\ RowKeepsObject' /\ AnswersStayTrue'
<1> SUFFICES ASSUME IInv, [Next]_vars
             PROVE  UploadsFresh' /\ RequestsKnow' /\ RowKeepsObject' /\ AnswersStayTrue'
  OBVIOUS
<1>1. ASSUME NEW k \in Requests, NEW f \in Files, NEW o \in Organizations,
             StartDownload(k, f, o) \/ StartDelete(k, f, o)
      PROVE  UploadsFresh' /\ RequestsKnow' /\ RowKeepsObject' /\ AnswersStayTrue'
  <2>1. /\ requests'[k].step \in {"look", "find"}
        /\ \A j \in Requests \ {k} : requests'[j] = requests[j]
    BY <1>1, BeginLeaves DEF StartDownload, StartDelete, IInv
  <2>2. UNCHANGED <<bucket, rows, links, history>>
    BY <1>1 DEF StartDownload, StartDelete
  <2> QED
    BY <2>1, <2>2 DEF history, IInv, UploadsFresh, Uploading, At, Answered, RequestsKnow,
                      RowKeepsObject, AnswersStayTrue
<1>2. ASSUME NEW k \in Requests,
             \/ FindToDownload(k) \/ GetObject(k) \/ FindToDelete(k) \/ RequestFails(k)
             \/ DeleteVehicleLinks(k) \/ DeleteShipmentLinks(k)
      PROVE  UploadsFresh' /\ RequestsKnow' /\ RowKeepsObject' /\ AnswersStayTrue'
  <2>1. /\ ~ Uploading(k) /\ ~ At(k, "idle") /\ links' \subseteq links
        /\ UNCHANGED <<bucket, rows, uploaded, condemned, deleted>>
    BY <1>2 DEF FindToDownload, GetObject, FindToDelete, RequestFails, DeleteVehicleLinks,
                DeleteShipmentLinks, Uploading, At, history
  <2>2. \/ End(k)
        \/ GoOn(k, "get") /\ Found(k)
        \/ GoOn(k, "object") /\ Found(k)
        \/ At(k, "vehicleLinks") /\ GoOn(k, "shipmentLinks")
        \/ At(k, "shipmentLinks") /\ GoOn(k, "row")
    BY <1>2 DEF FindToDownload, GetObject, FindToDelete, RequestFails, DeleteVehicleLinks,
                DeleteShipmentLinks, GoOnOrEnd
  <2> QED
    BY <2>1, <2>2, QuietStep
<1>3. ASSUME NEW w \in Owners, DeleteOwner(w)
      PROVE  UploadsFresh' /\ RequestsKnow' /\ RowKeepsObject' /\ AnswersStayTrue'
  <2>1. UNCHANGED <<bucket, rows, requests, history>> /\ links' \subseteq links
    BY <1>3 DEF DeleteOwner
  <2> QED
    BY <2>1 DEF history, IInv, UploadsFresh, Uploading, At, Answered, RequestsKnow,
                RowKeepsObject, AnswersStayTrue
<1>4. CASE Crash
  <2>1. /\ \A j \in Requests : requests'[j].step = "idle"
        /\ UNCHANGED <<bucket, rows, links, history>>
    BY <1>4 DEF Crash, Idle
  <2> QED
    BY <2>1 DEF history, IInv, UploadsFresh, Uploading, At, Answered, RequestsKnow,
                RowKeepsObject, AnswersStayTrue
<1>5. CASE UNCHANGED vars
  BY <1>5 DEF vars, history, IInv, UploadsFresh, Uploading, At, Answered, RequestsKnow,
              RowKeepsObject, AnswersStayTrue
<1> QED
  BY <1>1, <1>2, <1>3, <1>4, <1>5, UploadsAreStarted, UploadKeeps, CreateKeeps, DeleteKeeps
     DEF Next, Step

LEMMA Inductive == Spec => []IInv
<1>1. Init => UploadsFresh /\ RequestsKnow /\ RowKeepsObject /\ AnswersStayTrue
  BY DEF Init, Idle, UploadsFresh, Uploading, At, Answered, RequestsKnow, RowKeepsObject,
         AnswersStayTrue
<1>2. IInv /\ [Next]_vars /\ TypeOK' => IInv'
  BY InvariantKept DEF IInv
<1>3. Init /\ TypeOK => IInv
  BY <1>1 DEF IInv
<1> QED
  BY <1>2, <1>3, TypeCorrect, PTL DEF Spec

(* For any files and requests: a row of the table, and a row a download has *)
(* read, has its object in the bucket until the deletion of the file begins.*)
THEOREM RowsKeepObjects == Spec => []RowKeepsObject
<1>1. IInv => RowKeepsObject
  BY DEF IInv
<1> QED
  BY <1>1, Inductive, PTL

(* What an upload or a deletion was answered stays true, whatever other     *)
(* requests, failures and crashes come between.                             *)
THEOREM AnswersHold == Spec => []AnswersStayTrue
<1>1. IInv => AnswersStayTrue
  BY DEF IInv
<1> QED
  BY <1>1, Inductive, PTL
=============================================================================
