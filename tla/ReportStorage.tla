---------------------------- MODULE ReportStorage -----------------------------
(***************************************************************************)
(* A report's stored objects: direct uploads and their confirmation        *)
(* (report-assets.service.ts), duplication and deletion of reports         *)
(* (reports.service.ts), and the cleanup outbox they share                 *)
(* (storage/storage-cleanup.service.ts).                                   *)
(*                                                                         *)
(* PostgreSQL and S3 share no transaction, so a request is a sequence of   *)
(* steps, one per await, which other requests, the client's upload, the    *)
(* clock and a failure may separate.  An asset's storage key holds a       *)
(* random UUID of its own, so the asset id stands for its key.             *)
(***************************************************************************)
EXTENDS Naturals, FiniteSets, FiniteSetsExt

CONSTANTS
    Reports,
    Assets,       \* asset ids, each with its storage key
    Calls,        \* API requests in flight
    Operations,   \* which operations clients use
    Faults,       \* which faults may happen, see FaultKinds
    Kind, Size,   \* type and declared size of the upload requested for an id
    MaxCount,     \* REPORT_MAX_IMAGES and the like, by type
    MaxBytes,     \* REPORT_MAX_TOTAL_ASSET_BYTES
    PendingTtl,   \* PENDING_UPLOAD_TTL_MINUTES, in ticks
    NULL

OperationKinds ==
    {"request", "confirm", "delete", "duplicate", "purge", "generate"}

FaultKinds ==
    {"abort",      \* a request ends at an await, for a crash or a database error
     "abortCopy",  \* so does a duplication that has not recorded its copies yet
     "s3",         \* an S3 deletion or read fails
     "copy",       \* copyObject throws, S3 may have made the copy
     "db",         \* the insertion of a duplicate throws
     "commitAck",  \* it throws although the duplicate is committed
     "badUpload",  \* a client uploads something else than it declared
     "overlap"}    \* a confirmation meets another one or its slot's expiration

ASSUME StorageConstants ==
    /\ Operations \subseteq OperationKinds
    /\ Faults \subseteq FaultKinds
    /\ IsFiniteSet(Assets)
    /\ Size \in [Assets -> Nat \ {0}]
    /\ \A a \in Assets : MaxCount[Kind[a]] \in Nat
    /\ MaxBytes \in Nat
    /\ PendingTtl \in Nat
    /\ NULL \notin Reports /\ NULL \notin Assets

VARIABLES
    report,    \* Report.status, QUEUED and PROCESSING taken together as ACTIVE
    sources,   \* assets in the input snapshot of a report's generation
    asset,     \* ReportAsset rows
    contract,  \* presigned POSTs: not issued, open to the client's upload, closed
    objects,   \* what S3 holds under each key
    cleanup,   \* StorageCleanupTask rows
    call       \* API requests in flight

vars == <<report, sources, asset, contract, objects, cleanup, call>>

Output(r) == <<"output", r>>
Keys == Assets \cup {Output(r) : r \in Reports}

\* The key of an output is none of an asset's.
ASSUME KeysDiffer == \A r \in Reports : Output(r) \notin Assets

\* ABSENT: the id is not used yet.  COPY: it is drawn for a copy, without a row.
RowStatus == {"PENDING", "READY", "REJECTED"}
AssetRows == [status : RowStatus \cup {"ABSENT", "COPY", "DELETED"}, report : Reports \cup {NULL},
              age : 0..(PendingTtl + 1)]
Steps == {"idle", "erase", "list", "expire", "expireRow", "slot", "sign",
          "confirm", "head", "inspect", "ready", "reject", "rejectRow", "find", "drop",
          "copy", "rollback"}
CallRows == [step : Steps, after : Steps, report : Reports \cup {NULL}, asset : Assets \cup {NULL},
             list : SUBSET Assets, copies : SUBSET Assets,
             todo : SUBSET Keys, done : SUBSET Keys]

HasRow(a) == asset[a].status \in RowStatus
Exists(r) == report[r] \notin {"ABSENT", "DELETED"}
AssetsOf(r) == {a \in Assets : HasRow(a) /\ asset[a].report = r}

\* The rows' types, their foreign key, and a READY report's output object.
TypeOK ==
    /\ report \in [Reports -> {"ABSENT", "DRAFT", "ACTIVE", "FAILED", "READY", "DELETED"}]
    /\ sources \in [Reports -> SUBSET Assets]
    /\ asset \in [Assets -> AssetRows]
    /\ contract \in [Assets -> {"none", "open", "closed"}]
    /\ objects \in [Keys -> {"none", "good", "bad"}]
    /\ cleanup \subseteq Keys
    /\ call \in [Calls -> CallRows]
    /\ \A a \in Assets : HasRow(a) => asset[a].report # NULL /\ Exists(asset[a].report)

NoRow(status) == [status |-> status, report |-> NULL, age |-> 0]
IdleCall == [step |-> "idle", after |-> "idle", report |-> NULL, asset |-> NULL,
             list |-> {}, copies |-> {}, todo |-> {}, done |-> {}]

\* One report is there, the other ids are for duplicates.
Init ==
    /\ \E r \in Reports : report = [s \in Reports |-> IF s = r THEN "DRAFT" ELSE "ABSENT"]
    /\ sources = [r \in Reports |-> {}]
    /\ asset = [a \in Assets |-> NoRow("ABSENT")]
    /\ contract = [a \in Assets |-> "none"]
    /\ objects = [k \in Keys |-> "none"]
    /\ cleanup = {}
    /\ call = [c \in Calls |-> IdleCall]

-----------------------------------------------------------------------------
(* Shared pieces.                                                          *)

At(c, step) == call[c].step = step
Go(c, row) == call' = [call EXCEPT ![c] = row]
GoTo(c, step) == Go(c, [call[c] EXCEPT !.step = step])
EndCall(c) == Go(c, IdleCall)
Begin(c, operation) == At(c, "idle") /\ operation \in Operations

\* A request is at work on the asset.
Handled(a) == \E c \in Calls : ~At(c, "idle") /\ call[c].asset = a

\* assertReportEditable
EditableAnyway(r) == Exists(r)
Editable(r) == report[r] \in {"DRAFT", "FAILED"}

\* pendingCutoff: the row was created before it.
Expired(a) == asset[a].age > PendingTtl

\* Start deleting keys; the request goes on at `after'.
Erasing(row, keys, after) == [row EXCEPT !.step = "erase", !.after = after, !.todo = keys]

\* attempt: the object, then the task.  attemptMany and retryPending attempt
\* their keys side by side.
EraseObject(c) ==
    /\ At(c, "erase")
    /\ \E k \in call[c].todo :
        /\ objects' = [objects EXCEPT ![k] = "none"]
        /\ Go(c, [call[c] EXCEPT !.todo = @ \ {k}, !.done = @ \cup {k}])
    /\ UNCHANGED <<report, sources, asset, contract, cleanup>>

EraseTask(c) ==
    /\ At(c, "erase")
    /\ \E k \in call[c].done :
        /\ cleanup' = cleanup \ {k}
        /\ Go(c, [call[c] EXCEPT !.done = @ \ {k}])
    /\ UNCHANGED <<report, sources, asset, contract, objects>>

\* The failed attempt is recorded in the task.  When another request has
\* removed it, the update throws, past the row update that would follow.
EraseError(c) ==
    /\ "s3" \in Faults
    /\ At(c, "erase")
    /\ \E k \in call[c].todo :
        LET row == [call[c] EXCEPT !.todo = @ \ {k}]
            after == call[c].after
        IN  IF k \notin cleanup /\ after = "rejectRow" THEN EndCall(c)
            ELSE Go(c, [row EXCEPT !.after = IF k \notin cleanup /\ after = "expireRow"
                                             THEN "expire" ELSE @])
    /\ UNCHANGED <<report, sources, asset, contract, objects, cleanup>>

EraseEnd(c) ==
    /\ At(c, "erase")
    /\ call[c].todo = {} /\ call[c].done = {}
    /\ IF call[c].after = "idle" THEN EndCall(c) ELSE GoTo(c, call[c].after)
    /\ UNCHANGED <<report, sources, asset, contract, objects, cleanup>>

\* The conditional update from PENDING_UPLOAD to REJECTED.
RejectRow(a) ==
    asset' = IF asset[a].status = "PENDING"
             THEN [asset EXCEPT ![a].status = "REJECTED"] ELSE asset

-----------------------------------------------------------------------------
(* requestUpload                                                           *)

\* The report is editable; retryPending has read the tasks.
RequestBegin(c, r) ==
    /\ Begin(c, "request")
    /\ Editable(r)
    /\ Go(c, Erasing([IdleCall EXCEPT !.report = r], cleanup, "list"))
    /\ UNCHANGED <<report, sources, asset, contract, objects, cleanup>>

\* cleanupExpiredPendingUploads reads its list once.
ListExpired(c) ==
    /\ At(c, "list")
    /\ LET expired == {a \in AssetsOf(call[c].report) : asset[a].status = "PENDING" /\ Expired(a)}
       IN  Go(c, [call[c] EXCEPT !.step = IF expired = {} THEN "slot" ELSE "expire", !.list = expired])
    /\ UNCHANGED <<report, sources, asset, contract, objects, cleanup>>

Expire(c) ==
    /\ At(c, "expire")
    /\ \E a \in call[c].list :
        /\ cleanup' = cleanup \cup {a}
        /\ Go(c, Erasing([call[c] EXCEPT !.asset = a, !.list = @ \ {a}], {a}, "expireRow"))
    /\ UNCHANGED <<report, sources, asset, contract, objects>>

ExpireRow(c) ==
    /\ At(c, "expireRow")
    /\ RejectRow(call[c].asset)
    /\ GoTo(c, "expire")
    /\ UNCHANGED <<report, sources, contract, objects, cleanup>>

ExpireEnd(c) ==
    /\ At(c, "expire")
    /\ call[c].list = {}
    /\ GoTo(c, "slot")
    /\ UNCHANGED <<report, sources, asset, contract, objects, cleanup>>

\* The rows that count against the limits.
Reserving(r) == {a \in AssetsOf(r) : \/ asset[a].status = "READY"
                                     \/ asset[a].status = "PENDING" /\ ~Expired(a)}
Bytes(assets) == MapThenSumSet(LAMBDA a : Size[a], assets)
OfKind(assets, kind) == {a \in assets : Kind[a] = kind}

WithinLimitsOfReady(r, a) ==
    LET ready == {b \in AssetsOf(r) : asset[b].status = "READY"} IN
    /\ Cardinality(OfKind(ready, Kind[a])) < MaxCount[Kind[a]]
    /\ Bytes(ready) + Size[a] <= MaxBytes

WithinLimits(r, a) ==
    /\ Cardinality(OfKind(Reserving(r), Kind[a])) < MaxCount[Kind[a]]
    /\ Bytes(Reserving(r)) + Size[a] <= MaxBytes

\* The Serializable transaction of createPendingAssetWithinLimits.
ReserveSlot(c, a) ==
    LET r == call[c].report IN
    /\ At(c, "slot")
    /\ asset[a].status = "ABSENT"
    /\ Editable(r)
    /\ WithinLimits(r, a)
    /\ asset' = [asset EXCEPT ![a] = [NoRow("PENDING") EXCEPT !.report = r]]
    /\ Go(c, [call[c] EXCEPT !.step = "sign", !.asset = a])
    /\ UNCHANGED <<report, sources, contract, objects, cleanup>>

SlotRefused(c) ==
    /\ At(c, "slot")
    /\ \/ ~Editable(call[c].report)
       \/ \E a \in Assets : asset[a].status = "ABSENT" /\ ~WithinLimits(call[c].report, a)
    /\ EndCall(c)
    /\ UNCHANGED <<report, sources, asset, contract, objects, cleanup>>

\* The client gets its upload contract, or the slot is taken back.
Sign(c) ==
    /\ At(c, "sign")
    /\ LET a == call[c].asset IN
       contract' = IF contract[a] = "none" THEN [contract EXCEPT ![a] = "open"] ELSE contract
    /\ EndCall(c)
    /\ UNCHANGED <<report, sources, asset, objects, cleanup>>

SignError(c) ==
    /\ "s3" \in Faults
    /\ At(c, "sign")
    /\ LET a == call[c].asset IN
       asset' = IF asset[a].status = "PENDING" THEN [asset EXCEPT ![a] = NoRow("DELETED")] ELSE asset
    /\ EndCall(c)
    /\ UNCHANGED <<report, sources, contract, objects, cleanup>>

-----------------------------------------------------------------------------
(* confirmUpload                                                           *)

ConfirmBegin(c, a) ==
    /\ Begin(c, "confirm")
    /\ asset[a].status = "PENDING"
    /\ "overlap" \in Faults \/ ~Handled(a)
    /\ contract' = [contract EXCEPT ![a] = "closed"]
    /\ Go(c, [IdleCall EXCEPT !.step = "confirm", !.report = asset[a].report, !.asset = a])
    /\ UNCHANGED <<report, sources, asset, objects, cleanup>>

ConfirmCheckIgnoresExpiry(c) ==
    /\ At(c, "confirm")
    /\ IF ~Editable(call[c].report) THEN EndCall(c) ELSE GoTo(c, "head")
    /\ UNCHANGED <<report, sources, asset, contract, objects, cleanup>>

\* The report is editable, and the upload request has not expired.
ConfirmCheck(c) ==
    /\ At(c, "confirm")
    /\ IF ~Editable(call[c].report) THEN EndCall(c)
       ELSE GoTo(c, IF Expired(call[c].asset) THEN "reject" ELSE "head")
    /\ UNCHANGED <<report, sources, asset, contract, objects, cleanup>>

\* HEAD finds the object or not, of the declared size or not.
ConfirmHead(c) ==
    /\ At(c, "head")
    /\ LET found == objects[call[c].asset] IN
       \/ found # "good" /\ GoTo(c, "reject")
       \/ found # "none" /\ GoTo(c, "inspect")
    /\ UNCHANGED <<report, sources, asset, contract, objects, cleanup>>

\* The first bytes are of the declared type or not; an object that has gone
\* in between is a storage error.
ConfirmInspect(c) ==
    /\ At(c, "inspect")
    /\ LET found == objects[call[c].asset] IN
       \/ found = "none" /\ EndCall(c)
       \/ found = "bad" /\ GoTo(c, "reject")
       \/ found = "good" /\ GoTo(c, "ready")
    /\ UNCHANGED <<report, sources, asset, contract, objects, cleanup>>

ConfirmReadError(c) ==
    /\ "s3" \in Faults
    /\ call[c].step \in {"head", "inspect"}
    /\ EndCall(c)
    /\ UNCHANGED <<report, sources, asset, contract, objects, cleanup>>

ConfirmableAlways(a) == HasRow(a)
Confirmable(a) == asset[a].status = "PENDING"

ConfirmReady(c) ==
    /\ At(c, "ready")
    /\ LET a == call[c].asset IN
       asset' = IF Confirmable(a) THEN [asset EXCEPT ![a].status = "READY"] ELSE asset
    /\ EndCall(c)
    /\ UNCHANGED <<report, sources, contract, objects, cleanup>>

\* rejectUpload: the task, the attempt, the row.
Reject(c) ==
    /\ At(c, "reject")
    /\ cleanup' = cleanup \cup {call[c].asset}
    /\ Go(c, Erasing(call[c], {call[c].asset}, "rejectRow"))
    /\ UNCHANGED <<report, sources, asset, contract, objects>>

RejectRowEnd(c) ==
    /\ At(c, "rejectRow")
    /\ RejectRow(call[c].asset)
    /\ EndCall(c)
    /\ UNCHANGED <<report, sources, contract, objects, cleanup>>

-----------------------------------------------------------------------------
(* delete, of an asset and of a report                                     *)

DeleteBegin(c, a) ==
    /\ Begin(c, "delete")
    /\ HasRow(a)
    /\ Editable(asset[a].report)
    /\ Go(c, [IdleCall EXCEPT !.step = "find", !.report = asset[a].report, !.asset = a])
    /\ UNCHANGED <<report, sources, asset, contract, objects, cleanup>>

DeleteFind(c) ==
    /\ At(c, "find")
    /\ IF HasRow(call[c].asset) THEN GoTo(c, "drop") ELSE EndCall(c)
    /\ UNCHANGED <<report, sources, asset, contract, objects, cleanup>>

\* The task and the deletion of the row commit together; the report's status
\* is not looked at again.
DeleteRow(c) ==
    /\ At(c, "drop")
    /\ cleanup' = cleanup \cup {call[c].asset}
    /\ asset' = [asset EXCEPT ![call[c].asset] = NoRow("DELETED")]
    /\ Go(c, Erasing(call[c], {call[c].asset}, "idle"))
    /\ UNCHANGED <<report, sources, contract, objects>>

OutputOf(r) == IF report[r] = "READY" THEN {Output(r)} ELSE {}

\* The rows that go with a deleted report.
CascadeMissing(r) == asset
Cascade(r) == [a \in Assets |-> IF a \in AssetsOf(r) THEN NoRow("DELETED") ELSE asset[a]]

\* The Serializable transaction of the deletion of a report.
DeleteReport(c, r) ==
    LET keys == AssetsOf(r) \cup OutputOf(r) IN
    /\ Begin(c, "purge")
    /\ Exists(r) /\ report[r] # "ACTIVE"
    /\ cleanup' = cleanup \cup keys
    /\ report' = [report EXCEPT ![r] = "DELETED"]
    /\ asset' = Cascade(r)
    /\ Go(c, Erasing(IdleCall, keys, "idle"))
    /\ UNCHANGED <<sources, contract, objects>>

-----------------------------------------------------------------------------
(* duplicate                                                               *)

DuplicateBegin(c, r) ==
    /\ Begin(c, "duplicate")
    /\ report[r] = "READY"
    /\ Go(c, [IdleCall EXCEPT !.step = "copy", !.report = r,
                              !.list = {a \in AssetsOf(r) : asset[a].status = "READY"}])
    /\ UNCHANGED <<report, sources, asset, contract, objects, cleanup>>

\* The copy of an asset is of its type and size, under an id of its own.
FreshCopy(b, a) == asset[b].status = "ABSENT" /\ Kind[b] = Kind[a] /\ Size[b] = Size[a]

\* copyObject under a fresh key, which the request remembers.
CopyObject(c) ==
    /\ At(c, "copy")
    /\ \E a \in call[c].list, b \in Assets :
        /\ FreshCopy(b, a)
        /\ asset' = [asset EXCEPT ![b].status = "COPY"]
        /\ IF objects[a] = "none"
           THEN GoTo(c, "rollback") /\ UNCHANGED objects
           ELSE /\ objects' = [objects EXCEPT ![b] = objects[a]]
                /\ Go(c, [call[c] EXCEPT !.list = @ \ {a}, !.copies = @ \cup {b}])
    /\ UNCHANGED <<report, sources, contract, cleanup>>

\* copyObject throws, in CopyObjectCommand or in the HEAD after it.
CopyError(c) ==
    /\ "copy" \in Faults
    /\ At(c, "copy")
    /\ \E a \in call[c].list, b \in Assets :
        /\ FreshCopy(b, a)
        /\ asset' = [asset EXCEPT ![b].status = "COPY"]
        /\ objects' \in {objects, [objects EXCEPT ![b] = objects[a]]}
    /\ GoTo(c, "rollback")
    /\ UNCHANGED <<report, sources, contract, cleanup>>

\* The duplicate and its asset rows appear together.
Duplicated(c, d) ==
    /\ At(c, "copy")
    /\ call[c].list = {}
    /\ report[d] = "ABSENT"
    /\ report' = [report EXCEPT ![d] = "DRAFT"]
    /\ asset' = [a \in Assets |-> IF a \in call[c].copies
                                  THEN [NoRow("READY") EXCEPT !.report = d] ELSE asset[a]]
    /\ UNCHANGED <<sources, contract, objects, cleanup>>

DuplicateRolledBackAnyway(c, d) == Duplicated(c, d) /\ GoTo(c, "rollback")
DuplicateCommit(c, d) == Duplicated(c, d) /\ EndCall(c)

DuplicateAckLost(c, d) ==
    /\ "commitAck" \in Faults
    /\ Duplicated(c, d)
    /\ GoTo(c, "rollback")

DuplicateError(c) ==
    /\ "db" \in Faults
    /\ At(c, "copy")
    /\ call[c].list = {}
    /\ GoTo(c, "rollback")
    /\ UNCHANGED <<report, sources, asset, contract, objects, cleanup>>

RollbackUnrecorded(c) ==
    /\ At(c, "rollback")
    /\ Go(c, Erasing(call[c], call[c].copies, "idle"))
    /\ UNCHANGED <<report, sources, asset, contract, objects, cleanup>>

\* rollbackDuplicateCopies
Rollback(c) ==
    /\ At(c, "rollback")
    /\ cleanup' = cleanup \cup call[c].copies
    /\ Go(c, Erasing(call[c], call[c].copies, "idle"))
    /\ UNCHANGED <<report, sources, asset, contract, objects>>

-----------------------------------------------------------------------------
(* The client, the generation, failures and time.                          *)

\* The presigned POST, used at most once, while the slot is there and before the
\* client confirms the asset.
Upload(a) ==
    /\ contract[a] = "open"
    /\ asset[a].status = "PENDING" /\ ~Expired(a)
    /\ objects' \in {[objects EXCEPT ![a] = content] :
                        content \in IF "badUpload" \in Faults THEN {"good", "bad"} ELSE {"good"}}
    /\ contract' = [contract EXCEPT ![a] = "closed"]
    /\ UNCHANGED <<report, sources, asset, cleanup, call>>

\* The start transaction: an editable report, validateSources, the snapshot.
StartGeneration(r) ==
    /\ "generate" \in Operations
    /\ Editable(r)
    /\ \A a \in AssetsOf(r) : asset[a].status = "READY"
    /\ report' = [report EXCEPT ![r] = "ACTIVE"]
    /\ sources' = [sources EXCEPT ![r] = AssetsOf(r)]
    /\ UNCHANGED <<asset, contract, objects, cleanup, call>>

EndGeneration(r) ==
    /\ report[r] = "ACTIVE"
    /\ \/ /\ report' = [report EXCEPT ![r] = "READY"]
          /\ objects' = [objects EXCEPT ![Output(r)] = "good"]
       \/ /\ report' = [report EXCEPT ![r] = "FAILED"]
          /\ UNCHANGED objects
    /\ sources' = [sources EXCEPT ![r] = {}]
    /\ UNCHANGED <<asset, contract, cleanup, call>>

Abort(c) ==
    /\ ~At(c, "idle")
    /\ (IF At(c, "copy") \/ At(c, "rollback") THEN "abortCopy" ELSE "abort") \in Faults
    /\ EndCall(c)
    /\ UNCHANGED <<report, sources, asset, contract, objects, cleanup>>

\* Time passes for the upload slots.
Tick ==
    LET aging == {a \in Assets : asset[a].status = "PENDING" /\ ~Expired(a)} IN
    /\ aging # {}
    /\ "overlap" \in Faults \/ \A a \in aging : asset[a].age = PendingTtl => ~Handled(a)
    /\ asset' = [a \in Assets |-> IF a \in aging
                                  THEN [asset[a] EXCEPT !.age = @ + 1] ELSE asset[a]]
    /\ UNCHANGED <<report, sources, contract, objects, cleanup, call>>

Next ==
    \/ \E c \in Calls :
        \/ EraseObject(c) \/ EraseTask(c) \/ EraseError(c) \/ EraseEnd(c)
        \/ ListExpired(c) \/ Expire(c) \/ ExpireRow(c) \/ ExpireEnd(c)
        \/ SlotRefused(c) \/ Sign(c) \/ SignError(c)
        \/ ConfirmCheck(c) \/ ConfirmHead(c) \/ ConfirmInspect(c) \/ ConfirmReadError(c)
        \/ ConfirmReady(c) \/ Reject(c) \/ RejectRowEnd(c)
        \/ DeleteFind(c) \/ DeleteRow(c)
        \/ CopyObject(c) \/ CopyError(c) \/ DuplicateError(c) \/ Rollback(c) \/ Abort(c)
        \/ \E a \in Assets : ReserveSlot(c, a) \/ ConfirmBegin(c, a) \/ DeleteBegin(c, a)
        \/ \E r \in Reports :
            \/ RequestBegin(c, r) \/ DeleteReport(c, r) \/ DuplicateBegin(c, r)
            \/ DuplicateCommit(c, r) \/ DuplicateAckLost(c, r)
    \/ \E a \in Assets : Upload(a)
    \/ \E r \in Reports : StartGeneration(r) \/ EndGeneration(r)
    \/ Tick

Spec == Init /\ [][Next]_vars

-----------------------------------------------------------------------------
(* Properties.                                                             *)

\* Nothing in S3 is forgotten: a stored object belongs to a row, is queued for
\* cleanup, or is a copy whose request is still running.  Uploads, confirmations,
\* expirations and deletions keep it wherever they are aborted between their
\* steps in PostgreSQL and in S3.  A duplication keeps it only if it is not
\* aborted before the keys of its copies are recorded ("abortCopy") and if
\* copyObject, when it throws, has copied nothing ("copy"): until then its copies
\* are known to the request alone.
KeysOwned ==
    \A k \in Keys : objects[k] # "none" =>
        \/ k \in cleanup
        \/ k \in Assets /\ HasRow(k)
        \/ \E c \in Calls : k \in call[c].copies
        \/ \E r \in Reports : k \in OutputOf(r)

\* A READY asset has the object that was verified, a duplicate its own copies.
ReadyAssetHasObject ==
    \A a \in Assets : asset[a].status = "READY" => objects[a] = "good"

\* The cleanup outbox never names the key of a READY asset or of a published
\* output, so no retry of a later request deletes what is in use.
CleanupSparesUsed ==
    \A k \in cleanup :
        /\ k \in Assets => asset[k].status # "READY"
        /\ \A r \in Reports : k \notin OutputOf(r)

\* While a generation of a report is active all its assets are READY: no upload
\* slot that was requested, confirmed or expired across its start shows up.
SourcesReady ==
    \A r \in Reports : report[r] = "ACTIVE" =>
        \A a \in AssetsOf(r) : asset[a].status = "READY"

\* The assets in the snapshot of an active generation stay with the report.
SourcesKept ==
    \A r \in Reports : report[r] = "ACTIVE" => sources[r] \subseteq AssetsOf(r)

\* A verdict on an upload is final: of two racing confirmations, rejections and
\* expirations only the first one to write changes the row.
VerdictFinal ==
    [][\A a \in Assets :
        asset[a].status \in {"READY", "REJECTED"} =>
            asset'[a].status \in {asset[a].status, "DELETED"}]_vars

\* READY assets and unexpired reservations of a report stay within its limits
\* when requests reserve, confirm, expire, delete and duplicate at the same time,
\* as long as no slot expires while it is being confirmed: confirmUpload does not
\* look at the age again when it writes, so the place of such a slot may go to
\* another upload before it is READY.
LimitsHold ==
    \A r \in Reports :
        /\ \A a \in Assets : Cardinality(OfKind(Reserving(r), Kind[a])) <= MaxCount[Kind[a]]
        /\ Bytes(Reserving(r)) <= MaxBytes

=============================================================================
