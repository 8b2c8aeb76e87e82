-------------------------- MODULE StorageLifecycle --------------------------
(***************************************************************************)
(* Direct uploads and the storage they occupy: upload sessions and the     *)
(* deletion of unused objects (storage-lifecycle.ts), the routes that      *)
(* prepare, complete and abort an upload (api/assets/uploads), and the     *)
(* triggers of core-v1.sql that keep used_bytes and queue the object of a  *)
(* deleted asset.                                                          *)
(*                                                                         *)
(* Each upload has an object key of its own, so a file is known by its     *)
(* upload.  The object store is external: a multipart upload has parts     *)
(* until it is completed or aborted, and either fails when it has none.    *)
(* A transaction that commits is known to have committed.                  *)
(***************************************************************************)
EXTENDS Integers, FiniteSets, Functions

CONSTANTS
  Uploads,        \* asset ids
  Bytes,          \* size_bytes of each
  Capacity,       \* quota_bytes of the workspace
  Requests,       \* requests to complete or abort an upload
  StorageWorkers, \* worker processes that drain the storage
  MaxDeletions,   \* max_attempts of a deletion job
  MaxStorageTroubles \* bound: failures and crashes

ASSUME StorageAssumption ==
  /\ Uploads # {} /\ IsFiniteSet(Uploads)
  /\ Bytes \in [Uploads -> Nat] /\ Capacity \in Nat
  /\ MaxDeletions \in Nat /\ MaxStorageTroubles \in Nat
  /\ {"nobody", "user"} \cap StorageWorkers = {}

VARIABLES
  upload,    \* asset_upload_sessions
  outdated,   \* uploads whose expires_at is past
  reserved, used, \* workspace_storage_usage
  files,      \* assets rows that point to the object of an upload
  object,     \* the object store
  request,    \* what each request is doing
  deletion,   \* storage_deletion_jobs
  drainer,    \* what each worker process has claimed
  inputs,     \* objects named in inputs_json of an active media job
  promised,   \* history: those whose asset existed when the job was admitted
  storageTroubles \* history: failures so far
storageVars == <<upload, outdated, reserved, used, files, object, request, deletion, drainer, inputs, promised, storageTroubles>>

Open == {"prepared", "completing", "aborting"}
Ended == {"completed", "aborted", "failed"}
NoRequest == [step |-> "idle", upload |-> CHOOSE u \in Uploads : TRUE]
Resting == [kind |-> "rest", upload |-> CHOOSE u \in Uploads : TRUE, attempts |-> 0]

StorageTypeOK ==
  /\ upload \in [Uploads -> [status : {"none"} \cup Open \cup Ended,
                              worker : {"nobody", "user"} \cup StorageWorkers]]
  /\ outdated \subseteq Uploads /\ promised \subseteq inputs /\ inputs \subseteq Uploads
  /\ reserved \in Nat /\ used \in Nat
  /\ files \subseteq Uploads
  /\ object \in [Uploads -> {"none", "parts", "object"}]
  /\ request \in [Requests -> [upload : Uploads, step : {"idle", "begin", "finish", "verify",
                    "discard", "abandon", "fail", "abort", "forget", "done"}]]
  /\ deletion \in [Uploads -> [status : {"none", "queued", "processing", "completed", "dead"},
                               attempts : 0..MaxDeletions, stale : BOOLEAN,
                               worker : {"nobody"} \cup StorageWorkers]]
  /\ drainer \in [StorageWorkers -> [kind : {"rest", "upload", "release", "retry", "delete"},
                                     upload : Uploads, attempts : 0..MaxDeletions]]

StorageInit ==
  /\ upload = [u \in Uploads |-> [status |-> "none", worker |-> "nobody"]]
  /\ outdated = {} /\ inputs = {} /\ promised = {} /\ files = {}
  /\ reserved = 0 /\ used = 0
  /\ object = [u \in Uploads |-> "none"]
  /\ request = [r \in Requests |-> NoRequest]
  /\ deletion = [u \in Uploads |-> [status |-> "none", attempts |-> 0, stale |-> FALSE,
                                    worker |-> "nobody"]]
  /\ drainer = [w \in StorageWorkers |-> Resting]
  /\ storageTroubles = 0

SizeOf(S) == SumFunctionOnSet(Bytes, S)
media == <<inputs, promised>>
StorageTrouble == storageTroubles < MaxStorageTroubles /\ storageTroubles' = storageTroubles + 1
Goes(r, step) == request' = [request EXCEPT ![r].step = step]
Drains(w, kind) == drainer' = [drainer EXCEPT ![w].kind = kind]

-----------------------------------------------------------------------------
\* POST uploads: the multipart uploads are created, then one transaction reserves
\* the batch under the lock of the usage row, or all of them are aborted.
PrepareUploads(S) ==
  /\ S # {} /\ \A u \in S : upload[u].status = "none"
  /\ used + reserved + SizeOf(S) <= Capacity
  /\ upload' = [u \in Uploads |-> IF u \in S THEN [status |-> "prepared", worker |-> "nobody"]
                                   ELSE upload[u]]
  /\ reserved' = reserved + SizeOf(S)
  /\ object' = [u \in Uploads |-> IF u \in S THEN "parts" ELSE object[u]]
  /\ UNCHANGED <<outdated, used, files, request, deletion, drainer, media, storageTroubles>>

\* Twenty minutes: the upload, and the token of its owner, expire.
UploadExpires(u) ==
  /\ upload[u].status # "none" /\ u \notin outdated
  /\ outdated' = outdated \cup {u}
  /\ UNCHANGED <<upload, reserved, used, files, object, request, deletion, drainer, media, storageTroubles>>

\* A request to complete, unless the asset exists already, or to abort.
StartRequest(r, u) ==
  /\ request[r].step = "idle"
  /\ upload[u].status # "none" /\ u \notin outdated
  /\ \/ /\ u \notin files
        /\ request' = [request EXCEPT ![r] = [step |-> "begin", upload |-> u]]
     \/ request' = [request EXCEPT ![r] = [step |-> "abort", upload |-> u]]
  /\ UNCHANGED <<upload, outdated, reserved, used, files, object, deletion, drainer, media, storageTroubles>>

\* beginDurableUploadCompletion; a completed upload is answered as it is.
BeginCompletion(r) ==
  /\ request[r].step = "begin"
  /\ LET u == request[r].upload
     IN \/ /\ upload[u].status = "completed"
           /\ Goes(r, "finish") /\ UNCHANGED upload
        \/ /\ upload[u].status = "prepared" /\ u \notin outdated
           /\ upload' = [upload EXCEPT ![u] = [status |-> "completing", worker |-> "user"]]
           /\ Goes(r, "finish")
        \/ /\ upload[u].status \notin {"completed", "prepared"} \/ (upload[u].status = "prepared" /\ u \in outdated)
           /\ Goes(r, "done") /\ UNCHANGED upload
  /\ UNCHANGED <<outdated, reserved, used, files, object, deletion, drainer, media, storageTroubles>>

\* completeDirectMultipartUpload: the parts become the object.  It fails when they
\* are gone or incomplete, and may fail after it has made the object.
FinishMultipart(r) ==
  /\ request[r].step = "finish"
  /\ LET u == request[r].upload
     IN \/ /\ object[u] = "parts"
           /\ object' = [object EXCEPT ![u] = "object"]
           /\ Goes(r, "verify") /\ UNCHANGED storageTroubles
        \/ /\ object[u] = "parts"
           /\ object' = [object EXCEPT ![u] = "object"]
           /\ Goes(r, "abandon") /\ StorageTrouble
        \/ /\ object[u] # "parts"
           /\ Goes(r, "abandon") /\ UNCHANGED <<object, storageTroubles>>
        \/ /\ object[u] = "parts"
           /\ Goes(r, "abandon") /\ StorageTrouble /\ UNCHANGED object
  /\ UNCHANGED <<upload, outdated, reserved, used, files, deletion, drainer, media>>

\* The size or content does not match, reading it fails, or the transaction does:
\* the object is deleted.  Otherwise the asset is inserted and the upload completed,
\* and its bytes pass from reserved to used.
CommitAsset(r) ==
  /\ request[r].step = "verify"
  /\ LET u == request[r].upload
     IN \/ /\ upload[u] = [status |-> "completing", worker |-> "user"] /\ u \notin files
           /\ files' = files \cup {u}
           /\ used' = used + Bytes[u]
           /\ upload' = [upload EXCEPT ![u] = [status |-> "completed", worker |-> "nobody"]]
           /\ reserved' = IF Bytes[u] > reserved THEN 0 ELSE reserved - Bytes[u]
           /\ Goes(r, "done")
        \/ /\ Goes(r, "discard")
           /\ UNCHANGED <<upload, files, used, reserved>>
  /\ UNCHANGED <<outdated, object, deletion, drainer, media, storageTroubles>>

\* deleteStorageObject of the catch, whose failure is ignored.
DiscardObject(r) ==
  /\ request[r].step = "discard"
  /\ Goes(r, "fail")
  /\ \/ /\ object' = [object EXCEPT ![request[r].upload] = "none"]
        /\ UNCHANGED storageTroubles
     \/ StorageTrouble /\ UNCHANGED object
  /\ UNCHANGED <<upload, outdated, reserved, used, files, deletion, drainer, media>>

\* abortDirectMultipartUpload of the catch: it takes parts, never an object.
AbandonParts(r) ==
  /\ request[r].step = "abandon"
  /\ Goes(r, "fail")
  /\ \/ /\ object' = [object EXCEPT ![request[r].upload] = IF @ = "parts" THEN "none" ELSE @]
        /\ UNCHANGED storageTroubles
     \/ StorageTrouble /\ UNCHANGED object
  /\ UNCHANGED <<upload, outdated, reserved, used, files, deletion, drainer, media>>

\* releaseDurableUploadSession; of a given lease, or of any.
Releasable_Always(u) == upload[u].status # "none"
Releasable(u) == upload[u].status \in Open
Release(u, status) ==
  IF Releasable(u)
  THEN /\ upload' = [upload EXCEPT ![u] = [status |-> status, worker |-> "nobody"]]
       /\ reserved' = IF Bytes[u] > reserved THEN 0 ELSE reserved - Bytes[u]
  ELSE UNCHANGED <<upload, reserved>>

\* The catch releases what it leased; a failure is ignored.
FailSession(r) ==
  /\ request[r].step = "fail"
  /\ Goes(r, "done")
  /\ LET u == request[r].upload
     IN \/ upload[u].worker = "user" /\ Release(u, "failed") /\ UNCHANGED storageTroubles
        \/ upload[u].worker # "user" /\ UNCHANGED <<upload, reserved, storageTroubles>>
        \/ StorageTrouble /\ UNCHANGED <<upload, reserved>>
  /\ UNCHANGED <<outdated, used, files, object, deletion, drainer, media>>

\* POST abort: the parts first, which throws when there are none; then the upload,
\* whoever has leased it.
AbortMultipart(r) ==
  /\ request[r].step = "abort"
  /\ LET u == request[r].upload
     IN IF object[u] = "parts"
        THEN object' = [object EXCEPT ![u] = "none"] /\ Goes(r, "forget")
        ELSE object' = object /\ Goes(r, "done")
  /\ UNCHANGED <<upload, outdated, reserved, used, files, deletion, drainer, media, storageTroubles>>
ForgetSession(r) ==
  /\ request[r].step = "forget"
  /\ Goes(r, "done")
  /\ Release(request[r].upload, "aborted")
  /\ UNCHANGED <<outdated, used, files, object, deletion, drainer, media, storageTroubles>>

\* The process that serves a request dies.
RequestDies(r) ==
  /\ request[r].step \notin {"idle", "done"}
  /\ StorageTrouble /\ Goes(r, "done")
  /\ UNCHANGED <<upload, outdated, reserved, used, files, object, deletion, drainer, media>>

-----------------------------------------------------------------------------
\* drainExpiredUploadSession
ClaimSession(w, u) ==
  /\ drainer[w].kind = "rest"
  /\ upload[u].status = "prepared" /\ u \in outdated
  /\ upload' = [upload EXCEPT ![u] = [status |-> "aborting", worker |-> w]]
  /\ drainer' = [drainer EXCEPT ![w] = [kind |-> "upload", upload |-> u, attempts |-> 0]]
  /\ UNCHANGED <<outdated, reserved, used, files, object, request, deletion, media, storageTroubles>>

DrainParts(w) ==
  /\ drainer[w].kind = "upload"
  /\ LET u == drainer[w].upload
     IN \/ /\ object[u] = "parts"
           /\ object' = [object EXCEPT ![u] = "none"]
           /\ Drains(w, "release") /\ UNCHANGED storageTroubles
        \/ /\ object[u] # "parts"
           /\ Drains(w, "retry") /\ UNCHANGED <<object, storageTroubles>>
        \/ StorageTrouble /\ Drains(w, "retry") /\ UNCHANGED object
  /\ UNCHANGED <<upload, outdated, reserved, used, files, request, deletion, media>>

ReleaseDrained(w) ==
  /\ drainer[w].kind = "release"
  /\ drainer' = [drainer EXCEPT ![w] = Resting]
  /\ IF upload[drainer[w].upload].worker = w
       THEN Release(drainer[w].upload, "aborted")
       ELSE UNCHANGED <<upload, reserved>>
  /\ UNCHANGED <<outdated, used, files, object, request, deletion, media, storageTroubles>>

RetryDrain(w) ==
  /\ drainer[w].kind = "retry"
  /\ drainer' = [drainer EXCEPT ![w] = Resting]
  /\ upload' = [upload EXCEPT ![drainer[w].upload] =
                   IF @ = [status |-> "aborting", worker |-> w]
                   THEN [status |-> "prepared", worker |-> "nobody"] ELSE @]
  /\ UNCHANGED <<outdated, reserved, used, files, object, request, deletion, media, storageTroubles>>

-----------------------------------------------------------------------------
\* DELETE of an asset: the triggers give its bytes back and queue its object.
DeleteAsset(u) ==
  /\ u \in files
  /\ files' = files \ {u}
  /\ used' = IF Bytes[u] > used THEN 0 ELSE used - Bytes[u]
  /\ deletion' = [deletion EXCEPT ![u].status = IF @ \in {"none", "completed"} THEN "queued" ELSE @]
  /\ UNCHANGED <<upload, outdated, reserved, object, request, drainer, media, storageTroubles>>

\* createMediaJob reads an asset and then inserts the job, whatever has happened to
\* the asset in between; the job ends.
UseInput(u) ==
  /\ u \in files \/ deletion[u].status # "none"
  /\ u \notin inputs
  /\ inputs' = inputs \cup {u}
  /\ promised' = IF u \in files THEN promised \cup {u} ELSE promised
  /\ UNCHANGED <<upload, outdated, reserved, used, files, object, request, deletion, drainer, storageTroubles>>
EndInput(u) ==
  /\ u \in inputs
  /\ inputs' = inputs \ {u} /\ promised' = promised \ {u}
  /\ UNCHANGED <<upload, outdated, reserved, used, files, object, request, deletion, drainer, storageTroubles>>

\* claimStorageDeletion, when no expired upload is left.
Unused_ByAssets(u) == u \notin files
Unused(u) == u \notin files /\ u \notin inputs
ClaimDeletion(w, u) ==
  /\ drainer[w].kind = "rest"
  /\ \A v \in outdated : upload[v].status # "prepared"
  /\ deletion[u].attempts < MaxDeletions
  /\ \/ deletion[u].status = "queued"
     \/ deletion[u].status = "processing" /\ deletion[u].stale
  /\ Unused(u)
  /\ deletion' = [deletion EXCEPT ![u] = [status |-> "processing", attempts |-> @.attempts + 1,
                                          stale |-> FALSE, worker |-> w]]
  /\ drainer' = [drainer EXCEPT ![w] = [kind |-> "delete", upload |-> u,
                                        attempts |-> deletion[u].attempts + 1]]
  /\ UNCHANGED <<upload, outdated, reserved, used, files, object, request, media, storageTroubles>>

\* The object is deleted, and the job is completed if it is still this claim's; or
\* the store fails, and the job waits or is dead.
Delete(w) ==
  /\ drainer[w].kind = "delete"
  /\ LET u == drainer[w].upload
         mine == deletion[u].worker = w /\ deletion[u].attempts = drainer[w].attempts
         ends(status) == deletion' = IF mine
                                     THEN [deletion EXCEPT ![u].status = status, ![u].worker = "nobody"]
                                     ELSE deletion
     IN \/ /\ object' = [object EXCEPT ![u] = "none"]
           /\ ends("completed") /\ UNCHANGED storageTroubles
        \/ /\ StorageTrouble /\ UNCHANGED object
           /\ ends(IF drainer[w].attempts >= MaxDeletions THEN "dead" ELSE "queued")
  /\ drainer' = [drainer EXCEPT ![w] = Resting]
  /\ UNCHANGED <<upload, outdated, reserved, used, files, request, media>>

\* Ten minutes without an end: the process that claimed has died, or is slow.
DeletionStale(u) ==
  /\ deletion[u].status = "processing" /\ ~deletion[u].stale
  /\ deletion' = [deletion EXCEPT ![u].stale = TRUE]
  /\ UNCHANGED <<upload, outdated, reserved, used, files, object, request, drainer, media, storageTroubles>>
DrainerDies(w) ==
  /\ drainer[w].kind # "rest"
  /\ StorageTrouble
  /\ drainer' = [drainer EXCEPT ![w] = Resting]
  /\ UNCHANGED <<upload, outdated, reserved, used, files, object, request, deletion, media>>

StorageNext ==
  \/ \E S \in SUBSET Uploads : PrepareUploads(S)
  \/ \E u \in Uploads : \/ UploadExpires(u) \/ DeleteAsset(u) \/ UseInput(u) \/ EndInput(u)
                        \/ DeletionStale(u)
                        \/ \E r \in Requests : StartRequest(r, u)
                        \/ \E w \in StorageWorkers : ClaimSession(w, u) \/ ClaimDeletion(w, u)
  \/ \E r \in Requests : \/ BeginCompletion(r) \/ FinishMultipart(r) \/ CommitAsset(r)
                         \/ DiscardObject(r) \/ AbandonParts(r) \/ FailSession(r)
                         \/ AbortMultipart(r) \/ ForgetSession(r) \/ RequestDies(r)
  \/ \E w \in StorageWorkers : \/ DrainParts(w) \/ ReleaseDrained(w) \/ RetryDrain(w)
                               \/ Delete(w) \/ DrainerDies(w)
StorageSpec == StorageInit /\ [][StorageNext]_storageVars

-----------------------------------------------------------------------------
\* Whatever requests race to complete, abort or drain an upload, its bytes are
\* reserved while its upload is open, used while its asset exists, and counted
\* once: the workspace never passes its quota (lockedUsage, the GREATEST(0, ...)
\* of every release).
BytesCountedOnce ==
  /\ reserved = SizeOf({u \in Uploads : upload[u].status \in Open})
  /\ used = SizeOf(files)
  /\ reserved + used <= Capacity

\* An asset has its object, and so has an active media job that was admitted while
\* its asset existed, though the asset is deleted:
\* neither a late second completion, nor an abort, nor the deletion of unused
\* objects takes it away (complete/route.ts, claimStorageDeletion).
FilesAreKept == \A u \in files \cup promised : object[u] = "object"
=============================================================================
