----------------------------- MODULE MediaQueue -----------------------------
(***************************************************************************)
(* The durable media queue of src/lib/media: the media_jobs table, the     *)
(* executors that workers run for the jobs they have claimed, the storage  *)
(* reservations, the staged output objects, and the collector of abandoned *)
(* objects.                                                                *)
(*                                                                         *)
(* Each action is one committed statement or transaction of repository.ts, *)
(* executor.ts or staging.ts.  Time is abstracted: a lease is "live" until *)
(* Expire makes it "expired" (renewMediaLease never revives an expired     *)
(* one), back-off delays are the freedom of Claim to happen late.          *)
(***************************************************************************)
EXTENDS Integers, FiniteSets, Functions

CONSTANTS
  Jobs,          \* job ids: one per (user, workspace, fingerprint)
  Workers,       \* ids of media worker processes
  NoWorker,      \* worker_id IS NULL
  DependsOn,     \* media_job_dependencies; the fingerprint covers it
  Outputs,       \* files a job's operation produces (0: it reuses an asset)
  Size,          \* total bytes of those files
  Reusable,      \* jobs admission may answer from cached metadata
  Quota,         \* quota_bytes of the workspace
  MaxAttempts,   \* mediaConfig().maxAttempts
  ResourceOf,    \* resource_class of a job
  SlotLimit,     \* executors one worker runs at a time, by resource class
  MaxRetries     \* bound: explicit retries of one job by its user

ASSUME JobsAssumption ==
  /\ NoWorker \notin Workers
  /\ DependsOn \in [Jobs -> SUBSET Jobs]
  /\ Outputs \in [Jobs -> Nat]
  /\ Size \in [Jobs -> Nat]
  /\ Reusable \in SUBSET Jobs
  /\ ResourceOf \in [Jobs -> {"light", "transcode"}]
ASSUME LimitsAssumption ==
  /\ MaxAttempts \in Nat \ {0}
  /\ SlotLimit \in [{"light", "transcode"} -> Nat \ {0}]
  /\ Quota \in Nat
  /\ MaxRetries \in Nat

VARIABLES
  job,           \* the media_jobs rows
  execs,         \* the executeMediaJob calls in progress
  reservation,   \* media_storage_reservations: fence of the job's row, or 0
  reservedBytes, \* workspace_storage_usage.reserved_bytes
  usedBytes,     \* workspace_storage_usage.used_bytes
  rows,          \* media_job_objects
  retained,      \* those with retained = true
  old,           \* those created more than ten minutes ago
  claimed,       \* those with cleanup_claimed_at set
  candidates,    \* rows a running claimMediaCleanup statement has selected
  purged,        \* claimed rows whose object a collector has deleted
  stored,        \* objects present in the store
  assets,        \* objects some assets row points to
  overdue,       \* history: old rows whose object was deleted under their upload
  winner,        \* history: the fence that published the job, or 0
  retries        \* history: explicit retries so far

jobVars     == <<job, retries>>
quotaVars   == <<reservation, reservedBytes>>
publishVars == <<retained, assets, usedBytes, winner>>
cleanVars   == <<old, claimed, candidates, purged, overdue>>
vars == <<job, retries, execs, reservation, reservedBytes, usedBytes, rows,
          retained, old, claimed, candidates, purged, overdue, stored, assets,
          winner>>

Waiting   == {"queued", "retry_wait"}
Active    == Waiting \cup {"running"}
Stopped   == {"failed", "cancelled"}
Terminal  == Stopped \cup {"completed"}

Row == [status   : {"absent"} \cup Active \cup Terminal,
        attempts : Nat,
        fence    : Nat,
        worker   : Workers \cup {NoWorker},
        lease    : {"none", "live", "expired"}]

\* A staged object: storage key <job>/<fence>-<ordinal>.
Ref == [job : Jobs, fence : Nat, ordinal : Nat]

\* The job snapshot an executor holds, its place in executeMediaJob, and how
\* many files it has uploaded.
Stage == {"claimed", "processing", "renewing", "registering", "uploading",
          "publishing"}
Executor == [job : Jobs, fence : Nat, attempts : Nat, worker : Workers,
             stage : Stage, done : Nat]

TablesTypeOK ==
  /\ job \in [Jobs -> Row]
  /\ execs \subseteq Executor
  /\ reservation \in [Jobs -> Nat]
  /\ usedBytes \in Nat
  /\ rows \subseteq Ref
  /\ retained \subseteq rows
  /\ old \subseteq rows
  /\ claimed \subseteq rows
  /\ candidates \subseteq rows
  /\ purged \subseteq rows
  /\ overdue \subseteq Ref
  /\ stored \subseteq Ref
  /\ assets \subseteq Ref
  /\ winner \in [Jobs -> Nat]
  /\ retries \in [Jobs -> Nat]

\* The state is well formed, the counter of reserved bytes included.
TypeOK == TablesTypeOK /\ reservedBytes \in Nat

Init ==
  /\ job = [j \in Jobs |-> [status |-> "absent", attempts |-> 0, fence |-> 0,
                            worker |-> NoWorker, lease |-> "none"]]
  /\ execs = {}
  /\ reservation = [j \in Jobs |-> 0]
  /\ reservedBytes = 0
  /\ usedBytes = 0
  /\ rows = {} /\ retained = {} /\ old = {} /\ claimed = {}
  /\ candidates = {} /\ purged = {} /\ overdue = {}
  /\ stored = {} /\ assets = {}
  /\ winner = [j \in Jobs |-> 0]
  /\ retries = [j \in Jobs |-> 0]

-----------------------------------------------------------------------------
(* Helpers shared by several handlers.                                     *)

\* Variants of definitions, named after the definition and the slip they make,
\* show that the properties below notice it.
DependencyStopped_OnlyFailed(j) ==
  \E d \in DependsOn[j] : job[d].status = "failed"

DependencyStopped(j) == \E d \in DependsOn[j] : job[d].status \in Stopped

DependenciesDone_NotStopped(j) == ~ DependencyStopped(j)

DependenciesDone(j) == \A d \in DependsOn[j] : job[d].status = "completed"

Owns_AnyFence(e) ==
  /\ job[e.job].status = "running"
  /\ job[e.job].lease = "live"

\* The guard repeated by every write an executor makes.
Owns(e) ==
  /\ job[e.job].status = "running"
  /\ job[e.job].worker = e.worker
  /\ job[e.job].fence = e.fence
  /\ job[e.job].lease = "live"

RefOf(e, n) == [job |-> e.job, fence |-> e.fence, ordinal |-> n]

\* The limit of automatic deliveries.
AttemptsLeft(attempts) == attempts < MaxAttempts

\* assertWorkspaceStorageCapacity, and the check of the reservation trigger.
Fits(bytes, reserved) == usedBytes + reserved + bytes <= Quota

DropReservations_Twice(S) ==
  /\ reservation' = [j \in Jobs |-> IF j \in S THEN 0 ELSE reservation[j]]
  /\ reservedBytes' = reservedBytes
       - 2 * SumFunctionOnSet(Size, {j \in S : reservation[j] # 0})

\* DELETE FROM media_storage_reservations, with its accounting trigger.
DropReservations(S) ==
  LET dropped == {j \in S : reservation[j] # 0}
      freed == SumFunctionOnSet(Size, dropped)
  IN /\ reservation' = [j \in Jobs |-> IF j \in S THEN 0 ELSE reservation[j]]
     /\ reservedBytes' = IF freed > reservedBytes THEN 0
                         ELSE reservedBytes - freed

MoveTo(e, stage) == execs' = (execs \ {e}) \cup {[e EXCEPT !.stage = stage]}

-----------------------------------------------------------------------------
(* The user's requests.                                                    *)

\* createMediaJob, first order of a fingerprint: the dependencies exist; a
\* job answered from cached metadata is complete at once.
Create(j) ==
  /\ job[j].status = "absent"
  /\ \A d \in DependsOn[j] : job[d].status # "absent"
  /\ \/ job' = [job EXCEPT ![j].status = "queued"]
     \/ /\ j \in Reusable /\ DependsOn[j] = {}
        /\ job' = [job EXCEPT ![j].status = "completed"]
  /\ UNCHANGED <<retries, execs, quotaVars, publishVars, cleanVars, rows,
                 stored>>

Cancel(j) ==
  /\ job[j].status \in Active
  /\ job' = [job EXCEPT ![j].status = "cancelled", ![j].fence = @ + 1,
                        ![j].lease = "none"]
  /\ DropReservations({j})
  /\ UNCHANGED <<retries, execs, publishVars, cleanVars, rows, stored>>

\* retryMediaJob: the only way back from failed or cancelled.
Retry(j) ==
  /\ retries[j] < MaxRetries
  /\ job[j].status \in Stopped
  /\ ~ DependencyStopped(j)
  /\ job' = [job EXCEPT ![j].status = "queued", ![j].attempts = 0,
                        ![j].fence = @ + 1, ![j].worker = NoWorker,
                        ![j].lease = "none"]
  /\ retries' = [retries EXCEPT ![j] = @ + 1]
  /\ DropReservations({j})
  /\ UNCHANGED <<execs, publishVars, cleanVars, rows, stored>>

-----------------------------------------------------------------------------
(* recoverMediaJobs: three statements, each on every row it matches.       *)

DeadReservations_OfExpiredLeases ==
  {j \in Jobs : reservation[j] # 0 /\ job[j].lease = "expired"}

DeadReservations ==
  {j \in Jobs : /\ reservation[j] # 0
                /\ \/ job[j].status # "running"
                   \/ reservation[j] # job[j].fence
                   \/ job[j].lease = "expired"}

RecoverReservations ==
  /\ DeadReservations # {}
  /\ DropReservations(DeadReservations)
  /\ UNCHANGED <<jobVars, execs, publishVars, cleanVars, rows, stored>>

Orphaned == {j \in Jobs : job[j].status \in Waiting /\ DependencyStopped(j)}

FailDependents ==
  /\ Orphaned # {}
  /\ job' = [j \in Jobs |-> IF j \in Orphaned
                            THEN [job[j] EXCEPT !.status = "failed"]
                            ELSE job[j]]
  /\ UNCHANGED <<retries, execs, quotaVars, publishVars, cleanVars, rows,
                 stored>>

Lost == {j \in Jobs : job[j].status = "running" /\ job[j].lease = "expired"}

RecoverExpired ==
  /\ Lost # {}
  /\ job' = [j \in Jobs |->
               IF j \in Lost
               THEN [job[j] EXCEPT
                       !.status = IF AttemptsLeft(job[j].attempts)
                                  THEN "retry_wait" ELSE "failed",
                       !.worker = NoWorker, !.lease = "none",
                       !.fence = @ + 1]
               ELSE job[j]]
  /\ UNCHANGED <<retries, execs, quotaVars, publishVars, cleanVars, rows,
                 stored>>

-----------------------------------------------------------------------------
(* The worker: claiming, and the executor of a claimed job.                *)

Slots(w, class) ==
  Cardinality({e \in execs : e.worker = w /\ ResourceOf[e.job] = class})

Claim(w, j) ==
  /\ Slots(w, ResourceOf[j]) < SlotLimit[ResourceOf[j]]
  /\ job[j].status \in Waiting
  /\ DependenciesDone(j)
  /\ job' = [job EXCEPT ![j].status = "running", ![j].attempts = @ + 1,
                        ![j].fence = @ + 1, ![j].worker = w,
                        ![j].lease = "live"]
  /\ execs' = execs \cup {[job |-> j, fence |-> job[j].fence + 1,
                           attempts |-> job[j].attempts + 1, worker |-> w,
                           stage |-> "claimed", done |-> 0]}
  /\ UNCHANGED <<retries, quotaVars, publishVars, cleanVars, rows, stored>>

\* now() passes lease_until: the worker is gone, stalled or cut off.
Expire(j) ==
  /\ job[j].status = "running" /\ job[j].lease = "live"
  /\ job' = [job EXCEPT ![j].lease = "expired"]
  /\ UNCHANGED <<retries, execs, quotaVars, publishVars, cleanVars, rows,
                 stored>>

\* renewMediaLease('preparing') and the access check.
Begin(e) ==
  /\ e.stage = "claimed" /\ Owns(e)
  /\ MoveTo(e, "processing")
  /\ UNCHANGED <<jobVars, quotaVars, publishVars, cleanVars, rows, stored>>

\* processJob produced nothing to upload.
ProcessReused(e) ==
  /\ e.stage = "processing" /\ Outputs[e.job] = 0
  /\ Owns(e)
  /\ MoveTo(e, "publishing")
  /\ UNCHANGED <<jobVars, quotaVars, publishVars, cleanVars, rows, stored>>

\* processJob produced files: the transaction renews, checks the capacity and
\* inserts the reservation; a row of an earlier fence is a key conflict.
Reserve(e) ==
  /\ e.stage = "processing" /\ Outputs[e.job] > 0
  /\ Owns(e)
  /\ Fits(Size[e.job], reservedBytes)
  /\ reservation[e.job] = 0
  /\ reservation' = [reservation EXCEPT ![e.job] = e.fence]
  /\ reservedBytes' = reservedBytes + Size[e.job]
  /\ MoveTo(e, "renewing")
  /\ UNCHANGED <<jobVars, publishVars, cleanVars, rows, stored>>

RenewForUpload(e) ==
  /\ e.stage = "renewing" /\ Owns(e)
  /\ MoveTo(e, "registering")
  /\ UNCHANGED <<jobVars, quotaVars, publishVars, cleanVars, rows, stored>>

\* INSERT INTO media_job_objects: not guarded by the lease.
Register(e) ==
  /\ e.stage = "registering"
  /\ rows' = rows \cup {RefOf(e, e.done)}
  /\ MoveTo(e, "uploading")
  /\ UNCHANGED <<jobVars, quotaVars, publishVars, cleanVars, stored>>

Upload_Unverified(e) ==
  /\ e.stage = "uploading"
  /\ stored' \in {stored, stored \cup {RefOf(e, e.done)}}
  /\ execs' = (execs \ {e}) \cup
       {[e EXCEPT !.done = @ + 1,
                  !.stage = IF e.done + 1 = Outputs[e.job]
                            THEN "publishing" ELSE "renewing"]}
  /\ UNCHANGED <<jobVars, quotaVars, publishVars, cleanVars, rows>>

Upload_FirstFileOnly(e) ==
  /\ e.stage = "uploading"
  /\ stored' = stored \cup {RefOf(e, e.done)}
  /\ execs' = (execs \ {e}) \cup
       {[e EXCEPT !.done = @ + 1, !.stage = "publishing"]}
  /\ UNCHANGED <<jobVars, quotaVars, publishVars, cleanVars, rows>>

\* putStorageFile succeeds and was checked: not guarded by the lease.
Upload(e) ==
  /\ e.stage = "uploading"
  /\ stored' = stored \cup {RefOf(e, e.done)}
  /\ execs' = (execs \ {e}) \cup
       {[e EXCEPT !.done = @ + 1,
                  !.stage = IF e.done + 1 = Outputs[e.job]
                            THEN "publishing" ELSE "renewing"]}
  /\ UNCHANGED <<jobVars, quotaVars, publishVars, cleanVars, rows>>

\* retainMediaStaging takes the unclaimed rows of this fence.
Retainable(e) ==
  {r \in rows : r.job = e.job /\ r.fence = e.fence /\ r \notin claimed}

\* publish: the fenced transaction that makes the result visible.
Publish(e) ==
  /\ e.stage = "publishing" /\ Owns(e)
  /\ Cardinality(Retainable(e)) = e.done
  /\ retained' = retained \cup Retainable(e)
  /\ reservation' = [reservation EXCEPT ![e.job] =
                       IF @ = e.fence THEN 0 ELSE @]
  /\ reservedBytes' = IF reservation[e.job] # e.fence THEN reservedBytes
                      ELSE IF Size[e.job] > reservedBytes THEN 0
                      ELSE reservedBytes - Size[e.job]
  /\ LET bytes == IF e.done = 0 THEN 0 ELSE Size[e.job]
     IN /\ Fits(bytes, reservedBytes')
        /\ usedBytes' = usedBytes + bytes
  /\ assets' = assets \cup {RefOf(e, n) : n \in 0 .. e.done - 1}
  /\ job' = [job EXCEPT ![e.job].status = "completed",
                        ![e.job].worker = NoWorker, ![e.job].lease = "none"]
  /\ winner' = [winner EXCEPT ![e.job] = e.fence]
  /\ execs' = execs \ {e}
  /\ UNCHANGED <<retries, cleanVars, rows, stored>>

\* Any await of the executor throws: failMediaJob, then the executor ends.
\* An interrupted upload may or may not have left its object behind.
Fail(e, retryable) ==
  LET retry == retryable /\ AttemptsLeft(e.attempts)
  IN /\ job' = IF Owns(e)
               THEN [job EXCEPT ![e.job].status =
                                   IF retry THEN "retry_wait" ELSE "failed",
                                ![e.job].worker = NoWorker,
                                ![e.job].lease = "none"]
               ELSE job
     /\ IF reservation[e.job] = e.fence /\ job'[e.job].status # "running"
        THEN DropReservations({e.job})
        ELSE UNCHANGED quotaVars
     /\ stored' \in {stored} \cup
          (IF e.stage = "uploading" THEN {stored \cup {RefOf(e, e.done)}}
           ELSE {})
     /\ execs' = execs \ {e}
     /\ UNCHANGED <<retries, publishVars, cleanVars, rows>>

\* The process dies, or failMediaJob itself cannot reach the database.
Abandon(e) ==
  /\ stored' \in {stored} \cup
       (IF e.stage = "uploading" THEN {stored \cup {RefOf(e, e.done)}} ELSE {})
  /\ execs' = execs \ {e}
  /\ UNCHANGED <<jobVars, quotaVars, publishVars, cleanVars, rows>>

-----------------------------------------------------------------------------
(* The collector of abandoned objects: cleanupMediaObjects.                *)

\* Ten minutes pass since the row was inserted (it matters only for rows not
\* retained).  An upload may still be under way: its process was stalled
\* before it wrote, or the configuration allows transfers up to two hours.
Age(r) ==
  /\ r \in rows \ (old \cup retained)
  /\ old' = old \cup {r}
  /\ UNCHANGED <<jobVars, execs, quotaVars, publishVars, claimed, candidates,
                 purged, overdue, rows, stored>>

Collectable_Young(r) ==
  /\ r \in rows \ retained
  /\ job[r.job].status \in Terminal \/ r.fence # job[r.job].fence
  /\ r \notin assets

Collectable_ByAge(r) == r \in old \ retained /\ r \notin assets

Collectable(r) ==
  /\ r \in old \ retained
  /\ job[r.job].status \in Terminal \/ r.fence # job[r.job].fence
  /\ r \notin assets

\* The SELECT of claimMediaCleanup: jobs are read in a snapshot, not locked.
CleanupScan ==
  /\ candidates = {}
  /\ candidates' = {r \in rows : Collectable(r)}
  /\ candidates' # {}
  /\ UNCHANGED <<jobVars, execs, quotaVars, publishVars, old, claimed, purged,
                 overdue, rows, stored>>

\* Its UPDATE: the object rows are locked and re-read, the jobs are not.
CleanupClaim ==
  /\ candidates # {}
  /\ claimed' = claimed \cup (candidates \ retained)
  /\ candidates' = {}
  /\ UNCHANGED <<jobVars, execs, quotaVars, publishVars, old, purged, overdue,
                 rows, stored>>

\* Deletes the object; a pass that was cut short is repeated.
CleanupDelete(r) ==
  /\ r \in claimed
  /\ stored' = stored \ {r}
  /\ purged' = purged \cup {r}
  /\ overdue' = overdue \cup
       {x \in {r} \cap old :
          \E e \in execs : e.stage = "uploading" /\ RefOf(e, e.done) = x}
  /\ UNCHANGED <<jobVars, execs, quotaVars, publishVars, old, claimed,
                 candidates, rows>>

CleanupForget(r) ==
  /\ r \in purged /\ r \notin retained
  /\ rows' = rows \ {r}
  /\ old' = old \ {r}
  /\ claimed' = claimed \ {r}
  /\ candidates' = candidates \ {r}
  /\ purged' = purged \ {r}
  /\ UNCHANGED <<jobVars, execs, quotaVars, publishVars, overdue, stored>>

-----------------------------------------------------------------------------

UserStep == \E j \in Jobs : Create(j) \/ Cancel(j) \/ Retry(j)

RecoverStep == RecoverReservations \/ FailDependents \/ RecoverExpired

ExecStep(e) ==
  \/ Begin(e) \/ ProcessReused(e) \/ Reserve(e) \/ RenewForUpload(e)
  \/ Register(e) \/ Upload(e) \/ Publish(e)
  \/ \E retryable \in BOOLEAN : Fail(e, retryable)

CleanupStep ==
  \/ CleanupScan \/ CleanupClaim
  \/ \E r \in rows : Age(r) \/ CleanupDelete(r) \/ CleanupForget(r)

Next ==
  \/ UserStep
  \/ RecoverStep
  \/ \E w \in Workers, j \in Jobs : Claim(w, j)
  \/ \E j \in Jobs : Expire(j)
  \/ \E e \in execs : ExecStep(e) \/ Abandon(e)
  \/ CleanupStep

Spec == Init /\ [][Next]_vars

\* Scheduling: executors end (every await has a deadline), the tick runs
\* recovery, claiming and collection once a second, and a lease nobody renews
\* expires.  Users, crashes and stalls are not fair.
Unattended(j) ==
  Expire(j) /\ \A e \in execs : e.job = j => ~ Owns(e)

Fairness ==
  /\ \A j \in Jobs : /\ WF_vars(\E e \in execs : e.job = j /\ ExecStep(e))
                     /\ WF_vars(Unattended(j))
                     /\ WF_vars(\E w \in Workers : Claim(w, j))
  /\ WF_vars(RecoverReservations)
  /\ WF_vars(FailDependents)
  /\ WF_vars(RecoverExpired)
  /\ WF_vars(CleanupScan)
  /\ WF_vars(CleanupClaim)
  /\ WF_vars(\E r \in rows : Age(r))
  /\ WF_vars(\E r \in rows : CleanupDelete(r))
  /\ WF_vars(\E r \in rows : CleanupForget(r))

FairSpec == Spec /\ Fairness

-----------------------------------------------------------------------------
(* Safety.                                                                 *)

\* No published result loses its file: whatever is interrupted, reclaimed,
\* cancelled or retried around a publication, the collector never deletes an
\* object an assets row points to (staging.ts, executor.ts publish).
PublishedObjectsStay == assets \subseteq stored

\* Objects are published as a whole and by one executor: a job's visible
\* objects are all the files of its operation under the winning fence when it
\* is completed, and none otherwise (executor.ts publish, the scene test).
PublishedAsAWhole ==
  \A j \in Jobs :
    {r \in assets : r.job = j} =
      IF job[j].status = "completed" /\ winner[j] # 0
      THEN {[job |-> j, fence |-> winner[j], ordinal |-> n] :
              n \in 0 .. Outputs[j] - 1}
      ELSE {}

\* The executor that still owns its job never finds one of its objects taken
\* or about to be taken by the collector, so STAGING_OWNERSHIP_LOST cannot
\* interrupt a rightful publication (staging.ts).
OwnerKeepsStaging ==
  \A e \in execs : \A r \in claimed \cup candidates :
    Owns(e) => <<r.job, r.fence>> # <<e.job, e.fence>>

\* Every object in the store still has its media_job_objects row, so that an
\* interrupted upload stays collectable, but for the objects that a collector
\* deleted, their row being ten minutes old, while a stalled or slow upload of
\* them was still to come (executor.ts registers before it uploads; staging.ts
\* collects by age and deletes before it forgets).
StoredIsTracked == stored \subseteq rows \cup overdue

\* A job runs or holds a result only on top of finished dependencies, even
\* when they are cancelled and retried around it (claimMediaJob).
DependenciesFirst ==
  \A j \in Jobs : job[j].status \in {"running", "completed"} =>
    \A d \in DependsOn[j] : job[d].status = "completed"

\* The accounting of storage: reserved_bytes is the sum of the reservations
\* present and never passes the quota with what is used
\* (010_media_jobs.sql, assertWorkspaceStorageCapacity).
QuotaAccounted ==
  /\ reservedBytes = SumFunctionOnSet(Size, {j \in Jobs : reservation[j] # 0})
  /\ usedBytes + reservedBytes <= Quota

\* "Automatic delivery cannot reset the three-attempt limit": whatever
\* recovery, failures and crashes do, a job waiting for another delivery has
\* attempts left (repository.ts).
AttemptLimit ==
  \A j \in Jobs :
    /\ job[j].attempts <= MaxAttempts
    /\ job[j].status \in Waiting => job[j].attempts < MaxAttempts

\* At most one executor may write for a job, though workers repeat, stall and
\* come back: the fence separates every two claims (renewMediaLease).
OneOwner ==
  \A e1, e2 \in execs :
    e1.job = e2.job /\ Owns(e1) /\ Owns(e2) => e1 = e2

-----------------------------------------------------------------------------
(* The promise kept: every step of the queue is a step of FencedJobs.      *)

PhaseOf(status) ==
  CASE status = "absent"    -> "absent"
    [] status \in Waiting   -> "open"
    [] status = "running"   -> "owned"
    [] status = "completed" -> "done"
    [] status \in Stopped   -> "stopped"

Contract == INSTANCE FencedJobs WITH
  phase  <- [j \in Jobs |-> PhaseOf(job[j].status)],
  epoch  <- [j \in Jobs |-> job[j].fence],
  result <- winner

\* A job is finished only by the executor of its latest claim, once, and is
\* reopened only under a new fence (the fencing of repository.ts).
KeepsContract == Contract!Spec

-----------------------------------------------------------------------------
(* Liveness.                                                               *)

\* Every accepted job reaches an end, whatever crashes: an abandoned job is
\* recovered, a dependent of a failed job fails (recoverMediaJobs).
EveryJobSettles ==
  \A j \in Jobs : job[j].status \in Active ~> job[j].status \in Terminal

\* What executors leave behind is given back: objects that no publication retained
\* are eventually collected, and reserved storage is eventually released.
LeftoversCollected ==
  \A j \in Jobs :
    /\ {r \in rows \ retained : r.job = j} # {}
         ~> {r \in rows \ retained : r.job = j} = {}
    /\ reservation[j] # 0 ~> reservation[j] = 0
=============================================================================
