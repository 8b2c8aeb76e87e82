------------------------- MODULE GenerationDispatch -------------------------
(***************************************************************************)
(* A generation from its admission to its end: the dispatch queue that     *)
(* submits it to the paid provider (generation-dispatch.ts), the receipt   *)
(* that remembers an uncertain submission (generation-receipts.ts), the    *)
(* provider's callbacks and the polling that finish it                     *)
(* (generation-state.ts, api/webhooks/kie), its timeout and cancellation   *)
(* (generation-lifecycle.ts), and the calls to the usage authority that    *)
(* charge or refund it.                                                    *)
(*                                                                         *)
(* Each action is one committed statement or transaction, or one answer of *)
(* the provider; an executor may stall between any two of them.  The       *)
(* transactions of timeout and cancellation hold the row of the generation *)
(* from their reads to their commit, which are two actions.  A claim       *)
(* is named by its attempt number (the attempts column, which locked_by    *)
(* only repeats), and so is the task which that attempt submitted.         *)
(***************************************************************************)
EXTENDS Integers, FiniteSets

CONSTANTS
  Generations,  \* generation ids
  MaxAttempts,  \* bound: claims of one dispatch job
  Calls         \* bound: concurrent finalizations of one generation

ASSUME MaxAttemptsAssumption == MaxAttempts \in Nat

VARIABLES
  gen,       \* the generations rows
  job,       \* the generation_dispatch_jobs rows
  receipt,   \* the generation_provider_receipts rows
  execs,     \* the dispatchJob calls in progress
  calls,     \* finalizations in progress, of callbacks and of polls
  provider,  \* external: the tasks the provider accepted, by attempt
  ending,    \* the timeouts and cancellations in progress: who holds a row
  charge,    \* external: what the usage authority did with the reservation
  assets,    \* how many results of a generation were inserted into assets
  forgotten, \* history: an attempt erased the receipt of another's submission
  overlooked \* history: a submission was marked while the generation was ended

vars == <<gen, job, receipt, execs, calls, provider, ending, charge, assets,
          forgotten, overlooked>>
outcomeVars == <<calls, charge, assets>>
endVars == <<ending, overlooked>>

NoTask == 0
Tasks == 1 .. MaxAttempts
\* "waiting" stands for every status the provider reports of work under way.
Open == {"queued", "waiting", "reconciling"}
Failures == {"failed", "cancelled"}
Outcome == {"running", "success", "failed", "empty"}

\* expired: the error is the timeout's; aged: older than the timeout;
\* url: output_url is set; asset: output_asset_id is set.
Generation == [version : {0, 1}, status : Open \cup Failures \cup {"completed"},
               task : Tasks \cup {NoTask}, url : BOOLEAN, asset : BOOLEAN,
               expired : BOOLEAN, aged : BOOLEAN]
\* stale: locked_at is old and the owner's heartbeat is gone.
Job == [status : {"queued", "dispatching", "dispatched", "reconciling",
                  "failed"},
        attempts : 0 .. MaxAttempts, stale : BOOLEAN]
Receipt == [submitted : BOOLEAN, task : Tasks \cup {NoTask}]
Working == {"claimed", "starting", "posting", "answered", "recorded"}
Stage == Working \cup {"requeue", "reconcile", "fail", "refund"}
Exec == [gen : Generations, attempt : Tasks, stage : Stage]
Call == [gen : Generations, id : Calls, outcome : Outcome, url : BOOLEAN,
         stage : {"accept", "release", "persist", "settle"}, late : BOOLEAN]

\* The state is well formed: the rows hold the values their columns allow.
TypeOK ==
  /\ gen \in [Generations -> Generation]
  /\ job \in [Generations -> Job]
  /\ receipt \in [Generations -> Receipt]
  /\ execs \subseteq Exec
  /\ calls \subseteq Call
  /\ provider \in [Generations -> [Tasks -> Outcome \cup {"none"}]]
  /\ charge \in [Generations -> {"reserved", "settled", "released"}]
  /\ assets \in [Generations -> Nat]
  /\ ending \in [Generations -> {"no", "expire", "cancel", "charge"}]
  /\ forgotten \subseteq Generations
  /\ overlooked \subseteq Generations

\* Admission: the generation, its reservation and its dispatch job commit
\* together.
Init ==
  /\ gen \in [Generations ->
               [version : {0, 1}, status : {"queued"}, task : {NoTask},
                url : {FALSE}, asset : {FALSE}, expired : {FALSE},
                aged : {FALSE}]]
  /\ job = [g \in Generations |-> [status |-> "queued", attempts |-> 0,
                                   stale |-> FALSE]]
  /\ receipt = [g \in Generations |-> [submitted |-> FALSE, task |-> NoTask]]
  /\ execs = {} /\ calls = {}
  /\ provider = [g \in Generations |-> [t \in Tasks |-> "none"]]
  /\ charge = [g \in Generations |-> "reserved"]
  /\ assets = [g \in Generations |-> 0]
  /\ ending = [g \in Generations |-> "no"]
  /\ forgotten = {} /\ overlooked = {}

-----------------------------------------------------------------------------
(* Helpers.                                                                *)

\* The guard of every write dispatchJob makes to its row.
Owns_AnyAttempt(e) == job[e.gen].status = "dispatching"

Owns(e) ==
  /\ job[e.gen].status = "dispatching"
  /\ job[e.gen].attempts = e.attempt

\* No timeout or cancellation holds the generation's row: a write must wait.
Free(g) == ending[g] = "no"

Moved(e, stage) == execs' = (execs \ {e}) \cup {[e EXCEPT !.stage = stage]}
Ended(e) == execs' = execs \ {e}

\* The row leaves the hands of its owner.
Parked(g, status) == [job[g] EXCEPT !.status = status, !.stale = FALSE]

\* releaseGeneration and settleGeneration of the usage authority: only a
\* reservation still held is refunded or charged.
Release(g) ==
  charge' = [charge EXCEPT ![g] = IF @ = "reserved" THEN "released" ELSE @]

Settle(g) ==
  charge' = [charge EXCEPT ![g] = IF @ = "reserved" THEN "settled" ELSE @]

\* A submission whose fate is unknown.
Uncertain_Never(g) == FALSE
Uncertain(g) == receipt[g].submitted /\ receipt[g].task = NoTask

\* The paid tasks of a generation.
Accepted(g) == {t \in Tasks : provider[g][t] # "none"}

-----------------------------------------------------------------------------
(* dispatchJob, from the claim to the provider's answer.                   *)

Claim(g) ==
  /\ job[g].status = "queued" /\ job[g].attempts < MaxAttempts
  /\ job' = [job EXCEPT ![g].status = "dispatching", ![g].attempts = @ + 1,
                        ![g].stale = FALSE]
  /\ execs' = execs \cup {[gen |-> g, attempt |-> job[g].attempts + 1,
                           stage |-> "claimed"]}
  /\ UNCHANGED <<gen, receipt, outcomeVars, provider, forgotten, endVars>>

\* No heartbeat reached the row and none of its owner's reached
\* worker_heartbeats for five minutes: the owner is gone, stalled or cut off.
Stall(g) ==
  /\ job[g].status = "dispatching" /\ ~ job[g].stale
  /\ job' = [job EXCEPT ![g].stale = TRUE]
  /\ UNCHANGED <<gen, receipt, execs, outcomeVars, provider, forgotten, endVars>>

\* The owner's timer refreshes locked_at.
Heartbeat(e) ==
  /\ Owns(e) /\ job[e.gen].stale
  /\ job' = [job EXCEPT ![e.gen].stale = FALSE]
  /\ UNCHANGED <<gen, receipt, execs, outcomeVars, provider, forgotten, endVars>>

\* prepareProviderReceipt: an earlier submission is never repeated.
Prepare(e) ==
  /\ e.stage = "claimed"
  /\ Moved(e, IF gen[e.gen].version = 1 /\ receipt[e.gen].submitted
              THEN "reconcile" ELSE "starting")
  /\ UNCHANGED <<gen, job, receipt, outcomeVars, provider, forgotten, endVars>>

\* beforeProviderSubmit: markProviderSubmission.  It looks at the job as last
\* committed, and at no lock: a transaction that is ending the generation has
\* read the receipt before.
Mark_Always(e) ==
  /\ e.stage = "starting" /\ gen[e.gen].version = 1
  /\ receipt' = [receipt EXCEPT ![e.gen].submitted = TRUE]
  /\ Moved(e, "posting")
  /\ UNCHANGED <<gen, job, outcomeVars, provider, forgotten, endVars>>

Mark(e) ==
  /\ e.stage = "starting" /\ gen[e.gen].version = 1
  /\ receipt[e.gen] = [submitted |-> FALSE, task |-> NoTask] /\ Owns(e)
  /\ receipt' = [receipt EXCEPT ![e.gen].submitted = TRUE]
  /\ overlooked' = IF Free(e.gen) THEN overlooked ELSE overlooked \cup {e.gen}
  /\ Moved(e, "posting")
  /\ UNCHANGED <<gen, job, outcomeVars, provider, forgotten, ending>>

\* A generation of the first execution version is submitted unmarked.
Submit(e) ==
  /\ e.stage = "starting" /\ gen[e.gen].version = 0
  /\ Moved(e, "posting")
  /\ UNCHANGED <<gen, job, receipt, outcomeVars, provider, forgotten, endVars>>

\* The provider takes the request and answers with a task id.
Answered(e) ==
  /\ e.stage = "posting"
  /\ provider' = [provider EXCEPT ![e.gen][e.attempt] = "running"]
  /\ Moved(e, "answered")
  /\ UNCHANGED <<gen, job, receipt, outcomeVars, forgotten, endVars>>

\* recordProviderTask: guarded by nothing but the receipt.
Record(e) ==
  /\ e.stage = "answered"
  /\ receipt' = IF gen[e.gen].version = 1 /\ receipt[e.gen].task = NoTask
                THEN [receipt EXCEPT ![e.gen].task = e.attempt]
                ELSE receipt
  /\ Moved(e, "recorded")
  /\ UNCHANGED <<gen, job, outcomeVars, provider, forgotten, endVars>>

\* The transaction that ends a successful dispatch.
Commit(e) ==
  /\ e.stage = "recorded" /\ (Owns(e) => Free(e.gen))
  /\ IF ~ Owns(e) THEN UNCHANGED <<gen, job>>
     ELSE IF gen[e.gen].status \in Open
     THEN /\ gen' = [gen EXCEPT ![e.gen].task = e.attempt,
                                ![e.gen].status = "waiting",
                                ![e.gen].expired = FALSE]
          /\ job' = [job EXCEPT ![e.gen] = Parked(e.gen, "dispatched")]
     ELSE /\ gen' = [gen EXCEPT ![e.gen].task =
                                   IF @ = NoTask THEN e.attempt ELSE @]
          /\ job' = [job EXCEPT ![e.gen] = Parked(e.gen, "failed")]
  /\ Ended(e)
  /\ UNCHANGED <<receipt, outcomeVars, provider, forgotten, endVars>>

\* The process dies, or the handling of an error fails itself.
Crash(e) ==
  /\ Ended(e)
  /\ UNCHANGED <<gen, job, receipt, outcomeVars, provider, forgotten, endVars>>

-----------------------------------------------------------------------------
(* dispatchJob, the handling of an error.                                  *)

\* A lost request or answer, a failed statement, a mark that is refused: an
\* error that may have hidden the provider's yes is reconciled.  (Until its
\* handler reads the receipt, a failed call is where its last success left it.)
CatchBroken_Blind(e) ==
  /\ e.stage \in Working
  /\ Moved(e, "fail")
  /\ UNCHANGED <<gen, job, receipt, outcomeVars, provider, forgotten, endVars>>

CatchBroken(e) ==
  /\ e.stage \in Working
  /\ Moved(e, IF gen[e.gen].version = 1 /\ receipt[e.gen].submitted
              THEN "reconcile" ELSE "fail")
  /\ UNCHANGED <<gen, job, receipt, outcomeVars, provider, forgotten, endVars>>

\* The upload of a reference gets a 429 before anything was submitted, or the
\* request itself gets a 429 or another 4xx.  A refusal clears the mark,
\* whoever set it: the statement has no guard on the job.  An executor that has
\* lost its job before it submitted anything erases another attempt's mark.
CatchRefused(e) ==
  LET g == e.gen
      erases == gen[g].version = 1 /\ receipt[g].task = NoTask
  IN /\ receipt' = IF erases THEN [receipt EXCEPT ![g].submitted = FALSE]
                   ELSE receipt
     /\ forgotten' = IF erases /\ receipt[g].submitted /\ e.stage = "starting"
                     THEN forgotten \cup {g} ELSE forgotten
     /\ \/ e.stage \in {"starting", "posting"} /\ Moved(e, "requeue")
        \/ e.stage = "posting" /\ Moved(e, "fail")
     /\ UNCHANGED <<gen, job, outcomeVars, provider, endVars>>

Requeue(e) ==
  /\ e.stage = "requeue" /\ (Owns(e) => Free(e.gen))
  /\ IF Owns(e)
     THEN /\ job' = [job EXCEPT ![e.gen] = Parked(e.gen, "queued")]
          /\ gen' = [gen EXCEPT ![e.gen].status = "queued",
                                ![e.gen].expired = FALSE]
     ELSE UNCHANGED <<gen, job>>
  /\ Ended(e)
  /\ UNCHANGED <<receipt, outcomeVars, provider, forgotten, endVars>>

\* requireProviderReconciliation.
Reconcile(e) ==
  /\ e.stage = "reconcile" /\ (Owns(e) => Free(e.gen))
  /\ IF Owns(e)
     THEN /\ job' = [job EXCEPT ![e.gen] = Parked(e.gen, "reconciling")]
          /\ gen' = IF ~ gen[e.gen].asset /\ gen[e.gen].task = NoTask
                    THEN [gen EXCEPT ![e.gen].status = "reconciling",
                                     ![e.gen].expired = FALSE]
                    ELSE gen
     ELSE UNCHANGED <<gen, job>>
  /\ Ended(e)
  /\ UNCHANGED <<receipt, outcomeVars, provider, forgotten, endVars>>

FailJob(e) ==
  /\ e.stage = "fail" /\ (Owns(e) => Free(e.gen))
  /\ IF Owns(e)
     THEN /\ job' = [job EXCEPT ![e.gen] = Parked(e.gen, "failed")]
          /\ gen' = [gen EXCEPT ![e.gen].status = "failed",
                                ![e.gen].expired = FALSE]
          /\ Moved(e, "refund")
     ELSE Ended(e) /\ UNCHANGED <<gen, job>>
  /\ UNCHANGED <<receipt, outcomeVars, provider, forgotten, endVars>>

Refund(e) ==
  /\ e.stage = "refund"
  /\ Release(e.gen)
  /\ Ended(e)
  /\ UNCHANGED <<gen, job, receipt, calls, assets, provider, forgotten, endVars>>

-----------------------------------------------------------------------------
(* runDrain: recovery before the claims.                                   *)

\* recoverProviderReceipts: four statements that commit together, each of which
\* sees what is committed when it starts.  The first gives the generations the
\* tasks `seen` by then; one that is recorded after it still ends the dispatch
\* of its job in the second, and waits for the next recovery.
Known == {g \in Generations : receipt[g].task # NoTask}
Recover(seen) ==
  LET bound(g) == g \in Known
      \* The owner of a submission left without an answer is gone.
      orphan(g) == Uncertain(g) /\ job[g].status = "dispatching" /\ job[g].stale
      asks(g) == /\ ~ bound(g) /\ (orphan(g) \/ job[g].status = "reconciling")
                 /\ gen[g].task = NoTask /\ ~ gen[g].asset
                 /\ gen[g].status \in {"queued", "waiting"}
  IN /\ gen' = [g \in Generations |->
                  IF g \in seen /\ gen[g].task = NoTask
                  THEN [gen[g] EXCEPT !.task = receipt[g].task,
                          !.status = IF @ = "reconciling" THEN "waiting" ELSE @]
                  ELSE IF asks(g)
                  THEN [gen[g] EXCEPT !.status = "reconciling",
                                      !.expired = FALSE]
                  ELSE gen[g]]
     /\ \A g \in Generations : gen'[g] = gen[g] \/ Free(g)
     /\ job' = [g \in Generations |->
                  IF bound(g) /\ job[g].status \in {"dispatching", "reconciling"}
                  THEN Parked(g, "dispatched")
                  ELSE IF orphan(g) THEN Parked(g, "reconciling") ELSE job[g]]
     /\ UNCHANGED <<receipt, execs, outcomeVars, provider, forgotten, endVars>>
RecoverReceipts == \E seen \in SUBSET Known : Recover(seen)

RequeueStale ==
  /\ job' = [g \in Generations |->
               IF job[g].status = "dispatching" /\ job[g].stale
               THEN Parked(g, "queued") ELSE job[g]]
  /\ UNCHANGED <<gen, receipt, execs, outcomeVars, provider, forgotten, endVars>>

-----------------------------------------------------------------------------
(* The provider, its callbacks and the polls.                              *)

\* External: the task ends; "empty" is a success without a result.
Finish(g, t) ==
  /\ provider[g][t] = "running"
  /\ \E outcome \in Outcome \ {"running"} :
       provider' = [provider EXCEPT ![g][t] = outcome]
  /\ UNCHANGED <<gen, job, receipt, execs, outcomeVars, forgotten, endVars>>

\* A finalization enters finalizeGenerationFromWebhook.
Begin(g, outcome, url) ==
  \E id \in Calls :
    /\ \A c \in calls : c.gen = g => c.id # id
    /\ calls' = calls \cup {[gen |-> g, id |-> id, outcome |-> outcome,
                             url |-> url, stage |-> "accept", late |-> FALSE]}

\* The callback of a task, early, repeated or out of order; one whose task no
\* row names binds it through its receipt (bindProviderReceipt).
Notify(g, t) ==
  \E outcome \in {"running", provider[g][t]} :
    /\ provider[g][t] # "none"
    /\ \/ /\ gen[g].task = t
          /\ UNCHANGED <<gen, job, receipt>>
       \/ /\ gen[g].version = 1 /\ gen[g].task # t /\ Free(g)
          /\ receipt[g].submitted /\ receipt[g].task \in {NoTask, t}
          /\ receipt' = [receipt EXCEPT ![g].task = t]
          /\ gen' = [gen EXCEPT ![g].task = IF @ = NoTask THEN t ELSE @]
          /\ job' = IF job[g].status \in {"dispatching", "reconciling"}
                    THEN [job EXCEPT ![g] = Parked(g, "dispatched")]
                    ELSE job
    /\ Begin(g, outcome, outcome = "success")
    /\ UNCHANGED <<execs, charge, assets, provider, forgotten, endVars>>

\* reconcileGeneration: a saved url is retried directly, otherwise the provider
\* is asked.  A success without a result is waited for, then failed.
Poll(g) ==
  /\ gen[g].status \notin Failures /\ gen[g].task # NoTask
  /\ ~ (gen[g].asset /\ gen[g].status = "completed")
  /\ LET answer == provider[g][gen[g].task]
     IN IF gen[g].url /\ (gen[g].status = "completed" \/ answer = "empty")
        THEN Begin(g, "success", TRUE)
        ELSE \E outcome \in IF answer = "empty" THEN {"running", "failed"}
                            ELSE {answer} :
               /\ outcome = "running" => gen[g].url \/ ~ gen[g].aged
               /\ Begin(g, outcome, gen[g].url \/ outcome = "success")
  /\ UNCHANGED <<gen, job, receipt, execs, charge, assets, provider,
                 forgotten, endVars>>

\* tickGenerationWorker polls the rows this filter selects; a client polls any.
WorkerPolls_OpenOnly(g) ==
  /\ gen[g].task # NoTask /\ ~ gen[g].asset
  /\ gen[g].status \in Open

WorkerPolls(g) ==
  /\ gen[g].task # NoTask /\ ~ gen[g].asset
  /\ \/ gen[g].status \in Open
     \/ gen[g].status = "completed" /\ gen[g].url

\* A poll of a delivered generation only settles it.
PollDelivered(g) ==
  /\ gen[g].asset /\ gen[g].status = "completed"
  /\ Settle(g)
  /\ UNCHANGED <<gen, job, receipt, execs, calls, assets, provider, forgotten, endVars>>

-----------------------------------------------------------------------------
(* finalizeGenerationFromWebhook.                                          *)

CallMoved(c, stage) == calls' = (calls \ {c}) \cup {[c EXCEPT !.stage = stage]}
CallEnded(c) == calls' = calls \ {c}

\* Of a terminal generation, only a timed-out one takes a late success.
Revives(c) == c.outcome = "success" /\ c.url

Late(g) == gen[g].status = "failed" /\ gen[g].expired
Ignored(c) ==
  \/ gen[c.gen].status \in Failures /\ ~ (Late(c.gen) /\ Revives(c))
  \/ gen[c.gen].status = "completed" /\ gen[c.gen].asset

StatusOf(outcome) == CASE outcome = "running" -> "waiting"
                       [] outcome = "failed" -> "failed"
                       [] OTHER -> "completed"

\* The transaction that takes or ignores a report.  An ignored report of a
\* delivered generation settles it once more.
Accept(c) ==
  /\ c.stage = "accept" /\ Free(c.gen)
  /\ LET g == c.gen
     IN IF Ignored(c)
        THEN /\ IF gen[g].asset /\ gen[g].status = "completed"
                THEN CallMoved(c, "settle") ELSE CallEnded(c)
             /\ UNCHANGED gen
        ELSE /\ gen' = [gen EXCEPT ![g].status = StatusOf(c.outcome),
                                   ![g].url = @ \/ c.url,
                                   ![g].expired = FALSE]
             /\ IF c.outcome # "failed" /\ ~ c.url THEN CallEnded(c)
                ELSE calls' = (calls \ {c}) \cup
                       {[c EXCEPT !.late = Late(g),
                                  !.stage = IF c.outcome = "failed"
                                            THEN "release" ELSE "persist"]}
  /\ UNCHANGED <<job, receipt, execs, charge, assets, provider,
                 forgotten, endVars>>

ReleaseFailed(c) ==
  /\ c.stage = "release"
  /\ Release(c.gen)
  /\ CallEnded(c)
  /\ UNCHANGED <<gen, job, receipt, execs, assets, provider, forgotten, endVars>>

\* persistGenerationOutput: the row is locked and read again before the insert,
\* its status is not.
Persist_NoRecheck(c) ==
  /\ c.stage = "persist" /\ Free(c.gen)
  /\ gen' = [gen EXCEPT ![c.gen].asset = TRUE, ![c.gen].url = TRUE]
  /\ assets' = [assets EXCEPT ![c.gen] = @ + 1]
  /\ IF c.outcome = "success" /\ ~ c.late THEN CallMoved(c, "settle")
     ELSE CallEnded(c)
  /\ UNCHANGED <<job, receipt, execs, charge, provider, forgotten, endVars>>

Persist(c) ==
  /\ c.stage = "persist" /\ Free(c.gen)
  /\ gen' = [gen EXCEPT ![c.gen].asset = TRUE, ![c.gen].url = TRUE]
  /\ assets' = [assets EXCEPT ![c.gen] = IF gen[c.gen].asset THEN @ ELSE @ + 1]
  /\ IF c.outcome = "success" /\ ~ c.late THEN CallMoved(c, "settle")
     ELSE CallEnded(c)
  /\ UNCHANGED <<job, receipt, execs, charge, provider, forgotten, endVars>>

SettleDelivered(c) ==
  /\ c.stage = "settle"
  /\ Settle(c.gen)
  /\ CallEnded(c)
  /\ UNCHANGED <<gen, job, receipt, execs, assets, provider, forgotten, endVars>>

\* A step of the finalization fails, or its process dies; the route answers
\* the provider with success all the same.
CallFails(c) ==
  /\ CallEnded(c)
  /\ UNCHANGED <<gen, job, receipt, execs, charge, assets, provider,
                 forgotten, endVars>>

-----------------------------------------------------------------------------
(* Timeout and cancellation.                                               *)

\* 30 minutes pass since an image was requested, 45 since a video was.
Age(g) ==
  /\ ~ gen[g].aged
  /\ gen' = [gen EXCEPT ![g].aged = TRUE]
  /\ UNCHANGED <<job, receipt, execs, outcomeVars, provider, forgotten, endVars>>

\* timeoutGeneration: by the sweep or a poll, or, when the finalization a poll
\* retries failed once more, of a success that could not be saved.  The row of
\* the generation is locked; neither the receipt nor the job is.
MayExpire(g) ==
  /\ gen[g].aged /\ ~ gen[g].asset
  /\ \/ gen[g].status \in {"queued", "waiting"} /\ ~ gen[g].url
     \/ gen[g].status = "completed" /\ gen[g].url /\ gen[g].task # NoTask

BeginExpire(g) ==
  /\ Free(g) /\ MayExpire(g) /\ ~ Uncertain(g)
  /\ ending' = [ending EXCEPT ![g] = "expire"]
  /\ UNCHANGED <<gen, job, receipt, execs, outcomeVars, provider, forgotten, overlooked>>

\* The generation and its job reach the end, and the row is free again.
EndedAs(g, status) ==
  /\ gen' = [gen EXCEPT ![g].status = status, ![g].expired = (status = "failed")]
  /\ job' = IF job[g].status \in {"queued", "dispatching", "dispatched"}
            THEN [job EXCEPT ![g] = Parked(g, "failed")] ELSE job
  /\ ending' = [ending EXCEPT ![g] = "no"]
  /\ UNCHANGED <<receipt, execs, calls, assets, provider, forgotten, overlooked>>

Expire(g) ==
  /\ ending[g] = "expire"
  /\ EndedAs(g, "failed")
  /\ Release(g)

\* cancelGeneration: of work that nobody is asking the provider about.
MayCancel(g) ==
  gen[g].status \in {"queued", "waiting"} /\ ~ gen[g].url /\ ~ gen[g].asset

BeginCancel(g) ==
  /\ Free(g) /\ MayCancel(g) /\ ~ Uncertain(g)
  /\ ending' = [ending EXCEPT ![g] = IF job[g].status = "dispatched" THEN "charge"
                                     ELSE "cancel"]
  /\ UNCHANGED <<gen, job, receipt, execs, outcomeVars, provider, forgotten, overlooked>>

\* Work the provider has taken is charged.  The job's status is read on the way.
Cancel_Charged(g) ==
  /\ ending[g] \in {"cancel", "charge"}
  /\ EndedAs(g, "cancelled")
  /\ Settle(g)

Cancel(g) ==
  /\ ending[g] \in {"cancel", "charge"}
  /\ EndedAs(g, "cancelled")
  /\ \/ job[g].status = "dispatched" /\ Settle(g)
     \/ ending[g] = "cancel" /\ Release(g)

-----------------------------------------------------------------------------
(* The specification.                                                      *)

Step(e) ==
  \/ Prepare(e) \/ Mark(e) \/ Submit(e) \/ Answered(e) \/ Record(e) \/ Commit(e)
  \/ CatchBroken(e) \/ CatchRefused(e) \/ Requeue(e) \/ Reconcile(e)
  \/ FailJob(e) \/ Refund(e)

Finalize(c) ==
  \/ Accept(c) \/ ReleaseFailed(c) \/ Persist(c) \/ SettleDelivered(c)

Next ==
  \/ \E e \in execs : Step(e) \/ Heartbeat(e) \/ Crash(e)
  \/ \E c \in calls : Finalize(c) \/ CallFails(c)
  \/ \E g \in Generations :
       \/ Claim(g) \/ Stall(g) \/ Poll(g) \/ PollDelivered(g)
       \/ Age(g) \/ BeginExpire(g) \/ Expire(g) \/ BeginCancel(g) \/ Cancel(g)
       \/ \E t \in Tasks : Finish(g, t) \/ Notify(g, t)
  \/ RecoverReceipts \/ RequeueStale

Safe == Init /\ [][Next]_vars

\* The worker's ticks run the drain, the polls and the sweep for ever, so that
\* some recovery sees a task that was recorded before it; a transaction ends, time
\* passes, an executor that does not die goes on, a provider ends its tasks
\* and delivers the callback of a task.  Not every poll or callback dies
\* halfway through.
Fairness ==
  /\ WF_vars(Recover(Known)) /\ WF_vars(RequeueStale)
  /\ \A g \in Generations :
       /\ WF_vars(Claim(g)) /\ WF_vars(Age(g))
       /\ WF_vars(gen[g].status # "completed" /\ BeginExpire(g))
       /\ WF_vars(Expire(g) \/ Cancel(g))
       /\ WF_vars(\E e \in execs : e.gen = g /\ Step(e))
       /\ SF_vars(WorkerPolls(g) /\ Poll(g))
       /\ WF_vars(\E c \in calls : c.gen = g /\ (Finalize(c) \/ CallFails(c)))
       /\ SF_vars(\E c \in calls : c.gen = g /\ c.outcome # "running" /\ Accept(c))
       /\ SF_vars(\E c \in calls : c.gen = g /\ Persist(c))
       /\ WF_vars(\E t \in Tasks : Finish(g, t))
       /\ SF_vars(gen[g].task = NoTask /\ \E t \in Tasks : Notify(g, t))

Spec == Safe /\ Fairness

-----------------------------------------------------------------------------
(* What must be right.                                                     *)

\* A lost response never becomes another paid submission: a generation with a
\* receipt is accepted by the provider once, however often its dispatch is
\* claimed, stalls, crashes and is recovered, unless an attempt that had lost
\* its job erased the receipt (markProviderSubmission, prepareProviderReceipt).
PaidOnce ==
  \A g \in Generations :
    gen[g].version = 1 /\ g \notin forgotten => Cardinality(Accepted(g)) <= 1

\* A dispatch never gives up a submission the provider has accepted: its job
\* fails only by timeout or cancellation (the catch of dispatchJob).
PaidWorkIsNotDropped ==
  \A g \in Generations :
    /\ gen[g].version = 1 /\ g \notin forgotten
    /\ Accepted(g) # {} /\ job[g].status = "failed"
    => gen[g].aged \/ gen[g].status = "cancelled"

\* The provider's answer is not lost: a job is dispatched only once its task is
\* kept by the generation, or by its receipt until the next recovery (the commit,
\* bindProviderReceipt, recoverProviderReceipts).
TaskKept(g) == gen[g].task # NoTask \/ receipt[g].task # NoTask
DispatchedHasTask ==
  \A g \in Generations : job[g].status = "dispatched" => TaskKept(g)

\* Every callback and poll may bring the result; it is stored once
\* (persistGenerationOutput's second read under the lock).
StoredOnce == \A g \in Generations : assets[g] <= 1

\* The reservation is charged only when the result is stored, or when the
\* generation was cancelled after the provider took it (settleGeneration's
\* callers).
ChargedForWork ==
  \A g \in Generations :
    charge[g] = "settled" =>
      gen[g].asset \/ (gen[g].status = "cancelled" /\ TaskKept(g))

\* No generation is submitted twice (the comment above
\* generation_provider_receipts in 010_media_jobs.sql).
NeverPaidTwice ==
  \A g \in Generations :
    gen[g].version = 1 => Cardinality(Accepted(g)) <= 1

\* Nothing is submitted for a generation with a receipt once its reservation
\* is refunded or charged: a timeout and a cancellation let a submission whose
\* fate is unknown be (timeoutGeneration, cancelGeneration), unless it was marked
\* after they had read the receipt.
NoWorkAfterTheEnd ==
  [][\A g \in Generations :
       /\ gen[g].version = 1 /\ g \notin forgotten \cup overlooked
       /\ Accepted(g)' # Accepted(g)
       => charge[g] = "reserved"]_vars

\* Terminal generations stay terminal: only a timed-out one is revived, and
\* only by a success (finalizeGenerationFromWebhook, and the guards of
\* dispatchJob's writes), unless an attempt erased another's receipt.
NoResurrection ==
  [][\A g \in Generations :
       gen[g].status \in Failures /\ g \notin forgotten =>
         \/ gen'[g].status = gen[g].status
         \/ Late(g) /\ gen'[g].status = "completed"]_vars

\* The submission never reached the provider and nobody can know.
Lost(g) == Uncertain(g) /\ Accepted(g) = {}

\* The provider refused a submission after its job was given to reconciliation:
\* the refusal clears the mark, and nothing leads out of reconciling without it.
Stranded(g) ==
  gen[g].status = "reconciling" /\ receipt[g] = [submitted |-> FALSE, task |-> NoTask]

\* A success reported without a result, which the background worker skips.
Blank(g) == gen[g].status = "completed" /\ ~ gen[g].url

\* Every generation ends: it is delivered or fails, or its submission was
\* lost on the way or refused too late, or its receipt was erased, or its
\* success was blank
\* (the sweep, the worker's polls, the callbacks and the receipts' recovery).
EveryGenerationEnds ==
  \A g \in Generations :
    TRUE ~> \/ gen[g].asset \/ gen[g].status \in Failures
            \/ Lost(g) \/ Stranded(g) \/ Blank(g) \/ g \in forgotten
=============================================================================
