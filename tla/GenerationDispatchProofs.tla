---------------------- MODULE GenerationDispatchProofs ----------------------
(***************************************************************************)
(* Proofs about GenerationDispatch for every set of generations, number of *)
(* attempts and of concurrent finalizations.                               *)
(***************************************************************************)
EXTENDS GenerationDispatch, FiniteSetTheorems, TLAPS

\* The values of the columns, and the stages of a finalization.
Statuses == Open \cup Failures \cup {"completed"}
JobStatuses == {"queued", "dispatching", "dispatched", "reconciling", "failed"}
CallStages == {"accept", "release", "persist", "settle"}

\* A task named by a row or by an executor past its answer is one the provider
\* accepted.
TasksAccepted ==
  /\ \A g \in Generations :
       /\ gen[g].task # NoTask => provider[g][gen[g].task] # "none"
       /\ receipt[g].task # NoTask => provider[g][receipt[g].task] # "none"
  /\ \A e \in execs :
       e.stage \in {"answered", "recorded"} => provider[e.gen][e.attempt] # "none"
-----------------------------------------------------------------------------
(* Rows keep their type.                                                   *)

\* A generation row stays one through every update the actions make to it.
LEMMA GenerationRows ==
  ASSUME NEW r \in Generation, NEW status \in Statuses,
         NEW task \in Tasks \cup {NoTask}, NEW b \in BOOLEAN
  PROVE  /\ [r EXCEPT !.status = status] \in Generation
         /\ [r EXCEPT !.status = status, !.expired = b] \in Generation
         /\ [r EXCEPT !.task = task] \in Generation
         /\ [r EXCEPT !.task = task, !.status = status] \in Generation
         /\ [r EXCEPT !.task = task, !.status = status, !.expired = FALSE]
              \in Generation
         /\ [r EXCEPT !.status = status, !.url = b, !.expired = FALSE]
              \in Generation
         /\ [r EXCEPT !.asset = TRUE, !.url = TRUE] \in Generation
         /\ [r EXCEPT !.aged = TRUE] \in Generation
BY DEF Generation, Statuses

\* So does a job row.
LEMMA JobRows ==
  ASSUME NEW r \in Job, NEW status \in JobStatuses, NEW b \in BOOLEAN,
         NEW n \in 0 .. MaxAttempts
  PROVE  /\ [r EXCEPT !.status = status, !.stale = FALSE] \in Job
         /\ [r EXCEPT !.status = status, !.attempts = n, !.stale = FALSE] \in Job
         /\ [r EXCEPT !.stale = b] \in Job
BY DEF Job, JobStatuses

\* A job that leaves its owner's hands stays a row.
LEMMA ParkedRow ==
  ASSUME job \in [Generations -> Job], NEW g \in Generations,
         NEW status \in JobStatuses
  PROVE  /\ Parked(g, status) \in Job
         /\ [job EXCEPT ![g] = Parked(g, status)] \in [Generations -> Job]
<1>1. Parked(g, status) \in Job
  <2>1. job[g] \in Job /\ job[g].attempts \in 0 .. MaxAttempts
    BY DEF Job
  <2> QED
    BY <2>1, JobRows DEF Parked
<1> QED
  BY <1>1

\* So does a receipt.
LEMMA ReceiptRows ==
  ASSUME NEW r \in Receipt, NEW task \in Tasks \cup {NoTask}, NEW b \in BOOLEAN
  PROVE  /\ [r EXCEPT !.submitted = b] \in Receipt
         /\ [r EXCEPT !.task = task] \in Receipt
BY DEF Receipt

\* An executor that moves to another stage stays one.
LEMMA MovedType ==
  ASSUME execs \subseteq Exec, NEW e \in execs, NEW stage \in Stage,
         Moved(e, stage)
  PROVE  execs' \subseteq Exec
<1>1. [e EXCEPT !.stage = stage] \in Exec
  BY DEF Exec
<1> QED
  BY <1>1 DEF Moved

\* A finalization that moves to another stage stays one.
LEMMA CallMovedType ==
  ASSUME calls \subseteq Call, NEW c \in calls, NEW stage \in CallStages,
         CallMoved(c, stage)
  PROVE  calls' \subseteq Call
<1>1. [c EXCEPT !.stage = stage] \in Call
  BY DEF Call, CallStages
<1> QED
  BY <1>1 DEF CallMoved

\* A new finalization is one.
LEMMA BeginType ==
  ASSUME calls \subseteq Call, NEW g \in Generations, NEW outcome \in Outcome,
         NEW url \in BOOLEAN, Begin(g, outcome, url)
  PROVE  calls' \subseteq Call
<1>1. PICK id \in Calls :
        calls' = calls \cup {[gen |-> g, id |-> id, outcome |-> outcome,
                              url |-> url, stage |-> "accept", late |-> FALSE]}
  BY DEF Begin
<1>2. [gen |-> g, id |-> id, outcome |-> outcome, url |-> url,
       stage |-> "accept", late |-> FALSE] \in Call
  BY DEF Call
<1> QED
  BY <1>1, <1>2

\* The usage authority's answers are well formed.
LEMMA UsageType ==
  ASSUME charge \in [Generations -> {"reserved", "settled", "released"}],
         NEW g \in Generations, Release(g) \/ Settle(g)
  PROVE  charge' \in [Generations -> {"reserved", "settled", "released"}]
BY DEF Release, Settle

-----------------------------------------------------------------------------
(* Every action keeps the tables well formed.                              *)

\* dispatchJob.
LEMMA StepTypes ==
  ASSUME TypeOK, NEW e \in execs, Step(e) \/ Heartbeat(e) \/ Crash(e)
  PROVE  TypeOK'
<1>0. /\ e \in Exec /\ e.gen \in Generations /\ e.attempt \in Tasks
      /\ gen[e.gen] \in Generation /\ job[e.gen] \in Job
      /\ receipt[e.gen] \in Receipt
  BY DEF TypeOK, Exec
<1>1. CASE Prepare(e) \/ Submit(e) \/ CatchBroken(e)
  <2>1. PICK stage \in Stage : Moved(e, stage)
    BY <1>1 DEF Prepare, Submit, CatchBroken, Stage, Working
  <2>2. execs' \subseteq Exec
    BY <2>1, MovedType DEF TypeOK
  <2> QED
    BY <1>1, <2>2
    DEF TypeOK, Prepare, Submit, CatchBroken, outcomeVars, endVars
<1>2. CASE Mark(e)
  <2>1. PICK stage \in Stage : Moved(e, stage)
    BY <1>2 DEF Mark, Stage, Working
  <2>2. execs' \subseteq Exec
    BY <2>1, MovedType DEF TypeOK
  <2>3. [receipt[e.gen] EXCEPT !.submitted = TRUE] \in Receipt
    BY <1>0, ReceiptRows DEF NoTask
  <2>4. receipt' \in [Generations -> Receipt]
    BY <1>0, <1>2, <2>3 DEF Mark, TypeOK
  <2> QED
    BY <1>2, <2>2, <2>4 DEF TypeOK, Mark, outcomeVars, endVars
<1>3. CASE Answered(e)
  <2>1. Moved(e, "answered") /\ "answered" \in Stage
    BY <1>3 DEF Answered, Stage, Working
  <2>2. execs' \subseteq Exec
    BY <2>1, MovedType DEF TypeOK
  <2>3. "running" \in Outcome \cup {"none"}
    BY DEF Outcome
  <2>4. provider' \in [Generations -> [Tasks -> Outcome \cup {"none"}]]
    BY <1>0, <1>3, <2>3 DEF Answered, TypeOK
  <2> QED
    BY <1>3, <2>2, <2>4 DEF TypeOK, Answered, outcomeVars, endVars
<1>4. CASE Record(e)
  <2>1. Moved(e, "recorded") /\ "recorded" \in Stage
    BY <1>4 DEF Record, Stage, Working
  <2>2. execs' \subseteq Exec
    BY <2>1, MovedType DEF TypeOK
  <2>3. [receipt[e.gen] EXCEPT !.task = e.attempt] \in Receipt
    BY <1>0, ReceiptRows
  <2>4. receipt' \in [Generations -> Receipt]
    BY <1>0, <1>4, <2>3 DEF Record, TypeOK
  <2> QED
    BY <1>4, <2>2, <2>4 DEF TypeOK, Record, outcomeVars, endVars
<1>5. CASE CatchRefused(e)
  <2>1. PICK stage \in Stage : Moved(e, stage)
    BY <1>5 DEF CatchRefused, Stage, Working
  <2>2. execs' \subseteq Exec
    BY <2>1, MovedType DEF TypeOK
  <2>3. [receipt[e.gen] EXCEPT !.submitted = FALSE] \in Receipt
    BY <1>0, ReceiptRows DEF NoTask
  <2>4. receipt' \in [Generations -> Receipt]
    BY <1>0, <1>5, <2>3 DEF CatchRefused, TypeOK
  <2>5. forgotten' \subseteq Generations
    BY <1>0, <1>5 DEF CatchRefused, TypeOK
  <2> QED
    BY <1>5, <2>2, <2>4, <2>5 DEF TypeOK, CatchRefused, outcomeVars, endVars
<1>6. CASE Commit(e)
  <2>1. "waiting" \in Statuses /\ {"dispatched", "failed"} \subseteq JobStatuses
    BY DEF Statuses, Open, JobStatuses
  <2>2. /\ [gen[e.gen] EXCEPT !.task = e.attempt, !.status = "waiting",
                              !.expired = FALSE] \in Generation
        /\ [gen[e.gen] EXCEPT !.task = e.attempt] \in Generation
    BY <1>0, <2>1, GenerationRows
  <2>3. CASE ~ Owns(e)
    BY <1>6, <2>3 DEF TypeOK, Commit, Ended, outcomeVars, endVars
  <2>4. CASE Owns(e) /\ gen[e.gen].status \in Open
    <3>1. gen' \in [Generations -> Generation]
      BY <1>0, <1>6, <2>2, <2>4 DEF Commit, TypeOK
    <3>2. job' \in [Generations -> Job]
      BY <1>0, <1>6, <2>1, <2>4, ParkedRow DEF Commit, TypeOK
    <3> QED
      BY <1>6, <3>1, <3>2 DEF TypeOK, Commit, Ended, outcomeVars, endVars
  <2>5. CASE Owns(e) /\ gen[e.gen].status \notin Open
    <3>1. gen' = [gen EXCEPT ![e.gen].task = IF @ = NoTask THEN e.attempt ELSE @]
      BY <1>6, <2>5 DEF Commit
    <3>2. gen' = [gen EXCEPT ![e.gen].task = e.attempt] \/ gen' = gen
      BY <1>0, <3>1 DEF TypeOK, Generation
    <3>3. gen' \in [Generations -> Generation]
      BY <1>0, <2>2, <3>2 DEF TypeOK
    <3>4. job' \in [Generations -> Job]
      BY <1>0, <1>6, <2>1, <2>5, ParkedRow DEF Commit, TypeOK
    <3> QED
      BY <1>6, <3>3, <3>4 DEF TypeOK, Commit, Ended, outcomeVars, endVars
  <2> QED
    BY <2>3, <2>4, <2>5
<1>7. CASE Requeue(e)
  <2>1. "queued" \in Statuses /\ "queued" \in JobStatuses
    BY DEF Statuses, Open, JobStatuses
  <2>2. [gen[e.gen] EXCEPT !.status = "queued", !.expired = FALSE] \in Generation
    BY <1>0, <2>1, GenerationRows DEF NoTask
  <2>3. gen' \in [Generations -> Generation]
    BY <1>0, <1>7, <2>2 DEF Requeue, TypeOK
  <2>4. job' \in [Generations -> Job]
    BY <1>0, <1>7, <2>1, ParkedRow DEF Requeue, TypeOK
  <2> QED
    BY <1>7, <2>3, <2>4 DEF TypeOK, Requeue, Ended, outcomeVars, endVars
<1>8. CASE Reconcile(e)
  <2>1. "reconciling" \in Statuses /\ "reconciling" \in JobStatuses
    BY DEF Statuses, Open, JobStatuses
  <2>2. [gen[e.gen] EXCEPT !.status = "reconciling", !.expired = FALSE]
          \in Generation
    BY <1>0, <2>1, GenerationRows DEF NoTask
  <2>3. gen' \in [Generations -> Generation]
    BY <1>0, <1>8, <2>2 DEF Reconcile, TypeOK
  <2>4. job' \in [Generations -> Job]
    BY <1>0, <1>8, <2>1, ParkedRow DEF Reconcile, TypeOK
  <2> QED
    BY <1>8, <2>3, <2>4 DEF TypeOK, Reconcile, Ended, outcomeVars, endVars
<1>9. CASE FailJob(e)
  <2>1. "failed" \in Statuses /\ "failed" \in JobStatuses
    BY DEF Statuses, Failures, JobStatuses
  <2>2. [gen[e.gen] EXCEPT !.status = "failed", !.expired = FALSE] \in Generation
    BY <1>0, <2>1, GenerationRows DEF NoTask
  <2>3. gen' \in [Generations -> Generation]
    BY <1>0, <1>9, <2>2 DEF FailJob, TypeOK
  <2>4. job' \in [Generations -> Job]
    BY <1>0, <1>9, <2>1, ParkedRow DEF FailJob, TypeOK
  <2>5. "refund" \in Stage
    BY DEF Stage, Working
  <2>6. execs' \subseteq Exec
    BY <1>9, <2>5, MovedType DEF FailJob, Ended, TypeOK
  <2> QED
    BY <1>9, <2>3, <2>4, <2>6 DEF TypeOK, FailJob, outcomeVars, endVars
<1>10. CASE Refund(e)
  <2>1. Release(e.gen)
    BY <1>10 DEF Refund
  <2>2. charge' \in [Generations -> {"reserved", "settled", "released"}]
    BY <1>0, <2>1, UsageType DEF TypeOK
  <2> QED
    BY <1>10, <2>2 DEF TypeOK, Refund, Ended, endVars
<1>11. CASE Heartbeat(e)
  <2>1. [job[e.gen] EXCEPT !.stale = FALSE] \in Job
    BY <1>0 DEF Job
  <2>2. job' \in [Generations -> Job]
    BY <1>0, <1>11, <2>1 DEF Heartbeat, TypeOK
  <2> QED
    BY <1>11, <2>2 DEF TypeOK, Heartbeat, outcomeVars, endVars
<1>12. CASE Crash(e)
  BY <1>12 DEF TypeOK, Crash, Ended, outcomeVars, endVars
<1> QED
  BY <1>1, <1>2, <1>3, <1>4, <1>5, <1>6, <1>7, <1>8, <1>9, <1>10, <1>11, <1>12
  DEF Step

\* finalizeGenerationFromWebhook.
LEMMA CallTypes ==
  ASSUME TypeOK, NEW c \in calls, Finalize(c) \/ CallFails(c)
  PROVE  TypeOK'
<1>0. /\ c \in Call /\ c.gen \in Generations /\ c.url \in BOOLEAN
      /\ gen[c.gen] \in Generation
  BY DEF TypeOK, Call
<1>1. CASE Accept(c)
  <2>1. StatusOf(c.outcome) \in Statuses
    BY <1>0 DEF StatusOf, Statuses, Open, Failures
  <2>2. gen[c.gen].url \in BOOLEAN
    BY <1>0 DEF Generation
  <2>3. [gen[c.gen] EXCEPT !.status = StatusOf(c.outcome),
                           !.url = gen[c.gen].url \/ c.url,
                           !.expired = FALSE] \in Generation
    BY <1>0, <2>1, <2>2, GenerationRows DEF NoTask
  <2>4. gen' \in [Generations -> Generation]
    BY <1>0, <1>1, <2>3 DEF Accept, TypeOK
  <2>5. Late(c.gen) \in BOOLEAN
    BY <1>0 DEF Late, Generation
  <2>6. calls' \subseteq Call
    <3>1. CASE CallEnded(c)
      BY <3>1 DEF CallEnded, TypeOK
    <3>2. CASE CallMoved(c, "settle")
      BY <3>2, CallMovedType DEF CallStages, TypeOK
    <3>3. CASE \E stage \in {"release", "persist"} :
                 calls' = (calls \ {c}) \cup
                            {[c EXCEPT !.late = Late(c.gen), !.stage = stage]}
      <4>1. \A stage \in {"release", "persist"} :
              [c EXCEPT !.late = Late(c.gen), !.stage = stage] \in Call
        BY <1>0, <2>5 DEF Call
      <4> QED
        BY <3>3, <4>1 DEF TypeOK
    <3> QED
      BY <1>1, <3>1, <3>2, <3>3 DEF Accept
  <2> QED
    BY <1>1, <2>4, <2>6 DEF TypeOK, Accept, endVars
<1>2. CASE ReleaseFailed(c)
  <2>1. Release(c.gen)
    BY <1>2 DEF ReleaseFailed
  <2>2. charge' \in [Generations -> {"reserved", "settled", "released"}]
    BY <1>0, <2>1, UsageType DEF TypeOK
  <2> QED
    BY <1>2, <2>2 DEF TypeOK, ReleaseFailed, CallEnded, endVars
<1>3. CASE Persist(c)
  <2>1. [gen[c.gen] EXCEPT !.asset = TRUE, !.url = TRUE] \in Generation
    BY <1>0, GenerationRows DEF NoTask, Statuses
  <2>2. gen' \in [Generations -> Generation]
    BY <1>0, <1>3, <2>1 DEF Persist, TypeOK
  <2>3. assets' \in [Generations -> Nat]
    BY <1>0, <1>3 DEF Persist, TypeOK
  <2>4. CallMoved(c, "settle") \/ CallEnded(c)
    BY <1>3 DEF Persist
  <2>5. calls' \subseteq Call
    BY <2>4, CallMovedType DEF CallStages, CallEnded, TypeOK
  <2> QED
    BY <1>3, <2>2, <2>3, <2>5 DEF TypeOK, Persist, endVars
<1>4. CASE SettleDelivered(c)
  <2>1. Settle(c.gen)
    BY <1>4 DEF SettleDelivered
  <2>2. charge' \in [Generations -> {"reserved", "settled", "released"}]
    BY <1>0, <2>1, UsageType DEF TypeOK
  <2> QED
    BY <1>4, <2>2 DEF TypeOK, SettleDelivered, CallEnded, endVars
<1>5. CASE CallFails(c)
  BY <1>5 DEF TypeOK, CallFails, CallEnded, endVars
<1> QED
  BY <1>1, <1>2, <1>3, <1>4, <1>5 DEF Finalize

\* The claims, the callbacks and the polls of one generation, its timeout and
\* its cancellation.
GenerationStep(g) ==
  \/ Claim(g) \/ Stall(g) \/ Poll(g) \/ PollDelivered(g)
  \/ Age(g) \/ BeginExpire(g) \/ Expire(g) \/ BeginCancel(g) \/ Cancel(g)
  \/ \E t \in Tasks : Finish(g, t) \/ Notify(g, t)

\* They keep the tables well formed: the task a poll asks for is known.
LEMMA GenerationTypes ==
  ASSUME TypeOK, TasksAccepted, NEW g \in Generations, GenerationStep(g)
  PROVE  TypeOK'
<1>0. gen[g] \in Generation /\ job[g] \in Job /\ receipt[g] \in Receipt
  BY DEF TypeOK
<1>01. /\ {"failed", "cancelled"} \subseteq Statuses
       /\ {"failed", "dispatched"} \subseteq JobStatuses
  BY DEF Statuses, Failures, JobStatuses
<1>1. CASE Claim(g)
  <2>1. job[g].attempts + 1 \in Tasks /\ job[g].attempts + 1 \in 0 .. MaxAttempts
    BY <1>0, <1>1, MaxAttemptsAssumption DEF Claim, Job, Tasks
  <2>2. [job[g] EXCEPT !.status = "dispatching", !.attempts = job[g].attempts + 1,
                       !.stale = FALSE] \in Job
    BY <1>0, <2>1, JobRows DEF JobStatuses
  <2>3. job' \in [Generations -> Job]
    BY <1>1, <2>2 DEF Claim, TypeOK
  <2>4. [gen |-> g, attempt |-> job[g].attempts + 1, stage |-> "claimed"] \in Exec
    BY <2>1 DEF Exec, Stage, Working
  <2>5. execs' \subseteq Exec
    BY <1>1, <2>4 DEF Claim, TypeOK
  <2> QED
    BY <1>1, <2>3, <2>5 DEF TypeOK, Claim, outcomeVars, endVars
<1>2. CASE Stall(g)
  <2>1. [job[g] EXCEPT !.stale = TRUE] \in Job
    BY <1>0 DEF Job
  <2>2. job' \in [Generations -> Job]
    BY <1>2, <2>1 DEF Stall, TypeOK
  <2> QED
    BY <1>2, <2>2 DEF TypeOK, Stall, outcomeVars, endVars
<1>3. CASE Poll(g)
  <2>1. gen[g].task \in Tasks /\ gen[g].url \in BOOLEAN
    BY <1>0, <1>3 DEF Poll, Generation
  <2>2. provider[g][gen[g].task] \in Outcome
    BY <1>3, <2>1 DEF Poll, TypeOK, TasksAccepted
  <2>3. PICK outcome \in Outcome, url \in BOOLEAN : Begin(g, outcome, url)
    <3>1. {"success", "running", "failed"} \subseteq Outcome
      BY DEF Outcome
    <3> QED
      BY <1>3, <2>1, <2>2, <3>1 DEF Poll
  <2>4. calls' \subseteq Call
    BY <2>3, BeginType DEF TypeOK
  <2> QED
    BY <1>3, <2>4 DEF TypeOK, Poll, endVars
<1>4. CASE PollDelivered(g)
  <2>1. Settle(g)
    BY <1>4 DEF PollDelivered
  <2>2. charge' \in [Generations -> {"reserved", "settled", "released"}]
    BY <2>1, UsageType DEF TypeOK
  <2> QED
    BY <1>4, <2>2 DEF TypeOK, PollDelivered, endVars
<1>5. CASE Age(g)
  <2>1. [gen[g] EXCEPT !.aged = TRUE] \in Generation
    BY <1>0, GenerationRows DEF NoTask, Statuses
  <2>2. gen' \in [Generations -> Generation]
    BY <1>5, <2>1 DEF Age, TypeOK
  <2> QED
    BY <1>5, <2>2 DEF TypeOK, Age, outcomeVars, endVars
<1>9. CASE BeginExpire(g) \/ BeginCancel(g)
  BY <1>9 DEF TypeOK, BeginExpire, BeginCancel, outcomeVars
<1>6. CASE Expire(g) \/ Cancel(g)
  <2>1. \A status \in {"failed", "cancelled"} :
          [gen[g] EXCEPT !.status = status, !.expired = (status = "failed")]
            \in Generation
    BY <1>0, <1>01, GenerationRows DEF NoTask
  <2>2. gen' \in [Generations -> Generation]
    BY <1>6, <2>1 DEF BeginExpire, Expire, BeginCancel, Cancel, EndedAs, TypeOK
  <2>3. job' = job \/ job' = [job EXCEPT ![g] = Parked(g, "failed")]
    BY <1>6 DEF BeginExpire, Expire, BeginCancel, Cancel, EndedAs
  <2>4. job' \in [Generations -> Job]
    BY <1>01, <2>3, ParkedRow DEF TypeOK
  <2>5. Release(g) \/ Settle(g)
    BY <1>6 DEF BeginExpire, Expire, BeginCancel, Cancel, EndedAs
  <2>6. charge' \in [Generations -> {"reserved", "settled", "released"}]
    BY <2>5, UsageType DEF TypeOK
  <2> QED
    BY <1>6, <2>2, <2>4, <2>6 DEF TypeOK, BeginExpire, Expire, BeginCancel, Cancel,
       EndedAs
<1>7. ASSUME NEW t \in Tasks, Finish(g, t)
      PROVE  TypeOK'
  <2>1. PICK outcome \in Outcome :
          provider' = [provider EXCEPT ![g][t] = outcome]
    BY <1>7 DEF Finish
  <2>2. provider' \in [Generations -> [Tasks -> Outcome \cup {"none"}]]
    BY <2>1 DEF TypeOK
  <2> QED
    BY <1>7, <2>2 DEF TypeOK, Finish, outcomeVars, endVars
<1>8. ASSUME NEW t \in Tasks, Notify(g, t)
      PROVE  TypeOK'
  <2>1. PICK outcome \in {"running", provider[g][t]} :
          provider[g][t] # "none" /\ Begin(g, outcome, outcome = "success")
    BY <1>8 DEF Notify
  <2>2. outcome \in Outcome
    BY <2>1 DEF TypeOK, Outcome
  <2>3. calls' \subseteq Call
    BY <2>1, <2>2, BeginType DEF TypeOK
  <2>4. [receipt[g] EXCEPT !.task = t] \in Receipt
    BY <1>0, ReceiptRows
  <2>5. receipt' \in [Generations -> Receipt]
    BY <1>8, <2>4 DEF Notify, TypeOK
  <2>6. [gen[g] EXCEPT !.task = t] \in Generation
    BY <1>0, <1>01, GenerationRows
  <2>7. gen' = gen \/ gen' = [gen EXCEPT ![g].task = t]
    BY <1>0, <1>8 DEF Notify, TypeOK, Generation
  <2>8. gen' \in [Generations -> Generation]
    BY <2>6, <2>7 DEF TypeOK
  <2>9. job' = job \/ job' = [job EXCEPT ![g] = Parked(g, "dispatched")]
    BY <1>8 DEF Notify
  <2>10. job' \in [Generations -> Job]
    BY <1>01, <2>9, ParkedRow DEF TypeOK
  <2> QED
    BY <1>8, <2>3, <2>5, <2>8, <2>10 DEF TypeOK, Notify, endVars
<1> QED
  BY <1>1, <1>2, <1>3, <1>4, <1>5, <1>6, <1>7, <1>8, <1>9 DEF GenerationStep

\* runDrain's recovery.
LEMMA DrainTypes ==
  ASSUME TypeOK, RecoverReceipts \/ RequeueStale
  PROVE  TypeOK'
<1>0. ASSUME NEW g \in Generations
      PROVE  gen[g] \in Generation /\ job[g] \in Job /\ receipt[g] \in Receipt
  BY DEF TypeOK
<1>1. \A g \in Generations, status \in {"queued", "dispatched", "reconciling"} :
        Parked(g, status) \in Job
  BY ParkedRow DEF TypeOK, JobStatuses
<1>2. CASE RecoverReceipts
  <2>1. ASSUME NEW g \in Generations
        PROVE  gen'[g] \in Generation /\ job'[g] \in Job
    <3>1. /\ receipt[g].task \in Tasks \cup {NoTask}
          /\ gen[g].status \in Statuses
      BY <1>0, <2>1 DEF Receipt, Generation, Statuses
    <3>2. {"waiting", "reconciling"} \subseteq Statuses
      BY DEF Statuses, Open
    <3>3. /\ \A status \in Statuses :
               [gen[g] EXCEPT !.task = receipt[g].task, !.status = status]
                 \in Generation
          /\ [gen[g] EXCEPT !.status = "reconciling", !.expired = FALSE]
               \in Generation
      BY <1>0, <2>1, <3>1, <3>2, GenerationRows
    <3>4. [gen[g] EXCEPT !.task = receipt[g].task,
             !.status = IF @ = "reconciling" THEN "waiting" ELSE @] \in Generation
      BY <3>1, <3>2, <3>3
    <3>5. gen'[g] \in Generation
      BY <1>0, <1>2, <2>1, <3>3, <3>4 DEF RecoverReceipts, Recover
    <3>6. job'[g] \in Job
      BY <1>0, <1>1, <1>2, <2>1 DEF RecoverReceipts, Recover
    <3> QED
      BY <3>5, <3>6
  <2>2. /\ gen' \in [Generations -> Generation]
        /\ job' \in [Generations -> Job]
    BY <1>2, <2>1 DEF RecoverReceipts, Recover
  <2> QED
    BY <1>2, <2>2 DEF TypeOK, RecoverReceipts, Recover, outcomeVars, endVars
<1>3. CASE RequeueStale
  <2>1. job' \in [Generations -> Job]
    BY <1>0, <1>1, <1>3 DEF RequeueStale
  <2> QED
    BY <1>3, <2>1 DEF TypeOK, RequeueStale, outcomeVars, endVars
<1> QED
  BY <1>2, <1>3

-----------------------------------------------------------------------------
(* What the actions may change, by field.                                  *)

\* What an update of a generation row leaves alone.
LEMMA GenerationFields ==
  ASSUME NEW r \in Generation, NEW status, NEW task, NEW b
  PROVE  /\ LET s == [r EXCEPT !.status = status, !.expired = b]
            IN  /\ s.version = r.version /\ s.task = r.task
                /\ s.asset = r.asset /\ s.status = status
         /\ LET s == [r EXCEPT !.task = task]
            IN  /\ s.version = r.version /\ s.task = task
                /\ s.asset = r.asset /\ s.status = r.status
         /\ LET s == [r EXCEPT !.task = task, !.status = status]
            IN  /\ s.version = r.version /\ s.task = task
                /\ s.asset = r.asset /\ s.status = status
         /\ LET s == [r EXCEPT !.task = task, !.status = status, !.expired = FALSE]
            IN  /\ s.version = r.version /\ s.task = task
                /\ s.asset = r.asset /\ s.status = status
         /\ LET s == [r EXCEPT !.status = status, !.url = b, !.expired = FALSE]
            IN  /\ s.version = r.version /\ s.task = r.task
                /\ s.asset = r.asset /\ s.status = status
         /\ LET s == [r EXCEPT !.asset = TRUE, !.url = TRUE]
            IN  /\ s.version = r.version /\ s.task = r.task
                /\ s.asset = TRUE /\ s.status = r.status
         /\ LET s == [r EXCEPT !.aged = TRUE]
            IN  /\ s.version = r.version /\ s.task = r.task
                /\ s.asset = r.asset /\ s.status = r.status
BY DEF Generation

\* What parking a job changes.
LEMMA ParkedFields ==
  ASSUME TypeOK, NEW g \in Generations, NEW status
  PROVE  /\ Parked(g, status).status = status
         /\ Parked(g, status).attempts = job[g].attempts
<1>1. job[g] \in Job
  BY DEF TypeOK
<1> QED
  BY <1>1 DEF Parked, Job

\* An action keeps the version and the stored result of a generation, and the
\* attempts of its job.
Kept(g) ==
  /\ gen'[g].version = gen[g].version
  /\ gen'[g].asset = gen[g].asset
  /\ job'[g].attempts = job[g].attempts

\* A step of dispatchJob touches its own rows only, and only while it owns them.
LEMMA StepRows ==
  ASSUME TypeOK, NEW e \in execs, Step(e) \/ Heartbeat(e) \/ Crash(e),
         NEW g \in Generations
  PROVE  /\ Kept(g)
         /\ \/ gen'[g] = gen[g]
            \/ job[g].status = "dispatching" /\ g = e.gen
         /\ \/ gen'[g].task = gen[g].task
            \/ Commit(e) /\ g = e.gen /\ gen'[g].task = e.attempt
         /\ gen'[g].status = "cancelled" => gen[g].status = "cancelled"
         /\ \/ job'[g].status = job[g].status
            \/ /\ job[g].status = "dispatching"
               /\ job'[g].status = "dispatched"
                    => Commit(e) /\ g = e.gen /\ gen'[g].task = e.attempt
<1>0. /\ e.gen \in Generations /\ gen[g] \in Generation /\ job[g] \in Job
      /\ e.attempt \in Tasks
  BY DEF TypeOK, Exec
<1>1. CASE gen' = gen /\ job' = job
  BY <1>1 DEF Kept
<1>2. CASE Heartbeat(e)
  <2>1. job'[g] = job[g] \/ job'[g] = [job[g] EXCEPT !.stale = FALSE]
    BY <1>0, <1>2 DEF Heartbeat, TypeOK
  <2>2. job'[g].status = job[g].status /\ job'[g].attempts = job[g].attempts
    BY <1>0, <2>1 DEF Job
  <2> QED
    BY <1>2, <2>2 DEF Heartbeat, Kept
<1>3. CASE Commit(e) /\ Owns(e)
  <2>1. CASE g # e.gen
    <3>1. gen'[g] = gen[g] /\ job'[g] = job[g]
      BY <1>0, <1>3, <2>1 DEF Commit, TypeOK
    <3> QED
      BY <3>1 DEF Kept
  <2>2. CASE g = e.gen /\ gen[g].status \in Open
    <3>1. /\ gen'[g] = [gen[g] EXCEPT !.task = e.attempt, !.status = "waiting",
                                      !.expired = FALSE]
          /\ job'[g] = Parked(g, "dispatched")
      BY <1>3, <2>2 DEF Commit, TypeOK
    <3>2. /\ Kept(g) /\ gen'[g].task = e.attempt /\ gen'[g].status = "waiting"
      BY <1>0, <3>1, GenerationFields, ParkedFields DEF Kept
    <3> QED
      BY <1>3, <2>2, <3>2 DEF Owns
  <2>3. CASE g = e.gen /\ gen[g].status \notin Open
    <3>1. /\ gen'[g] = gen[g] \/ gen'[g] = [gen[g] EXCEPT !.task = e.attempt]
          /\ job'[g] = Parked(g, "failed")
      <4>1. gen'[g] = [gen[g] EXCEPT !.task = IF @ = NoTask THEN e.attempt ELSE @]
        BY <1>3, <2>3 DEF Commit, TypeOK
      <4>2. gen'[g] = gen[g] \/ gen'[g] = [gen[g] EXCEPT !.task = e.attempt]
        BY <1>0, <4>1 DEF Generation
      <4> QED
        BY <1>3, <2>3, <4>2 DEF Commit, TypeOK
    <3>2. /\ gen'[g].version = gen[g].version /\ gen'[g].asset = gen[g].asset
          /\ gen'[g].status = gen[g].status
          /\ gen'[g].task \in {gen[g].task, e.attempt}
      <4>1. CASE gen'[g] = gen[g]
        BY <4>1
      <4>2. CASE gen'[g] = [gen[g] EXCEPT !.task = e.attempt]
        BY <1>0, <4>2, GenerationFields
      <4> QED
        BY <3>1, <4>1, <4>2
    <3>3. job'[g].status = "failed" /\ job'[g].attempts = job[g].attempts
      BY <1>0, <3>1, ParkedFields
    <3> QED
      BY <1>3, <2>3, <3>2, <3>3 DEF Owns, Kept
  <2> QED
    BY <2>1, <2>2, <2>3
<1>4. CASE (Requeue(e) \/ Reconcile(e) \/ FailJob(e)) /\ Owns(e)
  <2>1. CASE g # e.gen
    <3>1. gen'[g] = gen[g] /\ job'[g] = job[g]
      BY <1>0, <1>4, <2>1 DEF Requeue, Reconcile, FailJob, TypeOK
    <3> QED
      BY <3>1 DEF Kept
  <2>2. CASE g = e.gen
    <3>1. PICK status \in {"queued", "reconciling", "failed"} :
            /\ \/ gen'[g] = gen[g]
               \/ gen'[g] = [gen[g] EXCEPT !.status = status, !.expired = FALSE]
            /\ job'[g] = Parked(g, status)
      BY <1>4, <2>2 DEF Requeue, Reconcile, FailJob, TypeOK
    <3>2. /\ gen'[g].version = gen[g].version /\ gen'[g].asset = gen[g].asset
          /\ gen'[g].task = gen[g].task
          /\ gen'[g].status \in {gen[g].status, status}
      <4>1. CASE gen'[g] = gen[g]
        BY <4>1
      <4>2. CASE gen'[g] = [gen[g] EXCEPT !.status = status, !.expired = FALSE]
        BY <1>0, <4>2, GenerationFields
      <4> QED
        BY <3>1, <4>1, <4>2
    <3>3. job'[g].status = status /\ job'[g].attempts = job[g].attempts
      BY <1>0, <3>1, ParkedFields
    <3> QED
      BY <1>4, <2>2, <3>2, <3>3 DEF Owns, Kept
  <2> QED
    BY <2>1, <2>2
<1>5. \/ gen' = gen /\ job' = job
      \/ Heartbeat(e)
      \/ (Commit(e) \/ Requeue(e) \/ Reconcile(e) \/ FailJob(e)) /\ Owns(e)
  BY DEF Step, Prepare, Mark, Submit, Answered, Record, Commit,
         CatchBroken, CatchRefused, Requeue, Reconcile, FailJob, Refund, Crash
<1> QED
  BY <1>1, <1>2, <1>3, <1>4, <1>5

\* A finalization touches no job, and stores a result only by persisting it.
LEMMA FinalizeRows ==
  ASSUME TypeOK, NEW c \in calls, Finalize(c) \/ CallFails(c),
         NEW g \in Generations
  PROVE  /\ job' = job
         /\ gen'[g].version = gen[g].version /\ gen'[g].task = gen[g].task
         /\ \/ gen'[g].asset = gen[g].asset
            \/ Persist(c) /\ g = c.gen /\ gen'[g].asset
         /\ gen[g].status = "cancelled" <=> gen'[g].status = "cancelled"
<1>0. c.gen \in Generations /\ gen[g] \in Generation
  BY DEF TypeOK, Call
<1>1. CASE gen' = gen /\ job' = job
  BY <1>1
<1>2. CASE Accept(c) /\ ~ Ignored(c)
  <2>0. /\ job' = job
        /\ gen' = [gen EXCEPT ![c.gen].status = StatusOf(c.outcome),
                              ![c.gen].url = @ \/ c.url,
                              ![c.gen].expired = FALSE]
    BY <1>2 DEF Accept
  <2>1. CASE g # c.gen
    <3>1. gen'[g] = gen[g]
      BY <1>0, <2>0, <2>1 DEF TypeOK
    <3> QED
      BY <2>0, <3>1
  <2>2. CASE g = c.gen
    <3>1. StatusOf(c.outcome) # "cancelled"
      BY DEF StatusOf
    <3>2. gen[g].status # "cancelled"
      BY <1>2, <2>2 DEF Ignored, Late, Failures
    <3>3. gen'[g] = [gen[g] EXCEPT !.status = StatusOf(c.outcome),
                                   !.url = gen[g].url \/ c.url,
                                   !.expired = FALSE]
      BY <1>0, <2>0, <2>2 DEF TypeOK
    <3>4. /\ gen'[g].version = gen[g].version /\ gen'[g].task = gen[g].task
          /\ gen'[g].asset = gen[g].asset
          /\ gen'[g].status = StatusOf(c.outcome)
      BY <1>0, <3>3, GenerationFields
    <3> QED
      BY <2>0, <3>1, <3>2, <3>4
  <2> QED
    BY <2>1, <2>2
<1>3. CASE Persist(c)
  <2>1. job' = job
    BY <1>3 DEF Persist
  <2>2. CASE g # c.gen
    <3>1. gen'[g] = gen[g]
      BY <1>0, <1>3, <2>2 DEF Persist, TypeOK
    <3> QED
      BY <2>1, <3>1
  <2>3. CASE g = c.gen
    <3>1. gen'[g] = [gen[g] EXCEPT !.asset = TRUE, !.url = TRUE]
      BY <1>0, <1>3, <2>3 DEF Persist, TypeOK
    <3>2. /\ gen'[g].version = gen[g].version /\ gen'[g].task = gen[g].task
          /\ gen'[g].asset /\ gen'[g].status = gen[g].status
      BY <1>0, <3>1, GenerationFields
    <3> QED
      BY <1>3, <2>1, <2>3, <3>2
  <2> QED
    BY <2>2, <2>3
<1> QED
  BY <1>1, <1>2, <1>3 DEF Finalize, Accept, ReleaseFailed, SettleDelivered,
                          CallFails

\* What a timeout or a cancellation has found stays so while it holds the row: the
\* generation may still be ended, and its submission is not uncertain, unless it
\* was marked in the meantime.
EndingHeld ==
  \A g \in Generations :
    /\ ending[g] = "expire" => MayExpire(g)
    /\ ending[g] \in {"cancel", "charge"} => MayCancel(g)
    /\ ending[g] # "no" => g \in overlooked \/ ~ Uncertain(g)

\* Of a row that is held only the age changes, until the transaction ends.
LEMMA HeldRows ==
  ASSUME TypeOK, Next, NEW g \in Generations, ~ Free(g)
  PROVE  \/ gen'[g] = gen[g]
         \/ gen'[g] = [gen[g] EXCEPT !.aged = TRUE]
         \/ ending'[g] = "no"
<1>1. ASSUME NEW e \in execs, Step(e) \/ Heartbeat(e) \/ Crash(e)
      PROVE  gen'[g] = gen[g]
  <2>1. e.gen \in Generations
    BY DEF TypeOK, Exec
  <2>2. CASE gen' = gen
    BY <2>2
  <2>3. CASE /\ Commit(e) \/ Requeue(e) \/ Reconcile(e) \/ FailJob(e)
             /\ gen' # gen
    <3>1. Owns(e)
      BY <2>3 DEF Commit, Requeue, Reconcile, FailJob
    <3>2. e.gen # g
      BY <2>3, <3>1 DEF Commit, Requeue, Reconcile, FailJob
    <3> QED
      BY <2>1, <2>3, <3>1, <3>2 DEF Commit, Requeue, Reconcile, FailJob, TypeOK
  <2>4. gen' = gen \/ Commit(e) \/ Requeue(e) \/ Reconcile(e) \/ FailJob(e)
    BY <1>1 DEF Step, Prepare, Mark, Submit, Answered, Record, CatchBroken,
                CatchRefused, Refund, Heartbeat, Crash
  <2> QED
    BY <2>2, <2>3, <2>4
<1>2. ASSUME NEW c \in calls, Finalize(c) \/ CallFails(c)
      PROVE  gen'[g] = gen[g]
  <2>1. CASE gen' = gen
    BY <2>1
  <2>2. CASE Accept(c) /\ gen' # gen
    BY <2>2 DEF Accept, TypeOK
  <2>3. CASE Persist(c)
    BY <2>3 DEF Persist, TypeOK
  <2> QED
    BY <1>2, <2>1, <2>2, <2>3 DEF Finalize, ReleaseFailed, SettleDelivered, CallFails
<1>3. ASSUME NEW h \in Generations, GenerationStep(h)
      PROVE  \/ gen'[g] = gen[g]
             \/ gen'[g] = [gen[g] EXCEPT !.aged = TRUE]
             \/ ending'[g] = "no"
  <2>1. CASE gen' = gen
    BY <2>1
  <2>2. CASE Age(h)
    BY <2>2 DEF Age, TypeOK
  <2>3. CASE Expire(h) \/ Cancel(h)
    BY <2>3 DEF Expire, Cancel, EndedAs, TypeOK
  <2>4. ASSUME NEW t \in Tasks, Notify(h, t), gen' # gen
        PROVE  gen'[g] = gen[g]
    BY <2>4 DEF Notify, TypeOK
  <2> QED
    BY <1>3, <2>1, <2>2, <2>3, <2>4
    DEF GenerationStep, Claim, Stall, Poll, PollDelivered, BeginExpire, BeginCancel,
        Finish
<1>4. CASE RecoverReceipts \/ RequeueStale
  BY <1>4 DEF RecoverReceipts, Recover, RequeueStale
<1> QED
  BY <1>1, <1>2, <1>3, <1>4 DEF Next, GenerationStep

\* Its receipt becomes uncertain only by a mark, which is remembered.
LEMMA HeldReceipt ==
  ASSUME TypeOK, Next, NEW g \in Generations, ~ Free(g)
  PROVE  /\ overlooked \subseteq overlooked'
         /\ Uncertain(g)' => Uncertain(g) \/ g \in overlooked'
<1>0. receipt[g] \in Receipt
  BY DEF TypeOK
<1>1. CASE receipt' = receipt /\ overlooked' = overlooked
  BY <1>1 DEF Uncertain
<1>2. ASSUME NEW e \in execs, Mark(e)
      PROVE  /\ overlooked \subseteq overlooked'
             /\ receipt'[g] = receipt[g] \/ g \in overlooked'
  BY <1>2 DEF Mark, TypeOK
<1>3. ASSUME NEW e \in execs, CatchRefused(e) \/ Record(e)
      PROVE  overlooked' = overlooked /\ (Uncertain(g)' => Uncertain(g))
  <2>1. e.attempt \in Tasks
    BY DEF TypeOK, Exec
  <2>2. e.attempt # NoTask
    BY <2>1, MaxAttemptsAssumption DEF Tasks, NoTask
  <2>3. \/ receipt'[g] = receipt[g]
        \/ receipt'[g] = [receipt[g] EXCEPT !.submitted = FALSE]
        \/ receipt'[g] = [receipt[g] EXCEPT !.task = e.attempt]
    <3>1. \/ receipt' = receipt
          \/ receipt' = [receipt EXCEPT ![e.gen].submitted = FALSE]
          \/ receipt' = [receipt EXCEPT ![e.gen].task = e.attempt]
      BY <1>3 DEF CatchRefused, Record
    <3> QED
      BY <3>1 DEF TypeOK
  <2>4. \/ receipt'[g] = receipt[g]
        \/ ~ receipt'[g].submitted
        \/ receipt'[g].task # NoTask
    BY <1>0, <2>1, <2>2, <2>3 DEF Receipt
  <2>5. overlooked' = overlooked
    BY <1>3 DEF CatchRefused, Record, endVars
  <2> QED
    BY <2>4, <2>5 DEF Uncertain
<1>4. ASSUME NEW h \in Generations, NEW t \in Tasks, Notify(h, t)
      PROVE  overlooked' = overlooked /\ receipt'[g] = receipt[g]
  BY <1>4 DEF Notify, TypeOK, endVars
<1>5. \/ receipt' = receipt /\ overlooked' = overlooked
      \/ \E e \in execs : Mark(e) \/ CatchRefused(e) \/ Record(e)
      \/ \E h \in Generations, t \in Tasks : Notify(h, t)
  BY DEF Next, Step, Prepare, Submit, Answered, Commit, CatchBroken, Requeue,
         Reconcile, FailJob, Refund, Heartbeat, Crash, Finalize, Accept,
         ReleaseFailed, Persist, SettleDelivered, CallFails, Claim, Stall, Poll,
         PollDelivered, Age, BeginExpire, Expire, BeginCancel, Cancel, EndedAs,
         Finish, RecoverReceipts, Recover, RequeueStale, endVars
<1> QED
  BY <1>1, <1>2, <1>3, <1>4, <1>5 DEF Uncertain

\* A row is taken by a transaction that finds what it needs, and given back.
LEMMA HeldBy ==
  ASSUME TypeOK, Next, NEW g \in Generations
  PROVE  \/ ending'[g] = ending[g]
         \/ BeginExpire(g) /\ ending'[g] = "expire"
         \/ BeginCancel(g) /\ ending'[g] \in {"cancel", "charge"}
         \/ ending'[g] = "no"
<1>1. CASE ending' = ending
  BY <1>1
<1>2. ASSUME NEW h \in Generations, BeginExpire(h) \/ BeginCancel(h)
      PROVE  \/ ending'[g] = ending[g]
             \/ BeginExpire(g) /\ ending'[g] = "expire"
             \/ BeginCancel(g) /\ ending'[g] \in {"cancel", "charge"}
  BY <1>2 DEF BeginExpire, BeginCancel, TypeOK
<1>3. ASSUME NEW h \in Generations, Expire(h) \/ Cancel(h)
      PROVE  ending'[g] = ending[g] \/ ending'[g] = "no"
  BY <1>3 DEF Expire, Cancel, EndedAs, TypeOK
<1>4. \/ ending' = ending
      \/ \E h \in Generations :
           BeginExpire(h) \/ BeginCancel(h) \/ Expire(h) \/ Cancel(h)
  BY DEF Next, Step, Prepare, Mark, Submit, Answered, Record, Commit, CatchBroken,
         CatchRefused, Requeue, Reconcile, FailJob, Refund, Heartbeat, Crash,
         Finalize, Accept, ReleaseFailed, Persist, SettleDelivered, CallFails,
         Claim, Stall, Poll, PollDelivered, Age, Finish, Notify, RecoverReceipts,
         Recover, RequeueStale, endVars
<1> QED
  BY <1>1, <1>2, <1>3, <1>4

\* Every step keeps what the transactions rely on.
LEMMA EndingStep == TypeOK /\ EndingHeld /\ [Next]_vars => EndingHeld'
<1> SUFFICES ASSUME TypeOK, EndingHeld, [Next]_vars, NEW g \in Generations
             PROVE  /\ ending'[g] = "expire" => MayExpire(g)'
                    /\ ending'[g] \in {"cancel", "charge"} => MayCancel(g)'
                    /\ ending'[g] # "no" => g \in overlooked' \/ ~ Uncertain(g)'
  BY DEF EndingHeld
<1>0. /\ ending[g] = "expire" => MayExpire(g)
      /\ ending[g] \in {"cancel", "charge"} => MayCancel(g)
      /\ ending[g] # "no" => g \in overlooked \/ ~ Uncertain(g)
      /\ gen[g] \in Generation
  BY DEF EndingHeld, TypeOK
<1>1. CASE UNCHANGED vars
  BY <1>0, <1>1 DEF vars, MayExpire, MayCancel, Uncertain
<1>2. CASE Next /\ BeginExpire(g) /\ ending'[g] = "expire"
  BY <1>2 DEF BeginExpire, MayExpire, Uncertain
<1>3. CASE Next /\ BeginCancel(g) /\ ending'[g] \in {"cancel", "charge"}
  BY <1>3 DEF BeginCancel, MayCancel, Uncertain
<1>4. CASE Next /\ ending'[g] = ending[g] /\ ~ Free(g) /\ ending'[g] # "no"
  <2>1. gen'[g] = gen[g] \/ gen'[g] = [gen[g] EXCEPT !.aged = TRUE]
    BY <1>4, HeldRows
  <2>2. MayExpire(g) => MayExpire(g)'
    BY <1>0, <2>1 DEF MayExpire, Generation
  <2>3. MayCancel(g) => MayCancel(g)'
    BY <1>0, <2>1 DEF MayCancel, Generation
  <2> QED
    BY <1>0, <1>4, <2>2, <2>3, HeldReceipt
<1>5. CASE ending'[g] = "no"
  BY <1>5
<1> QED
  BY <1>1, <1>2, <1>3, <1>4, <1>5, HeldBy DEF Free

\* The other actions on a generation: only a claim counts an attempt, only a
\* cancellation cancels, and who marks a job dispatched knows its task.
LEMMA GenerationRowsStep ==
  ASSUME TypeOK, EndingHeld, NEW h \in Generations, GenerationStep(h),
         NEW g \in Generations
  PROVE  /\ gen'[g].version = gen[g].version /\ gen'[g].asset = gen[g].asset
         /\ Kept(g) \/ Claim(h)
         /\ \/ gen'[g].task = gen[g].task
            \/ \E t \in Tasks : gen'[g].task = t /\ provider[g][t] # "none"
         /\ \/ gen'[g].status = "cancelled" <=> gen[g].status = "cancelled"
            \/ Cancel(h) /\ g = h
         /\ \/ job'[g].status = job[g].status
            \/ Claim(h) /\ g = h
            \/ /\ job[g].status # "failed" /\ job'[g].status = "failed"
            \/ /\ job[g].status \in {"dispatching", "reconciling"}
               /\ job'[g].status = "dispatched" /\ gen'[g].task # NoTask
<1>0. gen[g] \in Generation /\ job[g] \in Job /\ receipt[g] \in Receipt
  BY DEF TypeOK
<1>1. CASE gen' = gen /\ job' = job
  BY <1>1 DEF Kept
<1>2. CASE Claim(h)
  <2>1. gen' = gen /\ (job'[g] = job[g] \/ g = h)
    BY <1>2 DEF Claim, TypeOK
  <2> QED
    BY <1>2, <2>1
<1>3. CASE Stall(h)
  <2>1. job'[g] = job[g] \/ job'[g] = [job[g] EXCEPT !.stale = TRUE]
    BY <1>3 DEF Stall, TypeOK
  <2>2. job'[g].status = job[g].status /\ job'[g].attempts = job[g].attempts
    BY <1>0, <2>1 DEF Job
  <2> QED
    BY <1>3, <2>2 DEF Stall, Kept
<1>4. CASE Age(h)
  <2>1. gen'[g] = gen[g] \/ gen'[g] = [gen[g] EXCEPT !.aged = TRUE]
    BY <1>4 DEF Age, TypeOK
  <2>2. /\ gen'[g].version = gen[g].version /\ gen'[g].asset = gen[g].asset
        /\ gen'[g].task = gen[g].task /\ gen'[g].status = gen[g].status
    BY <1>0, <2>1 DEF Generation
  <2> QED
    BY <1>4, <2>2 DEF Age, Kept
<1>5. CASE Expire(h) \/ Cancel(h)
  <2>1. CASE g # h
    <3>1. gen'[g] = gen[g] /\ job'[g] = job[g]
      BY <1>5, <2>1 DEF BeginExpire, Expire, BeginCancel, Cancel, EndedAs, TypeOK
    <3> QED
      BY <3>1 DEF Kept
  <2>2. CASE g = h
    <3>1. PICK status \in {"failed", "cancelled"}, b \in BOOLEAN :
            /\ gen'[g] = [gen[g] EXCEPT !.status = status, !.expired = b]
            /\ status = "cancelled" => Cancel(h)
      BY <1>5, <2>2 DEF BeginExpire, Expire, BeginCancel, Cancel, EndedAs, TypeOK
    <3>2. /\ gen'[g].version = gen[g].version /\ gen'[g].asset = gen[g].asset
          /\ gen'[g].task = gen[g].task /\ gen'[g].status = status
      BY <1>0, <3>1, GenerationFields
    <3>3. \/ job'[g] = job[g]
          \/ job[g].status # "failed" /\ job'[g] = Parked(g, "failed")
      BY <1>5, <2>2 DEF BeginExpire, Expire, BeginCancel, Cancel, EndedAs, TypeOK
    <3>4. /\ job'[g].attempts = job[g].attempts
          /\ \/ job'[g].status = job[g].status
             \/ job[g].status # "failed" /\ job'[g].status = "failed"
      BY <3>3, ParkedFields
    <3>5. gen[g].status # "cancelled"
      BY <1>5, <2>2 DEF Expire, Cancel, EndingHeld, MayExpire, MayCancel
    <3> QED
      BY <2>2, <3>1, <3>2, <3>4, <3>5 DEF Kept
  <2> QED
    BY <2>1, <2>2
<1>6. ASSUME NEW t \in Tasks, Notify(h, t)
      PROVE  /\ Kept(g)
             /\ \/ gen'[g].task = gen[g].task
                \/ gen'[g].task = t /\ provider[g][t] # "none"
             /\ gen'[g].status = gen[g].status
             /\ \/ job'[g].status = job[g].status
                \/ /\ job[g].status \in {"dispatching", "reconciling"}
                   /\ job'[g].status = "dispatched" /\ gen'[g].task # NoTask
  <2>1. CASE gen' = gen /\ job' = job
    BY <2>1 DEF Kept
  <2>2. CASE /\ gen' = [gen EXCEPT ![h].task = IF @ = NoTask THEN t ELSE @]
             /\ job' = IF job[h].status \in {"dispatching", "reconciling"}
                       THEN [job EXCEPT ![h] = Parked(h, "dispatched")]
                       ELSE job
    <3>1. CASE g # h
      <4>1. gen'[g] = gen[g] /\ job'[g] = job[g]
        BY <2>2, <3>1 DEF TypeOK
      <4> QED
        BY <4>1 DEF Kept
    <3>2. CASE g = h
      <4>1. provider[g][t] # "none"
        BY <1>6, <3>2 DEF Notify
      <4>2. \/ gen'[g] = gen[g] /\ gen[g].task # NoTask
            \/ gen'[g] = [gen[g] EXCEPT !.task = t]
        <5>1. gen'[g] = [gen[g] EXCEPT !.task = IF @ = NoTask THEN t ELSE @]
          BY <2>2, <3>2 DEF TypeOK
        <5> QED
          BY <1>0, <5>1 DEF Generation
      <4>3. t # NoTask
        BY <1>6, MaxAttemptsAssumption DEF Tasks, NoTask
      <4>4. /\ gen'[g].version = gen[g].version /\ gen'[g].asset = gen[g].asset
            /\ gen'[g].status = gen[g].status /\ gen'[g].task # NoTask
            /\ gen'[g].task \in {gen[g].task, t}
        <5>1. CASE gen'[g] = gen[g] /\ gen[g].task # NoTask
          BY <5>1
        <5>2. CASE gen'[g] = [gen[g] EXCEPT !.task = t]
          BY <1>0, <4>3, <5>2, GenerationFields
        <5> QED
          BY <4>2, <5>1, <5>2
      <4>5. \/ job'[g] = job[g]
            \/ /\ job[g].status \in {"dispatching", "reconciling"}
               /\ job'[g] = Parked(g, "dispatched")
        BY <2>2, <3>2 DEF TypeOK
      <4>6. /\ job'[g].attempts = job[g].attempts
            /\ \/ job'[g].status = job[g].status
               \/ /\ job[g].status \in {"dispatching", "reconciling"}
                  /\ job'[g].status = "dispatched"
        BY <4>5, ParkedFields
      <4> QED
        BY <4>1, <4>4, <4>6 DEF Kept
    <3> QED
      BY <3>1, <3>2
  <2> QED
    BY <1>6, <2>1, <2>2 DEF Notify
<1>7. CASE \E t \in Tasks : Notify(h, t)
  BY <1>6, <1>7 DEF Kept
<1>8. \/ Claim(h) \/ Stall(h) \/ Age(h) \/ Expire(h) \/ Cancel(h)
      \/ gen' = gen /\ job' = job
      \/ \E t \in Tasks : Notify(h, t)
  BY DEF GenerationStep, Poll, PollDelivered, Finish, BeginExpire, BeginCancel
<1> QED
  BY <1>1, <1>2, <1>3, <1>4, <1>5, <1>7, <1>8

\* The recovery binds tasks of receipts, and cancels nothing.
LEMMA DrainRows ==
  ASSUME TypeOK, RecoverReceipts \/ RequeueStale, NEW g \in Generations
  PROVE  /\ Kept(g)
         /\ \/ gen'[g].task = gen[g].task
            \/ gen'[g].task = receipt[g].task /\ receipt[g].task # NoTask
         /\ gen'[g].status = "cancelled" <=> gen[g].status = "cancelled"
         /\ \/ job'[g].status = job[g].status
            \/ /\ job[g].status \in {"dispatching", "reconciling"}
               /\ \/ /\ job'[g].status \in {"reconciling", "dispatched"}
                     /\ job'[g].status = "dispatched" => receipt[g].task # NoTask
                  \/ /\ job'[g].status = "queued"
                     /\ job[g].status = "dispatching"
<1>0. gen[g] \in Generation /\ job[g] \in Job /\ receipt[g] \in Receipt
  BY DEF TypeOK
<1>1. CASE RequeueStale
  <2>1. /\ gen'[g] = gen[g]
        /\ \/ job'[g] = job[g]
           \/ job[g].status = "dispatching" /\ job'[g] = Parked(g, "queued")
    BY <1>1 DEF RequeueStale
  <2> QED
    BY <2>1, ParkedFields DEF Kept
<1>2. CASE RecoverReceipts
  <2>1. \/ gen'[g] = gen[g]
        \/ /\ receipt[g].task # NoTask
           /\ gen'[g] = [gen[g] EXCEPT !.task = receipt[g].task,
                           !.status = IF @ = "reconciling" THEN "waiting" ELSE @]
        \/ /\ receipt[g].task = NoTask /\ gen[g].status # "cancelled"
           /\ gen'[g] = [gen[g] EXCEPT !.status = "reconciling",
                                       !.expired = FALSE]
    BY <1>2 DEF RecoverReceipts, Recover, Known
  <2>2. /\ gen'[g].version = gen[g].version /\ gen'[g].asset = gen[g].asset
        /\ \/ gen'[g].task = gen[g].task
           \/ gen'[g].task = receipt[g].task /\ receipt[g].task # NoTask
        /\ gen'[g].status = "cancelled" <=> gen[g].status = "cancelled"
    <3>1. CASE gen'[g] = gen[g]
      BY <3>1
    <3>2. CASE /\ receipt[g].task # NoTask
               /\ gen'[g] = [gen[g] EXCEPT !.task = receipt[g].task,
                           !.status = IF @ = "reconciling" THEN "waiting" ELSE @]
      <4>1. PICK status :
              /\ gen'[g] = [gen[g] EXCEPT !.task = receipt[g].task,
                                          !.status = status]
              /\ status = "cancelled" <=> gen[g].status = "cancelled"
        <5>1. CASE gen[g].status = "reconciling"
          BY <1>0, <3>2, <5>1 DEF Generation
        <5>2. CASE gen[g].status # "reconciling"
          BY <1>0, <3>2, <5>2 DEF Generation
        <5> QED
          BY <5>1, <5>2
      <4> QED
        BY <1>0, <3>2, <4>1, GenerationFields
    <3>3. CASE /\ receipt[g].task = NoTask /\ gen[g].status # "cancelled"
               /\ gen'[g] = [gen[g] EXCEPT !.status = "reconciling",
                                           !.expired = FALSE]
      BY <1>0, <3>3, GenerationFields
    <3> QED
      BY <2>1, <3>1, <3>2, <3>3
  <2>3. \/ job'[g] = job[g]
        \/ /\ job[g].status \in {"dispatching", "reconciling"}
           /\ \/ job'[g] = Parked(g, "dispatched") /\ receipt[g].task # NoTask
              \/ job'[g] = Parked(g, "reconciling")
    BY <1>2 DEF RecoverReceipts, Recover, Known
  <2>4. /\ job'[g].attempts = job[g].attempts
        /\ \/ job'[g].status = job[g].status
           \/ /\ job[g].status \in {"dispatching", "reconciling"}
              /\ \/ job'[g].status = "dispatched" /\ receipt[g].task # NoTask
                 \/ job'[g].status = "reconciling"
    BY <2>3, ParkedFields
  <2> QED
    BY <2>2, <2>4 DEF Kept
<1> QED
  BY <1>1, <1>2

-----------------------------------------------------------------------------
(* Tasks the provider accepted.                                            *)

\* An accepted task stays accepted, and a step of dispatchJob makes no other
\* one accepted than its own.
LEMMA StepProvider ==
  ASSUME TypeOK, NEW e \in execs, Step(e) \/ Heartbeat(e) \/ Crash(e),
         NEW g \in Generations, NEW t \in Tasks
  PROVE  \/ provider'[g][t] = provider[g][t]
         \/ /\ Answered(e) /\ g = e.gen /\ t = e.attempt
            /\ provider'[g][t] # "none"
<1>1. CASE Answered(e)
  BY <1>1 DEF Answered, TypeOK
<1>2. CASE ~ Answered(e)
  BY <1>2
  DEF Step, Prepare, Mark, Submit, Record, Commit, CatchBroken,
      CatchRefused, Requeue, Reconcile, FailJob, Refund, Heartbeat, Crash
<1> QED
  BY <1>1, <1>2

\* An executor after a step of another or of its own.
LEMMA StepExecs ==
  ASSUME TypeOK, NEW e \in execs, Step(e) \/ Heartbeat(e) \/ Crash(e)
  PROVE  execs' \subseteq execs \/ \E stage \in Stage : Moved(e, stage)
<1>1. CASE Ended(e) \/ execs' = execs
  BY <1>1 DEF Ended
<1>2. CASE ~ (Ended(e) \/ execs' = execs)
  BY <1>2
  DEF Step, Prepare, Mark, Submit, Answered, Record, Commit,
      CatchBroken, CatchRefused, Requeue, Reconcile, FailJob, Refund, Heartbeat,
      Crash, Stage, Working
<1> QED
  BY <1>1, <1>2

\* The executor that moved is the only new one.
LEMMA MovedExec ==
  ASSUME TypeOK, NEW e \in execs, NEW stage, Moved(e, stage), NEW f \in execs'
  PROVE  \/ f \in execs \ {e}
         \/ f.gen = e.gen /\ f.attempt = e.attempt /\ f.stage = stage
<1>1. e \in Exec
  BY DEF TypeOK
<1> QED
  BY <1>1 DEF Moved, Exec

\* What a step of dispatchJob does to receipts: it marks, clears or binds its
\* own.
LEMMA StepReceipts ==
  ASSUME TypeOK, NEW e \in execs, Step(e) \/ Heartbeat(e) \/ Crash(e),
         NEW g \in Generations
  PROVE  /\ \/ receipt'[g].task = receipt[g].task
            \/ Record(e) /\ g = e.gen /\ receipt'[g].task = e.attempt
         /\ \/ receipt'[g].submitted = receipt[g].submitted
            \/ (Mark(e) \/ CatchRefused(e)) /\ g = e.gen
<1>0. e.gen \in Generations /\ receipt[g] \in Receipt
  BY DEF TypeOK, Exec
<1>1. CASE Mark(e) \/ CatchRefused(e)
  <2>1. \/ receipt' = receipt
        \/ receipt' = [receipt EXCEPT ![e.gen].submitted = TRUE]
        \/ receipt' = [receipt EXCEPT ![e.gen].submitted = FALSE]
    BY <1>1 DEF Mark, CatchRefused
  <2>2. \/ receipt'[g] = receipt[g]
        \/ /\ g = e.gen
           /\ \/ receipt'[g] = [receipt[g] EXCEPT !.submitted = TRUE]
              \/ receipt'[g] = [receipt[g] EXCEPT !.submitted = FALSE]
    BY <1>0, <2>1 DEF TypeOK
  <2>3. receipt'[g].task = receipt[g].task /\ (receipt'[g] = receipt[g] \/ g = e.gen)
    BY <1>0, <2>2 DEF Receipt
  <2> QED
    BY <1>1, <2>3
<1>2. CASE Record(e)
  <2>1. \/ receipt'[g] = receipt[g]
        \/ g = e.gen /\ receipt'[g] = [receipt[g] EXCEPT !.task = e.attempt]
    BY <1>0, <1>2 DEF Record, TypeOK
  <2>2. /\ receipt'[g].submitted = receipt[g].submitted
        /\ \/ receipt'[g].task = receipt[g].task
           \/ g = e.gen /\ receipt'[g].task = e.attempt
    BY <1>0, <2>1 DEF Receipt
  <2> QED
    BY <1>2, <2>2
<1>3. CASE receipt' = receipt
  BY <1>3
<1>4. \/ Mark(e) \/ CatchRefused(e) \/ Record(e) \/ receipt' = receipt
  BY DEF Step, Prepare, Submit, Answered, Commit, CatchBroken,
         Requeue, Reconcile, FailJob, Refund, Heartbeat, Crash
<1> QED
  BY <1>1, <1>2, <1>3, <1>4

\* dispatchJob names no task the provider has not accepted.
LEMMA StepAccepted ==
  ASSUME TypeOK, TasksAccepted, NEW e \in execs,
         Step(e) \/ Heartbeat(e) \/ Crash(e)
  PROVE  TasksAccepted'
<1>0. e \in Exec /\ e.gen \in Generations /\ e.attempt \in Tasks
  BY DEF TypeOK, Exec
<1>1. \A g \in Generations, t \in Tasks :
        provider[g][t] # "none" => provider'[g][t] # "none"
  BY StepProvider
<1>2. (Commit(e) \/ Record(e)) => provider[e.gen][e.attempt] # "none"
  BY DEF Commit, Record, TasksAccepted
<1>3. ASSUME NEW g \in Generations
      PROVE  /\ gen'[g].task # NoTask => provider'[g][gen'[g].task] # "none"
             /\ receipt'[g].task # NoTask => provider'[g][receipt'[g].task] # "none"
  <2>1. /\ gen[g].task # NoTask => provider[g][gen[g].task] # "none"
        /\ receipt[g].task # NoTask => provider[g][receipt[g].task] # "none"
    BY <1>3 DEF TasksAccepted
  <2>2. gen[g].task \in Tasks \cup {NoTask} /\ receipt[g].task \in Tasks \cup {NoTask}
    BY <1>3 DEF TypeOK, Generation, Receipt
  <2>3. \/ gen'[g].task = gen[g].task
        \/ Commit(e) /\ g = e.gen /\ gen'[g].task = e.attempt
    BY <1>3, StepRows
  <2>4. \/ receipt'[g].task = receipt[g].task
        \/ Record(e) /\ g = e.gen /\ receipt'[g].task = e.attempt
    BY <1>3, StepReceipts
  <2> QED
    BY <1>0, <1>1, <1>2, <1>3, <2>1, <2>2, <2>3, <2>4
<1>4. ASSUME NEW f \in execs', f.stage \in {"answered", "recorded"}
      PROVE  provider'[f.gen][f.attempt] # "none"
  <2>1. CASE f \in execs
    <3>1. provider[f.gen][f.attempt] # "none"
      BY <1>4, <2>1 DEF TasksAccepted
    <3>2. f.gen \in Generations /\ f.attempt \in Tasks
      BY <2>1 DEF TypeOK, Exec
    <3> QED
      BY <1>1, <3>1, <3>2
  <2>2. CASE f \notin execs
    <3>1. PICK stage \in Stage : Moved(e, stage)
      BY <1>4, <2>2, StepExecs
    <3>2. f.gen = e.gen /\ f.attempt = e.attempt /\ f.stage = stage
      BY <1>4, <2>2, <3>1, MovedExec
    <3>3. Answered(e) \/ Record(e)
      BY <1>0, <1>4, <2>2, <3>2
      DEF Step, Prepare, Mark, Submit, Commit, CatchBroken,
          CatchRefused, Requeue, Reconcile, FailJob, Refund, Heartbeat, Crash,
          Moved, Ended, Exec
    <3>4. CASE Answered(e)
      BY <1>0, <3>2, <3>4 DEF Answered, TypeOK
    <3>5. CASE Record(e)
      BY <1>0, <1>1, <1>2, <3>2, <3>5
    <3> QED
      BY <3>3, <3>4, <3>5
  <2> QED
    BY <2>1, <2>2
<1> QED
  BY <1>3, <1>4 DEF TasksAccepted

\* A finalization leaves the provider, the receipts and the executors alone.
LEMMA CallAccepted ==
  ASSUME TypeOK, TasksAccepted, NEW c \in calls, Finalize(c) \/ CallFails(c)
  PROVE  TasksAccepted'
<1>1. UNCHANGED <<provider, receipt, execs>>
  BY DEF Finalize, Accept, ReleaseFailed, Persist, SettleDelivered, CallFails
<1>2. \A g \in Generations : gen'[g].task = gen[g].task
  BY FinalizeRows
<1> QED
  BY <1>1, <1>2 DEF TasksAccepted

\* Of a generation's other actions only Finish touches the provider, and it
\* ends a task that was accepted.
LEMMA GenerationProvider ==
  ASSUME TypeOK, NEW h \in Generations, GenerationStep(h),
         NEW g \in Generations, NEW t \in Tasks
  PROVE  provider'[g][t] = "none" <=> provider[g][t] = "none"
<1>1. CASE \E u \in Tasks : Finish(h, u)
  <2>1. PICK u \in Tasks, outcome \in Outcome :
          /\ provider[h][u] = "running"
          /\ provider' = [provider EXCEPT ![h][u] = outcome]
    BY <1>1 DEF Finish
  <2>2. "none" \notin Outcome
    BY DEF Outcome
  <2> QED
    BY <2>1, <2>2 DEF TypeOK
<1>2. CASE ~ \E u \in Tasks : Finish(h, u)
  <2>1. provider' = provider
    BY <1>2 DEF GenerationStep, Claim, Stall, Poll, PollDelivered, Age,
       BeginExpire, Expire,
                BeginCancel, Cancel, EndedAs, Notify
  <2> QED
    BY <2>1
<1> QED
  BY <1>1, <1>2

\* Only a claim starts an executor.
LEMMA GenerationExecs ==
  ASSUME NEW h \in Generations, GenerationStep(h)
  PROVE  execs' = execs \/ Claim(h)
BY DEF GenerationStep, Stall, Poll, PollDelivered, Age, BeginExpire, Expire,
   BeginCancel, Cancel, EndedAs, Finish,
       Notify

\* Callbacks and polls name no other tasks.
LEMMA GenerationAccepted ==
  ASSUME TypeOK, EndingHeld, TasksAccepted, NEW h \in Generations, GenerationStep(h)
  PROVE  TasksAccepted'
<1>1. \A g \in Generations, t \in Tasks :
        provider'[g][t] = "none" <=> provider[g][t] = "none"
  BY GenerationProvider
<1>2. ASSUME NEW g \in Generations
      PROVE  /\ gen'[g].task # NoTask => provider'[g][gen'[g].task] # "none"
             /\ receipt'[g].task # NoTask => provider'[g][receipt'[g].task] # "none"
  <2>1. /\ gen[g].task # NoTask => provider[g][gen[g].task] # "none"
        /\ receipt[g].task # NoTask => provider[g][receipt[g].task] # "none"
    BY <1>2 DEF TasksAccepted
  <2>2. gen[g].task \in Tasks \cup {NoTask} /\ receipt[g].task \in Tasks \cup {NoTask}
    BY <1>2 DEF TypeOK, Generation, Receipt
  <2>3. \/ gen'[g].task = gen[g].task
        \/ \E t \in Tasks : gen'[g].task = t /\ provider[g][t] # "none"
    BY <1>2, GenerationRowsStep
  <2>4. \/ receipt'[g].task = receipt[g].task
        \/ \E t \in Tasks : receipt'[g].task = t /\ provider[g][t] # "none"
    <3>1. CASE receipt' = receipt
      BY <3>1
    <3>2. ASSUME NEW t \in Tasks, Notify(h, t), receipt' # receipt
          PROVE  \/ receipt'[g].task = receipt[g].task
                 \/ receipt'[g].task = t /\ provider[g][t] # "none"
      <4>1. /\ receipt' = [receipt EXCEPT ![h].task = t]
            /\ provider[h][t] # "none"
        BY <3>2 DEF Notify
      <4>2. \/ receipt'[g] = receipt[g]
            \/ g = h /\ receipt'[g] = [receipt[g] EXCEPT !.task = t]
        BY <1>2, <4>1 DEF TypeOK
      <4>3. receipt[g] \in Receipt
        BY <1>2 DEF TypeOK
      <4> QED
        BY <4>1, <4>2, <4>3 DEF Receipt
    <3>3. CASE receipt' # receipt
      <4>1. \E t \in Tasks : Notify(h, t)
        BY <3>3 DEF GenerationStep, Claim, Stall, Poll, PollDelivered, Age,
                    BeginExpire, Expire, BeginCancel, Cancel, EndedAs, Finish
      <4> QED
        BY <3>2, <3>3, <4>1
    <3> QED
      BY <3>1, <3>3
  <2> QED
    BY <1>1, <1>2, <2>1, <2>2, <2>3, <2>4
<1>3. ASSUME NEW f \in execs', f.stage \in {"answered", "recorded"}
      PROVE  provider'[f.gen][f.attempt] # "none"
  <2>1. f \in execs
    <3>1. execs' = execs \/ Claim(h)
      BY GenerationExecs
    <3>2. CASE Claim(h)
      BY <1>3, <3>2 DEF Claim
    <3> QED
      BY <1>3, <3>1, <3>2
  <2>2. f.gen \in Generations /\ f.attempt \in Tasks
    BY <2>1 DEF TypeOK, Exec
  <2>3. provider[f.gen][f.attempt] # "none"
    BY <1>3, <2>1 DEF TasksAccepted
  <2> QED
    BY <1>1, <2>2, <2>3
<1> QED
  BY <1>2, <1>3 DEF TasksAccepted

\* The recovery copies the receipt's task.
LEMMA DrainAccepted ==
  ASSUME TypeOK, TasksAccepted, RecoverReceipts \/ RequeueStale
  PROVE  TasksAccepted'
<1>1. UNCHANGED <<provider, receipt, execs>>
  BY DEF RecoverReceipts, Recover, RequeueStale
<1>2. \A g \in Generations :
        \/ gen'[g].task = gen[g].task
        \/ gen'[g].task = receipt[g].task /\ receipt[g].task # NoTask
  BY DrainRows
<1> QED
  BY <1>1, <1>2 DEF TasksAccepted

-----------------------------------------------------------------------------
(* The well-formed states.                                                 *)

\* The type invariant and what makes it inductive.
TypeInv == TypeOK /\ TasksAccepted /\ EndingHeld

\* The actions, by the part of the code they belong to.
LEMMA NextCases ==
  ASSUME Next
  PROVE  \/ \E e \in execs : Step(e) \/ Heartbeat(e) \/ Crash(e)
         \/ \E c \in calls : Finalize(c) \/ CallFails(c)
         \/ \E g \in Generations : GenerationStep(g)
         \/ RecoverReceipts \/ RequeueStale
BY DEF Next, GenerationStep

\* The admitted generations are well formed.
LEMMA TypeInit == Init => TypeInv
<1> SUFFICES ASSUME Init PROVE TypeInv
  OBVIOUS
<1>1. gen \in [Generations -> Generation]
  BY DEF Init, Generation, Open
<1>2. /\ job \in [Generations -> Job] /\ receipt \in [Generations -> Receipt]
      /\ charge \in [Generations -> {"reserved", "settled", "released"}]
      /\ assets \in [Generations -> Nat]
  BY MaxAttemptsAssumption DEF Init, Job, Receipt
<1>3. provider \in [Generations -> [Tasks -> Outcome \cup {"none"}]]
  BY DEF Init
<1>4. /\ execs = {} /\ calls = {} /\ forgotten = {} /\ overlooked = {}
      /\ \A g \in Generations :
           gen[g].task = NoTask /\ receipt[g].task = NoTask
  BY DEF Init
<1>5. ending \in [Generations -> {"no", "expire", "cancel", "charge"}]
  BY DEF Init
<1>6. EndingHeld
  BY DEF Init, EndingHeld
<1> QED
  BY <1>1, <1>2, <1>3, <1>4, <1>5, <1>6 DEF TypeInv, TypeOK, TasksAccepted

\* Every step keeps the state well formed.
LEMMA TypeStep == TypeInv /\ [Next]_vars => TypeInv'
<1> SUFFICES ASSUME TypeInv, [Next]_vars PROVE TypeInv'
  OBVIOUS
<1>0. EndingHeld'
  BY EndingStep DEF TypeInv
<1>1. CASE UNCHANGED vars
  BY <1>0, <1>1 DEF TypeInv, TypeOK, TasksAccepted, vars
<1>2. CASE Next
  BY <1>0, <1>2, NextCases, StepTypes, StepAccepted, CallTypes, CallAccepted,
     GenerationTypes, GenerationAccepted, DrainTypes, DrainAccepted DEF TypeInv
<1> QED
  BY <1>1, <1>2

\* Hence it always is, whatever the fairness.
LEMMA TypeInvariant == Safe => []TypeInv
<1> QED
  BY TypeInit, TypeStep, PTL DEF Safe

\* Every reachable state is well formed: no row, claim, finalization or task
\* is outside its type, and a poll asks only for tasks the provider knows.
THEOREM TypesCorrect == Spec => []TypeOK
<1>1. TypeInv => TypeOK
  BY DEF TypeInv
<1>2. Spec => Safe
  BY DEF Spec
<1> QED
  BY <1>1, <1>2, TypeInvariant, PTL

-----------------------------------------------------------------------------
(* A dispatched job's task is known.                                       *)

\* A receipt that names a task names one for ever.
LEMMA TaskStays ==
  ASSUME TypeOK, [Next]_vars, NEW g \in Generations, receipt[g].task # NoTask
  PROVE  receipt'[g].task # NoTask
<1>0. \A t \in Tasks : t # NoTask
  BY MaxAttemptsAssumption DEF Tasks, NoTask
<1>1. CASE receipt' = receipt
  BY <1>1
<1>2. ASSUME NEW e \in execs, Step(e) \/ Heartbeat(e) \/ Crash(e)
      PROVE  receipt'[g].task # NoTask
  <2>1. e.attempt \in Tasks
    BY DEF TypeOK, Exec
  <2> QED
    BY <1>0, <1>2, <2>1, StepReceipts
<1>3. ASSUME NEW h \in Generations, NEW t \in Tasks, Notify(h, t)
      PROVE  receipt'[g].task # NoTask
  <2>1. receipt' = receipt \/ receipt' = [receipt EXCEPT ![h].task = t]
    BY <1>3 DEF Notify
  <2>2. receipt'[g] = receipt[g] \/ receipt'[g] = [receipt[g] EXCEPT !.task = t]
    BY <2>1 DEF TypeOK
  <2>3. receipt[g] \in Receipt
    BY DEF TypeOK
  <2> QED
    BY <1>0, <2>2, <2>3 DEF Receipt
<1>4. \/ receipt' = receipt
      \/ \E e \in execs : Step(e) \/ Heartbeat(e) \/ Crash(e)
      \/ \E h \in Generations, t \in Tasks : Notify(h, t)
  BY DEF Next, Finalize, Accept, ReleaseFailed, Persist, SettleDelivered, CallFails,
         Claim, Stall, Poll, PollDelivered, Age, BeginExpire, Expire, BeginCancel,
         Cancel, EndedAs, Finish, RecoverReceipts, Recover, RequeueStale, vars
<1> QED
  BY <1>1, <1>2, <1>3, <1>4

\* And a task that is kept stays kept.
LEMMA TaskKeptStays ==
  ASSUME TypeInv, Next, NEW g \in Generations, TaskKept(g)
  PROVE  TaskKept(g)'
<1>0. /\ TypeOK /\ EndingHeld
      /\ \A t \in Tasks : t # NoTask
  BY MaxAttemptsAssumption DEF TypeInv, Tasks, NoTask
<1>1. CASE receipt[g].task # NoTask
  BY <1>0, <1>1, TaskStays DEF TaskKept
<1>2. CASE gen[g].task # NoTask
  <2>1. ASSUME NEW e \in execs, Step(e) \/ Heartbeat(e) \/ Crash(e)
        PROVE  gen'[g].task # NoTask
    <3>1. e.attempt \in Tasks
      BY <1>0 DEF TypeOK, Exec
    <3> QED
      BY <1>0, <1>2, <2>1, <3>1, StepRows
  <2>2. ASSUME NEW c \in calls, Finalize(c) \/ CallFails(c)
        PROVE  gen'[g].task # NoTask
    BY <1>0, <1>2, <2>2, FinalizeRows
  <2>3. ASSUME NEW h \in Generations, GenerationStep(h)
        PROVE  gen'[g].task # NoTask
    BY <1>0, <1>2, <2>3, GenerationRowsStep
  <2>4. ASSUME RecoverReceipts \/ RequeueStale
        PROVE  gen'[g].task # NoTask
    BY <1>0, <1>2, <2>4, DrainRows
  <2>5. gen'[g].task # NoTask
    BY <2>1, <2>2, <2>3, <2>4, NextCases
  <2> QED
    BY <2>5 DEF TaskKept
<1> QED
  BY <1>1, <1>2 DEF TaskKept

\* No step leaves a dispatched job without a task.
LEMMA DispatchStep ==
  TypeInv /\ DispatchedHasTask /\ [Next]_vars => DispatchedHasTask'
<1> SUFFICES ASSUME TypeInv, DispatchedHasTask, [Next]_vars,
                    NEW g \in Generations, job'[g].status = "dispatched"
             PROVE  gen'[g].task # NoTask \/ receipt'[g].task # NoTask
  BY DEF DispatchedHasTask, TaskKept
<1>0. /\ TypeOK /\ EndingHeld
      /\ job[g].status = "dispatched" => gen[g].task # NoTask \/ receipt[g].task # NoTask
  BY DEF TypeInv, DispatchedHasTask, TaskKept
<1>1. CASE UNCHANGED vars
  BY <1>0, <1>1 DEF vars
<1>6. receipt[g].task # NoTask => receipt'[g].task # NoTask
  BY <1>0, TaskStays
<1>2. ASSUME NEW e \in execs, Step(e) \/ Heartbeat(e) \/ Crash(e)
      PROVE  gen'[g].task # NoTask \/ receipt'[g].task # NoTask
  <2>1. e.attempt # NoTask
    BY <1>0, MaxAttemptsAssumption DEF TypeOK, Exec, Tasks, NoTask
  <2>2. /\ \/ gen'[g].task = gen[g].task
           \/ gen'[g].task = e.attempt
        /\ \/ job'[g].status = job[g].status
           \/ job'[g].status = "dispatched" => gen'[g].task = e.attempt
    BY <1>0, <1>2, StepRows
  <2> QED
    BY <1>0, <1>6, <2>1, <2>2
<1>3. ASSUME NEW c \in calls, Finalize(c) \/ CallFails(c)
      PROVE  gen'[g].task # NoTask \/ receipt'[g].task # NoTask
  BY <1>0, <1>3, <1>6, FinalizeRows
<1>4. ASSUME NEW h \in Generations, GenerationStep(h)
      PROVE  gen'[g].task # NoTask \/ receipt'[g].task # NoTask
  <2>1. \A t \in Tasks : t # NoTask
    BY MaxAttemptsAssumption DEF Tasks, NoTask
  <2>2. Claim(h) /\ g = h => job'[g].status = "dispatching"
    <3>1. job[g] \in Job
      BY <1>0 DEF TypeOK
    <3>2. Claim(h) /\ g = h =>
            job'[g] = [job[g] EXCEPT !.status = "dispatching",
                                     !.attempts = job[g].attempts + 1,
                                     !.stale = FALSE]
      BY <1>0 DEF Claim, TypeOK
    <3> QED
      BY <3>1, <3>2 DEF Job
  <2>3. /\ \/ gen'[g].task = gen[g].task
           \/ gen'[g].task \in Tasks
        /\ \/ job'[g].status = job[g].status
           \/ Claim(h) /\ g = h
           \/ job'[g].status = "failed"
           \/ gen'[g].task # NoTask
    BY <1>0, <1>4, GenerationRowsStep
  <2> QED
    BY <1>0, <1>6, <2>1, <2>2, <2>3
<1>5. CASE RecoverReceipts \/ RequeueStale
  BY <1>0, <1>5, <1>6, DrainRows
<1> QED
  BY <1>1, <1>2, <1>3, <1>4, <1>5, NextCases

\* Hence none ever is.
LEMMA DispatchInvariant == Safe => []DispatchedHasTask
<1>1. Init => DispatchedHasTask
  BY DEF Init, DispatchedHasTask
<1> QED
  BY <1>1, DispatchStep, TypeInvariant, PTL DEF Safe

\* The task of a dispatched job is never lost, on every path that marks one (the
\* commit, bindProviderReceipt, recoverProviderReceipts): its generation or its
\* receipt names it.
THEOREM DispatchKnowsTask == Spec => []DispatchedHasTask
<1>1. Spec => Safe
  BY DEF Spec
<1> QED
  BY <1>1, DispatchInvariant, PTL

-----------------------------------------------------------------------------
(* A result is stored once.                                                *)

\* The count of stored results follows output_asset_id.
AssetCounted ==
  \A g \in Generations : assets[g] = IF gen[g].asset THEN 1 ELSE 0

\* Every step keeps the count in line.
LEMMA AssetStep == TypeInv /\ AssetCounted /\ [Next]_vars => AssetCounted'
<1> SUFFICES ASSUME TypeInv, AssetCounted, [Next]_vars, NEW g \in Generations
             PROVE  assets'[g] = IF gen'[g].asset THEN 1 ELSE 0
  BY DEF AssetCounted
<1>0. /\ TypeOK /\ EndingHeld /\ assets[g] = IF gen[g].asset THEN 1 ELSE 0
      /\ assets \in [Generations -> Nat]
  BY DEF TypeInv, TypeOK, AssetCounted
<1>1. CASE UNCHANGED vars
  BY <1>0, <1>1 DEF vars
<1>2. ASSUME NEW e \in execs, Step(e) \/ Heartbeat(e) \/ Crash(e)
      PROVE  assets'[g] = IF gen'[g].asset THEN 1 ELSE 0
  <2>1. assets' = assets
    BY <1>2 DEF Step, Prepare, Mark, Submit, Answered, Record,
                Commit, CatchBroken, CatchRefused, Requeue, Reconcile, FailJob,
                Refund, Heartbeat, Crash, outcomeVars, endVars
  <2>2. gen'[g].asset = gen[g].asset
    BY <1>0, <1>2, StepRows DEF Kept
  <2> QED
    BY <1>0, <2>1, <2>2
<1>3. ASSUME NEW c \in calls, Finalize(c) \/ CallFails(c)
      PROVE  assets'[g] = IF gen'[g].asset THEN 1 ELSE 0
  <2>1. CASE Persist(c) /\ g = c.gen
    <3>1. gen[g] \in Generation
      BY <1>0 DEF TypeOK
    <3>2. gen'[g] = [gen[g] EXCEPT !.asset = TRUE, !.url = TRUE]
      BY <1>0, <2>1 DEF Persist, TypeOK
    <3>3. gen'[g].asset
      BY <3>1, <3>2 DEF Generation
    <3>4. assets'[g] = IF gen[g].asset THEN assets[g] ELSE assets[g] + 1
      BY <1>0, <2>1 DEF Persist
    <3>5. assets'[g] = 1
      BY <1>0, <3>4
    <3> QED
      BY <3>3, <3>5
  <2>2. CASE ~ (Persist(c) /\ g = c.gen)
    <3>1. gen'[g].asset = gen[g].asset
      BY <1>0, <1>3, <2>2, FinalizeRows
    <3>2. assets'[g] = assets[g]
      BY <1>0, <1>3, <2>2 DEF Finalize, Accept, ReleaseFailed, Persist,
                              SettleDelivered, CallFails
    <3> QED
      BY <1>0, <3>1, <3>2
  <2> QED
    BY <2>1, <2>2
<1>4. ASSUME NEW h \in Generations, GenerationStep(h)
      PROVE  assets'[g] = IF gen'[g].asset THEN 1 ELSE 0
  <2>1. assets' = assets
    BY <1>4 DEF GenerationStep, Claim, Stall, Poll, PollDelivered, Age,
       BeginExpire, Expire,
                BeginCancel, Cancel, EndedAs, Finish, Notify, outcomeVars, endVars
  <2>2. gen'[g].asset = gen[g].asset
    BY <1>0, <1>4, GenerationRowsStep
  <2> QED
    BY <1>0, <2>1, <2>2
<1>5. CASE RecoverReceipts \/ RequeueStale
  <2>1. assets' = assets
    BY <1>5 DEF RecoverReceipts, Recover, RequeueStale, outcomeVars, endVars
  <2>2. gen'[g].asset = gen[g].asset
    BY <1>0, <1>5, DrainRows DEF Kept
  <2> QED
    BY <1>0, <2>1, <2>2
<1> QED
  BY <1>1, <1>2, <1>3, <1>4, <1>5, NextCases

\* However many callbacks and polls bring the result, and however their
\* finalizations interleave, fail and are retried, it is inserted into assets
\* at most once (persistGenerationOutput's second read under the lock).
THEOREM ResultStoredOnce == Spec => []StoredOnce
<1>1. Init => AssetCounted
  BY DEF Init, AssetCounted
<1>2. AssetCounted => StoredOnce
  BY DEF AssetCounted, StoredOnce
<1>3. Spec => Safe
  BY DEF Spec
<1> QED
  BY <1>1, <1>2, <1>3, AssetStep, TypeInvariant, PTL DEF Safe

-----------------------------------------------------------------------------
(* A receipt allows one paid submission.                                   *)

\* Claims and submissions carry attempt numbers that were issued.
AttemptsIssued ==
  /\ \A e \in execs : e.attempt <= job[e.gen].attempts
  /\ \A g \in Generations, t \in Tasks :
       provider[g][t] # "none" => t <= job[g].attempts

\* One attempt, one executor.
ExecUnique ==
  \A e, f \in execs : e.gen = f.gen /\ e.attempt = f.attempt => e = f

\* The request is on its way, or was refused; and before that.
Shooting == {"posting"}
Unanswered == {"claimed", "starting"} \cup Shooting

\* What was not answered was not accepted.
Unsubmitted ==
  \A e \in execs :
    e.stage \in Unanswered => provider[e.gen][e.attempt] = "none"

\* The attempts, taken together.
AttemptsInv == AttemptsIssued /\ ExecUnique /\ Unsubmitted

\* An attempt that was submitted, or may be at any moment.
Shot(g, t) ==
  \/ provider[g][t] # "none"
  \/ \E e \in execs : e.gen = g /\ e.attempt = t /\ e.stage \in Shooting

\* The mark outlives the only shot, unless another attempt erased it.
ShotInv ==
  \A g \in Generations :
    gen[g].version = 1 /\ g \notin forgotten =>
      \A t, u \in Tasks :
        /\ Shot(g, t) => receipt[g].submitted
        /\ Shot(g, t) /\ Shot(g, u) => t = u

\* An executor leaves the stages before the answer for good, and submits from
\* "starting" only.
LEMMA StageMoves ==
  ASSUME NEW e \in execs, Step(e) \/ Heartbeat(e) \/ Crash(e), execs \subseteq Exec,
         NEW stage, Moved(e, stage), [e EXCEPT !.stage = stage] \notin execs
  PROVE  /\ stage \in Unanswered => e.stage \in Unanswered /\ ~ Answered(e)
         /\ stage \in Shooting =>
              e.stage \in Shooting \/ Submit(e) \/ (Mark(e) /\ stage = "posting")
<1>1. [e EXCEPT !.stage = stage] \in execs' /\ execs' # execs
  BY DEF Moved
<1>2. e \in Exec /\ [e EXCEPT !.stage = stage].stage = stage
  BY DEF Exec
<1>3. \A s : Moved(e, s) => s = stage
  BY <1>1, <1>2 DEF Moved, Exec
<1>4. ~ Ended(e)
  BY <1>1 DEF Ended
<1>5. CASE Prepare(e) \/ CatchBroken(e) \/ CatchRefused(e)
  BY <1>3, <1>5
  DEF Prepare, CatchBroken, CatchRefused, Unanswered, Shooting, Answered
<1>6. CASE Mark(e) \/ Submit(e)
  BY <1>3, <1>6 DEF Mark, Submit, Unanswered, Shooting, Answered
<1>7. CASE Answered(e) \/ Record(e) \/ FailJob(e)
  BY <1>3, <1>4, <1>7 DEF Answered, Record, FailJob, Unanswered, Shooting
<1> QED
  BY <1>1, <1>4, <1>5, <1>6, <1>7
  DEF Step, Commit, Requeue, Reconcile, Refund, Heartbeat, Crash

\* Every step keeps the attempts apart.
LEMMA AttemptsStep == TypeInv /\ AttemptsInv /\ [Next]_vars => AttemptsInv'
<1> SUFFICES ASSUME TypeInv, AttemptsInv, [Next]_vars
             PROVE  AttemptsInv'
  OBVIOUS
<1>0. /\ TypeOK /\ EndingHeld /\ AttemptsIssued /\ ExecUnique /\ Unsubmitted
      /\ execs \subseteq Exec
      /\ \A e \in execs : e.gen \in Generations /\ e.attempt \in Tasks
  BY DEF TypeInv, TypeOK, AttemptsInv, Exec
<1>1. CASE UNCHANGED vars
  BY <1>1 DEF vars, AttemptsInv, AttemptsIssued, ExecUnique, Unsubmitted
<1>2. ASSUME NEW e \in execs, Step(e) \/ Heartbeat(e) \/ Crash(e)
      PROVE  AttemptsInv'
  <2>1. \A g \in Generations : job'[g].attempts = job[g].attempts
    BY <1>0, <1>2, StepRows DEF Kept
  <2>2. \A g \in Generations, t \in Tasks :
          \/ provider'[g][t] = provider[g][t]
          \/ Answered(e) /\ g = e.gen /\ t = e.attempt
    BY <1>0, <1>2, StepProvider
  <2>3. ASSUME NEW f \in execs'
        PROVE  \/ f \in execs
               \/ /\ f.gen = e.gen /\ f.attempt = e.attempt
                  /\ Moved(e, f.stage) /\ f = [e EXCEPT !.stage = f.stage]
    <3>1. CASE execs' \subseteq execs
      BY <3>1
    <3>2. ASSUME NEW stage \in Stage, Moved(e, stage), f \notin execs
          PROVE  /\ f.gen = e.gen /\ f.attempt = e.attempt
                 /\ Moved(e, f.stage) /\ f = [e EXCEPT !.stage = f.stage]
      <4>1. f = [e EXCEPT !.stage = stage]
        BY <3>2 DEF Moved
      <4>2. f.gen = e.gen /\ f.attempt = e.attempt /\ f.stage = stage
        BY <1>0, <4>1 DEF Exec
      <4> QED
        BY <3>2, <4>1, <4>2
    <3> QED
      BY <1>0, <1>2, <3>1, <3>2, StepExecs
  <2>4. AttemptsIssued'
    <3>1. \A f \in execs' : f.attempt <= job'[f.gen].attempts
      BY <1>0, <2>1, <2>3 DEF AttemptsIssued
    <3>2. \A g \in Generations, t \in Tasks :
            provider'[g][t] # "none" => t <= job'[g].attempts
      BY <1>0, <2>1, <2>2 DEF AttemptsIssued
    <3> QED
      BY <3>1, <3>2 DEF AttemptsIssued
  <2>5. ExecUnique'
    <3> SUFFICES ASSUME NEW f1 \in execs', NEW f2 \in execs',
                        f1.gen = f2.gen, f1.attempt = f2.attempt
                 PROVE  f1 = f2
      BY DEF ExecUnique
    <3>1. CASE execs' \subseteq execs
      BY <1>0, <3>1 DEF ExecUnique
    <3>2. ASSUME NEW stage \in Stage, Moved(e, stage)
          PROVE  f1 = f2
      <4>1. /\ [e EXCEPT !.stage = stage].gen = e.gen
            /\ [e EXCEPT !.stage = stage].attempt = e.attempt
        BY <1>0 DEF Exec
      <4>2. \A f \in execs' : f \in execs \ {e} \/ f = [e EXCEPT !.stage = stage]
        BY <3>2 DEF Moved
      <4> QED
        BY <1>0, <4>1, <4>2 DEF ExecUnique
    <3> QED
      BY <1>0, <1>2, <3>1, <3>2, StepExecs
  <2>6. Unsubmitted'
    <3> SUFFICES ASSUME NEW f \in execs', f.stage \in Unanswered
                 PROVE  provider'[f.gen][f.attempt] = "none"
      BY DEF Unsubmitted
    <3>1. CASE f \in execs
      <4>1. provider[f.gen][f.attempt] = "none"
        BY <1>0, <3>1 DEF Unsubmitted
      <4>2. CASE Answered(e) /\ f.gen = e.gen /\ f.attempt = e.attempt
        <5>1. f = e /\ f.stage = "posting"
          BY <1>0, <3>1, <4>2 DEF ExecUnique, Answered
        <5>2. [e EXCEPT !.stage = "answered"].stage = "answered"
          BY <1>0 DEF Exec
        <5> QED
          BY <4>2, <5>1, <5>2 DEF Answered, Moved
      <4> QED
        BY <1>0, <2>2, <3>1, <4>1, <4>2
    <3>2. CASE f \notin execs
      <4>1. /\ f.gen = e.gen /\ f.attempt = e.attempt
            /\ Moved(e, f.stage) /\ f = [e EXCEPT !.stage = f.stage]
        BY <2>3, <3>2
      <4>2. e.stage \in Unanswered /\ ~ Answered(e)
        BY <1>0, <1>2, <3>2, <4>1, StageMoves
      <4> QED
        BY <1>0, <2>2, <4>1, <4>2 DEF Unsubmitted
    <3> QED
      BY <3>1, <3>2
  <2> QED
    BY <2>4, <2>5, <2>6 DEF AttemptsInv
<1>3. ASSUME NEW c \in calls, Finalize(c) \/ CallFails(c)
      PROVE  AttemptsInv'
  <2>1. UNCHANGED <<job, execs, provider>>
    BY <1>3 DEF Finalize, Accept, ReleaseFailed, Persist, SettleDelivered,
                CallFails
  <2> QED
    BY <2>1 DEF AttemptsInv, AttemptsIssued, ExecUnique, Unsubmitted
<1>4. ASSUME NEW h \in Generations, GenerationStep(h)
      PROVE  AttemptsInv'
  <2>1. \A g \in Generations, t \in Tasks :
          provider'[g][t] = "none" <=> provider[g][t] = "none"
    BY <1>0, <1>4, GenerationProvider
  <2>2. CASE Claim(h)
    <3> DEFINE n == job[h].attempts + 1
               new == [gen |-> h, attempt |-> n, stage |-> "claimed"]
    <3>0. \A g \in Generations : job[g].attempts \in Nat
      BY <1>0, MaxAttemptsAssumption DEF TypeOK, Job
    <3>1. /\ execs' = execs \cup {new} /\ provider' = provider
          /\ n \in Tasks
      BY <2>2, <3>0, MaxAttemptsAssumption DEF Claim, Tasks
    <3>2. \A g \in Generations :
            job'[g].attempts = IF g = h THEN n ELSE job[g].attempts
      BY <1>0, <2>2 DEF Claim, TypeOK, Job
    <3>3. /\ \A e \in execs : e.gen = h => e.attempt < n
          /\ \A t \in Tasks : provider[h][t] # "none" => t < n
      BY <1>0, <3>0 DEF AttemptsIssued, Tasks
    <3>4. new.gen = h /\ new.attempt = n
      OBVIOUS
    <3>5. n \in Int /\ \A t \in Tasks : t \in Int
      BY <3>0 DEF Tasks
    <3> HIDE DEF n, new
    <3>6. AttemptsIssued'
      <4>1. \A g \in Generations : job[g].attempts <= job'[g].attempts
        BY <3>0, <3>2 DEF n
      <4>2. \A g \in Generations : job[g].attempts \in Int /\ job'[g].attempts \in Int
        BY <3>0, <3>2, <3>5
      <4>3. \A e \in execs' : e.attempt <= job'[e.gen].attempts
        <5>1. ASSUME NEW e \in execs PROVE e.attempt <= job'[e.gen].attempts
          <6>1. e.attempt <= job[e.gen].attempts /\ e.attempt \in Int
            BY <1>0, <3>5 DEF AttemptsIssued
          <6>2. e.gen \in Generations
            BY <1>0
          <6> QED
            BY <4>1, <4>2, <6>1, <6>2
        <5>2. new.attempt <= job'[new.gen].attempts
          BY <3>2, <3>4, <3>5
        <5> QED
          BY <3>1, <5>1, <5>2
      <4>4. \A g \in Generations, t \in Tasks :
              provider'[g][t] # "none" => t <= job'[g].attempts
        BY <1>0, <3>1, <3>5, <4>1, <4>2 DEF AttemptsIssued
      <4> QED
        BY <4>3, <4>4 DEF AttemptsIssued
    <3>7. ExecUnique'
      BY <1>0, <3>1, <3>3, <3>4, <3>5 DEF ExecUnique
    <3>8. Unsubmitted'
      BY <1>0, <3>1, <3>3, <3>4, <3>5 DEF Unsubmitted
    <3> QED
      BY <3>6, <3>7, <3>8 DEF AttemptsInv
  <2>3. CASE ~ Claim(h)
    <3>1. execs' = execs
      BY <1>4, <2>3, GenerationExecs
    <3>2. \A g \in Generations : job'[g].attempts = job[g].attempts
      BY <1>0, <1>4, <2>3, GenerationRowsStep DEF Kept
    <3> QED
      BY <1>0, <2>1, <3>1, <3>2
      DEF AttemptsInv, AttemptsIssued, ExecUnique, Unsubmitted
  <2> QED
    BY <2>2, <2>3
<1>5. CASE RecoverReceipts \/ RequeueStale
  <2>1. UNCHANGED <<execs, provider>>
    BY <1>5 DEF RecoverReceipts, Recover, RequeueStale
  <2>2. \A g \in Generations : job'[g].attempts = job[g].attempts
    BY <1>0, <1>5, DrainRows DEF Kept
  <2> QED
    BY <1>0, <2>1, <2>2 DEF AttemptsInv, AttemptsIssued, ExecUnique, Unsubmitted
<1> QED
  BY <1>1, <1>2, <1>3, <1>4, <1>5, NextCases

\* Only a mark and a refusal change a mark, and only dispatchJob does.
LEMMA SubmittedKept ==
  ASSUME TypeOK, NEW g \in Generations
  PROVE  /\ \A h \in Generations : GenerationStep(h) =>
              receipt'[g].submitted = receipt[g].submitted
         /\ \A c \in calls : Finalize(c) \/ CallFails(c) => receipt' = receipt
         /\ RecoverReceipts \/ RequeueStale => receipt' = receipt
<1>1. ASSUME NEW h \in Generations, GenerationStep(h)
      PROVE  receipt'[g].submitted = receipt[g].submitted
  <2>1. \/ receipt' = receipt
        \/ \E t \in Tasks : receipt' = [receipt EXCEPT ![h].task = t]
    BY <1>1 DEF GenerationStep, Claim, Stall, Poll, PollDelivered, Age,
       BeginExpire, Expire,
                BeginCancel, Cancel, EndedAs, Finish, Notify
  <2>2. \/ receipt'[g] = receipt[g]
        \/ \E t \in Tasks : receipt'[g] = [receipt[g] EXCEPT !.task = t]
    BY <1>1, <2>1 DEF TypeOK
  <2>3. receipt[g] \in Receipt
    BY DEF TypeOK
  <2> QED
    BY <2>2, <2>3 DEF Receipt
<1> QED
  BY <1>1
  DEF Finalize, Accept, ReleaseFailed, Persist, SettleDelivered, CallFails,
      RecoverReceipts, Recover, RequeueStale

\* A step of dispatchJob makes no new shot, but for a mark.
LEMMA StepShots ==
  ASSUME TypeOK, NEW e \in execs, Step(e) \/ Heartbeat(e) \/ Crash(e),
         NEW g \in Generations, gen[g].version = 1, NEW t \in Tasks, Shot(g, t)'
  PROVE  Shot(g, t) \/ (Mark(e) /\ g = e.gen /\ t = e.attempt)
<1>0. execs \subseteq Exec
  BY DEF TypeOK
<1>1. CASE provider'[g][t] # "none"
  <2>1. CASE provider[g][t] # "none"
    BY <2>1 DEF Shot
  <2>2. CASE Answered(e) /\ g = e.gen /\ t = e.attempt
    BY <2>2 DEF Answered, Shot, Shooting
  <2> QED
    BY <1>1, <2>1, <2>2, StepProvider
<1>2. ASSUME NEW f \in execs', f.gen = g, f.attempt = t, f.stage \in Shooting
      PROVE  Shot(g, t) \/ (Mark(e) /\ g = e.gen /\ t = e.attempt)
  <2>1. CASE f \in execs
    BY <1>2, <2>1 DEF Shot
  <2>2. CASE f \notin execs
    <3>1. PICK stage \in Stage : Moved(e, stage)
      BY <1>2, <2>2, StepExecs
    <3>2. f.gen = e.gen /\ f.attempt = e.attempt /\ f.stage = stage
      BY <1>2, <2>2, <3>1, MovedExec
    <3>3. [e EXCEPT !.stage = stage] \notin execs
      BY <2>2, <3>1 DEF Moved
    <3>4. e.stage \in Shooting \/ Submit(e) \/ Mark(e)
      BY <1>0, <1>2, <3>1, <3>2, <3>3, StageMoves
    <3>5. ~ Submit(e)
      BY <1>2, <3>2 DEF Submit
    <3> QED
      BY <1>2, <3>2, <3>4, <3>5 DEF Shot
  <2> QED
    BY <2>1, <2>2
<1> QED
  BY <1>1, <1>2 DEF Shot

\* Every step keeps the only shot the only one.
LEMMA ShotStep ==
  TypeInv /\ AttemptsInv /\ ShotInv /\ [Next]_vars => ShotInv'
<1> SUFFICES ASSUME TypeInv, AttemptsInv, ShotInv, [Next]_vars,
                    NEW g \in Generations, gen'[g].version = 1, g \notin forgotten',
                    NEW t \in Tasks, NEW u \in Tasks, Shot(g, t)'
             PROVE  receipt'[g].submitted /\ (Shot(g, u)' => t = u)
  BY DEF ShotInv
<1>0. /\ TypeOK /\ EndingHeld /\ execs \subseteq Exec
      /\ \A e \in execs : e.gen \in Generations /\ e.attempt \in Tasks
  BY DEF TypeInv, TypeOK, Exec
<1>1. ASSUME gen[g].version = 1, g \notin forgotten,
             receipt'[g].submitted = receipt[g].submitted,
             \A v \in Tasks : Shot(g, v)' => Shot(g, v)
      PROVE  receipt'[g].submitted /\ (Shot(g, u)' => t = u)
  BY <1>1 DEF ShotInv
<1>2. CASE UNCHANGED vars
  <2>1. \A v \in Tasks : Shot(g, v)' => Shot(g, v)
    BY <1>2 DEF vars, Shot
  <2> QED
    BY <1>1, <1>2, <2>1 DEF vars
<1>3. ASSUME NEW e \in execs, Step(e) \/ Heartbeat(e) \/ Crash(e)
      PROVE  receipt'[g].submitted /\ (Shot(g, u)' => t = u)
  <2>0. gen[g].version = 1
    BY <1>0, <1>3, StepRows DEF Kept
  <2>1. \A v \in Tasks : Shot(g, v)' =>
          Shot(g, v) \/ (Mark(e) /\ g = e.gen /\ v = e.attempt)
    BY <1>0, <1>3, <2>0, StepShots
  <2>2. g \notin forgotten
    <3>1. forgotten \subseteq forgotten'
      BY <1>3
      DEF Step, Prepare, Mark, Submit, Answered, Record, Commit,
          CatchBroken, CatchRefused, Requeue, Reconcile, FailJob, Refund,
          Heartbeat, Crash, outcomeVars, endVars
    <3> QED
      BY <3>1
  <2>3. CASE ~ Mark(e) /\ ~ (CatchRefused(e) /\ g = e.gen)
    <3>1. receipt'[g].submitted = receipt[g].submitted
      BY <1>0, <1>3, <2>3, StepReceipts
    <3> QED
      BY <1>1, <2>0, <2>1, <2>2, <2>3, <3>1
  <2>4. CASE Mark(e)
    <3>1. CASE g # e.gen
      <4>1. receipt'[g].submitted = receipt[g].submitted
        BY <1>0, <1>3, <3>1, StepReceipts
      <4> QED
        BY <1>1, <2>0, <2>1, <2>2, <3>1, <4>1
    <3>2. CASE /\ g = e.gen /\ receipt' = [receipt EXCEPT ![e.gen].submitted = TRUE]
               /\ receipt[e.gen] = [submitted |-> FALSE, task |-> NoTask]
      <4>1. ~ receipt[g].submitted
        BY <3>2
      <4>2. \A v \in Tasks : ~ Shot(g, v)
        BY <2>0, <2>2, <4>1 DEF ShotInv
      <4>3. \A v \in Tasks : Shot(g, v)' => v = e.attempt
        BY <2>1, <4>2
      <4>4. receipt'[g].submitted
        BY <1>0, <3>2 DEF TypeOK, Receipt
      <4> QED
        BY <4>3, <4>4
    <3> QED
      BY <2>4, <3>1, <3>2 DEF Mark
  <2>5. CASE CatchRefused(e) /\ g = e.gen /\ ~ Mark(e)
    <3>0. ~ Mark(e)
      BY <2>5
    <3>1. CASE receipt' = receipt
      BY <1>1, <2>0, <2>1, <2>2, <3>0, <3>1
    <3>2. CASE receipt' # receipt /\ ~ receipt[g].submitted
      BY <2>0, <2>1, <2>2, <3>0, <3>2 DEF ShotInv
    <3>3. CASE receipt' # receipt /\ receipt[g].submitted
      <4>1. e.stage = "posting"
        BY <1>0, <2>5, <3>3 DEF CatchRefused, TypeOK
      <4>2. Shot(g, e.attempt)
        BY <2>5, <4>1 DEF Shot, Shooting
      <4>3. t = e.attempt
        BY <1>0, <2>0, <2>1, <2>2, <3>0, <4>2 DEF ShotInv
      <4>4. provider'[g][t] = "none"
        <5>1. provider[g][t] = "none" /\ provider' = provider
          BY <2>5, <4>1, <4>3
          DEF CatchRefused, AttemptsInv, Unsubmitted, Unanswered, Shooting
        <5> QED
          BY <5>1
      <4>5. ASSUME NEW f \in execs', f.gen = g, f.attempt = t, f.stage \in Shooting
            PROVE  FALSE
        <5>1. PICK stage \in {"fail", "requeue"} : Moved(e, stage)
          BY <2>5 DEF CatchRefused
        <5>2. f \in execs \ {e}
          BY <1>0, <4>5, <5>1, MovedExec DEF Shooting
        <5> QED
          BY <2>5, <4>3, <4>5, <5>2 DEF AttemptsInv, ExecUnique
      <4> QED
        BY <4>4, <4>5 DEF Shot
    <3> QED
      BY <3>1, <3>2, <3>3
  <2> QED
    BY <2>3, <2>4, <2>5
<1>4. ASSUME NEW c \in calls, Finalize(c) \/ CallFails(c)
      PROVE  receipt'[g].submitted /\ (Shot(g, u)' => t = u)
  <2>1. UNCHANGED <<execs, provider, forgotten>>
    BY <1>4 DEF Finalize, Accept, ReleaseFailed, Persist, SettleDelivered,
                CallFails
  <2>2. gen[g].version = 1 /\ receipt'[g].submitted = receipt[g].submitted
    BY <1>0, <1>4, FinalizeRows, SubmittedKept
  <2>3. \A v \in Tasks : Shot(g, v)' => Shot(g, v)
    BY <2>1 DEF Shot
  <2> QED
    BY <1>1, <2>1, <2>2, <2>3
<1>5. ASSUME NEW h \in Generations, GenerationStep(h)
      PROVE  receipt'[g].submitted /\ (Shot(g, u)' => t = u)
  <2>1. gen[g].version = 1 /\ receipt'[g].submitted = receipt[g].submitted
    BY <1>0, <1>5, GenerationRowsStep, SubmittedKept
  <2>2. forgotten' = forgotten
    BY <1>5 DEF GenerationStep, Claim, Stall, Poll, PollDelivered, Age,
       BeginExpire, Expire,
                BeginCancel, Cancel, EndedAs, Finish, Notify
  <2>3. ASSUME NEW v \in Tasks, Shot(g, v)'
        PROVE  Shot(g, v)
    <3>1. CASE provider'[g][v] # "none"
      BY <1>0, <1>5, <2>3, <3>1, GenerationProvider DEF Shot
    <3>2. ASSUME NEW f \in execs', f.gen = g, f.attempt = v, f.stage \in Shooting
          PROVE  f \in execs
      <4>1. execs' = execs \/ Claim(h)
        BY <1>5, GenerationExecs
      <4>2. CASE Claim(h)
        BY <3>2, <4>2 DEF Claim, Shooting
      <4> QED
        BY <3>2, <4>1, <4>2
    <3> QED
      BY <2>3, <3>1, <3>2 DEF Shot
  <2> QED
    BY <1>1, <2>1, <2>2, <2>3
<1>6. CASE RecoverReceipts \/ RequeueStale
  <2>1. UNCHANGED <<execs, provider, forgotten>>
    BY <1>6 DEF RecoverReceipts, Recover, RequeueStale
  <2>2. gen[g].version = 1 /\ receipt'[g].submitted = receipt[g].submitted
    BY <1>0, <1>6, DrainRows, SubmittedKept DEF Kept
  <2>3. \A v \in Tasks : Shot(g, v)' => Shot(g, v)
    BY <2>1 DEF Shot
  <2> QED
    BY <1>1, <2>1, <2>2, <2>3
<1> QED
  BY <1>2, <1>3, <1>4, <1>5, <1>6, NextCases

\* Nothing is submitted at admission.
LEMMA PaidInit == Init => AttemptsInv /\ ShotInv
<1> SUFFICES ASSUME Init PROVE AttemptsInv /\ ShotInv
  OBVIOUS
<1>1. execs = {} /\ \A g \in Generations, t \in Tasks : provider[g][t] = "none"
  BY DEF Init
<1> QED
  BY <1>1 DEF AttemptsInv, AttemptsIssued, ExecUnique, Unsubmitted, ShotInv, Shot

\* One shot is one paid task at most.
LEMMA ShotsPayOnce == ShotInv => PaidOnce
<1> SUFFICES ASSUME ShotInv, NEW g \in Generations,
                    gen[g].version = 1, g \notin forgotten
             PROVE  Cardinality(Accepted(g)) <= 1
  BY DEF PaidOnce
<1>1. \A t, u \in Accepted(g) : t = u
  BY DEF ShotInv, Shot, Accepted
<1>2. CASE Accepted(g) = {}
  BY <1>2, FS_EmptySet
<1>3. CASE Accepted(g) # {}
  <2>1. PICK t : Accepted(g) = {t}
    BY <1>1, <1>3
  <2> QED
    BY <2>1, FS_Singleton
<1> QED
  BY <1>2, <1>3

\* A lost response never becomes another paid submission: with a receipt, the
\* provider accepts one task at most, however many times the dispatch is
\* claimed, stalls, dies and is recovered, unless an attempt that had lost its
\* job erased the receipt (markProviderSubmission, prepareProviderReceipt).
THEOREM SubmittedOnce == Spec => []PaidOnce
<1>1. Spec => Safe
  BY DEF Spec
<1>2. Safe => []AttemptsInv
  BY PaidInit, AttemptsStep, TypeInvariant, PTL DEF Safe
<1>3. Safe => []ShotInv
  BY <1>2, PaidInit, ShotStep, TypeInvariant, PTL DEF Safe
<1> QED
  BY <1>1, <1>3, ShotsPayOnce, PTL

-----------------------------------------------------------------------------
(* A reservation is charged for work.                                      *)

\* A cancelled generation's job cannot be claimed or committed any more.
CancelledLeavesQueue ==
  \A g \in Generations :
    gen[g].status = "cancelled" => job[g].status \notin {"queued", "dispatching"}

\* A finalization that settles has stored the result, or found it stored.
SettleHasAsset == \A c \in calls : c.stage = "settle" => gen[c.gen].asset

\* What makes the charges inductive.
ChargeInv ==
  TypeInv /\ DispatchedHasTask /\ CancelledLeavesQueue /\ SettleHasAsset

\* What the usage authority's calls do to the other reservations.
LEMMA UsageRows ==
  ASSUME TypeOK, NEW h \in Generations, NEW g \in Generations
  PROVE  /\ Release(h) => (charge'[g] = "settled" => charge[g] = "settled")
         /\ Settle(h) => (charge'[g] = "settled" => charge[g] = "settled" \/ g = h)
BY DEF TypeOK, Release, Settle

\* No step brings a cancelled generation's job back.
LEMMA CancelStep == ChargeInv /\ [Next]_vars => CancelledLeavesQueue'
<1> SUFFICES ASSUME ChargeInv, [Next]_vars, NEW g \in Generations,
                    gen'[g].status = "cancelled"
             PROVE  job'[g].status \notin {"queued", "dispatching"}
  BY DEF CancelledLeavesQueue
<1>0. /\ TypeOK /\ EndingHeld
      /\ gen[g].status = "cancelled" =>
           job[g].status \notin {"queued", "dispatching"}
  BY DEF ChargeInv, TypeInv, CancelledLeavesQueue
<1>1. CASE UNCHANGED vars
  BY <1>0, <1>1 DEF vars
<1>2. ASSUME NEW e \in execs, Step(e) \/ Heartbeat(e) \/ Crash(e)
      PROVE  job'[g].status \notin {"queued", "dispatching"}
  <2>1. gen[g].status = "cancelled"
    BY <1>0, <1>2, StepRows
  <2>2. job'[g].status = job[g].status \/ job[g].status = "dispatching"
    BY <1>0, <1>2, StepRows
  <2> QED
    BY <1>0, <2>1, <2>2
<1>3. ASSUME NEW c \in calls, Finalize(c) \/ CallFails(c)
      PROVE  job'[g].status \notin {"queued", "dispatching"}
  BY <1>0, <1>3, FinalizeRows
<1>4. ASSUME NEW h \in Generations, GenerationStep(h)
      PROVE  job'[g].status \notin {"queued", "dispatching"}
  <2>1. CASE Cancel(h) /\ g = h
    <3>1. \/ job'[g] = Parked(g, "failed")
          \/ /\ job'[g] = job[g]
             /\ job[g].status \notin {"queued", "dispatching", "dispatched"}
      BY <1>0, <2>1 DEF Cancel, EndedAs, TypeOK
    <3> QED
      BY <1>0, <3>1, ParkedFields
  <2>2. CASE ~ (Cancel(h) /\ g = h)
    <3>1. gen[g].status = "cancelled"
      BY <1>0, <1>4, <2>2, GenerationRowsStep
    <3>2. ~ (Claim(h) /\ g = h)
      BY <1>0, <3>1 DEF Claim
    <3>3. \/ job'[g].status = job[g].status
          \/ Claim(h) /\ g = h
          \/ job'[g].status \in {"failed", "dispatched"}
      BY <1>0, <1>4, GenerationRowsStep
    <3> QED
      BY <1>0, <3>1, <3>2, <3>3
  <2> QED
    BY <2>1, <2>2
<1>5. CASE RecoverReceipts \/ RequeueStale
  <2>1. gen[g].status = "cancelled"
    BY <1>0, <1>5, DrainRows
  <2>2. \/ job'[g].status = job[g].status
        \/ job'[g].status \in {"reconciling", "dispatched"}
        \/ job[g].status = "dispatching"
    BY <1>0, <1>5, DrainRows
  <2> QED
    BY <1>0, <2>1, <2>2
<1> QED
  BY <1>1, <1>2, <1>3, <1>4, <1>5, NextCases

\* A stored result stays stored.
LEMMA AssetStays ==
  ASSUME TypeOK, EndingHeld, Next, NEW g \in Generations, gen[g].asset
  PROVE  gen'[g].asset
<1>1. ASSUME NEW e \in execs, Step(e) \/ Heartbeat(e) \/ Crash(e)
      PROVE  gen'[g].asset
  BY <1>1, StepRows DEF Kept
<1>2. ASSUME NEW c \in calls, Finalize(c) \/ CallFails(c)
      PROVE  gen'[g].asset
  BY <1>2, FinalizeRows
<1>3. ASSUME NEW h \in Generations, GenerationStep(h)
      PROVE  gen'[g].asset
  BY <1>3, GenerationRowsStep
<1>4. CASE RecoverReceipts \/ RequeueStale
  BY <1>4, DrainRows DEF Kept
<1> QED
  BY <1>1, <1>2, <1>3, <1>4, NextCases

\* No finalization settles before the result is stored.
LEMMA SettleStep == ChargeInv /\ [Next]_vars => SettleHasAsset'
<1> SUFFICES ASSUME ChargeInv, [Next]_vars
             PROVE  SettleHasAsset'
  OBVIOUS
<1>0. /\ TypeOK /\ EndingHeld /\ SettleHasAsset /\ calls \subseteq Call
      /\ \A c \in calls : c.gen \in Generations
  BY DEF ChargeInv, TypeInv, TypeOK, Call
<1>1. CASE UNCHANGED vars
  BY <1>0, <1>1 DEF vars, SettleHasAsset
<1>2. ASSUME Next, \A d \in calls' : d.stage = "settle" => d \in calls
      PROVE  SettleHasAsset'
  BY <1>0, <1>2, AssetStays DEF SettleHasAsset
<1>3. CASE Next /\ calls' \subseteq calls
  BY <1>2, <1>3
<1>4. ASSUME Next, NEW c \in calls, Accept(c)
      PROVE  SettleHasAsset'
  <2>0. c \in Call
    BY <1>0
  <2>1. CASE CallMoved(c, "settle") /\ gen' = gen /\ gen[c.gen].asset
    <3>1. \A d \in calls' : d \in calls \/ d.gen = c.gen
      BY <2>0, <2>1 DEF CallMoved, Call
    <3> QED
      BY <1>0, <2>1, <3>1 DEF SettleHasAsset
  <2>2. CASE CallEnded(c)
    BY <1>2, <1>4, <2>2 DEF CallEnded
  <2>3. CASE \E stage \in {"release", "persist"} :
               calls' = (calls \ {c}) \cup
                          {[c EXCEPT !.late = Late(c.gen), !.stage = stage]}
    <3>1. PICK stage \in {"release", "persist"} :
            calls' = (calls \ {c}) \cup
                       {[c EXCEPT !.late = Late(c.gen), !.stage = stage]}
      BY <2>3
    <3>2. [c EXCEPT !.late = Late(c.gen), !.stage = stage].stage = stage
      BY <2>0 DEF Call
    <3> QED
      BY <1>2, <1>4, <3>1, <3>2
  <2> QED
    BY <1>4, <2>1, <2>2, <2>3 DEF Accept
<1>5. ASSUME Next, NEW c \in calls, Persist(c)
      PROVE  SettleHasAsset'
  <2>0. c \in Call /\ c.gen \in Generations
    BY <1>0
  <2>1. gen'[c.gen].asset
    <3>1. gen[c.gen] \in Generation
      BY <1>0, <2>0 DEF TypeOK
    <3>2. gen'[c.gen] = [gen[c.gen] EXCEPT !.asset = TRUE, !.url = TRUE]
      BY <1>0, <1>5, <2>0 DEF Persist, TypeOK
    <3> QED
      BY <3>1, <3>2 DEF Generation
  <2>2. \A d \in calls' : d \in calls \/ d.gen = c.gen
    BY <1>5, <2>0 DEF Persist, CallMoved, CallEnded, Call
  <2> QED
    BY <1>0, <1>5, <2>1, <2>2, AssetStays DEF SettleHasAsset
<1>6. ASSUME Next, NEW g \in Generations, NEW outcome, NEW url, Begin(g, outcome,
url)
      PROVE  SettleHasAsset'
  <2>1. \A d \in calls' : d \in calls \/ d.stage = "accept"
    BY <1>6 DEF Begin
  <2> QED
    BY <1>2, <1>6, <2>1
<1>7. CASE Next
  <2>1. ASSUME NEW e \in execs, Step(e) \/ Heartbeat(e) \/ Crash(e)
        PROVE  calls' = calls
    BY <2>1 DEF Step, Prepare, Mark, Submit, Answered, Record,
                Commit, CatchBroken, CatchRefused, Requeue, Reconcile, FailJob,
                Refund, Heartbeat, Crash, outcomeVars, endVars
  <2>2. ASSUME NEW c \in calls, Finalize(c) \/ CallFails(c)
        PROVE  calls' \subseteq calls \/ Accept(c) \/ Persist(c)
    BY <2>2 DEF Finalize, ReleaseFailed, SettleDelivered, CallFails, CallEnded
  <2>3. ASSUME NEW h \in Generations, GenerationStep(h)
        PROVE  calls' = calls \/ \E outcome, url : Begin(h, outcome, url)
    <3>1. CASE Poll(h) \/ \E t \in Tasks : Notify(h, t)
      BY <3>1 DEF Poll, Notify
    <3>2. CASE ~ (Poll(h) \/ \E t \in Tasks : Notify(h, t))
      BY <2>3, <3>2 DEF GenerationStep, Claim, Stall, PollDelivered, Age,
         BeginExpire, Expire,
                        BeginCancel, Cancel, EndedAs, Finish, outcomeVars, endVars
    <3> QED
      BY <3>1, <3>2
  <2>4. CASE RecoverReceipts \/ RequeueStale
    BY <1>3, <1>7, <2>4 DEF RecoverReceipts, Recover, RequeueStale, outcomeVars,
       endVars
  <2> QED
    BY <1>3, <1>4, <1>5, <1>6, <1>7, <2>1, <2>2, <2>3, <2>4, NextCases
<1> QED
  BY <1>1, <1>7

\* Every step keeps the charges earned.
LEMMA ChargeStep ==
  ChargeInv /\ ChargedForWork /\ [Next]_vars => ChargedForWork'
<1> SUFFICES ASSUME ChargeInv, ChargedForWork, [Next]_vars,
                    NEW g \in Generations, charge'[g] = "settled"
             PROVE  gen'[g].asset \/ (gen'[g].status = "cancelled" /\ TaskKept(g)')
  BY DEF ChargedForWork
<1> DEFINE Earned == gen[g].asset \/ (gen[g].status = "cancelled" /\ TaskKept(g))
<1>0. TypeInv /\ TypeOK /\ EndingHeld /\ (charge[g] = "settled" => Earned)
  BY DEF ChargeInv, TypeInv, ChargedForWork
<1>1. CASE UNCHANGED vars
  BY <1>0, <1>1 DEF vars, TaskKept
<1>6. ASSUME Next, TaskKept(g) PROVE TaskKept(g)'
  BY <1>0, <1>6, TaskKeptStays
<1>2. ASSUME NEW e \in execs, Step(e) \/ Heartbeat(e) \/ Crash(e)
      PROVE  Earned'
  <2>1. charge[g] = "settled"
    <3>1. charge' = charge \/ Release(e.gen)
      BY <1>2 DEF Step, Prepare, Mark, Submit, Answered, Record,
                  Commit, CatchBroken, CatchRefused, Requeue, Reconcile, FailJob,
                  Refund, Heartbeat, Crash, outcomeVars, endVars
    <3>2. e.gen \in Generations
      BY <1>0 DEF TypeOK, Exec
    <3> QED
      BY <1>0, <3>1, <3>2, UsageRows
  <2>2. gen'[g].asset = gen[g].asset /\ (gen'[g] = gen[g] \/ job[g].status = "dispatching")
    BY <1>0, <1>2, StepRows DEF Kept
  <2>3. gen[g].status = "cancelled" => job[g].status # "dispatching"
    BY DEF ChargeInv, CancelledLeavesQueue
  <2> QED
    BY <1>0, <1>2, <1>6, <2>1, <2>2, <2>3 DEF Next
<1>3. ASSUME NEW c \in calls, Finalize(c) \/ CallFails(c)
      PROVE  Earned'
  <2>0. c.gen \in Generations
    BY <1>0 DEF TypeOK, Call
  <2>1. charge[g] = "settled" \/ (SettleDelivered(c) /\ g = c.gen)
    BY <1>0, <1>3, <2>0, UsageRows
    DEF Finalize, Accept, ReleaseFailed, Persist, SettleDelivered, CallFails
  <2>2. SettleDelivered(c) /\ g = c.gen => gen[g].asset
    BY DEF SettleDelivered, ChargeInv, SettleHasAsset
  <2>3. /\ gen[g].asset => gen'[g].asset
        /\ gen[g].status = "cancelled" => gen'[g].status = "cancelled"
    BY <1>0, <1>3, FinalizeRows
  <2> QED
    BY <1>0, <1>3, <1>6, <2>1, <2>2, <2>3 DEF Next
<1>4. ASSUME NEW h \in Generations, GenerationStep(h)
      PROVE  Earned'
  <2>1. \/ charge[g] = "settled"
        \/ PollDelivered(h) /\ g = h
        \/ Cancel(h) /\ g = h /\ job[g].status = "dispatched"
    BY <1>0, <1>4, UsageRows
    DEF GenerationStep, Claim, Stall, Poll, PollDelivered, Age, BeginExpire,
       Expire, BeginCancel, Cancel, EndedAs,
        Finish, Notify, outcomeVars, endVars
  <2>2. /\ gen'[g].asset = gen[g].asset
        /\ TaskKept(g) => TaskKept(g)'
    <3>1. Next
      BY <1>4 DEF Next, GenerationStep
    <3> QED
      BY <1>0, <1>4, <1>6, <3>1, GenerationRowsStep
  <2>3. gen[g].status = "cancelled" => gen'[g].status = "cancelled" \/ (Cancel(h) /\ g = h)
    BY <1>0, <1>4, GenerationRowsStep
  <2>4. ASSUME Cancel(h), g = h
        PROVE  gen'[g].status = "cancelled"
    <3>1. gen[g] \in Generation
      BY <1>0 DEF TypeOK
    <3>2. gen'[g] = [gen[g] EXCEPT !.status = "cancelled",
                                   !.expired = ("cancelled" = "failed")]
      BY <1>0, <2>4 DEF Cancel, EndedAs, TypeOK
    <3> QED
      BY <3>1, <3>2 DEF Generation
  <2>5. job[g].status = "dispatched" => TaskKept(g)
    BY DEF ChargeInv, DispatchedHasTask
  <2>6. PollDelivered(h) /\ g = h => gen[g].asset
    BY DEF PollDelivered
  <2> QED
    BY <1>0, <2>1, <2>2, <2>3, <2>4, <2>5, <2>6
<1>5. CASE RecoverReceipts \/ RequeueStale
  <2>1. charge' = charge
    BY <1>5 DEF RecoverReceipts, Recover, RequeueStale, outcomeVars, endVars
  <2>2. /\ gen'[g].asset = gen[g].asset
        /\ gen[g].status = "cancelled" => gen'[g].status = "cancelled"
    BY <1>0, <1>5, DrainRows DEF Kept
  <2> QED
    BY <1>0, <1>5, <1>6, <2>1, <2>2 DEF Next
<1> QED
  BY <1>1, <1>2, <1>3, <1>4, <1>5, NextCases

\* The invariant of the charges.
LEMMA ChargeInvariant == Safe => []ChargeInv
<1>1. Init => CancelledLeavesQueue /\ SettleHasAsset
  <2>1. ASSUME Init, NEW g \in Generations
        PROVE  gen[g].status = "queued"
    BY <2>1 DEF Init
  <2>2. Init => calls = {}
    BY DEF Init
  <2> QED
    BY <2>1, <2>2 DEF CancelledLeavesQueue, SettleHasAsset
<1>2. Init => DispatchedHasTask
  BY DEF Init, DispatchedHasTask
<1>3. Init => ChargeInv
  BY <1>1, <1>2, TypeInit DEF ChargeInv
<1>4. ChargeInv /\ [Next]_vars => ChargeInv'
  BY TypeStep, DispatchStep, CancelStep, SettleStep DEF ChargeInv
<1> QED
  BY <1>3, <1>4, PTL DEF Safe

\* A user pays for a stored result, or for work the provider had taken when the
\* user cancelled it, and for nothing else (settleGeneration's callers).
THEOREM ChargedOnlyForWork == Spec => []ChargedForWork
<1>1. Init => ChargedForWork
  BY DEF Init, ChargedForWork
<1> QED
  BY <1>1, ChargeInvariant, ChargeStep, PTL DEF Spec, Safe

-----------------------------------------------------------------------------
(* What was submitted is neither given up nor begun too late.              *)

\* The generations with a receipt that no attempt has erased.
Remembered(g) == gen[g].version = 1 /\ g \notin forgotten

\* Reports and results exist of accepted tasks only.
ReportsKnown ==
  /\ \A c \in calls : Accepted(c.gen) # {}
  /\ \A g \in Generations : gen[g].asset => Accepted(g) # {}

\* An executor that is about to refund has failed its job, which stays failed.
RefundsFailed ==
  \A e \in execs : e.stage = "refund" =>
    job[e.gen].status = "failed" /\ job[e.gen].attempts = e.attempt

\* A job that may still submit the first time has an open, unpaid generation.
Unworked ==
  \A g \in Generations :
    job[g].status \in {"queued", "dispatching"} /\ Accepted(g) = {} =>
      charge[g] = "reserved" /\ gen[g].status \in Open

\* The stages that an attempt cannot leave forwards while an earlier one's
\* submission has no answer.
Held == {"claimed", "reconcile"}

\* While a submission is on its way its receipt waits for the answer, no later
\* attempt gets anywhere, and its reservation is held unless the generation was
\* being ended when it was marked.
Posted ==
  \A e \in execs : Remembered(e.gen) /\ e.stage = "posting" =>
    /\ receipt[e.gen].task = NoTask
    /\ e.gen \notin overlooked => charge[e.gen] = "reserved"
    /\ \A f \in execs : f.gen = e.gen /\ f.attempt > e.attempt => f.stage \in Held

\* The owner of a job gives up only what was never submitted.
FailsUnsent ==
  \A e \in execs : Remembered(e.gen) /\ e.stage = "fail" /\ Owns(e) =>
    \A t \in Tasks : ~ Shot(e.gen, t)

\* Whatever was submitted is failed by timeout or cancellation alone.
GivenUp ==
  \A g \in Generations :
    Remembered(g) /\ job[g].status = "failed" /\ (\E t \in Tasks : Shot(g, t)) =>
      gen[g].aged \/ gen[g].status = "cancelled"

\* The owner that submitted finds the generation open and without a task: whoever
\* binds the task or ends the generation takes the job away from it.
OwnedOpen ==
  \A e \in execs :
    Remembered(e.gen) /\ e.stage \in {"posting", "answered",
    "recorded"} /\ Owns(e) =>
      /\ gen[e.gen].task = NoTask /\ gen[e.gen].status \in Open
      /\ \A c \in calls : c.gen # e.gen

\* The receipt, once remembered, always was.
LEMMA RememberedBefore ==
  ASSUME TypeOK, EndingHeld, Next, NEW g \in Generations
  PROVE  /\ gen'[g].version = gen[g].version
         /\ forgotten \subseteq forgotten'
<1>1. ASSUME NEW e \in execs, Step(e) \/ Heartbeat(e) \/ Crash(e)
      PROVE  gen'[g].version = gen[g].version /\ forgotten \subseteq forgotten'
  <2>1. gen'[g].version = gen[g].version
    BY <1>1, StepRows DEF Kept
  <2>2. forgotten \subseteq forgotten'
    BY <1>1 DEF Step, Prepare, Mark, Submit, Answered, Record, Commit,
        CatchBroken, CatchRefused, Requeue, Reconcile, FailJob, Refund, Heartbeat,
        Crash
  <2> QED
    BY <2>1, <2>2
<1>2. ASSUME NEW c \in calls, Finalize(c) \/ CallFails(c)
      PROVE  gen'[g].version = gen[g].version /\ forgotten \subseteq forgotten'
  <2>1. gen'[g].version = gen[g].version
    BY <1>2, FinalizeRows
  <2>2. forgotten' = forgotten
    BY <1>2 DEF Finalize, Accept, ReleaseFailed, Persist, SettleDelivered, CallFails
  <2> QED
    BY <2>1, <2>2
<1>3. ASSUME NEW h \in Generations, GenerationStep(h)
      PROVE  gen'[g].version = gen[g].version /\ forgotten \subseteq forgotten'
  <2>1. gen'[g].version = gen[g].version
    BY <1>3, GenerationRowsStep
  <2>2. forgotten' = forgotten
    BY <1>3 DEF GenerationStep, Claim, Stall, Poll, PollDelivered, Age,
       BeginExpire, Expire, BeginCancel, Cancel, EndedAs,
                Finish, Notify
  <2> QED
    BY <2>1, <2>2
<1>4. CASE RecoverReceipts \/ RequeueStale
  BY <1>4, DrainRows DEF Kept, RecoverReceipts, Recover, RequeueStale
<1> QED
  BY <1>1, <1>2, <1>3, <1>4, NextCases

\* And so is a submission that a transaction overlooked.
LEMMA OverlookedStays ==
  ASSUME Next
  PROVE  overlooked \subseteq overlooked'
<1>1. ASSUME NEW e \in execs, Step(e) \/ Heartbeat(e) \/ Crash(e)
      PROVE  overlooked \subseteq overlooked'
  BY <1>1 DEF Step, Prepare, Mark, Submit, Answered, Record, Commit, CatchBroken,
     CatchRefused, Requeue, Reconcile, FailJob, Refund, Heartbeat, Crash, endVars
<1>2. ASSUME NEW c \in calls, Finalize(c) \/ CallFails(c)
      PROVE  overlooked' = overlooked
  BY <1>2 DEF Finalize, Accept, ReleaseFailed, Persist, SettleDelivered, CallFails,
     endVars
<1>3. ASSUME NEW h \in Generations, GenerationStep(h)
      PROVE  overlooked' = overlooked
  BY <1>3 DEF GenerationStep, Claim, Stall, Poll, PollDelivered, Age, BeginExpire,
     Expire, BeginCancel, Cancel, EndedAs, Finish, Notify, endVars
<1>4. CASE RecoverReceipts \/ RequeueStale
  BY <1>4 DEF RecoverReceipts, Recover, RequeueStale, endVars
<1> QED
  BY <1>1, <1>2, <1>3, <1>4, NextCases

\* An accepted task stays accepted.
LEMMA AcceptedStays ==
  ASSUME TypeOK, Next, NEW g \in Generations, Accepted(g) # {}
  PROVE  Accepted(g)' # {}
<1>1. ASSUME NEW t \in Tasks, provider[g][t] # "none"
      PROVE  provider'[g][t] # "none"
  <2>1. ASSUME NEW e \in execs, Step(e) \/ Heartbeat(e) \/ Crash(e)
        PROVE  provider'[g][t] # "none"
    BY <1>1, <2>1, StepProvider
  <2>2. ASSUME NEW c \in calls, Finalize(c) \/ CallFails(c)
        PROVE  provider' = provider
    BY <2>2 DEF Finalize, Accept, ReleaseFailed, Persist, SettleDelivered, CallFails
  <2>3. ASSUME NEW h \in Generations, GenerationStep(h)
        PROVE  provider'[g][t] # "none"
    BY <1>1, <2>3, GenerationProvider
  <2>4. CASE RecoverReceipts \/ RequeueStale
    BY <1>1, <2>4 DEF RecoverReceipts, Recover, RequeueStale
  <2> QED
    BY <1>1, <2>1, <2>2, <2>3, <2>4, NextCases
<1> QED
  BY <1>1 DEF Accepted

\* A failed job stays failed.
LEMMA FailedStays ==
  ASSUME TypeOK, EndingHeld, Next, NEW g \in Generations, job[g].status = "failed"
  PROVE  job'[g].status = "failed" /\ job'[g].attempts = job[g].attempts
<1>1. ASSUME NEW e \in execs, Step(e) \/ Heartbeat(e) \/ Crash(e)
      PROVE  job'[g].status = "failed" /\ job'[g].attempts = job[g].attempts
  BY <1>1, StepRows DEF Kept
<1>2. ASSUME NEW c \in calls, Finalize(c) \/ CallFails(c)
      PROVE  job' = job
  BY <1>2, FinalizeRows
<1>3. ASSUME NEW h \in Generations, GenerationStep(h)
      PROVE  job'[g].status = "failed" /\ job'[g].attempts = job[g].attempts
  <2>1. CASE Claim(h)
    BY <2>1 DEF Claim, TypeOK
  <2>2. CASE ~ Claim(h)
    BY <1>3, <2>2, GenerationRowsStep DEF Kept
  <2> QED
    BY <2>1, <2>2
<1>4. CASE RecoverReceipts \/ RequeueStale
  BY <1>4, DrainRows DEF Kept
<1> QED
  BY <1>1, <1>2, <1>3, <1>4, NextCases

\* Ownership that a claim gave out is never given back to it.
LEMMA OwnershipIsLost ==
  ASSUME TypeOK, EndingHeld, Next,
         NEW g \in Generations, NEW n \in Tasks, n <= job[g].attempts,
         job'[g].status = "dispatching", job'[g].attempts = n
  PROVE  job[g].status = "dispatching" /\ job[g].attempts = n
<1>0. job[g].attempts \in Nat
  BY MaxAttemptsAssumption DEF TypeOK, Job
<1>1. ASSUME NEW e \in execs, Step(e) \/ Heartbeat(e) \/ Crash(e)
      PROVE  job[g].status = "dispatching" /\ job[g].attempts = n
  BY <1>1, StepRows DEF Kept
<1>2. ASSUME NEW c \in calls, Finalize(c) \/ CallFails(c)
      PROVE  job' = job
  BY <1>2, FinalizeRows
<1>3. ASSUME NEW h \in Generations, GenerationStep(h)
      PROVE  job[g].status = "dispatching" /\ job[g].attempts = n
  <2>1. CASE Claim(h)
    <3>1. CASE g # h
      BY <2>1, <3>1 DEF Claim, TypeOK
    <3>2. CASE g = h
      <4>1. job[g] \in Job
        BY DEF TypeOK
      <4>2. job'[g].attempts = job[g].attempts + 1
        BY <2>1, <3>2, <4>1 DEF Claim, TypeOK, Job
      <4> QED
        BY <1>0, <4>2 DEF Tasks
    <3> QED
      BY <3>1, <3>2
  <2>2. CASE ~ Claim(h)
    BY <1>3, <2>2, GenerationRowsStep DEF Kept
  <2> QED
    BY <2>1, <2>2
<1>4. CASE RecoverReceipts \/ RequeueStale
  BY <1>4, DrainRows DEF Kept
<1> QED
  BY <1>1, <1>2, <1>3, <1>4, NextCases

\* A finalization stays one of its generation until it ends.
LEMMA FinalizeCalls ==
  ASSUME NEW c \in calls, c \in Call, Finalize(c) \/ CallFails(c), NEW d \in calls'
  PROVE  d \in calls \/ d.gen = c.gen
<1>1. ASSUME NEW stage, CallMoved(c, stage)
      PROVE  d \in calls \/ d.gen = c.gen
  BY <1>1 DEF CallMoved, Call
<1>2. CASE calls' \subseteq calls
  BY <1>2
<1>3. ASSUME NEW late, NEW stage,
             calls' = (calls \ {c}) \cup {[c EXCEPT !.late = late, !.stage = stage]}
      PROVE  d \in calls \/ d.gen = c.gen
  BY <1>3 DEF Call
<1>4. CASE Accept(c)
  BY <1>1, <1>2, <1>3, <1>4 DEF Accept, CallEnded
<1>5. CASE ~ Accept(c)
  BY <1>1, <1>2, <1>5
  DEF Finalize, ReleaseFailed, Persist, SettleDelivered, CallFails, CallEnded
<1> QED
  BY <1>4, <1>5

\* A new finalization is of a generation whose task is known.
LEMMA ReportsBegin ==
  ASSUME TypeInv, Next, NEW d \in calls'
  PROVE  d.gen \in Generations /\ ((\E c \in calls : c.gen = d.gen) \/ Accepted(d.gen) # {})
<1>0. TypeOK /\ calls \subseteq Call /\ TasksAccepted
  BY DEF TypeInv, TypeOK
<1>1. CASE d \in calls
  BY <1>0, <1>1 DEF Call
<1>2. ASSUME NEW h \in Generations, GenerationStep(h), d \notin calls
      PROVE  d.gen = h /\ Accepted(h) # {}
  <2>1. CASE Poll(h)
    <3>1. gen[h].task \in Tasks /\ provider[h][gen[h].task] # "none"
      <4>1. gen[h].task \in Tasks \cup {NoTask} /\ gen[h].task # NoTask
        BY <1>0, <2>1 DEF Poll, TypeOK, Generation
      <4> QED
        BY <1>0, <4>1 DEF TasksAccepted
    <3>2. \E outcome, url : Begin(h, outcome, url)
      BY <2>1 DEF Poll
    <3>3. d.gen = h
      BY <1>2, <3>2 DEF Begin
    <3> QED
      BY <3>1, <3>3 DEF Accepted
  <2>2. ASSUME NEW t \in Tasks, Notify(h, t)
        PROVE  d.gen = h /\ Accepted(h) # {}
    BY <1>2, <2>2 DEF Notify, Begin, Accepted
  <2>3. CASE ~ (Poll(h) \/ \E t \in Tasks : Notify(h, t))
    <3>1. calls' = calls
      BY <1>2, <2>3 DEF GenerationStep, Claim, Stall, PollDelivered, Age,
         BeginExpire, Expire,
                        BeginCancel, Cancel, EndedAs, Finish, outcomeVars, endVars
    <3> QED
      BY <1>2, <3>1
  <2> QED
    BY <2>1, <2>2, <2>3
<1>3. ASSUME NEW c \in calls, Finalize(c) \/ CallFails(c)
      PROVE  d \in calls \/ d.gen = c.gen
  BY <1>0, <1>3, FinalizeCalls
<1>4. ASSUME NEW e \in execs, Step(e) \/ Heartbeat(e) \/ Crash(e)
      PROVE  calls' = calls
  BY <1>4 DEF Step, Prepare, Mark, Submit, Answered, Record, Commit,
     CatchBroken, CatchRefused, Requeue, Reconcile, FailJob, Refund, Heartbeat,
     Crash,
     outcomeVars, endVars
<1>5. CASE RecoverReceipts \/ RequeueStale
  BY <1>1, <1>5 DEF RecoverReceipts, Recover, RequeueStale, outcomeVars, endVars
<1>6. \A c \in calls : c.gen \in Generations
  BY <1>0 DEF Call
<1> QED
  BY <1>1, <1>2, <1>3, <1>4, <1>5, <1>6, NextCases

LEMMA ReportsStep == TypeInv /\ ReportsKnown /\ [Next]_vars => ReportsKnown'
<1> SUFFICES ASSUME TypeInv, ReportsKnown, [Next]_vars PROVE ReportsKnown'
  OBVIOUS
<1>0. TypeOK /\ EndingHeld
  BY DEF TypeInv
<1>1. CASE UNCHANGED vars
  BY <1>1 DEF vars, ReportsKnown, Accepted
<1>2. CASE Next
  <2>1. ASSUME NEW d \in calls'
        PROVE  Accepted(d.gen)' # {}
    <3>1. d.gen \in Generations /\ Accepted(d.gen) # {}
      BY <1>2, <2>1, ReportsBegin DEF ReportsKnown
    <3> QED
      BY <1>0, <1>2, <3>1, AcceptedStays
  <2>2. ASSUME NEW g \in Generations, gen'[g].asset
        PROVE  Accepted(g)' # {}
    <3>1. gen[g].asset \/ \E c \in calls : c.gen = g
      <4>1. ASSUME NEW e \in execs, Step(e) \/ Heartbeat(e) \/ Crash(e)
            PROVE  gen[g].asset
        BY <1>0, <2>2, <4>1, StepRows DEF Kept
      <4>2. ASSUME NEW c \in calls, Finalize(c) \/ CallFails(c)
            PROVE  gen[g].asset \/ c.gen = g
        BY <1>0, <2>2, <4>2, FinalizeRows
      <4>3. ASSUME NEW h \in Generations, GenerationStep(h)
            PROVE  gen[g].asset
        BY <1>0, <2>2, <4>3, GenerationRowsStep
      <4>4. CASE RecoverReceipts \/ RequeueStale
        BY <1>0, <2>2, <4>4, DrainRows DEF Kept
      <4> QED
        BY <1>2, <4>1, <4>2, <4>3, <4>4, NextCases
    <3>2. Accepted(g) # {}
      BY <3>1 DEF ReportsKnown
    <3> QED
      BY <1>0, <1>2, <3>2, AcceptedStays
  <2> QED
    BY <2>1, <2>2 DEF ReportsKnown
<1> QED
  BY <1>1, <1>2

\* The executor of a later state is one of this state, the next stage of one, or new.
LEMMA ExecBefore ==
  ASSUME TypeOK, Next, NEW f \in execs'
  PROVE  \/ f \in execs
         \/ \E e \in execs :
              /\ Step(e) /\ f.gen = e.gen /\ f.attempt = e.attempt
              /\ Moved(e, f.stage) /\ [e EXCEPT !.stage = f.stage] \notin execs
         \/ Claim(f.gen) /\ f.stage = "claimed" /\ f.gen \in Generations
<1>0. execs \subseteq Exec
  BY DEF TypeOK
<1>1. ASSUME NEW e \in execs, Step(e) \/ Heartbeat(e) \/ Crash(e), f \notin execs
      PROVE  /\ Step(e) /\ f.gen = e.gen /\ f.attempt = e.attempt
             /\ Moved(e, f.stage) /\ [e EXCEPT !.stage = f.stage] \notin execs
  <2>1. PICK stage \in Stage : Moved(e, stage)
    BY <1>1, StepExecs
  <2>2. f.gen = e.gen /\ f.attempt = e.attempt /\ f.stage = stage
    BY <1>1, <2>1, MovedExec
  <2>3. f = [e EXCEPT !.stage = stage]
    BY <1>1, <2>1 DEF Moved
  <2>4. ~ Heartbeat(e) /\ ~ Crash(e)
    BY <1>1 DEF Heartbeat, Crash, Ended
  <2> QED
    BY <1>1, <2>1, <2>2, <2>3, <2>4
<1>2. ASSUME NEW h \in Generations, GenerationStep(h), f \notin execs
      PROVE  Claim(f.gen) /\ f.stage = "claimed" /\ f.gen \in Generations
  <2>1. Claim(h)
    BY <1>2, GenerationExecs
  <2>2. f = [gen |-> h, attempt |-> job[h].attempts + 1, stage |-> "claimed"]
    BY <1>2, <2>1 DEF Claim
  <2>3. f.gen = h /\ f.stage = "claimed"
    BY <2>2
  <2> QED
    BY <2>1, <2>3
<1>3. ASSUME NEW c \in calls, Finalize(c) \/ CallFails(c)
      PROVE  execs' = execs
  BY <1>3 DEF Finalize, Accept, ReleaseFailed, Persist, SettleDelivered, CallFails
<1>4. CASE RecoverReceipts \/ RequeueStale
  BY <1>4 DEF RecoverReceipts, Recover, RequeueStale
<1> QED
  BY <1>1, <1>2, <1>3, <1>4, NextCases

\* An executor that moved moved to one stage, and did not end.
LEMMA MovedOnce ==
  ASSUME NEW e \in execs, e \in Exec, NEW stage, Moved(e, stage),
         [e EXCEPT !.stage = stage] \notin execs
  PROVE  ~ Ended(e) /\ execs' # execs /\ \A s : Moved(e, s) => s = stage
<1>1. [e EXCEPT !.stage = stage] \in execs' /\ execs' # execs
  BY DEF Moved
<1>2. [e EXCEPT !.stage = stage].stage = stage
  BY DEF Exec
<1>3. ~ Ended(e)
  BY <1>1 DEF Ended
<1>4. \A s : Moved(e, s) => s = stage
  BY <1>1, <1>2 DEF Moved, Exec
<1> QED
  BY <1>1, <1>3, <1>4

LEMMA RefundsStep == TypeInv /\ RefundsFailed /\ [Next]_vars => RefundsFailed'
<1> SUFFICES ASSUME TypeInv, RefundsFailed, [Next]_vars,
                    NEW f \in execs', f.stage = "refund"
             PROVE  job'[f.gen].status = "failed" /\ job'[f.gen].attempts = f.attempt
  BY DEF RefundsFailed
<1>0. TypeOK /\ EndingHeld /\ execs \subseteq Exec
  BY DEF TypeInv, TypeOK
<1>1. CASE UNCHANGED vars
  BY <1>1 DEF vars, RefundsFailed
<1>2. CASE Next /\ f \in execs
  <2>1. f.gen \in Generations
    BY <1>0, <1>2 DEF Exec
  <2>2. job[f.gen].status = "failed" /\ job[f.gen].attempts = f.attempt
    BY <1>2 DEF RefundsFailed
  <2> QED
    BY <1>0, <1>2, <2>1, <2>2, FailedStays
<1>3. ASSUME NEW e \in execs, Step(e), f.gen = e.gen, f.attempt = e.attempt,
             Moved(e, f.stage), [e EXCEPT !.stage = f.stage] \notin execs
      PROVE  job'[f.gen].status = "failed" /\ job'[f.gen].attempts = f.attempt
  <2>0. e \in Exec /\ e.gen \in Generations
    BY <1>0 DEF Exec
  <2>2. \A s : Moved(e, s) => s = f.stage
    BY <1>3, <2>0, MovedOnce
  <2>3. ~ Ended(e)
    BY <1>3, <2>0, MovedOnce
  <2>4. ~ (Prepare(e) \/ Mark(e) \/ Submit(e) \/ Answered(e))
    BY <2>2 DEF Prepare, Mark, Submit, Answered
  <2>5. ~ (Record(e) \/ CatchBroken(e) \/ CatchRefused(e) \/ Commit(e) \/ Requeue(e)
           \/ Reconcile(e) \/ Refund(e))
    BY <2>2, <2>3
    DEF Record, CatchBroken, CatchRefused, Commit, Requeue, Reconcile, Refund
  <2>6. FailJob(e) /\ Owns(e)
    BY <1>3, <2>3, <2>4, <2>5 DEF Step, FailJob
  <2>7. job'[e.gen] = Parked(e.gen, "failed")
    BY <1>0, <2>0, <2>6 DEF FailJob, TypeOK
  <2>8. job'[e.gen].status = "failed" /\ job'[e.gen].attempts = job[e.gen].attempts
    BY <1>0, <2>0, <2>7, ParkedFields
  <2> QED
    BY <1>3, <2>6, <2>8 DEF Owns
<1> QED
  BY <1>0, <1>1, <1>2, <1>3, ExecBefore

\* What each action does to the reservation and to the status of a generation whose
\* job may still be claimed or submitted: nothing, unless a report came.
LEMMA UnworkedStep ==
  TypeInv /\ RefundsFailed /\ ReportsKnown /\ Unworked /\ [Next]_vars => Unworked'
<1> SUFFICES ASSUME TypeInv, RefundsFailed, ReportsKnown, Unworked, [Next]_vars,
                    NEW g \in Generations,
                    job'[g].status \in {"queued", "dispatching"}, Accepted(g)' = {}
             PROVE  charge'[g] = "reserved" /\ gen'[g].status \in Open
  BY DEF Unworked
<1>0. /\ TypeOK /\ EndingHeld /\ gen[g] \in Generation /\ job[g] \in Job
      /\ charge \in [Generations -> {"reserved", "settled", "released"}]
  BY DEF TypeInv, TypeOK
<1>1. CASE UNCHANGED vars
  BY <1>1 DEF vars, Unworked, Accepted
<1>2. Next => Accepted(g) = {}
  BY <1>0, AcceptedStays
<1>3. ASSUME Next, job[g].status \in {"queued", "dispatching"}
      PROVE  charge[g] = "reserved" /\ gen[g].status \in Open
  BY <1>2, <1>3 DEF Unworked
<1>4. ASSUME NEW e \in execs, Step(e) \/ Heartbeat(e) \/ Crash(e), Next
      PROVE  charge'[g] = "reserved" /\ gen'[g].status \in Open
  <2>0. e.gen \in Generations
    BY <1>0 DEF TypeOK, Exec
  <2>1. job[g].status \in {"queued", "dispatching"}
    BY <1>0, <1>4, StepRows
  <2>2. charge'[g] = charge[g]
    <3>1. CASE Refund(e)
      <4>1. job[e.gen].status = "failed"
        BY <3>1 DEF Refund, RefundsFailed
      <4>2. g # e.gen
        BY <2>1, <4>1
      <4> QED
        BY <1>0, <2>0, <3>1, <4>2 DEF Refund, Release
    <3>2. CASE ~ Refund(e)
      BY <1>4, <3>2 DEF Step, Prepare, Mark, Submit, Answered, Record,
         Commit, CatchBroken, CatchRefused, Requeue, Reconcile, FailJob, Heartbeat,
         Crash, outcomeVars, endVars
    <3> QED
      BY <3>1, <3>2
  <2>3. gen'[g].status \in Open
    <3>1. CASE gen'[g] = gen[g]
      BY <1>3, <1>4, <2>1, <3>1
    <3>2. CASE Requeue(e) /\ g = e.gen /\ Owns(e)
      <4>1. gen'[g] = [gen[g] EXCEPT !.status = "queued", !.expired = FALSE]
        BY <1>0, <3>2 DEF Requeue, TypeOK
      <4> QED
        BY <1>0, <4>1 DEF Generation, Open
    <3>3. ASSUME (Commit(e) \/ Reconcile(e) \/ FailJob(e)) /\ g = e.gen /\ Owns(e)
          PROVE  FALSE
      <4>1. \E s \in {"dispatched", "failed", "reconciling"} : job'[g] = Parked(g, s)
        BY <1>0, <3>3 DEF Commit, Reconcile, FailJob, TypeOK
      <4> QED
        BY <1>0, <4>1, ParkedFields
    <3>4. \/ gen'[g] = gen[g]
          \/ (Commit(e) \/ Requeue(e) \/ Reconcile(e) \/ FailJob(e)) /\ Owns(e) /\ g = e.gen
      <4>1. CASE g # e.gen
        BY <1>0, <1>4, <4>1, StepRows
      <4>2. CASE g = e.gen
        BY <1>4, <4>2 DEF Step, Prepare, Mark, Submit, Answered, Record,
           Commit, CatchBroken, CatchRefused, Requeue, Reconcile, FailJob, Refund,
           Heartbeat, Crash
      <4> QED
        BY <4>1, <4>2
    <3> QED
      BY <3>1, <3>2, <3>3, <3>4
  <2> QED
    BY <1>3, <1>4, <2>1, <2>2, <2>3
<1>5. ASSUME NEW c \in calls, Finalize(c) \/ CallFails(c), Next
      PROVE  charge'[g] = "reserved" /\ gen'[g].status \in Open
  <2>1. c.gen # g
    BY <1>2, <1>5 DEF ReportsKnown
  <2>2. charge'[g] = charge[g] /\ gen'[g] = gen[g]
    <3>1. c.gen \in Generations
      BY <1>0 DEF TypeOK, Call
    <3> QED
      BY <1>0, <1>5, <2>1, <3>1
      DEF Finalize, Accept, ReleaseFailed, Persist, SettleDelivered, CallFails,
          Release, Settle, TypeOK
  <2>3. job'[g].status = job[g].status
    BY <1>0, <1>5, FinalizeRows
  <2> QED
    BY <1>3, <1>5, <2>2, <2>3
<1>6. ASSUME NEW h \in Generations, GenerationStep(h), Next
      PROVE  charge'[g] = "reserved" /\ gen'[g].status \in Open
  <2>1. job[g].status \in {"queued", "dispatching"}
    <3>1. CASE Claim(h)
      BY <1>0, <3>1 DEF Claim, TypeOK
    <3>2. CASE ~ Claim(h)
      BY <1>0, <1>6, <3>2, GenerationRowsStep
    <3> QED
      BY <3>1, <3>2
  <2>2. CASE h # g
    <3>1. gen'[g] = gen[g] /\ charge'[g] = charge[g]
      <4>1. CASE \E t \in Tasks : Notify(h, t)
        BY <1>0, <2>2, <4>1 DEF Notify, TypeOK
      <4>2. CASE ~ \E t \in Tasks : Notify(h, t)
        BY <1>0, <1>6, <2>2, <4>2 DEF GenerationStep, Claim, Stall, Poll,
           PollDelivered,
           Age, BeginExpire, Expire, BeginCancel, Cancel, EndedAs, Finish, Release,
           Settle, TypeOK, outcomeVars, endVars
      <4> QED
        BY <4>1, <4>2
    <3> QED
      BY <1>3, <1>6, <2>1, <3>1
  <2>3. CASE h = g
    <3>1. ASSUME Expire(g) \/ Cancel(g)
          PROVE  FALSE
      <4>1. job'[g] = Parked(g, "failed")
        BY <1>0, <2>1, <3>1 DEF BeginExpire, Expire, BeginCancel, Cancel, EndedAs,
           TypeOK
      <4> QED
        BY <1>0, <4>1, ParkedFields
    <3>2. ASSUME NEW t \in Tasks, Notify(g, t)
          PROVE  FALSE
      BY <1>2, <1>6, <3>2 DEF Notify, Accepted
    <3>3. ~ PollDelivered(g)
      BY <1>2, <1>6 DEF PollDelivered, ReportsKnown
    <3>4. charge' = charge /\ (gen' = gen \/ Age(g))
      BY <1>6, <2>3, <3>1, <3>2, <3>3
      DEF GenerationStep, Claim, Stall, Poll, Age, Finish, BeginExpire, BeginCancel,
          outcomeVars, endVars
    <3>5. gen'[g].status = gen[g].status
      <4>1. CASE Age(g)
        <5>1. gen'[g] = [gen[g] EXCEPT !.aged = TRUE]
          BY <1>0, <4>1 DEF Age, TypeOK
        <5> QED
          BY <1>0, <5>1 DEF Generation
      <4> QED
        BY <3>4, <4>1
    <3> QED
      BY <1>3, <1>6, <2>1, <3>4, <3>5
  <2> QED
    BY <2>2, <2>3
<1>7. CASE (RecoverReceipts \/ RequeueStale) /\ Next
  <2>1. job[g].status \in {"queued", "dispatching"}
    BY <1>0, <1>7, DrainRows
  <2>2. charge' = charge
    BY <1>7 DEF RecoverReceipts, Recover, RequeueStale, outcomeVars, endVars
  <2>3. gen'[g].status \in Open
    <3>1. \/ gen'[g] = gen[g]
          \/ gen'[g] = [gen[g] EXCEPT !.status = "reconciling", !.expired = FALSE]
      <4>1. receipt[g].task = NoTask
        BY <1>2, <1>7 DEF TypeInv, TasksAccepted, Accepted, TypeOK, Receipt
      <4> QED
        BY <1>7, <4>1 DEF RecoverReceipts, Recover, Known, RequeueStale
    <3>2. CASE gen'[g] = [gen[g] EXCEPT !.status = "reconciling", !.expired = FALSE]
      BY <1>0, <3>2 DEF Generation, Open
    <3> QED
      BY <1>3, <1>7, <2>1, <3>1, <3>2
  <2> QED
    BY <1>3, <1>7, <2>1, <2>2, <2>3
<1> QED
  BY <1>1, <1>4, <1>5, <1>6, <1>7, NextCases

\* The first submission: the owner marks an empty receipt.
MarksFirst(e) ==
  /\ Mark(e) /\ Owns(e) /\ Moved(e, "posting")
  /\ receipt[e.gen] = [submitted |-> FALSE, task |-> NoTask]

\* A step that is no first mark adds no shot.
LEMMA ShotBefore ==
  ASSUME TypeOK, Next, NEW g \in Generations, gen[g].version = 1, NEW t \in Tasks,
         Shot(g, t)'
  PROVE  Shot(g, t) \/ \E e \in execs : MarksFirst(e) /\ e.gen = g /\ e.attempt = t
<1>0. execs \subseteq Exec
  BY DEF TypeOK
<1>1. ASSUME NEW e \in execs, Step(e) \/ Heartbeat(e) \/ Crash(e), ~ Shot(g, t)
      PROVE  MarksFirst(e) /\ e.gen = g /\ e.attempt = t
  <2>1. Mark(e) /\ e.gen = g /\ e.attempt = t
    BY <1>1, StepShots
  <2> QED
    BY <2>1 DEF Mark, MarksFirst
<1>2. ASSUME NEW c \in calls, Finalize(c) \/ CallFails(c)
      PROVE  UNCHANGED <<execs, provider>>
  BY <1>2 DEF Finalize, Accept, ReleaseFailed, Persist, SettleDelivered, CallFails
<1>3. CASE RecoverReceipts \/ RequeueStale
  BY <1>3 DEF RecoverReceipts, Recover, RequeueStale, Shot
<1>4. ASSUME NEW h \in Generations, GenerationStep(h)
      PROVE  Shot(g, t)
  <2>1. CASE provider'[g][t] # "none"
    BY <1>4, <2>1, GenerationProvider DEF Shot
  <2>2. ASSUME NEW f \in execs', f.gen = g, f.attempt = t, f.stage \in Shooting
        PROVE  f \in execs
    <3>1. execs' = execs \/ Claim(h)
      BY <1>4, GenerationExecs
    <3>2. CASE Claim(h)
      BY <2>2, <3>2 DEF Claim, Shooting
    <3> QED
      BY <2>2, <3>1, <3>2
  <2> QED
    BY <2>1, <2>2 DEF Shot
<1>5. CASE UNCHANGED <<execs, provider>>
  BY <1>5 DEF Shot
<1> QED
  BY <1>1, <1>2, <1>3, <1>4, <1>5, NextCases

\* What the proofs below have in common.
SubmitInv ==
  /\ TypeInv /\ AttemptsInv /\ ShotInv /\ CancelledLeavesQueue
  /\ ReportsKnown /\ RefundsFailed /\ Unworked

\* Two executors of one generation are one when both own its job.
LEMMA OneOwnerOfJob ==
  ASSUME AttemptsInv, NEW e \in execs, NEW f \in execs, e.gen = f.gen, Owns(e),
  Owns(f)
  PROVE  e = f
BY DEF AttemptsInv, ExecUnique, Owns

\* An executor that owns its job after a step owned it before, in its former stage.
LEMMA OwnedBefore ==
  ASSUME TypeOK, EndingHeld, AttemptsInv, Next, NEW e \in execs, NEW f,
         f.gen = e.gen, f.attempt = e.attempt, Owns(f)'
  PROVE  Owns(e)
<1>1. e.gen \in Generations /\ e.attempt \in Tasks /\ e.attempt <= job[e.gen].attempts
  BY DEF TypeOK, Exec, AttemptsInv, AttemptsIssued
<1>2. job'[e.gen].status = "dispatching" /\ job'[e.gen].attempts = e.attempt
  BY DEF Owns
<1> QED
  BY <1>1, <1>2, OwnershipIsLost DEF Owns

\* A refused submission leaves no shot behind.
LEMMA RefusalClears ==
  ASSUME SubmitInv, Next, NEW e \in execs, CatchRefused(e), e.stage = "posting",
         Moved(e, "fail"), Remembered(e.gen), NEW t \in Tasks
  PROVE  ~ Shot(e.gen, t)'
<1> DEFINE g == e.gen
<1>0. /\ TypeOK /\ AttemptsInv /\ ShotInv /\ g \in Generations /\ e.attempt \in Tasks
      /\ execs \subseteq Exec
  BY DEF SubmitInv, TypeInv, TypeOK, Exec
<1>1. Shot(g, e.attempt)
  BY DEF Shot, Shooting
<1>2. Shot(g, t) => t = e.attempt
  BY <1>0, <1>1 DEF ShotInv, Remembered
<1>3. provider'[g][e.attempt] = "none"
  <2>1. provider[g][e.attempt] = "none"
    BY <1>0 DEF AttemptsInv, Unsubmitted, Unanswered, Shooting
  <2> QED
    BY <2>1 DEF CatchRefused
<1>4. ASSUME Shot(g, t)'
      PROVE  FALSE
  <2>1. Step(e)
    BY DEF Step
  <2>2. Shot(g, t)
    BY <1>0, <1>4, <2>1, StepShots DEF Mark, Remembered
  <2>3. t = e.attempt
    BY <1>2, <2>2
  <2>4. PICK f \in execs' : f.gen = g /\ f.attempt = t /\ f.stage \in Shooting
    BY <1>3, <1>4, <2>3 DEF Shot
  <2>5. f \in execs \ {e}
    BY <1>0, <2>4, MovedExec DEF Shooting
  <2> QED
    BY <1>0, <2>3, <2>4, <2>5 DEF AttemptsInv, ExecUnique
<1> QED
  BY <1>4

LEMMA FailsUnsentStep == SubmitInv /\ FailsUnsent /\ [Next]_vars => FailsUnsent'
<1> SUFFICES ASSUME SubmitInv, FailsUnsent, [Next]_vars, NEW f \in execs',
                    Remembered(f.gen)', f.stage = "fail", Owns(f)', NEW t \in Tasks
             PROVE  ~ Shot(f.gen, t)'
  BY DEF FailsUnsent
<1>0. /\ TypeOK /\ EndingHeld /\ AttemptsInv /\ ShotInv /\ execs \subseteq Exec
      /\ \A e \in execs : e.gen \in Generations /\ e.attempt \in Tasks
  BY DEF SubmitInv, TypeInv, TypeOK, Exec
<1>1. CASE UNCHANGED vars
  <2>1. f \in execs /\ Remembered(f.gen) /\ Owns(f) /\ (Shot(f.gen,
  t)' <=> Shot(f.gen, t))
    BY <1>1 DEF vars, Remembered, Owns, Shot
  <2> QED
    BY <2>1 DEF FailsUnsent
<1>2. ASSUME Next, f.gen \in Generations
      PROVE  Remembered(f.gen)
  BY <1>0, <1>2, RememberedBefore DEF Remembered
<1>3. CASE Next /\ f \in execs
  <2>1. Owns(f) /\ Remembered(f.gen)
    BY <1>0, <1>2, <1>3, OwnedBefore
  <2>2. ~ Shot(f.gen, t)
    BY <1>3, <2>1 DEF FailsUnsent
  <2>3. ASSUME NEW e \in execs, MarksFirst(e), e.gen = f.gen
        PROVE  FALSE
    <3>1. e = f
      BY <1>0, <1>3, <2>1, <2>3, OneOwnerOfJob DEF MarksFirst
    <3> QED
      BY <2>3, <3>1 DEF MarksFirst, Mark
  <2> QED
    BY <1>0, <1>3, <2>1, <2>2, <2>3, ShotBefore DEF Remembered
<1>4. ASSUME Next, NEW e \in execs, Step(e), f.gen = e.gen, f.attempt = e.attempt,
             Moved(e, f.stage), [e EXCEPT !.stage = f.stage] \notin execs
      PROVE  ~ Shot(f.gen, t)'
  <2>0. e \in Exec /\ Remembered(e.gen) /\ Moved(e, "fail")
    BY <1>0, <1>2, <1>4
  <2>1. \A s : Moved(e, s) => s = "fail"
    BY <1>4, <2>0, MovedOnce
  <2>2. ~ Ended(e)
    BY <1>4, <2>0, MovedOnce
  <2>3. ~ (Prepare(e) \/ Mark(e) \/ Submit(e) \/ Answered(e))
    BY <2>1 DEF Prepare, Mark, Submit, Answered
  <2>4. ~ (Record(e) \/ Commit(e) \/ Requeue(e) \/ Reconcile(e) \/ Refund(e) \/ FailJob(e))
    BY <2>1, <2>2 DEF Record, Commit, Requeue, Reconcile, Refund, FailJob
  <2>5. CatchBroken(e) \/ CatchRefused(e)
    BY <1>4, <2>3, <2>4 DEF Step
  <2>6. CASE CatchBroken(e)
    <3>1. ~ receipt[e.gen].submitted
      BY <2>0, <2>1, <2>6 DEF CatchBroken, Remembered
    <3>2. ~ Shot(e.gen, t)
      BY <1>0, <2>0, <3>1 DEF ShotInv, Remembered
    <3> QED
      BY <1>0, <1>4, <2>0, <2>3, <3>2, StepShots DEF Remembered
  <2>7. CASE CatchRefused(e)
    <3>1. e.stage = "posting"
      BY <2>1, <2>7 DEF CatchRefused
    <3> QED
      BY <1>4, <2>0, <2>7, <3>1, RefusalClears
  <2> QED
    BY <2>5, <2>6, <2>7
<1>5. ~ (Claim(f.gen) /\ f.stage = "claimed")
  OBVIOUS
<1> QED
  BY <1>0, <1>1, <1>3, <1>4, <1>5, ExecBefore

\* Before the first mark the provider has accepted nothing.
LEMMA NothingBeforeMark ==
  ASSUME SubmitInv, NEW e \in execs, MarksFirst(e), Remembered(e.gen)
  PROVE  /\ Accepted(e.gen) = {} /\ gen[e.gen].task = NoTask
         /\ charge[e.gen] = "reserved" /\ gen[e.gen].status \in Open
         /\ \A c \in calls : c.gen # e.gen
<1>0. /\ TypeOK /\ ShotInv /\ TasksAccepted /\ e.gen \in Generations
  BY DEF SubmitInv, TypeInv, TypeOK, Exec
<1>1. ~ receipt[e.gen].submitted
  BY DEF MarksFirst
<1>2. Accepted(e.gen) = {}
  BY <1>0, <1>1 DEF ShotInv, Shot, Accepted, Remembered
<1>3. gen[e.gen].task = NoTask
  BY <1>0, <1>2 DEF TasksAccepted, Accepted, TypeOK, Generation
<1>4. charge[e.gen] = "reserved" /\ gen[e.gen].status \in Open
  BY <1>0, <1>2 DEF SubmitInv, Unworked, MarksFirst, Owns
<1>5. \A c \in calls : c.gen # e.gen
  BY <1>2 DEF SubmitInv, ReportsKnown
<1> QED
  BY <1>2, <1>3, <1>4, <1>5

\* What the owner found stays so while it owns its job.
LEMMA OwnedStays ==
  ASSUME SubmitInv, Next, NEW g \in Generations,
         gen[g].version = 1, job'[g].status = "dispatching",
         job[g].status = "dispatching",
         gen[g].task = NoTask, gen[g].status \in Open, \A c \in calls : c.gen # g
  PROVE  /\ gen'[g].task = NoTask /\ gen'[g].status \in Open
         /\ \A c \in calls' : c.gen # g
<1>0. /\ TypeOK /\ gen[g] \in Generation
      /\ job[g] \in Job /\ receipt[g] \in Receipt
  BY DEF SubmitInv, TypeInv, TypeOK
<1>1. CASE gen'[g] = gen[g] /\ calls' = calls
  BY <1>1
<1>2. ASSUME NEW e \in execs, Step(e) \/ Heartbeat(e) \/ Crash(e)
      PROVE  gen'[g] = gen[g] /\ calls' = calls
  <2>0. e.gen \in Generations
    BY <1>0 DEF TypeOK, Exec
  <2>1. calls' = calls
    BY <1>2 DEF Step, Prepare, Mark, Submit, Answered, Record, Commit,
       CatchBroken, CatchRefused, Requeue, Reconcile, FailJob, Refund, Heartbeat,
       Crash,
       outcomeVars, endVars
  <2>2. ASSUME (Commit(e) \/ Requeue(e) \/ Reconcile(e) \/ FailJob(e)) /\ g = e.gen
                 /\ Owns(e)
        PROVE  FALSE
    <3>1. \E s \in {"dispatched", "failed", "reconciling",
    "queued"} : job'[g] = Parked(g, s)
      BY <1>0, <2>2 DEF Commit, Requeue, Reconcile, FailJob, TypeOK
    <3> QED
      BY <1>0, <3>1, ParkedFields
  <2>3. CASE g # e.gen
    BY <1>0, <1>2, <2>1, <2>3, StepRows
  <2>4. CASE g = e.gen
    BY <1>2, <2>1, <2>2, <2>4
    DEF Step, Prepare, Mark, Submit, Answered, Record, Commit,
        CatchBroken, CatchRefused, Requeue, Reconcile, FailJob, Refund, Heartbeat,
        Crash
  <2> QED
    BY <2>3, <2>4
<1>3. ASSUME NEW c \in calls, Finalize(c) \/ CallFails(c)
      PROVE  gen'[g] = gen[g] /\ \A d \in calls' : d.gen # g
  <2>1. c.gen # g /\ c \in Call /\ c.gen \in Generations
    BY <1>0 DEF TypeOK, Call
  <2>2. gen'[g] = gen[g]
    BY <1>0, <1>3, <2>1
    DEF Finalize, Accept, ReleaseFailed, Persist, SettleDelivered, CallFails, TypeOK
  <2>3. \A d \in calls' : d.gen # g
    BY <1>3, <2>1, FinalizeCalls
  <2> QED
    BY <2>2, <2>3
<1>4. ASSUME NEW h \in Generations, GenerationStep(h)
      PROVE  /\ gen'[g].task = NoTask /\ gen'[g].status \in Open
             /\ \A c \in calls' : c.gen # g
  <2>1. ASSUME h # g
        PROVE  gen'[g] = gen[g] /\ \A c \in calls' : c.gen # g
    <3>1. gen'[g] = gen[g]
      <4>1. CASE \E t \in Tasks : Notify(h, t)
        BY <1>0, <2>1, <4>1 DEF Notify, TypeOK
      <4>2. CASE ~ \E t \in Tasks : Notify(h, t)
        BY <1>0, <1>4, <2>1, <4>2 DEF GenerationStep, Claim, Stall, Poll,
           PollDelivered,
           Age, BeginExpire, Expire, BeginCancel, Cancel, EndedAs, Finish, TypeOK,
           outcomeVars, endVars
      <4> QED
        BY <4>1, <4>2
    <3>2. ASSUME NEW c \in calls'
          PROVE  c.gen # g
      <4>1. CASE Poll(h) \/ \E t \in Tasks : Notify(h, t)
        <5>1. \E outcome, url : Begin(h, outcome, url)
          BY <4>1 DEF Poll, Notify
        <5> QED
          BY <2>1, <3>2, <5>1 DEF Begin
      <4>2. CASE ~ (Poll(h) \/ \E t \in Tasks : Notify(h, t))
        <5>1. calls' = calls
          BY <1>4, <4>2 DEF GenerationStep, Claim, Stall, PollDelivered, Age,
             BeginExpire, Expire,
             BeginCancel, Cancel, EndedAs, Finish, outcomeVars, endVars
        <5> QED
          BY <3>2, <5>1
      <4> QED
        BY <4>1, <4>2
    <3> QED
      BY <3>1, <3>2
  <2>2. CASE h = g
    <3>1. ASSUME NEW s \in {"failed", "dispatched"}, job'[g] = Parked(g, s)
          PROVE  FALSE
      BY <1>0, <3>1, ParkedFields
    <3>2. ~ Expire(g) /\ ~ Cancel(g)
      BY <1>0, <3>1 DEF BeginExpire, Expire, BeginCancel, Cancel, EndedAs, TypeOK
    <3>3. ASSUME NEW t \in Tasks, Notify(g, t)
          PROVE  FALSE
      <4>1. t # NoTask
        BY DEF Tasks, NoTask
      <4>2. job' = [job EXCEPT ![g] = Parked(g, "dispatched")]
        BY <3>3, <4>1 DEF Notify
      <4>3. job'[g] = Parked(g, "dispatched")
        BY <1>0, <4>2 DEF TypeOK
      <4> QED
        BY <3>1, <4>3
    <3>4. ~ Poll(g)
      BY DEF Poll
    <3>5. calls' = calls /\ (gen' = gen \/ Age(g))
      BY <1>4, <2>2, <3>2, <3>3, <3>4
      DEF GenerationStep, Claim, Stall, PollDelivered, Age, Finish, BeginExpire,
          BeginCancel, outcomeVars, endVars
    <3>6. CASE Age(g)
      <4>1. gen'[g] = [gen[g] EXCEPT !.aged = TRUE]
        BY <1>0, <3>6 DEF Age, TypeOK
      <4>2. gen'[g].task = gen[g].task /\ gen'[g].status = gen[g].status
        BY <1>0, <4>1 DEF Generation
      <4> QED
        BY <3>5, <4>2
    <3> QED
      BY <3>5, <3>6
  <2> QED
    BY <2>1, <2>2
<1>5. CASE RecoverReceipts \/ RequeueStale
  <2>1. calls' = calls
    BY <1>5 DEF RecoverReceipts, Recover, RequeueStale, outcomeVars, endVars
  <2>2. CASE RequeueStale
    BY <2>1, <2>2 DEF RequeueStale
  <2>3. CASE RecoverReceipts
    <3>1. receipt[g].task = NoTask
      <4>1. ASSUME receipt[g].task # NoTask
            PROVE  FALSE
        <5>1. job'[g] = Parked(g, "dispatched")
          BY <2>3, <4>1 DEF RecoverReceipts, Recover, Known
        <5> QED
          BY <1>0, <5>1, ParkedFields
      <4> QED
        BY <4>1
    <3>2. \/ gen'[g] = gen[g]
          \/ gen'[g] = [gen[g] EXCEPT !.status = "reconciling", !.expired = FALSE]
      BY <2>3, <3>1 DEF RecoverReceipts, Recover, Known
    <3>3. CASE gen'[g] = [gen[g] EXCEPT !.status = "reconciling", !.expired = FALSE]
      <4>1. gen'[g].task = gen[g].task /\ gen'[g].status = "reconciling"
        BY <1>0, <3>3 DEF Generation
      <4> QED
        BY <2>1, <4>1 DEF Open
    <3> QED
      BY <2>1, <3>2, <3>3
  <2> QED
    BY <1>5, <2>2, <2>3
<1> QED
  BY <1>2, <1>3, <1>4, <1>5, NextCases

LEMMA OwnedOpenStep == SubmitInv /\ OwnedOpen /\ [Next]_vars => OwnedOpen'
<1> SUFFICES ASSUME SubmitInv, OwnedOpen, [Next]_vars, NEW f \in execs',
                    Remembered(f.gen)', Owns(f)',
                    f.stage \in {"posting", "answered", "recorded"}
             PROVE  /\ gen'[f.gen].task = NoTask /\ gen'[f.gen].status \in Open
                    /\ \A c \in calls' : c.gen # f.gen
  BY DEF OwnedOpen
<1>0. /\ TypeOK /\ EndingHeld /\ AttemptsInv /\ execs \subseteq Exec
      /\ \A e \in execs : e.gen \in Generations /\ e.attempt \in Tasks
  BY DEF SubmitInv, TypeInv, TypeOK, Exec
<1>1. CASE UNCHANGED vars
  BY <1>1 DEF vars, OwnedOpen, Remembered, Owns
<1>2. ASSUME Next, NEW e \in execs, f.gen = e.gen, f.attempt = e.attempt
      PROVE  Owns(e) /\ Remembered(e.gen)
  BY <1>0, <1>2, OwnedBefore, RememberedBefore DEF Remembered
<1>3. ASSUME Next, NEW e \in execs, f.gen = e.gen, f.attempt = e.attempt,
             MarksFirst(e) \/ e.stage \in {"posting", "answered", "recorded"}
      PROVE  /\ gen'[f.gen].task = NoTask /\ gen'[f.gen].status \in Open
             /\ \A c \in calls' : c.gen # f.gen
  <2>1. Owns(e) /\ Remembered(e.gen) /\ e.gen \in Generations
    BY <1>0, <1>2, <1>3
  <2>2. /\ gen[e.gen].task = NoTask /\ gen[e.gen].status \in Open
        /\ \A c \in calls : c.gen # e.gen
    BY <1>3, <2>1, NothingBeforeMark DEF OwnedOpen
  <2>3. gen[e.gen].version = 1 /\ job[e.gen].status = "dispatching"
        /\ job'[e.gen].status = "dispatching"
    BY <1>3, <2>1 DEF Remembered, Owns
  <2> QED
    BY <1>3, <2>1, <2>2, <2>3, OwnedStays
<1>4. CASE Next /\ f \in execs
  BY <1>3, <1>4
<1>5. ASSUME Next, NEW e \in execs, Step(e), f.gen = e.gen, f.attempt = e.attempt,
             Moved(e, f.stage), [e EXCEPT !.stage = f.stage] \notin execs
      PROVE  MarksFirst(e) \/ e.stage \in {"posting", "answered", "recorded"}
  <2>1. e \in Exec /\ Remembered(e.gen)
    BY <1>0, <1>2, <1>5
  <2>2. (\A s : Moved(e, s) => s = f.stage) /\ ~ Ended(e)
    BY <1>5, <2>1, MovedOnce
  <2>3. ~ (Prepare(e) \/ Submit(e))
    BY <2>1, <2>2 DEF Prepare, Submit, Remembered
  <2>4. ~ (Commit(e) \/ Requeue(e) \/ Reconcile(e) \/ Refund(e) \/ FailJob(e)
           \/ CatchBroken(e) \/ CatchRefused(e))
    BY <2>2 DEF Commit, Requeue, Reconcile, Refund, FailJob, CatchBroken,
       CatchRefused
  <2>5. CASE Mark(e)
    BY <2>5 DEF Mark, MarksFirst
  <2>6. CASE Answered(e) \/ Record(e)
    BY <2>6 DEF Answered, Record
  <2> QED
    BY <1>5, <2>3, <2>4, <2>5, <2>6 DEF Step
<1>6. ~ (Claim(f.gen) /\ f.stage = "claimed")
  OBVIOUS
<1> QED
  BY <1>0, <1>1, <1>3, <1>4, <1>5, <1>6, ExecBefore

\* Age and cancellation stay.
LEMMA GivenUpStays ==
  ASSUME TypeOK, EndingHeld, CancelledLeavesQueue, Next, NEW g \in Generations
  PROVE  /\ gen[g].aged => gen'[g].aged
         /\ gen[g].status = "cancelled" => gen'[g].status = "cancelled"
<1>0. gen[g] \in Generation /\ receipt[g] \in Receipt
  BY DEF TypeOK
<1>1. gen[g].status = "cancelled" => gen'[g].status = "cancelled"
  <2>1. ASSUME NEW e \in execs, Step(e) \/ Heartbeat(e) \/ Crash(e),
               gen[g].status = "cancelled"
        PROVE  gen'[g].status = "cancelled"
    <3>1. job[g].status # "dispatching"
      BY <2>1 DEF CancelledLeavesQueue
    <3> QED
      BY <2>1, <3>1, StepRows
  <2>2. ASSUME NEW h \in Generations, GenerationStep(h), gen[g].status = "cancelled"
        PROVE  gen'[g].status = "cancelled"
    <3>1. ~ (Cancel(h) /\ g = h)
      BY <2>2 DEF Cancel, EndingHeld, MayCancel
    <3> QED
      BY <2>2, <3>1, GenerationRowsStep
  <2> QED
    BY <2>1, <2>2, FinalizeRows, DrainRows, NextCases
<1>2. ASSUME NEW e \in execs, Step(e) \/ Heartbeat(e) \/ Crash(e)
      PROVE  gen'[g].aged = gen[g].aged
  <2>0. e.gen \in Generations /\ e.attempt \in Tasks
    BY DEF TypeOK, Exec
  <2>1. CASE g # e.gen
    BY <1>2, <2>1, StepRows DEF Kept
  <2>2. CASE Commit(e) /\ g = e.gen
    <3>1. \/ gen'[g] = gen[g]
          \/ gen'[g] = [gen[g] EXCEPT !.task = e.attempt, !.status = "waiting",
                                      !.expired = FALSE]
          \/ gen'[g] = [gen[g] EXCEPT !.task = IF @ = NoTask THEN e.attempt ELSE @]
      BY <2>2 DEF Commit, TypeOK
    <3> QED
      BY <1>0, <3>1 DEF Generation
  <2>3. CASE (Requeue(e) \/ Reconcile(e) \/ FailJob(e)) /\ g = e.gen
    <3>1. \/ gen'[g] = gen[g]
          \/ gen'[g] = [gen[g] EXCEPT !.status = "queued", !.expired = FALSE]
          \/ gen'[g] = [gen[g] EXCEPT !.status = "reconciling", !.expired = FALSE]
          \/ gen'[g] = [gen[g] EXCEPT !.status = "failed", !.expired = FALSE]
      BY <2>3 DEF Requeue, Reconcile, FailJob, TypeOK
    <3> QED
      BY <1>0, <3>1 DEF Generation
  <2> QED
    BY <1>2, <2>1, <2>2, <2>3
    DEF Step, Prepare, Mark, Submit, Answered, Record,
        CatchBroken, CatchRefused, Refund, Heartbeat, Crash
<1>3. ASSUME NEW c \in calls, Finalize(c) \/ CallFails(c)
      PROVE  gen'[g].aged = gen[g].aged
  <2>1. CASE Accept(c) /\ ~ Ignored(c) /\ g = c.gen
    <3>1. gen'[g] = [gen[g] EXCEPT !.status = StatusOf(c.outcome),
                                   !.url = gen[g].url \/ c.url, !.expired = FALSE]
      BY <2>1 DEF Accept, TypeOK
    <3> QED
      BY <1>0, <3>1 DEF Generation
  <2>2. CASE Persist(c) /\ g = c.gen
    <3>1. gen'[g] = [gen[g] EXCEPT !.asset = TRUE, !.url = TRUE]
      BY <2>2 DEF Persist, TypeOK
    <3> QED
      BY <1>0, <3>1 DEF Generation
  <2>3. CASE g # c.gen \/ gen' = gen
    BY <1>3, <2>3
    DEF Finalize, Accept, ReleaseFailed, Persist, SettleDelivered, CallFails, TypeOK
  <2> QED
    BY <1>3, <2>1, <2>2, <2>3
    DEF Finalize, Accept, ReleaseFailed, Persist, SettleDelivered, CallFails
<1>4. ASSUME NEW h \in Generations, GenerationStep(h)
      PROVE  gen[g].aged => gen'[g].aged
  <2>1. ASSUME NEW t \in Tasks, Notify(h, t)
        PROVE  gen'[g].aged = gen[g].aged
    <3>1. \/ gen'[g] = gen[g]
          \/ gen'[g] = [gen[g] EXCEPT !.task = IF @ = NoTask THEN t ELSE @]
      BY <2>1 DEF Notify, TypeOK
    <3> QED
      BY <1>0, <3>1 DEF Generation
  <2>2. CASE Expire(h) \/ Cancel(h)
    <3>1. \/ gen'[g] = gen[g]
          \/ gen'[g] = [gen[g] EXCEPT !.status = "failed",
                                      !.expired = ("failed" = "failed")]
          \/ gen'[g] = [gen[g] EXCEPT !.status = "cancelled",
                                      !.expired = ("cancelled" = "failed")]
      <4>1. CASE g # h
        BY <2>2, <4>1 DEF Expire, Cancel, EndedAs, TypeOK
      <4>2. CASE Expire(h) /\ g = h
        BY <4>2 DEF Expire, EndedAs, TypeOK
      <4>3. CASE Cancel(h) /\ g = h
        BY <4>3 DEF Cancel, EndedAs, TypeOK
      <4> QED
        BY <2>2, <4>1, <4>2, <4>3
    <3> QED
      BY <1>0, <3>1 DEF Generation
  <2>3. CASE Age(h)
    <3>1. gen'[g] = gen[g] \/ gen'[g] = [gen[g] EXCEPT !.aged = TRUE]
      BY <2>3 DEF Age, TypeOK
    <3> QED
      BY <1>0, <3>1 DEF Generation
  <2>4. CASE gen' = gen
    BY <2>4
  <2>5. \/ gen' = gen \/ Expire(h) \/ Cancel(h) \/ Age(h)
        \/ \E t \in Tasks : Notify(h, t)
    BY <1>4 DEF GenerationStep, Claim, Stall, Poll, PollDelivered, Finish,
       BeginExpire, BeginCancel
  <2> QED
    BY <2>1, <2>2, <2>3, <2>4, <2>5
<1>5. CASE RequeueStale
  BY <1>5 DEF RequeueStale
<1>6. CASE RecoverReceipts
  <2>1. \/ gen'[g] = gen[g]
        \/ gen'[g] = [gen[g] EXCEPT !.task = receipt[g].task,
                        !.status = IF @ = "reconciling" THEN "waiting" ELSE @]
        \/ gen'[g] = [gen[g] EXCEPT !.status = "reconciling", !.expired = FALSE]
    BY <1>6 DEF RecoverReceipts, Recover
  <2>2. gen'[g].aged = gen[g].aged
    BY <1>0, <2>1 DEF Generation
  <2> QED
    BY <1>1, <2>2
<1> QED
  BY <1>1, <1>2, <1>3, <1>4, <1>5, <1>6, NextCases

LEMMA GivenUpStep == SubmitInv /\ FailsUnsent /\ OwnedOpen /\ GivenUp /\ [Next]_vars => GivenUp'
<1> SUFFICES ASSUME SubmitInv, FailsUnsent, OwnedOpen, GivenUp, [Next]_vars,
                    NEW g \in Generations, Remembered(g)', job'[g].status = "failed",
                    NEW t \in Tasks, Shot(g, t)'
             PROVE  gen'[g].aged \/ gen'[g].status = "cancelled"
  BY DEF GivenUp
<1>0. /\ TypeOK /\ EndingHeld /\ CancelledLeavesQueue /\ AttemptsInv
      /\ gen[g] \in Generation
      /\ job[g] \in Job
  BY DEF SubmitInv, TypeInv, TypeOK
<1>1. CASE UNCHANGED vars
  BY <1>1 DEF vars, GivenUp, Remembered, Shot
<1>2. Next => Remembered(g)
  BY <1>0, RememberedBefore DEF Remembered
<1>3. ASSUME Next, gen[g].aged \/ gen[g].status = "cancelled"
      PROVE  gen'[g].aged \/ gen'[g].status = "cancelled"
  BY <1>0, <1>3, GivenUpStays
<1>4. ASSUME Next, job[g].status = "failed"
      PROVE  gen[g].aged \/ gen[g].status = "cancelled"
  <2>1. Shot(g, t)
    <3>1. ASSUME NEW e \in execs, MarksFirst(e), e.gen = g
          PROVE  FALSE
      BY <1>4, <3>1 DEF MarksFirst, Owns
    <3> QED
      BY <1>0, <1>2, <1>4, <3>1, ShotBefore DEF Remembered
  <2> QED
    BY <1>2, <1>4, <2>1 DEF GivenUp
<1>5. ASSUME NEW e \in execs, Step(e) \/ Heartbeat(e) \/ Crash(e), Next,
             job[g].status # "failed"
      PROVE  FALSE
  <2>0. e.gen \in Generations /\ e.attempt \in Tasks
    BY <1>0 DEF TypeOK, Exec
  <2>1. (Commit(e) \/ FailJob(e)) /\ Owns(e) /\ g = e.gen
    <3>1. CASE Heartbeat(e)
      <4>1. job'[g] = job[g] \/ job'[g] = [job[g] EXCEPT !.stale = FALSE]
        BY <1>0, <3>1 DEF Heartbeat, TypeOK
      <4> QED
        BY <1>0, <1>5, <4>1 DEF Job
    <3>2. CASE job' = job
      BY <1>5, <3>2
    <3>3. ASSUME (Requeue(e) \/ Reconcile(e)) /\ Owns(e)
          PROVE  FALSE
      <4>1. \/ job'[g] = job[g]
            \/ job'[g] = Parked(g, "queued") \/ job'[g] = Parked(g, "reconciling")
        BY <1>0, <3>3 DEF Requeue, Reconcile, TypeOK
      <4> QED
        BY <1>0, <1>5, <4>1, ParkedFields
    <3>4. (Commit(e) \/ FailJob(e)) /\ Owns(e)
      BY <1>5, <3>1, <3>2, <3>3
      DEF Step, Prepare, Mark, Submit, Answered, Record, Commit,
          CatchBroken, CatchRefused, Requeue, Reconcile, FailJob, Refund, Crash
    <3>5. g = e.gen
      BY <1>0, <1>5, <2>0, <3>4 DEF Commit, FailJob, TypeOK
    <3> QED
      BY <3>4, <3>5
  <2>2. CASE FailJob(e)
    <3>1. ~ Shot(g, t)
      BY <1>2, <1>5, <2>1, <2>2 DEF FailsUnsent, FailJob
    <3> QED
      BY <1>0, <1>2, <1>5, <2>2, <3>1, StepShots DEF FailJob, Mark, Remembered
  <2>3. CASE Commit(e)
    <3>1. gen[g].status \in Open
      BY <1>2, <1>5, <2>1, <2>3 DEF OwnedOpen, Commit
    <3>2. job'[g] = Parked(g, "dispatched")
      BY <1>0, <2>1, <2>3, <3>1 DEF Commit, TypeOK
    <3> QED
      BY <1>0, <3>2, ParkedFields
  <2> QED
    BY <2>1, <2>2, <2>3
<1>6. ASSUME NEW c \in calls, Finalize(c) \/ CallFails(c)
      PROVE  job' = job
  BY <1>0, <1>6, FinalizeRows
<1>7. ASSUME NEW h \in Generations, GenerationStep(h), Next, job[g].status # "failed"
      PROVE  gen'[g].aged \/ gen'[g].status = "cancelled"
  <2>1. ASSUME Expire(g)
        PROVE  gen[g].aged
    BY <1>0, <2>1 DEF Expire, EndingHeld, MayExpire
  <2>2. ASSUME Cancel(g)
        PROVE  gen'[g].status = "cancelled"
    <3>1. gen'[g] = [gen[g] EXCEPT !.status = "cancelled",
                                   !.expired = ("cancelled" = "failed")]
      BY <1>0, <2>2 DEF Cancel, EndedAs, TypeOK
    <3> QED
      BY <1>0, <3>1 DEF Generation
  <2>3. ASSUME ~ (h = g /\ (Expire(g) \/ Cancel(g)))
        PROVE  FALSE
    <3>1. CASE Claim(h)
      <4>1. CASE g # h
        BY <1>0, <1>7, <3>1, <4>1 DEF Claim, TypeOK
      <4>2. CASE g = h
        <5>1. job'[g] = [job[g] EXCEPT !.status = "dispatching",
                           !.attempts = job[g].attempts + 1, !.stale = FALSE]
          BY <1>0, <3>1, <4>2 DEF Claim, TypeOK
        <5> QED
          BY <1>0, <5>1 DEF Job
      <4> QED
        BY <4>1, <4>2
    <3>2. CASE Stall(h)
      <4>1. job'[g] = job[g] \/ job'[g] = [job[g] EXCEPT !.stale = TRUE]
        BY <1>0, <3>2 DEF Stall, TypeOK
      <4> QED
        BY <1>0, <1>7, <4>1 DEF Job
    <3>3. ASSUME NEW u \in Tasks, Notify(h, u)
          PROVE  FALSE
      <4>1. job'[g] = job[g] \/ job'[g] = Parked(g, "dispatched")
        BY <1>0, <3>3 DEF Notify, TypeOK
      <4> QED
        BY <1>0, <1>7, <4>1, ParkedFields
    <3>4. CASE (Expire(h) \/ Cancel(h)) /\ h # g
      BY <1>0, <1>7, <3>4 DEF BeginExpire, Expire, BeginCancel, Cancel, EndedAs,
         TypeOK
    <3> QED
      BY <1>7, <2>3, <3>1, <3>2, <3>3, <3>4
      DEF GenerationStep, Poll, PollDelivered, Age, Finish, BeginExpire, BeginCancel
  <2> QED
    BY <1>3, <1>7, <2>1, <2>2, <2>3
<1>8. CASE RecoverReceipts \/ RequeueStale
  <2>1. job[g].status = "failed"
    BY <1>0, <1>8, DrainRows
  <2> QED
    BY <1>3, <1>4, <1>8, <2>1 DEF Next
<1> QED
  BY <1>1, <1>3, <1>4, <1>5, <1>6, <1>7, <1>8, NextCases

\* While a submission is on its way nothing of its generation is accepted,
\* reported or stored, and its receipt is uncertain.
LEMMA PostingUnanswered ==
  ASSUME SubmitInv, Posted, NEW f \in execs, f.stage = "posting", Remembered(f.gen)
  PROVE  /\ Accepted(f.gen) = {} /\ Uncertain(f.gen)
         /\ \A c \in calls : c.gen # f.gen
         /\ ~ gen[f.gen].asset
         /\ \A e \in execs : e.stage = "refund" => e.gen # f.gen
<1>0. /\ TypeOK /\ AttemptsInv /\ ShotInv /\ f.gen \in Generations /\ f.attempt \in Tasks
  BY DEF SubmitInv, TypeInv, TypeOK, Exec
<1>1. Shot(f.gen, f.attempt)
  BY DEF Shot, Shooting
<1>2. receipt[f.gen].submitted /\ \A t \in Tasks : Shot(f.gen, t) => t = f.attempt
  BY <1>0, <1>1 DEF ShotInv, Remembered
<1>3. provider[f.gen][f.attempt] = "none"
  BY <1>0 DEF AttemptsInv, Unsubmitted, Unanswered, Shooting
<1>4. Accepted(f.gen) = {}
  BY <1>2, <1>3 DEF Accepted, Shot
<1>5. Uncertain(f.gen)
  BY <1>2 DEF Posted, Uncertain
<1>6. (\A c \in calls : c.gen # f.gen) /\ ~ gen[f.gen].asset
  BY <1>0, <1>4 DEF SubmitInv, ReportsKnown
<1>7. ASSUME NEW e \in execs, e.stage = "refund", e.gen = f.gen
      PROVE  FALSE
  <2>1. job[f.gen].attempts = e.attempt /\ e.attempt \in Tasks
    BY <1>0, <1>7 DEF SubmitInv, RefundsFailed, TypeOK, Exec
  <2>2. f.attempt <= e.attempt
    BY <1>0, <2>1 DEF AttemptsInv, AttemptsIssued
  <2>3. e.attempt # f.attempt
    BY <1>0, <1>7 DEF AttemptsInv, ExecUnique
  <2>4. e.attempt > f.attempt
    BY <1>0, <2>1, <2>2, <2>3 DEF Tasks
  <2>5. e.stage \in Held
    BY <1>7, <2>4 DEF Posted
  <2> QED
    BY <1>7, <2>5 DEF Held
<1> QED
  BY <1>4, <1>5, <1>6, <1>7

\* Nobody binds the receipt of such a generation, or touches its reservation.
LEMMA PostingKeeps ==
  ASSUME SubmitInv, Next, NEW g \in Generations, Accepted(g) = {}, Uncertain(g),
         \A c \in calls : c.gen # g, ~ gen[g].asset,
         \A e \in execs : e.stage = "refund" => e.gen # g
  PROVE  receipt'[g].task = NoTask /\ (charge'[g] = charge[g] \/ g \in overlooked)
<1>0. /\ TypeOK /\ TasksAccepted /\ EndingHeld /\ receipt[g].task = NoTask
      /\ charge \in [Generations -> {"reserved", "settled", "released"}]
  BY DEF SubmitInv, TypeInv, TypeOK, Uncertain
<1>1. ASSUME NEW e \in execs, Step(e) \/ Heartbeat(e) \/ Crash(e)
      PROVE  receipt'[g].task = NoTask /\ (charge'[g] = charge[g] \/ g \in overlooked)
  <2>0. e.gen \in Generations /\ e.attempt \in Tasks
    BY <1>0 DEF TypeOK, Exec
  <2>1. charge'[g] = charge[g]
    <3>1. CASE Refund(e)
      BY <1>0, <2>0, <3>1 DEF Refund, Release
    <3>2. CASE ~ Refund(e)
      BY <1>1, <3>2 DEF Step, Prepare, Mark, Submit, Answered, Record,
         Commit, CatchBroken, CatchRefused, Requeue, Reconcile, FailJob, Heartbeat,
         Crash, outcomeVars, endVars
    <3> QED
      BY <3>1, <3>2
  <2>2. ASSUME Record(e), g = e.gen
        PROVE  FALSE
    <3>1. provider[g][e.attempt] # "none"
      BY <1>0, <2>2 DEF Record, TasksAccepted
    <3> QED
      BY <2>0, <3>1 DEF Accepted
  <2>3. receipt'[g].task = receipt[g].task
    BY <1>0, <1>1, <2>2, StepReceipts
  <2> QED
    BY <1>0, <2>1, <2>3
<1>2. ASSUME NEW c \in calls, Finalize(c) \/ CallFails(c)
      PROVE  receipt'[g].task = NoTask /\ (charge'[g] = charge[g] \/ g \in overlooked)
  <2>1. c.gen # g /\ c.gen \in Generations
    BY <1>0 DEF TypeOK, Call
  <2>2. receipt' = receipt /\ charge'[g] = charge[g]
    BY <1>0, <1>2, <2>1
    DEF Finalize, Accept, ReleaseFailed, Persist, SettleDelivered, CallFails,
        Release, Settle
  <2> QED
    BY <1>0, <2>2
<1>3. ASSUME NEW h \in Generations, GenerationStep(h)
      PROVE  receipt'[g].task = NoTask /\ (charge'[g] = charge[g] \/ g \in overlooked)
  <2>1. CASE \E t \in Tasks : Notify(h, t)
    <3>1. PICK t \in Tasks : Notify(h, t)
      BY <2>1
    <3>2. charge' = charge /\ h # g
      BY <3>1 DEF Notify, Accepted
    <3>3. receipt'[g] = receipt[g]
      BY <1>0, <3>1, <3>2 DEF Notify, TypeOK
    <3> QED
      BY <1>0, <3>2, <3>3
  <2>2. CASE ~ \E t \in Tasks : Notify(h, t)
    <3>1. receipt' = receipt
      BY <1>3, <2>2 DEF GenerationStep, Claim, Stall, Poll, PollDelivered, Age,
         BeginExpire, Expire,
         BeginCancel, Cancel, EndedAs, Finish
    <3>2. CASE h # g
      BY <1>0, <1>3, <2>2, <3>1, <3>2 DEF GenerationStep, Claim, Stall, Poll,
         PollDelivered, Age, BeginExpire, Expire, BeginCancel, Cancel, EndedAs,
         Finish, Release, Settle, outcomeVars, endVars
    <3>3. CASE h = g
      <4>1. Expire(g) \/ Cancel(g) => g \in overlooked
        BY <1>0 DEF Expire, Cancel, EndingHeld
      <4>2. ~ PollDelivered(g)
        BY DEF PollDelivered
      <4>3. charge' = charge \/ Expire(g) \/ Cancel(g)
        BY <1>3, <2>2, <3>3, <4>2 DEF GenerationStep, Claim, Stall, Poll, Age,
           Finish,
           BeginExpire, BeginCancel, outcomeVars, endVars
      <4> QED
        BY <1>0, <3>1, <4>1, <4>3
    <3> QED
      BY <3>2, <3>3
  <2> QED
    BY <2>1, <2>2
<1>4. CASE RecoverReceipts \/ RequeueStale
  BY <1>0, <1>4 DEF RecoverReceipts, Recover, RequeueStale, outcomeVars, endVars
<1> QED
  BY <1>1, <1>2, <1>3, <1>4, NextCases

\* A later attempt of a submitted generation stays held.
LEMMA HeldStays ==
  ASSUME TypeOK, NEW e \in execs, Step(e), e.stage \in Held, gen[e.gen].version = 1,
         receipt[e.gen].submitted, NEW stage, Moved(e, stage),
         [e EXCEPT !.stage = stage] \notin execs
  PROVE  stage \in Held
<1>1. e \in Exec
  BY DEF TypeOK
<1>2. (\A s : Moved(e, s) => s = stage) /\ ~ Ended(e)
  BY <1>1, MovedOnce
<1>3. Prepare(e) \/ CatchBroken(e) \/ Reconcile(e)
  BY DEF Step, Held, Mark, Submit, Answered, Record, Commit, CatchRefused,
     Requeue, FailJob, Refund
<1>4. Moved(e, "reconcile")
  BY <1>2, <1>3 DEF Prepare, CatchBroken, Reconcile
<1> QED
  BY <1>2, <1>4 DEF Held

\* Who is posting now was posting before, or has marked the receipt first.
LEMMA PostingBefore ==
  ASSUME SubmitInv, Next, NEW f \in execs', f.stage = "posting", Remembered(f.gen)
  PROVE  \/ f \in execs
         \/ \E e \in execs :
              /\ MarksFirst(e) /\ e.gen = f.gen /\ e.attempt = f.attempt
              /\ receipt' = [receipt EXCEPT ![e.gen].submitted = TRUE]
<1>0. TypeOK /\ execs \subseteq Exec
  BY DEF SubmitInv, TypeInv, TypeOK
<1>1. ASSUME NEW e \in execs, Step(e), f.gen = e.gen, f.attempt = e.attempt,
             Moved(e, f.stage), [e EXCEPT !.stage = f.stage] \notin execs
      PROVE  MarksFirst(e) /\ receipt' = [receipt EXCEPT ![e.gen].submitted = TRUE]
  <2>1. e \in Exec /\ gen[e.gen].version = 1
    BY <1>0, <1>1 DEF Remembered
  <2>2. (\A s : Moved(e, s) => s = f.stage) /\ ~ Ended(e)
    BY <1>1, <2>1, MovedOnce
  <2>3. ~ (Prepare(e) \/ Submit(e) \/ Answered(e) \/ Record(e))
    BY <2>1, <2>2 DEF Prepare, Submit, Answered, Record
  <2>4. ~ (Commit(e) \/ Requeue(e) \/ Reconcile(e) \/ Refund(e) \/ FailJob(e)
           \/ CatchBroken(e) \/ CatchRefused(e))
    BY <2>2 DEF Commit, Requeue, Reconcile, Refund, FailJob, CatchBroken,
       CatchRefused
  <2>5. Mark(e) /\ Moved(e, "posting")
    BY <1>1, <2>3, <2>4 DEF Step
  <2> QED
    BY <2>5 DEF Mark, MarksFirst
<1>2. ~ (Claim(f.gen) /\ f.stage = "claimed")
  OBVIOUS
<1> QED
  BY <1>0, <1>1, <1>2, ExecBefore

LEMMA PostedStep == SubmitInv /\ Posted /\ [Next]_vars => Posted'
<1> SUFFICES ASSUME SubmitInv, Posted, [Next]_vars, NEW f \in execs',
                    Remembered(f.gen)', f.stage = "posting"
             PROVE  /\ receipt'[f.gen].task = NoTask
                    /\ f.gen \notin overlooked' => charge'[f.gen] = "reserved"
                    /\ \A d \in execs' :
                         d.gen = f.gen /\ d.attempt > f.attempt => d.stage \in Held
  BY DEF Posted
<1>0. /\ TypeOK /\ EndingHeld /\ AttemptsInv /\ execs \subseteq Exec
      /\ \A e \in execs : e.gen \in Generations /\ e.attempt \in Tasks
  BY DEF SubmitInv, TypeInv, TypeOK, Exec
<1>1. CASE UNCHANGED vars
  BY <1>1 DEF vars, Posted, Remembered
<1>2. CASE Next
  <2>1. f.gen \in Generations
    BY <1>0, <1>2, ExecBefore
  <2>2. Remembered(f.gen)
    BY <1>0, <1>2, <2>1, RememberedBefore DEF Remembered
  <2>3. ASSUME NEW d \in execs', d.gen = f.gen, d.attempt > f.attempt,
               \A e \in execs : e.gen = f.gen /\ e.attempt > f.attempt =>
                 e.stage \in Held /\ receipt[f.gen].submitted
        PROVE  d.stage \in Held
    <3>1. CASE d \in execs
      BY <2>3, <3>1
    <3>2. ASSUME NEW e \in execs, Step(e), d.gen = e.gen, d.attempt = e.attempt,
                 Moved(e, d.stage), [e EXCEPT !.stage = d.stage] \notin execs
          PROVE  d.stage \in Held
      <4>1. e.stage \in Held /\ receipt[e.gen].submitted /\ gen[e.gen].version = 1
        BY <2>2, <2>3, <3>2 DEF Remembered
      <4> QED
        BY <1>0, <3>2, <4>1, HeldStays
    <3>3. CASE d.stage = "claimed"
      BY <3>3 DEF Held
    <3> QED
      BY <1>0, <1>2, <3>1, <3>2, <3>3, ExecBefore
  <2>6. overlooked \subseteq overlooked'
    BY <1>2, OverlookedStays
  <2>4. CASE f \in execs
    <3>1. /\ f.gen \notin overlooked => charge[f.gen] = "reserved"
          /\ \A e \in execs : e.gen = f.gen /\ e.attempt > f.attempt => e.stage \in Held
      BY <2>2, <2>4 DEF Posted
    <3>2. /\ Accepted(f.gen) = {} /\ Uncertain(f.gen)
          /\ \A c \in calls : c.gen # f.gen
          /\ ~ gen[f.gen].asset
          /\ \A e \in execs : e.stage = "refund" => e.gen # f.gen
      BY <2>2, <2>4, PostingUnanswered
    <3>3. /\ receipt'[f.gen].task = NoTask
          /\ f.gen \notin overlooked' => charge'[f.gen] = "reserved"
      BY <1>2, <2>1, <2>6, <3>1, <3>2, PostingKeeps
    <3>4. receipt[f.gen].submitted
      BY <3>2 DEF Uncertain
    <3> QED
      BY <2>3, <3>1, <3>3, <3>4
  <2>5. ASSUME NEW e \in execs, MarksFirst(e), e.gen = f.gen, e.attempt = f.attempt,
               receipt' = [receipt EXCEPT ![e.gen].submitted = TRUE]
        PROVE  /\ receipt'[f.gen].task = NoTask
               /\ f.gen \notin overlooked' => charge'[f.gen] = "reserved"
               /\ \A d \in execs' :
                    d.gen = f.gen /\ d.attempt > f.attempt => d.stage \in Held
    <3>1. charge' = charge /\ charge[e.gen] = "reserved"
      BY <2>2, <2>5, NothingBeforeMark DEF MarksFirst, Mark, outcomeVars, endVars
    <3>2. receipt'[e.gen].task = NoTask
      <4>1. receipt'[e.gen] = [receipt[e.gen] EXCEPT !.submitted = TRUE]
        BY <1>0, <2>1, <2>5 DEF TypeOK
      <4> QED
        BY <2>5, <4>1 DEF MarksFirst
    <3>3. ASSUME NEW d \in execs, d.gen = f.gen, d.attempt > f.attempt
          PROVE  FALSE
      <4>1. d.attempt <= job[f.gen].attempts /\ job[f.gen].attempts = f.attempt
        BY <1>0, <2>5, <3>3 DEF AttemptsInv, AttemptsIssued, MarksFirst, Owns
      <4>2. d.attempt \in Tasks /\ f.attempt \in Tasks
        BY <1>0, <2>5, <3>3
      <4> QED
        BY <3>3, <4>1, <4>2 DEF Tasks
    <3> QED
      BY <2>3, <2>5, <3>1, <3>2, <3>3
  <2> QED
    BY <1>2, <2>2, <2>4, <2>5, PostingBefore
<1> QED
  BY <1>1, <1>2

\* Nothing is submitted, reported or given up at admission.
LEMMA SubmitInit ==
  Init => /\ ReportsKnown /\ RefundsFailed /\ Unworked
          /\ Posted /\ FailsUnsent /\ OwnedOpen /\ GivenUp
<1> SUFFICES ASSUME Init
             PROVE  /\ ReportsKnown /\ RefundsFailed /\ Unworked
                    /\ Posted /\ FailsUnsent /\ OwnedOpen /\ GivenUp
  OBVIOUS
<1>1. /\ execs = {} /\ calls = {}
      /\ \A g \in Generations :
           /\ gen[g].status = "queued" /\ ~ gen[g].asset
           /\ job[g].status = "queued" /\ charge[g] = "reserved"
  BY DEF Init
<1> QED
  BY <1>1 DEF ReportsKnown, RefundsFailed, Unworked, Posted, FailsUnsent, OwnedOpen,
     GivenUp, Open

LEMMA SubmitInvariant == Safe => []SubmitInv
<1>1. Safe => []AttemptsInv
  BY PaidInit, AttemptsStep, TypeInvariant, PTL DEF Safe
<1>2. Safe => []ShotInv
  BY <1>1, PaidInit, ShotStep, TypeInvariant, PTL DEF Safe
<1>3. Safe => []CancelledLeavesQueue
  BY ChargeInvariant, PTL DEF ChargeInv
<1>4. Safe => [](ReportsKnown /\ RefundsFailed /\ Unworked)
  <2>1. Init => ReportsKnown /\ RefundsFailed /\ Unworked
    BY SubmitInit
  <2> QED
    BY <2>1, ReportsStep, RefundsStep, UnworkedStep, TypeInvariant, PTL DEF Safe
<1> QED
  BY <1>1, <1>2, <1>3, <1>4, TypeInvariant, PTL DEF SubmitInv

\* A dispatch never gives up a submission the provider has accepted: its job
\* fails only by timeout or cancellation (the catch of dispatchJob).
THEOREM PaidWorkIsKept == Spec => []PaidWorkIsNotDropped
<1>1. Init => FailsUnsent /\ OwnedOpen /\ GivenUp
  BY SubmitInit
<1>2. Safe => []FailsUnsent /\ []OwnedOpen
  BY <1>1, SubmitInvariant, FailsUnsentStep, OwnedOpenStep, PTL DEF Safe
<1>3. Safe => []GivenUp
  BY <1>1, <1>2, SubmitInvariant, GivenUpStep, PTL DEF Safe
<1>4. GivenUp => PaidWorkIsNotDropped
  BY DEF GivenUp, PaidWorkIsNotDropped, Remembered, Accepted, Shot
<1> QED
  BY <1>3, <1>4, PTL DEF Spec

\* Nothing is submitted for a generation with a receipt once its reservation is
\* refunded or charged: a timeout and a cancellation let a submission whose fate
\* is unknown be, unless it was marked after they had read the receipt
\* (timeoutGeneration, cancelGeneration, markProviderSubmission).
THEOREM NothingAfterTheEnd == Spec => NoWorkAfterTheEnd
<1>1. ASSUME SubmitInv, Posted, [Next]_vars, NEW g \in Generations,
             gen[g].version = 1, g \notin forgotten \cup overlooked,
             Accepted(g)' # Accepted(g)
      PROVE  charge[g] = "reserved"
  <2>0. TypeOK
    BY <1>1 DEF SubmitInv, TypeInv
  <2>1. PICK t \in Tasks : (provider'[g][t] = "none") # (provider[g][t] = "none")
    BY <1>1 DEF Accepted
  <2>2. ASSUME NEW e \in execs, Step(e) \/ Heartbeat(e) \/ Crash(e)
        PROVE  charge[g] = "reserved"
    <3>1. Answered(e) /\ g = e.gen
      BY <2>0, <2>1, <2>2, StepProvider
    <3> QED
      BY <1>1, <2>2, <3>1 DEF Answered, Posted, Remembered
  <2>3. ASSUME NEW c \in calls, Finalize(c) \/ CallFails(c)
        PROVE  FALSE
    BY <2>1, <2>3 DEF Finalize, Accept, ReleaseFailed, Persist, SettleDelivered,
       CallFails
  <2>4. ASSUME NEW h \in Generations, GenerationStep(h)
        PROVE  FALSE
    BY <2>0, <2>1, <2>4, GenerationProvider
  <2>5. CASE RecoverReceipts \/ RequeueStale \/ UNCHANGED vars
    BY <2>1, <2>5 DEF RecoverReceipts, Recover, RequeueStale, vars
  <2> QED
    BY <1>1, <2>2, <2>3, <2>4, <2>5, NextCases
<1>2. Safe => []Posted
  <2>1. Init => Posted
    BY SubmitInit
  <2> QED
    BY <2>1, SubmitInvariant, PostedStep, PTL DEF Safe
<1>3. SubmitInv /\ Posted /\ [Next]_vars =>
        [\A g \in Generations :
           /\ gen[g].version = 1 /\ g \notin forgotten \cup overlooked
           /\ Accepted(g)' # Accepted(g)
           => charge[g] = "reserved"]_vars
  BY <1>1
<1> QED
  BY <1>2, <1>3, SubmitInvariant, PTL DEF Spec, Safe, NoWorkAfterTheEnd

=============================================================================
