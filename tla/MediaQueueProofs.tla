-------------------------- MODULE MediaQueueProofs --------------------------
(***************************************************************************)
(* Proofs about MediaQueue for every set of jobs, workers, dependencies,   *)
(* file counts, sizes and limits.                                          *)
(***************************************************************************)
EXTENDS MediaQueue, SumTheorems, TLAPS

\* An executor's fence was given out by a claim of its job.
FenceIssued == \A e \in execs : e.fence <= job[e.job].fence

\* One claim, one executor.
FenceUnique ==
  \A e1, e2 \in execs : e1.job = e2.job /\ e1.fence = e2.fence => e1 = e2

\* Rows are registered by claims, so none is ahead of its job.
RowsIssued == \A r \in rows : r.fence <= job[r.job].fence

\* What the collector holds belongs to a lost claim or to a job at its end,
\* and this can no longer change.
CollectorHolds ==
  \A r \in claimed \cup candidates :
    r.fence < job[r.job].fence \/ job[r.job].status \in Terminal

\* The executor of the latest claim of a running job.
Current(e) == job[e.job].status = "running" /\ job[e.job].fence = e.fence

\* Its uploads are registered and stored, the upload in progress registered.
UploadsKept ==
  \A e \in execs : Current(e) =>
    /\ \A n \in 0 .. e.done - 1 : RefOf(e, n) \in rows \cap stored
    /\ e.stage = "uploading" => RefOf(e, e.done) \in rows

\* Retained rows and rows given to the collector never overlap, and visible
\* objects are retained and stored.
KeptApart ==
  /\ claimed \cap retained = {}
  /\ purged \subseteq claimed
  /\ assets \subseteq retained \cap stored

StagingInv ==
  /\ TablesTypeOK
  /\ FenceIssued
  /\ RowsIssued
  /\ CollectorHolds
  /\ UploadsKept
  /\ KeptApart
-----------------------------------------------------------------------------

\* The empty tables are well formed.
LEMMA InitTypes == Init => TablesTypeOK
BY JobsAssumption DEF Init, TablesTypeOK, Row, Active, Waiting, Terminal,
                      Stopped

\* Every operation keeps the tables well formed.
LEMMA TypesStep == TablesTypeOK /\ [Next]_vars => TablesTypeOK'
<1> SUFFICES ASSUME TablesTypeOK, [Next]_vars
             PROVE  TablesTypeOK'
  OBVIOUS
<1> USE JobsAssumption
<1>1. CASE UNCHANGED vars
  BY <1>1 DEF TablesTypeOK, vars
<1>2. ASSUME NEW j \in Jobs, Create(j)
      PROVE  TablesTypeOK'
  <2>1. job' \in [Jobs -> Row]
    <3>1. CASE job' = [job EXCEPT ![j].status = "queued"]
      <4>1. job \in [Jobs -> Row] /\ job[j] \in Row
        BY DEF TablesTypeOK
      <4>2. [job[j] EXCEPT !.status = "queued"] \in Row
        BY <4>1 DEF Row, Active, Waiting
      <4> QED
        BY <3>1, <4>1, <4>2
    <3>2. CASE job' = [job EXCEPT ![j].status = "completed"]
      <4>1. job \in [Jobs -> Row] /\ job[j] \in Row
        BY DEF TablesTypeOK
      <4>2. [job[j] EXCEPT !.status = "completed"] \in Row
        BY <4>1 DEF Row, Terminal
      <4> QED
        BY <3>2, <4>1, <4>2
    <3> QED
      BY <1>2, <3>1, <3>2 DEF Create
  <2> QED
    BY <1>2, <2>1 DEF TablesTypeOK, Create, quotaVars, publishVars, cleanVars
<1>3. ASSUME NEW j \in Jobs, Cancel(j)
      PROVE  TablesTypeOK'
  <2>1. job' \in [Jobs -> Row]
    BY <1>3 DEF TablesTypeOK, Cancel, Row, Active, Waiting, Terminal, Stopped
  <2>2. reservation' \in [Jobs -> Nat]
    BY <1>3 DEF TablesTypeOK, Cancel, DropReservations
  <2> QED
    BY <1>3, <2>1, <2>2 DEF TablesTypeOK, Cancel, publishVars, cleanVars
<1>4. ASSUME NEW j \in Jobs, Retry(j)
      PROVE  TablesTypeOK'
  <2>1. job' \in [Jobs -> Row]
    BY <1>4 DEF TablesTypeOK, Retry, Row, Active, Waiting, Terminal, Stopped
  <2>2. reservation' \in [Jobs -> Nat] /\ retries' \in [Jobs -> Nat]
    BY <1>4 DEF TablesTypeOK, Retry, DropReservations
  <2> QED
    BY <1>4, <2>1, <2>2 DEF TablesTypeOK, Retry, publishVars, cleanVars
<1>5. ASSUME NEW j \in Jobs, Expire(j)
      PROVE  TablesTypeOK'
  <2>1. job' \in [Jobs -> Row]
    BY <1>5 DEF TablesTypeOK, Expire, Row, Active, Waiting, Terminal, Stopped
  <2> QED
    BY <1>5, <2>1 DEF TablesTypeOK, Expire, quotaVars, publishVars, cleanVars
<1>6. CASE RecoverReservations
  <2>1. reservation' \in [Jobs -> Nat]
    BY <1>6 DEF TablesTypeOK, RecoverReservations, DropReservations
  <2> QED
    BY <1>6, <2>1 DEF TablesTypeOK, RecoverReservations, jobVars, publishVars,
                      cleanVars
<1>7. CASE FailDependents
  <2>1. job' \in [Jobs -> Row]
    <3> SUFFICES ASSUME NEW j \in Jobs
                 PROVE  job'[j] \in Row
      BY <1>7 DEF FailDependents
    <3>1. job[j] \in Row
      BY DEF TablesTypeOK
    <3>2. [job[j] EXCEPT !.status = "failed"] \in Row
      BY <3>1 DEF Row, Terminal, Stopped
    <3> QED
      BY <1>7, <3>1, <3>2 DEF FailDependents
  <2> QED
    BY <1>7, <2>1 DEF TablesTypeOK, FailDependents, quotaVars, publishVars,
                      cleanVars
<1>8. CASE RecoverExpired
  <2>1. job' \in [Jobs -> Row]
    <3> SUFFICES ASSUME NEW j \in Jobs
                 PROVE  job'[j] \in Row
      BY <1>8 DEF RecoverExpired
    <3>1. job[j] \in Row
      BY DEF TablesTypeOK
    <3>2. CASE j \notin Lost
      BY <1>8, <3>1, <3>2 DEF RecoverExpired
    <3>3. CASE j \in Lost /\ AttemptsLeft(job[j].attempts)
      <4>1. job'[j] = [job[j] EXCEPT !.status = "retry_wait",
                         !.worker = NoWorker, !.lease = "none",
                         !.fence = @ + 1]
        BY <1>8, <3>3 DEF RecoverExpired
      <4>2. job[j].fence + 1 \in Nat
        BY <3>1 DEF Row
      <4>3. [job[j] EXCEPT !.status = "retry_wait", !.worker = NoWorker,
                           !.lease = "none", !.fence = @ + 1] \in Row
        BY <3>1, <4>2 DEF Row, Active, Waiting
      <4> QED
        BY <4>1, <4>3
    <3>4. CASE j \in Lost /\ ~ AttemptsLeft(job[j].attempts)
      <4>1. job'[j] = [job[j] EXCEPT !.status = "failed",
                         !.worker = NoWorker, !.lease = "none",
                         !.fence = @ + 1]
        BY <1>8, <3>4 DEF RecoverExpired
      <4>2. job[j].fence + 1 \in Nat
        BY <3>1 DEF Row
      <4>3. [job[j] EXCEPT !.status = "failed", !.worker = NoWorker,
                           !.lease = "none", !.fence = @ + 1] \in Row
        BY <3>1, <4>2 DEF Row, Terminal, Stopped
      <4> QED
        BY <4>1, <4>3
    <3> QED
      BY <3>2, <3>3, <3>4
  <2> QED
    BY <1>8, <2>1 DEF TablesTypeOK, RecoverExpired, quotaVars, publishVars,
                      cleanVars
<1>9. ASSUME NEW w \in Workers, NEW j \in Jobs, Claim(w, j)
      PROVE  TablesTypeOK'
  <2>1. job' \in [Jobs -> Row]
    BY <1>9 DEF TablesTypeOK, Claim, Row, Active, Waiting, Terminal, Stopped
  <2>2. execs' \subseteq Executor
    BY <1>9 DEF TablesTypeOK, Claim, Row, Executor, Stage
  <2> QED
    BY <1>9, <2>1, <2>2 DEF TablesTypeOK, Claim, quotaVars, publishVars,
                            cleanVars
<1>10. ASSUME NEW e \in execs, ExecStep(e)
       PROVE  TablesTypeOK'
  <2>0. e \in Executor
    BY DEF TablesTypeOK
  <2>1. CASE Begin(e)
    BY <2>0, <2>1 DEF Begin, MoveTo, TablesTypeOK, Executor, Stage, jobVars,
                      quotaVars, publishVars, cleanVars
  <2>2. CASE ProcessReused(e)
    BY <2>0, <2>2 DEF ProcessReused, MoveTo, TablesTypeOK, Executor, Stage,
                      jobVars, quotaVars, publishVars, cleanVars
  <2>3. CASE Reserve(e)
    BY <2>0, <2>3 DEF Reserve, MoveTo, TablesTypeOK, Executor, Stage, jobVars,
                      publishVars, cleanVars
  <2>4. CASE RenewForUpload(e)
    BY <2>0, <2>4 DEF RenewForUpload, MoveTo, TablesTypeOK, Executor, Stage,
                      jobVars, quotaVars, publishVars, cleanVars
  <2>5. CASE Register(e)
    BY <2>0, <2>5 DEF Register, MoveTo, RefOf, Ref, TablesTypeOK, Executor,
                      Stage, jobVars, quotaVars, publishVars, cleanVars
  <2>6. CASE Upload(e)
    <3>1. execs' \subseteq Executor
      <4>1. ASSUME NEW s \in {"publishing", "renewing"}
            PROVE  [e EXCEPT !.done = @ + 1, !.stage = s] \in Executor
        <5>1. e.done + 1 \in Nat
          BY <2>0 DEF Executor
        <5>2. s \in Stage
          BY DEF Stage
        <5> QED
          BY <2>0, <5>1, <5>2 DEF Executor
      <4>2. CASE e.done + 1 = Outputs[e.job]
        BY <2>6, <4>1, <4>2 DEF Upload, TablesTypeOK
      <4>3. CASE e.done + 1 # Outputs[e.job]
        BY <2>6, <4>1, <4>3 DEF Upload, TablesTypeOK
      <4> QED
        BY <4>2, <4>3
    <3>2. stored' \subseteq Ref
      BY <2>0, <2>6 DEF Upload, RefOf, Ref, Executor, TablesTypeOK
    <3> QED
      BY <2>6, <3>1, <3>2 DEF Upload, TablesTypeOK, jobVars, quotaVars,
                              publishVars, cleanVars
  <2>7. CASE Publish(e)
    <3>1. job' \in [Jobs -> Row]
      <4>1. job[e.job] \in Row /\ e.job \in Jobs
        BY <2>0 DEF TablesTypeOK, Executor
      <4>2. [job[e.job] EXCEPT !.status = "completed", !.worker = NoWorker,
                               !.lease = "none"] \in Row
        BY <4>1 DEF Row, Terminal
      <4> QED
        BY <2>7, <4>1, <4>2 DEF TablesTypeOK, Publish
    <3>2. reservation' \in [Jobs -> Nat] /\ winner' \in [Jobs -> Nat]
      BY <2>0, <2>7 DEF TablesTypeOK, Publish, Executor
    <3>3. usedBytes' \in Nat
      BY <2>0, <2>7 DEF TablesTypeOK, Publish, Executor
    <3>4. retained' \subseteq rows /\ assets' \subseteq Ref
      BY <2>0, <2>7 DEF TablesTypeOK, Publish, Retainable, RefOf, Ref, Executor
    <3> QED
      BY <2>7, <3>1, <3>2, <3>3, <3>4 DEF TablesTypeOK, Publish, cleanVars
  <2>8. ASSUME NEW retryable \in BOOLEAN, Fail(e, retryable)
        PROVE  TablesTypeOK'
    <3>1. job' \in [Jobs -> Row]
      <4>1. job[e.job] \in Row /\ e.job \in Jobs
        BY <2>0 DEF TablesTypeOK, Executor
      <4>2. ASSUME NEW s \in {"retry_wait", "failed"}
            PROVE  [job[e.job] EXCEPT !.status = s, !.worker = NoWorker,
                                      !.lease = "none"] \in Row
        BY <4>1 DEF Row, Active, Waiting, Terminal, Stopped
      <4>3. PICK s \in {"retry_wait", "failed"} :
              job' = IF Owns(e)
                     THEN [job EXCEPT ![e.job].status = s,
                                      ![e.job].worker = NoWorker,
                                      ![e.job].lease = "none"]
                     ELSE job
        BY <2>8 DEF Fail
      <4> QED
        BY <4>1, <4>2, <4>3 DEF TablesTypeOK
    <3>2. reservation' \in [Jobs -> Nat]
      BY <2>0, <2>8 DEF TablesTypeOK, Fail, DropReservations, quotaVars
    <3>3. stored' \subseteq Ref
      BY <2>0, <2>8 DEF TablesTypeOK, Fail, RefOf, Ref, Executor
    <3> QED
      BY <2>8, <3>1, <3>2, <3>3 DEF TablesTypeOK, Fail, publishVars, cleanVars
  <2> QED
    BY <1>10, <2>1, <2>2, <2>3, <2>4, <2>5, <2>6, <2>7, <2>8 DEF ExecStep
<1>11. ASSUME NEW e \in execs, Abandon(e)
       PROVE  TablesTypeOK'
  BY <1>11 DEF Abandon, TablesTypeOK, RefOf, Ref, Executor, jobVars, quotaVars,
               publishVars, cleanVars
<1>12. CASE CleanupStep
  BY <1>12 DEF CleanupStep, CleanupScan, CleanupClaim, Age, CleanupDelete,
               CleanupForget, TablesTypeOK, jobVars, quotaVars, publishVars
<1> QED
  BY <1>1, <1>2, <1>3, <1>4, <1>5, <1>6, <1>7, <1>8, <1>9, <1>10, <1>11,
     <1>12 DEF Next, UserStep, RecoverStep

\* Every state the queue reaches is well formed (the reserved_bytes counter
\* apart, whose sum is left to TLC).
THEOREM TypeCorrect == Spec => []TablesTypeOK
BY InitTypes, TypesStep, PTL DEF Spec
-----------------------------------------------------------------------------

\* What a step may do to one job: its fence never falls, it leaves its end
\* only under a new fence, and it starts running only under a new fence.
FenceRule(j) ==
  /\ job'[j].fence >= job[j].fence
  /\ job[j].status \in Terminal /\ job'[j].status \notin Terminal
       => job'[j].fence > job[j].fence
  /\ job'[j].status = "running" /\ job[j].status # "running"
       => job'[j].fence > job[j].fence

\* Every operation of the queue obeys the fence rule.
LEMMA FencesGrow ==
  ASSUME TablesTypeOK, [Next]_vars, NEW k \in Jobs
  PROVE  FenceRule(k)
<1> USE DEF FenceRule
<1>0. job[k] \in Row /\ job[k].fence \in Nat
  BY DEF TablesTypeOK, Row
<1>1. CASE UNCHANGED job
  BY <1>0, <1>1
<1>2. ASSUME NEW j \in Jobs, Create(j)
      PROVE  FenceRule(k)
  <2>1. job[j].status = "absent" /\ \A i \in Jobs \ {j} : job'[i] = job[i]
    BY <1>2 DEF Create, TablesTypeOK
  <2>2. job'[j].fence = job[j].fence /\ job'[j].status # "running"
    <3>1. CASE job' = [job EXCEPT ![j].status = "queued"]
      BY <3>1 DEF TablesTypeOK, Row
    <3>2. CASE job' = [job EXCEPT ![j].status = "completed"]
      BY <3>2 DEF TablesTypeOK, Row
    <3> QED
      BY <1>2, <3>1, <3>2 DEF Create
  <2> QED
    BY <1>0, <2>1, <2>2 DEF Terminal, Stopped
<1>3. ASSUME NEW j \in Jobs, Cancel(j)
      PROVE  FenceRule(k)
  BY <1>0, <1>3 DEF Cancel, TablesTypeOK, Terminal, Stopped
<1>4. ASSUME NEW j \in Jobs, Retry(j)
      PROVE  FenceRule(k)
  BY <1>0, <1>4 DEF Retry, TablesTypeOK
<1>5. ASSUME NEW j \in Jobs, Expire(j)
      PROVE  FenceRule(k)
  BY <1>0, <1>5 DEF Expire, TablesTypeOK
<1>6. CASE FailDependents
  BY <1>0, <1>6 DEF FailDependents, Terminal, Stopped
<1>7. CASE RecoverExpired
  <2>1. k \in Lost => job[k].status = "running" /\ job'[k].fence = job[k].fence + 1
    <3> SUFFICES ASSUME k \in Lost
                 PROVE  job[k].status = "running" /\ job'[k].fence = job[k].fence + 1
      OBVIOUS
    <3> DEFINE next == IF AttemptsLeft(job[k].attempts)
                       THEN "retry_wait" ELSE "failed"
    <3>1. job'[k] = [job[k] EXCEPT !.status = next, !.worker = NoWorker,
                                   !.lease = "none", !.fence = @ + 1]
      BY <1>7 DEF RecoverExpired
    <3>2. job'[k].fence = job[k].fence + 1
      <4> HIDE DEF next
      <4> QED
        BY <1>0, <3>1 DEF Row
    <3> QED
      BY <3>2 DEF Lost
  <2>2. k \notin Lost => job'[k] = job[k]
    BY <1>7 DEF RecoverExpired
  <2> QED
    BY <1>0, <2>1, <2>2
<1>8. ASSUME NEW w \in Workers, NEW j \in Jobs, Claim(w, j)
      PROVE  FenceRule(k)
  BY <1>0, <1>8 DEF Claim, TablesTypeOK
<1>9. ASSUME NEW e \in execs, Publish(e)
      PROVE  FenceRule(k)
  BY <1>0, <1>9 DEF Publish, TablesTypeOK, Terminal
<1>10. ASSUME NEW e \in execs, NEW retryable \in BOOLEAN, Fail(e, retryable)
       PROVE  FenceRule(k)
  <2>1. Owns(e) => job[e.job].status \notin Terminal
    BY DEF Owns, Terminal, Stopped
  <2>2. PICK s \in {"retry_wait", "failed"} :
          job' = IF Owns(e)
                 THEN [job EXCEPT ![e.job].status = s,
                                  ![e.job].worker = NoWorker,
                                  ![e.job].lease = "none"]
                 ELSE job
    BY <1>10 DEF Fail
  <2> QED
    BY <1>0, <2>1, <2>2 DEF TablesTypeOK
<1>11. ASSUME NEW e \in execs, ExecStep(e)
       PROVE  FenceRule(k)
  BY <1>1, <1>9, <1>10, <1>11 DEF ExecStep, Begin, ProcessReused, Reserve,
     RenewForUpload, Register, Upload, jobVars
<1>12. CASE UNCHANGED vars
  BY <1>1, <1>12 DEF vars
<1> QED
  BY <1>1, <1>2, <1>3, <1>4, <1>5, <1>6, <1>7, <1>8, <1>11, <1>12
     DEF Next, UserStep, RecoverStep, RecoverReservations, CleanupStep,
         CleanupScan, CleanupClaim, Age, CleanupDelete, CleanupForget,
         Abandon, jobVars
-----------------------------------------------------------------------------

\* An executor of the next state is one of a new claim...
Fresh(x) ==
  /\ x.job \in Jobs /\ x.done = 0 /\ x.stage = "claimed"
  /\ x.fence = job[x.job].fence + 1
  /\ job'[x.job].fence = x.fence

\* ... or continues executor e: it goes on with the same file, which it may
\* just have registered, or has just uploaded it.
Continues(x, e) ==
  /\ e.job = x.job /\ e.fence = x.fence
  /\ \/ /\ x.done = e.done
        /\ x.stage = "uploading" =>
             e.stage = "uploading" \/ RefOf(e, e.done) \in rows'
     \/ /\ x.done = e.done + 1 /\ x.stage # "uploading"
        /\ e.stage = "uploading" /\ RefOf(e, e.done) \in stored'

\* Executors come from claims and from nowhere else.
LEMMA ExecutorOrigin ==
  ASSUME TablesTypeOK, [Next]_vars, NEW x \in execs'
  PROVE  Fresh(x) \/ \E e \in execs : Continues(x, e)
<1>1. CASE x \in execs
  BY <1>1 DEF Continues
<1>2. CASE x \notin execs
  <2>1. CASE \E w \in Workers, j \in Jobs : Claim(w, j)
    <3>1. PICK w \in Workers, j \in Jobs : Claim(w, j)
      BY <2>1
    <3>2. x = [job |-> j, fence |-> job[j].fence + 1,
               attempts |-> job[j].attempts + 1, worker |-> w,
               stage |-> "claimed", done |-> 0]
      BY <1>2, <3>1 DEF Claim
    <3>3. job'[j].fence = job[j].fence + 1
      BY <3>1 DEF Claim, TablesTypeOK, Row
    <3> QED
      BY <3>2, <3>3 DEF Fresh
  <2>2. ASSUME NEW e \in execs, ExecStep(e)
        PROVE  Continues(x, e)
    <3>0. e \in Executor
      BY DEF TablesTypeOK
    <3>1. CASE Begin(e)
      BY <1>2, <3>0, <3>1 DEF Begin, MoveTo, Continues, Executor
    <3>2. CASE ProcessReused(e)
      BY <1>2, <3>0, <3>2 DEF ProcessReused, MoveTo, Continues, Executor
    <3>3. CASE Reserve(e)
      BY <1>2, <3>0, <3>3 DEF Reserve, MoveTo, Continues, Executor
    <3>4. CASE RenewForUpload(e)
      BY <1>2, <3>0, <3>4 DEF RenewForUpload, MoveTo, Continues, Executor
    <3>5. CASE Register(e)
      BY <1>2, <3>0, <3>5 DEF Register, MoveTo, Continues, Executor
    <3>6. CASE Upload(e)
      <4>1. PICK s \in {"publishing", "renewing"} :
              x = [e EXCEPT !.done = @ + 1, !.stage = s]
        BY <1>2, <3>6 DEF Upload
      <4>2. x.job = e.job /\ x.fence = e.fence /\ x.done = e.done + 1
            /\ x.stage = s
        BY <3>0, <4>1 DEF Executor
      <4> QED
        BY <3>6, <4>2 DEF Upload, Continues
    <3>7. CASE Publish(e)
      BY <1>2, <3>7 DEF Publish
    <3>8. ASSUME NEW retryable \in BOOLEAN, Fail(e, retryable)
          PROVE  FALSE
      BY <1>2, <3>8 DEF Fail
    <3> QED
      BY <2>2, <3>1, <3>2, <3>3, <3>4, <3>5, <3>6, <3>7, <3>8 DEF ExecStep
  <2>3. ASSUME \/ UNCHANGED execs
               \/ \E e \in execs : Abandon(e)
        PROVE  FALSE
    BY <1>2, <2>3 DEF Abandon
  <2> QED
    BY <2>1, <2>2, <2>3 DEF Next, UserStep, Create, Cancel, Retry, Expire,
       RecoverStep, RecoverReservations, FailDependents, RecoverExpired,
       CleanupStep, CleanupScan, CleanupClaim, Age, CleanupDelete,
       CleanupForget, vars
<1> QED
  BY <1>1, <1>2

\* Nothing but the collector's claim takes a row or an object away.
LEMMA UnclaimedStays ==
  ASSUME [Next]_vars, KeptApart, NEW r, r \notin claimed
  PROVE  /\ r \in rows => r \in rows'
         /\ r \in stored => r \in stored'
<1>1. CASE UNCHANGED vars
  BY <1>1 DEF vars
<1>2. CASE UserStep
  BY <1>2 DEF UserStep, Create, Cancel, Retry
<1>3. CASE RecoverStep
  BY <1>3 DEF RecoverStep, RecoverReservations, FailDependents, RecoverExpired
<1>5. CASE \E e \in execs : ExecStep(e) \/ Abandon(e)
  BY <1>5 DEF ExecStep, Begin, ProcessReused, Reserve, RenewForUpload,
     Register, Upload, Publish, Fail, Abandon
<1>6. CASE CleanupStep
  BY <1>6 DEF CleanupStep, CleanupScan, CleanupClaim, Age, CleanupDelete,
     CleanupForget, KeptApart
<1>7. CASE \E j \in Jobs : Expire(j)
  BY <1>7 DEF Expire
<1>8. CASE \E w \in Workers, j \in Jobs : Claim(w, j)
  BY <1>8 DEF Claim
<1> QED
  BY <1>1, <1>2, <1>3, <1>5, <1>6, <1>7, <1>8 DEF Next
-----------------------------------------------------------------------------

\* Rows and candidates that a step adds.
LEMMA RowOrigin ==
  ASSUME TablesTypeOK, [Next]_vars, NEW r \in rows', r \notin rows
  PROVE  \E e \in execs : r = RefOf(e, e.done)
<1>1. CASE \E e \in execs : Register(e)
  BY <1>1 DEF Register
<1>2. CASE rows' \subseteq rows
  BY <1>2
<1>3. CASE \E e \in execs : ExecStep(e) \/ Abandon(e)
  BY <1>1, <1>2, <1>3 DEF ExecStep, Begin, ProcessReused, Reserve,
     RenewForUpload, Upload, Publish, Fail, Abandon
<1> QED
  BY <1>2, <1>3 DEF Next, UserStep, Create, Cancel, Retry, Expire, Claim,
     RecoverStep, RecoverReservations, FailDependents, RecoverExpired,
     CleanupStep, CleanupScan, CleanupClaim, Age, CleanupDelete,
     CleanupForget, vars

\* What the collector comes to hold is collectable when it is selected.
LEMMA CollectorOrigin ==
  ASSUME TablesTypeOK, [Next]_vars,
         NEW r \in claimed' \cup candidates', r \notin claimed \cup candidates
  PROVE  Collectable(r) /\ r \in rows
<1>1. CASE CleanupScan
  BY <1>1 DEF CleanupScan
<1>2. CASE claimed' \cup candidates' \subseteq claimed \cup candidates
  BY <1>2
<1>3. CASE \E e \in execs : ExecStep(e) \/ Abandon(e)
  BY <1>2, <1>3 DEF ExecStep, Begin, ProcessReused, Reserve, RenewForUpload,
     Register, Upload, Publish, Fail, Abandon, cleanVars
<1>4. CASE CleanupStep
  BY <1>1, <1>2, <1>4 DEF CleanupStep, CleanupClaim, Age, CleanupDelete,
     CleanupForget
<1> QED
  BY <1>2, <1>3, <1>4 DEF Next, UserStep, Create, Cancel, Retry, Expire,
     Claim, RecoverStep, RecoverReservations, FailDependents, RecoverExpired,
     cleanVars, vars

\* The owner's staged objects are out of the collector's reach.
LEMMA CurrentUnclaimed ==
  ASSUME TablesTypeOK, CollectorHolds, NEW e \in execs, Current(e), NEW n
  PROVE  RefOf(e, n) \notin claimed \cup candidates
<1>1. RefOf(e, n).job = e.job /\ RefOf(e, n).fence = e.fence
  BY DEF RefOf
<1>2. e.job \in Jobs /\ job[e.job].fence \in Nat
  BY DEF TablesTypeOK, Executor, Row
<1> QED
  BY <1>1, <1>2 DEF CollectorHolds, Current, Terminal, Stopped

LEMMA StagingInit == Init => StagingInv
<1> SUFFICES ASSUME Init
             PROVE  StagingInv
  OBVIOUS
<1>1. TablesTypeOK
  BY InitTypes
<1>2. FenceIssued /\ RowsIssued /\ CollectorHolds /\ UploadsKept /\ KeptApart
  BY DEF Init, FenceIssued, RowsIssued, CollectorHolds, UploadsKept, KeptApart
<1> QED
  BY <1>1, <1>2 DEF StagingInv

\* StagingInv is inductive.
LEMMA StagingStep == StagingInv /\ [Next]_vars => StagingInv'
<1> SUFFICES ASSUME StagingInv, [Next]_vars
             PROVE  StagingInv'
  OBVIOUS
<1>0. TablesTypeOK /\ TablesTypeOK'
  BY TypesStep DEF StagingInv
<1>1. FenceIssued'
  <2> SUFFICES ASSUME NEW x \in execs'
               PROVE  x.fence <= job'[x.job].fence
    BY DEF FenceIssued
  <2>1. x.job \in Jobs /\ x.fence \in Nat
    BY <1>0 DEF TablesTypeOK, Executor
  <2>2. job[x.job].fence \in Nat /\ job'[x.job].fence \in Nat
    BY <1>0, <2>1 DEF TablesTypeOK, Row
  <2>3. FenceRule(x.job)
    BY <1>0, <2>1, FencesGrow
  <2>4. CASE Fresh(x)
    BY <2>1, <2>4 DEF Fresh
  <2>5. ASSUME NEW e \in execs, Continues(x, e)
        PROVE  x.fence <= job[x.job].fence
    BY <2>5 DEF Continues, StagingInv, FenceIssued
  <2> QED
    BY <1>0, <2>1, <2>2, <2>3, <2>4, <2>5, ExecutorOrigin DEF FenceRule
<1>2. RowsIssued'
  <2> SUFFICES ASSUME NEW r \in rows'
               PROVE  r.fence <= job'[r.job].fence
    BY DEF RowsIssued
  <2>1. r.job \in Jobs /\ r.fence \in Nat
    BY <1>0 DEF TablesTypeOK, Ref
  <2>2. job[r.job].fence \in Nat /\ job'[r.job].fence \in Nat
    BY <1>0, <2>1 DEF TablesTypeOK, Row
  <2>3. r.fence <= job[r.job].fence
    BY <1>0, RowOrigin DEF StagingInv, RowsIssued, FenceIssued, RefOf
  <2> QED
    BY <1>0, <2>1, <2>2, <2>3, FencesGrow DEF FenceRule
<1>3. CollectorHolds'
  <2> SUFFICES ASSUME NEW r \in claimed' \cup candidates'
               PROVE  \/ r.fence < job'[r.job].fence
                      \/ job'[r.job].status \in Terminal
    BY DEF CollectorHolds
  <2>1. r.job \in Jobs /\ r.fence \in Nat
    BY <1>0 DEF TablesTypeOK, Ref
  <2>2. job[r.job].fence \in Nat /\ job'[r.job].fence \in Nat
    BY <1>0, <2>1 DEF TablesTypeOK, Row
  <2>3. r.fence <= job[r.job].fence
    <3>1. r \in rows
      BY <1>0, CollectorOrigin DEF TablesTypeOK
    <3> QED
      BY <3>1 DEF StagingInv, RowsIssued
  <2>4. r.fence < job[r.job].fence \/ job[r.job].status \in Terminal
    BY <1>0, <2>1, <2>2, <2>3, CollectorOrigin
       DEF StagingInv, CollectorHolds, Collectable
  <2> QED
    BY <1>0, <2>1, <2>2, <2>3, <2>4, FencesGrow DEF FenceRule
<1>4. UploadsKept'
  <2> SUFFICES ASSUME NEW x \in execs', Current(x)'
               PROVE  /\ \A n \in 0 .. x.done - 1 : RefOf(x, n) \in rows' \cap stored'
                      /\ x.stage = "uploading" => RefOf(x, x.done) \in rows'
    BY DEF UploadsKept, RefOf
  <2>1. x.job \in Jobs /\ x.fence \in Nat
    BY <1>0 DEF TablesTypeOK, Executor
  <2>2. job[x.job].fence \in Nat /\ job'[x.job].fence \in Nat
    BY <1>0, <2>1 DEF TablesTypeOK, Row
  <2>3. CASE Fresh(x)
    BY <2>3 DEF Fresh
  <2>4. ASSUME NEW e \in execs, Continues(x, e)
        PROVE  /\ \A n \in 0 .. x.done - 1 : RefOf(x, n) \in rows' \cap stored'
               /\ x.stage = "uploading" => RefOf(x, x.done) \in rows'
    <3>1. Current(e)
      BY <1>0, <2>1, <2>2, <2>4, FencesGrow
         DEF Continues, Current, FenceRule, StagingInv, FenceIssued
    <3>2. e.done \in Nat /\ x.done \in Nat
      BY <1>0 DEF TablesTypeOK, Executor
    <3>3. \A n : RefOf(x, n) = RefOf(e, n)
      BY <2>4 DEF Continues, RefOf
    <3>4. \A n : /\ RefOf(e, n) \in rows => RefOf(e, n) \in rows'
                 /\ RefOf(e, n) \in stored => RefOf(e, n) \in stored'
      BY <1>0, <3>1, CurrentUnclaimed, UnclaimedStays DEF StagingInv
    <3>5. /\ \A n \in 0 .. e.done - 1 : RefOf(e, n) \in rows' \cap stored'
          /\ e.stage = "uploading" => RefOf(e, e.done) \in rows'
      BY <3>1, <3>4 DEF StagingInv, UploadsKept
    <3>6. CASE x.done = e.done
      BY <2>4, <3>2, <3>3, <3>5, <3>6 DEF Continues
    <3>7. CASE x.done = e.done + 1
      <4>1. ASSUME NEW n \in 0 .. x.done - 1
            PROVE  n \in 0 .. e.done - 1 \/ n = e.done
        BY <3>2, <3>7
      <4>2. RefOf(e, e.done) \in rows' \cap stored' /\ x.stage # "uploading"
        BY <2>4, <3>2, <3>5, <3>7 DEF Continues
      <4> QED
        BY <3>3, <3>5, <4>1, <4>2
    <3> QED
      BY <2>4, <3>6, <3>7 DEF Continues
  <2> QED
    BY <1>0, <2>3, <2>4, ExecutorOrigin
<1>5. KeptApart'
  <2>0. KeptApart
    BY DEF StagingInv
  <2>1. ASSUME NEW e \in execs, Publish(e)
        PROVE  KeptApart'
    <3>1. Current(e)
      BY <2>1 DEF Publish, Owns, Current
    <3>2. \A n \in 0 .. e.done - 1 :
            RefOf(e, n) \in Retainable(e) /\ RefOf(e, n) \in stored
      <4> TAKE n \in 0 .. e.done - 1
      <4>1. RefOf(e, n) \in rows \cap stored
        BY <3>1 DEF StagingInv, UploadsKept
      <4>2. RefOf(e, n) \notin claimed
        BY <3>1, CurrentUnclaimed DEF StagingInv
      <4> QED
        BY <4>1, <4>2 DEF Retainable, RefOf
    <3> QED
      BY <2>0, <2>1, <3>2 DEF Publish, KeptApart, Retainable, cleanVars
  <2>2. CASE CleanupStep
    BY <2>0, <2>2 DEF KeptApart, CleanupStep, CleanupScan, CleanupClaim, Age,
       CleanupDelete, CleanupForget, publishVars
  <2>3. CASE /\ UNCHANGED <<publishVars, cleanVars>>
             /\ stored \subseteq stored'
    BY <2>0, <2>3 DEF KeptApart, publishVars, cleanVars
  <2>4. CASE \E e \in execs : ExecStep(e) \/ Abandon(e)
    BY <2>1, <2>3, <2>4 DEF ExecStep, Begin, ProcessReused, Reserve,
       RenewForUpload, Register, Upload, Fail, Abandon
  <2> QED
    BY <2>2, <2>3, <2>4 DEF Next, UserStep, Create, Cancel, Retry, Expire,
       Claim, RecoverStep, RecoverReservations, FailDependents,
       RecoverExpired, vars, publishVars, cleanVars
<1> QED
  BY <1>0, <1>1, <1>2, <1>3, <1>4, <1>5 DEF StagingInv

\* StagingInv holds in every reachable state.
LEMMA StagingCorrect == Spec => []StagingInv
BY StagingInit, StagingStep, PTL DEF Spec

\* No published result ever loses its file, for any number of jobs, workers,
\* files, retries and crashes (staging.ts, executor.ts publish).
THEOREM PublishedObjectsNeverLost == Spec => []PublishedObjectsStay
<1>1. StagingInv => PublishedObjectsStay
  BY DEF StagingInv, KeptApart, PublishedObjectsStay
<1> QED
  BY <1>1, StagingCorrect, PTL

\* The collector never takes an object of the executor that still owns its
\* job, so publication is not refused to a rightful owner (staging.ts).
THEOREM OwnersKeepTheirStaging == Spec => []OwnerKeepsStaging
<1>1. StagingInv => OwnerKeepsStaging
  <2> SUFFICES ASSUME StagingInv, NEW e \in execs, Owns(e),
                      NEW r \in claimed \cup candidates,
                      <<r.job, r.fence>> = <<e.job, e.fence>>
               PROVE  FALSE
    BY DEF OwnerKeepsStaging
  <2>1. r.job = e.job /\ r.fence = e.fence
    OBVIOUS
  <2>2. e.job \in Jobs /\ job[e.job].fence \in Nat
    BY DEF StagingInv, TablesTypeOK, Executor, Row
  <2> QED
    BY <2>1, <2>2 DEF StagingInv, CollectorHolds, Owns, Terminal, Stopped
<1> QED
  BY <1>1, StagingCorrect, PTL
-----------------------------------------------------------------------------

\* The set of executors loses members, replaces one by its own next stage, or
\* gains the one of a new claim.
LEMMA ExecutorsStep ==
  ASSUME TablesTypeOK, [Next]_vars
  PROVE  \/ execs' \subseteq execs
         \/ \E e \in execs, y \in execs' :
              /\ execs' = (execs \ {e}) \cup {y}
              /\ y.job = e.job /\ y.fence = e.fence /\ y.attempts = e.attempts
         \/ \E y \in execs' :
              /\ execs' = execs \cup {y}
              /\ y.job \in Jobs
              /\ y.fence = job[y.job].fence + 1
              /\ job'[y.job].fence = y.fence
              /\ y.attempts = job'[y.job].attempts
<1>1. ASSUME NEW w \in Workers, NEW j \in Jobs, Claim(w, j)
      PROVE  \E y \in execs' :
               /\ execs' = execs \cup {y}
               /\ y.job \in Jobs
               /\ y.fence = job[y.job].fence + 1
               /\ job'[y.job].fence = y.fence
               /\ y.attempts = job'[y.job].attempts
  <2> DEFINE y == [job |-> j, fence |-> job[j].fence + 1,
                   attempts |-> job[j].attempts + 1, worker |-> w,
                   stage |-> "claimed", done |-> 0]
  <2>1. execs' = execs \cup {y}
    BY <1>1 DEF Claim
  <2>2. /\ job'[j].fence = job[j].fence + 1
        /\ job'[j].attempts = job[j].attempts + 1
    BY <1>1 DEF Claim, TablesTypeOK, Row
  <2>3. /\ y \in execs' /\ y.job \in Jobs
        /\ y.fence = job[y.job].fence + 1
        /\ job'[y.job].fence = y.fence
        /\ y.attempts = job'[y.job].attempts
    BY <2>1, <2>2
  <2> HIDE DEF y
  <2> QED
    BY <2>1, <2>3
<1>2. ASSUME NEW e \in execs, ExecStep(e)
      PROVE  \/ execs' \subseteq execs
             \/ \E y \in execs' :
                  /\ execs' = (execs \ {e}) \cup {y}
                  /\ y.job = e.job /\ y.fence = e.fence
                  /\ y.attempts = e.attempts
  <2>0. e \in Executor
    BY DEF TablesTypeOK
  <2>1. ASSUME NEW stage, MoveTo(e, stage)
        PROVE  \E y \in execs' :
                 /\ execs' = (execs \ {e}) \cup {y}
                 /\ y.job = e.job /\ y.fence = e.fence
                 /\ y.attempts = e.attempts
    <3> DEFINE y == [e EXCEPT !.stage = stage]
    <3>1. execs' = (execs \ {e}) \cup {y}
      BY <2>1 DEF MoveTo
    <3>2. y.job = e.job /\ y.fence = e.fence /\ y.attempts = e.attempts
      BY <2>0 DEF Executor
    <3> QED
      BY <3>1, <3>2
  <2>2. ASSUME Upload(e)
        PROVE  \E y \in execs' :
                 /\ execs' = (execs \ {e}) \cup {y}
                 /\ y.job = e.job /\ y.fence = e.fence
                 /\ y.attempts = e.attempts
    <3> DEFINE next == IF e.done + 1 = Outputs[e.job]
                       THEN "publishing" ELSE "renewing"
               y == [e EXCEPT !.done = @ + 1, !.stage = next]
    <3>1. execs' = (execs \ {e}) \cup {y}
      BY <2>2 DEF Upload
    <3>2. y.job = e.job /\ y.fence = e.fence /\ y.attempts = e.attempts
      BY <2>0 DEF Executor
    <3> QED
      BY <3>1, <3>2
  <2>3. CASE \E retryable \in BOOLEAN : Fail(e, retryable)
    BY <2>3 DEF Fail
  <2> QED
    BY <1>2, <2>1, <2>2, <2>3 DEF ExecStep, Begin, ProcessReused, Reserve,
       RenewForUpload, Register, Publish
<1>3. CASE \E e \in execs : Abandon(e)
  BY <1>3 DEF Abandon
<1>4. CASE UNCHANGED execs
  BY <1>4
<1> QED
  BY <1>1, <1>2, <1>3, <1>4 DEF Next, UserStep, Create, Cancel, Retry, Expire,
     RecoverStep, RecoverReservations, FailDependents, RecoverExpired,
     CleanupStep, CleanupScan, CleanupClaim, Age, CleanupDelete,
     CleanupForget, vars

\* A new claim has a fence no executor holds, and no other step adds one.
LEMMA UniqueStep == StagingInv /\ FenceUnique /\ [Next]_vars => FenceUnique'
<1> SUFFICES ASSUME StagingInv, FenceUnique, [Next]_vars,
                    NEW x1 \in execs', NEW x2 \in execs',
                    x1.job = x2.job, x1.fence = x2.fence
             PROVE  x1 = x2
  BY DEF FenceUnique
<1>0. TablesTypeOK
  BY DEF StagingInv
<1>1. CASE execs' \subseteq execs
  BY <1>1 DEF FenceUnique
<1>2. ASSUME NEW e \in execs, NEW y \in execs',
             execs' = (execs \ {e}) \cup {y},
             y.job = e.job, y.fence = e.fence
      PROVE  x1 = x2
  BY <1>2 DEF FenceUnique
<1>3. ASSUME NEW y \in execs', execs' = execs \cup {y}, y.job \in Jobs,
             y.fence = job[y.job].fence + 1
      PROVE  x1 = x2
  <2>1. job[y.job].fence \in Nat
    BY <1>0, <1>3 DEF TablesTypeOK, Row
  <2>2. \A e \in execs : e.fence \in Nat
    BY <1>0 DEF TablesTypeOK, Executor
  <2>3. \A e \in execs : e.job = y.job => e.fence # y.fence
    BY <1>3, <2>1, <2>2 DEF StagingInv, FenceIssued
  <2> QED
    BY <1>3, <2>3 DEF FenceUnique
<1> QED
  BY <1>0, <1>1, <1>2, <1>3, ExecutorsStep

\* At most one executor may write for a job, however workers stall, die, are
\* replaced and come back (renewMediaLease and the guards like it).
THEOREM OneOwnerAtATime == Spec => []OneOwner
<1>1. Init => FenceUnique
  BY DEF Init, FenceUnique
<1>2. FenceUnique => OneOwner
  BY DEF FenceUnique, OneOwner, Owns
<1> QED
  BY <1>1, <1>2, StagingCorrect, UniqueStep, PTL DEF Spec
-----------------------------------------------------------------------------

\* How an executor goes on: x is e itself, or e after one of its awaits.
Advances(x, e) ==
  /\ x.job = e.job /\ x.fence = e.fence /\ x.attempts = e.attempts
  /\ \/ x.done = e.done /\ x.stage = e.stage
     \/ x.done = e.done /\ e.stage = "claimed" /\ x.stage = "processing"
     \/ /\ x.done = e.done /\ e.stage = "processing" /\ x.stage = "publishing"
        /\ Outputs[e.job] = 0
     \/ x.done = e.done /\ e.stage = "processing" /\ x.stage = "renewing"
     \/ x.done = e.done /\ e.stage = "renewing" /\ x.stage = "registering"
     \/ x.done = e.done /\ Register(e) /\ x.stage = "uploading"
     \/ /\ x.done = e.done + 1 /\ Upload(e)
        /\ x.stage = IF e.done + 1 = Outputs[e.job] THEN "publishing"
                     ELSE "renewing"

\* The executor a claim starts.
Started(x) ==
  /\ x.job \in Jobs /\ x.done = 0 /\ x.stage = "claimed"
  /\ x.fence = job[x.job].fence + 1
  /\ job'[x.job].fence = x.fence
  /\ x.attempts = job'[x.job].attempts

\* Every executor has just been started or is one that went on.
LEMMA ExecutorAdvances ==
  ASSUME TablesTypeOK, [Next]_vars, NEW x \in execs'
  PROVE  Started(x) \/ \E e \in execs : Advances(x, e)
<1>1. CASE x \in execs
  BY <1>1 DEF Advances
<1>2. CASE x \notin execs
  <2>1. CASE \E w \in Workers, j \in Jobs : Claim(w, j)
    <3>1. PICK w \in Workers, j \in Jobs : Claim(w, j)
      BY <2>1
    <3>2. x = [job |-> j, fence |-> job[j].fence + 1,
               attempts |-> job[j].attempts + 1, worker |-> w,
               stage |-> "claimed", done |-> 0]
      BY <1>2, <3>1 DEF Claim
    <3>3. /\ job'[j].fence = job[j].fence + 1
          /\ job'[j].attempts = job[j].attempts + 1
      BY <3>1 DEF Claim, TablesTypeOK, Row
    <3> QED
      BY <3>2, <3>3 DEF Started
  <2>2. ASSUME NEW e \in execs, ExecStep(e)
        PROVE  Advances(x, e)
    <3>0. e \in Executor
      BY DEF TablesTypeOK
    <3>1. CASE Begin(e)
      BY <1>2, <3>0, <3>1 DEF Begin, MoveTo, Advances, Executor
    <3>2. CASE ProcessReused(e)
      BY <1>2, <3>0, <3>2 DEF ProcessReused, MoveTo, Advances, Executor
    <3>3. CASE Reserve(e)
      BY <1>2, <3>0, <3>3 DEF Reserve, MoveTo, Advances, Executor
    <3>4. CASE RenewForUpload(e)
      BY <1>2, <3>0, <3>4 DEF RenewForUpload, MoveTo, Advances, Executor
    <3>5. CASE Register(e)
      <4>1. x = [e EXCEPT !.stage = "uploading"]
        BY <1>2, <3>5 DEF Register, MoveTo
      <4> QED
        BY <3>0, <3>5, <4>1 DEF Advances, Executor
    <3>6. CASE Upload(e)
      <4> DEFINE next == IF e.done + 1 = Outputs[e.job]
                         THEN "publishing" ELSE "renewing"
      <4>1. x = [e EXCEPT !.done = @ + 1, !.stage = next]
        BY <1>2, <3>6 DEF Upload
      <4>2. /\ x.job = e.job /\ x.fence = e.fence /\ x.attempts = e.attempts
            /\ x.done = e.done + 1 /\ x.stage = next
        <5> HIDE DEF next
        <5> QED
          BY <3>0, <4>1 DEF Executor
      <4> QED
        BY <3>6, <4>2 DEF Advances
    <3>7. CASE Publish(e)
      BY <1>2, <3>7 DEF Publish
    <3>8. ASSUME NEW retryable \in BOOLEAN, Fail(e, retryable)
          PROVE  FALSE
      BY <1>2, <3>8 DEF Fail
    <3> QED
      BY <2>2, <3>1, <3>2, <3>3, <3>4, <3>5, <3>6, <3>7, <3>8 DEF ExecStep
  <2>3. ASSUME \/ UNCHANGED execs
               \/ \E e \in execs : Abandon(e)
        PROVE  FALSE
    BY <1>2, <2>3 DEF Abandon
  <2> QED
    BY <2>1, <2>2, <2>3 DEF Next, UserStep, Create, Cancel, Retry, Expire,
       RecoverStep, RecoverReservations, FailDependents, RecoverExpired,
       CleanupStep, CleanupScan, CleanupClaim, Age, CleanupDelete,
       CleanupForget, vars
<1> QED
  BY <1>1, <1>2
-----------------------------------------------------------------------------

\* An executor has no row beyond the file it is at.
RowsBehind ==
  \A e \in execs, r \in rows :
    r.job = e.job /\ r.fence = e.fence =>
      \/ r.ordinal < e.done
      \/ r.ordinal = e.done /\ e.stage = "uploading"

\* An upload under way has its row, and its object has not been deleted, unless
\* the collector overtook it.
UploadTracked ==
  \A e \in execs : e.stage = "uploading" =>
    RefOf(e, e.done) \in (rows \ purged) \cup overdue

\* The collector holds old rows only, and forgets those whose object is gone.
CollectorTakesOld ==
  /\ claimed \cup candidates \subseteq old
  /\ purged \subseteq claimed
  /\ purged \cap stored \subseteq overdue

TrackInv == RowsBehind /\ UploadTracked /\ CollectorTakesOld /\ StoredIsTracked

\* Where a step's new objects come from.
LEMMA StoredOrigin ==
  ASSUME [Next]_vars, NEW s \in stored', s \notin stored
  PROVE  /\ \E e \in execs : e.stage = "uploading" /\ s = RefOf(e, e.done)
         /\ UNCHANGED <<rows, old, claimed, candidates, purged, overdue>>
<1>1. ASSUME NEW e \in execs, ExecStep(e) \/ Abandon(e)
      PROVE  /\ e.stage = "uploading" /\ s = RefOf(e, e.done)
             /\ UNCHANGED <<rows, old, claimed, candidates, purged, overdue>>
  <2>1. CASE Upload(e)
    BY <2>1 DEF Upload, cleanVars
  <2>2. ASSUME NEW retryable \in BOOLEAN, Fail(e, retryable)
        PROVE  /\ e.stage = "uploading" /\ s = RefOf(e, e.done)
               /\ UNCHANGED <<rows, old, claimed, candidates, purged, overdue>>
    BY <2>2 DEF Fail, cleanVars
  <2>3. CASE Abandon(e)
    BY <2>3 DEF Abandon, cleanVars
  <2>4. CASE UNCHANGED stored
    BY <2>4
  <2> QED
    BY <1>1, <2>1, <2>2, <2>3, <2>4 DEF ExecStep, Begin, ProcessReused,
       Reserve, RenewForUpload, Register, Publish
<1>2. CASE stored' \subseteq stored
  BY <1>2
<1> QED
  BY <1>1, <1>2 DEF Next, UserStep, Create, Cancel, Retry, Expire, Claim,
     RecoverStep, RecoverReservations, FailDependents, RecoverExpired,
     CleanupStep, CleanupScan, CleanupClaim, Age, CleanupDelete,
     CleanupForget, vars

\* A step deletes the object of one claimed row, or no more is deleted.
LEMMA PurgedStep ==
  ASSUME [Next]_vars
  PROVE  /\ overdue \subseteq overdue'
         /\ purged' \subseteq purged \/ \E r \in rows : CleanupDelete(r)
<1>1. ASSUME NEW r \in rows, CleanupDelete(r)
      PROVE  overdue \subseteq overdue'
  BY <1>1 DEF CleanupDelete
<1>2. ASSUME NEW e \in execs, ExecStep(e) \/ Abandon(e)
      PROVE  overdue' = overdue /\ purged' = purged
  BY <1>2 DEF ExecStep, Begin, ProcessReused, Reserve, RenewForUpload,
     Register, Upload, Publish, Fail, Abandon, cleanVars
<1>3. ASSUME UserStep \/ RecoverStep \/ \E j \in Jobs : Expire(j)
      PROVE  overdue' = overdue /\ purged' = purged
  BY <1>3 DEF UserStep, Create, Cancel, Retry, Expire, RecoverStep,
     RecoverReservations, FailDependents, RecoverExpired, cleanVars
<1>4. ASSUME NEW w \in Workers, NEW j \in Jobs, Claim(w, j)
      PROVE  overdue' = overdue /\ purged' = purged
  BY <1>4 DEF Claim, cleanVars
<1>5. ASSUME CleanupScan \/ CleanupClaim \/ \E r \in rows : Age(r) \/ CleanupForget(r)
      PROVE  overdue' = overdue /\ purged' \subseteq purged
  BY <1>5 DEF CleanupScan, CleanupClaim, Age, CleanupForget
<1>6. CASE UNCHANGED vars
  BY <1>6 DEF vars
<1> QED
  BY <1>1, <1>2, <1>3, <1>4, <1>5, <1>6 DEF Next, CleanupStep

\* A row goes when the collector forgets it, and everything of it goes.
LEMMA RowLost ==
  ASSUME [Next]_vars, NEW r \in rows, r \notin rows'
  PROVE  /\ r \in purged
         /\ UNCHANGED <<execs, stored, overdue>>
         /\ rows' = rows \ {r} /\ old' = old \ {r}
         /\ claimed' = claimed \ {r} /\ candidates' = candidates \ {r}
         /\ purged' = purged \ {r}
<1>1. CASE CleanupForget(r)
  BY <1>1 DEF CleanupForget
<1>2. ASSUME NEW s \in rows, CleanupForget(s)
      PROVE  s = r
  BY <1>2 DEF CleanupForget
<1>3. CASE \E e \in execs : ExecStep(e) \/ Abandon(e)
  BY <1>3 DEF ExecStep, Begin, ProcessReused, Reserve, RenewForUpload,
     Register, Upload, Publish, Fail, Abandon
<1> QED
  BY <1>1, <1>2, <1>3 DEF Next, UserStep, Create, Cancel, Retry, Expire,
     Claim, RecoverStep, RecoverReservations, FailDependents, RecoverExpired,
     CleanupStep, CleanupScan, CleanupClaim, Age, CleanupDelete, vars

\* The collector takes rows that are old already.
LEMMA TakesOldStep == CollectorTakesOld /\ UploadTracked /\ TablesTypeOK
                        /\ [Next]_vars => CollectorTakesOld'
<1> SUFFICES ASSUME CollectorTakesOld, UploadTracked, TablesTypeOK, [Next]_vars
             PROVE  CollectorTakesOld'
  OBVIOUS
<1>1. CASE CleanupStep
  <2>1. CASE CleanupScan
    BY <2>1 DEF CleanupScan, Collectable, CollectorTakesOld, publishVars
  <2>2. CASE CleanupClaim
    BY <2>2 DEF CleanupClaim, CollectorTakesOld, publishVars
  <2>3. ASSUME NEW r \in rows, Age(r)
        PROVE  CollectorTakesOld'
    BY <2>3 DEF Age, CollectorTakesOld, publishVars
  <2>4. ASSUME NEW r \in rows, CleanupDelete(r)
        PROVE  CollectorTakesOld'
    BY <2>4 DEF CleanupDelete, CollectorTakesOld, publishVars
  <2>5. ASSUME NEW r \in rows, CleanupForget(r)
        PROVE  CollectorTakesOld'
    BY <2>5 DEF CleanupForget, CollectorTakesOld, publishVars
  <2> QED
    BY <1>1, <2>1, <2>2, <2>3, <2>4, <2>5 DEF CleanupStep
<1>2. CASE UNCHANGED cleanVars
  <2>1. \A s \in stored' \ stored : s \in purged => s \in overdue
    BY StoredOrigin DEF UploadTracked
  <2> QED
    BY <1>2, <2>1 DEF CollectorTakesOld, cleanVars
<1>3. CASE \E e \in execs : ExecStep(e) \/ Abandon(e)
  BY <1>2, <1>3 DEF ExecStep, Begin, ProcessReused, Reserve, RenewForUpload,
     Register, Upload, Publish, Fail, Abandon
<1> QED
  BY <1>1, <1>2, <1>3 DEF Next, UserStep, Create, Cancel, Retry, Expire,
     Claim, RecoverStep, RecoverReservations, FailDependents, RecoverExpired,
     vars, cleanVars

\* Rows stay behind their executors: a claim has none, and a registration adds
\* the row of the file its executor is at.
LEMMA RowsBehindStep ==
  ASSUME StagingInv, FenceUnique, RowsBehind, [Next]_vars
  PROVE  RowsBehind'
<1> SUFFICES ASSUME NEW x \in execs', NEW r \in rows',
                    r.job = x.job, r.fence = x.fence
             PROVE  \/ r.ordinal < x.done
                    \/ r.ordinal = x.done /\ x.stage = "uploading"
  BY DEF RowsBehind
<1>0. TablesTypeOK /\ TablesTypeOK'
  BY TypesStep DEF StagingInv
<1>1. x.done \in Nat /\ r.ordinal \in Nat
  BY <1>0 DEF TablesTypeOK, Executor, Ref
<1>2. CASE Started(x)
  <2>1. job[x.job].fence \in Nat
    BY <1>0, <1>2 DEF Started, TablesTypeOK, Row
  <2>2. r \notin rows
    BY <1>2, <2>1 DEF Started, StagingInv, RowsIssued
  <2>3. PICK e \in execs : r = RefOf(e, e.done)
    BY <1>0, <2>2, RowOrigin
  <2>4. e.fence <= job[x.job].fence /\ e.fence = x.fence
    BY <2>3 DEF RefOf, StagingInv, FenceIssued
  <2> QED
    BY <1>2, <2>1, <2>4 DEF Started
<1>3. ASSUME NEW e \in execs, Advances(x, e)
      PROVE  \/ r.ordinal < x.done
             \/ r.ordinal = x.done /\ x.stage = "uploading"
  <2>0. e.done \in Nat /\ e.job = x.job /\ e.fence = x.fence
    BY <1>0, <1>3 DEF TablesTypeOK, Executor, Advances
  <2>1. CASE r \in rows
    <3>1. r.ordinal < e.done \/ (r.ordinal = e.done /\ e.stage = "uploading")
      BY <2>0, <2>1 DEF RowsBehind
    <3> QED
      BY <1>1, <1>3, <2>0, <3>1 DEF Advances, Register
  <2>2. CASE r \notin rows
    <3>1. PICK f \in execs : Register(f) /\ r = RefOf(f, f.done)
      <4>1. CASE rows' \subseteq rows
        BY <2>2, <4>1
      <4>2. CASE \E f \in execs : ExecStep(f) \/ Abandon(f)
        BY <2>2, <4>2 DEF ExecStep, Begin, ProcessReused, Reserve,
           RenewForUpload, Register, Upload, Publish, Fail, Abandon
      <4> QED
        BY <4>1, <4>2 DEF Next, UserStep, Create, Cancel, Retry, Expire,
           Claim, RecoverStep, RecoverReservations, FailDependents,
           RecoverExpired, CleanupStep, CleanupScan, CleanupClaim, Age,
           CleanupDelete, CleanupForget, vars
    <3>2. r.job = f.job /\ r.fence = f.fence /\ r.ordinal = f.done
      BY <3>1 DEF RefOf
    <3>3. f = e
      BY <2>0, <3>2 DEF FenceUnique
    <3>4. CASE x \in execs
      <4>1. x = f
        BY <2>0, <3>2, <3>4 DEF FenceUnique
      <4>2. x = [f EXCEPT !.stage = "uploading"]
        BY <3>1, <4>1 DEF Register, MoveTo
      <4>3. f \in Executor
        BY <1>0 DEF TablesTypeOK
      <4> QED
        BY <3>2, <4>2, <4>3 DEF Executor
    <3>5. CASE x \notin execs
      <4>1. x = [f EXCEPT !.stage = "uploading"]
        BY <3>1, <3>5 DEF Register, MoveTo
      <4>2. f \in Executor
        BY <1>0 DEF TablesTypeOK
      <4> QED
        BY <3>2, <4>1, <4>2 DEF Executor
    <3> QED
      BY <3>4, <3>5
  <2> QED
    BY <2>1, <2>2
<1> QED
  BY <1>0, <1>2, <1>3, ExecutorAdvances

\* An upload under way stays tracked.
LEMMA UploadTrackedStep ==
  ASSUME StagingInv, RowsBehind, UploadTracked, CollectorTakesOld, [Next]_vars
  PROVE  UploadTracked'
<1> SUFFICES ASSUME NEW x \in execs', x.stage = "uploading"
             PROVE  RefOf(x, x.done) \in (rows' \ purged') \cup overdue'
  BY DEF UploadTracked, RefOf
<1>0. TablesTypeOK
  BY DEF StagingInv
<1>1. PICK e \in execs : Advances(x, e)
  BY <1>0, ExecutorAdvances DEF Started
<1>2. RefOf(x, x.done) = RefOf(e, e.done)
  BY <1>1 DEF Advances, RefOf
<1>3. CASE e.stage = "uploading"
  <2>1. RefOf(e, e.done) \in (rows \ purged) \cup overdue
    BY <1>3 DEF UploadTracked
  <2>2. CASE RefOf(e, e.done) \in overdue
    BY <1>2, <2>2, PurgedStep
  <2>3. CASE RefOf(e, e.done) \in rows \ purged
    <3>1. RefOf(e, e.done) \in rows'
      BY <2>3, RowLost
    <3>2. ASSUME NEW r \in rows, CleanupDelete(r)
          PROVE  RefOf(e, e.done) \in purged' => RefOf(e, e.done) \in overdue'
      <4>1. r \in old
        BY <3>2 DEF CleanupDelete, CollectorTakesOld
      <4> QED
        BY <1>3, <2>3, <3>2, <4>1 DEF CleanupDelete
    <3>3. RefOf(e, e.done) \in purged' => RefOf(e, e.done) \in overdue'
      BY <2>3, <3>2, PurgedStep
    <3> QED
      BY <1>2, <3>1, <3>3
  <2> QED
    BY <2>1, <2>2, <2>3
<1>4. CASE e.stage # "uploading"
  <2>1. Register(e)
    BY <1>1, <1>4 DEF Advances
  <2>2. e.done \in Nat /\ e.stage = "registering"
    BY <1>0, <2>1 DEF TablesTypeOK, Executor, Register
  <2>3. RefOf(e, e.done) \notin rows
    BY <2>2 DEF RowsBehind, RefOf
  <2> QED
    BY <1>0, <1>2, <2>1, <2>3 DEF Register, TablesTypeOK, cleanVars
<1> QED
  BY <1>3, <1>4

\* TrackInv is inductive relative to StagingInv and FenceUnique.
LEMMA TrackStep == StagingInv /\ FenceUnique /\ TrackInv /\ [Next]_vars
                     => TrackInv'
<1> SUFFICES ASSUME StagingInv, FenceUnique, TrackInv, [Next]_vars
             PROVE  TrackInv'
  OBVIOUS
<1>0. TablesTypeOK /\ RowsBehind /\ UploadTracked /\ CollectorTakesOld
      /\ StoredIsTracked
  BY DEF StagingInv, TrackInv
<1>1. RowsBehind'
  BY <1>0, RowsBehindStep
<1>2. UploadTracked'
  BY <1>0, UploadTrackedStep
<1>3. CollectorTakesOld'
  BY <1>0, TakesOldStep
<1>4. StoredIsTracked'
  <2> SUFFICES ASSUME NEW s \in stored'
               PROVE  s \in rows' \cup overdue'
    BY DEF StoredIsTracked
  <2>1. CASE s \notin stored
    BY <1>0, <2>1, StoredOrigin DEF UploadTracked
  <2>2. CASE s \in stored
    <3>1. s \in rows \cup overdue
      BY <1>0, <2>2 DEF StoredIsTracked
    <3>2. CASE s \in overdue
      BY <3>2, PurgedStep
    <3>3. CASE s \in rows /\ s \notin rows'
      <4>1. s \in purged
        BY <3>3, RowLost
      <4>2. s \in overdue
        BY <1>0, <2>2, <4>1 DEF CollectorTakesOld
      <4> QED
        BY <4>2, PurgedStep
    <3> QED
      BY <3>1, <3>2, <3>3
  <2> QED
    BY <2>1, <2>2
<1> QED
  BY <1>1, <1>2, <1>3, <1>4 DEF TrackInv

\* Every object in the store has its row, so nothing an interrupted upload
\* leaves is out of the collector's sight, unless the collector deleted it, its
\* row being old, under an upload still to come (executor.ts, staging.ts).
THEOREM StoredStaysTracked == Spec => []StoredIsTracked
<1>1. Init => FenceUnique /\ TrackInv
  BY DEF Init, FenceUnique, TrackInv, RowsBehind, UploadTracked,
         CollectorTakesOld, StoredIsTracked
<1>2. TrackInv => StoredIsTracked
  BY DEF TrackInv
<1> QED
  BY <1>1, <1>2, StagingCorrect, UniqueStep, TrackStep, PTL DEF Spec
-----------------------------------------------------------------------------

\* What an executor's place says of its files, and what it knows of its claim.
DoneRight ==
  \A e \in execs :
    /\ e.fence > 0
    /\ e.stage \in {"claimed", "processing"} => e.done = 0
    /\ e.stage = "publishing" => e.done = Outputs[e.job]
    /\ job[e.job].fence = e.fence => e.attempts = job[e.job].attempts

\* The step of the row of one job, as far as results and attempts go.
RowRule(j) ==
  \/ /\ job'[j].status = job[j].status /\ winner'[j] = winner[j]
     /\ job'[j].attempts = job[j].attempts /\ job'[j].fence = job[j].fence
  \/ /\ job[j].status = "absent" /\ winner'[j] = winner[j]
     /\ \/ job'[j].status = "queued"
        \/ job'[j].status = "completed" /\ DependsOn[j] = {}
     /\ job'[j].attempts = job[j].attempts
     /\ job'[j].fence = job[j].fence
  \/ /\ job[j].status \in Active /\ job'[j].status \in Stopped
     /\ winner'[j] = winner[j] /\ job'[j].attempts = job[j].attempts
     /\ job'[j].fence >= job[j].fence
  \/ /\ job[j].status = "running" /\ job'[j].status = "retry_wait"
     /\ winner'[j] = winner[j] /\ job'[j].attempts = job[j].attempts
     /\ job'[j].fence >= job[j].fence
     /\ \/ job[j].attempts < MaxAttempts
        \/ \E e \in execs : /\ e.job = j /\ e.fence = job[j].fence
                            /\ e.attempts < MaxAttempts
  \/ /\ job[j].status \in Stopped /\ job'[j].status = "queued"
     /\ winner'[j] = winner[j] /\ job'[j].attempts = 0
     /\ job'[j].fence > job[j].fence
  \/ /\ job[j].status \in Waiting /\ job'[j].status = "running"
     /\ winner'[j] = winner[j] /\ job'[j].attempts = job[j].attempts + 1
     /\ job'[j].fence > job[j].fence
     /\ DependenciesDone(j)
  \/ /\ job[j].status = "running" /\ job'[j].status = "completed"
     /\ winner'[j] = job[j].fence /\ job'[j].fence = job[j].fence
     /\ job'[j].attempts = job[j].attempts

\* Every operation moves the row of every job by one of these moves.
LEMMA RowRules ==
  ASSUME TablesTypeOK, [Next]_vars, NEW k \in Jobs
  PROVE  RowRule(k)
<1>0. /\ job[k] \in Row /\ job[k].fence \in Nat /\ job[k].attempts \in Nat
      /\ job \in [Jobs -> Row] /\ winner \in [Jobs -> Nat]
  BY DEF TablesTypeOK, Row
<1>1. CASE job'[k] = job[k] /\ winner'[k] = winner[k]
  BY <1>1 DEF RowRule
<1>2. ASSUME NEW j \in Jobs, Create(j)
      PROVE  RowRule(k)
  <2>1. CASE j # k
    BY <1>0, <1>1, <1>2, <2>1 DEF Create, publishVars
  <2>2. CASE j = k /\ job' = [job EXCEPT ![j].status = "queued"]
    <3>1. job'[k] = [job[k] EXCEPT !.status = "queued"]
      BY <1>0, <2>2
    <3> QED
      BY <1>0, <1>2, <2>2, <3>1 DEF Create, RowRule, publishVars, Row
  <2>3. CASE j = k /\ job' = [job EXCEPT ![j].status = "completed"]
             /\ DependsOn[j] = {}
    <3>1. job'[k] = [job[k] EXCEPT !.status = "completed"]
      BY <1>0, <2>3
    <3> QED
      BY <1>0, <1>2, <2>3, <3>1 DEF Create, RowRule, publishVars, Row
  <2> QED
    BY <1>2, <2>1, <2>2, <2>3 DEF Create
<1>3. ASSUME NEW j \in Jobs, Cancel(j)
      PROVE  RowRule(k)
  BY <1>0, <1>1, <1>3 DEF Cancel, RowRule, Row, publishVars, Stopped
<1>4. ASSUME NEW j \in Jobs, Retry(j)
      PROVE  RowRule(k)
  <2>1. CASE j # k
    BY <1>0, <1>1, <1>4, <2>1 DEF Retry, publishVars
  <2>2. CASE j = k
    <3>1. /\ job'[k].status = "queued" /\ job'[k].attempts = 0
          /\ job'[k].fence = job[k].fence + 1
      BY <1>0, <1>4, <2>2 DEF Retry, Row
    <3>2. job[k].status \in Stopped /\ winner'[k] = winner[k]
      BY <1>4, <2>2 DEF Retry, publishVars
    <3> QED
      BY <1>0, <3>1, <3>2 DEF RowRule
  <2> QED
    BY <2>1, <2>2
<1>5. ASSUME NEW j \in Jobs, Expire(j)
      PROVE  RowRule(k)
  BY <1>0, <1>1, <1>5 DEF Expire, RowRule, Row, publishVars
<1>6. CASE FailDependents
  <2>1. k \in Orphaned => job'[k] = [job[k] EXCEPT !.status = "failed"]
                            /\ job[k].status \in Waiting
    BY <1>6 DEF FailDependents, Orphaned
  <2>2. CASE k \notin Orphaned
    BY <1>1, <1>6, <2>2 DEF FailDependents, publishVars
  <2>3. CASE k \in Orphaned
    <3>1. /\ job'[k].status = "failed" /\ job'[k].attempts = job[k].attempts
          /\ job'[k].fence = job[k].fence /\ winner'[k] = winner[k]
      BY <1>0, <1>6, <2>1, <2>3 DEF FailDependents, Row, publishVars
    <3> QED
      BY <1>0, <2>1, <2>3, <3>1 DEF RowRule, Stopped, Active
  <2> QED
    BY <2>2, <2>3
<1>7. CASE RecoverExpired
  <2>1. CASE k \in Lost /\ AttemptsLeft(job[k].attempts)
    <3>1. job'[k] = [job[k] EXCEPT !.status = "retry_wait",
                       !.worker = NoWorker, !.lease = "none", !.fence = @ + 1]
      BY <1>7, <2>1 DEF RecoverExpired
    <3>2. /\ job'[k].status = "retry_wait" /\ job'[k].attempts = job[k].attempts
          /\ job'[k].fence = job[k].fence + 1
      BY <1>0, <3>1 DEF Row
    <3>3. job[k].status = "running" /\ winner'[k] = winner[k]
      BY <1>7, <2>1 DEF Lost, RecoverExpired, publishVars
    <3> QED
      BY <1>0, <2>1, <3>2, <3>3 DEF RowRule, AttemptsLeft
  <2>2. CASE k \in Lost /\ ~ AttemptsLeft(job[k].attempts)
    <3>1. job'[k] = [job[k] EXCEPT !.status = "failed",
                       !.worker = NoWorker, !.lease = "none", !.fence = @ + 1]
      BY <1>7, <2>2 DEF RecoverExpired
    <3>2. /\ job'[k].status = "failed" /\ job'[k].attempts = job[k].attempts
          /\ job'[k].fence = job[k].fence + 1
      BY <1>0, <3>1 DEF Row
    <3>3. job[k].status = "running" /\ winner'[k] = winner[k]
      BY <1>7, <2>2 DEF Lost, RecoverExpired, publishVars
    <3> QED
      BY <1>0, <2>2, <3>2, <3>3 DEF RowRule, Active, Stopped
  <2>3. CASE k \notin Lost
    BY <1>1, <1>7, <2>3 DEF RecoverExpired, publishVars
  <2> QED
    BY <2>1, <2>2, <2>3
<1>8. ASSUME NEW w \in Workers, NEW j \in Jobs, Claim(w, j)
      PROVE  RowRule(k)
  <2>1. CASE j # k
    BY <1>0, <1>1, <1>8, <2>1 DEF Claim, publishVars
  <2>2. CASE j = k
    <3>1. /\ job'[k].status = "running" /\ job'[k].attempts = job[k].attempts + 1
          /\ job'[k].fence = job[k].fence + 1
      BY <1>0, <1>8, <2>2 DEF Claim, Row
    <3>2. /\ job[k].status \in Waiting /\ DependenciesDone(k)
          /\ winner'[k] = winner[k]
      BY <1>8, <2>2 DEF Claim, publishVars
    <3> QED
      BY <1>0, <3>1, <3>2 DEF RowRule
  <2> QED
    BY <2>1, <2>2
<1>9. ASSUME NEW e \in execs, Publish(e)
      PROVE  RowRule(k)
  BY <1>0, <1>1, <1>9 DEF Publish, RowRule, Row, Owns
<1>10. ASSUME NEW e \in execs, NEW retryable \in BOOLEAN, Fail(e, retryable)
       PROVE  RowRule(k)
  <2>1. CASE ~ Owns(e) \/ e.job # k
    BY <1>0, <1>1, <1>10, <2>1 DEF Fail, publishVars
  <2>2. CASE Owns(e) /\ e.job = k /\ retryable /\ AttemptsLeft(e.attempts)
    <3>1. job'[k] = [job[k] EXCEPT !.status = "retry_wait",
                       !.worker = NoWorker, !.lease = "none"]
      BY <1>0, <1>10, <2>2 DEF Fail
    <3> QED
      BY <1>0, <1>10, <2>2, <3>1 DEF Fail, RowRule, Row, publishVars, Owns,
         AttemptsLeft
  <2>3. CASE Owns(e) /\ e.job = k /\ ~ (retryable /\ AttemptsLeft(e.attempts))
    <3>1. job'[k] = [job[k] EXCEPT !.status = "failed",
                       !.worker = NoWorker, !.lease = "none"]
      BY <1>0, <1>10, <2>3 DEF Fail
    <3> QED
      BY <1>0, <1>10, <2>3, <3>1 DEF Fail, RowRule, Row, publishVars, Owns,
         Active, Stopped
  <2> QED
    BY <2>1, <2>2, <2>3
<1>11. ASSUME NEW e \in execs, ExecStep(e)
       PROVE  RowRule(k)
  BY <1>1, <1>9, <1>10, <1>11 DEF ExecStep, Begin, ProcessReused, Reserve,
     RenewForUpload, Register, Upload, jobVars, publishVars
<1>12. CASE UNCHANGED <<job, winner>>
  BY <1>1, <1>12
<1> QED
  BY <1>2, <1>3, <1>4, <1>5, <1>6, <1>7, <1>8, <1>11, <1>12
     DEF Next, UserStep, RecoverStep, RecoverReservations, CleanupStep,
         CleanupScan, CleanupClaim, Age, CleanupDelete, CleanupForget,
         Abandon, jobVars, publishVars, vars

\* DoneRight is inductive relative to StagingInv.
LEMMA DoneRightStep == StagingInv /\ DoneRight /\ [Next]_vars => DoneRight'
<1> SUFFICES ASSUME StagingInv, DoneRight, [Next]_vars, NEW x \in execs'
             PROVE  /\ x.fence > 0
                    /\ x.stage \in {"claimed", "processing"} => x.done = 0
                    /\ x.stage = "publishing" => x.done = Outputs[x.job]
                    /\ job'[x.job].fence = x.fence
                         => x.attempts = job'[x.job].attempts
  BY DEF DoneRight
<1>0. TablesTypeOK
  BY DEF StagingInv
<1>1. CASE Started(x)
  <2>1. job[x.job].fence \in Nat
    BY <1>0, <1>1 DEF Started, TablesTypeOK, Row
  <2> QED
    BY <1>1, <2>1 DEF Started
<1>2. ASSUME NEW e \in execs, Advances(x, e)
      PROVE  /\ x.fence > 0
             /\ x.stage \in {"claimed", "processing"} => x.done = 0
             /\ x.stage = "publishing" => x.done = Outputs[x.job]
             /\ job'[x.job].fence = x.fence
                  => x.attempts = job'[x.job].attempts
  <2>1. e \in Executor
    BY <1>0 DEF TablesTypeOK
  <2>2. /\ e.job \in Jobs /\ e.fence \in Nat /\ e.done \in Nat
        /\ x.job = e.job /\ x.fence = e.fence /\ x.attempts = e.attempts
    BY <1>2, <2>1 DEF Executor, Advances
  <2>3. x.stage \in {"claimed", "processing"} => x.done = 0
    BY <1>2 DEF Advances, DoneRight
  <2>4. x.stage = "publishing" => x.done = Outputs[x.job]
    BY <1>2, <2>2 DEF Advances, DoneRight
  <2>5. job'[e.job].fence = e.fence => e.attempts = job'[e.job].attempts
    <3> SUFFICES ASSUME job'[e.job].fence = e.fence
                 PROVE  e.attempts = job'[e.job].attempts
      OBVIOUS
    <3>1. job[e.job].fence \in Nat
      BY <1>0, <2>2 DEF TablesTypeOK, Row
    <3>2. job[e.job].fence = e.fence
      BY <1>0, <2>2, <3>1, FencesGrow DEF FenceRule, StagingInv, FenceIssued
    <3>3. job'[e.job].attempts = job[e.job].attempts
      BY <1>0, <2>2, <3>1, <3>2, RowRules DEF RowRule
    <3> QED
      BY <3>2, <3>3 DEF DoneRight
  <2> QED
    BY <2>2, <2>3, <2>4, <2>5 DEF DoneRight
<1> QED
  BY <1>0, <1>1, <1>2, ExecutorAdvances

\* Only a job's publication makes objects visible, all files of its claim.
LEMMA AssetsStep ==
  ASSUME StagingInv, DoneRight, [Next]_vars
  PROVE  \/ /\ assets' = assets
            /\ \A j \in Jobs : winner'[j] = winner[j]
         \/ \E e \in execs :
              /\ job[e.job].status = "running"
              /\ e.job \in Jobs
              /\ job'[e.job].status = "completed"
              /\ winner' = [winner EXCEPT ![e.job] = e.fence]
              /\ assets' = assets \cup
                   {RefOf(e, n) : n \in 0 .. Outputs[e.job] - 1}
<1>0. TablesTypeOK
  BY DEF StagingInv
<1>1. ASSUME NEW e \in execs, Publish(e)
      PROVE  /\ job[e.job].status = "running"
             /\ e.job \in Jobs
             /\ job'[e.job].status = "completed"
             /\ winner' = [winner EXCEPT ![e.job] = e.fence]
             /\ assets' = assets \cup
                  {RefOf(e, n) : n \in 0 .. Outputs[e.job] - 1}
  <2>1. e.done = Outputs[e.job]
    BY <1>1 DEF Publish, DoneRight
  <2>2. e.job \in Jobs
    BY <1>0 DEF TablesTypeOK, Executor
  <2>3. job'[e.job].status = "completed"
    BY <1>0, <1>1, <2>2 DEF Publish, TablesTypeOK, Row
  <2> QED
    BY <1>1, <2>1, <2>2, <2>3 DEF Publish, Owns
<1>2. CASE UNCHANGED publishVars
  BY <1>2 DEF publishVars
<1>3. CASE \E e \in execs : ExecStep(e) \/ Abandon(e)
  BY <1>1, <1>2, <1>3 DEF ExecStep, Begin, ProcessReused, Reserve,
     RenewForUpload, Register, Upload, Fail, Abandon
<1> QED
  BY <1>2, <1>3 DEF Next, UserStep, Create, Cancel, Retry, Expire, Claim,
     RecoverStep, RecoverReservations, FailDependents, RecoverExpired,
     CleanupStep, CleanupScan, CleanupClaim, Age, CleanupDelete,
     CleanupForget, vars, publishVars

\* Only a finished job has a winner.
WinnersFinished ==
  \A j \in Jobs : winner[j] # 0 => job[j].status = "completed"

\* Publication is whole: relative to the invariants so far.
LEMMA PublishedStep ==
  StagingInv /\ DoneRight /\ WinnersFinished /\ PublishedAsAWhole /\ [Next]_vars
    => WinnersFinished' /\ PublishedAsAWhole'
<1> SUFFICES ASSUME StagingInv, DoneRight, WinnersFinished, PublishedAsAWhole,
                    [Next]_vars, NEW j \in Jobs
             PROVE  /\ winner'[j] # 0 => job'[j].status = "completed"
                    /\ {r \in assets' : r.job = j} =
                         IF job'[j].status = "completed" /\ winner'[j] # 0
                         THEN {[job |-> j, fence |-> winner'[j], ordinal |-> n] :
                                 n \in 0 .. Outputs[j] - 1}
                         ELSE {}
  BY DEF WinnersFinished, PublishedAsAWhole
<1>0. TablesTypeOK /\ job[j].status \in {"absent"} \cup Active \cup Terminal
  BY DEF StagingInv, TablesTypeOK, Row
<1>1. /\ winner[j] # 0 => job[j].status = "completed"
      /\ {r \in assets : r.job = j} =
           IF job[j].status = "completed" /\ winner[j] # 0
           THEN {[job |-> j, fence |-> winner[j], ordinal |-> n] :
                   n \in 0 .. Outputs[j] - 1}
           ELSE {}
  BY DEF WinnersFinished, PublishedAsAWhole
<1>2. job[j].status = "completed" => job'[j].status = "completed"
  BY <1>0, RowRules DEF RowRule, Active, Stopped, Waiting
<1>3. CASE assets' = assets /\ winner'[j] = winner[j]
  BY <1>1, <1>2, <1>3
<1>4. ASSUME NEW e \in execs,
             job[e.job].status = "running", e.job \in Jobs,
             job'[e.job].status = "completed",
             winner' = [winner EXCEPT ![e.job] = e.fence],
             assets' = assets \cup {RefOf(e, n) : n \in 0 .. Outputs[e.job] - 1}
      PROVE  /\ winner'[j] # 0 => job'[j].status = "completed"
             /\ {r \in assets' : r.job = j} =
                  IF job'[j].status = "completed" /\ winner'[j] # 0
                  THEN {[job |-> j, fence |-> winner'[j], ordinal |-> n] :
                          n \in 0 .. Outputs[j] - 1}
                  ELSE {}
  <2>1. winner \in [Jobs -> Nat]
    BY <1>0 DEF TablesTypeOK
  <2>2. CASE e.job # j
    <3>1. winner'[j] = winner[j]
      BY <1>4, <2>1, <2>2
    <3>2. {r \in assets' : r.job = j} = {r \in assets : r.job = j}
      BY <1>4, <2>2 DEF RefOf
    <3> QED
      BY <1>1, <1>2, <3>1, <3>2
  <2>3. CASE e.job = j
    <3>1. winner'[j] = e.fence /\ e.fence # 0
      BY <1>4, <2>1, <2>3 DEF DoneRight
    <3>2. {r \in assets : r.job = j} = {}
      BY <1>1, <1>4, <2>3
    <3>3. {r \in assets' : r.job = j} =
            {RefOf(e, n) : n \in 0 .. Outputs[j] - 1}
      BY <1>4, <2>3, <3>2 DEF RefOf
    <3>4. \A n : RefOf(e, n) = [job |-> j, fence |-> winner'[j], ordinal |-> n]
      BY <2>3, <3>1 DEF RefOf
    <3> QED
      BY <1>4, <2>3, <3>1, <3>3, <3>4
  <2> QED
    BY <2>2, <2>3
<1> QED
  BY <1>3, <1>4, AssetsStep

\* A result becomes visible whole or not at all, and from one claim only,
\* whatever crashes, stalls and retries go on around (executor.ts publish).
THEOREM ResultsAreWhole == Spec => []PublishedAsAWhole
<1>1. Init => DoneRight /\ WinnersFinished /\ PublishedAsAWhole
  BY DEF Init, DoneRight, WinnersFinished, PublishedAsAWhole
<1> QED
  BY <1>1, StagingCorrect, DoneRightStep, PublishedStep, PTL DEF Spec
-----------------------------------------------------------------------------

\* A job runs or has a result only when its dependencies have one, which they
\* keep (claimMediaJob).
THEOREM DependenciesComeFirst == Spec => []DependenciesFirst
<1>1. Init => DependenciesFirst
  BY DEF Init, DependenciesFirst
<1>2. TablesTypeOK /\ DependenciesFirst /\ [Next]_vars => DependenciesFirst'
  <2> SUFFICES ASSUME TablesTypeOK, DependenciesFirst, [Next]_vars,
                      NEW j \in Jobs, job'[j].status \in {"running", "completed"},
                      NEW d \in DependsOn[j]
               PROVE  job'[d].status = "completed"
    BY DEF DependenciesFirst
  <2>1. d \in Jobs
    BY JobsAssumption
  <2>2. job[d].status = "completed" => job'[d].status = "completed"
    BY <2>1, RowRules DEF RowRule, Active, Stopped, Waiting
  <2>3. job[d].status = "completed"
    <3>1. job[j].status \in {"running", "completed"} \/ DependenciesDone(j)
      BY RowRules DEF RowRule, Stopped
    <3> QED
      BY <3>1 DEF DependenciesFirst, DependenciesDone
  <2> QED
    BY <2>2, <2>3
<1> QED
  BY <1>1, <1>2, TypeCorrect, PTL DEF Spec

\* Absent jobs have not been delivered.
AttemptInv ==
  /\ AttemptLimit
  /\ \A j \in Jobs : job[j].status = "absent" => job[j].attempts = 0

\* Recovery, failures and crashes never deliver a job more often than allowed,
\* however stale the executor that fails it (recoverMediaJobs, failMediaJob).
THEOREM AttemptsLimited == Spec => []AttemptLimit
<1>1. Init => DoneRight /\ AttemptInv
  BY LimitsAssumption DEF Init, DoneRight, AttemptInv, AttemptLimit, Waiting
<1>2. StagingInv /\ DoneRight /\ AttemptInv /\ [Next]_vars => AttemptInv'
  <2> SUFFICES ASSUME StagingInv, DoneRight, AttemptInv, [Next]_vars,
                      NEW j \in Jobs
               PROVE  /\ job'[j].attempts <= MaxAttempts
                      /\ job'[j].status \in Waiting
                           => job'[j].attempts < MaxAttempts
                      /\ job'[j].status = "absent" => job'[j].attempts = 0
    BY DEF AttemptInv, AttemptLimit
  <2>1. job[j].attempts \in Nat /\ MaxAttempts \in Nat /\ MaxAttempts > 0
    BY LimitsAssumption DEF StagingInv, TablesTypeOK, Row
  <2>2. /\ job[j].attempts <= MaxAttempts
        /\ job[j].status \in Waiting => job[j].attempts < MaxAttempts
        /\ job[j].status = "absent" => job[j].attempts = 0
    BY DEF AttemptInv, AttemptLimit
  <2>3. \A e \in execs : e.job = j /\ e.fence = job[j].fence
                           => e.attempts = job[j].attempts
    BY DEF DoneRight
  <2>4. RowRule(j)
    BY RowRules DEF StagingInv
  <2> QED
    BY <2>1, <2>2, <2>3, <2>4 DEF RowRule, Stopped, Waiting
<1>3. AttemptInv => AttemptLimit
  BY DEF AttemptInv
<1> QED
  BY <1>1, <1>2, <1>3, StagingCorrect, DoneRightStep, PTL DEF Spec
-----------------------------------------------------------------------------

\* The phases of the abstract job.
LEMMA Phases ==
  /\ PhaseOf("absent") = "absent"
  /\ \A s \in Waiting : PhaseOf(s) = "open"
  /\ PhaseOf("running") = "owned"
  /\ PhaseOf("completed") = "done"
  /\ \A s \in Stopped : PhaseOf(s) = "stopped"
BY DEF PhaseOf, Waiting, Stopped

\* The queue starts as a table of fenced jobs, and every step of the queue is
\* one of theirs: a job is finished by the executor of its latest claim, once,
\* and reopened under a new fence only (repository.ts).
THEOREM QueueKeepsContract == Spec => KeepsContract
<1>1. Init => Contract!Init
  BY Phases DEF Init, Contract!Init
<1>2. StagingInv /\ [Next]_vars => [Contract!Next]_Contract!vars
  <2> SUFFICES ASSUME StagingInv, [Next]_vars, NEW j \in Jobs
               PROVE  Contract!JobStep(j)
    BY DEF Contract!Next
  <2>1. job[j].fence \in Nat /\ job'[j].fence \in Nat
    BY TypesStep DEF StagingInv, TablesTypeOK, Row
  <2>2. RowRule(j)
    BY RowRules DEF StagingInv
  <2>3. /\ [i \in Jobs |-> PhaseOf(job[i].status)][j] = PhaseOf(job[j].status)
        /\ [i \in Jobs |-> PhaseOf(job[i].status)]'[j] = PhaseOf(job'[j].status)
        /\ [i \in Jobs |-> job[i].fence][j] = job[j].fence
        /\ [i \in Jobs |-> job[i].fence]'[j] = job'[j].fence
    OBVIOUS
  <2> USE DEF Contract!JobStep, Contract!Move
  <2>4. CASE /\ job'[j].status = job[j].status /\ winner'[j] = winner[j]
             /\ job'[j].fence = job[j].fence
    BY <2>3, <2>4 DEF Contract!Same
  <2>5. CASE /\ job[j].status = "absent" /\ winner'[j] = winner[j]
             /\ job'[j].status \in {"queued", "completed"}
             /\ job'[j].fence = job[j].fence
    BY <2>3, <2>5, Phases DEF Contract!Submit, Waiting
  <2>6. CASE /\ job[j].status \in Active /\ job'[j].status \in Stopped
             /\ winner'[j] = winner[j] /\ job'[j].fence >= job[j].fence
    <3>1. CASE job[j].status = "running"
      BY <2>1, <2>3, <2>6, <3>1, Phases DEF Contract!Release
    <3>2. CASE job[j].status \in Waiting
      BY <2>1, <2>3, <2>6, <3>2, Phases DEF Contract!Stop
    <3> QED
      BY <2>6, <3>1, <3>2 DEF Active
  <2>7. CASE /\ job[j].status = "running" /\ job'[j].status = "retry_wait"
             /\ winner'[j] = winner[j] /\ job'[j].fence >= job[j].fence
    BY <2>1, <2>3, <2>7, Phases DEF Contract!Release, Waiting
  <2>8. CASE /\ job[j].status \in Stopped /\ job'[j].status = "queued"
             /\ winner'[j] = winner[j] /\ job'[j].fence > job[j].fence
    BY <2>1, <2>3, <2>8, Phases DEF Contract!Resume, Waiting
  <2>9. CASE /\ job[j].status \in Waiting /\ job'[j].status = "running"
             /\ winner'[j] = winner[j] /\ job'[j].fence > job[j].fence
    BY <2>1, <2>3, <2>9, Phases DEF Contract!Acquire
  <2>10. CASE /\ job[j].status = "running" /\ job'[j].status = "completed"
              /\ winner'[j] = job[j].fence /\ job'[j].fence = job[j].fence
    BY <2>3, <2>10, Phases DEF Contract!Finish
  <2> QED
    BY <2>2, <2>4, <2>5, <2>6, <2>7, <2>8, <2>9, <2>10 DEF RowRule
<1> QED
  BY <1>1, <1>2, StagingCorrect, PTL DEF Spec, KeepsContract, Contract!Spec

-----------------------------------------------------------------------------

\* The jobs with a reservation in the table, and the bytes it records.
Holders(table) == {j \in Jobs : table[j] # 0}
Recorded(table) == SumFunctionOnSet(Size, Holders(table))

\* Claims give out fences above zero, which is what tells a reservation from none.
FencesPositive == \A e \in execs : e.fence > 0

AccountInv ==
  /\ FencesPositive
  /\ IsFiniteSet(Holders(reservation))
  /\ QuotaAccounted

LEMMA RecordedIsNatural ==
  ASSUME NEW S \in SUBSET Jobs, IsFiniteSet(S)
  PROVE  SumFunctionOnSet(Size, S) \in Nat
BY SumIsNatural, JobsAssumption

\* The accounting trigger of a deletion subtracts what the deleted rows recorded.
LEMMA DropAccounts ==
  ASSUME AccountInv, TablesTypeOK, NEW S \in SUBSET Jobs, DropReservations(S)
  PROVE  /\ IsFiniteSet(Holders(reservation'))
         /\ reservedBytes' = Recorded(reservation')
         /\ reservedBytes' <= reservedBytes
<1> DEFINE held == Holders(reservation)
           dropped == {j \in S : reservation[j] # 0}
           Sum(s) == SumFunctionOnSet(Size, s)
<1>1. IsFiniteSet(held) /\ reservedBytes = Sum(held)
  BY DEF AccountInv, QuotaAccounted, Holders
<1>2. dropped \in SUBSET held /\ held \in SUBSET Jobs
  BY DEF Holders
<1>3. Holders(reservation') = held \ dropped
  BY DEF DropReservations, Holders
<1>4. /\ IsFiniteSet(held \ dropped) /\ IsFiniteSet(dropped)
      /\ held \ dropped \in SUBSET Jobs /\ dropped \in SUBSET Jobs
  BY <1>1, <1>2, FS_Subset
<1>5. Sum(held) \in Nat /\ Sum(dropped) \in Nat /\ Sum(held \ dropped) \in Nat
  BY <1>1, <1>2, <1>4, RecordedIsNatural
<1>6. Sum(held) = Sum(dropped) + Sum(held \ dropped)
  <2>1. \A j \in held : Size[j] \in Nat
    BY <1>2, JobsAssumption
  <2> QED
    BY <1>1, <1>2, <2>1, SumSplits
<1>7. reservedBytes' = IF Sum(dropped) > reservedBytes THEN 0
                       ELSE reservedBytes - Sum(dropped)
  BY DEF DropReservations
<1> HIDE DEF held, dropped, Sum
<1>8. reservedBytes' = Sum(held \ dropped) /\ reservedBytes' <= reservedBytes
  BY <1>1, <1>5, <1>6, <1>7
<1> QED
  BY <1>3, <1>4, <1>8 DEF Recorded, Sum

\* An executor reserves once, under a fence that counts.
LEMMA ReserveAccounts ==
  ASSUME AccountInv, TablesTypeOK, NEW e \in execs, Reserve(e)
  PROVE  /\ IsFiniteSet(Holders(reservation'))
         /\ reservedBytes' = Recorded(reservation')
         /\ usedBytes' + reservedBytes' <= Quota
<1> DEFINE held == Holders(reservation)
           j == e.job
<1>1. IsFiniteSet(held) /\ reservedBytes = SumFunctionOnSet(Size, held)
  BY DEF AccountInv, QuotaAccounted, Holders
<1>2. e.fence > 0 /\ j \in Jobs /\ e.fence \in Nat
  BY DEF AccountInv, FencesPositive, TablesTypeOK, Executor
<1>3. j \notin held /\ Holders(reservation') = held \cup {j}
  BY <1>2 DEF Reserve, Holders, TablesTypeOK
<1>4. \A i \in held \cup {j} : Size[i] \in Nat
  BY <1>2, JobsAssumption DEF Holders
<1>5. SumFunctionOnSet(Size, held \cup {j}) = SumFunctionOnSet(Size, held) + Size[j]
  BY <1>1, <1>3, <1>4, SumAdds
<1>6. IsFiniteSet(held \cup {j})
  BY <1>1, FS_AddElement
<1>7. /\ reservedBytes' = reservedBytes + Size[j]
      /\ usedBytes' = usedBytes /\ usedBytes + reservedBytes + Size[j] <= Quota
  BY DEF Reserve, Fits, publishVars
<1>8. /\ Size[j] \in Nat /\ usedBytes \in Nat /\ reservedBytes \in Nat
      /\ Quota \in Nat
  <2>1. held \in SUBSET Jobs
    BY DEF Holders
  <2> QED
    BY <1>1, <1>2, <2>1, RecordedIsNatural, JobsAssumption, LimitsAssumption
    DEF TablesTypeOK
<1> QED
  BY <1>1, <1>3, <1>5, <1>6, <1>7, <1>8 DEF Recorded

\* A publication turns its reservation, when it still has one, into used bytes.
LEMMA PublishAccounts ==
  ASSUME AccountInv, TablesTypeOK, NEW e \in execs, Publish(e)
  PROVE  /\ IsFiniteSet(Holders(reservation'))
         /\ reservedBytes' = Recorded(reservation')
         /\ usedBytes' + reservedBytes' <= Quota
<1> DEFINE held == Holders(reservation)
           j == e.job
           Sum(s) == SumFunctionOnSet(Size, s)
<1>1. IsFiniteSet(held) /\ reservedBytes = Sum(held)
  BY DEF AccountInv, QuotaAccounted, Holders
<1>2. e.fence > 0 /\ j \in Jobs /\ e.fence \in Nat
  BY DEF AccountInv, FencesPositive, TablesTypeOK, Executor
<1>3. held \in SUBSET Jobs
  BY DEF Holders
<1>4. Size[j] \in Nat /\ usedBytes \in Nat /\ Quota \in Nat /\ Sum(held) \in Nat
  BY <1>1, <1>2, <1>3, RecordedIsNatural, JobsAssumption, LimitsAssumption
  DEF TablesTypeOK
<1>5. /\ IsFiniteSet(Holders(reservation'))
      /\ reservedBytes' = Sum(Holders(reservation'))
  <2>1. CASE reservation[j] # e.fence
    <3>1. reservation' = reservation /\ reservedBytes' = reservedBytes
      BY <1>2, <2>1 DEF Publish, TablesTypeOK
    <3> QED
      BY <1>1, <3>1
  <2>2. CASE reservation[j] = e.fence
    <3>1. j \in held /\ Holders(reservation') = held \ {j}
      BY <1>2, <2>2 DEF Publish, Holders, TablesTypeOK
    <3>2. \A i \in held : Size[i] \in Nat
      BY <1>3, JobsAssumption
    <3>3. Sum(held) = Size[j] + Sum(held \ {j})
      BY <1>1, <3>1, <3>2, SumTakesOut
    <3>4. IsFiniteSet(held \ {j}) /\ held \ {j} \in SUBSET Jobs
      BY <1>1, <1>3, FS_Subset
    <3>5. Sum(held \ {j}) \in Nat
      BY <3>4, RecordedIsNatural
    <3>6. reservedBytes' = IF Size[j] > reservedBytes THEN 0
                           ELSE reservedBytes - Size[j]
      BY <2>2 DEF Publish
    <3> HIDE DEF held, j, Sum
    <3>7. reservedBytes' = Sum(held \ {j})
      BY <1>1, <1>4, <3>3, <3>5, <3>6
    <3> QED
      BY <3>1, <3>4, <3>7
  <2> QED
    BY <2>1, <2>2
<1>6. usedBytes' + reservedBytes' <= Quota
  <2> DEFINE bytes == IF e.done = 0 THEN 0 ELSE Size[e.job]
  <2>1. usedBytes + reservedBytes' + bytes <= Quota /\ usedBytes' = usedBytes + bytes
    BY DEF Publish, Fits
  <2>2. bytes \in Nat
    BY <1>4, Zenon
  <2>3. Holders(reservation') \in SUBSET Jobs
    BY DEF Holders
  <2>4. reservedBytes' \in Nat
    BY <1>5, <2>3, RecordedIsNatural
  <2>5. usedBytes \in Nat /\ Quota \in Nat
    BY <1>4
  <2>6. \A a, b, c, q \in Nat : a + b + c <= q => (a + c) + b <= q
    OBVIOUS
  <2>7. usedBytes + bytes + reservedBytes' <= Quota
    BY <2>1, <2>2, <2>4, <2>5, <2>6
  <2> QED
    BY <2>1, <2>7, Zenon
<1> QED
  BY <1>5, <1>6 DEF Recorded

\* The remaining steps leave the accounts alone, or give up reservations.
LEMMA AccountChanges ==
  ASSUME TablesTypeOK, [Next]_vars
  PROVE  \/ UNCHANGED <<reservation, reservedBytes, usedBytes>>
         \/ /\ usedBytes' = usedBytes
            /\ \E S \in SUBSET Jobs : DropReservations(S)
         \/ \E e \in execs : Reserve(e) \/ Publish(e)
<1>1. ASSUME NEW j \in Jobs, Cancel(j) \/ Retry(j)
      PROVE  usedBytes' = usedBytes /\ \E S \in SUBSET Jobs : DropReservations(S)
  BY <1>1 DEF Cancel, Retry, publishVars
<1>2. CASE RecoverReservations
  <2>1. DeadReservations \in SUBSET Jobs
    BY DEF DeadReservations
  <2> QED
    BY <1>2, <2>1 DEF RecoverReservations, publishVars
<1>3. ASSUME NEW e \in execs, NEW retryable \in BOOLEAN, Fail(e, retryable)
      PROVE  /\ usedBytes' = usedBytes
             /\ \/ UNCHANGED quotaVars
                \/ \E S \in SUBSET Jobs : DropReservations(S)
  <2>1. {e.job} \in SUBSET Jobs
    BY DEF TablesTypeOK, Executor
  <2>2. usedBytes' = usedBytes
    BY <1>3 DEF Fail, publishVars
  <2>3. DropReservations({e.job}) \/ UNCHANGED quotaVars
    BY <1>3 DEF Fail
  <2> QED
    BY <2>1, <2>2, <2>3
<1>4. ASSUME NEW e \in execs, \/ Begin(e) \/ ProcessReused(e) \/ RenewForUpload(e)
                              \/ Register(e) \/ Upload(e) \/ Abandon(e)
      PROVE  UNCHANGED <<reservation, reservedBytes, usedBytes>>
  BY <1>4 DEF Begin, ProcessReused, RenewForUpload, Register, Upload, Abandon,
              quotaVars, publishVars
<1>5. ASSUME NEW e \in execs, ExecStep(e)
      PROVE  \/ UNCHANGED <<reservation, reservedBytes, usedBytes>>
             \/ /\ usedBytes' = usedBytes
                /\ \E S \in SUBSET Jobs : DropReservations(S)
             \/ Reserve(e) \/ Publish(e)
  BY <1>3, <1>4, <1>5 DEF ExecStep, quotaVars
<1>6. ASSUME NEW j \in Jobs, Create(j) \/ Expire(j)
      PROVE  UNCHANGED <<reservation, reservedBytes, usedBytes>>
  BY <1>6 DEF Create, Expire, quotaVars, publishVars
<1>7. ASSUME NEW j \in Jobs, NEW w \in Workers, Claim(w, j)
      PROVE  UNCHANGED <<reservation, reservedBytes, usedBytes>>
  BY <1>7 DEF Claim, quotaVars, publishVars
<1>8. ASSUME FailDependents \/ RecoverExpired \/ CleanupStep
      PROVE  UNCHANGED <<reservation, reservedBytes, usedBytes>>
  BY <1>8 DEF FailDependents, RecoverExpired, CleanupStep, CleanupScan,
              CleanupClaim, Age, CleanupDelete, CleanupForget, quotaVars, publishVars
<1>9. CASE UNCHANGED vars
  BY <1>9 DEF vars
<1> QED
  BY <1>1, <1>2, <1>4, <1>5, <1>6, <1>7, <1>8, <1>9 DEF Next, UserStep, RecoverStep

\* Claims issue fences above zero, and executors keep theirs.
LEMMA FencesPositiveStep ==
  StagingInv /\ FencesPositive /\ [Next]_vars => FencesPositive'
<1> SUFFICES ASSUME StagingInv, FencesPositive, [Next]_vars, NEW x \in execs'
             PROVE  x.fence > 0
  BY DEF FencesPositive
<1>1. TablesTypeOK /\ \A e \in execs : e.fence > 0
  BY DEF StagingInv, FencesPositive
<1>2. \A j \in Jobs : job[j].fence \in Nat
  BY <1>1 DEF TablesTypeOK, Row
<1>3. CASE execs' \subseteq execs
  BY <1>1, <1>3
<1>4. ASSUME NEW e \in execs, NEW y \in execs', execs' = (execs \ {e}) \cup {y},
             y.fence = e.fence
      PROVE  x.fence > 0
  BY <1>1, <1>4
<1>5. ASSUME NEW y \in execs', execs' = execs \cup {y}, y.job \in Jobs,
             y.fence = job[y.job].fence + 1
      PROVE  x.fence > 0
  BY <1>1, <1>2, <1>5
<1> QED
  BY <1>1, <1>3, <1>4, <1>5, ExecutorsStep

LEMMA AccountStep == StagingInv /\ AccountInv /\ [Next]_vars => AccountInv'
<1> SUFFICES ASSUME StagingInv, AccountInv, [Next]_vars PROVE AccountInv'
  OBVIOUS
<1>1. TablesTypeOK
  BY DEF StagingInv
<1>2. FencesPositive'
  BY FencesPositiveStep DEF AccountInv
<1>3. /\ IsFiniteSet(Holders(reservation)) /\ reservedBytes = Recorded(reservation)
      /\ usedBytes + reservedBytes <= Quota
  BY DEF AccountInv, QuotaAccounted, Recorded, Holders
<1>4. /\ IsFiniteSet(Holders(reservation')) /\ reservedBytes' = Recorded(reservation')
      /\ usedBytes' + reservedBytes' <= Quota
  <2>1. CASE UNCHANGED <<reservation, reservedBytes, usedBytes>>
    BY <1>3, <2>1
  <2>2. ASSUME NEW S \in SUBSET Jobs, DropReservations(S), usedBytes' = usedBytes
        PROVE  <1>4
    <3>1. /\ IsFiniteSet(Holders(reservation'))
          /\ reservedBytes' = Recorded(reservation')
          /\ reservedBytes' <= reservedBytes
      BY <1>1, <2>2, DropAccounts
    <3>2. Holders(reservation) \in SUBSET Jobs /\ Holders(reservation') \in SUBSET Jobs
      BY DEF Holders
    <3>3. reservedBytes \in Nat /\ reservedBytes' \in Nat
      BY <1>3, <3>1, <3>2, RecordedIsNatural DEF Recorded
    <3>4. usedBytes \in Nat /\ Quota \in Nat
      BY <1>1, LimitsAssumption DEF TablesTypeOK
    <3> QED
      BY <1>3, <2>2, <3>1, <3>3, <3>4
  <2>3. ASSUME NEW e \in execs, Reserve(e) \/ Publish(e)
        PROVE  <1>4
    BY <1>1, <2>3, ReserveAccounts, PublishAccounts
  <2> QED
    BY <1>1, <2>1, <2>2, <2>3, AccountChanges
<1> QED
  BY <1>2, <1>4 DEF AccountInv, QuotaAccounted, Recorded, Holders

\* What the quota is checked against is what the table of reservations records, and
\* it never passes the quota with what is used, whoever gives up, recovers, cancels or
\* publishes around a reservation, for every quota and all sizes.
THEOREM QuotaIsAccounted == Spec => []QuotaAccounted
<1>1. Init => AccountInv
  <2> SUFFICES ASSUME Init PROVE AccountInv
    OBVIOUS
  <2>1. Holders(reservation) = {}
    BY DEF Init, Holders
  <2>2. SumFunctionOnSet(Size, {}) = 0
    BY SumOfNothing
  <2> QED
    BY <2>1, <2>2, FS_EmptySet, LimitsAssumption
    DEF Init, AccountInv, QuotaAccounted, FencesPositive, Holders
<1>2. AccountInv => QuotaAccounted
  BY DEF AccountInv
<1> QED
  BY <1>1, <1>2, AccountStep, StagingCorrect, PTL DEF Spec

=============================================================================
