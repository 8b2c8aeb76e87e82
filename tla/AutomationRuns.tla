--------------------------- MODULE AutomationRuns ---------------------------
(***************************************************************************)
(* The durable automation queue of lib/automation-workflows/runs.ts:       *)
(* admission under overlap policies, the two-step claim, the executions    *)
(* that workers run, the child runs of a Map step, the credit budget of a  *)
(* run tree, cancellation, and the recovery of runs whose worker is gone.  *)
(*                                                                         *)
(* Each action is one committed statement or transaction, or the provider  *)
(* call between two of them.  A run works through three kinds of step:     *)
(* an AI prompt, the image requests of one generation step (in parallel),  *)
(* and the items of one Map step, each executed by a child run.  Every     *)
(* provider call costs one credit.  A partly failed step stops its run     *)
(* (the "stop" policies), so completed_with_warnings is "completed" here.  *)
(***************************************************************************)
EXTENDS Integers, FiniteSets, FiniteSetsExt

CONSTANTS
  Roots,          \* root runs that may be requested
  Request,        \* what each of them was requested with
  Prompts,        \* AI steps
  Images,         \* image requests of the generation step
  Items,          \* items of the Map step
  RootWork,       \* the work of a root run
  ChildWork,      \* the work of a child run
  Workers,        \* ids of worker processes, new at every start
  NoWorker,       \* worker_id IS NULL
  NoRun,          \* claimRun holds no candidate
  NoDelivery,     \* trigger_delivery_id IS NULL
  MaxCredits,     \* policy.maxCredits of the root
  MaxAttempts,    \* max_attempts of a root run
  SlotLimit,      \* AUTOMATION_WORKFLOW_CONCURRENCY
  WorkspaceLimit, \* AUTOMATION_WORKSPACE_CONCURRENCY
  Cancellable,    \* bound: the roots somebody may cancel
  MaxCrashes,     \* bound: worker processes that die
  MaxClaims,      \* bound: claims of one root
  Stalling        \* bound: the roots for whose runs a living worker may be silent

Work == Prompts \cup Images \cup Items
Overlaps == {"queue", "skip", "cancel-previous"}
Claims == 1..MaxClaims

ASSUME WorkAssumption ==
  /\ RootWork \subseteq Work
  /\ ChildWork \subseteq Prompts \cup Images
  /\ Prompts \cap Images = {} /\ (Prompts \cup Images) \cap Items = {}
ASSUME NamesAssumption ==
  /\ NoWorker \notin Workers /\ NoRun \notin Roots
  /\ Roots \cap (Roots \X Items \X Claims) = {}
ASSUME LimitsAssumption ==
  /\ MaxCredits \in Nat
  /\ {MaxAttempts, SlotLimit, WorkspaceLimit, MaxClaims} \subseteq Nat \ {0}
  /\ MaxCrashes \in Nat
  /\ Cancellable \subseteq Roots /\ Stalling \subseteq Roots
ASSUME RequestAssumption ==
  \A r \in Roots : /\ Request[r].overlap \in Overlaps
                   /\ Request[r].concurrent \in Nat \ {0}

VARIABLES
  run,       \* the automation_runs rows
  open,      \* automation_run_budget_reservations with status 'reserved'
  saved,     \* completed automation_node_runs and stored artifacts of a run
  pending,   \* provider_usage_json of status 'pending', by run and prompt
  execs,     \* the processRun calls in progress
  choosing,  \* the row a worker's claimRun has locked
  recovery,  \* the recoverStaleRuns calls in progress
  cancels,   \* the cancelAutomationWorkflowRun calls in progress
  alive,     \* the workers that have not died
  midway,    \* children between the two statements that release their budget
  overtaken, \* history: children for which a reservation came between the two
  seized     \* history: roots requeued although their worker lived

books == <<open, midway, overtaken>>
ledger == <<run, books>>
progress == <<saved, pending>>
control == <<choosing, recovery, cancels, alive, seized>>
vars == <<run, open, saved, pending, execs, choosing, recovery, cancels, alive,
          midway, overtaken, seized>>

\* A child is named by its root, its item and the claim that created it.
Children == Roots \X Items \X Claims
Runs == Roots \cup Children
RootOf(r) == IF r \in Roots THEN r ELSE r[1]
Tree(r) == {s \in Runs : RootOf(s) = r}
WorkOf(r) == IF r \in Roots THEN RootWork ELSE ChildWork

Live == {"queued", "running"}
Terminal == {"completed", "failed", "cancelled"}

Row == [status   : {"absent"} \cup Live \cup Terminal,
        worker   : Workers \cup {NoWorker},
        stale    : BOOLEAN,
        attempts : 0..MaxClaims,
        charged  : Nat,
        reserved : Nat]

Place == {"none", "idle", "started", "reserved", "called", "billed",
          "recording", "fetched", "stored", "releasing", "creating",
          "waiting", "done", "failed"}
Exec == [run : Runs, claim : Claims, worker : Workers,
         phase : {"loading", "active", "failing", "closing"},
         at : [Work -> Place]]
Reservation == Runs \X Claims \X (Prompts \cup Images)
Stale == [run : Runs, worker : Workers \cup {NoWorker}, attempts : 0..MaxClaims]

\* The state is well formed: the rows hold the values their columns allow, and
\* the workers the runs they can have got from them.
TypeOK ==
  /\ run \in [Runs -> Row]
  /\ open \subseteq Reservation
  /\ saved \in [Runs -> SUBSET (Prompts \cup Images)]
  /\ pending \subseteq Runs \X Prompts
  /\ execs \subseteq Exec
  /\ choosing \in [Workers -> Roots \cup {NoRun}]
  /\ recovery \in [Workers -> [todo : SUBSET Stale, release : Runs \cup {NoRun}]]
  /\ cancels \subseteq [root : Roots, stage : {"children", "select", "release"},
                        todo : SUBSET Runs]
  /\ alive \subseteq Workers
  /\ midway \subseteq Children /\ overtaken \subseteq Children /\ seized \subseteq Roots

NoRow == [status |-> "absent", worker |-> NoWorker, stale |-> FALSE,
          attempts |-> 0, charged |-> 0, reserved |-> 0]
Resting == [todo |-> {}, release |-> NoRun]

Init ==
  /\ run = [r \in Runs |-> NoRow]
  /\ open = {} /\ pending = {} /\ execs = {} /\ cancels = {}
  /\ saved = [r \in Runs |-> {}]
  /\ choosing = [w \in Workers |-> NoRun]
  /\ recovery = [w \in Workers |-> Resting]
  /\ alive = Workers
  /\ midway = {} /\ overtaken = {} /\ seized = {}

-----------------------------------------------------------------------------
(* Helpers.                                                                *)

Is(r, status) == run[r].status = status
Running(r) == Is(r, "running")

\* A row that leaves its worker, and what every such UPDATE clears.
Left(r, status) == [run[r] EXCEPT !.status = status, !.worker = NoWorker,
                                  !.stale = FALSE]

\* assertRunActive, and the guard of every write an execution makes to its row.
Owns(e) == Running(e.run) /\ run[e.run].worker = e.worker

\* Reservations lock the budget of the root, releases the budget of their own run:
\* an execution of a child may reserve between the two statements of a release.
Overtakable(r) ==
  r \in Children /\ \E e \in execs : e.run = r /\ e.phase \in {"loading", "active"}

\* releaseOpenAutomationRunBudget.
ReleaseOpen_Uncounted(r) ==
  /\ open' = {o \in open : o[1] # r}
  /\ UNCHANGED <<run, midway, overtaken>>

ReleaseOpen(r) ==
  /\ r \notin midway
  /\ open' = {o \in open : o[1] # r}
  /\ IF Overtakable(r)
     THEN midway' = midway \cup {r} /\ UNCHANGED run
     ELSE run' = [run EXCEPT ![r].reserved = 0] /\ UNCHANGED midway
  /\ UNCHANGED overtaken

\* Its second statement and the commit.
FinishRelease(r) ==
  /\ r \in midway
  /\ run' = [run EXCEPT ![r].reserved = 0]
  /\ midway' = midway \ {r}
  /\ UNCHANGED <<open, overtaken, progress, execs, control>>

Committed(r) == MapThenSumSet(LAMBDA s : run[s].charged + run[s].reserved,
                              Tree(RootOf(r)))

Moved(e, u, place) == execs' = (execs \ {e}) \cup {[e EXCEPT !.at[u] = place]}
Turned(e, phase) == execs' = (execs \ {e}) \cup {[e EXCEPT !.phase = phase]}
Ended(e) == execs' = execs \ {e}

\* The parallel work one step consists of.
StepOf(u) == IF u \in Images THEN Images ELSE IF u \in Items THEN Items ELSE {u}

\* executeAutomationGraph takes one step at a time and stops at a failed one.
MayStart(e, u) ==
  /\ e.phase = "active" /\ e.at[u] = "idle"
  /\ \A v \in Work \ StepOf(u) : e.at[v] \in {"none", "idle", "done"}

AllDone(e) == \A u \in Work : e.at[u] \in {"none", "done"}
StepFailed(e) ==
  \E u \in Work :
    e.at[u] = "failed" /\ \A v \in StepOf(u) : e.at[v] \in {"none", "done", "failed"}

-----------------------------------------------------------------------------
(* Admission.                                                              *)

Active(key) == {s \in Roots : run[s].status \in Live /\ Request[s].admission = key}

\* A delivery that already has a run, or a request equal to an active one, is
\* answered with that run.
Known_ActiveOnly(r) ==
  \E s \in Roots : /\ run[s].status \in Live
                   /\ \/ Request[s].dedupe = Request[r].dedupe
                      \/ /\ Request[s].delivery = Request[r].delivery
                         /\ Request[r].delivery # NoDelivery

Known(r) ==
  \E s \in Roots :
    \/ run[s].status \in Live /\ Request[s].dedupe = Request[r].dedupe
    \/ /\ ~ Is(s, "absent")
       /\ Request[s].delivery = Request[r].delivery
       /\ Request[r].delivery # NoDelivery

\* enqueueAutomationWorkflowRun's transaction.  SELECT ... FOR UPDATE waits for
\* the rows a claim has locked.  The first UPDATE locks the rows it cancels until the
\* commit; a child that had ended is overtakable as in a release.
Enqueue(r) ==
  LET q == Request[r]
      active == Active(q.admission)
      superseded == IF q.overlap = "cancel-previous"
                    THEN UNION {Tree(s) : s \in active} ELSE {}
      late == {s \in superseded : run[s].status \notin Live /\ Overtakable(s)}
      skipped == q.overlap = "skip" /\ Cardinality(active) >= q.concurrent
  IN /\ Is(r, "absent") /\ ~ Known(r)
     /\ \A w \in Workers : choosing[w] \notin active
     /\ run' = [s \in Runs |->
                  IF s = r THEN [NoRow EXCEPT !.status =
                                   IF skipped THEN "cancelled" ELSE "queued"]
                  ELSE IF s \notin superseded \ late THEN run[s]
                  ELSE [IF run[s].status \in Live THEN Left(s, "cancelled")
                        ELSE run[s] EXCEPT !.reserved = 0]]
     /\ open' = {o \in open : o[1] \notin superseded}
     /\ midway' = midway \cup late
     /\ UNCHANGED <<overtaken, progress, execs, control>>

-----------------------------------------------------------------------------
(* claimRun.                                                               *)

RunningRoots == {s \in Roots : Running(s)}
HasRoom(r) ==
  /\ Cardinality(RunningRoots) < WorkspaceLimit
  /\ Cardinality({s \in RunningRoots : Request[s].admission = Request[r].admission})
       < Request[r].concurrent

Recovering(w) == recovery[w] # Resting

\* The candidate: FOR UPDATE SKIP LOCKED, on the snapshot of the statement.
Choose(w, r) ==
  /\ w \in alive /\ ~ Recovering(w) /\ choosing[w] = NoRun
  /\ Cardinality({e \in execs : e.worker = w /\ e.run \in Roots}) < SlotLimit
  /\ Is(r, "queued") /\ \A v \in Workers : choosing[v] # r
  /\ HasRoom(r) /\ run[r].attempts < MaxClaims
  /\ choosing' = [choosing EXCEPT ![w] = r]
  /\ UNCHANGED <<ledger, progress, execs, recovery, cancels, alive, seized>>

Claimed(w, r) ==
  /\ run' = [run EXCEPT ![r] = [@ EXCEPT !.status = "running", !.worker = w,
                                  !.stale = FALSE, !.attempts = run[r].attempts + 1]]
  /\ execs' = execs \cup {[run |-> r, claim |-> run[r].attempts + 1, worker |-> w,
                           phase |-> "loading", at |-> [u \in Work |-> "none"]]}

\* The workspace's advisory lock, the second count and the UPDATE.
Admit_NoRecount(w) ==
  /\ choosing[w] # NoRun
  /\ Claimed(w, choosing[w])
  /\ choosing' = [choosing EXCEPT ![w] = NoRun]
  /\ UNCHANGED <<books, progress, recovery, cancels, alive, seized>>

Admit(w) ==
  LET r == choosing[w]
  IN /\ r # NoRun
     /\ IF HasRoom(r) /\ Is(r, "queued") THEN Claimed(w, r)
        ELSE UNCHANGED <<run, execs>>
     /\ choosing' = [choosing EXCEPT ![w] = NoRun]
     /\ UNCHANGED <<books, progress, recovery, cancels, alive, seized>>

-----------------------------------------------------------------------------
(* processRun: the provider calls of a run.                                *)

\* The prompts already answered are read once, at the start.
Load_Nothing(e) ==
  /\ e.phase = "loading"
  /\ execs' = (execs \ {e}) \cup
       {[e EXCEPT !.phase = "active",
           !.at = [u \in Work |-> IF u \in WorkOf(e.run) THEN "idle" ELSE "none"]]}
  /\ UNCHANGED <<ledger, progress, control>>

Load(e) ==
  /\ e.phase = "loading"
  /\ execs' = (execs \ {e}) \cup
       {[e EXCEPT !.phase = "active",
           !.at = [u \in Work |->
                     IF u \notin WorkOf(e.run) THEN "none"
                     ELSE IF u \in Prompts \cap saved[e.run] THEN "done"
                     ELSE "idle"]]}
  /\ UNCHANGED <<ledger, progress, control>>

\* nodeStarted, or an image request that finds no artifact of its key.
StartCall(e, u) ==
  /\ MayStart(e, u) /\ u \notin Items
  /\ Moved(e, u, IF u \in Images \cap saved[e.run] THEN "done"
                 ELSE IF Owns(e) THEN "started" ELSE "failed")
  /\ UNCHANGED <<ledger, progress, control>>

\* reserveAutomationRunBudget.  Its transaction reads the status before it
\* waits for the root's lock and not after: the read is part of StartCall.
Reserve(e, u) ==
  /\ e.at[u] = "started"
  /\ IF Committed(e.run) + 1 > MaxCredits
     THEN Moved(e, u, "failed") /\ UNCHANGED ledger
     ELSE /\ open' = open \cup {<<e.run, e.claim, u>>}
          /\ run' = [run EXCEPT ![e.run].reserved = @ + 1]
          /\ Moved(e, u, "reserved")
          /\ overtaken' = overtaken \cup ({e.run} \cap midway)
          /\ UNCHANGED midway
  /\ UNCHANGED <<progress, control>>

\* The call is made; a prompt's usage is first marked pending.
Call(e, u) ==
  /\ e.at[u] = "reserved"
  /\ pending' = IF u \in Prompts THEN pending \cup {<<e.run, u>>} ELSE pending
  /\ Moved(e, u, "called")
  /\ UNCHANGED <<ledger, saved, control>>

\* settleAutomationRunBudget: a released reservation is charged all the same.
Settled(e, u) ==
  LET o == <<e.run, e.claim, u>>
  IN /\ open' = open \ {o}
     /\ run' = [run EXCEPT ![e.run].charged = @ + 1,
                           ![e.run].reserved = IF o \in open /\ @ > 0
                                               THEN @ - 1 ELSE @]
     /\ UNCHANGED <<midway, overtaken>>

\* runAssistantUsage's settle, after an answer or a paid error.
SettlePrompt(e, u) ==
  /\ u \in Prompts /\ e.at[u] = "called"
  /\ Settled(e, u)
  /\ pending' = pending \ {<<e.run, u>>}
  /\ \E place \in {"billed", "failed"} : Moved(e, u, place)
  /\ UNCHANGED <<saved, control>>

\* The answer is lost: its usage stays pending and the step is not retried.
LosePrompt(e, u) ==
  /\ u \in Prompts /\ e.at[u] = "called"
  /\ Moved(e, u, "failed")
  /\ UNCHANGED <<ledger, progress, control>>

\* waitForGeneration delivers the image to a run that is still active;
\* nodeCompleted finds its run active.
Confirm(e, u) ==
  /\ \/ u \in Images /\ e.at[u] = "called"
     \/ e.at[u] = "billed"
  /\ Moved(e, u, IF u \in Images
                 THEN IF Owns(e) THEN "fetched" ELSE "releasing"
                 ELSE IF Owns(e) THEN "recording" ELSE "failed")
  /\ UNCHANGED <<ledger, progress, control>>

\* persistGenerated stores the artifact; nodeCompleted stores the output.
Save(e, u) ==
  /\ e.at[u] \in {"fetched", "recording"}
  /\ saved' = [saved EXCEPT ![e.run] = @ \cup {u}]
  /\ Moved(e, u, IF u \in Images THEN "stored" ELSE "done")
  /\ UNCHANGED <<ledger, pending, control>>

SettleImage(e, u) ==
  /\ e.at[u] = "stored"
  /\ Settled(e, u)
  /\ Moved(e, u, "done")
  /\ UNCHANGED <<progress, control>>

\* The generation fails or is refused, its wait is aborted, or the authority
\* refuses the prompt.
FailCall(e, u) ==
  /\ \/ u \in Images /\ e.at[u] \in {"called", "fetched", "stored"}
     \/ e.at[u] = "reserved"
  /\ Moved(e, u, "releasing")
  /\ UNCHANGED <<ledger, progress, control>>

\* releaseAutomationRunBudget.
Release(e, u) ==
  LET o == <<e.run, e.claim, u>>
  IN /\ e.at[u] = "releasing"
     /\ open' = open \ {o}
     /\ run' = IF o \in open
               THEN [run EXCEPT ![e.run].reserved = IF @ > 0 THEN @ - 1 ELSE @]
               ELSE run
     /\ Moved(e, u, "failed")
     /\ UNCHANGED <<midway, overtaken, progress, control>>

-----------------------------------------------------------------------------
(* executeBoundSubworkflow: the items of a Map step.                       *)

Completed(r, i) == {c \in Children : c[1] = r /\ c[2] = i /\ Is(c, "completed")}

\* A completed child of the same item is reused.
StartItem_NoReuse(e, i) ==
  /\ MayStart(e, i) /\ i \in Items
  /\ Moved(e, i, IF Owns(e) THEN "creating" ELSE "failed")
  /\ UNCHANGED <<ledger, progress, control>>

StartItem(e, i) ==
  /\ MayStart(e, i) /\ i \in Items
  /\ Moved(e, i, IF ~ Owns(e) THEN "failed"
                 ELSE IF Completed(e.run, i) # {} THEN "done" ELSE "creating")
  /\ UNCHANGED <<ledger, progress, control>>

\* The INSERT has no guard on the parent, whose inputs took their time to
\* materialize.  The child's processRun starts inside the parent's.
InsertChild(e, i) ==
  LET c == <<e.run, i, e.claim>>
  IN /\ e.at[i] = "creating"
     /\ run' = [run EXCEPT ![c] = [NoRow EXCEPT !.status = "running",
                                     !.worker = e.worker, !.attempts = 1]]
     /\ execs' = (execs \ {e}) \cup
          {[e EXCEPT !.at[i] = "waiting"],
           [run |-> c, claim |-> 1, worker |-> e.worker, phase |-> "loading",
            at |-> [u \in Work |-> "none"]]}
     /\ UNCHANGED <<books, progress, control>>

CollectChild(e, i) ==
  LET c == <<e.run, i, e.claim>>
  IN /\ e.at[i] = "waiting"
     /\ \A x \in execs : x.run # c
     /\ Moved(e, i, IF Owns(e) /\ Is(c, "completed") THEN "done" ELSE "failed")
     /\ UNCHANGED <<ledger, progress, control>>

-----------------------------------------------------------------------------
(* processRun: the end of an execution.                                    *)

Complete(e) ==
  /\ e.phase = "active" /\ AllDone(e)
  /\ IF Owns(e)
     THEN /\ run' = [run EXCEPT ![e.run] = [Left(e.run, "completed")
                                              EXCEPT !.reserved = 0]]
          /\ Turned(e, "closing")
     ELSE Turned(e, "failing") /\ UNCHANGED run
  /\ UNCHANGED <<books, progress, control>>

\* failClaimedRun.
Fail_LostOnly(e) ==
  /\ e.phase = "failing"
  /\ Ended(e)
  /\ UNCHANGED <<ledger, progress, control>>

Fail(e) ==
  /\ \/ e.phase = "failing"
     \/ e.phase = "active" /\ StepFailed(e)
  /\ IF Owns(e)
     THEN /\ run' = [run EXCEPT ![e.run] = Left(e.run, "failed")]
          /\ Turned(e, "closing")
     ELSE Ended(e) /\ UNCHANGED run
  /\ UNCHANGED <<books, progress, control>>

Close(e) ==
  /\ e.phase = "closing"
  /\ ReleaseOpen(e.run)
  /\ Ended(e)
  /\ UNCHANGED <<progress, control>>

-----------------------------------------------------------------------------
(* cancelAutomationWorkflowRun: statements without a common transaction.   *)

Cancel(r) ==
  /\ r \in Cancellable /\ run[r].status \in Live
  /\ \A w \in Workers : choosing[w] # r
  /\ run' = [run EXCEPT ![r] = Left(r, "cancelled")]
  /\ cancels' = cancels \cup {[root |-> r, stage |-> "children", todo |-> {}]}
  /\ UNCHANGED <<books, progress, execs, choosing, recovery, alive, seized>>

CancelChildren(c) ==
  LET children == Tree(c.root) \ {c.root}
  IN /\ c.stage = "children"
     /\ run' = [r \in Runs |-> IF r \in children /\ run[r].status \in Live
                               THEN Left(r, "cancelled") ELSE run[r]]
     /\ cancels' = (cancels \ {c}) \cup {[c EXCEPT !.stage = "select"]}
     /\ UNCHANGED <<books, progress, execs, choosing, recovery, alive, seized>>

CancelSelect(c) ==
  /\ c.stage = "select"
  /\ cancels' = (cancels \ {c}) \cup
       {[c EXCEPT !.stage = "release",
                  !.todo = {r \in Tree(c.root) : ~ Is(r, "absent")}]}
  /\ UNCHANGED <<ledger, progress, execs, choosing, recovery, alive, seized>>

\* The reservations of each child, in any order, and of the root at last.
CancelRelease(c) ==
  /\ c.stage = "release"
  /\ \E r \in c.todo :
       /\ r \in Children \/ c.todo = {r}
       /\ ReleaseOpen(r)
       /\ cancels' = (cancels \ {c}) \cup
            (IF c.todo = {r} THEN {} ELSE {[c EXCEPT !.todo = @ \ {r}]})
  /\ UNCHANGED <<progress, execs, choosing, recovery, alive, seized>>

\* The web replica dies between two of the statements.
CancelDies(c) ==
  /\ cancels' = cancels \ {c}
  /\ UNCHANGED <<ledger, progress, execs, choosing, recovery, alive, seized>>

-----------------------------------------------------------------------------
(* Heartbeats, crashes and recoverStaleRuns.                               *)

\* staleAfterMs pass without a heartbeat of the run or of its worker.
Lapse(r) ==
  /\ Running(r) /\ ~ run[r].stale
  /\ run[r].worker \notin alive \/ RootOf(r) \in Stalling
  /\ run' = [run EXCEPT ![r].stale = TRUE]
  /\ UNCHANGED <<books, progress, execs, control>>

Heartbeat(e) ==
  /\ Owns(e) /\ run[e.run].stale
  /\ run' = [run EXCEPT ![e.run].stale = FALSE]
  /\ UNCHANGED <<books, progress, execs, control>>

Crash(w) ==
  /\ w \in alive /\ Cardinality(Workers \ alive) < MaxCrashes
  /\ alive' = alive \ {w}
  /\ execs' = {e \in execs : e.worker # w}
  /\ choosing' = [choosing EXCEPT ![w] = NoRun]
  /\ recovery' = [recovery EXCEPT ![w] = Resting]
  /\ UNCHANGED <<ledger, progress, cancels, seized>>

\* A drain begins, once the executions of the last one are over.
ListStale(w) ==
  LET stale == {r \in Runs : Running(r) /\ run[r].stale}
  IN /\ w \in alive /\ ~ Recovering(w) /\ choosing[w] = NoRun
     /\ \A e \in execs : e.worker # w
     /\ stale # {}
     /\ recovery' = [recovery EXCEPT ![w].todo =
                       {[run |-> r, worker |-> run[r].worker,
                         attempts |-> run[r].attempts] : r \in stale}]
     /\ UNCHANGED <<ledger, progress, execs, choosing, cancels, alive, seized>>

\* What becomes of a stale run.
Verdict(s) ==
  IF /\ s.run \in Roots /\ s.attempts < MaxAttempts
     /\ \A u \in Prompts : <<s.run, u>> \notin pending
  THEN "queued" ELSE "failed"

\* The guard of the three UPDATEs: the row as it was listed.
StillStale(s) == Running(s.run) /\ run[s.run].worker = s.worker

\* The transaction of one listed run, children before their root.
Recover(w, s) ==
  /\ s \in recovery[w].todo /\ recovery[w].release = NoRun
  /\ s.run \in Roots => \A t \in recovery[w].todo : t.run \in Roots
  /\ run' = IF StillStale(s)
            THEN [run EXCEPT ![s.run] = Left(s.run, Verdict(s))] ELSE run
  /\ recovery' = [recovery EXCEPT ![w] = [todo |-> @.todo \ {s}, release |-> s.run]]
  /\ seized' = IF StillStale(s) /\ s.worker \in alive /\ Verdict(s) = "queued"
               THEN seized \cup {s.run} ELSE seized
  /\ UNCHANGED <<books, progress, execs, choosing, cancels, alive>>

\* Then its reservations, whether or not the row was still stale.
RecoverRelease(w) ==
  /\ recovery[w].release # NoRun
  /\ ReleaseOpen(recovery[w].release)
  /\ recovery' = [recovery EXCEPT ![w].release = NoRun]
  /\ UNCHANGED <<progress, execs, choosing, cancels, alive, seized>>

-----------------------------------------------------------------------------
(* The specification.                                                      *)

UnitStep(e, u) ==
  \/ StartCall(e, u) \/ Reserve(e, u) \/ Call(e, u) \/ SettlePrompt(e, u)
  \/ LosePrompt(e, u) \/ Confirm(e, u) \/ Save(e, u) \/ SettleImage(e, u)
  \/ FailCall(e, u) \/ Release(e, u)
  \/ StartItem(e, u) \/ InsertChild(e, u) \/ CollectChild(e, u)

Step(e) ==
  \/ Load(e) \/ Complete(e) \/ Fail(e) \/ Close(e)
  \/ \E u \in Work : UnitStep(e, u)

Next ==
  \/ \E r \in Roots : Enqueue(r) \/ Cancel(r)
  \/ \E r \in Runs : Lapse(r) \/ FinishRelease(r)
  \/ \E e \in execs : Step(e) \/ Heartbeat(e)
  \/ \E c \in cancels :
       CancelChildren(c) \/ CancelSelect(c) \/ CancelRelease(c) \/ CancelDies(c)
  \/ \E w \in Workers :
       \/ \E r \in Roots : Choose(w, r)
       \/ Admit(w) \/ Crash(w) \/ ListStale(w) \/ RecoverRelease(w)
       \/ \E s \in recovery[w].todo : Recover(w, s)

Safe == Init /\ [][Next]_vars

\* A live worker goes on with its executions, drains for ever and recovers at
\* the start of a drain; the silence of a dead one becomes stale; transactions end.
Fairness ==
  /\ \A r \in Runs : /\ WF_vars(run[r].worker \notin alive /\ Lapse(r))
                     /\ WF_vars(FinishRelease(r))
  /\ \A w \in Workers :
       /\ WF_vars(\E e \in execs : e.worker = w /\ Step(e))
       /\ WF_vars(\E r \in Roots : Choose(w, r)) /\ WF_vars(Admit(w))
       /\ WF_vars(ListStale(w)) /\ WF_vars(RecoverRelease(w))
       /\ WF_vars(\E s \in recovery[w].todo : Recover(w, s))

Spec == Safe /\ Fairness

-----------------------------------------------------------------------------
(* What must be right.                                                     *)

\* Replicas that chose their candidates from the same snapshot never run more
\* roots than the workspace, or than one admission key, may have (the second
\* count of claimRun).
ConcurrencyLimits ==
  /\ Cardinality(RunningRoots) <= WorkspaceLimit
  /\ \A r \in RunningRoots :
       \E s \in Roots :
         /\ Request[s].admission = Request[r].admission
         /\ Cardinality({t \in RunningRoots :
                           Request[t].admission = Request[r].admission})
              <= Request[s].concurrent

\* A delivery has at most one run for ever, equal requests at most one active
\* run, however runs end, are requeued or superseded in between
\* (enqueueAutomationWorkflowRun; the two unique indexes agree).
AcceptedOnce ==
  \A r, s \in Roots :
    /\ r # s /\ ~ Is(r, "absent") /\ ~ Is(s, "absent")
    => /\ \/ Request[r].delivery # Request[s].delivery
          \/ Request[r].delivery = NoDelivery
       /\ run[r].status \in Live /\ run[s].status \in Live
            => Request[r].dedupe # Request[s].dedupe

\* A run is executed at most MaxAttempts times, even when several workers
\* recover it from lists of different age (the worker_id guard of
\* recoverStaleRuns); only a run taken from a living worker, which may claim it again,
\* escapes that guard.
AttemptLimit == \A r \in Roots \ seized : run[r].attempts <= MaxAttempts

\* Two executions never both believe they own a run that was not taken from a
\* living worker (assertRunActive).
OneOwner ==
  \A d, e \in execs :
    d.run = e.run /\ d.run \notin seized /\ Owns(d) /\ Owns(e) => d = e

\* Children are never queued: a stale one fails and its parent creates another
\* ("it must never enter the global queue independently").
ChildrenStayWithParent == \A c \in Children : ~ Is(c, "queued")

\* Terminal runs stay terminal: a recovery that listed a run before it was
\* completed or cancelled does not revive it, nor does the executor that lost it.
NoResurrection ==
  [][\A r \in Runs :
       run[r].status \in Terminal => run'[r].status = run[r].status]_vars

\* A recovered run repeats no prompt whose output was stored, and none whose
\* usage is uncertain (processRun's completedRows, PROVIDER_USAGE_PENDING), unless it
\* was taken from a living worker, which may still be at it.
NeverReplayed ==
  [][\A e \in execs, u \in Prompts :
       Call(e, u) /\ e.run \notin seized
         => u \notin saved[e.run] /\ <<e.run, u>> \notin pending]_vars

\* A run never reports a false success, nor buys one twice: a completed run has all
\* its outputs and a completed child of every item; and however often the parent was
\* interrupted, a child that completed is reused (executeBoundSubworkflow), unless the
\* parent was taken from a living worker, which goes on with its children.
SuccessIsReal ==
  /\ \A r \in Runs : Is(r, "completed") => WorkOf(r) \ Items \subseteq saved[r]
  /\ \A r \in Roots, i \in RootWork \cap Items :
       /\ r \in seized \/ Cardinality(Completed(r, i)) <= 1
       /\ Is(r, "completed") => Completed(r, i) # {}

\* The column that the limit is checked against tells what is reserved: it counts
\* the open reservations of a run, whichever executions, cancellations and recoveries
\* settle and release them (reserveAutomationRunBudget and its counterparts).  A run
\* that completed counts none until they are released, and a child whose release was
\* overtaken may count too few, but no run ever counts too many.
LedgerAgrees ==
  \A r \in Runs \ midway :
    LET count == Cardinality({o \in open : o[1] = r})
    IN  /\ run[r].reserved <= count
        /\ run[r].reserved = count \/ Is(r, "completed") \/ r \in overtaken

\* Work started under a cancelled root is cancelled with it: no child of it
\* completes (the comment on cancellation in AUTOMATION_WORKFLOWS.md).
CancelledAsATree ==
  [][\A c \in Children :
       Is(c, "running") /\ Is(c[1], "cancelled") => run'[c].status # "completed"]_vars

\* Every accepted run ends, whatever worker dies (recoverStaleRuns, runDrain).
EveryRunEnds ==
  \A r \in Roots : Is(r, "queued") ~> run[r].status \in Terminal
=============================================================================
