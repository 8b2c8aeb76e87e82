-------------------------- MODULE TriggerDeliveries --------------------------
(***************************************************************************)
(* From an occurrence to an automation run: triggers (triggers.ts), the    *)
(* product-event outbox they listen to, the deliveries they append         *)
(* (deliveries.ts), the alerts of failed deliveries and the notification   *)
(* outbox (notifications.ts), drained by the background worker processes   *)
(* that start each cycle with the schedules (worker.ts).                   *)
(*                                                                         *)
(* The three outboxes share one leasing protocol.  A claim first requeues  *)
(* the rows whose lease has expired, then takes a waiting row, and every   *)
(* later write names the row's status and owner.                           *)
(*                                                                         *)
(* The next occurrence of a schedule after t is t + 1.  No occurrence gets *)
(* a delivery: next_fire_at is read as PostgreSQL's text of a timestamptz  *)
(* (relational-db.ts), which is no ISO instant, and the envelope of the    *)
(* delivery refuses it.                                                    *)
(*                                                                         *)
(* The delay of a retry is abstracted: a row in retry_wait may be claimed  *)
(* at once.  So is the order in which a cycle drains the three outboxes.   *)
(* Each trigger has a workflow of its own, and one user owns them all.     *)
(* Runs are modelled by what their admission decides.                      *)
(***************************************************************************)
EXTENDS Integers, FiniteSets

CONSTANTS
  Schedules, Hooks, Listeners, \* triggers by type
  Fragile,            \* triggers whose workflow may lose a binding
  HookKeys,           \* Idempotency-Keys of webhook callers
  PayloadOf,          \* the payload sent with each
  Generations,        \* direct generations, announced when they complete
  Imports,            \* TikTok imports
  Workers, Nobody,    \* worker processes; worker_id IS NULL
  Nothing,            \* no row in hand
  MaxAttempts, MaxEventAttempts, MaxNoticeAttempts,
  MaxTime,            \* bound: instants of the clock
  MaxVersions,        \* bound: published versions of a workflow
  MaxReplays,         \* bound: replays requested of one occasion
  MaxChanges,         \* bound: triggers paused or deleted, workflows published,
                      \* archived or rebound, permissions changed, replays asked for
  MaxTroubles         \* bound: crashes, database errors, leases outlived

ASSUME DeliveriesAssumption ==
  /\ \A S \in {Schedules, Hooks, Listeners, HookKeys, Generations, Imports,
               Workers} : IsFiniteSet(S)
  /\ Schedules \cap Hooks = {} /\ Schedules \cap Listeners = {}
  /\ Hooks \cap Listeners = {}
  /\ Generations \cap Imports = {}
  /\ Fragile \subseteq Hooks \cup Listeners
  /\ Nobody \notin Workers
  /\ {MaxAttempts, MaxEventAttempts, MaxNoticeAttempts} \subseteq Nat \ {0}
  /\ {MaxTime, MaxVersions, MaxReplays, MaxChanges, MaxTroubles} \subseteq Nat

Triggers == Schedules \cup Hooks \cup Listeners
Events   == Generations \cup Imports

\* delivery_key: the trigger, the occasion, and which replay of it.
Key == [trigger : Hooks, occasion : HookKeys, replay : 0..MaxReplays]
       \cup [trigger : Listeners, occasion : Events, replay : 0..MaxReplays]
Notice == [alert : Key, kind : {"failed", "recovered"}]
\* Rows of different tables differ, and none is nothing.
ASSUME RowsAssumption ==
  /\ Nothing \notin Key \cup Events \cup Notice
  /\ Key \cap Notice = {} /\ Events \cap (Key \cup Notice) = {}

Original(t, o) == [trigger |-> t, occasion |-> o, replay |-> 0]
SameOccasion(k) == {q \in Key : q.trigger = k.trigger /\ q.occasion = k.occasion}
Payload(k) == IF k.trigger \in Hooks THEN PayloadOf[k.occasion] ELSE k.occasion

VARIABLES
  now,       \* the clock
  workflow,  \* published version, archived, bindings complete; by trigger
  trigger,   \* automation_workflow_triggers
  permitted, \* the actor may run automations
  imported,  \* TikTok posts whose media the import has stored
  event,     \* automation_product_event_outbox
  delivery,  \* automation_trigger_deliveries
  runs,      \* rows of automation_runs with this trigger_delivery_id
  alert,     \* automation_trigger_alerts, by delivery
  notice,    \* automation_notification_outbox, by alert and type
  calling,   \* webhook requests past the read of their trigger
  hand,      \* what each worker process is doing
  owed,      \* history: listeners active since the event was appended
  changes,   \* history: administrative changes so far
  troubles   \* history: faults so far

vars == <<now, workflow, trigger, permitted, imported, event, delivery, runs, alert,
          notice, calling, hand, owed, changes, troubles>>

Waiting == {"queued", "retry_wait"}
Settled == {"delivered", "dead_letter", "cancelled"}
Lease == [status : {"none", "processing"} \cup Waiting \cup Settled,
          attempts : Nat, worker : Workers \cup {Nobody}, stale : BOOLEAN]
Unleased == [status |-> "none", attempts |-> 0, worker |-> Nobody, stale |-> FALSE]
\* Rows the SELECT of a drain returned: the trigger, its next_fire_at and version.
Snapshot == [trigger : Triggers, due : Nat, version : Nat]
Hand == [turn : {"schedules", "drains"}, todo : SUBSET Snapshot, read : BOOLEAN,
         row : Key \cup Events \cup Notice \cup {Nothing},
         attempts : Nat, step : {"claimed", "admit", "done", "rejected", "error"},
         run : Key \cup {Nothing}]
Idle(turn) == [turn |-> turn, todo |-> {}, read |-> FALSE, row |-> Nothing,
               attempts |-> 0, step |-> "claimed", run |-> Nothing]

TypeOK ==
  /\ now \in 0..MaxTime
  /\ workflow \in [Triggers -> [published : Nat, archived : BOOLEAN, bound : BOOLEAN]]
  /\ trigger \in [Triggers -> [status : {"none", "active", "paused", "deleted"},
                               version : Nat, next : Nat]]
  /\ permitted \in BOOLEAN
  /\ imported \subseteq Imports
  /\ event \in [Events -> Lease]
  /\ delivery \in [Key -> [lease : Lease, version : Nat, of : Nat,
                           run : Key \cup {Nothing}]]
  /\ runs \in [Key -> Nat]
  /\ alert \in [Key -> {"none", "open", "resolved"}]
  /\ notice \in [Notice -> Lease]
  /\ calling \in [Hooks \X HookKeys -> Nat]
  /\ hand \in [Workers -> Hand]
  /\ owed \in [Events -> SUBSET Listeners]
  /\ changes \in Nat /\ troubles \in Nat

\* Workflows that are live and have no trigger yet.
Init ==
  /\ now = 0
  /\ workflow = [t \in Triggers |-> [published |-> 1, archived |-> FALSE, bound |-> TRUE]]
  /\ trigger = [t \in Triggers |-> [status |-> "none", version |-> 0, next |-> 0]]
  /\ permitted = TRUE
  /\ imported = {}
  /\ event = [e \in Events |-> Unleased]
  /\ delivery = [k \in Key |-> [lease |-> Unleased, version |-> 0, of |-> 0,
                                run |-> Nothing]]
  /\ runs = [k \in Key |-> 0]
  /\ alert = [k \in Key |-> "none"]
  /\ notice = [n \in Notice |-> Unleased]
  /\ calling = [c \in Hooks \X HookKeys |-> 0]
  /\ hand = [w \in Workers |-> Idle("schedules")]
  /\ owed = [e \in Events |-> {}]
  /\ changes = 0 /\ troubles = 0

-----------------------------------------------------------------------------
\* The leasing protocol of the three outboxes.

Queued == [Unleased EXCEPT !.status = "queued"]
Claimable_WaitingOnly(row) == row.status \in Waiting
Claimable(row) == row.status \in Waiting \/ (row.status = "processing" /\ row.stale)
\* Every expired lease goes back to retry_wait, whatever its attempts; then one
\* waiting row is taken.
Requeued(row) ==
  IF row.status = "processing" /\ row.stale
  THEN [row EXCEPT !.status = "retry_wait", !.worker = Nobody, !.stale = FALSE]
  ELSE row
Claimed(row, w) ==
  [row EXCEPT !.status = "processing", !.attempts = @ + 1, !.worker = w,
              !.stale = FALSE]
\* WHERE status = 'processing' AND worker_id = ?
Owns_Anyone(w, row) == TRUE
Owns(w, row) == row.status = "processing" /\ row.worker = w
Left(row, status) ==
  [row EXCEPT !.status = status, !.worker = Nobody, !.stale = FALSE]
Failed(row, attempts, max) ==
  Left(row, IF attempts >= max THEN "dead_letter" ELSE "retry_wait")

\* INSERT ... ON CONFLICT(delivery_key) DO NOTHING
Enqueued(k, version, of) ==
  IF delivery[k].lease.status = "none"
  THEN [delivery EXCEPT ![k] = [lease |-> Queued, version |-> version, of |-> of,
                                run |-> Nothing]]
  ELSE delivery

Free(w) == hand[w] = Idle("drains")
InHand(w, Rows) == hand[w].row \in Rows
Took(w, k, attempts) ==
  hand' = [hand EXCEPT ![w].row = k, ![w].attempts = attempts]
PutDown(w) == hand' = [hand EXCEPT ![w] = Idle("drains")]
Step(w, step) == hand' = [hand EXCEPT ![w].step = step]

-----------------------------------------------------------------------------
\* Requests: triggers and their workflows.

outboxes == <<event, delivery, runs, alert, notice>>
past == <<owed, changes, troubles>>
Exists(t) == trigger[t].status \in {"active", "paused"}
NextAfter(t) == IF t \in Schedules THEN now + 1 ELSE 0
Change == changes < MaxChanges /\ changes' = changes + 1
\* Listeners that are not active any more are owed nothing.
Released(t) == owed' = [e \in Events |-> owed[e] \ {t}]

Tick == /\ now < MaxTime /\ now' = now + 1
        /\ UNCHANGED <<workflow, trigger, permitted, imported, outboxes, calling,
                       hand, past>>

\* createAutomationWorkflowTrigger: paused, and a schedule knows its next instant.
CreateTrigger(t) ==
  /\ trigger[t].status = "none" /\ ~workflow[t].archived
  /\ trigger' = [trigger EXCEPT ![t] = [status |-> "paused", version |-> 0,
                                        next |-> NextAfter(t)]]
  /\ UNCHANGED <<now, workflow, permitted, imported, outboxes, calling, hand, past>>

\* setAutomationWorkflowTriggerStatus
Activate(t) ==
  /\ Exists(t) /\ ~workflow[t].archived /\ workflow[t].bound
  /\ trigger' = [trigger EXCEPT ![t] = [status |-> "active",
                                        version |-> workflow[t].published,
                                        next |-> NextAfter(t)]]
  /\ UNCHANGED <<now, workflow, permitted, imported, outboxes, calling, hand, past>>

Pause(t) ==
  /\ Change
  /\ Exists(t) /\ ~workflow[t].archived
  /\ trigger' = [trigger EXCEPT ![t] = [status |-> "paused", version |-> 0, next |-> 0]]
  /\ Released(t)
  /\ UNCHANGED <<now, workflow, permitted, imported, outboxes, calling, hand,
                 troubles>>

\* deleteAutomationWorkflowTrigger
DeleteTrigger(t) ==
  /\ Change
  /\ Exists(t)
  /\ trigger' = [trigger EXCEPT ![t] = [status |-> "deleted", version |-> 0, next |-> 0]]
  /\ Released(t)
  /\ UNCHANGED <<now, workflow, permitted, imported, outboxes, calling, hand,
                 troubles>>

\* publishAutomationWorkflow moves the active triggers to the new version.
Publish(t) ==
  /\ Change
  /\ ~workflow[t].archived /\ workflow[t].bound
  /\ workflow[t].published < MaxVersions
  /\ workflow' = [workflow EXCEPT ![t].published = @ + 1]
  /\ trigger' = IF trigger[t].status = "active"
                THEN [trigger EXCEPT ![t].version = workflow[t].published + 1]
                ELSE trigger
  /\ UNCHANGED <<now, permitted, imported, outboxes, calling, hand, owed, troubles>>

\* archiveAutomationWorkflow pauses the triggers and cancels what waits.
Archive(t) ==
  /\ Change
  /\ ~workflow[t].archived
  /\ workflow' = [workflow EXCEPT ![t].archived = TRUE]
  /\ trigger' = IF Exists(t)
                THEN [trigger EXCEPT ![t] = [status |-> "paused", version |-> 0,
                                             next |-> 0]]
                ELSE trigger
  /\ delivery' = [k \in Key |->
                    IF k.trigger = t /\ delivery[k].lease.status \in Waiting
                    THEN [delivery[k] EXCEPT !.lease = Left(@, "cancelled")]
                    ELSE delivery[k]]
  /\ Released(t)
  /\ UNCHANGED <<now, permitted, imported, event, runs, alert, notice,
                 calling, hand, troubles>>

\* The workflow bound to a slot of t's is archived, or a slot is connected again:
\* the bindings change, the triggers do not.
Rebind(t) ==
  /\ Change
  /\ t \in Fragile
  /\ workflow' = [workflow EXCEPT ![t].bound = ~@]
  /\ UNCHANGED <<now, trigger, permitted, imported, outboxes, calling, hand, owed,
                 troubles>>

\* The actor loses, or regains, the permission to run automations.
ChangePermission ==
  /\ Change
  /\ permitted' = ~permitted
  /\ UNCHANGED <<now, workflow, trigger, imported, outboxes, calling, hand, owed,
                 troubles>>

\* fireAutomationWebhook reads the trigger, then appends the delivery.
ReceiveWebhook(h, key) ==
  /\ trigger[h].status = "active" /\ calling[<<h, key>>] = 0
  /\ calling' = [calling EXCEPT ![<<h, key>>] = trigger[h].version]
  /\ UNCHANGED <<now, workflow, trigger, permitted, imported, outboxes, hand, past>>

\* The append fails when the trigger is gone or its bindings are incomplete.
AnswerWebhook(h, key) ==
  /\ calling[<<h, key>>] # 0
  /\ calling' = [calling EXCEPT ![<<h, key>>] = 0]
  /\ IF Exists(h) /\ workflow[h].bound
       THEN delivery' = Enqueued(Original(h, key), calling[<<h, key>>], 0)
       ELSE delivery' = delivery
  /\ UNCHANGED <<now, workflow, trigger, permitted, imported, event, runs, alert,
                 notice, hand, past>>

\* persistGenerationOutput: the asset and the event in one transaction.
CompleteGeneration(g) ==
  /\ event[g].status = "none"
  /\ event' = [event EXCEPT ![g] = Queued]
  /\ owed' = [owed EXCEPT ![g] = {t \in Listeners : trigger[t].status = "active"}]
  /\ UNCHANGED <<now, workflow, trigger, permitted, imported, delivery, runs, alert,
                 notice, calling, hand, changes, troubles>>

\* POST /api/import/tiktok, importMcpTikTokToCanvas.  The media are stored, and
\* then db.transaction builds the function that would update the project and
\* append the event; nothing calls it.
ImportTikTok(i) ==
  /\ i \notin imported
  /\ imported' = imported \cup {i}
  /\ UNCHANGED <<now, workflow, trigger, permitted, outboxes, calling, hand, past>>

\* replayAutomationTriggerDelivery: a new delivery from the snapshot of the old.
Replay(k) ==
  /\ Change
  /\ delivery[k].lease.status = "dead_letter"
  /\ \E q \in SameOccasion(k) :
       /\ delivery[q].lease.status = "none"
       /\ \A p \in SameOccasion(k) :
            p.replay < q.replay => delivery[p].lease.status # "none"
       /\ delivery' = Enqueued(q, delivery[k].version, k.replay)
  /\ UNCHANGED <<now, workflow, trigger, permitted, imported, event, runs, alert,
                 notice, calling, hand, owed, troubles>>

-----------------------------------------------------------------------------
\* drainAutomationWorkflowTriggers

work == <<now, workflow, permitted, imported, calling, past>>

\* SELECT the active schedules that are due; the drain ends when all are handled.
Firing(w, todo) ==
  hand' = [hand EXCEPT ![w] = IF todo = {} THEN Idle("drains")
                              ELSE [Idle("schedules") EXCEPT !.read = TRUE, !.todo = todo]]
ReadSchedules(w) ==
  /\ hand[w] = Idle("schedules")
  /\ Firing(w, {[trigger |-> t, due |-> trigger[t].next, version |-> trigger[t].version] :
                t \in {x \in Schedules : /\ trigger[x].status = "active"
                                         /\ trigger[x].next <= now}})
  /\ UNCHANGED <<work, trigger, outboxes>>

\* In the order of next_fire_at.
NextDue(w) == {x \in hand[w].todo : \A y \in hand[w].todo : x.due <= y.due}
StillDue(x) == trigger[x.trigger].status = "active" /\ trigger[x.trigger].next = x.due

\* The transaction that claims an occurrence passes over a schedule that has
\* been paused, deleted or activated again since it was read.
PassOver(w) ==
  /\ hand[w].turn = "schedules" /\ hand[w].read
  /\ \E x \in NextDue(w) : ~StillDue(x) /\ Firing(w, hand[w].todo \ {x})
  /\ UNCHANGED <<work, trigger, outboxes>>

\* An occurrence is claimed, and the envelope of its delivery throws: the
\* transaction rolls back, the drain throws, and the next cycle begins anew.
FireSchedule(w) ==
  /\ hand[w].turn = "schedules" /\ hand[w].read
  /\ \E x \in NextDue(w) : StillDue(x)
  /\ hand' = [hand EXCEPT ![w] = Idle("schedules")]
  /\ UNCHANGED <<work, trigger, outboxes>>

-----------------------------------------------------------------------------
\* drainAutomationProductEvents

ClaimEvent(w) ==
  /\ Free(w)
  /\ \E e \in Events :
       /\ Claimable(event[e])
       /\ event' = [f \in Events |-> IF f = e THEN Claimed(Requeued(event[e]), w)
                                     ELSE Requeued(event[f])]
       /\ Took(w, e, event[e].attempts + 1)
  /\ UNCHANGED <<work, trigger, delivery, runs, alert, notice>>

ReadListeners(w) ==
  /\ InHand(w, Events) /\ ~hand[w].read /\ hand[w].step = "claimed"
  /\ hand' = [hand EXCEPT ![w].read = TRUE,
                ![w].todo = {[trigger |-> t, due |-> 0, version |-> trigger[t].version] :
                             t \in {u \in Listeners : trigger[u].status = "active"}}]
  /\ UNCHANGED <<work, trigger, outboxes>>

\* An append throws when the bindings are incomplete, or the trigger is gone.
Appendable(x, e) ==
  /\ workflow[x.trigger].bound
  /\ \/ Exists(x.trigger)
     \/ delivery[Original(x.trigger, e)].lease.status # "none"

\* A listener whose append throws is passed over.
FanOut_PassesOver(w) ==
  /\ InHand(w, Events) /\ hand[w].read /\ hand[w].step = "claimed"
  /\ \E x \in hand[w].todo :
       /\ hand' = [hand EXCEPT ![w].todo = @ \ {x}]
       /\ delivery' = IF Appendable(x, hand[w].row)
                      THEN Enqueued(Original(x.trigger, hand[w].row), x.version, 0)
                      ELSE delivery
  /\ UNCHANGED <<work, trigger, event, runs, alert, notice>>

FanOut(w) ==
  /\ InHand(w, Events) /\ hand[w].read /\ hand[w].step = "claimed"
  /\ \E x \in hand[w].todo :
       IF Appendable(x, hand[w].row)
       THEN /\ delivery' = Enqueued(Original(x.trigger, hand[w].row), x.version, 0)
            /\ hand' = [hand EXCEPT ![w].todo = @ \ {x}]
       ELSE /\ Step(w, "error")
            /\ UNCHANGED delivery
  /\ UNCHANGED <<work, trigger, event, runs, alert, notice>>

FinishEvent(w) ==
  /\ InHand(w, Events)
  /\ LET e == hand[w].row
     IN \/ /\ hand[w].read /\ hand[w].todo = {} /\ hand[w].step = "claimed"
           /\ event' = IF Owns(w, event[e])
                       THEN [event EXCEPT ![e] = Left(@, "delivered")] ELSE event
        \/ /\ hand[w].step = "error"
           /\ event' = IF Owns(w, event[e])
                       THEN [event EXCEPT ![e] = Failed(@, hand[w].attempts, MaxEventAttempts)]
                       ELSE event
  /\ PutDown(w)
  /\ UNCHANGED <<work, trigger, delivery, runs, alert, notice>>

-----------------------------------------------------------------------------
\* drainAutomationTriggerDeliveries

ClaimDelivery(w) ==
  /\ Free(w)
  /\ \E k \in Key :
       /\ Claimable(delivery[k].lease)
       /\ delivery' = [q \in Key |->
                         [delivery[q] EXCEPT !.lease =
                            IF q = k THEN Claimed(Requeued(@), w) ELSE Requeued(@)]]
       /\ Took(w, k, delivery[k].lease.attempts + 1)
  /\ UNCHANGED <<work, trigger, event, runs, alert, notice>>

CheckActor(w) ==
  /\ InHand(w, Key) /\ hand[w].step = "claimed"
  /\ Step(w, IF permitted THEN "admit" ELSE "rejected")
  /\ UNCHANGED <<work, trigger, outboxes>>

\* Runs that may answer a delivery: its own, or one of the same version and
\* payload (dedupe_key), of whatever occasion, that may still be active.
Admitted_Never(k) == FALSE
Admitted(k) == runs[k] > 0
Alike(k) == {q \in Key : /\ q.trigger = k.trigger /\ Payload(q) = Payload(k)
                         /\ delivery[q].version = delivery[k].version}
Answers(k) == {q \in Alike(k) : runs[q] > 0 /\ (Admitted(k) => q = k)}

\* enqueueAutomationWorkflowRun: refused without permission or on an archived
\* workflow; otherwise, under the admission lock, answered with an existing run
\* or given one.
Admit(w) ==
  /\ InHand(w, Key) /\ hand[w].step = "admit"
  /\ LET k == hand[w].row
         welcome == permitted /\ ~workflow[k.trigger].archived
     IN \/ ~welcome /\ Step(w, "rejected") /\ UNCHANGED runs
        \/ /\ welcome
           /\ \E q \in Answers(k) :
                hand' = [hand EXCEPT ![w].step = "done", ![w].run = q]
           /\ UNCHANGED runs
        \/ /\ welcome /\ ~Admitted(k)
           /\ runs' = [runs EXCEPT ![k] = @ + 1]
           /\ hand' = [hand EXCEPT ![w].step = "done", ![w].run = k]
  /\ UNCHANGED <<work, trigger, event, delivery, alert, notice>>

\* The admission throws, or the write that acknowledges it does.
DeliveryThrows(w) ==
  /\ InHand(w, Key) /\ hand[w].step \in {"admit", "done"}
  /\ troubles < MaxTroubles /\ troubles' = troubles + 1
  /\ Step(w, "error")
  /\ UNCHANGED <<now, workflow, trigger, permitted, imported, outboxes, calling, owed,
                 changes>>

\* 202: the delivery is acknowledged, and a replay resolves the alert it answers.
MarkDelivered(w) ==
  /\ InHand(w, Key) /\ hand[w].step = "done"
  /\ LET k == hand[w].row
         parent == [k EXCEPT !.replay = delivery[k].of]
     IN IF Owns(w, delivery[k].lease)
        THEN /\ delivery' = [delivery EXCEPT ![k].lease = Left(@, "delivered"),
                                             ![k].run = hand[w].run]
             /\ IF k.replay > 0 /\ alert[parent] = "open"
                THEN /\ alert' = [alert EXCEPT ![parent] = "resolved"]
                     /\ notice' = [notice EXCEPT
                          ![[alert |-> parent, kind |-> "recovered"]] = Queued]
                ELSE UNCHANGED <<alert, notice>>
        ELSE UNCHANGED <<delivery, alert, notice>>
  /\ PutDown(w)
  /\ UNCHANGED <<work, trigger, event, runs>>

\* markDeadLetter, at once or when the attempts are spent, opens the alert and
\* queues its notice in the same transaction; otherwise the delivery waits.
MarkFailed(w) ==
  /\ InHand(w, Key) /\ hand[w].step \in {"rejected", "error"}
  /\ LET k == hand[w].row
         dead == hand[w].step = "rejected" \/ hand[w].attempts >= MaxAttempts
     IN IF Owns(w, delivery[k].lease)
        THEN /\ delivery' = [delivery EXCEPT ![k].lease =
                               Left(@, IF dead THEN "dead_letter" ELSE "retry_wait")]
             /\ IF dead /\ alert[k] = "none"
                THEN /\ alert' = [alert EXCEPT ![k] = "open"]
                     /\ notice' = [notice EXCEPT
                          ![[alert |-> k, kind |-> "failed"]] = Queued]
                ELSE UNCHANGED <<alert, notice>>
        ELSE UNCHANGED <<delivery, alert, notice>>
  /\ PutDown(w)
  /\ UNCHANGED <<work, trigger, event, runs>>

-----------------------------------------------------------------------------
\* drainAutomationNotifications

ClaimNotice(w) ==
  /\ Free(w)
  /\ \E n \in Notice :
       /\ Claimable(notice[n])
       /\ notice' = [m \in Notice |-> IF m = n THEN Claimed(Requeued(notice[n]), w)
                                      ELSE Requeued(notice[m])]
       /\ Took(w, n, notice[n].attempts + 1)
  /\ UNCHANGED <<work, trigger, event, delivery, runs, alert>>

\* The adapter takes the notice or throws, within fifteen seconds.
SendNotice(w) ==
  /\ InHand(w, Notice) /\ hand[w].step = "claimed"
  /\ \/ Step(w, "done") \/ Step(w, "error")
  /\ UNCHANGED <<work, trigger, outboxes>>

FinishNotice(w) ==
  /\ InHand(w, Notice) /\ hand[w].step \in {"done", "error"}
  /\ LET n == hand[w].row
     IN notice' = IF Owns(w, notice[n])
                  THEN [notice EXCEPT ![n] =
                          IF hand[w].step = "done" THEN Left(@, "delivered")
                          ELSE Failed(@, hand[w].attempts, MaxNoticeAttempts)]
                  ELSE notice
  /\ PutDown(w)
  /\ UNCHANGED <<work, trigger, event, delivery, runs, alert>>

\* The drains find nothing to claim; the next cycle begins.
EndCycle(w) ==
  /\ Free(w)
  /\ \A e \in Events : ~Claimable(event[e])
  /\ \A k \in Key : ~Claimable(delivery[k].lease)
  /\ \A n \in Notice : ~Claimable(notice[n])
  /\ hand' = [hand EXCEPT ![w] = Idle("schedules")]
  /\ UNCHANGED <<work, trigger, outboxes>>

-----------------------------------------------------------------------------
\* Faults and time.

\* The process dies, or a write outside every catch fails; its successor, or its
\* next cycle, starts from the schedules.
Crash(w) ==
  /\ hand[w] # Idle("schedules")
  /\ troubles < MaxTroubles /\ troubles' = troubles + 1
  /\ hand' = [hand EXCEPT ![w] = Idle("schedules")]
  /\ UNCHANGED <<now, workflow, trigger, permitted, imported, outboxes, calling, owed,
                 changes>>

Held(row) == \E w \in Workers : hand[w].row = row
\* locked_at passes the limit.  The lease of a row somebody still works on
\* expires only when that worker is slow.
Expiring(id, row) ==
  /\ row.status = "processing" /\ ~row.stale
  /\ IF Held(id) THEN troubles < MaxTroubles /\ troubles' = troubles + 1
                 ELSE troubles' = troubles
LeaseExpires ==
  /\ \/ \E e \in Events :
          /\ Expiring(e, event[e])
          /\ event' = [event EXCEPT ![e].stale = TRUE]
          /\ UNCHANGED <<delivery, notice>>
     \/ \E k \in Key :
          /\ Expiring(k, delivery[k].lease)
          /\ delivery' = [delivery EXCEPT ![k].lease.stale = TRUE]
          /\ UNCHANGED <<event, notice>>
     \/ \E n \in Notice :
          /\ Expiring(n, notice[n])
          /\ notice' = [notice EXCEPT ![n].stale = TRUE]
          /\ UNCHANGED <<event, delivery>>
  /\ UNCHANGED <<now, workflow, trigger, permitted, imported, runs, alert,
                 calling, hand, owed, changes>>

Abandoned(id, row) == row.status = "processing" /\ ~Held(id)
TimePasses ==
  /\ \/ \E e \in Events : Abandoned(e, event[e])
     \/ \E k \in Key : Abandoned(k, delivery[k].lease)
     \/ \E n \in Notice : Abandoned(n, notice[n])
  /\ LeaseExpires

Requests ==
  \/ Tick \/ ChangePermission
  \/ \E t \in Triggers : \/ CreateTrigger(t) \/ Activate(t) \/ Pause(t)
                         \/ DeleteTrigger(t) \/ Publish(t) \/ Archive(t) \/ Rebind(t)
  \/ \E h \in Hooks, key \in HookKeys : ReceiveWebhook(h, key) \/ AnswerWebhook(h, key)
  \/ \E g \in Generations : CompleteGeneration(g)
  \/ \E i \in Imports : ImportTikTok(i)
  \/ \E k \in Key : Replay(k)

\* What a worker process does when nothing fails.
Work(w) ==
  \/ ReadSchedules(w) \/ PassOver(w) \/ FireSchedule(w)
  \/ ClaimEvent(w) \/ ReadListeners(w) \/ FanOut(w) \/ FinishEvent(w)
  \/ ClaimDelivery(w) \/ CheckActor(w) \/ Admit(w) \/ MarkDelivered(w) \/ MarkFailed(w)
  \/ ClaimNotice(w) \/ SendNotice(w) \/ FinishNotice(w)
  \/ EndCycle(w)

Next ==
  \/ Requests
  \/ \E w \in Workers : Work(w) \/ DeliveryThrows(w) \/ Crash(w)
  \/ LeaseExpires

\* Every process keeps running its cycles, and an abandoned lease expires.
Fairness == (\A w \in Workers : WF_vars(Work(w))) /\ WF_vars(TimePasses)
Spec == Init /\ [][Next]_vars /\ Fairness

-----------------------------------------------------------------------------
\* Properties.

Is(k, status) == delivery[k].lease.status = status
Listed(t, o) == ~Is(Original(t, o), "none")

\* A delivery has at most one run, and is delivered only with one of its trigger,
\* version and payload, whichever processes claimed it, died or were overtaken
\* between the admission of the run and its acknowledgement.  The run need not be
\* its own: events with equal payloads share the run that is active.
OneRunPerDelivery ==
  \A k \in Key : /\ runs[k] <= 1
                 /\ Is(k, "delivered") => /\ delivery[k].run \in Alike(k)
                                          /\ runs[delivery[k].run] = 1

\* A product event is delivered only when every listener that has been active
\* since it was appended has its delivery (processAutomationProductEvent).
EventReachesListeners ==
  \A e \in Events : event[e].status = "delivered" =>
    \A t \in owed[e] : Listed(t, e)

\* Operators see each dead letter: it has an alert and a notice, and the alert
\* is resolved, and the recovery announced, exactly when a replay of it succeeds.
AlertsTellTheTruth ==
  \A k \in Key :
    /\ Is(k, "dead_letter") <=> alert[k] # "none"
    /\ alert[k] # "none" <=>
         notice[[alert |-> k, kind |-> "failed"]].status # "none"
    /\ alert[k] = "resolved" <=>
         \E q \in SameOccasion(k) : /\ q.replay > 0 /\ delivery[q].of = k.replay
                                    /\ Is(q, "delivered") /\ Is(k, "dead_letter")
    /\ alert[k] = "resolved" <=>
         notice[[alert |-> k, kind |-> "recovered"]].status # "none"

\* Whatever dies, what was accepted does not wait for ever: again and again every
\* event, delivery and notice has been delivered, cancelled or put where an
\* operator finds it, but for the time some schedule is due (FireSchedule ends
\* every cycle before the outboxes are drained, until the schedule is paused).
AllSettled ==
  /\ \A e \in Events : event[e].status \in {"none"} \cup Settled
  /\ \A k \in Key : delivery[k].lease.status \in {"none"} \cup Settled
  /\ \A n \in Notice : notice[n].status \in {"none"} \cup Settled
Starved == \E x \in Schedules : trigger[x].status = "active" /\ trigger[x].next <= now
EverythingSettles == []<>(AllSettled \/ Starved)
=============================================================================
