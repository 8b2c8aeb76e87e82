----------------------- MODULE TriggerDeliveriesProofs -----------------------
(***************************************************************************)
(* Proofs about TriggerDeliveries for every set of triggers, occasions and *)
(* workers and every bound.                                                *)
(***************************************************************************)
EXTENDS TriggerDeliveries, TLAPS

Delivery == [lease : Lease, version : Nat, of : Nat, run : Key \cup {Nothing}]
Triggered == [status : {"none", "active", "paused", "deleted"}, version : Nat, next : Nat]

-----------------------------------------------------------------------------
(* Type correctness.                                                       *)

\* The leasing protocol keeps rows well formed.
LEMMA LeaseTypes ==
  ASSUME NEW row \in Lease, NEW w \in Workers
  PROVE  /\ Requeued(row) \in Lease
         /\ Claimed(row, w) \in Lease
         /\ \A st \in Waiting \cup Settled : Left(row, st) \in Lease
         /\ \A a, max : Failed(row, a, max) \in Lease
         /\ [row EXCEPT !.stale = TRUE] \in Lease
<1>1. \A st \in Waiting \cup Settled : Left(row, st) \in Lease
  BY DEF Lease, Left
<1>2. \A a, max : Failed(row, a, max) \in Lease
  BY <1>1 DEF Failed, Waiting, Settled
<1>3. Requeued(row) \in Lease
  BY DEF Lease, Requeued, Waiting
<1>4. Claimed(row, w) \in Lease
  <2>1. row.attempts + 1 \in Nat
    BY DEF Lease
  <2> QED
    BY <2>1 DEF Lease, Claimed
<1>5. [row EXCEPT !.stale = TRUE] \in Lease
  BY DEF Lease
<1> QED
  BY <1>1, <1>2, <1>3, <1>4, <1>5

\* A fresh row is well formed.
LEMMA QueuedType == Queued \in Lease /\ Unleased \in Lease
BY DEF Queued, Unleased, Lease, Waiting

\* An append keeps the deliveries well formed.
LEMMA EnqueuedType ==
  ASSUME TypeOK, NEW k \in Key, NEW v \in Nat, NEW o \in Nat
  PROVE  Enqueued(k, v, o) \in [Key -> Delivery]
<1>1. [lease |-> Queued, version |-> v, of |-> o, run |-> Nothing] \in Delivery
  BY QueuedType DEF Delivery
<1>2. delivery \in [Key -> Delivery]
  BY DEF TypeOK, Delivery
<1> QED
  BY <1>1, <1>2 DEF Enqueued

\* What a worker holds stays well formed.
LEMMA HandTypes ==
  ASSUME TypeOK, NEW w \in Workers
  PROVE  /\ PutDown(w) => hand' \in [Workers -> Hand]
         /\ \A st \in {"claimed", "admit", "done", "rejected", "error"} :
              Step(w, st) => hand' \in [Workers -> Hand]
         /\ \A k \in Key \cup Events \cup Notice, a \in Nat :
              Took(w, k, a) => hand' \in [Workers -> Hand]
         /\ \A turn \in {"schedules", "drains"} : Idle(turn) \in Hand
<1>1. \A turn \in {"schedules", "drains"} : Idle(turn) \in Hand
  BY DEF Idle, Hand
<1>2. hand \in [Workers -> Hand] /\ hand[w] \in Hand
  BY DEF TypeOK
<1>3. PutDown(w) => hand' \in [Workers -> Hand]
  BY <1>1, <1>2 DEF PutDown
<1>4. ASSUME NEW st \in {"claimed", "admit", "done", "rejected", "error"}, Step(w, st)
      PROVE  hand' \in [Workers -> Hand]
  <2>1. [hand[w] EXCEPT !.step = st] \in Hand
    BY <1>2 DEF Hand
  <2> QED
    BY <1>2, <1>4, <2>1 DEF Step
<1>5. ASSUME NEW k \in Key \cup Events \cup Notice, NEW a \in Nat, Took(w, k, a)
      PROVE  hand' \in [Workers -> Hand]
  <2>1. [[hand[w] EXCEPT !.row = k] EXCEPT !.attempts = a] \in Hand
    BY <1>2 DEF Hand
  <2> QED
    BY <1>2, <1>5, <2>1 DEF Took
<1> QED
  BY <1>1, <1>3, <1>4, <1>5

\* A list of schedules to fire is well formed.
LEMMA FiringType ==
  ASSUME TypeOK, NEW w \in Workers, NEW todo \in SUBSET Snapshot, Firing(w, todo)
  PROVE  hand' \in [Workers -> Hand]
<1>1. Idle("drains") \in Hand /\ Idle("schedules") \in Hand
  BY HandTypes
<1>2. [[Idle("schedules") EXCEPT !.read = TRUE] EXCEPT !.todo = todo] \in Hand
  BY DEF Idle, Hand
<1> QED
  BY <1>1, <1>2 DEF Firing, TypeOK

\* Every list of schedules or listeners is made of snapshots.
LEMMA SnapshotType ==
  ASSUME TypeOK, NEW S \in SUBSET Triggers
  PROVE  /\ {[trigger |-> t, due |-> trigger[t].next, version |-> trigger[t].version] : t \in S}
              \in SUBSET Snapshot
         /\ {[trigger |-> t, due |-> 0, version |-> trigger[t].version] : t \in S}
              \in SUBSET Snapshot
BY DEF TypeOK, Snapshot

\* Keys of each type of occasion.
LEMMA OriginalType ==
  /\ \A t \in Hooks, i \in HookKeys : Original(t, i) \in Key
  /\ \A t \in Listeners, i \in Events : Original(t, i) \in Key
<1>1. 0 \in 0..MaxReplays
  BY DeliveriesAssumption
<1> QED
  BY <1>1 DEF Original, Key

\* Requests keep the state well formed.
LEMMA RequestTypes == TypeOK /\ Requests => TypeOK'
<1> SUFFICES ASSUME TypeOK, Requests PROVE TypeOK'
  OBVIOUS
<1>1. /\ MaxTime \in Nat /\ now \in Nat
      /\ trigger \in [Triggers -> Triggered] /\ delivery \in [Key -> Delivery]
  BY DeliveriesAssumption DEF TypeOK, Triggered, Delivery
<1> DEFINE Row(st, v, n) == [status |-> st, version |-> v, next |-> n]
<1>2. \A st \in {"none", "active", "paused", "deleted"}, v \in Nat, n \in Nat, t \in Triggers :
        [trigger EXCEPT ![t] = Row(st, v, n)] \in [Triggers -> Triggered]
  BY <1>1 DEF Triggered
<1>3. \A t \in Triggers : /\ NextAfter(t) \in Nat
                          /\ workflow[t].published \in Nat
                          /\ trigger[t].version \in Nat
  BY <1>1 DEF NextAfter, TypeOK
<1>4. \A t : Released(t) => owed' \in [Events -> SUBSET Listeners]
  BY DEF Released, TypeOK
<1>5. Change => changes' \in Nat
  BY DEF Change, TypeOK
<1>6. CASE Tick
  BY <1>1, <1>6 DEF TypeOK, Tick, outboxes, past
<1>7. CASE ChangePermission
  BY <1>5, <1>7 DEF TypeOK, ChangePermission, outboxes
<1>8. ASSUME NEW t \in Triggers, CreateTrigger(t) PROVE TypeOK'
  <2>1. trigger' = [trigger EXCEPT ![t] = Row("paused", 0, NextAfter(t))]
    BY <1>8 DEF CreateTrigger
  <2>2. trigger' \in [Triggers -> Triggered]
    BY <1>2, <1>3, <2>1
  <2> QED
    BY <1>8, <2>2 DEF TypeOK, CreateTrigger, outboxes, past, Triggered
<1>9. ASSUME NEW t \in Triggers, Activate(t) PROVE TypeOK'
  <2>1. trigger' = [trigger EXCEPT ![t] = Row("active", workflow[t].published, NextAfter(t))]
    BY <1>9 DEF Activate
  <2>2. trigger' \in [Triggers -> Triggered]
    BY <1>2, <1>3, <2>1
  <2> QED
    BY <1>9, <2>2 DEF TypeOK, Activate, outboxes, past, Triggered
<1>10. ASSUME NEW t \in Triggers, Pause(t) PROVE TypeOK'
  <2>1. trigger' = [trigger EXCEPT ![t] = Row("paused", 0, 0)]
    BY <1>10 DEF Pause
  <2>2. trigger' \in [Triggers -> Triggered]
    BY <1>2, <2>1
  <2> QED
    BY <1>4, <1>5, <1>10, <2>2 DEF TypeOK, Pause, outboxes, Triggered
<1>11. ASSUME NEW t \in Triggers, DeleteTrigger(t) PROVE TypeOK'
  <2>1. trigger' = [trigger EXCEPT ![t] = Row("deleted", 0, 0)]
    BY <1>11 DEF DeleteTrigger
  <2>2. trigger' \in [Triggers -> Triggered]
    BY <1>2, <2>1
  <2> QED
    BY <1>4, <1>5, <1>11, <2>2 DEF TypeOK, DeleteTrigger, outboxes, Triggered
<1>12. ASSUME NEW t \in Triggers, Publish(t) PROVE TypeOK'
  <2>1. workflow[t].published + 1 \in Nat
    BY <1>3
  <2>2. trigger' \in [Triggers -> Triggered]
    BY <1>1, <1>12, <2>1 DEF Publish, Triggered
  <2>3. workflow' \in [Triggers -> [published : Nat, archived : BOOLEAN, bound : BOOLEAN]]
    BY <1>12, <2>1 DEF Publish, TypeOK
  <2> QED
    BY <1>5, <1>12, <2>2, <2>3 DEF TypeOK, Publish, outboxes, Triggered
<1>13. ASSUME NEW t \in Triggers, Archive(t) PROVE TypeOK'
  <2>1. trigger' = IF Exists(t) THEN [trigger EXCEPT ![t] = Row("paused", 0, 0)]
                   ELSE trigger
    BY <1>13 DEF Archive
  <2>2. trigger' \in [Triggers -> Triggered]
    BY <1>1, <1>2, <2>1
  <2>3. workflow' \in [Triggers -> [published : Nat, archived : BOOLEAN, bound : BOOLEAN]]
    BY <1>13 DEF Archive, TypeOK
  <2>4. ASSUME NEW k \in Key
        PROVE  [delivery[k] EXCEPT !.lease = Left(@, "cancelled")] \in Delivery
    <3>1. delivery[k] \in Delivery
      BY <1>1
    <3>2. Left(delivery[k].lease, "cancelled") \in Lease
      BY <3>1 DEF Delivery, Lease, Left, Settled
    <3> QED
      BY <3>1, <3>2 DEF Delivery
  <2>5. delivery' \in [Key -> Delivery]
    BY <1>1, <1>13, <2>4 DEF Archive
  <2> QED
    BY <1>4, <1>5, <1>13, <2>2, <2>3, <2>5 DEF TypeOK, Archive, Triggered, Delivery
<1>14. ASSUME NEW t \in Triggers, Rebind(t) PROVE TypeOK'
  <2>1. workflow' \in [Triggers -> [published : Nat, archived : BOOLEAN, bound : BOOLEAN]]
    BY <1>14 DEF Rebind, TypeOK
  <2> QED
    BY <1>5, <1>14, <2>1 DEF TypeOK, Rebind, outboxes
<1>15. ASSUME NEW h \in Hooks, NEW key \in HookKeys, ReceiveWebhook(h, key) PROVE TypeOK'
  <2>1. calling' \in [Hooks \X HookKeys -> Nat]
    BY <1>3, <1>15 DEF ReceiveWebhook, TypeOK, Triggers
  <2> QED
    BY <1>15, <2>1 DEF TypeOK, ReceiveWebhook, outboxes, past
<1>16. ASSUME NEW h \in Hooks, NEW key \in HookKeys, AnswerWebhook(h, key) PROVE TypeOK'
  <2>1. <<h, key>> \in Hooks \X HookKeys /\ calling[<<h, key>>] \in Nat
    BY DEF TypeOK
  <2>2. calling' \in [Hooks \X HookKeys -> Nat]
    BY <1>16 DEF AnswerWebhook, TypeOK
  <2>3. delivery' \in [Key -> Delivery]
    BY <1>1, <1>16, <2>1, OriginalType, EnqueuedType DEF AnswerWebhook
  <2> QED
    BY <1>16, <2>2, <2>3 DEF TypeOK, AnswerWebhook, past, Delivery
<1>17. ASSUME NEW g \in Generations, CompleteGeneration(g) PROVE TypeOK'
  <2>1. event' \in [Events -> Lease]
    BY <1>17, QueuedType DEF CompleteGeneration, TypeOK
  <2>2. owed' \in [Events -> SUBSET Listeners]
    BY <1>17 DEF CompleteGeneration, TypeOK
  <2> QED
    BY <1>17, <2>1, <2>2 DEF TypeOK, CompleteGeneration, past
<1>18. ASSUME NEW i \in Imports, ImportTikTok(i) PROVE TypeOK'
  BY <1>18 DEF TypeOK, ImportTikTok, outboxes, past
<1>19. ASSUME NEW k \in Key, Replay(k) PROVE TypeOK'
  <2>1. PICK q \in Key : delivery' = Enqueued(q, delivery[k].version, k.replay)
    BY <1>19 DEF Replay, SameOccasion
  <2>2. delivery[k].version \in Nat /\ k.replay \in Nat
    BY <1>1, DeliveriesAssumption DEF Delivery, Key
  <2>3. delivery' \in [Key -> Delivery]
    BY <2>1, <2>2, EnqueuedType
  <2> QED
    BY <1>5, <1>19, <2>3 DEF TypeOK, Replay, Delivery
<1> QED
  BY <1>6, <1>7, <1>8, <1>9, <1>10, <1>11, <1>12, <1>13, <1>14, <1>15, <1>16, <1>17,
     <1>18, <1>19 DEF Requests
\* Everything a worker process does keeps the state well formed.
LEMMA WorkTypes == TypeOK /\ (\E w \in Workers : Work(w)) => TypeOK'
<1> SUFFICES ASSUME TypeOK, NEW w \in Workers, Work(w) PROVE TypeOK'
  OBVIOUS
<1>1. /\ MaxTime \in Nat /\ now \in Nat
      /\ trigger \in [Triggers -> Triggered] /\ delivery \in [Key -> Delivery]
      /\ hand \in [Workers -> Hand] /\ hand[w] \in Hand
  BY DeliveriesAssumption DEF TypeOK, Triggered, Delivery
<1>2. /\ hand[w].attempts \in Nat /\ hand[w].todo \in SUBSET Snapshot
      /\ hand[w].run \in Key \cup {Nothing}
  BY <1>1 DEF Hand
<1>3. \A x \in Snapshot : x.trigger \in Triggers /\ x.due \in Nat /\ x.version \in Nat
  BY DEF Snapshot
<1>4. \A e \in Events, st \in Waiting \cup Settled : Left(event[e], st) \in Lease
  BY LeaseTypes DEF TypeOK
<1>5. \A k \in Key : delivery[k].lease \in Lease
  BY <1>1 DEF Delivery
<1>6. CASE ReadSchedules(w)
  <2>1. PICK S \in SUBSET Triggers :
          Firing(w, {[trigger |-> t, due |-> trigger[t].next,
                      version |-> trigger[t].version] : t \in S})
    BY <1>6 DEF ReadSchedules, Triggers
  <2>2. hand' \in [Workers -> Hand]
    BY <2>1, SnapshotType, FiringType
  <2> QED
    BY <1>6, <2>2 DEF TypeOK, ReadSchedules, work, past, outboxes
<1>7. CASE PassOver(w)
  <2>1. PICK x : Firing(w, hand[w].todo \ {x})
    BY <1>7 DEF PassOver
  <2>2. hand' \in [Workers -> Hand]
    BY <1>2, <2>1, FiringType
  <2> QED
    BY <1>7, <2>2 DEF TypeOK, PassOver, work, past, outboxes
<1>8. CASE FireSchedule(w)
  <2>1. hand' \in [Workers -> Hand]
    BY <1>1, <1>8, HandTypes DEF FireSchedule
  <2> QED
    BY <1>8, <2>1 DEF TypeOK, FireSchedule, work, past, outboxes
<1>9. CASE ClaimEvent(w)
  <2>1. PICK e \in Events :
          /\ event' = [f \in Events |-> IF f = e THEN Claimed(Requeued(event[e]), w)
                                        ELSE Requeued(event[f])]
          /\ Took(w, e, event[e].attempts + 1)
    BY <1>9 DEF ClaimEvent
  <2>2. \A f \in Events : Requeued(event[f]) \in Lease /\ Claimed(Requeued(event[f]), w) \in Lease
    BY LeaseTypes DEF TypeOK
  <2>3. event[e].attempts + 1 \in Nat
    BY DEF TypeOK, Lease
  <2>4. hand' \in [Workers -> Hand]
    BY <2>1, <2>3, HandTypes
  <2>5. event' \in [Events -> Lease]
    BY <2>1, <2>2
  <2> QED
    BY <1>9, <2>4, <2>5 DEF TypeOK, ClaimEvent, work, past
<1>10. CASE ReadListeners(w)
  <2>1. PICK S \in SUBSET Triggers :
          hand' = [hand EXCEPT ![w].read = TRUE,
            ![w].todo = {[trigger |-> t, due |-> 0, version |-> trigger[t].version] : t \in S}]
    BY <1>10 DEF ReadListeners, Triggers
  <2> DEFINE list == {[trigger |-> t, due |-> 0, version |-> trigger[t].version] : t \in S}
  <2>2. list \in SUBSET Snapshot
    BY SnapshotType
  <2> HIDE DEF list
  <2>3. [[hand[w] EXCEPT !.read = TRUE] EXCEPT !.todo = list] \in Hand
    BY <1>1, <2>2 DEF Hand
  <2>4. hand' \in [Workers -> Hand]
    BY <1>1, <2>1, <2>3 DEF list
  <2> QED
    BY <1>10, <2>4 DEF TypeOK, ReadListeners, work, past, outboxes
<1>11. CASE FanOut(w)
  <2>1. PICK x \in hand[w].todo :
          IF Appendable(x, hand[w].row)
          THEN /\ delivery' = Enqueued(Original(x.trigger, hand[w].row), x.version, 0)
               /\ hand' = [hand EXCEPT ![w].todo = @ \ {x}]
          ELSE Step(w, "error") /\ UNCHANGED delivery
    BY <1>11 DEF FanOut
  <2>2. [hand[w] EXCEPT !.todo = @ \ {x}] \in Hand
    BY <1>1 DEF Hand
  <2>3. hand' \in [Workers -> Hand]
    BY <1>1, <2>1, <2>2, HandTypes
  <2>4. delivery' \in [Key -> Delivery]
    <3>1. CASE Original(x.trigger, hand[w].row) \in Key
      <4>1. x.version \in Nat
        BY <1>2, <1>3, <2>1
      <4>2. Enqueued(Original(x.trigger, hand[w].row), x.version, 0) \in [Key -> Delivery]
        BY <3>1, <4>1, EnqueuedType
      <4> QED
        BY <1>1, <2>1, <4>2
    <3>2. CASE Original(x.trigger, hand[w].row) \notin Key
      BY <1>1, <2>1, <3>2 DEF Enqueued
    <3> QED
      BY <3>1, <3>2
  <2> QED
    BY <1>11, <2>3, <2>4 DEF TypeOK, FanOut, work, past, Delivery
<1>12. CASE FinishEvent(w)
  <2>1. hand' \in [Workers -> Hand]
    BY <1>12, HandTypes DEF FinishEvent
  <2>2. event \in [Events -> Lease] /\ hand[w].row \in Events
    BY <1>12 DEF FinishEvent, InHand, TypeOK
  <2>3. /\ Left(event[hand[w].row], "delivered") \in Lease
        /\ \A a, max : Failed(event[hand[w].row], a, max) \in Lease
    BY <1>4, <2>2, LeaseTypes DEF Settled
  <2>4. event' \in [Events -> Lease]
    BY <1>12, <2>2, <2>3 DEF FinishEvent
  <2> QED
    BY <1>12, <2>1, <2>4 DEF TypeOK, FinishEvent, work, past
<1>13. CASE ClaimDelivery(w)
  <2>1. PICK k \in Key :
          /\ delivery' = [q \in Key |-> [delivery[q] EXCEPT !.lease =
                            IF q = k THEN Claimed(Requeued(@), w) ELSE Requeued(@)]]
          /\ Took(w, k, delivery[k].lease.attempts + 1)
    BY <1>13 DEF ClaimDelivery
  <2>2. ASSUME NEW q \in Key
        PROVE  [delivery[q] EXCEPT !.lease = IF q = k THEN Claimed(Requeued(@), w)
                                             ELSE Requeued(@)] \in Delivery
    <3>1. /\ Requeued(delivery[q].lease) \in Lease
          /\ Claimed(Requeued(delivery[q].lease), w) \in Lease
      BY <1>5, LeaseTypes
    <3> QED
      BY <1>1, <3>1 DEF Delivery
  <2>3. delivery[k].lease.attempts + 1 \in Nat
    BY <1>5 DEF Lease
  <2>4. hand' \in [Workers -> Hand]
    BY <2>1, <2>3, HandTypes
  <2>5. delivery' \in [Key -> Delivery]
    BY <2>1, <2>2
  <2> QED
    BY <1>13, <2>4, <2>5 DEF TypeOK, ClaimDelivery, work, past, Delivery
<1>14. CASE CheckActor(w)
  <2>1. hand' \in [Workers -> Hand]
    BY <1>14, HandTypes DEF CheckActor
  <2> QED
    BY <1>14, <2>1 DEF TypeOK, CheckActor, work, past, outboxes
<1>15. CASE Admit(w)
  <2>1. /\ runs' = runs \/ runs' = [runs EXCEPT ![hand[w].row] = @ + 1]
        /\ \/ Step(w, "rejected")
           \/ \E q \in Key : hand' = [hand EXCEPT ![w].step = "done", ![w].run = q]
    BY <1>15 DEF Admit, InHand, Answers, Alike
  <2>2. runs' \in [Key -> Nat]
    BY <2>1 DEF TypeOK
  <2>3. \A q \in Key : [[hand[w] EXCEPT !.step = "done"] EXCEPT !.run = q] \in Hand
    BY <1>1 DEF Hand
  <2>4. hand' \in [Workers -> Hand]
    BY <1>1, <2>1, <2>3, HandTypes
  <2> QED
    BY <1>15, <2>2, <2>4 DEF TypeOK, Admit, work, past
<1>16. CASE MarkDelivered(w)
  <2> DEFINE k == hand[w].row
             parent == [k EXCEPT !.replay = delivery[k].of]
             delivered == [[delivery[k] EXCEPT !.lease = Left(@, "delivered")]
                             EXCEPT !.run = hand[w].run]
  <2>1. k \in Key
    BY <1>16 DEF MarkDelivered, InHand
  <2>2. Left(delivery[k].lease, "delivered") \in Lease
    BY <1>5, <2>1, LeaseTypes DEF Settled
  <2>3. delivered \in Delivery
    BY <1>1, <1>2, <2>1, <2>2 DEF Delivery
  <2>4. delivery' = delivery \/ delivery' = [delivery EXCEPT ![k] = delivered]
    BY <1>1, <1>16, <2>1 DEF MarkDelivered
  <2>5. delivery' \in [Key -> Delivery]
    BY <1>1, <2>1, <2>3, <2>4
  <2>6. /\ \/ UNCHANGED alert
           \/ alert' = [alert EXCEPT ![parent] = "resolved"]
        /\ \/ UNCHANGED notice
           \/ notice' = [notice EXCEPT ![[alert |-> parent, kind |-> "recovered"]] = Queued]
    BY <1>16 DEF MarkDelivered
  <2>7. hand' \in [Workers -> Hand]
    BY <1>16, HandTypes DEF MarkDelivered
  <2>8. alert' \in [Key -> {"none", "open", "resolved"}]
    <3>1. alert \in [Key -> {"none", "open", "resolved"}]
      BY DEF TypeOK
    <3> HIDE DEF parent
    <3> QED
      BY <2>6, <3>1
  <2>9. notice' \in [Notice -> Lease]
    <3>1. notice \in [Notice -> Lease]
      BY DEF TypeOK
    <3> HIDE DEF parent
    <3> QED
      BY <2>6, <3>1, QueuedType
  <2> QED
    BY <1>16, <2>5, <2>7, <2>8, <2>9 DEF TypeOK, MarkDelivered, work, past, Delivery
<1>17. CASE MarkFailed(w)
  <2> DEFINE k == hand[w].row
             status == IF hand[w].step = "rejected" \/ hand[w].attempts >= MaxAttempts
                       THEN "dead_letter" ELSE "retry_wait"
             failed == [delivery[k] EXCEPT !.lease = Left(@, status)]
  <2>1. k \in Key
    BY <1>17 DEF MarkFailed, InHand
  <2>2. Left(delivery[k].lease, status) \in Lease
    BY <1>5, <2>1, LeaseTypes DEF Settled, Waiting
  <2>3. failed \in Delivery
    BY <1>1, <2>1, <2>2 DEF Delivery
  <2>4. delivery' = delivery \/ delivery' = [delivery EXCEPT ![k] = failed]
    BY <1>1, <1>17, <2>1 DEF MarkFailed
  <2>5. delivery' \in [Key -> Delivery]
    BY <1>1, <2>1, <2>3, <2>4
  <2>6. alert' \in [Key -> {"none", "open", "resolved"}] /\ notice' \in [Notice -> Lease]
    BY <1>17, QueuedType DEF MarkFailed, TypeOK
  <2>7. hand' \in [Workers -> Hand]
    BY <1>17, HandTypes DEF MarkFailed
  <2> QED
    BY <1>17, <2>5, <2>6, <2>7 DEF TypeOK, MarkFailed, work, past, Delivery
<1>18. CASE ClaimNotice(w)
  <2>1. PICK n \in Notice :
          /\ notice' = [m \in Notice |-> IF m = n THEN Claimed(Requeued(notice[n]), w)
                                         ELSE Requeued(notice[m])]
          /\ Took(w, n, notice[n].attempts + 1)
    BY <1>18 DEF ClaimNotice
  <2>2. \A m \in Notice : Requeued(notice[m]) \in Lease /\ Claimed(Requeued(notice[m]), w) \in Lease
    BY LeaseTypes DEF TypeOK
  <2>3. notice[n].attempts + 1 \in Nat
    BY DEF TypeOK, Lease
  <2>4. hand' \in [Workers -> Hand]
    BY <2>1, <2>3, HandTypes
  <2>5. notice' \in [Notice -> Lease]
    BY <2>1, <2>2
  <2> QED
    BY <1>18, <2>4, <2>5 DEF TypeOK, ClaimNotice, work, past
<1>19. CASE SendNotice(w)
  <2>1. hand' \in [Workers -> Hand]
    BY <1>19, HandTypes DEF SendNotice
  <2> QED
    BY <1>19, <2>1 DEF TypeOK, SendNotice, work, past, outboxes
<1>20. CASE FinishNotice(w)
  <2>1. hand' \in [Workers -> Hand]
    BY <1>20, HandTypes DEF FinishNotice
  <2>2. notice \in [Notice -> Lease] /\ hand[w].row \in Notice
    BY <1>20 DEF FinishNotice, InHand, TypeOK
  <2>3. /\ Left(notice[hand[w].row], "delivered") \in Lease
        /\ \A a, max : Failed(notice[hand[w].row], a, max) \in Lease
    BY <2>2, LeaseTypes DEF Settled
  <2>4. notice' \in [Notice -> Lease]
    BY <1>20, <2>2, <2>3 DEF FinishNotice
  <2> QED
    BY <1>20, <2>1, <2>4 DEF TypeOK, FinishNotice, work, past
<1>21. CASE EndCycle(w)
  <2>1. hand' \in [Workers -> Hand]
    BY <1>1, <1>21, HandTypes DEF EndCycle
  <2> QED
    BY <1>21, <2>1 DEF TypeOK, EndCycle, work, past, outboxes
<1> QED
  BY <1>6, <1>7, <1>8, <1>9, <1>10, <1>11, <1>12, <1>13, <1>14, <1>15, <1>16, <1>17,
     <1>18, <1>19, <1>20, <1>21 DEF Work

\* Faults keep the state well formed.
LEMMA FaultTypes ==
  ASSUME TypeOK, (\E w \in Workers : DeliveryThrows(w) \/ Crash(w)) \/ LeaseExpires
  PROVE  TypeOK'
<1>1. ASSUME NEW w \in Workers, DeliveryThrows(w) PROVE TypeOK'
  <2>1. hand' \in [Workers -> Hand] /\ troubles' \in Nat
    BY <1>1, HandTypes DEF DeliveryThrows, TypeOK
  <2> QED
    BY <1>1, <2>1 DEF TypeOK, DeliveryThrows, outboxes
<1>2. ASSUME NEW w \in Workers, Crash(w) PROVE TypeOK'
  <2>1. hand' \in [Workers -> Hand] /\ troubles' \in Nat
    BY <1>2, HandTypes DEF Crash, TypeOK
  <2> QED
    BY <1>2, <2>1 DEF TypeOK, Crash, outboxes
<1>3. CASE LeaseExpires
  <2> DEFINE Late(k) == [delivery[k] EXCEPT !.lease = [delivery[k].lease EXCEPT !.stale = TRUE]]
  <2>1. \A id, row : Expiring(id, row) => troubles' \in Nat
    BY DEF Expiring, TypeOK
  <2>2. troubles' \in Nat
    BY <1>3, <2>1 DEF LeaseExpires
  <2>3. \A row \in Lease : [row EXCEPT !.stale = TRUE] \in Lease
    BY DEF Lease
  <2>4. event' \in [Events -> Lease]
    <3>1. \/ UNCHANGED event
          \/ \E e \in Events : event' = [event EXCEPT ![e] = [event[e] EXCEPT !.stale = TRUE]]
      BY <1>3 DEF LeaseExpires, TypeOK
    <3> QED
      BY <2>3, <3>1 DEF TypeOK
  <2>6. notice' \in [Notice -> Lease]
    <3>1. \/ UNCHANGED notice
          \/ \E n \in Notice : notice' = [notice EXCEPT ![n] = [notice[n] EXCEPT !.stale = TRUE]]
      BY <1>3 DEF LeaseExpires, TypeOK
    <3> QED
      BY <2>3, <3>1 DEF TypeOK
  <2>7. delivery \in [Key -> Delivery]
    BY DEF TypeOK, Delivery
  <2>8. \/ UNCHANGED delivery
        \/ \E k \in Key : delivery' = [delivery EXCEPT ![k] = Late(k)]
    BY <1>3 DEF LeaseExpires
  <2>9. \A k \in Key : Late(k) \in Delivery
    BY <2>3, <2>7 DEF Delivery
  <2>10. delivery' \in [Key -> Delivery]
    BY <2>7, <2>8, <2>9
  <2> QED
    BY <1>3, <2>2, <2>4, <2>6, <2>10 DEF TypeOK, LeaseExpires, Delivery
<1> QED
  BY <1>1, <1>2, <1>3

\* The first state is well formed.
LEMMA InitTypes == Init => TypeOK
BY QueuedType, DeliveriesAssumption DEF Init, TypeOK, Idle, Hand

\* Every reachable state is well formed.
THEOREM TypeCorrect == Spec => []TypeOK
<1>1. TypeOK /\ [Next]_vars => TypeOK'
  <2>1. TypeOK /\ UNCHANGED vars => TypeOK'
    BY DEF TypeOK, vars
  <2> QED
    BY <2>1, RequestTypes, WorkTypes, FaultTypes DEF Next
<1> QED
  BY <1>1, InitTypes, PTL DEF Spec

-----------------------------------------------------------------------------
(* What a step does to the deliveries, the alerts and the notices.         *)

Parent(q, of) == [q EXCEPT !.replay = of]

\* The row stays listed, delivered or dead, or stays none of these.
Kept(k) ==
  /\ \A st \in {"none", "delivered", "dead_letter"} : Is(k, st)' <=> Is(k, st)
  /\ delivery'[k].of = delivery[k].of /\ delivery'[k].run = delivery[k].run
  /\ delivery'[k].version = delivery[k].version
NoticesKept ==
  \A n \in Notice : notice'[n].status = "none" <=> notice[n].status = "none"
Calm == (\A k \in Key : Kept(k)) /\ NoticesKept /\ alert' = alert

\* A delivery appears; a replay answers a dead letter of its occasion.
Appends(k, of) ==
  /\ Is(k, "none") /\ Is(k, "queued")' /\ delivery'[k].of = of
  /\ \A q \in Key \ {k} : delivery'[q] = delivery[q]
  /\ alert' = alert /\ notice' = notice
  /\ k.replay > 0 => Parent(k, of) \in Key /\ Is(Parent(k, of), "dead_letter")

\* A delivery is acknowledged or given up by the worker w that owns it.
Concludes(w, k, status) ==
  /\ k = hand[w].row /\ Is(k, "processing") /\ Is(k, status)'
  /\ delivery'[k].of = delivery[k].of /\ delivery'[k].version = delivery[k].version
  /\ \A q \in Key \ {k} : delivery'[q] = delivery[q]
Delivers(w, k) ==
  /\ Concludes(w, k, "delivered") /\ hand[w].step = "done" /\ InHand(w, Key)
  /\ delivery'[k].run = hand[w].run /\ runs' = runs
  /\ LET parent == Parent(k, delivery[k].of)
     IN IF k.replay > 0 /\ alert[parent] = "open"
        THEN /\ alert' = [alert EXCEPT ![parent] = "resolved"]
             /\ notice' = [notice EXCEPT ![[alert |-> parent, kind |-> "recovered"]] = Queued]
        ELSE UNCHANGED <<alert, notice>>
Kills(w, k) ==
  /\ Concludes(w, k, "dead_letter")
  /\ IF alert[k] = "none"
     THEN /\ alert' = [alert EXCEPT ![k] = "open"]
          /\ notice' = [notice EXCEPT ![[alert |-> k, kind |-> "failed"]] = Queued]
     ELSE UNCHANGED <<alert, notice>>

\* Changes of leases leave the outcome of a row alone.
LEMMA LeaseOutcomes ==
  ASSUME NEW row \in Lease, NEW w \in Workers, NEW st \in {"none", "delivered", "dead_letter"}
  PROVE  /\ Requeued(row).status = st <=> row.status = st
         /\ Claimable(row) => (Claimed(Requeued(row), w).status = st <=> row.status = st)
         /\ [row EXCEPT !.stale = TRUE].status = row.status
         /\ (row.status \in Waiting \cup {"processing"} =>
              \A to \in Waiting \cup {"cancelled"} : (Left(row, to).status = st <=> row.status = st))
BY DEF Lease, Requeued, Claimed, Claimable, Left, Waiting, Settled

\* An append is calm when the row exists already.
LEMMA AppendOutcomes ==
  ASSUME TypeOK, NEW k, NEW v, NEW of, delivery' = Enqueued(k, v, of),
         UNCHANGED <<alert, notice>>,
         k \in Key /\ k.replay > 0 =>
           Parent(k, of) \in Key /\ Is(Parent(k, of), "dead_letter")
  PROVE  Calm \/ (k \in Key /\ Appends(k, of))
<1>1. delivery \in [Key -> Delivery]
  BY DEF TypeOK, Delivery
<1>2. CASE k \in Key /\ Is(k, "none")
  <2>1. delivery' = [delivery EXCEPT ![k] = [lease |-> Queued, version |-> v, of |-> of,
                                            run |-> Nothing]]
    BY <1>2 DEF Enqueued, Is
  <2>2. /\ delivery'[k] = [lease |-> Queued, version |-> v, of |-> of, run |-> Nothing]
        /\ \A q \in Key \ {k} : delivery'[q] = delivery[q]
    BY <1>1, <1>2, <2>1
  <2>3. Is(k, "queued")' /\ delivery'[k].of = of
    BY <2>2 DEF Is, Queued, Unleased
  <2> QED
    BY <1>2, <2>2, <2>3 DEF Appends
<1>3. CASE ~(k \in Key /\ Is(k, "none"))
  <2>1. delivery' = delivery
    BY <1>1, <1>3 DEF Enqueued, Is
  <2> QED
    BY <2>1 DEF Calm, Kept, NoticesKept, Is
<1> QED
  BY <1>2, <1>3

\* A step that leaves the three tables alone is calm.
LEMMA UnchangedOutcomes ==
  ASSUME UNCHANGED <<delivery, alert, notice>> PROVE Calm
BY DEF Calm, Kept, NoticesKept, Is

\* A replay is appended beside the dead letter it repeats.
LEMMA ReplayedParent ==
  ASSUME NEW k \in Key, NEW q \in SameOccasion(k)
  PROVE  Parent(q, k.replay) = k
<1>1. q \in Key /\ q.trigger = k.trigger /\ q.occasion = k.occasion
  BY DEF SameOccasion
<1>2. q = [trigger |-> q.trigger, occasion |-> q.occasion, replay |-> q.replay]
  BY <1>1 DEF Key
<1>3. k = [trigger |-> k.trigger, occasion |-> k.occasion, replay |-> k.replay]
  BY DEF Key
<1>4. [q EXCEPT !.replay = k.replay] =
        [trigger |-> q.trigger, occasion |-> q.occasion, replay |-> k.replay]
  BY <1>2
<1> QED
  BY <1>1, <1>3, <1>4 DEF Parent

\* Every step is of one of these kinds.
LEMMA Outcomes ==
  ASSUME TypeOK, [Next]_vars
  PROVE  \/ Calm
         \/ \E k \in Key, of \in Nat : Appends(k, of)
         \/ \E w \in Workers, k \in Key : Delivers(w, k) \/ Kills(w, k)
<1> USE UnchangedOutcomes
<1>1. delivery \in [Key -> Delivery] /\ \A k \in Key : delivery[k].lease \in Lease
  BY DEF TypeOK, Delivery
<1>2. CASE UNCHANGED vars
  BY <1>2 DEF vars
<1>3. CASE Tick \/ ChangePermission
  BY <1>3 DEF Tick, ChangePermission, outboxes
<1>4. ASSUME NEW t \in Triggers,
             CreateTrigger(t) \/ Activate(t) \/ Pause(t) \/ DeleteTrigger(t) \/ Publish(t) \/ Rebind(t)
      PROVE  Calm
  BY <1>4 DEF CreateTrigger, Activate, Pause, DeleteTrigger, Publish, Rebind, outboxes
<1>5. ASSUME NEW t \in Triggers, Archive(t) PROVE Calm
  <2>1. ASSUME NEW k \in Key PROVE Kept(k)
    <3>1. CASE k.trigger = t /\ delivery[k].lease.status \in Waiting
      <4>1. delivery'[k] = [delivery[k] EXCEPT !.lease = Left(@, "cancelled")]
        BY <1>5, <3>1 DEF Archive
      <4>2. /\ delivery'[k].lease = Left(delivery[k].lease, "cancelled")
            /\ delivery'[k].of = delivery[k].of /\ delivery'[k].run = delivery[k].run
            /\ delivery'[k].version = delivery[k].version
        BY <1>1, <4>1 DEF Delivery
      <4> QED
        BY <1>1, <3>1, <4>2 DEF Kept, Is, Left, Lease, Waiting
    <3>2. CASE ~(k.trigger = t /\ delivery[k].lease.status \in Waiting)
      <4>1. delivery'[k] = delivery[k]
        BY <1>5, <3>2 DEF Archive
      <4> QED
        BY <4>1 DEF Kept, Is
    <3> QED
      BY <3>1, <3>2
  <2> QED
    BY <1>5, <2>1 DEF Archive, Calm, NoticesKept
<1>6. ASSUME NEW h \in Hooks, NEW key \in HookKeys, ReceiveWebhook(h, key) PROVE Calm
  BY <1>6 DEF ReceiveWebhook, outboxes
<1>7. ASSUME NEW h \in Hooks, NEW key \in HookKeys, AnswerWebhook(h, key)
      PROVE  Calm \/ \E k \in Key, of \in Nat : Appends(k, of)
  <2>1. UNCHANGED <<alert, notice>>
    BY <1>7 DEF AnswerWebhook
  <2>2. ~(Original(h, key).replay > 0)
    BY DEF Original
  <2>3. CASE delivery' = delivery
    BY <2>1, <2>3
  <2>4. CASE delivery' = Enqueued(Original(h, key), calling[<<h, key>>], 0)
    BY <2>1, <2>2, <2>4, AppendOutcomes
  <2> QED
    BY <1>7, <2>3, <2>4 DEF AnswerWebhook
<1>8. ASSUME NEW g \in Generations, CompleteGeneration(g) PROVE Calm
  BY <1>8 DEF CompleteGeneration
<1>9. ASSUME NEW i \in Imports, ImportTikTok(i) PROVE Calm
  BY <1>9 DEF ImportTikTok, outboxes
<1>10. ASSUME NEW k \in Key, Replay(k)
       PROVE  Calm \/ \E q \in Key, of \in Nat : Appends(q, of)
  <2>1. PICK q \in SameOccasion(k) : delivery' = Enqueued(q, delivery[k].version, k.replay)
    BY <1>10 DEF Replay
  <2>2. UNCHANGED <<alert, notice>> /\ Is(k, "dead_letter")
    BY <1>10 DEF Replay, Is
  <2>3. Parent(q, k.replay) = k /\ k.replay \in Nat
    BY ReplayedParent, DeliveriesAssumption DEF Key
  <2> QED
    BY <2>1, <2>2, <2>3, AppendOutcomes
<1>11. ASSUME NEW w \in Workers,
              \/ ReadSchedules(w) \/ PassOver(w) \/ FireSchedule(w)
              \/ ClaimEvent(w) \/ ReadListeners(w)
              \/ FinishEvent(w) \/ CheckActor(w) \/ Admit(w) \/ SendNotice(w)
              \/ EndCycle(w) \/ DeliveryThrows(w) \/ Crash(w)
       PROVE  Calm
  BY <1>11 DEF ReadSchedules, PassOver, FireSchedule, ClaimEvent, ReadListeners, FinishEvent,
       CheckActor, Admit, SendNotice, EndCycle, DeliveryThrows, Crash, outboxes
<1>13. ASSUME NEW w \in Workers, FanOut(w)
       PROVE  Calm \/ \E k \in Key, of \in Nat : Appends(k, of)
  <2>1. PICK x : \/ delivery' = delivery
                 \/ delivery' = Enqueued(Original(x.trigger, hand[w].row), x.version, 0)
    BY <1>13 DEF FanOut
  <2>2. UNCHANGED <<alert, notice>> /\ ~(Original(x.trigger, hand[w].row).replay > 0)
    BY <1>13 DEF FanOut, Original
  <2> QED
    BY <2>1, <2>2, AppendOutcomes
<1>14. ASSUME NEW w \in Workers, ClaimDelivery(w) PROVE Calm
  <2>1. PICK k \in Key :
          /\ Claimable(delivery[k].lease)
          /\ delivery' = [q \in Key |-> [delivery[q] EXCEPT !.lease =
                            IF q = k THEN Claimed(Requeued(@), w) ELSE Requeued(@)]]
    BY <1>14 DEF ClaimDelivery
  <2>2. ASSUME NEW q \in Key PROVE Kept(q)
    <3>1. /\ delivery'[q].lease = IF q = k THEN Claimed(Requeued(delivery[q].lease), w)
                                  ELSE Requeued(delivery[q].lease)
          /\ delivery'[q].of = delivery[q].of /\ delivery'[q].run = delivery[q].run
          /\ delivery'[q].version = delivery[q].version
      BY <1>1, <2>1 DEF Delivery
    <3>2. \A st \in {"none", "delivered", "dead_letter"} :
            delivery'[q].lease.status = st <=> delivery[q].lease.status = st
      BY <1>1, <2>1, <3>1, LeaseOutcomes
    <3> QED
      BY <3>1, <3>2 DEF Kept, Is
  <2> QED
    BY <1>14, <2>2 DEF ClaimDelivery, Calm, NoticesKept
<1>15. ASSUME NEW w \in Workers, ClaimNotice(w) PROVE Calm
  <2>1. PICK n \in Notice :
          /\ Claimable(notice[n])
          /\ notice' = [m \in Notice |-> IF m = n THEN Claimed(Requeued(notice[n]), w)
                                         ELSE Requeued(notice[m])]
    BY <1>15 DEF ClaimNotice
  <2>2. NoticesKept
    BY <2>1, LeaseOutcomes DEF NoticesKept, TypeOK
  <2> QED
    BY <1>15, <2>2 DEF ClaimNotice, Calm, Kept, Is
<1>16. ASSUME NEW w \in Workers, FinishNotice(w) PROVE Calm
  <2>1. NoticesKept
    BY <1>16 DEF FinishNotice, NoticesKept, TypeOK, Lease, Owns, Left, Failed, InHand
  <2> QED
    BY <1>16, <2>1 DEF FinishNotice, Calm, Kept, Is
<1>17. ASSUME NEW w \in Workers, MarkDelivered(w)
       PROVE  Calm \/ \E k \in Key : Delivers(w, k)
  <2>1. PICK k \in Key : /\ k = hand[w].row /\ hand[w].step = "done" /\ InHand(w, Key)
                         /\ runs' = runs
    BY <1>17 DEF MarkDelivered, InHand
  <2>2. CASE ~Owns(w, delivery[k].lease)
    BY <1>17, <2>1, <2>2 DEF MarkDelivered
  <2>3. CASE Owns(w, delivery[k].lease)
    <3>1. delivery' = [delivery EXCEPT ![k] = [[delivery[k] EXCEPT !.lease = Left(@, "delivered")]
                                                EXCEPT !.run = hand[w].run]]
      BY <1>1, <1>17, <2>1, <2>3 DEF MarkDelivered
    <3>2. /\ delivery'[k].lease = Left(delivery[k].lease, "delivered")
          /\ delivery'[k].run = hand[w].run /\ delivery'[k].of = delivery[k].of
          /\ delivery'[k].version = delivery[k].version
          /\ \A q \in Key \ {k} : delivery'[q] = delivery[q]
      BY <1>1, <2>1, <3>1 DEF Delivery
    <3>3. Is(k, "processing") /\ Is(k, "delivered")'
      BY <1>1, <2>1, <2>3, <3>2 DEF Is, Owns, Left, Lease
    <3>4. Concludes(w, k, "delivered")
      BY <2>1, <3>2, <3>3 DEF Concludes
    <3>5. Delivers(w, k)
      BY <1>17, <2>1, <2>3, <3>2, <3>4 DEF MarkDelivered, Delivers, Parent
    <3> QED
      BY <2>1, <3>5
  <2> QED
    BY <2>2, <2>3
<1>18. ASSUME NEW w \in Workers, MarkFailed(w)
       PROVE  Calm \/ \E k \in Key : Kills(w, k)
  <2>1. PICK k \in Key : k = hand[w].row
    BY <1>18 DEF MarkFailed, InHand
  <2>4. PICK dead \in BOOLEAN, status \in {"dead_letter", "retry_wait"} :
          /\ dead <=> hand[w].step = "rejected" \/ hand[w].attempts >= MaxAttempts
          /\ status = IF dead THEN "dead_letter" ELSE "retry_wait"
    OBVIOUS
  <2>2. CASE ~Owns(w, delivery[k].lease)
    BY <1>18, <2>1, <2>2 DEF MarkFailed
  <2>3. CASE Owns(w, delivery[k].lease)
    <3>1. delivery' = [delivery EXCEPT ![k] = [delivery[k] EXCEPT !.lease = Left(@, status)]]
      BY <1>1, <1>18, <2>1, <2>3, <2>4 DEF MarkFailed
    <3>2. /\ delivery'[k].lease = Left(delivery[k].lease, status)
          /\ delivery'[k].run = delivery[k].run /\ delivery'[k].of = delivery[k].of
          /\ delivery'[k].version = delivery[k].version
          /\ \A q \in Key \ {k} : delivery'[q] = delivery[q]
      BY <1>1, <2>1, <3>1 DEF Delivery
    <3>3. Is(k, "processing") /\ Is(k, status)'
      BY <1>1, <2>1, <2>3, <3>2 DEF Is, Owns, Left, Lease
    <3>4. CASE dead
      <4>1. Concludes(w, k, "dead_letter")
        BY <2>1, <2>4, <3>2, <3>3, <3>4 DEF Concludes
      <4> QED
        BY <1>18, <2>1, <2>3, <2>4, <3>4, <4>1 DEF MarkFailed, Kills
    <3>5. CASE ~dead
      <4>1. UNCHANGED <<alert, notice>>
        BY <1>18, <2>1, <2>3, <2>4, <3>5 DEF MarkFailed
      <4>2. \A q \in Key : Kept(q)
        BY <2>4, <3>2, <3>3, <3>5 DEF Kept, Is
      <4> QED
        BY <4>1, <4>2 DEF Calm, NoticesKept
    <3> QED
      BY <3>4, <3>5
  <2> QED
    BY <2>2, <2>3
<1>19. CASE LeaseExpires
  <2>1. alert' = alert
    BY <1>19 DEF LeaseExpires
  <2>2. NoticesKept
    <3>1. \/ notice' = notice
          \/ \E n \in Notice : notice' = [notice EXCEPT ![n] = [notice[n] EXCEPT !.stale = TRUE]]
      BY <1>19 DEF LeaseExpires, TypeOK
    <3> QED
      BY <3>1 DEF NoticesKept, TypeOK, Lease
  <2>3. \A k \in Key : Kept(k)
    BY <1>1, <1>19 DEF LeaseExpires, Kept, Is, Delivery, Lease
  <2> QED
    BY <2>1, <2>2, <2>3 DEF Calm
<1> QED
  BY <1>2, <1>3, <1>4, <1>5, <1>6, <1>7, <1>8, <1>9, <1>10, <1>11, <1>13, <1>14,
     <1>15, <1>16, <1>17, <1>18, <1>19 DEF Next, Requests, Work

\* A delivery never disappears and keeps its version.
LEMMA ListedStays ==
  ASSUME TypeOK, [Next]_vars, NEW k \in Key, ~Is(k, "none")
  PROVE  ~Is(k, "none")' /\ delivery'[k].version = delivery[k].version
<1>1. CASE Calm
  BY <1>1 DEF Calm, Kept
<1>2. ASSUME NEW p \in Key, NEW of \in Nat, Appends(p, of)
      PROVE  ~Is(k, "none")' /\ delivery'[k].version = delivery[k].version
  BY <1>2 DEF Appends, Is
<1>3. ASSUME NEW w \in Workers, NEW p \in Key, Delivers(w, p) \/ Kills(w, p)
      PROVE  ~Is(k, "none")' /\ delivery'[k].version = delivery[k].version
  BY <1>3 DEF Delivers, Kills, Concludes, Is
<1> QED
  BY <1>1, <1>2, <1>3, Outcomes

-----------------------------------------------------------------------------
(* Alerts.                                                                 *)

\* A replay answers a dead letter.
ReplaysAnswer ==
  \A q \in Key : q.replay > 0 /\ ~Is(q, "none") =>
    /\ Parent(q, delivery[q].of) \in Key
    /\ Is(Parent(q, delivery[q].of), "dead_letter")

NoticeOf(k, kind) == [alert |-> k, kind |-> kind]
Noticed(k, kind) == notice[NoticeOf(k, kind)].status # "none"
\* A replay of k has been delivered.
Recovered(k) ==
  \E q \in Key : q.replay > 0 /\ Parent(q, delivery[q].of) = k /\ Is(q, "delivered")
\* AlertsTellTheTruth, one delivery at a time.
Truthful(k) ==
  /\ Is(k, "dead_letter") <=> alert[k] # "none"
  /\ alert[k] # "none" <=> Noticed(k, "failed")
  /\ alert[k] = "resolved" <=> Recovered(k)
  /\ alert[k] = "resolved" <=> Noticed(k, "recovered")
AlertInv == ReplaysAnswer /\ \A k \in Key : Truthful(k)

\* Two keys of an occasion differ in the replay alone.
LEMMA SiblingKeys ==
  ASSUME NEW k \in Key, NEW q \in Key, NEW of \in Nat
  PROVE  /\ Parent(q, of) = k <=> q \in SameOccasion(k) /\ of = k.replay
         /\ Parent(q, of).replay = of
<1>1. q = [trigger |-> q.trigger, occasion |-> q.occasion, replay |-> q.replay]
  BY DEF Key
<1>2. k = [trigger |-> k.trigger, occasion |-> k.occasion, replay |-> k.replay]
  BY DEF Key
<1>3. Parent(q, of) = [trigger |-> q.trigger, occasion |-> q.occasion, replay |-> of]
  BY <1>1 DEF Parent
<1> QED
  BY <1>1, <1>2, <1>3 DEF SameOccasion

\* The invariant is the property.
LEMMA AlertsFromInvariant == TypeOK /\ AlertInv => AlertsTellTheTruth
<1> SUFFICES ASSUME TypeOK, AlertInv, NEW k \in Key
             PROVE  /\ Is(k, "dead_letter") <=> alert[k] # "none"
                    /\ alert[k] # "none" <=> Noticed(k, "failed")
                    /\ alert[k] = "resolved" <=>
                         \E q \in SameOccasion(k) : /\ q.replay > 0 /\ delivery[q].of = k.replay
                                                    /\ Is(q, "delivered") /\ Is(k, "dead_letter")
                    /\ alert[k] = "resolved" <=> Noticed(k, "recovered")
  BY DEF AlertsTellTheTruth, Noticed, NoticeOf
<1>1. Truthful(k)
  BY DEF AlertInv
<1>2. \A q \in Key : delivery[q].of \in Nat
  BY DEF TypeOK
<1>3. Recovered(k) <=> \E q \in SameOccasion(k) :
         q.replay > 0 /\ delivery[q].of = k.replay /\ Is(q, "delivered")
  BY <1>2, SiblingKeys DEF Recovered, SameOccasion
<1> QED
  BY <1>1, <1>3 DEF Truthful

\* Calm steps keep the alerts true.
LEMMA CalmAlerts == TypeOK /\ AlertInv /\ Calm => AlertInv'
<1> SUFFICES ASSUME TypeOK, AlertInv, Calm PROVE AlertInv'
  OBVIOUS
<1>1. ASSUME NEW k \in Key
      PROVE  /\ \A st \in {"none", "delivered", "dead_letter"} : Is(k, st)' <=> Is(k, st)
             /\ delivery'[k].of = delivery[k].of
  BY DEF Calm, Kept
<1>2. ReplaysAnswer'
  BY <1>1 DEF AlertInv, ReplaysAnswer
<1>3. ASSUME NEW k \in Key PROVE Truthful(k)'
  <2>1. Recovered(k)' <=> Recovered(k)
    BY <1>1 DEF Recovered
  <2>2. NoticeOf(k, "failed") \in Notice /\ NoticeOf(k, "recovered") \in Notice
    BY DEF NoticeOf, Notice
  <2>3. /\ Noticed(k, "failed")' <=> Noticed(k, "failed")
        /\ Noticed(k, "recovered")' <=> Noticed(k, "recovered")
    BY <2>2 DEF Noticed, Calm, NoticesKept
  <2>4. alert' = alert /\ Truthful(k)
    BY DEF Calm, AlertInv
  <2> QED
    BY <1>1, <2>1, <2>3, <2>4 DEF Truthful
<1> QED
  BY <1>2, <1>3 DEF AlertInv

\* An append keeps the alerts true.
LEMMA AppendAlerts ==
  ASSUME TypeOK, AlertInv, NEW p \in Key, NEW of \in Nat, Appends(p, of)
  PROVE  AlertInv'
<1>1. ASSUME NEW k \in Key
      PROVE  /\ Is(k, "delivered")' <=> Is(k, "delivered")
             /\ Is(k, "dead_letter")' <=> Is(k, "dead_letter")
             /\ Is(k, "delivered") => delivery'[k].of = delivery[k].of
  BY DEF Appends, Is
<1>2. ReplaysAnswer'
  <2> SUFFICES ASSUME NEW q \in Key, q.replay > 0, ~Is(q, "none")'
               PROVE  /\ Parent(q, delivery'[q].of) \in Key
                      /\ Is(Parent(q, delivery[q].of), "dead_letter")'
    BY DEF ReplaysAnswer
  <2>1. CASE q = p
    BY <1>1, <2>1 DEF Appends
  <2>2. CASE q # p
    <3>1. delivery'[q] = delivery[q] /\ ~Is(q, "none")
      BY <2>2 DEF Appends, Is
    <3> QED
      BY <1>1, <3>1 DEF AlertInv, ReplaysAnswer
  <2> QED
    BY <2>1, <2>2
<1>3. ASSUME NEW k \in Key PROVE Truthful(k)'
  <2>1. Recovered(k)' <=> Recovered(k)
    BY <1>1 DEF Recovered
  <2>2. alert' = alert /\ notice' = notice /\ Truthful(k)
    BY DEF Appends, AlertInv
  <2> QED
    BY <1>1, <2>1, <2>2 DEF Truthful, Noticed
<1> QED
  BY <1>2, <1>3 DEF AlertInv

\* Acknowledging a delivery keeps the alerts true: a replay resolves the alert of
\* the dead letter it answers.
LEMMA DeliverAlerts ==
  ASSUME TypeOK, AlertInv, NEW w \in Workers, NEW p \in Key, Delivers(w, p)
  PROVE  AlertInv'
<1>1. /\ Is(p, "processing") /\ Is(p, "delivered")' /\ delivery'[p].of = delivery[p].of
      /\ \A q \in Key \ {p} : delivery'[q] = delivery[q]
  BY DEF Delivers, Concludes
<1>2. \A k \in Key : /\ Is(k, "dead_letter")' <=> Is(k, "dead_letter")
                     /\ Is(k, "none")' <=> Is(k, "none")
                     /\ Is(k, "delivered")' <=> (Is(k, "delivered") \/ k = p)
                     /\ delivery'[k].of = delivery[k].of
  <2> TAKE k \in Key
  <2>1. CASE k = p
    BY <1>1, <2>1, Zenon DEF Is
  <2>2. CASE k # p
    BY <1>1, <2>2, Zenon DEF Is
  <2> QED
    BY <2>1, <2>2
<1>3. ReplaysAnswer'
  BY <1>2 DEF AlertInv, ReplaysAnswer, Is
<1> DEFINE parent == Parent(p, delivery[p].of)
<1>4. \A k \in Key : Recovered(k)' <=> Recovered(k) \/ (p.replay > 0 /\ parent = k)
  BY <1>2 DEF Recovered, Is
<1>5. CASE p.replay > 0
  <2>1. parent \in Key /\ Is(parent, "dead_letter") /\ ~Is(p, "none")
    BY <1>1, <1>5 DEF AlertInv, ReplaysAnswer, Is
  <2>2. Truthful(parent)
    BY <2>1 DEF AlertInv
  <2>3. alert[parent] \in {"open", "resolved"}
    BY <2>1, <2>2 DEF Truthful, TypeOK
  <2>4. CASE alert[parent] = "open"
    <3>1. /\ alert' = [alert EXCEPT ![parent] = "resolved"]
          /\ notice' = [notice EXCEPT ![NoticeOf(parent, "recovered")] = Queued]
      BY <1>5, <2>4 DEF Delivers, NoticeOf
    <3>2. NoticeOf(parent, "recovered") \in Notice
      BY <2>1 DEF NoticeOf, Notice
    <3>3. ASSUME NEW k \in Key
          PROVE  /\ Noticed(k, "failed")' <=> Noticed(k, "failed")
                 /\ Noticed(k, "recovered")' <=> Noticed(k, "recovered") \/ k = parent
      <4>1. /\ NoticeOf(k, "failed") \in Notice \ {NoticeOf(parent, "recovered")}
            /\ NoticeOf(k, "recovered") \in Notice
            /\ NoticeOf(k, "recovered") = NoticeOf(parent, "recovered") <=> k = parent
        BY <2>1 DEF NoticeOf, Notice
      <4>2. Queued.status # "none"
        BY DEF Queued, Unleased
      <4>3. notice \in [Notice -> Lease]
        BY DEF TypeOK
      <4> QED
        BY <3>1, <3>2, <4>1, <4>2, <4>3 DEF Noticed
    <3>4. ASSUME NEW k \in Key PROVE Truthful(k)'
      <4>1. alert'[k] = IF k = parent THEN "resolved" ELSE alert[k]
        BY <3>1, <2>1 DEF TypeOK
      <4>2. Truthful(k)
        BY DEF AlertInv
      <4>3. CASE k = parent
        BY <1>2, <1>4, <1>5, <2>1, <2>2, <3>3, <4>1, <4>3 DEF Truthful, Is
      <4>4. CASE k # parent
        BY <1>2, <1>4, <3>3, <4>1, <4>2, <4>4 DEF Truthful, Is
      <4> QED
        BY <4>3, <4>4
    <3> QED
      BY <1>3, <3>4 DEF AlertInv
  <2>5. CASE alert[parent] = "resolved"
    <3>1. alert' = alert /\ notice' = notice
      BY <2>5 DEF Delivers
    <3>2. Recovered(parent)
      BY <2>2, <2>5 DEF Truthful
    <3>3. ASSUME NEW k \in Key PROVE Truthful(k)'
      <4>1. Truthful(k) /\ (Recovered(k)' <=> Recovered(k))
        BY <1>4, <3>2 DEF AlertInv
      <4> QED
        BY <1>2, <3>1, <4>1 DEF Truthful, Noticed, Is
    <3> QED
      BY <1>3, <3>3 DEF AlertInv
  <2> QED
    BY <2>3, <2>4, <2>5
<1>6. CASE ~(p.replay > 0)
  <2>1. alert' = alert /\ notice' = notice
    BY <1>6 DEF Delivers
  <2>2. ASSUME NEW k \in Key PROVE Truthful(k)'
    <3>1. Truthful(k) /\ (Recovered(k)' <=> Recovered(k))
      BY <1>4, <1>6 DEF AlertInv
    <3> QED
      BY <1>2, <2>1, <3>1 DEF Truthful, Noticed, Is
  <2> QED
    BY <1>3, <2>2 DEF AlertInv
<1> QED
  BY <1>5, <1>6

\* A new dead letter opens its alert.
LEMMA KillAlerts ==
  ASSUME TypeOK, AlertInv, NEW w \in Workers, NEW p \in Key, Kills(w, p)
  PROVE  AlertInv'
<1>1. /\ Is(p, "processing") /\ Is(p, "dead_letter")' /\ delivery'[p].of = delivery[p].of
      /\ \A q \in Key \ {p} : delivery'[q] = delivery[q]
  BY DEF Kills, Concludes
<1>2. \A k \in Key : /\ Is(k, "dead_letter")' <=> (Is(k, "dead_letter") \/ k = p)
                     /\ Is(k, "none")' <=> Is(k, "none")
                     /\ Is(k, "delivered")' <=> Is(k, "delivered")
                     /\ delivery'[k].of = delivery[k].of
  <2> TAKE k \in Key
  <2>1. CASE k = p
    BY <1>1, <2>1, Zenon DEF Is
  <2>2. CASE k # p
    BY <1>1, <2>2, Zenon DEF Is
  <2> QED
    BY <2>1, <2>2
<1>3. ReplaysAnswer'
  BY <1>2 DEF AlertInv, ReplaysAnswer, Is
<1>4. \A k \in Key : Recovered(k)' <=> Recovered(k)
  BY <1>2 DEF Recovered, Is
<1>5. Truthful(p) /\ ~Is(p, "dead_letter")
  BY <1>1 DEF AlertInv, Is
<1>6. /\ alert' = [alert EXCEPT ![p] = "open"]
      /\ notice' = [notice EXCEPT ![NoticeOf(p, "failed")] = Queued]
  BY <1>5 DEF Truthful, Kills, NoticeOf
<1>7. ASSUME NEW k \in Key
      PROVE  /\ Noticed(k, "recovered")' <=> Noticed(k, "recovered")
             /\ Noticed(k, "failed")' <=> Noticed(k, "failed") \/ k = p
  <2>1. /\ NoticeOf(k, "recovered") \in Notice \ {NoticeOf(p, "failed")}
        /\ NoticeOf(k, "failed") \in Notice
        /\ NoticeOf(k, "failed") = NoticeOf(p, "failed") <=> k = p
    BY DEF NoticeOf, Notice
  <2>2. Queued.status # "none"
    BY DEF Queued, Unleased
  <2>3. notice \in [Notice -> Lease]
    BY DEF TypeOK
  <2> QED
    BY <1>6, <2>1, <2>2, <2>3 DEF Noticed
<1>8. ASSUME NEW k \in Key PROVE Truthful(k)'
  <2>1. alert'[k] = IF k = p THEN "open" ELSE alert[k]
    BY <1>6 DEF TypeOK
  <2>2. Truthful(k)
    BY DEF AlertInv
  <2>3. CASE k = p
    BY <1>2, <1>4, <1>5, <1>7, <2>1, <2>3 DEF Truthful, Is
  <2>4. CASE k # p
    BY <1>2, <1>4, <1>7, <2>1, <2>2, <2>4 DEF Truthful, Is
  <2> QED
    BY <2>3, <2>4
<1> QED
  BY <1>3, <1>8 DEF AlertInv

\* Before the first occasion there is nothing to tell.
LEMMA InitAlerts == Init => AlertInv
<1> SUFFICES ASSUME Init PROVE AlertInv
  OBVIOUS
<1>1. \A k \in Key : delivery[k].lease.status = "none"
  BY DEF Init, Unleased
<1>2. ReplaysAnswer
  BY <1>1 DEF ReplaysAnswer, Is
<1>3. ASSUME NEW k \in Key PROVE Truthful(k)
  <2>1. NoticeOf(k, "failed") \in Notice /\ NoticeOf(k, "recovered") \in Notice
    BY DEF NoticeOf, Notice
  <2>2. ~Noticed(k, "failed") /\ ~Noticed(k, "recovered")
    BY <2>1 DEF Init, Noticed, Unleased
  <2>3. alert[k] = "none"
    BY DEF Init
  <2> QED
    BY <1>1, <2>2, <2>3 DEF Truthful, Recovered, Is
<1> QED
  BY <1>2, <1>3 DEF AlertInv

\* Whatever dies and whoever is overtaken, a dead letter is announced once and its
\* alert is resolved exactly when a replay of it has been delivered.
THEOREM AlertsAreTrue == Spec => []AlertsTellTheTruth
<1>1. TypeOK /\ AlertInv /\ [Next]_vars => AlertInv'
  BY Outcomes, CalmAlerts, AppendAlerts, DeliverAlerts, KillAlerts
<1> QED
  BY <1>1, InitAlerts, TypeCorrect, AlertsFromInvariant, PTL DEF Spec

-----------------------------------------------------------------------------
(* What a step does to the hands of the worker processes.                  *)

Acts(v) == Work(v) \/ DeliveryThrows(v) \/ Crash(v)

\* Only the process that acts changes what it holds.
LEMMA OthersHands ==
  ASSUME TypeOK, NEW v \in Workers, Acts(v), NEW w \in Workers, w # v
  PROVE  hand'[w] = hand[w]
<1> USE DEF TypeOK
<1>1. CASE Work(v)
  BY <1>1 DEF Work, ReadSchedules, PassOver, FireSchedule, Firing, ClaimEvent,
       ReadListeners, FanOut, FinishEvent, ClaimDelivery, CheckActor, Admit, MarkDelivered,
       MarkFailed, ClaimNotice, SendNotice, FinishNotice, EndCycle, Took, Step, PutDown
<1>2. CASE DeliveryThrows(v) \/ Crash(v)
  BY <1>2 DEF DeliveryThrows, Crash, Step
<1> QED
  BY <1>1, <1>2 DEF Acts

\* Every other step leaves the hands alone.
LEMMA RequestHands ==
  ASSUME [Next]_vars PROVE hand' = hand \/ \E v \in Workers : Acts(v)
<1>1. CASE Requests
  BY <1>1 DEF Requests, Tick, ChangePermission, CreateTrigger, Activate, Pause,
       DeleteTrigger, Publish, Archive, Rebind, ReceiveWebhook, AnswerWebhook,
       CompleteGeneration, ImportTikTok, Replay
<1>2. CASE LeaseExpires
  BY <1>2 DEF LeaseExpires
<1> QED
  BY <1>1, <1>2 DEF Next, Acts, vars

\* What a process puts down or begins is empty.
LEMMA IdleFields ==
  \A turn : /\ Idle(turn).turn = turn /\ Idle(turn).todo = {} /\ ~Idle(turn).read
            /\ Idle(turn).row = Nothing /\ Idle(turn).step = "claimed"
BY DEF Idle

-----------------------------------------------------------------------------
(* Runs.                                                                   *)

\* The delivery in a worker's hand exists, and so does the run it is about to
\* acknowledge, which is of the same version and payload.
Listing(w) == InHand(w, Key) => ~Is(hand[w].row, "none")
Answered(w) ==
  InHand(w, Key) /\ hand[w].step = "done" =>
    hand[w].run \in Alike(hand[w].row) /\ runs[hand[w].run] = 1
RunInv ==
  /\ OneRunPerDelivery
  /\ \A k \in Key : runs[k] > 0 => ~Is(k, "none")
  /\ \A w \in Workers : Listing(w) /\ Answered(w)

\* Deliveries of one version and payload stay so.
LEMMA AlikeStays ==
  ASSUME TypeOK, [Next]_vars, NEW k \in Key, NEW q \in Alike(k),
         ~Is(k, "none"), ~Is(q, "none")
  PROVE  q \in Key /\ q \in Alike(k)'
<1>1. q \in Key /\ q.trigger = k.trigger /\ Payload(q) = Payload(k)
      /\ delivery[q].version = delivery[k].version
  BY DEF Alike
<1>2. /\ delivery'[q].version = delivery[q].version
      /\ delivery'[k].version = delivery[k].version
  BY <1>1, ListedStays
<1> QED
  BY <1>1, <1>2 DEF Alike, Payload

\* Runs are admitted only, once for each delivery.
LEMMA RunSteps ==
  ASSUME TypeOK, OneRunPerDelivery, [Next]_vars
  PROVE  /\ \A k \in Key : /\ runs[k] = 1 => runs'[k] = 1
                           /\ runs'[k] <= 1
         /\ \A k \in Key : runs'[k] > 0 =>
              runs[k] > 0 \/ \E w \in Workers : InHand(w, Key) /\ hand[w].row = k
<1>1. CASE runs' = runs
  BY <1>1 DEF OneRunPerDelivery, TypeOK
<1>2. ASSUME NEW w \in Workers, Admit(w)
      PROVE  /\ \A k \in Key : (runs[k] = 1 => runs'[k] = 1) /\ runs'[k] <= 1
             /\ \A k \in Key : runs'[k] > 0 => runs[k] > 0 \/ hand[w].row = k
             /\ InHand(w, Key)
  <2>1. \/ runs' = runs
        \/ /\ ~(runs[hand[w].row] > 0) /\ hand[w].row \in Key
           /\ runs' = [runs EXCEPT ![hand[w].row] = @ + 1]
    BY <1>2 DEF Admit, Admitted, InHand
  <2> QED
    BY <1>1, <1>2, <2>1 DEF OneRunPerDelivery, TypeOK, Admit
<1>3. runs' = runs \/ \E w \in Workers : Admit(w)
  <2>1. CASE Requests \/ LeaseExpires
    BY <2>1 DEF Requests, Tick, ChangePermission, CreateTrigger, Activate, Pause,
       DeleteTrigger, Publish, Archive, Rebind, ReceiveWebhook, AnswerWebhook,
       CompleteGeneration, ImportTikTok, Replay, LeaseExpires, outboxes
  <2>2. ASSUME NEW w \in Workers, Acts(w) PROVE runs' = runs \/ Admit(w)
    BY <2>2 DEF Acts, Work, ReadSchedules, PassOver, FireSchedule, ClaimEvent,
       ReadListeners, FanOut, FinishEvent, ClaimDelivery, CheckActor, MarkDelivered,
       MarkFailed, ClaimNotice, SendNotice, FinishNotice, EndCycle, DeliveryThrows,
       Crash, outboxes
  <2> QED
    BY <2>1, <2>2 DEF Next, vars, Acts
<1> QED
  BY <1>1, <1>2, <1>3

\* What a worker does to a delivery in its hand, admission excepted: it keeps row,
\* step and run, or it is not done, or the row leaves its hand; a row comes into it
\* by a claim.
LEMMA HandSteps ==
  ASSUME TypeOK, [Next]_vars, NEW w \in Workers, ~Admit(w), hand'[w].row \in Key
  PROVE  \/ /\ hand'[w].row = hand[w].row
            /\ \/ hand'[w].step = hand[w].step /\ hand'[w].run = hand[w].run
               \/ hand'[w].step # "done"
         \/ hand'[w].step # "done" /\ ~Is(hand'[w].row, "none")
<1> USE RowsAssumption, IdleFields
<1>1. hand \in [Workers -> Hand] /\ hand[w] \in Hand
  BY DEF TypeOK
<1>2. ASSUME NEW st, Step(w, st)
      PROVE  hand'[w].step = st /\ hand'[w].row = hand[w].row /\ hand'[w].run = hand[w].run
  BY <1>1, <1>2 DEF Step, Hand
<1>3. ~PutDown(w)
  BY <1>1 DEF PutDown
<1>4. ASSUME NEW k, NEW a, Took(w, k, a), Free(w)
      PROVE  hand'[w].step = "claimed" /\ hand'[w].row = k
  BY <1>1, <1>4 DEF Took, Free, Hand
<1>5. ASSUME NEW todo, Firing(w, todo) PROVE FALSE
  <2>1. hand'[w].row = Nothing
    BY <1>1, <1>5 DEF Firing, Idle
  <2> QED
    BY <2>1
<1>6. CASE ClaimDelivery(w)
  <2>1. PICK k \in Key : /\ Claimable(delivery[k].lease)
                         /\ Took(w, k, delivery[k].lease.attempts + 1)
    BY <1>6 DEF ClaimDelivery
  <2>2. ~Is(k, "none")
    BY <2>1 DEF Claimable, Is, Waiting
  <2> QED
    BY <1>4, <1>6, <2>1, <2>2 DEF ClaimDelivery
<1>7. CASE ClaimEvent(w) \/ ClaimNotice(w)
  <2>1. PICK k \in Events \cup Notice : \E a : Took(w, k, a)
    BY <1>7 DEF ClaimEvent, ClaimNotice
  <2> QED
    BY <1>4, <1>7, <2>1 DEF ClaimEvent, ClaimNotice
<1>8. ~(ReadSchedules(w) \/ PassOver(w) \/ FinishEvent(w) \/ MarkDelivered(w)
        \/ MarkFailed(w) \/ FinishNotice(w))
  BY <1>3, <1>5 DEF ReadSchedules, PassOver, FinishEvent, MarkDelivered, MarkFailed,
     FinishNotice
<1>9. ~(FireSchedule(w) \/ EndCycle(w) \/ Crash(w))
  BY <1>1 DEF FireSchedule, EndCycle, Crash
<1>10. CASE CheckActor(w) \/ DeliveryThrows(w)
  <2>1. PICK st \in {"admit", "rejected", "error"} : Step(w, st)
    BY <1>10 DEF CheckActor, DeliveryThrows
  <2> QED
    BY <1>2, <2>1
<1>11. ~SendNotice(w)
  BY <1>2 DEF SendNotice, InHand
<1>12. CASE ReadListeners(w)
  BY <1>1, <1>12 DEF ReadListeners, Hand
<1>13. CASE FanOut(w)
  <2>1. Step(w, "error") \/ \E x : hand' = [hand EXCEPT ![w].todo = @ \ {x}]
    BY <1>13 DEF FanOut
  <2> QED
    BY <1>1, <1>2, <2>1 DEF Hand
<1>14. CASE hand'[w] = hand[w]
  BY <1>14
<1>15. CASE Acts(w)
  BY <1>6, <1>7, <1>8, <1>9, <1>10, <1>11, <1>12, <1>13, <1>15 DEF Acts, Work
<1> QED
  BY <1>14, <1>15, RequestHands, OthersHands

\* A worker that is done with the admission keeps its answer, or has just had it.
LEMMA AnswerSteps ==
  ASSUME TypeOK, RunInv, [Next]_vars, NEW w \in Workers
  PROVE  Listing(w)' /\ Answered(w)'
<1> SUFFICES ASSUME NEW k \in Key, k = hand'[w].row
             PROVE  /\ ~Is(k, "none")'
                    /\ hand'[w].step = "done" =>
                         hand'[w].run \in Alike(k)' /\ runs'[hand'[w].run] = 1
  BY DEF Listing, Answered, InHand, Alike, Is
<1>1. /\ \A q \in Key : runs[q] = 1 => runs'[q] = 1
      /\ \A q \in Key : runs[q] > 0 => ~Is(q, "none")
      /\ \A q \in Key : runs[q] \in Nat /\ runs[q] <= 1
  BY RunSteps DEF RunInv, OneRunPerDelivery, TypeOK
<1>2. ASSUME k = hand[w].row, hand[w].step = "done"
      PROVE  /\ hand[w].run \in Alike(k)' /\ runs'[hand[w].run] = 1
  <2>1. /\ hand[w].run \in Alike(k) /\ runs[hand[w].run] = 1 /\ ~Is(k, "none")
    BY <1>2 DEF RunInv, Answered, Listing, InHand
  <2>2. hand[w].run \in Key
    BY <2>1 DEF Alike
  <2> QED
    BY <1>1, <2>1, <2>2, AlikeStays
<1>3. ASSUME k = hand[w].row PROVE ~Is(k, "none")'
  <2>1. ~Is(k, "none")
    BY <1>3 DEF RunInv, Listing, InHand
  <2> QED
    BY <2>1, ListedStays
<1>4. CASE Admit(w)
  <2>1. /\ hand[w].row \in Key /\ hand[w].step = "admit"
        /\ hand[w] \in Hand /\ hand \in [Workers -> Hand]
    BY <1>4 DEF Admit, InHand, TypeOK
  <2>2. \/ Step(w, "rejected")
        \/ \E q \in Answers(hand[w].row) :
              /\ hand' = [hand EXCEPT ![w].step = "done", ![w].run = q]
              /\ runs' = runs
        \/ /\ hand' = [hand EXCEPT ![w].step = "done", ![w].run = hand[w].row]
           /\ ~(runs[hand[w].row] > 0)
           /\ runs' = [runs EXCEPT ![hand[w].row] = @ + 1]
    BY <1>4 DEF Admit, Admitted
  <2>3. CASE Step(w, "rejected")
    BY <1>3, <2>1, <2>3 DEF Step, Hand
  <2>4. ASSUME NEW q \in Answers(hand[w].row), runs' = runs,
               hand' = [hand EXCEPT ![w].step = "done", ![w].run = q]
        PROVE  /\ ~Is(k, "none")'
               /\ hand'[w].run \in Alike(k)' /\ runs'[hand'[w].run] = 1
    <3>1. hand'[w].run = q /\ k = hand[w].row
      BY <2>1, <2>4 DEF Hand
    <3>2. q \in Alike(k) /\ q \in Key /\ runs[q] > 0
      BY <3>1 DEF Answers, Alike
    <3>3. runs[q] = 1
      BY <1>1, <3>2
    <3>4. ~Is(k, "none")
      BY <3>1 DEF RunInv, Listing, InHand
    <3> QED
      BY <1>1, <1>3, <2>4, <3>1, <3>2, <3>3, <3>4, AlikeStays
  <2>5. CASE /\ hand' = [hand EXCEPT ![w].step = "done", ![w].run = hand[w].row]
             /\ ~(runs[hand[w].row] > 0)
             /\ runs' = [runs EXCEPT ![hand[w].row] = @ + 1]
    <3>1. hand'[w].run = k /\ k = hand[w].row
      BY <2>1, <2>5 DEF Hand
    <3>2. runs'[k] = 1
      BY <2>1, <2>5, <3>1 DEF TypeOK
    <3> QED
      BY <1>3, <3>1, <3>2 DEF Alike
  <2> QED
    BY <2>2, <2>3, <2>4, <2>5
<1>5. CASE ~Admit(w)
  <2>1. CASE k = hand[w].row /\ \/ hand'[w].step = hand[w].step /\ hand'[w].run = hand[w].run
                                \/ hand'[w].step # "done"
    BY <1>2, <1>3, <2>1
  <2>2. CASE hand'[w].step # "done" /\ ~Is(k, "none")
    BY <2>2, ListedStays
  <2> QED
    BY <1>5, <2>1, <2>2, HandSteps
<1> QED
  BY <1>4, <1>5

\* Before the first occasion there are no runs.
LEMMA InitRuns == Init => RunInv
BY IdleFields, RowsAssumption
   DEF Init, RunInv, OneRunPerDelivery, Answered, Listing, InHand, Is, Unleased

\* However often a delivery is claimed, abandoned or overtaken between the admission
\* and the acknowledgement, it has at most one run and is delivered only with a run of
\* its trigger, version and payload.
THEOREM RunsOncePerDelivery == Spec => []OneRunPerDelivery
<1>1. TypeOK /\ RunInv /\ [Next]_vars => RunInv'
  <2> SUFFICES ASSUME TypeOK, RunInv, [Next]_vars PROVE RunInv'
    OBVIOUS
  <2>1. /\ \A k \in Key : (runs[k] = 1 => runs'[k] = 1) /\ runs'[k] <= 1
        /\ \A k \in Key : runs'[k] > 0 =>
             runs[k] > 0 \/ \E w \in Workers : InHand(w, Key) /\ hand[w].row = k
    BY RunSteps DEF RunInv
  <2>2. ASSUME NEW k \in Key, Is(k, "delivered")'
        PROVE  delivery'[k].run \in Alike(k)' /\ runs'[delivery'[k].run] = 1
    <3>1. ASSUME NEW q \in Alike(k), runs[q] = 1, ~Is(k, "none")
          PROVE  q \in Alike(k)' /\ runs'[q] = 1
      <4>1. q \in Key
        BY DEF Alike
      <4>2. ~Is(q, "none")
        BY <3>1, <4>1 DEF RunInv
      <4> QED
        BY <2>1, <3>1, <4>1, <4>2, AlikeStays
    <3>2. CASE Is(k, "delivered") /\ delivery'[k].run = delivery[k].run
      <4>1. delivery[k].run \in Alike(k) /\ runs[delivery[k].run] = 1 /\ ~Is(k, "none")
        BY <3>2 DEF RunInv, OneRunPerDelivery, Is
      <4> QED
        BY <3>1, <3>2, <4>1
    <3>3. ASSUME NEW w \in Workers, Delivers(w, k)
          PROVE  delivery'[k].run \in Alike(k)' /\ runs'[delivery'[k].run] = 1
      <4>1. /\ k = hand[w].row /\ InHand(w, Key) /\ hand[w].step = "done"
            /\ delivery'[k].run = hand[w].run
        BY <3>3 DEF Delivers, Concludes
      <4>2. hand[w].run \in Alike(k) /\ runs[hand[w].run] = 1 /\ ~Is(k, "none")
        BY <4>1 DEF RunInv, Answered, Listing
      <4> QED
        BY <3>1, <4>1, <4>2
    <3>4. CASE Calm
      BY <2>2, <3>2, <3>4 DEF Calm, Kept
    <3>5. ASSUME NEW p \in Key, NEW of \in Nat, Appends(p, of)
          PROVE  Is(k, "delivered") /\ delivery'[k].run = delivery[k].run
      BY <2>2, <3>5 DEF Appends, Is
    <3>6. ASSUME NEW w \in Workers, NEW p \in Key, Delivers(w, p) \/ Kills(w, p),
                 ~Delivers(w, k)
          PROVE  Is(k, "delivered") /\ delivery'[k].run = delivery[k].run
      BY <2>2, <3>6 DEF Delivers, Kills, Concludes, Is
    <3> QED
      BY <3>2, <3>3, <3>4, <3>5, <3>6, Outcomes
  <2>3. ASSUME NEW k \in Key, runs'[k] > 0 PROVE ~Is(k, "none")'
    <3>1. ~Is(k, "none")
      BY <2>1, <2>3 DEF RunInv, Listing
    <3> QED
      BY <3>1, ListedStays
  <2>4. OneRunPerDelivery'
    BY <2>1, <2>2 DEF OneRunPerDelivery, Is, Alike
  <2> QED
    BY <2>3, <2>4, AnswerSteps DEF RunInv
<1> QED
  BY <1>1, InitRuns, TypeCorrect, PTL DEF Spec, RunInv

-----------------------------------------------------------------------------
(* Product events.                                                         *)

\* Who is owed an event has listened since it was appended.
OwedListen ==
  \A e \in Events : /\ event[e].status = "none" => owed[e] = {}
                    /\ \A t \in owed[e] : trigger[t].status = "active"
\* A worker that fans an event out has the listeners in its list, or has served them.
Covered(w) ==
  InHand(w, Events) =>
    /\ event[hand[w].row].status # "none"
    /\ \A x \in hand[w].todo : x.trigger \in Listeners
    /\ hand[w].read /\ hand[w].step = "claimed" =>
         \A t \in owed[hand[w].row] :
           Listed(t, hand[w].row) \/ \E x \in hand[w].todo : x.trigger = t
EventInv == EventReachesListeners /\ OwedListen /\ \A w \in Workers : Covered(w)

\* What a step owes to whom, and which triggers listen.
LEMMA OwedSteps ==
  ASSUME TypeOK, OwedListen, [Next]_vars
  PROVE  /\ OwedListen'
         /\ \A e \in Events : owed'[e] \subseteq owed[e] \/ event[e].status = "none"
         /\ \A e \in Events : event[e].status # "none" => event'[e].status # "none"
<1> DEFINE Active(t) == trigger[t].status = "active"
<1>1. /\ event \in [Events -> Lease] /\ owed \in [Events -> SUBSET Listeners]
      /\ trigger \in [Triggers -> Triggered] /\ Listeners \subseteq Triggers
  BY DEF TypeOK, Triggered, Triggers
<1>2. CASE owed' = owed /\ trigger' = trigger /\ event' = event
  BY <1>2 DEF OwedListen
<1>3. ASSUME owed' = owed, event' = event, NEW t \in Triggers, NEW row,
             trigger' = [trigger EXCEPT ![t] = row],
             row.status = "active" \/ trigger[t].status # "active"
      PROVE  OwedListen'
  BY <1>1, <1>3 DEF OwedListen
<1>4. ASSUME event' = event, NEW t \in Triggers, Released(t), NEW row,
             trigger' = trigger \/ trigger' = [trigger EXCEPT ![t] = row]
      PROVE  OwedListen' /\ \A e \in Events : owed'[e] \subseteq owed[e]
  BY <1>1, <1>4 DEF OwedListen, Released
<1>5. ASSUME owed' = owed, trigger' = trigger,
             \A e \in Events : event'[e].status = "none" <=> event[e].status = "none"
      PROVE  OwedListen'
  BY <1>5 DEF OwedListen
<1>6. ASSUME NEW t \in Triggers, CreateTrigger(t) PROVE OwedListen'
  <2>1. trigger[t].status = "none" /\ owed' = owed /\ event' = event
    BY <1>6 DEF CreateTrigger, past, outboxes
  <2> QED
    BY <1>3, <1>6, <2>1 DEF CreateTrigger
<1>7. ASSUME NEW t \in Triggers, Activate(t) PROVE OwedListen'
  BY <1>3, <1>7 DEF Activate, outboxes, past
<1>8. ASSUME NEW t \in Triggers, Pause(t) \/ DeleteTrigger(t) \/ Archive(t)
      PROVE  OwedListen' /\ \A e \in Events : owed'[e] \subseteq owed[e]
  BY <1>4, <1>8 DEF Pause, DeleteTrigger, Archive, outboxes
<1>9. ASSUME NEW t \in Triggers, Publish(t) PROVE OwedListen'
  <2>1. CASE trigger' = trigger
    BY <1>2, <1>9, <2>1 DEF Publish, outboxes
  <2>2. CASE trigger' = [trigger EXCEPT ![t] = [trigger[t] EXCEPT !.version = workflow[t].published + 1]]
    <3>1. [trigger[t] EXCEPT !.version = workflow[t].published + 1].status = trigger[t].status
      BY <1>1 DEF Triggered
    <3> QED
      BY <1>3, <1>9, <2>2, <3>1 DEF Publish, outboxes
  <2> QED
    BY <1>9, <2>1, <2>2 DEF Publish
<1>10. ASSUME NEW g \in Generations, CompleteGeneration(g)
       PROVE  /\ OwedListen'
              /\ \A e \in Events : owed'[e] \subseteq owed[e] \/ event[e].status = "none"
              /\ \A e \in Events : event[e].status # "none" => event'[e].status # "none"
  <2>1. /\ event' = [event EXCEPT ![g] = Queued] /\ event[g].status = "none"
        /\ owed' = [owed EXCEPT ![g] = {t \in Listeners : Active(t)}] /\ trigger' = trigger
    BY <1>10 DEF CompleteGeneration
  <2>2. Queued.status # "none"
    BY DEF Queued, Unleased
  <2> QED
    BY <1>1, <2>1, <2>2 DEF OwedListen
<1>12. ASSUME NEW w \in Workers, ClaimEvent(w)
       PROVE  \A e \in Events : event'[e].status = "none" <=> event[e].status = "none"
  BY <1>1, <1>12, LeaseOutcomes DEF ClaimEvent
<1>13. ASSUME NEW w \in Workers, FinishEvent(w)
       PROVE  \A e \in Events : event'[e].status = "none" <=> event[e].status = "none"
  <2>1. PICK e \in Events, st \in {"delivered", "dead_letter", "retry_wait"} :
          \/ event' = event
          \/ event[e].status = "processing" /\ event' = [event EXCEPT ![e] = Left(event[e], st)]
    BY <1>1, <1>13 DEF FinishEvent, Owns, Failed, InHand
  <2>2. Left(event[e], st).status = st
    BY <1>1 DEF Left, Lease
  <2> QED
    BY <1>1, <2>1, <2>2
<1>14. CASE LeaseExpires
  <2>1. \A e \in Events : event'[e].status = "none" <=> event[e].status = "none"
    BY <1>1, <1>14, LeaseOutcomes DEF LeaseExpires, Lease
  <2> QED
    BY <1>5, <1>14, <2>1 DEF LeaseExpires
<1>15. CASE \/ Tick \/ ChangePermission
            \/ \E t \in Triggers : Rebind(t)
            \/ \E h \in Hooks, key \in HookKeys : ReceiveWebhook(h, key) \/ AnswerWebhook(h, key)
            \/ \E i \in Imports : ImportTikTok(i)
            \/ \E k \in Key : Replay(k)
            \/ UNCHANGED vars
  BY <1>2, <1>15 DEF Tick, ChangePermission, Rebind, ReceiveWebhook, AnswerWebhook,
       ImportTikTok, Replay, outboxes, past, vars
<1>16. ASSUME NEW w \in Workers, Acts(w),
              ~(ClaimEvent(w) \/ FinishEvent(w))
       PROVE  owed' = owed /\ trigger' = trigger /\ event' = event
  BY <1>16 DEF Acts, Work, ReadSchedules, PassOver, FireSchedule, ReadListeners, FanOut,
       ClaimDelivery, CheckActor, Admit, MarkDelivered, MarkFailed, ClaimNotice,
       SendNotice, FinishNotice, EndCycle, DeliveryThrows, Crash, outboxes, work, past
<1>17. ASSUME NEW w \in Workers, ClaimEvent(w) \/ FinishEvent(w)
       PROVE  owed' = owed /\ trigger' = trigger
  BY <1>17 DEF ClaimEvent, FinishEvent, work, past
<1> QED
  <2>1. ASSUME NEW w \in Workers, Acts(w)
        PROVE  /\ OwedListen' /\ owed' = owed
               /\ \A e \in Events : event[e].status # "none" => event'[e].status # "none"
    <3>2. CASE ClaimEvent(w) \/ FinishEvent(w)
      BY <1>5, <1>12, <1>13, <1>17, <3>2
    <3> QED
      BY <1>2, <1>16, <2>1, <3>2
  <2>2. CASE LeaseExpires
    <3>1. \A e \in Events : event'[e].status = "none" <=> event[e].status = "none"
      BY <1>1, <2>2, LeaseOutcomes DEF LeaseExpires, Lease
    <3> QED
      BY <1>14, <2>2, <3>1 DEF LeaseExpires
  <2>3. ASSUME NEW t \in Triggers,
               \/ CreateTrigger(t) \/ Activate(t) \/ Publish(t)
        PROVE  OwedListen' /\ owed' = owed /\ event' = event
    BY <1>6, <1>7, <1>9, <2>3 DEF CreateTrigger, Activate, Publish, outboxes, past
  <2>4. ASSUME NEW t \in Triggers, Pause(t) \/ DeleteTrigger(t) \/ Archive(t)
        PROVE  event' = event
    BY <2>4 DEF Pause, DeleteTrigger, Archive, outboxes
  <2>5. CASE \/ Tick \/ ChangePermission
             \/ \E t \in Triggers : Rebind(t)
             \/ \E h \in Hooks, key \in HookKeys : ReceiveWebhook(h, key) \/ AnswerWebhook(h, key)
             \/ \E i \in Imports : ImportTikTok(i)
             \/ \E k \in Key : Replay(k)
             \/ UNCHANGED vars
    <3>1. owed' = owed /\ event' = event
      BY <2>5 DEF Tick, ChangePermission, Rebind, ReceiveWebhook, AnswerWebhook,
           ImportTikTok, Replay, outboxes, past, vars
    <3> QED
      BY <1>15, <2>5, <3>1
  <2> QED
    BY <1>8, <1>10, <2>1, <2>2, <2>3, <2>4, <2>5 DEF Next, Requests, Acts

\* A worker keeps the listeners it has not served.
LEMMA CoveredSteps ==
  ASSUME TypeOK, EventInv, [Next]_vars, NEW w \in Workers
  PROVE  Covered(w)'
<1> DEFINE e == hand[w].row
<1>1. /\ hand \in [Workers -> Hand] /\ hand[w] \in Hand
      /\ event \in [Events -> Lease] /\ owed \in [Events -> SUBSET Listeners]
  BY DEF TypeOK
<1>2. /\ Covered(w) /\ OwedListen
      /\ \A f \in Events : owed'[f] \subseteq owed[f] \/ event[f].status = "none"
      /\ \A f \in Events : event[f].status # "none" => event'[f].status # "none"
  BY OwedSteps DEF EventInv
<1>3. \A f \in Events, t \in Listeners : Listed(t, f) => Listed(t, f)'
  BY ListedStays, OriginalType DEF Listed
<1> DEFINE Same == /\ hand'[w].row = hand[w].row /\ hand'[w].todo = hand[w].todo
                   /\ hand'[w].read /\ hand'[w].step = "claimed" =>
                        hand[w].read /\ hand[w].step = "claimed"
           Fresh == hand'[w].todo = {} /\ ~hand'[w].read
<1>4. CASE Same
  BY <1>1, <1>2, <1>3, <1>4 DEF Covered, InHand
<1>5. CASE hand'[w].row \notin Events
  BY <1>5 DEF Covered, InHand
<1>6. ASSUME Fresh, hand'[w].row \in Events => event'[hand'[w].row].status # "none"
      PROVE  Covered(w)'
  BY <1>6 DEF Covered, InHand
<1>7. CASE ReadListeners(w)
  <2> DEFINE active == {u \in Listeners : trigger[u].status = "active"}
             list == {[trigger |-> t, due |-> 0, version |-> trigger[t].version] : t \in active}
  <2>1. /\ hand' = [hand EXCEPT ![w].read = TRUE, ![w].todo = list] /\ e \in Events
        /\ UNCHANGED <<event, owed, delivery>>
    BY <1>7 DEF ReadListeners, InHand, outboxes, work, past
  <2>2. /\ \A x \in list : x.trigger \in Listeners
        /\ \A t \in active : \E x \in list : x.trigger = t
    <3>1. \A x \in list : x.trigger \in Listeners
      OBVIOUS
    <3>2. ASSUME NEW t \in active
          PROVE  \E x \in list : x.trigger = t
      <4> DEFINE x == [trigger |-> t, due |-> 0, version |-> trigger[t].version]
      <4>1. x \in list /\ x.trigger = t
        OBVIOUS
      <4> QED
        BY <4>1
    <3> QED
      BY <3>1, <3>2
  <2> HIDE DEF list
  <2>3. hand'[w].todo = list /\ hand'[w].row = e
    BY <1>1, <2>1 DEF Hand
  <2>4. \A t \in owed[e] : t \in active
    BY <1>1, <1>2, <2>1 DEF OwedListen
  <2>5. event[e].status # "none"
    BY <1>2, <2>1 DEF Covered, InHand
  <2> HIDE DEF active
  <2> QED
    BY <2>1, <2>2, <2>3, <2>4, <2>5 DEF Covered, InHand
<1>8. CASE FanOut(w)
  <2>1. /\ e \in Events /\ hand[w].read /\ hand[w].step = "claimed" /\ UNCHANGED <<event, owed>>
    BY <1>8 DEF FanOut, InHand, work, past
  <2>2. PICK x \in hand[w].todo :
          IF Appendable(x, e)
          THEN /\ delivery' = Enqueued(Original(x.trigger, e), x.version, 0)
               /\ hand' = [hand EXCEPT ![w].todo = @ \ {x}]
          ELSE Step(w, "error")
    BY <1>8 DEF FanOut
  <2>3. CASE Appendable(x, e)
    <3>1. hand'[w].todo = hand[w].todo \ {x} /\ hand'[w].row = e
      BY <1>1, <2>2, <2>3 DEF Hand
    <3>2. x.trigger \in Listeners
      BY <1>2, <2>1, <2>2 DEF Covered, InHand
    <3>3. Original(x.trigger, e) \in Key
      BY <2>1, <3>2, OriginalType
    <3>4. ~Is(Original(x.trigger, e), "none")'
      <4>1. PICK k \in Key : k = Original(x.trigger, e)
        BY <3>3
      <4>2. delivery \in [Key -> Delivery]
        BY DEF TypeOK, Delivery
      <4>3. CASE delivery[k].lease.status = "none"
        <5>1. delivery'[k].lease = Queued
          BY <2>2, <2>3, <4>1, <4>2, <4>3 DEF Enqueued
        <5> QED
          BY <2>1, <4>1, <5>1, <3>1 DEF Is, Queued, Unleased
      <4>4. CASE delivery[k].lease.status # "none"
        <5>1. delivery' = delivery
          BY <2>2, <2>3, <4>1, <4>4 DEF Enqueued
        <5> QED
          BY <4>1, <4>4, <5>1, <3>1 DEF Is
      <4> QED
        BY <4>3, <4>4
    <3>5. ASSUME NEW t \in owed[e]
          PROVE  Listed(t, e)' \/ \E y \in hand'[w].todo : y.trigger = t
      <4>1. t \in Listeners /\ (Listed(t, e) \/ \E y \in hand[w].todo : y.trigger = t)
        BY <1>1, <1>2, <2>1 DEF Covered, InHand
      <4>2. CASE t = x.trigger
        BY <3>4, <4>2, <3>1 DEF Listed
      <4>3. CASE t # x.trigger
        BY <1>3, <2>1, <3>1, <4>1, <4>3 DEF Listed
      <4> QED
        BY <4>2, <4>3
    <3> QED
      BY <1>2, <2>1, <3>1, <3>2, <3>5 DEF Covered, InHand
  <2>4. CASE ~Appendable(x, e)
    BY <1>1, <1>4, <2>2, <2>4 DEF Step, Hand
  <2> QED
    BY <2>3, <2>4
<1>9. CASE ClaimEvent(w)
  <2>1. PICK f \in Events :
          /\ hand' = [hand EXCEPT ![w].row = f, ![w].attempts = event[f].attempts + 1]
          /\ event[f].status # "none"
    BY <1>1, <1>9 DEF ClaimEvent, Took, Claimable, Waiting
  <2>2. hand'[w].row = f /\ Fresh
    BY <1>1, <1>9, <2>1 DEF ClaimEvent, Free, Idle, Hand
  <2> QED
    BY <1>2, <1>6, <2>1, <2>2
<1>10. CASE ClaimDelivery(w) \/ ClaimNotice(w)
  <2>0. PICK k \in Key \cup Notice :
          \E a : hand' = [hand EXCEPT ![w].row = k, ![w].attempts = a]
    BY <1>10 DEF ClaimDelivery, ClaimNotice, Took
  <2>1. PICK a : hand' = [hand EXCEPT ![w].row = k, ![w].attempts = a]
    BY <2>0
  <2>2. hand'[w].row = k
    BY <1>1, <2>1 DEF Hand
  <2> QED
    BY <1>5, <2>2, RowsAssumption
<1>11. CASE \E st \in {"admit", "done", "rejected", "error"} : Step(w, st)
  BY <1>1, <1>4, <1>11 DEF Step, Hand
<1>12. CASE \E turn : hand'[w] = Idle(turn)
  BY <1>5, <1>12, IdleFields, RowsAssumption
<1>13. CASE \E todo : Firing(w, todo)
  <2>1. hand'[w].row = Nothing
    BY <1>1, <1>13 DEF Firing, Idle
  <2> QED
    BY <1>5, <2>1, RowsAssumption
<1>14. CASE Admit(w)
  <2>1. hand[w].row \in Key /\ hand'[w].row = hand[w].row
    BY <1>1, <1>14 DEF Admit, InHand, Step, Hand
  <2> QED
    BY <1>5, <2>1, RowsAssumption
<1>15. CASE PutDown(w) \/ FireSchedule(w) \/ EndCycle(w) \/ Crash(w)
  BY <1>1, <1>12, <1>15 DEF PutDown, FireSchedule, EndCycle, Crash
<1>16. CASE hand'[w] = hand[w]
  BY <1>4, <1>16
<1>17. CASE Acts(w)
  BY <1>7, <1>8, <1>9, <1>10, <1>11, <1>13, <1>14, <1>15, <1>17 DEF Acts, Work,
     ReadSchedules, PassOver, FinishEvent, CheckActor, MarkDelivered, MarkFailed,
     SendNotice, FinishNotice, DeliveryThrows
<1> QED
  BY <1>16, <1>17, RequestHands, OthersHands

\* An event is delivered by a worker that has served every listener.
LEMMA DeliveredEvents ==
  ASSUME TypeOK, EventInv, [Next]_vars, NEW e \in Events, event'[e].status = "delivered"
  PROVE  \A t \in owed'[e] : Listed(t, e)'
<1>1. /\ event \in [Events -> Lease] /\ owed \in [Events -> SUBSET Listeners]
      /\ hand \in [Workers -> Hand]
  BY DEF TypeOK
<1>2. \A t \in Listeners : Listed(t, e) => Listed(t, e)'
  BY ListedStays, OriginalType DEF Listed
<1>3. owed'[e] \subseteq owed[e] \/ event[e].status = "none"
  BY OwedSteps DEF EventInv
<1>4. CASE event[e].status = "delivered"
  BY <1>1, <1>2, <1>3, <1>4 DEF EventInv, EventReachesListeners
<1>5. ASSUME NEW w \in Workers, FinishEvent(w), event[e].status # "delivered"
      PROVE  \A t \in owed'[e] : Listed(t, e)'
  <2>1. /\ hand[w].row = e /\ e \in Events /\ InHand(w, Events)
        /\ hand[w].read /\ hand[w].todo = {} /\ hand[w].step = "claimed"
    <3>1. \A a, max : Failed(event[hand[w].row], a, max).status # "delivered"
      BY <1>1, <1>5 DEF Failed, Left, Lease, FinishEvent, InHand
    <3> QED
      BY <1>1, <1>5, <3>1 DEF FinishEvent, InHand
  <2>2. \A t \in owed[e] : Listed(t, e)
    BY <2>1 DEF EventInv, Covered
  <2>3. event[e].status # "none"
    BY <2>1 DEF EventInv, Covered
  <2> QED
    BY <1>1, <1>2, <1>3, <2>2, <2>3
<1>6. ASSUME NEW w \in Workers, ClaimEvent(w) PROVE event[e].status = "delivered"
  BY <1>1, <1>6, LeaseOutcomes DEF ClaimEvent
<1>7. CASE LeaseExpires
  BY <1>1, <1>4, <1>7, LeaseOutcomes DEF LeaseExpires, Lease
<1>8. ASSUME NEW g \in Generations, CompleteGeneration(g) PROVE event[e].status = "delivered"
  <2>1. Queued.status = "queued"
    BY DEF Queued, Unleased
  <2> QED
    BY <1>1, <1>8, <2>1 DEF CompleteGeneration
<1>9. CASE event' = event
  BY <1>4, <1>9
<1>10. ASSUME NEW w \in Workers, Acts(w), ~(ClaimEvent(w) \/ FinishEvent(w))
       PROVE  event' = event
  BY <1>10 DEF Acts, Work, ReadSchedules, PassOver, FireSchedule, ReadListeners,
       FanOut, ClaimDelivery, CheckActor, Admit, MarkDelivered, MarkFailed, ClaimNotice,
       SendNotice, FinishNotice, EndCycle, DeliveryThrows, Crash, outboxes
<1>11. CASE Requests /\ ~(\E g \in Generations : CompleteGeneration(g))
  BY <1>9, <1>11 DEF Requests, Tick, ChangePermission, CreateTrigger, Activate, Pause,
       DeleteTrigger, Publish, Archive, Rebind, ReceiveWebhook, AnswerWebhook,
       ImportTikTok, Replay, outboxes
<1> QED
  BY <1>4, <1>5, <1>6, <1>7, <1>8, <1>9, <1>10, <1>11 DEF Next, Acts, vars

\* Before the first event nobody is owed anything.
LEMMA InitEvents == Init => EventInv
BY IdleFields, RowsAssumption
   DEF Init, EventInv, EventReachesListeners, OwedListen, Covered, InHand, Unleased

\* No listener that has been active since an event was appended is missing from a
\* delivered event, whichever worker delivered it and whatever failed on the way.
THEOREM EventsReachListeners == Spec => []EventReachesListeners
<1>1. TypeOK /\ EventInv /\ [Next]_vars => EventInv'
  <2> SUFFICES ASSUME TypeOK, EventInv, [Next]_vars PROVE EventInv'
    OBVIOUS
  <2>1. EventReachesListeners'
    BY DeliveredEvents DEF EventReachesListeners
  <2> QED
    BY <2>1, OwedSteps, CoveredSteps DEF EventInv
<1> QED
  BY <1>1, InitEvents, TypeCorrect, PTL DEF Spec, EventInv

=============================================================================
