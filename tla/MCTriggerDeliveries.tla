------------------------- MODULE MCTriggerDeliveries -------------------------
(* Instances of TriggerDeliveries for TLC.                                 *)
EXTENDS TriggerDeliveries, TLC

CONSTANTS s, h, l1, l2, k1, k2, g1, i1, w1, w2

\* Two events of a webhook caller with one payload.
SamePayload == [k \in HookKeys |-> "payload"]

\* A webhook, a listener or neither exists: their drains share only the table of
\* deliveries.  A webhook is active and has had k2 delivered; its run may still be.
\* Without a webhook there may be a schedule, due at the next instant; otherwise
\* the clock stands still.  Part of the bounds is spent before the start: the
\* permission may have been lost, which kills a delivery that a replay repeats.
Active(next) == [status |-> "active", version |-> 1, next |-> next]
Other(status) == [status |-> status, version |-> 0, next |-> 0]
OneType ==
  \E type \in {Hooks, Listeners, {}}, scheduled \in BOOLEAN :
    /\ scheduled => type # Hooks
    /\ trigger = [t \in Triggers |->
                   IF t \in Schedules /\ scheduled THEN Active(1)
                   ELSE IF t \in type \cap Hooks THEN Active(0)
                   ELSE IF t \in type THEN Other("none") ELSE Other("deleted")]
    /\ imported = IF type = {} THEN {} ELSE Imports
    /\ now = IF scheduled THEN 0 ELSE MaxTime
    /\ \/ type = Hooks /\ ~permitted /\ changes = 0 /\ troubles = MaxTroubles
       \/ type = Hooks /\ ~permitted /\ changes = 1 /\ troubles = 0
       \/ /\ permitted
          /\ changes = IF type = Hooks THEN MaxChanges ELSE 1
          /\ troubles = IF scheduled THEN MaxTroubles ELSE 0
    /\ runs = [k \in Key |-> IF k \in [trigger : type \cap Hooks, occasion : {k2},
                                        replay : {0}] THEN 1 ELSE 0]
    /\ delivery = [k \in Key |->
         IF runs[k] = 1
         THEN [lease |-> [Unleased EXCEPT !.status = "delivered", !.attempts = 1],
               version |-> 1, of |-> 0, run |-> k]
         ELSE [lease |-> Unleased, version |-> 0, of |-> 0, run |-> Nothing]]
MCInit ==
  /\ workflow = [t \in Triggers |-> [published |-> 1, archived |-> FALSE, bound |-> TRUE]]
  /\ permitted \in BOOLEAN
  /\ OneType
  /\ event = [e \in Events |-> Unleased]
  /\ alert = [k \in Key |-> "none"]
  /\ notice = [n \in Notice |-> Unleased]
  /\ calling = [c \in Hooks \X HookKeys |-> 0]
  /\ hand = [w \in Workers |-> Idle("schedules")]
  /\ owed = [e \in Events |-> {}]
MCSpec == MCInit /\ [][Next]_vars /\ Fairness
=============================================================================
