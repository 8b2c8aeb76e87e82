------------------------ MODULE AutomationRunsProofs ------------------------
(***************************************************************************)
(* Proofs about AutomationRuns for every set of requests, work, workers    *)
(* and limits, and any number of claims, crashes and cancellations.        *)
(***************************************************************************)
EXTENDS AutomationRuns, FiniteSetTheorems, TLAPS

Statuses == {"absent"} \cup Live \cup Terminal
Units == Prompts \cup Images

\* A claim holds a row of its own, which may still be claimed.
ClaimsLeft ==
  /\ \A w \in Workers : choosing[w] # NoRun => run[choosing[w]].attempts < MaxClaims
  /\ \A v, w \in Workers : choosing[v] = choosing[w] /\ choosing[w] # NoRun => v = w

\* Items belong to roots, and stand at other places than calls.
ItemPlaces == {"none", "idle", "creating", "waiting", "done", "failed"}
ExecShape(e) ==
  /\ \A i \in Items : /\ e.at[i] \in ItemPlaces
                      /\ e.at[i] # "none" => e.run \in Roots
  /\ \A u \in Work \ Items : e.at[u] \notin {"creating", "waiting"}
ExecsShaped == \A e \in execs : ExecShape(e)

\* The types of all but what is noted of releases and recoveries.
CoreOK ==
  /\ run \in [Runs -> Row]
  /\ open \subseteq Reservation
  /\ saved \in [Runs -> SUBSET (Prompts \cup Images)]
  /\ pending \subseteq Runs \X Prompts
  /\ execs \subseteq Exec
  /\ choosing \in [Workers -> Roots \cup {NoRun}]
  /\ recovery \in [Workers -> [todo : SUBSET Stale, release : Runs \cup {NoRun}]]
  /\ cancels \subseteq [root : Roots, stage : {"children", "select", "release"},
                        todo : SUBSET Runs]
  /\ alive \subseteq Workers
NotesOK == midway \subseteq Children /\ overtaken \subseteq Children /\ seized \subseteq Roots

TypeInv == CoreOK /\ ClaimsLeft /\ ExecsShaped

-----------------------------------------------------------------------------
(* A child is created once.                                                *)

\* An absent run was never claimed.
AbsentFresh == \A r \in Roots : Is(r, "absent") => run[r].attempts = 0

\* The claims of a root that are still to come have no children.
FutureChildren ==
  \A c \in Children : c[3] > run[c[1]].attempts => Is(c, "absent")

\* A claim has one execution.
ClaimUnique ==
  /\ \A e \in execs : e.run \in Roots => e.claim <= run[e.run].attempts
  /\ \A d, e \in execs :
       d.run \in Roots /\ d.run = e.run /\ d.claim = e.claim => d = e

\* An item that has not been started by this claim has no child of it.
ItemsFresh ==
  \A e \in execs, i \in Items :
    e.run \in Roots /\ e.at[i] \in {"none", "idle", "creating"}
      => Is(<<e.run, i, e.claim>>, "absent")

\* An execution that has not loaded its outputs has not started any work.
Unloaded ==
  \A e \in execs : e.phase = "loading" => \A u \in Work : e.at[u] = "none"

FreshInv ==
  AbsentFresh /\ FutureChildren /\ ClaimUnique /\ ItemsFresh /\ Unloaded

-----------------------------------------------------------------------------
(* Ownership of the runs that no recovery took from a living worker.       *)

\* Nobody but the living works.
LivingWork ==
  /\ \A e \in execs : e.worker \in alive
  /\ \A w \in Workers : choosing[w] # NoRun => w \in alive

\* A root under execution is held by the execution's claim, or has ended.
Held ==
  \A e \in execs :
    e.run \in Roots \ seized =>
      \/ run[e.run].status \in Terminal
      \/ Owns(e) /\ run[e.run].attempts = e.claim

\* A list of stale runs knows the attempts of those that are still with the worker it
\* names; and those of a living worker are still with it, or have ended.
ListsAgree ==
  \A w \in Workers : \A s \in recovery[w].todo :
    s.run \in Roots \ seized =>
      /\ Running(s.run) /\ run[s.run].worker = s.worker
           => s.attempts = run[s.run].attempts
      /\ s.worker \in alive
           => \/ run[s.run].status \in Terminal
              \/ Running(s.run) /\ run[s.run].worker = s.worker

\* A queued root has an attempt left.
AttemptsLeft ==
  \A r \in Roots \ seized :
    /\ run[r].attempts <= MaxAttempts
    /\ ~ Running(r) /\ run[r].status \notin Terminal => run[r].attempts < MaxAttempts

\* A child has one execution, which starts with its row.
ChildExecs ==
  /\ \A e \in execs : e.run \in Children => ~ Is(e.run, "absent")
  /\ \A d, e \in execs : d.run \in Children /\ d.run = e.run => d = e

OwnersInv == LivingWork /\ Held /\ ListsAgree /\ AttemptsLeft /\ ChildExecs

-----------------------------------------------------------------------------
(* Rows.                                                                   *)

\* What ownership and the limits depend on is the same in a row.
SameRow(r) ==
  /\ run'[r].status = run[r].status /\ run'[r].worker = run[r].worker
  /\ run'[r].stale = run[r].stale /\ run'[r].attempts = run[r].attempts
SameRows == \A r \in Runs : SameRow(r)

LEMMA RunNames ==
  /\ Roots \cap Children = {}
  /\ \A r \in Roots, i \in Items, k \in Claims : <<r, i, k>> \in Children
  /\ \A c \in Children :
       c[1] \in Roots /\ c[2] \in Items /\ c[3] \in Claims /\ c = <<c[1], c[2], c[3]>>
BY NamesAssumption DEF Children

LEMMA Limits ==
  /\ MaxCredits \in Nat /\ MaxClaims \in Nat /\ MaxClaims >= 1
  /\ MaxAttempts \in Nat /\ MaxAttempts >= 1
  /\ 1 \in Claims /\ 0 \in 0..MaxClaims /\ 1 \in 0..MaxClaims
BY LimitsAssumption DEF Claims

LEMMA WorkNames ==
  /\ Units \cap Items = {} /\ Work = Units \cup Items
  /\ \A r \in Children : WorkOf(r) \cap Items = {}
  /\ \A r \in Runs : WorkOf(r) \subseteq Work
BY WorkAssumption, RunNames DEF Units, Work, WorkOf, Runs

\* A row that leaves its worker is a row, and keeps its attempts.
LEMMA LeftRow ==
  ASSUME run \in [Runs -> Row], NEW r \in Runs, NEW status \in Statuses
  PROVE  /\ Left(r, status) \in Row
         /\ [Left(r, status) EXCEPT !.reserved = 0] \in Row
         /\ Left(r, status).status = status
         /\ Left(r, status).worker = NoWorker
         /\ Left(r, status).stale = FALSE
         /\ Left(r, status).attempts = run[r].attempts
         /\ [Left(r, status) EXCEPT !.reserved = 0].status = status
         /\ [Left(r, status) EXCEPT !.reserved = 0].worker = NoWorker
         /\ [Left(r, status) EXCEPT !.reserved = 0].stale = FALSE
         /\ [Left(r, status) EXCEPT !.reserved = 0].attempts = run[r].attempts
<1>1. run[r] \in Row
  OBVIOUS
<1> QED
  BY <1>1 DEF Left, Row, Statuses

\* A row whose reservations change is a row, the same for owners and limits.
LEMMA ReservedRow ==
  ASSUME NEW x \in Row, NEW n \in Nat
  PROVE  /\ [x EXCEPT !.reserved = n] \in Row
         /\ [x EXCEPT !.reserved = n].status = x.status
         /\ [x EXCEPT !.reserved = n].worker = x.worker
         /\ [x EXCEPT !.reserved = n].stale = x.stale
         /\ [x EXCEPT !.reserved = n].attempts = x.attempts
BY DEF Row

LEMMA ReleaseOpenRows ==
  ASSUME run \in [Runs -> Row], open \subseteq Reservation,
         NEW STATE q, q \in Runs, ReleaseOpen(q) \/ FinishRelease(q)
  PROVE  run' \in [Runs -> Row] /\ open' \subseteq Reservation /\ SameRows
<1> DEFINE x == [run[q] EXCEPT !.reserved = 0]
<1>1. x \in Row /\ x.status = run[q].status /\ x.worker = run[q].worker
      /\ x.stale = run[q].stale /\ x.attempts = run[q].attempts /\ run[q] \in Row
  BY ReservedRow
<1>2. run' = run \/ run' = [run EXCEPT ![q] = x]
  BY DEF ReleaseOpen, FinishRelease
<1>3. open' \subseteq open
  BY DEF ReleaseOpen, FinishRelease
<1> HIDE DEF x
<1>4. run' \in [Runs -> Row]
  BY <1>1, <1>2
<1>5. ASSUME NEW r \in Runs PROVE SameRow(r)
  BY <1>1, <1>2 DEF SameRow
<1> QED
  BY <1>3, <1>4, <1>5 DEF SameRows

\* The reservation of a unit is one.
LEMMA ReservationType ==
  ASSUME NEW e \in Exec, NEW u \in Units
  PROVE  <<e.run, e.claim, u>> \in Reservation
BY DEF Exec, Reservation, Units

LEMMA SettledRows ==
  ASSUME run \in [Runs -> Row], open \subseteq Reservation,
         NEW e \in Exec, NEW u, Settled(e, u)
  PROVE  run' \in [Runs -> Row] /\ open' \subseteq Reservation /\ SameRows
<1> DEFINE r == e.run
           n == IF <<e.run, e.claim, u>> \in open /\ run[r].reserved > 0
                THEN run[r].reserved - 1 ELSE run[r].reserved
           x == [run[r] EXCEPT !.charged = run[r].charged + 1, !.reserved = n]
<1>1. r \in Runs /\ run[r] \in Row
  BY DEF Exec
<1>2. run[r].reserved \in Nat /\ run[r].charged \in Nat
  BY <1>1 DEF Row
<1>3. n \in Nat /\ run[r].charged + 1 \in Nat
  BY <1>2
<1>4. run' = [run EXCEPT ![r] = x]
  BY <1>1 DEF Settled, Row
<1> HIDE DEF n, r
<1>5. x \in Row /\ x.status = run[r].status /\ x.worker = run[r].worker
      /\ x.stale = run[r].stale /\ x.attempts = run[r].attempts
  BY <1>1, <1>3 DEF Row
<1> HIDE DEF x
<1>6. run' \in [Runs -> Row]
  BY <1>1, <1>4, <1>5
<1>7. SameRows
  BY <1>1, <1>4, <1>5 DEF SameRows, SameRow
<1> QED
  BY <1>6, <1>7 DEF Settled

LEMMA ReleasedRows ==
  ASSUME run \in [Runs -> Row], open \subseteq Reservation,
         NEW e \in Exec, NEW u \in Work, Release(e, u)
  PROVE  run' \in [Runs -> Row] /\ open' \subseteq Reservation /\ SameRows
<1> DEFINE r == e.run
           n == IF run[r].reserved > 0 THEN run[r].reserved - 1 ELSE run[r].reserved
<1>1. r \in Runs /\ run[r] \in Row /\ run[r].reserved \in Nat
  BY DEF Exec, Row
<1>2. n \in Nat
  BY <1>1
<1>3. run' = run \/ run' = [run EXCEPT ![r] = [run[r] EXCEPT !.reserved = n]]
  BY <1>1 DEF Release, Row
<1> HIDE DEF n, r
<1>4. /\ [run[r] EXCEPT !.reserved = n] \in Row
      /\ [run[r] EXCEPT !.reserved = n].status = run[r].status
      /\ [run[r] EXCEPT !.reserved = n].worker = run[r].worker
      /\ [run[r] EXCEPT !.reserved = n].stale = run[r].stale
      /\ [run[r] EXCEPT !.reserved = n].attempts = run[r].attempts
  BY <1>1, <1>2 DEF Row
<1>5. run' \in [Runs -> Row]
  BY <1>1, <1>3, <1>4
<1>6. SameRows
  BY <1>1, <1>3, <1>4 DEF SameRows, SameRow
<1> QED
  BY <1>5, <1>6 DEF Release

LEMMA ReservedRows ==
  ASSUME run \in [Runs -> Row], open \subseteq Reservation,
         NEW e \in Exec, NEW u \in Units, Reserve(e, u)
  PROVE  run' \in [Runs -> Row] /\ open' \subseteq Reservation /\ SameRows
<1> DEFINE r == e.run
           n == run[r].reserved + 1
<1>1. r \in Runs /\ run[r] \in Row /\ n \in Nat
  BY DEF Exec, Row
<1>2. \/ run' = run /\ open' = open
      \/ /\ run' = [run EXCEPT ![r] = [run[r] EXCEPT !.reserved = n]]
         /\ open' = open \cup {<<e.run, e.claim, u>>}
  BY <1>1 DEF Reserve, ledger, books, Row
<1> HIDE DEF n, r
<1>3. /\ [run[r] EXCEPT !.reserved = n] \in Row
      /\ [run[r] EXCEPT !.reserved = n].status = run[r].status
      /\ [run[r] EXCEPT !.reserved = n].worker = run[r].worker
      /\ [run[r] EXCEPT !.reserved = n].stale = run[r].stale
      /\ [run[r] EXCEPT !.reserved = n].attempts = run[r].attempts
  BY <1>1 DEF Row
<1>4. run' \in [Runs -> Row]
  BY <1>1, <1>2, <1>3
<1>5. SameRows
  BY <1>1, <1>2, <1>3 DEF SameRows, SameRow
<1>6. open' \subseteq Reservation
  BY <1>2, ReservationType
<1> QED
  BY <1>4, <1>5, <1>6

-----------------------------------------------------------------------------
(* Executions.                                                             *)

\* A unit's place within an execution.
Fitting(e, u, place) ==
  /\ place \in Place
  /\ u \in Items => place \in ItemPlaces /\ (place # "none" => e.run \in Roots)
  /\ u \notin Items => place \notin {"creating", "waiting"}

LEMMA MovedExec ==
  ASSUME NEW e \in Exec, ExecShape(e), NEW u \in Work,
         NEW place, Fitting(e, u, place)
  PROVE  LET x == [e EXCEPT !.at[u] = place]
         IN /\ x \in Exec /\ ExecShape(x)
            /\ x.run = e.run /\ x.claim = e.claim /\ x.worker = e.worker
            /\ x.phase = e.phase /\ x.at[u] = place
            /\ \A v \in Work \ {u} : x.at[v] = e.at[v]
<1> DEFINE x == [e EXCEPT !.at[u] = place]
<1>1. e.at \in [Work -> Place] /\ place \in Place
  BY DEF Exec, Fitting
<1>2. x = [e EXCEPT !.at = [e.at EXCEPT ![u] = place]]
  BY DEF Exec
<1>3. [e.at EXCEPT ![u] = place] \in [Work -> Place]
  BY <1>1
<1>4. x \in Exec
  BY <1>2, <1>3 DEF Exec
<1>5. /\ x.run = e.run /\ x.claim = e.claim /\ x.worker = e.worker
      /\ x.phase = e.phase /\ x.at = [e.at EXCEPT ![u] = place]
  BY <1>2 DEF Exec
<1>6. x.at[u] = place /\ \A v \in Work \ {u} : x.at[v] = e.at[v]
  BY <1>1, <1>5
<1>7. ExecShape(x)
  <2>1. \A i \in Items : i \in Work
    BY WorkNames
  <2>2. ASSUME NEW i \in Items
        PROVE  x.at[i] \in ItemPlaces /\ (x.at[i] # "none" => x.run \in Roots)
    BY <1>5, <1>6, <2>1 DEF ExecShape, Fitting
  <2>3. ASSUME NEW v \in Work \ Items PROVE x.at[v] \notin {"creating", "waiting"}
    BY <1>6 DEF ExecShape, Fitting
  <2> QED
    BY <2>2, <2>3 DEF ExecShape
<1> QED
  BY <1>4, <1>5, <1>6, <1>7

LEMMA MovedTypes ==
  ASSUME execs \subseteq Exec, ExecsShaped, NEW e \in execs, NEW u \in Work,
         NEW place, Fitting(e, u, place), Moved(e, u, place)
  PROVE  execs' \subseteq Exec /\ ExecsShaped'
<1>1. e \in Exec /\ ExecShape(e)
  BY DEF ExecsShaped
<1>2. [e EXCEPT !.at[u] = place] \in Exec /\ ExecShape([e EXCEPT !.at[u] = place])
  BY <1>1, MovedExec
<1> QED
  BY <1>2 DEF Moved, ExecsShaped

LEMMA TurnedTypes ==
  ASSUME execs \subseteq Exec, ExecsShaped, NEW e \in execs,
         NEW phase \in {"failing", "closing"}, Turned(e, phase)
  PROVE  execs' \subseteq Exec /\ ExecsShaped'
<1>1. e \in Exec /\ ExecShape(e)
  BY DEF ExecsShaped
<1>2. [e EXCEPT !.phase = phase] \in Exec
  BY <1>1 DEF Exec
<1>3. /\ [e EXCEPT !.phase = phase].at = e.at
      /\ [e EXCEPT !.phase = phase].run = e.run
  BY <1>1 DEF Exec
<1>4. ExecShape([e EXCEPT !.phase = phase])
  BY <1>1, <1>3 DEF ExecShape
<1> QED
  BY <1>2, <1>4 DEF Turned, ExecsShaped

LEMMA NewExec ==
  ASSUME NEW r \in Runs, NEW k \in Claims, NEW w \in Workers
  PROVE  LET x == [run |-> r, claim |-> k, worker |-> w, phase |-> "loading",
                   at |-> [u \in Work |-> "none"]]
         IN x \in Exec /\ ExecShape(x)
<1>1. [u \in Work |-> "none"] \in [Work -> Place]
  BY DEF Place
<1>2. \A i \in Items : i \in Work
  BY WorkNames
<1> QED
  BY <1>1, <1>2 DEF Exec, ExecShape, ItemPlaces

\* A unit at a place of a call is none of the items; one at a place of an item
\* is, and its run is a root.
LEMMA Places ==
  ASSUME NEW e, ExecShape(e), NEW u \in Work
  PROVE  /\ e.at[u] \notin ItemPlaces => u \in Units /\ u \notin Items
         /\ e.at[u] \in {"creating", "waiting"} => u \in Items
         /\ u \in Items /\ e.at[u] # "none" => e.run \in Roots
BY WorkNames DEF ExecShape

\* The steps of a unit that only move it and change reservations.
CallStep(e, u) ==
  \/ StartCall(e, u) \/ Reserve(e, u) \/ Call(e, u) \/ SettlePrompt(e, u)
  \/ LosePrompt(e, u) \/ Confirm(e, u) \/ Save(e, u) \/ SettleImage(e, u)
  \/ FailCall(e, u) \/ Release(e, u)

\* They are steps of prompts and images.
LEMMA CallUnit ==
  ASSUME NEW e \in Exec, ExecShape(e), NEW u \in Work, CallStep(e, u)
  PROVE  u \in Units /\ u \notin Items
<1>1. CASE StartCall(e, u)
  BY <1>1, WorkNames DEF StartCall
<1>2. CASE ~ StartCall(e, u)
  <2>1. e.at[u] \notin ItemPlaces
    BY <1>2 DEF CallStep, Reserve, Call, SettlePrompt, LosePrompt, Confirm, Save,
       SettleImage, FailCall, Release, ItemPlaces
  <2> QED
    BY <2>1, Places
<1> QED
  BY <1>1, <1>2

LEMMA CallMoves ==
  ASSUME NEW e \in Exec, ExecShape(e), NEW u \in Work, CallStep(e, u)
  PROVE  \E place : /\ Fitting(e, u, place) /\ Moved(e, u, place)
                    /\ place \notin {"idle", "none", "creating", "waiting"}
<1> DEFINE P == {"done", "started", "failed", "reserved", "called", "billed",
                 "fetched", "releasing", "recording", "stored"}
<1>1. u \in Units /\ u \notin Items
  BY CallUnit
<1>2. \A place \in P : Fitting(e, u, place)
  BY <1>1 DEF Fitting, Place
<1>3. \E place \in P : Moved(e, u, place)
  <2>1. CASE StartCall(e, u)
    <3> DEFINE place == IF u \in Images \cap saved[e.run] THEN "done"
                        ELSE IF Owns(e) THEN "started" ELSE "failed"
    <3>1. place \in P /\ Moved(e, u, place)
      BY <2>1 DEF StartCall
    <3> QED
      BY <3>1
  <2>2. CASE Confirm(e, u)
    <3> DEFINE place == IF u \in Images THEN IF Owns(e) THEN "fetched" ELSE "releasing"
                        ELSE IF Owns(e) THEN "recording" ELSE "failed"
    <3>1. place \in P /\ Moved(e, u, place)
      BY <2>2 DEF Confirm
    <3> QED
      BY <3>1
  <2>3. CASE Save(e, u)
    <3> DEFINE place == IF u \in Images THEN "stored" ELSE "done"
    <3>1. place \in P /\ Moved(e, u, place)
      BY <2>3 DEF Save
    <3> QED
      BY <3>1
  <2>4. CASE Reserve(e, u)
    <3>1. Moved(e, u, "failed") \/ Moved(e, u, "reserved")
      BY <2>4 DEF Reserve
    <3> QED
      BY <3>1
  <2>5. CASE SettlePrompt(e, u)
    <3>1. Moved(e, u, "billed") \/ Moved(e, u, "failed")
      BY <2>5 DEF SettlePrompt
    <3> QED
      BY <3>1
  <2>6. CASE Call(e, u)
    BY <2>6 DEF Call
  <2>7. CASE LosePrompt(e, u)
    BY <2>7 DEF LosePrompt
  <2>8. CASE SettleImage(e, u)
    BY <2>8 DEF SettleImage
  <2>9. CASE FailCall(e, u)
    BY <2>9 DEF FailCall
  <2>10. CASE Release(e, u)
    BY <2>10 DEF Release
  <2> QED
    BY <2>1, <2>2, <2>3, <2>4, <2>5, <2>6, <2>7, <2>8, <2>9, <2>10 DEF CallStep
<1> QED
  BY <1>2, <1>3

\* A call changes nothing that ownership and the limits depend on.
LEMMA CallRows ==
  ASSUME TypeInv, NEW e \in execs, NEW u \in Work, CallStep(e, u)
  PROVE  /\ run' \in [Runs -> Row] /\ open' \subseteq Reservation /\ SameRows
         /\ saved' \in [Runs -> SUBSET Units] /\ pending' \subseteq Runs \X Prompts
         /\ UNCHANGED control
<1>1. /\ e \in Exec /\ ExecShape(e) /\ e.run \in Runs
      /\ run \in [Runs -> Row] /\ open \subseteq Reservation
      /\ saved \in [Runs -> SUBSET Units] /\ pending \subseteq Runs \X Prompts
  BY DEF TypeInv, CoreOK, ExecsShaped, Exec, Units
<1>2. u \in Units
  BY <1>1, CallUnit
<1>3. UNCHANGED control
  BY DEF CallStep, StartCall, Reserve, Call, SettlePrompt, LosePrompt, Confirm,
     Save, SettleImage, FailCall, Release
<1>4. CASE Reserve(e, u)
  BY <1>1, <1>2, <1>3, <1>4, ReservedRows DEF Reserve, progress
<1>5. CASE SettlePrompt(e, u)
  <2>1. Settled(e, u) /\ saved' = saved /\ pending' \subseteq pending
    BY <1>5 DEF SettlePrompt
  <2> QED
    BY <1>1, <1>3, <2>1, SettledRows
<1>6. CASE SettleImage(e, u)
  <2>1. Settled(e, u) /\ saved' = saved /\ pending' = pending
    BY <1>6 DEF SettleImage, progress
  <2> QED
    BY <1>1, <1>3, <2>1, SettledRows
<1>7. CASE Release(e, u)
  BY <1>1, <1>3, <1>7, ReleasedRows DEF Release, progress
<1>8. CASE StartCall(e, u) \/ LosePrompt(e, u) \/ Confirm(e, u) \/ FailCall(e, u)
  BY <1>1, <1>3, <1>8
  DEF StartCall, LosePrompt, Confirm, FailCall, ledger, books, progress, SameRows, SameRow
<1>9. CASE Call(e, u)
  BY <1>1, <1>3, <1>9 DEF Call, ledger, books, SameRows, SameRow
<1>10. CASE Save(e, u)
  BY <1>1, <1>2, <1>3, <1>10 DEF Save, ledger, books, SameRows, SameRow
<1> QED
  BY <1>4, <1>5, <1>6, <1>7, <1>8, <1>9, <1>10 DEF CallStep

-----------------------------------------------------------------------------
(* The state stays well formed.                                            *)

LEMMA ClaimsKept ==
  ASSUME ClaimsLeft, choosing \in [Workers -> Roots \cup {NoRun}],
         \A r \in Roots : run'[r].attempts = run[r].attempts, choosing' = choosing
  PROVE  ClaimsLeft'
BY DEF ClaimsLeft

LEMMA SameRowsKeepClaims ==
  ASSUME ClaimsLeft, choosing \in [Workers -> Roots \cup {NoRun}],
         SameRows, choosing' = choosing
  PROVE  ClaimsLeft'
<1>1. \A r \in Roots : run'[r].attempts = run[r].attempts
  BY DEF SameRows, SameRow, Runs
<1> QED
  BY <1>1, ClaimsKept

LEMMA CallTypes ==
  ASSUME TypeInv, NEW e \in execs, NEW u \in Work, CallStep(e, u)
  PROVE  TypeInv'
<1>1. /\ run' \in [Runs -> Row] /\ open' \subseteq Reservation /\ SameRows
      /\ saved' \in [Runs -> SUBSET Units] /\ pending' \subseteq Runs \X Prompts
      /\ UNCHANGED control
  BY CallRows
<1>2. e \in Exec /\ ExecShape(e) /\ execs \subseteq Exec /\ ExecsShaped
  BY DEF TypeInv, CoreOK, ExecsShaped
<1>3. PICK place : Fitting(e, u, place) /\ Moved(e, u, place)
  BY <1>2, CallMoves
<1>4. execs' \subseteq Exec /\ ExecsShaped'
  BY <1>2, <1>3, MovedTypes
<1>5. ClaimsLeft'
  BY <1>1, SameRowsKeepClaims DEF TypeInv, CoreOK, control
<1>6. CoreOK'
  BY <1>1, <1>4 DEF TypeInv, CoreOK, control, Units
<1> QED
  BY <1>4, <1>5, <1>6 DEF TypeInv

\* Items.
LEMMA MapTypes ==
  ASSUME TypeInv, NEW e \in execs, NEW i \in Work, StartItem(e, i) \/ CollectChild(e, i)
  PROVE  TypeInv'
<1>1. e \in Exec /\ ExecShape(e) /\ execs \subseteq Exec /\ ExecsShaped
  BY DEF TypeInv, CoreOK, ExecsShaped
<1>2. i \in Items /\ e.run \in Roots
  BY <1>1, Places DEF StartItem, MayStart, CollectChild
<1>3. \A place \in {"failed", "done", "creating"} : Fitting(e, i, place)
  BY <1>2 DEF Fitting, Place, ItemPlaces
<1>4. \E place \in {"failed", "done", "creating"} : Moved(e, i, place)
  <2>1. CASE StartItem(e, i)
    <3> DEFINE place == IF ~ Owns(e) THEN "failed"
                        ELSE IF Completed(e.run, i) # {} THEN "done" ELSE "creating"
    <3>1. place \in {"failed", "done", "creating"} /\ Moved(e, i, place)
      BY <2>1 DEF StartItem
    <3> QED
      BY <3>1
  <2>2. CASE CollectChild(e, i)
    <3> DEFINE place == IF Owns(e) /\ Is(<<e.run, i, e.claim>>, "completed")
                        THEN "done" ELSE "failed"
    <3>1. place \in {"failed", "done", "creating"} /\ Moved(e, i, place)
      BY <2>2 DEF CollectChild
    <3> QED
      BY <3>1
  <2> QED
    BY <2>1, <2>2
<1>5. execs' \subseteq Exec /\ ExecsShaped'
  BY <1>1, <1>3, <1>4, MovedTypes
<1>6. UNCHANGED <<ledger, progress, control>>
  BY DEF StartItem, CollectChild
<1>7. ClaimsLeft'
  BY <1>6 DEF TypeInv, ClaimsLeft, ledger, books, control
<1>8. CoreOK'
  BY <1>5, <1>6 DEF TypeInv, CoreOK, ledger, books, progress, control
<1> QED
  BY <1>5, <1>7, <1>8 DEF TypeInv

\* What InsertChild does to the table.
ChildRow(w) == [NoRow EXCEPT !.status = "running", !.worker = w, !.attempts = 1]

LEMMA InsertedChild ==
  ASSUME TypeInv, NEW e \in execs, NEW i \in Work, InsertChild(e, i)
  PROVE  /\ i \in Items /\ e.run \in Roots /\ e.claim \in Claims
         /\ <<e.run, i, e.claim>> \in Children
         /\ run' = [run EXCEPT ![<<e.run, i, e.claim>>] = ChildRow(e.worker)]
         /\ ChildRow(e.worker) \in Row
         /\ ChildRow(e.worker).status = "running"
         /\ ChildRow(e.worker).worker = e.worker
         /\ ChildRow(e.worker).stale = FALSE
<1>1. e \in Exec /\ ExecShape(e) /\ e.worker \in Workers
  BY DEF TypeInv, CoreOK, ExecsShaped, Exec
<1>2. i \in Items /\ e.run \in Roots /\ e.claim \in Claims
  BY <1>1, Places DEF InsertChild, Exec
<1>3. NoRow \in Row
  BY Limits DEF NoRow, Row
<1>4. /\ ChildRow(e.worker) \in Row
      /\ ChildRow(e.worker).status = "running"
      /\ ChildRow(e.worker).worker = e.worker
      /\ ChildRow(e.worker).stale = FALSE
  BY <1>1, Limits DEF ChildRow, NoRow, Row, Live
<1> QED
  BY <1>2, <1>4, RunNames DEF InsertChild, ChildRow

LEMMA InsertTypes ==
  ASSUME TypeInv, NEW e \in execs, NEW i \in Work, InsertChild(e, i)
  PROVE  TypeInv'
<1> DEFINE c == <<e.run, i, e.claim>>
           x == [run |-> c, claim |-> 1, worker |-> e.worker, phase |-> "loading",
                 at |-> [u \in Work |-> "none"]]
           y == [e EXCEPT !.at[i] = "waiting"]
<1>1. e \in Exec /\ ExecShape(e) /\ execs \subseteq Exec /\ ExecsShaped
  BY DEF TypeInv, CoreOK, ExecsShaped
<1>2. /\ i \in Items /\ e.run \in Roots /\ c \in Children /\ e.worker \in Workers
      /\ ChildRow(e.worker) \in Row /\ run' = [run EXCEPT ![c] = ChildRow(e.worker)]
  BY <1>1, InsertedChild DEF Exec
<1>3. Fitting(e, i, "waiting")
  BY <1>2 DEF Fitting, Place, ItemPlaces
<1>4. y \in Exec /\ ExecShape(y)
  BY <1>1, <1>3, MovedExec
<1>5. x \in Exec /\ ExecShape(x)
  BY <1>2, NewExec, Limits DEF Runs
<1>6. execs' = (execs \ {e}) \cup {y, x}
  BY DEF InsertChild
<1> HIDE DEF x, y
<1>7. execs' \subseteq Exec /\ ExecsShaped'
  BY <1>1, <1>4, <1>5, <1>6 DEF ExecsShaped
<1>8. run' \in [Runs -> Row] /\ UNCHANGED <<open, progress, control>>
  BY <1>2 DEF InsertChild, books, Runs, TypeInv, CoreOK
<1>9. \A r \in Roots : run'[r] = run[r]
  BY <1>2, RunNames DEF Runs, TypeInv, CoreOK
<1>10. ClaimsLeft'
  BY <1>8, <1>9, ClaimsKept DEF TypeInv, CoreOK, control
<1>11. CoreOK'
  BY <1>7, <1>8 DEF TypeInv, CoreOK, progress, control
<1> QED
  BY <1>7, <1>10, <1>11 DEF TypeInv

\* The places an execution starts with.
Loaded(e) ==
  [u \in Work |-> IF u \notin WorkOf(e.run) THEN "none"
                  ELSE IF u \in Prompts \cap saved[e.run] THEN "done"
                  ELSE "idle"]

LEMMA LoadTypes ==
  ASSUME TypeInv, NEW e \in execs, Load(e)
  PROVE  TypeInv'
<1> DEFINE f == Loaded(e)
           x == [e EXCEPT !.phase = "active", !.at = f]
<1>1. e \in Exec /\ execs \subseteq Exec /\ ExecsShaped /\ e.run \in Runs
  BY DEF TypeInv, CoreOK, ExecsShaped, Exec
<1>2. f \in [Work -> {"none", "done", "idle"}]
  BY DEF Loaded
<1>3. execs' = (execs \ {e}) \cup {x}
  BY DEF Load, Loaded
<1>4. ASSUME NEW i \in Items PROVE f[i] # "none" => e.run \in Roots
  <2>1. i \in Work
    BY WorkNames
  <2>2. e.run \in Children => i \notin WorkOf(e.run)
    BY WorkNames
  <2> QED
    BY <1>1, <2>1, <2>2 DEF Loaded, Runs
<1> HIDE DEF f
<1>5. f \in [Work -> Place]
  BY <1>2 DEF Place
<1>6. x \in Exec /\ x.at = f /\ x.run = e.run
  BY <1>1, <1>5 DEF Exec
<1> HIDE DEF x
<1>7. ExecShape(x)
  <2>1. \A i \in Items : x.at[i] \in ItemPlaces /\ (x.at[i] # "none" => x.run \in Roots)
    BY <1>2, <1>4, <1>6, WorkNames DEF ItemPlaces
  <2>2. \A u \in Work \ Items : x.at[u] \notin {"creating", "waiting"}
    BY <1>2, <1>6
  <2> QED
    BY <2>1, <2>2 DEF ExecShape
<1>8. execs' \subseteq Exec /\ ExecsShaped'
  BY <1>1, <1>3, <1>6, <1>7 DEF ExecsShaped
<1>9. UNCHANGED <<ledger, progress, control>>
  BY DEF Load
<1>10. ClaimsLeft'
  BY <1>9 DEF TypeInv, ClaimsLeft, ledger, books, control
<1>11. CoreOK'
  BY <1>8, <1>9 DEF TypeInv, CoreOK, ledger, books, progress, control
<1> QED
  BY <1>8, <1>10, <1>11 DEF TypeInv

\* The end of an execution changes its row, if at all, to a final status; nobody
\* else's, and no attempts.
LEMMA EndRows ==
  ASSUME TypeInv, NEW e \in execs, Complete(e) \/ Fail(e)
  PROVE  /\ run' \in [Runs -> Row]
         /\ SameRows \/ /\ Owns(e)
                        /\ run'[e.run].status \in Terminal
                        /\ run'[e.run].worker = NoWorker
                        /\ run'[e.run].stale = FALSE
                        /\ run'[e.run].attempts = run[e.run].attempts
                        /\ \A r \in Runs \ {e.run} : run'[r] = run[r]
<1>1. e.run \in Runs /\ run \in [Runs -> Row]
  BY DEF TypeInv, CoreOK, Exec
<1>2. CASE Owns(e) /\ Complete(e)
  <2> DEFINE x == [Left(e.run, "completed") EXCEPT !.reserved = 0]
  <2>1. run' = [run EXCEPT ![e.run] = x]
    BY <1>2 DEF Complete
  <2>2. /\ x \in Row /\ x.status = "completed" /\ x.worker = NoWorker
        /\ x.stale = FALSE /\ x.attempts = run[e.run].attempts
    BY <1>1, LeftRow DEF Statuses, Terminal
  <2> HIDE DEF x
  <2> QED
    BY <1>1, <1>2, <2>1, <2>2 DEF Terminal
<1>3. CASE Owns(e) /\ Fail(e)
  <2> DEFINE x == Left(e.run, "failed")
  <2>1. run' = [run EXCEPT ![e.run] = x]
    BY <1>3 DEF Fail
  <2>2. /\ x \in Row /\ x.status = "failed" /\ x.worker = NoWorker
        /\ x.stale = FALSE /\ x.attempts = run[e.run].attempts
    BY <1>1, LeftRow DEF Statuses, Terminal
  <2> HIDE DEF x
  <2> QED
    BY <1>1, <1>3, <2>1, <2>2 DEF Terminal
<1>4. CASE ~ Owns(e)
  <2>1. run' = run
    BY <1>4 DEF Complete, Fail
  <2> QED
    BY <1>1, <2>1 DEF SameRows, SameRow
<1> QED
  BY <1>2, <1>3, <1>4

LEMMA EndTypes ==
  ASSUME TypeInv, NEW e \in execs, Complete(e) \/ Fail(e) \/ Close(e)
  PROVE  TypeInv'
<1>1. execs \subseteq Exec /\ ExecsShaped /\ run \in [Runs -> Row] /\ open \subseteq Reservation
  BY DEF TypeInv, CoreOK
<1>2. run' \in [Runs -> Row] /\ open' \subseteq Reservation
      /\ \A r \in Roots : run'[r].attempts = run[r].attempts
  <2>1. CASE Complete(e) \/ Fail(e)
    <3>1. open' = open
      BY <2>1 DEF Complete, Fail, books
    <3> QED
      BY <1>1, <2>1, <3>1, EndRows DEF SameRows, SameRow, Runs
  <2>2. CASE Close(e)
    <3>1. ReleaseOpen(e.run) /\ e.run \in Runs
      BY <1>1, <2>2 DEF Close, Exec
    <3> QED
      BY <1>1, <3>1, ReleaseOpenRows DEF SameRows, SameRow, Runs
  <2> QED
    BY <2>1, <2>2
<1>3. UNCHANGED <<progress, control>>
  BY DEF Complete, Fail, Close
<1>4. execs' \subseteq Exec /\ ExecsShaped'
  <2>1. CASE Ended(e)
    BY <1>1, <2>1 DEF Ended, ExecsShaped
  <2>2. CASE \E phase \in {"failing", "closing"} : Turned(e, phase)
    BY <1>1, <2>2, TurnedTypes
  <2> QED
    BY <2>1, <2>2 DEF Complete, Fail, Close
<1>5. ClaimsLeft'
  BY <1>2, <1>3, ClaimsKept DEF TypeInv, CoreOK, control
<1>6. CoreOK'
  BY <1>2, <1>3, <1>4 DEF TypeInv, CoreOK, progress, control
<1> QED
  BY <1>4, <1>5, <1>6 DEF TypeInv

LEMMA StepTypes ==
  ASSUME TypeInv, NEW e \in execs, Step(e)
  PROVE  TypeInv'
<1>1. CASE Load(e)
  BY <1>1, LoadTypes
<1>2. CASE Complete(e) \/ Fail(e) \/ Close(e)
  BY <1>2, EndTypes
<1>3. ASSUME NEW u \in Work, UnitStep(e, u) PROVE TypeInv'
  <2>1. CASE CallStep(e, u)
    BY <2>1, CallTypes
  <2>2. CASE StartItem(e, u) \/ CollectChild(e, u)
    BY <2>2, MapTypes
  <2>3. CASE InsertChild(e, u)
    BY <2>3, InsertTypes
  <2> QED
    BY <1>3, <2>1, <2>2, <2>3 DEF UnitStep, CallStep
<1> QED
  BY <1>1, <1>2, <1>3 DEF Step

\* The heartbeat, and the time without one.
LEMMA StaleRows ==
  ASSUME TypeInv, NEW r \in Runs, NEW b \in BOOLEAN,
         run' = [run EXCEPT ![r].stale = b]
  PROVE  /\ run' \in [Runs -> Row]
         /\ \A s \in Runs : /\ run'[s].status = run[s].status
                            /\ run'[s].worker = run[s].worker
                            /\ run'[s].attempts = run[s].attempts
         /\ run'[r].stale = b /\ \A s \in Runs \ {r} : run'[s] = run[s]
<1>1. run \in [Runs -> Row] /\ run[r] \in Row
  BY DEF TypeInv, CoreOK
<1> DEFINE x == [run[r] EXCEPT !.stale = b]
<1>2. /\ x \in Row /\ x.status = run[r].status /\ x.worker = run[r].worker
      /\ x.attempts = run[r].attempts /\ x.stale = b
  BY <1>1 DEF Row
<1>3. run' = [run EXCEPT ![r] = x]
  OBVIOUS
<1> HIDE DEF x
<1> QED
  BY <1>1, <1>2, <1>3

LEMMA StaleTypes ==
  ASSUME TypeInv, NEW r \in Runs, NEW b \in BOOLEAN,
         run' = [run EXCEPT ![r].stale = b], UNCHANGED <<books, progress, execs, control>>
  PROVE  TypeInv'
<1>1. run' \in [Runs -> Row] /\ \A s \in Roots : run'[s].attempts = run[s].attempts
  BY StaleRows DEF Runs
<1>2. ClaimsLeft'
  BY <1>1, ClaimsKept DEF TypeInv, CoreOK, control
<1>3. CoreOK' /\ ExecsShaped'
  BY <1>1 DEF TypeInv, CoreOK, ExecsShaped, books, progress, control
<1> QED
  BY <1>2, <1>3 DEF TypeInv

\* A run that ends.
Stopped(r) ==
  /\ run[r].status \in Live /\ run'[r].status \in Terminal
  /\ run'[r].worker = NoWorker /\ run'[r].stale = FALSE
  /\ run'[r].attempts = run[r].attempts

LEMMA CancelledRow ==
  ASSUME run \in [Runs -> Row], NEW r \in Runs, run[r].status \in Live,
         \/ run'[r] = Left(r, "cancelled")
         \/ run'[r] = [Left(r, "cancelled") EXCEPT !.reserved = 0]
  PROVE  run'[r] \in Row /\ Stopped(r)
<1>1. "cancelled" \in Statuses /\ "cancelled" \in Terminal
  BY DEF Statuses, Terminal
<1> DEFINE x == Left(r, "cancelled")
           y == [Left(r, "cancelled") EXCEPT !.reserved = 0]
<1>2. /\ x \in Row /\ x.status = "cancelled" /\ x.worker = NoWorker
      /\ x.stale = FALSE /\ x.attempts = run[r].attempts
      /\ y \in Row /\ y.status = "cancelled" /\ y.worker = NoWorker
      /\ y.stale = FALSE /\ y.attempts = run[r].attempts
  BY <1>1, LeftRow
<1> HIDE DEF x, y
<1>3. run'[r] = x \/ run'[r] = y
  BY DEF x, y
<1> QED
  BY <1>1, <1>2, <1>3 DEF Stopped

LEMMA EnqueueRows ==
  ASSUME TypeInv, NEW r \in Roots, Enqueue(r)
  PROVE  /\ run' \in [Runs -> Row]
         /\ run'[r].status \in {"queued", "cancelled"} /\ run'[r].worker = NoWorker
         /\ run'[r].stale = FALSE /\ run'[r].attempts = 0
         /\ \A s \in Runs \ {r} : SameRow(s) \/ Stopped(s)
<1> DEFINE q == Request[r]
           active == Active(q.admission)
           superseded == IF q.overlap = "cancel-previous"
                         THEN UNION {Tree(s) : s \in active} ELSE {}
           late == {s \in superseded : run[s].status \notin Live /\ Overtakable(s)}
           skipped == q.overlap = "skip" /\ Cardinality(active) >= q.concurrent
           x == [NoRow EXCEPT !.status = IF skipped THEN "cancelled" ELSE "queued"]
<1>1. run \in [Runs -> Row] /\ r \in Runs
  BY DEF TypeInv, CoreOK, Runs
<1>2. run' = [s \in Runs |->
                IF s = r THEN x
                ELSE IF s \notin superseded \ late THEN run[s]
                ELSE [IF run[s].status \in Live THEN Left(s, "cancelled")
                      ELSE run[s] EXCEPT !.reserved = 0]]
  BY DEF Enqueue
<1>3. NoRow \in Row
  BY Limits DEF NoRow, Row
<1>4. /\ x \in Row /\ x.status \in {"queued", "cancelled"} /\ x.worker = NoWorker
      /\ x.stale = FALSE /\ x.attempts = 0
  BY Limits DEF NoRow, Row, Live, Terminal
<1> HIDE DEF x, superseded, late
<1>5. ASSUME NEW s \in Runs \ {r}
      PROVE  run'[s] \in Row /\ (SameRow(s) \/ Stopped(s))
  <2>1. run[s] \in Row
    BY <1>1
  <2>2. CASE s \notin superseded \ late
    BY <1>2, <2>1, <2>2 DEF SameRow
  <2>3. CASE s \in superseded \ late /\ run[s].status \in Live
    BY <1>1, <1>2, <2>3, CancelledRow
  <2>4. CASE s \in superseded \ late /\ run[s].status \notin Live
    <3>1. run'[s] = [run[s] EXCEPT !.reserved = 0]
      BY <1>2, <2>4
    <3> QED
      BY <2>1, <3>1 DEF SameRow, Row
  <2> QED
    BY <2>2, <2>3, <2>4
<1>6. run' \in [Runs -> Row]
  <2>1. \A s \in Runs : run'[s] \in Row
    BY <1>1, <1>2, <1>4, <1>5
  <2> QED
    BY <1>2, <2>1
<1> QED
  BY <1>1, <1>2, <1>4, <1>5, <1>6

LEMMA EnqueueTypes ==
  ASSUME TypeInv, NEW r \in Roots, Enqueue(r)
  PROVE  TypeInv'
<1>1. run' \in [Runs -> Row]
  BY EnqueueRows
<1>2. UNCHANGED <<progress, execs, control>> /\ open' \subseteq open
  BY DEF Enqueue
<1>3. \A s \in Roots : run'[s].attempts = run[s].attempts \/ run'[s].attempts = 0
  BY EnqueueRows DEF SameRow, Stopped, Runs
<1>4. ClaimsLeft'
  BY <1>2, <1>3, Limits DEF TypeInv, CoreOK, ClaimsLeft, control
<1>5. CoreOK' /\ ExecsShaped'
  BY <1>1, <1>2 DEF TypeInv, CoreOK, ExecsShaped, progress, control
<1> QED
  BY <1>4, <1>5 DEF TypeInv

\* What a claim does to the table.
LEMMA ClaimedRows ==
  ASSUME TypeInv, NEW w \in Workers, choosing[w] # NoRun, Claimed(w, choosing[w])
  PROVE  /\ choosing[w] \in Roots /\ run' \in [Runs -> Row]
         /\ run'[choosing[w]].status = "running" /\ run'[choosing[w]].worker = w
         /\ run'[choosing[w]].stale = FALSE
         /\ run'[choosing[w]].attempts = run[choosing[w]].attempts + 1
         /\ run'[choosing[w]].attempts \in Claims
         /\ \A s \in Runs \ {choosing[w]} : run'[s] = run[s]
<1> DEFINE r == choosing[w]
           x == [run[r] EXCEPT !.status = "running", !.worker = w, !.stale = FALSE,
                               !.attempts = run[r].attempts + 1]
<1>1. r \in Roots /\ r \in Runs /\ run \in [Runs -> Row] /\ run[r] \in Row
  BY DEF TypeInv, CoreOK, Runs
<1>2. run[r].attempts \in 0..MaxClaims /\ run[r].attempts < MaxClaims
  BY <1>1 DEF Row, TypeInv, ClaimsLeft
<1>3. run[r].attempts + 1 \in Claims /\ run[r].attempts + 1 \in 0..MaxClaims
  BY <1>2, Limits DEF Claims
<1>4. run' = [run EXCEPT ![r] = x]
  BY DEF Claimed
<1> HIDE DEF r
<1>5. /\ x \in Row /\ x.status = "running" /\ x.worker = w /\ x.stale = FALSE
      /\ x.attempts = run[r].attempts + 1
  BY <1>1, <1>3 DEF Row, Live
<1> HIDE DEF x
<1> QED
  BY <1>1, <1>3, <1>4, <1>5 DEF r

LEMMA AdmitTypes ==
  ASSUME TypeInv, NEW w \in Workers, Admit(w)
  PROVE  TypeInv'
<1>1. /\ choosing[w] # NoRun /\ choosing' = [choosing EXCEPT ![w] = NoRun]
      /\ UNCHANGED <<books, progress, recovery, cancels, alive, seized>>
      /\ Claimed(w, choosing[w]) \/ UNCHANGED <<run, execs>>
  BY DEF Admit
<1>2. choosing' \in [Workers -> Roots \cup {NoRun}]
  BY <1>1 DEF TypeInv, CoreOK
<1>3. CASE UNCHANGED <<run, execs>>
  <2>1. ClaimsLeft'
    BY <1>1, <1>3 DEF TypeInv, CoreOK, ClaimsLeft
  <2>2. CoreOK' /\ ExecsShaped'
    BY <1>1, <1>2, <1>3 DEF TypeInv, CoreOK, ExecsShaped, books, progress
  <2> QED
    BY <2>1, <2>2 DEF TypeInv
<1>4. CASE Claimed(w, choosing[w])
  <2> DEFINE r == choosing[w]
             x == [run |-> r, claim |-> run[r].attempts + 1, worker |-> w,
                   phase |-> "loading", at |-> [u \in Work |-> "none"]]
  <2>1. /\ r \in Roots /\ r \in Runs /\ run' \in [Runs -> Row]
        /\ run[r].attempts + 1 \in Claims
        /\ \A s \in Runs \ {r} : run'[s] = run[s]
    BY <1>1, <1>4, ClaimedRows DEF Runs
  <2>2. x \in Exec /\ ExecShape(x)
    BY <2>1, NewExec
  <2>3. execs' = execs \cup {x}
    BY <1>4 DEF Claimed
  <2> HIDE DEF x
  <2>4. execs' \subseteq Exec /\ ExecsShaped'
    BY <2>2, <2>3 DEF TypeInv, CoreOK, ExecsShaped
  <2>5. ClaimsLeft'
    <3>1. \A v \in Workers : choosing'[v] # NoRun =>
             choosing'[v] = choosing[v] /\ choosing[v] # r /\ choosing[v] \in Runs
      BY <1>1 DEF TypeInv, CoreOK, ClaimsLeft, Runs
    <3> QED
      BY <2>1, <3>1 DEF TypeInv, ClaimsLeft
  <2>6. CoreOK'
    BY <1>1, <1>2, <2>1, <2>4 DEF TypeInv, CoreOK, books, progress
  <2> QED
    BY <2>4, <2>5, <2>6 DEF TypeInv
<1> QED
  BY <1>1, <1>3, <1>4

LEMMA ChooseTypes ==
  ASSUME TypeInv, NEW w \in Workers, NEW r \in Roots, Choose(w, r)
  PROVE  TypeInv'
<1>1. /\ choosing' = [choosing EXCEPT ![w] = r] /\ run[r].attempts < MaxClaims
      /\ \A v \in Workers : choosing[v] # r
      /\ UNCHANGED <<ledger, progress, execs, recovery, cancels, alive, seized>>
  BY DEF Choose
<1>2. ClaimsLeft'
  BY <1>1 DEF TypeInv, CoreOK, ClaimsLeft, ledger, books
<1>3. CoreOK' /\ ExecsShaped'
  BY <1>1 DEF TypeInv, CoreOK, ExecsShaped, ledger, books, progress
<1> QED
  BY <1>2, <1>3 DEF TypeInv

\* Cancellation.
LEMMA CancelRows ==
  ASSUME TypeInv, \/ \E r \in Roots : Cancel(r)
                  \/ \E c \in cancels : CancelChildren(c)
  PROVE  run' \in [Runs -> Row] /\ \A s \in Runs : SameRow(s) \/ Stopped(s)
<1>0. run \in [Runs -> Row]
  BY DEF TypeInv, CoreOK
<1>1. ASSUME NEW r \in Roots, Cancel(r)
      PROVE  run' \in [Runs -> Row] /\ \A s \in Runs : SameRow(s) \/ Stopped(s)
  <2>1. r \in Runs /\ run[r].status \in Live /\ run' = [run EXCEPT ![r] = Left(r, "cancelled")]
    BY <1>1 DEF Cancel, Runs
  <2>2. run'[r] = Left(r, "cancelled") /\ \A s \in Runs \ {r} : run'[s] = run[s]
    BY <1>0, <2>1
  <2>3. run'[r] \in Row /\ Stopped(r)
    BY <1>0, <2>1, <2>2, CancelledRow
  <2>4. run' \in [Runs -> Row]
    BY <1>0, <2>1, <2>2, <2>3
  <2> QED
    BY <2>2, <2>3, <2>4 DEF SameRow
<1>2. ASSUME NEW c \in cancels, CancelChildren(c)
      PROVE  run' \in [Runs -> Row] /\ \A s \in Runs : SameRow(s) \/ Stopped(s)
  <2> DEFINE children == Tree(c.root) \ {c.root}
  <2>1. run' = [r \in Runs |-> IF r \in children /\ run[r].status \in Live
                               THEN Left(r, "cancelled") ELSE run[r]]
    BY <1>2 DEF CancelChildren
  <2> HIDE DEF children
  <2>2. ASSUME NEW s \in Runs
        PROVE  run'[s] \in Row /\ (SameRow(s) \/ Stopped(s))
    <3>1. CASE s \in children /\ run[s].status \in Live
      BY <1>0, <2>1, <3>1, CancelledRow
    <3>2. CASE ~ (s \in children /\ run[s].status \in Live)
      <4>1. run'[s] = run[s] /\ run[s] \in Row
        BY <1>0, <2>1, <3>2
      <4> QED
        BY <4>1 DEF SameRow
    <3> QED
      BY <3>1, <3>2
  <2>3. run' \in [Runs -> Row]
    BY <2>1, <2>2
  <2> QED
    BY <2>2, <2>3
<1> QED
  BY <1>1, <1>2

CancelStep ==
  \/ \E r \in Roots : Cancel(r)
  \/ \E c \in cancels :
       CancelChildren(c) \/ CancelSelect(c) \/ CancelRelease(c) \/ CancelDies(c)
  \/ \E r \in Runs : FinishRelease(r)

\* What any step of a cancellation, or the end of a release, does to the table.
LEMMA CancelStepRows ==
  ASSUME TypeInv, CancelStep
  PROVE  /\ run' \in [Runs -> Row] /\ open' \subseteq Reservation
         /\ \A s \in Runs : SameRow(s) \/ Stopped(s)
         /\ UNCHANGED <<progress, execs, choosing, recovery, alive>>
<1>1. run \in [Runs -> Row] /\ open \subseteq Reservation
  BY DEF TypeInv, CoreOK
<1>2. UNCHANGED <<progress, execs, choosing, recovery, alive>>
  BY DEF CancelStep, Cancel, CancelChildren, CancelSelect, CancelRelease, CancelDies,
     FinishRelease, control
<1>3. CASE \/ \E r \in Roots : Cancel(r)
           \/ \E c \in cancels : CancelChildren(c)
  <2>1. open' = open
    BY <1>3 DEF Cancel, CancelChildren, books
  <2> QED
    BY <1>1, <1>2, <1>3, <2>1, CancelRows
<1>4. CASE \E c \in cancels : CancelSelect(c) \/ CancelDies(c)
  <2>1. run' = run /\ open' = open
    BY <1>4 DEF CancelSelect, CancelDies, ledger, books
  <2> QED
    BY <1>1, <1>2, <2>1 DEF SameRow
<1>5. CASE (\E c \in cancels : CancelRelease(c)) \/ \E r \in Runs : FinishRelease(r)
  <2>1. PICK r \in Runs : ReleaseOpen(r) \/ FinishRelease(r)
    BY <1>5 DEF CancelRelease, TypeInv, CoreOK
  <2> QED
    BY <1>1, <1>2, <2>1, ReleaseOpenRows DEF SameRows
<1> QED
  BY <1>3, <1>4, <1>5 DEF CancelStep

LEMMA CancelTypes ==
  ASSUME TypeInv, CancelStep
  PROVE  TypeInv'
<1> DEFINE C == [root : Roots, stage : {"children", "select", "release"},
                 todo : SUBSET Runs]
<1>1. /\ run' \in [Runs -> Row] /\ open' \subseteq Reservation
      /\ UNCHANGED <<progress, execs, choosing, recovery, alive>>
      /\ \A s \in Roots : run'[s].attempts = run[s].attempts
  BY CancelStepRows DEF SameRow, Stopped, Runs
<1>2. cancels' \subseteq C
  <2>1. cancels \subseteq C
    BY DEF TypeInv, CoreOK
  <2>2. CASE \E r \in Roots : Cancel(r)
    BY <2>1, <2>2 DEF Cancel
  <2>3. ASSUME NEW c \in cancels,
               CancelChildren(c) \/ CancelSelect(c) \/ CancelRelease(c) \/ CancelDies(c)
        PROVE  cancels' \subseteq C
    <3>1. c \in C
      BY <2>1
    <3>2. \A t \in SUBSET Runs, stage \in {"children", "select", "release"} :
            /\ [c EXCEPT !.stage = stage] \in C /\ [c EXCEPT !.todo = t] \in C
            /\ [c EXCEPT !.stage = stage, !.todo = t] \in C
      BY <3>1
    <3>3. CASE CancelChildren(c)
      BY <2>1, <3>2, <3>3 DEF CancelChildren
    <3>4. CASE CancelSelect(c)
      <4> DEFINE t == {r \in Tree(c.root) : ~ Is(r, "absent")}
      <4>1. t \in SUBSET Runs
        BY DEF Tree
      <4>2. cancels' = (cancels \ {c}) \cup {[c EXCEPT !.stage = "release", !.todo = t]}
        BY <3>4 DEF CancelSelect
      <4> HIDE DEF t
      <4> QED
        BY <2>1, <3>2, <4>1, <4>2
    <3>5. CASE CancelRelease(c)
      <4>1. PICK r : cancels' = (cancels \ {c}) \cup
              (IF c.todo = {r} THEN {} ELSE {[c EXCEPT !.todo = @ \ {r}]})
        BY <3>5 DEF CancelRelease
      <4>2. [c EXCEPT !.todo = @ \ {r}] \in C
        BY <3>1
      <4> QED
        BY <2>1, <4>1, <4>2
    <3>6. CASE CancelDies(c)
      BY <2>1, <3>6 DEF CancelDies
    <3> QED
      BY <2>3, <3>3, <3>4, <3>5, <3>6
  <2> QED
    BY <2>1, <2>2, <2>3 DEF CancelStep, FinishRelease, control
<1>3. ClaimsLeft'
  BY <1>1, ClaimsKept DEF TypeInv, CoreOK
<1>4. CoreOK' /\ ExecsShaped'
  BY <1>1, <1>2 DEF TypeInv, CoreOK, ExecsShaped, progress
<1> QED
  BY <1>3, <1>4 DEF TypeInv

\* Recovery of a listed run changes that row only, and only while it is
\* running under the worker the list names.
LEMMA RecoverRows ==
  ASSUME TypeInv, NEW w \in Workers, NEW s \in recovery[w].todo, Recover(w, s)
  PROVE  /\ s \in Stale /\ s.run \in Runs /\ run' \in [Runs -> Row]
         /\ \A r \in Runs \ {s.run} : SameRow(r)
         /\ \/ SameRow(s.run)
            \/ /\ StillStale(s)
               /\ run'[s.run].status = Verdict(s) /\ run'[s.run].worker = NoWorker
               /\ run'[s.run].stale = FALSE
               /\ run'[s.run].attempts = run[s.run].attempts
<1>1. s \in Stale /\ s.run \in Runs /\ run \in [Runs -> Row]
  BY DEF TypeInv, CoreOK, Stale
<1>2. CASE StillStale(s)
  <2> DEFINE x == Left(s.run, Verdict(s))
  <2>1. run' = [run EXCEPT ![s.run] = x]
    BY <1>2 DEF Recover
  <2>2. Verdict(s) \in Statuses
    BY DEF Verdict, Statuses, Live, Terminal
  <2>3. /\ x \in Row /\ x.status = Verdict(s) /\ x.worker = NoWorker
        /\ x.stale = FALSE /\ x.attempts = run[s.run].attempts
    BY <1>1, <2>2, LeftRow
  <2> HIDE DEF x
  <2>4. run' \in [Runs -> Row] /\ run'[s.run] = x
        /\ \A r \in Runs \ {s.run} : run'[r] = run[r]
    BY <1>1, <2>1, <2>3
  <2> QED
    BY <1>1, <1>2, <2>3, <2>4 DEF SameRow
<1>3. CASE ~ StillStale(s)
  <2>1. run' = run
    BY <1>3 DEF Recover
  <2> QED
    BY <1>1, <2>1 DEF SameRow
<1> QED
  BY <1>2, <1>3

RecoverStep(w) ==
  \/ ListStale(w) \/ RecoverRelease(w)
  \/ \E s \in recovery[w].todo : Recover(w, s)

LEMMA RecoverTypes ==
  ASSUME TypeInv, NEW w \in Workers, RecoverStep(w)
  PROVE  TypeInv'
<1> DEFINE R == [todo : SUBSET Stale, release : Runs \cup {NoRun}]
<1>1. /\ recovery \in [Workers -> R] /\ recovery[w] \in R
      /\ run \in [Runs -> Row] /\ open \subseteq Reservation
  BY DEF TypeInv, CoreOK
<1>2. UNCHANGED <<progress, execs, choosing, cancels, alive>>
  BY DEF RecoverStep, ListStale, RecoverRelease, Recover
<1>3. /\ run' \in [Runs -> Row] /\ open' \subseteq Reservation
      /\ \A r \in Roots : run'[r].attempts = run[r].attempts
  <2>1. CASE ListStale(w)
    BY <1>1, <2>1 DEF ListStale, ledger, books
  <2>2. CASE RecoverRelease(w)
    <3>1. ReleaseOpen(recovery[w].release) /\ recovery[w].release \in Runs
      BY <1>1, <2>2 DEF RecoverRelease
    <3> QED
      BY <1>1, <3>1, ReleaseOpenRows DEF SameRows, SameRow, Runs
  <2>3. ASSUME NEW s \in recovery[w].todo, Recover(w, s)
        PROVE  /\ run' \in [Runs -> Row] /\ open' \subseteq Reservation
               /\ \A r \in Roots : run'[r].attempts = run[r].attempts
    <3>1. open' = open
      BY <2>3 DEF Recover, books
    <3>2. run' \in [Runs -> Row] /\ \A r \in Runs : run'[r].attempts = run[r].attempts
      BY <2>3, RecoverRows DEF SameRow
    <3> QED
      BY <1>1, <3>1, <3>2 DEF Runs
  <2> QED
    BY <2>1, <2>2, <2>3 DEF RecoverStep
<1>4. recovery' \in [Workers -> R]
  <2>1. CASE ListStale(w)
    <3> DEFINE stale == {r \in Runs : Running(r) /\ run[r].stale}
               t == {[run |-> r, worker |-> run[r].worker, attempts |-> run[r].attempts]
                       : r \in stale}
    <3>1. \A r \in stale : run[r].worker \in Workers \cup {NoWorker}
                          /\ run[r].attempts \in 0..MaxClaims
      BY <1>1 DEF Row
    <3>2. t \in SUBSET Stale
      BY <3>1 DEF Stale
    <3>3. recovery' = [recovery EXCEPT ![w].todo = t]
      BY <2>1 DEF ListStale
    <3> HIDE DEF t
    <3>4. [recovery[w] EXCEPT !.todo = t] \in R
      BY <1>1, <3>2
    <3> QED
      BY <1>1, <3>3, <3>4
  <2>2. CASE RecoverRelease(w)
    <3>1. recovery' = [recovery EXCEPT ![w].release = NoRun]
      BY <2>2 DEF RecoverRelease
    <3>2. [recovery[w] EXCEPT !.release = NoRun] \in R
      BY <1>1
    <3> QED
      BY <1>1, <3>1, <3>2
  <2>3. ASSUME NEW s \in recovery[w].todo, Recover(w, s)
        PROVE  recovery' \in [Workers -> R]
    <3>1. recovery' = [recovery EXCEPT ![w] =
                         [todo |-> recovery[w].todo \ {s}, release |-> s.run]]
      BY <1>1, <2>3 DEF Recover
    <3>2. [todo |-> recovery[w].todo \ {s}, release |-> s.run] \in R
      BY <1>1, <2>3, RecoverRows
    <3> QED
      BY <1>1, <3>1, <3>2
  <2> QED
    BY <2>1, <2>2, <2>3 DEF RecoverStep
<1>5. ClaimsLeft'
  BY <1>2, <1>3, ClaimsKept DEF TypeInv, CoreOK
<1>6. CoreOK' /\ ExecsShaped'
  BY <1>2, <1>3, <1>4 DEF TypeInv, CoreOK, ExecsShaped, progress
<1> QED
  BY <1>5, <1>6 DEF TypeInv

LEMMA CrashTypes ==
  ASSUME TypeInv, NEW w \in Workers, Crash(w)
  PROVE  TypeInv'
<1>1. /\ alive' \subseteq alive /\ execs' \subseteq execs
      /\ choosing' = [choosing EXCEPT ![w] = NoRun]
      /\ recovery' = [recovery EXCEPT ![w] = Resting]
      /\ UNCHANGED <<ledger, progress, cancels>>
  BY DEF Crash
<1>2. ClaimsLeft'
  BY <1>1 DEF TypeInv, CoreOK, ClaimsLeft, ledger, books
<1>3. Resting \in [todo : SUBSET Stale, release : Runs \cup {NoRun}]
  BY DEF Resting
<1>4. CoreOK' /\ ExecsShaped'
  BY <1>1, <1>3 DEF TypeInv, CoreOK, ExecsShaped, ledger, books, progress
<1> QED
  BY <1>2, <1>4 DEF TypeInv

-----------------------------------------------------------------------------
(* The steps of the specification, as the proofs take them apart.          *)

StaleStep ==
  /\ UNCHANGED <<books, progress, execs, control>>
  /\ \E r \in Runs, b \in BOOLEAN :
       /\ run' = [run EXCEPT ![r].stale = b]
       /\ b => Running(r)

LEMMA Steps ==
  ASSUME TypeInv, [Next]_vars
  PROVE  \/ UNCHANGED vars
         \/ \E r \in Roots : Enqueue(r)
         \/ CancelStep
         \/ StaleStep
         \/ \E e \in execs : Step(e)
         \/ \E w \in Workers : \/ \E r \in Roots : Choose(w, r)
                             \/ Admit(w) \/ Crash(w) \/ RecoverStep(w)
<1>1. ASSUME NEW r \in Runs, Lapse(r) PROVE StaleStep
  BY <1>1 DEF StaleStep, Lapse
<1>2. ASSUME NEW e \in execs, Heartbeat(e) PROVE StaleStep
  <2>1. e.run \in Runs
    BY DEF TypeInv, CoreOK, Exec
  <2> QED
    BY <1>2, <2>1 DEF StaleStep, Heartbeat
<1> QED
  BY <1>1, <1>2 DEF Next, CancelStep, RecoverStep

LEMMA TypesStep == TypeInv /\ [Next]_vars => TypeInv'
<1> SUFFICES ASSUME TypeInv, [Next]_vars PROVE TypeInv'
  OBVIOUS
<1>1. CASE UNCHANGED vars
  BY <1>1 DEF vars, TypeInv, CoreOK, ClaimsLeft, ExecsShaped
<1>2. CASE \E r \in Roots : Enqueue(r)
  BY <1>2, EnqueueTypes
<1>3. CASE CancelStep
  BY <1>3, CancelTypes
<1>4. CASE StaleStep
  BY <1>4, StaleTypes DEF StaleStep
<1>5. CASE \E e \in execs : Step(e)
  BY <1>5, StepTypes
<1>6. CASE \E w \in Workers : \E r \in Roots : Choose(w, r)
  BY <1>6, ChooseTypes
<1>7. CASE \E w \in Workers : Admit(w)
  BY <1>7, AdmitTypes
<1>8. CASE \E w \in Workers : Crash(w)
  BY <1>8, CrashTypes
<1>9. CASE \E w \in Workers : RecoverStep(w)
  BY <1>9, RecoverTypes
<1> QED
  BY <1>1, <1>2, <1>3, <1>4, <1>5, <1>6, <1>7, <1>8, <1>9, Steps

LEMMA TypesInit == Init => TypeInv
<1> SUFFICES ASSUME Init PROVE TypeInv
  OBVIOUS
<1>1. NoRow \in Row
  BY Limits DEF NoRow, Row
<1>2. Resting \in [todo : SUBSET Stale, release : Runs \cup {NoRun}]
  BY DEF Resting
<1>3. CoreOK
  BY <1>1, <1>2 DEF Init, CoreOK
<1> QED
  BY <1>3 DEF Init, TypeInv, ClaimsLeft, ExecsShaped

\* What is noted of releases and recoveries is about children and roots.
LEMMA NotesStep == NotesOK /\ [Next]_vars => NotesOK'
<1> SUFFICES ASSUME NotesOK, [Next]_vars PROVE NotesOK'
  OBVIOUS
<1>1. ASSUME NEW q, ReleaseOpen(q)
      PROVE  midway' \subseteq Children /\ overtaken' \subseteq Children
  BY <1>1 DEF ReleaseOpen, Overtakable, NotesOK
<1>2. ASSUME NEW q \in Roots, Enqueue(q) PROVE NotesOK'
  <2>1. PICK late : late \subseteq Children /\ midway' = midway \cup late
    BY <1>2 DEF Enqueue, Overtakable
  <2> QED
    BY <1>2, <2>1 DEF Enqueue, NotesOK, control
<1>3. CASE CancelStep
  <2>1. midway' \subseteq Children /\ overtaken' \subseteq Children
    BY <1>1, <1>3 DEF CancelStep, Cancel, CancelChildren, CancelSelect, CancelRelease,
       CancelDies, FinishRelease, ledger, books, NotesOK
  <2>2. seized' = seized
    BY <1>3 DEF CancelStep, Cancel, CancelChildren, CancelSelect, CancelRelease, CancelDies,
       FinishRelease, control
  <2> QED
    BY <2>1, <2>2 DEF NotesOK
<1>4. ASSUME NEW e \in execs, Step(e) \/ Heartbeat(e) PROVE NotesOK'
  <2>1. CASE Load(e) \/ Complete(e) \/ Fail(e) \/ Heartbeat(e)
    BY <2>1 DEF Load, Complete, Fail, Heartbeat, ledger, books, control, NotesOK
  <2>2. CASE Close(e)
    BY <1>1, <2>2 DEF Close, control, NotesOK
  <2>3. ASSUME NEW u \in Work, UnitStep(e, u) PROVE NotesOK'
    <3>1. CASE Reserve(e, u)
      BY <3>1 DEF Reserve, ledger, books, control, NotesOK
    <3>2. CASE ~ Reserve(e, u)
      BY <2>3, <3>2 DEF UnitStep, StartCall, Call, SettlePrompt, LosePrompt, Confirm, Save,
         SettleImage, FailCall, Release, Settled, StartItem, InsertChild, CollectChild,
         ledger, books, control, NotesOK
    <3> QED
      BY <3>1, <3>2
  <2> QED
    BY <1>4, <2>1, <2>2, <2>3 DEF Step
<1>5. ASSUME NEW w \in Workers, RecoverStep(w) PROVE NotesOK'
  <2>1. CASE ListStale(w) \/ RecoverRelease(w)
    BY <1>1, <2>1 DEF ListStale, RecoverRelease, ledger, books, NotesOK
  <2>2. ASSUME NEW s \in recovery[w].todo, Recover(w, s) PROVE NotesOK'
    BY <2>2 DEF Recover, Verdict, books, NotesOK
  <2> QED
    BY <1>5, <2>1, <2>2 DEF RecoverStep
<1>6. CASE \/ UNCHANGED vars \/ \E r \in Runs : Lapse(r)
           \/ \E w \in Workers : (\E r \in Roots : Choose(w, r)) \/ Admit(w) \/ Crash(w)
  BY <1>6 DEF vars, Lapse, Choose, Admit, Crash, ledger, books, control, NotesOK
<1> QED
  BY <1>2, <1>3, <1>4, <1>5, <1>6 DEF Next, CancelStep, RecoverStep

\* The tables, the executions and what the workers know of runs stay well
\* formed; in particular reservations released by a cancellation or a recovery
\* never drive reserved_credits below zero.
THEOREM TypesCorrect == Safe => []TypeOK
<1>1. TypeInv /\ NotesOK => TypeOK
  BY DEF TypeInv, CoreOK, NotesOK, TypeOK
<1>2. Init => NotesOK
  BY DEF Init, NotesOK
<1> QED
  BY <1>1, <1>2, TypesInit, TypesStep, NotesStep, PTL DEF Safe

-----------------------------------------------------------------------------
(* What a step may do to the status of a run.                              *)

\* Gone: the row has left its worker.
Gone(r) == run'[r].worker = NoWorker /\ run'[r].stale = FALSE
Kept(r) ==
  /\ run'[r].status = run[r].status /\ run'[r].worker = run[r].worker
  /\ run'[r].attempts = run[r].attempts
Ends(r) ==
  /\ run[r].status \in Live /\ run'[r].status \in Terminal
  /\ run'[r].attempts = run[r].attempts /\ Gone(r)
Requeued(r) ==
  /\ r \in Roots /\ Running(r) /\ run'[r].status = "queued"
  /\ run'[r].attempts = run[r].attempts /\ Gone(r)
  /\ run[r].worker \in alive => r \in seized'
  /\ \E w \in Workers : \E s \in recovery[w].todo :
       /\ s.run = r /\ s.worker = run[r].worker /\ s.attempts < MaxAttempts
Accepted(r) ==
  /\ r \in Roots /\ Enqueue(r) /\ run'[r].status \in {"queued", "cancelled"}
  /\ run'[r].attempts = 0 /\ Gone(r)
Taken(r) ==
  /\ r \in Roots /\ Is(r, "queued") /\ run'[r].status = "running"
  /\ run'[r].attempts = run[r].attempts + 1 /\ run'[r].stale = FALSE
  /\ \E w \in Workers : /\ choosing[w] = r /\ run'[r].worker = w
                        /\ Claimed(w, r) /\ HasRoom(r)
Created(r) ==
  /\ r \in Children /\ run'[r].status = "running" /\ run'[r].stale = FALSE
  /\ \E e \in execs, i \in Items :
       /\ InsertChild(e, i) /\ e.run \in Roots /\ run'[r].worker = e.worker
       /\ r = <<e.run, i, e.claim>>

RowStep(r) ==
  Kept(r) \/ Ends(r) \/ Requeued(r) \/ Accepted(r) \/ Taken(r) \/ Created(r)

LEMMA StoppedEnds ==
  ASSUME NEW r \in Runs, SameRow(r) \/ Stopped(r)
  PROVE  RowStep(r)
BY DEF SameRow, Stopped, Kept, Ends, Gone, RowStep

LEMMA ExecutionRowSteps ==
  ASSUME TypeInv, NEW e \in execs, Step(e), NEW r \in Runs
  PROVE  RowStep(r)
<1>1. /\ e \in Exec /\ e.run \in Runs
      /\ run \in [Runs -> Row] /\ open \subseteq Reservation
  BY DEF TypeInv, CoreOK, Exec
<1>2. CASE Load(e)
  BY <1>2 DEF Load, ledger, books, RowStep, Kept
<1>3. CASE Complete(e) \/ Fail(e)
  <2>1. CASE SameRows
    BY <2>1, StoppedEnds DEF SameRows
  <2>2. CASE ~ SameRows
    <3>1. /\ Running(e.run) /\ run'[e.run].status \in Terminal
          /\ run'[e.run].attempts = run[e.run].attempts /\ Gone(e.run)
          /\ \A s \in Runs \ {e.run} : run'[s] = run[s]
      BY <1>3, <2>2, EndRows DEF Owns, Gone
    <3>2. CASE r = e.run
      BY <3>1, <3>2 DEF RowStep, Ends, Running, Is, Live
    <3>3. CASE r # e.run
      BY <3>1, <3>3 DEF RowStep, Kept
    <3> QED
      BY <3>2, <3>3
  <2> QED
    BY <2>1, <2>2
<1>4. CASE Close(e)
  <2>1. SameRows
    BY <1>1, <1>4, ReleaseOpenRows DEF Close
  <2> QED
    BY <2>1, StoppedEnds DEF SameRows
<1>5. ASSUME NEW u \in Work, UnitStep(e, u) PROVE RowStep(r)
  <2>1. CASE CallStep(e, u)
    <3>1. SameRows
      BY <2>1, CallRows
    <3> QED
      BY <3>1, StoppedEnds DEF SameRows
  <2>2. CASE StartItem(e, u) \/ CollectChild(e, u)
    BY <2>2 DEF StartItem, CollectChild, ledger, books, RowStep, Kept
  <2>3. CASE InsertChild(e, u)
    <3> DEFINE c == <<e.run, u, e.claim>>
    <3>1. /\ u \in Items /\ e.run \in Roots /\ c \in Children
          /\ run' = [run EXCEPT ![c] = ChildRow(e.worker)]
          /\ ChildRow(e.worker).status = "running"
          /\ ChildRow(e.worker).worker = e.worker
          /\ ChildRow(e.worker).stale = FALSE
      BY <2>3, InsertedChild
    <3>2. CASE r = c
      <4>1. /\ run'[r].status = "running" /\ run'[r].worker = e.worker
            /\ run'[r].stale = FALSE
        BY <1>1, <3>1, <3>2
      <4>2. Created(r)
        BY <2>3, <3>1, <3>2, <4>1 DEF Created
      <4> QED
        BY <4>2 DEF RowStep
    <3>3. CASE r # c
      <4>1. run'[r] = run[r]
        BY <1>1, <3>1, <3>3
      <4> QED
        BY <4>1 DEF RowStep, Kept
    <3> QED
      BY <3>2, <3>3
  <2> QED
    BY <1>5, <2>1, <2>2, <2>3 DEF UnitStep, CallStep
<1> QED
  BY <1>2, <1>3, <1>4, <1>5 DEF Step

LEMMA RecoveryRowSteps ==
  ASSUME TypeInv, NEW w \in Workers, RecoverStep(w), NEW r \in Runs
  PROVE  RowStep(r)
<1>1. run \in [Runs -> Row] /\ open \subseteq Reservation
  BY DEF TypeInv, CoreOK
<1>2. CASE ListStale(w)
  BY <1>2 DEF ListStale, ledger, books, RowStep, Kept
<1>3. CASE RecoverRelease(w)
  <2>1. ReleaseOpen(recovery[w].release) /\ recovery[w].release \in Runs
    BY <1>3 DEF RecoverRelease, TypeInv, CoreOK
  <2>2. SameRows
    BY <1>1, <2>1, ReleaseOpenRows
  <2> QED
    BY <2>2, StoppedEnds DEF SameRows
<1>4. ASSUME NEW s \in recovery[w].todo, Recover(w, s) PROVE RowStep(r)
  <2>1. CASE SameRow(r)
    BY <2>1, StoppedEnds
  <2>2. CASE ~ SameRow(r)
    <3>1. /\ r = s.run /\ StillStale(s) /\ run'[r].status = Verdict(s)
          /\ run'[r].attempts = run[r].attempts /\ Gone(r)
      BY <1>4, <2>2, RecoverRows DEF Gone
    <3>2. Running(r) /\ run[r].status \in Live /\ s.worker = run[r].worker
      BY <3>1 DEF StillStale, Running, Is, Live
    <3>3. \/ Verdict(s) = "failed"
          \/ Verdict(s) = "queued" /\ r \in Roots /\ s.attempts < MaxAttempts
      BY <3>1 DEF Verdict
    <3>4. Verdict(s) = "queued" /\ run[r].worker \in alive => r \in seized'
      BY <1>4, <3>1, <3>2 DEF Recover
    <3> QED
      BY <3>1, <3>2, <3>3, <3>4 DEF RowStep, Ends, Requeued, Terminal
  <2> QED
    BY <2>1, <2>2
<1> QED
  BY <1>2, <1>3, <1>4 DEF RecoverStep

LEMMA RowSteps ==
  ASSUME TypeInv, [Next]_vars, NEW r \in Runs
  PROVE  RowStep(r)
<1>1. CASE UNCHANGED vars
  BY <1>1 DEF vars, RowStep, Kept
<1>2. ASSUME NEW s \in Roots, Enqueue(s) PROVE RowStep(r)
  <2>1. CASE r = s
    <3>1. Accepted(r)
      BY <1>2, <2>1, EnqueueRows DEF Accepted, Gone
    <3> QED
      BY <3>1 DEF RowStep
  <2>2. CASE r # s
    BY <1>2, <2>2, EnqueueRows, StoppedEnds
  <2> QED
    BY <2>1, <2>2
<1>3. CASE CancelStep
  BY <1>3, CancelStepRows, StoppedEnds
<1>4. CASE StaleStep
  BY <1>4, StaleRows DEF StaleStep, RowStep, Kept
<1>5. CASE \E e \in execs : Step(e)
  BY <1>5, ExecutionRowSteps
<1>6. CASE \E w \in Workers : \/ \E s \in Roots : Choose(w, s)
                              \/ Crash(w)
  BY <1>6 DEF Choose, Crash, ledger, books, RowStep, Kept
<1>7. ASSUME NEW w \in Workers, Admit(w) PROVE RowStep(r)
  <2>1. CASE UNCHANGED <<run, execs>>
    BY <2>1 DEF RowStep, Kept
  <2>2. CASE ~ UNCHANGED <<run, execs>>
    <3>1. /\ choosing[w] # NoRun /\ Claimed(w, choosing[w])
          /\ Is(choosing[w], "queued") /\ HasRoom(choosing[w])
      BY <1>7, <2>2 DEF Admit
    <3>2. CASE r = choosing[w]
      BY <3>1, <3>2, ClaimedRows DEF RowStep, Taken
    <3>3. CASE r # choosing[w]
      <4>1. \A s \in Runs \ {choosing[w]} : run'[s] = run[s]
        BY <3>1, ClaimedRows
      <4>2. run'[r] = run[r]
        BY <3>3, <4>1
      <4> QED
        BY <4>2 DEF RowStep, Kept
    <3> QED
      BY <3>2, <3>3
  <2> QED
    BY <2>1, <2>2
<1>8. CASE \E w \in Workers : RecoverStep(w)
  BY <1>8, RecoveryRowSteps
<1> QED
  BY <1>1, <1>2, <1>3, <1>4, <1>5, <1>6, <1>7, <1>8, Steps

\* Children are never queued: whatever a recovery lists, a child it finds stale
\* fails, and only roots are accepted and requeued.
THEOREM ChildrenNeverQueued == Safe => []ChildrenStayWithParent
<1>1. Init => ChildrenStayWithParent
  BY DEF Init, ChildrenStayWithParent, Is, NoRow, Runs
<1>2. TypeInv /\ ChildrenStayWithParent /\ [Next]_vars => ChildrenStayWithParent'
  <2> SUFFICES ASSUME TypeInv, ChildrenStayWithParent, [Next]_vars,
                      NEW c \in Children
               PROVE  ~ Is(c, "queued")'
    BY DEF ChildrenStayWithParent
  <2>1. c \in Runs /\ c \notin Roots /\ ~ Is(c, "queued")
    BY RunNames DEF ChildrenStayWithParent, Runs
  <2>2. RowStep(c)
    BY <2>1, RowSteps
  <2> QED
    BY <2>1, <2>2 DEF RowStep, Kept, Ends, Requeued, Accepted, Taken, Created,
       Is, Terminal
<1> QED
  BY <1>1, <1>2, TypesInit, TypesStep, PTL DEF Safe

-----------------------------------------------------------------------------
(* What a step may do to the executions.                                   *)

Unstarted == {"none", "idle", "creating"}

\* x is e after a step of its own, other than the creation of a child.
Continued(e, x) ==
  /\ x.run = e.run /\ x.claim = e.claim /\ x.worker = e.worker
  /\ x.phase # "loading"
  /\ \A i \in Items : x.at[i] \in Unstarted => e.at[i] \in Unstarted

Continues(e) == \E x : Continued(e, x) /\ execs' = (execs \ {e}) \cup {x}

LEMMA MovedContinues ==
  ASSUME TypeInv, Unloaded, NEW e \in execs, NEW u \in Work, e.at[u] # "none",
         NEW place, Fitting(e, u, place), Moved(e, u, place),
         u \in Items /\ place \in Unstarted => e.at[u] \in Unstarted
  PROVE  Continues(e)
<1> DEFINE x == [e EXCEPT !.at[u] = place]
<1>1. e \in Exec /\ ExecShape(e)
  BY DEF TypeInv, CoreOK, ExecsShaped
<1>2. /\ x.run = e.run /\ x.claim = e.claim /\ x.worker = e.worker
      /\ x.phase = e.phase /\ x.at[u] = place
      /\ \A v \in Work \ {u} : x.at[v] = e.at[v]
  <2>1. e.at \in [Work -> Place] /\ x = [e EXCEPT !.at = [e.at EXCEPT ![u] = place]]
    BY <1>1 DEF Exec
  <2>2. /\ x.run = e.run /\ x.claim = e.claim /\ x.worker = e.worker
        /\ x.phase = e.phase /\ x.at = [e.at EXCEPT ![u] = place]
    BY <1>1, <2>1 DEF Exec
  <2> HIDE DEF x
  <2> QED
    BY <2>1, <2>2
<1>3. x.phase # "loading"
  BY <1>2 DEF Unloaded
<1>4. execs' = (execs \ {e}) \cup {x}
  BY DEF Moved
<1> HIDE DEF x
<1>5. Continued(e, x)
  BY <1>2, <1>3, WorkNames DEF Continued
<1> QED
  BY <1>4, <1>5 DEF Continues

LEMMA TurnedContinues ==
  ASSUME TypeInv, NEW e \in execs, NEW phase \in {"failing", "closing"},
         Turned(e, phase)
  PROVE  Continues(e)
<1> DEFINE x == [e EXCEPT !.phase = phase]
<1>1. e \in Exec
  BY DEF TypeInv, CoreOK
<1>2. /\ x.run = e.run /\ x.claim = e.claim /\ x.worker = e.worker
      /\ x.phase = phase /\ x.at = e.at
  BY <1>1 DEF Exec
<1>3. execs' = (execs \ {e}) \cup {x}
  BY DEF Turned
<1> HIDE DEF x
<1> QED
  BY <1>2, <1>3 DEF Continues, Continued

\* A step of an execution that does not create a child.
LEMMA StepContinues ==
  ASSUME TypeInv, Unloaded, NEW e \in execs, Step(e)
  PROVE  \/ execs' \subseteq execs
         \/ Continues(e)
         \/ \E i \in Items : e.run \in Roots /\ InsertChild(e, i)
<1>1. e \in Exec /\ ExecShape(e)
  BY DEF TypeInv, CoreOK, ExecsShaped
<1>2. CASE Load(e)
  <2> DEFINE f == Loaded(e)
             x == [e EXCEPT !.phase = "active", !.at = f]
  <2>1. /\ x.run = e.run /\ x.claim = e.claim /\ x.worker = e.worker
        /\ x.phase = "active"
    BY <1>1 DEF Exec
  <2>2. execs' = (execs \ {e}) \cup {x}
    BY <1>2 DEF Load, Loaded
  <2>3. \A i \in Items : e.at[i] \in Unstarted
    BY <1>2, WorkNames DEF Load, Unloaded, Unstarted
  <2> HIDE DEF x
  <2> QED
    BY <2>1, <2>2, <2>3 DEF Continues, Continued
<1>3. CASE Complete(e) \/ Fail(e) \/ Close(e)
  <2>1. CASE Ended(e)
    BY <2>1 DEF Ended
  <2>2. CASE \E phase \in {"failing", "closing"} : Turned(e, phase)
    BY <2>2, TurnedContinues
  <2> QED
    BY <1>3, <2>1, <2>2 DEF Complete, Fail, Close
<1>4. ASSUME NEW u \in Work, CallStep(e, u) PROVE Continues(e)
  <2>1. u \notin Items
    BY <1>1, <1>4, CallUnit
  <2>2. e.at[u] # "none"
    BY <1>4 DEF CallStep, StartCall, MayStart, Reserve, Call, SettlePrompt,
       LosePrompt, Confirm, Save, SettleImage, FailCall, Release
  <2>3. PICK place : Fitting(e, u, place) /\ Moved(e, u, place)
    BY <1>1, <1>4, CallMoves
  <2> QED
    BY <2>1, <2>2, <2>3, MovedContinues
<1>5. ASSUME NEW i \in Work, StartItem(e, i) PROVE Continues(e)
  <2> DEFINE place == IF ~ Owns(e) THEN "failed"
                      ELSE IF Completed(e.run, i) # {} THEN "done" ELSE "creating"
  <2>1. /\ Moved(e, i, place) /\ e.at[i] = "idle" /\ i \in Items
        /\ place \in {"failed", "done", "creating"}
    BY <1>5 DEF StartItem, MayStart
  <2>2. e.run \in Roots
    BY <1>1, <2>1, Places
  <2> HIDE DEF place
  <2>3. Fitting(e, i, place)
    BY <2>1, <2>2 DEF Fitting, Place, ItemPlaces
  <2> QED
    BY <2>1, <2>3, MovedContinues DEF Unstarted
<1>6. ASSUME NEW i \in Work, CollectChild(e, i) PROVE Continues(e)
  <2> DEFINE place == IF Owns(e) /\ Is(<<e.run, i, e.claim>>, "completed")
                      THEN "done" ELSE "failed"
  <2>1. /\ Moved(e, i, place) /\ e.at[i] = "waiting"
        /\ place \in {"failed", "done"}
    BY <1>6 DEF CollectChild
  <2>2. i \in Items /\ e.run \in Roots
    BY <1>1, <2>1, Places
  <2> HIDE DEF place
  <2>3. Fitting(e, i, place)
    BY <2>1, <2>2 DEF Fitting, Place, ItemPlaces
  <2> QED
    BY <2>1, <2>3, MovedContinues DEF Unstarted
<1>7. ASSUME NEW i \in Work, InsertChild(e, i)
      PROVE  i \in Items /\ e.run \in Roots
  BY <1>7, InsertedChild
<1> QED
  BY <1>2, <1>3, <1>4, <1>5, <1>6, <1>7 DEF Step, UnitStep, CallStep

LEMMA ExecSteps ==
  ASSUME TypeInv, Unloaded, [Next]_vars
  PROVE  \/ execs' \subseteq execs
         \/ \E e \in execs : Continues(e)
         \/ \E e \in execs, i \in Items : e.run \in Roots /\ InsertChild(e, i)
         \/ \E w \in Workers : choosing[w] # NoRun /\ Claimed(w, choosing[w])
<1>1. CASE UNCHANGED vars \/ (\E r \in Roots : Enqueue(r)) \/ StaleStep
  BY <1>1 DEF vars, Enqueue, StaleStep
<1>2. CASE CancelStep
  BY <1>2, CancelStepRows
<1>3. CASE \E e \in execs : Step(e)
  BY <1>3, StepContinues
<1>4. CASE \E w \in Workers : \/ \E r \in Roots : Choose(w, r)
                              \/ Crash(w) \/ RecoverStep(w)
  BY <1>4 DEF Choose, Crash, RecoverStep, ListStale, RecoverRelease, Recover
<1>5. CASE \E w \in Workers : Admit(w)
  BY <1>5 DEF Admit
<1> QED
  BY <1>1, <1>2, <1>3, <1>4, <1>5, Steps

-----------------------------------------------------------------------------
(* A child is created once, and a terminal run stays terminal.             *)

LEMMA AttemptsGrow ==
  ASSUME TypeInv, AbsentFresh, [Next]_vars, NEW r \in Roots
  PROVE  /\ run'[r].attempts >= run[r].attempts
         /\ run[r].attempts \in Nat /\ run'[r].attempts \in Nat
         /\ Is(r, "absent")' => Is(r, "absent") /\ run'[r].attempts = run[r].attempts
<1>1. r \in Runs /\ r \notin Children
  BY RunNames DEF Runs
<1>2. run[r].attempts \in Nat /\ run'[r].attempts \in Nat
  <2>1. run[r] \in Row /\ run'[r] \in Row
    BY <1>1, TypesStep DEF TypeInv, CoreOK
  <2> QED
    BY <2>1, Limits DEF Row
<1>3. RowStep(r)
  BY <1>1, RowSteps
<1>4. CASE Accepted(r)
  BY <1>2, <1>4 DEF Accepted, Enqueue, AbsentFresh, Is
<1>5. CASE ~ Accepted(r)
  BY <1>1, <1>2, <1>3, <1>5
  DEF RowStep, Kept, Ends, Requeued, Taken, Created, Is, Terminal
<1> QED
  BY <1>4, <1>5

\* What InsertChild does to the executions.
LEMMA InsertedExecs ==
  ASSUME TypeInv, NEW e \in execs, NEW i \in Items, InsertChild(e, i)
  PROVE  \E x, y :
           /\ execs' = (execs \ {e}) \cup {y, x}
           /\ x.run = <<e.run, i, e.claim>> /\ x.run \in Children
           /\ \A u \in Work : x.at[u] = "none"
           /\ x.worker = e.worker /\ y.worker = e.worker
           /\ y.run = e.run /\ y.claim = e.claim /\ y.phase = e.phase
           /\ y.at[i] = "waiting" /\ \A v \in Work \ {i} : y.at[v] = e.at[v]
<1> DEFINE c == <<e.run, i, e.claim>>
           x == [run |-> c, claim |-> 1, worker |-> e.worker, phase |-> "loading",
                 at |-> [u \in Work |-> "none"]]
           y == [e EXCEPT !.at[i] = "waiting"]
<1>1. e \in Exec /\ i \in Work
  BY WorkNames DEF TypeInv, CoreOK
<1>2. execs' = (execs \ {e}) \cup {y, x}
  BY DEF InsertChild
<1>3. /\ x.run = c /\ c \in Children /\ x.worker = e.worker
      /\ \A u \in Work : x.at[u] = "none"
  BY <1>1, InsertedChild
<1>4. e.at \in [Work -> Place] /\ y = [e EXCEPT !.at = [e.at EXCEPT ![i] = "waiting"]]
  BY <1>1 DEF Exec
<1>5. /\ y.run = e.run /\ y.claim = e.claim /\ y.phase = e.phase
      /\ y.worker = e.worker /\ y.at = [e.at EXCEPT ![i] = "waiting"]
  BY <1>1, <1>4 DEF Exec
<1> HIDE DEF x, y
<1>6. y.at[i] = "waiting" /\ \A v \in Work \ {i} : y.at[v] = e.at[v]
  BY <1>1, <1>4, <1>5
<1>7. /\ execs' = (execs \ {e}) \cup {y, x}
      /\ x.run = <<e.run, i, e.claim>> /\ x.run \in Children
      /\ \A u \in Work : x.at[u] = "none"
      /\ x.worker = e.worker /\ y.worker = e.worker
      /\ y.run = e.run /\ y.claim = e.claim /\ y.phase = e.phase
      /\ y.at[i] = "waiting" /\ \A v \in Work \ {i} : y.at[v] = e.at[v]
  BY <1>2, <1>3, <1>5, <1>6
<1> WITNESS x, y
<1> QED
  BY <1>7

LEMMA FutureStep ==
  ASSUME TypeInv, FreshInv, [Next]_vars
  PROVE  AbsentFresh' /\ FutureChildren'
<1>1. AbsentFresh'
  BY AttemptsGrow DEF FreshInv, AbsentFresh
<1>2. ASSUME NEW c \in Children, c[3] > run'[c[1]].attempts
      PROVE  Is(c, "absent")'
  <2>1. /\ c[1] \in Roots /\ c[3] \in Claims /\ c[3] \in Int
        /\ c \in Runs /\ c \notin Roots
    BY RunNames DEF Runs, Claims
  <2>2. /\ run'[c[1]].attempts >= run[c[1]].attempts
        /\ run[c[1]].attempts \in Nat /\ run'[c[1]].attempts \in Nat
    BY <2>1, AttemptsGrow DEF FreshInv
  <2>3. c[3] > run[c[1]].attempts
    BY <1>2, <2>1, <2>2
  <2>4. Is(c, "absent")
    BY <2>3 DEF FreshInv, FutureChildren
  <2>5. RowStep(c)
    BY <2>1, RowSteps
  <2>6. ~ Created(c)
    <3>1. SUFFICES ASSUME NEW e \in execs, NEW i \in Items, e.run \in Roots,
                          c = <<e.run, i, e.claim>>
                   PROVE  FALSE
      BY DEF Created
    <3>2. c[1] = e.run /\ c[3] = e.claim
      BY <3>1
    <3>3. e.claim <= run[e.run].attempts
      BY <3>1 DEF FreshInv, ClaimUnique
    <3> QED
      BY <2>1, <2>2, <2>3, <3>2, <3>3
  <2> QED
    BY <2>1, <2>4, <2>5, <2>6
    DEF RowStep, Kept, Ends, Requeued, Accepted, Taken, Is, Live
<1> QED
  BY <1>1, <1>2 DEF FutureChildren

LEMMA UniqueStep ==
  ASSUME TypeInv, FreshInv, [Next]_vars
  PROVE  ClaimUnique' /\ Unloaded'
<1>1. \A r \in Roots : /\ run'[r].attempts >= run[r].attempts
                       /\ run[r].attempts \in Nat /\ run'[r].attempts \in Nat
  BY AttemptsGrow DEF FreshInv
<1>2. execs \subseteq Exec /\ \A e \in execs : e.claim \in Nat
  BY DEF TypeInv, CoreOK, Exec, Claims
<1>3. \A e \in execs : e.run \in Roots => e.claim <= run'[e.run].attempts
  BY <1>1, <1>2 DEF FreshInv, ClaimUnique
<1>4. CASE execs' \subseteq execs
  BY <1>3, <1>4 DEF FreshInv, ClaimUnique, Unloaded
<1>5. ASSUME NEW e \in execs, Continues(e) PROVE ClaimUnique' /\ Unloaded'
  <2>1. PICK x : Continued(e, x) /\ execs' = (execs \ {e}) \cup {x}
    BY <1>5 DEF Continues
  <2>2. Unloaded'
    BY <2>1 DEF FreshInv, Unloaded, Continued
  <2>3. ClaimUnique'
    BY <1>3, <2>1 DEF FreshInv, ClaimUnique, Continued
  <2> QED
    BY <2>2, <2>3
<1>6. ASSUME NEW e \in execs, NEW i \in Items, e.run \in Roots, InsertChild(e, i)
      PROVE  ClaimUnique' /\ Unloaded'
  <2>1. PICK x, y :
          /\ execs' = (execs \ {e}) \cup {y, x}
          /\ x.run \in Children /\ \A u \in Work : x.at[u] = "none"
          /\ y.run = e.run /\ y.claim = e.claim /\ y.phase = e.phase
    BY <1>6, InsertedExecs
  <2>2. x.run \notin Roots
    BY <2>1, RunNames
  <2>3. y.phase # "loading"
    BY <1>6, <2>1, WorkNames DEF InsertChild, FreshInv, Unloaded
  <2>4. Unloaded'
    BY <2>1, <2>3 DEF FreshInv, Unloaded
  <2>5. ClaimUnique'
    BY <1>3, <2>1, <2>2 DEF FreshInv, ClaimUnique
  <2> QED
    BY <2>4, <2>5
<1>7. ASSUME NEW w \in Workers, choosing[w] # NoRun, Claimed(w, choosing[w])
      PROVE  ClaimUnique' /\ Unloaded'
  <2> DEFINE r == choosing[w]
             x == [run |-> r, claim |-> run[r].attempts + 1, worker |-> w,
                   phase |-> "loading", at |-> [u \in Work |-> "none"]]
  <2>1. r \in Roots /\ run'[r].attempts = run[r].attempts + 1
    BY <1>7, ClaimedRows
  <2>2. /\ execs' = execs \cup {x} /\ x.run = r /\ x.claim = run[r].attempts + 1
        /\ \A u \in Work : x.at[u] = "none"
    BY <1>7 DEF Claimed
  <2> HIDE DEF x, r
  <2>3. \A e \in execs : e.run = r => e.claim < x.claim
    BY <1>1, <1>2, <2>1, <2>2 DEF FreshInv, ClaimUnique
  <2>4. Unloaded'
    BY <2>2 DEF FreshInv, Unloaded
  <2>5. ASSUME NEW e \in execs', e.run \in Roots
        PROVE  e.claim <= run'[e.run].attempts
    BY <1>1, <1>3, <2>1, <2>2, <2>5
  <2>6. ASSUME NEW d \in execs', NEW e \in execs',
               d.run \in Roots, d.run = e.run, d.claim = e.claim
        PROVE  d = e
    BY <1>1, <1>2, <2>1, <2>2, <2>3, <2>6 DEF FreshInv, ClaimUnique
  <2> QED
    BY <2>4, <2>5, <2>6 DEF ClaimUnique
<1> QED
  BY <1>4, <1>5, <1>6, <1>7, ExecSteps DEF FreshInv

LEMMA ItemsStep ==
  ASSUME TypeInv, FreshInv, [Next]_vars
  PROVE  ItemsFresh'
<1>1. CASE \E e \in execs, i \in Items : e.run \in Roots /\ InsertChild(e, i)
  <2>1. PICK e \in execs, i \in Items : e.run \in Roots /\ InsertChild(e, i)
    BY <1>1
  <2> DEFINE c == <<e.run, i, e.claim>>
  <2>2. PICK x, y :
          /\ execs' = (execs \ {e}) \cup {y, x}
          /\ x.run = c /\ c \in Children
          /\ y.run = e.run /\ y.claim = e.claim
          /\ y.at[i] = "waiting" /\ \A v \in Work \ {i} : y.at[v] = e.at[v]
    BY <2>1, InsertedExecs
  <2>3. /\ run' = [run EXCEPT ![c] = ChildRow(e.worker)]
        /\ run \in [Runs -> Row]
    BY <2>1, InsertedChild, WorkNames DEF TypeInv, CoreOK
  <2> SUFFICES ASSUME NEW d \in execs', NEW j \in Items,
                      d.run \in Roots, d.at[j] \in Unstarted
               PROVE  Is(<<d.run, j, d.claim>>, "absent")'
    BY DEF ItemsFresh, Unstarted
  <2> DEFINE t == <<d.run, j, d.claim>>
  <2>4. /\ d \in Exec /\ d.claim \in Claims /\ t \in Children /\ t \in Runs
        /\ x.run \notin Roots
    BY <2>2, RunNames, TypesStep DEF TypeInv, CoreOK, Exec, Runs
  <2>5. t # c /\ Is(t, "absent")
    <3>1. CASE d \in execs /\ d # e
      <4>1. Is(t, "absent")
        BY <3>1 DEF FreshInv, ItemsFresh, Unstarted
      <4>2. ~ (d.run = e.run /\ d.claim = e.claim)
        BY <3>1 DEF FreshInv, ClaimUnique
      <4> QED
        BY <4>1, <4>2
    <3>2. CASE d = y
      <4>1. j # i /\ d.at[j] = e.at[j]
        BY <2>2, <3>2, WorkNames DEF Unstarted
      <4>2. Is(<<e.run, j, e.claim>>, "absent")
        BY <2>1, <4>1 DEF FreshInv, ItemsFresh, Unstarted
      <4> QED
        BY <2>2, <3>2, <4>1, <4>2
    <3> QED
      BY <2>2, <2>4, <3>1, <3>2
  <2>6. run'[t] = run[t]
    BY <2>3, <2>4, <2>5
  <2> QED
    BY <2>5, <2>6 DEF Is
<1>2. CASE ~ \E e \in execs, i \in Items : e.run \in Roots /\ InsertChild(e, i)
  <2>1. ASSUME NEW t \in Children, Is(t, "absent") PROVE Is(t, "absent")'
    <3>1. t \in Runs /\ t \notin Roots
      BY RunNames DEF Runs
    <3>2. RowStep(t)
      BY <3>1, RowSteps
    <3> QED
      BY <1>2, <2>1, <3>1, <3>2
      DEF RowStep, Kept, Ends, Requeued, Accepted, Taken, Created, Is, Live
  <2>2. \A e \in execs, i \in Items :
          e.run \in Roots => <<e.run, i, e.claim>> \in Children
    BY RunNames DEF TypeInv, CoreOK, Exec
  <2>3. CASE execs' \subseteq execs
    BY <2>1, <2>2, <2>3 DEF FreshInv, ItemsFresh
  <2>4. ASSUME NEW e \in execs, Continues(e) PROVE ItemsFresh'
    <3>1. PICK x : Continued(e, x) /\ execs' = (execs \ {e}) \cup {x}
      BY <2>4 DEF Continues
    <3>2. ASSUME NEW d \in execs', NEW i \in Items, d.run \in Roots,
                 d.at[i] \in Unstarted
          PROVE  Is(<<d.run, i, d.claim>>, "absent")'
      <4>1. CASE d \in execs
        <5>1. Is(<<d.run, i, d.claim>>, "absent")
          BY <3>2, <4>1 DEF FreshInv, ItemsFresh, Unstarted
        <5> QED
          BY <2>1, <2>2, <3>2, <4>1, <5>1
      <4>2. CASE d = x
        <5>1. e.run = d.run /\ e.claim = d.claim /\ e.at[i] \in Unstarted
          BY <3>1, <3>2, <4>2 DEF Continued
        <5>2. Is(<<e.run, i, e.claim>>, "absent")
          BY <3>2, <5>1 DEF FreshInv, ItemsFresh, Unstarted
        <5>3. Is(<<e.run, i, e.claim>>, "absent")'
          BY <2>1, <2>2, <3>2, <5>1, <5>2
        <5> QED
          BY <5>1, <5>3
      <4> QED
        BY <3>1, <4>1, <4>2
    <3> QED
      BY <3>2 DEF ItemsFresh, Unstarted
  <2>5. ASSUME NEW w \in Workers, choosing[w] # NoRun, Claimed(w, choosing[w])
        PROVE  ItemsFresh'
    <3> DEFINE r == choosing[w]
               x == [run |-> r, claim |-> run[r].attempts + 1, worker |-> w,
                     phase |-> "loading", at |-> [u \in Work |-> "none"]]
    <3>1. /\ r \in Roots /\ run'[r].attempts = run[r].attempts + 1
          /\ run'[r].attempts \in Claims
      BY <2>5, ClaimedRows
    <3>2. /\ execs' = execs \cup {x} /\ x.run = r /\ x.claim = run[r].attempts + 1
      BY <2>5 DEF Claimed
    <3>3. run[r].attempts \in Nat
      BY <3>1, AttemptsGrow DEF FreshInv
    <3> HIDE DEF x, r
    <3>4. ASSUME NEW d \in execs', NEW i \in Items, d.run \in Roots,
                 d.at[i] \in Unstarted
          PROVE  Is(<<d.run, i, d.claim>>, "absent")'
      <4>1. CASE d \in execs
        <5>1. Is(<<d.run, i, d.claim>>, "absent")
          BY <3>4, <4>1 DEF FreshInv, ItemsFresh, Unstarted
        <5> QED
          BY <2>1, <2>2, <3>4, <4>1, <5>1
      <4>2. CASE d = x
        <5> DEFINE t == <<d.run, i, d.claim>>
        <5>1. d.run = r /\ d.claim = run[r].attempts + 1
          BY <3>2, <4>2
        <5>2. t \in Children /\ t[1] = d.run /\ t[3] = d.claim
          BY <3>1, <5>1, RunNames
        <5>3. t[3] > run[t[1]].attempts
          BY <3>3, <5>1, <5>2
        <5> HIDE DEF t
        <5>4. Is(t, "absent")
          BY <5>2, <5>3 DEF FreshInv, FutureChildren
        <5>5. Is(t, "absent")'
          BY <2>1, <5>2, <5>4
        <5> QED
          BY <5>5 DEF t
      <4> QED
        BY <3>2, <4>1, <4>2
    <3> QED
      BY <3>4 DEF ItemsFresh, Unstarted
  <2> QED
    BY <1>2, <2>3, <2>4, <2>5, ExecSteps DEF FreshInv
<1> QED
  BY <1>1, <1>2

LEMMA FreshStep == TypeInv /\ FreshInv /\ [Next]_vars => FreshInv'
BY FutureStep, UniqueStep, ItemsStep DEF FreshInv

LEMMA FreshInit == Init => FreshInv
BY DEF Init, FreshInv, AbsentFresh, FutureChildren, ClaimUnique, ItemsFresh,
   Unloaded, Is, NoRow, Runs

LEMMA TerminalStays ==
  ASSUME TypeInv, FreshInv, [Next]_vars, NEW r \in Runs, run[r].status \in Terminal
  PROVE  run'[r].status = run[r].status
<1>1. RowStep(r)
  BY RowSteps
<1>2. ~ Created(r)
  <2> SUFFICES ASSUME NEW e \in execs, NEW i \in Items,
                      InsertChild(e, i), e.run \in Roots,
                      r = <<e.run, i, e.claim>>
               PROVE  FALSE
    BY DEF Created
  <2>1. Is(r, "absent")
    BY DEF InsertChild, FreshInv, ItemsFresh
  <2> QED
    BY <2>1 DEF Is, Terminal
<1> QED
  BY <1>1, <1>2 DEF RowStep, Kept, Ends, Requeued, Accepted, Enqueue, Taken,
     Running, Is, Live, Terminal

\* Terminal runs stay terminal, whoever recovers, cancels, claims or executes
\* them: the UPDATEs of recovery and of the executions find the row running, and
\* no child is inserted over one that exists.
THEOREM TerminalForEver == Safe => NoResurrection
<1>1. TypeInv /\ FreshInv /\ [Next]_vars =>
        [\A r \in Runs : run[r].status \in Terminal
                          => run'[r].status = run[r].status]_vars
  BY TerminalStays
<1> QED
  BY <1>1, TypesInit, TypesStep, FreshInit, FreshStep, PTL DEF Safe, NoResurrection

-----------------------------------------------------------------------------
(* Requests are accepted once.                                             *)

LEMMA AcceptedStep ==
  ASSUME TypeInv, AcceptedOnce, [Next]_vars
  PROVE  AcceptedOnce'
<1> DEFINE Apart(r, s) ==
      /\ \/ Request[r].delivery # Request[s].delivery
         \/ Request[r].delivery = NoDelivery
      /\ run'[r].status \in Live /\ run'[s].status \in Live
           => Request[r].dedupe # Request[s].dedupe
<1>0. Roots \subseteq Runs /\ \A r \in Roots : r \notin Children
  BY RunNames DEF Runs
<1> SUFFICES ASSUME NEW r \in Roots, NEW s \in Roots, r # s,
                    run'[r].status # "absent", run'[s].status # "absent"
             PROVE  Apart(r, s)
  BY DEF AcceptedOnce, Is
<1>1. ASSUME NEW p \in Roots, NEW q \in Roots, Enqueue(q), p # q,
             run'[p].status # "absent"
      PROVE  /\ run[p].status # "absent"
             /\ run'[p].status \in Live => run[p].status \in Live
  BY <1>0, <1>1, EnqueueRows DEF SameRow, Stopped, Live, Terminal
<1>2. ASSUME NEW p \in Roots, NEW q \in Roots, Enqueue(q), p # q,
             run'[p].status # "absent"
      PROVE  /\ \/ Request[q].delivery # Request[p].delivery
                \/ Request[q].delivery = NoDelivery
             /\ run'[p].status \in Live => Request[q].dedupe # Request[p].dedupe
  <2>1. ~ Known(q)
    BY <1>2 DEF Enqueue
  <2> QED
    BY <1>1, <1>2, <2>1 DEF Known, Is
<1>3. CASE Enqueue(r)
  BY <1>2, <1>3
<1>4. CASE Enqueue(s)
  <2>1. /\ \/ Request[s].delivery # Request[r].delivery
           \/ Request[s].delivery = NoDelivery
        /\ run'[r].status \in Live => Request[s].dedupe # Request[r].dedupe
    BY <1>2, <1>4
  <2> QED
    BY <2>1
<1>5. CASE ~ Enqueue(r) /\ ~ Enqueue(s)
  <2>1. ASSUME NEW p \in {r, s}
        PROVE  /\ run[p].status # "absent"
               /\ run'[p].status \in Live => run[p].status \in Live
    <3>1. p \in Runs /\ p \notin Children /\ ~ Enqueue(p) /\ run'[p].status # "absent"
      BY <1>0, <1>5
    <3>2. RowStep(p)
      BY <3>1, RowSteps
    <3> QED
      BY <3>1, <3>2 DEF RowStep, Kept, Ends, Requeued, Accepted, Taken, Created,
         Running, Is, Live, Terminal
  <2> QED
    BY <2>1 DEF AcceptedOnce, Is
<1> QED
  BY <1>3, <1>4, <1>5

\* However runs end, are requeued or superseded, no delivery gets a second run
\* and no two active runs have equal requests: enqueue's look at the table under
\* its locks is enough, no other step brings a request back.
THEOREM RequestsAcceptedOnce == Safe => []AcceptedOnce
<1>1. Init => AcceptedOnce
  BY DEF Init, AcceptedOnce, Is, NoRow, Runs
<1> QED
  BY <1>1, AcceptedStep, TypesInit, TypesStep, PTL DEF Safe

-----------------------------------------------------------------------------
(* Concurrency.                                                            *)

SameKey(r) == {t \in RunningRoots : Request[t].admission = Request[r].admission}

LEMMA FewerRunning ==
  ASSUME IsFiniteSet(Roots), ConcurrencyLimits, RunningRoots' \subseteq RunningRoots
  PROVE  ConcurrencyLimits'
<1>1. IsFiniteSet(RunningRoots)
  BY FS_Subset DEF RunningRoots
<1>2. \A S \in SUBSET RunningRoots : IsFiniteSet(S) /\ Cardinality(S) \in Nat
  BY <1>1, FS_Subset, FS_CardinalityType
<1>3. Cardinality(RunningRoots') <= WorkspaceLimit
  <2>1. Cardinality(RunningRoots') <= Cardinality(RunningRoots)
    BY <1>1, FS_Subset
  <2> QED
    BY <1>2, <2>1, LimitsAssumption DEF ConcurrencyLimits
<1>4. ASSUME NEW r \in RunningRoots'
      PROVE  \E s \in Roots :
               /\ Request[s].admission = Request[r].admission
               /\ Cardinality(SameKey(r)') <= Request[s].concurrent
  <2>1. PICK s \in Roots : /\ Request[s].admission = Request[r].admission
                           /\ Cardinality(SameKey(r)) <= Request[s].concurrent
    BY DEF ConcurrencyLimits, SameKey
  <2>2. SameKey(r)' \subseteq SameKey(r) /\ SameKey(r) \in SUBSET RunningRoots
    BY DEF SameKey
  <2>3. /\ Cardinality(SameKey(r)') <= Cardinality(SameKey(r))
        /\ Cardinality(SameKey(r)') \in Nat /\ Cardinality(SameKey(r)) \in Nat
    BY <1>2, <2>2, FS_Subset, FS_CardinalityType
  <2>4. Request[s].concurrent \in Nat
    BY RequestAssumption
  <2> QED
    BY <2>1, <2>3, <2>4
<1> QED
  BY <1>3, <1>4 DEF ConcurrencyLimits, SameKey

LEMMA OneMoreRunning ==
  ASSUME IsFiniteSet(Roots), ConcurrencyLimits, NEW p \in Roots, HasRoom(p),
         RunningRoots' \subseteq RunningRoots \cup {p}
  PROVE  ConcurrencyLimits'
<1> DEFINE more == RunningRoots \cup {p}
           Of(S, r) == {t \in S : Request[t].admission = Request[r].admission}
<1>1. IsFiniteSet(RunningRoots) /\ IsFiniteSet(more) /\ IsFiniteSet(RunningRoots')
  BY FS_Subset DEF RunningRoots
<1>2. ASSUME NEW S, NEW T, IsFiniteSet(T), S \subseteq T \cup {p}
      PROVE  /\ Cardinality(S) \in Nat /\ Cardinality(T) \in Nat
             /\ Cardinality(S) <= Cardinality(T) + 1
  <2>1. Cardinality(T) \in Nat
    BY <1>2, FS_CardinalityType
  <2>2. /\ IsFiniteSet(T \cup {p})
        /\ Cardinality(T \cup {p}) =
             IF p \in T THEN Cardinality(T) ELSE Cardinality(T) + 1
    BY <1>2, FS_AddElement
  <2>3. IsFiniteSet(S) /\ Cardinality(S) <= Cardinality(T \cup {p})
    BY <1>2, <2>2, FS_Subset
  <2>4. Cardinality(S) \in Nat
    BY <2>3, FS_CardinalityType
  <2> QED
    BY <2>1, <2>2, <2>3, <2>4
<1>3. Cardinality(RunningRoots') <= WorkspaceLimit
  <2>1. /\ Cardinality(RunningRoots') <= Cardinality(RunningRoots) + 1
        /\ Cardinality(RunningRoots') \in Nat /\ Cardinality(RunningRoots) \in Nat
    BY <1>1, <1>2
  <2> QED
    BY <2>1, LimitsAssumption DEF HasRoom
<1>4. ASSUME NEW r \in RunningRoots'
      PROVE  \E s \in Roots :
               /\ Request[s].admission = Request[r].admission
               /\ Cardinality(SameKey(r)') <= Request[s].concurrent
  <2>1. SameKey(r)' \subseteq SameKey(r) \cup {p} /\ IsFiniteSet(SameKey(r))
    BY <1>1, FS_Subset DEF SameKey
  <2>2. CASE Request[p].admission = Request[r].admission
    <3>1. Cardinality(SameKey(r)) < Request[p].concurrent
      BY <2>2 DEF HasRoom, SameKey
    <3>2. /\ Cardinality(SameKey(r)') <= Cardinality(SameKey(r)) + 1
          /\ Cardinality(SameKey(r)') \in Nat /\ Cardinality(SameKey(r)) \in Nat
      BY <1>2, <2>1
    <3>3. Request[p].concurrent \in Nat
      BY RequestAssumption
    <3> QED
      BY <2>2, <3>1, <3>2, <3>3
  <2>3. CASE Request[p].admission # Request[r].admission
    <3>1. r \in RunningRoots /\ SameKey(r)' \subseteq SameKey(r)
      BY <2>3 DEF SameKey
    <3>2. PICK s \in Roots : /\ Request[s].admission = Request[r].admission
                             /\ Cardinality(SameKey(r)) <= Request[s].concurrent
      BY <3>1 DEF ConcurrencyLimits, SameKey
    <3>3. /\ Cardinality(SameKey(r)') <= Cardinality(SameKey(r))
          /\ Cardinality(SameKey(r)') \in Nat /\ Cardinality(SameKey(r)) \in Nat
      BY <2>1, <3>1, FS_Subset, FS_CardinalityType
    <3>4. Request[s].concurrent \in Nat
      BY RequestAssumption
    <3> QED
      BY <3>2, <3>3, <3>4
  <2> QED
    BY <2>2, <2>3
<1> QED
  BY <1>3, <1>4 DEF ConcurrencyLimits, SameKey

\* Only the admission of a claim makes a root run, and only that one.
LEMMA RunningSteps ==
  ASSUME TypeInv, [Next]_vars
  PROVE  \/ RunningRoots' \subseteq RunningRoots
         \/ \E p \in Roots : HasRoom(p) /\ RunningRoots' \subseteq RunningRoots \cup {p}
<1>0. Roots \subseteq Runs /\ \A r \in Roots : r \notin Children /\ r # NoRun
  BY RunNames, NamesAssumption DEF Runs
<1>1. CASE \A r \in Roots : ~ Taken(r)
  <2> SUFFICES ASSUME NEW r \in Roots, run'[r].status = "running"
               PROVE  run[r].status = "running"
    BY DEF RunningRoots, Running, Is
  <2>1. RowStep(r)
    BY <1>0, RowSteps
  <2> QED
    BY <1>0, <1>1, <2>1
    DEF RowStep, Kept, Ends, Requeued, Accepted, Created, Terminal
<1>2. ASSUME NEW p \in Roots, Taken(p)
      PROVE  HasRoom(p) /\ RunningRoots' \subseteq RunningRoots \cup {p}
  <2>1. PICK w \in Workers : choosing[w] = p /\ Claimed(w, p) /\ HasRoom(p)
    BY <1>2 DEF Taken
  <2>2. \A s \in Runs \ {p} : run'[s] = run[s]
    BY <1>0, <2>1, ClaimedRows
  <2> QED
    BY <1>0, <2>1, <2>2 DEF RunningRoots, Running, Is
<1> QED
  BY <1>1, <1>2

\* Replicas that chose from the same snapshot never run more roots than the
\* workspace or an admission key may have, for finitely many requests: the count
\* that matters is the second, under the workspace's lock.
THEOREM LimitsKept ==
  ASSUME IsFiniteSet(Roots)
  PROVE  Safe => []ConcurrencyLimits
<1>1. Init => ConcurrencyLimits
  <2> SUFFICES ASSUME Init PROVE ConcurrencyLimits
    OBVIOUS
  <2>1. RunningRoots = {}
    BY DEF Init, RunningRoots, Running, Is, NoRow, Runs
  <2> QED
    BY <2>1, FS_EmptySet, LimitsAssumption DEF ConcurrencyLimits
<1>2. TypeInv /\ ConcurrencyLimits /\ [Next]_vars => ConcurrencyLimits'
  BY RunningSteps, FewerRunning, OneMoreRunning
<1> QED
  BY <1>1, <1>2, TypesInit, TypesStep, PTL DEF Safe

-----------------------------------------------------------------------------
(* Ownership and attempts.                                                 *)

LEMMA StepControl ==
  ASSUME TypeInv, NEW e \in execs, Step(e)
  PROVE  UNCHANGED control
<1>1. ASSUME NEW u \in Work, UnitStep(e, u) PROVE UNCHANGED control
  <2>1. CASE CallStep(e, u)
    BY <2>1, CallRows
  <2>2. CASE StartItem(e, u) \/ InsertChild(e, u) \/ CollectChild(e, u)
    BY <2>2 DEF StartItem, InsertChild, CollectChild
  <2> QED
    BY <1>1, <2>1, <2>2 DEF UnitStep, CallStep
<1>2. CASE Load(e) \/ Complete(e) \/ Fail(e) \/ Close(e)
  BY <1>2 DEF Load, Complete, Fail, Close
<1> QED
  BY <1>1, <1>2 DEF Step

\* Only a living worker chooses, and a worker leaves the living by its crash.
LEMMA ControlSteps ==
  ASSUME TypeInv, [Next]_vars
  PROVE  \/ /\ alive' = alive
            /\ \A w \in Workers : choosing'[w] # NoRun
                                   => choosing[w] # NoRun \/ w \in alive
         \/ \E w \in Workers : Crash(w)
<1>0. choosing \in [Workers -> Roots \cup {NoRun}]
  BY DEF TypeInv, CoreOK
<1>1. CASE UNCHANGED vars \/ (\E r \in Roots : Enqueue(r)) \/ StaleStep
  BY <1>1 DEF vars, Enqueue, StaleStep, control
<1>2. CASE CancelStep
  BY <1>2, CancelStepRows
<1>3. CASE \E e \in execs : Step(e)
  BY <1>3, StepControl DEF control
<1>4. CASE \E w \in Workers : RecoverStep(w)
  BY <1>4 DEF RecoverStep, ListStale, RecoverRelease, Recover
<1>5. CASE \E w \in Workers : (\E r \in Roots : Choose(w, r)) \/ Admit(w)
  BY <1>0, <1>5 DEF Choose, Admit
<1> QED
  BY <1>1, <1>2, <1>3, <1>4, <1>5, Steps

\* What a step does to the lists of stale runs: an entry is old, or what a
\* worker has just read.
LEMMA Listed ==
  ASSUME TypeInv, [Next]_vars, NEW w \in Workers, NEW s \in recovery'[w].todo
  PROVE  \/ s \in recovery[w].todo
         \/ /\ run' = run /\ alive' = alive /\ s.run \in Runs
            /\ Running(s.run) /\ run[s.run].stale
            /\ s.worker = run[s.run].worker /\ s.attempts = run[s.run].attempts
<1> DEFINE R == [todo : SUBSET Stale, release : Runs \cup {NoRun}]
<1>0. recovery \in [Workers -> R]
  BY DEF TypeInv, CoreOK
<1>1. CASE recovery' = recovery
  BY <1>1
<1>2. ASSUME NEW v \in Workers, Crash(v) PROVE s \in recovery[w].todo
  <2>1. recovery' = [recovery EXCEPT ![v] = Resting]
    BY <1>2 DEF Crash
  <2> QED
    BY <1>0, <2>1 DEF Resting
<1>3. ASSUME NEW v \in Workers, RecoverRelease(v) PROVE s \in recovery[w].todo
  <2>1. recovery' = [recovery EXCEPT ![v].release = NoRun]
    BY <1>3 DEF RecoverRelease
  <2>2. recovery'[w].todo = recovery[w].todo
    BY <1>0, <2>1
  <2> QED
    BY <2>2
<1>4. ASSUME NEW v \in Workers, NEW t \in recovery[v].todo, Recover(v, t)
      PROVE  s \in recovery[w].todo
  <2>1. recovery' = [recovery EXCEPT ![v] =
                       [todo |-> recovery[v].todo \ {t}, release |-> t.run]]
    BY <1>0, <1>4 DEF Recover
  <2> QED
    BY <1>0, <2>1
<1>5. ASSUME NEW v \in Workers, ListStale(v), s \notin recovery[w].todo
      PROVE  /\ run' = run /\ alive' = alive /\ s.run \in Runs
             /\ Running(s.run) /\ run[s.run].stale
             /\ s.worker = run[s.run].worker /\ s.attempts = run[s.run].attempts
  <2> DEFINE t == {[run |-> r, worker |-> run[r].worker, attempts |-> run[r].attempts]
                     : r \in {r \in Runs : Running(r) /\ run[r].stale}}
  <2>1. recovery' = [recovery EXCEPT ![v].todo = t] /\ run' = run /\ alive' = alive
    BY <1>5 DEF ListStale, ledger, books
  <2>2. \A x \in t : /\ x.run \in Runs /\ Running(x.run) /\ run[x.run].stale
                     /\ x.worker = run[x.run].worker
                     /\ x.attempts = run[x.run].attempts
    OBVIOUS
  <2> HIDE DEF t
  <2>3. s \in t
    BY <1>0, <1>5, <2>1
  <2> QED
    BY <2>1, <2>2, <2>3
<1>6. CASE \/ UNCHANGED vars \/ (\E r \in Roots : Enqueue(r)) \/ StaleStep
           \/ \E v \in Workers : (\E r \in Roots : Choose(v, r)) \/ Admit(v)
  BY <1>1, <1>6 DEF vars, Enqueue, StaleStep, control, Choose, Admit
<1>7. CASE CancelStep
  BY <1>1, <1>7, CancelStepRows
<1>8. CASE \E e \in execs : Step(e)
  <2>1. UNCHANGED control
    BY <1>8, StepControl
  <2> QED
    BY <1>1, <2>1 DEF control
<1> QED
  BY <1>2, <1>3, <1>4, <1>5, <1>6, <1>7, <1>8, Steps DEF RecoverStep

\* A run that was taken from a living worker is known for it.
LEMMA SeizedGrows ==
  ASSUME TypeInv, [Next]_vars
  PROVE  seized \subseteq seized'
<1>1. CASE UNCHANGED vars \/ (\E r \in Roots : Enqueue(r)) \/ StaleStep
  BY <1>1 DEF vars, Enqueue, StaleStep, control
<1>2. CASE CancelStep
  BY <1>2 DEF CancelStep, Cancel, CancelChildren, CancelSelect, CancelRelease, CancelDies,
     FinishRelease, control
<1>3. CASE \E e \in execs : Step(e)
  BY <1>3, StepControl DEF control
<1>4. CASE \E w \in Workers : \/ \E r \in Roots : Choose(w, r)
                              \/ Admit(w) \/ Crash(w) \/ RecoverStep(w)
  BY <1>4 DEF Choose, Admit, Crash, RecoverStep, ListStale, RecoverRelease, Recover
<1> QED
  BY <1>1, <1>2, <1>3, <1>4, Steps

LEMMA LivingStep ==
  ASSUME TypeInv, FreshInv, OwnersInv, [Next]_vars
  PROVE  LivingWork'
<1>1. alive' \subseteq alive
  BY ControlSteps DEF Crash
<1>2. ASSUME NEW e \in execs' PROVE e.worker \in alive'
  <2>1. CASE \E w \in Workers : Crash(w)
    BY <1>2, <2>1 DEF Crash, OwnersInv, LivingWork
  <2>2. CASE alive' = alive
    <3>1. CASE execs' \subseteq execs
      BY <1>2, <2>2, <3>1 DEF OwnersInv, LivingWork
    <3>2. ASSUME NEW d \in execs, Continues(d) PROVE e.worker \in alive'
      BY <1>2, <2>2, <3>2 DEF Continues, Continued, OwnersInv, LivingWork
    <3>3. ASSUME NEW d \in execs, NEW i \in Items, InsertChild(d, i)
          PROVE  e.worker \in alive'
      <4>1. PICK x, y : /\ execs' = (execs \ {d}) \cup {y, x}
                        /\ x.worker = d.worker /\ y.worker = d.worker
        BY <3>3, InsertedExecs
      <4> QED
        BY <1>2, <2>2, <4>1 DEF OwnersInv, LivingWork
    <3>4. ASSUME NEW w \in Workers, choosing[w] # NoRun, Claimed(w, choosing[w])
          PROVE  e.worker \in alive'
      BY <1>2, <2>2, <3>4 DEF Claimed, OwnersInv, LivingWork
    <3> QED
      BY <3>1, <3>2, <3>3, <3>4, ExecSteps DEF FreshInv
  <2> QED
    BY <2>1, <2>2, ControlSteps
<1>3. ASSUME NEW w \in Workers, choosing'[w] # NoRun PROVE w \in alive'
  <2>1. CASE \E v \in Workers : Crash(v)
    <3>1. PICK v \in Workers : Crash(v)
      BY <2>1
    <3>2. /\ choosing' = [choosing EXCEPT ![v] = NoRun] /\ alive' = alive \ {v}
          /\ choosing \in [Workers -> Roots \cup {NoRun}]
      BY <3>1 DEF Crash, TypeInv, CoreOK
    <3> QED
      BY <1>3, <3>2 DEF OwnersInv, LivingWork
  <2>2. CASE ~ \E v \in Workers : Crash(v)
    BY <1>3, <2>2, ControlSteps DEF OwnersInv, LivingWork
  <2> QED
    BY <2>1, <2>2
<1> QED
  BY <1>2, <1>3 DEF LivingWork

LEMMA HeldStep ==
  ASSUME TypeInv, FreshInv, OwnersInv, [Next]_vars
  PROVE  Held'
<1> DEFINE Good(e) ==
      e.run \in Roots \ seized' =>
        \/ run'[e.run].status \in Terminal
        \/ /\ run'[e.run].status = "running" /\ run'[e.run].worker = e.worker
           /\ run'[e.run].attempts = e.claim
<1>0. /\ Roots \subseteq Runs /\ \A r \in Roots : r \notin Children
      /\ seized \subseteq seized'
  BY RunNames, SeizedGrows DEF Runs
<1>1. ASSUME NEW e \in execs PROVE Good(e)
  <2> SUFFICES ASSUME e.run \in Roots \ seized'
               PROVE  \/ run'[e.run].status \in Terminal
                      \/ /\ run'[e.run].status = "running"
                         /\ run'[e.run].worker = e.worker
                         /\ run'[e.run].attempts = e.claim
    OBVIOUS
  <2> DEFINE r == e.run
  <2>1. RowStep(r) /\ r \notin Children
    BY <1>0, RowSteps
  <2>2. CASE run[r].status \in Terminal
    BY <2>1, <2>2 DEF RowStep, Kept, Ends, Requeued, Accepted, Enqueue, Taken, Created,
       Running, Is, Live, Terminal
  <2>3. CASE Owns(e) /\ run[r].attempts = e.claim
    <3>1. ~ Requeued(r)
      BY <2>3 DEF Requeued, Owns, OwnersInv, LivingWork
    <3> QED
      BY <2>1, <2>3, <3>1 DEF RowStep, Kept, Ends, Accepted, Enqueue, Taken, Created,
         Owns, Running, Is
  <2> QED
    BY <1>0, <2>2, <2>3 DEF OwnersInv, Held
<1>2. ASSUME NEW e \in execs' PROVE Good(e)
  <2>1. CASE execs' \subseteq execs
    BY <1>1, <2>1
  <2>2. ASSUME NEW d \in execs, Continues(d) PROVE Good(e)
    <3>1. PICK x : Continued(d, x) /\ execs' = (execs \ {d}) \cup {x}
      BY <2>2 DEF Continues
    <3>2. CASE e = x
      <4>1. e.run = d.run /\ e.worker = d.worker /\ e.claim = d.claim
        BY <3>1, <3>2 DEF Continued
      <4> QED
        BY <1>1, <4>1
    <3> QED
      BY <1>1, <3>1, <3>2
  <2>3. ASSUME NEW d \in execs, NEW i \in Items, InsertChild(d, i) PROVE Good(e)
    <3>1. PICK x, y : /\ execs' = (execs \ {d}) \cup {y, x}
                      /\ x.run \in Children /\ y.run = d.run
                      /\ y.worker = d.worker /\ y.claim = d.claim
      BY <2>3, InsertedExecs
    <3>2. CASE e = y
      BY <1>1, <3>1, <3>2
    <3>3. CASE e = x
      BY <1>0, <3>1, <3>3
    <3> QED
      BY <1>1, <3>1, <3>2, <3>3
  <2>4. ASSUME NEW w \in Workers, choosing[w] # NoRun, Claimed(w, choosing[w])
        PROVE  Good(e)
    <3> DEFINE x == [run |-> choosing[w], claim |-> run[choosing[w]].attempts + 1,
                     worker |-> w, phase |-> "loading", at |-> [u \in Work |-> "none"]]
    <3>1. /\ execs' = execs \cup {x} /\ x.run = choosing[w] /\ x.worker = w
          /\ x.claim = run[choosing[w]].attempts + 1
      BY <2>4 DEF Claimed
    <3>2. /\ run'[choosing[w]].status = "running" /\ run'[choosing[w]].worker = w
          /\ run'[choosing[w]].attempts = run[choosing[w]].attempts + 1
      BY <2>4, ClaimedRows
    <3> HIDE DEF x
    <3>3. CASE e = x
      BY <3>1, <3>2, <3>3
    <3> QED
      BY <1>1, <3>1, <3>3
  <2> QED
    BY <2>1, <2>2, <2>3, <2>4, ExecSteps DEF FreshInv
<1> QED
  BY <1>2 DEF Held, Owns, Running, Is

LEMMA ListsStep ==
  ASSUME TypeInv, FreshInv, OwnersInv, [Next]_vars
  PROVE  ListsAgree'
<1> SUFFICES ASSUME NEW w \in Workers, NEW s \in recovery'[w].todo,
                    s.run \in Roots \ seized'
             PROVE  /\ run'[s.run].status = "running" /\ run'[s.run].worker = s.worker
                         => s.attempts = run'[s.run].attempts
                    /\ s.worker \in alive'
                         => \/ run'[s.run].status \in Terminal
                            \/ /\ run'[s.run].status = "running"
                               /\ run'[s.run].worker = s.worker
  BY DEF ListsAgree, Running, Is
<1>0. /\ alive' \subseteq alive /\ s.run \in Roots \ seized
      /\ s.run \in Runs /\ s.run \notin Children
  BY ControlSteps, SeizedGrows, RunNames DEF Crash, Runs
<1>1. CASE s \in recovery[w].todo
  <2>1. RowStep(s.run) /\ ~ Created(s.run)
    BY <1>0, RowSteps DEF Created
  <2>2. /\ Running(s.run) /\ run[s.run].worker = s.worker
             => s.attempts = run[s.run].attempts
        /\ s.worker \in alive
             => \/ run[s.run].status \in Terminal
                \/ Running(s.run) /\ run[s.run].worker = s.worker
    BY <1>0, <1>1 DEF OwnersInv, ListsAgree
  <2>3. ASSUME run'[s.run].status = "running", run'[s.run].worker = s.worker
        PROVE  s.attempts = run'[s.run].attempts
    <3>1. ~ Taken(s.run)
      BY <1>0, <2>2, <2>3, NamesAssumption
      DEF Taken, OwnersInv, LivingWork, Running, Is, Terminal
    <3>2. Kept(s.run)
      BY <2>1, <2>3, <3>1 DEF RowStep, Ends, Requeued, Accepted, Terminal
    <3> QED
      BY <2>2, <2>3, <3>2 DEF Kept, Running, Is
  <2>4. ASSUME s.worker \in alive'
        PROVE  \/ run'[s.run].status \in Terminal
               \/ run'[s.run].status = "running" /\ run'[s.run].worker = s.worker
    <3>1. CASE run[s.run].status \in Terminal
      BY <1>0, <3>1, TerminalStays
    <3>2. CASE Running(s.run) /\ run[s.run].worker = s.worker
      <4>1. ~ Requeued(s.run)
        BY <1>0, <2>4, <3>2 DEF Requeued
      <4>2. Kept(s.run) \/ Ends(s.run)
        BY <2>1, <3>2, <4>1 DEF RowStep, Accepted, Enqueue, Taken, Running, Is
      <4> QED
        BY <3>2, <4>2 DEF Kept, Ends, Running, Is
    <3> QED
      BY <1>0, <2>2, <2>4, <3>1, <3>2
  <2> QED
    BY <2>3, <2>4
<1>2. CASE /\ run' = run /\ alive' = alive /\ s.run \in Runs
           /\ Running(s.run) /\ run[s.run].stale
           /\ s.worker = run[s.run].worker /\ s.attempts = run[s.run].attempts
  BY <1>2 DEF Running, Is
<1> QED
  BY <1>1, <1>2, Listed

LEMMA AttemptsStep ==
  ASSUME TypeInv, FreshInv, OwnersInv, [Next]_vars
  PROVE  AttemptsLeft'
<1> SUFFICES ASSUME NEW r \in Roots \ seized'
             PROVE  /\ run'[r].attempts <= MaxAttempts
                    /\ run'[r].status # "running" /\ run'[r].status \notin Terminal
                         => run'[r].attempts < MaxAttempts
  BY DEF AttemptsLeft, Running, Is
<1>1. /\ r \in Runs /\ r \notin Children /\ r \notin seized
      /\ run[r].attempts \in Nat /\ run'[r].attempts \in Nat
  BY RunNames, AttemptsGrow, SeizedGrows DEF Runs, FreshInv
<1>2. RowStep(r)
  BY <1>1, RowSteps
<1>3. CASE Requeued(r)
  <2>1. run[r].attempts < MaxAttempts
    BY <1>1, <1>3 DEF Requeued, OwnersInv, ListsAgree
  <2> QED
    BY <1>3, <2>1, <1>1, Limits DEF Requeued
<1>4. CASE Taken(r)
  <2>1. run[r].attempts < MaxAttempts
    BY <1>1, <1>4 DEF Taken, OwnersInv, AttemptsLeft, Running, Is, Terminal
  <2> QED
    BY <1>1, <1>4, <2>1, Limits DEF Taken
<1>5. CASE ~ Requeued(r) /\ ~ Taken(r)
  BY <1>1, <1>2, <1>5, Limits
  DEF RowStep, Kept, Ends, Accepted, Created, OwnersInv, AttemptsLeft, Running, Is
<1> QED
  BY <1>3, <1>4, <1>5

LEMMA ChildExecsStep ==
  ASSUME TypeInv, FreshInv, ChildExecs, [Next]_vars
  PROVE  ChildExecs'
<1>0. \A r \in Children : r \in Runs /\ r \notin Roots
  BY RunNames DEF Runs
<1>1. ASSUME NEW c \in Children, run[c].status # "absent"
      PROVE  run'[c].status # "absent"
  <2>1. RowStep(c)
    BY <1>0, RowSteps
  <2> QED
    BY <1>0, <1>1, <2>1
    DEF RowStep, Kept, Ends, Requeued, Accepted, Taken, Created, Terminal
<1>2. \A e \in execs : e.run \in Children => run'[e.run].status # "absent"
  BY <1>1 DEF ChildExecs, Is
<1>3. CASE execs' \subseteq execs
  BY <1>2, <1>3 DEF ChildExecs, Is
<1>4. ASSUME NEW d \in execs, Continues(d) PROVE ChildExecs'
  <2>1. PICK x : Continued(d, x) /\ execs' = (execs \ {d}) \cup {x}
    BY <1>4 DEF Continues
  <2> QED
    BY <1>2, <2>1 DEF Continued, OwnersInv, ChildExecs, Is
<1>5. ASSUME NEW d \in execs, NEW i \in Items, d.run \in Roots, InsertChild(d, i)
      PROVE  ChildExecs'
  <2> DEFINE c == <<d.run, i, d.claim>>
  <2>1. PICK x, y : /\ execs' = (execs \ {d}) \cup {y, x}
                    /\ x.run = c /\ c \in Children /\ y.run = d.run
    BY <1>5, InsertedExecs
  <2>2. run[c].status = "absent"
    BY <1>5 DEF InsertChild, FreshInv, ItemsFresh, Is
  <2>3. run'[c].status # "absent"
    <3>1. /\ run' = [run EXCEPT ![c] = ChildRow(d.worker)]
          /\ ChildRow(d.worker).status = "running"
      BY <1>5, InsertedChild, WorkNames
    <3> QED
      BY <1>0, <2>1, <3>1 DEF TypeInv, CoreOK
  <2>4. \A e \in execs : e.run # c
    BY <2>1, <2>2 DEF ChildExecs, Is
  <2>5. y.run \notin Children
    BY <1>0, <1>5, <2>1
  <2> HIDE DEF c
  <2> QED
    BY <1>2, <2>1, <2>3, <2>4, <2>5 DEF ChildExecs, Is
<1>6. ASSUME NEW w \in Workers, choosing[w] # NoRun, Claimed(w, choosing[w])
      PROVE  ChildExecs'
  <2>1. choosing[w] \notin Children
    BY <1>0, <1>6, ClaimedRows
  <2> DEFINE x == [run |-> choosing[w], claim |-> run[choosing[w]].attempts + 1,
                   worker |-> w, phase |-> "loading", at |-> [u \in Work |-> "none"]]
  <2>2. execs' = execs \cup {x} /\ x.run = choosing[w]
    BY <1>6 DEF Claimed
  <2> HIDE DEF x
  <2> QED
    BY <1>2, <2>1, <2>2 DEF ChildExecs, Is
<1> QED
  BY <1>3, <1>4, <1>5, <1>6, ExecSteps DEF FreshInv

LEMMA OwnersInit == Init => OwnersInv
<1> SUFFICES ASSUME Init PROVE OwnersInv
  OBVIOUS
<1>1. \A r \in Runs : run[r].status = "absent" /\ run[r].attempts = 0
  BY DEF Init, NoRow
<1>2. LivingWork /\ Held /\ ListsAgree /\ ChildExecs
  BY <1>1 DEF Init, LivingWork, Held, ListsAgree, ChildExecs, Resting, Running, Is
<1>3. AttemptsLeft
  BY <1>1, Limits DEF AttemptsLeft, Runs
<1> QED
  BY <1>2, <1>3 DEF OwnersInv

LEMMA OwnersStep ==
  TypeInv /\ FreshInv /\ OwnersInv /\ [Next]_vars => OwnersInv'
BY LivingStep, HeldStep, ListsStep, AttemptsStep, ChildExecsStep DEF OwnersInv

\* A run is executed at most MaxAttempts times, however old the lists are from which
\* its recoveries requeue it, as long as none of them took it from a living worker: no
\* other can claim a run that a list names it as the holder of.
THEOREM AttemptsLimited == Safe => []AttemptLimit
<1>1. OwnersInv => AttemptLimit
  BY DEF OwnersInv, AttemptsLeft, AttemptLimit
<1> QED
  BY <1>1, TypesInit, TypesStep, FreshInit, FreshStep, OwnersInit, OwnersStep, PTL
  DEF Safe

\* At most one execution believes it owns a run that was not taken from a living
\* worker: its claim is the row's last attempt.
THEOREM OwnersExclusive == Safe => []OneOwner
<1>1. TypeInv /\ FreshInv /\ OwnersInv => OneOwner
  <2> SUFFICES ASSUME TypeInv, FreshInv, OwnersInv, NEW d \in execs, NEW e \in execs,
                      d.run = e.run, d.run \notin seized, Owns(d), Owns(e)
               PROVE  d = e
    BY DEF OneOwner
  <2>1. CASE d.run \in Roots
    <3>1. run[d.run].status \notin Terminal
      BY DEF Owns, Running, Is, Terminal
    <3> QED
      BY <2>1, <3>1 DEF OwnersInv, Held, FreshInv, ClaimUnique
  <2>2. CASE d.run \notin Roots
    <3>1. d.run \in Children
      BY <2>2 DEF TypeInv, CoreOK, Exec, Runs
    <3> QED
      BY <3>1 DEF OwnersInv, ChildExecs
  <2> QED
    BY <2>1, <2>2
<1> QED
  BY <1>1, TypesInit, TypesStep, FreshInit, FreshStep, OwnersInit, OwnersStep, PTL
  DEF Safe

-----------------------------------------------------------------------------
(* What becomes of each execution.                                         *)

\* Where a step of a unit takes it.
Outcome(e, u, place) ==
  \/ /\ StartCall(e, u) /\ e.at[u] = "idle"
     /\ place = IF u \in Images \cap saved[e.run] THEN "done"
                ELSE IF Owns(e) THEN "started" ELSE "failed"
  \/ Reserve(e, u) /\ place \in {"reserved", "failed"}
  \/ Call(e, u) /\ place = "called"
  \/ SettlePrompt(e, u) /\ place \in {"billed", "failed"}
  \/ /\ LosePrompt(e, u) \/ FailCall(e, u) \/ Release(e, u)
     /\ place \in {"releasing", "failed"}
  \/ /\ Confirm(e, u) /\ place \in {"fetched", "releasing", "recording", "failed"}
     /\ place = "recording" => e.at[u] = "billed"
  \/ Save(e, u) /\ place = IF u \in Images THEN "stored" ELSE "done"
  \/ SettleImage(e, u) /\ e.at[u] = "stored" /\ place = "done"
  \/ /\ StartItem(e, u)
     /\ place = IF ~ Owns(e) THEN "failed"
                ELSE IF Completed(e.run, u) # {} THEN "done" ELSE "creating"
  \/ InsertChild(e, u) /\ place = "waiting"
  \/ /\ CollectChild(e, u)
     /\ place = IF Owns(e) /\ Is(<<e.run, u, e.claim>>, "completed")
                THEN "done" ELSE "failed"

SameExec(e, x) == x.run = e.run /\ x.claim = e.claim /\ x.worker = e.worker

\* The ways in which e becomes x.
Loads(e, x) ==
  Load(e) /\ SameExec(e, x) /\ x.phase = "active" /\ x.at = Loaded(e)
Turns(e, x) ==
  SameExec(e, x) /\ x.at = e.at /\ e.phase # "loading" /\ x.phase # "loading"
Moves(e, u, x) ==
  /\ SameExec(e, x) /\ x.phase = e.phase /\ e.phase # "loading"
  /\ \A v \in Work \ {u} : x.at[v] = e.at[v]
  /\ UnitStep(e, u) /\ Outcome(e, u, x.at[u])
  /\ e.at[u] # "none"

\* A new execution, of a claimed root or of a child that was just created.
Begins(x) ==
  /\ x.phase = "loading" /\ \A u \in Work : x.at[u] = "none"
  /\ \/ /\ x.run \in Roots /\ Is(x.run, "queued")
        /\ x.claim = run[x.run].attempts + 1 /\ x.claim = run'[x.run].attempts
        /\ UNCHANGED <<open, progress>>
     \/ \E e \in execs, i \in Items :
          /\ InsertChild(e, i) /\ e.run \in Roots /\ x.worker = e.worker
          /\ x.run = <<e.run, i, e.claim>> /\ x.run \in Children

LEMMA MovesExec ==
  ASSUME TypeInv, Unloaded, NEW e \in execs, NEW u \in Work, UnitStep(e, u),
         NEW place, Outcome(e, u, place), e.at[u] # "none"
  PROVE  Moves(e, u, [e EXCEPT !.at[u] = place])
<1> DEFINE x == [e EXCEPT !.at[u] = place]
<1>1. e \in Exec /\ ExecShape(e)
  BY DEF TypeInv, CoreOK, ExecsShaped
<1>2. /\ x.run = e.run /\ x.claim = e.claim /\ x.worker = e.worker
      /\ x.phase = e.phase /\ x.at[u] = place
      /\ \A v \in Work \ {u} : x.at[v] = e.at[v]
  <2>1. e.at \in [Work -> Place] /\ x = [e EXCEPT !.at = [e.at EXCEPT ![u] = place]]
    BY <1>1 DEF Exec
  <2>2. /\ x.run = e.run /\ x.claim = e.claim /\ x.worker = e.worker
        /\ x.phase = e.phase /\ x.at = [e.at EXCEPT ![u] = place]
    BY <1>1, <2>1 DEF Exec
  <2> HIDE DEF x
  <2> QED
    BY <2>1, <2>2
<1>3. e.phase # "loading"
  BY DEF Unloaded
<1> HIDE DEF x
<1>4. Moves(e, u, x)
  BY <1>2, <1>3 DEF Moves, SameExec
<1> QED
  BY <1>4 DEF x

\* A step of a unit takes it to its outcome.
LEMMA UnitMoves ==
  ASSUME TypeInv, NEW e \in execs, NEW u \in Work, UnitStep(e, u)
  PROVE  \E place : /\ Outcome(e, u, place) /\ e.at[u] # "none"
                    /\ \/ Moved(e, u, place)
                       \/ InsertChild(e, u) /\ place = "waiting"
<1>1. CASE StartCall(e, u)
  <2> DEFINE place == IF u \in Images \cap saved[e.run] THEN "done"
                      ELSE IF Owns(e) THEN "started" ELSE "failed"
  <2>1. Moved(e, u, place) /\ e.at[u] = "idle"
    BY <1>1 DEF StartCall, MayStart
  <2>2. Outcome(e, u, place)
    BY <1>1, <2>1 DEF Outcome
  <2> QED
    BY <2>1, <2>2
<1>2. CASE Reserve(e, u)
  <2>1. e.at[u] = "started"
    BY <1>2 DEF Reserve
  <2>2. Moved(e, u, "failed") \/ Moved(e, u, "reserved")
    BY <1>2 DEF Reserve
  <2>3. Outcome(e, u, "failed") /\ Outcome(e, u, "reserved")
    BY <1>2 DEF Outcome
  <2> QED
    BY <2>1, <2>2, <2>3
<1>3. CASE Call(e, u)
  <2>1. Moved(e, u, "called") /\ e.at[u] = "reserved"
    BY <1>3 DEF Call
  <2>2. Outcome(e, u, "called")
    BY <1>3 DEF Outcome
  <2> QED
    BY <2>1, <2>2
<1>11. CASE SettlePrompt(e, u)
  <2>1. \E place \in {"billed", "failed"} : Moved(e, u, place)
    BY <1>11 DEF SettlePrompt
  <2>2. e.at[u] # "none"
    BY <1>11 DEF SettlePrompt
  <2>3. \A place \in {"billed", "failed"} : Outcome(e, u, place)
    BY <1>11 DEF Outcome
  <2> QED
    BY <2>1, <2>2, <2>3
<1>4. CASE LosePrompt(e, u) \/ FailCall(e, u) \/ Release(e, u)
  <2>1. \E place \in {"releasing", "failed"} : Moved(e, u, place)
    BY <1>4 DEF LosePrompt, FailCall, Release
  <2>2. e.at[u] # "none"
    BY <1>4 DEF LosePrompt, FailCall, Release
  <2>3. \A place \in {"releasing", "failed"} : Outcome(e, u, place)
    BY <1>4 DEF Outcome
  <2> QED
    BY <2>1, <2>2, <2>3
<1>5. CASE Confirm(e, u)
  <2> DEFINE place == IF u \in Images THEN IF Owns(e) THEN "fetched" ELSE "releasing"
                      ELSE IF Owns(e) THEN "recording" ELSE "failed"
  <2>1. Moved(e, u, place) /\ e.at[u] # "none"
    BY <1>5 DEF Confirm
  <2>2. place \in {"fetched", "releasing", "recording", "failed"}
    OBVIOUS
  <2>3. place = "recording" => e.at[u] = "billed"
    BY <1>5 DEF Confirm
  <2>4. Outcome(e, u, place)
    BY <1>5, <2>2, <2>3 DEF Outcome
  <2> QED
    BY <2>1, <2>4
<1>6. CASE Save(e, u)
  <2> DEFINE place == IF u \in Images THEN "stored" ELSE "done"
  <2>1. Moved(e, u, place) /\ e.at[u] # "none"
    BY <1>6 DEF Save
  <2>2. Outcome(e, u, place)
    BY <1>6 DEF Outcome
  <2> QED
    BY <2>1, <2>2
<1>7. CASE SettleImage(e, u)
  <2>1. Moved(e, u, "done") /\ e.at[u] = "stored"
    BY <1>7 DEF SettleImage
  <2>2. Outcome(e, u, "done")
    BY <1>7, <2>1 DEF Outcome
  <2> QED
    BY <2>1, <2>2
<1>8. CASE StartItem(e, u)
  <2> DEFINE place == IF ~ Owns(e) THEN "failed"
                      ELSE IF Completed(e.run, u) # {} THEN "done" ELSE "creating"
  <2>1. Moved(e, u, place) /\ e.at[u] # "none"
    BY <1>8 DEF StartItem, MayStart
  <2>2. Outcome(e, u, place)
    BY <1>8 DEF Outcome
  <2> QED
    BY <2>1, <2>2
<1>9. CASE InsertChild(e, u)
  <2>1. Outcome(e, u, "waiting") /\ e.at[u] # "none"
    BY <1>9 DEF Outcome, InsertChild
  <2> QED
    BY <1>9, <2>1
<1>10. CASE CollectChild(e, u)
  <2> DEFINE place == IF Owns(e) /\ Is(<<e.run, u, e.claim>>, "completed")
                      THEN "done" ELSE "failed"
  <2>1. Moved(e, u, place) /\ e.at[u] # "none"
    BY <1>10 DEF CollectChild
  <2>2. Outcome(e, u, place)
    BY <1>10 DEF Outcome
  <2> QED
    BY <2>1, <2>2
<1> QED
  BY <1>1, <1>2, <1>3, <1>4, <1>5, <1>6, <1>7, <1>8, <1>9, <1>10, <1>11 DEF UnitStep

\* What an execution of the next state is.
LEMMA ExecFate ==
  ASSUME TypeInv, FreshInv, [Next]_vars, NEW x \in execs'
  PROVE  \/ x \in execs
         \/ Begins(x)
         \/ \E e \in execs : \/ Loads(e, x) \/ Turns(e, x)
                              \/ \E u \in Work : Moves(e, u, x)
<1> SUFFICES ASSUME x \notin execs
             PROVE  \/ Begins(x)
                    \/ \E e \in execs : \/ Loads(e, x) \/ Turns(e, x)
                                         \/ \E u \in Work : Moves(e, u, x)
  OBVIOUS
<1>0. Unloaded /\ execs \subseteq Exec
  BY DEF FreshInv, TypeInv, CoreOK
<1>1. CASE \E e \in execs : Step(e)
  <2>1. PICK e \in execs : Step(e)
    BY <1>1
  <2>2. e \in Exec /\ e.at \in [Work -> Place]
    BY <1>0 DEF Exec
  <2>3. CASE Load(e)
    <3> DEFINE y == [e EXCEPT !.phase = "active", !.at = Loaded(e)]
    <3>1. x = y
      BY <2>3 DEF Load, Loaded
    <3>2. SameExec(e, y) /\ y.phase = "active" /\ y.at = Loaded(e)
      BY <2>2 DEF Exec, SameExec
    <3> HIDE DEF y
    <3> QED
      BY <2>3, <3>1, <3>2 DEF Loads
  <2>4. ASSUME NEW phase \in {"failing", "closing"}, Turned(e, phase),
               e.phase # "loading"
        PROVE  Turns(e, x)
    <3> DEFINE y == [e EXCEPT !.phase = phase]
    <3>1. x = y
      BY <2>4 DEF Turned
    <3>2. SameExec(e, y) /\ y.phase = phase /\ y.at = e.at
      BY <2>2 DEF Exec, SameExec
    <3> HIDE DEF y
    <3> QED
      BY <2>4, <3>1, <3>2 DEF Turns
  <2>5. CASE Complete(e) \/ Fail(e) \/ Close(e)
    <3>1. ~ Ended(e)
      BY DEF Ended
    <3>2. e.phase # "loading" /\ \E phase \in {"failing", "closing"} : Turned(e, phase)
      BY <2>5, <3>1 DEF Complete, Fail, Close
    <3> QED
      BY <2>4, <3>2
  <2>6. ASSUME NEW u \in Work, UnitStep(e, u), ~ InsertChild(e, u)
        PROVE  Moves(e, u, x)
    <3>1. PICK place : Outcome(e, u, place) /\ e.at[u] # "none" /\ Moved(e, u, place)
      BY <2>6, UnitMoves
    <3>2. x = [e EXCEPT !.at[u] = place]
      BY <3>1 DEF Moved
    <3> QED
      BY <1>0, <2>6, <3>1, <3>2, MovesExec
  <2>7. ASSUME NEW i \in Work, InsertChild(e, i)
        PROVE  Begins(x) \/ Moves(e, i, x)
    <3> DEFINE y == [e EXCEPT !.at[i] = "waiting"]
               z == [run |-> <<e.run, i, e.claim>>, claim |-> 1, worker |-> e.worker,
                     phase |-> "loading", at |-> [u \in Work |-> "none"]]
    <3>1. x = y \/ x = z
      BY <2>7 DEF InsertChild
    <3>2. i \in Items /\ e.run \in Roots /\ <<e.run, i, e.claim>> \in Children
      BY <2>7, InsertedChild
    <3>3. CASE x = y
      <4>1. Outcome(e, i, "waiting") /\ e.at[i] # "none"
        BY <2>7 DEF Outcome, InsertChild
      <4>2. UnitStep(e, i)
        BY <2>7 DEF UnitStep
      <4> QED
        BY <1>0, <3>3, <4>1, <4>2, MovesExec
    <3>4. CASE x = z
      <4>1. /\ z.phase = "loading" /\ \A u \in Work : z.at[u] = "none"
            /\ z.worker = e.worker /\ z.run = <<e.run, i, e.claim>>
        OBVIOUS
      <4> HIDE DEF z
      <4> QED
        BY <2>7, <3>2, <3>4, <4>1 DEF Begins
    <3> QED
      BY <3>1, <3>3, <3>4
  <2> QED
    BY <2>1, <2>3, <2>5, <2>6, <2>7 DEF Step, UnitStep
<1>2. CASE \E w \in Workers : Admit(w)
  <2>1. PICK w \in Workers : /\ choosing[w] # NoRun /\ Claimed(w, choosing[w])
                            /\ Is(choosing[w], "queued") /\ UNCHANGED <<open, progress>>
    BY <1>2 DEF Admit, books
  <2> DEFINE y == [run |-> choosing[w], claim |-> run[choosing[w]].attempts + 1,
                   worker |-> w, phase |-> "loading", at |-> [u \in Work |-> "none"]]
  <2>2. x = y
    BY <2>1 DEF Claimed
  <2>3. /\ y.phase = "loading" /\ \A u \in Work : y.at[u] = "none"
        /\ y.run = choosing[w] /\ y.claim = run[choosing[w]].attempts + 1
    OBVIOUS
  <2>4. /\ choosing[w] \in Roots
        /\ run'[choosing[w]].attempts = run[choosing[w]].attempts + 1
    BY <2>1, ClaimedRows
  <2> HIDE DEF y
  <2> QED
    BY <2>1, <2>2, <2>3, <2>4 DEF Begins
<1>3. CASE UNCHANGED vars \/ StaleStep \/ \E r \in Roots : Enqueue(r)
  BY <1>3 DEF vars, StaleStep, Enqueue
<1>4. CASE CancelStep
  BY <1>4, CancelStepRows
<1>5. CASE \E w \in Workers : \/ \E r \in Roots : Choose(w, r)
                              \/ Crash(w) \/ RecoverStep(w)
  BY <1>5 DEF Choose, Crash, RecoverStep, ListStale, RecoverRelease, Recover
<1> QED
  BY <1>1, <1>2, <1>3, <1>4, <1>5, Steps

-----------------------------------------------------------------------------
(* Success is real.                                                        *)

\* Only the end of its own execution completes a run, and it does nothing else.
Finishes(r, e) ==
  /\ e.run = r /\ Complete(e) /\ Owns(e)
  /\ \A s \in Runs \ {r} : run'[s] = run[s]

LEMMA NewCompletion ==
  ASSUME TypeInv, [Next]_vars, NEW r \in Runs,
         run'[r].status = "completed", run[r].status # "completed"
  PROVE  \E e \in execs : Finishes(r, e)
<1>0. run \in [Runs -> Row] /\ run[r] \in Row /\ open \subseteq Reservation
  BY DEF TypeInv, CoreOK
<1>1. ASSUME NEW q \in Roots, Enqueue(q) PROVE FALSE
  <2>1. CASE r = q
    BY <1>0, <1>1, <2>1, EnqueueRows
  <2>2. CASE r # q
    <3>1. run'[r] \in {run[r], [run[r] EXCEPT !.reserved = 0],
                       [Left(r, "cancelled") EXCEPT !.reserved = 0]}
      BY <1>0, <1>1, <2>2 DEF Enqueue
    <3>2. [Left(r, "cancelled") EXCEPT !.reserved = 0].status = "cancelled"
      BY <1>0, LeftRow DEF Statuses, Terminal
    <3>3. [run[r] EXCEPT !.reserved = 0].status = run[r].status
      BY <1>0 DEF Row
    <3> QED
      BY <3>1, <3>2, <3>3
  <2> QED
    BY <2>1, <2>2
<1>2. CASE CancelStep
  <2>1. Left(r, "cancelled").status = "cancelled"
    BY <1>0, LeftRow DEF Statuses, Terminal
  <2>2. ASSUME NEW q \in Runs, ReleaseOpen(q) \/ FinishRelease(q)
        PROVE  run'[r].status = run[r].status
    <3>1. run'[r] \in {run[r], [run[r] EXCEPT !.reserved = 0]}
      BY <1>0, <2>2 DEF ReleaseOpen, FinishRelease
    <3> QED
      BY <1>0, <3>1 DEF Row
  <2>3. CASE \E c \in Roots : Cancel(c)
    <3>1. run'[r] \in {run[r], Left(r, "cancelled")}
      BY <1>0, <2>3 DEF Cancel
    <3> QED
      BY <2>1, <3>1
  <2>4. CASE \E c \in cancels : CancelChildren(c)
    <3>1. run'[r] \in {run[r], Left(r, "cancelled")}
      BY <1>0, <2>4 DEF CancelChildren
    <3> QED
      BY <2>1, <3>1
  <2>5. CASE \E c \in cancels : CancelSelect(c) \/ CancelDies(c)
    BY <2>5 DEF CancelSelect, CancelDies, ledger, books
  <2>6. CASE \E c \in cancels : CancelRelease(c)
    <3>1. \E q \in Runs : ReleaseOpen(q)
      BY <2>6 DEF CancelRelease, TypeInv, CoreOK
    <3> QED
      BY <2>2, <3>1
  <2>7. CASE \E q \in Runs : FinishRelease(q)
    BY <2>2, <2>7
  <2> QED
    BY <1>2, <2>3, <2>4, <2>5, <2>6, <2>7 DEF CancelStep
<1>3. ASSUME NEW e \in execs, Step(e) PROVE \E d \in execs : Finishes(r, d)
  <2>1. e \in Exec /\ ExecShape(e) /\ e.run \in Runs
    BY DEF TypeInv, CoreOK, ExecsShaped, Exec
  <2>2. CASE Load(e)
    BY <2>2 DEF Load, ledger, books
  <2>3. CASE Close(e)
    <3>1. run'[r] \in {run[r], [run[r] EXCEPT !.reserved = 0]}
      BY <1>0, <2>3 DEF Close, ReleaseOpen
    <3> QED
      BY <1>0, <3>1 DEF Row
  <2>4. CASE Fail(e)
    <3>1. run'[r] \in {run[r], Left(r, "failed")}
      BY <1>0, <2>1, <2>4 DEF Fail
    <3> QED
      BY <1>0, <3>1, LeftRow DEF Statuses, Terminal
  <2>5. CASE Complete(e)
    <3>1. Owns(e)
      BY <2>5 DEF Complete
    <3>2. run' = [run EXCEPT ![e.run] = [Left(e.run, "completed") EXCEPT !.reserved = 0]]
      BY <2>5, <3>1 DEF Complete
    <3>3. r = e.run /\ \A s \in Runs \ {r} : run'[s] = run[s]
      BY <1>0, <3>2
    <3> QED
      BY <2>5, <3>1, <3>3 DEF Finishes
  <2>6. ASSUME NEW u \in Work, UnitStep(e, u) PROVE FALSE
    <3>1. CASE CallStep(e, u)
      BY <3>1, CallRows DEF SameRows, SameRow
    <3>2. CASE StartItem(e, u) \/ CollectChild(e, u)
      BY <3>2 DEF StartItem, CollectChild, ledger, books
    <3>3. CASE InsertChild(e, u)
      <4>1. /\ run' = [run EXCEPT ![<<e.run, u, e.claim>>] = ChildRow(e.worker)]
            /\ ChildRow(e.worker).status = "running"
        BY <3>3, InsertedChild
      <4> QED
        BY <1>0, <4>1
    <3> QED
      BY <2>6, <3>1, <3>2, <3>3 DEF UnitStep, CallStep
  <2> QED
    BY <1>3, <2>2, <2>3, <2>4, <2>5, <2>6 DEF Step
<1>4. ASSUME NEW w \in Workers, Admit(w) PROVE FALSE
  <2>1. CASE UNCHANGED run
    BY <2>1
  <2>2. CASE ~ UNCHANGED run
    <3>1. choosing[w] # NoRun /\ Claimed(w, choosing[w])
      BY <1>4, <2>2 DEF Admit
    <3> QED
      BY <1>0, <3>1, ClaimedRows
  <2> QED
    BY <2>1, <2>2
<1>5. ASSUME NEW w \in Workers, RecoverStep(w) PROVE FALSE
  <2>1. CASE ListStale(w)
    BY <2>1 DEF ListStale, ledger, books
  <2>2. CASE RecoverRelease(w)
    <3>1. run'[r] \in {run[r], [run[r] EXCEPT !.reserved = 0]}
      BY <1>0, <2>2 DEF RecoverRelease, ReleaseOpen
    <3> QED
      BY <1>0, <3>1 DEF Row
  <2>3. ASSUME NEW s \in recovery[w].todo, Recover(w, s) PROVE FALSE
    <3>1. SameRow(r) \/ run'[r].status = Verdict(s)
      BY <2>3, RecoverRows
    <3>2. Verdict(s) # "completed"
      BY DEF Verdict
    <3> QED
      BY <3>1, <3>2 DEF SameRow
  <2> QED
    BY <1>5, <2>1, <2>2, <2>3 DEF RecoverStep
<1>6. CASE StaleStep
  BY <1>6, StaleRows DEF StaleStep
<1>7. CASE \E w \in Workers : (\E q \in Roots : Choose(w, q)) \/ Crash(w)
  BY <1>7 DEF Choose, Crash, ledger, books
<1>8. CASE UNCHANGED vars
  BY <1>8 DEF vars
<1> QED
  BY <1>1, <1>2, <1>3, <1>4, <1>5, <1>6, <1>7, <1>8, Steps

\* An output stays stored, and is stored by a step of the run's execution.
LEMMA SavedGrows ==
  ASSUME TypeInv, [Next]_vars, NEW r \in Runs
  PROVE  /\ saved[r] \subseteq saved'[r]
         /\ \A u \in saved'[r] \ saved[r] :
              \E e \in execs : e.run = r /\ u \in Units /\ Save(e, u)
<1>0. saved \in [Runs -> SUBSET Units] /\ open \subseteq Reservation
  BY DEF TypeInv, CoreOK, Units
<1>1. CASE saved' = saved
  BY <1>1
<1>2. ASSUME NEW e \in execs, NEW u \in Work, CallStep(e, u)
      PROVE  saved' = saved \/ Save(e, u)
  BY <1>2 DEF CallStep, StartCall, Reserve, Call, SettlePrompt, LosePrompt, Confirm, Save,
     SettleImage, FailCall, Release, progress
<1>3. ASSUME NEW e \in execs, Step(e)
      PROVE  saved' = saved \/ \E u \in Work : Save(e, u)
  <2>1. CASE Load(e) \/ Complete(e) \/ Fail(e) \/ Close(e)
    BY <2>1 DEF Load, Complete, Fail, Close, progress
  <2>2. ASSUME NEW u \in Work, StartItem(e, u) \/ InsertChild(e, u) \/ CollectChild(e, u)
        PROVE  saved' = saved
    BY <2>2 DEF StartItem, InsertChild, CollectChild, progress
  <2> QED
    BY <1>2, <1>3, <2>1, <2>2 DEF Step, UnitStep, CallStep
<1>4. ASSUME NEW e \in execs, NEW u \in Work, Save(e, u)
      PROVE  /\ saved[r] \subseteq saved'[r]
             /\ \A v \in saved'[r] \ saved[r] : e.run = r /\ v = u /\ u \in Units
  <2>1. e \in Exec /\ ExecShape(e) /\ e.run \in Runs
    BY DEF TypeInv, CoreOK, ExecsShaped, Exec
  <2>2. CallStep(e, u)
    BY <1>4 DEF CallStep
  <2>3. u \in Units
    BY <2>1, <2>2, CallUnit
  <2>4. saved' = [saved EXCEPT ![e.run] = saved[e.run] \cup {u}]
    BY <1>0, <1>4, <2>1 DEF Save
  <2> QED
    BY <1>0, <2>1, <2>3, <2>4
<1>5. CASE \E e \in execs : Step(e)
  BY <1>1, <1>3, <1>4, <1>5
<1>6. CASE UNCHANGED vars \/ StaleStep \/ \E q \in Roots : Enqueue(q)
  BY <1>1, <1>6 DEF vars, StaleStep, Enqueue, progress
<1>7. CASE CancelStep
  BY <1>1, <1>7, CancelStepRows DEF progress
<1>8. CASE \E w \in Workers : \/ \E q \in Roots : Choose(w, q)
                              \/ Admit(w) \/ Crash(w) \/ RecoverStep(w)
  BY <1>1, <1>8 DEF Choose, Admit, Crash, RecoverStep, ListStale, RecoverRelease, Recover,
     progress
<1> QED
  BY <1>5, <1>6, <1>7, <1>8, Steps

\* What an execution has passed is there: its outputs are stored, its items have a
\* completed child; and what it has to do is on its list.
Earned(e) ==
  /\ \A u \in Units : e.at[u] \in {"stored", "done"} => u \in saved[e.run]
  /\ \A i \in Items : e.at[i] = "done" => Completed(e.run, i) # {}
  /\ e.phase # "loading" => \A u \in WorkOf(e.run) : e.at[u] # "none"
AllEarned == \A e \in execs : Earned(e)

\* A completed run has done its work.
Whole ==
  \A r \in Runs : Is(r, "completed") =>
    /\ WorkOf(r) \ Items \subseteq saved[r]
    /\ \A i \in WorkOf(r) \cap Items : Completed(r, i) # {}

LEMMA CompletedStays ==
  ASSUME TypeInv, FreshInv, [Next]_vars, NEW r, NEW i
  PROVE  Completed(r, i) \subseteq Completed(r, i)'
<1>1. ASSUME NEW c \in Children, Is(c, "completed") PROVE Is(c, "completed")'
  BY <1>1, TerminalStays DEF Is, Terminal, Runs
<1> QED
  BY <1>1 DEF Completed

LEMMA EarnedStep ==
  ASSUME TypeInv, FreshInv, AllEarned, [Next]_vars
  PROVE  AllEarned'
<1> SUFFICES ASSUME NEW x \in execs' PROVE Earned(x)'
  BY DEF AllEarned
<1>1. ASSUME NEW e \in execs, SameExec(e, x), x.phase # "loading" => e.phase # "loading",
             NEW u \in Work,
             \A v \in Work \ {u} : x.at[v] = e.at[v],
             u \in Units /\ x.at[u] \in {"stored", "done"} => u \in saved'[e.run],
             u \in Items /\ x.at[u] = "done" => Completed(e.run, u)' # {},
             x.at[u] # "none"
      PROVE  Earned(x)'
  <2>1. e.run \in Runs /\ x.run = e.run
    BY <1>1 DEF TypeInv, CoreOK, Exec, SameExec
  <2>2. ASSUME NEW v \in Units, x.at[v] \in {"stored", "done"} PROVE v \in saved'[x.run]
    <3>1. CASE v = u
      BY <1>1, <2>1, <2>2, <3>1
    <3>2. CASE v # u
      <4>1. v \in saved[e.run]
        BY <1>1, <2>2, <3>2, WorkNames DEF AllEarned, Earned
      <4> QED
        BY <2>1, <4>1, SavedGrows
    <3> QED
      BY <3>1, <3>2
  <2>3. ASSUME NEW i \in Items, x.at[i] = "done" PROVE Completed(x.run, i)' # {}
    <3>1. CASE i = u
      BY <1>1, <2>1, <2>3, <3>1
    <3>2. CASE i # u
      <4>1. Completed(e.run, i) # {}
        BY <1>1, <2>3, <3>2, WorkNames DEF AllEarned, Earned
      <4> QED
        BY <2>1, <4>1, CompletedStays
    <3> QED
      BY <3>1, <3>2
  <2>4. ASSUME x.phase # "loading", NEW v \in WorkOf(x.run) PROVE x.at[v] # "none"
    <3>1. v \in Work
      BY <2>1, WorkNames
    <3> QED
      BY <1>1, <2>1, <2>4, <3>1 DEF AllEarned, Earned
  <2> QED
    BY <2>2, <2>3, <2>4 DEF Earned
<1>2. ASSUME NEW e \in execs, SameExec(e, x), x.phase # "loading" => e.phase # "loading",
             x.at = e.at
      PROVE  Earned(x)'
  <2>1. e.run \in Runs /\ x.run = e.run
    BY <1>2 DEF TypeInv, CoreOK, Exec, SameExec
  <2>2. \A v \in Units : x.at[v] \in {"stored", "done"} => v \in saved'[x.run]
    BY <1>2, <2>1, SavedGrows DEF AllEarned, Earned
  <2>3. \A i \in Items : x.at[i] = "done" => Completed(x.run, i)' # {}
    BY <1>2, <2>1, CompletedStays DEF AllEarned, Earned
  <2>4. x.phase # "loading" => \A u \in WorkOf(x.run) : x.at[u] # "none"
    BY <1>2, <2>1 DEF AllEarned, Earned
  <2> QED
    BY <2>2, <2>3, <2>4 DEF Earned
<1>3. CASE x \in execs
  BY <1>2, <1>3 DEF SameExec
<1>4. CASE Begins(x)
  <2>1. x.phase = "loading" /\ \A u \in Work : x.at[u] = "none"
    BY <1>4 DEF Begins
  <2> QED
    BY <2>1, WorkNames DEF Earned
<1>5. ASSUME NEW e \in execs, Loads(e, x) PROVE Earned(x)'
  <2>1. /\ x.run = e.run /\ e.run \in Runs /\ WorkOf(e.run) \subseteq Work
        /\ x.at = Loaded(e) /\ x.phase = "active"
    BY <1>5, WorkNames DEF Loads, SameExec, TypeInv, CoreOK, Exec
  <2>2. ASSUME NEW u \in Units, x.at[u] \in {"stored", "done"} PROVE u \in saved'[x.run]
    <3>1. u \in saved[e.run]
      BY <2>1, <2>2, WorkNames DEF Loaded
    <3> QED
      BY <2>1, <3>1, SavedGrows
  <2>3. ASSUME NEW i \in Items PROVE x.at[i] # "done"
    <3>1. i \in Work /\ i \notin Prompts
      BY WorkNames DEF Units
    <3> QED
      BY <2>1, <3>1 DEF Loaded
  <2>4. \A u \in WorkOf(x.run) : x.at[u] # "none"
    BY <2>1 DEF Loaded
  <2> QED
    BY <2>2, <2>3, <2>4 DEF Earned
<1>6. ASSUME NEW e \in execs, Turns(e, x) PROVE Earned(x)'
  BY <1>2, <1>6 DEF Turns
<1>7. ASSUME NEW e \in execs, NEW u \in Work, Moves(e, u, x) PROVE Earned(x)'
  <2>0. e \in Exec /\ ExecShape(e) /\ e.run \in Runs
    BY DEF TypeInv, CoreOK, ExecsShaped, Exec
  <2>1. /\ SameExec(e, x) /\ x.phase = e.phase /\ Outcome(e, u, x.at[u])
        /\ \A v \in Work \ {u} : x.at[v] = e.at[v]
    BY <1>7 DEF Moves
  <2>2. x.at[u] # "none"
    BY <2>1 DEF Outcome
  <2>3. ASSUME u \in Units, x.at[u] \in {"stored", "done"} PROVE u \in saved'[e.run]
    <3>1. u \notin Items
      BY <2>3, WorkNames
    <3>2. CASE Save(e, u)
      BY <2>0, <3>2 DEF Save, TypeInv, CoreOK
    <3>3. CASE ~ Save(e, u)
      <4>1. u \in saved[e.run]
        <5>1. CASE e.at[u] = "stored"
          BY <2>3, <5>1 DEF AllEarned, Earned
        <5>2. CASE e.at[u] # "stored"
          <6>1. ~ CollectChild(e, u)
            BY <2>0, <3>1, Places DEF CollectChild
          <6>2. ~ StartItem(e, u)
            BY <3>1 DEF StartItem
          <6> QED
            BY <2>1, <2>3, <3>3, <5>2, <6>1, <6>2 DEF Outcome
        <5> QED
          BY <5>1, <5>2
      <4> QED
        BY <2>0, <4>1, SavedGrows
    <3> QED
      BY <3>2, <3>3
  <2>4. ASSUME u \in Items, x.at[u] = "done" PROVE Completed(e.run, u)' # {}
    <3>1. ~ CallStep(e, u)
      BY <2>0, <2>4, CallUnit
    <3>2. \/ StartItem(e, u) /\ Completed(e.run, u) # {}
          \/ CollectChild(e, u) /\ Is(<<e.run, u, e.claim>>, "completed")
      BY <2>1, <2>4, <3>1 DEF Outcome, CallStep
    <3>3. ASSUME CollectChild(e, u), Is(<<e.run, u, e.claim>>, "completed")
          PROVE  <<e.run, u, e.claim>> \in Completed(e.run, u)
      <4>1. <<e.run, u, e.claim>> \in Children
        BY <2>0, <2>4, <3>3, Places, RunNames DEF CollectChild, Exec
      <4> QED
        BY <3>3, <4>1 DEF Completed
    <3>4. Completed(e.run, u) # {}
      BY <3>2, <3>3
    <3> QED
      BY <3>4, CompletedStays
  <2> QED
    BY <1>1, <2>1, <2>2, <2>3, <2>4
<1> QED
  BY <1>3, <1>4, <1>5, <1>6, <1>7, ExecFate

LEMMA WholeStep ==
  ASSUME TypeInv, FreshInv, AllEarned, Whole, [Next]_vars
  PROVE  Whole'
<1> SUFFICES ASSUME NEW r \in Runs, run'[r].status = "completed"
             PROVE  /\ WorkOf(r) \ Items \subseteq saved'[r]
                    /\ \A i \in WorkOf(r) \cap Items : Completed(r, i)' # {}
  BY DEF Whole, Is
<1>1. /\ WorkOf(r) \ Items \subseteq saved[r]
      /\ \A i \in WorkOf(r) \cap Items : Completed(r, i) # {}
  <2>1. CASE run[r].status = "completed"
    BY <2>1 DEF Whole, Is
  <2>2. CASE run[r].status # "completed"
    <3>1. PICK e \in execs : Finishes(r, e)
      BY <2>2, NewCompletion
    <3>2. e.run = r /\ e.phase = "active" /\ \A u \in Work : e.at[u] \in {"none", "done"}
      BY <3>1 DEF Finishes, Complete, AllDone
    <3>3. \A u \in WorkOf(r) : u \in Work /\ e.at[u] = "done"
      BY <3>2, WorkNames DEF AllEarned, Earned
    <3> QED
      BY <3>2, <3>3, WorkNames DEF AllEarned, Earned
  <2> QED
    BY <2>1, <2>2
<1> QED
  BY <1>1, SavedGrows, CompletedStays

\* Those who work are of the last claim of their root, unless it was taken from a
\* living worker: nobody claims a run while an execution of it, or of a child of it,
\* lives.
OfLastClaim ==
  \A e \in execs :
    /\ e.run \in Roots \ seized => e.claim = run[e.run].attempts
    /\ e.run \in Children /\ e.run[1] \notin seized =>
         /\ e.run[3] = run[e.run[1]].attempts
         /\ \/ run[e.run[1]].status \in Terminal
            \/ Running(e.run[1]) /\ run[e.run[1]].worker = e.worker

\* The attempts of a root change only when nobody works for it, and a root that has
\* been worked for is running or has ended.
LEMMA RootStays ==
  ASSUME TypeInv, FreshInv, OwnersInv, OfLastClaim, [Next]_vars,
         NEW e \in execs, NEW r \in Roots \ seized',
         e.run = r \/ (e.run \in Children /\ e.run[1] = r)
  PROVE  /\ run'[r].attempts = run[r].attempts
         /\ \/ run'[r].status \in Terminal
            \/ run'[r].status = "running" /\ run'[r].worker = e.worker
<1>1. /\ r \in Runs /\ r \notin Children /\ RowStep(r) /\ r \notin seized
  BY RunNames, RowSteps, SeizedGrows DEF Runs
<1>2. run[r].status \in Terminal \/ (Running(r) /\ run[r].worker = e.worker)
  BY <1>1 DEF OwnersInv, Held, OfLastClaim, Owns
<1>3. ~ Requeued(r)
  <2> SUFFICES ASSUME Requeued(r) PROVE FALSE
    OBVIOUS
  <2>1. Running(r) /\ run[r].worker = e.worker /\ e.worker \in alive
    BY <1>2 DEF Requeued, Running, Is, Terminal, OwnersInv, LivingWork
  <2> QED
    BY <2>1 DEF Requeued
<1> QED
  BY <1>1, <1>2, <1>3 DEF RowStep, Kept, Ends, Accepted, Enqueue, Taken, Created,
     Running, Is, Live, Terminal

LEMMA LastClaimStep ==
  ASSUME TypeInv, FreshInv, OwnersInv, OfLastClaim, [Next]_vars
  PROVE  OfLastClaim'
<1> DEFINE Good(x) ==
      /\ x.run \in Roots \ seized' => x.claim = run'[x.run].attempts
      /\ x.run \in Children /\ x.run[1] \notin seized' =>
           /\ x.run[3] = run'[x.run[1]].attempts
           /\ \/ run'[x.run[1]].status \in Terminal
              \/ /\ run'[x.run[1]].status = "running"
                 /\ run'[x.run[1]].worker = x.worker
<1>1. ASSUME NEW e \in execs, NEW x, SameExec(e, x) PROVE Good(x)
  <2>1. x.run = e.run /\ x.claim = e.claim /\ x.worker = e.worker
    BY <1>1 DEF SameExec
  <2>0. seized \subseteq seized'
    BY SeizedGrows
  <2>2. e.run \in Roots \ seized' => e.claim = run'[e.run].attempts
    BY <2>0, RootStays DEF OfLastClaim
  <2>3. ASSUME e.run \in Children, e.run[1] \notin seized'
        PROVE  /\ e.run[3] = run'[e.run[1]].attempts
               /\ \/ run'[e.run[1]].status \in Terminal
                  \/ /\ run'[e.run[1]].status = "running"
                     /\ run'[e.run[1]].worker = e.worker
    BY <2>0, <2>3, RootStays, RunNames DEF OfLastClaim
  <2> QED
    BY <2>1, <2>2, <2>3
<1>2. ASSUME NEW x, Begins(x), x \in execs' PROVE Good(x)
  <2>1. CASE x.run \in Roots /\ x.claim = run'[x.run].attempts
    BY <2>1, RunNames
  <2>2. ASSUME NEW e \in execs, NEW i \in Items,
               e.run \in Roots, x.worker = e.worker,
               x.run = <<e.run, i, e.claim>>, x.run \in Children
        PROVE  Good(x)
    <3>1. e.run \notin seized' =>
            /\ e.claim = run'[e.run].attempts
            /\ \/ run'[e.run].status \in Terminal
               \/ run'[e.run].status = "running" /\ run'[e.run].worker = e.worker
      BY <2>2, RootStays, SeizedGrows DEF OfLastClaim
    <3>2. x.run[1] = e.run /\ x.run[3] = e.claim /\ x.run \notin Roots
      BY <2>2, RunNames
    <3> QED
      BY <2>2, <3>1, <3>2
  <2> QED
    BY <1>2, <2>1, <2>2 DEF Begins
<1>3. \A x \in execs' : Good(x)
  <2> SUFFICES ASSUME NEW x \in execs' PROVE Good(x)
    OBVIOUS
  <2>1. x \in execs \/ Begins(x) \/ \E e \in execs : SameExec(e, x)
    BY ExecFate DEF Loads, Turns, Moves
  <2>2. CASE x \in execs
    BY <1>1, <2>2 DEF SameExec
  <2> QED
    BY <1>1, <1>2, <2>1, <2>2
<1> QED
  BY <1>3 DEF OfLastClaim, Running, Is

\* Two executions of one run are one, unless it was taken from a living worker.
LEMMA OneExec ==
  ASSUME TypeInv, FreshInv, OwnersInv, OfLastClaim, NEW d \in execs, NEW e \in execs,
         d.run = e.run, d.run \notin seized
  PROVE  d = e
<1>1. d.run \in Roots \/ d.run \in Children
  BY DEF TypeInv, CoreOK, Exec, Runs
<1> QED
  BY <1>1 DEF FreshInv, ClaimUnique, OfLastClaim, OwnersInv, ChildExecs

\* An item of a root that was not taken from a living worker has one completed child:
\* one that is about to be created, or that is executed, has no completed sibling.
Single ==
  /\ \A r \in Roots \ seized, i \in Items : \A c, d \in Completed(r, i) : c = d
  /\ \A e \in execs, i \in Items :
       e.run \in Roots \ seized /\ e.at[i] = "creating" => Completed(e.run, i) = {}
  /\ \A e \in execs :
       e.run \in Children /\ e.run[1] \notin seized
         => Completed(e.run[1], e.run[2]) \subseteq {e.run}

\* A child that completes is the one of its item's last claim.
LEMMA NewlyCompleted ==
  ASSUME TypeInv, OfLastClaim, [Next]_vars, NEW r \in Roots \ seized, NEW i \in Items,
         NEW c \in Completed(r, i)', c \notin Completed(r, i)
  PROVE  /\ c = <<r, i, run[r].attempts>> /\ Running(c)
         /\ \E e \in execs : e.run = c /\ Finishes(c, e)
<1>1. /\ c \in Children /\ c[1] = r /\ c[2] = i /\ c \in Runs
      /\ run'[c].status = "completed" /\ run[c].status # "completed"
  BY DEF Completed, Is, Runs
<1>2. PICK e \in execs : Finishes(c, e)
  BY <1>1, NewCompletion
<1>3. e.run = c /\ Running(c)
  BY <1>2 DEF Finishes, Owns
<1>4. c[3] = run[r].attempts
  BY <1>1, <1>3 DEF OfLastClaim
<1> QED
  BY <1>1, <1>2, <1>3, <1>4, RunNames

LEMMA SingleStep ==
  ASSUME TypeInv, FreshInv, OwnersInv, OfLastClaim, Single, [Next]_vars
  PROVE  Single'
<1>0. seized \subseteq seized'
  BY SeizedGrows
<1>1. ASSUME NEW r \in Roots \ seized', NEW i \in Items, NEW c \in Completed(r, i)',
             NEW d \in Completed(r, i)', c # d, c \notin Completed(r, i)
      PROVE  FALSE
  <2>1. PICK e \in execs : e.run = c /\ Finishes(c, e)
    BY <1>0, <1>1, NewlyCompleted
  <2>2. /\ c \in Children /\ c[1] = r /\ c[2] = i /\ d \in Children /\ d[1] = r /\ d[2] = i
        /\ d \in Runs \ {c} /\ run'[d].status = "completed"
    BY <1>1 DEF Completed, Is, Runs
  <2>3. d \in Completed(r, i)
    BY <2>1, <2>2 DEF Finishes, Completed, Is
  <2> QED
    BY <1>0, <1>1, <2>1, <2>2, <2>3 DEF Single
<1>2. ASSUME NEW x \in execs', NEW i \in Items, x.run \in Roots \ seized',
             x.at[i] = "creating"
      PROVE  Completed(x.run, i)' = {}
  <2>0. i \in Work
    BY WorkNames
  <2>1. CASE \E e \in execs : SameExec(e, x) /\ e.at[i] = "creating"
    <3>1. PICK e \in execs : SameExec(e, x) /\ e.at[i] = "creating"
      BY <2>1
    <3>2. e.run = x.run /\ Completed(x.run, i) = {} /\ e.claim = run[e.run].attempts
      BY <1>0, <1>2, <3>1 DEF Single, SameExec, OfLastClaim
    <3>3. Is(<<e.run, i, e.claim>>, "absent")
      BY <1>2, <3>1, <3>2 DEF FreshInv, ItemsFresh
    <3>4. ASSUME NEW c \in Completed(x.run, i)' PROVE FALSE
      <4>1. c = <<e.run, i, e.claim>> /\ Running(c)
        BY <1>0, <1>2, <3>2, <3>4, NewlyCompleted
      <4> QED
        BY <3>3, <4>1 DEF Running, Is
    <3> QED
      BY <3>4
  <2>2. ASSUME NEW e \in execs, Moves(e, i, x) PROVE Completed(x.run, i)' = {}
    <3>1. /\ x.run = e.run /\ StartItem(e, i) /\ Completed(e.run, i) = {}
      BY <1>2, <2>2 DEF Moves, SameExec, Outcome
    <3>2. run' = run
      BY <3>1 DEF StartItem, ledger, books
    <3> QED
      BY <3>1, <3>2 DEF Completed, Is
  <2>3. CASE x \in execs
    BY <1>2, <2>1, <2>3 DEF SameExec
  <2>4. CASE Begins(x)
    BY <1>2, <2>0, <2>4 DEF Begins
  <2>5. ASSUME NEW e \in execs, Loads(e, x) PROVE FALSE
    BY <1>2, <2>0, <2>5 DEF Loads, Loaded
  <2>6. ASSUME NEW e \in execs, Turns(e, x) PROVE Completed(x.run, i)' = {}
    BY <1>2, <2>1, <2>6 DEF Turns
  <2>7. ASSUME NEW e \in execs, NEW u \in Work, Moves(e, u, x)
        PROVE  Completed(x.run, i)' = {}
    <3>1. CASE u = i
      BY <2>2, <2>7, <3>1
    <3>2. CASE u # i
      BY <1>2, <2>0, <2>1, <2>7, <3>2 DEF Moves
    <3> QED
      BY <3>1, <3>2
  <2> QED
    BY <2>3, <2>4, <2>5, <2>6, <2>7, ExecFate
<1>3. ASSUME NEW x \in execs', x.run \in Children, x.run[1] \notin seized',
             NEW c \in Completed(x.run[1], x.run[2])'
      PROVE  c = x.run
  <2>0. /\ x.run[1] \in Roots \ seized /\ x.run[2] \in Items
        /\ x.run = <<x.run[1], x.run[2], x.run[3]>>
    BY <1>0, <1>3, RunNames
  <2>1. CASE \E e \in execs : SameExec(e, x)
    <3>1. PICK e \in execs : SameExec(e, x)
      BY <2>1
    <3>2. e.run = x.run /\ e.run[3] = run[e.run[1]].attempts
      BY <1>3, <2>0, <3>1 DEF SameExec, OfLastClaim
    <3>3. CASE c \in Completed(x.run[1], x.run[2])
      BY <1>3, <2>0, <3>1, <3>2, <3>3 DEF Single, SameExec
    <3>4. CASE c \notin Completed(x.run[1], x.run[2])
      <4>1. c = <<x.run[1], x.run[2], run[x.run[1]].attempts>>
        BY <1>3, <2>0, <3>4, NewlyCompleted
      <4> QED
        BY <2>0, <3>2, <4>1
    <3> QED
      BY <3>3, <3>4
  <2>2. CASE Begins(x)
    <3>1. PICK e \in execs, i \in Items :
            InsertChild(e, i) /\ e.run \in Roots /\ x.run = <<e.run, i, e.claim>>
      BY <1>3, <2>2, RunNames DEF Begins
    <3>3. x.run[1] = e.run /\ x.run[2] = i
      BY <3>1
    <3>2. e.at[i] = "creating" /\ Completed(e.run, i) = {} /\ e.claim = run[e.run].attempts
      BY <2>0, <3>1, <3>3 DEF InsertChild, Single, OfLastClaim
    <3>4. c = <<e.run, i, run[e.run].attempts>>
      BY <1>3, <2>0, <3>1, <3>2, <3>3, NewlyCompleted
    <3> QED
      BY <3>1, <3>2, <3>4
  <2> QED
    BY <2>1, <2>2, ExecFate DEF Loads, Turns, Moves, SameExec
<1>4. ASSUME NEW r \in Roots \ seized', NEW i \in Items, NEW c \in Completed(r, i)',
             NEW d \in Completed(r, i)'
      PROVE  c = d
  <2>1. CASE c \in Completed(r, i) /\ d \in Completed(r, i)
    BY <1>0, <2>1 DEF Single
  <2>2. CASE c \notin Completed(r, i)
    BY <1>1, <2>2
  <2>3. CASE d \notin Completed(r, i)
    BY <1>1, <2>3
  <2> QED
    BY <2>1, <2>2, <2>3
<1>5. \A x \in execs' :
        x.run \in Children /\ x.run[1] \notin seized'
          => Completed(x.run[1], x.run[2])' \subseteq {x.run}
  BY <1>3
<1> QED
  BY <1>2, <1>4, <1>5 DEF Single

SuccessInv == AllEarned /\ Whole /\ OfLastClaim /\ Single

LEMMA SuccessInit == Init => SuccessInv
<1> SUFFICES ASSUME Init PROVE SuccessInv
  OBVIOUS
<1>1. execs = {} /\ \A r \in Runs : run[r].status = "absent"
  BY DEF Init, NoRow
<1>2. \A r, i : Completed(r, i) = {}
  BY <1>1 DEF Completed, Is, Runs
<1>3. AllEarned /\ OfLastClaim /\ Whole
  BY <1>1 DEF AllEarned, OfLastClaim, Whole, Is
<1>4. Single
  BY <1>1, <1>2 DEF Single
<1> QED
  BY <1>3, <1>4 DEF SuccessInv

LEMMA SuccessStep ==
  TypeInv /\ FreshInv /\ OwnersInv /\ SuccessInv /\ [Next]_vars => SuccessInv'
BY EarnedStep, WholeStep, LastClaimStep, SingleStep DEF SuccessInv

\* No run is called a success that is none; and no item is bought twice by a root that
\* was not taken from a living worker: a claim looks for a completed child when nobody
\* works for the root any more but itself.
THEOREM SuccessesAreReal == Safe => []SuccessIsReal
<1>1. SuccessInv => SuccessIsReal
  <2> SUFFICES ASSUME SuccessInv PROVE SuccessIsReal
    OBVIOUS
  <2>1. ASSUME NEW r \in Roots, NEW i \in RootWork \cap Items
        PROVE  /\ r \in seized \/ Cardinality(Completed(r, i)) <= 1
               /\ Is(r, "completed") => Completed(r, i) # {}
    <3>3. ASSUME r \notin seized PROVE Cardinality(Completed(r, i)) <= 1
      <4>0. \A c, d \in Completed(r, i) : c = d
        BY <2>1, <3>3 DEF SuccessInv, Single
      <4>3. Completed(r, i) = {} \/ \E c : Completed(r, i) = {c}
        BY <4>0
      <4>1. CASE Completed(r, i) = {}
        BY <4>1, FS_EmptySet
      <4>2. ASSUME NEW c, Completed(r, i) = {c} PROVE Cardinality(Completed(r, i)) <= 1
        <5>1. Cardinality({c}) = 1
          BY FS_Singleton
        <5> QED
          BY <4>2, <5>1
      <4> QED
        BY <4>1, <4>2, <4>3
    <3>4. WorkOf(r) = RootWork /\ r \in Runs
      BY DEF WorkOf, Runs
    <3> QED
      BY <3>3, <3>4 DEF SuccessInv, Whole
  <2>2. \A r \in Runs : Is(r, "completed") => WorkOf(r) \ Items \subseteq saved[r]
    BY DEF SuccessInv, Whole
  <2> QED
    BY <2>1, <2>2 DEF SuccessIsReal
<1> QED
  BY <1>1, TypesInit, TypesStep, FreshInit, FreshStep, OwnersInit, OwnersStep,
     SuccessInit, SuccessStep, PTL DEF Safe

-----------------------------------------------------------------------------
(* No prompt is repeated.                                                  *)

\* Only runs that are executed, or have ended, have a usage that is uncertain, unless
\* they were taken from a living worker.
PendingKnown ==
  \A r \in Runs \ seized, u \in Prompts :
    <<r, u>> \in pending => Running(r) \/ run[r].status \in Terminal

\* A prompt whose call is still to come has then neither an output nor an uncertain
\* usage.
Unplayed ==
  \A e \in execs, u \in Prompts :
    e.run \notin seized =>
    /\ e.at[u] \in {"idle", "started", "reserved", "called", "billed", "recording"}
         => u \notin saved[e.run]
    /\ e.phase = "loading" \/ e.at[u] \in {"idle", "started", "reserved"}
         => <<e.run, u>> \notin pending

PromptInv == ChildrenStayWithParent /\ OfLastClaim /\ PendingKnown /\ Unplayed

\* A usage becomes uncertain by the call of a run's execution.
LEMMA NewPending ==
  ASSUME TypeInv, [Next]_vars, NEW r \in Runs, NEW u \in Prompts,
         <<r, u>> \in pending', <<r, u>> \notin pending
  PROVE  \E e \in execs : e.run = r /\ Call(e, u)
<1>1. ASSUME NEW e \in execs, Step(e) PROVE e.run = r /\ Call(e, u)
  <2>1. CASE Load(e) \/ Complete(e) \/ Fail(e) \/ Close(e)
    BY <2>1 DEF Load, Complete, Fail, Close, progress
  <2>2. ASSUME NEW v \in Work, StartItem(e, v) \/ InsertChild(e, v) \/ CollectChild(e, v)
        PROVE  FALSE
    BY <2>2 DEF StartItem, InsertChild, CollectChild, progress
  <2>3. ASSUME NEW v \in Work, CallStep(e, v) PROVE e.run = r /\ Call(e, u)
    <3>1. CASE Call(e, v)
      <4>1. pending' \subseteq pending \cup {<<e.run, v>>}
        BY <3>1 DEF Call
      <4>2. e.run = r /\ v = u
        BY <4>1
      <4> QED
        BY <3>1, <4>2
    <3>2. CASE ~ Call(e, v)
      BY <2>3, <3>2 DEF CallStep, StartCall, Reserve, SettlePrompt, LosePrompt, Confirm, Save,
         SettleImage, FailCall, Release, progress
    <3> QED
      BY <3>1, <3>2
  <2> QED
    BY <1>1, <2>1, <2>2, <2>3 DEF Step, UnitStep, CallStep
<1>2. CASE UNCHANGED vars \/ StaleStep \/ \E q \in Roots : Enqueue(q)
  BY <1>2 DEF vars, StaleStep, Enqueue, progress
<1>3. CASE CancelStep
  BY <1>3, CancelStepRows DEF progress
<1>4. CASE \E w \in Workers : \/ \E q \in Roots : Choose(w, q)
                              \/ Admit(w) \/ Crash(w) \/ RecoverStep(w)
  BY <1>4 DEF Choose, Admit, Crash, RecoverStep, ListStale, RecoverRelease, Recover,
     progress
<1> QED
  BY <1>1, <1>2, <1>3, <1>4, Steps

\* A run that is requeued has no uncertain usage.
LEMMA RequeuedClean ==
  ASSUME TypeInv, [Next]_vars, NEW r \in Runs, Requeued(r), NEW u \in Prompts
  PROVE  <<r, u>> \notin pending /\ <<r, u>> \notin pending'
<1>0. /\ run'[r].status = "queued" /\ run[r].status = "running" /\ r \in Roots
      /\ r \notin Children /\ run \in [Runs -> Row] /\ open \subseteq Reservation
  BY RunNames DEF Requeued, Running, Is, TypeInv, CoreOK
<1>1. CASE UNCHANGED vars
  BY <1>0, <1>1 DEF vars
<1>2. ASSUME NEW q \in Roots, Enqueue(q) PROVE FALSE
  <2>1. q # r
    BY <1>0, <1>2 DEF Enqueue, Is
  <2>2. SameRow(r) \/ Stopped(r)
    BY <1>2, <2>1, EnqueueRows
  <2> QED
    BY <1>0, <2>2 DEF SameRow, Stopped, Terminal
<1>3. CASE CancelStep
  <2>1. SameRow(r) \/ Stopped(r)
    BY <1>3, CancelStepRows
  <2> QED
    BY <1>0, <2>1 DEF SameRow, Stopped, Terminal
<1>4. CASE StaleStep
  BY <1>0, <1>4, StaleRows DEF StaleStep
<1>5. ASSUME NEW e \in execs, Step(e) PROVE FALSE
  <2>1. e.run \in Runs
    BY DEF TypeInv, CoreOK, Exec
  <2>2. CASE Complete(e) \/ Fail(e)
    <3>1. SameRow(r) \/ run'[r].status \in Terminal \/ run'[r] = run[r]
      BY <2>1, <2>2, EndRows DEF SameRows
    <3> QED
      BY <1>0, <3>1 DEF SameRow, Terminal
  <2>3. CASE Load(e)
    BY <1>0, <2>3 DEF Load, ledger, books
  <2>4. CASE Close(e)
    <3>1. SameRows
      BY <1>0, <2>1, <2>4, ReleaseOpenRows DEF Close
    <3> QED
      BY <1>0, <3>1 DEF SameRows, SameRow
  <2>5. ASSUME NEW u1 \in Work, UnitStep(e, u1) PROVE FALSE
    <3>1. CASE CallStep(e, u1)
      BY <1>0, <3>1, CallRows DEF SameRows, SameRow
    <3>2. CASE StartItem(e, u1) \/ CollectChild(e, u1)
      BY <1>0, <3>2 DEF StartItem, CollectChild, ledger, books
    <3>3. CASE InsertChild(e, u1)
      <4>1. /\ run' = [run EXCEPT ![<<e.run, u1, e.claim>>] = ChildRow(e.worker)]
            /\ ChildRow(e.worker).status = "running"
        BY <3>3, InsertedChild
      <4> QED
        BY <1>0, <4>1
    <3> QED
      BY <2>5, <3>1, <3>2, <3>3 DEF UnitStep, CallStep
  <2> QED
    BY <1>5, <2>2, <2>3, <2>4, <2>5 DEF Step
<1>6. ASSUME NEW w \in Workers, Admit(w) PROVE FALSE
  <2>1. UNCHANGED run \/ (choosing[w] # NoRun /\ Claimed(w, choosing[w]))
    BY <1>6 DEF Admit
  <2> QED
    BY <1>0, <2>1, ClaimedRows
<1>7. CASE \E w \in Workers : (\E q \in Roots : Choose(w, q)) \/ Crash(w)
  BY <1>0, <1>7 DEF Choose, Crash, ledger, books
<1>8. ASSUME NEW w \in Workers, RecoverStep(w)
      PROVE  <<r, u>> \notin pending /\ <<r, u>> \notin pending'
  <2>1. CASE ListStale(w)
    BY <1>0, <2>1 DEF ListStale, ledger, books
  <2>2. CASE RecoverRelease(w)
    <3>1. ReleaseOpen(recovery[w].release) /\ recovery[w].release \in Runs
      BY <2>2 DEF RecoverRelease, TypeInv, CoreOK
    <3>2. SameRows
      BY <1>0, <3>1, ReleaseOpenRows
    <3> QED
      BY <1>0, <3>2 DEF SameRows, SameRow
  <2>3. ASSUME NEW s \in recovery[w].todo, Recover(w, s)
        PROVE  <<r, u>> \notin pending /\ <<r, u>> \notin pending'
    <3>1. ~ SameRow(r)
      BY <1>0 DEF SameRow
    <3>2. r = s.run /\ Verdict(s) = "queued"
      BY <1>0, <2>3, <3>1, RecoverRows
    <3> QED
      BY <2>3, <3>2 DEF Verdict, Recover, progress
  <2> QED
    BY <1>8, <2>1, <2>2, <2>3 DEF RecoverStep
<1> QED
  BY <1>1, <1>2, <1>3, <1>4, <1>5, <1>6, <1>7, <1>8, Steps

LEMMA PendingStep ==
  ASSUME TypeInv, FreshInv, OwnersInv, PromptInv, [Next]_vars
  PROVE  PendingKnown'
<1> SUFFICES ASSUME NEW r \in Runs \ seized', NEW u \in Prompts,
                    <<r, u>> \in pending'
             PROVE  run'[r].status = "running" \/ run'[r].status \in Terminal
  BY DEF PendingKnown, Running, Is
<1>0. r \in Runs \ seized
  BY SeizedGrows
<1>1. Running(r) \/ run[r].status \in Terminal
  <2>1. CASE <<r, u>> \in pending
    BY <1>0, <2>1 DEF PromptInv, PendingKnown
  <2>2. CASE <<r, u>> \notin pending
    <3>1. PICK e \in execs : e.run = r
      BY <2>2, NewPending
    <3>2. CASE r \in Roots
      BY <1>0, <3>1, <3>2 DEF OwnersInv, Held, Owns
    <3>3. CASE r \in Children
      <4>1. run[r].status \notin {"absent", "queued"} /\ run[r] \in Row
        BY <3>1, <3>3 DEF OwnersInv, ChildExecs, PromptInv, ChildrenStayWithParent, Is,
           TypeInv, CoreOK
      <4> QED
        BY <4>1 DEF Row, Running, Is, Live, Terminal
    <3> QED
      BY <3>2, <3>3 DEF Runs
  <2> QED
    BY <2>1, <2>2
<1>2. RowStep(r) /\ ~ Requeued(r)
  BY RowSteps, RequeuedClean
<1>3. CASE run[r].status \in Terminal
  BY <1>3, TerminalStays
<1>4. CASE Running(r)
  BY <1>2, <1>4 DEF RowStep, Kept, Ends, Accepted, Enqueue, Taken, Created,
     Running, Is, Live, Terminal
<1> QED
  BY <1>1, <1>3, <1>4

\* Where a prompt goes from where.
LEMMA PromptPlaces ==
  ASSUME NEW e, NEW u \in Prompts, u \notin Images, u \notin Items, ExecShape(e),
         NEW place, Outcome(e, u, place)
  PROVE  \/ StartCall(e, u) /\ e.at[u] = "idle" /\ place \in {"started", "failed"}
         \/ Reserve(e, u) /\ e.at[u] = "started" /\ place \in {"reserved", "failed"}
         \/ Call(e, u) /\ e.at[u] = "reserved" /\ place = "called"
         \/ SettlePrompt(e, u) /\ e.at[u] = "called" /\ place \in {"billed", "failed"}
         \/ Confirm(e, u) /\ e.at[u] = "billed" /\ place = "recording"
         \/ place \in {"fetched", "releasing", "failed", "done"}
<1>1. ~ StartItem(e, u) /\ ~ InsertChild(e, u) /\ ~ CollectChild(e, u)
  <2>1. u \in Work
    BY DEF Work
  <2> QED
    BY <2>1, Places DEF StartItem, InsertChild, CollectChild
<1>2. /\ StartCall(e, u) => e.at[u] = "idle"
      /\ Reserve(e, u) => e.at[u] = "started"
      /\ Call(e, u) => e.at[u] = "reserved"
  BY DEF StartCall, MayStart, Reserve, Call
<1>3. SettlePrompt(e, u) => e.at[u] = "called"
  BY DEF SettlePrompt
<1> QED
  BY <1>1, <1>2, <1>3 DEF Outcome

LEMMA UnplayedStep ==
  ASSUME TypeInv, FreshInv, OwnersInv, PromptInv, [Next]_vars
  PROVE  Unplayed'
<1> SUFFICES ASSUME NEW x \in execs', NEW u \in Prompts, x.run \notin seized'
             PROVE  /\ x.at[u] \in {"idle", "started", "reserved", "called", "billed",
                                    "recording"}
                         => u \notin saved'[x.run]
                    /\ x.phase = "loading" \/ x.at[u] \in {"idle", "started", "reserved"}
                         => <<x.run, u>> \notin pending'
  BY DEF Unplayed
<1>0. u \in Units /\ u \in Work /\ u \notin Items /\ u \notin Images
  BY WorkNames, WorkAssumption DEF Units
<1>s. x.run \notin seized
  BY SeizedGrows
\* What becomes of an execution that is there already.
<1>1. ASSUME NEW e \in execs, SameExec(e, x), ~ Save(e, u), ~ Call(e, u)
      PROVE  /\ u \in saved'[x.run] => u \in saved[e.run]
             /\ <<x.run, u>> \in pending' => <<e.run, u>> \in pending
  <2>1. x.run = e.run /\ e.run \in Runs
    BY <1>1 DEF SameExec, TypeInv, CoreOK, Exec
  <2>2. \A d \in execs : d.run = e.run => d = e
    BY <1>s, <2>1, OneExec DEF PromptInv
  <2>3. ASSUME u \in saved'[e.run] PROVE u \in saved[e.run]
    BY <1>1, <2>1, <2>2, <2>3, SavedGrows
  <2>4. ASSUME <<e.run, u>> \in pending' PROVE <<e.run, u>> \in pending
    BY <1>1, <2>1, <2>2, <2>4, NewPending
  <2> QED
    BY <2>1, <2>3, <2>4
<1>2. CASE Begins(x)
  <2>1. x.phase = "loading" /\ x.at[u] = "none"
    BY <1>0, <1>2 DEF Begins
  <2>2. <<x.run, u>> \notin pending'
    <3>1. CASE x.run \in Roots /\ Is(x.run, "queued") /\ UNCHANGED progress
      <4>1. <<x.run, u>> \notin pending /\ pending' = pending
        BY <1>s, <3>1 DEF PromptInv, PendingKnown, Runs, Running, Is, Terminal, progress
      <4> QED
        BY <4>1
    <3>2. ASSUME NEW e \in execs, NEW i \in Items, InsertChild(e, i), e.run \in Roots,
                 x.run = <<e.run, i, e.claim>>, x.run \in Children
          PROVE  <<x.run, u>> \notin pending'
      <4>1. Is(x.run, "absent") /\ pending' = pending /\ x.run \in Runs
        BY <3>2 DEF InsertChild, FreshInv, ItemsFresh, progress, Runs
      <4>2. <<x.run, u>> \notin pending
        BY <1>s, <4>1 DEF PromptInv, PendingKnown, Running, Is, Terminal
      <4> QED
        BY <4>1, <4>2
    <3> QED
      BY <1>2, <3>1, <3>2 DEF Begins
  <2> QED
    BY <2>1, <2>2
<1>3. ASSUME NEW e \in execs, Loads(e, x)
      PROVE  /\ x.at[u] = "idle" => u \notin saved'[x.run]
             /\ <<x.run, u>> \notin pending'
             /\ x.at[u] \in {"none", "done", "idle"}
  <2>1. saved' = saved /\ pending' = pending
    BY <1>3 DEF Loads, Load, progress
  <2>2. x.run = e.run /\ e.phase = "loading" /\ x.at[u] = Loaded(e)[u]
    BY <1>3 DEF Loads, SameExec, Load
  <2>3. x.at[u] = "idle" => u \notin saved[e.run]
    BY <1>0, <2>2 DEF Loaded
  <2>4. <<e.run, u>> \notin pending
    BY <1>s, <2>2 DEF PromptInv, Unplayed
  <2>5. x.at[u] \in {"none", "done", "idle"}
    BY <1>0, <2>2 DEF Loaded
  <2> QED
    BY <2>1, <2>2, <2>3, <2>4, <2>5
<1>4. ASSUME NEW e \in execs, SameExec(e, x), x.at[u] = e.at[u], x.phase = e.phase
             \/ (e.phase # "loading" /\ x.phase # "loading")
      PROVE  /\ x.at[u] \in {"idle", "started", "reserved", "called", "billed",
                             "recording"}
                  => u \notin saved'[x.run]
             /\ x.phase = "loading" \/ x.at[u] \in {"idle", "started", "reserved"}
                  => <<x.run, u>> \notin pending'
  <2>1. /\ x.at[u] \in {"idle", "started", "reserved", "called", "billed", "recording"}
             => u \notin saved[e.run]
        /\ x.phase = "loading" \/ x.at[u] \in {"idle", "started", "reserved"}
             => <<e.run, u>> \notin pending
    BY <1>s, <1>4 DEF PromptInv, Unplayed, SameExec
  <2>2. CASE ~ Save(e, u) /\ ~ Call(e, u)
    BY <1>1, <1>4, <2>1, <2>2
  \* It has moved u: it is not what it was.
  <2>3. ASSUME Save(e, u) \/ Call(e, u) PROVE FALSE
    <3>1. PICK place \in {"done", "called"} : Moved(e, u, place) /\ place # e.at[u]
      BY <1>0, <2>3 DEF Save, Call
    <3>2. e \in Exec /\ ExecShape(e) /\ e.at \in [Work -> Place]
      BY DEF TypeInv, CoreOK, ExecsShaped, Exec
    <3>3. x = [e EXCEPT !.at[u] = place] \/ (x \in execs /\ x # e)
      BY <3>1 DEF Moved
    <3>4. CASE x = [e EXCEPT !.at[u] = place]
      <4>1. x.at[u] = place
        BY <1>0, <3>2, <3>4 DEF Exec
      <4> QED
        BY <1>4, <3>1, <4>1
    <3>5. CASE x \in execs /\ x # e
      BY <1>s, <1>4, <3>5, OneExec DEF PromptInv, SameExec
    <3> QED
      BY <3>3, <3>4, <3>5
  <2> QED
    BY <2>2, <2>3
<1>5. ASSUME NEW e \in execs, Moves(e, u, x)
      PROVE  /\ x.phase # "loading"
             /\ x.at[u] \in {"idle", "started", "reserved", "called", "billed",
                             "recording"}
                  => u \notin saved'[x.run]
             /\ x.at[u] \in {"idle", "started", "reserved"} => <<x.run, u>> \notin pending'
  <2>1. SameExec(e, x) /\ x.phase # "loading" /\ Outcome(e, u, x.at[u])
    BY <1>5 DEF Moves
  <2>2. \/ StartCall(e, u) /\ e.at[u] = "idle" /\ x.at[u] \in {"started", "failed"}
        \/ Reserve(e, u) /\ e.at[u] = "started" /\ x.at[u] \in {"reserved", "failed"}
        \/ Call(e, u) /\ e.at[u] = "reserved" /\ x.at[u] = "called"
        \/ SettlePrompt(e, u) /\ e.at[u] = "called" /\ x.at[u] \in {"billed", "failed"}
        \/ Confirm(e, u) /\ e.at[u] = "billed" /\ x.at[u] = "recording"
        \/ x.at[u] \in {"fetched", "releasing", "failed", "done"}
    BY <1>0, <2>1, PromptPlaces DEF TypeInv, ExecsShaped
  <2>3. Save(e, u) => e.at[u] \in {"fetched", "recording"}
    BY DEF Save
  <2>4. Call(e, u) => e.at[u] = "reserved" /\ saved' = saved
    BY DEF Call
  <2>5. CASE x.at[u] = "called"
    <3>1. Call(e, u) /\ e.at[u] = "reserved" /\ saved' = saved
      BY <2>2, <2>4, <2>5
    <3>2. u \notin saved[e.run]
      BY <1>s, <2>1, <3>1 DEF PromptInv, Unplayed, SameExec
    <3> QED
      BY <2>1, <2>5, <3>1, <3>2 DEF SameExec
  <2>6. CASE x.at[u] \in {"started", "billed", "recording"}
    <3>1. ~ Save(e, u) /\ ~ Call(e, u)
      BY <2>2, <2>3, <2>4, <2>6
    <3>2. /\ u \in saved'[x.run] => u \in saved[e.run]
          /\ <<x.run, u>> \in pending' => <<e.run, u>> \in pending
      BY <1>1, <2>1, <3>1
    <3>3. u \notin saved[e.run] /\ (x.at[u] = "started" => <<e.run, u>> \notin pending)
      BY <1>s, <2>1, <2>2, <2>6 DEF PromptInv, Unplayed, SameExec
    <3> QED
      BY <2>1, <2>6, <3>2, <3>3
  <2>7. CASE x.at[u] = "reserved"
    <3>1. e.at[u] = "started"
      BY <2>2, <2>7
    <3>2. /\ u \in saved'[x.run] => u \in saved[e.run]
          /\ <<x.run, u>> \in pending' => <<e.run, u>> \in pending
      BY <1>1, <2>1, <2>3, <2>4, <3>1
    <3> QED
      BY <1>s, <2>1, <2>7, <3>1, <3>2 DEF PromptInv, Unplayed, SameExec
  <2> QED
    BY <2>1, <2>2, <2>5, <2>6, <2>7
<1>6. ASSUME NEW e \in execs, NEW v \in Work, Moves(e, v, x)
      PROVE  /\ x.at[u] \in {"idle", "started", "reserved", "called", "billed",
                             "recording"}
                  => u \notin saved'[x.run]
             /\ x.phase = "loading" \/ x.at[u] \in {"idle", "started", "reserved"}
                  => <<x.run, u>> \notin pending'
  <2>1. CASE v = u
    BY <1>5, <1>6, <2>1
  <2>2. CASE v # u
    BY <1>0, <1>4, <1>6, <2>2 DEF Moves
  <2> QED
    BY <2>1, <2>2
<1>7. CASE x \in execs
  BY <1>4, <1>7 DEF SameExec
<1>8. ASSUME NEW e \in execs, Turns(e, x)
      PROVE  /\ x.at[u] \in {"idle", "started", "reserved", "called", "billed",
                             "recording"}
                  => u \notin saved'[x.run]
             /\ x.phase = "loading" \/ x.at[u] \in {"idle", "started", "reserved"}
                  => <<x.run, u>> \notin pending'
  BY <1>4, <1>8 DEF Turns
<1> QED
  BY <1>2, <1>3, <1>6, <1>7, <1>8, ExecFate

LEMMA PromptInit == Init => PromptInv
<1> SUFFICES ASSUME Init PROVE PromptInv
  OBVIOUS
<1>1. \A c \in Children : run[c].status = "absent"
  BY DEF Init, NoRow, Runs
<1> QED
  BY <1>1 DEF Init, PromptInv, ChildrenStayWithParent, OfLastClaim, PendingKnown, Unplayed, Is

LEMMA PromptStep ==
  ASSUME TypeInv, FreshInv, OwnersInv, PromptInv, [Next]_vars
  PROVE  PromptInv'
<1>1. ChildrenStayWithParent'
  <2> SUFFICES ASSUME NEW c \in Children PROVE run'[c].status # "queued"
    BY DEF ChildrenStayWithParent, Is
  <2>1. c \in Runs /\ c \notin Roots /\ ~ Is(c, "queued") /\ RowStep(c)
    BY RunNames, RowSteps DEF PromptInv, ChildrenStayWithParent, Runs
  <2> QED
    BY <2>1 DEF RowStep, Kept, Ends, Requeued, Accepted, Taken, Created, Is, Terminal
<1>2. OfLastClaim'
  BY LastClaimStep DEF PromptInv
<1> QED
  BY <1>1, <1>2, PendingStep, UnplayedStep DEF PromptInv

\* No prompt of a run that was not taken from a living worker is asked again whose
\* answer is stored or whose usage is uncertain: the outputs that an execution reads at
\* its start stay all there are until it asks, and a run with an uncertain usage is not
\* requeued.
THEOREM PromptsNotReplayed == Safe => NeverReplayed
<1>1. Unplayed /\ [Next]_vars =>
        [\A e \in execs, u \in Prompts :
           Call(e, u) /\ e.run \notin seized
             => u \notin saved[e.run] /\ <<e.run, u>> \notin pending]_vars
  BY DEF Unplayed, Call
<1>2. PromptInv => Unplayed
  BY DEF PromptInv
<1> QED
  BY <1>1, <1>2, TypesInit, TypesStep, FreshInit, FreshStep, OwnersInit, OwnersStep,
     PromptInit, PromptStep, PTL DEF Safe, NeverReplayed

-----------------------------------------------------------------------------
(* The ledger.                                                             *)

OpenOf(s, r) == {o \in s : o[1] = r}
Agrees(row, count, free) ==
  /\ row.reserved <= count
  /\ row.reserved = count \/ row.status = "completed" \/ free

\* A unit of a claim reserves once: before that it has no reservation, and a claim or
\* a child to come has none.
OpenKnown ==
  \A o \in open : /\ o[1] \in Roots => o[2] <= run[o[1]].attempts
                  /\ o[1] \in Children => ~ Is(o[1], "absent")
Unreserved ==
  \A e \in execs, u \in Units :
    e.phase = "loading" \/ e.at[u] \in {"none", "idle", "started"}
      => <<e.run, e.claim, u>> \notin open

\* Between the two statements of its release a run has no reservation, unless one came
\* between them.
Quiet == \A r \in midway \ overtaken : OpenOf(open, r) = {}

LedgerInv ==
  /\ IsFiniteSet(open) /\ OpenKnown /\ Unreserved /\ ChildExecs /\ Quiet
  /\ \A r \in Runs \ midway :
       Agrees(run[r], Cardinality(OpenOf(open, r)), r \in overtaken)

\* How a step may change the account of a run: not at all; both sides are cleared; the
\* row of a run that completes is; a reservation is opened; or one is closed; or a
\* release of the run goes on, or is over.
Cleared(r) == run'[r].reserved = 0 /\ OpenOf(open', r) = {}
Finished(r) ==
  /\ run'[r].reserved = 0 /\ run'[r].status = "completed"
  /\ OpenOf(open', r) = OpenOf(open, r)
Untouched(r) == run'[r].reserved = run[r].reserved /\ OpenOf(open', r) = OpenOf(open, r)
Opened(r) ==
  /\ run'[r].reserved = run[r].reserved + 1
  /\ \E o : o \notin open /\ o[1] = r /\ open' = open \cup {o}
Closed(r) ==
  \E o \in open :
    /\ o[1] = r /\ open' = open \ {o}
    /\ run'[r].reserved = IF run[r].reserved > 0 THEN run[r].reserved - 1
                          ELSE run[r].reserved
Accounted(r) ==
  \/ Cleared(r) \/ Finished(r) \/ Untouched(r) \/ Opened(r) \/ Closed(r)
  \/ r \in midway' \/ FinishRelease(r)

LEMMA OneMore ==
  ASSUME NEW s, IsFiniteSet(s), NEW r, NEW o, o \notin s, o[1] = r
  PROVE  /\ Cardinality(OpenOf(s \cup {o}, r)) = Cardinality(OpenOf(s, r)) + 1
         /\ Cardinality(OpenOf(s, r)) \in Nat
<1> DEFINE t == OpenOf(s, r)
<1>1. IsFiniteSet(t) /\ o \notin t
  BY FS_Subset DEF OpenOf
<1>2. OpenOf(s \cup {o}, r) = t \cup {o}
  BY DEF OpenOf
<1> HIDE DEF t
<1>3. Cardinality(t \cup {o}) = Cardinality(t) + 1 /\ Cardinality(t) \in Nat
  BY <1>1, FS_AddElement, FS_CardinalityType
<1>4. Cardinality(OpenOf(s \cup {o}, r)) = Cardinality(t) + 1
  BY <1>2, <1>3
<1> QED
  BY <1>3, <1>4 DEF t

LEMMA OneLess ==
  ASSUME NEW s, IsFiniteSet(s), NEW r, NEW o \in s, o[1] = r
  PROVE  /\ Cardinality(OpenOf(s \ {o}, r)) = Cardinality(OpenOf(s, r)) - 1
         /\ Cardinality(OpenOf(s, r)) \in Nat \ {0}
<1> DEFINE t == s \ {o}
<1>1. IsFiniteSet(t) /\ o \notin t /\ s = t \cup {o}
  BY FS_Subset
<1> HIDE DEF t
<1>2. /\ Cardinality(OpenOf(t \cup {o}, r)) = Cardinality(OpenOf(t, r)) + 1
      /\ Cardinality(OpenOf(t, r)) \in Nat
  BY <1>1, OneMore
<1>3. /\ Cardinality(OpenOf(t, r)) = Cardinality(OpenOf(s, r)) - 1
      /\ Cardinality(OpenOf(s, r)) \in Nat \ {0}
  BY <1>1, <1>2
<1> QED
  BY <1>3 DEF t

\* Releases begin with no reservation left; only their own end ends them; and that a
\* release was overtaken is not forgotten.
LEMMA MidwaySteps ==
  ASSUME TypeInv, [Next]_vars
  PROVE  /\ overtaken \subseteq overtaken'
         /\ \A r \in midway \ midway' : FinishRelease(r)
         /\ \A r \in midway' \ midway : OpenOf(open', r) = {}
<1> DEFINE Goal == /\ overtaken \subseteq overtaken'
                   /\ \A r \in midway \ midway' : FinishRelease(r)
                   /\ \A r \in midway' \ midway : OpenOf(open', r) = {}
<1>1. ASSUME midway' = midway, overtaken' = overtaken PROVE Goal
  BY <1>1
<1>2. ASSUME NEW q, ReleaseOpen(q) PROVE Goal
  BY <1>2 DEF ReleaseOpen, OpenOf
<1>3. ASSUME NEW q, FinishRelease(q) PROVE Goal
  BY <1>3 DEF FinishRelease
<1>4. ASSUME NEW q \in Roots, Enqueue(q) PROVE Goal
  <2> DEFINE superseded == IF Request[q].overlap = "cancel-previous"
                           THEN UNION {Tree(s) : s \in Active(Request[q].admission)}
                           ELSE {}
             late == {s \in superseded : run[s].status \notin Live /\ Overtakable(s)}
  <2>1. /\ midway' = midway \cup late /\ overtaken' = overtaken
        /\ open' = {o \in open : o[1] \notin superseded} /\ late \subseteq superseded
    BY <1>4 DEF Enqueue
  <2> HIDE DEF late, superseded
  <2> QED
    BY <2>1 DEF OpenOf
<1>5. CASE CancelStep
  <2>1. CASE \E c \in cancels : CancelRelease(c)
    BY <1>2, <2>1 DEF CancelRelease
  <2>2. CASE \E q \in Runs : FinishRelease(q)
    BY <1>3, <2>2
  <2>3. CASE (\E q \in Roots : Cancel(q))
             \/ \E c \in cancels : CancelChildren(c) \/ CancelSelect(c) \/ CancelDies(c)
    BY <1>1, <2>3 DEF Cancel, CancelChildren, CancelSelect, CancelDies, ledger, books
  <2> QED
    BY <1>5, <2>1, <2>2, <2>3 DEF CancelStep
<1>6. ASSUME NEW e \in execs, Step(e) PROVE Goal
  <2>1. CASE Load(e) \/ Complete(e) \/ Fail(e)
    BY <1>1, <2>1 DEF Load, Complete, Fail, ledger, books
  <2>2. CASE Close(e)
    BY <1>2, <2>2 DEF Close
  <2>3. ASSUME NEW u \in Work, UnitStep(e, u) PROVE Goal
    <3>1. CASE Reserve(e, u)
      BY <3>1 DEF Reserve, ledger, books
    <3>2. CASE ~ Reserve(e, u)
      BY <1>1, <2>3, <3>2 DEF UnitStep, StartCall, Call, SettlePrompt, LosePrompt, Confirm,
         Save, SettleImage, FailCall, Release, Settled, StartItem, InsertChild,
         CollectChild, ledger, books
    <3> QED
      BY <3>1, <3>2
  <2> QED
    BY <1>6, <2>1, <2>2, <2>3 DEF Step
<1>7. ASSUME NEW w \in Workers, RecoverStep(w) PROVE Goal
  <2>1. CASE RecoverRelease(w)
    BY <1>2, <2>1 DEF RecoverRelease
  <2>2. CASE ListStale(w) \/ \E s \in recovery[w].todo : Recover(w, s)
    BY <1>1, <2>2 DEF ListStale, Recover, ledger, books
  <2> QED
    BY <1>7, <2>1, <2>2 DEF RecoverStep
<1>8. CASE \/ UNCHANGED vars \/ StaleStep
           \/ \E w \in Workers : (\E q \in Roots : Choose(w, q)) \/ Admit(w) \/ Crash(w)
  BY <1>1, <1>8 DEF vars, StaleStep, Choose, Admit, Crash, ledger, books
<1>9. Goal
  BY <1>4, <1>5, <1>6, <1>7, <1>8, Steps
<1> QED
  BY <1>9

\* An account that is changed so stays right.
LEMMA AccountsAgree ==
  ASSUME TypeInv, FreshInv, LedgerInv, [Next]_vars, NEW r \in Runs \ midway',
         Accounted(r)
  PROVE  Agrees(run'[r], Cardinality(OpenOf(open', r)), r \in overtaken')
<1> DEFINE n == Cardinality(OpenOf(open, r))
<1>0. IsFiniteSet(open) /\ n \in Nat
  <2>1. IsFiniteSet(OpenOf(open, r))
    BY FS_Subset DEF LedgerInv, OpenOf
  <2> QED
    BY <2>1, FS_CardinalityType DEF LedgerInv
<1>o. r \in overtaken => r \in overtaken'
  BY MidwaySteps
<1>f. ASSUME FinishRelease(r)
      PROVE  Agrees(run'[r], Cardinality(OpenOf(open', r)), r \in overtaken')
  <2>1. run'[r] = [run[r] EXCEPT !.reserved = 0] /\ run[r] \in Row
    BY <1>f DEF FinishRelease, TypeInv, CoreOK
  <2>2. run'[r].reserved = 0
    BY <2>1 DEF Row
  <2>3. Cardinality(OpenOf(open', r)) = n
    BY <1>f DEF FinishRelease
  <2>4. r \in overtaken \/ n = 0
    BY <1>f, FS_EmptySet DEF FinishRelease, LedgerInv, Quiet
  <2> HIDE DEF n
  <2>5. 0 <= n
    BY <1>0
  <2> QED
    BY <1>o, <2>2, <2>3, <2>4, <2>5 DEF Agrees
<1>g. ASSUME ~ FinishRelease(r)
      PROVE  Agrees(run'[r], Cardinality(OpenOf(open', r)), r \in overtaken')
  <2>1. Agrees(run[r], n, r \in overtaken)
    BY <1>g, MidwaySteps DEF LedgerInv
  <2>2. run[r].reserved \in Nat
    BY DEF TypeInv, CoreOK, Row
  <2>3. run[r].status = "completed" => run'[r].status = "completed"
    BY TerminalStays DEF Terminal
  <2>4. CASE Cleared(r)
    BY <2>4, FS_EmptySet DEF Cleared, Agrees
  <2>5. CASE Finished(r)
    <3>1. run'[r].reserved = 0 /\ run'[r].status = "completed"
          /\ Cardinality(OpenOf(open', r)) = n
      BY <2>5 DEF Finished
    <3> QED
      BY <1>0, <3>1 DEF Agrees
  <2>6. CASE Untouched(r)
    <3>1. run'[r].reserved = run[r].reserved /\ Cardinality(OpenOf(open', r)) = n
      BY <2>6 DEF Untouched
    <3> QED
      BY <1>0, <1>o, <2>1, <2>3, <3>1 DEF Agrees
  <2>7. CASE Opened(r)
    <3>2. PICK o : o \notin open /\ o[1] = r /\ open' = open \cup {o}
      BY <2>7 DEF Opened
    <3>3. Cardinality(OpenOf(open \cup {o}, r)) = n + 1
      BY <1>0, <3>2, OneMore
    <3>1. run'[r].reserved = run[r].reserved + 1 /\ Cardinality(OpenOf(open', r)) = n + 1
      BY <2>7, <3>2, <3>3 DEF Opened
    <3> HIDE DEF n
    <3> QED
      BY <1>0, <1>o, <2>1, <2>2, <2>3, <3>1 DEF Agrees
  <2>8. CASE Closed(r)
    <3>1. /\ run'[r].reserved = IF run[r].reserved > 0 THEN run[r].reserved - 1
                                ELSE run[r].reserved
          /\ Cardinality(OpenOf(open', r)) = n - 1 /\ n # 0
      BY <1>0, <2>8, OneLess DEF Closed
    <3> HIDE DEF n
    <3> QED
      BY <1>0, <1>o, <2>1, <2>2, <2>3, <3>1 DEF Agrees
  <2> QED
    BY <1>g, <2>4, <2>5, <2>6, <2>7, <2>8 DEF Accounted
<1> QED
  BY <1>f, <1>g

\* A release clears the account of its run, at once or in two statements, and touches
\* no other.
LEMMA ReleasedAccounts ==
  ASSUME TypeInv, NEW STATE q, ReleaseOpen(q) \/ FinishRelease(q), NEW r \in Runs
  PROVE  Accounted(r)
<1>1. CASE r = q /\ (r \in midway' \/ FinishRelease(r))
  BY <1>1 DEF Accounted
<1>2. CASE r = q /\ r \notin midway' /\ ~ FinishRelease(r)
  <2>1. run'[r] = [run[r] EXCEPT !.reserved = 0] /\ run[r] \in Row
    BY <1>2 DEF ReleaseOpen, TypeInv, CoreOK
  <2>2. run'[r].reserved = 0
    BY <2>1 DEF Row
  <2>3. OpenOf(open', r) = {}
    BY <1>2 DEF ReleaseOpen, OpenOf
  <2> QED
    BY <2>2, <2>3 DEF Accounted, Cleared
<1>3. CASE r # q
  <2>1. run'[r] = run[r]
    BY <1>3 DEF ReleaseOpen, FinishRelease, TypeInv, CoreOK
  <2>2. OpenOf(open', r) = OpenOf(open, r)
    BY <1>3 DEF ReleaseOpen, FinishRelease, OpenOf
  <2> QED
    BY <2>1, <2>2 DEF Accounted, Untouched
<1> QED
  BY <1>1, <1>2, <1>3

LEMMA EnqueuedAccounts ==
  ASSUME TypeInv, FreshInv, LedgerInv, NEW q \in Roots, Enqueue(q), NEW r \in Runs
  PROVE  Accounted(r)
<1> DEFINE active == Active(Request[q].admission)
           superseded == IF Request[q].overlap = "cancel-previous"
                         THEN UNION {Tree(s) : s \in active} ELSE {}
           late == {s \in superseded : run[s].status \notin Live /\ Overtakable(s)}
           skipped == Request[q].overlap = "skip"
                        /\ Cardinality(active) >= Request[q].concurrent
           x == [NoRow EXCEPT !.status = IF skipped THEN "cancelled" ELSE "queued"]
           y == [IF run[r].status \in Live THEN Left(r, "cancelled")
                 ELSE run[r] EXCEPT !.reserved = 0]
<1>0. run[r] \in Row /\ open \subseteq Reservation
  BY DEF TypeInv, CoreOK
<1>1. /\ run'[r] = IF r = q THEN x ELSE IF r \notin superseded \ late THEN run[r] ELSE y
      /\ open' = {o \in open : o[1] \notin superseded} /\ Is(q, "absent")
      /\ midway' = midway \cup late /\ late \subseteq superseded
  BY DEF Enqueue
<1>2. x.reserved = 0
  BY DEF NoRow
<1>3. y.reserved = 0
  <2>1. Left(r, "cancelled") \in Row
    BY <1>0, LeftRow DEF Statuses, Terminal, TypeInv, CoreOK
  <2> QED
    BY <1>0, <2>1 DEF Row
<1> HIDE DEF x, y, late, superseded, skipped, active
<1>4. CASE r = q
  <2>1. OpenOf(open, r) = {}
    <3> SUFFICES ASSUME NEW o \in open, o[1] = r PROVE FALSE
      BY DEF OpenOf
    <3>1. o[2] \in Claims /\ o[2] <= run[r].attempts /\ run[r].attempts = 0
      BY <1>0, <1>1, <1>4 DEF LedgerInv, OpenKnown, Reservation, FreshInv, AbsentFresh
    <3> QED
      BY <3>1 DEF Claims
  <2>2. OpenOf(open', r) = {}
    BY <1>1, <2>1 DEF OpenOf
  <2> QED
    BY <1>1, <1>2, <1>4, <2>2 DEF Accounted, Cleared
<1>5. CASE r # q /\ r \notin superseded
  <2>1. OpenOf(open', r) = OpenOf(open, r)
    BY <1>1, <1>5 DEF OpenOf
  <2> QED
    BY <1>1, <1>5, <2>1 DEF Accounted, Untouched
<1>6. CASE r # q /\ r \in superseded
  <2>1. CASE r \in late
    BY <1>1, <2>1 DEF Accounted
  <2>2. CASE r \notin late
    <3>1. OpenOf(open', r) = {}
      BY <1>1, <1>6 DEF OpenOf
    <3> QED
      BY <1>1, <1>3, <1>6, <2>2, <3>1 DEF Accounted, Cleared
  <2> QED
    BY <2>1, <2>2
<1> QED
  BY <1>4, <1>5, <1>6

\* A row that only leaves its worker keeps its account.
LEMMA LeftAccount ==
  ASSUME TypeInv, NEW r \in Runs, NEW status, open' = open,
         run'[r] \in {run[r], Left(r, status)}
  PROVE  Accounted(r)
<1>1. Left(r, status).reserved = run[r].reserved
  BY DEF TypeInv, CoreOK, Row, Left
<1> QED
  BY <1>1 DEF Accounted, Untouched, OpenOf

LEMMA CancelAccounts ==
  ASSUME TypeInv, CancelStep, NEW r \in Runs
  PROVE  Accounted(r)
<1>0. run \in [Runs -> Row]
  BY DEF TypeInv, CoreOK
<1>1. CASE \E c \in Roots : Cancel(c)
  <2>1. open' = open /\ run'[r] \in {run[r], Left(r, "cancelled")}
    BY <1>0, <1>1 DEF Cancel, books
  <2> QED
    BY <2>1, LeftAccount
<1>2. CASE \E c \in cancels : CancelChildren(c)
  <2>1. open' = open /\ run'[r] \in {run[r], Left(r, "cancelled")}
    BY <1>0, <1>2 DEF CancelChildren, books
  <2> QED
    BY <2>1, LeftAccount
<1>3. CASE \E c \in cancels : CancelSelect(c) \/ CancelDies(c)
  BY <1>3 DEF CancelSelect, CancelDies, ledger, books, Accounted, Untouched
<1>4. CASE \E c \in cancels : CancelRelease(c)
  <2>1. PICK q : ReleaseOpen(q)
    BY <1>4 DEF CancelRelease
  <2> QED
    BY <2>1, ReleasedAccounts
<1>5. CASE \E q \in Runs : FinishRelease(q)
  BY <1>5, ReleasedAccounts
<1> QED
  BY <1>1, <1>2, <1>3, <1>4, <1>5 DEF CancelStep

\* A reservation belongs to the run, the claim and the unit that made it.
LEMMA CallAccounts ==
  ASSUME TypeInv, LedgerInv, NEW e \in execs, NEW u \in Work, CallStep(e, u), NEW r \in Runs
  PROVE  Accounted(r)
<1> DEFINE o == <<e.run, e.claim, u>>
           n == IF run[e.run].reserved > 0 THEN run[e.run].reserved - 1
                ELSE run[e.run].reserved
<1>0. /\ e \in Exec /\ ExecShape(e) /\ e.run \in Runs /\ run \in [Runs -> Row]
      /\ run[e.run] \in Row /\ run[e.run].reserved \in Nat /\ run[e.run].charged \in Nat
  BY DEF TypeInv, CoreOK, ExecsShaped, Exec, Row
<1>1. u \in Units
  BY <1>0, CallUnit
<1>2. ASSUME open' = open, run'[r].reserved = run[r].reserved PROVE Accounted(r)
  BY <1>2 DEF Accounted, Untouched
<1>3. ASSUME r # e.run, run'[r] = run[r], open' \in {open, open \cup {o}, open \ {o}}
      PROVE  Accounted(r)
  <2>1. OpenOf(open', r) = OpenOf(open, r)
    BY <1>3 DEF OpenOf
  <2> QED
    BY <1>3, <2>1 DEF Accounted, Untouched
<1>4. CASE Reserve(e, u)
  <2>1. e.at[u] = "started" /\ o \notin open
    BY <1>1, <1>4 DEF Reserve, LedgerInv, Unreserved
  <2>2. CASE UNCHANGED ledger
    BY <1>2, <2>2 DEF ledger, books
  <2>3. CASE ~ UNCHANGED ledger
    <3>1. /\ open' = open \cup {o}
          /\ run' = [run EXCEPT ![e.run] = [run[e.run] EXCEPT !.reserved =
                                              run[e.run].reserved + 1]]
      BY <1>4, <2>3 DEF Reserve
    <3>2. /\ run'[e.run].reserved = run[e.run].reserved + 1
          /\ r # e.run => run'[r] = run[r]
      BY <1>0, <3>1 DEF Row
    <3>3. CASE r = e.run
      BY <2>1, <3>1, <3>2, <3>3 DEF Accounted, Opened
    <3> QED
      BY <1>3, <3>1, <3>2, <3>3
  <2> QED
    BY <2>2, <2>3
<1>5. ASSUME open' = open \ {o}, r # e.run => run'[r] = run[r],
             run'[e.run].reserved = IF o \in open THEN n ELSE run[e.run].reserved
      PROVE  Accounted(r)
  <2>1. CASE r # e.run
    BY <1>3, <1>5, <2>1
  <2>2. CASE r = e.run /\ o \in open
    <3>1. o[1] = r
      BY <2>2
    <3> QED
      BY <1>5, <2>2, <3>1 DEF Accounted, Closed
  <2>3. CASE r = e.run /\ o \notin open
    BY <1>2, <1>5, <2>3
  <2> QED
    BY <2>1, <2>2, <2>3
<1>6. CASE SettlePrompt(e, u) \/ SettleImage(e, u)
  <2> DEFINE m == IF o \in open THEN n ELSE run[e.run].reserved
             x == [run[e.run] EXCEPT !.charged = run[e.run].charged + 1, !.reserved = m]
  <2>1. Settled(e, u)
    BY <1>6 DEF SettlePrompt, SettleImage
  <2>2. open' = open \ {o} /\ run' = [run EXCEPT ![e.run] = x]
    BY <1>0, <2>1 DEF Settled, Row
  <2>3. x.reserved = m
    BY <1>0 DEF Row
  <2> HIDE DEF x
  <2>4. run'[e.run].reserved = m /\ (r # e.run => run'[r] = run[r])
    BY <1>0, <2>2, <2>3
  <2> QED
    BY <1>5, <2>2, <2>4
<1>7. CASE Release(e, u)
  <2>1. /\ open' = open \ {o}
        /\ run' = IF o \in open THEN [run EXCEPT ![e.run] = [run[e.run] EXCEPT !.reserved = n]]
                  ELSE run
    BY <1>0, <1>7 DEF Release
  <2>2. [run[e.run] EXCEPT !.reserved = n].reserved = n
    BY <1>0 DEF Row
  <2>3. /\ run'[e.run].reserved = IF o \in open THEN n ELSE run[e.run].reserved
        /\ r # e.run => run'[r] = run[r]
    BY <1>0, <2>1, <2>2
  <2> QED
    BY <1>5, <2>1, <2>3
<1>8. CASE StartCall(e, u) \/ LosePrompt(e, u) \/ Confirm(e, u) \/ FailCall(e, u)
           \/ Call(e, u) \/ Save(e, u)
  BY <1>2, <1>8 DEF StartCall, LosePrompt, Confirm, FailCall, Call, Save, ledger, books
<1> QED
  BY <1>4, <1>6, <1>7, <1>8 DEF CallStep

LEMMA Accounts ==
  ASSUME TypeInv, FreshInv, LedgerInv, [Next]_vars, NEW r \in Runs
  PROVE  Accounted(r)
<1>0. run \in [Runs -> Row]
  BY DEF TypeInv, CoreOK
<1>1. ASSUME run' = run, open' = open PROVE Accounted(r)
  BY <1>1 DEF Accounted, Untouched
<1>2. ASSUME NEW e \in execs, Step(e) PROVE Accounted(r)
  <2>0. e.run \in Runs /\ run[e.run] \in Row
    BY DEF TypeInv, CoreOK, Exec
  <2>1. CASE Load(e)
    BY <1>1, <2>1 DEF Load, ledger, books
  <2>2. CASE Close(e)
    <3>1. ReleaseOpen(e.run)
      BY <2>2 DEF Close
    <3> QED
      BY <3>1, ReleasedAccounts
  <2>3. CASE Fail(e)
    <3>1. open' = open /\ run'[r] \in {run[r], Left(r, "failed")}
      BY <1>0, <2>0, <2>3 DEF Fail, books
    <3> QED
      BY <3>1, LeftAccount
  <2>4. CASE Complete(e)
    <3> DEFINE x == [Left(e.run, "completed") EXCEPT !.reserved = 0]
    <3>1. open' = open /\ (run' = run \/ run' = [run EXCEPT ![e.run] = x])
      BY <2>4 DEF Complete, books
    <3>2. x.reserved = 0 /\ x.status = "completed"
      <4>1. Left(e.run, "completed") \in Row /\ x.status = "completed"
        BY <1>0, <2>0, LeftRow DEF Statuses, Terminal
      <4> QED
        BY <4>1 DEF Row
    <3> HIDE DEF x
    <3>3. run'[r] = run[r] \/ run'[r] = x
      BY <1>0, <2>0, <3>1
    <3> QED
      BY <3>1, <3>2, <3>3 DEF Accounted, Untouched, Finished
  <2>5. ASSUME NEW u \in Work, UnitStep(e, u) PROVE Accounted(r)
    <3>1. CASE CallStep(e, u)
      BY <3>1, CallAccounts
    <3>2. CASE StartItem(e, u) \/ CollectChild(e, u)
      BY <1>1, <3>2 DEF StartItem, CollectChild, ledger, books
    <3>3. CASE InsertChild(e, u)
      <4> DEFINE c == <<e.run, u, e.claim>>
      <4>1. /\ run' = [run EXCEPT ![c] = ChildRow(e.worker)] /\ open' = open
            /\ c \in Children /\ c \in Runs /\ u \in Items /\ e.run \in Roots
            /\ e.at[u] = "creating"
        BY <3>3, InsertedChild DEF InsertChild, Runs, books
      <4>2. ChildRow(e.worker).reserved = 0
        BY DEF ChildRow, NoRow
      <4>3. OpenOf(open, c) = {}
        <5>1. Is(c, "absent")
          BY <4>1 DEF FreshInv, ItemsFresh
        <5> QED
          BY <4>1, <5>1 DEF LedgerInv, OpenKnown, OpenOf
      <4> HIDE DEF c
      <4>4. CASE r = c
        <5>1. run'[r].reserved = 0
          BY <1>0, <4>1, <4>2, <4>4
        <5> QED
          BY <4>1, <4>3, <4>4, <5>1 DEF Accounted, Cleared
      <4>5. CASE r # c
        <5>1. run'[r] = run[r]
          BY <1>0, <4>1, <4>5
        <5> QED
          BY <4>1, <5>1 DEF Accounted, Untouched
      <4> QED
        BY <4>4, <4>5
    <3> QED
      BY <2>5, <3>1, <3>2, <3>3 DEF UnitStep, CallStep
  <2> QED
    BY <1>2, <2>1, <2>2, <2>3, <2>4, <2>5 DEF Step
<1>3. ASSUME NEW w \in Workers, Admit(w) PROVE Accounted(r)
  <2>1. CASE UNCHANGED run
    BY <1>1, <1>3, <2>1 DEF Admit, books
  <2>2. CASE ~ UNCHANGED run
    <3> DEFINE c == choosing[w]
               x == [run[c] EXCEPT !.status = "running", !.worker = w, !.stale = FALSE,
                                   !.attempts = run[c].attempts + 1]
    <3>1. choosing[w] # NoRun /\ Claimed(w, c) /\ open' = open
      BY <1>3, <2>2 DEF Admit, books
    <3>2. c \in Roots /\ c \in Runs /\ run[c] \in Row
      BY <1>0, <3>1, ClaimedRows DEF Runs
    <3>3. run' = [run EXCEPT ![c] = x]
      BY <3>1, <3>2 DEF Claimed
    <3>4. x.reserved = run[c].reserved
      BY <3>2 DEF Row
    <3> HIDE DEF x, c
    <3>5. run'[r].reserved = run[r].reserved
      BY <1>0, <3>2, <3>3, <3>4
    <3> QED
      BY <3>1, <3>5 DEF Accounted, Untouched
  <2> QED
    BY <2>1, <2>2
<1>4. CASE StaleStep
  <2>1. PICK q \in Runs, b \in BOOLEAN : run' = [run EXCEPT ![q].stale = b]
    BY <1>4 DEF StaleStep
  <2>2. run'[r].reserved = run[r].reserved
    <3>1. run[q] \in Row /\ run' = [run EXCEPT ![q] = [run[q] EXCEPT !.stale = b]]
      BY <1>0, <2>1
    <3>2. [run[q] EXCEPT !.stale = b].reserved = run[q].reserved
      BY <3>1 DEF Row
    <3> QED
      BY <1>0, <3>1, <3>2
  <2> QED
    BY <1>4, <2>2 DEF StaleStep, books, Accounted, Untouched
<1>5. ASSUME NEW w \in Workers, RecoverStep(w) PROVE Accounted(r)
  <2>1. CASE ListStale(w)
    BY <1>1, <2>1 DEF ListStale, ledger, books
  <2>2. CASE RecoverRelease(w)
    <3>1. ReleaseOpen(recovery[w].release)
      BY <2>2 DEF RecoverRelease
    <3> QED
      BY <3>1, ReleasedAccounts
  <2>3. ASSUME NEW s \in recovery[w].todo, Recover(w, s) PROVE Accounted(r)
    <3>1. open' = open /\ run'[r] \in {run[r], Left(r, Verdict(s))}
      BY <1>0, <2>3, RecoverRows DEF Recover, books
    <3> QED
      BY <3>1, LeftAccount
  <2> QED
    BY <1>5, <2>1, <2>2, <2>3 DEF RecoverStep
<1>6. CASE UNCHANGED vars \/ \E w \in Workers : (\E q \in Roots : Choose(w, q)) \/ Crash(w)
  BY <1>1, <1>6 DEF vars, Choose, Crash, ledger, books
<1>7. ASSUME NEW q \in Roots, Enqueue(q) PROVE Accounted(r)
  BY <1>7, EnqueuedAccounts
<1>8. CASE CancelStep
  BY <1>8, CancelAccounts
<1> QED
  BY <1>2, <1>3, <1>4, <1>5, <1>6, <1>7, <1>8, Steps

\* A reservation that is new was made by a unit's Reserve.
LEMMA NewReservation ==
  ASSUME TypeInv, [Next]_vars, NEW o \in open', o \notin open
  PROVE  \E e \in execs, u \in Work :
           Reserve(e, u) /\ u \in Units /\ o = <<e.run, e.claim, u>>
<1>1. ASSUME NEW e \in execs, Step(e)
      PROVE  \E u \in Work : Reserve(e, u) /\ u \in Units /\ o = <<e.run, e.claim, u>>
  <2>0. e \in Exec /\ ExecShape(e)
    BY DEF TypeInv, CoreOK, ExecsShaped
  <2>1. CASE Load(e) \/ Complete(e) \/ Fail(e) \/ Close(e)
    BY <2>1 DEF Load, Complete, Fail, Close, ReleaseOpen, ledger, books
  <2>2. ASSUME NEW v \in Work, StartItem(e, v) \/ InsertChild(e, v) \/ CollectChild(e, v)
        PROVE  FALSE
    BY <2>2 DEF StartItem, InsertChild, CollectChild, ledger, books
  <2>3. ASSUME NEW v \in Work, CallStep(e, v)
        PROVE  Reserve(e, v) /\ v \in Units /\ o = <<e.run, e.claim, v>>
    <3>1. v \in Units
      BY <2>0, <2>3, CallUnit
    <3>2. CASE Reserve(e, v)
      BY <3>1, <3>2 DEF Reserve, ledger, books
    <3>3. CASE ~ Reserve(e, v)
      BY <2>3, <3>3 DEF CallStep, StartCall, Call, SettlePrompt, LosePrompt, Confirm, Save,
         SettleImage, FailCall, Release, Settled, ledger, books
    <3> QED
      BY <3>2, <3>3
  <2> QED
    BY <1>1, <2>1, <2>2, <2>3 DEF Step, UnitStep, CallStep
<1>2. CASE UNCHANGED vars \/ StaleStep \/ \E q \in Roots : Enqueue(q)
  BY <1>2 DEF vars, StaleStep, Enqueue, ledger, books
<1>3. CASE CancelStep
  BY <1>3 DEF CancelStep, Cancel, CancelChildren, CancelSelect, CancelDies, CancelRelease,
     ReleaseOpen, FinishRelease, ledger, books
<1>4. CASE \E w \in Workers : \/ \E q \in Roots : Choose(w, q)
                              \/ Admit(w) \/ Crash(w) \/ RecoverStep(w)
  BY <1>4 DEF Choose, Admit, Crash, RecoverStep, ListStale, RecoverRelease, Recover,
     ReleaseOpen, ledger, books
<1> QED
  BY <1>1, <1>2, <1>3, <1>4, Steps

LEMMA FiniteStep ==
  ASSUME TypeInv, LedgerInv, [Next]_vars
  PROVE  IsFiniteSet(open')
<1>1. CASE open' \subseteq open
  BY <1>1, FS_Subset DEF LedgerInv
<1>2. CASE ~ (open' \subseteq open)
  <2>1. PICK e \in execs, u \in Work : Reserve(e, u)
    BY <1>2, NewReservation
  <2>2. open' = open \/ open' = open \cup {<<e.run, e.claim, u>>}
    BY <2>1 DEF Reserve, ledger, books
  <2> QED
    BY <2>2, FS_AddElement DEF LedgerInv
<1> QED
  BY <1>1, <1>2

LEMMA OpenKnownStep ==
  ASSUME TypeInv, FreshInv, LedgerInv, [Next]_vars
  PROVE  OpenKnown'
<1> SUFFICES ASSUME NEW o \in open'
             PROVE  /\ o[1] \in Roots => o[2] <= run'[o[1]].attempts
                    /\ o[1] \in Children => run'[o[1]].status # "absent"
  BY DEF OpenKnown, Is
<1>1. /\ o[1] \in Roots => o[2] <= run[o[1]].attempts
      /\ o[1] \in Children => run[o[1]].status # "absent"
  <2>1. CASE o \in open
    BY <2>1 DEF LedgerInv, OpenKnown, Is
  <2>2. CASE o \notin open
    <3>1. PICK e \in execs : o[1] = e.run /\ o[2] = e.claim
      BY <2>2, NewReservation
    <3> QED
      BY <3>1 DEF FreshInv, ClaimUnique, LedgerInv, ChildExecs, Is
  <2> QED
    BY <2>1, <2>2
<1>2. o[2] \in Nat
  BY TypesStep DEF TypeInv, CoreOK, Reservation, Claims
<1>3. ASSUME o[1] \in Roots PROVE o[2] <= run'[o[1]].attempts
  <2>1. /\ run'[o[1]].attempts >= run[o[1]].attempts
        /\ run[o[1]].attempts \in Nat /\ run'[o[1]].attempts \in Nat
    BY <1>3, AttemptsGrow DEF FreshInv
  <2> QED
    BY <1>1, <1>2, <1>3, <2>1
<1>4. ASSUME o[1] \in Children PROVE run'[o[1]].status # "absent"
  <2>1. o[1] \in Runs /\ o[1] \notin Roots /\ RowStep(o[1])
    BY <1>4, RunNames, RowSteps DEF Runs
  <2> QED
    BY <1>1, <1>4, <2>1
    DEF RowStep, Kept, Ends, Requeued, Accepted, Taken, Created, Terminal
<1> QED
  BY <1>3, <1>4

LEMMA UnreservedStep ==
  ASSUME TypeInv, FreshInv, LedgerInv, [Next]_vars
  PROVE  Unreserved'
<1> SUFFICES ASSUME NEW x \in execs', NEW u \in Units,
                    x.phase = "loading" \/ x.at[u] \in {"none", "idle", "started"},
                    <<x.run, x.claim, u>> \in open'
             PROVE  FALSE
  BY DEF Unreserved
<1>0. u \in Work /\ u \notin Items
  BY WorkNames
\* An execution that is there already has the reservation, or has made it.
<1>1. ASSUME NEW e \in execs, SameExec(e, x),
             e.phase = "loading" \/ e.at[u] \in {"none", "idle", "started"}
      PROVE  Reserve(e, u) /\ e.phase # "loading"
  <2>1. <<x.run, x.claim, u>> \notin open
    BY <1>1 DEF LedgerInv, Unreserved, SameExec
  <2>2. PICK d \in execs, v \in Work :
          Reserve(d, v) /\ <<x.run, x.claim, u>> = <<d.run, d.claim, v>>
    BY <2>1, NewReservation
  <2>3. d.run = e.run /\ d.claim = e.claim /\ v = u
    BY <1>1, <2>2 DEF SameExec
  <2>4. d = e
    <3>1. d.run \in Roots \/ d.run \in Children
      BY DEF TypeInv, CoreOK, Exec, Runs
    <3> QED
      BY <2>3, <3>1 DEF FreshInv, ClaimUnique, LedgerInv, ChildExecs
  <2>5. e.at[u] = "started"
    BY <2>2, <2>3, <2>4 DEF Reserve
  <2> QED
    BY <1>0, <2>2, <2>3, <2>4, <2>5 DEF FreshInv, Unloaded
<1>2. ASSUME NEW e \in execs, Reserve(e, u), SameExec(e, x), x.at[u] = e.at[u]
      PROVE  FALSE
  <2>1. PICK place \in {"failed", "reserved"} : Moved(e, u, place)
    BY <1>2 DEF Reserve
  <2>2. e \in Exec /\ e.at \in [Work -> Place] /\ e.at[u] = "started"
    BY <1>2 DEF TypeInv, CoreOK, Exec, Reserve
  <2>3. x = [e EXCEPT !.at[u] = place] \/ (x \in execs /\ x # e)
    BY <2>1 DEF Moved
  <2>4. CASE x = [e EXCEPT !.at[u] = place]
    <3>1. x.at[u] = place
      BY <1>0, <2>2, <2>4 DEF Exec
    <3> QED
      BY <1>2, <2>2, <3>1
  <2>5. CASE x \in execs /\ x # e
    <3>1. x.run = e.run /\ x.claim = e.claim /\ (x.run \in Roots \/ x.run \in Children)
      BY <1>2, <2>5 DEF TypeInv, CoreOK, Exec, Runs, SameExec
    <3> QED
      BY <2>5, <3>1 DEF FreshInv, ClaimUnique, LedgerInv, ChildExecs
  <2> QED
    BY <2>3, <2>4, <2>5
<1>3. CASE Begins(x)
  <2>1. CASE x.run \in Roots /\ x.claim = run[x.run].attempts + 1 /\ UNCHANGED open
    <3>1. x.claim <= run[x.run].attempts /\ run[x.run].attempts \in Nat
      BY <2>1, AttemptsGrow DEF LedgerInv, OpenKnown, FreshInv
    <3> QED
      BY <2>1, <3>1
  <2>2. ASSUME NEW e \in execs, NEW i \in Items, InsertChild(e, i), e.run \in Roots,
               x.run = <<e.run, i, e.claim>>, x.run \in Children
        PROVE  FALSE
    <3>1. Is(x.run, "absent") /\ open' = open
      BY <2>2 DEF InsertChild, FreshInv, ItemsFresh, books
    <3> QED
      BY <2>2, <3>1 DEF LedgerInv, OpenKnown
  <2> QED
    BY <1>3, <2>1, <2>2 DEF Begins
<1>4. CASE x \in execs
  BY <1>1, <1>2, <1>4 DEF SameExec
<1>5. ASSUME NEW e \in execs, Loads(e, x) PROVE FALSE
  BY <1>1, <1>5 DEF Loads, Load
<1>6. ASSUME NEW e \in execs, Turns(e, x) PROVE FALSE
  BY <1>1, <1>2, <1>6 DEF Turns
<1>7. ASSUME NEW e \in execs, NEW v \in Work, Moves(e, v, x) PROVE FALSE
  <2>1. SameExec(e, x) /\ x.phase # "loading" /\ e.phase # "loading"
    BY <1>7 DEF Moves
  <2>2. CASE v # u
    <3>1. x.at[u] = e.at[u]
      BY <1>0, <1>7, <2>2 DEF Moves
    <3> QED
      BY <1>1, <1>2, <2>1, <3>1
  <2>3. CASE v = u
    <3>1. Outcome(e, u, x.at[u]) /\ x.at[u] \in {"none", "idle", "started"}
      BY <1>7, <2>1, <2>3 DEF Moves
    <3>2. StartCall(e, u) /\ e.at[u] = "idle"
      BY <1>0, <3>1 DEF Outcome
    <3>3. ~ Reserve(e, u)
      BY <3>2 DEF Reserve
    <3> QED
      BY <1>1, <2>1, <3>2, <3>3
  <2> QED
    BY <2>2, <2>3
<1> QED
  BY <1>3, <1>4, <1>5, <1>6, <1>7, ExecFate

LEMMA QuietStep ==
  ASSUME TypeInv, LedgerInv, [Next]_vars
  PROVE  Quiet'
<1> SUFFICES ASSUME NEW r \in midway' \ overtaken', NEW o \in open', o[1] = r PROVE FALSE
  BY DEF Quiet, OpenOf
<1>1. r \in midway \ overtaken
  BY MidwaySteps DEF OpenOf
<1>2. o \notin open
  BY <1>1 DEF LedgerInv, Quiet, OpenOf
<1>3. PICK e \in execs, u \in Work : Reserve(e, u) /\ o = <<e.run, e.claim, u>>
  BY <1>2, NewReservation
<1>4. e.run = r
  BY <1>3
<1> QED
  BY <1>1, <1>2, <1>3, <1>4 DEF Reserve, ledger, books

LEMMA LedgerInit == Init => LedgerInv
<1> SUFFICES ASSUME Init PROVE LedgerInv
  OBVIOUS
<1>1. open = {} /\ execs = {} /\ midway = {} /\ \A r \in Runs : run[r].reserved = 0
  BY DEF Init, NoRow
<1>2. IsFiniteSet(open) /\ OpenKnown /\ Unreserved /\ ChildExecs /\ Quiet
  BY <1>1, FS_EmptySet DEF OpenKnown, Unreserved, ChildExecs, Quiet
<1>3. ASSUME NEW r \in Runs
      PROVE  Agrees(run[r], Cardinality(OpenOf(open, r)), r \in overtaken)
  <2>1. OpenOf(open, r) = {}
    BY <1>1 DEF OpenOf
  <2> QED
    BY <1>1, <2>1, FS_EmptySet DEF Agrees
<1> QED
  BY <1>2, <1>3 DEF LedgerInv

LEMMA LedgerStep == TypeInv /\ FreshInv /\ LedgerInv /\ [Next]_vars => LedgerInv'
<1> SUFFICES ASSUME TypeInv, FreshInv, LedgerInv, [Next]_vars PROVE LedgerInv'
  OBVIOUS
<1>1. \A r \in Runs \ midway' :
        Agrees(run'[r], Cardinality(OpenOf(open', r)), r \in overtaken')
  BY Accounts, AccountsAgree
<1>2. ChildExecs'
  BY ChildExecsStep DEF LedgerInv
<1> QED
  BY <1>1, <1>2, FiniteStep, OpenKnownStep, UnreservedStep, QuietStep DEF LedgerInv

\* However executions, cancellations and recoveries settle and release reservations,
\* even of a run whose worker was silent and alive, a run never counts more reserved
\* credits than its open reservations are worth; and it counts each of them until it
\* completes, unless it is a child one of whose reservations came between the two
\* statements of a release.
THEOREM LedgersAgree == Safe => []LedgerAgrees
<1>1. LedgerInv => LedgerAgrees
  BY DEF LedgerInv, LedgerAgrees, Agrees, OpenOf, Is
<1> QED
  BY <1>1, TypesInit, TypesStep, FreshInit, FreshStep, LedgerInit, LedgerStep, PTL
  DEF Safe

=============================================================================
