------------------------ MODULE GenerationAdmission ------------------------
(***************************************************************************)
(* The admission of generations (generation-admission.ts): interactive     *)
(* requests, MCP calls and automation workers ask for a generation of one  *)
(* workspace, and one transaction recognises a repeated request key, times *)
(* out old generations, counts the active ones under the lock of the       *)
(* workspace and inserts the generation with its usage and dispatch row.   *)
(*                                                                         *)
(* Requests have passed the checks of their inputs.  The usage authority   *)
(* is external: it reserves or refuses.                                    *)
(***************************************************************************)
EXTENDS Naturals, FiniteSets

CONSTANTS
  Admissions,     \* requests; each may become one generation
  KeyOf,          \* requestKey of each, "none" when it has none
  SettingsOf,     \* the settings its request fingerprint covers
  NodeOf,         \* the node each generates for
  Exclusive,      \* requests with exclusiveNode or targetClipId
  Concurrency,    \* generationConcurrency of the workspace
  MaxAdmissionTroubles \* bound: failed transactions, repeated requests

ASSUME AdmissionAssumption ==
  /\ Concurrency \in Nat /\ MaxAdmissionTroubles \in Nat
  /\ {"none", "refused"} \cap Admissions = {}

VARIABLES
  admission,  \* the transaction of each request
  expiring,   \* generations each transaction has timed out, not yet committed
  generation, \* the generation of each request, as committed; a "blank" one has
              \* status success and no output
  answer,     \* what the client was told: a generation, or a refusal
  tooOld,     \* generations past their timeout
  admissionTroubles
admissionVars == <<admission, expiring, generation, answer, tooOld, admissionTroubles>>

AdmissionInit ==
  /\ admission = [r \in Admissions |-> "waiting"]
  /\ expiring = [r \in Admissions |-> {}]
  /\ generation = [r \in Admissions |-> "none"]
  /\ answer = [r \in Admissions |-> "none"]
  /\ tooOld = {}
  /\ admissionTroubles = 0

SameKey(r, q) == KeyOf[r] = KeyOf[q] /\ KeyOf[r] # "none"
\* The advisory locks are kept to the end of the transaction.
KeyIsFree(r) == \A q \in Admissions \ {r} : SameKey(r, q) => admission[q] = "waiting"
\* (A lock that is taken for the insertion alone.)
WorkspaceIsFree_ToCount == \A q \in Admissions : admission[q] # "inserted"
WorkspaceIsFree == \A q \in Admissions : admission[q] \notin {"counting", "inserted"}

\* activeGenerationCount: a blank success is not counted, until a later report
\* reopens it.
Counted(g) == generation[g] \in {"active", "reopened"}
\* What a transaction counts: it sees its own changes and what was committed.
ActiveFor(r) == {g \in Admissions : Counted(g)} \ expiring[r]

\* COMMIT: the transaction's timeouts and its generation appear at once.
Commit(r, outcome, told) ==
  /\ generation' = [g \in Admissions |->
       IF g = r /\ outcome # "none" THEN outcome
       ELSE IF g \in expiring[r] THEN "ended" ELSE generation[g]]
  /\ answer' = [answer EXCEPT ![r] = told]
  /\ admission' = [admission EXCEPT ![r] = "waiting"]
  /\ expiring' = [expiring EXCEPT ![r] = {}]

\* BEGIN and the lock of the key: a key that has a generation is answered with
\* it, or with 409 when its settings are others; without one the admission begins.
RecogniseRequest(r) ==
  /\ admission[r] = "waiting" /\ answer[r] = "none"
  /\ KeyIsFree(r)
  /\ LET known == {g \in Admissions : SameKey(g, r) /\ generation[g] # "none"}
     IN \/ \E g \in known :
             Commit(r, "none", IF SettingsOf[g] = SettingsOf[r] THEN g ELSE "refused")
        \/ /\ known = {}
           /\ admission' = [admission EXCEPT ![r] = "expiring"]
           /\ UNCHANGED <<expiring, generation, answer>>
  /\ UNCHANGED <<tooOld, admissionTroubles>>

\* expireStaleGenerations: the rows stay locked to the end of the transaction.
\* Those whose submission is uncertain are passed over (timeoutGeneration).
ExpireStale(r) ==
  /\ admission[r] = "expiring"
  /\ \A q \in Admissions : expiring[q] \cap tooOld = {}
  /\ \E uncertain \in SUBSET tooOld :
       expiring' = [expiring EXCEPT ![r] = {g \in tooOld \ uncertain : Counted(g)}]
  /\ admission' = [admission EXCEPT ![r] = "expired"]
  /\ UNCHANGED <<generation, answer, tooOld, admissionTroubles>>

LockWorkspace(r) ==
  /\ admission[r] = "expired"
  /\ WorkspaceIsFree
  /\ admission' = [admission EXCEPT ![r] = "counting"]
  /\ UNCHANGED <<expiring, generation, answer, tooOld, admissionTroubles>>

\* 409 when an exclusive node generates already, 429 when the slots are taken.
CountAndInsert(r) ==
  /\ admission[r] = "counting"
  /\ IF \/ r \in Exclusive /\ \E g \in ActiveFor(r) : NodeOf[g] = NodeOf[r]
        \/ Cardinality(ActiveFor(r)) >= Concurrency
     THEN Commit(r, "none", "refused")
     ELSE /\ admission' = [admission EXCEPT ![r] = "inserted"]
          /\ UNCHANGED <<expiring, generation, answer>>
  /\ UNCHANGED <<tooOld, admissionTroubles>>

\* The usage is reserved and the dispatch row inserted, or the generation fails;
\* both commit with the row.
FinishAdmission(r) ==
  /\ admission[r] = "inserted"
  /\ \/ Commit(r, "active", r)
     \/ Commit(r, "ended", "refused")
  /\ UNCHANGED <<tooOld, admissionTroubles>>

\* A statement throws or the process dies: nothing of it happened.
RollBack(r) ==
  /\ admission[r] # "waiting"
  /\ admissionTroubles < MaxAdmissionTroubles /\ admissionTroubles' = admissionTroubles + 1
  /\ admission' = [admission EXCEPT ![r] = "waiting"]
  /\ expiring' = [expiring EXCEPT ![r] = {}]
  /\ UNCHANGED <<generation, answer, tooOld>>

\* The answer is lost, or was a refusal, and the client asks again; a request
\* without a key is a new request then.
AskAgain(r) ==
  /\ \/ answer[r] # "none" /\ KeyOf[r] # "none"
     \/ answer[r] = "refused" /\ generation[r] = "none"
  /\ admissionTroubles < MaxAdmissionTroubles /\ admissionTroubles' = admissionTroubles + 1
  /\ answer' = [answer EXCEPT ![r] = "none"]
  /\ UNCHANGED <<admission, expiring, generation, tooOld>>

GenerationAges(g) ==
  /\ Counted(g) /\ g \notin tooOld
  /\ tooOld' = tooOld \cup {g}
  /\ UNCHANGED <<admission, expiring, generation, answer, admissionTroubles>>

\* An update of the row of a generation by another process waits for its lock.
Updated(g, state) ==
  /\ \A r \in Admissions : g \notin expiring[r]
  /\ generation' = [generation EXCEPT ![g] = state]
  /\ UNCHANGED <<admission, expiring, answer, tooOld, admissionTroubles>>

\* A callback reports success without a result (finalizeGenerationFromWebhook).
GenerationBlank(g) == Counted(g) /\ Updated(g, "blank")

\* A poll turns it to "finalizing", a late report to "processing": it is active again,
\* and nothing counts or asks for a slot.
GenerationReopens(g) == generation[g] = "blank" /\ Updated(g, "reopened")

\* The worker, a callback, a poll or a cancellation ends it.
GenerationEnds(g) == (Counted(g) \/ generation[g] = "blank") /\ Updated(g, "ended")

AdmissionNext ==
  \E r \in Admissions :
     \/ RecogniseRequest(r) \/ ExpireStale(r) \/ LockWorkspace(r) \/ CountAndInsert(r)
     \/ FinishAdmission(r) \/ RollBack(r) \/ AskAgain(r)
     \/ GenerationAges(r) \/ GenerationBlank(r) \/ GenerationReopens(r)
     \/ GenerationEnds(r)
AdmissionSpec == AdmissionInit /\ [][AdmissionNext]_admissionVars

-----------------------------------------------------------------------------
\* Whatever requests race, fail or are repeated, the workspace never generates more
\* than its limit, an exclusive node never twice at a time, but for generations
\* reopened after an empty success had given their slot away; a key has one
\* generation, and who was told of a generation can find it and asked for its
\* settings ("A retry observes either the entire admission or nothing",
\* generation-admission.ts:109).
AdmittedOnceWithinLimits ==
  LET active == {g \in Admissions : generation[g] = "active"}
  IN /\ Cardinality(active) <= Concurrency
     /\ \A g, h \in active \cap Exclusive : NodeOf[g] = NodeOf[h] => g = h
     /\ \A g, h \in Admissions :
          SameKey(g, h) /\ generation[g] # "none" /\ generation[h] # "none" => g = h
     /\ \A r \in Admissions : answer[r] \in Admissions =>
          /\ generation[answer[r]] # "none"
          /\ \/ answer[r] = r
             \/ SameKey(answer[r], r) /\ SettingsOf[answer[r]] = SettingsOf[r]
=============================================================================
