--------------------------- MODULE WorkspaceProofs ---------------------------
(***************************************************************************)
(* Proofs about what a workspace is charged and limited for: the admission *)
(* of its generations (GenerationAdmission) and its files                  *)
(* (StorageLifecycle), for any requests, uploads, processes and failures.  *)
(***************************************************************************)
EXTENDS GenerationAdmission, StorageLifecycle, SumTheorems

-----------------------------------------------------------------------------
(* Admission.                                                              *)

Active == {g \in Admissions : generation[g] = "active"}
\* What a transaction counts, but for the reopened ones.
FreshFor(r) == Active \ expiring[r]

AdmissionTypeOK ==
  /\ admission \in [Admissions -> {"waiting", "expiring", "expired", "counting", "inserted"}]
  /\ expiring \in [Admissions -> SUBSET Admissions]
  /\ generation \in [Admissions -> {"none", "active", "blank", "reopened", "ended"}]
  /\ answer \in [Admissions -> Admissions \cup {"none", "refused"}]
  /\ tooOld \subseteq Admissions

\* The locks are what they are for: of one workspace and of one key.
OneAdmits ==
  \A r, q \in Admissions :
    admission[r] \in {"counting", "inserted"} /\ admission[q] \in {"counting", "inserted"} => r = q
OnePerKey ==
  \A r, q \in Admissions : SameKey(r, q) /\ r # q /\ admission[r] # "waiting" =>
    admission[q] = "waiting" /\ generation[q] = "none"
OneResult ==
  \A r, q \in Admissions :
    SameKey(r, q) /\ generation[r] # "none" /\ generation[q] # "none" => r = q

\* A transaction times out what exists, and what it has counted since it inserted
\* its row leaves room for it: nobody else can add to it.
ExpiresRows == \A r, g \in Admissions : g \in expiring[r] => generation[g] # "none"
HasRoom ==
  \A r \in Admissions : admission[r] = "inserted" =>
    /\ Cardinality(FreshFor(r)) < Concurrency
    /\ r \in Exclusive => \A g \in FreshFor(r) : NodeOf[g] # NodeOf[r]

\* The limits themselves.
WithinLimits ==
  /\ IsFiniteSet(Active) /\ Cardinality(Active) <= Concurrency
  /\ \A g, h \in Active \cap Exclusive : NodeOf[g] = NodeOf[h] => g = h
FiniteRows == IsFiniteSet({g \in Admissions : generation[g] # "none"})
\* Who is told of a generation asked for it.
Asked(g, r) == g = r \/ (SameKey(g, r) /\ SettingsOf[g] = SettingsOf[r])
ToldOfRows ==
  \A r \in Admissions : answer[r] \in Admissions =>
    generation[answer[r]] # "none" /\ Asked(answer[r], r)

AdmissionInv ==
  /\ AdmissionTypeOK
  /\ OneAdmits /\ OnePerKey /\ OneResult
  /\ ExpiresRows /\ HasRoom /\ WithinLimits /\ FiniteRows /\ ToldOfRows

\* A step that adds no active generation and no row keeps the room of all others.
LEMMA RoomKept ==
  ASSUME AdmissionInv, AdmissionTypeOK', NEW r \in Admissions,
         admission[r] = "inserted", expiring'[r] = expiring[r],
         Active' \subseteq Active
  PROVE  /\ Cardinality(FreshFor(r)') < Concurrency
         /\ r \in Exclusive => \A g \in FreshFor(r)' : NodeOf[g] # NodeOf[r]
<1>1. FreshFor(r)' \subseteq FreshFor(r)
  BY DEF FreshFor, Active
<1>2. IsFiniteSet(FreshFor(r))
  BY FS_Subset DEF AdmissionInv, WithinLimits, FreshFor, Active
<1>3. /\ IsFiniteSet(FreshFor(r)')
      /\ Cardinality(FreshFor(r)') <= Cardinality(FreshFor(r))
  BY <1>1, <1>2, FS_Subset
<1>4. /\ Cardinality(FreshFor(r)) \in Nat /\ Cardinality(FreshFor(r)') \in Nat
      /\ Cardinality(FreshFor(r)) < Concurrency
  BY <1>2, <1>3, FS_CardinalityType DEF AdmissionInv, HasRoom
<1> QED
  BY <1>1, <1>3, <1>4, AdmissionAssumption DEF AdmissionInv, HasRoom

\* A set of active generations that shrinks stays within the limits.
LEMMA LimitsKept ==
  ASSUME AdmissionInv, Active' \subseteq Active
  PROVE  WithinLimits'
<1>1. /\ IsFiniteSet(Active')
      /\ Cardinality(Active') <= Cardinality(Active)
  BY FS_Subset DEF AdmissionInv, WithinLimits
<1>2. Cardinality(Active) \in Nat /\ Cardinality(Active') \in Nat
  BY <1>1, FS_CardinalityType DEF AdmissionInv, WithinLimits
<1> QED
  BY <1>1, <1>2, AdmissionAssumption DEF AdmissionInv, WithinLimits

\* What the end of a transaction writes.
LEMMA Commits ==
  ASSUME AdmissionInv, NEW r \in Admissions,
         NEW outcome \in {"none", "active", "ended"},
         NEW told \in Admissions \cup {"none", "refused"},
         Commit(r, outcome, told), tooOld' = tooOld,
         outcome = "active" => admission[r] = "inserted",
         outcome # "none" => admission[r] # "waiting",
         told \in Admissions =>
           Asked(told, r) /\ (generation[told] # "none" \/ (told = r /\ outcome # "none"))
  PROVE  AdmissionInv'
<1>1. AdmissionTypeOK'
  BY DEF AdmissionInv, AdmissionTypeOK, Commit
<1>2. /\ admission' = [admission EXCEPT ![r] = "waiting"]
      /\ expiring' = [expiring EXCEPT ![r] = {}]
      /\ answer' = [answer EXCEPT ![r] = told]
      /\ \A g \in Admissions :
           generation'[g] = IF g = r /\ outcome # "none" THEN outcome
                            ELSE IF g \in expiring[r] THEN "ended" ELSE generation[g]
  BY DEF Commit
<1>3. \A g \in Admissions : generation[g] # "none" => generation'[g] # "none"
  BY <1>2
<1>4. \A g \in Admissions \ {r} : generation'[g] # "none" => generation[g] # "none"
  BY <1>2 DEF AdmissionInv, ExpiresRows
<1>5. OneAdmits'
  BY <1>2 DEF AdmissionInv, AdmissionTypeOK, OneAdmits
<1>6. OnePerKey'
  <2> SUFFICES ASSUME NEW p \in Admissions, NEW q \in Admissions, SameKey(p, q), p # q,
                      admission'[p] # "waiting"
               PROVE  admission'[q] = "waiting" /\ generation'[q] = "none"
    BY DEF OnePerKey, SameKey
  <2>1. p # r /\ admission[p] # "waiting"
    BY <1>2 DEF AdmissionInv, AdmissionTypeOK
  <2>2. admission[q] = "waiting" /\ generation[q] = "none"
    BY <2>1 DEF AdmissionInv, OnePerKey
  <2>3. outcome = "none" \/ q # r
    BY <2>2
  <2>4. q \notin expiring[r]
    BY <2>2 DEF AdmissionInv, ExpiresRows
  <2> QED
    BY <1>2, <2>2, <2>3, <2>4 DEF AdmissionInv, AdmissionTypeOK
<1>7. OneResult'
  <2> SUFFICES ASSUME NEW p \in Admissions, NEW q \in Admissions, SameKey(p, q), p # q,
                      generation'[p] # "none", generation'[q] # "none"
               PROVE  FALSE
    BY DEF OneResult, SameKey
  <2>1. SameKey(q, p)
    BY DEF SameKey
  <2>2. CASE generation[p] # "none" /\ generation[q] # "none"
    BY <2>2 DEF AdmissionInv, OneResult
  <2>3. CASE generation[p] = "none"
    <3>1. p = r /\ outcome # "none" /\ generation[q] # "none"
      BY <1>2, <1>4, <2>3 DEF AdmissionInv, ExpiresRows
    <3> QED
      BY <3>1 DEF AdmissionInv, OnePerKey
  <2>4. CASE generation[q] = "none"
    <3>1. q = r /\ outcome # "none" /\ generation[p] # "none"
      BY <1>2, <1>4, <2>4 DEF AdmissionInv, ExpiresRows
    <3> QED
      BY <2>1, <3>1 DEF AdmissionInv, OnePerKey
  <2> QED
    BY <2>2, <2>3, <2>4
<1>8. ExpiresRows'
  BY <1>2, <1>3 DEF AdmissionInv, AdmissionTypeOK, ExpiresRows
<1>9. ToldOfRows'
  <2> SUFFICES ASSUME NEW q \in Admissions, answer'[q] \in Admissions
               PROVE  generation'[answer'[q]] # "none" /\ Asked(answer'[q], q)
    BY DEF ToldOfRows, Asked, SameKey
  <2>1. CASE q = r
    BY <1>2, <1>3, <2>1 DEF AdmissionInv, AdmissionTypeOK
  <2>2. CASE q # r
    BY <1>2, <1>3, <2>2 DEF AdmissionInv, AdmissionTypeOK, ToldOfRows
  <2> QED
    BY <2>1, <2>2
<1>12. FiniteRows'
  <2> DEFINE S == {g \in Admissions : generation[g] # "none"}
             T == {g \in Admissions : generation'[g] # "none"}
  <2>1. IsFiniteSet(S \cup {r})
    BY FS_AddElement DEF AdmissionInv, FiniteRows
  <2>2. T \subseteq S \cup {r}
    BY <1>4
  <2>3. IsFiniteSet(T)
    BY <2>1, <2>2, FS_Subset
  <2> QED
    BY <2>3 DEF FiniteRows
<1>10. WithinLimits'
  <2>1. CASE outcome # "active"
    <3>1. Active' \subseteq Active
      BY <1>2, <2>1 DEF Active
    <3> QED
      BY <3>1, LimitsKept
  <2>2. CASE outcome = "active"
    <3>1. /\ IsFiniteSet(FreshFor(r)) /\ Cardinality(FreshFor(r)) \in Nat
          /\ Cardinality(FreshFor(r)) < Concurrency
      BY <2>2, FS_Subset, FS_CardinalityType
      DEF AdmissionInv, WithinLimits, HasRoom, FreshFor, Active
    <3>2. Active' = FreshFor(r) \cup {r}
      BY <1>2, <2>2 DEF Active, FreshFor
    <3>3. /\ IsFiniteSet(Active')
          /\ Cardinality(Active') <= Cardinality(FreshFor(r)) + 1
      <4> DEFINE S == FreshFor(r)
      <4>1. IsFiniteSet(S) /\ Cardinality(S) \in Nat /\ Active' = S \cup {r}
        BY <3>1, <3>2
      <4> HIDE DEF S
      <4>2. /\ IsFiniteSet(S \cup {r})
            /\ Cardinality(S \cup {r}) = IF r \in S THEN Cardinality(S) ELSE Cardinality(S) + 1
        BY <4>1, FS_AddElement
      <4>3. IsFiniteSet(Active') /\ Cardinality(Active') <= Cardinality(S) + 1
        BY <4>1, <4>2
      <4> QED
        BY <4>3 DEF S
    <3>4. Cardinality(Active') \in Nat
      BY <3>3, FS_CardinalityType
    <3>5. ASSUME NEW g \in Active' \cap Exclusive, NEW h \in Active' \cap Exclusive,
                 NodeOf[g] = NodeOf[h]
          PROVE  g = h
      <4>1. \A x \in FreshFor(r) : r \in Exclusive => NodeOf[x] # NodeOf[r]
        BY <2>2 DEF AdmissionInv, HasRoom
      <4>2. CASE g = r \/ h = r
        BY <3>2, <3>5, <4>1, <4>2
      <4>3. CASE g # r /\ h # r
        BY <3>2, <3>5, <4>3 DEF AdmissionInv, WithinLimits, FreshFor, Active
      <4> QED
        BY <4>2, <4>3
    <3> QED
      BY <3>1, <3>3, <3>4, <3>5, AdmissionAssumption DEF WithinLimits
  <2> QED
    BY <2>1, <2>2
<1>11. HasRoom'
  <2> SUFFICES ASSUME NEW q \in Admissions, admission'[q] = "inserted"
               PROVE  /\ Cardinality(FreshFor(q)') < Concurrency
                      /\ q \in Exclusive => \A g \in FreshFor(q)' : NodeOf[g] # NodeOf[q]
    BY DEF HasRoom, FreshFor
  <2>1. q # r /\ admission[q] = "inserted" /\ expiring'[q] = expiring[q]
    BY <1>2 DEF AdmissionInv, AdmissionTypeOK
  <2>2. outcome # "active"
    BY <2>1 DEF AdmissionInv, OneAdmits
  <2>3. Active' \subseteq Active
    BY <1>2, <2>2 DEF Active
  <2> QED
    BY <1>1, <2>1, <2>3, RoomKept
<1> QED
  BY <1>1, <1>5, <1>6, <1>7, <1>8, <1>9, <1>10, <1>11, <1>12 DEF AdmissionInv

\* A transaction that goes on: of its rows nothing has changed yet.
LEMMA GoesOn ==
  ASSUME AdmissionInv, NEW r \in Admissions,
         NEW next \in {"waiting", "expiring", "expired", "counting", "inserted"},
         NEW rows \in SUBSET Admissions,
         admission' = [admission EXCEPT ![r] = next],
         expiring' = [expiring EXCEPT ![r] = rows],
         UNCHANGED <<generation, answer, tooOld>>,
         next \in {"counting", "inserted"} =>
           admission[r] = "counting" \/ WorkspaceIsFree,
         next # "waiting" /\ admission[r] = "waiting" =>
           /\ KeyIsFree(r)
           /\ \A q \in Admissions : SameKey(q, r) => generation[q] = "none",
         \A g \in rows : generation[g] # "none",
         next = "inserted" =>
           /\ rows = expiring[r]
           /\ Cardinality(FreshFor(r)) < Concurrency
           /\ r \in Exclusive => \A g \in FreshFor(r) : NodeOf[g] # NodeOf[r]
  PROVE  AdmissionInv'
<1>1. AdmissionTypeOK'
  BY DEF AdmissionInv, AdmissionTypeOK
<1>2. OneAdmits'
  BY DEF AdmissionInv, AdmissionTypeOK, OneAdmits, WorkspaceIsFree
<1>3. OnePerKey'
  <2> SUFFICES ASSUME NEW p \in Admissions, NEW q \in Admissions, SameKey(p, q), p # q,
                      admission'[p] # "waiting"
               PROVE  admission'[q] = "waiting" /\ generation[q] = "none"
    BY DEF OnePerKey, SameKey
  <2>1. SameKey(q, p)
    BY DEF SameKey
  <2>2. CASE admission[p] # "waiting"
    <3>1. admission[q] = "waiting" /\ generation[q] = "none"
      BY <2>2 DEF AdmissionInv, OnePerKey
    <3>2. q # r \/ next = "waiting"
      BY <2>1, <2>2, <3>1 DEF KeyIsFree
    <3> QED
      BY <3>1, <3>2 DEF AdmissionInv, AdmissionTypeOK
  <2>3. CASE admission[p] = "waiting"
    <3>1. p = r /\ next # "waiting"
      BY <2>3 DEF AdmissionInv, AdmissionTypeOK
    <3> QED
      BY <2>1, <2>3, <3>1 DEF KeyIsFree, AdmissionInv, AdmissionTypeOK
  <2> QED
    BY <2>2, <2>3
<1>4. OneResult' /\ ToldOfRows' /\ FiniteRows' /\ WithinLimits'
  <2>1. Active' = Active
    BY DEF Active
  <2> QED
    BY <2>1, LimitsKept DEF AdmissionInv, OneResult, ToldOfRows, FiniteRows, Asked, SameKey
<1>5. ExpiresRows'
  BY DEF AdmissionInv, AdmissionTypeOK, ExpiresRows
<1>6. HasRoom'
  <2> SUFFICES ASSUME NEW q \in Admissions, admission'[q] = "inserted"
               PROVE  /\ Cardinality(FreshFor(q)') < Concurrency
                      /\ q \in Exclusive => \A g \in FreshFor(q)' : NodeOf[g] # NodeOf[q]
    BY DEF HasRoom, FreshFor, Active
  <2>1. FreshFor(q)' = FreshFor(q)
    BY DEF FreshFor, Active, AdmissionInv, AdmissionTypeOK
  <2>2. CASE q = r
    BY <2>1, <2>2 DEF AdmissionInv, AdmissionTypeOK
  <2>3. CASE q # r
    BY <2>1, <2>3 DEF AdmissionInv, AdmissionTypeOK, HasRoom
  <2> QED
    BY <2>2, <2>3
<1> QED
  BY <1>1, <1>2, <1>3, <1>4, <1>5, <1>6 DEF AdmissionInv

LEMMA AdmissionStep == AdmissionInv /\ [AdmissionNext]_admissionVars => AdmissionInv'
<1> SUFFICES ASSUME AdmissionInv, [AdmissionNext]_admissionVars
             PROVE  AdmissionInv'
  OBVIOUS
<1>1. ASSUME NEW r \in Admissions, RecogniseRequest(r)
      PROVE  AdmissionInv'
  <2> DEFINE known == {g \in Admissions : SameKey(g, r) /\ generation[g] # "none"}
  <2>1. ASSUME NEW g \in known,
               Commit(r, "none", IF SettingsOf[g] = SettingsOf[r] THEN g ELSE "refused")
        PROVE  AdmissionInv'
    <3> DEFINE told == IF SettingsOf[g] = SettingsOf[r] THEN g ELSE "refused"
    <3>1. told \in Admissions \cup {"none", "refused"}
      OBVIOUS
    <3>2. told \in Admissions => Asked(told, r) /\ generation[told] # "none"
      BY AdmissionAssumption DEF Asked
    <3>3. tooOld' = tooOld
      BY <1>1 DEF RecogniseRequest
    <3>4. Commit(r, "none", told)
      BY <2>1
    <3> HIDE DEF told
    <3> QED
      BY <3>1, <3>2, <3>3, <3>4, Commits
  <2>2. CASE known = {} /\ admission' = [admission EXCEPT ![r] = "expiring"]
             /\ UNCHANGED <<expiring, generation, answer>>
    <3>1. expiring' = [expiring EXCEPT ![r] = expiring[r]] /\ expiring[r] \in SUBSET Admissions
      BY <2>2 DEF AdmissionInv, AdmissionTypeOK
    <3>2. \A q \in Admissions : SameKey(q, r) => generation[q] = "none"
      BY <2>2
    <3>3. \A g \in expiring[r] : generation[g] # "none"
      BY DEF AdmissionInv, AdmissionTypeOK, ExpiresRows
    <3>4. KeyIsFree(r)
      BY <1>1 DEF RecogniseRequest
    <3> QED
      BY <1>1, <2>2, <3>1, <3>2, <3>3, <3>4, GoesOn DEF RecogniseRequest
  <2> QED
    BY <1>1, <2>1, <2>2 DEF RecogniseRequest
<1>2. ASSUME NEW r \in Admissions, ExpireStale(r)
      PROVE  AdmissionInv'
  <2>1. PICK uncertain \in SUBSET tooOld :
          expiring' = [expiring EXCEPT ![r] = {g \in tooOld \ uncertain : Counted(g)}]
    BY <1>2 DEF ExpireStale
  <2> DEFINE rows == {g \in tooOld \ uncertain : Counted(g)}
  <2>2. rows \in SUBSET Admissions /\ \A g \in rows : generation[g] # "none"
    BY DEF AdmissionInv, AdmissionTypeOK, Counted
  <2>3. expiring' = [expiring EXCEPT ![r] = rows]
    BY <2>1
  <2> HIDE DEF rows
  <2> QED
    BY <1>2, <2>2, <2>3, GoesOn DEF ExpireStale
<1>3. ASSUME NEW r \in Admissions, LockWorkspace(r)
      PROVE  AdmissionInv'
  <2>1. expiring' = [expiring EXCEPT ![r] = expiring[r]] /\ expiring[r] \in SUBSET Admissions
    BY <1>3 DEF LockWorkspace, AdmissionInv, AdmissionTypeOK
  <2>2. \A g \in expiring[r] : generation[g] # "none"
    BY DEF AdmissionInv, AdmissionTypeOK, ExpiresRows
  <2> QED
    BY <1>3, <2>1, <2>2, GoesOn DEF LockWorkspace
<1>4. ASSUME NEW r \in Admissions, CountAndInsert(r)
      PROVE  AdmissionInv'
  <2> DEFINE full == \/ r \in Exclusive /\ \E g \in ActiveFor(r) : NodeOf[g] = NodeOf[r]
                     \/ Cardinality(ActiveFor(r)) >= Concurrency
  <2>1. CASE full
    <3>1. Commit(r, "none", "refused")
      BY <1>4, <2>1 DEF CountAndInsert
    <3> QED
      BY <1>4, <3>1, Commits, AdmissionAssumption DEF CountAndInsert
  <2>2. CASE ~full
    <3>1. /\ admission[r] = "counting"
          /\ admission' = [admission EXCEPT ![r] = "inserted"]
          /\ UNCHANGED <<expiring, generation, answer>>
      BY <1>4, <2>2 DEF CountAndInsert
    <3>2. expiring' = [expiring EXCEPT ![r] = expiring[r]] /\ expiring[r] \in SUBSET Admissions
      BY <3>1 DEF AdmissionInv, AdmissionTypeOK
    <3>3. \A g \in expiring[r] : generation[g] # "none"
      BY DEF AdmissionInv, AdmissionTypeOK, ExpiresRows
    <3>4. /\ Cardinality(FreshFor(r)) < Concurrency
          /\ r \in Exclusive => \A g \in FreshFor(r) : NodeOf[g] # NodeOf[r]
      <4>1. FreshFor(r) \subseteq ActiveFor(r)
        BY DEF FreshFor, Active, ActiveFor, Counted
      <4>2. IsFiniteSet(ActiveFor(r))
        BY FS_Subset DEF AdmissionInv, FiniteRows, ActiveFor, Counted
      <4>3. /\ Cardinality(ActiveFor(r)) \in Nat /\ Cardinality(FreshFor(r)) \in Nat
            /\ Cardinality(FreshFor(r)) <= Cardinality(ActiveFor(r))
        BY <4>1, <4>2, FS_Subset, FS_CardinalityType
      <4> QED
        BY <2>2, <4>1, <4>3, AdmissionAssumption
    <3> QED
      BY <1>4, <2>2, <3>1, <3>2, <3>3, <3>4, GoesOn DEF CountAndInsert
  <2> QED
    BY <2>1, <2>2
<1>5. ASSUME NEW r \in Admissions, FinishAdmission(r)
      PROVE  AdmissionInv'
  <2>1. CASE Commit(r, "active", r)
    BY <1>5, <2>1, Commits DEF FinishAdmission, Asked
  <2>2. CASE Commit(r, "ended", "refused")
    BY <1>5, <2>2, Commits, AdmissionAssumption DEF FinishAdmission
  <2> QED
    BY <1>5, <2>1, <2>2 DEF FinishAdmission
<1>6. ASSUME NEW r \in Admissions, RollBack(r)
      PROVE  AdmissionInv'
  <2>1. /\ admission' = [admission EXCEPT ![r] = "waiting"]
        /\ expiring' = [expiring EXCEPT ![r] = {}]
        /\ UNCHANGED <<generation, answer, tooOld>>
    BY <1>6 DEF RollBack
  <2>2. {} \in SUBSET Admissions /\ \A g \in {} : generation[g] # "none"
    OBVIOUS
  <2> QED
    BY <2>1, <2>2, GoesOn
<1>7. ASSUME NEW r \in Admissions, AskAgain(r) \/ GenerationAges(r)
      PROVE  AdmissionInv'
  <2>1. UNCHANGED <<admission, expiring, generation>>
    BY <1>7 DEF AskAgain, GenerationAges
  <2>2. answer' = answer \/ answer' = [answer EXCEPT ![r] = "none"]
    BY <1>7 DEF AskAgain, GenerationAges
  <2>3. AdmissionTypeOK' /\ ToldOfRows'
    BY <1>7, <2>1, <2>2, AdmissionAssumption
    DEF AdmissionInv, AdmissionTypeOK, ToldOfRows, Asked, SameKey, AskAgain, GenerationAges
  <2>4. Active' = Active /\ \A q \in Admissions : FreshFor(q)' = FreshFor(q)
    BY <2>1 DEF Active, FreshFor
  <2> QED
    BY <2>1, <2>3, <2>4
    DEF AdmissionInv, OneAdmits, OnePerKey, OneResult, ExpiresRows, HasRoom, WithinLimits,
        FiniteRows, SameKey, FreshFor
<1>8. ASSUME NEW r \in Admissions,
             GenerationBlank(r) \/ GenerationReopens(r) \/ GenerationEnds(r)
      PROVE  AdmissionInv'
  <2>1. PICK state \in {"blank", "reopened", "ended"} :
          /\ generation' = [generation EXCEPT ![r] = state]
          /\ generation[r] # "none"
          /\ UNCHANGED <<admission, expiring, answer, tooOld>>
    BY <1>8 DEF GenerationBlank, GenerationReopens, GenerationEnds, Updated, Counted
  <2>2. AdmissionTypeOK'
    BY <2>1 DEF AdmissionInv, AdmissionTypeOK
  <2>3. Active' \subseteq Active
    BY <2>1 DEF Active, AdmissionInv, AdmissionTypeOK
  <2>4. \A g \in Admissions : generation'[g] = "none" <=> generation[g] = "none"
    BY <2>1 DEF AdmissionInv, AdmissionTypeOK
  <2>5. HasRoom'
    <3> SUFFICES ASSUME NEW q \in Admissions, admission'[q] = "inserted"
                 PROVE  /\ Cardinality(FreshFor(q)') < Concurrency
                        /\ q \in Exclusive => \A g \in FreshFor(q)' : NodeOf[g] # NodeOf[q]
      BY DEF HasRoom, FreshFor
    <3> QED
      BY <2>1, <2>2, <2>3, RoomKept
  <2>6. /\ OneAdmits' /\ OnePerKey' /\ OneResult' /\ ExpiresRows'
    BY <2>1, <2>4
    DEF AdmissionInv, AdmissionTypeOK, OneAdmits, OnePerKey, OneResult, ExpiresRows, SameKey
  <2>7. ToldOfRows'
    BY <2>1, <2>4 DEF AdmissionInv, AdmissionTypeOK, ToldOfRows, Asked, SameKey
  <2>8. FiniteRows'
    BY <2>4 DEF AdmissionInv, FiniteRows
  <2> QED
    BY <2>2, <2>3, <2>5, <2>6, <2>7, <2>8, LimitsKept DEF AdmissionInv
<1>9. ASSUME UNCHANGED admissionVars
      PROVE  AdmissionInv'
  <2>1. /\ Active' = Active /\ \A q \in Admissions : FreshFor(q)' = FreshFor(q)
        /\ AdmissionTypeOK'
    BY <1>9 DEF admissionVars, FreshFor, Active, AdmissionInv, AdmissionTypeOK
  <2>2. HasRoom' /\ WithinLimits'
    BY <1>9, <2>1 DEF admissionVars, AdmissionInv, HasRoom, WithinLimits
  <2>3. /\ OneAdmits' /\ OnePerKey' /\ OneResult' /\ ExpiresRows' /\ ToldOfRows'
        /\ FiniteRows'
    BY <1>9
    DEF admissionVars, AdmissionInv, OneAdmits, OnePerKey, OneResult, ExpiresRows,
        FiniteRows, ToldOfRows, Asked, SameKey
  <2> QED
    BY <2>1, <2>2, <2>3 DEF AdmissionInv
<1> QED
  BY <1>1, <1>2, <1>3, <1>4, <1>5, <1>6, <1>7, <1>8, <1>9 DEF AdmissionNext

\* The workspace never generates more than its limit, an exclusive node never twice
\* at a time, a request key has one generation and who was told of one can find it,
\* however many requests race, fail and are repeated (admitGeneration).
THEOREM AdmissionIsLimited == AdmissionSpec => []AdmittedOnceWithinLimits
<1>1. AdmissionInit => AdmissionInv
  <2> SUFFICES ASSUME AdmissionInit
               PROVE  AdmissionInv
    OBVIOUS
  <2>1. Active = {}
    BY DEF AdmissionInit, Active
  <2>2. WithinLimits
    BY <2>1, FS_EmptySet, AdmissionAssumption DEF WithinLimits
  <2>3. FiniteRows
    <3>1. {g \in Admissions : generation[g] # "none"} = {}
      BY DEF AdmissionInit
    <3> QED
      BY <3>1, FS_EmptySet DEF FiniteRows
  <2> QED
    BY <2>2, <2>3, AdmissionAssumption
    DEF AdmissionInit, AdmissionInv, AdmissionTypeOK, OneAdmits, OnePerKey, OneResult,
        ExpiresRows, HasRoom, ToldOfRows
<1>2. AdmissionInv => AdmittedOnceWithinLimits
  BY DEF AdmissionInv, WithinLimits, OneResult, ToldOfRows, Asked,
         AdmittedOnceWithinLimits, Active
<1> QED
  BY <1>1, <1>2, AdmissionStep, PTL DEF AdmissionSpec

-----------------------------------------------------------------------------
(* Storage.                                                                *)

UploadRow == [status : {"none"} \cup Open \cup Ended, worker : {"nobody", "user"} \cup StorageWorkers]
RequestRow == [upload : Uploads, step : {"idle", "begin", "finish", "verify",
                 "discard", "abandon", "fail", "abort", "forget", "done"}]
DeletionRow == [status : {"none", "queued", "processing", "completed", "dead"},
                attempts : 0..MaxDeletions, stale : BOOLEAN,
                worker : {"nobody"} \cup StorageWorkers]
DrainerRow == [kind : {"rest", "upload", "release", "retry", "delete"},
               upload : Uploads, attempts : 0..MaxDeletions]

\* StorageTypeOK, by tables.
RowTypes ==
  /\ upload \in [Uploads -> UploadRow]
  /\ request \in [Requests -> RequestRow]
  /\ deletion \in [Uploads -> DeletionRow]
  /\ drainer \in [StorageWorkers -> DrainerRow]
  /\ object \in [Uploads -> {"none", "parts", "object"}]
SetTypes ==
  /\ outdated \subseteq Uploads /\ promised \subseteq inputs /\ inputs \subseteq Uploads
  /\ files \subseteq Uploads
  /\ reserved \in Nat /\ used \in Nat

LEMMA TypesByTable ==
  /\ StorageTypeOK <=> RowTypes /\ SetTypes
  /\ StorageTypeOK' <=> RowTypes' /\ SetTypes'
BY DEF StorageTypeOK, RowTypes, SetTypes, UploadRow, RequestRow, DeletionRow, DrainerRow

\* The uploads whose bytes are reserved.
OpenUploads == {u \in Uploads : upload[u].status \in Open}

LEMMA SizeIsNatural ==
  ASSUME NEW S \in SUBSET Uploads
  PROVE  SizeOf(S) \in Nat /\ IsFiniteSet(S)
BY StorageAssumption, FS_Subset, SumIsNatural DEF SizeOf

LEMMA SizeAdds ==
  ASSUME NEW S \in SUBSET Uploads, NEW T \in SUBSET Uploads, S \cap T = {}
  PROVE  SizeOf(S \cup T) = SizeOf(S) + SizeOf(T)
<1> DEFINE both == S \cup T
<1>1. IsFiniteSet(both) /\ \A x \in both : Bytes[x] \in Nat
  BY SizeIsNatural, StorageAssumption
<1>2. S \in SUBSET both /\ both \ S = T
  OBVIOUS
<1> HIDE DEF both
<1>3. SizeOf(both) = SizeOf(S) + SizeOf(both \ S)
  BY <1>1, <1>2, SumSplits DEF SizeOf
<1>4. SizeOf(both) = SizeOf(S) + SizeOf(T)
  BY <1>2, <1>3, Zenon
<1> QED
  BY <1>4 DEF both

LEMMA SizeTakesOut ==
  ASSUME NEW S \in SUBSET Uploads, NEW u \in S
  PROVE  SizeOf(S) = Bytes[u] + SizeOf(S \ {u})
BY SizeIsNatural, StorageAssumption, SumTakesOut DEF SizeOf

\* A release of bytes, of whatever status.
LEMMA ReleaseTypes ==
  ASSUME upload \in [Uploads -> UploadRow], reserved \in Nat,
         NEW u \in Uploads, NEW status \in Ended, Release(u, status)
  PROVE  /\ upload' \in [Uploads -> UploadRow]
         /\ reserved' \in Nat
BY StorageAssumption DEF Release, UploadRow

LEMMA StorageTypesStep == StorageTypeOK /\ [StorageNext]_storageVars => StorageTypeOK'
<1> SUFFICES ASSUME RowTypes, SetTypes, [StorageNext]_storageVars
             PROVE  RowTypes' /\ SetTypes'
  BY TypesByTable
<1> USE StorageAssumption DEF media, RowTypes, SetTypes
<1>1. ASSUME NEW S \in SUBSET Uploads, PrepareUploads(S)
      PROVE  RowTypes' /\ SetTypes'
  <2>1. upload' \in [Uploads -> UploadRow]
    BY <1>1 DEF PrepareUploads, UploadRow, Open
  <2> QED
    BY <1>1, <2>1, SizeIsNatural DEF PrepareUploads
<1>2. ASSUME NEW u \in Uploads, UploadExpires(u) \/ UseInput(u) \/ EndInput(u)
      PROVE  RowTypes' /\ SetTypes'
  BY <1>2 DEF UploadExpires, UseInput, EndInput
<1>3. ASSUME NEW u \in Uploads, DeleteAsset(u)
      PROVE  RowTypes' /\ SetTypes'
  <2>1. deletion' \in [Uploads -> DeletionRow]
    BY <1>3 DEF DeleteAsset, DeletionRow
  <2>2. used' \in Nat
    BY <1>3 DEF DeleteAsset
  <2> QED
    BY <1>3, <2>1, <2>2 DEF DeleteAsset
<1>4. ASSUME NEW u \in Uploads, DeletionStale(u)
      PROVE  RowTypes' /\ SetTypes'
  <2>1. deletion' \in [Uploads -> DeletionRow]
    BY <1>4 DEF DeletionStale, DeletionRow
  <2> QED
    BY <1>4, <2>1 DEF DeletionStale
<1>5. ASSUME NEW u \in Uploads, NEW r \in Requests, StartRequest(r, u)
      PROVE  RowTypes' /\ SetTypes'
  <2>1. request' \in [Requests -> RequestRow]
    BY <1>5 DEF StartRequest, RequestRow
  <2> QED
    BY <1>5, <2>1 DEF StartRequest
<1>6. ASSUME NEW u \in Uploads, NEW w \in StorageWorkers, ClaimSession(w, u)
      PROVE  RowTypes' /\ SetTypes'
  <2>1. upload' \in [Uploads -> UploadRow]
    BY <1>6 DEF ClaimSession, UploadRow, Open
  <2>2. drainer' \in [StorageWorkers -> DrainerRow]
    BY <1>6 DEF ClaimSession, DrainerRow
  <2> QED
    BY <1>6, <2>1, <2>2 DEF ClaimSession
<1>7. ASSUME NEW u \in Uploads, NEW w \in StorageWorkers, ClaimDeletion(w, u)
      PROVE  RowTypes' /\ SetTypes'
  <2>1. deletion[u].attempts + 1 \in 0..MaxDeletions
    BY <1>7 DEF ClaimDeletion, DeletionRow
  <2>2. deletion' \in [Uploads -> DeletionRow]
    BY <1>7, <2>1 DEF ClaimDeletion, DeletionRow
  <2>3. drainer' \in [StorageWorkers -> DrainerRow]
    BY <1>7, <2>1 DEF ClaimDeletion, DrainerRow
  <2> QED
    BY <1>7, <2>2, <2>3 DEF ClaimDeletion
<1>8. ASSUME NEW r \in Requests, NEW step \in {"idle", "begin", "finish", "verify", "discard",
                "abandon", "fail", "abort", "forget", "done"}, Goes(r, step)
      PROVE  request' \in [Requests -> RequestRow]
  BY <1>8 DEF Goes, RequestRow
<1>9. ASSUME NEW r \in Requests
      PROVE  request[r].upload \in Uploads
  BY DEF RequestRow
<1>10. ASSUME NEW r \in Requests, BeginCompletion(r)
       PROVE  RowTypes' /\ SetTypes'
  <2>1. request' \in [Requests -> RequestRow]
    BY <1>8, <1>10 DEF BeginCompletion
  <2>2. upload' \in [Uploads -> UploadRow]
    BY <1>9, <1>10 DEF BeginCompletion, UploadRow, Open
  <2> QED
    BY <1>10, <2>1, <2>2 DEF BeginCompletion
<1>11. ASSUME NEW r \in Requests, \/ FinishMultipart(r) \/ DiscardObject(r)
                                  \/ AbandonParts(r) \/ AbortMultipart(r)
       PROVE  RowTypes' /\ SetTypes'
  <2>1. request' \in [Requests -> RequestRow]
    BY <1>8, <1>11 DEF FinishMultipart, DiscardObject, AbandonParts, AbortMultipart
  <2>2. object' \in [Uploads -> {"none", "parts", "object"}]
    BY <1>9, <1>11 DEF FinishMultipart, DiscardObject, AbandonParts, AbortMultipart
  <2> QED
    BY <1>11, <2>1, <2>2 DEF FinishMultipart, DiscardObject, AbandonParts, AbortMultipart
<1>12. ASSUME NEW r \in Requests, CommitAsset(r)
       PROVE  RowTypes' /\ SetTypes'
  <2>1. request' \in [Requests -> RequestRow]
    BY <1>8, <1>12 DEF CommitAsset
  <2>2. upload' \in [Uploads -> UploadRow]
    BY <1>9, <1>12 DEF CommitAsset, UploadRow, Ended
  <2>3. Bytes[request[r].upload] \in Nat
    BY <1>9
  <2>4. reserved' \in Nat /\ used' \in Nat
    BY <1>12, <2>3 DEF CommitAsset
  <2> QED
    BY <1>9, <1>12, <2>1, <2>2, <2>4 DEF CommitAsset
<1>13. ASSUME NEW r \in Requests, FailSession(r) \/ ForgetSession(r) \/ RequestDies(r)
       PROVE  RowTypes' /\ SetTypes'
  <2>1. request' \in [Requests -> RequestRow]
    BY <1>8, <1>13 DEF FailSession, ForgetSession, RequestDies
  <2>2. \/ Release(request[r].upload, "failed") \/ Release(request[r].upload, "aborted")
        \/ UNCHANGED <<upload, reserved>>
    BY <1>13 DEF FailSession, ForgetSession, RequestDies
  <2>3. upload' \in [Uploads -> UploadRow] /\ reserved' \in Nat
    BY <1>9, <2>2, ReleaseTypes DEF Ended
  <2> QED
    BY <1>13, <2>1, <2>3 DEF FailSession, ForgetSession, RequestDies
<1>14. Resting \in DrainerRow
  BY DEF Resting, DrainerRow
<1>15. ASSUME NEW w \in StorageWorkers
       PROVE  drainer[w].upload \in Uploads
  BY DEF DrainerRow
<1>16. ASSUME NEW w \in StorageWorkers, DrainParts(w)
       PROVE  RowTypes' /\ SetTypes'
  <2>1. drainer' \in [StorageWorkers -> DrainerRow]
    BY <1>16 DEF DrainParts, Drains, DrainerRow
  <2>2. object' \in [Uploads -> {"none", "parts", "object"}]
    BY <1>15, <1>16 DEF DrainParts
  <2> QED
    BY <1>16, <2>1, <2>2 DEF DrainParts
<1>17. ASSUME NEW w \in StorageWorkers, ReleaseDrained(w) \/ RetryDrain(w)
       PROVE  RowTypes' /\ SetTypes'
  <2>1. drainer' \in [StorageWorkers -> DrainerRow]
    BY <1>14, <1>17 DEF ReleaseDrained, RetryDrain
  <2>2. upload' \in [Uploads -> UploadRow] /\ reserved' \in Nat
    <3>1. CASE ReleaseDrained(w)
      <4>1. Release(drainer[w].upload, "aborted") \/ UNCHANGED <<upload, reserved>>
        BY <3>1 DEF ReleaseDrained
      <4> QED
        BY <1>15, <4>1, ReleaseTypes DEF Ended
    <3>2. CASE RetryDrain(w)
      BY <1>15, <3>2 DEF RetryDrain, UploadRow, Open
    <3> QED
      BY <1>17, <3>1, <3>2
  <2> QED
    BY <1>17, <2>1, <2>2 DEF ReleaseDrained, RetryDrain
<1>18. ASSUME NEW w \in StorageWorkers, Delete(w) \/ DrainerDies(w)
       PROVE  RowTypes' /\ SetTypes'
  <2>1. drainer' \in [StorageWorkers -> DrainerRow]
    BY <1>14, <1>18 DEF Delete, DrainerDies
  <2>2. object' \in [Uploads -> {"none", "parts", "object"}]
    BY <1>18 DEF Delete, DrainerDies
  <2>3. deletion' \in [Uploads -> DeletionRow]
    <3>1. \/ deletion' = deletion
          \/ \E status \in {"completed", "dead", "queued"} :
               deletion' = [deletion EXCEPT ![drainer[w].upload].status = status,
                                            ![drainer[w].upload].worker = "nobody"]
      BY <1>18 DEF Delete, DrainerDies
    <3> QED
      BY <3>1 DEF DeletionRow
  <2> QED
    BY <1>18, <2>1, <2>2, <2>3 DEF Delete, DrainerDies
<1>19. ASSUME UNCHANGED storageVars
       PROVE  RowTypes' /\ SetTypes'
  BY <1>19 DEF storageVars
<1> QED
  BY <1>1, <1>2, <1>3, <1>4, <1>5, <1>6, <1>7, <1>10, <1>11, <1>12, <1>13,
     <1>16, <1>17, <1>18, <1>19 DEF StorageNext

\* The bytes of an upload are given back in full when it is open no longer.
LEMMA ReservationReturned ==
  ASSUME StorageTypeOK, BytesCountedOnce, NEW u \in OpenUploads
  PROVE  /\ Bytes[u] \in Nat /\ reserved \in Nat
         /\ Bytes[u] <= reserved
         /\ reserved - Bytes[u] = SizeOf(OpenUploads \ {u})
<1>1. OpenUploads \in SUBSET Uploads /\ OpenUploads \ {u} \in SUBSET Uploads
  BY DEF OpenUploads
<1>2. reserved = Bytes[u] + SizeOf(OpenUploads \ {u})
  BY <1>1, SizeTakesOut DEF BytesCountedOnce, OpenUploads
<1>3. SizeOf(OpenUploads \ {u}) \in Nat /\ Bytes[u] \in Nat
  BY <1>1, SizeIsNatural, StorageAssumption
<1> QED
  BY <1>2, <1>3 DEF StorageTypeOK

LEMMA ReleaseCounts ==
  ASSUME StorageTypeOK, StorageTypeOK', BytesCountedOnce, NEW u \in Uploads,
         NEW status \in Ended, Release(u, status), UNCHANGED <<used, files>>
  PROVE  BytesCountedOnce'
<1>1. CASE ~ Releasable(u)
  BY <1>1 DEF Release, BytesCountedOnce
<1>2. CASE Releasable(u)
  <2>1. u \in OpenUploads
    BY <1>2 DEF Releasable, OpenUploads
  <2>2. OpenUploads' = OpenUploads \ {u}
    BY <1>2 DEF Release, OpenUploads, StorageTypeOK, Open, Ended
  <2>3. reserved' = reserved - Bytes[u]
    <3>1. reserved' = IF Bytes[u] > reserved THEN 0 ELSE reserved - Bytes[u]
      BY <1>2 DEF Release
    <3>2. Bytes[u] \in Nat /\ reserved \in Nat /\ Bytes[u] <= reserved
      BY <2>1, ReservationReturned
    <3> QED
      BY <3>1, <3>2
  <2>4. reserved' = SizeOf(OpenUploads')
    BY <2>1, <2>2, <2>3, ReservationReturned
  <2>5. Bytes[u] \in Nat /\ Capacity \in Nat
    BY StorageAssumption
  <2> QED
    BY <2>3, <2>4, <2>5 DEF BytesCountedOnce, OpenUploads, StorageTypeOK
<1> QED
  BY <1>1, <1>2

\* Uploads, and what they reserve, change in no other way than these.
LEMMA BytesStep ==
  StorageTypeOK /\ BytesCountedOnce /\ [StorageNext]_storageVars => BytesCountedOnce'
<1> SUFFICES ASSUME StorageTypeOK, StorageTypeOK', BytesCountedOnce, [StorageNext]_storageVars
             PROVE  BytesCountedOnce'
  BY StorageTypesStep
<1>1. /\ reserved = SizeOf(OpenUploads) /\ used = SizeOf(files) /\ reserved + used <= Capacity
      /\ reserved \in Nat /\ used \in Nat /\ files \in SUBSET Uploads
      /\ OpenUploads \in SUBSET Uploads /\ Capacity \in Nat
  BY StorageAssumption DEF BytesCountedOnce, OpenUploads, StorageTypeOK
<1>2. ASSUME NEW r \in Requests
      PROVE  request[r].upload \in Uploads /\ Bytes[request[r].upload] \in Nat
  BY StorageAssumption DEF StorageTypeOK
<1>3. ASSUME OpenUploads' = OpenUploads, UNCHANGED <<reserved, used, files>>
      PROVE  BytesCountedOnce'
  BY <1>1, <1>3 DEF BytesCountedOnce, OpenUploads
<1>4. ASSUME NEW S \in SUBSET Uploads, PrepareUploads(S)
      PROVE  BytesCountedOnce'
  <2>1. OpenUploads' = OpenUploads \cup S
    BY <1>4 DEF PrepareUploads, OpenUploads, StorageTypeOK, Open
  <2>2. OpenUploads \cap S = {}
    BY <1>4 DEF PrepareUploads, OpenUploads, Open
  <2>3. SizeOf(OpenUploads') = SizeOf(OpenUploads) + SizeOf(S)
    BY <1>1, <2>1, <2>2, SizeAdds
  <2>4. SizeOf(S) \in Nat
    BY SizeIsNatural
  <2>5. /\ reserved' = reserved + SizeOf(S) /\ UNCHANGED <<used, files>>
        /\ used + reserved + SizeOf(S) <= Capacity
    BY <1>4 DEF PrepareUploads
  <2> QED
    BY <1>1, <2>3, <2>4, <2>5 DEF BytesCountedOnce, OpenUploads
<1>5. ASSUME NEW r \in Requests, CommitAsset(r)
      PROVE  BytesCountedOnce'
  <2> DEFINE u == request[r].upload
  <2>1. CASE UNCHANGED <<upload, files, used, reserved>>
    BY <1>3, <2>1 DEF OpenUploads
  <2>2. CASE /\ upload[u] = [status |-> "completing", worker |-> "user"] /\ u \notin files
             /\ files' = files \cup {u}
             /\ used' = used + Bytes[u]
             /\ upload' = [upload EXCEPT ![u] = [status |-> "completed", worker |-> "nobody"]]
             /\ reserved' = IF Bytes[u] > reserved THEN 0 ELSE reserved - Bytes[u]
    <3>1. u \in Uploads /\ Bytes[u] \in Nat
      BY <1>2
    <3> HIDE DEF u
    <3>2. u \in OpenUploads
      BY <2>2, <3>1 DEF OpenUploads, Open
    <3>3. OpenUploads' = OpenUploads \ {u}
      BY <2>2, <3>1 DEF OpenUploads, Open, StorageTypeOK
    <3>4. reserved' = reserved - Bytes[u] /\ reserved' = SizeOf(OpenUploads')
      BY <2>2, <3>1, <3>2, <3>3, ReservationReturned
    <3>5. SizeOf({u}) = Bytes[u]
      <4>1. SizeOf({u}) = Bytes[u] + SizeOf({u} \ {u})
        BY <3>1, SizeTakesOut
      <4>2. {u} \ {u} = {}
        OBVIOUS
      <4>3. SizeOf({u} \ {u}) = 0
        BY <4>2, SumOfNothing, Zenon DEF SizeOf
      <4> QED
        BY <3>1, <4>1, <4>3
    <3>6. SizeOf(files') = SizeOf(files) + Bytes[u]
      BY <1>1, <2>2, <3>1, <3>5, SizeAdds
    <3> QED
      BY <1>1, <2>2, <3>1, <3>4, <3>6 DEF BytesCountedOnce, OpenUploads
  <2> QED
    BY <1>5, <2>1, <2>2 DEF CommitAsset
<1>6. ASSUME NEW r \in Requests, FailSession(r) \/ ForgetSession(r)
      PROVE  BytesCountedOnce'
  <2>1. \/ Release(request[r].upload, "failed") \/ Release(request[r].upload, "aborted")
        \/ UNCHANGED <<upload, reserved>>
    BY <1>6 DEF FailSession, ForgetSession
  <2>2. UNCHANGED <<used, files>>
    BY <1>6 DEF FailSession, ForgetSession
  <2>3. CASE UNCHANGED <<upload, reserved>>
    BY <1>3, <2>2, <2>3 DEF OpenUploads
  <2> QED
    BY <1>2, <2>1, <2>2, <2>3, ReleaseCounts DEF Ended
<1>7. ASSUME NEW w \in StorageWorkers, ReleaseDrained(w)
      PROVE  BytesCountedOnce'
  <2>1. \/ Release(drainer[w].upload, "aborted")
        \/ UNCHANGED <<upload, reserved>>
    BY <1>7 DEF ReleaseDrained
  <2>2. UNCHANGED <<used, files>> /\ drainer[w].upload \in Uploads
    BY <1>7 DEF ReleaseDrained, StorageTypeOK
  <2>3. CASE UNCHANGED <<upload, reserved>>
    BY <1>3, <2>2, <2>3 DEF OpenUploads
  <2> QED
    BY <2>1, <2>2, <2>3, ReleaseCounts DEF Ended
<1>8. ASSUME NEW u \in Uploads, DeleteAsset(u)
      PROVE  BytesCountedOnce'
  <2>1. u \in files /\ Bytes[u] \in Nat
    BY <1>8, StorageAssumption DEF DeleteAsset
  <2>2. SizeOf(files) = Bytes[u] + SizeOf(files \ {u}) /\ SizeOf(files \ {u}) \in Nat
    BY <1>1, <2>1, SizeTakesOut, SizeIsNatural
  <2>3. used' = SizeOf(files \ {u}) /\ files' = files \ {u} /\ UNCHANGED <<upload, reserved>>
    BY <1>1, <1>8, <2>1, <2>2 DEF DeleteAsset
  <2> QED
    BY <1>1, <2>1, <2>2, <2>3 DEF BytesCountedOnce
<1>9. ASSUME NEW u \in Uploads, \/ UploadExpires(u) \/ UseInput(u) \/ EndInput(u) \/ DeletionStale(u)
                                \/ \E r \in Requests : StartRequest(r, u)
                                \/ \E w \in StorageWorkers : ClaimDeletion(w, u)
      PROVE  BytesCountedOnce'
  BY <1>3, <1>9
  DEF UploadExpires, UseInput, EndInput, DeletionStale, StartRequest, ClaimDeletion, OpenUploads
<1>10. ASSUME NEW r \in Requests, \/ FinishMultipart(r) \/ DiscardObject(r) \/ AbandonParts(r)
                                  \/ AbortMultipart(r) \/ RequestDies(r)
       PROVE  BytesCountedOnce'
  BY <1>3, <1>10
  DEF FinishMultipart, DiscardObject, AbandonParts, AbortMultipart, RequestDies, OpenUploads
<1>11. ASSUME NEW w \in StorageWorkers, DrainParts(w) \/ Delete(w) \/ DrainerDies(w)
       PROVE  BytesCountedOnce'
  BY <1>3, <1>11 DEF DrainParts, Delete, DrainerDies, OpenUploads
<1>12. ASSUME NEW u \in Uploads, NEW w \in StorageWorkers, ClaimSession(w, u)
       PROVE  BytesCountedOnce'
  <2>1. OpenUploads' = OpenUploads
    BY <1>12 DEF ClaimSession, OpenUploads, StorageTypeOK, Open
  <2> QED
    BY <1>3, <1>12, <2>1 DEF ClaimSession
<1>13. ASSUME NEW r \in Requests, BeginCompletion(r)
       PROVE  BytesCountedOnce'
  <2>1. \A u \in Uploads : upload'[u].status \in Open <=> upload[u].status \in Open
    <3>1. \/ upload' = upload
          \/ /\ upload[request[r].upload].status = "prepared"
             /\ upload' = [upload EXCEPT ![request[r].upload] =
                              [status |-> "completing", worker |-> "user"]]
      BY <1>13 DEF BeginCompletion
    <3> QED
      BY <3>1 DEF StorageTypeOK, Open
  <2> QED
    BY <1>3, <1>13, <2>1 DEF BeginCompletion, OpenUploads
<1>14. ASSUME NEW w \in StorageWorkers, RetryDrain(w)
       PROVE  BytesCountedOnce'
  <2>1. OpenUploads' = OpenUploads
    BY <1>14 DEF RetryDrain, OpenUploads, StorageTypeOK, Open
  <2> QED
    BY <1>3, <1>14, <2>1 DEF RetryDrain
<1>15. CASE UNCHANGED storageVars
  BY <1>3, <1>15 DEF storageVars, OpenUploads
<1> QED
  BY <1>4, <1>5, <1>6, <1>7, <1>8, <1>9, <1>10, <1>11, <1>12, <1>13, <1>14, <1>15 DEF StorageNext

LEMMA StorageStarts == StorageInit => StorageTypeOK /\ BytesCountedOnce
<1> SUFFICES ASSUME StorageInit
             PROVE  StorageTypeOK /\ BytesCountedOnce
  OBVIOUS
<1>1. StorageTypeOK
  BY StorageAssumption DEF StorageInit, StorageTypeOK, NoRequest, Resting
<1>2. OpenUploads = {}
  BY DEF StorageInit, OpenUploads, Open
<1>3. SizeOf({}) = 0
  BY SumOfNothing DEF SizeOf
<1>4. reserved = 0 /\ used = 0 /\ files = {} /\ Capacity \in Nat
  BY StorageAssumption DEF StorageInit
<1> QED
  BY <1>1, <1>2, <1>3, <1>4 DEF BytesCountedOnce, OpenUploads

\* Whatever requests race to complete, abort or drain an upload, its bytes are
\* reserved while it is open and used while its asset exists, counted once, and the
\* workspace never passes its quota.
THEOREM BytesAreCountedOnce == StorageSpec => []BytesCountedOnce
BY StorageStarts, StorageTypesStep, BytesStep, PTL DEF StorageSpec

\* The requests that hold the object they have made of the parts of u.
Verifiers(u) == {r \in Requests : request[r].upload = u /\ request[r].step \in {"verify", "discard"}}

\* An object key goes one way: nothing, parts, one object that one request verifies,
\* an asset, a queued deletion.
KeysGoOneWay ==
  \A u \in Uploads :
    /\ upload[u].status = "none" =>
         object[u] = "none" /\ u \notin files /\ deletion[u].status = "none"
    /\ object[u] = "parts" => deletion[u].status = "none"
    /\ \A r, q \in Verifiers(u) : r = q
    /\ Verifiers(u) # {} =>
         object[u] = "object" /\ u \notin files /\ deletion[u].status = "none"
    /\ u \in files => object[u] = "object" /\ deletion[u].status = "none"
    /\ u \in inputs => u \in files \/ deletion[u].status # "none"

\* Nobody is about to delete an object that was promised to a job.
DeletionsAreDue ==
  \A w \in StorageWorkers : drainer[w].kind = "delete" =>
    drainer[w].upload \notin promised /\ deletion[drainer[w].upload].status # "none"

FilesInv == KeysGoOneWay /\ DeletionsAreDue /\ FilesAreKept

\* A step that moves neither objects, nor assets, nor jobs, but perhaps requests, the
\* rows of uploads and the rows of deletions.
LEMMA RowsMove ==
  ASSUME StorageTypeOK, StorageTypeOK', FilesInv,
         UNCHANGED <<object, files, inputs, promised>>,
         \A u \in Uploads : upload'[u].status = "none" <=> upload[u].status = "none",
         \A u \in Uploads : deletion'[u].status = "none" <=> deletion[u].status = "none",
         \A u \in Uploads : Verifiers(u)' \subseteq Verifiers(u),
         \A w \in StorageWorkers : drainer'[w].kind = "delete" =>
           \/ drainer'[w] = drainer[w]
           \/ drainer'[w].upload \notin promised /\ deletion'[drainer'[w].upload].status # "none"
  PROVE  FilesInv'
<1>1. KeysGoOneWay'
  BY DEF FilesInv, KeysGoOneWay
<1>2. DeletionsAreDue'
  BY DEF FilesInv, DeletionsAreDue, StorageTypeOK
<1> QED
  BY <1>1, <1>2 DEF FilesInv, FilesAreKept

\* Only parts are taken away here, or made into an object that nobody else holds.
LEMMA PartsMove ==
  ASSUME StorageTypeOK, StorageTypeOK', FilesInv, NEW u \in Uploads,
         UNCHANGED <<files, inputs, promised, upload, deletion>>,
         object'[u] = object[u] \/ object[u] = "parts",
         object'[u] = "parts" => object[u] = "parts",
         \A v \in Uploads \ {u} : object'[v] = object[v],
         \A v \in Uploads \ {u} : Verifiers(v)' \subseteq Verifiers(v),
         \/ Verifiers(u)' \subseteq Verifiers(u)
         \/ /\ object[u] = "parts" /\ object'[u] = "object"
            /\ \E r \in Requests : Verifiers(u)' = Verifiers(u) \cup {r},
         \A w \in StorageWorkers : drainer'[w].kind = "delete" => drainer'[w] = drainer[w]
  PROVE  FilesInv'
<1>1. object[u] = "parts" =>
        /\ Verifiers(u) = {} /\ u \notin files /\ u \notin inputs
        /\ deletion[u].status = "none" /\ upload[u].status # "none"
  BY DEF FilesInv, KeysGoOneWay
<1>2. KeysGoOneWay'
  <2> SUFFICES ASSUME NEW v \in Uploads
               PROVE  /\ upload'[v].status = "none" =>
                           object'[v] = "none" /\ v \notin files /\ deletion'[v].status = "none"
                      /\ object'[v] = "parts" => deletion'[v].status = "none"
                      /\ \A r, q \in Verifiers(v)' : r = q
                      /\ Verifiers(v)' # {} =>
                           object'[v] = "object" /\ v \notin files /\ deletion'[v].status = "none"
                      /\ v \in files => object'[v] = "object" /\ deletion'[v].status = "none"
                      /\ v \in inputs => v \in files \/ deletion'[v].status # "none"
    BY DEF KeysGoOneWay
  <2>1. CASE v # u
    BY <2>1 DEF FilesInv, KeysGoOneWay
  <2>2. CASE v = u /\ object[u] # "parts"
    BY <2>2 DEF FilesInv, KeysGoOneWay
  <2>3. CASE v = u /\ object[u] = "parts"
    BY <1>1, <2>3
  <2> QED
    BY <2>1, <2>2, <2>3
<1>3. DeletionsAreDue'
  BY DEF FilesInv, DeletionsAreDue
<1>4. FilesAreKept'
  BY <1>1 DEF FilesInv, FilesAreKept, StorageTypeOK
<1> QED
  BY <1>2, <1>3, <1>4 DEF FilesInv

LEMMA FilesStep == StorageTypeOK /\ FilesInv /\ [StorageNext]_storageVars => FilesInv'
<1> SUFFICES ASSUME StorageTypeOK, StorageTypeOK', FilesInv, [StorageNext]_storageVars
             PROVE  FilesInv'
  BY StorageTypesStep
<1> USE DEF media
<1>1. ASSUME NEW r \in Requests
      PROVE  request[r].upload \in Uploads
  BY DEF StorageTypeOK
<1>2. ASSUME UNCHANGED request, NEW u \in Uploads
      PROVE  Verifiers(u)' = Verifiers(u)
  BY <1>2 DEF Verifiers
<1>3. ASSUME NEW r \in Requests, NEW step, step \notin {"verify", "discard"}, Goes(r, step),
             NEW u \in Uploads
      PROVE  Verifiers(u)' = Verifiers(u) \ {r}
  BY <1>3 DEF Verifiers, Goes, StorageTypeOK
<1>4. ASSUME NEW S \in SUBSET Uploads, PrepareUploads(S)
      PROVE  FilesInv'
  <2>1. /\ UNCHANGED <<files, request, deletion, drainer, inputs, promised>>
        /\ \A u \in S : upload[u].status = "none" /\ object'[u] = "parts"
                        /\ upload'[u].status = "prepared"
        /\ \A u \in Uploads \ S : object'[u] = object[u] /\ upload'[u] = upload[u]
    BY <1>4 DEF PrepareUploads
  <2>2. \A u \in S : /\ object[u] = "none" /\ u \notin files /\ deletion[u].status = "none"
                     /\ Verifiers(u) = {} /\ u \notin promised
    BY <2>1 DEF FilesInv, KeysGoOneWay, StorageTypeOK
  <2>3. KeysGoOneWay'
    BY <1>2, <2>1, <2>2 DEF FilesInv, KeysGoOneWay
  <2>4. DeletionsAreDue' /\ FilesAreKept'
    BY <2>1, <2>2 DEF FilesInv, DeletionsAreDue, FilesAreKept, StorageTypeOK
  <2> QED
    BY <2>3, <2>4 DEF FilesInv
<1>5. ASSUME NEW u \in Uploads, UploadExpires(u)
      PROVE  FilesInv'
  BY <1>2, <1>5, RowsMove DEF UploadExpires
<1>6. ASSUME NEW u \in Uploads, DeletionStale(u)
      PROVE  FilesInv'
  <2>1. \A v \in Uploads : deletion'[v].status = deletion[v].status
    BY <1>6 DEF DeletionStale, StorageTypeOK
  <2> QED
    BY <1>2, <1>6, <2>1, RowsMove DEF DeletionStale
<1>7. ASSUME NEW u \in Uploads, NEW r \in Requests, StartRequest(r, u)
      PROVE  FilesInv'
  <2>1. \A v \in Uploads : Verifiers(v)' \subseteq Verifiers(v)
    BY <1>7 DEF StartRequest, Verifiers, StorageTypeOK
  <2> QED
    BY <1>7, <2>1, RowsMove DEF StartRequest
<1>8. ASSUME NEW u \in Uploads, DeleteAsset(u)
      PROVE  FilesInv'
  <2>1. /\ u \in files /\ files' = files \ {u}
        /\ UNCHANGED <<upload, object, request, drainer, inputs, promised>>
        /\ deletion'[u].status # "none"
        /\ \A v \in Uploads \ {u} : deletion'[v] = deletion[v]
    BY <1>8 DEF DeleteAsset, StorageTypeOK
  <2>2. /\ object[u] = "object" /\ deletion[u].status = "none" /\ upload[u].status # "none"
        /\ Verifiers(u) = {}
    BY <2>1 DEF FilesInv, KeysGoOneWay
  <2>3. KeysGoOneWay'
    BY <1>2, <2>1, <2>2 DEF FilesInv, KeysGoOneWay
  <2>4. DeletionsAreDue' /\ FilesAreKept'
    BY <2>1, <2>2 DEF FilesInv, DeletionsAreDue, FilesAreKept, StorageTypeOK
  <2> QED
    BY <2>3, <2>4 DEF FilesInv
<1>9. ASSUME NEW u \in Uploads, UseInput(u) \/ EndInput(u)
      PROVE  FilesInv'
  <2>1. /\ UNCHANGED <<upload, files, object, request, deletion, drainer>>
        /\ promised' \subseteq promised \cup (files \cap {u})
        /\ inputs' \subseteq inputs \cup {u}
        /\ u \in inputs' => u \in files \/ deletion[u].status # "none"
    BY <1>9 DEF UseInput, EndInput
  <2>2. KeysGoOneWay'
    BY <1>2, <2>1 DEF FilesInv, KeysGoOneWay
  <2>3. DeletionsAreDue' /\ FilesAreKept'
    BY <2>1 DEF FilesInv, KeysGoOneWay, DeletionsAreDue, FilesAreKept
  <2> QED
    BY <2>2, <2>3 DEF FilesInv
<1>10. ASSUME NEW u \in Uploads, NEW w \in StorageWorkers, ClaimSession(w, u)
       PROVE  FilesInv'
  <2>1. \A v \in Uploads : upload'[v].status = "none" <=> upload[v].status = "none"
    BY <1>10 DEF ClaimSession, StorageTypeOK
  <2>2. \A q \in StorageWorkers : drainer'[q].kind = "delete" => drainer'[q] = drainer[q]
    BY <1>10 DEF ClaimSession, StorageTypeOK
  <2> QED
    BY <1>2, <1>10, <2>1, <2>2, RowsMove DEF ClaimSession
<1>11. ASSUME NEW u \in Uploads, NEW w \in StorageWorkers, ClaimDeletion(w, u)
       PROVE  FilesInv'
  <2>1. deletion[u].status # "none" /\ u \notin promised
    BY <1>11 DEF ClaimDeletion, Unused, StorageTypeOK
  <2>2. \A v \in Uploads : deletion'[v].status = "none" <=> deletion[v].status = "none"
    BY <1>11, <2>1 DEF ClaimDeletion, StorageTypeOK
  <2>3. \A q \in StorageWorkers : drainer'[q] = drainer[q] \/ drainer'[q].upload = u
    BY <1>11 DEF ClaimDeletion, StorageTypeOK
  <2> QED
    BY <1>2, <1>11, <2>1, <2>2, <2>3, RowsMove DEF ClaimDeletion
<1>12. ASSUME NEW r \in Requests, BeginCompletion(r)
       PROVE  FilesInv'
  <2>1. \A u \in Uploads : Verifiers(u)' \subseteq Verifiers(u)
    BY <1>3, <1>12 DEF BeginCompletion
  <2>2. \A u \in Uploads : upload'[u].status = "none" <=> upload[u].status = "none"
    <3>1. \/ upload' = upload
          \/ /\ upload[request[r].upload].status = "prepared"
             /\ upload' = [upload EXCEPT ![request[r].upload] =
                              [status |-> "completing", worker |-> "user"]]
      BY <1>12 DEF BeginCompletion
    <3> QED
      BY <3>1 DEF StorageTypeOK
  <2> QED
    BY <1>12, <2>1, <2>2, RowsMove DEF BeginCompletion
<1>13. ASSUME NEW r \in Requests, FinishMultipart(r)
       PROVE  FilesInv'
  <2>0. PICK u \in Uploads : u = request[r].upload
    BY <1>1
  <2>1. UNCHANGED <<files, inputs, promised, upload, deletion, drainer>>
    BY <1>13 DEF FinishMultipart
  <2>2. CASE object[u] = "parts" /\ object' = [object EXCEPT ![u] = "object"] /\ Goes(r, "verify")
    <3>1. /\ Verifiers(u)' = Verifiers(u) \cup {r}
          /\ \A v \in Uploads \ {u} : Verifiers(v)' = Verifiers(v) \ {r}
      BY <2>0, <2>2 DEF Verifiers, Goes, StorageTypeOK
    <3>2. object'[u] = "object" /\ \A v \in Uploads \ {u} : object'[v] = object[v]
      BY <2>1, <2>2 DEF StorageTypeOK
    <3>3. \A v \in Uploads \ {u} : Verifiers(v)' \subseteq Verifiers(v)
      BY <3>1
    <3>4. \E q \in Requests : Verifiers(u)' = Verifiers(u) \cup {q}
      BY <3>1, Zenon
    <3>5. object[u] = "parts"
      BY <2>2
    <3> QED
      BY <2>1, <3>2, <3>3, <3>4, <3>5, PartsMove
  <2>3. CASE /\ Goes(r, "abandon")
             /\ \/ object' = object
                \/ object[u] = "parts" /\ object' = [object EXCEPT ![u] = "object"]
    <3>1. \A v \in Uploads : Verifiers(v)' \subseteq Verifiers(v)
      BY <1>3, <2>3
    <3> QED
      BY <2>1, <2>3, <3>1, PartsMove DEF StorageTypeOK
  <2> QED
    BY <2>0, <1>13, <2>2, <2>3 DEF FinishMultipart
<1>14. ASSUME NEW r \in Requests, CommitAsset(r)
       PROVE  FilesInv'
  <2> DEFINE u == request[r].upload
  <2>1. u \in Uploads /\ r \in Verifiers(u) /\ UNCHANGED <<object, deletion, drainer, inputs, promised>>
    BY <1>1, <1>14 DEF CommitAsset, Verifiers
  <2>2. CASE Goes(r, "discard") /\ UNCHANGED <<upload, files>>
    <3>1. \A v \in Uploads : Verifiers(v)' = Verifiers(v)
      BY <2>1, <2>2 DEF Verifiers, Goes, StorageTypeOK
    <3> QED
      BY <2>1, <2>2, <3>1, RowsMove
  <2>3. CASE /\ upload[u] = [status |-> "completing", worker |-> "user"]
             /\ files' = files \cup {u}
             /\ upload' = [upload EXCEPT ![u] = [status |-> "completed", worker |-> "nobody"]]
             /\ Goes(r, "done")
    <3>1. \A v \in Uploads : Verifiers(v)' = Verifiers(v) \ {r}
      BY <1>3, <2>3
    <3>2. \A v \in Uploads : upload'[v].status = "none" => upload[v].status = "none" /\ v # u
      BY <2>1, <2>3 DEF StorageTypeOK
    <3> HIDE DEF u
    <3>3. /\ object[u] = "object" /\ deletion[u].status = "none"
          /\ \A q \in Verifiers(u) : q = r
      BY <2>1 DEF FilesInv, KeysGoOneWay
    <3>4. KeysGoOneWay'
      BY <2>1, <2>3, <3>1, <3>2, <3>3 DEF FilesInv, KeysGoOneWay
    <3>5. DeletionsAreDue' /\ FilesAreKept'
      BY <2>1, <2>3, <3>3 DEF FilesInv, DeletionsAreDue, FilesAreKept
    <3> QED
      BY <3>4, <3>5 DEF FilesInv
  <2> QED
    BY <1>14, <2>2, <2>3 DEF CommitAsset
<1>15. ASSUME NEW r \in Requests, DiscardObject(r)
       PROVE  FilesInv'
  <2> DEFINE u == request[r].upload
  <2>1. /\ u \in Uploads /\ r \in Verifiers(u)
        /\ UNCHANGED <<upload, files, deletion, drainer, inputs, promised>>
        /\ object' = object \/ object' = [object EXCEPT ![u] = "none"]
    BY <1>1, <1>15 DEF DiscardObject, Verifiers
  <2>2. \A v \in Uploads : Verifiers(v)' = Verifiers(v) \ {r}
    BY <1>3, <1>15 DEF DiscardObject
  <2>3. \A v \in Uploads : object'[v] = object[v] \/ (v = u /\ object'[v] = "none")
    BY <2>1 DEF StorageTypeOK
  <2> HIDE DEF u
  <2>4. /\ u \notin files /\ deletion[u].status = "none" /\ u \notin inputs
        /\ \A q \in Verifiers(u) : q = r
    BY <2>1 DEF FilesInv, KeysGoOneWay
  <2>5. KeysGoOneWay'
    BY <2>1, <2>2, <2>3, <2>4 DEF FilesInv, KeysGoOneWay
  <2>6. DeletionsAreDue' /\ FilesAreKept'
    BY <2>1, <2>3, <2>4 DEF FilesInv, DeletionsAreDue, FilesAreKept, StorageTypeOK
  <2> QED
    BY <2>5, <2>6 DEF FilesInv
<1>16. ASSUME NEW r \in Requests, AbandonParts(r) \/ AbortMultipart(r)
       PROVE  FilesInv'
  <2> DEFINE u == request[r].upload
  <2>1. /\ u \in Uploads /\ UNCHANGED <<upload, files, deletion, drainer, inputs, promised>>
        /\ \/ object' = object
           \/ object[u] = "parts" /\ object' = [object EXCEPT ![u] = "none"]
    BY <1>1, <1>16 DEF AbandonParts, AbortMultipart, StorageTypeOK
  <2>2. \A v \in Uploads : Verifiers(v)' \subseteq Verifiers(v)
    BY <1>3, <1>16 DEF AbandonParts, AbortMultipart
  <2> HIDE DEF u
  <2> QED
    BY <2>1, <2>2, PartsMove DEF StorageTypeOK
<1>17. ASSUME NEW r \in Requests, FailSession(r) \/ ForgetSession(r) \/ RequestDies(r)
       PROVE  FilesInv'
  <2>1. \A v \in Uploads : Verifiers(v)' \subseteq Verifiers(v)
    BY <1>3, <1>17 DEF FailSession, ForgetSession, RequestDies
  <2>2. \A v \in Uploads : upload'[v].status = "none" <=> upload[v].status = "none"
    <3>1. \/ Release(request[r].upload, "failed") \/ Release(request[r].upload, "aborted")
          \/ upload' = upload
      BY <1>17 DEF FailSession, ForgetSession, RequestDies
    <3> QED
      BY <1>1, <3>1 DEF Release, Releasable, Open, StorageTypeOK
  <2> QED
    BY <1>17, <2>1, <2>2, RowsMove DEF FailSession, ForgetSession, RequestDies
<1>18. ASSUME NEW w \in StorageWorkers, DrainParts(w)
       PROVE  FilesInv'
  <2> DEFINE u == drainer[w].upload
  <2>1. /\ u \in Uploads /\ UNCHANGED <<upload, files, deletion, request, inputs, promised>>
        /\ \/ object' = object
           \/ object[u] = "parts" /\ object' = [object EXCEPT ![u] = "none"]
        /\ \E kind \in {"release", "retry"} : Drains(w, kind)
    BY <1>18 DEF DrainParts, StorageTypeOK
  <2>2. \A q \in StorageWorkers : drainer'[q].kind = "delete" => drainer'[q] = drainer[q]
    BY <2>1 DEF Drains, StorageTypeOK
  <2> HIDE DEF u
  <2>3. /\ object'[u] = object[u] \/ (object[u] = "parts" /\ object'[u] = "none")
        /\ \A v \in Uploads \ {u} : object'[v] = object[v]
    BY <2>1 DEF StorageTypeOK
  <2>4. \A v \in Uploads : Verifiers(v)' \subseteq Verifiers(v)
    BY <1>2, <2>1
  <2> QED
    BY <2>1, <2>2, <2>3, <2>4, PartsMove
<1>19. Resting.kind # "delete"
  BY DEF Resting
<1>20. ASSUME NEW w \in StorageWorkers, ReleaseDrained(w) \/ RetryDrain(w) \/ DrainerDies(w)
       PROVE  FilesInv'
  <2>1. \A q \in StorageWorkers : drainer'[q].kind = "delete" => drainer'[q] = drainer[q]
    BY <1>19, <1>20 DEF ReleaseDrained, RetryDrain, DrainerDies, StorageTypeOK
  <2>2. drainer[w].upload \in Uploads
    BY DEF StorageTypeOK
  <2>3. \A v \in Uploads : upload'[v].status = "none" <=> upload[v].status = "none"
    <3>1. \/ Release(drainer[w].upload, "aborted") \/ upload' = upload \/ RetryDrain(w)
      BY <1>20 DEF ReleaseDrained, DrainerDies
    <3> QED
      BY <2>2, <3>1 DEF Release, Releasable, RetryDrain, Open, StorageTypeOK
  <2> QED
    BY <1>2, <1>20, <2>1, <2>3, RowsMove DEF ReleaseDrained, RetryDrain, DrainerDies
<1>21. ASSUME NEW w \in StorageWorkers, Delete(w)
       PROVE  FilesInv'
  <2> DEFINE u == drainer[w].upload
  <2>1. /\ u \in Uploads /\ UNCHANGED <<upload, files, request, inputs, promised>>
        /\ drainer[w].kind = "delete" /\ drainer' = [drainer EXCEPT ![w] = Resting]
        /\ object' = object \/ object' = [object EXCEPT ![u] = "none"]
    BY <1>21 DEF Delete, StorageTypeOK
  <2>2. u \notin promised /\ deletion[u].status # "none"
    BY <2>1 DEF FilesInv, DeletionsAreDue
  <2>3. u \notin files /\ Verifiers(u) = {} /\ upload[u].status # "none"
    BY <2>1, <2>2 DEF FilesInv, KeysGoOneWay
  <2>4. \A v \in Uploads : deletion'[v].status = "none" <=> deletion[v].status = "none"
    <3>1. \/ deletion' = deletion
          \/ \E status \in {"completed", "dead", "queued"} :
               deletion' = [deletion EXCEPT ![u].status = status, ![u].worker = "nobody"]
      BY <1>21 DEF Delete
    <3> QED
      BY <2>2, <3>1 DEF StorageTypeOK
  <2>5. \A v \in Uploads : object'[v] = object[v] \/ (v = u /\ object'[v] = "none")
    BY <2>1 DEF StorageTypeOK
  <2>6. \A q \in StorageWorkers : drainer'[q].kind = "delete" => drainer'[q] = drainer[q]
    BY <1>19, <2>1 DEF StorageTypeOK
  <2> HIDE DEF u
  <2>7. KeysGoOneWay'
    BY <1>2, <2>1, <2>2, <2>3, <2>4, <2>5 DEF FilesInv, KeysGoOneWay
  <2>8. DeletionsAreDue' /\ FilesAreKept'
    BY <2>1, <2>2, <2>3, <2>4, <2>5, <2>6
    DEF FilesInv, DeletionsAreDue, FilesAreKept, StorageTypeOK
  <2> QED
    BY <2>7, <2>8 DEF FilesInv
<1>22. CASE UNCHANGED storageVars
  BY <1>2, <1>22, RowsMove DEF storageVars
<1> QED
  BY <1>4, <1>5, <1>6, <1>7, <1>8, <1>9, <1>10, <1>11, <1>12, <1>13, <1>14, <1>15, <1>16,
     <1>17, <1>18, <1>20, <1>21, <1>22 DEF StorageNext

\* An asset has its object, and so has an active media job that was admitted while
\* its asset existed: neither a late second completion, nor an abort, nor the deletion
\* of unused objects takes it away.
THEOREM FilesStay == StorageSpec => []FilesAreKept
<1>1. StorageInit => FilesInv
  BY DEF StorageInit, FilesInv, KeysGoOneWay, DeletionsAreDue, FilesAreKept, Verifiers,
         NoRequest, Resting
<1>2. FilesInv => FilesAreKept
  BY DEF FilesInv
<1> QED
  BY <1>1, <1>2, StorageStarts, StorageTypesStep, FilesStep, PTL DEF StorageSpec
=============================================================================
