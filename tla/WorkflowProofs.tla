--------------------------- MODULE WorkflowProofs ---------------------------
(***************************************************************************)
(* Proofs about automation workflows: the versions of system workflows     *)
(* (SystemWorkflows) and of the user's (WorkflowDocuments), and the        *)
(* execution of their graphs (GraphExecution).                             *)
(***************************************************************************)
EXTENDS SystemWorkflows, WorkflowDocuments, GraphExecution, SumTheorems, TLAPS

-----------------------------------------------------------------------------
(* System workflows.                                                       *)

\* Choices hold their lock until they commit.
OneChecks ==
  \A c, d \in Choosers : choice[c].step = "checked" /\ choice[d].step = "checked" => c = d

\* A choice changes the model of a version that exists, and nothing else; while it is
\* checked nobody else changes the override.
ChoiceFollowsVersion ==
  \A c \in Choosers :
    /\ choice[c].step # "idle" =>
         /\ choice[c].base \in 1..system.latest
         /\ choice[c].graph.revision = graphOf[choice[c].base].revision
    /\ choice[c].step = "checked" => graphOf[choice[c].base].model = override

\* An upgrade that may still be published has the override of now.
UpgradeIsCurrent ==
  \A p \in SystemReplicas :
    /\ upgrade[p].base <= system.latest
    /\ upgrade[p].step = "built" /\ upgrade[p].base = system.published =>
         upgrade[p].graph = [revision |-> Template[p], model |-> override]

SystemInv ==
  /\ SystemTypeOK /\ system.published = system.latest
  /\ OneChecks /\ ChoiceFollowsVersion /\ UpgradeIsCurrent /\ SystemGraphIsCurrent

\* A new version takes the next number: the versions before it keep their graphs, and
\* whoever started from one of them is late.
LEMMA PublishedVersion ==
  ASSUME SystemInv, NEW graph \in Graph, NEW revision \in Nat,
         system.latest < MaxSystemVersions, Publishes(graph, revision)
  PROVE  /\ system' = [revision |-> revision, published |-> system.latest + 1,
                       latest |-> system.latest + 1]
         /\ system.latest \in Nat /\ system.latest + 1 \in 1..MaxSystemVersions
         /\ graphOf' \in [1..MaxSystemVersions -> Graph]
         /\ graphOf'[system.latest + 1] = graph
         /\ \A v \in 1..system.latest : graphOf'[v] = graphOf[v]
BY SystemAssumption DEF SystemInv, SystemTypeOK, Publishes

LEMMA SystemStep == SystemInv /\ [SystemNext]_systemVars => SystemInv'
<1> SUFFICES ASSUME SystemInv, [SystemNext]_systemVars
             PROVE  SystemInv'
  OBVIOUS
<1> USE SystemAssumption
<1>1. /\ system.latest \in 0..MaxSystemVersions /\ system.published = system.latest
      /\ MaxSystemVersions \in Nat
  BY DEF SystemInv, SystemTypeOK
<1>2. NoTransaction \in [step : {"idle"}, base : {0}, graph : Graph] /\ NoGraph \in Graph
  BY DEF NoTransaction, NoGraph, Graph
<1>3. ASSUME NEW p \in SystemReplicas, BeginUpgrade(p)
      PROVE  SystemInv'
  <2>1. UNCHANGED <<system, graphOf, override, choice>>
    BY <1>3 DEF BeginUpgrade
  <2>2. /\ upgrade' \in [SystemReplicas -> [step : {"idle", "locked", "built"},
                                            base : 0..MaxSystemVersions, graph : Graph]]
        /\ upgrade'[p].step = "locked" /\ upgrade'[p].base = system.latest
        /\ \A q \in SystemReplicas \ {p} : upgrade'[q] = upgrade[q]
    BY <1>1, <1>2, <1>3 DEF BeginUpgrade, SystemInv, SystemTypeOK
  <2>3. UpgradeIsCurrent'
    BY <1>1, <2>1, <2>2 DEF SystemInv, UpgradeIsCurrent
  <2> QED
    BY <2>1, <2>2, <2>3
    DEF SystemInv, SystemTypeOK, OneChecks, ChoiceFollowsVersion, SystemGraphIsCurrent
<1>4. ASSUME NEW p \in SystemReplicas, BuildUpgrade(p)
      PROVE  SystemInv'
  <2>1. UNCHANGED <<system, graphOf, override, choice>>
    BY <1>4 DEF BuildUpgrade
  <2>2. [revision |-> Template[p], model |-> override] \in Graph
    BY DEF SystemInv, SystemTypeOK, Graph
  <2>3. /\ upgrade' \in [SystemReplicas -> [step : {"idle", "locked", "built"},
                                            base : 0..MaxSystemVersions, graph : Graph]]
        /\ upgrade'[p].base = upgrade[p].base
        /\ upgrade'[p].graph = [revision |-> Template[p], model |-> override]
        /\ \A q \in SystemReplicas \ {p} : upgrade'[q] = upgrade[q]
    <3>1. upgrade \in [SystemReplicas -> [step : {"idle", "locked", "built"},
                                          base : 0..MaxSystemVersions, graph : Graph]]
      BY DEF SystemInv, SystemTypeOK
    <3>2. upgrade' = [upgrade EXCEPT ![p].step = "built",
                       ![p].graph = [revision |-> Template[p], model |-> override]]
      BY <1>4 DEF BuildUpgrade
    <3> DEFINE graph == [revision |-> Template[p], model |-> override]
    <3> HIDE DEF graph
    <3>3. graph \in Graph
      BY <2>2 DEF graph
    <3>4. upgrade' = [upgrade EXCEPT ![p].step = "built", ![p].graph = graph]
      BY <3>2 DEF graph
    <3> QED
      BY <3>1, <3>3, <3>4 DEF graph
  <2>4. UpgradeIsCurrent'
    BY <2>1, <2>3 DEF SystemInv, UpgradeIsCurrent
  <2> QED
    BY <2>1, <2>3, <2>4
    DEF SystemInv, SystemTypeOK, OneChecks, ChoiceFollowsVersion, SystemGraphIsCurrent
<1>5. ASSUME NEW p \in SystemReplicas, CommitUpgrade(p)
      PROVE  SystemInv'
  <2>1. UNCHANGED <<override, choice>>
    BY <1>5 DEF CommitUpgrade
  <2>2. /\ upgrade' \in [SystemReplicas -> [step : {"idle", "locked", "built"},
                                            base : 0..MaxSystemVersions, graph : Graph]]
        /\ upgrade'[p].base = 0 /\ upgrade'[p].step = "idle"
        /\ \A q \in SystemReplicas \ {p} : upgrade'[q] = upgrade[q]
    BY <1>1, <1>2, <1>5 DEF CommitUpgrade, SystemInv, SystemTypeOK
  <2>3. CASE UNCHANGED <<system, graphOf>>
    <3>1. UpgradeIsCurrent'
      BY <1>1, <2>1, <2>2, <2>3 DEF SystemInv, UpgradeIsCurrent
    <3> QED
      BY <2>1, <2>2, <2>3, <3>1
      DEF SystemInv, SystemTypeOK, OneChecks, ChoiceFollowsVersion, SystemGraphIsCurrent
  <2>4. CASE /\ system.published = upgrade[p].base /\ system.latest < MaxSystemVersions
             /\ Publishes(upgrade[p].graph, Template[p])
    <3>1. /\ upgrade[p].graph = [revision |-> Template[p], model |-> override]
          /\ upgrade[p].graph \in Graph /\ Template[p] \in Nat
      BY <1>5, <2>4 DEF CommitUpgrade, SystemInv, UpgradeIsCurrent, SystemTypeOK
    <3>2. /\ system' = [revision |-> Template[p], published |-> system.latest + 1,
                        latest |-> system.latest + 1]
          /\ system.latest \in Nat /\ system.latest + 1 \in 1..MaxSystemVersions
          /\ graphOf' \in [1..MaxSystemVersions -> Graph]
          /\ graphOf'[system.latest + 1] = [revision |-> Template[p], model |-> override]
          /\ \A v \in 1..system.latest : graphOf'[v] = graphOf[v]
      BY <2>4, <3>1, PublishedVersion
    <3>3. SystemTypeOK' /\ SystemGraphIsCurrent' /\ system'.published = system'.latest
      <4>1. system' \in [revision : Nat, published : 0..MaxSystemVersions,
                         latest : 0..MaxSystemVersions]
        BY <3>1, <3>2
      <4>2. SystemTypeOK'
        BY <2>1, <2>2, <3>2, <4>1 DEF SystemInv, SystemTypeOK
      <4>3. SystemGraphIsCurrent' /\ system'.published = system'.latest
        BY <2>1, <3>2 DEF SystemGraphIsCurrent
      <4> QED
        BY <4>2, <4>3
    <3>4. ASSUME NEW q \in SystemReplicas
          PROVE  upgrade'[q].base <= system.latest
      <4>1. CASE q = p
        BY <2>2, <3>2, <4>1
      <4>2. CASE q # p
        <5>1. upgrade'[q] = upgrade[q] /\ upgrade[q].base <= system.latest
          BY <2>2, <4>2 DEF SystemInv, UpgradeIsCurrent
        <5> QED
          BY <5>1
      <4> QED
        BY <4>1, <4>2
    <3>5. UpgradeIsCurrent'
      <4>1. /\ system'.published = system.latest + 1 /\ system'.latest = system.latest + 1
            /\ system.latest \in Nat
        BY <3>2
      <4>2. \A q \in SystemReplicas : upgrade'[q].base \in Nat
        BY <3>3 DEF SystemTypeOK
      <4> QED
        BY <3>4, <4>1, <4>2 DEF UpgradeIsCurrent
    <3>6. OneChecks' /\ ChoiceFollowsVersion'
      BY <2>1, <3>2 DEF SystemInv, OneChecks, ChoiceFollowsVersion
    <3> QED
      BY <3>3, <3>5, <3>6 DEF SystemInv
  <2> QED
    BY <1>5, <2>3, <2>4 DEF CommitUpgrade
<1>6. ASSUME NEW c \in Choosers, NEW m \in Models \cup {"default"}, ChooseModel(c, m)
      PROVE  SystemInv'
  <2>1. UNCHANGED <<system, graphOf, override, upgrade>>
    BY <1>6 DEF ChooseModel
  <2>2. system.latest \in 1..MaxSystemVersions /\ graphOf[system.latest] \in Graph
    BY <1>1, <1>6 DEF ChooseModel, SystemInv, SystemTypeOK
  <2>3. /\ [graphOf[system.latest] EXCEPT !.model = m] \in Graph
        /\ [graphOf[system.latest] EXCEPT !.model = m].revision = graphOf[system.latest].revision
    BY <2>2 DEF Graph
  <2>4. /\ choice' \in [Choosers -> [step : {"idle", "chosen", "checked"},
                                     base : 0..MaxSystemVersions, graph : Graph]]
        /\ choice'[c].step = "chosen" /\ choice'[c].base = system.latest
        /\ choice'[c].graph.revision = graphOf[system.latest].revision
        /\ \A d \in Choosers \ {c} : choice'[d] = choice[d]
    BY <1>1, <1>6, <2>3 DEF ChooseModel, SystemInv, SystemTypeOK
  <2>5. OneChecks' /\ ChoiceFollowsVersion'
    BY <1>1, <2>1, <2>2, <2>4 DEF SystemInv, OneChecks, ChoiceFollowsVersion
  <2> QED
    BY <2>1, <2>4, <2>5 DEF SystemInv, SystemTypeOK, UpgradeIsCurrent, SystemGraphIsCurrent
<1>7. ASSUME NEW c \in Choosers, CheckChoice(c)
      PROVE  SystemInv'
  <2>1. UNCHANGED <<system, graphOf, override, upgrade>>
    BY <1>7 DEF CheckChoice
  <2>2. /\ choice' \in [Choosers -> [step : {"idle", "chosen", "checked"},
                                     base : 0..MaxSystemVersions, graph : Graph]]
        /\ choice'[c].base = choice[c].base /\ choice'[c].graph = choice[c].graph
        /\ choice'[c].step = "idle" \/ (choice'[c].step = "checked" /\ choice[c].base = system.published)
        /\ \A d \in Choosers \ {c} : choice'[d] = choice[d]
    BY <1>7 DEF CheckChoice, StillPublished, SystemInv, SystemTypeOK
  <2>3. choice[c].step = "chosen" /\ \A d \in Choosers : choice[d].step # "checked"
    BY <1>7 DEF CheckChoice, SystemLocked, SystemInv, SystemTypeOK
  <2>4. OneChecks'
    BY <2>2, <2>3 DEF OneChecks
  <2>5. choice'[c].step = "checked" => graphOf[choice[c].base].model = override
    BY <1>1, <2>2, <2>3 DEF SystemInv, ChoiceFollowsVersion, SystemGraphIsCurrent
  <2>6. ChoiceFollowsVersion'
    BY <2>1, <2>2, <2>3, <2>5 DEF SystemInv, ChoiceFollowsVersion
  <2> QED
    BY <2>1, <2>2, <2>4, <2>6 DEF SystemInv, SystemTypeOK, UpgradeIsCurrent, SystemGraphIsCurrent
<1>8. ASSUME NEW c \in Choosers, CommitChoice(c)
      PROVE  SystemInv'
  <2>1. UNCHANGED upgrade
    BY <1>8 DEF CommitChoice
  <2>2. /\ choice' \in [Choosers -> [step : {"idle", "chosen", "checked"},
                                     base : 0..MaxSystemVersions, graph : Graph]]
        /\ choice'[c].step = "idle"
        /\ \A d \in Choosers \ {c} : choice'[d] = choice[d]
    BY <1>1, <1>2, <1>8 DEF CommitChoice, SystemInv, SystemTypeOK
  <2>3. \A d \in Choosers \ {c} : choice[d].step # "checked"
    BY <1>8 DEF CommitChoice, SystemInv, OneChecks
  <2>4. /\ choice[c].step = "checked" /\ choice[c].base \in 1..system.latest
        /\ choice[c].graph.revision = graphOf[choice[c].base].revision
        /\ graphOf[choice[c].base].model = override
    BY <1>8 DEF CommitChoice, SystemInv, ChoiceFollowsVersion
  <2>5. OneChecks'
    BY <2>2, <2>3 DEF OneChecks
  <2>6. CASE override' = override /\ UNCHANGED <<system, graphOf>>
    <3>1. ChoiceFollowsVersion'
      BY <2>2, <2>6 DEF SystemInv, ChoiceFollowsVersion
    <3> QED
      BY <2>1, <2>2, <2>5, <2>6, <3>1
      DEF SystemInv, SystemTypeOK, UpgradeIsCurrent, SystemGraphIsCurrent
  <2>7. CASE /\ system.published = choice[c].base /\ system.latest < MaxSystemVersions
             /\ override' = choice[c].graph.model
             /\ Publishes(choice[c].graph, system.revision)
    <3>1. /\ choice[c].graph \in Graph /\ system.revision \in Nat
          /\ choice[c].graph.revision = system.revision
          /\ choice[c].graph = [revision |-> system.revision, model |-> override']
          /\ override' \in Models \cup {"default"}
      <4>1. choice[c].graph \in Graph /\ system.revision \in Nat
        BY DEF SystemInv, SystemTypeOK
      <4>2. choice[c].graph.revision = system.revision
        BY <1>1, <2>4, <2>7 DEF SystemInv, SystemGraphIsCurrent
      <4> QED
        BY <2>7, <4>1, <4>2 DEF Graph
    <3>2. /\ system' = [revision |-> system.revision, published |-> system.latest + 1,
                        latest |-> system.latest + 1]
          /\ system.latest \in Nat /\ system.latest + 1 \in 1..MaxSystemVersions
          /\ graphOf' \in [1..MaxSystemVersions -> Graph]
          /\ graphOf'[system.latest + 1] = choice[c].graph
          /\ \A v \in 1..system.latest : graphOf'[v] = graphOf[v]
      BY <2>7, <3>1, PublishedVersion
    <3>3. SystemTypeOK' /\ SystemGraphIsCurrent' /\ system'.published = system'.latest
      <4>1. system' \in [revision : Nat, published : 0..MaxSystemVersions,
                         latest : 0..MaxSystemVersions]
        BY <3>1, <3>2
      <4>2. SystemTypeOK'
        BY <2>1, <2>2, <3>1, <3>2, <4>1 DEF SystemInv, SystemTypeOK
      <4>3. SystemGraphIsCurrent' /\ system'.published = system'.latest
        BY <3>1, <3>2 DEF SystemGraphIsCurrent
      <4> QED
        BY <4>2, <4>3
    <3>4. \A q \in SystemReplicas : upgrade'[q].base <= system.latest
      BY <2>1 DEF SystemInv, UpgradeIsCurrent
    <3>5. UpgradeIsCurrent'
      <4>1. /\ system'.published = system.latest + 1 /\ system'.latest = system.latest + 1
            /\ system.latest \in Nat
        BY <3>2
      <4>2. \A q \in SystemReplicas : upgrade'[q].base \in Nat
        BY <3>3 DEF SystemTypeOK
      <4> QED
        BY <3>4, <4>1, <4>2 DEF UpgradeIsCurrent
    <3>6. ChoiceFollowsVersion'
      <4>1. system'.latest = system.latest + 1 /\ system.latest \in Nat
        BY <3>2
      <4> SUFFICES ASSUME NEW d \in Choosers, choice'[d].step # "idle"
                   PROVE  /\ choice'[d].base \in 1..system.latest + 1
                          /\ choice'[d].graph.revision = graphOf'[choice'[d].base].revision
                          /\ choice'[d].step # "checked"
        BY <4>1 DEF ChoiceFollowsVersion
      <4>2. d # c /\ choice'[d] = choice[d]
        BY <2>2
      <4>3. /\ choice[d].base \in 1..system.latest
            /\ choice[d].graph.revision = graphOf[choice[d].base].revision
        BY <4>2 DEF SystemInv, ChoiceFollowsVersion
      <4>4. graphOf'[choice[d].base] = graphOf[choice[d].base]
        BY <3>2, <4>3
      <4> QED
        BY <2>3, <4>1, <4>2, <4>3, <4>4
    <3> QED
      BY <2>5, <3>3, <3>5, <3>6 DEF SystemInv
  <2> QED
    BY <1>8, <2>4, <2>6, <2>7 DEF CommitChoice
<1>9. CASE UNCHANGED systemVars
  BY <1>9
  DEF systemVars, SystemInv, SystemTypeOK, OneChecks, ChoiceFollowsVersion, UpgradeIsCurrent,
      SystemGraphIsCurrent
<1> QED
  BY <1>3, <1>4, <1>5, <1>6, <1>7, <1>8, <1>9 DEF SystemNext

\* The published system graph is of the stored revision and uses the chosen model,
\* however upgrades of several releases race the choices of users.
THEOREM SystemGraphStaysCurrent == SystemSpec => []SystemGraphIsCurrent
<1>1. SystemInit => SystemInv
  BY SystemAssumption
  DEF SystemInit, SystemInv, SystemTypeOK, OneChecks, ChoiceFollowsVersion, UpgradeIsCurrent,
      SystemGraphIsCurrent, NoTransaction, NoGraph, Graph
<1>2. SystemInv => SystemGraphIsCurrent
  BY DEF SystemInv
<1> QED
  BY <1>1, <1>2, SystemStep, PTL DEF SystemSpec

-----------------------------------------------------------------------------
(* The documents of a user's workflow.                                     *)

\* What a publication or a note leaves on the row itself, so that the pruning sees it,
\* and an active trigger has a version to run.
RowsTellHistory ==
  /\ DOMAIN versions # {}
  /\ \A v \in kept : versions[v].published \/ versions[v].noted

DocInv == DocTypeOK /\ HistoryKept /\ RowsTellHistory

VersionRow == [status : {"draft", "published", "superseded"}, published : BOOLEAN,
               noted : BOOLEAN, from : 0..MaxVersions]

\* A non-empty finite set of numbers has a greatest one: the number none exceeds.
LEMMA GreatestExists ==
  ASSUME NEW S, \A y \in S : y \in Nat, S # {}, IsFiniteSet(S)
  PROVE  Max(S) \in S /\ \A y \in S : y <= Max(S)
<1> DEFINE Above(x) == {y \in S : y > x}
           above == {Above(x) : x \in S}
<1>1. PICK s \in above : \A t \in above : t \subseteq s => t = s
  <2>1. above \in SUBSET SUBSET S /\ above # {}
    OBVIOUS
  <2> HIDE DEF above
  <2> QED
    BY <2>1, Smallest
<1>2. PICK x \in S : s = Above(x)
  OBVIOUS
<1>3. \A y \in S : x >= y
  <2> SUFFICES ASSUME NEW y \in S, y > x PROVE FALSE
    OBVIOUS
  <2>1. x \in Nat /\ y \in Nat /\ \A z \in S : z \in Nat
    OBVIOUS
  <2>2. \A z \in S : z > y => z > x
    BY <2>1
  <2>3. Above(y) \subseteq Above(x)
    BY <2>2
  <2>4. y \in Above(x) /\ y \notin Above(y)
    BY <2>1
  <2> QED
    BY <1>1, <1>2, <2>3, <2>4
<1>4. \A y \in S : Max(S) >= y /\ Max(S) \in S
  BY <1>3 DEF Max
<1> QED
  BY <1>4

\* The next number is of no version.
LEMMA NextNumber ==
  ASSUME DocTypeOK, DOMAIN versions # {}, Following \in Numbers
  PROVE  Following \notin DOMAIN versions
<1>1. DOMAIN versions \in SUBSET Nat /\ IsFiniteSet(DOMAIN versions)
  <2>1. MaxVersions \in Nat /\ IsFiniteSet(1..MaxVersions)
    BY DocumentsAssumption, FS_Interval
  <2>2. DOMAIN versions \in SUBSET (1..MaxVersions)
    BY DEF DocTypeOK, Numbers
  <2> QED
    BY <2>1, <2>2, FS_Subset
<1>2. Max(DOMAIN versions) \in Nat /\ \A y \in DOMAIN versions : y <= Max(DOMAIN versions)
  BY <1>1, GreatestExists
<1> QED
  BY <1>1, <1>2 DEF Following

\* A draft that takes the place of the current one: the rows keep what they say, except
\* that the former draft is superseded.
LEMMA AppendedRows ==
  ASSUME DocInv, NEW v \in Numbers, v \notin DOMAIN versions,
         NEW row \in VersionRow
  PROVE  LET rows == Appended(v, row)
         IN  /\ DOMAIN rows = DOMAIN versions \cup {v}
             /\ \A n \in DOMAIN rows : rows[n] \in VersionRow
             /\ rows[v] = row
             /\ \A n \in DOMAIN versions :
                  /\ rows[n].published = versions[n].published
                  /\ rows[n].noted = versions[n].noted
                  /\ rows[n].from = versions[n].from
                  /\ n # draft => rows[n].status = versions[n].status
                  /\ n = draft => rows[n].status = "superseded"
<1> DEFINE rows == Appended(v, row)
<1>1. DOMAIN rows = DOMAIN versions \cup {v} /\ rows[v] = row
  BY DEF Appended
<1>2. \A n \in DOMAIN versions : versions[n] \in VersionRow
  BY DEF DocInv, DocTypeOK, VersionRow
<1>3. ASSUME NEW n \in DOMAIN versions
      PROVE  /\ rows[n] \in VersionRow
             /\ rows[n].published = versions[n].published
             /\ rows[n].noted = versions[n].noted
             /\ rows[n].from = versions[n].from
             /\ n # draft => rows[n].status = versions[n].status
             /\ n = draft => rows[n].status = "superseded"
  <2>1. n # v
    OBVIOUS
  <2>2. versions[n] \in VersionRow
    BY <1>2
  <2>3. CASE n = draft
    <3>1. versions[n].status = "draft"
      BY <2>3, DocumentsAssumption DEF DocInv, HistoryKept, DocTypeOK, Numbers
    <3>2. rows[n] = [versions[n] EXCEPT !.status = "superseded"]
      BY <2>1, <2>3, <3>1 DEF Appended
    <3> QED
      BY <2>2, <2>3, <3>2 DEF VersionRow
  <2>4. CASE n # draft
    <3>1. rows[n] = versions[n]
      BY <2>1, <2>4 DEF Appended
    <3> QED
      BY <2>2, <2>4, <3>1
  <2> QED
    BY <2>3, <2>4
<1> HIDE DEF rows
<1>4. \A n \in DOMAIN rows : rows[n] \in VersionRow
  BY <1>1, <1>3
<1> QED
  BY <1>1, <1>3, <1>4 DEF rows

\* The pruning removes rows nothing refers to and changes none.
LEMMA PrunedRows ==
  ASSUME NEW rows
  PROVE  /\ DOMAIN Pruned(rows) \subseteq DOMAIN rows
         /\ \A n \in DOMAIN Pruned(rows) : Pruned(rows)[n] = rows[n]
         /\ \A n \in DOMAIN rows : ~Expendable(rows, n) => n \in DOMAIN Pruned(rows)
<1> DEFINE autosaves == {v \in DOMAIN rows : Expendable(rows, v)}
           expired == {v \in autosaves : Cardinality({n \in autosaves : n > v}) >= HistoryLimit}
<1>1. Pruned(rows) = [v \in DOMAIN rows \ expired |-> rows[v]]
  BY DEF Pruned
<1>2. \A n \in expired : Expendable(rows, n)
  OBVIOUS
<1> HIDE DEF expired
<1> QED
  BY <1>1, <1>2

LEMMA DocumentsStep == DocInv /\ [DocNext]_docVars => DocInv'
<1> SUFFICES ASSUME DocInv, [DocNext]_docVars
             PROVE  DocInv'
  OBVIOUS
<1> USE DocumentsAssumption
<1> DEFINE WindowSet == [base : 0..MaxVersions, step : {"closed", "open", "activating"}]
<1>1. /\ DocTypeOK /\ HistoryKept /\ RowsTellHistory /\ MaxVersions \in Nat
      /\ \A v \in DOMAIN versions : versions[v] \in VersionRow /\ v \in Nat \ {0}
  BY DEF DocInv, DocTypeOK, VersionRow, Numbers
<1>2. ASSUME NEW e \in Windows,
             LoadWorkflow(e) \/ RequestActivation(e)
      PROVE  DocInv'
  <2>1. /\ UNCHANGED <<docStatus, versions, draft, published, pinned, trigger, kept>>
        /\ window' \in [Windows -> [base : 0..MaxVersions, step : {"closed", "open", "activating"}]]
    BY <1>1, <1>2 DEF LoadWorkflow, RequestActivation, DocTypeOK
  <2> QED
    BY <1>1, <2>1 DEF DocInv, DocTypeOK, HistoryKept, RowsTellHistory
<1>3. ASSUME NEW e \in Windows, ActivateTrigger(e)
      PROVE  DocInv'
  <2>1. /\ UNCHANGED <<docStatus, versions, draft, published, pinned, kept>>
        /\ window' \in [Windows -> [base : 0..MaxVersions, step : {"closed", "open", "activating"}]]
        /\ trigger' \in [status : {"active", "paused"}, version : 0..MaxVersions]
    BY <1>1, <1>3 DEF ActivateTrigger, DocTypeOK
  <2>2. trigger' = trigger \/ trigger' = [status |-> "active", version |-> published]
    BY <1>3 DEF ActivateTrigger
  <2> QED
    BY <1>1, <2>1, <2>2 DEF DocInv, DocTypeOK, HistoryKept, RowsTellHistory
<1>4. CASE ArchiveWorkflow \/ PauseTrigger
  <2>1. /\ UNCHANGED <<versions, draft, published, pinned, window, kept>>
        /\ docStatus' \in {"draft", "published", "archived"}
        /\ trigger' = [status |-> "paused", version |-> 0]
    BY <1>1, <1>4 DEF ArchiveWorkflow, PauseTrigger, DocTypeOK
  <2> QED
    BY <1>1, <2>1 DEF DocInv, DocTypeOK, HistoryKept, RowsTellHistory
<1>5. ASSUME NEW v \in Numbers, PinVersion(v) \/ UnpinVersion(v)
      PROVE  DocInv'
  <2>1. /\ UNCHANGED <<docStatus, versions, draft, published, trigger, window, kept>>
        /\ pinned' \subseteq pinned \cup DOMAIN versions
    BY <1>5 DEF PinVersion, UnpinVersion
  <2> QED
    BY <1>1, <2>1 DEF DocInv, DocTypeOK, HistoryKept, RowsTellHistory
<1>6. ASSUME NEW e \in Windows, PublishDraft(e)
      PROVE  DocInv'
  <2>1. /\ UNCHANGED pinned /\ docStatus' = "published" /\ published' = draft /\ draft' = 0
        /\ kept' = kept \cup {draft} /\ draft \in DOMAIN versions /\ draft # 0
        /\ window' \in [Windows -> [base : 0..MaxVersions, step : {"closed", "open", "activating"}]]
    <3>1. window' = [window EXCEPT ![e].base = 0] /\ window \in [Windows -> WindowSet]
      BY <1>1, <1>6 DEF PublishDraft, DocTypeOK
    <3>2. window' \in [Windows -> WindowSet]
      BY <3>1
    <3>3. draft \in DOMAIN versions /\ draft # 0
      BY <1>1, <1>6 DEF PublishDraft, HistoryKept
    <3> QED
      BY <1>6, <3>2, <3>3 DEF PublishDraft, ReleasesDraft
  <2>2. /\ versions[draft].status = "draft"
        /\ published # draft
        /\ \A n \in DOMAIN versions : versions[n].status = "published" <=> n = published
        /\ \A n \in DOMAIN versions : versions[n].status = "draft" <=> n = draft
    BY <1>1, <2>1 DEF HistoryKept
  <2>3. ASSUME NEW n \in DOMAIN versions
        PROVE  /\ versions'[n] \in VersionRow
               /\ versions'[n].from = versions[n].from
               /\ versions'[n].noted = versions[n].noted
               /\ versions'[n].published = (versions[n].published \/ n = draft)
               /\ versions'[n].status = "published" <=> n = draft
               /\ versions'[n].status # "draft"
    <3>1. versions[n] \in VersionRow
      BY <1>1
    <3>2. CASE n = draft
      <4>1. versions'[n] = [versions[n] EXCEPT !.status = "published", !.published = TRUE]
        BY <1>6, <3>2 DEF PublishDraft
      <4> QED
        BY <3>1, <3>2, <4>1 DEF VersionRow
    <3>3. CASE n # draft /\ n = published
      <4>1. versions'[n] = [versions[n] EXCEPT !.status = "superseded"]
        BY <1>6, <3>3 DEF PublishDraft
      <4> QED
        BY <3>1, <3>3, <4>1 DEF VersionRow
    <3>4. CASE n # draft /\ n # published
      <4>1. versions'[n] = versions[n]
        BY <1>6, <3>4 DEF PublishDraft
      <4> QED
        BY <2>2, <3>1, <3>4, <4>1 DEF VersionRow
    <3> QED
      BY <3>2, <3>3, <3>4
  <2>4. DOMAIN versions' = DOMAIN versions
    BY <1>6 DEF PublishDraft
  <2>5. /\ trigger' \in [status : {"active", "paused"}, version : 0..MaxVersions]
        /\ trigger'.version \in {trigger.version, draft}
        /\ trigger'.status = "active" => trigger'.version = draft
    BY <1>1, <1>6 DEF PublishDraft, DocTypeOK
  <2>6. DocTypeOK'
    BY <1>1, <2>1, <2>3, <2>4, <2>5 DEF DocTypeOK, VersionRow
  <2>7. RowsTellHistory'
    BY <1>1, <2>1, <2>3, <2>4 DEF RowsTellHistory, HistoryKept
  <2>8. {versions'[n].from : n \in DOMAIN versions'} = {versions[n].from : n \in DOMAIN versions}
    BY <2>3, <2>4
  <2>9. HistoryKept'
    <3>1. /\ kept' \cup pinned' \cup ({draft', published', trigger'.version} \ {0})
               \subseteq DOMAIN versions'
      BY <1>1, <2>1, <2>4, <2>5 DEF HistoryKept
    <3>2. ({versions'[n].from : n \in DOMAIN versions'} \ {0}) \subseteq DOMAIN versions'
      BY <1>1, <2>4, <2>8 DEF HistoryKept
    <3>3. {n \in DOMAIN versions' : versions'[n].status = "draft"} = {draft'} \ {0}
      BY <2>1, <2>3, <2>4
    <3>4. {n \in DOMAIN versions' : versions'[n].status = "published"} = {published'} \ {0}
      BY <2>1, <2>3, <2>4
    <3> QED
      BY <2>1, <2>5, <3>1, <3>2, <3>3, <3>4 DEF HistoryKept
  <2> QED
    BY <2>6, <2>7, <2>9 DEF DocInv
<1>7. ASSUME NEW e \in Windows, NEW noted \in BOOLEAN, NEW from \in 0..MaxVersions,
             \/ SaveDraft(e, noted) /\ from = 0
             \/ RestoreVersion(e, from) /\ noted
      PROVE  DocInv'
  <2> DEFINE v == Following
             row == Version("draft", noted, from)
             rows == Appended(v, row)
  <2>1. /\ v \in Numbers /\ draft' = v /\ docStatus' = "draft"
        /\ UNCHANGED <<published, pinned, trigger>>
        /\ kept' \subseteq kept \cup {v} /\ (v \in kept' => noted \/ v \in kept)
        /\ from # 0 => from \in DOMAIN versions
        /\ versions' \in {rows, Pruned(rows)}
    BY <1>1, <1>7 DEF SaveDraft, RestoreVersion
  <2>2. v \notin DOMAIN versions
    BY <1>1, <2>1, NextNumber DEF RowsTellHistory
  <2>3. row \in VersionRow /\ row.status = "draft" /\ row.noted = noted /\ row.from = from
    BY DEF Version, VersionRow
  <2>4. window' \in [Windows -> [base : 0..MaxVersions, step : {"closed", "open", "activating"}]]
    <3>1. window \in [Windows -> WindowSet] /\ v \in 0..MaxVersions
      BY <1>1, <2>1 DEF DocTypeOK, Numbers
    <3>2. \/ window' = [window EXCEPT ![e].base = v]
          \/ window' = [window EXCEPT ![e] = [base |-> v, step |-> "open"]]
      BY <1>7 DEF SaveDraft, RestoreVersion
    <3> HIDE DEF v
    <3>3. [base |-> v, step |-> "open"] \in WindowSet
      BY <3>1
    <3>4. CASE window' = [window EXCEPT ![e].base = v]
      BY <3>1, <3>4
    <3>5. CASE window' = [window EXCEPT ![e] = [base |-> v, step |-> "open"]]
      BY <3>1, <3>3, <3>5
    <3> QED
      BY <3>2, <3>4, <3>5
  <2> HIDE DEF v, row
  <2>5. /\ DOMAIN rows = DOMAIN versions \cup {v}
        /\ \A n \in DOMAIN rows : rows[n] \in VersionRow
        /\ rows[v] = row
        /\ \A n \in DOMAIN versions :
             /\ rows[n].published = versions[n].published
             /\ rows[n].noted = versions[n].noted
             /\ rows[n].from = versions[n].from
             /\ n # draft => rows[n].status = versions[n].status
             /\ n = draft => rows[n].status = "superseded"
    <3>1. v \in Numbers
      BY <2>1
    <3>2. row \in VersionRow
      BY <2>3
    <3> QED
      BY <2>2, <3>1, <3>2, AppendedRows, Zenon
  <2> HIDE DEF rows
  <2>6. /\ DOMAIN versions' \subseteq DOMAIN rows
        /\ \A n \in DOMAIN versions' : versions'[n] = rows[n]
        /\ \A n \in DOMAIN rows : ~Expendable(rows, n) => n \in DOMAIN versions'
    <3>1. CASE versions' = rows
      BY <3>1
    <3>2. CASE versions' = Pruned(rows)
      BY <3>2, PrunedRows
    <3> QED
      BY <2>1, <3>1, <3>2
  <2>7. \A n \in DOMAIN rows :
          \/ n \in pinned \/ n = trigger.version \/ rows[n].status # "superseded"
          \/ rows[n].published \/ rows[n].noted
          \/ \E m \in DOMAIN rows : rows[m].from = n
          => n \in DOMAIN versions'
    BY <2>6 DEF Expendable
  <2>8. v \in DOMAIN versions' /\ versions'[v] = row /\ v # 0
    BY <2>1, <2>3, <2>5, <2>6, <2>7 DEF Numbers
  <2>9. ASSUME NEW n \in kept
        PROVE  /\ n \in DOMAIN versions'
               /\ versions'[n].published \/ versions'[n].noted
    <3>1. n \in DOMAIN versions /\ (versions[n].published \/ versions[n].noted)
      BY <1>1 DEF HistoryKept, RowsTellHistory
    <3> QED
      BY <2>5, <2>6, <2>7, <3>1
  <2>10. /\ pinned \subseteq DOMAIN versions'
         /\ trigger.version # 0 => trigger.version \in DOMAIN versions'
    BY <1>1, <2>5, <2>7 DEF HistoryKept
  <2>11. ASSUME NEW n \in DOMAIN rows
         PROVE  /\ rows[n].status = "draft" <=> n = v
                /\ rows[n].status = "published" <=> n = published /\ n # 0
    <3>1. CASE n = v
      <4>1. published # v
        BY <1>1, <2>1, <2>2, <2>8 DEF HistoryKept
      <4> QED
        BY <2>3, <2>5, <3>1, <4>1
    <3>2. CASE n \in DOMAIN versions
      <4>1. n # v /\ n # 0
        BY <1>1, <2>2, <3>2
      <4>2. versions[n].status = "draft" => n = draft
        BY <1>1, <3>2 DEF HistoryKept
      <4>3. versions[n].status = "published" <=> n = published
        BY <1>1, <3>2, <4>1 DEF HistoryKept
      <4>4. n = draft => versions[n].status = "draft"
        BY <1>1, <3>2, <4>1 DEF HistoryKept
      <4> QED
        BY <2>5, <3>2, <4>1, <4>2, <4>3, <4>4
    <3> QED
      BY <2>5, <3>1, <3>2
  <2>12. published # 0 => published \in DOMAIN versions'
    <3> SUFFICES ASSUME published # 0 PROVE published \in DOMAIN versions'
      OBVIOUS
    <3>1. published \in DOMAIN rows
      BY <1>1, <2>5 DEF HistoryKept
    <3> QED
      BY <2>7, <2>11, <3>1
  <2>13. ASSUME NEW n \in DOMAIN versions', versions'[n].from # 0
         PROVE  versions'[n].from \in DOMAIN versions'
    <3>1. n \in DOMAIN rows /\ versions'[n].from = rows[n].from
      BY <2>6
    <3>2. rows[n].from \in DOMAIN versions
      <4>1. CASE n = v
        BY <2>1, <2>3, <2>5, <2>13, <3>1, <4>1
      <4>2. CASE n \in DOMAIN versions
        BY <1>1, <2>5, <2>13, <3>1, <4>2 DEF HistoryKept
      <4> QED
        BY <2>5, <3>1, <4>1, <4>2
    <3> QED
      BY <2>5, <2>7, <3>1, <3>2
  <2>14. HistoryKept'
    <3>1. kept' \cup pinned' \cup ({draft', published', trigger'.version} \ {0})
            \subseteq DOMAIN versions'
      BY <2>1, <2>8, <2>9, <2>10, <2>12
    <3>2. ({versions'[n].from : n \in DOMAIN versions'} \ {0}) \subseteq DOMAIN versions'
      BY <2>13
    <3>3. {n \in DOMAIN versions' : versions'[n].status = "draft"} = {draft'} \ {0}
      BY <2>1, <2>6, <2>8, <2>11
    <3>4. {n \in DOMAIN versions' : versions'[n].status = "published"} = {published'} \ {0}
      BY <2>1, <2>6, <2>11, <2>12
    <3>5. trigger'.status = "active" => trigger'.version = published'
      BY <1>1, <2>1 DEF HistoryKept
    <3> QED
      BY <3>1, <3>2, <3>3, <3>4, <3>5 DEF HistoryKept
  <2>15. DocTypeOK'
    <3>1. kept' \subseteq Numbers /\ DOMAIN versions' \subseteq Numbers
      BY <1>1, <2>1, <2>5, <2>6 DEF DocTypeOK
    <3>2. \A n \in DOMAIN versions' : versions'[n] \in VersionRow
      BY <2>5, <2>6
    <3>3. draft' \in 0..MaxVersions
      BY <2>1 DEF Numbers
    <3> QED
      BY <1>1, <2>1, <2>4, <3>1, <3>2, <3>3 DEF DocTypeOK, VersionRow
  <2>16. RowsTellHistory'
    <3>1. v \in kept' => versions'[v].published \/ versions'[v].noted
      BY <2>1, <2>3, <2>8, <2>9
    <3> QED
      BY <2>1, <2>8, <2>9, <3>1 DEF RowsTellHistory
  <2> QED
    BY <2>14, <2>15, <2>16 DEF DocInv
<1>8. CASE UNCHANGED docVars
  BY <1>1, <1>8 DEF docVars, DocInv, DocTypeOK, HistoryKept, RowsTellHistory
<1>9. \A e \in Windows : \A noted \in BOOLEAN : SaveDraft(e, noted) => DocInv'
  BY <1>7
<1>10. ASSUME NEW e \in Windows, NEW v \in Numbers, RestoreVersion(e, v)
       PROVE  DocInv'
  <2>1. v \in 0..MaxVersions /\ TRUE \in BOOLEAN
    BY DEF Numbers
  <2> QED
    BY <1>7, <1>10, <2>1
<1> QED
  BY <1>2, <1>3, <1>4, <1>5, <1>6, <1>8, <1>9, <1>10 DEF DocNext

\* History is not pruned with the autosaves, and the pointers of a workflow agree with
\* its rows, however many windows save, restore, publish and delete at once.
THEOREM HistoryIsKept == DocSpec => []HistoryKept
<1>1. DocInit => DocInv
  <2> SUFFICES ASSUME DocInit PROVE DocInv
    OBVIOUS
  <2> USE DocumentsAssumption DEF DocInit, Version
  <2>1. DocTypeOK
    BY DEF DocTypeOK, Numbers
  <2>2. HistoryKept
    BY DEF HistoryKept
  <2>3. RowsTellHistory
    BY DEF RowsTellHistory
  <2> QED
    BY <2>1, <2>2, <2>3 DEF DocInv
<1>2. DocInv => HistoryKept
  BY DEF DocInv
<1> QED
  BY <1>1, <1>2, DocumentsStep, PTL DEF DocSpec

-----------------------------------------------------------------------------
(* The graph a worker executes.  What a node's values reach (Below) is the *)
(* least set with the node that is closed under the forward edges.         *)

\* A set of numbers with a member has a least one.
LEMMA LeastNumber ==
  ASSUME NEW T \in SUBSET Nat, T # {}
  PROVE  \E x \in T : \A y \in T : x <= y
<1>1. PICK x \in T : \A y \in T : ~(<<y, x>> \in OpToRel(<, Nat))
  BY NatLessThanWellFounded, WFMin
<1>2. \A y \in T : ~(y < x)
  BY <1>1 DEF OpToRel
<1>3. \A y \in T : y \in Nat
  OBVIOUS
<1> QED
  BY <1>2, <1>3

GoodGraph(g) ==
  /\ IsFiniteSet(g.nodes) /\ g.gates \subseteq g.nodes
  /\ IsFiniteSet(g.edges)
  /\ \A e \in g.edges : e.from \in g.nodes /\ e.to \in g.nodes /\ e.port # "none"

Onward(g, s) == s \cup {e.to : e \in {f \in Forward(g) : f.from \in s}}
Closed(g, s) == \A e \in Forward(g) : e.from \in s => e.to \in s

\* The function in the definition of Below.
Spreads(g, n, it) ==
  it = [k \in Nat |-> IF k = 0 THEN {n} ELSE Onward(g, it[k - 1])]
SpreadsTo(g, n, it, k) ==
  /\ it[0] = {n}
  /\ \A j \in 1..k : it[j] = Onward(g, it[j - 1])

LEMMA BelowIsSpread ==
  ASSUME NEW g, NEW n
  PROVE  Below(g, n) = (CHOOSE it : Spreads(g, n, it))[Cardinality(g.nodes)]
BY Zenon DEF Below, Spreads, Onward

LEMMA SpreadsExist ==
  ASSUME NEW g, NEW n, NEW k \in Nat
  PROVE  \E it : SpreadsTo(g, n, it, k)
<1> DEFINE bad == {j \in Nat : ~ \E it : SpreadsTo(g, n, it, j)}
<1> SUFFICES ASSUME bad # {} PROVE FALSE
  OBVIOUS
<1>1. PICK j \in bad : \A i \in bad : j <= i
  <2>1. bad \in SUBSET Nat
    OBVIOUS
  <2> HIDE DEF bad
  <2> QED
    BY <2>1, LeastNumber
<1>2. j # 0
  <2>1. SpreadsTo(g, n, [x \in {0} |-> {n}], 0)
    BY DEF SpreadsTo
  <2> QED
    BY <2>1
<1>3. j - 1 \in Nat /\ j - 1 \notin bad
  BY <1>1, <1>2
<1>4. PICK it : SpreadsTo(g, n, it, j - 1)
  BY <1>3
<1> DEFINE on == [x \in 0..j |-> IF x = j THEN Onward(g, it[j - 1]) ELSE it[x]]
<1>5. SpreadsTo(g, n, on, j)
  <2>1. on[0] = {n}
    BY <1>2, <1>4 DEF SpreadsTo
  <2>2. ASSUME NEW x \in 1..j PROVE on[x] = Onward(g, on[x - 1])
    <3>1. on[x - 1] = it[x - 1]
      OBVIOUS
    <3>2. CASE x = j
      BY <3>1, <3>2
    <3>3. CASE x # j
      BY <1>4, <3>1, <3>3 DEF SpreadsTo
    <3> QED
      BY <3>2, <3>3
  <2> HIDE DEF on
  <2> QED
    BY <2>1, <2>2 DEF SpreadsTo
<1> QED
  BY <1>5

LEMMA SpreadsAgree ==
  ASSUME NEW g, NEW n, NEW k \in Nat, NEW l \in Nat, NEW f, NEW h,
         SpreadsTo(g, n, f, k), SpreadsTo(g, n, h, l)
  PROVE  \A j \in Nat : j <= k /\ j <= l => f[j] = h[j]
<1> DEFINE bad == {j \in Nat : j <= k /\ j <= l /\ f[j] # h[j]}
<1> SUFFICES ASSUME bad # {} PROVE FALSE
  OBVIOUS
<1>1. PICK j \in bad : \A i \in bad : j <= i
  <2>1. bad \in SUBSET Nat
    OBVIOUS
  <2> HIDE DEF bad
  <2> QED
    BY <2>1, LeastNumber
<1>2. j # 0
  BY DEF SpreadsTo
<1>3. f[j - 1] = h[j - 1]
  BY <1>1, <1>2
<1>4. f[j] = Onward(g, f[j - 1]) /\ h[j] = Onward(g, h[j - 1])
  BY <1>2 DEF SpreadsTo
<1> QED
  BY <1>3, <1>4

LEMMA SpreadsIs ==
  ASSUME NEW g, NEW n
  PROVE  \E it : Spreads(g, n, it)
<1> DEFINE To(k) == CHOOSE it : SpreadsTo(g, n, it, k)
           all == [k \in Nat |-> To(k)[k]]
<1>1. \A k \in Nat : SpreadsTo(g, n, To(k), k)
  BY SpreadsExist
<1> HIDE DEF To
<1>2. all[0] = {n}
  BY <1>1 DEF SpreadsTo
<1>3. ASSUME NEW k \in Nat, k # 0 PROVE all[k] = Onward(g, all[k - 1])
  <2>1. k - 1 \in Nat /\ k - 1 <= k /\ k - 1 <= k - 1 /\ k \in 1..k
    BY <1>3
  <2>2. SpreadsTo(g, n, To(k), k) /\ SpreadsTo(g, n, To(k - 1), k - 1)
    BY <1>1, <2>1
  <2>3. To(k)[k - 1] = To(k - 1)[k - 1]
    BY <2>1, <2>2, SpreadsAgree
  <2>4. To(k)[k] = Onward(g, To(k)[k - 1])
    BY <2>1, <2>2 DEF SpreadsTo
  <2> QED
    BY <2>1, <2>3, <2>4
<1>4. Spreads(g, n, all)
  <2>1. all = [k \in Nat |-> all[k]]
    OBVIOUS
  <2>2. \A k \in Nat : all[k] = IF k = 0 THEN {n} ELSE Onward(g, all[k - 1])
    BY <1>2, <1>3
  <2> HIDE DEF all
  <2> QED
    BY <2>1, <2>2 DEF Spreads
<1> QED
  BY <1>4

\* What is reached contains the node, grows to a set of nodes that is closed, and stays
\* in every closed set with the node.
LEMMA SpreadsGrow ==
  ASSUME NEW g, GoodGraph(g), NEW n \in g.nodes, NEW it, Spreads(g, n, it), NEW k \in Nat
  PROVE  /\ n \in it[k] /\ it[k] \subseteq g.nodes
         /\ Closed(g, it[k]) \/ Cardinality(it[k]) > k
         /\ \A c : n \in c /\ Closed(g, c) => it[k] \subseteq c
<1> DEFINE Fine(j) == /\ n \in it[j] /\ it[j] \subseteq g.nodes
                      /\ Closed(g, it[j]) \/ Cardinality(it[j]) > j
                      /\ \A c : n \in c /\ Closed(g, c) => it[j] \subseteq c
           bad == {j \in Nat : ~ Fine(j)}
<1>1. it[0] = {n} /\ \A j \in Nat : j # 0 => it[j] = Onward(g, it[j - 1])
  BY DEF Spreads
<1>2. Cardinality({n}) = 1
  BY FS_Singleton
<1>3. Fine(0)
  BY <1>1, <1>2
<1>4. ASSUME NEW j \in Nat, j # 0, Fine(j - 1) PROVE Fine(j)
  <2> DEFINE s == it[j - 1]
  <2>1. it[j] = Onward(g, s) /\ s \subseteq g.nodes /\ n \in s
    BY <1>1, <1>4
  <2>2. it[j] \subseteq g.nodes /\ s \subseteq it[j] /\ n \in it[j]
    BY <2>1 DEF GoodGraph, Forward, Onward
  <2>3. ASSUME NEW c, n \in c, Closed(g, c) PROVE it[j] \subseteq c
    <3>1. s \subseteq c
      BY <1>4, <2>3
    <3> QED
      BY <2>1, <2>3, <3>1 DEF Onward, Closed
  <2>4. CASE Closed(g, s)
    <3>1. it[j] = s
      BY <2>1, <2>4 DEF Onward, Closed
    <3> QED
      BY <2>2, <2>3, <2>4, <3>1
  <2>5. CASE ~ Closed(g, s)
    <3>1. PICK e \in Forward(g) : e.from \in s /\ e.to \notin s
      BY <2>5 DEF Closed
    <3>2. e.to \in it[j]
      BY <2>1, <3>1 DEF Onward
    <3>3. IsFiniteSet(it[j])
      BY <2>2, FS_Subset DEF GoodGraph
    <3>4. Cardinality(s) > j - 1
      BY <1>4, <2>5
    <3>5. IsFiniteSet(s) /\ s \subseteq it[j] /\ s # it[j]
      BY <2>2, <3>1, <3>2, <3>3, FS_Subset
    <3>6. /\ Cardinality(s) <= Cardinality(it[j])
          /\ Cardinality(it[j]) # Cardinality(s)
      BY <3>3, <3>5, FS_Subset
    <3>7. Cardinality(s) \in Nat /\ Cardinality(it[j]) \in Nat
      BY <3>3, <3>5, FS_CardinalityType
    <3>8. Cardinality(it[j]) > j
      BY <3>4, <3>6, <3>7
    <3> QED
      BY <2>2, <2>3, <3>8
  <2> QED
    BY <2>4, <2>5
<1> SUFFICES ASSUME bad # {} PROVE FALSE
  OBVIOUS
<1>5. PICK j \in bad : \A i \in bad : j <= i
  <2>1. bad \in SUBSET Nat
    OBVIOUS
  <2> HIDE DEF bad
  <2> QED
    BY <2>1, LeastNumber
<1>6. j \in Nat /\ ~ Fine(j) /\ j # 0
  BY <1>3
<1>7. j - 1 \in Nat /\ ~ (j <= j - 1)
  BY <1>6
<1>8. j - 1 \notin bad
  BY <1>5, <1>7
<1>9. Fine(j - 1)
  BY <1>7, <1>8
<1> HIDE DEF Fine
<1> QED
  BY <1>4, <1>6, <1>9

LEMMA BelowIsLeast ==
  ASSUME NEW g, GoodGraph(g), NEW n \in g.nodes
  PROVE  /\ n \in Below(g, n) /\ Below(g, n) \subseteq g.nodes
         /\ Closed(g, Below(g, n))
         /\ \A c : n \in c /\ Closed(g, c) => Below(g, n) \subseteq c
<1> DEFINE it == CHOOSE f : Spreads(g, n, f)
           k == Cardinality(g.nodes)
<1>1. Spreads(g, n, it)
  BY SpreadsIs
<1>2. Below(g, n) = it[k]
  BY BelowIsSpread
<1>3. k \in Nat
  BY FS_CardinalityType DEF GoodGraph
<1> HIDE DEF it
<1>4. /\ n \in it[k] /\ it[k] \subseteq g.nodes
      /\ Closed(g, it[k]) \/ Cardinality(it[k]) > k
      /\ \A c : n \in c /\ Closed(g, c) => it[k] \subseteq c
  BY <1>1, <1>3, SpreadsGrow
<1>5. Cardinality(it[k]) <= k
  BY <1>4, FS_Subset DEF GoodGraph
<1>6. Cardinality(it[k]) \in Nat
  BY <1>4, FS_Subset, FS_CardinalityType DEF GoodGraph
<1>7. ~ (Cardinality(it[k]) > k)
  BY <1>3, <1>5, <1>6
<1> HIDE DEF k
<1> QED
  BY <1>2, <1>4, <1>7

\* A step below another is reached through a step below it.
LEMMA BelowHasWay ==
  ASSUME NEW g, GoodGraph(g), NEW n \in g.nodes, NEW m \in Below(g, n), m # n
  PROVE  \E e \in Forward(g) : e.to = m /\ e.from \in Below(g, n)
<1> DEFINE c == {n} \cup {e.to : e \in {f \in Forward(g) : f.from \in Below(g, n)}}
<1>1. n \in Below(g, n) /\ Closed(g, Below(g, n))
  BY BelowIsLeast
<1>2. Closed(g, c) /\ n \in c
  BY <1>1 DEF Closed
<1>3. m \in c
  <2> HIDE DEF c
  <2> QED
    BY <1>2, BelowIsLeast
<1> QED
  BY <1>3

LEMMA BelowGoesOn ==
  ASSUME NEW g, GoodGraph(g), NEW n \in g.nodes, NEW m \in Below(g, n)
  PROVE  Below(g, m) \subseteq Below(g, n)
<1>1. m \in g.nodes /\ Closed(g, Below(g, n))
  BY BelowIsLeast
<1> QED
  BY <1>1, BelowIsLeast

-----------------------------------------------------------------------------
(* What the results of a graph tell, for any results f and graph g: the    *)
(* operators of the model with the two as parameters.                      *)

DeliveringIn(g, f, n) == {e \in Forward(g) : e.to = n /\ f[e.from].port = e.port}
MissingIn(g, f, n) == \E i \in g.required[n] : \A e \in DeliveringIn(g, f, n) : e.input # i
ReadsIn(g, f, n) == {<<e.from, f[e.from].stamp>> : e \in DeliveringIn(g, f, n)}
Settled(g, f, n) == f[n] # NoResult \/ MissingIn(g, f, n)

\* The results follow from each other: there is a part of the graph, with the steps
\* the loop has passed, that is closed under predecessors and in which every step has
\* a result or lacks an input; no other step has a result, and a result was computed
\* from what its inputs hold.
Sound(g, f, past) ==
  \E s \in SUBSET g.nodes :
    /\ \A e \in Forward(g) : e.to \in s => e.from \in s
    /\ \A n \in s : Settled(g, f, n)
    /\ past \subseteq s
    /\ \A n \in g.nodes : f[n] # NoResult =>
         n \in s /\ f[n].reads = ReadsIn(g, f, n) /\ ~MissingIn(g, f, n)

LEMMA InputsAgree ==
  ASSUME NEW g, NEW f, NEW h, NEW n,
         \A e \in Forward(g) : e.to = n => f[e.from] = h[e.from]
  PROVE  /\ DeliveringIn(g, f, n) = DeliveringIn(g, h, n)
         /\ MissingIn(g, f, n) <=> MissingIn(g, h, n)
         /\ ReadsIn(g, f, n) = ReadsIn(g, h, n)
<1>1. DeliveringIn(g, f, n) = DeliveringIn(g, h, n)
  BY DEF DeliveringIn
<1>2. MissingIn(g, f, n) <=> MissingIn(g, h, n)
  BY <1>1 DEF MissingIn
<1>3. \A e \in DeliveringIn(g, f, n) : f[e.from] = h[e.from]
  BY DEF DeliveringIn
<1>4. ReadsIn(g, f, n) = ReadsIn(g, h, n)
  BY <1>1, <1>3 DEF ReadsIn
<1> QED
  BY <1>1, <1>2, <1>4

LEMMA SoundWhenPassed ==
  ASSUME NEW g, NEW f, NEW past, Sound(g, f, past), NEW n \in g.nodes,
         \A e \in Forward(g) : e.to = n => e.from \in past,
         Settled(g, f, n)
  PROVE  Sound(g, f, past \cup {n})
<1>1. PICK s \in SUBSET g.nodes :
        /\ \A e \in Forward(g) : e.to \in s => e.from \in s
        /\ \A m \in s : Settled(g, f, m)
        /\ past \subseteq s
        /\ \A m \in g.nodes : f[m] # NoResult =>
             m \in s /\ f[m].reads = ReadsIn(g, f, m) /\ ~MissingIn(g, f, m)
  BY DEF Sound
<1>2. s \cup {n} \in SUBSET g.nodes
  OBVIOUS
<1>3. /\ \A e \in Forward(g) : e.to \in s \cup {n} => e.from \in s \cup {n}
      /\ \A m \in s \cup {n} : Settled(g, f, m)
      /\ past \cup {n} \subseteq s \cup {n}
      /\ \A m \in g.nodes : f[m] # NoResult =>
           m \in s \cup {n} /\ f[m].reads = ReadsIn(g, f, m) /\ ~MissingIn(g, f, m)
  BY <1>1
<1> QED
  BY <1>2, <1>3 DEF Sound

LEMMA SoundWhenCompleted ==
  ASSUME NEW g, GoodGraph(g), NEW f, f = [m \in g.nodes |-> f[m]],
         NEW past, Sound(g, f, past), NEW n \in g.nodes,
         \A e \in Forward(g) : e.to = n => e.from \in past,
         f[n] = NoResult, ~ MissingIn(g, f, n),
         NEW r, r # NoResult, r.reads = ReadsIn(g, f, n)
  PROVE  Sound(g, [f EXCEPT ![n] = r], past \cup {n})
<1> DEFINE h == [f EXCEPT ![n] = r]
<1>1. PICK s \in SUBSET g.nodes :
        /\ \A e \in Forward(g) : e.to \in s => e.from \in s
        /\ \A m \in s : Settled(g, f, m)
        /\ past \subseteq s
        /\ \A m \in g.nodes : f[m] # NoResult =>
             m \in s /\ f[m].reads = ReadsIn(g, f, m) /\ ~MissingIn(g, f, m)
  BY DEF Sound
<1>2. n \notin s
  BY <1>1 DEF Settled
<1>3. \A e \in Forward(g) : e.from \in g.nodes
  BY DEF GoodGraph, Forward
<1>4. h[n] = r /\ \A m \in g.nodes : m # n => h[m] = f[m]
  OBVIOUS
<1> HIDE DEF h
<1>5. \A m \in s \cup {n} : \A e \in Forward(g) : e.to = m => f[e.from] = h[e.from]
  BY <1>1, <1>2, <1>3, <1>4
<1>6. \A m \in s \cup {n} : /\ MissingIn(g, f, m) <=> MissingIn(g, h, m)
                           /\ ReadsIn(g, f, m) = ReadsIn(g, h, m)
  BY <1>5, InputsAgree
<1>7. \A m \in s \cup {n} : Settled(g, h, m)
  BY <1>1, <1>2, <1>4, <1>6 DEF Settled
<1>8. \A m \in g.nodes : h[m] # NoResult =>
        m \in s \cup {n} /\ h[m].reads = ReadsIn(g, h, m) /\ ~MissingIn(g, h, m)
  BY <1>1, <1>4, <1>6
<1>9. /\ \A e \in Forward(g) : e.to \in s \cup {n} => e.from \in s \cup {n}
      /\ past \cup {n} \subseteq s \cup {n} /\ s \cup {n} \in SUBSET g.nodes
  BY <1>1
<1>10. Sound(g, h, past \cup {n})
  BY <1>7, <1>8, <1>9 DEF Sound
<1> QED
  BY <1>10 DEF h

\* What is not below the gate keeps its inputs when the loop starts over.
Without(g, f, gate) == [n \in g.nodes |-> IF n \in Below(g, gate) THEN NoResult ELSE f[n]]

LEMMA OutsideKeepsInputs ==
  ASSUME NEW g, GoodGraph(g), NEW f, NEW gate \in g.nodes, NEW n,
         n \notin Below(g, gate)
  PROVE  /\ MissingIn(g, f, n) <=> MissingIn(g, Without(g, f, gate), n)
         /\ ReadsIn(g, f, n) = ReadsIn(g, Without(g, f, gate), n)
<1>1. Closed(g, Below(g, gate))
  BY BelowIsLeast
<1>2. \A e \in Forward(g) : e.to = n => f[e.from] = Without(g, f, gate)[e.from]
  BY <1>1 DEF Closed, Without, GoodGraph, Forward
<1> QED
  BY <1>2, InputsAgree

LEMMA SoundWhenTurned ==
  ASSUME NEW g, GoodGraph(g), NEW f, NEW past, Sound(g, f, past), g.nodes \subseteq past,
         NEW gate \in g.nodes
  PROVE  /\ Sound(g, Without(g, f, gate), {})
         /\ \A n \in g.nodes \ Below(g, gate) : Settled(g, Without(g, f, gate), n)
<1> DEFINE h == Without(g, f, gate)
           s == g.nodes \ Below(g, gate)
<1>1. /\ \A n \in g.nodes : Settled(g, f, n)
      /\ \A n \in g.nodes : f[n] # NoResult =>
           f[n].reads = ReadsIn(g, f, n) /\ ~MissingIn(g, f, n)
  BY DEF Sound
<1>2. \A n \in s : h[n] = f[n]
  BY DEF Without
<1>3. \A n \in g.nodes : h[n] # NoResult => n \in s
  BY DEF Without
<1>4. \A n \in s : /\ MissingIn(g, f, n) <=> MissingIn(g, h, n)
                   /\ ReadsIn(g, f, n) = ReadsIn(g, h, n)
  BY OutsideKeepsInputs
<1>5. \A e \in Forward(g) : e.to \in s => e.from \in s
  <2>1. Closed(g, Below(g, gate))
    BY BelowIsLeast
  <2> QED
    BY <2>1 DEF Closed, GoodGraph, Forward
<1> HIDE DEF h
<1>6. \A n \in s : Settled(g, h, n)
  BY <1>1, <1>2, <1>4 DEF Settled
<1>7. s \in SUBSET g.nodes
  OBVIOUS
<1> HIDE DEF s
<1>8. \A n \in g.nodes : h[n] # NoResult =>
        n \in s /\ h[n].reads = ReadsIn(g, h, n) /\ ~MissingIn(g, h, n)
  BY <1>1, <1>2, <1>3, <1>4
<1>9. Sound(g, h, {})
  BY <1>5, <1>6, <1>7, <1>8 DEF Sound
<1> QED
  BY <1>6, <1>9 DEF h, s

LEMMA SoundWithLessPast ==
  ASSUME NEW g, NEW f, NEW past, Sound(g, f, past)
  PROVE  Sound(g, f, {})
BY DEF Sound

LEMMA SoundWhenEmpty ==
  ASSUME NEW g, NEW f, \A n \in g.nodes : f[n] = NoResult
  PROVE  Sound(g, f, {})
<1>1. {} \in SUBSET g.nodes
  OBVIOUS
<1> QED
  BY <1>1 DEF Sound

-----------------------------------------------------------------------------
(* The passes that saved results carry.                                    *)

EpochsFrom(from) ==
  [h \in UNION {DOMAIN p : p \in from} |->
     CHOOSE k \in {p[h] : p \in {q \in from : h \in DOMAIN q}} :
        \A p \in from : h \in DOMAIN p => p[h] <= k]
EpochsIn(g, f, n) == EpochsFrom({f[e.from].epochs : e \in DeliveringIn(g, f, n)})

\* A step inherits the passes of the results it reads: each value is that of one of them.
LEMMA InheritsFromOne ==
  ASSUME NEW g, GoodGraph(g), NEW f, NEW n,
         \A e \in DeliveringIn(g, f, n) : \A h \in DOMAIN f[e.from].epochs :
           f[e.from].epochs[h] \in Nat
  PROVE  /\ \A e \in DeliveringIn(g, f, n) :
              DOMAIN f[e.from].epochs \subseteq DOMAIN EpochsIn(g, f, n)
         /\ \A h \in DOMAIN EpochsIn(g, f, n) : \E e \in DeliveringIn(g, f, n) :
              /\ h \in DOMAIN f[e.from].epochs
              /\ EpochsIn(g, f, n)[h] = f[e.from].epochs[h]
<1> DEFINE es == DeliveringIn(g, f, n)
           from == {f[e.from].epochs : e \in es}
           all == EpochsFrom(from)
<1>1. DOMAIN all = UNION {DOMAIN p : p \in from}
  BY DEF EpochsFrom
<1>2. \A e \in es : DOMAIN f[e.from].epochs \subseteq DOMAIN all
  BY <1>1
<1>3. ASSUME NEW h \in DOMAIN all
      PROVE  \E e \in es : h \in DOMAIN f[e.from].epochs /\ all[h] = f[e.from].epochs[h]
  <2> DEFINE with == {e \in es : h \in DOMAIN f[e.from].epochs}
             ks == {f[e.from].epochs[h] : e \in with}
             value == [e \in with |-> f[e.from].epochs[h]]
  <2>1. ks = {p[h] : p \in {q \in from : h \in DOMAIN q}}
    OBVIOUS
  <2>2. IsFiniteSet(with)
    <3>1. with \subseteq g.edges
      BY DEF DeliveringIn, Forward
    <3> QED
      BY <3>1, FS_Subset DEF GoodGraph
  <2>3. value \in Surjection(with, ks)
    <3>1. value \in [with -> ks]
      OBVIOUS
    <3>2. \A k \in ks : \E e \in with : value[e] = k
      OBVIOUS
    <3> HIDE DEF value, ks, with
    <3> QED
      BY <3>1, <3>2 DEF Surjection
  <2>4. ks # {} /\ \A k \in ks : k \in Nat
    BY <1>1
  <2> HIDE DEF value
  <2>5. IsFiniteSet(ks)
    <3> HIDE DEF ks, with
    <3> QED
      BY <2>2, <2>3, FS_Surjection
  <2>6. Max(ks) \in ks /\ \A k \in ks : k <= Max(ks)
    <3> HIDE DEF ks
    <3> QED
      BY <2>4, <2>5, GreatestExists
  <2>7. \A p \in from : h \in DOMAIN p => p[h] <= Max(ks)
    <3>1. \A p \in from : h \in DOMAIN p => p[h] \in ks
      BY <2>1
    <3> QED
      BY <2>6, <3>1
  <2>8. all[h] = CHOOSE k \in ks : \A p \in from : h \in DOMAIN p => p[h] <= k
    <3>1. all[h] = CHOOSE k \in {p[h] : p \in {q \in from : h \in DOMAIN q}} :
                      \A p \in from : h \in DOMAIN p => p[h] <= k
      BY <1>1 DEF EpochsFrom
    <3> HIDE DEF all, ks, from
    <3> QED
      BY <2>1, <3>1
  <2>9. all[h] \in ks
    <3> HIDE DEF all, ks, from
    <3> QED
      BY <2>6, <2>7, <2>8
  <2>10. PICK e \in with : all[h] = f[e.from].epochs[h]
    <3> HIDE DEF all, with
    <3> QED
      BY <2>9
  <2> QED
    BY <2>10
<1> HIDE DEF all
<1> QED
  BY <1>2, <1>3 DEF all, EpochsIn

PassOf(f, h) == IF f[h] = NoResult THEN 0 ELSE f[h].epochs[h]
OldIn(f, r) == r # NoResult /\ \E h \in DOMAIN r.epochs : r.epochs[h] < PassOf(f, h)
KeptOf(g, f) == [n \in g.nodes |-> IF OldIn(f, f[n]) THEN NoResult ELSE f[n]]

\* In a tight graph a saved result carries the passes of exactly the gates above it,
\* none newer than the gate's own.
Marked(g, f) ==
  \A n \in g.nodes : f[n] # NoResult =>
    /\ \A h \in DOMAIN f[n].epochs :
         h \in g.gates /\ n \in Below(g, h) /\ f[n].epochs[h] \in Nat
           /\ f[n].epochs[h] <= PassOf(f, h)
    /\ \A h \in g.gates : n \in Below(g, h) => h \in DOMAIN f[n].epochs

LEMMA PassIsNumber ==
  ASSUME NEW g, GoodGraph(g), NEW f, Marked(g, f), NEW h \in g.gates
  PROVE  PassOf(f, h) \in Nat
<1>1. h \in g.nodes /\ h \in Below(g, h)
  BY BelowIsLeast DEF GoodGraph
<1> QED
  BY <1>1 DEF Marked, PassOf

\* What a step reads was kept, so that the passes it inherits are the saved ones.
LEMMA InheritsSavedPasses ==
  ASSUME NEW g, GoodGraph(g), LoopsAreTight(g), NEW saved, Marked(g, saved), NEW f,
         \A m \in g.nodes : f[m] # NoResult => f[m] = KeptOf(g, saved)[m],
         NEW n \in g.nodes, ~ MissingIn(g, f, n)
  PROVE  /\ \A h \in DOMAIN EpochsIn(g, f, n) :
              h \in g.gates /\ n \in Below(g, h) /\ EpochsIn(g, f, n)[h] = PassOf(saved, h)
         /\ \A h \in g.gates : n \in Below(g, h) /\ h # n => h \in DOMAIN EpochsIn(g, f, n)
<1> DEFINE es == DeliveringIn(g, f, n)
           epochs == EpochsIn(g, f, n)
<1>1. \A e \in es : /\ e \in Forward(g) /\ e.to = n /\ e.from \in g.nodes
                    /\ f[e.from] # NoResult
  BY DEF DeliveringIn, GoodGraph, NoResult, Forward
<1>2. \A e \in es : /\ saved[e.from] # NoResult /\ f[e.from] = saved[e.from]
                    /\ ~ OldIn(saved, saved[e.from])
  BY <1>1 DEF KeptOf
<1>3. ASSUME NEW e \in es, NEW h \in DOMAIN f[e.from].epochs
      PROVE  /\ h \in g.gates /\ n \in Below(g, h)
             /\ f[e.from].epochs[h] \in Nat /\ f[e.from].epochs[h] = PassOf(saved, h)
  <2>1. /\ e.from \in g.nodes /\ saved[e.from] # NoResult /\ f[e.from] = saved[e.from]
        /\ ~ OldIn(saved, saved[e.from])
    BY <1>1, <1>2
  <2>2. /\ h \in g.gates /\ e.from \in Below(g, h) /\ f[e.from].epochs[h] \in Nat
        /\ f[e.from].epochs[h] <= PassOf(saved, h)
    BY <2>1 DEF Marked
  <2>3. h \in g.nodes
    BY <2>2 DEF GoodGraph
  <2>4. n \in Below(g, h)
    BY <1>1, <2>2, <2>3, BelowIsLeast DEF Closed
  <2>5. PassOf(saved, h) \in Nat
    BY <2>2, PassIsNumber
  <2>6. ~ (f[e.from].epochs[h] < PassOf(saved, h))
    BY <2>1 DEF OldIn
  <2> QED
    BY <2>2, <2>4, <2>5, <2>6
<1>4. /\ \A e \in es : DOMAIN f[e.from].epochs \subseteq DOMAIN epochs
      /\ \A h \in DOMAIN epochs : \E e \in es :
           h \in DOMAIN f[e.from].epochs /\ epochs[h] = f[e.from].epochs[h]
  <2>1. \A e \in es : \A h \in DOMAIN f[e.from].epochs : f[e.from].epochs[h] \in Nat
    BY <1>3
  <2> QED
    BY <2>1, InheritsFromOne
<1>5. ASSUME NEW h \in g.gates, n \in Below(g, h), h # n
      PROVE  h \in DOMAIN epochs
  <2>1. PICK i \in g.required[n] :
          \A e \in Forward(g) : e.to = n /\ e.input = i => e.from \in Below(g, h)
    BY <1>5 DEF LoopsAreTight
  <2>2. PICK e \in es : e.input = i
    BY DEF MissingIn
  <2>3. e.from \in Below(g, h)
    BY <1>1, <2>1, <2>2
  <2>4. h \in DOMAIN f[e.from].epochs
    BY <1>1, <1>2, <2>3 DEF Marked
  <2> QED
    BY <1>4, <2>4
<1> HIDE DEF es, epochs
<1> QED
  BY <1>3, <1>4, <1>5 DEF epochs

\* The saved rows with the row r of a step n that read the results f, in the given pass
\* if it is a gate.
RowOf(g, saved, f, n, pass, r, rows) ==
  /\ rows = [saved EXCEPT ![n] = r]
  /\ GoodGraph(g) /\ LoopsAreTight(g)
  /\ Marked(g, saved) /\ saved = [m \in g.nodes |-> saved[m]]
  /\ \A m \in g.nodes : f[m] # NoResult => f[m] = KeptOf(g, saved)[m]
  /\ n \in g.nodes /\ ~ MissingIn(g, f, n)
  /\ pass \in Nat
  /\ n \in g.gates => PassOf(saved, n) <= pass
  /\ r # NoResult
  /\ r.epochs = IF n \in g.gates
                THEN [h \in DOMAIN EpochsIn(g, f, n) \cup {n} |->
                        IF h = n THEN pass ELSE EpochsIn(g, f, n)[h]]
                ELSE EpochsIn(g, f, n)

\* With the row of a completed step, the results kept are those kept before, except below
\* a gate that went on to its next pass.
LEMMA CompletedRow ==
  ASSUME NEW g, NEW saved, NEW f, NEW n, NEW pass, NEW r, NEW rows,
         RowOf(g, saved, f, n, pass, r, rows)
  PROVE  /\ Marked(g, rows)
         /\ \A h \in g.gates : PassOf(rows, h) = IF h = n THEN pass ELSE PassOf(saved, h)
         /\ KeptOf(g, rows)[n] = r
         /\ \A m \in g.nodes \ {n} :
              KeptOf(g, rows)[m] =
                IF n \in g.gates /\ PassOf(saved, n) < pass /\ m \in Below(g, n)
                THEN NoResult ELSE KeptOf(g, saved)[m]
<1> DEFINE epochs == EpochsIn(g, f, n)
<1>0. /\ GoodGraph(g) /\ LoopsAreTight(g)
      /\ Marked(g, saved) /\ n \in g.nodes
      /\ pass \in Nat /\ (n \in g.gates => PassOf(saved, n) <= pass)
  BY DEF RowOf
<1>1. /\ rows[n] = r
      /\ \A m \in g.nodes \ {n} : rows[m] = saved[m]
  BY DEF RowOf
<1> HIDE DEF epochs
<1>2. /\ \A h \in DOMAIN epochs :
           h \in g.gates /\ n \in Below(g, h) /\ epochs[h] = PassOf(saved, h)
      /\ \A h \in g.gates : n \in Below(g, h) /\ h # n => h \in DOMAIN epochs
  <2>1. /\ \A m \in g.nodes : f[m] # NoResult => f[m] = KeptOf(g, saved)[m]
        /\ ~ MissingIn(g, f, n)
    BY DEF RowOf
  <2> QED
    BY <1>0, <2>1, InheritsSavedPasses DEF epochs
<1>3. \A h \in g.gates : h \in g.nodes /\ PassOf(saved, h) \in Nat
  BY <1>0, PassIsNumber DEF GoodGraph
<1>4. n \in Below(g, n)
  BY <1>0, BelowIsLeast
<1>5. /\ \A h \in DOMAIN r.epochs : h \in g.gates /\ n \in Below(g, h)
      /\ \A h \in g.gates : n \in Below(g, h) => h \in DOMAIN r.epochs
      /\ \A h \in DOMAIN r.epochs :
           r.epochs[h] = IF h = n THEN pass ELSE PassOf(saved, h)
  <2>1. CASE n \in g.gates
    <3>1. r.epochs = [h \in DOMAIN epochs \cup {n} |-> IF h = n THEN pass ELSE epochs[h]]
      BY <2>1 DEF epochs, RowOf
    <3> QED
      BY <1>0, <1>2, <1>4, <2>1, <3>1
  <2>2. CASE n \notin g.gates
    <3>1. r.epochs = epochs
      BY <2>2 DEF epochs, RowOf
    <3> QED
      BY <1>2, <2>2, <3>1
  <2> QED
    BY <2>1, <2>2
<1>6. \A h \in g.gates : PassOf(rows, h) = IF h = n THEN pass ELSE PassOf(saved, h)
  <2> SUFFICES ASSUME NEW h \in g.gates
               PROVE  PassOf(rows, h) = IF h = n THEN pass ELSE PassOf(saved, h)
    OBVIOUS
  <2>1. CASE h = n
    <3>1. rows[h] = r /\ r # NoResult /\ r.epochs[h] = pass
      BY <1>1, <1>4, <1>5, <2>1 DEF RowOf
    <3> QED
      BY <2>1, <3>1 DEF PassOf
  <2>2. CASE h # n
    BY <1>1, <1>3, <2>2 DEF PassOf
  <2> QED
    BY <2>1, <2>2
<1>7. \A h \in g.gates : PassOf(saved, h) <= PassOf(rows, h)
  BY <1>0, <1>3, <1>6
<1>8. Marked(g, rows)
  <2> SUFFICES ASSUME NEW m \in g.nodes, rows[m] # NoResult
               PROVE  /\ \A h \in DOMAIN rows[m].epochs :
                           /\ h \in g.gates /\ m \in Below(g, h) /\ rows[m].epochs[h] \in Nat
                           /\ rows[m].epochs[h] <= PassOf(rows, h)
                      /\ \A h \in g.gates : m \in Below(g, h) => h \in DOMAIN rows[m].epochs
    BY DEF Marked
  <2>1. CASE m = n
    BY <1>0, <1>1, <1>3, <1>5, <1>6, <2>1
  <2>2. CASE m # n
    <3>1. rows[m] = saved[m]
      BY <1>1, <2>2
    <3>2. /\ \A h \in DOMAIN saved[m].epochs :
               /\ h \in g.gates /\ m \in Below(g, h) /\ saved[m].epochs[h] \in Nat
               /\ saved[m].epochs[h] <= PassOf(saved, h)
          /\ \A h \in g.gates : m \in Below(g, h) => h \in DOMAIN saved[m].epochs
      BY <1>0, <3>1 DEF Marked
    <3>3. \A h \in g.gates : PassOf(rows, h) \in Nat
      BY <1>0, <1>3, <1>6
    <3>4. \A h \in DOMAIN saved[m].epochs : saved[m].epochs[h] <= PassOf(rows, h)
      BY <1>3, <1>7, <3>2, <3>3
    <3> QED
      BY <3>1, <3>2, <3>4
  <2> QED
    BY <2>1, <2>2
<1>9. KeptOf(g, rows)[n] = r
  <2>1. \A h \in DOMAIN r.epochs : r.epochs[h] = PassOf(rows, h) /\ PassOf(rows, h) \in Nat
    BY <1>0, <1>3, <1>5, <1>6
  <2>2. ~ OldIn(rows, r)
    BY <2>1 DEF OldIn
  <2> QED
    BY <1>0, <1>1, <2>2 DEF KeptOf
<1>10. ASSUME NEW m \in g.nodes \ {n}
       PROVE  KeptOf(g, rows)[m] =
                IF n \in g.gates /\ PassOf(saved, n) < pass /\ m \in Below(g, n)
                THEN NoResult ELSE KeptOf(g, saved)[m]
  <2>1. rows[m] = saved[m]
    BY <1>1
  <2>2. CASE saved[m] = NoResult
    BY <2>1, <2>2 DEF KeptOf
  <2>3. CASE saved[m] # NoResult
    <3>1. /\ \A h \in DOMAIN saved[m].epochs :
               /\ h \in g.gates /\ m \in Below(g, h) /\ saved[m].epochs[h] \in Nat
               /\ saved[m].epochs[h] <= PassOf(saved, h)
          /\ \A h \in g.gates : m \in Below(g, h) => h \in DOMAIN saved[m].epochs
      BY <1>0, <2>3 DEF Marked
    <3>2. CASE n \in g.gates /\ PassOf(saved, n) < pass /\ m \in Below(g, n)
      <4>1. n \in DOMAIN saved[m].epochs /\ saved[m].epochs[n] \in Nat
            /\ saved[m].epochs[n] <= PassOf(saved, n)
        BY <3>1, <3>2
      <4>2. saved[m].epochs[n] < PassOf(rows, n)
        BY <1>0, <1>3, <1>6, <3>2, <4>1
      <4>3. OldIn(rows, saved[m])
        BY <2>3, <4>1, <4>2 DEF OldIn
      <4> QED
        BY <2>1, <3>2, <4>3 DEF KeptOf
    <3>3. CASE ~ (n \in g.gates /\ PassOf(saved, n) < pass /\ m \in Below(g, n))
      <4>1. \A h \in DOMAIN saved[m].epochs : PassOf(rows, h) = PassOf(saved, h)
        BY <1>0, <1>3, <1>6, <3>1, <3>3
      <4>2. OldIn(rows, saved[m]) <=> OldIn(saved, saved[m])
        BY <4>1 DEF OldIn
      <4> QED
        BY <2>1, <3>3, <4>2 DEF KeptOf
    <3> QED
      BY <3>2, <3>3
  <2> QED
    BY <2>2, <2>3
<1> QED
  BY <1>6, <1>8, <1>9, <1>10

\* A step below a gate has no result without the gate's.
Headed(g, f) ==
  \A h \in g.gates : \A n \in Below(g, h) : f[n] # NoResult => f[h] # NoResult

LEMMA HeadedWhenCompleted ==
  ASSUME NEW g, GoodGraph(g), LoopsAreTight(g), NEW f, f = [m \in g.nodes |-> f[m]],
         Headed(g, f), NEW n \in g.nodes, f[n] = NoResult, ~ MissingIn(g, f, n),
         NEW r, r # NoResult
  PROVE  Headed(g, [f EXCEPT ![n] = r])
<1> DEFINE k == [f EXCEPT ![n] = r]
<1>1. k[n] = r /\ \A m \in g.nodes : m # n => k[m] = f[m]
  OBVIOUS
<1> HIDE DEF k
<1> SUFFICES ASSUME NEW h \in g.gates, NEW m \in Below(g, h), k[m] # NoResult
             PROVE  k[h] # NoResult
  BY DEF Headed, k
<1>2. h \in g.nodes /\ m \in g.nodes
  BY BelowIsLeast DEF GoodGraph
<1>3. CASE h = n
  BY <1>1, <1>3
<1>4. CASE h # n /\ m # n
  BY <1>1, <1>2, <1>4 DEF Headed
<1>5. CASE h # n /\ m = n
  <2>1. PICK i \in g.required[n] :
          \A e \in Forward(g) : e.to = n /\ e.input = i => e.from \in Below(g, h)
    BY <1>5 DEF LoopsAreTight
  <2>2. PICK e \in DeliveringIn(g, f, n) : e.input = i
    BY DEF MissingIn
  <2>3. e.from \in Below(g, h) /\ f[e.from] # NoResult
    BY <2>1, <2>2 DEF DeliveringIn, GoodGraph, NoResult, Forward
  <2> QED
    BY <1>1, <1>2, <1>5, <2>3 DEF Headed
<1> QED
  BY <1>3, <1>4, <1>5

LEMMA HeadedWhenTurned ==
  ASSUME NEW g, GoodGraph(g), NEW f, Headed(g, f), NEW gate \in g.nodes
  PROVE  Headed(g, Without(g, f, gate))
<1> SUFFICES ASSUME NEW h \in g.gates, NEW n \in Below(g, h),
                    Without(g, f, gate)[n] # NoResult
             PROVE  Without(g, f, gate)[h] # NoResult
  BY DEF Headed
<1>1. h \in g.nodes /\ n \in g.nodes
  BY BelowIsLeast DEF GoodGraph
<1>2. n \notin Below(g, gate) /\ f[n] # NoResult
  BY <1>1 DEF Without
<1>3. h \notin Below(g, gate)
  BY <1>2, BelowGoesOn
<1>4. f[h] # NoResult
  BY <1>2 DEF Headed
<1> QED
  BY <1>1, <1>3, <1>4 DEF Without

-----------------------------------------------------------------------------
(* The execution.                                                          *)

StepRecord == [node : Nodes \cup {"none"}, attempt : Nat]

ExecTypeOK ==
  /\ workflow \in Workflows
  /\ execState \in {"stopped", "scanning", "done", "failed"}
  /\ results = [n \in Nodes |-> results[n]]
  /\ savedResults = [n \in Nodes |-> savedResults[n]]
  /\ passes = [g \in workflow.gates |-> passes[g]]
  /\ visited \subseteq Nodes
  /\ step \in StepRecord /\ (step.node = "none" => step = NoStep)
  /\ deaths \in Nat
  /\ execState = "scanning" => ValidGraph(workflow)
  /\ execState # "scanning" => step = NoStep

\* The step that runs was reached: it has its inputs and no result.
StepIsReady ==
  step # NoStep =>
    /\ step.node \in Nodes
    /\ results[step.node] = NoResult /\ ~ MissingIn(workflow, results, step.node)
    /\ \A e \in Forward(workflow) : e.to = step.node => e.from \in visited

\* The results of this process are those a restart would keep.
Kept == KeptOf(workflow, savedResults)
InStep ==
  /\ results = Kept
  /\ \A h \in workflow.gates : passes[h] = PassOf(savedResults, h)

\* Or the loop of a gate starts over: until the gate's next result is saved, a restart
\* would keep the results of the loop that this process has dropped.
Turning(gate) ==
  /\ results = Without(workflow, Kept, gate)
  /\ \A h \in workflow.gates :
       passes[h] = PassOf(savedResults, h) + (IF h = gate THEN 1 ELSE 0)
  /\ visited \cap Below(workflow, gate) = {}
  /\ \A n \in Nodes \ Below(workflow, gate) : Settled(workflow, results, n)
  /\ ~ MissingIn(workflow, results, gate)
  /\ step # NoStep => step.node = gate

KeptIsSound == Sound(workflow, Kept, {}) /\ Headed(workflow, Kept)

\* What restarts rely on.
RestartsAgree ==
  /\ Marked(workflow, savedResults)
  /\ execState = "stopped" => KeptIsSound
  /\ execState = "scanning" =>
       /\ Headed(workflow, results)
       /\ InStep \/ \E gate \in workflow.gates : Turning(gate) /\ KeptIsSound

Tight == ValidGraph(workflow) /\ LoopsAreTight(workflow)

ExecInv ==
  /\ ExecTypeOK
  /\ StepIsReady
  /\ execState = "scanning" /\ (Tight \/ deaths = 0) => Sound(workflow, results, visited)
  /\ execState = "stopped" /\ deaths = 0 => \A n \in Nodes : savedResults[n] = NoResult
  /\ Tight => RestartsAgree

LEMMA TheGraphIsGood ==
  ASSUME workflow \in Workflows
  PROVE  /\ GoodGraph(workflow) /\ "none" \notin Nodes
         /\ \A n \in Nodes : "none" \notin workflow.ports[n]
BY GraphAssumption DEF GoodGraph, Nodes

LEMMA ExecInitInv == ExecInit => ExecInv
<1> SUFFICES ASSUME ExecInit PROVE ExecInv
  OBVIOUS
<1>1. workflow \in Workflows /\ GoodGraph(workflow)
  BY TheGraphIsGood DEF ExecInit
<1>2. ExecTypeOK
  <2>1. step \in StepRecord /\ step = NoStep /\ execState = "stopped" /\ deaths \in Nat
    BY DEF ExecInit, NoStep, StepRecord
  <2>2. /\ results = [n \in Nodes |-> results[n]]
        /\ savedResults = [n \in Nodes |-> savedResults[n]]
        /\ passes = [g \in workflow.gates |-> passes[g]]
        /\ visited \subseteq Nodes
    BY DEF ExecInit
  <2> QED
    BY <1>1, <2>1, <2>2 DEF ExecTypeOK
<1>3. \A n \in Nodes : savedResults[n] = NoResult
  BY DEF ExecInit
<1>4. \A n \in Nodes : Kept[n] = NoResult
  BY <1>3 DEF Kept, KeptOf, Nodes
<1>5. Sound(workflow, Kept, {})
  BY <1>4, SoundWhenEmpty DEF Nodes
<1>6. Headed(workflow, Kept)
  <2>1. \A h \in workflow.gates : Below(workflow, h) \subseteq Nodes
    BY <1>1, BelowIsLeast DEF GoodGraph, Nodes
  <2> QED
    BY <1>4, <2>1 DEF Headed
<1>7. Marked(workflow, savedResults)
  BY <1>3 DEF Marked, Nodes
<1> QED
  BY <1>2, <1>3, <1>5, <1>6, <1>7
  DEF ExecInit, ExecInv, StepIsReady, RestartsAgree, KeptIsSound

\* The operators of the model are those above, for the results the process holds.
LEMMA OfResults ==
  /\ \A n : MissingInput(n) <=> MissingIn(workflow, results, n)
  /\ \A n : Reads(n) = ReadsIn(workflow, results, n)
  /\ \A n : Inherited(n) = EpochsIn(workflow, results, n)
  /\ \A h : SavedPass(h) = PassOf(savedResults, h)
  /\ \A r : Outdated(r) <=> OldIn(savedResults, r)
<1>1. \A n : Delivering(n) = DeliveringIn(workflow, results, n)
  BY DEF Delivering, DeliveringIn, Delivers
<1>2. \A n : MissingInput(n) <=> MissingIn(workflow, results, n)
  BY <1>1 DEF MissingInput, MissingIn
<1>3. \A n : Reads(n) = ReadsIn(workflow, results, n)
  BY <1>1 DEF Reads, ReadsIn
<1>4. ASSUME NEW n PROVE Inherited(n) = EpochsIn(workflow, results, n)
  <2>1. {results[e.from].epochs : e \in Delivering(n)}
          = {results[e.from].epochs : e \in DeliveringIn(workflow, results, n)}
    BY <1>1
  <2>2. Inherited(n) = EpochsFrom({results[e.from].epochs : e \in Delivering(n)})
    BY Zenon DEF Inherited, EpochsFrom
  <2> QED
    BY <2>1, <2>2 DEF EpochsIn
<1>5. \A h : SavedPass(h) = PassOf(savedResults, h)
  BY DEF SavedPass, PassOf
<1>6. \A r : Outdated(r) <=> OldIn(savedResults, r)
  BY <1>5 DEF Outdated, OldIn
<1> QED
  BY <1>2, <1>3, <1>4, <1>5, <1>6

LEMMA RunningStep ==
  ASSUME ExecInv, NEW n \in Nodes, step.node = n
  PROVE  /\ execState = "scanning" /\ ValidGraph(workflow) /\ GoodGraph(workflow)
         /\ step # NoStep /\ results[n] = NoResult
         /\ ~ MissingIn(workflow, results, n)
         /\ \A e \in Forward(workflow) : e.to = n => e.from \in visited
<1>1. workflow \in Workflows
  BY DEF ExecInv, ExecTypeOK
<1>2. GoodGraph(workflow) /\ n # "none"
  BY <1>1, TheGraphIsGood
<1>3. step # NoStep
  BY <1>2 DEF NoStep
<1> QED
  BY <1>2, <1>3, OfResults DEF ExecInv, ExecTypeOK, StepIsReady

\* The result of a completed step was computed from what its inputs hold, and the
\* steps behind it are untouched.
LEMMA CompletionIsSound ==
  ASSUME ExecInv, NEW n \in Nodes, step.node = n, NEW port, port # "none",
         Complete(n, port), Tight \/ deaths = 0
  PROVE  Sound(workflow, results', visited')
<1>1. /\ execState = "scanning" /\ GoodGraph(workflow)
      /\ results[n] = NoResult /\ ~ MissingIn(workflow, results, n)
      /\ \A e \in Forward(workflow) : e.to = n => e.from \in visited
  BY RunningStep
<1> DEFINE r == Result(n, port)
<1>2. r # NoResult /\ r.reads = ReadsIn(workflow, results, n)
  BY OfResults DEF Result, NoResult
<1>3. results' = [results EXCEPT ![n] = r] /\ visited' = visited \cup {n}
  BY DEF Complete
<1>4. Sound(workflow, results, visited) /\ results = [m \in workflow.nodes |-> results[m]]
  BY <1>1 DEF ExecInv, ExecTypeOK, Nodes
<1>5. n \in workflow.nodes
  BY DEF Nodes
<1> HIDE DEF r
<1>6. Sound(workflow, [results EXCEPT ![n] = r], visited \cup {n})
  BY <1>1, <1>2, <1>4, <1>5, SoundWhenCompleted
<1> QED
  BY <1>3, <1>6

\* A completed step brings this process back to what a restart would keep: if the loop
\* of a gate starts over, that step is the gate.
LEMMA CompletionIsKept ==
  ASSUME ExecInv, Tight, NEW n \in Nodes, step.node = n, NEW port, port # "none",
         Complete(n, port)
  PROVE  RestartsAgree'
<1> DEFINE g == workflow
           r == Result(n, port)
           pass == IF n \in g.gates THEN passes[n] ELSE 0
           turns == n \in g.gates /\ PassOf(savedResults, n) < pass
<1>1. /\ execState = "scanning" /\ GoodGraph(g) /\ step # NoStep
      /\ results[n] = NoResult /\ ~ MissingIn(g, results, n)
  BY RunningStep
<1>2. LoopsAreTight(g) /\ n \in g.nodes
  BY DEF Tight, Nodes
<1>3. /\ Marked(g, savedResults) /\ Headed(g, results)
      /\ InStep \/ \E gate \in g.gates : Turning(gate)
  BY <1>1 DEF ExecInv, RestartsAgree
<1>4. /\ results = [m \in g.nodes |-> results[m]]
      /\ savedResults = [m \in g.nodes |-> savedResults[m]]
  BY DEF ExecInv, ExecTypeOK, Nodes
<1>5. /\ results' = [results EXCEPT ![n] = r] /\ workflow' = workflow
      /\ savedResults' = [savedResults EXCEPT ![n] = r]
      /\ passes' = passes /\ execState' = execState
  BY DEF Complete
<1>6. r # NoResult
  BY DEF Result, NoResult
<1>7. r.epochs = IF n \in g.gates
                 THEN [h \in DOMAIN EpochsIn(g, results, n) \cup {n} |->
                         IF h = n THEN pass ELSE EpochsIn(g, results, n)[h]]
                 ELSE EpochsIn(g, results, n)
  <2>1. r.epochs = Epochs(n)
    BY DEF Result
  <2>2. Inherited(n) = EpochsIn(g, results, n)
    BY OfResults
  <2> QED
    BY <2>1, <2>2 DEF Epochs
<1>8. \A m \in g.nodes : results[m] # NoResult => results[m] = Kept[m]
  <2>1. CASE InStep
    BY <2>1 DEF InStep
  <2>2. CASE \E gate \in g.gates : Turning(gate)
    BY <2>2 DEF Turning, Without
  <2> QED
    BY <1>3, <2>1, <2>2
<1>9. /\ pass \in Nat
      /\ n \in g.gates => PassOf(savedResults, n) <= pass
      /\ n \in g.gates => PassOf(savedResults, n) \in Nat
  <2>1. CASE n \notin g.gates
    BY <2>1
  <2>2. CASE n \in g.gates
    <3>1. PassOf(savedResults, n) \in Nat
      BY <1>1, <1>3, <2>2, PassIsNumber
    <3>2. pass = PassOf(savedResults, n) \/ pass = PassOf(savedResults, n) + 1
                                        \/ pass = PassOf(savedResults, n) + 0
      BY <1>3, <2>2 DEF InStep, Turning
    <3> QED
      BY <3>1, <3>2
  <2> QED
    BY <2>1, <2>2
<1>10. /\ Marked(g, savedResults')
       /\ \A h \in g.gates :
            PassOf(savedResults', h) = IF h = n THEN pass ELSE PassOf(savedResults, h)
       /\ KeptOf(g, savedResults')[n] = r
       /\ \A m \in g.nodes \ {n} :
            KeptOf(g, savedResults')[m] =
              IF turns /\ m \in Below(g, n) THEN NoResult ELSE Kept[m]
  <2>1. \A m \in g.nodes : results[m] # NoResult => results[m] = KeptOf(g, savedResults)[m]
    BY <1>8 DEF Kept
  <2> HIDE DEF r, g, pass
  <2>2. /\ Marked(g, savedResults')
        /\ \A h \in g.gates :
             PassOf(savedResults', h) = IF h = n THEN pass ELSE PassOf(savedResults, h)
        /\ KeptOf(g, savedResults')[n] = r
        /\ \A m \in g.nodes \ {n} :
             KeptOf(g, savedResults')[m] =
               IF n \in g.gates /\ PassOf(savedResults, n) < pass /\ m \in Below(g, n)
               THEN NoResult ELSE KeptOf(g, savedResults)[m]
    <3>1. RowOf(g, savedResults, results, n, pass, r, savedResults')
      <4>1. GoodGraph(g) /\ LoopsAreTight(g) /\ Marked(g, savedResults)
        BY <1>1, <1>2, <1>3
      <4>2. savedResults = [m \in g.nodes |-> savedResults[m]]
        BY <1>4
      <4>3. n \in g.nodes /\ ~ MissingIn(g, results, n)
        BY <1>1, <1>2
      <4>4. pass \in Nat /\ (n \in g.gates => PassOf(savedResults, n) <= pass)
        BY <1>9
      <4> QED
        BY <1>5, <1>6, <1>7, <2>1, <4>1, <4>2, <4>3, <4>4, Zenon DEF RowOf
    <3> QED
      BY <3>1, CompletedRow
  <2> QED
    BY <2>2 DEF Kept, g
<1>11. Headed(g, results')
  <2> HIDE DEF r, g
  <2> QED
    BY <1>1, <1>2, <1>3, <1>4, <1>5, <1>6, HeadedWhenCompleted
<1>12. Below(g, n) \subseteq g.nodes /\ n \in Below(g, n)
  BY <1>1, <1>2, BelowIsLeast
<1>13. InStep'
  <2>1. Kept' = [m \in g.nodes |-> Kept'[m]] /\ Kept' = KeptOf(g, savedResults')
    BY <1>5 DEF Kept, KeptOf
  <2>2. results' = [m \in g.nodes |-> results'[m]] /\ results'[n] = r
        /\ \A m \in g.nodes \ {n} : results'[m] = results[m]
    BY <1>2, <1>4, <1>5
  <2>3. CASE InStep
    <3>1. results = Kept /\ \A h \in g.gates : passes[h] = PassOf(savedResults, h)
      BY <2>3 DEF InStep
    <3>2. ~ turns
      BY <1>9, <3>1
    <3>3. \A m \in g.nodes : results'[m] = Kept'[m]
      BY <1>10, <2>1, <2>2, <3>1, <3>2
    <3>4. \A h \in g.gates : passes'[h] = PassOf(savedResults', h)
      BY <1>5, <1>10, <3>1
    <3> QED
      BY <1>5, <2>1, <2>2, <3>3, <3>4 DEF InStep
  <2>4. CASE \E gate \in g.gates : Turning(gate)
    <3>1. PICK gate \in g.gates : Turning(gate)
      BY <2>4
    <3>2. gate = n
      BY <1>1, <3>1 DEF Turning
    <3>3. /\ results = Without(g, Kept, n)
          /\ \A h \in g.gates :
               passes[h] = PassOf(savedResults, h) + (IF h = n THEN 1 ELSE 0)
      BY <3>1, <3>2 DEF Turning
    <3>4. turns
      BY <1>9, <3>1, <3>2, <3>3
    <3>5. \A m \in g.nodes \ {n} : results'[m] = Kept'[m]
      BY <1>10, <2>1, <2>2, <3>3, <3>4 DEF Without
    <3>6. results'[n] = Kept'[n]
      BY <1>10, <2>1, <2>2
    <3>7. \A h \in g.gates : PassOf(savedResults, h) \in Nat
      BY <1>1, <1>3, PassIsNumber
    <3>8. \A h \in g.gates : passes'[h] = PassOf(savedResults', h)
      <4>1. n \in g.gates /\ pass = passes[n] /\ passes' = passes
        BY <1>5, <3>1, <3>2
      <4>2. \A h \in g.gates : h # n => passes[h] = PassOf(savedResults, h)
        BY <3>3, <3>7
      <4>3. \A h \in g.gates :
              PassOf(savedResults', h) = IF h = n THEN pass ELSE PassOf(savedResults, h)
        BY <1>10
      <4> HIDE DEF pass
      <4> QED
        BY <4>1, <4>2, <4>3
    <3> QED
      BY <1>5, <2>1, <2>2, <3>5, <3>6, <3>8 DEF InStep
  <2> QED
    BY <1>3, <2>3, <2>4
<1> QED
  BY <1>1, <1>5, <1>10, <1>11, <1>13 DEF RestartsAgree

\* Steps that keep the graph keep what only it decides.
LEMMA CompleteStep ==
  ASSUME ExecInv, NEW n \in Nodes, step.node = n, NEW port, port # "none", Complete(n, port)
  PROVE  ExecInv'
<1>1. /\ execState = "scanning" /\ ValidGraph(workflow)
      /\ workflow \in Workflows /\ deaths \in Nat /\ visited \subseteq Nodes
      /\ results = [m \in Nodes |-> results[m]]
      /\ savedResults = [m \in Nodes |-> savedResults[m]]
      /\ passes = [g \in workflow.gates |-> passes[g]]
  BY RunningStep DEF ExecInv, ExecTypeOK
<1>2. /\ workflow' = workflow /\ execState' = execState /\ deaths' = deaths
      /\ passes' = passes /\ step' = NoStep /\ visited' = visited \cup {n}
      /\ results' = [results EXCEPT ![n] = Result(n, port)]
      /\ savedResults' = [savedResults EXCEPT ![n] = Result(n, port)]
  BY DEF Complete
<1>3. Nodes' = Nodes /\ (Tight' <=> Tight)
  BY <1>2 DEF Nodes, Tight
<1>4. results' = [m \in Nodes |-> results'[m]] /\ savedResults' = [m \in Nodes |-> savedResults'[m]]
  BY <1>1, <1>2
<1>5. ExecTypeOK'
  <2>1. step' \in StepRecord' /\ step' = NoStep
    BY <1>2 DEF StepRecord, NoStep
  <2> QED
    BY <1>1, <1>2, <1>3, <1>4, <2>1 DEF ExecTypeOK
<1>6. Tight \/ deaths = 0 => Sound(workflow, results', visited')
  BY CompletionIsSound
<1>7. Tight => RestartsAgree'
  BY CompletionIsKept
<1> QED
  BY <1>1, <1>2, <1>3, <1>5, <1>6, <1>7 DEF ExecInv, StepIsReady

\* A run that ends keeps its rows.
LEMMA EndStep ==
  ASSUME ExecInv, execState = "scanning", execState' \in {"done", "failed"},
         UNCHANGED <<workflow, results, savedResults, passes, visited, deaths>>,
         step' = NoStep
  PROVE  ExecInv'
<1>1. Nodes' = Nodes /\ (Tight' <=> Tight)
  BY DEF Nodes, Tight
<1>2. ExecTypeOK'
  <2>1. step' \in StepRecord' /\ step' = NoStep
    BY DEF StepRecord, NoStep
  <2> QED
    BY <1>1, <2>1 DEF ExecInv, ExecTypeOK
<1>3. Tight => RestartsAgree'
  BY DEF ExecInv, RestartsAgree
<1> QED
  BY <1>1, <1>2, <1>3 DEF ExecInv, StepIsReady

\* A step that only moves on within the pass.
LEMMA MoveStep ==
  ASSUME ExecInv, execState = "scanning",
         UNCHANGED <<workflow, execState, results, savedResults, passes, deaths>>,
         visited \subseteq visited', visited' \subseteq Nodes,
         step' \in StepRecord, step'.node = "none" => step' = NoStep,
         step' # NoStep => /\ step'.node \in Nodes
                           /\ results[step'.node] = NoResult
                           /\ ~ MissingIn(workflow, results, step'.node)
                           /\ \A e \in Forward(workflow) :
                                e.to = step'.node => e.from \in visited,
         Tight \/ deaths = 0 => Sound(workflow, results, visited'),
         \A gate \in workflow.gates : Turning(gate) =>
           /\ visited' \cap Below(workflow, gate) = {}
           /\ step' # NoStep => step'.node = gate
  PROVE  ExecInv'
<1>1. /\ Nodes' = Nodes /\ (Tight' <=> Tight) /\ StepRecord' = StepRecord
      /\ Kept' = Kept
  BY DEF Nodes, Tight, StepRecord, Kept
<1>2. ExecTypeOK'
  BY <1>1 DEF ExecInv, ExecTypeOK
<1>3. StepIsReady'
  BY <1>1 DEF StepIsReady
<1>4. Tight => RestartsAgree'
  <2> SUFFICES ASSUME Tight PROVE RestartsAgree'
    OBVIOUS
  <2>1. /\ Marked(workflow, savedResults) /\ Headed(workflow, results)
        /\ InStep \/ \E gate \in workflow.gates : Turning(gate) /\ KeptIsSound
    BY DEF ExecInv, RestartsAgree
  <2>2. InStep => InStep'
    BY <1>1 DEF InStep
  <2>3. KeptIsSound => KeptIsSound'
    BY <1>1 DEF KeptIsSound
  <2>4. \A gate \in workflow.gates : Turning(gate) => Turning(gate)'
    BY <1>1 DEF Turning
  <2> QED
    BY <2>1, <2>2, <2>3, <2>4 DEF RestartsAgree
<1> QED
  BY <1>1, <1>2, <1>3, <1>4 DEF ExecInv

\* Where a loop starts over, the loop reaches nothing below the gate before the gate.
LEMMA OnlyTheGateIsReached ==
  ASSUME ExecInv, NEW gate \in workflow.gates, Turning(gate), NEW n \in Nodes, Reached(n),
         n \in Below(workflow, gate)
  PROVE  n = gate /\ results[n] = NoResult /\ ~ MissingInput(n)
<1>1. GoodGraph(workflow)
  BY TheGraphIsGood DEF ExecInv, ExecTypeOK
<1>2. gate \in workflow.nodes
  BY <1>1 DEF GoodGraph
<1>3. n = gate
  <2> SUFFICES ASSUME n # gate PROVE FALSE
    OBVIOUS
  <2>1. PICK e \in Forward(workflow) : e.to = n /\ e.from \in Below(workflow, gate)
    BY <1>1, <1>2, BelowHasWay
  <2> QED
    BY <2>1 DEF Turning, Reached
<1> QED
  BY <1>2, <1>3, OfResults DEF Turning, Without, Nodes

LEMMA PassOverStep ==
  ASSUME ExecInv, NEW n \in Nodes, PassOver(n)
  PROVE  ExecInv'
<1>1. /\ UNCHANGED <<workflow, execState, results, savedResults, passes, deaths, step>>
      /\ execState = "scanning" /\ step = NoStep /\ step' = NoStep
      /\ visited' = visited \cup {n}
  BY DEF PassOver, Reached
<1>2. step' \in StepRecord
  BY <1>1 DEF ExecInv, ExecTypeOK
<1>3. visited \subseteq visited' /\ visited' \subseteq Nodes
  BY <1>1 DEF ExecInv, ExecTypeOK
<1>4. Tight \/ deaths = 0 => Sound(workflow, results, visited')
  <2> SUFFICES ASSUME Tight \/ deaths = 0 PROVE Sound(workflow, results, visited')
    OBVIOUS
  <2>1. Sound(workflow, results, visited) /\ n \in workflow.nodes
    BY <1>1 DEF ExecInv, Nodes
  <2>2. \A e \in Forward(workflow) : e.to = n => e.from \in visited
    BY DEF PassOver, Reached
  <2>3. Settled(workflow, results, n)
    BY OfResults DEF PassOver, Settled
  <2>4. Sound(workflow, results, visited \cup {n})
    BY <2>1, <2>2, <2>3, SoundWhenPassed
  <2> QED
    BY <1>1, <2>4
<1>5. \A gate \in workflow.gates : Turning(gate) => visited' \cap Below(workflow, gate) = {}
  <2> SUFFICES ASSUME NEW gate \in workflow.gates, Turning(gate)
               PROVE  n \notin Below(workflow, gate)
    BY <1>1 DEF Turning
  <2> QED
    BY OnlyTheGateIsReached DEF PassOver
<1> QED
  BY <1>1, <1>2, <1>3, <1>4, <1>5, MoveStep

LEMMA StartedStep ==
  ASSUME ExecInv, NEW n \in Nodes, StartStep(n)
  PROVE  ExecInv'
<1>1. /\ UNCHANGED <<workflow, results, savedResults, passes, deaths, visited>>
      /\ execState = "scanning" /\ step = NoStep /\ Reached(n)
      /\ results[n] = NoResult /\ ~ MissingIn(workflow, results, n)
  BY OfResults DEF StartStep, Reached
<1>2. CASE execState' = "failed" /\ step' = step
  BY <1>1, <1>2, EndStep
<1>3. CASE execState' = execState /\ step' = [node |-> n, attempt |-> 1]
  <2>1. step' \in StepRecord /\ step'.node = n
    BY <1>3 DEF StepRecord
  <2>2. n # "none"
    BY TheGraphIsGood DEF ExecInv, ExecTypeOK
  <2>3. \A e \in Forward(workflow) : e.to = n => e.from \in visited
    BY <1>1 DEF Reached
  <2>4. visited \subseteq visited' /\ visited' \subseteq Nodes
    BY <1>1 DEF ExecInv, ExecTypeOK
  <2>5. Tight \/ deaths = 0 => Sound(workflow, results, visited')
    BY <1>1 DEF ExecInv
  <2>6. \A gate \in workflow.gates : Turning(gate) =>
          visited' \cap Below(workflow, gate) = {} /\ n = gate
    <3> SUFFICES ASSUME NEW gate \in workflow.gates, Turning(gate) PROVE n = gate
      BY <1>1 DEF Turning
    <3>1. n \in Below(workflow, gate)
      <4> SUFFICES ASSUME n \notin Below(workflow, gate) PROVE FALSE
        OBVIOUS
      <4>1. Settled(workflow, results, n)
        BY DEF Turning
      <4> QED
        BY <1>1, <4>1, OfResults DEF Settled
    <3> QED
      BY <1>1, <3>1, OnlyTheGateIsReached
  <2> QED
    BY <1>1, <1>3, <2>1, <2>2, <2>3, <2>4, <2>5, <2>6, MoveStep
<1> QED
  BY <1>2, <1>3 DEF StartStep

\* A worker takes the run: it holds what was kept, in the saved passes.
LEMMA ExecuteStep ==
  ASSUME ExecInv, Execute
  PROVE  ExecInv'
<1>1. /\ UNCHANGED <<workflow, savedResults, step, deaths>> /\ visited' = {}
      /\ execState = "stopped" /\ step = NoStep
  BY DEF Execute, ExecInv, ExecTypeOK
<1>2. /\ Nodes' = Nodes /\ (Tight' <=> Tight) /\ StepRecord' = StepRecord
  BY <1>1 DEF Nodes, Tight, StepRecord
<1>3. CASE ~ ValidGraph(workflow)
  <2>1. execState' = "failed" /\ UNCHANGED <<passes, results>>
    BY <1>3 DEF Execute
  <2>2. ExecTypeOK'
    BY <1>1, <1>2, <2>1 DEF ExecInv, ExecTypeOK
  <2>3. ~ Tight
    BY <1>3 DEF Tight
  <2> QED
    BY <1>1, <1>2, <2>1, <2>2, <2>3 DEF ExecInv, StepIsReady
<1>4. CASE ValidGraph(workflow)
  <2>1. /\ execState' = "scanning"
        /\ passes' = [g \in workflow.gates |-> SavedPass(g)]
        /\ results' = [n \in Nodes |->
             IF Outdated(savedResults[n]) THEN NoResult ELSE savedResults[n]]
    BY <1>4 DEF Execute
  <2>2. results' = Kept /\ Kept' = Kept
    BY <1>1, <2>1, OfResults DEF Kept, KeptOf, Nodes
  <2>3. \A h \in workflow.gates : passes'[h] = PassOf(savedResults, h)
    BY <2>1, OfResults
  <2>4. ExecTypeOK'
    <3>1. /\ passes' = [g \in workflow.gates |-> passes'[g]]
          /\ results' = [n \in Nodes |-> results'[n]]
      BY <2>1
    <3> QED
      BY <1>1, <1>2, <1>4, <2>1, <3>1 DEF ExecInv, ExecTypeOK
  <2>5. Tight => RestartsAgree' /\ Sound(workflow, results', {})
    <3> SUFFICES ASSUME Tight PROVE RestartsAgree' /\ Sound(workflow, results', {})
      OBVIOUS
    <3>1. Marked(workflow, savedResults) /\ KeptIsSound
      BY <1>1 DEF ExecInv, RestartsAgree
    <3>2. InStep'
      BY <1>1, <2>2, <2>3 DEF InStep
    <3> QED
      BY <1>1, <2>1, <2>2, <3>1, <3>2 DEF RestartsAgree, KeptIsSound
  <2>6. deaths = 0 => Sound(workflow, results', {})
    <3> SUFFICES ASSUME deaths = 0 PROVE Sound(workflow, results', {})
      OBVIOUS
    <3>1. \A n \in workflow.nodes : results'[n] = NoResult
      BY <1>1, <2>1 DEF ExecInv, Nodes
    <3> QED
      BY <3>1, SoundWhenEmpty
  <2> QED
    BY <1>1, <1>2, <2>1, <2>4, <2>5, <2>6 DEF ExecInv, StepIsReady
<1> QED
  BY <1>3, <1>4

\* The corrected value returns: the process drops the loop, a restart would not yet.
LEMMA RetryStep ==
  ASSUME ExecInv, RetryPass
  PROVE  ExecInv'
<1> DEFINE g == workflow
<1>1. PICK e \in PendingRetries :
        /\ passes' = [passes EXCEPT ![e.to] = @ + 1]
        /\ results' = [n \in Nodes |->
             IF n \in Below(workflow, e.to) THEN NoResult ELSE results[n]]
  BY DEF RetryPass
<1> DEFINE gate == e.to
<1>2. /\ UNCHANGED <<workflow, execState, savedResults, step, deaths>>
      /\ visited' = {} /\ execState = "scanning" /\ step = NoStep /\ visited = Nodes
  BY DEF RetryPass, PassEnded
<1>3. /\ GoodGraph(g) /\ ValidGraph(g)
      /\ results = [n \in Nodes |-> results[n]]
      /\ passes = [h \in g.gates |-> passes[h]]
  BY <1>2, TheGraphIsGood DEF ExecInv, ExecTypeOK
<1>4. e \in g.edges /\ e.role = "retry" /\ results[e.from] # NoResult /\ e.port # "none"
  BY <1>3 DEF PendingRetries, Delivers, NoResult, GoodGraph
<1>5. gate \in g.gates /\ gate \in g.nodes /\ e.from \in Below(g, gate)
  BY <1>3, <1>4 DEF ValidGraph, RetryRoutesAreSafe, GoodGraph
<1>6. results' = Without(g, results, gate)
  BY <1>1 DEF Without, Nodes
<1>7. /\ Nodes' = Nodes /\ (Tight' <=> Tight) /\ StepRecord' = StepRecord /\ Kept' = Kept
  BY <1>2 DEF Nodes, Tight, StepRecord, Kept
<1>8. ExecTypeOK'
  <2>1. /\ passes' = [h \in g.gates |-> passes'[h]]
        /\ results' = [n \in Nodes |-> results'[n]]
    BY <1>1, <1>3
  <2> QED
    BY <1>2, <1>7, <2>1 DEF ExecInv, ExecTypeOK
<1>9. Tight \/ deaths = 0 =>
        /\ Sound(g, results', {})
        /\ \A n \in g.nodes \ Below(g, gate) : Settled(g, results', n)
  <2> SUFFICES ASSUME Tight \/ deaths = 0
               PROVE  /\ Sound(g, results', {})
                      /\ \A n \in g.nodes \ Below(g, gate) : Settled(g, results', n)
    OBVIOUS
  <2>1. Sound(g, results, visited) /\ g.nodes \subseteq visited
    BY <1>2 DEF ExecInv, Nodes
  <2> HIDE DEF g, gate
  <2> QED
    BY <1>3, <1>5, <1>6, <2>1, SoundWhenTurned
<1>10. ASSUME Tight PROVE RestartsAgree'
  <2>1. /\ Marked(g, savedResults) /\ Headed(g, results)
        /\ Sound(g, results, visited)
        /\ InStep \/ \E h \in g.gates : Turning(h)
    BY <1>2, <1>10 DEF ExecInv, RestartsAgree
  <2>2. InStep
    <3> SUFFICES ASSUME NEW h \in g.gates, Turning(h) PROVE FALSE
      BY <2>1
    <3>1. h \in g.nodes /\ h \in Below(g, h)
      BY <1>3, BelowIsLeast DEF GoodGraph
    <3> QED
      BY <1>2, <3>1 DEF Turning, Nodes
  <2>3. KeptIsSound
    <3>1. results = Kept
      BY <2>2 DEF InStep
    <3> QED
      BY <2>1, <3>1, SoundWithLessPast DEF KeptIsSound
  <2>4. Headed(g, results')
    <3> HIDE DEF g, gate
    <3> QED
      BY <1>3, <1>5, <1>6, <2>1, HeadedWhenTurned
  <2>5. ~ MissingIn(g, results', gate)
    <3>1. results[gate] # NoResult
      BY <1>4, <1>5, <2>1 DEF Headed
    <3>2. ~ MissingIn(g, results, gate)
      BY <1>5, <2>1, <3>1 DEF Sound
    <3>3. \A d \in Forward(g) : d.to = gate => results[d.from] = results'[d.from]
      <4> SUFFICES ASSUME NEW d \in Forward(g), d.to = gate
                   PROVE  results[d.from] = results'[d.from]
        OBVIOUS
      <4>1. d.from \notin Below(g, gate) /\ d.from \in g.nodes
        BY <1>3 DEF ValidGraph, Acyclic, GoodGraph, Forward
      <4> QED
        BY <1>6, <4>1 DEF Without
    <3>4. MissingIn(g, results, gate) <=> MissingIn(g, results', gate)
      <4> HIDE DEF g, gate
      <4> QED
        BY <3>3, InputsAgree
    <3> QED
      BY <3>2, <3>4
  <2>6. \A h \in g.gates :
          passes'[h] = PassOf(savedResults, h) + (IF h = gate THEN 1 ELSE 0)
    <3>1. \A h \in g.gates : passes[h] = PassOf(savedResults, h)
      BY <2>2 DEF InStep
    <3>2. \A h \in g.gates : PassOf(savedResults, h) \in Nat
      BY <1>3, <2>1, PassIsNumber
    <3>3. \A h \in g.gates : passes'[h] = IF h = gate THEN passes[h] + 1 ELSE passes[h]
      BY <1>1, <1>3
    <3> QED
      BY <3>1, <3>2, <3>3
  <2>7. Turning(gate)'
    <3>1. results' = Without(g, Kept, gate)
      BY <1>6, <2>2 DEF InStep
    <3>2. \A n \in Nodes \ Below(g, gate) : Settled(g, results', n)
      BY <1>9, <1>10 DEF Nodes
    <3> QED
      BY <1>2, <1>7, <2>5, <2>6, <3>1, <3>2 DEF Turning
  <2>8. KeptIsSound'
    BY <1>2, <1>7, <2>3 DEF KeptIsSound
  <2> QED
    BY <1>2, <1>5, <2>1, <2>4, <2>7, <2>8 DEF RestartsAgree
<1> QED
  BY <1>2, <1>7, <1>8, <1>9, <1>10 DEF ExecInv, StepIsReady

\* The worker dies: what it would have gone on from is what a restart takes.
LEMMA LoseStep ==
  ASSUME ExecInv, LoseWorker
  PROVE  ExecInv'
<1>1. /\ UNCHANGED <<workflow, savedResults>> /\ deaths' = deaths + 1
      /\ execState = "scanning" /\ execState' = "stopped"
      /\ visited' = {} /\ step' = NoStep
      /\ results' = [n \in Nodes |-> NoResult]
      /\ passes' = [g \in workflow.gates |-> 0]
  BY DEF LoseWorker
<1>2. /\ Nodes' = Nodes /\ (Tight' <=> Tight) /\ StepRecord' = StepRecord /\ Kept' = Kept
  BY <1>1 DEF Nodes, Tight, StepRecord, Kept
<1>3. deaths \in Nat /\ deaths' \in Nat /\ deaths' # 0
  BY <1>1 DEF ExecInv, ExecTypeOK
<1>4. ExecTypeOK'
  <2>1. /\ passes' = [g \in workflow.gates |-> passes'[g]]
        /\ results' = [n \in Nodes |-> results'[n]]
        /\ step' \in StepRecord
    BY <1>1 DEF StepRecord, NoStep
  <2> QED
    BY <1>1, <1>2, <1>3, <2>1 DEF ExecInv, ExecTypeOK
<1>5. ASSUME Tight PROVE RestartsAgree'
  <2>1. /\ Marked(workflow, savedResults) /\ Headed(workflow, results)
        /\ Sound(workflow, results, visited)
        /\ InStep \/ KeptIsSound
    BY <1>1, <1>5 DEF ExecInv, RestartsAgree
  <2>2. KeptIsSound
    <3> SUFFICES ASSUME InStep PROVE KeptIsSound
      BY <2>1
    <3> QED
      BY <2>1, SoundWithLessPast DEF KeptIsSound, InStep
  <2>3. KeptIsSound'
    BY <1>1, <1>2, <2>2 DEF KeptIsSound
  <2> QED
    BY <1>1, <2>1, <2>3 DEF RestartsAgree
<1> QED
  BY <1>1, <1>2, <1>3, <1>4, <1>5 DEF ExecInv, StepIsReady

LEMMA ExecStep == ExecInv /\ [ExecNext]_execVars => ExecInv'
<1> SUFFICES ASSUME ExecInv, [ExecNext]_execVars PROVE ExecInv'
  OBVIOUS
<1>1. CASE Execute
  BY <1>1, ExecuteStep
<1>2. CASE \E n \in Nodes : PassOver(n) \/ StartStep(n)
  BY <1>2, PassOverStep, StartedStep
<1>3. CASE FinishStep
  <2>1. PICK n \in Nodes : \E port \in workflow.ports[n] : step.node = n /\ Complete(n, port)
    BY <1>3 DEF FinishStep
  <2>3. PICK port \in workflow.ports[n] : step.node = n /\ Complete(n, port)
    BY <2>1
  <2>2. port # "none"
    BY <2>3, TheGraphIsGood DEF ExecInv, ExecTypeOK
  <2> QED
    BY <2>2, <2>3, CompleteStep
<1>4. CASE FailStep
  <2>1. PICK n \in Nodes :
          /\ step.node = n
          /\ \/ /\ step' = [step EXCEPT !.attempt = @ + 1]
                /\ UNCHANGED <<workflow, execState, results, savedResults, passes,
                               visited, deaths>>
             \/ Complete(n, "error")
             \/ /\ execState' = "failed" /\ step' = NoStep
                /\ UNCHANGED <<workflow, results, savedResults, passes, visited, deaths>>
    BY <1>4 DEF FailStep
  <2>2. execState = "scanning" /\ step # NoStep /\ n # "none"
    BY <2>1, RunningStep, TheGraphIsGood DEF ExecInv, ExecTypeOK
  <2>3. CASE /\ step' = [step EXCEPT !.attempt = @ + 1]
             /\ UNCHANGED <<workflow, execState, results, savedResults, passes,
                            visited, deaths>>
    <3>1. step' \in StepRecord /\ step'.node = n
      BY <2>1, <2>3 DEF ExecInv, ExecTypeOK, StepRecord
    <3>2. visited \subseteq visited' /\ visited' \subseteq Nodes
      BY <2>3 DEF ExecInv, ExecTypeOK
    <3>3. Tight \/ deaths = 0 => Sound(workflow, results, visited')
      BY <2>2, <2>3 DEF ExecInv
    <3>4. \A gate \in workflow.gates : Turning(gate) =>
            visited' \cap Below(workflow, gate) = {} /\ n = gate
      BY <2>1, <2>2, <2>3 DEF Turning
    <3>5. /\ n \in Nodes /\ results[n] = NoResult /\ ~ MissingIn(workflow, results, n)
          /\ \A e \in Forward(workflow) : e.to = n => e.from \in visited
      BY <2>1, RunningStep
    <3> QED
      BY <2>2, <2>3, <3>1, <3>2, <3>3, <3>4, <3>5, MoveStep
  <2>4. CASE Complete(n, "error")
    BY <2>1, <2>4, CompleteStep
  <2>5. CASE /\ execState' = "failed" /\ step' = NoStep
             /\ UNCHANGED <<workflow, results, savedResults, passes, visited, deaths>>
    BY <2>2, <2>5, EndStep
  <2> QED
    BY <2>1, <2>3, <2>4, <2>5
<1>5. CASE PassGate
  <2>1. PICK n \in workflow.gates :
          /\ step.node = n
          /\ \/ Complete(n, "exhausted") \/ Complete(n, "current")
             \/ /\ execState' = "failed" /\ step' = NoStep
                /\ UNCHANGED <<workflow, results, savedResults, passes, visited, deaths>>
    BY <1>5 DEF PassGate
  <2>2. n \in Nodes
    BY TheGraphIsGood DEF ExecInv, ExecTypeOK, GoodGraph, Nodes
  <2>3. execState = "scanning"
    BY <2>1, <2>2, RunningStep
  <2> QED
    BY <2>1, <2>2, <2>3, CompleteStep, EndStep
<1>6. CASE RetryPass
  BY <1>6, RetryStep
<1>7. CASE EndRun
  <2>1. /\ execState = "scanning" /\ execState' \in {"done", "failed"}
        /\ UNCHANGED <<workflow, results, savedResults, passes, visited, deaths>>
        /\ step' = NoStep
    BY <1>7 DEF EndRun, PassEnded
  <2> QED
    BY <2>1, EndStep
<1>8. CASE LoseWorker
  BY <1>8, LoseStep
<1>9. CASE UNCHANGED execVars
  BY <1>9 DEF execVars, ExecInv, ExecTypeOK, StepIsReady, RestartsAgree, KeptIsSound, InStep,
              Turning, Kept, Tight, Nodes, StepRecord
<1> QED
  BY <1>1, <1>2, <1>3, <1>4, <1>5, <1>6, <1>7, <1>8, <1>9 DEF ExecNext

\* When the loop is past the last step, every result was computed from what its inputs
\* hold now: in every tight graph whatever retries and restarts came before, in the others
\* until a worker dies (executeAutomationGraph).
THEOREM ResultsAreCurrent == ExecSpec => []ResultsStayCurrent
<1>1. ExecInv => ResultsStayCurrent
  <2> SUFFICES ASSUME ExecInv, PassEnded, LoopsAreTight(workflow) \/ deaths = 0,
                      NEW n \in Nodes, results[n] # NoResult
               PROVE  results[n].reads = Reads(n)
    BY DEF ResultsStayCurrent
  <2>1. Sound(workflow, results, visited)
    BY DEF PassEnded, ExecInv, ExecTypeOK, Tight
  <2>2. results[n].reads = ReadsIn(workflow, results, n)
    BY <2>1 DEF Sound, Nodes
  <2> QED
    BY <2>2, OfResults
<1> QED
  BY <1>1, ExecInitInv, ExecStep, PTL DEF ExecSpec

=============================================================================
