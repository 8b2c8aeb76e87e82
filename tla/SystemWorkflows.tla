-------------------------- MODULE SystemWorkflows --------------------------
(***************************************************************************)
(* The versions of a system workflow (automation-workflows/repository.ts): *)
(* replicas of different releases upgrade it from their template           *)
(* (ensureSystemAutomationWorkflow) while users choose its model           *)
(* (setSystemAutomationModelOverride).                                     *)
(*                                                                         *)
(* A graph is what the properties tell apart: the revision it comes from   *)
(* and the model it uses.  Every model is available in every release.      *)
(* Upgrades hold one advisory lock and choices another, so the two         *)
(* interleave; what neither lock prevents, the unique index on the         *)
(* published version refuses, and the transaction aborts.                  *)
(***************************************************************************)
EXTENDS Integers, FiniteSets

CONSTANTS
  SystemReplicas, \* processes that discover the system workflow
  Template,       \* the revision of its template in the release of each
  Choosers,       \* users who choose its model
  Models,         \* the models they may choose besides the default
  MaxSystemVersions \* bound: versions so far

ASSUME SystemAssumption ==
  /\ MaxSystemVersions \in Nat
  /\ Template \in [SystemReplicas -> Nat \ {0}]
  /\ "default" \notin Models

VARIABLES
  system,          \* revision, published version, versions so far
  graphOf,         \* graph_json of the versions
  override,        \* automation_system_model_overrides
  upgrade, choice  \* the transactions of replicas and of choosers
systemVars == <<system, graphOf, override, upgrade, choice>>

Graph == [revision : Nat, model : Models \cup {"default"}]
NoGraph == [revision |-> 0, model |-> "default"]

SystemTypeOK ==
  /\ system \in [revision : Nat, published : 0..MaxSystemVersions, latest : 0..MaxSystemVersions]
  /\ graphOf \in [1..MaxSystemVersions -> Graph]
  /\ override \in Models \cup {"default"}
  /\ upgrade \in [SystemReplicas -> [step : {"idle", "locked", "built"},
                                     base : 0..MaxSystemVersions, graph : Graph]]
  /\ choice \in [Choosers -> [step : {"idle", "chosen", "checked"},
                              base : 0..MaxSystemVersions, graph : Graph]]

NoTransaction == [step |-> "idle", base |-> 0, graph |-> NoGraph]
SystemInit ==
  /\ system = [revision |-> 0, published |-> 0, latest |-> 0]
  /\ graphOf = [v \in 1..MaxSystemVersions |-> NoGraph]
  /\ override = "default"
  /\ upgrade = [p \in SystemReplicas |-> NoTransaction]
  /\ choice = [c \in Choosers |-> NoTransaction]

-----------------------------------------------------------------------------
SystemLocked(transactions, steps) == \E t \in DOMAIN transactions : transactions[t].step \in steps

\* ensureSystemAutomationWorkflow reads the workflow under its lock, and returns
\* when the stored revision is not older than its template.
BeginUpgrade(p) ==
  /\ ~SystemLocked(upgrade, {"locked", "built"})
  /\ system.revision < Template[p] /\ system.latest < MaxSystemVersions
  /\ upgrade' = [upgrade EXCEPT ![p] = [step |-> "locked", base |-> system.published, graph |-> NoGraph]]
  /\ UNCHANGED <<system, graphOf, override, choice>>

\* applyPersistedSystemModelOverrides on the template's graph.
BuildUpgrade(p) ==
  /\ upgrade[p].step = "locked"
  /\ upgrade' = [upgrade EXCEPT ![p].step = "built",
                                ![p].graph = [revision |-> Template[p], model |-> override]]
  /\ UNCHANGED <<system, graphOf, override, choice>>

Publishes(graph, revision) ==
  /\ system' = [revision |-> revision, published |-> system.latest + 1, latest |-> system.latest + 1]
  /\ graphOf' = [graphOf EXCEPT ![system.latest + 1] = graph]

CommitUpgrade(p) ==
  /\ upgrade[p].step = "built"
  /\ upgrade' = [upgrade EXCEPT ![p] = NoTransaction]
  /\ \/ /\ system.published = upgrade[p].base /\ system.latest < MaxSystemVersions
        /\ Publishes(upgrade[p].graph, Template[p])
     \/ /\ system.published # upgrade[p].base
        /\ UNCHANGED <<system, graphOf>>
  /\ UNCHANGED <<override, choice>>

\* setSystemAutomationModelOverride: the graph is made from the published one first.
ChooseModel(c, m) ==
  /\ choice[c].step = "idle" /\ system.published # 0
  /\ choice' = [choice EXCEPT ![c] = [step |-> "chosen", base |-> system.published,
                                      graph |-> [graphOf[system.published] EXCEPT !.model = m]]]
  /\ UNCHANGED <<system, graphOf, override, upgrade>>

\* Otherwise 409 (or: the 409 is forgotten).
StillPublished_Unchecked(c) == choice[c].base # 0
StillPublished(c) == system.published = choice[c].base
CheckChoice(c) ==
  /\ choice[c].step = "chosen" /\ ~SystemLocked(choice, {"checked"})
  /\ choice' = [choice EXCEPT ![c].step = IF StillPublished(c) THEN "checked" ELSE "idle"]
  /\ UNCHANGED <<system, graphOf, override, upgrade>>

\* The override and, when it changes the graph, the version that uses it commit
\* together, or not at all: the index refuses a second published version.
CommitChoice(c) ==
  /\ choice[c].step = "checked"
  /\ choice' = [choice EXCEPT ![c] = NoTransaction]
  /\ \/ /\ choice[c].graph = graphOf[choice[c].base]
        /\ override' = choice[c].graph.model
        /\ UNCHANGED <<system, graphOf>>
     \/ /\ choice[c].graph # graphOf[choice[c].base] /\ system.published = choice[c].base
        /\ system.latest < MaxSystemVersions
        /\ override' = choice[c].graph.model
        /\ Publishes(choice[c].graph, system.revision)
     \/ /\ choice[c].graph # graphOf[choice[c].base] /\ system.published # choice[c].base
        /\ UNCHANGED <<override, system, graphOf>>
  /\ UNCHANGED <<upgrade>>

SystemNext ==
  \/ \E p \in SystemReplicas : BeginUpgrade(p) \/ BuildUpgrade(p) \/ CommitUpgrade(p)
  \/ \E c \in Choosers : \/ CheckChoice(c) \/ CommitChoice(c)
                         \/ \E m \in Models \cup {"default"} : ChooseModel(c, m)
SystemSpec == SystemInit /\ [][SystemNext]_systemVars

-----------------------------------------------------------------------------
\* The published system graph is of the stored revision and uses the chosen model:
\* an upgrade that races a choice loses neither, nor is it undone by a graph made
\* from the version before (ensureSystemAutomationWorkflow,
\* setSystemAutomationModelOverride).
SystemGraphIsCurrent ==
  system.published # 0 =>
    graphOf[system.published] = [revision |-> system.revision, model |-> override]
=============================================================================
