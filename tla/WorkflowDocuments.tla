------------------------- MODULE WorkflowDocuments -------------------------
(***************************************************************************)
(* The documents of automation workflows (automation-workflows/            *)
(* repository.ts): the versions of a workflow of the user, which editor    *)
(* windows load, save, restore, publish and delete, with one trigger.      *)
(*                                                                         *)
(* A version is its number.  Drafts are valid and fit the trigger: a       *)
(* publication that is refused changes nothing.  Every writer is a         *)
(* transaction that holds the workflow's advisory lock from its first      *)
(* statement, hence one action; what windows and triggers.ts read before   *)
(* it is an action of its own.                                             *)
(***************************************************************************)
EXTENDS Integers, FiniteSets, FiniteSetsExt

CONSTANTS
  Windows,      \* editors of the user's workflow
  MaxVersions,  \* bound: versions so far
  MaxPinned,    \* bound: versions named by runs and fixtures at a time
  HistoryLimit  \* AUTOMATION_AUTOSAVE_HISTORY_LIMIT

ASSUME DocumentsAssumption == 
  MaxVersions \in Nat \ {0} /\ MaxPinned \in Nat /\ HistoryLimit \in Nat

VARIABLES
  docStatus,        \* automation_workflows.status
  versions,         \* automation_workflow_versions, by number
  draft, published, \* draft_version_id and published_version_id, 0 when NULL
  pinned,           \* versions named by a run, a fixture or a delivery
  trigger,          \* status and active_version_id of its trigger
  window,           \* the draft each editor has loaded, and what it is doing
  kept              \* history: versions published or noted so far
docVars == <<docStatus, versions, draft, published, pinned, trigger, window, kept>>

Numbers == 1..MaxVersions
Version(status, noted, from) == [status |-> status, published |-> FALSE, noted |-> noted, from |-> from]

DocTypeOK ==
  /\ docStatus \in {"draft", "published", "archived"}
  /\ DOMAIN versions \subseteq Numbers
  /\ \A v \in DOMAIN versions :
       versions[v] \in [status : {"draft", "published", "superseded"}, published : BOOLEAN,
                        noted : BOOLEAN, from : 0..MaxVersions]
  /\ draft \in 0..MaxVersions /\ published \in 0..MaxVersions
  /\ pinned \subseteq Numbers /\ kept \subseteq Numbers
  /\ trigger \in [status : {"active", "paused"}, version : 0..MaxVersions]
  /\ window \in [Windows -> [base : 0..MaxVersions, step : {"closed", "open", "activating"}]]

\* A new workflow has its first draft.
DocInit ==
  /\ docStatus = "draft"
  /\ versions = [v \in {1} |-> Version("draft", FALSE, 0)]
  /\ draft = 1 /\ published = 0
  /\ pinned = {} /\ kept = {}
  /\ trigger = [status |-> "paused", version |-> 0]
  /\ window = [e \in Windows |-> [base |-> 0, step |-> "closed"]]

-----------------------------------------------------------------------------
Following == Max(DOMAIN versions) + 1
\* The rows after a new draft takes the place of the current one.
Appended(v, row) ==
  [n \in DOMAIN versions \cup {v} |->
     IF n = v THEN row
     ELSE IF n = draft /\ versions[n].status = "draft" THEN [versions[n] EXCEPT !.status = "superseded"]
     ELSE versions[n]]

\* (Without "published_at IS NULL".)
Expendable_Published(rows, v) ==
  /\ rows[v].status = "superseded" /\ ~rows[v].noted
  /\ \A n \in DOMAIN rows : rows[n].from # v
  /\ v \notin pinned /\ trigger.version # v
\* pruneAutomationAutosaveHistory: autosaves nothing refers to, but the newest.
Expendable(rows, v) ==
  /\ rows[v].status = "superseded" /\ ~rows[v].published /\ ~rows[v].noted
  /\ \A n \in DOMAIN rows : rows[n].from # v
  /\ v \notin pinned /\ trigger.version # v
Pruned(rows) ==
  LET autosaves == {v \in DOMAIN rows : Expendable(rows, v)}
      expired == {v \in autosaves : Cardinality({n \in autosaves : n > v}) >= HistoryLimit}
  IN [v \in DOMAIN rows \ expired |-> rows[v]]

LoadWorkflow(e) ==
  /\ window' = [window EXCEPT ![e] = [base |-> draft, step |-> "open"]]
  /\ UNCHANGED <<docStatus, versions, draft, published, pinned, trigger, kept>>

\* A save of a window that has loaded the current draft; any other is a conflict.
SaveDraft(e, noted) ==
  /\ window[e].step = "open" /\ window[e].base = draft
  /\ Following \in Numbers
  /\ versions' = Pruned(Appended(Following, Version("draft", noted, 0)))
  /\ docStatus' = "draft" /\ draft' = Following
  /\ window' = [window EXCEPT ![e].base = Following]
  /\ kept' = IF noted THEN kept \cup {Following} ELSE kept
  /\ UNCHANGED <<published, pinned, trigger>>

RestoreVersion(e, v) ==
  /\ v \in DOMAIN versions /\ Following \in Numbers
  /\ versions' = Appended(Following, Version("draft", TRUE, v))
  /\ docStatus' = "draft" /\ draft' = Following
  /\ window' = [window EXCEPT ![e] = [base |-> Following, step |-> "open"]]
  /\ kept' = kept \cup {Following}
  /\ UNCHANGED <<published, pinned, trigger>>

\* The published row is a draft no longer.
ReleasesDraft == draft' = 0
\* Whatever draft is current is published, and the active trigger follows it.
PublishDraft(e) ==
  /\ draft # 0
  /\ versions' = [v \in DOMAIN versions |->
       IF v = draft THEN [versions[v] EXCEPT !.status = "published", !.published = TRUE]
       ELSE IF v = published THEN [versions[v] EXCEPT !.status = "superseded"]
       ELSE versions[v]]
  /\ docStatus' = "published" /\ published' = draft /\ ReleasesDraft
  /\ trigger' = IF trigger.status = "active" THEN [trigger EXCEPT !.version = draft] ELSE trigger
  /\ window' = [window EXCEPT ![e].base = 0]
  /\ kept' = kept \cup {draft}
  /\ UNCHANGED <<pinned>>

ArchiveWorkflow ==
  /\ docStatus # "archived"
  /\ docStatus' = "archived"
  /\ trigger' = [status |-> "paused", version |-> 0]
  /\ UNCHANGED <<versions, draft, published, pinned, window, kept>>

\* setAutomationWorkflowTriggerStatus looks whether the workflow is archived before
\* it takes the lock.
RequestActivation(e) ==
  /\ window[e].step = "open" /\ docStatus # "archived"
  /\ window' = [window EXCEPT ![e].step = "activating"]
  /\ UNCHANGED <<docStatus, versions, draft, published, pinned, trigger, kept>>
ActivateTrigger(e) ==
  /\ window[e].step = "activating"
  /\ window' = [window EXCEPT ![e].step = "open"]
  /\ trigger' = IF published # 0 THEN [status |-> "active", version |-> published] ELSE trigger
  /\ UNCHANGED <<docStatus, versions, draft, published, pinned, kept>>
PauseTrigger ==
  /\ trigger.status = "active"
  /\ trigger' = [status |-> "paused", version |-> 0]
  /\ UNCHANGED <<docStatus, versions, draft, published, pinned, window, kept>>

\* A run, a fixture or a delivery names a version; retention removes them.
PinVersion(v) ==
  /\ v \in DOMAIN versions /\ v \notin pinned /\ Cardinality(pinned) < MaxPinned
  /\ pinned' = pinned \cup {v}
  /\ UNCHANGED <<docStatus, versions, draft, published, trigger, window, kept>>
UnpinVersion(v) ==
  /\ v \in pinned
  /\ pinned' = pinned \ {v}
  /\ UNCHANGED <<docStatus, versions, draft, published, trigger, window, kept>>

DocNext ==
  \/ \E e \in Windows : \/ LoadWorkflow(e) \/ PublishDraft(e)
                        \/ RequestActivation(e) \/ ActivateTrigger(e)
                        \/ \E noted \in BOOLEAN : SaveDraft(e, noted)
                        \/ \E v \in Numbers : RestoreVersion(e, v)
  \/ ArchiveWorkflow \/ PauseTrigger
  \/ \E v \in Numbers : PinVersion(v) \/ UnpinVersion(v)
DocSpec == DocInit /\ [][DocNext]_docVars

-----------------------------------------------------------------------------
\* History is not pruned with the autosaves: a version that was published or noted,
\* that a run, fixture or delivery names, or from which another was restored, exists
\* (pruneAutomationAutosaveHistory; docs/AUTOMATION_WORKFLOWS.md:27).  And the
\* pointers agree with the rows however saves, restorations, publications and
\* deletions follow each other: at most one draft and one published version, those
\* the workflow points to, and an active trigger runs the published one.
HistoryKept ==
  /\ kept \cup pinned \cup ({draft, published, trigger.version} \ {0})
       \cup ({versions[v].from : v \in DOMAIN versions} \ {0}) \subseteq DOMAIN versions
  /\ {v \in DOMAIN versions : versions[v].status = "draft"} = {draft} \ {0}
  /\ {v \in DOMAIN versions : versions[v].status = "published"} = {published} \ {0}
  /\ trigger.status = "active" => trigger.version = published
=============================================================================
