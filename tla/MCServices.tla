----------------------------- MODULE MCServices -----------------------------
(* Independent components checked side by side: which of them runs is       *)
(* chosen in the initial state, the others keep their initial states.        *)
EXTENDS MCMediaQueue, CanvasDocuments, StorageLifecycle, WorkflowDocuments,
        SystemWorkflows, MCGraphExecution, GenerationAdmission, SegmentedVideo, CanvasWindow

CONSTANTS older, newer, q1, q2, q3, q4, g3

\* SystemWorkflows: one process runs the new release.
Releases == [p \in SystemReplicas |-> IF p = newer THEN 2 ELSE 1]

\* GenerationAdmission: q1 and q2 repeat one request, q4 is for a node of its own.
Keys == [r \in Admissions |-> IF r \in {q1, q2} THEN "k" ELSE "none"]
\* q2 repeats it with other settings.
Settings == [r \in Admissions |-> IF r = q2 THEN "other" ELSE "first"]
NodesOf == [r \in Admissions |-> IF r = q4 THEN "m" ELSE "n"]

\* SegmentedVideo: g3 is cut from an upload, the other scenes from the original.
Sources == [s \in Segments |-> IF s = g3 THEN "uploaded" ELSE "original"]

\* CanvasWindow: both windows open the canvas with two fields.
Placements == [f \in {"title", "place", "other"} |-> IF f = "other" THEN "B" ELSE "A"]
FirstOpened == [x \in Browsers |-> "A"]

OneByte == [u \in Uploads |-> 1]

VARIABLE running

Services == {"media", "canvas", "storage", "documents", "system", "graph", "admission", "video",
             "window"}

ServicesInit ==
  /\ running \in Services
  /\ Init /\ CanvasInit /\ StorageInit /\ DocInit /\ SystemInit /\ AdmissionInit /\ VideoInit
  /\ WindowInit
  /\ ExecInit /\ (running = "graph" \/ workflow = Looped)

OthersKeep ==
  /\ UNCHANGED running
  /\ IF running = "media" THEN TRUE ELSE UNCHANGED vars
  /\ IF running = "canvas" THEN TRUE ELSE UNCHANGED canvasVars
  /\ IF running = "storage" THEN TRUE ELSE UNCHANGED storageVars
  /\ IF running = "documents" THEN TRUE ELSE UNCHANGED docVars
  /\ IF running = "system" THEN TRUE ELSE UNCHANGED systemVars
  /\ IF running = "graph" THEN TRUE ELSE UNCHANGED execVars
  /\ IF running = "admission" THEN TRUE ELSE UNCHANGED admissionVars
  /\ IF running = "video" THEN TRUE ELSE UNCHANGED videoVars
  /\ IF running = "window" THEN TRUE ELSE UNCHANGED windowVars

ServicesNext ==
  \/ running = "media" /\ Next /\ OthersKeep
  \/ running = "canvas" /\ CanvasNext /\ OthersKeep
  \/ running = "storage" /\ StorageNext /\ OthersKeep
  \/ running = "documents" /\ DocNext /\ OthersKeep
  \/ running = "system" /\ SystemNext /\ OthersKeep
  \/ running = "graph" /\ ExecNext /\ OthersKeep
  \/ running = "admission" /\ AdmissionNext /\ OthersKeep
  \/ running = "video" /\ VideoNext /\ OthersKeep
  \/ running = "window" /\ WindowNext /\ OthersKeep

ServicesSpec == ServicesInit /\ [][ServicesNext]_<<running, vars, canvasVars, storageVars, docVars,
                                    systemVars, execVars, admissionVars, videoVars,
                                    windowVars>>

\* The state of the component that runs; the others are at their initial states.
Running ==
  <<running,
  CASE running = "media" -> vars
    [] running = "canvas" -> canvasVars
    [] running = "storage" -> storageVars
    [] running = "documents" -> docVars
    [] running = "system" -> systemVars
    [] running = "graph" -> execVars
    [] running = "admission" -> admissionVars
    [] running = "video" -> videoVars
    [] OTHER -> windowVars>>
=============================================================================
