------------------------- MODULE MCCanvasDocuments -------------------------
(***************************************************************************)
(* Two ways to begin: a canvas never opened, with every fault and no       *)
(* checkpoint, and a canvas whose first edit was stored and projected      *)
(* while no replica holds it, with a checkpoint and no fault.              *)
(***************************************************************************)
EXTENDS CanvasDocuments, TLC

\* Replicas are interchangeable.
Interchangeable == Permutations(Replicas)

\* The fresh canvas, its checkpoint already spent.
NeverOpened ==
  /\ document = NoDocument
  /\ journal = {} /\ lastJournaled = 0
  /\ web = [revision |-> 0, edits |-> {}]
  /\ accepted = {}
  /\ troubles = 0 /\ checkpoints = MaxCheckpoints

\* What one session leaves: the edit is revision 2 of the document, and its
\* journal entry has not been pruned.
StoredBefore(e) ==
  /\ document = [Seed EXCEPT !.edits = {e}, !.revision = 2, !.lastId = 1]
  /\ journal = {[id |-> 1, edit |-> e, lineages |-> {1}]}
  /\ lastJournaled = 1
  /\ web = [revision |-> 2, edits |-> {e}]
  /\ accepted = {e}
  /\ troubles = MaxTroubles /\ checkpoints = 0

MCInit ==
  /\ project = "live"
  /\ outbox = [waiting |-> FALSE, revision |-> 0, edits |-> {},
               lockedBy |-> Nobody]
  /\ NeverOpened \/ \E e \in UserEdits : StoredBefore(e)
  /\ load = [r \in Replicas |-> NotLoading]
  /\ room = [r \in Replicas |-> NoRoom]
  /\ session = [r \in Replicas |-> 0]
  /\ journaling = [r \in Replicas |-> {}]
  /\ bus = {}
  /\ store = [r \in Replicas |-> NoStore]
  /\ mirror = [r \in Replicas |-> NoMirror]
  /\ checkpoint = Nobody
  /\ closing = {}
  /\ calm = TRUE
  /\ reseeded = FALSE

MCSpec == MCInit /\ [][CanvasNext]_canvasVars /\ CanvasFairness
=============================================================================
