---------------------------- MODULE CanvasWindow ----------------------------
(***************************************************************************)
(* The canvas in the browser: the graph on the screen, the Yjs document of *)
(* the session (use-canvas-collaboration.ts, collaboration-document.ts)    *)
(* and the handlers of CanvasApp.tsx that edit, drag, undo and switch.     *)
(*                                                                         *)
(* A canvas is a map from fields (a node's title, its position) to values. *)
(* An entry of a Yjs map keeps the writers of its value, oldest first: the *)
(* entries of two copies are merged as Yjs merges them, a later value over *)
(* the one it replaced, of concurrent ones the one of the greater client;  *)
(* a deletion takes off the value it saw and no other.  Updates travel as  *)
(* the merging of copies, whenever the connection is up.                   *)
(*                                                                         *)
(* React renders between two events: the references that a render sets are *)
(* set with the state.  The microtask that paints a remote update runs     *)
(* before the next event.  The server's side of sessions and checkpoints   *)
(* is in CanvasDocuments.                                                  *)
(***************************************************************************)
EXTENDS Integers, SequencesExt

CONSTANTS
  Browsers,      \* windows, numbers as their Yjs clients
  Canvases,      \* projects
  Home,          \* the initial canvas of each field; its domain is all fields
  Placed,        \* the fields that are positions
  Start,         \* the canvas each window opens first
  MaxIncidents   \* bound: values typed or dragged to, undos, removals, switches,
                 \* new epochs, lost connections and failed requests for a token

Fields == DOMAIN Home
Blank == -1
NotDragging == [field |-> "none"]
Nowhere == "none"

ASSUME WindowAssumption ==
  Placed \subseteq Fields /\ Start \in [Browsers -> Canvases] /\ Nowhere \notin Canvases

VARIABLES
  shared,    \* the server's document of each canvas
  lineage,   \* its documentEpoch
  page,      \* the state of each window
  typist,    \* history: who made each value, in order
  hitches    \* history: how often anything but typing happened
windowVars == <<shared, lineage, page, typist, hitches>>

Entries(graph, by) == [f \in Fields |-> [by |-> by, value |-> graph[f]]]
FirstGraph(c) == [f \in Fields |-> IF Home[f] = c THEN 0 ELSE Blank]
Empty == [f \in Fields |-> Blank]

Later(by, than) ==
  \/ IsStrictPrefix(than, by)
  \/ \E i \in DOMAIN by \cap DOMAIN than :
       by[i] > than[i] /\ \A j \in 1..(i - 1) : by[j] = than[j]
Merged(doc, other) ==
  [f \in Fields |->
     IF Later(other[f].by, doc[f].by) \/ (other[f].by = doc[f].by /\ other[f].value = Blank)
     THEN other[f] ELSE doc[f]]

\* readGraphFromYDoc
GraphOf(doc) == [f \in Fields |-> doc[f].value]

\* patchGraphInYDoc: the difference of two screens; what the document holds now
\* is not looked at.
Patched(doc, before, after, b) ==
  [f \in Fields |->
     IF before[f] = after[f] THEN doc[f]
     ELSE IF after[f] = Blank THEN [doc[f] EXCEPT !.value = Blank]
     ELSE [by |-> Append(doc[f].by, b), value |-> after[f]]]

WindowInit ==
  /\ shared = [c \in Canvases |-> Entries(FirstGraph(c), <<0>>)]
  /\ lineage = [c \in Canvases |-> 1]
  /\ page = [b \in Browsers |->
       [at |-> Start[b], link |-> "fetching", epoch |-> 0, doc |-> Entries(Empty, <<>>),
        synced |-> FALSE,               \* syncedProjectIdRef is the canvas
        readyFor |-> {},                \* syncedProjectId
        hydrating |-> Start[b],         \* projectHydratingIdRef
        cold |-> FALSE,                 \* the timer of a cold switch runs
        left |-> [at |-> Start[b], shown |-> Empty], \* what restorePreviousProject restores
        refetching |-> 0,               \* lists fetched after a failed switch
        nodes |-> FirstGraph(Start[b]), \* localNodesStateRef, localEdgesStateRef
        shown |-> FirstGraph(Start[b]), \* nodesRef, edgesRef
        unwritten |-> {},               \* history: where a drag ended where it began
        drag |-> NotDragging, past |-> <<>>, future |-> <<>>,
        cache |-> [c \in Canvases |-> IF c = Start[b] THEN FirstGraph(c) ELSE Empty]]]
  /\ typist = <<>> /\ hitches = 0

Set(b, new) == page' = [page EXCEPT ![b] = new]
OnlyPage == UNCHANGED <<shared, lineage, typist, hitches>>
MayHappen == Len(typist) + hitches < MaxIncidents
Hitch == MayHappen /\ hitches' = hitches + 1

----------------------------------------------------------------------------
(* The session.                                                            *)

\* applyCollaborativeGraph: the document is painted over the screen.
Painted(p) ==
  [p EXCEPT !.nodes = GraphOf(p.doc), !.shown = GraphOf(p.doc), !.unwritten = {},
            !.hydrating = IF @ = p.at THEN Nowhere ELSE @, !.cache[p.at] = GraphOf(p.doc)]
\* A new session: the document of the old one is destroyed with it.
NewSession(p) ==
  [p EXCEPT !.link = "joining", !.epoch = lineage[p.at], !.doc = Entries(Empty, <<>>), !.synced = FALSE]

FetchToken(b) ==
  /\ page[b].link = "fetching"
  /\ Set(b, NewSession(page[b]))
  /\ OnlyPage

TokenFails(b) ==
  /\ page[b].link = "fetching" /\ Hitch
  /\ Set(b, [page[b] EXCEPT !.link = "failed"])
  /\ UNCHANGED <<shared, lineage, typist>>

RetrySession(b) ==
  /\ page[b].link = "failed" /\ ~page[b].synced
  /\ Set(b, [page[b] EXCEPT !.link = "fetching"])
  /\ OnlyPage

\* (onSynced that leaves the painting to the next update.)
Synced_Unpainted(p, doc) ==
  [p EXCEPT !.link = "up", !.doc = doc, !.synced = TRUE, !.readyFor = {p.at},
            !.hydrating = IF @ = p.at THEN Nowhere ELSE @, !.unwritten = {}]
\* onSynced: from now on the screen shows the document.
Synced(p, doc) ==
  Painted([p EXCEPT !.link = "up", !.doc = doc, !.synced = TRUE, !.readyFor = {p.at}])

\* The server refuses a token of an older epoch.
Join(b) ==
  LET p == page[b] IN
  /\ p.link = "joining"
  /\ IF p.epoch = lineage[p.at]
     THEN Set(b, Synced(p, Merged(p.doc, shared[p.at])))
     ELSE Set(b, [p EXCEPT !.link = "failed"])
  /\ OnlyPage

LoseConnection(b) ==
  /\ page[b].link = "up" /\ Hitch
  /\ Set(b, [page[b] EXCEPT !.link = "down"])
  /\ UNCHANGED <<shared, lineage, typist>>

\* The provider asks for a fresh token.  In the same epoch both sides exchange
\* what they lack; in another the session is replaced, and `ready` stays true.
Reconnect(b) ==
  LET p == page[b]
      both == Merged(p.doc, shared[p.at]) IN
  /\ p.link = "down"
  /\ IF p.epoch = lineage[p.at]
     THEN /\ Set(b, Synced(p, both))
          /\ shared' = [shared EXCEPT ![p.at] = both]
     ELSE /\ Set(b, NewSession(p))
          /\ UNCHANGED shared
  /\ UNCHANGED <<lineage, typist, hitches>>

\* Pending updates leave the window.
SendUpdates(b) ==
  LET p == page[b] IN
  /\ p.link = "up"
  /\ Merged(shared[p.at], p.doc) # shared[p.at]
  /\ shared' = [shared EXCEPT ![p.at] = Merged(@, p.doc)]
  /\ UNCHANGED <<page, lineage, typist, hitches>>

\* Updates of others arrive: applyRemote.
ReceiveUpdates(b) ==
  LET p == page[b] IN
  /\ p.link = "up"
  /\ Merged(p.doc, shared[p.at]) # p.doc
  /\ Set(b, Painted([p EXCEPT !.doc = Merged(@, shared[p.at])]))
  /\ OnlyPage

\* The server rewrites the document under a new epoch and closes its connections.
NewLineage(c) ==
  /\ Hitch
  /\ lineage' = [lineage EXCEPT ![c] = @ + 1]
  /\ page' = [b \in Browsers |->
       IF page[b].at = c /\ page[b].link = "up" THEN [page[b] EXCEPT !.link = "down"] ELSE page[b]]
  /\ UNCHANGED <<shared, typist>>

----------------------------------------------------------------------------
(* The editor.                                                             *)

\* mutate: without a synced document nothing is written and false is returned.
Mutated(p, before, after, b) ==
  IF p.synced THEN [p EXCEPT !.doc = Patched(@, before, after, b)] ELSE p

\* commitGraph
Committed(p, next, b) ==
  IF p.hydrating # Nowhere \/ p.at \notin p.readyFor THEN p
  ELSE Mutated([p EXCEPT !.nodes = next, !.shown = next], p.nodes, next, b)

\* pushHistory, kept for sixty steps: more than the bounds allow.
Remembered(p) == [p EXCEPT !.past = Append(@, p.shown), !.future = <<>>]

NextValue == Len(typist) + 1
Type(b) ==
  /\ MayHappen
  /\ typist' = Append(typist, b)
  /\ UNCHANGED <<shared, lineage, hitches>>

Edit(b, f) ==
  /\ page[b].nodes[f] # Blank
  /\ Set(b, Committed(Remembered(page[b]), [page[b].nodes EXCEPT ![f] = NextValue], b))
  /\ Type(b)

Restore ==
  /\ Hitch
  /\ UNCHANGED <<shared, lineage, typist>>

\* onNodesChange with a removal: the screen changes whether or not it is synced.
RemoveNode(b, f) ==
  LET p == Remembered(page[b])
      next == [p.nodes EXCEPT ![f] = Blank] IN
  /\ p.nodes[f] # Blank
  /\ Set(b, Mutated([p EXCEPT !.nodes = next, !.shown = next], p.nodes, next, b))
  /\ Restore

\* The whole graph of the snapshot comes back, changes of others included.
Undo(b) ==
  LET p == page[b] IN
  /\ p.past # <<>>
  /\ Set(b, Committed([p EXCEPT !.future = Append(@, p.shown), !.past = Front(@),
                                !.shown = Last(p.past)], Last(p.past), b))
  /\ Restore

Redo(b) ==
  LET p == page[b] IN
  /\ p.future # <<>>
  /\ Set(b, Committed([p EXCEPT !.past = Append(@, p.shown), !.future = Front(@),
                                !.shown = Last(p.future)], Last(p.future), b))
  /\ OnlyPage

\* The node will be dropped at a new position, or where it was.
StartDrag(b, f) ==
  /\ page[b].drag = NotDragging /\ page[b].nodes[f] # Blank
  /\ \E to \in {NextValue, page[b].nodes[f]} :
       /\ Set(b, [Remembered(page[b]) EXCEPT
                  !.drag = [base |-> page[b].nodes, field |-> f, to |-> to]])
       /\ IF to = NextValue THEN Type(b) ELSE Restore

\* onNodesChange with a position: the node moves on the screen alone.
Moved(p) ==
  LET f == p.drag.field
      next == [p.nodes EXCEPT ![f] = IF @ = Blank THEN @ ELSE p.drag.to] IN
  [p EXCEPT !.nodes = next, !.shown = next]
Drag(b) ==
  /\ page[b].drag # NotDragging
  /\ Set(b, Moved(page[b]))
  /\ OnlyPage

\* finishNodeDrag: once a position has changed, everything that differs from the
\* start of the drag is written.  A node that is back where it was is not,
\* although others may have moved it meanwhile.
Drop(b) ==
  LET before == page[b].drag.base
      f0 == page[b].drag.field
      p == [Moved(page[b]) EXCEPT !.drag = NotDragging,
              !.unwritten = IF page[b].drag.to = before[f0] THEN @ \cup {f0} ELSE @] IN
  /\ page[b].drag # NotDragging
  /\ Set(b, IF \E f \in Placed : before[f] # p.nodes[f]
            THEN Mutated(p, before, p.nodes, b) ELSE p)
  /\ OnlyPage

----------------------------------------------------------------------------
(* Switching.                                                              *)

\* applyLoadedProject: a copy from a cache or from the web application's
\* projection is painted, and the history begins anew.
Loaded(p, graph) ==
  [p EXCEPT !.nodes = graph, !.shown = graph, !.cache[p.at] = graph,
            !.past = <<>>, !.future = <<>>, !.unwritten = {}]

\* The session of another canvas begins, that of this one ends.
LeftSession(p, c) ==
  [p EXCEPT !.at = c, !.link = "fetching", !.doc = Entries(Empty, <<>>), !.epoch = 0,
            !.synced = FALSE, !.unwritten = {}]

\* switchProject: pending updates are flushed, the old session ends.  Without a
\* cached copy of the revision the screen is empty and the history is kept.
Switch(b, c) ==
  LET p == page[b]
      next == [LeftSession(p, c) EXCEPT !.hydrating = c, !.cache[p.at] = p.shown, !.cold = FALSE] IN
  /\ c # p.at /\ p.drag = NotDragging
  /\ Hitch
  /\ shared' = IF p.link = "up" THEN [shared EXCEPT ![p.at] = Merged(@, p.doc)] ELSE shared
  /\ \/ p.cache[c] # Empty /\ Set(b, Loaded(next, p.cache[c]))
     \/ Set(b, [next EXCEPT !.nodes = Empty, !.shown = Empty, !.cold = TRUE,
                            !.left = [at |-> p.at, shown |-> p.shown]])
  /\ UNCHANGED <<lineage, typist>>

\* The timer of a cold switch: the projection, perhaps an old one, while the
\* document has not arrived.
LoadProjection(b) ==
  LET p == page[b] IN
  /\ p.cold /\ p.hydrating = p.at
  /\ \E graph \in {FirstGraph(p.at), GraphOf(shared[p.at])} :
       Set(b, Loaded([p EXCEPT !.cold = FALSE], graph))
  /\ OnlyPage

\* It finds no project: restorePreviousProject, whose session begins anew, while
\* the lists of projects and workspaces are fetched.  (No node is there to drag.)
LoadFails(b) ==
  LET p == page[b] IN
  /\ p.cold /\ p.hydrating = p.at /\ p.drag = NotDragging
  /\ Hitch
  /\ Set(b, [LeftSession(p, p.left.at) EXCEPT !.nodes = p.left.shown, !.shown = p.left.shown,
                                        !.cold = FALSE, !.refetching = @ + 1])
  /\ UNCHANGED <<shared, lineage, typist>>

\* The lists are there: projectHydratingIdRef is cleared, whichever canvas it names.
ListsFetched(b) ==
  /\ page[b].refetching > 0
  /\ Set(b, [page[b] EXCEPT !.refetching = @ - 1, !.hydrating = Nowhere])
  /\ OnlyPage

WindowNext ==
  \/ \E b \in Browsers :
       \/ FetchToken(b) \/ TokenFails(b) \/ RetrySession(b) \/ Join(b)
       \/ LoseConnection(b) \/ Reconnect(b) \/ SendUpdates(b) \/ ReceiveUpdates(b)
       \/ Undo(b) \/ Redo(b) \/ Drag(b) \/ Drop(b) \/ LoadProjection(b)
       \/ LoadFails(b) \/ ListsFetched(b)
       \/ \E f \in Fields : Edit(b, f) \/ RemoveNode(b, f)
       \/ \E f \in Placed : StartDrag(b, f)
       \/ \E c \in Canvases : Switch(b, c)
  \/ \E c \in Canvases : NewLineage(c)

WindowSpec == WindowInit /\ [][WindowNext]_windowVars

----------------------------------------------------------------------------
(* Properties.                                                             *)

\* The screen of a window whose document is synced shows that document, apart
\* from the node that is being dragged, and from one that was dropped where it
\* was picked up until the next update is painted: through lost connections, new
\* epochs, late tokens, stale copies painted first, failed switches and edits
\* nobody could send.
ScreenIsDocument ==
  \A b \in Browsers : page[b].synced /\ page[b].drag = NotDragging =>
    \A f \in Fields \ page[b].unwritten : page[b].nodes[f] = page[b].doc[f].value

\* What a window writes into the document is what its own user made ("Apply only
\* the fields that changed in the local UI", collaboration-document.ts:41).
OnlyOwnChangesWritten ==
  \A b \in Browsers : \A f \in Fields :
    LET entry == page[b].doc[f] IN
    entry.by # <<>> /\ entry.value > 0 => Last(entry.by) = typist[entry.value]
=============================================================================
