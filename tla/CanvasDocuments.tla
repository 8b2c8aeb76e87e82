--------------------------- MODULE CanvasDocuments ---------------------------
(***************************************************************************)
(* One collaborative canvas: its row in collaboration_documents, the       *)
(* journal of updates, the projection outbox, the copy of the canvas in    *)
(* the web application's database, and the replicas of the collaboration   *)
(* server (collaboration/server.mjs) that hold it open in memory.          *)
(*                                                                         *)
(* A document is the set of edits it shows and the set of lineages it was  *)
(* built from.  A checkpoint writes the same canvas into a fresh Yjs       *)
(* document, a new lineage named by its epoch; an update made on one       *)
(* lineage shows only in documents that hold that lineage (Yjs keeps it    *)
(* aside).  Hocuspocus, Redis and Yjs are external and appear as           *)
(* server.mjs uses them: rooms loaded on demand, one store in progress per *)
(* room, updates of other replicas delivered late and never stored by the  *)
(* replica that only received them.                                        *)
(***************************************************************************)
EXTENDS Integers, FiniteSets, FiniteSetsExt

CONSTANTS
  Replicas,      \* processes of the collaboration server
  Nobody,        \* locked_by IS NULL
  UserEdits,     \* updates made in browsers
  ServiceEdits,  \* updates made through the internal API
  MaxTroubles,   \* bound: crashes, failed stores, failed or late mirrors
  MaxCheckpoints \* bound: checkpoints begun

ASSUME CanvasAssumption ==
  /\ Nobody \notin Replicas
  /\ IsFiniteSet(UserEdits) /\ IsFiniteSet(ServiceEdits)
  /\ UserEdits \cap ServiceEdits = {}
  /\ MaxTroubles \in Nat /\ MaxCheckpoints \in Nat

Edits == UserEdits \cup ServiceEdits

VARIABLES
  project,       \* the projects row: live, its trigger's deletion, eviction
  document,      \* the collaboration_documents row
  journal,       \* collaboration_document_updates
  lastJournaled, \* history: the largest id the journal has given
  outbox,        \* the collaboration_projection_outbox row
  web,           \* project_snapshots: source_revision and graph
  load,          \* loadDocumentState in progress, by replica
  room,          \* the document a replica holds in memory
  session,       \* epoch of a replica's live connection, or 0
  journaling,    \* edits journaled by a replica and not applied yet
  bus,           \* updates published to the other replicas
  store,         \* persistDocument in progress, by replica
  mirror,        \* the outbox row a replica is sending
  checkpoint,    \* the replica running compactCollaborationDocument
  closing,       \* replicas that have a close-document message to handle
  accepted,      \* history: edits acknowledged to their author
  calm,          \* history: no fault, no checkpoint, one replica open or opening
  reseeded,      \* history: a bootstrap that lost wrote the outbox
  troubles,      \* history: faults so far
  checkpoints    \* history: checkpoints begun so far

rowVars    == <<project, document, journal, lastJournaled, outbox, web>>
roomVars   == <<load, room, session, journaling, bus, store>>
workerVars == <<mirror, checkpoint, closing>>
pastVars   == <<accepted, calm, reseeded, troubles, checkpoints>>
canvasVars == <<project, document, journal, lastJournaled, outbox, web, load, room,
          session, journaling, bus, store, mirror, checkpoint, closing,
          accepted, calm, reseeded, troubles, checkpoints>>

Document == [exists : BOOLEAN, edits : SUBSET Edits, lineages : SUBSET Nat,
             revision : Nat, lastId : Nat, epoch : Nat, compacting : BOOLEAN]
Update  == [id : Nat, edit : Edits, lineages : SUBSET Nat]
Message == [to : Replicas, edit : Edits, lineages : SUBSET Nat]
Outbox  == [waiting : BOOLEAN, revision : Nat, edits : SUBSET Edits,
            lockedBy : Replicas \cup {Nobody}]
Loading == [phase : {"idle", "fetched", "replay"},
            edits : SUBSET Edits, lineages : SUBSET Nat, lastId : Nat]
\* epoch: documentEpoch of lastContext, 0 when the last writer had none.
Room    == [loaded : BOOLEAN, edits : SUBSET Edits, lineages : SUBSET Nat,
            dirty : BOOLEAN, epoch : Nat]
Store   == [phase : {"idle", "encoded", "locked"}, edits : SUBSET Edits,
            lineages : SUBSET Nat, epoch : Nat]
Mirror  == [phase : {"idle", "claimed", "sent"}, revision : Nat,
            edits : SUBSET Edits]

CanvasTypeOK ==
  /\ project \in {"live", "retired", "evicted"}
  /\ document \in Document
  /\ journal \subseteq Update
  /\ lastJournaled \in Nat
  /\ outbox \in Outbox
  /\ web \in [revision : Nat, edits : SUBSET Edits]
  /\ load \in [Replicas -> Loading]
  /\ room \in [Replicas -> Room]
  /\ session \in [Replicas -> Nat]
  /\ journaling \in [Replicas -> SUBSET Edits]
  /\ bus \subseteq Message
  /\ store \in [Replicas -> Store]
  /\ mirror \in [Replicas -> Mirror]
  /\ checkpoint \in Replicas \cup {Nobody}
  /\ closing \subseteq Replicas
  /\ accepted \subseteq Edits
  /\ calm \in BOOLEAN
  /\ reseeded \in BOOLEAN
  /\ troubles \in Nat
  /\ checkpoints \in Nat

NoDocument == [exists |-> FALSE, edits |-> {}, lineages |-> {}, revision |-> 0,
               lastId |-> 0, epoch |-> 1, compacting |-> FALSE]
NotLoading == [phase |-> "idle", edits |-> {}, lineages |-> {}, lastId |-> 0]
NoRoom     == [loaded |-> FALSE, edits |-> {}, lineages |-> {},
               dirty |-> FALSE, epoch |-> 0]
NoStore    == [phase |-> "idle", edits |-> {}, lineages |-> {}, epoch |-> 0]
NoMirror   == [phase |-> "idle", revision |-> 0, edits |-> {}]

\* A project made before it was ever opened in the collaboration server.
CanvasInit ==
  /\ project = "live"
  /\ document = NoDocument
  /\ journal = {} /\ lastJournaled = 0
  /\ outbox = [waiting |-> FALSE, revision |-> 0, edits |-> {},
               lockedBy |-> Nobody]
  /\ web = [revision |-> 0, edits |-> {}]
  /\ load = [r \in Replicas |-> NotLoading]
  /\ room = [r \in Replicas |-> NoRoom]
  /\ session = [r \in Replicas |-> 0]
  /\ journaling = [r \in Replicas |-> {}]
  /\ bus = {}
  /\ store = [r \in Replicas |-> NoStore]
  /\ mirror = [r \in Replicas |-> NoMirror]
  /\ checkpoint = Nobody
  /\ closing = {}
  /\ accepted = {}
  /\ calm = TRUE
  /\ reseeded = FALSE
  /\ troubles = 0
  /\ checkpoints = 0

-----------------------------------------------------------------------------
(* Helpers shared by several handlers.                                     *)

Tombstone == project # "live"

\* A fault: counted, so that a behaviour has few of them.
Trouble ==
  /\ troubles < MaxTroubles
  /\ troubles' = troubles + 1
  /\ calm' = FALSE

\* Whether an update made on some lineages shows in a document.
Shows(lineages, u) == u.lineages \subseteq lineages

\* The rows loadDocumentState and compactCollaborationDocument replay.
Replayed(lineages, lastId) ==
  {u.edit : u \in {v \in journal : v.id > lastId /\ Shows(lineages, v)}}

\* journalDocumentUpdate: nothing for a tombstone, nothing for an update the
\* journal already holds.
Journal(e, lineages) ==
  IF Tombstone \/ \E u \in journal : u.edit = e /\ u.lineages = lineages
    THEN UNCHANGED <<journal, lastJournaled>>
    ELSE /\ lastJournaled' = lastJournaled + 1
         /\ journal' = journal \cup
              {[id |-> lastJournaled + 1, edit |-> e, lineages |-> lineages]}

\* The outbox upsert: newest graph, attempts and lock cleared.
Upserted(revision, edits) ==
  [waiting |-> TRUE, revision |-> revision, edits |-> edits,
   lockedBy |-> Nobody]

\* Replicas in a transaction that holds the document's advisory lock.
Locked == {r \in Replicas : store[r].phase = "locked"}

\* What opening the canvas anew would show.
Recoverable ==
  IF document.exists
    THEN document.edits \cup Replayed(document.lineages, document.lastId)
    ELSE {}

NewestId == Max({0} \cup {u.id : u \in journal})

-----------------------------------------------------------------------------
(* Opening a canvas: onAuthenticate, loadDocumentState, connected.         *)

\* What loadDocumentState has read of the row before it reads the journal.
RowRead(row) == [phase |-> "replay", edits |-> row.edits,
                 lineages |-> row.lineages, lastId |-> row.lastId]

\* The seed made from the web application's copy.
Seed == [NoDocument EXCEPT !.exists = TRUE, !.lineages = {1}, !.revision = 1]

\* The tombstone check, and the row, or the graph to make it from.  A token is
\* not verified while a checkpoint is under way, but a direct connection has
\* none, and the mark may come between the verification and the load.
OpenRoom(r) ==
  /\ ~ Tombstone
  /\ ~ room[r].loaded
  /\ load[r].phase = "idle"
  /\ load' = [load EXCEPT ![r] =
       IF document.exists THEN RowRead(document)
       ELSE [@ EXCEPT !.phase = "fetched"]]
  /\ calm' = (calm /\ \A q \in Replicas \ {r} : ~ room[q].loaded /\ load[q].phase = "idle")
  /\ UNCHANGED <<rowVars, room, session, journaling, bus, store, workerVars,
                 accepted, reseeded, troubles, checkpoints>>

\* The bootstrap transaction: the document only if there is none, the outbox
\* row in any case; then the row that won is read.
Bootstrap(r) ==
  /\ load[r].phase = "fetched"
  /\ LET winner == IF document.exists THEN document ELSE Seed IN
       /\ document' = winner
       /\ load' = [load EXCEPT ![r] = RowRead(winner)]
  /\ reseeded' = (reseeded \/ document.exists)
  /\ outbox' = Upserted(1, {})
  /\ UNCHANGED <<project, journal, lastJournaled, web, room, session,
                 journaling, bus, store, workerVars, accepted, calm, troubles,
                 checkpoints>>

\* What a room and the rooms it finds open tell each other when it joins.
Joined(r, replayed) ==
  LET others   == {q \in Replicas \ {r} : room[q].loaded}
      edits    == load[r].edits \cup replayed
                    \cup UNION {room[q].edits : q \in others}
      lineages == load[r].lineages \cup UNION {room[q].lineages : q \in others}
  IN [q \in Replicas |->
        IF q = r THEN [NoRoom EXCEPT !.loaded = TRUE, !.edits = edits,
                                     !.lineages = lineages]
        ELSE IF q \in others
          THEN [room[q] EXCEPT !.edits = edits, !.lineages = lineages]
        ELSE room[q]]

\* The journal is replayed on the state, and the room is live.
JoinRoom(r) ==
  /\ load[r].phase = "replay"
  /\ load' = [load EXCEPT ![r] = NotLoading]
  /\ room' = Joined(r, Replayed(load[r].lineages, load[r].lastId))
  /\ UNCHANGED <<rowVars, session, journaling, bus, store, workerVars, pastVars>>

\* The token route and `connected`: a session of the current epoch.
Connect(r) ==
  /\ room[r].loaded
  /\ ~ Tombstone
  /\ ~ document.compacting
  /\ session[r] = 0
  /\ session' = [session EXCEPT ![r] = document.epoch]
  /\ UNCHANGED <<rowVars, load, room, journaling, bus, store, workerVars,
                 pastVars>>

\* onDisconnect, a token that is not refreshed, access that is revoked.
Disconnect(r) ==
  /\ session[r] # 0
  /\ session' = [session EXCEPT ![r] = 0]
  /\ UNCHANGED <<rowVars, load, room, journaling, bus, store, workerVars,
                 pastVars>>

-----------------------------------------------------------------------------
(* Editing.                                                                *)

Fresh(e) ==
  /\ \A r \in Replicas : e \notin journaling[r]
  /\ \A u \in journal : u.edit # e
  /\ e \notin accepted \cup document.edits
  /\ \A r \in Replicas : e \notin room[r].edits

\* beforeSync: the journal write is awaited before anything else.
Receive(r, e) ==
  /\ session[r] # 0 /\ room[r].loaded
  /\ Fresh(e)
  /\ Journal(e, room[r].lineages)
  /\ journaling' = [journaling EXCEPT ![r] = @ \cup {e}]
  /\ UNCHANGED <<project, document, outbox, web, load, room, session, bus,
                 store, workerVars, pastVars>>

PublishDocument(r, e) ==
  bus' = bus \cup {[to |-> q, edit |-> e, lineages |-> room[r].lineages] :
                     q \in {p \in Replicas \ {r} : room[p].loaded}}

\* The update is applied, the store scheduled, the author answered; onChange
\* journals it once more.
Apply(r, e) ==
  /\ e \in journaling[r]
  /\ journaling' = [journaling EXCEPT ![r] = @ \ {e}]
  /\ room[r].loaded
  /\ \E epoch \in {session[r], room[r].epoch} :
       room' = [room EXCEPT ![r].edits = @ \cup {e}, ![r].dirty = TRUE,
                            ![r].epoch = epoch]
  /\ accepted' = accepted \cup {e}
  /\ PublishDocument(r, e)
  /\ Journal(e, room[r].lineages)
  /\ UNCHANGED <<project, document, outbox, web, load, session, store,
                 workerVars, calm, reseeded, troubles, checkpoints>>

\* PUT /internal/documents/{id} and the numbering of nodes on load: a direct
\* connection, whose context has no epoch.  Nothing awaits the journal.
ServiceWrite(r, e) ==
  /\ room[r].loaded
  /\ Fresh(e)
  /\ room' = [room EXCEPT ![r].edits = @ \cup {e}, ![r].dirty = TRUE,
                          ![r].epoch = 0]
  /\ PublishDocument(r, e)
  /\ Journal(e, room[r].lineages)
  /\ accepted' = accepted \cup {e}
  /\ UNCHANGED <<project, document, outbox, web, load, session, journaling,
                 store, workerVars, calm, reseeded, troubles, checkpoints>>

\* An update of another replica: shown if its lineage is known, journaled by
\* onChange, not stored.
Deliver(m) ==
  /\ bus' = bus \ {m}
  /\ IF room[m.to].loaded
       THEN /\ room' = [room EXCEPT ![m.to].edits =
                 IF Shows(room[m.to].lineages, m) THEN @ \cup {m.edit} ELSE @]
            /\ Journal(m.edit, m.lineages)
       ELSE UNCHANGED <<room, journal, lastJournaled>>
  /\ UNCHANGED <<project, document, outbox, web, load, session, journaling,
                 store, workerVars, pastVars>>

-----------------------------------------------------------------------------
(* persistDocument and the life of a room.                                 *)

\* state and graph are encoded before the transaction.
Encode(r) ==
  /\ room[r].loaded /\ room[r].dirty
  /\ store[r].phase = "idle"
  /\ store' = [store EXCEPT ![r] =
       [phase |-> "encoded", edits |-> room[r].edits,
        lineages |-> room[r].lineages, epoch |-> room[r].epoch]]
  /\ room' = [room EXCEPT ![r].dirty = FALSE]
  /\ UNCHANGED <<rowVars, load, session, journaling, bus, workerVars,
                 pastVars>>

\* The advisory lock, then the tombstone.
LockStore_AnyProject(r) ==
  /\ store[r].phase = "encoded"
  /\ Locked = {}
  /\ store' = [store EXCEPT ![r].phase = "locked"]
  /\ UNCHANGED <<rowVars, load, room, session, journaling, bus, workerVars,
                 pastVars>>

LockStore(r) ==
  /\ store[r].phase = "encoded"
  /\ Locked = {}
  /\ store' = [store EXCEPT ![r] =
       IF Tombstone THEN NoStore ELSE [@ EXCEPT !.phase = "locked"]]
  /\ UNCHANGED <<rowVars, load, room, session, journaling, bus, workerVars,
                 pastVars>>

\* A checkpoint has begun, or ended, since the document was read.
Overtaken(r) ==
  /\ document.exists
  /\ \/ document.compacting
     \/ store[r].epoch # 0 /\ store[r].epoch # document.epoch

SameState(r) ==
  /\ document.exists
  /\ document.edits = store[r].edits
  /\ document.lineages = store[r].lineages

\* The row is read for update and written with the newest journal id.  The
\* row is gone when the project was deleted after the lock was taken.
CommitStore_ClearsDirty(r) ==
  /\ store[r].phase = "locked"
  /\ store' = [store EXCEPT ![r] = NoStore]
  /\ room' = [room EXCEPT ![r].dirty = FALSE]
  /\ document' = [document EXCEPT
       !.exists = TRUE, !.edits = store[r].edits,
       !.lineages = store[r].lineages, !.revision = @ + 1,
       !.lastId = NewestId]
  /\ outbox' = Upserted(document.revision + 1, store[r].edits)
  /\ UNCHANGED <<project, journal, lastJournaled, web, load,
                 session, journaling, bus, workerVars, pastVars>>

CommitStore(r) ==
  /\ store[r].phase = "locked"
  /\ store' = [store EXCEPT ![r] = NoStore]
  /\ IF Overtaken(r) THEN UNCHANGED <<document, outbox>>
     ELSE IF SameState(r)
       THEN /\ document' = [document EXCEPT !.lastId = Max({@, NewestId})]
            /\ UNCHANGED outbox
     ELSE /\ document' = [document EXCEPT
               !.exists = TRUE, !.edits = store[r].edits,
               !.lineages = store[r].lineages, !.revision = @ + 1,
               !.lastId = NewestId]
          /\ outbox' = Upserted(document.revision + 1, store[r].edits)
  /\ UNCHANGED <<project, journal, lastJournaled, web, load, room, session,
                 journaling, bus, workerVars, pastVars>>

\* The transaction fails and is rolled back; the room stays as it is.
FailStore(r) ==
  /\ store[r].phase # "idle"
  /\ store' = [store EXCEPT ![r] = NoStore]
  /\ Trouble
  /\ UNCHANGED <<rowVars, load, room, session, journaling, bus, workerVars,
                 accepted, reseeded, checkpoints>>

\* The last connection is gone and nothing waits to be stored.
Unload(r) ==
  /\ room[r].loaded /\ ~ room[r].dirty
  /\ session[r] = 0 /\ journaling[r] = {}
  /\ store[r].phase = "idle"
  /\ room' = [room EXCEPT ![r] = NoRoom]
  /\ UNCHANGED <<rowVars, load, session, journaling, bus, store, workerVars,
                 pastVars>>

\* A replica's process dies and starts again.
Crash(r) ==
  /\ load' = [load EXCEPT ![r] = NotLoading]
  /\ room' = [room EXCEPT ![r] = NoRoom]
  /\ session' = [session EXCEPT ![r] = 0]
  /\ journaling' = [journaling EXCEPT ![r] = {}]
  /\ store' = [store EXCEPT ![r] = NoStore]
  /\ mirror' = [mirror EXCEPT ![r] = NoMirror]
  /\ checkpoint' = IF checkpoint = r THEN Nobody ELSE checkpoint
  /\ closing' = closing \ {r}
  /\ bus' = {m \in bus : m.to # r}
  /\ Trouble
  /\ UNCHANGED <<rowVars, accepted, reseeded, checkpoints>>

\* pruneCollaborationHistory: rows the stored state is said to contain, kept
\* for days, longer than any load or store takes.
Prune ==
  /\ document.exists
  /\ \A r \in Replicas : load[r].phase = "idle" /\ store[r].phase = "idle"
                         /\ ~ room[r].dirty
  /\ journal' = {u \in journal : u.id > document.lastId}
  /\ journal' # journal
  /\ UNCHANGED <<project, document, lastJournaled, outbox, web, roomVars,
                 workerVars, pastVars>>

-----------------------------------------------------------------------------
(* flushMirrorOutbox and the mirror route of the web application.          *)

\* A row is claimed when it is unlocked, or its lock is older than a minute:
\* a replica sends up to twenty rows, ten seconds each, under one claim.
ClaimProjection(r) ==
  /\ mirror[r].phase = "idle"
  /\ outbox.waiting
  /\ \/ outbox.lockedBy = Nobody /\ UNCHANGED troubles
     \/ /\ outbox.lockedBy # Nobody
        /\ troubles < MaxTroubles /\ troubles' = troubles + 1
  /\ outbox' = [outbox EXCEPT !.lockedBy = r]
  /\ mirror' = [mirror EXCEPT ![r] =
       [phase |-> "claimed", revision |-> outbox.revision,
        edits |-> outbox.edits]]
  /\ UNCHANGED <<project, document, journal, lastJournaled, web, roomVars,
                 checkpoint, closing, accepted, calm, reseeded, checkpoints>>

\* writeProjectGraphSnapshot: an older source revision is answered and left.
SendProjection_AnyRevision(r) ==
  /\ mirror[r].phase = "claimed"
  /\ project = "live"
  /\ mirror' = [mirror EXCEPT ![r].phase = "sent"]
  /\ web' = [revision |-> mirror[r].revision, edits |-> mirror[r].edits]
  /\ UNCHANGED <<project, document, journal, lastJournaled, outbox, roomVars,
                 checkpoint, closing, pastVars>>

SendProjection(r) ==
  /\ mirror[r].phase = "claimed"
  /\ project = "live"
  /\ mirror' = [mirror EXCEPT ![r].phase = "sent"]
  /\ web' = IF web.revision >= mirror[r].revision THEN web
            ELSE [revision |-> mirror[r].revision, edits |-> mirror[r].edits]
  /\ UNCHANGED <<project, document, journal, lastJournaled, outbox, roomVars,
                 checkpoint, closing, pastVars>>

\* The row is deleted if it still is what was sent.
FinishProjection_AnyRevision(r) ==
  /\ mirror[r].phase = "sent"
  /\ mirror' = [mirror EXCEPT ![r] = NoMirror]
  /\ outbox' = [outbox EXCEPT !.waiting = FALSE, !.lockedBy = Nobody]
  /\ UNCHANGED <<project, document, journal, lastJournaled, web, roomVars,
                 checkpoint, closing, pastVars>>

StillMine(r) ==
  /\ outbox.waiting
  /\ outbox.revision = mirror[r].revision
  /\ outbox.lockedBy = r

FinishProjection(r) ==
  /\ mirror[r].phase = "sent"
  /\ mirror' = [mirror EXCEPT ![r] = NoMirror]
  /\ outbox' = IF StillMine(r)
       THEN [waiting |-> FALSE, revision |-> 0, edits |-> {},
             lockedBy |-> Nobody]
       ELSE outbox
  /\ UNCHANGED <<project, document, journal, lastJournaled, web, roomVars,
                 checkpoint, closing, pastVars>>

\* The call failed, or its answer came too late.
FailProjection(r) ==
  /\ mirror[r].phase # "idle"
  /\ mirror' = [mirror EXCEPT ![r] = NoMirror]
  /\ outbox' = IF StillMine(r) THEN [outbox EXCEPT !.lockedBy = Nobody]
               ELSE outbox
  /\ troubles < MaxTroubles /\ troubles' = troubles + 1
  /\ UNCHANGED <<project, document, journal, lastJournaled, web, roomVars,
                 checkpoint, closing, accepted, calm, reseeded, checkpoints>>

-----------------------------------------------------------------------------
(* compactCollaborationDocument.                                           *)

\* The mark is committed, this replica's session closed, the others told.
MarkCheckpoint(r) ==
  /\ checkpoint = Nobody
  /\ document.exists /\ ~ document.compacting
  /\ document' = [document EXCEPT !.compacting = TRUE]
  /\ checkpoint' = r
  /\ session' = [session EXCEPT ![r] = 0]
  /\ closing' = Replicas \ {r}
  /\ checkpoints < MaxCheckpoints /\ checkpoints' = checkpoints + 1
  /\ calm' = FALSE
  /\ UNCHANGED <<project, journal, lastJournaled, outbox, web, load, room,
                 journaling, bus, store, mirror, accepted, reseeded, troubles>>

\* The close-document message, which may come after the checkpoint.
CloseSessions(r) ==
  /\ r \in closing
  /\ closing' = closing \ {r}
  /\ session' = [session EXCEPT ![r] = 0]
  /\ UNCHANGED <<rowVars, load, room, journaling, bus, store, mirror,
                 checkpoint, pastVars>>

\* The journal is folded into a fresh document of the next epoch.
Checkpoint(r) ==
  /\ checkpoint = r
  /\ Locked = {}
  /\ checkpoint' = Nobody
  /\ IF document.exists /\ document.compacting
       THEN LET upTo == Max({document.lastId} \cup
                         {u.id : u \in {v \in journal : v.id > document.lastId}})
            IN /\ document' = [document EXCEPT
                    !.edits = Recoverable, !.lineages = {document.epoch + 1},
                    !.revision = @ + 1, !.lastId = upTo,
                    !.epoch = @ + 1, !.compacting = FALSE]
               /\ journal' = {u \in journal : u.id > upTo}
               /\ outbox' = Upserted(document.revision + 1, Recoverable)
       ELSE UNCHANGED <<document, journal, outbox>>
  /\ UNCHANGED <<project, lastJournaled, web, roomVars, mirror, closing,
                 pastVars>>

\* The transaction fails: the mark is taken off.
FailCheckpoint(r) ==
  /\ checkpoint = r
  /\ checkpoint' = Nobody
  /\ document' = [document EXCEPT !.compacting = FALSE]
  /\ UNCHANGED <<project, journal, lastJournaled, outbox, web, roomVars,
                 mirror, closing, pastVars>>

-----------------------------------------------------------------------------
(* Deleting the project.                                                   *)

\* DELETE /api/projects/{id}: the trigger leaves a tombstone and deletes the
\* canvas, without the advisory lock.
Retire ==
  /\ project = "live"
  /\ project' = "retired"
  /\ document' = NoDocument
  /\ journal' = {}
  /\ outbox' = [waiting |-> FALSE, revision |-> 0, edits |-> {},
                lockedBy |-> Nobody]
  /\ UNCHANGED <<lastJournaled, web, roomVars, workerVars, pastVars>>

\* DELETE /internal/documents/{id}, called by the route afterwards.
Evict(r) ==
  /\ project = "retired"
  /\ Locked = {}
  /\ project' = "evicted"
  /\ document' = NoDocument
  /\ journal' = {}
  /\ outbox' = [waiting |-> FALSE, revision |-> 0, edits |-> {},
                lockedBy |-> Nobody]
  /\ session' = [session EXCEPT ![r] = 0]
  /\ closing' = Replicas \ {r}
  /\ UNCHANGED <<lastJournaled, web, load, room, journaling, bus, store,
                 mirror, checkpoint, pastVars>>

-----------------------------------------------------------------------------
Opening(r)    == OpenRoom(r) \/ Bootstrap(r) \/ JoinRoom(r)
Storing(r)    == Encode(r) \/ LockStore(r) \/ CommitStore(r)
Projecting(r) ==
  ClaimProjection(r) \/ SendProjection(r) \/ FinishProjection(r)
Checkpointing(r) ==
  MarkCheckpoint(r) \/ CloseSessions(r) \/ Checkpoint(r) \/ FailCheckpoint(r)

CanvasNext ==
  \/ \E r \in Replicas :
       \/ Opening(r) \/ Connect(r) \/ Disconnect(r)
       \/ \E e \in UserEdits : Receive(r, e) \/ Apply(r, e)
       \/ \E e \in ServiceEdits : ServiceWrite(r, e)
       \/ Storing(r) \/ FailStore(r) \/ Unload(r) \/ Crash(r)
       \/ Projecting(r) \/ FailProjection(r)
       \/ Checkpointing(r) \/ Evict(r)
  \/ \E m \in bus : Deliver(m)
  \/ Prune
  \/ Retire

Safe == CanvasInit /\ [][CanvasNext]_canvasVars

\* The store is debounced and its queue emptied, the mirror runs every two
\* seconds in every replica; a message that was received is handled.
CanvasFairness ==
  \A r \in Replicas :
    /\ \A e \in UserEdits : WF_canvasVars(Apply(r, e))
    /\ WF_canvasVars(Encode(r)) /\ WF_canvasVars(LockStore(r)) /\ WF_canvasVars(CommitStore(r))
    /\ WF_canvasVars(ClaimProjection(r)) /\ WF_canvasVars(SendProjection(r))
    /\ WF_canvasVars(FinishProjection(r))

CanvasSpec == Safe /\ CanvasFairness

-----------------------------------------------------------------------------
(* Properties.                                                             *)

\* What a replica will still store: an edit in a room that waits for its
\* store, or in a store that is not overtaken.
WillBeStored(e) ==
  \E r \in Replicas :
    \/ room[r].dirty /\ e \in room[r].edits
    \/ store[r].phase # "idle" /\ e \in store[r].edits

\* While one replica at a time has the canvas open or opening and nothing fails, every
\* acknowledged edit is in the stored state, in the part of the journal that
\* will be replayed, or in a document that is about to be stored: no edit
\* falls between the encoded state and the journal id it is stored with
\* (persistDocument reads the state before the transaction, the id inside).
AcceptedIsHeld ==
  calm /\ project = "live" =>
    \A e \in accepted : e \in Recoverable \/ WillBeStored(e)

\* What the comment of beforeSync says of a crash: an accepted operation is
\* always in the stored state or replayed after it.
AcceptedIsRecoverable ==
  project = "live" => accepted \subseteq Recoverable

\* When no projection waits, the web application's copy of the canvas is the
\* stored one: claims that overlap, late answers and stores in between never
\* lose the newest graph.  A bootstrap that lost to another replica breaks
\* this; reseeded excludes it by name.
NothingLeftToProject ==
  project = "live" /\ document.exists /\ ~ outbox.waiting /\ ~ reseeded =>
    web = [revision |-> document.revision, edits |-> document.edits]

\* Once the collaboration server has evicted a deleted canvas, no edit of it
\* is stored, journaled or waits to be projected, whatever stores, loads and
\* sockets were under way; a late bootstrap can leave an empty row at most.
EvictedStaysGone ==
  project = "evicted" =>
    document.edits = {} /\ journal = {} /\ outbox.edits = {}

\* The web application's copy never goes back to an older revision.
ProjectionNeverGoesBack ==
  [][web'.revision >= web.revision]_canvasVars

\* An edit accepted on a calm canvas reaches the web application's copy.
EveryEditIsProjected ==
  \A e \in Edits :
    e \in accepted ~> (e \in web.edits \/ ~ calm \/ project # "live"
                       \/ reseeded)
=============================================================================
