---------------------------- MODULE EditorProofs ----------------------------
(***************************************************************************)
(* Proofs about the editor: the shared canvas documents, for every set of  *)
(* replicas and of edits; the canvas in the browser, for every set of      *)
(* windows, canvases and fields; and the player of the timeline, for every *)
(* set of scenes.                                                          *)
(***************************************************************************)
EXTENDS CanvasDocuments, CanvasWindow, SegmentedVideo, TLAPS

\* The journal is deleted from its old end only, so its newest row is the last
\* one written; a document covers no row that was never written.
JournalIsSuffix ==
  /\ document.lastId <= lastJournaled
  /\ \A u \in journal : u.id <= lastJournaled
  /\ journal = {} \/ \E u \in journal : u.id = lastJournaled

TypeInv == CanvasTypeOK /\ JournalIsSuffix

-----------------------------------------------------------------------------
(* The largest journal id.                                                 *)

\* An upper bound that is a member is the maximum.
LEMMA MaxIsMember ==
  ASSUME NEW S \in SUBSET Nat, NEW m \in S, \A x \in S : x <= m
  PROVE  Max(S) = m
<1>1. \A y \in S : m >= y
  OBVIOUS
<1>2. Max(S) \in S /\ \A y \in S : Max(S) >= y
  BY <1>1, Zenon DEF Max
<1>3. ASSUME NEW k \in S, \A y \in S : k >= y
      PROVE  k = m
  BY <1>3
<1> QED
  BY <1>2, <1>3

\* persistDocument covers the journal up to its last row, or nothing.
LEMMA NewestIsLast ==
  ASSUME TypeInv
  PROVE  NewestId = IF journal = {} THEN 0 ELSE lastJournaled
<1> DEFINE ids == {0} \cup {u.id : u \in journal}
<1>1. ids \subseteq Nat
  BY DEF TypeInv, CanvasTypeOK, Update
<1>2. CASE journal = {}
  <2>1. ids = {0}
    BY <1>2
  <2> QED
    BY <1>2, <2>1, MaxIsMember DEF NewestId
<1>3. CASE journal # {}
  <2>1. lastJournaled \in ids /\ \A x \in ids : x <= lastJournaled
    BY <1>3 DEF TypeInv, CanvasTypeOK, JournalIsSuffix
  <2>2. Max(ids) = lastJournaled
    BY <1>1, <2>1, MaxIsMember
  <2> QED
    BY <1>3, <2>2 DEF NewestId
<1> QED
  BY <1>2, <1>3

\* Checkpoints cover the journal up to its last row, or add nothing.
LEMMA CheckpointCovers ==
  ASSUME TypeInv
  PROVE  LET later == {v \in journal : v.id > document.lastId}
             upTo == Max({document.lastId} \cup {u.id : u \in later})
         IN  /\ upTo \in Nat
             /\ upTo <= lastJournaled
             /\ journal = {} \/ upTo = lastJournaled
<1> DEFINE later == {v \in journal : v.id > document.lastId}
           ids   == {document.lastId} \cup {u.id : u \in later}
<1>1. ids \subseteq Nat
  BY DEF TypeInv, CanvasTypeOK, Update, Document
<1>2. CASE later = {}
  <2>1. document.lastId \in ids /\ \A x \in ids : x <= document.lastId
    BY <1>1, <1>2
  <2>2. Max(ids) = document.lastId
    BY <1>1, <2>1, MaxIsMember
  <2>3. journal = {} \/ document.lastId = lastJournaled
    BY <1>2 DEF TypeInv, CanvasTypeOK, JournalIsSuffix, Update, Document
  <2> QED
    BY <1>1, <2>2, <2>3 DEF TypeInv, CanvasTypeOK, JournalIsSuffix
<1>3. CASE later # {}
  <2>1. /\ lastJournaled \in ids
        /\ \A x \in ids : x <= lastJournaled
    <3>1. PICK u \in journal : u.id = lastJournaled
      BY <1>3 DEF TypeInv, JournalIsSuffix
    <3>2. PICK v \in later : TRUE
      BY <1>3
    <3>3. u \in later
      BY <3>1, <3>2 DEF TypeInv, CanvasTypeOK, JournalIsSuffix, Update, Document
    <3> QED
      BY <3>1, <3>3 DEF TypeInv, CanvasTypeOK, JournalIsSuffix
  <2>2. Max(ids) = lastJournaled
    BY <1>1, <2>1, MaxIsMember
  <2> QED
    BY <2>2 DEF TypeInv, CanvasTypeOK
<1> QED
  BY <1>2, <1>3

-----------------------------------------------------------------------------
(* Type correctness.                                                       *)

\* The empty values are well formed.
LEMMA EmptyTypes ==
  /\ NoDocument \in Document
  /\ NotLoading \in Loading
  /\ NoRoom \in Room
  /\ NoStore \in Store
  /\ NoMirror \in Mirror
BY DEF NoDocument, NotLoading, NoRoom, NoStore, NoMirror, Document, Loading,
       Room, Store, Mirror

\* The first state is well formed.
LEMMA InitTypes == CanvasInit => TypeInv
<1> SUFFICES ASSUME CanvasInit PROVE TypeInv
  OBVIOUS
<1>1. outbox \in Outbox /\ web \in [revision : Nat, edits : SUBSET Edits]
  BY DEF CanvasInit, Outbox
<1>2. JournalIsSuffix
  BY DEF CanvasInit, JournalIsSuffix, NoDocument
<1> QED
  BY <1>1, <1>2, EmptyTypes DEF CanvasInit, TypeInv, CanvasTypeOK

\* What a load will replay is made of edits.
LEMMA ReplayedType ==
  ASSUME TypeInv, NEW L, NEW n
  PROVE  Replayed(L, n) \subseteq Edits
BY DEF TypeInv, CanvasTypeOK, Replayed, Update

\* journalDocumentUpdate keeps the journal well formed.
LEMMA JournalTypes ==
  ASSUME TypeInv, NEW e \in Edits, NEW L \in SUBSET Nat, Journal(e, L),
         document' = document
  PROVE  /\ journal' \subseteq Update
         /\ lastJournaled' \in Nat
         /\ JournalIsSuffix'
<1>1. CASE UNCHANGED <<journal, lastJournaled>>
  BY <1>1 DEF TypeInv, CanvasTypeOK, JournalIsSuffix
<1>2. CASE /\ lastJournaled' = lastJournaled + 1
           /\ journal' = journal \cup
                {[id |-> lastJournaled + 1, edit |-> e, lineages |-> L]}
  <2> DEFINE row == [id |-> lastJournaled + 1, edit |-> e, lineages |-> L]
  <2>1. row \in Update
    BY DEF TypeInv, CanvasTypeOK, Update
  <2>2. row.id = lastJournaled + 1
    OBVIOUS
  <2>3. \A u \in journal : u.id \in Nat
    BY DEF TypeInv, CanvasTypeOK, Update
  <2>4. document.lastId \in Nat
    BY DEF TypeInv, CanvasTypeOK, Document
  <2> HIDE DEF row
  <2> QED
    BY <1>2, <2>1, <2>2, <2>3, <2>4
    DEF TypeInv, CanvasTypeOK, JournalIsSuffix, row
<1> QED
  BY <1>1, <1>2 DEF Journal

\* Every operation keeps the tables, rooms and workers well formed.
LEMMA TypesStep == TypeInv /\ [CanvasNext]_canvasVars => TypeInv'
<1> SUFFICES ASSUME TypeInv, [CanvasNext]_canvasVars
             PROVE  TypeInv'
  OBVIOUS
<1> USE CanvasAssumption, EmptyTypes
<1> USE DEF TypeInv, CanvasTypeOK, rowVars, roomVars, workerVars, pastVars
<1>1. CASE UNCHANGED canvasVars
  BY <1>1 DEF canvasVars, JournalIsSuffix
<1>2. ASSUME NEW r \in Replicas, OpenRoom(r)
      PROVE  TypeInv'
  <2>1. document.exists => RowRead(document) \in Loading
    BY DEF RowRead, Loading, Document
  <2>2. [load[r] EXCEPT !.phase = "fetched"] \in Loading
    BY DEF Loading
  <2> QED
    BY <1>2, <2>1, <2>2 DEF OpenRoom, JournalIsSuffix
<1>3. ASSUME NEW r \in Replicas, Bootstrap(r)
      PROVE  TypeInv'
  <2>1. Seed \in Document /\ Seed.lastId = 0
    BY DEF Seed, NoDocument, Document
  <2>2. document' \in Document /\ document'.lastId \in {0, document.lastId}
    BY <1>3, <2>1 DEF Bootstrap
  <2>3. load' = [load EXCEPT ![r] = RowRead(document')]
    BY <1>3 DEF Bootstrap
  <2>4. RowRead(document') \in Loading
    BY <2>2 DEF RowRead, Loading, Document
  <2>5. outbox' \in Outbox
    BY <1>3 DEF Bootstrap, Upserted, Outbox
  <2> QED
    BY <1>3, <2>2, <2>3, <2>4, <2>5 DEF Bootstrap, JournalIsSuffix
<1>4. ASSUME NEW r \in Replicas, JoinRoom(r)
      PROVE  TypeInv'
  <2> DEFINE replayed == Replayed(load[r].lineages, load[r].lastId)
  <2>1. replayed \subseteq Edits
    BY ReplayedType
  <2> HIDE DEF replayed
  <2>2. Joined(r, replayed) \in [Replicas -> Room]
    <3> DEFINE others   == {q \in Replicas \ {r} : room[q].loaded}
               edits    == load[r].edits \cup replayed
                             \cup UNION {room[q].edits : q \in others}
               lineages == load[r].lineages
                             \cup UNION {room[q].lineages : q \in others}
    <3>1. edits \in SUBSET Edits /\ lineages \in SUBSET Nat
      BY <2>1 DEF Room, Loading
    <3> HIDE DEF edits, lineages
    <3>2. [NoRoom EXCEPT !.loaded = TRUE, !.edits = edits,
                         !.lineages = lineages] \in Room
      BY <3>1 DEF Room, NoRoom
    <3>3. ASSUME NEW q \in Replicas
          PROVE  [room[q] EXCEPT !.edits = edits, !.lineages = lineages] \in Room
      BY <3>1 DEF Room
    <3>4. Joined(r, replayed) =
            [q \in Replicas |->
               IF q = r THEN [NoRoom EXCEPT !.loaded = TRUE, !.edits = edits,
                                            !.lineages = lineages]
               ELSE IF q \in others
                 THEN [room[q] EXCEPT !.edits = edits, !.lineages = lineages]
               ELSE room[q]]
      BY DEF Joined, edits, lineages
    <3> HIDE DEF others
    <3>5. ASSUME NEW q \in Replicas
          PROVE  Joined(r, replayed)[q] \in Room
      <4>1. room[q] \in Room
        OBVIOUS
      <4>2. Joined(r, replayed)[q] =
              IF q = r THEN [NoRoom EXCEPT !.loaded = TRUE, !.edits = edits,
                                           !.lineages = lineages]
              ELSE IF q \in others
                THEN [room[q] EXCEPT !.edits = edits, !.lineages = lineages]
              ELSE room[q]
        BY <3>4
      <4> QED
        BY <3>2, <3>3, <4>1, <4>2
    <3> QED
      BY <3>4, <3>5
  <2>3. room' \in [Replicas -> Room]
    BY <1>4, <2>2 DEF JoinRoom, replayed
  <2> QED
    BY <1>4, <2>3 DEF JoinRoom, JournalIsSuffix
<1>5. ASSUME NEW r \in Replicas, Connect(r) \/ Disconnect(r)
      PROVE  TypeInv'
  <2>1. document.epoch \in Nat
    BY DEF Document
  <2> QED
    BY <1>5, <2>1 DEF Connect, Disconnect, JournalIsSuffix
<1>6. ASSUME NEW r \in Replicas, NEW e \in UserEdits, Receive(r, e)
      PROVE  TypeInv'
  <2>1. room[r].lineages \in SUBSET Nat /\ e \in Edits
    BY DEF Room, Edits
  <2>2. journal' \subseteq Update /\ lastJournaled' \in Nat /\ JournalIsSuffix'
    BY <1>6, <2>1, JournalTypes DEF Receive
  <2> QED
    BY <1>6, <2>1, <2>2 DEF Receive
<1>7. ASSUME NEW r \in Replicas, NEW e \in Edits, PublishDocument(r, e)
      PROVE  bus' \subseteq Message
  BY <1>7 DEF PublishDocument, Message, Room
<1>8. ASSUME NEW r \in Replicas, NEW e \in UserEdits, Apply(r, e)
      PROVE  TypeInv'
  <2>1. room[r].lineages \in SUBSET Nat /\ e \in Edits
    BY DEF Room, Edits
  <2>2. journal' \subseteq Update /\ lastJournaled' \in Nat /\ JournalIsSuffix'
    BY <1>8, <2>1, JournalTypes DEF Apply
  <2>3. room' \in [Replicas -> Room]
    <3>1. PICK epoch \in {session[r], room[r].epoch} :
            room' = [room EXCEPT ![r].edits = @ \cup {e}, ![r].dirty = TRUE,
                                 ![r].epoch = epoch]
      BY <1>8 DEF Apply
    <3>2. epoch \in Nat
      BY DEF Room
    <3>3. [room[r] EXCEPT !.edits = @ \cup {e}, !.dirty = TRUE,
                          !.epoch = epoch] \in Room
      BY <2>1, <3>2 DEF Room
    <3> QED
      BY <3>1, <3>3
  <2>4. bus' \subseteq Message
    BY <1>7, <1>8, <2>1 DEF Apply
  <2> QED
    BY <1>8, <2>1, <2>2, <2>3, <2>4 DEF Apply
<1>9. ASSUME NEW r \in Replicas, NEW e \in ServiceEdits, ServiceWrite(r, e)
      PROVE  TypeInv'
  <2>1. room[r].lineages \in SUBSET Nat /\ e \in Edits
    BY DEF Room, Edits
  <2>2. journal' \subseteq Update /\ lastJournaled' \in Nat /\ JournalIsSuffix'
    BY <1>9, <2>1, JournalTypes DEF ServiceWrite
  <2>3. room' \in [Replicas -> Room]
    BY <1>9, <2>1 DEF ServiceWrite, Room
  <2>4. bus' \subseteq Message
    BY <1>7, <1>9, <2>1 DEF ServiceWrite
  <2> QED
    BY <1>9, <2>1, <2>2, <2>3, <2>4 DEF ServiceWrite
<1>10. ASSUME NEW m \in bus, Deliver(m)
       PROVE  TypeInv'
  <2>1. m.to \in Replicas /\ m.edit \in Edits /\ m.lineages \in SUBSET Nat
    BY DEF Message
  <2>2. CASE room[m.to].loaded
    <3>1. journal' \subseteq Update /\ lastJournaled' \in Nat
          /\ JournalIsSuffix'
      BY <1>10, <2>1, <2>2, JournalTypes DEF Deliver
    <3>2. room' \in [Replicas -> Room]
      BY <1>10, <2>1, <2>2 DEF Deliver, Room
    <3> QED
      BY <1>10, <3>1, <3>2 DEF Deliver
  <2>3. CASE ~ room[m.to].loaded
    BY <1>10, <2>3 DEF Deliver, JournalIsSuffix
  <2> QED
    BY <2>2, <2>3
<1>11. ASSUME NEW r \in Replicas, Encode(r) \/ LockStore(r) \/ FailStore(r)
       PROVE  TypeInv'
  <2>1. CASE Encode(r)
    <3>1. [phase |-> "encoded", edits |-> room[r].edits,
           lineages |-> room[r].lineages, epoch |-> room[r].epoch] \in Store
      BY DEF Room, Store
    <3>2. [room[r] EXCEPT !.dirty = FALSE] \in Room
      BY DEF Room
    <3> QED
      BY <2>1, <3>1, <3>2 DEF Encode, JournalIsSuffix
  <2>2. CASE LockStore(r)
    <3>1. [store[r] EXCEPT !.phase = "locked"] \in Store
      BY DEF Store
    <3> QED
      BY <2>2, <3>1 DEF LockStore, JournalIsSuffix
  <2>3. CASE FailStore(r)
    <3>1. calm' = FALSE /\ troubles' = troubles + 1
      BY <2>3 DEF FailStore, Trouble
    <3>2. store' \in [Replicas -> Store]
      BY <2>3 DEF FailStore
    <3>3. UNCHANGED <<rowVars, load, room, session, journaling, bus,
                      workerVars, accepted, reseeded, checkpoints>>
      BY <2>3 DEF FailStore
    <3>4. troubles' \in Nat
      BY <3>1
    <3>5. calm' \in BOOLEAN
      BY <3>1, Zenon
    <3> QED
      BY <3>1, <3>2, <3>3, <3>4, <3>5 DEF JournalIsSuffix
  <2> QED
    BY <1>11, <2>1, <2>2, <2>3
<1>12. ASSUME NEW r \in Replicas, CommitStore(r)
       PROVE  TypeInv'
  <2> DEFINE covers == Max({document.lastId, NewestId})
  <2>1. /\ NewestId \in Nat /\ NewestId <= lastJournaled
        /\ document.lastId \in Nat /\ document.lastId <= lastJournaled
    BY NewestIsLast DEF JournalIsSuffix, Document
  <2>2. covers \in Nat /\ covers <= lastJournaled
    <3>1. covers = IF document.lastId >= NewestId THEN document.lastId
                   ELSE NewestId
      <4>1. {document.lastId, NewestId} \in SUBSET Nat
        BY <2>1
      <4>2. CASE document.lastId >= NewestId
        BY <2>1, <4>1, <4>2, MaxIsMember
      <4>3. CASE ~ (document.lastId >= NewestId)
        BY <2>1, <4>1, <4>3, MaxIsMember
      <4> QED
        BY <4>2, <4>3
    <3> QED
      BY <2>1, <3>1
  <2> HIDE DEF covers
  <2>3. document' \in Document /\ document'.lastId <= lastJournaled
    <3>1. CASE Overtaken(r)
      BY <1>12, <2>1, <3>1 DEF CommitStore
    <3>2. CASE ~ Overtaken(r) /\ SameState(r)
      BY <1>12, <2>2, <3>2 DEF CommitStore, Document, covers
    <3>3. CASE ~ Overtaken(r) /\ ~ SameState(r)
      <4>1. document' = [document EXCEPT
               !.exists = TRUE, !.edits = store[r].edits,
               !.lineages = store[r].lineages, !.revision = @ + 1,
               !.lastId = NewestId]
        BY <1>12, <3>3 DEF CommitStore
      <4>2. store[r].edits \in SUBSET Edits /\ store[r].lineages \in SUBSET Nat
        BY DEF Store
      <4> QED
        <5>1. document.revision + 1 \in Nat
          BY DEF Document
        <5> HIDE DEF NewestId
        <5> QED
          BY <2>1, <4>1, <4>2, <5>1 DEF Document
    <3> QED
      BY <3>1, <3>2, <3>3
  <2>4. outbox' \in Outbox
    <3>1. Upserted(document.revision + 1, store[r].edits) \in Outbox
      BY DEF Upserted, Outbox, Document, Store
    <3> QED
      BY <1>12, <3>1 DEF CommitStore
  <2> QED
    BY <1>12, <2>3, <2>4 DEF CommitStore, JournalIsSuffix
<1>13. ASSUME NEW r \in Replicas, Unload(r) \/ Crash(r)
       PROVE  TypeInv'
  <2>1. CASE Unload(r)
    BY <2>1 DEF Unload, JournalIsSuffix
  <2>2. CASE Crash(r)
    <3>1. /\ session' \in [Replicas -> Nat]
          /\ journaling' \in [Replicas -> SUBSET Edits]
          /\ checkpoint' \in Replicas \cup {Nobody}
          /\ closing' \subseteq Replicas
          /\ bus' \subseteq Message
      BY <2>2 DEF Crash
    <3>2. calm' = FALSE /\ troubles' = troubles + 1
      BY <2>2 DEF Crash, Trouble
    <3>3. /\ load' \in [Replicas -> Loading] /\ room' \in [Replicas -> Room]
          /\ store' \in [Replicas -> Store]
          /\ mirror' \in [Replicas -> Mirror]
      BY <2>2 DEF Crash
    <3>4. UNCHANGED <<rowVars, accepted, reseeded, checkpoints>>
      BY <2>2 DEF Crash
    <3>5. troubles' \in Nat
      BY <3>2
    <3>6. calm' \in BOOLEAN
      BY <3>2, Zenon
    <3> QED
      BY <3>1, <3>2, <3>3, <3>4, <3>5, <3>6 DEF JournalIsSuffix
  <2> QED
    BY <1>13, <2>1, <2>2
<1>14. ASSUME Prune
       PROVE  TypeInv'
  <2>1. document.lastId \in Nat /\ \A u \in journal : u.id \in Nat
    BY DEF Document, Update
  <2> QED
    BY <1>14, <2>1 DEF Prune, JournalIsSuffix
<1>15. ASSUME NEW r \in Replicas, Projecting(r) \/ FailProjection(r)
       PROVE  TypeInv'
  <2>1. CASE ClaimProjection(r)
    <3>1. [outbox EXCEPT !.lockedBy = r] \in Outbox
      BY DEF Outbox
    <3>2. [phase |-> "claimed", revision |-> outbox.revision,
           edits |-> outbox.edits] \in Mirror
      BY DEF Outbox, Mirror
    <3> QED
      BY <2>1, <3>1, <3>2 DEF ClaimProjection, JournalIsSuffix
  <2>2. CASE SendProjection(r)
    <3>1. [mirror[r] EXCEPT !.phase = "sent"] \in Mirror
      BY DEF Mirror
    <3>2. [revision |-> mirror[r].revision, edits |-> mirror[r].edits]
            \in [revision : Nat, edits : SUBSET Edits]
      BY DEF Mirror
    <3> QED
      BY <2>2, <3>1, <3>2 DEF SendProjection, JournalIsSuffix
  <2>3. CASE FinishProjection(r)
    <3>1. outbox' \in Outbox
      BY <2>3 DEF FinishProjection, Outbox
    <3> QED
      BY <2>3, <3>1 DEF FinishProjection, JournalIsSuffix
  <2>4. CASE FailProjection(r)
    <3>1. outbox' \in Outbox
      BY <2>4 DEF FailProjection, Outbox
    <3> QED
      BY <2>4, <3>1 DEF FailProjection, JournalIsSuffix
  <2> QED
    BY <1>15, <2>1, <2>2, <2>3, <2>4 DEF Projecting
<1>16. ASSUME NEW r \in Replicas,
              MarkCheckpoint(r) \/ FailCheckpoint(r) \/ CloseSessions(r)
       PROVE  TypeInv'
  <2>1. document' \in Document /\ document'.lastId = document.lastId
    BY <1>16 DEF MarkCheckpoint, FailCheckpoint, CloseSessions, Document
  <2>2. JournalIsSuffix'
    BY <1>16, <2>1
    DEF MarkCheckpoint, FailCheckpoint, CloseSessions, JournalIsSuffix
  <2>3. CASE MarkCheckpoint(r)
    <3>1. /\ checkpoint' \in Replicas \cup {Nobody}
          /\ session' \in [Replicas -> Nat]
          /\ closing' \subseteq Replicas
          /\ checkpoints' \in Nat
      BY <2>3 DEF MarkCheckpoint
    <3>2. calm' = FALSE
      BY <2>3 DEF MarkCheckpoint
    <3> QED
      BY <2>1, <2>2, <2>3, <3>1, <3>2 DEF MarkCheckpoint
  <2>4. CASE FailCheckpoint(r)
    BY <2>1, <2>2, <2>4 DEF FailCheckpoint
  <2>5. CASE CloseSessions(r)
    BY <2>1, <2>2, <2>5 DEF CloseSessions
  <2> QED
    BY <1>16, <2>3, <2>4, <2>5
<1>17. ASSUME NEW r \in Replicas, Checkpoint(r)
       PROVE  TypeInv'
  <2>1. CASE ~ (document.exists /\ document.compacting)
    BY <1>17, <2>1 DEF Checkpoint, JournalIsSuffix
  <2>2. CASE document.exists /\ document.compacting
    <3> DEFINE upTo == Max({document.lastId} \cup
                 {u.id : u \in {v \in journal : v.id > document.lastId}})
    <3>1. /\ upTo \in Nat /\ upTo <= lastJournaled
          /\ journal = {} \/ upTo = lastJournaled
      BY CheckpointCovers
    <3>2. Recoverable \in SUBSET Edits
      BY ReplayedType DEF Recoverable, Document
    <3>3. /\ document' = [document EXCEPT
               !.edits = Recoverable, !.lineages = {document.epoch + 1},
               !.revision = @ + 1, !.lastId = upTo,
               !.epoch = @ + 1, !.compacting = FALSE]
          /\ journal' = {u \in journal : u.id > upTo}
          /\ outbox' = Upserted(document.revision + 1, Recoverable)
      BY <1>17, <2>2 DEF Checkpoint
    <3> HIDE DEF upTo
    <3>4. document' \in Document /\ document'.lastId = upTo
      <4>1. document.epoch + 1 \in Nat /\ document.revision + 1 \in Nat
        BY DEF Document
      <4> HIDE DEF Recoverable
      <4> QED
        BY <3>1, <3>2, <3>3, <4>1 DEF Document
    <3>5. outbox' \in Outbox
      BY <3>2, <3>3 DEF Outbox, Upserted, Document
    <3>6. journal' = {}
      BY <3>1, <3>3 DEF JournalIsSuffix, Update
    <3> QED
      BY <1>17, <3>1, <3>4, <3>5, <3>6 DEF Checkpoint, JournalIsSuffix
  <2> QED
    BY <2>1, <2>2
<1>18. ASSUME Retire \/ \E r \in Replicas : Evict(r)
       PROVE  TypeInv'
  <2>1. outbox' \in Outbox /\ document' \in Document /\ document'.lastId = 0
    <3>1. [waiting |-> FALSE, revision |-> 0, edits |-> {},
           lockedBy |-> Nobody] \in Outbox
      BY DEF Outbox
    <3>2. NoDocument.lastId = 0
      BY DEF NoDocument
    <3> QED
      BY <1>18, <3>1, <3>2 DEF Retire, Evict
  <2>2. journal' = {} /\ lastJournaled' \in Nat /\ JournalIsSuffix'
    BY <1>18, <2>1 DEF Retire, Evict, JournalIsSuffix
  <2>3. CASE Retire
    BY <2>1, <2>2, <2>3 DEF Retire
  <2>4. ASSUME NEW r \in Replicas, Evict(r)
        PROVE  TypeInv'
    <3>1. session' \in [Replicas -> Nat] /\ closing' \subseteq Replicas
      BY <2>4 DEF Evict
    <3>2. project' = "evicted"
      BY <2>4 DEF Evict
    <3> QED
      BY <2>1, <2>2, <2>4, <3>1, <3>2 DEF Evict
  <2> QED
    BY <1>18, <2>3, <2>4
<1> QED
  BY <1>1, <1>2, <1>3, <1>4, <1>5, <1>6, <1>8, <1>9, <1>10, <1>11, <1>12,
     <1>13, <1>14, <1>15, <1>16, <1>17, <1>18
  DEF CanvasNext, Opening, Storing, Projecting, Checkpointing

\* Every reachable state is well formed.
THEOREM TypeCorrect == Safe => []CanvasTypeOK
<1>1. TypeInv => CanvasTypeOK
  BY DEF TypeInv
<1> QED
  BY InitTypes, TypesStep, <1>1, PTL DEF Safe

-----------------------------------------------------------------------------
(* Which operation writes what.                                            *)

CopyWritten == \E r \in Replicas : SendProjection(r)
Deleted     == Retire \/ \E r \in Replicas : Evict(r)
RowsWritten ==
  \/ Deleted
  \/ \E r \in Replicas :
       \/ Bootstrap(r) \/ CommitStore(r)
       \/ MarkCheckpoint(r) \/ Checkpoint(r) \/ FailCheckpoint(r)
       \/ ClaimProjection(r) \/ FinishProjection(r) \/ FailProjection(r)
StoreMoved ==
  \E r \in Replicas : \/ Encode(r) \/ LockStore(r) \/ CommitStore(r)
                      \/ FailStore(r) \/ Crash(r)
MirrorMoved ==
  \E r \in Replicas : \/ ClaimProjection(r) \/ SendProjection(r)
                      \/ FinishProjection(r) \/ FailProjection(r) \/ Crash(r)
LoadMoved ==
  \E r \in Replicas : OpenRoom(r) \/ Bootstrap(r) \/ JoinRoom(r) \/ Crash(r)
RoomMoved ==
  \/ \E r \in Replicas :
       \/ JoinRoom(r) \/ Encode(r) \/ Unload(r) \/ Crash(r)
       \/ \E e \in UserEdits : Apply(r, e)
       \/ \E e \in ServiceEdits : ServiceWrite(r, e)
  \/ \E m \in bus : Deliver(m)

Frame ==
  /\ web' = web \/ CopyWritten
  /\ project' = project \/ Deleted
  /\ UNCHANGED <<document, outbox>> \/ RowsWritten
  /\ store' = store \/ StoreMoved
  /\ mirror' = mirror \/ MirrorMoved
  /\ load' = load \/ LoadMoved
  /\ room' = room \/ RoomMoved
  /\ reseeded => reseeded'
  /\ calm' => calm
  /\ journal' \subseteq journal \/ ~ Tombstone

\* A journal write needs a project that is not deleted.
LEMMA JournalFrame ==
  ASSUME NEW e, NEW L, Journal(e, L)
  PROVE  journal' \subseteq journal \/ ~ Tombstone
BY DEF Journal

\* Every step changes a row through the operations above only.
LEMMA StepFrame == [CanvasNext]_canvasVars => Frame
<1> SUFFICES ASSUME [CanvasNext]_canvasVars PROVE Frame
  OBVIOUS
<1> USE DEF Frame, CopyWritten, Deleted, RowsWritten, StoreMoved, MirrorMoved
<1> USE DEF LoadMoved, RoomMoved, Trouble, rowVars, roomVars, workerVars, pastVars
<1>0. CASE UNCHANGED canvasVars
  BY <1>0 DEF canvasVars
<1>1. ASSUME NEW r \in Replicas, OpenRoom(r) PROVE Frame
  BY <1>1 DEF OpenRoom
<1>2. ASSUME NEW r \in Replicas, Bootstrap(r) PROVE Frame
  BY <1>2 DEF Bootstrap
<1>3. ASSUME NEW r \in Replicas, JoinRoom(r) PROVE Frame
  BY <1>3 DEF JoinRoom
<1>4. ASSUME NEW r \in Replicas, Connect(r) PROVE Frame
  BY <1>4 DEF Connect
<1>5. ASSUME NEW r \in Replicas, Disconnect(r) PROVE Frame
  BY <1>5 DEF Disconnect
<1>6. ASSUME NEW r \in Replicas, NEW e \in UserEdits, Receive(r, e) PROVE Frame
  BY <1>6, JournalFrame DEF Receive
<1>7. ASSUME NEW r \in Replicas, NEW e \in UserEdits, Apply(r, e) PROVE Frame
  BY <1>7, JournalFrame DEF Apply
<1>8. ASSUME NEW r \in Replicas, NEW e \in ServiceEdits, ServiceWrite(r, e) PROVE Frame
  BY <1>8, JournalFrame DEF ServiceWrite
<1>9. ASSUME NEW m \in bus, Deliver(m) PROVE Frame
  <2>1. journal' \subseteq journal \/ ~ Tombstone
    BY <1>9, JournalFrame DEF Deliver
  <2> QED
    BY <1>9, <2>1 DEF Deliver
<1>10. ASSUME NEW r \in Replicas, Encode(r) PROVE Frame
  BY <1>10 DEF Encode
<1>11. ASSUME NEW r \in Replicas, LockStore(r) PROVE Frame
  BY <1>11 DEF LockStore
<1>12. ASSUME NEW r \in Replicas, CommitStore(r) PROVE Frame
  BY <1>12 DEF CommitStore
<1>13. ASSUME NEW r \in Replicas, FailStore(r) PROVE Frame
  BY <1>13 DEF FailStore
<1>14. ASSUME NEW r \in Replicas, Unload(r) PROVE Frame
  BY <1>14 DEF Unload
<1>15. ASSUME NEW r \in Replicas, Crash(r) PROVE Frame
  BY <1>15 DEF Crash
<1>16. CASE Prune
  BY <1>16 DEF Prune
<1>17. ASSUME NEW r \in Replicas, ClaimProjection(r) PROVE Frame
  BY <1>17 DEF ClaimProjection
<1>18. ASSUME NEW r \in Replicas, SendProjection(r) PROVE Frame
  BY <1>18 DEF SendProjection
<1>19. ASSUME NEW r \in Replicas, FinishProjection(r) PROVE Frame
  BY <1>19 DEF FinishProjection
<1>20. ASSUME NEW r \in Replicas, FailProjection(r) PROVE Frame
  BY <1>20 DEF FailProjection
<1>21. ASSUME NEW r \in Replicas, MarkCheckpoint(r) PROVE Frame
  BY <1>21 DEF MarkCheckpoint
<1>22. ASSUME NEW r \in Replicas, CloseSessions(r) PROVE Frame
  BY <1>22 DEF CloseSessions
<1>23. ASSUME NEW r \in Replicas, Checkpoint(r) PROVE Frame
  <2>1. journal' \subseteq journal
    BY <1>23 DEF Checkpoint
  <2> QED
    BY <1>23, <2>1 DEF Checkpoint
<1>24. ASSUME NEW r \in Replicas, FailCheckpoint(r) PROVE Frame
  BY <1>24 DEF FailCheckpoint
<1>25. CASE Retire
  BY <1>25 DEF Retire
<1>26. ASSUME NEW r \in Replicas, Evict(r) PROVE Frame
  BY <1>26 DEF Evict
<1> QED
  BY <1>0, <1>1, <1>2, <1>3, <1>4, <1>5, <1>6, <1>7, <1>8, <1>9, <1>10, <1>11, <1>12, <1>13, <1>14, <1>15, <1>16, <1>17, <1>18, <1>19, <1>20, <1>21, <1>22, <1>23, <1>24, <1>25, <1>26
  DEF CanvasNext, Opening, Storing, Projecting, Checkpointing

-----------------------------------------------------------------------------
(* The web application's copy never goes back.                             *)

\* Only the mirror route writes the copy, and only with a newer revision.
LEMMA CopyStep == TypeInv /\ [CanvasNext]_canvasVars => web'.revision >= web.revision
<1> SUFFICES ASSUME TypeInv, [CanvasNext]_canvasVars
             PROVE  web'.revision >= web.revision
  OBVIOUS
<1>1. web.revision \in Nat /\ \A r \in Replicas : mirror[r].revision \in Nat
  BY DEF TypeInv, CanvasTypeOK, Mirror
<1>2. ASSUME NEW r \in Replicas, SendProjection(r)
      PROVE  web'.revision >= web.revision
  BY <1>1, <1>2 DEF SendProjection
<1>3. web' = web \/ \E r \in Replicas : SendProjection(r)
  BY StepFrame DEF Frame, CopyWritten
<1> QED
  BY <1>1, <1>2, <1>3

\* writeProjectGraphSnapshot leaves a newer copy alone, whoever sends late.
THEOREM CopyIsMonotonic == Safe => ProjectionNeverGoesBack
<1>1. TypeInv /\ [CanvasNext]_canvasVars => [web'.revision >= web.revision]_canvasVars
  BY CopyStep
<1> QED
  BY InitTypes, TypesStep, <1>1, PTL DEF Safe, ProjectionNeverGoesBack

-----------------------------------------------------------------------------
(* A deleted canvas.                                                       *)

\* After the eviction nobody holds the lock past the tombstone check, so
\* nothing of the canvas can be written again.
GoneInv ==
  project = "evicted" =>
    /\ document.edits = {} /\ journal = {} /\ outbox.edits = {}
    /\ \A r \in Replicas : store[r].phase # "locked"

\* The lock is free at the start.
LEMMA InitGone == CanvasInit => GoneInv
BY DEF CanvasInit, GoneInv

\* The eviction waits for the lock; later stores see the tombstone.
LEMMA GoneStep == TypeInv /\ GoneInv /\ [CanvasNext]_canvasVars => GoneInv'
<1> SUFFICES ASSUME TypeInv, GoneInv, [CanvasNext]_canvasVars, project' = "evicted"
             PROVE  /\ document'.edits = {} /\ journal' = {}
                    /\ outbox'.edits = {}
                    /\ \A r \in Replicas : store'[r].phase # "locked"
  BY DEF GoneInv
<1>1. CASE project # "evicted"
  <2>1. PICK r \in Replicas : Evict(r)
    BY <1>1, StepFrame DEF Frame, Deleted, Retire
  <2> QED
    BY <2>1 DEF Evict, NoDocument, Locked
<1>2. CASE project = "evicted"
  <2>1. /\ document.edits = {} /\ journal = {} /\ outbox.edits = {}
        /\ \A r \in Replicas : store[r].phase # "locked"
    BY <1>2 DEF GoneInv
  <2>2. Tombstone
    BY <1>2 DEF Tombstone
  <2>3. journal' = {}
    BY <2>1, <2>2, StepFrame DEF Frame
  <2>4. ASSUME NEW r \in Replicas,
               Encode(r) \/ LockStore(r) \/ CommitStore(r) \/ FailStore(r)
                 \/ Crash(r)
        PROVE  /\ UNCHANGED <<document, outbox>>
               /\ \A q \in Replicas : store'[q].phase # "locked"
    BY <2>1, <2>2, <2>4 DEF Encode, LockStore, CommitStore, FailStore, Crash,
       rowVars, NoStore, TypeInv, CanvasTypeOK
  <2>5. (\A q \in Replicas : store'[q].phase # "locked")
    <3>1. store' = store \/ StoreMoved
      BY StepFrame DEF Frame
    <3> QED
      BY <2>1, <2>4, <3>1 DEF StoreMoved
  <2>6. ASSUME NEW r \in Replicas, Bootstrap(r)
        PROVE  document'.edits = {} /\ outbox'.edits = {}
    BY <2>1, <2>6 DEF Bootstrap, Seed, NoDocument, Upserted
  <2>7. ASSUME NEW r \in Replicas, Checkpoint(r)
        PROVE  document'.edits = {} /\ outbox'.edits = {}
    <3>1. Recoverable = {}
      BY <2>1 DEF Recoverable, Replayed
    <3>2. CASE document.exists /\ document.compacting
      <4> HIDE DEF Recoverable
      <4>1. document' = [document EXCEPT
              !.edits = Recoverable, !.lineages = {document.epoch + 1},
              !.revision = @ + 1,
              !.lastId = Max({document.lastId} \cup
                {u.id : u \in {v \in journal : v.id > document.lastId}}),
              !.epoch = @ + 1, !.compacting = FALSE]
        BY <2>7, <3>2 DEF Checkpoint
      <4>2. outbox' = Upserted(document.revision + 1, Recoverable)
        BY <2>7, <3>2 DEF Checkpoint
      <4>3. document'.edits = Recoverable
        BY <4>1 DEF TypeInv, CanvasTypeOK, Document
      <4> QED
        BY <3>1, <4>2, <4>3 DEF Upserted
    <3>3. CASE ~ (document.exists /\ document.compacting)
      BY <2>1, <2>7, <3>3 DEF Checkpoint
    <3> QED
      BY <3>2, <3>3
  <2>8. ASSUME NEW r \in Replicas, MarkCheckpoint(r) \/ FailCheckpoint(r)
        PROVE  document'.edits = {} /\ outbox'.edits = {}
    BY <2>1, <2>8 DEF MarkCheckpoint, FailCheckpoint, TypeInv, CanvasTypeOK, Document
  <2>9. ASSUME NEW r \in Replicas,
               ClaimProjection(r) \/ FinishProjection(r) \/ FailProjection(r)
        PROVE  document'.edits = {} /\ outbox'.edits = {}
    BY <2>1, <2>9 DEF ClaimProjection, FinishProjection, FailProjection,
       TypeInv, CanvasTypeOK, Outbox
  <2>10. ~ Deleted
    BY <1>2 DEF Deleted, Retire, Evict
  <2>11. CASE RowsWritten
    BY <2>1, <2>3, <2>4, <2>5, <2>6, <2>7, <2>8, <2>9, <2>10, <2>11
    DEF RowsWritten
  <2>12. CASE UNCHANGED <<document, outbox>>
    BY <2>1, <2>3, <2>5, <2>12
  <2> QED
    BY <2>11, <2>12, StepFrame DEF Frame
<1> QED
  BY <1>1, <1>2

\* An evicted canvas holds no edit again, however many replicas had it open.
THEOREM DeletedStaysDeleted == Safe => []EvictedStaysGone
<1>1. GoneInv => EvictedStaysGone
  BY DEF GoneInv, EvictedStaysGone
<1> QED
  BY InitTypes, TypesStep, InitGone, GoneStep, <1>1, PTL DEF Safe

-----------------------------------------------------------------------------
(* The projection of a canvas that is not deleted.                         *)

\* Until the canvas has a row nothing is open, stored or projected.
NothingYet ==
  /\ ~ outbox.waiting /\ web.revision = 0
  /\ \A r \in Replicas : /\ mirror[r].phase = "idle"
                         /\ store[r].phase = "idle"
                         /\ ~ room[r].loaded
                         /\ load[r].phase # "replay"

\* A graph of the stored revision is the stored graph.
SameRevisionSameGraph(revision, edits) ==
  /\ revision <= document.revision
  /\ revision = document.revision => edits = document.edits

\* The outbox holds the newest graph or the copy does; what is being sent is
\* no newer, and what was sent has arrived.
Projected ==
  /\ SameRevisionSameGraph(web.revision, web.edits)
  /\ outbox.waiting => /\ outbox.revision = document.revision
                       /\ outbox.edits = document.edits
  /\ ~ outbox.waiting => web.revision = document.revision
  /\ \A r \in Replicas :
       /\ mirror[r].phase # "idle" =>
            SameRevisionSameGraph(mirror[r].revision, mirror[r].edits)
       /\ mirror[r].phase = "sent" => mirror[r].revision <= web.revision

ProjectionInv ==
  project = "live" /\ ~ reseeded =>
    IF document.exists THEN Projected ELSE NothingYet

\* Before the first opening there is nothing to project.
LEMMA InitProjection == CanvasInit => ProjectionInv
BY DEF CanvasInit, ProjectionInv, NothingYet, NoDocument, NotLoading, NoRoom,
       NoStore, NoMirror

\* What a replica claims is the newest graph; what it deletes has arrived.
LEMMA ProjectionStep ==
  TypeInv /\ ProjectionInv /\ [CanvasNext]_canvasVars => ProjectionInv'
<1> SUFFICES ASSUME TypeInv, ProjectionInv, [CanvasNext]_canvasVars,
                    project' = "live", ~ reseeded'
             PROVE  IF document'.exists THEN Projected' ELSE NothingYet'
  BY DEF ProjectionInv
<1>1. project = "live" /\ ~ Deleted
  BY StepFrame DEF Frame, Deleted, Retire, Evict
<1>2. ~ reseeded
  BY StepFrame DEF Frame
<1>3. IF document.exists THEN Projected ELSE NothingYet
  BY <1>1, <1>2 DEF ProjectionInv
<1> USE StepFrame DEF Frame
<1>4. CASE ~ document.exists
  <2>1. NothingYet
    BY <1>3, <1>4
  <2>2. ASSUME NEW r \in Replicas, Bootstrap(r)
        PROVE  document'.exists /\ Projected'
    <3>1. document' = Seed /\ outbox' = Upserted(1, {})
      BY <1>4, <2>2 DEF Bootstrap
    <3>2. document'.exists /\ document'.revision = 1 /\ document'.edits = {}
      BY <3>1 DEF Seed, NoDocument
    <3>3. outbox'.waiting /\ outbox'.revision = 1 /\ outbox'.edits = {}
      BY <3>1 DEF Upserted
    <3>4. web' = web /\ mirror' = mirror
      BY <2>2 DEF Bootstrap, workerVars
    <3> QED
      BY <2>1, <3>2, <3>3, <3>4
      DEF Projected, SameRevisionSameGraph, NothingYet
  <2>3. CASE ~ \E r \in Replicas : Bootstrap(r)
    <3>1. ~ document'.exists /\ ~ outbox'.waiting
      <4>1. ASSUME NEW r \in Replicas,
                   \/ CommitStore(r) \/ MarkCheckpoint(r) \/ ClaimProjection(r)
                   \/ FinishProjection(r) \/ FailProjection(r)
            PROVE  FALSE
        BY <1>4, <2>1, <4>1 DEF NothingYet, CommitStore, MarkCheckpoint,
           ClaimProjection, FinishProjection, FailProjection
      <4>2. ASSUME NEW r \in Replicas, Checkpoint(r)
            PROVE  UNCHANGED <<document, outbox>>
        BY <1>4, <4>2 DEF Checkpoint
      <4>3. ASSUME NEW r \in Replicas, FailCheckpoint(r)
            PROVE  ~ document'.exists /\ outbox' = outbox
        BY <1>4, <4>3 DEF FailCheckpoint, TypeInv, CanvasTypeOK, Document
      <4> QED
        BY <1>1, <1>4, <2>1, <2>3, <4>1, <4>2, <4>3 DEF RowsWritten, NothingYet
    <3>2. web' = web
      BY <2>1 DEF CopyWritten, SendProjection, NothingYet
    <3>3. \A r \in Replicas : mirror'[r].phase = "idle"
      <4>1. mirror' = mirror \/ \E r \in Replicas : Crash(r)
        BY <2>1 DEF MirrorMoved, NothingYet, ClaimProjection, SendProjection,
           FinishProjection, FailProjection
      <4> QED
        BY <2>1, <4>1 DEF NothingYet, Crash, NoMirror, TypeInv, CanvasTypeOK
    <3>4. \A r \in Replicas : store'[r].phase = "idle"
      <4>1. store' = store \/ \E r \in Replicas : Crash(r)
        BY <2>1 DEF StoreMoved, NothingYet, Encode, LockStore, CommitStore,
           FailStore
      <4> QED
        BY <2>1, <4>1 DEF NothingYet, Crash, NoStore, TypeInv, CanvasTypeOK
    <3>5. \A r \in Replicas : ~ room'[r].loaded
      <4>1. ASSUME NEW r \in Replicas,
                   \/ JoinRoom(r) \/ Encode(r) \/ Unload(r)
                   \/ \E e \in UserEdits : Apply(r, e)
                   \/ \E e \in ServiceEdits : ServiceWrite(r, e)
            PROVE  FALSE
        BY <2>1, <4>1 DEF NothingYet, JoinRoom, Encode, Unload, Apply,
           ServiceWrite
      <4>2. ASSUME NEW m \in bus, Deliver(m)
            PROVE  room' = room
        BY <2>1, <4>2 DEF NothingYet, Deliver, TypeInv, CanvasTypeOK, Message
      <4>3. ASSUME NEW r \in Replicas, Crash(r)
            PROVE  \A q \in Replicas : ~ room'[q].loaded
        BY <2>1, <4>3 DEF NothingYet, Crash, NoRoom, TypeInv, CanvasTypeOK
      <4> QED
        BY <2>1, <4>1, <4>2, <4>3 DEF RoomMoved, NothingYet
    <3>6. \A r \in Replicas : load'[r].phase # "replay"
      <4>1. ASSUME NEW r \in Replicas, JoinRoom(r)
            PROVE  FALSE
        BY <2>1, <4>1 DEF NothingYet, JoinRoom
      <4>2. ASSUME NEW r \in Replicas, OpenRoom(r)
            PROVE  \A q \in Replicas : load'[q].phase # "replay"
        BY <1>4, <2>1, <4>2 DEF NothingYet, OpenRoom, TypeInv, CanvasTypeOK, Loading
      <4>3. ASSUME NEW r \in Replicas, Crash(r)
            PROVE  \A q \in Replicas : load'[q].phase # "replay"
        BY <2>1, <4>3 DEF NothingYet, Crash, NotLoading, TypeInv, CanvasTypeOK
      <4> QED
        BY <2>1, <2>3, <4>1, <4>2, <4>3 DEF LoadMoved, NothingYet
    <3> QED
      BY <2>1, <3>1, <3>2, <3>3, <3>4, <3>5, <3>6 DEF NothingYet
  <2> QED
    BY <2>2, <2>3
<1>5. CASE document.exists
  <2>1. Projected
    BY <1>3, <1>5
  <2>2. /\ document.revision \in Nat /\ web.revision \in Nat
        /\ outbox.revision \in Nat
        /\ \A r \in Replicas : mirror[r].revision \in Nat
    BY DEF TypeInv, CanvasTypeOK, Document, Outbox, Mirror
  <2>3. ASSUME UNCHANGED <<document, outbox, web, mirror>>
        PROVE  document'.exists /\ Projected'
    BY <1>5, <2>1, <2>3 DEF Projected, SameRevisionSameGraph
  <2>4. ASSUME document'.exists, document'.revision = document.revision + 1,
               outbox'.waiting, outbox'.revision = document'.revision,
               outbox'.edits = document'.edits, UNCHANGED <<web, mirror>>
        PROVE  document'.exists /\ Projected'
    BY <2>1, <2>2, <2>4 DEF Projected, SameRevisionSameGraph
  <2>5. ASSUME document'.exists, document'.revision = document.revision,
               document'.edits = document.edits, UNCHANGED <<outbox, web, mirror>>
        PROVE  document'.exists /\ Projected'
    BY <2>1, <2>5 DEF Projected, SameRevisionSameGraph
  <2>6. ASSUME NEW r \in Replicas, Bootstrap(r)
        PROVE  FALSE
    BY <1>5, <2>6 DEF Bootstrap
  <2>7. ASSUME NEW r \in Replicas, CommitStore(r)
        PROVE  document'.exists /\ Projected'
    <3>1. UNCHANGED <<web, mirror>>
      BY <2>7 DEF CommitStore, workerVars
    <3>2. CASE Overtaken(r)
      BY <2>3, <2>7, <3>1, <3>2 DEF CommitStore
    <3>3. CASE ~ Overtaken(r) /\ SameState(r)
      <4>1. document' = [document EXCEPT !.lastId = Max({@, NewestId})]
            /\ outbox' = outbox
        BY <2>7, <3>3 DEF CommitStore
      <4>2. /\ document'.exists /\ document'.revision = document.revision
            /\ document'.edits = document.edits
        BY <1>5, <4>1 DEF TypeInv, CanvasTypeOK, Document
      <4> QED
        BY <2>5, <3>1, <4>1, <4>2
    <3>4. CASE ~ Overtaken(r) /\ ~ SameState(r)
      <4>1. /\ document' = [document EXCEPT
                 !.exists = TRUE, !.edits = store[r].edits,
                 !.lineages = store[r].lineages, !.revision = @ + 1,
                 !.lastId = NewestId]
            /\ outbox' = Upserted(document.revision + 1, store[r].edits)
        BY <2>7, <3>4 DEF CommitStore
      <4>2. /\ document'.exists /\ document'.revision = document.revision + 1
            /\ document'.edits = store[r].edits
        BY <4>1 DEF TypeInv, CanvasTypeOK, Document
      <4> QED
        BY <2>4, <3>1, <4>1, <4>2 DEF Upserted
    <3> QED
      BY <3>2, <3>3, <3>4
  <2>8. ASSUME NEW r \in Replicas, MarkCheckpoint(r) \/ FailCheckpoint(r)
        PROVE  document'.exists /\ Projected'
    <3>1. UNCHANGED <<outbox, web, mirror>>
      BY <2>8 DEF MarkCheckpoint, FailCheckpoint
    <3>2. /\ document'.exists /\ document'.revision = document.revision
          /\ document'.edits = document.edits
      BY <1>5, <2>8 DEF MarkCheckpoint, FailCheckpoint, TypeInv, CanvasTypeOK,
         Document
    <3> QED
      BY <2>5, <3>1, <3>2
  <2>9. ASSUME NEW r \in Replicas, Checkpoint(r)
        PROVE  document'.exists /\ Projected'
    <3>1. UNCHANGED <<web, mirror>>
      BY <2>9 DEF Checkpoint
    <3>2. CASE ~ document.compacting
      BY <2>3, <2>9, <3>1, <3>2 DEF Checkpoint
    <3>3. CASE document.compacting
      <4> DEFINE upTo == Max({document.lastId} \cup
                   {u.id : u \in {v \in journal : v.id > document.lastId}})
      <4> HIDE DEF Recoverable
      <4>1. /\ document' = [document EXCEPT
                 !.edits = Recoverable, !.lineages = {document.epoch + 1},
                 !.revision = @ + 1, !.lastId = upTo,
                 !.epoch = @ + 1, !.compacting = FALSE]
            /\ outbox' = Upserted(document.revision + 1, Recoverable)
        BY <1>5, <2>9, <3>3 DEF Checkpoint
      <4> HIDE DEF upTo
      <4>2. /\ document'.exists /\ document'.revision = document.revision + 1
            /\ document'.edits = Recoverable
        BY <1>5, <4>1 DEF TypeInv, CanvasTypeOK, Document
      <4> QED
        BY <2>4, <3>1, <4>1, <4>2 DEF Upserted
    <3> QED
      BY <3>2, <3>3
  <2>10. ASSUME NEW r \in Replicas, ClaimProjection(r)
         PROVE  document'.exists /\ Projected'
    <3>1. UNCHANGED <<document, web>>
      BY <2>10 DEF ClaimProjection
    <3>2. /\ outbox.waiting /\ outbox'.waiting
          /\ outbox'.revision = outbox.revision /\ outbox'.edits = outbox.edits
      BY <2>10 DEF ClaimProjection, TypeInv, CanvasTypeOK, Outbox
    <3>3. mirror' = [mirror EXCEPT ![r] =
            [phase |-> "claimed", revision |-> outbox.revision,
             edits |-> outbox.edits]]
      BY <2>10 DEF ClaimProjection
    <3>4. ASSUME NEW q \in Replicas
          PROVE  \/ mirror'[q] = mirror[q]
                 \/ /\ mirror'[q].phase = "claimed"
                    /\ mirror'[q].revision = outbox.revision
                    /\ mirror'[q].edits = outbox.edits
      BY <3>3 DEF TypeInv, CanvasTypeOK
    <3> QED
      BY <1>5, <2>1, <2>2, <3>1, <3>2, <3>4
      DEF Projected, SameRevisionSameGraph
  <2>11. ASSUME NEW r \in Replicas, SendProjection(r)
         PROVE  document'.exists /\ Projected'
    <3>1. UNCHANGED <<document, outbox>>
      BY <2>11 DEF SendProjection
    <3>2. /\ web'.revision >= mirror[r].revision
          /\ \/ web' = web
             \/ /\ web'.revision = mirror[r].revision
                /\ web'.edits = mirror[r].edits
                /\ web.revision < mirror[r].revision
      BY <2>2, <2>11 DEF SendProjection
    <3>3. mirror[r].phase = "claimed"
      BY <2>11 DEF SendProjection
    <3>4. ASSUME NEW q \in Replicas
          PROVE  /\ mirror'[q].revision = mirror[q].revision
                 /\ mirror'[q].edits = mirror[q].edits
                 /\ q # r => mirror'[q].phase = mirror[q].phase
      BY <2>11 DEF SendProjection, TypeInv, CanvasTypeOK, Mirror
    <3>5. mirror[r].revision <= document.revision
      BY <2>1, <3>3 DEF Projected, SameRevisionSameGraph
    <3> QED
      BY <1>5, <2>1, <2>2, <3>1, <3>2, <3>3, <3>4, <3>5
      DEF Projected, SameRevisionSameGraph
  <2>12. ASSUME NEW r \in Replicas, FinishProjection(r)
         PROVE  document'.exists /\ Projected'
    <3>1. UNCHANGED <<document, web>>
      BY <2>12 DEF FinishProjection
    <3>2. ASSUME NEW q \in Replicas
          PROVE  mirror'[q] = mirror[q] \/ mirror'[q].phase = "idle"
      BY <2>12 DEF FinishProjection, NoMirror, TypeInv, CanvasTypeOK
    <3>3. mirror[r].phase = "sent"
      BY <2>12 DEF FinishProjection
    <3>4. CASE StillMine(r)
      <4>1. ~ outbox'.waiting
        BY <2>12, <3>4 DEF FinishProjection
      <4>2. web.revision = document.revision
        BY <2>1, <2>2, <3>3, <3>4
        DEF StillMine, Projected, SameRevisionSameGraph
      <4> QED
        BY <1>5, <2>1, <3>1, <3>2, <4>1, <4>2
        DEF Projected, SameRevisionSameGraph
    <3>5. CASE ~ StillMine(r)
      <4>1. outbox' = outbox
        BY <2>12, <3>5 DEF FinishProjection
      <4> QED
        BY <1>5, <2>1, <3>1, <3>2, <4>1 DEF Projected, SameRevisionSameGraph
    <3> QED
      BY <3>4, <3>5
  <2>13. ASSUME NEW r \in Replicas, FailProjection(r) \/ Crash(r)
         PROVE  document'.exists /\ Projected'
    <3>1. UNCHANGED <<document, web>>
      BY <2>13 DEF FailProjection, Crash, rowVars
    <3>2. ASSUME NEW q \in Replicas
          PROVE  mirror'[q] = mirror[q] \/ mirror'[q].phase = "idle"
      BY <2>13 DEF FailProjection, Crash, NoMirror, TypeInv, CanvasTypeOK
    <3>3. /\ outbox'.waiting = outbox.waiting
          /\ outbox'.revision = outbox.revision /\ outbox'.edits = outbox.edits
      BY <2>13 DEF FailProjection, Crash, rowVars, TypeInv, CanvasTypeOK, Outbox
    <3> QED
      BY <1>5, <2>1, <3>1, <3>2, <3>3 DEF Projected, SameRevisionSameGraph
  <2> QED
    BY <1>1, <2>3, <2>6, <2>7, <2>8, <2>9, <2>10, <2>11, <2>12, <2>13
    DEF RowsWritten, MirrorMoved, CopyWritten
<1> QED
  BY <1>4, <1>5

\* When nothing waits to be projected the web application has the stored
\* graph, whatever claims overlapped and whatever answers came late.
THEOREM ProjectionConverges == Safe => []NothingLeftToProject
<1>1. TypeInv /\ ProjectionInv => NothingLeftToProject
  <2> SUFFICES ASSUME TypeInv, ProjectionInv, project = "live",
                      document.exists, ~ outbox.waiting, ~ reseeded
               PROVE  web = [revision |-> document.revision,
                             edits |-> document.edits]
    BY DEF NothingLeftToProject
  <2>1. web.revision = document.revision /\ web.edits = document.edits
    BY DEF ProjectionInv, Projected, SameRevisionSameGraph
  <2> QED
    BY <2>1 DEF TypeInv, CanvasTypeOK
<1> QED
  BY InitTypes, TypesStep, InitProjection, ProjectionStep, <1>1, PTL DEF Safe

-----------------------------------------------------------------------------
(* What an accepted edit rests on while one replica at a time has the canvas. *)

\* The replica has the canvas in memory, or is reading it.
Active(r) == room[r].loaded \/ load[r].phase # "idle"

\* Without a checkpoint every session and every store is of the first epoch.
FirstEpoch ==
  /\ bus = {} /\ checkpoint = Nobody
  /\ ~ document.compacting /\ document.epoch = 1
  /\ \A r \in Replicas :
       {session[r], room[r].epoch, store[r].epoch} \subseteq {0, 1}

\* A room shows every accepted edit; a load still reads the stored row; what
\* is being stored is what the room shows, or the room waits for a later store.
Attended(r) ==
  /\ room[r].loaded => /\ load[r].phase = "idle"
                       /\ document.exists
                       /\ accepted \subseteq room[r].edits
  /\ room[r].dirty \/ store[r].phase # "idle" \/ journaling[r] # {} =>
       room[r].loaded
  /\ load[r].phase = "replay" => document.exists /\ load[r] = RowRead(document)
  /\ load[r].phase = "fetched" => ~ document.exists
  /\ store[r].phase # "idle" => room[r].dirty \/ room[r].edits = store[r].edits

Held ==
  /\ \A q, r \in Replicas : Active(q) /\ Active(r) => q = r
  /\ FirstEpoch
  /\ \A r \in Replicas : Attended(r)
  /\ \A e \in accepted : e \in Recoverable \/ WillBeStored(e)

HeldInv == calm /\ project = "live" => Held

\* Nothing is accepted before the first opening.
LEMMA InitHeld == CanvasInit => HeldInv
BY DEF CanvasInit, HeldInv, Held, FirstEpoch, Attended, Active, NoDocument, NotLoading, NoRoom, NoStore

\* A row that is not rewritten recovers what the journal held, and more.
LEMMA MoreIsRecoverable ==
  ASSUME document' = document, journal \subseteq journal'
  PROVE  Recoverable \subseteq Recoverable'
BY DEF Recoverable, Replayed

\* journalDocumentUpdate adds a row or nothing.
LEMMA JournalGrows ==
  ASSUME NEW e, NEW L, Journal(e, L)
  PROVE  journal \subseteq journal'
BY DEF Journal

\* While one replica is active the others hold nothing that waits.
LEMMA OthersIdle ==
  ASSUME Held, NEW r \in Replicas, Active(r), NEW q \in Replicas, q # r
  PROVE  /\ ~ room[q].loaded /\ ~ room[q].dirty
         /\ load[q].phase = "idle" /\ store[q].phase = "idle"
         /\ journaling[q] = {}
BY DEF Held, Active, Attended

\* Opening, editing, storing and unloading, while one replica is active, keep
\* every accepted edit in the row, in the journal after it, or waiting.
LEMMA HeldStep == TypeInv /\ HeldInv /\ [CanvasNext]_canvasVars => HeldInv'
<1> SUFFICES ASSUME TypeInv, HeldInv, [CanvasNext]_canvasVars,
                    calm', project' = "live"
             PROVE  Held'
  BY DEF HeldInv
<1>1. Held /\ calm /\ project = "live" /\ ~ Deleted /\ ~ Tombstone
  BY StepFrame DEF Frame, Deleted, Retire, Evict, HeldInv, Tombstone
<1> USE <1>1 DEF TypeInv, CanvasTypeOK, rowVars, roomVars, workerVars, pastVars
<1>2. CASE UNCHANGED canvasVars
  BY <1>2 DEF canvasVars, Held, FirstEpoch, Attended, Active, Recoverable, Replayed, WillBeStored
<1>3. ASSUME NEW r \in Replicas, OpenRoom(r) PROVE Held'
  <2>1. \A q \in Replicas : ~ Active(q)
    BY <1>3 DEF OpenRoom, Active
  <2>2. \A q \in Replicas \ {r} : load'[q] = load[q]
    BY <1>3 DEF OpenRoom
  <2>3. /\ ~ document.exists => load'[r].phase = "fetched"
        /\ document.exists => load'[r] = RowRead(document)
        /\ load'[r].phase # "idle"
    BY <1>3 DEF OpenRoom, RowRead, Loading
  <2>4. UNCHANGED <<document, journal, room, session, journaling, bus, store, checkpoint, accepted>>
    BY <1>3 DEF OpenRoom
  <2>5. Recoverable' = Recoverable
    BY <2>4 DEF Recoverable, Replayed
  <2>6. \A q \in Replicas : Attended(q)'
    BY <2>1, <2>2, <2>3, <2>4 DEF Held, Attended, Active, RowRead
  <2> QED
    BY <2>1, <2>2, <2>4, <2>5, <2>6 DEF Held, FirstEpoch, Active, WillBeStored
<1>4. ASSUME NEW r \in Replicas, Bootstrap(r) PROVE Held'
  <2>1. Active(r) /\ ~ document.exists /\ ~ room[r].loaded
    BY <1>4 DEF Bootstrap, Active, Held, Attended
  <2>2. document' = Seed /\ load' = [load EXCEPT ![r] = RowRead(Seed)]
    BY <1>4, <2>1 DEF Bootstrap
  <2>3. UNCHANGED <<room, session, journaling, bus, store, checkpoint, accepted>>
    BY <1>4 DEF Bootstrap
  <2>4. document'.exists /\ ~ document'.compacting /\ document'.epoch = 1
    BY <2>2 DEF Seed, NoDocument
  <2>5. load'[r] = RowRead(document') /\ load'[r].phase = "replay"
    BY <2>2 DEF RowRead
  <2>6. \A q \in Replicas \ {r} : load'[q] = load[q]
    BY <2>2
  <2>7. \A q \in Replicas : ~ room[q].loaded /\ ~ room[q].dirty /\ store[q].phase = "idle"
    BY <2>1, OthersIdle DEF Held, Attended
  <2>8. accepted = {}
    BY <2>1, <2>7 DEF Held, Recoverable, WillBeStored
  <2>9. \A q \in Replicas : Attended(q)'
    BY <2>1, <2>3, <2>4, <2>5, <2>6, OthersIdle DEF Held, Attended
  <2> QED
    BY <2>1, <2>3, <2>4, <2>5, <2>6, <2>8, <2>9 DEF Held, FirstEpoch, Active
<1>5. ASSUME NEW r \in Replicas, JoinRoom(r) PROVE Held'
  <2> DEFINE replayed == Replayed(load[r].lineages, load[r].lastId)
  <2>1. Active(r) /\ document.exists /\ load[r] = RowRead(document) /\ ~ room[r].loaded
    BY <1>5 DEF JoinRoom, Active, Held, Attended
  <2>2. UNCHANGED <<document, journal, session, journaling, bus, store, checkpoint, accepted>>
    BY <1>5 DEF JoinRoom
  <2>3. {q \in Replicas \ {r} : room[q].loaded} = {}
    BY <2>1, OthersIdle
  <2>4. room' = [q \in Replicas |->
                   IF q = r THEN [NoRoom EXCEPT !.loaded = TRUE,
                                    !.edits = load[r].edits \cup replayed,
                                    !.lineages = load[r].lineages]
                   ELSE room[q]]
    <3> DEFINE others   == {q \in Replicas \ {r} : room[q].loaded}
               edits    == load[r].edits \cup replayed
                             \cup UNION {room[q].edits : q \in others}
               lineages == load[r].lineages
                             \cup UNION {room[q].lineages : q \in others}
    <3>1. others = {}
      BY <2>3
    <3>2. edits = load[r].edits \cup replayed /\ lineages = load[r].lineages
      BY <3>1
    <3>3. room' = [q \in Replicas |->
                     IF q = r THEN [NoRoom EXCEPT !.loaded = TRUE, !.edits = edits,
                                                  !.lineages = lineages]
                     ELSE IF q \in others
                       THEN [room[q] EXCEPT !.edits = edits, !.lineages = lineages]
                     ELSE room[q]]
      BY <1>5 DEF JoinRoom, Joined
    <3> HIDE DEF others, edits, lineages, replayed
    <3> QED
      BY <3>1, <3>2, <3>3
  <2>5. load[r].edits \cup replayed = Recoverable
    <3>1. /\ load[r].edits = document.edits
          /\ load[r].lineages = document.lineages
          /\ load[r].lastId = document.lastId
      BY <2>1 DEF RowRead
    <3>2. replayed = Replayed(document.lineages, document.lastId)
      BY <3>1
    <3>3. Recoverable = document.edits \cup Replayed(document.lineages, document.lastId)
      BY <2>1 DEF Recoverable
    <3> QED
      BY <3>1, <3>2, <3>3
  <2>6. /\ room'[r].loaded /\ ~ room'[r].dirty
        /\ room'[r].edits = Recoverable /\ room'[r].epoch = 0
    BY <2>4, <2>5 DEF NoRoom
  <2>7. \A q \in Replicas \ {r} : room'[q] = room[q] /\ load'[q] = load[q]
    BY <1>5, <2>4 DEF JoinRoom
  <2>8. load'[r].phase = "idle"
    BY <1>5 DEF JoinRoom, NotLoading
  <2>9. \A q \in Replicas : store[q].phase = "idle" /\ ~ room[q].dirty
    BY <2>1, OthersIdle DEF Held, Attended
  <2>10. accepted \subseteq Recoverable
    BY <2>9 DEF Held, WillBeStored
  <2>11. Recoverable' = Recoverable
    BY <2>2 DEF Recoverable, Replayed
  <2> HIDE DEF replayed
  <2>12. \A q \in Replicas : Attended(q)'
    <3>1. Attended(r)'
      BY <2>1, <2>2, <2>6, <2>8, <2>9, <2>10 DEF Attended
    <3>2. ASSUME NEW q \in Replicas \ {r} PROVE Attended(q)'
      BY <2>2, <2>7 DEF Held, Attended
    <3> QED
      BY <3>1, <3>2
  <2>13. \A q, p \in Replicas : (Active(q) /\ Active(p))' => q = p
    <3>1. \A q \in Replicas : Active(q)' => q = r
      BY <2>1, <2>7, OthersIdle DEF Active
    <3> QED
      BY <3>1
  <2>14. FirstEpoch'
    BY <2>2, <2>6, <2>7 DEF Held, FirstEpoch
  <2> QED
    BY <2>2, <2>10, <2>11, <2>12, <2>13, <2>14 DEF Held
<1>6. ASSUME NEW r \in Replicas, Connect(r) \/ Disconnect(r) \/ CloseSessions(r)
      PROVE  Held'
  <2>1. UNCHANGED <<document, journal, load, room, journaling, bus, store, checkpoint, accepted>>
    BY <1>6 DEF Connect, Disconnect, CloseSessions
  <2>2. \A q \in Replicas : session'[q] \in {0, 1}
    BY <1>6 DEF Connect, Disconnect, CloseSessions, Held, FirstEpoch
  <2> QED
    BY <2>1, <2>2 DEF Held, FirstEpoch, Attended, Active, Recoverable, Replayed, WillBeStored
<1>7. ASSUME NEW r \in Replicas, NEW e \in UserEdits, Receive(r, e) PROVE Held'
  <2>1. journal \subseteq journal' /\ room[r].loaded
    BY <1>7, JournalGrows DEF Receive
  <2>2. UNCHANGED <<document, load, room, session, bus, store, checkpoint, accepted>>
    BY <1>7 DEF Receive
  <2>3. \A q \in Replicas : q # r => journaling'[q] = journaling[q]
    BY <1>7 DEF Receive
  <2>4. Recoverable \subseteq Recoverable'
    BY <2>1, <2>2, MoreIsRecoverable
  <2>5. \A q \in Replicas : Attended(q)'
    BY <2>1, <2>2, <2>3 DEF Held, Attended
  <2> QED
    BY <2>2, <2>4, <2>5 DEF Held, FirstEpoch, Active, WillBeStored
<1>8. ASSUME NEW r \in Replicas, NEW e \in Edits,
             (e \in UserEdits /\ Apply(r, e)) \/ (e \in ServiceEdits /\ ServiceWrite(r, e))
      PROVE  Held'
  <2>1. Active(r) /\ room[r].loaded
    BY <1>8 DEF Apply, ServiceWrite, Active
  <2>2. \A q \in Replicas \ {r} : ~ room[q].loaded
    BY <2>1, OthersIdle
  <2>3. UNCHANGED <<document, load, session, store, checkpoint>> /\ accepted' = accepted \cup {e}
    BY <1>8 DEF Apply, ServiceWrite
  <2>4. bus' = {}
    BY <1>8, <2>2 DEF Apply, ServiceWrite, PublishDocument, Held, FirstEpoch
  <2>5. PICK epoch \in {0, 1} :
          room' = [room EXCEPT ![r].edits = @ \cup {e}, ![r].dirty = TRUE, ![r].epoch = epoch]
    BY <1>8 DEF Apply, ServiceWrite, Held, FirstEpoch
  <2>6. /\ room'[r].loaded /\ room'[r].dirty /\ room'[r].epoch = epoch
        /\ room'[r].edits = room[r].edits \cup {e}
        /\ \A q \in Replicas \ {r} : room'[q] = room[q]
    BY <2>1, <2>5 DEF Room
  <2>7. \A q \in Replicas : journaling'[q] \subseteq journaling[q]
    BY <1>8 DEF Apply, ServiceWrite
  <2>8. Recoverable \subseteq Recoverable'
    <3>1. journal \subseteq journal'
      BY <1>8, JournalGrows DEF Apply, ServiceWrite
    <3> QED
      BY <2>3, <3>1, MoreIsRecoverable
  <2>9. \A q \in Replicas : Attended(q)'
    <3>1. Attended(r)'
      BY <2>1, <2>3, <2>6 DEF Held, Attended
    <3>2. ASSUME NEW q \in Replicas \ {r} PROVE Attended(q)'
      BY <2>2, <2>3, <2>6, <2>7 DEF Held, Attended
    <3> QED
      BY <3>1, <3>2
  <2>10. \A q \in Replicas : Active(q)' = Active(q)
    BY <2>1, <2>3, <2>6 DEF Active
  <2>11. FirstEpoch'
    BY <2>3, <2>4, <2>6 DEF Held, FirstEpoch
  <2>12. ASSUME NEW d \in accepted' PROVE WillBeStored(d)'
    BY <2>1, <2>3, <2>6 DEF Held, Attended, WillBeStored
  <2> QED
    BY <2>9, <2>10, <2>11, <2>12 DEF Held
<1>9. ASSUME NEW m \in bus, Deliver(m) PROVE Held'
  BY <1>9 DEF Held, FirstEpoch
<1>10. ASSUME NEW r \in Replicas, Encode(r) PROVE Held'
  <2>1. room[r].loaded /\ Active(r)
    BY <1>10 DEF Encode, Active
  <2>2. UNCHANGED <<document, journal, load, session, journaling, bus, checkpoint, accepted>>
    BY <1>10 DEF Encode
  <2>3. /\ store'[r].phase = "encoded"
        /\ store'[r].edits = room[r].edits /\ store'[r].epoch = room[r].epoch
        /\ room'[r].loaded = room[r].loaded /\ room'[r].edits = room[r].edits
        /\ ~ room'[r].dirty /\ room'[r].epoch = room[r].epoch
    BY <1>10 DEF Encode, Room
  <2>4. \A q \in Replicas \ {r} : room'[q] = room[q] /\ store'[q] = store[q]
    BY <1>10 DEF Encode
  <2>5. Recoverable' = Recoverable
    BY <2>2 DEF Recoverable, Replayed
  <2>6. \A q \in Replicas : Attended(q)'
    <3>1. Attended(r)'
      BY <2>1, <2>2, <2>3 DEF Held, Attended
    <3>2. ASSUME NEW q \in Replicas \ {r} PROVE Attended(q)'
      BY <2>2, <2>4 DEF Held, Attended
    <3> QED
      BY <3>1, <3>2
  <2>7. \A q \in Replicas : Active(q)' = Active(q)
    BY <2>2, <2>3, <2>4 DEF Active
  <2>8. FirstEpoch'
    BY <2>2, <2>3, <2>4 DEF Held, FirstEpoch
  <2>9. ASSUME NEW d \in accepted' PROVE WillBeStored(d)'
    BY <2>1, <2>2, <2>3 DEF Held, Attended, WillBeStored
  <2> QED
    BY <2>6, <2>7, <2>8, <2>9 DEF Held
<1>11. ASSUME NEW r \in Replicas, LockStore(r) PROVE Held'
  <2>1. UNCHANGED <<document, journal, load, room, session, journaling, bus, checkpoint, accepted>>
    BY <1>11 DEF LockStore
  <2>2. /\ store[r].phase # "idle" /\ store'[r].phase # "idle"
        /\ store'[r].edits = store[r].edits /\ store'[r].epoch = store[r].epoch
    BY <1>11 DEF LockStore, Store
  <2>3. \A q \in Replicas \ {r} : store'[q] = store[q]
    BY <1>11 DEF LockStore
  <2>4. Recoverable' = Recoverable
    BY <2>1 DEF Recoverable, Replayed
  <2>5. \A q \in Replicas : Attended(q)'
    BY <2>1, <2>2, <2>3 DEF Held, Attended
  <2>6. FirstEpoch'
    BY <2>1, <2>2, <2>3 DEF Held, FirstEpoch
  <2>7. ASSUME NEW d \in accepted' PROVE d \in Recoverable' \/ WillBeStored(d)'
    BY <2>1, <2>2, <2>3, <2>4 DEF Held, WillBeStored
  <2> QED
    BY <2>1, <2>5, <2>6, <2>7 DEF Held, Active
<1>12. ASSUME NEW r \in Replicas, CommitStore(r) PROVE Held'
  <2>1. /\ room[r].loaded /\ document.exists /\ accepted \subseteq room[r].edits
        /\ room[r].dirty \/ room[r].edits = store[r].edits
    BY <1>12 DEF CommitStore, Held, Attended
  <2>2. ~ Overtaken(r)
    BY DEF Overtaken, Held, FirstEpoch
  <2>3. /\ document'.exists /\ ~ document'.compacting /\ document'.epoch = 1
        /\ document'.edits = store[r].edits
    BY <1>12, <2>1, <2>2 DEF CommitStore, SameState, Document, Held, FirstEpoch
  <2>4. UNCHANGED <<load, room, session, journaling, bus, checkpoint, accepted>>
    BY <1>12 DEF CommitStore
  <2>5. /\ store'[r].phase = "idle" /\ store'[r].epoch = 0
        /\ \A q \in Replicas \ {r} : store'[q] = store[q]
    BY <1>12 DEF CommitStore, NoStore
  <2>6. Active(r)
    BY <2>1 DEF Active
  <2>7. \A q \in Replicas : Attended(q)'
    <3>1. Attended(r)'
      BY <2>1, <2>3, <2>4, <2>5 DEF Held, Attended
    <3>2. ASSUME NEW q \in Replicas \ {r} PROVE Attended(q)'
      BY <2>4, <2>5, <2>6, OthersIdle DEF Attended
    <3> QED
      BY <3>1, <3>2
  <2>8. FirstEpoch'
    BY <2>3, <2>4, <2>5 DEF Held, FirstEpoch
  <2>9. ASSUME NEW d \in accepted' PROVE d \in Recoverable' \/ WillBeStored(d)'
    <3>1. CASE room[r].dirty
      BY <2>1, <2>4, <3>1 DEF WillBeStored
    <3>2. CASE room[r].edits = store[r].edits
      BY <2>1, <2>3, <2>4, <3>2 DEF Recoverable
    <3> QED
      BY <2>1, <3>1, <3>2
  <2> QED
    BY <2>4, <2>7, <2>8, <2>9 DEF Held, Active
<1>13. ASSUME NEW r \in Replicas, FailStore(r) \/ Crash(r) \/ MarkCheckpoint(r)
       PROVE  Held'
  BY <1>13 DEF FailStore, Crash, Trouble, MarkCheckpoint
<1>14. ASSUME NEW r \in Replicas, Unload(r) PROVE Held'
  <2>1. /\ room[r].loaded /\ ~ room[r].dirty /\ journaling[r] = {}
        /\ store[r].phase = "idle"
    BY <1>14 DEF Unload
  <2>2. UNCHANGED <<document, journal, load, session, journaling, bus, store, checkpoint, accepted>>
    BY <1>14 DEF Unload
  <2>3. /\ ~ room'[r].loaded /\ ~ room'[r].dirty /\ room'[r].epoch = 0
        /\ \A q \in Replicas \ {r} : room'[q] = room[q]
    BY <1>14 DEF Unload, NoRoom
  <2>4. Recoverable' = Recoverable
    BY <2>2 DEF Recoverable, Replayed
  <2>5. \A q \in Replicas : Attended(q)'
    BY <2>1, <2>2, <2>3 DEF Held, Attended
  <2>6. \A q \in Replicas : Active(q)' => Active(q)
    BY <2>2, <2>3 DEF Active
  <2>7. FirstEpoch'
    BY <2>2, <2>3 DEF Held, FirstEpoch
  <2>8. ASSUME NEW d \in accepted' PROVE d \in Recoverable' \/ WillBeStored(d)'
    BY <2>1, <2>2, <2>3, <2>4 DEF Held, WillBeStored
  <2> QED
    BY <2>5, <2>6, <2>7, <2>8 DEF Held
<1>15. CASE Prune
  <2>1. UNCHANGED <<document, load, room, session, journaling, bus, store, checkpoint, accepted>>
    BY <1>15 DEF Prune
  <2>2. Recoverable' = Recoverable
    BY <1>15 DEF Prune, Recoverable, Replayed
  <2> QED
    BY <2>1, <2>2 DEF Held, FirstEpoch, Attended, Active, WillBeStored
<1>16. ASSUME NEW r \in Replicas, Projecting(r) \/ FailProjection(r) PROVE Held'
  <2>1. UNCHANGED <<document, journal, load, room, session, journaling, bus, store, checkpoint, accepted>>
    BY <1>16 DEF Projecting, ClaimProjection, SendProjection, FinishProjection, FailProjection
  <2> QED
    BY <2>1 DEF Held, FirstEpoch, Attended, Active, Recoverable, Replayed, WillBeStored
<1>17. ASSUME NEW r \in Replicas, Checkpoint(r) \/ FailCheckpoint(r) PROVE Held'
  BY <1>17, CanvasAssumption DEF Checkpoint, FailCheckpoint, Held, FirstEpoch
<1> QED
  BY <1>2, <1>3, <1>4, <1>5, <1>6, <1>7, <1>8, <1>9, <1>10, <1>11, <1>12, <1>13, <1>14, <1>15, <1>16, <1>17
  DEF CanvasNext, Opening, Storing, Checkpointing, Deleted, Edits

\* While one replica at a time has the canvas open and nothing fails, no edit
\* falls between the encoded state and the journal id it is stored with.
THEOREM AcceptedEditsAreHeld == Safe => []AcceptedIsHeld
<1>1. HeldInv => AcceptedIsHeld
  BY DEF HeldInv, Held, AcceptedIsHeld
<1> QED
  BY InitTypes, TypesStep, InitHeld, HeldStep, <1>1, PTL DEF Safe

-----------------------------------------------------------------------------
(* The canvas in the browser (CanvasWindow).                               *)

\* Graphs and documents whose values have been typed, and a page that holds them.
Graphs(n) == [Fields -> Blank..n]
Documents(n) == [Fields -> [by : Seq(Browsers \cup {0}), value : Blank..n]]
Dragged(n) == [base : Graphs(n), field : Placed, to : Blank..n]
Links == {"fetching", "joining", "failed", "up", "down"}
Pages(n) ==
  [at : Canvases, link : Links, epoch : Nat, doc : Documents(n), synced : BOOLEAN,
   readyFor : SUBSET Canvases, hydrating : Canvases \cup {Nowhere}, cold : BOOLEAN,
   left : [at : Canvases, shown : Graphs(n)], refetching : Nat,
   nodes : Graphs(n), shown : Graphs(n), unwritten : SUBSET Fields,
   drag : {NotDragging} \cup Dragged(n), past : Seq(Graphs(n)), future : Seq(Graphs(n)),
   cache : [Canvases -> Graphs(n)]]

\* What is dragged was there when the drag began: a removal meanwhile is a difference.
DragStarts(p) == p.drag # NotDragging => p.drag.base[p.drag.field] # Blank
ShowsDocument(p) ==
  p.synced => \A f \in Fields :
    p.nodes[f] = p.doc[f].value \/ f \in p.unwritten \/ (p.drag # NotDragging /\ f = p.drag.field)

\* A page whose document is synced is not waiting for it, and shows it, but for what is
\* dragged and what a drag left where it began.
PageInv(p, n) ==
  /\ p \in Pages(n)
  /\ p.synced => p.hydrating # p.at
  /\ DragStarts(p) /\ ShowsDocument(p)

WindowInv ==
  /\ typist \in Seq(Browsers)
  /\ shared \in [Canvases -> Documents(Len(typist))]
  /\ lineage \in [Canvases -> Nat]
  /\ page \in [Browsers -> Pages(Len(typist))]
  /\ \A b \in Browsers : PageInv(page[b], Len(typist))

\* What has been typed so far is typed later on.
LEMMA PagesGrow ==
  ASSUME NEW n \in Nat, NEW m \in Nat, n <= m
  PROVE  Graphs(n) \subseteq Graphs(m) /\ Documents(n) \subseteq Documents(m)
         /\ Pages(n) \subseteq Pages(m)
<1>1. Blank..n \subseteq Blank..m
  BY DEF Blank
<1>2. Graphs(n) \subseteq Graphs(m)
  BY <1>1 DEF Graphs
<1>3. Documents(n) \subseteq Documents(m)
  BY <1>1 DEF Documents
<1>4. Seq(Graphs(n)) \subseteq Seq(Graphs(m))
  BY <1>2
<1>5. {NotDragging} \cup Dragged(n) \subseteq {NotDragging} \cup Dragged(m)
  BY <1>1, <1>2 DEF Dragged
<1>6. [at : Canvases, shown : Graphs(n)] \subseteq [at : Canvases, shown : Graphs(m)]
  BY <1>2
<1>7. [Canvases -> Graphs(n)] \subseteq [Canvases -> Graphs(m)]
  BY <1>2
<1>8. Pages(n) \subseteq Pages(m)
  BY <1>2, <1>3, <1>4, <1>5, <1>6, <1>7 DEF Pages
<1> QED
  BY <1>2, <1>3, <1>8

\* The graphs and documents a page is built from.
LEMMA FirstGraphs ==
  ASSUME NEW n \in Nat
  PROVE  /\ Empty \in Graphs(n)
         /\ \A c : FirstGraph(c) \in Graphs(n)
         /\ \A g \in Graphs(n), by \in Seq(Browsers \cup {0}) : Entries(g, by) \in Documents(n)
         /\ \A d \in Documents(n) : /\ GraphOf(d) \in Graphs(n)
                                    /\ \A f \in Fields : GraphOf(d)[f] = d[f].value
<1>1. Blank \in Blank..n /\ 0 \in Blank..n
  BY DEF Blank
<1>2. Empty \in Graphs(n) /\ \A c : FirstGraph(c) \in Graphs(n)
  BY <1>1 DEF Empty, FirstGraph, Graphs
<1>3. ASSUME NEW g \in Graphs(n), NEW by \in Seq(Browsers \cup {0})
      PROVE  Entries(g, by) \in Documents(n)
  BY DEF Entries, Graphs, Documents
<1>4. ASSUME NEW d \in Documents(n)
      PROVE  GraphOf(d) \in Graphs(n) /\ \A f \in Fields : GraphOf(d)[f] = d[f].value
  BY DEF GraphOf, Graphs, Documents
<1> QED
  BY <1>2, <1>3, <1>4

\* A merged document has its entries from either.
LEMMA MergedDocument ==
  ASSUME NEW n \in Nat, NEW d \in Documents(n), NEW e \in Documents(n)
  PROVE  Merged(d, e) \in Documents(n)
<1>1. \A f \in Fields : Merged(d, e)[f] \in {d[f], e[f]}
  BY DEF Merged
<1> QED
  BY <1>1 DEF Merged, Documents

\* A patch writes the fields that differ, and them alone.
LEMMA PatchedDocument ==
  ASSUME NEW n \in Nat, NEW d \in Documents(n), NEW before \in Graphs(n),
         NEW after \in Graphs(n), NEW b \in Browsers
  PROVE  /\ Patched(d, before, after, b) \in Documents(n)
         /\ \A f \in Fields :
              Patched(d, before, after, b)[f].value =
                IF before[f] = after[f] THEN d[f].value ELSE after[f]
<1>1. ASSUME NEW f \in Fields
      PROVE  /\ Patched(d, before, after, b)[f] \in [by : Seq(Browsers \cup {0}), value : Blank..n]
             /\ Patched(d, before, after, b)[f].value =
                  IF before[f] = after[f] THEN d[f].value ELSE after[f]
  <2>1. d[f] \in [by : Seq(Browsers \cup {0}), value : Blank..n] /\ after[f] \in Blank..n
    BY DEF Documents, Graphs
  <2>2. Append(d[f].by, b) \in Seq(Browsers \cup {0})
    BY <2>1
  <2> QED
    BY <2>1, <2>2 DEF Patched
<1> QED
  BY <1>1 DEF Patched, Documents

\* The members of a page, by name.
LEMMA PageFields ==
  ASSUME NEW n \in Nat, NEW p \in Pages(n)
  PROVE  /\ p.at \in Canvases /\ p.link \in Links /\ p.epoch \in Nat /\ p.doc \in Documents(n)
         /\ p.synced \in BOOLEAN /\ p.readyFor \in SUBSET Canvases
         /\ p.hydrating \in Canvases \cup {Nowhere} /\ p.cold \in BOOLEAN
         /\ p.left \in [at : Canvases, shown : Graphs(n)] /\ p.refetching \in Nat
         /\ p.unwritten \in SUBSET Fields
         /\ p.nodes \in Graphs(n) /\ p.shown \in Graphs(n)
         /\ p.drag \in {NotDragging} \cup Dragged(n)
         /\ p.past \in Seq(Graphs(n)) /\ p.future \in Seq(Graphs(n))
         /\ p.cache \in [Canvases -> Graphs(n)]
BY DEF Pages

\* Painting the document over the screen.
LEMMA PaintedPage ==
  ASSUME NEW n \in Nat, NEW p \in Pages(n), DragStarts(p)
  PROVE  PageInv(Painted(p), n)
<1> USE PageFields
<1>1. GraphOf(p.doc) \in Graphs(n) /\ \A f \in Fields : GraphOf(p.doc)[f] = p.doc[f].value
  BY FirstGraphs
<1> DEFINE g == GraphOf(p.doc)
           c == [p.cache EXCEPT ![p.at] = g]
           h == IF p.hydrating = p.at THEN Nowhere ELSE p.hydrating
           none == {}
           q == [p EXCEPT !.nodes = g, !.shown = g, !.unwritten = none, !.hydrating = h,
                          !.cache = c]
<1>2. Painted(p) = q
  BY DEF Painted, Pages
<1>3. /\ g \in Graphs(n) /\ c \in [Canvases -> Graphs(n)] /\ none \in SUBSET Fields
      /\ h \in Canvases \cup {Nowhere} /\ h # p.at
  BY <1>1, WindowAssumption
<1> HIDE DEF g, c, h, none
<1>4. /\ q \in Pages(n) /\ q.hydrating # q.at /\ q.nodes = g /\ q.doc = p.doc
      /\ q.drag = p.drag
  BY <1>3 DEF Pages
<1>5. Painted(p) \in Pages(n) /\ Painted(p).hydrating # Painted(p).at
      /\ Painted(p).nodes = GraphOf(p.doc) /\ Painted(p).doc = p.doc /\ Painted(p).drag = p.drag
  BY <1>2, <1>4 DEF g
<1> QED
  BY <1>1, <1>5 DEF PageInv, DragStarts, ShowsDocument

\* A page that changes neither screen nor document, and is not synced by it.
LEMMA SameScreen ==
  ASSUME NEW n \in Nat, NEW p, PageInv(p, n), NEW q \in Pages(n),
         q.drag = p.drag, q.nodes = p.nodes, q.doc = p.doc,
         q.synced => p.synced, q.hydrating = p.hydrating, q.at = p.at, q.unwritten = p.unwritten
  PROVE  PageInv(q, n)
BY DEF PageInv, DragStarts, ShowsDocument

\* The connection alone comes or goes.
LEMMA LinkedPage ==
  ASSUME NEW n \in Nat, NEW p, PageInv(p, n), NEW link \in Links
  PROVE  PageInv([p EXCEPT !.link = link], n)
<1> DEFINE q == [p EXCEPT !.link = link]
<1>1. p \in Pages(n)
  BY DEF PageInv
<1>2. /\ q \in Pages(n) /\ q.drag = p.drag /\ q.nodes = p.nodes /\ q.doc = p.doc
      /\ q.synced = p.synced /\ q.hydrating = p.hydrating /\ q.at = p.at
      /\ q.unwritten = p.unwritten
  BY <1>1 DEF Pages
<1> HIDE DEF q
<1>3. PageInv(q, n)
  BY <1>2, SameScreen
<1> QED
  BY <1>3 DEF q

\* A page without a synced document need not show it.
LEMMA NotSynced ==
  ASSUME NEW n \in Nat, NEW p \in Pages(n), ~ p.synced, DragStarts(p)
  PROVE  PageInv(p, n)
BY DEF PageInv, ShowsDocument

\* The screen becomes `next`, and so does a synced document where they differ.
LEMMA MutatedPage ==
  ASSUME NEW n \in Nat, NEW p, PageInv(p, n), NEW b \in Browsers,
         NEW q \in Pages(n), NEW next \in Graphs(n),
         q.drag = p.drag, q.doc = p.doc, q.synced = p.synced,
         q.hydrating = p.hydrating /\ q.at = p.at
         /\ q.unwritten = p.unwritten,
         q.nodes = next
  PROVE  PageInv(Mutated(q, p.nodes, next, b), n)
<1> USE PageFields
<1>1. p \in Pages(n) /\ DragStarts(q) /\ (p.synced => p.hydrating # p.at)
  BY DEF PageInv, DragStarts
<1>2. CASE ~ q.synced
  BY <1>1, <1>2, NotSynced DEF Mutated
<1>3. CASE q.synced
  <2> DEFINE doc == Patched(q.doc, p.nodes, next, b)
             r == [q EXCEPT !.doc = doc]
  <2>1. Mutated(q, p.nodes, next, b) = r
    BY <1>3 DEF Mutated, Pages
  <2>2. /\ doc \in Documents(n)
        /\ \A f \in Fields :
             doc[f].value = IF p.nodes[f] = next[f] THEN q.doc[f].value ELSE next[f]
    BY <1>1, PatchedDocument
  <2> HIDE DEF doc
  <2>3. /\ r \in Pages(n) /\ r.doc = doc /\ r.nodes = next /\ r.synced = q.synced
        /\ r.drag = q.drag /\ r.hydrating = q.hydrating /\ r.at = q.at
        /\ r.unwritten = q.unwritten
    BY <2>2 DEF Pages
  <2> HIDE DEF r
  <2>4. ShowsDocument(p)
    BY DEF PageInv
  <2>5. ShowsDocument(r)
    BY <1>3, <2>2, <2>3, <2>4 DEF ShowsDocument
  <2> QED
    BY <1>1, <2>1, <2>3, <2>5 DEF PageInv, DragStarts
<1> QED
  BY <1>2, <1>3

\* A commit that is refused leaves the page alone.
LEMMA CommittedPage ==
  ASSUME NEW n \in Nat, NEW p, PageInv(p, n), NEW b \in Browsers,
         NEW q \in Pages(n), NEW next \in Graphs(n),
         q.drag = p.drag, q.doc = p.doc, q.synced = p.synced,
         q.hydrating = p.hydrating /\ q.at = p.at
         /\ q.unwritten = p.unwritten,
         q.nodes = p.nodes
  PROVE  PageInv(Committed(q, next, b), n)
<1>1. CASE q.hydrating # Nowhere \/ q.at \notin q.readyFor
  BY <1>1, SameScreen DEF Committed
<1>2. CASE ~ (q.hydrating # Nowhere \/ q.at \notin q.readyFor)
  <2> DEFINE r == [q EXCEPT !.nodes = next, !.shown = next]
  <2>1. Committed(q, next, b) = Mutated(r, p.nodes, next, b)
    BY <1>2 DEF Committed
  <2>2. /\ r \in Pages(n) /\ r.doc = q.doc /\ r.nodes = next /\ r.synced = q.synced
        /\ r.drag = q.drag /\ r.hydrating = q.hydrating /\ r.at = q.at
        /\ r.unwritten = q.unwritten
    BY DEF Pages
  <2> HIDE DEF r
  <2> QED
    BY <2>1, <2>2, MutatedPage
<1> QED
  BY <1>1, <1>2

\* The history grows; neither screen nor document moves.
LEMMA RememberedPage ==
  ASSUME NEW n \in Nat, NEW p \in Pages(n)
  PROVE  LET q == Remembered(p) IN
         /\ q \in Pages(n) /\ q.drag = p.drag /\ q.doc = p.doc /\ q.synced = p.synced
         /\ q.hydrating = p.hydrating /\ q.at = p.at
         /\ q.unwritten = p.unwritten /\ q.nodes = p.nodes /\ q.shown = p.shown
<1> USE PageFields
<1>1. Append(p.past, p.shown) \in Seq(Graphs(n)) /\ <<>> \in Seq(Graphs(n))
  OBVIOUS
<1>2. Remembered(p) = [p EXCEPT !.past = Append(p.past, p.shown), !.future = <<>>]
  BY DEF Remembered, Pages
<1> QED
  BY <1>1, <1>2 DEF Pages

\* A step of one window, and one in which a value is typed.
LEMMA PageStep ==
  ASSUME WindowInv, NEW b \in Browsers, NEW new, PageInv(new, Len(typist)), Set(b, new),
         typist' = typist, shared' \in [Canvases -> Documents(Len(typist))],
         lineage' \in [Canvases -> Nat]
  PROVE  WindowInv'
<1>1. new \in Pages(Len(typist)) /\ page \in [Browsers -> Pages(Len(typist))]
  BY DEF PageInv, WindowInv
<1>2. page' = [page EXCEPT ![b] = new]
  BY DEF Set
<1>3. \A c \in Browsers : PageInv(page'[c], Len(typist))
  BY <1>1, <1>2 DEF WindowInv
<1>4. page' \in [Browsers -> Pages(Len(typist))]
  BY <1>1, <1>2
<1> QED
  BY <1>3, <1>4 DEF WindowInv

LEMMA TypedStep ==
  ASSUME WindowInv, NEW b \in Browsers, NEW new, PageInv(new, NextValue), Set(b, new), Type(b)
  PROVE  WindowInv'
<1>1. /\ typist' = Append(typist, b) /\ typist' \in Seq(Browsers) /\ Len(typist') = Len(typist) + 1
      /\ Len(typist) \in Nat /\ shared' = shared /\ lineage' = lineage
  BY DEF Type, WindowInv
<1> DEFINE n == Len(typist)
           m == Len(typist')
<1>2. n \in Nat /\ m \in Nat /\ n <= m /\ NextValue = m
  BY <1>1 DEF NextValue
<1>3. /\ page \in [Browsers -> Pages(n)] /\ shared \in [Canvases -> Documents(n)]
      /\ lineage \in [Canvases -> Nat] /\ \A c \in Browsers : PageInv(page[c], n)
  BY DEF WindowInv
<1> HIDE DEF n, m
<1>4. Pages(n) \subseteq Pages(m) /\ Documents(n) \subseteq Documents(m)
  BY <1>2, PagesGrow
<1>5. \A c \in Browsers : PageInv(page[c], m)
  BY <1>3, <1>4 DEF PageInv
<1>6. page' = [page EXCEPT ![b] = new] /\ new \in Pages(m) /\ PageInv(new, m)
  BY <1>2 DEF Set, PageInv
<1>7. page \in [Browsers -> Pages(m)] /\ shared \in [Canvases -> Documents(m)]
  BY <1>3, <1>4
<1>8. page' \in [Browsers -> Pages(m)] /\ \A c \in Browsers : PageInv(page'[c], m)
  BY <1>5, <1>6, <1>7
<1>9. shared' \in [Canvases -> Documents(m)] /\ lineage' \in [Canvases -> Nat]
  BY <1>1, <1>3, <1>7
<1> QED
  BY <1>1, <1>8, <1>9 DEF WindowInv, m

\* What the state of a window is, by name.
LEMMA WindowFields ==
  ASSUME WindowInv, NEW b \in Browsers
  PROVE  /\ Len(typist) \in Nat /\ PageInv(page[b], Len(typist))
         /\ page[b] \in Pages(Len(typist)) /\ DragStarts(page[b])
         /\ shared \in [Canvases -> Documents(Len(typist))] /\ lineage \in [Canvases -> Nat]
         /\ page[b].at \in Canvases
BY PageFields DEF WindowInv, PageInv

\* A new session starts with an empty document.
LEMMA NewSessionPage ==
  ASSUME WindowInv, NEW b \in Browsers
  PROVE  PageInv(NewSession(page[b]), Len(typist))
<1> DEFINE n == Len(typist)
           p == page[b]
           d == Entries(Empty, <<>>)
           e == lineage[p.at]
           q == [p EXCEPT !.link = "joining", !.epoch = e, !.doc = d, !.synced = FALSE]
<1>1. /\ n \in Nat /\ p \in Pages(n) /\ DragStarts(p) /\ e \in Nat
  BY WindowFields
<1>2. d \in Documents(n)
  <2>1. <<>> \in Seq(Browsers \cup {0})
    OBVIOUS
  <2> QED
    BY <1>1, <2>1, FirstGraphs
<1>3. NewSession(p) = q
  BY DEF NewSession
<1> HIDE DEF n, p, d, e
<1>4. q \in Pages(n) /\ q.synced = FALSE /\ q.drag = p.drag
  BY <1>1, <1>2 DEF Pages, Links
<1>5. PageInv(q, n)
  BY <1>1, <1>4, NotSynced DEF DragStarts
<1> QED
  BY <1>3, <1>5 DEF n, p

\* The document has arrived.
LEMMA SyncedPage ==
  ASSUME WindowInv, NEW b \in Browsers, NEW doc \in Documents(Len(typist))
  PROVE  PageInv(Synced(page[b], doc), Len(typist))
<1> DEFINE n == Len(typist)
           p == page[b]
           q == [p EXCEPT !.link = "up", !.doc = doc, !.synced = TRUE, !.readyFor = {p.at}]
<1>1. n \in Nat /\ p \in Pages(n) /\ DragStarts(p) /\ {p.at} \in SUBSET Canvases
  BY WindowFields
<1>2. Synced(p, doc) = Painted(q)
  BY DEF Synced
<1>3. doc \in Documents(n)
  OBVIOUS
<1> HIDE DEF n, p
<1>4. q \in Pages(n) /\ q.drag = p.drag
  BY <1>1, <1>3 DEF Pages, Links
<1>5. PageInv(Painted(q), n)
  BY <1>1, <1>4, PaintedPage DEF DragStarts
<1> QED
  BY <1>2, <1>5 DEF n, p

\* The connection of a window comes and goes; its session is replaced, or synced.
LEMMA SessionStep ==
  ASSUME WindowInv, NEW b \in Browsers,
         \/ FetchToken(b) \/ TokenFails(b) \/ RetrySession(b) \/ Join(b)
         \/ LoseConnection(b) \/ Reconnect(b) \/ SendUpdates(b) \/ ReceiveUpdates(b)
  PROVE  WindowInv'
<1> USE WindowFields
<1> DEFINE n == Len(typist)
           p == page[b]
           both == Merged(p.doc, shared[p.at])
<1>1. typist' = typist /\ lineage' = lineage
  BY DEF FetchToken, TokenFails, RetrySession, Join, LoseConnection, Reconnect, SendUpdates,
         ReceiveUpdates, OnlyPage
<1>2. /\ p.doc \in Documents(n) /\ shared[p.at] \in Documents(n)
      /\ both \in Documents(n) /\ Merged(shared[p.at], p.doc) \in Documents(n)
  BY PageFields, MergedDocument
<1>3. [shared EXCEPT ![p.at] = both] \in [Canvases -> Documents(n)]
      /\ [shared EXCEPT ![p.at] = Merged(@, p.doc)] \in [Canvases -> Documents(n)]
  BY <1>2
<1>4. ASSUME NEW link \in {"failed", "fetching", "down"}
      PROVE  PageInv([p EXCEPT !.link = link], n)
  <2>1. link \in Links
    BY DEF Links
  <2> QED
    BY <2>1, LinkedPage
<1>5. CASE FetchToken(b)
  BY <1>1, <1>5, NewSessionPage, PageStep DEF FetchToken, OnlyPage
<1>6. CASE TokenFails(b)
  BY <1>1, <1>4, <1>6, PageStep DEF TokenFails
<1>7. CASE RetrySession(b)
  BY <1>1, <1>4, <1>7, PageStep DEF RetrySession, OnlyPage
<1>8. CASE Join(b)
  <2>1. PageInv(Synced(p, both), n)
    BY <1>2, SyncedPage
  <2> QED
    BY <1>1, <1>4, <1>8, <2>1, PageStep DEF Join, OnlyPage
<1>9. CASE LoseConnection(b)
  BY <1>1, <1>4, <1>9, PageStep DEF LoseConnection
<1>10. CASE Reconnect(b)
  <2>1. PageInv(Synced(p, both), n)
    BY <1>2, SyncedPage
  <2> QED
    BY <1>1, <1>3, <1>10, <2>1, NewSessionPage, PageStep DEF Reconnect
<1>11. CASE SendUpdates(b)
  <2>1. shared' \in [Canvases -> Documents(n)] /\ page' = page
    BY <1>3, <1>11 DEF SendUpdates
  <2> QED
    BY <1>1, <2>1 DEF WindowInv
<1>12. CASE ReceiveUpdates(b)
  <2> DEFINE q == [p EXCEPT !.doc = both]
  <2>1. Set(b, Painted(q)) /\ shared' = shared
    BY <1>12 DEF ReceiveUpdates, OnlyPage
  <2>2. q \in Pages(n) /\ q.drag = p.drag
    BY <1>2 DEF Pages
  <2> HIDE DEF q
  <2>3. PageInv(Painted(q), n)
    BY <2>2, PaintedPage DEF DragStarts
  <2> QED
    BY <1>1, <2>1, <2>3, PageStep
<1> QED
  BY <1>5, <1>6, <1>7, <1>8, <1>9, <1>10, <1>11, <1>12

\* A new lineage closes connections, and nothing else.
LEMMA LineageStep ==
  ASSUME WindowInv, NEW c \in Canvases, NewLineage(c)
  PROVE  WindowInv'
<1> DEFINE n == Len(typist)
<1>1. /\ typist' = typist /\ shared' = shared
      /\ lineage' = [lineage EXCEPT ![c] = @ + 1]
  BY DEF NewLineage
<1>2. lineage' \in [Canvases -> Nat]
  BY <1>1 DEF WindowInv
<1>3. ASSUME NEW b \in Browsers
      PROVE  PageInv(page'[b], n) /\ page'[b] \in Pages(n)
  <2> DEFINE q == [page[b] EXCEPT !.link = "down"]
  <2>1. page'[b] = q \/ page'[b] = page[b]
    BY DEF NewLineage
  <2>2. PageInv(q, n)
    BY WindowFields, LinkedPage DEF Links
  <2>3. PageInv(page'[b], n)
    BY <2>1, <2>2, WindowFields
  <2> QED
    BY <2>3 DEF PageInv
<1>4. page' \in [Browsers -> Pages(n)]
  BY <1>3 DEF NewLineage
<1> QED
  BY <1>1, <1>2, <1>3, <1>4 DEF WindowInv

\* An edit writes the value it puts on the screen.
LEMMA EditStep ==
  ASSUME WindowInv, NEW b \in Browsers, NEW f \in Fields, Edit(b, f)
  PROVE  WindowInv'
<1> DEFINE m == NextValue
           p == page[b]
           q == Remembered(p)
           next == [p.nodes EXCEPT ![f] = m]
<1>1. /\ Set(b, Committed(q, next, b)) /\ Type(b)
  BY DEF Edit
<1>2. /\ Len(typist) \in Nat /\ m \in Nat /\ Len(typist) <= m /\ m \in Blank..m
      /\ p \in Pages(Len(typist)) /\ PageInv(p, Len(typist))
  BY WindowFields DEF NextValue, Blank
<1> HIDE DEF m, p
<1>3. p \in Pages(m) /\ PageInv(p, m)
  BY <1>2, PagesGrow DEF PageInv
<1>4. p.nodes \in Graphs(m)
  BY <1>2, <1>3, PageFields
<1>5. next \in Graphs(m)
  BY <1>2, <1>4 DEF Graphs
<1>6. /\ q \in Pages(m) /\ q.drag = p.drag /\ q.doc = p.doc /\ q.synced = p.synced
      /\ q.hydrating = p.hydrating /\ q.at = p.at
      /\ q.unwritten = p.unwritten /\ q.nodes = p.nodes
  BY <1>2, <1>3, RememberedPage
<1> HIDE DEF q, next
<1>7. PageInv(Committed(q, next, b), m)
  BY <1>2, <1>3, <1>5, <1>6, CommittedPage
<1> QED
  BY <1>1, <1>7, TypedStep DEF m

\* A removal writes what it takes off the screen.
LEMMA RemoveStep ==
  ASSUME WindowInv, NEW b \in Browsers, NEW f \in Fields, RemoveNode(b, f)
  PROVE  WindowInv'
<1> DEFINE n == Len(typist)
           p == page[b]
           q == Remembered(p)
           next == [q.nodes EXCEPT ![f] = Blank]
           r == [q EXCEPT !.nodes = next, !.shown = next]
<1>1. /\ Set(b, Mutated(r, q.nodes, next, b)) /\ UNCHANGED <<shared, lineage, typist>>
  BY DEF RemoveNode, Restore
<1>2. n \in Nat /\ p \in Pages(n) /\ PageInv(p, n) /\ Blank \in Blank..n
  BY WindowFields DEF Blank
<1> HIDE DEF n, p
<1>3. /\ q \in Pages(n) /\ q.drag = p.drag /\ q.doc = p.doc /\ q.synced = p.synced
      /\ q.hydrating = p.hydrating /\ q.at = p.at
      /\ q.unwritten = p.unwritten /\ q.nodes = p.nodes
  BY <1>2, RememberedPage
<1> HIDE DEF q
<1>4. next \in Graphs(n)
  BY <1>2, <1>3, PageFields DEF Graphs
<1> HIDE DEF next
<1>5. /\ r \in Pages(n) /\ r.drag = p.drag /\ r.doc = p.doc /\ r.synced = p.synced
      /\ r.hydrating = p.hydrating /\ r.at = p.at
      /\ r.unwritten = p.unwritten /\ r.nodes = next
  BY <1>3, <1>4 DEF Pages
<1> HIDE DEF r
<1>6. PageInv(Mutated(r, q.nodes, next, b), n)
  BY <1>2, <1>3, <1>4, <1>5, MutatedPage
<1> QED
  BY <1>1, <1>6, WindowFields, PageStep DEF n

\* The snapshot an undo or a redo puts on the screen is written where it differs.
LEMMA UndoStep ==
  ASSUME WindowInv, NEW b \in Browsers, Undo(b) \/ Redo(b)
  PROVE  WindowInv'
<1> DEFINE n == Len(typist)
           p == page[b]
<1>1. n \in Nat /\ p \in Pages(n) /\ PageInv(p, n)
  BY WindowFields
<1>2. p.past \in Seq(Graphs(n)) /\ p.future \in Seq(Graphs(n)) /\ p.shown \in Graphs(n)
  BY <1>1, PageFields
<1>3. typist' = typist /\ shared' = shared /\ lineage' = lineage
  BY DEF Undo, Redo, Restore, OnlyPage
\* What either does to the page, once the snapshot is on its screen.
<1>4. ASSUME NEW past \in Seq(Graphs(n)), NEW future \in Seq(Graphs(n)), NEW next \in Graphs(n),
             Set(b, Committed([p EXCEPT !.past = past, !.future = future, !.shown = next], next, b))
      PROVE  WindowInv'
  <2> DEFINE q == [p EXCEPT !.past = past, !.future = future, !.shown = next]
  <2> HIDE DEF n, p
  <2>1. /\ q \in Pages(n) /\ q.drag = p.drag /\ q.doc = p.doc /\ q.synced = p.synced
        /\ q.hydrating = p.hydrating /\ q.at = p.at
        /\ q.unwritten = p.unwritten /\ q.nodes = p.nodes
    BY <1>1, <1>4 DEF Pages
  <2>2. Set(b, Committed(q, next, b))
    BY <1>4
  <2> HIDE DEF q
  <2>3. PageInv(Committed(q, next, b), n)
    BY <1>1, <1>4, <2>1, CommittedPage
  <2> QED
    BY <1>3, <2>2, <2>3, WindowFields, PageStep DEF n
<1>5. CASE Undo(b)
  <2> DEFINE past == Front(p.past)
             future == Append(p.future, p.shown)
             next == Last(p.past)
  <2>1. p.past # <<>>
    BY <1>5 DEF Undo
  <2>2. past \in Seq(Graphs(n)) /\ future \in Seq(Graphs(n)) /\ next \in Graphs(n)
    BY <1>2, <2>1 DEF Front, Last
  <2>3. Set(b, Committed([p EXCEPT !.future = Append(@, p.shown), !.past = Front(@),
                                   !.shown = Last(p.past)], Last(p.past), b))
    BY <1>5 DEF Undo
  <2>4. [p EXCEPT !.future = Append(@, p.shown), !.past = Front(@), !.shown = Last(p.past)]
          = [p EXCEPT !.past = past, !.future = future, !.shown = next]
    BY <1>1 DEF Pages
  <2>5. Set(b, Committed([p EXCEPT !.past = past, !.future = future, !.shown = next], next, b))
    BY <2>3, <2>4
  <2> HIDE DEF past, future, next
  <2> QED
    BY <1>4, <2>2, <2>5
<1>6. CASE Redo(b)
  <2> DEFINE past == Append(p.past, p.shown)
             future == Front(p.future)
             next == Last(p.future)
  <2>1. p.future # <<>>
    BY <1>6 DEF Redo
  <2>2. past \in Seq(Graphs(n)) /\ future \in Seq(Graphs(n)) /\ next \in Graphs(n)
    BY <1>2, <2>1 DEF Front, Last
  <2>3. Set(b, Committed([p EXCEPT !.past = past, !.future = future, !.shown = next], next, b))
    BY <1>1, <1>6 DEF Redo
  <2> HIDE DEF past, future, next
  <2> QED
    BY <1>4, <2>2, <2>3
<1> QED
  BY <1>5, <1>6

\* A drag begins, to a new position or to where it began.
LEMMA DraggedPage ==
  ASSUME NEW n \in Nat, NEW p, PageInv(p, n), NEW f \in Placed, p.nodes[f] # Blank,
         p.drag = NotDragging, NEW to \in Blank..n
  PROVE  PageInv([Remembered(p) EXCEPT !.drag = [base |-> p.nodes, field |-> f, to |-> to]], n)
<1> DEFINE d == [base |-> p.nodes, field |-> f, to |-> to]
           q == Remembered(p)
           r == [q EXCEPT !.drag = d]
<1>1. p \in Pages(n) /\ p.nodes \in Graphs(n)
  BY PageFields DEF PageInv
<1>2. d \in Dragged(n) /\ d.field = f /\ d.base = p.nodes
  BY <1>1 DEF Dragged
<1> HIDE DEF d
<1>3. /\ q \in Pages(n) /\ q.doc = p.doc /\ q.synced = p.synced /\ q.nodes = p.nodes
      /\ q.hydrating = p.hydrating /\ q.at = p.at /\ q.unwritten = p.unwritten
  BY <1>1, RememberedPage
<1> HIDE DEF q
<1>4. /\ r \in Pages(n) /\ r.doc = p.doc /\ r.synced = p.synced /\ r.nodes = p.nodes
      /\ r.hydrating = p.hydrating /\ r.at = p.at /\ r.unwritten = p.unwritten /\ r.drag = d
  BY <1>2, <1>3 DEF Pages
<1> HIDE DEF r
<1>5. DragStarts(r) /\ ShowsDocument(r)
  BY <1>2, <1>4 DEF PageInv, DragStarts, ShowsDocument
<1>6. PageInv(r, n)
  BY <1>4, <1>5 DEF PageInv
<1> QED
  BY <1>6 DEF r, q, d

LEMMA StartDragStep ==
  ASSUME WindowInv, NEW b \in Browsers, NEW f \in Placed, StartDrag(b, f)
  PROVE  WindowInv'
<1> DEFINE n == Len(typist)
           m == NextValue
           p == page[b]
           new(to) == [Remembered(p) EXCEPT !.drag = [base |-> p.nodes, field |-> f, to |-> to]]
<1>1. PICK to \in {m, p.nodes[f]} :
        Set(b, new(to)) /\ IF to = m THEN Type(b) ELSE Restore
  BY DEF StartDrag
<1>2. p.drag = NotDragging /\ p.nodes[f] # Blank
  BY DEF StartDrag
<1>3. n \in Nat /\ m = n + 1 /\ p \in Pages(n) /\ PageInv(p, n) /\ f \in Fields
  BY WindowFields, WindowAssumption DEF NextValue
<1> HIDE DEF n, m, p
<1>4. p.nodes[f] \in Blank..n /\ m \in Blank..m /\ m \in Nat
  <2>1. p.nodes \in Graphs(n)
    BY <1>3, PageFields
  <2> QED
    BY <1>3, <2>1 DEF Graphs, Blank
<1>5. CASE to = m
  <2>1. PageInv(p, m)
    <3>1. Pages(n) \subseteq Pages(m)
      BY <1>3, <1>4, PagesGrow
    <3> QED
      BY <1>3, <3>1 DEF PageInv
  <2>2. PageInv(new(m), m)
    BY <1>2, <1>4, <2>1, DraggedPage
  <2>3. Set(b, new(m)) /\ Type(b)
    BY <1>1, <1>5
  <2> HIDE DEF new
  <2> QED
    BY <2>2, <2>3, TypedStep DEF m
<1>6. CASE to # m
  <2>1. to \in Blank..n /\ UNCHANGED <<shared, lineage, typist>>
    BY <1>1, <1>4, <1>6 DEF Restore
  <2>2. PageInv(new(to), n)
    BY <1>2, <1>3, <2>1, DraggedPage
  <2> HIDE DEF new
  <2> QED
    BY <1>1, <2>1, <2>2, WindowFields, PageStep DEF n
<1> QED
  BY <1>5, <1>6

\* The dragged node moves on the screen alone.
LEMMA MovedPage ==
  ASSUME NEW n \in Nat, NEW p, PageInv(p, n), p.drag # NotDragging
  PROVE  LET q == Moved(p) IN
         /\ q \in Pages(n) /\ q.drag = p.drag /\ q.doc = p.doc /\ q.synced = p.synced
         /\ q.hydrating = p.hydrating /\ q.at = p.at
         /\ q.unwritten = p.unwritten
         /\ p.drag \in Dragged(n) /\ p.drag.field \in Fields
         /\ \A f \in Fields : f # p.drag.field => q.nodes[f] = p.nodes[f]
         /\ q.nodes[p.drag.field] \in {Blank, p.drag.to}
<1> DEFINE f == p.drag.field
           next == [p.nodes EXCEPT ![f] = IF @ = Blank THEN @ ELSE p.drag.to]
<1>1. p \in Pages(n) /\ p.nodes \in Graphs(n) /\ p.drag \in Dragged(n)
  BY PageFields DEF PageInv
<1>2. f \in Placed /\ f \in Fields /\ p.drag.to \in Blank..n
  BY <1>1, WindowAssumption DEF Dragged, Blank
<1>3. /\ next \in Graphs(n) /\ next[f] \in {Blank, p.drag.to}
      /\ \A g \in Fields : g # f => next[g] = p.nodes[g]
  BY <1>1, <1>2 DEF Graphs
<1>4. Moved(p) = [p EXCEPT !.nodes = next, !.shown = next]
  BY DEF Moved
<1> HIDE DEF next
<1>5. /\ Moved(p) \in Pages(n) /\ Moved(p).drag = p.drag /\ Moved(p).doc = p.doc
      /\ Moved(p).synced = p.synced /\ Moved(p).hydrating = p.hydrating /\ Moved(p).at = p.at
      /\ Moved(p).unwritten = p.unwritten /\ Moved(p).nodes = next
  BY <1>1, <1>3, <1>4 DEF Pages
<1> QED
  BY <1>1, <1>2, <1>3, <1>5

\* The drag itself.
LEMMA DragStep ==
  ASSUME WindowInv, NEW b \in Browsers, Drag(b)
  PROVE  WindowInv'
<1> DEFINE n == Len(typist)
           p == page[b]
           q == Moved(p)
<1>1. Set(b, q) /\ UNCHANGED <<shared, lineage, typist>> /\ p.drag # NotDragging
  BY DEF Drag, OnlyPage
<1>2. n \in Nat /\ PageInv(p, n)
  BY WindowFields
<1> HIDE DEF n, p
<1>3. /\ q \in Pages(n) /\ q.drag = p.drag /\ q.doc = p.doc /\ q.synced = p.synced
      /\ q.hydrating = p.hydrating /\ q.at = p.at
      /\ q.unwritten = p.unwritten
      /\ \A f \in Fields : f # p.drag.field => q.nodes[f] = p.nodes[f]
  BY <1>1, <1>2, MovedPage
<1> HIDE DEF q
<1>4. PageInv(q, n)
  BY <1>1, <1>2, <1>3 DEF PageInv, DragStarts, ShowsDocument
<1> QED
  BY <1>1, <1>4, WindowFields, PageStep DEF n

\* At its end all that differs from its start is written, if a position does.  The node
\* itself differs, or was dropped where it began.
LEMMA DropStep ==
  ASSUME WindowInv, NEW b \in Browsers, Drop(b)
  PROVE  WindowInv'
<1> DEFINE n == Len(typist)
           o == page[b]
           g == o.drag.field
           before == o.drag.base
           q == Moved(o)
           u == IF o.drag.to = before[g] THEN q.unwritten \cup {g} ELSE q.unwritten
           p == [q EXCEPT !.drag = NotDragging, !.unwritten = u]
           doc == Patched(p.doc, before, p.nodes, b)
           r == [p EXCEPT !.doc = doc]
<1>1. /\ o.drag # NotDragging /\ UNCHANGED <<shared, lineage, typist>>
      /\ Set(b, IF \E f \in Placed : before[f] # p.nodes[f]
                THEN Mutated(p, before, p.nodes, b) ELSE p)
  <2>1. o \in Pages(n) /\ q \in Pages(n)
    BY MovedPage, WindowFields DEF Drop
  <2>2. p = [q EXCEPT !.drag = NotDragging,
               !.unwritten = IF o.drag.to = before[g] THEN @ \cup {g} ELSE @]
    BY <2>1 DEF Pages
  <2> QED
    BY <2>2 DEF Drop, OnlyPage
<1>2. n \in Nat /\ PageInv(o, n)
  BY WindowFields
<1> HIDE DEF n, o
<1>3. /\ q \in Pages(n) /\ q.doc = o.doc /\ q.synced = o.synced
      /\ q.hydrating = o.hydrating /\ q.at = o.at /\ q.unwritten = o.unwritten
      /\ o.drag \in Dragged(n) /\ g \in Fields
      /\ \A f \in Fields : f # g => q.nodes[f] = o.nodes[f]
      /\ q.nodes[g] \in {Blank, o.drag.to}
  BY <1>1, <1>2, MovedPage
<1> HIDE DEF q
<1>4. u \in SUBSET Fields /\ o.unwritten \subseteq u /\ (o.drag.to = before[g] => g \in u)
  BY <1>3, PageFields, <1>2
<1> HIDE DEF u
<1>5. /\ p \in Pages(n) /\ p.doc = q.doc /\ p.synced = q.synced /\ p.nodes = q.nodes
      /\ p.hydrating = q.hydrating /\ p.at = q.at /\ p.unwritten = u /\ p.drag = NotDragging
  BY <1>3, <1>4 DEF Pages
<1> HIDE DEF p
<1>6. g \in Placed /\ before \in Graphs(n)
  BY <1>3 DEF Dragged
<1>7. before[g] # p.nodes[g] \/ g \in u
  BY <1>1, <1>2, <1>3, <1>4, <1>5 DEF PageInv, DragStarts
<1>8. DragStarts(p) /\ (p.synced => p.hydrating # p.at)
  BY <1>2, <1>3, <1>5 DEF DragStarts, PageInv
<1>9. p.synced => \A f \in Fields : f # g => p.nodes[f] = p.doc[f].value \/ f \in p.unwritten
  BY <1>2, <1>3, <1>4, <1>5 DEF PageInv, ShowsDocument
<1>10. CASE \A f \in Placed : before[f] = p.nodes[f]
  <2>1. ShowsDocument(p)
    BY <1>5, <1>6, <1>7, <1>9, <1>10 DEF ShowsDocument
  <2>2. PageInv(p, n) /\ Set(b, p)
    BY <1>1, <1>5, <1>8, <1>10, <2>1 DEF PageInv
  <2> QED
    BY <1>1, <2>2, WindowFields, PageStep DEF n
<1>11. CASE (\E f \in Placed : before[f] # p.nodes[f]) /\ ~ p.synced
  <2>1. PageInv(p, n)
    BY <1>2, <1>5, <1>8, <1>11, NotSynced
  <2>2. Set(b, p)
    BY <1>1, <1>11 DEF Mutated
  <2> QED
    BY <1>1, <2>1, <2>2, WindowFields, PageStep DEF n
<1>12. CASE (\E f \in Placed : before[f] # p.nodes[f]) /\ p.synced
  <2>1. Mutated(p, before, p.nodes, b) = r
    BY <1>5, <1>12 DEF Mutated, Pages
  <2>2. /\ doc \in Documents(n)
        /\ \A f \in Fields :
             doc[f].value = IF before[f] = p.nodes[f] THEN p.doc[f].value ELSE p.nodes[f]
    <3>1. p.nodes \in Graphs(n) /\ p.doc \in Documents(n)
      BY <1>2, <1>5, PageFields
    <3> QED
      BY <1>2, <1>6, <3>1, PatchedDocument
  <2> HIDE DEF doc
  <2>3. /\ r \in Pages(n) /\ r.doc = doc /\ r.nodes = p.nodes /\ r.synced = p.synced
        /\ r.hydrating = p.hydrating /\ r.at = p.at /\ r.unwritten = p.unwritten
        /\ r.drag = p.drag
    BY <1>5, <2>2 DEF Pages
  <2> HIDE DEF r
  <2>4. ASSUME NEW f \in Fields
        PROVE  r.nodes[f] = r.doc[f].value \/ f \in r.unwritten
    BY <1>5, <1>7, <1>9, <1>12, <2>2, <2>3
  <2>5. PageInv(r, n)
    BY <1>8, <2>3, <2>4 DEF PageInv, DragStarts, ShowsDocument
  <2>6. Set(b, r)
    BY <1>1, <1>12, <2>1
  <2> QED
    BY <1>1, <2>5, <2>6, WindowFields, PageStep DEF n
<1> QED
  BY <1>10, <1>11, <1>12

\* A copy from a cache or from the projection is painted while nothing is synced.
LEMMA LoadedPage ==
  ASSUME NEW n \in Nat, NEW p \in Pages(n), ~ p.synced, DragStarts(p), NEW graph \in Graphs(n)
  PROVE  PageInv(Loaded(p, graph), n)
<1> DEFINE c == [p.cache EXCEPT ![p.at] = graph]
           none == {}
           q == [p EXCEPT !.nodes = graph, !.shown = graph, !.cache = c, !.past = <<>>,
                          !.future = <<>>, !.unwritten = none]
<1>1. Loaded(p, graph) = q
  BY DEF Loaded, Pages
<1>2. c \in [Canvases -> Graphs(n)] /\ <<>> \in Seq(Graphs(n)) /\ none \in SUBSET Fields
  BY PageFields
<1> HIDE DEF c, none
<1>3. q \in Pages(n) /\ q.synced = p.synced /\ q.drag = p.drag
  BY <1>2 DEF Pages
<1>4. PageInv(q, n)
  BY <1>3, NotSynced DEF DragStarts
<1> QED
  BY <1>1, <1>4

\* The session of a canvas ends, and its document goes with it.
LEMMA EndedPage ==
  ASSUME NEW n \in Nat, NEW p \in Pages(n), NEW c \in Canvases
  PROVE  LET q == LeftSession(p, c) IN q \in Pages(n) /\ q.synced = FALSE /\ q.drag = p.drag
<1> DEFINE d == Entries(Empty, <<>>)
           none == {}
           q == [p EXCEPT !.at = c, !.link = "fetching", !.doc = d, !.epoch = 0,
                          !.synced = FALSE, !.unwritten = none]
<1>1. LeftSession(p, c) = q
  BY DEF LeftSession
<1>2. d \in Documents(n) /\ none \in SUBSET Fields
  <2>1. <<>> \in Seq(Browsers \cup {0})
    OBVIOUS
  <2> QED
    BY <2>1, FirstGraphs
<1> HIDE DEF d, none
<1>3. q \in Pages(n) /\ q.synced = FALSE /\ q.drag = p.drag
  BY <1>2 DEF Pages, Links
<1> QED
  BY <1>1, <1>3

\* A switch leaves the session and its document behind.
LEMMA SwitchStep ==
  ASSUME WindowInv, NEW b \in Browsers, NEW c \in Canvases, Switch(b, c)
  PROVE  WindowInv'
<1> DEFINE n == Len(typist)
           p == page[b]
           e == LeftSession(p, c)
           cache == [e.cache EXCEPT ![p.at] = p.shown]
           next == [e EXCEPT !.hydrating = c, !.cache = cache, !.cold = FALSE]
           left == [at |-> p.at, shown |-> p.shown]
           bare == [next EXCEPT !.nodes = Empty, !.shown = Empty, !.cold = TRUE, !.left = left]
<1>1. /\ n \in Nat /\ p \in Pages(n) /\ DragStarts(p)
      /\ shared \in [Canvases -> Documents(n)] /\ lineage \in [Canvases -> Nat]
  BY WindowFields
<1>2. /\ UNCHANGED <<lineage, typist>>
      /\ shared' = IF p.link = "up" THEN [shared EXCEPT ![p.at] = Merged(@, p.doc)] ELSE shared
      /\ Set(b, Loaded(next, p.cache[c])) \/ Set(b, bare)
  <2>1. e \in Pages(n)
    BY <1>1, EndedPage
  <2>2. next = [e EXCEPT !.hydrating = c, !.cache[p.at] = p.shown, !.cold = FALSE]
    BY <2>1 DEF Pages
  <2> HIDE DEF n, e
  <2> QED
    BY <2>2 DEF Switch, e
<1> HIDE DEF n, p
<1>3. p.at \in Canvases /\ p.doc \in Documents(n) /\ p.shown \in Graphs(n)
      /\ p.cache \in [Canvases -> Graphs(n)]
  BY <1>1, PageFields
<1>4. shared' \in [Canvases -> Documents(n)]
  <2>1. Merged(shared[p.at], p.doc) \in Documents(n)
    BY <1>1, <1>3, MergedDocument
  <2> QED
    BY <1>1, <1>2, <2>1
<1>5. e \in Pages(n) /\ e.synced = FALSE /\ e.drag = p.drag
  BY <1>1, EndedPage
<1> HIDE DEF e
<1>6. /\ cache \in [Canvases -> Graphs(n)] /\ p.cache[c] \in Graphs(n) /\ Empty \in Graphs(n)
      /\ left \in [at : Canvases, shown : Graphs(n)]
  BY <1>1, <1>3, <1>5, PageFields, FirstGraphs
<1> HIDE DEF cache, left
<1>7. next \in Pages(n) /\ next.synced = FALSE /\ next.drag = p.drag
  BY <1>5, <1>6 DEF Pages
<1> HIDE DEF next
<1>8. bare \in Pages(n) /\ bare.synced = FALSE /\ bare.drag = p.drag
  BY <1>6, <1>7 DEF Pages
<1> HIDE DEF bare
<1>9. PageInv(Loaded(next, p.cache[c]), n) /\ PageInv(bare, n)
  BY <1>1, <1>6, <1>7, <1>8, LoadedPage, NotSynced DEF DragStarts
<1> QED
  BY <1>1, <1>2, <1>4, <1>9, PageStep DEF n

\* The projection is loaded only while nothing is synced.
LEMMA LoadProjectionStep ==
  ASSUME WindowInv, NEW b \in Browsers, LoadProjection(b)
  PROVE  WindowInv'
<1> DEFINE n == Len(typist)
           p == page[b]
           q == [p EXCEPT !.cold = FALSE]
<1>1. /\ n \in Nat /\ p \in Pages(n) /\ DragStarts(p) /\ PageInv(p, n) /\ p.at \in Canvases
      /\ shared \in [Canvases -> Documents(n)]
  BY WindowFields
<1>2. PICK graph \in {FirstGraph(p.at), GraphOf(shared[p.at])} : Set(b, Loaded(q, graph))
  BY DEF LoadProjection
<1>3. ~ p.synced /\ UNCHANGED <<shared, lineage, typist>>
  BY <1>1 DEF LoadProjection, OnlyPage, PageInv
<1>4. graph \in Graphs(n)
  BY <1>1, FirstGraphs
<1> HIDE DEF n, p
<1>5. q \in Pages(n) /\ q.synced = p.synced /\ q.drag = p.drag
  BY <1>1 DEF Pages
<1> HIDE DEF q
<1>6. PageInv(Loaded(q, graph), n)
  BY <1>1, <1>3, <1>4, <1>5, LoadedPage DEF DragStarts
<1> QED
  BY <1>2, <1>3, <1>6, WindowFields, PageStep DEF n

\* Without a project the screen of the canvas before it is restored, its session begins anew.
LEMMA LoadFailsStep ==
  ASSUME WindowInv, NEW b \in Browsers, LoadFails(b)
  PROVE  WindowInv'
<1> DEFINE n == Len(typist)
           p == page[b]
           e == LeftSession(p, p.left.at)
           graph == p.left.shown
           lists == e.refetching + 1
           next == [e EXCEPT !.nodes = graph, !.shown = graph, !.cold = FALSE,
                             !.refetching = lists]
<1>1. n \in Nat /\ p \in Pages(n) /\ p.left.at \in Canvases /\ graph \in Graphs(n)
  BY WindowFields, PageFields
<1>2. e \in Pages(n) /\ e.synced = FALSE /\ e.drag = p.drag
  BY <1>1, EndedPage
<1>3. p.drag = NotDragging /\ Set(b, next) /\ UNCHANGED <<shared, lineage, typist>>
  BY <1>2 DEF LoadFails, Pages
<1>4. lists \in Nat
  BY <1>1, <1>2, PageFields
<1> HIDE DEF n, p, e, graph, lists
<1>5. next \in Pages(n) /\ next.synced = FALSE /\ next.drag = NotDragging
  BY <1>1, <1>2, <1>3, <1>4 DEF Pages
<1> HIDE DEF next
<1>6. PageInv(next, n)
  BY <1>1, <1>5, NotSynced DEF DragStarts
<1> QED
  BY <1>3, <1>6, WindowFields, PageStep DEF n

\* Nothing waits for a document any more, whichever it was.
LEMMA ListsFetchedStep ==
  ASSUME WindowInv, NEW b \in Browsers, ListsFetched(b)
  PROVE  WindowInv'
<1> DEFINE n == Len(typist)
           p == page[b]
           left == p.refetching - 1
           q == [p EXCEPT !.refetching = left, !.hydrating = Nowhere]
<1>1. /\ n \in Nat /\ p \in Pages(n) /\ PageInv(p, n) /\ p.refetching > 0
      /\ Set(b, q) /\ UNCHANGED <<shared, lineage, typist>>
  BY WindowFields DEF ListsFetched, OnlyPage, Pages
<1> HIDE DEF n, p
<1>2. left \in Nat /\ p.at \in Canvases /\ Nowhere # p.at
  BY <1>1, PageFields, WindowAssumption
<1> HIDE DEF left
<1>3. /\ q \in Pages(n) /\ q.hydrating = Nowhere /\ q.at = p.at /\ q.drag = p.drag
      /\ q.nodes = p.nodes /\ q.doc = p.doc /\ q.synced = p.synced /\ q.unwritten = p.unwritten
  BY <1>1, <1>2 DEF Pages
<1> HIDE DEF q
<1>4. PageInv(q, n)
  BY <1>1, <1>2, <1>3 DEF PageInv, DragStarts, ShowsDocument
<1> QED
  BY <1>1, <1>4, WindowFields, PageStep DEF n

\* A window starts so.
LEMMA WindowInitially == WindowInit => WindowInv
<1> SUFFICES ASSUME WindowInit PROVE WindowInv
  OBVIOUS
<1>1. typist = <<>> /\ Len(typist) = 0 /\ typist \in Seq(Browsers)
  BY DEF WindowInit
<1>2. /\ Empty \in Graphs(0) /\ \A c : FirstGraph(c) \in Graphs(0)
      /\ Entries(Empty, <<>>) \in Documents(0)
      /\ \A c : Entries(FirstGraph(c), <<0>>) \in Documents(0)
  <2>1. <<>> \in Seq(Browsers \cup {0}) /\ <<0>> \in Seq(Browsers \cup {0})
    OBVIOUS
  <2> QED
    BY <2>1, FirstGraphs
<1>3. shared \in [Canvases -> Documents(0)] /\ lineage \in [Canvases -> Nat]
  BY <1>2 DEF WindowInit
<1>4. ASSUME NEW b \in Browsers
      PROVE  /\ page[b] \in Pages(0) /\ ~ page[b].synced /\ page[b].drag = NotDragging
  <2> DEFINE s == Start[b]
             g == FirstGraph(s)
             d == Entries(Empty, <<>>)
             k == [c \in Canvases |-> IF c = s THEN FirstGraph(c) ELSE Empty]
             none == {}
             blank == <<>>
             unwritten == {}
             left == [at |-> s, shown |-> Empty]
  <2>1. /\ s \in Canvases /\ g \in Graphs(0) /\ d \in Documents(0)
        /\ k \in [Canvases -> Graphs(0)] /\ none \in SUBSET Canvases
        /\ blank \in Seq(Graphs(0)) /\ unwritten \in SUBSET Fields
        /\ left \in [at : Canvases, shown : Graphs(0)]
    BY <1>2, WindowAssumption
  <2>2. page[b] = [at |-> s, link |-> "fetching", epoch |-> 0, doc |-> d, synced |-> FALSE,
                   readyFor |-> none, hydrating |-> s, cold |-> FALSE, left |-> left,
                   refetching |-> 0, nodes |-> g, shown |-> g, unwritten |-> unwritten,
                   drag |-> NotDragging, past |-> blank, future |-> blank, cache |-> k]
    BY DEF WindowInit
  <2> HIDE DEF s, g, d, k, none, blank, unwritten, left
  <2> QED
    BY <2>1, <2>2 DEF Pages, Links
<1>5. \A b \in Browsers : PageInv(page[b], 0)
  BY <1>4, NotSynced DEF DragStarts
<1>6. page \in [Browsers -> Pages(0)]
  BY <1>4 DEF WindowInit
<1> QED
  BY <1>1, <1>3, <1>5, <1>6 DEF WindowInv

\* Every step keeps it so.
LEMMA WindowStep == WindowInv /\ [WindowNext]_windowVars => WindowInv'
<1> SUFFICES ASSUME WindowInv, [WindowNext]_windowVars PROVE WindowInv'
  OBVIOUS
<1>1. CASE UNCHANGED windowVars
  BY <1>1 DEF windowVars, WindowInv
<1>2. CASE WindowNext
  <2>1. ASSUME NEW b \in Browsers,
               \/ FetchToken(b) \/ TokenFails(b) \/ RetrySession(b) \/ Join(b)
               \/ LoseConnection(b) \/ Reconnect(b) \/ SendUpdates(b) \/ ReceiveUpdates(b)
               \/ Undo(b) \/ Redo(b) \/ Drag(b) \/ Drop(b) \/ LoadProjection(b)
               \/ LoadFails(b) \/ ListsFetched(b)
               \/ \E f \in Fields : Edit(b, f) \/ RemoveNode(b, f)
               \/ \E f \in Placed : StartDrag(b, f)
               \/ \E c \in Canvases : Switch(b, c)
        PROVE  WindowInv'
    BY <2>1, SessionStep, UndoStep, DragStep, DropStep, LoadProjectionStep, LoadFailsStep,
       ListsFetchedStep, EditStep, RemoveStep, StartDragStep, SwitchStep
  <2> QED
    BY <1>2, <2>1, LineageStep DEF WindowNext
<1> QED
  BY <1>1, <1>2

\* The screen of a window whose document is synced shows that document, apart from the
\* node that is being dragged and one just dropped where it was picked up: through lost
\* connections, new epochs, stale copies painted first, failed switches and edits nobody
\* could send (commitGraph, finishNodeDrag, switchProject and onSynced, CanvasApp.tsx).
THEOREM WindowShowsItsDocument == WindowSpec => []ScreenIsDocument
<1>1. WindowInv => ScreenIsDocument
  BY WindowFields DEF PageInv, ShowsDocument, ScreenIsDocument
<1> QED
  BY <1>1, WindowInitially, WindowStep, PTL DEF WindowSpec

-----------------------------------------------------------------------------
(* The player of the timeline (SegmentedVideo).                            *)

\* The state of the player is well formed.
Sources == {"none"} \cup {SourceOf[s] : s \in Segments}
Medium == [src : Sources, ready : BOOLEAN, playing : BOOLEAN, at : Segments \cup {NoSegment},
           end : BOOLEAN, owner : Nat]
Phases == {"metadata", "seek", "data", "play", "played", "refused", "again", "adrift",
           "replay", "lost"}
Operation == [id : Nat, segment : Segments, play : BOOLEAN, deck : Decks, previous : Decks,
              seeks : BOOLEAN, phase : Phases]
VideoTypes ==
  /\ transport \in [id : Nat, live : BOOLEAN]
  /\ current \in [segment : Segments \cup {NoSegment}, play : BOOLEAN]
  /\ shown \in Segments \cup {NoSegment}
  /\ activeDeck \in Decks /\ pendingDeck \in {0} \cup Decks
  /\ deck \in [Decks -> Medium]
  /\ operation \subseteq Operation
  /\ armed \in Nat /\ ended \in Nat /\ paused \in BOOLEAN

\* Only the deck that has taken over plays, and it plays what was asked for.
PlaysCurrent ==
  \A d \in Decks : deck[d].playing =>
    /\ d = activeDeck /\ current.segment # NoSegment
    /\ deck[d].src = SourceOf[current.segment]

\* An operation waits for the latest command alone, unless it resumed after a
\* pause; the latest command has one operation.
Numbered ==
  /\ \A o \in operation : o.id \in 1..transport.id
  /\ \A o \in operation :
       o.phase \in {"metadata", "seek", "data", "again"} => o.id = transport.id
  /\ \A o, p \in operation : IsCurrent(o) /\ IsCurrent(p) => o = p
  /\ transport.id = 0 => current.segment = NoSegment

\* It has its deck prepared for it, and takes over what it found.
Prepares == {"metadata", "seek", "data"}
OwnsDeck(o) ==
  /\ o.segment = current.segment
  /\ deck[o.deck].src = SourceOf[o.segment] /\ deck[o.deck].owner = o.id
  /\ IF o.phase \in Prepares THEN o.previous = activeDeck /\ pendingDeck = o.deck
     ELSE o.deck = activeDeck

\* When a command has been armed its operation has returned.
Armed ==
  armed = transport.id =>
    /\ \A o \in operation : ~ IsCurrent(o)
    /\ transport.id > 0 => deck[activeDeck].owner = transport.id

VideoInv ==
  /\ VideoTypes /\ PlaysCurrent /\ Numbered /\ Armed
  /\ \A o \in operation : IsCurrent(o) => OwnsDeck(o)

\* What the rejection of promises makes of an operation.
Shut(D, o) ==
  IF o.phase = "play" /\ o.deck \in D THEN [o EXCEPT !.phase = "refused"]
  ELSE IF o.phase = "replay" /\ o.deck \in D THEN [o EXCEPT !.phase = "lost"]
  ELSE o

\* p is o in the same command or a later phase of it, on this side of its waits.
Follows(p, o) ==
  /\ p \in Operation
  /\ p.id = o.id /\ p.segment = o.segment /\ p.deck = o.deck /\ p.previous = o.previous
  /\ p.phase \in Prepares <=> o.phase \in Prepares
  /\ p.phase = "again" => o.phase = "again" \/ IsCurrent(o)

\* Every operation of S is one that was there before, in that phase or a later one.
Followed(S) ==
  \E F : /\ \A o \in operation : Follows(F[o], o)
         /\ S \subseteq {F[o] : o \in operation}

LEMMA ShutFollows ==
  ASSUME NEW D, NEW o \in Operation
  PROVE  /\ Follows(Shut(D, o), o)
         /\ Shut(D, o).phase \in {"again", "adrift"} => Shut(D, o) = o
BY DEF Shut, Follows, Operation, Phases, Prepares

\* While the latest command and the deck that has taken over stay the same, and the
\* current operation's deck its own, the operations that go on are numbered and own
\* their decks as before.
LEMMA OperationsGoOn ==
  ASSUME VideoInv,
         transport'.id = transport.id, current' = current, activeDeck' = activeDeck,
         NEW F, \A o \in operation : Follows(F[o], o),
         operation' \subseteq {F[o] : o \in operation},
         \A o \in operation : IsCurrent(o) =>
           deck'[o.deck].src = deck[o.deck].src /\ deck'[o.deck].owner = deck[o.deck].owner,
         pendingDeck' = pendingDeck \/ \A o \in operation' : o.phase \notin Prepares
  PROVE  /\ operation' \subseteq Operation
         /\ Numbered'
         /\ \A o \in operation' : (IsCurrent(o) => OwnsDeck(o))'
         /\ (\A o \in operation : ~ IsCurrent(o)) => \A o \in operation' : ~ IsCurrent(o)'
<1>1. ASSUME NEW p \in operation'
      PROVE  \E o \in operation : p = F[o] /\ Follows(p, o)
  OBVIOUS
<1>2. operation' \subseteq Operation
  BY <1>1 DEF Follows
<1>3. ASSUME NEW p \in operation'
      PROVE  /\ p.id \in 1..transport.id
             /\ p.phase \in {"metadata", "seek", "data", "again"} => p.id = transport.id
  <2>1. PICK o \in operation : p = F[o] /\ Follows(p, o)
    BY <1>1
  <2> QED
    BY <2>1 DEF Follows, Prepares, IsCurrent, VideoInv, Numbered
<1>4. ASSUME NEW p \in operation', NEW q \in operation', p.id = transport.id,
             q.id = transport.id
      PROVE  p = q
  <2>1. PICK o \in operation : p = F[o] /\ Follows(p, o)
    BY <1>1
  <2>2. PICK x \in operation : q = F[x] /\ Follows(q, x)
    BY <1>1
  <2>3. o = x
    BY <1>4, <2>1, <2>2 DEF Follows, IsCurrent, VideoInv, Numbered
  <2> QED
    BY <2>1, <2>2, <2>3
<1>5. Numbered'
  BY <1>3, <1>4 DEF VideoInv, Numbered, IsCurrent
<1>6. ASSUME NEW p \in operation', p.id = transport.id
      PROVE  OwnsDeck(p)'
  <2>1. PICK o \in operation : p = F[o] /\ Follows(p, o)
    BY <1>1
  <2>2. IsCurrent(o) /\ OwnsDeck(o)
    BY <1>6, <2>1 DEF Follows, IsCurrent, VideoInv
  <2> QED
    BY <2>1, <2>2 DEF Follows, OwnsDeck
<1> QED
  BY <1>1, <1>2, <1>5, <1>6 DEF IsCurrent, Follows

\* Members of the state, by name.
LEMMA VideoFields ==
  ASSUME VideoInv
  PROVE  /\ activeDeck \in Decks /\ Decks = {1, 2} /\ transport.id \in Nat
         /\ deck \in [Decks -> Medium]
         /\ operation \subseteq Operation
         /\ \A o \in operation : o.deck \in Decks
         /\ \A o \in operation : ~ IsCurrent(o) => o.phase \notin Prepares \cup {"again"}
BY DEF VideoInv, VideoTypes, Operation, Decks, Numbered, Prepares, IsCurrent

\* Halting decks stops some and changes nothing else.
LEMMA HaltedDecks ==
  ASSUME NEW D, NEW all \in [Decks -> Medium]
  PROVE  /\ Halted(D, all) \in [Decks -> Medium]
         /\ \A d \in Decks :
              /\ Halted(D, all)[d].src = all[d].src /\ Halted(D, all)[d].owner = all[d].owner
              /\ Halted(D, all)[d].playing => all[d].playing /\ d \notin D
              /\ d \notin D => Halted(D, all)[d] = all[d]
<1>1. ASSUME NEW d \in Decks
      PROVE  /\ Halted(D, all)[d] \in Medium
             /\ Halted(D, all)[d].src = all[d].src /\ Halted(D, all)[d].owner = all[d].owner
             /\ Halted(D, all)[d].playing => all[d].playing /\ d \notin D
             /\ d \notin D => Halted(D, all)[d] = all[d]
  BY DEF Halted, Medium
<1> QED
  BY <1>1 DEF Halted

\* A deck is given a source it does not have, or anew; its owner stays.
LEMMA PreparedDecks ==
  ASSUME NEW all \in [Decks -> Medium], NEW d \in Decks, NEW s \in Segments,
         NEW failed \in BOOLEAN
  PROVE  LET kept == Prepared(all, d, SourceOf[s], failed)
         IN /\ kept \in [Decks -> Medium]
            /\ kept[d].src = SourceOf[s]
            /\ \A c \in Decks :
                 /\ c # d => kept[c] = all[c]
                 /\ kept[c].owner = all[c].owner
                 /\ kept[c].playing => all[c].playing
<1>1. SourceOf[s] \in Sources
  BY DEF Sources
<1>2. CASE all[d].src = SourceOf[s] /\ ~failed
  BY <1>2 DEF Prepared
<1>3. CASE ~(all[d].src = SourceOf[s] /\ ~failed)
  <2> DEFINE new == [all[d] EXCEPT !.src = SourceOf[s], !.ready = FALSE, !.playing = FALSE,
                                    !.at = NoSegment, !.end = FALSE]
  <2>1. Prepared(all, d, SourceOf[s], failed) = [all EXCEPT ![d] = new]
    BY <1>3 DEF Prepared
  <2>2. /\ new \in Medium /\ new.src = SourceOf[s] /\ new.owner = all[d].owner
        /\ new.playing = FALSE
    BY <1>1 DEF Medium
  <2> QED
    BY <1>3, <2>1, <2>2
<1> QED
  BY <1>2, <1>3

\* The invariant after a step that leaves the latest command, and who has taken over,
\* as they are.
LEMMA DecksGoOn ==
  ASSUME VideoInv,
         UNCHANGED <<current, shown, activeDeck>>,
         transport'.id = transport.id, transport' \in [id : Nat, live : BOOLEAN],
         Followed(operation'),
         \/ pendingDeck' = pendingDeck
         \/ pendingDeck' = 0 /\ (\A o \in operation' : o.phase \notin Prepares),
         deck' \in [Decks -> Medium],
         \A d \in Decks : deck'[d].owner = deck[d].owner,
         \A o \in operation : IsCurrent(o) => deck'[o.deck].src = deck[o.deck].src,
         \A d \in Decks : deck'[d].playing =>
           /\ d = activeDeck /\ current.segment # NoSegment
           /\ deck'[d].src = SourceOf[current.segment],
         (armed' \in {armed, 0}) \/ Armed', armed' \in Nat, ended' \in Nat, paused' \in BOOLEAN
  PROVE  VideoInv'
<1> USE VideoFields
<1>. PICK F : /\ \A o \in operation : Follows(F[o], o)
              /\ operation' \subseteq {F[o] : o \in operation}
  BY DEF Followed
<1>1. /\ operation' \subseteq Operation
      /\ Numbered'
      /\ \A x \in operation' : (IsCurrent(x) => OwnsDeck(x))'
      /\ (\A x \in operation : ~ IsCurrent(x)) => \A x \in operation' : ~ IsCurrent(x)'
  BY OperationsGoOn
<1>2. VideoTypes'
  BY <1>1 DEF VideoInv, VideoTypes
<1>3. PlaysCurrent'
  BY DEF PlaysCurrent
<1>4. armed' = armed => Armed'
  <2> SUFFICES ASSUME armed' = armed, armed' = transport'.id
               PROVE  /\ \A o \in operation' : ~ IsCurrent(o)'
                      /\ transport'.id > 0 => deck'[activeDeck'].owner = transport'.id
    BY DEF Armed
  <2>1. /\ \A o \in operation : ~ IsCurrent(o)
        /\ transport.id > 0 => deck[activeDeck].owner = transport.id
    BY DEF VideoInv, Armed
  <2> QED
    BY <1>1, <2>1
<1>5. armed' = 0 => Armed'
  <2>1. transport.id = 0 => operation = {}
    BY DEF VideoInv, Numbered
  <2>2. transport.id = 0 => operation' = {}
    BY <2>1
  <2> QED
    BY <2>2 DEF Armed
<1>6. Armed'
  BY <1>4, <1>5
<1> QED
  BY <1>1, <1>2, <1>3, <1>6 DEF VideoInv

\* Promises are rejected, operations return, one of them enters its next phase.
LEMMA RejectedFollow ==
  ASSUME VideoInv, NEW D, NEW S \in SUBSET operation
  PROVE  Followed(Rejected(D, S))
<1> DEFINE F == [o \in operation |-> Shut(D, o)]
<1>1. \A o \in operation : F[o] = Shut(D, o) /\ Follows(Shut(D, o), o)
  BY VideoFields, ShutFollows
<1>2. Rejected(D, S) = {Shut(D, o) : o \in S}
  BY DEF Rejected, Shut
<1>3. Rejected(D, S) \subseteq {F[o] : o \in operation}
  BY <1>1, <1>2
<1> HIDE DEF F
<1> QED
  BY <1>1, <1>3 DEF Followed

LEMMA RemainingFollow ==
  ASSUME VideoInv, NEW S \in SUBSET operation
  PROVE  Followed(S)
<1> DEFINE F == [o \in operation |-> o]
<1>1. \A o \in operation : F[o] = o /\ Follows(o, o)
  BY VideoFields DEF Follows
<1>2. S \subseteq {F[o] : o \in operation}
  BY <1>1
<1> HIDE DEF F
<1> QED
  BY <1>1, <1>2 DEF Followed

LEMMA AdvancedFollow ==
  ASSUME VideoInv, NEW o \in operation, NEW phase \in Phases,
         phase \in Prepares <=> o.phase \in Prepares, phase = "again" => IsCurrent(o),
         NEW S, S \subseteq operation \cup {[o EXCEPT !.phase = phase]}, o \notin S \/ S = operation
  PROVE  Followed(S)
<1> DEFINE next == [o EXCEPT !.phase = phase]
           F == [x \in operation |-> IF x = o THEN next ELSE x]
<1>1. CASE S = operation
  BY <1>1, RemainingFollow
<1>2. CASE o \notin S
  <2>1. Follows(next, o)
    BY VideoFields DEF Follows, Operation, Phases, Prepares
  <2>2. \A x \in operation : Follows(F[x], x)
    BY <2>1, VideoFields DEF Follows
  <2>3. S \subseteq {F[x] : x \in operation}
    BY <1>2
  <2> HIDE DEF F
  <2> QED
    BY <2>2, <2>3 DEF Followed
<1> QED
  BY <1>1, <1>2

\* A waiting operation gives up, a promise is settled: nothing moves but operations.
LEMMA OperationsStep ==
  ASSUME VideoInv, NEW o \in operation,
         GiveUp(o) \/ PromiseSettles(o) \/ ContinueRefused(o) \/ ContinueLost(o)
  PROVE  VideoInv'
<1> USE VideoFields
<1>1. UNCHANGED <<transport, current, shown, activeDeck, pendingDeck, deck, armed, ended, paused>>
  BY DEF GiveUp, PromiseSettles, ContinueRefused, ContinueLost
<1>2. ASSUME NEW phase \in {"played", "refused", "lost", "again", "adrift"},
             Becomes(o, phase), o.phase \notin Prepares, phase = "again" => IsCurrent(o)
      PROVE  Followed(operation')
  <2>1. phase \in Phases /\ phase \notin Prepares
    BY DEF Phases, Prepares
  <2>2. /\ operation' \subseteq operation \cup {[o EXCEPT !.phase = phase]}
        /\ o \notin operation' \/ operation' = operation
    BY <1>2 DEF Becomes
  <2> QED
    BY <1>2, <2>1, <2>2, AdvancedFollow
<1>3. Returns(o) => Followed(operation')
  BY RemainingFollow DEF Returns
<1>4. GiveUp(o) => Followed(operation')
  BY <1>3 DEF GiveUp
<1>5. PromiseSettles(o) => Followed(operation')
  BY <1>2 DEF PromiseSettles, Prepares
<1>6. ContinueRefused(o) => Followed(operation')
  BY <1>2, <1>3 DEF ContinueRefused, Prepares
<1>7. ContinueLost(o) => Followed(operation')
  BY <1>3 DEF ContinueLost
<1>8. Followed(operation')
  BY <1>4, <1>5, <1>6, <1>7
<1>9. VideoTypes /\ PlaysCurrent
  BY DEF VideoInv
<1> QED
  BY <1>1, <1>8, <1>9, DecksGoOn DEF VideoTypes, PlaysCurrent

\* The metadata of an operation arrives, or the seek of a still picture.
LEMMA PrepareStep ==
  ASSUME VideoInv, NEW o \in operation, Prepare(o)
  PROVE  VideoInv'
<1> USE VideoFields
<1>1. UNCHANGED <<transport, current, shown, activeDeck, pendingDeck, armed, ended, paused>>
  BY DEF Prepare
<1>2. Followed(operation')
  <2>1. PICK phase \in {"seek", "data"} : Becomes(o, phase) /\ o.phase \in Prepares
    BY DEF Prepare, Prepares
  <2>2. phase \in Phases /\ phase \in Prepares /\ phase # "again"
    BY DEF Phases, Prepares
  <2>3. /\ operation' \subseteq operation \cup {[o EXCEPT !.phase = phase]}
        /\ o \notin operation' \/ operation' = operation
    BY <2>1 DEF Becomes
  <2> QED
    BY <2>1, <2>2, <2>3, AdvancedFollow
<1>3. /\ deck' \in [Decks -> Medium]
      /\ \A d \in Decks : /\ deck'[d].owner = deck[d].owner /\ deck'[d].src = deck[d].src
                          /\ deck'[d].playing = deck[d].playing
  <2>1. CASE UNCHANGED deck
    BY <2>1
  <2>2. CASE deck' = [deck EXCEPT ![o.deck].ready = TRUE,
                        ![o.deck].at = IF o.seeks THEN o.segment ELSE @,
                        ![o.deck].end = IF o.seeks THEN FALSE ELSE @]
    <3>1. o.segment \in Segments
      BY DEF Operation
    <3> DEFINE new == [deck[o.deck] EXCEPT !.ready = TRUE,
                         !.at = IF o.seeks THEN o.segment ELSE @,
                         !.end = IF o.seeks THEN FALSE ELSE @]
    <3>2. /\ new \in Medium /\ new.owner = deck[o.deck].owner /\ new.src = deck[o.deck].src
          /\ new.playing = deck[o.deck].playing
      BY <3>1 DEF Medium
    <3>3. deck' = [deck EXCEPT ![o.deck] = new]
      BY <2>2, <3>2 DEF Medium
    <3> HIDE DEF new
    <3> QED
      BY <3>2, <3>3
  <2> QED
    BY <2>1, <2>2 DEF Prepare
<1>4. VideoTypes /\ PlaysCurrent
  BY DEF VideoInv
<1> QED
  BY <1>1, <1>2, <1>3, <1>4, DecksGoOn DEF VideoTypes, PlaysCurrent

\* The clock of a playing deck passes the end of its segment.
LEMMA ReachEndStep ==
  ASSUME VideoInv, NEW d \in Decks, ReachEnd(d)
  PROVE  VideoInv'
<1> USE VideoFields
<1>1. UNCHANGED <<transport, current, shown, activeDeck, pendingDeck, operation, armed, ended, paused>>
  BY DEF ReachEnd
<1>2. Followed(operation')
  BY <1>1, RemainingFollow
<1>3. /\ deck' \in [Decks -> Medium]
      /\ \A c \in Decks : /\ deck'[c].owner = deck[c].owner /\ deck'[c].src = deck[c].src
                          /\ deck'[c].playing = deck[c].playing
  <2>1. CASE deck' = [deck EXCEPT ![d].end = TRUE]
    BY <2>1 DEF Medium
  <2>2. ASSUME NEW t \in Segments, deck' = [deck EXCEPT ![d].end = FALSE, ![d].at = t]
        PROVE  /\ deck' \in [Decks -> Medium]
               /\ \A c \in Decks :
                    /\ deck'[c].owner = deck[c].owner /\ deck'[c].src = deck[c].src
                    /\ deck'[c].playing = deck[c].playing
    <3> DEFINE new == [deck[d] EXCEPT !.end = FALSE, !.at = t]
    <3>1. /\ new \in Medium /\ new.owner = deck[d].owner /\ new.src = deck[d].src
          /\ new.playing = deck[d].playing
      BY DEF Medium
    <3>2. deck' = [deck EXCEPT ![d] = new]
      BY <2>2 DEF Medium
    <3> HIDE DEF new
    <3> QED
      BY <3>1, <3>2
  <2> QED
    BY <2>1, <2>2 DEF ReachEnd
<1>4. VideoTypes /\ PlaysCurrent
  BY DEF VideoInv
<1> QED
  BY <1>1, <1>2, <1>3, <1>4, DecksGoOn DEF VideoTypes, PlaysCurrent

\* A deck that neither plays nor is being prepared is given another source.
LEMMA PreloadStep ==
  ASSUME VideoInv, NEW s \in Segments, NEW failed \in BOOLEAN, PreloadSegment(s, failed)
  PROVE  VideoInv'
<1> USE VideoFields
<1> DEFINE d == DeckFor(s)
           new == Prepared(deck, d, SourceOf[s], failed)
<1>1. /\ UNCHANGED <<transport, current, shown, activeDeck, pendingDeck, armed, ended, paused>>
      /\ d # activeDeck /\ d # pendingDeck
      /\ deck' = [new EXCEPT ![d].at = s, ![d].end = FALSE]
      /\ operation' =
           Rejected(IF deck[d].src = SourceOf[s] /\ ~failed THEN {} ELSE {d}, operation)
  BY DEF PreloadSegment
<1>2. d \in Decks
  BY DEF DeckFor, Decks
<1> HIDE DEF d
<1>3. Followed(operation')
  BY <1>1, RejectedFollow
<1>4. /\ new \in [Decks -> Medium]
      /\ \A c \in Decks :
           /\ c # d => new[c] = deck[c]
           /\ new[c].owner = deck[c].owner
           /\ new[c].playing => deck[c].playing
  BY <1>2, PreparedDecks
<1> HIDE DEF new
<1>5. /\ deck' \in [Decks -> Medium]
      /\ \A c \in Decks :
           /\ c # d => deck'[c] = deck[c]
           /\ deck'[c].owner = deck[c].owner
           /\ deck'[c].playing => deck[c].playing
  <2> DEFINE got == [new[d] EXCEPT !.at = s, !.end = FALSE]
  <2>0. new[d] \in Medium
    BY <1>2, <1>4
  <2>1. got \in Medium /\ got.owner = new[d].owner /\ got.playing = new[d].playing
    BY <2>0 DEF Medium
  <2>2. deck' = [new EXCEPT ![d] = got]
    BY <1>1, <1>2, <1>4 DEF Medium
  <2> HIDE DEF got
  <2> QED
    BY <1>2, <1>4, <2>1, <2>2
<1>6. \A o \in operation : IsCurrent(o) => o.deck # d
  BY <1>1 DEF VideoInv, OwnsDeck
<1>7. \A c \in Decks : deck'[c].playing =>
        /\ c = activeDeck /\ current.segment # NoSegment
        /\ deck'[c].src = SourceOf[current.segment]
  BY <1>1, <1>5 DEF VideoInv, PlaysCurrent
<1>8. VideoTypes
  BY DEF VideoInv
<1> QED
  BY <1>1, <1>3, <1>5, <1>6, <1>7, <1>8, DecksGoOn DEF VideoTypes

\* Halting decks, as the invariant sees it.
LEMMA HaltsGoOn ==
  ASSUME VideoInv, NEW D, deck' = Halted(D, deck)
  PROVE  /\ deck' \in [Decks -> Medium]
         /\ \A d \in Decks : deck'[d].owner = deck[d].owner /\ deck'[d].src = deck[d].src
         /\ \A d \in Decks : deck'[d].playing =>
              /\ d = activeDeck /\ current.segment # NoSegment
              /\ deck'[d].src = SourceOf[current.segment]
BY VideoFields, HaltedDecks DEF VideoInv, PlaysCurrent

\* An operation continues after its promise: a stale one halts the deck it owns, the
\* current one arms the command.
LEMMA ContinuePlayedStep ==
  ASSUME VideoInv, NEW o \in operation, ContinuePlayed(o)
  PROVE  VideoInv'
<1> USE VideoFields
<1>1. /\ UNCHANGED <<transport, current, shown, activeDeck, pendingDeck, ended, paused>>
      /\ o.phase = "played"
  BY DEF ContinuePlayed
<1>2. VideoTypes /\ PlaysCurrent
  BY DEF VideoInv
<1>3. CASE ~ IsCurrent(o)
  <2>1. /\ deck' = IF Owned(o) THEN Halted({o.deck}, deck) ELSE deck
        /\ operation' = Rejected(IF Owned(o) THEN {o.deck} ELSE {}, operation \ {o})
        /\ armed' = armed
    BY <1>3 DEF ContinuePlayed
  <2>2. Followed(operation')
    BY <2>1, RejectedFollow
  <2>3. CASE Owned(o)
    <3>1. deck' = Halted({o.deck}, deck)
      BY <2>1, <2>3
    <3> QED
      BY <1>1, <1>2, <2>1, <2>2, <3>1, HaltsGoOn, DecksGoOn DEF VideoTypes
  <2>4. CASE ~ Owned(o)
    BY <1>1, <1>2, <2>1, <2>2, <2>4, DecksGoOn DEF VideoTypes, PlaysCurrent
  <2> QED
    BY <2>3, <2>4
<1>4. CASE IsCurrent(o)
  <2>1. /\ deck' = deck /\ operation' = operation \ {o}
        /\ armed' = IF current.segment = NoSegment THEN armed ELSE o.id
    BY <1>4 DEF ContinuePlayed, Returns
  <2>2. Followed(operation')
    BY <2>1, RemainingFollow
  <2>3. deck[activeDeck].owner = transport.id /\ o.id = transport.id
    BY <1>1, <1>4 DEF VideoInv, OwnsDeck, IsCurrent, Prepares
  <2>4. \A p \in operation' : ~ IsCurrent(p)'
    BY <1>1, <1>4, <2>1 DEF VideoInv, Numbered, IsCurrent
  <2>5. Armed'
    BY <1>1, <2>1, <2>3, <2>4 DEF Armed
  <2>6. armed' \in Nat
    BY <1>2, <2>1, <2>3 DEF VideoTypes
  <2> QED
    BY <1>1, <1>2, <2>1, <2>2, <2>5, <2>6, DecksGoOn DEF VideoTypes, PlaysCurrent
<1> QED
  BY <1>3, <1>4

\* play() is called once more: on the deck that has taken over, by the current
\* operation alone.
LEMMA PlayAgainStep ==
  ASSUME VideoInv, NEW o \in operation, NEW allowed \in BOOLEAN, PlayAgain(o, allowed)
  PROVE  VideoInv'
<1> USE VideoFields
<1>1. /\ UNCHANGED <<transport, current, shown, activeDeck, pendingDeck, armed, ended, paused>>
      /\ o.phase \in {"again", "adrift"}
  BY DEF PlayAgain
<1>2. VideoTypes /\ PlaysCurrent
  BY DEF VideoInv
<1>3. CASE ~ IsCurrent(o)
  <2>1. deck' = deck /\ Followed(operation')
    BY <1>3, RemainingFollow DEF PlayAgain, Returns
  <2> QED
    BY <1>1, <1>2, <2>1, DecksGoOn DEF VideoTypes, PlaysCurrent
<1>4. CASE IsCurrent(o)
  <2>1. /\ operation' = (operation \ {o}) \cup {Plays(o, "replay", allowed)}
        /\ deck' = [deck EXCEPT ![o.deck].playing = @ \/ allowed]
    BY <1>4 DEF PlayAgain, Unpaused
  <2>2. Followed(operation')
    <3>1. PICK phase \in {"replay", "lost"} : Plays(o, "replay", allowed) = [o EXCEPT !.phase = phase]
      BY DEF Plays
    <3>2. phase \in Phases /\ phase \notin Prepares /\ o.phase \notin Prepares /\ phase # "again"
      BY <1>1 DEF Phases, Prepares
    <3>3. /\ operation' \subseteq operation \cup {[o EXCEPT !.phase = phase]}
          /\ o \notin operation' \/ operation' = operation
      <4>1. o # [o EXCEPT !.phase = phase]
        BY <1>1 DEF Operation
      <4> QED
        BY <2>1, <3>1, <4>1
    <3> QED
      BY <3>2, <3>3, AdvancedFollow
  <2>3. OwnsDeck(o) /\ o.phase \notin Prepares /\ o.segment \in Segments
    BY <1>1, <1>4 DEF VideoInv, Prepares, Operation
  <2>4. /\ o.deck = activeDeck /\ current.segment # NoSegment
        /\ deck[o.deck].src = SourceOf[current.segment]
    BY <2>3, VideoAssumption DEF OwnsDeck
  <2>5. /\ deck' \in [Decks -> Medium]
        /\ \A d \in Decks : /\ deck'[d].owner = deck[d].owner /\ deck'[d].src = deck[d].src
                            /\ d # o.deck => deck'[d] = deck[d]
    BY <2>1 DEF Medium
  <2> QED
    BY <1>1, <1>2, <2>2, <2>4, <2>5, DecksGoOn DEF VideoTypes, PlaysCurrent
<1> QED
  BY <1>3, <1>4

\* The armed command has played its segment.
LEMMA FinishStep ==
  ASSUME VideoInv, NEW d \in Decks, NEW seamless \in BOOLEAN, FinishSegment(d, seamless)
  PROVE  VideoInv'
<1> USE VideoFields
<1>1. /\ UNCHANGED <<transport, current, shown, activeDeck, pendingDeck, armed, paused>>
      /\ ended' = transport.id
  BY DEF FinishSegment
<1>2. VideoTypes /\ PlaysCurrent
  BY DEF VideoInv
<1>3. CASE seamless
  <2>1. deck' = deck /\ Followed(operation')
    BY <1>3, RemainingFollow DEF FinishSegment
  <2> QED
    BY <1>1, <1>2, <2>1, DecksGoOn DEF VideoTypes, PlaysCurrent
<1>4. CASE ~ seamless
  <2>1. deck' = Halted({d}, deck) /\ operation' = Rejected({d}, operation)
    BY <1>4 DEF FinishSegment
  <2>2. Followed(operation')
    BY <2>1, RejectedFollow
  <2> QED
    BY <1>1, <1>2, <2>1, <2>2, HaltsGoOn, DecksGoOn DEF VideoTypes
<1> QED
  BY <1>3, <1>4

\* The operations a command leaves behind neither wait on a signal nor prepare a deck.
LEMMA SurvivingOperations ==
  ASSUME VideoInv, NEW D
  PROVE  /\ Rejected(D, Surviving) \subseteq Operation
         /\ \A p \in Rejected(D, Surviving) :
              /\ p.id \in 1..transport.id
              /\ p.phase \notin {"metadata", "seek", "data", "again"}
<1>1. Rejected(D, Surviving) = {Shut(D, o) : o \in Surviving}
  BY DEF Rejected, Shut
<1>2. ASSUME NEW o \in Surviving
      PROVE  /\ Shut(D, o) \in Operation
             /\ Shut(D, o).id \in 1..transport.id
             /\ Shut(D, o).phase \notin {"metadata", "seek", "data", "again"}
  <2>1. o \in operation /\ o \in Operation
    BY VideoFields DEF Surviving
  <2>2. o.phase \notin {"metadata", "seek", "data", "again"}
    BY DEF Surviving, Waits
  <2>3. o.id \in 1..transport.id
    BY <2>1 DEF VideoInv, Numbered
  <2>4. Follows(Shut(D, o), o) /\ (Shut(D, o).phase \in {"again", "adrift"} => Shut(D, o) = o)
    BY <2>1, ShutFollows
  <2> QED
    BY <2>2, <2>3, <2>4 DEF Follows, Prepares
<1> QED
  BY <1>1, <1>2

\* pause() halts everything.
LEMMA PauseStep ==
  ASSUME VideoInv, PauseVideo
  PROVE  VideoInv'
<1> USE VideoFields
<1>1. /\ UNCHANGED <<current, shown, activeDeck, ended>>
      /\ transport'.id = transport.id /\ transport' \in [id : Nat, live : BOOLEAN]
      /\ operation' = Rejected(Decks, Surviving)
      /\ deck' = Halted(Decks, deck)
      /\ pendingDeck' = 0 /\ armed' = 0 /\ paused' = TRUE
  BY DEF PauseVideo, VideoInv, VideoTypes
<1>2. Followed(operation')
  BY <1>1, RejectedFollow DEF Surviving
<1>3. \A o \in operation' : o.phase \notin Prepares
  BY <1>1, SurvivingOperations DEF Prepares
<1>4. VideoTypes
  BY DEF VideoInv
<1> QED
  BY <1>1, <1>2, <1>3, <1>4, HaltsGoOn, DecksGoOn DEF VideoTypes

\* stop(): a new command of which nothing is left to come.
LEMMA StopStep ==
  ASSUME VideoInv, StopVideo
  PROVE  VideoInv'
<1> USE VideoFields
<1>1. /\ transport' = [id |-> transport.id + 1, live |-> FALSE]
      /\ operation' = Rejected(Decks, Surviving)
      /\ deck' = Halted(Decks, deck)
      /\ current' = [segment |-> NoSegment, play |-> FALSE] /\ shown' = NoSegment
      /\ pendingDeck' = 0 /\ armed' = 0 /\ paused' = FALSE
      /\ UNCHANGED <<activeDeck, ended>>
  BY DEF StopVideo
<1>2. /\ operation' \subseteq Operation
      /\ \A p \in operation' :
           /\ p.id \in 1..transport.id
           /\ p.phase \notin {"metadata", "seek", "data", "again"}
  BY <1>1, SurvivingOperations
<1>3. transport'.id = transport.id + 1
  BY <1>1
<1>4. \A d \in Decks : ~ deck'[d].playing
  BY <1>1, HaltedDecks
<1>5. VideoTypes'
  <2>1. /\ transport' \in [id : Nat, live : BOOLEAN]
        /\ current' \in [segment : Segments \cup {NoSegment}, play : BOOLEAN]
    BY <1>1
  <2>2. deck' \in [Decks -> Medium]
    BY <1>1, HaltedDecks
  <2> QED
    BY <1>1, <1>2, <2>1, <2>2 DEF VideoInv, VideoTypes
<1>6. PlaysCurrent'
  BY <1>4 DEF PlaysCurrent
<1>7. \A p \in operation' : p.id # transport'.id /\ p.id \in 1..transport'.id
  BY <1>2, <1>3
<1>8. Numbered' /\ Armed'
  BY <1>1, <1>2, <1>3, <1>7 DEF Numbered, Armed, IsCurrent
<1>9. \A p \in operation' : (IsCurrent(p) => OwnsDeck(p))'
  BY <1>7 DEF IsCurrent
<1> QED
  BY <1>5, <1>6, <1>8, <1>9 DEF VideoInv

\* The prepared deck takes over: what played before it halts.
LEMMA TakeOverStep ==
  ASSUME VideoInv, NEW o \in operation, NEW allowed \in BOOLEAN, TakeOver(o, allowed)
  PROVE  VideoInv'
<1> USE VideoFields
<1>1. /\ o.phase = IF o.play THEN "seek" ELSE "data"
      /\ activeDeck' = o.deck /\ pendingDeck' = 0 /\ shown' = current.segment
      /\ UNCHANGED <<transport, current, armed, ended, paused>>
  BY DEF TakeOver
<1>2. o \in Operation /\ o.play \in BOOLEAN /\ o.segment \in Segments
  BY DEF Operation
<1>3. o.phase \in Prepares
  BY <1>1, <1>2 DEF Prepares
<1>4. IsCurrent(o) /\ o.id = transport.id
  BY <1>3 DEF IsCurrent
<1>5. /\ o.segment = current.segment /\ current.segment # NoSegment
      /\ deck[o.deck].src = SourceOf[current.segment] /\ deck[o.deck].owner = o.id
      /\ o.previous = activeDeck
  BY <1>2, <1>3, <1>4, VideoAssumption DEF VideoInv, OwnsDeck
<1> DEFINE halted == IF o.play THEN {o.previous} \ {o.deck} ELSE Decks
           still == Halted(halted, deck)
<1>6. /\ deck' = [still EXCEPT ![o.deck].playing = @ \/ (o.play /\ allowed)]
      /\ operation' = Rejected(halted, operation \ {o})
                        \cup (IF o.play THEN {Plays(o, "play", allowed)} ELSE {})
  BY DEF TakeOver, Unpaused
<1>7. /\ still \in [Decks -> Medium]
      /\ \A d \in Decks :
           /\ still[d].src = deck[d].src /\ still[d].owner = deck[d].owner
           /\ still[d].playing => deck[d].playing /\ d \notin halted
  BY HaltedDecks
<1>8. \A d \in Decks : still[d].playing => d = o.deck
  BY <1>5, <1>7 DEF VideoInv, PlaysCurrent
<1> HIDE DEF still
<1>9. /\ deck' \in [Decks -> Medium]
      /\ \A d \in Decks :
           /\ deck'[d].src = deck[d].src /\ deck'[d].owner = deck[d].owner
           /\ deck'[d].playing => d = o.deck
  BY <1>2, <1>6, <1>7, <1>8 DEF Medium
<1>10. PlaysCurrent'
  BY <1>1, <1>5, <1>9 DEF PlaysCurrent
<1>11. ASSUME NEW p \in operation', p.id = transport.id \/ p.phase \in Prepares \cup {"again"}
       PROVE  o.play /\ p = Plays(o, "play", allowed)
  <2>1. CASE p \in Rejected(halted, operation \ {o})
    <3>1. PICK x \in operation : x # o /\ p = Shut(halted, x)
      BY <2>1 DEF Rejected, Shut
    <3>2. ~ IsCurrent(x)
      BY <1>4, <3>1 DEF VideoInv, Numbered
    <3>3. Follows(p, x)
      BY <3>1, ShutFollows
    <3>4. p.id # transport.id /\ p.phase \notin Prepares \cup {"again"}
      BY <3>2, <3>3 DEF Follows, IsCurrent
    <3> QED
      BY <1>11, <3>4
  <2> QED
    BY <1>2, <1>6, <2>1
<1>12. ASSUME NEW p \in operation'
       PROVE  p \in Operation /\ p.id \in 1..transport.id
  <2>1. CASE p \in Rejected(halted, operation \ {o})
    <3>1. PICK x \in operation : p = Shut(halted, x)
      BY <2>1 DEF Rejected, Shut
    <3>2. Follows(p, x) /\ x.id \in 1..transport.id
      BY <3>1, ShutFollows DEF VideoInv, Numbered
    <3> QED
      BY <3>2 DEF Follows
  <2>2. CASE p = Plays(o, "play", allowed)
    BY <1>2, <2>2 DEF Plays, Operation, Phases, VideoInv, Numbered
  <2> QED
    BY <1>2, <1>6, <2>1, <2>2
<1>13. LET p == Plays(o, "play", allowed) IN
       /\ p.id = o.id /\ p.segment = o.segment /\ p.deck = o.deck
       /\ p.phase \notin Prepares \cup {"again"}
  BY <1>2 DEF Plays, Operation, Prepares
<1>14. Numbered'
  <2>1. \A p \in operation' :
          p.phase \in {"metadata", "seek", "data", "again"} => p.id = transport.id
    BY <1>11, <1>13 DEF Prepares
  <2>2. \A p, q \in operation' : p.id = transport.id /\ q.id = transport.id => p = q
    BY <1>11
  <2>3. transport.id # 0
    BY <1>4 DEF VideoInv, Numbered
  <2> QED
    BY <1>1, <1>12, <2>1, <2>2, <2>3 DEF Numbered, IsCurrent
<1>15. \A p \in operation' : (IsCurrent(p) => OwnsDeck(p))'
  BY <1>1, <1>4, <1>5, <1>9, <1>11, <1>13 DEF OwnsDeck, IsCurrent
<1>16. Armed'
  BY <1>1, <1>4 DEF VideoInv, Armed
<1>17. VideoTypes'
  BY <1>1, <1>9, <1>12 DEF VideoInv, VideoTypes
<1> QED
  BY <1>10, <1>14, <1>15, <1>16, <1>17 DEF VideoInv

\* A new segment command: what the command before it left behind is invalidated, the
\* other deck is prepared, or the deck that plays goes on.
LEMMA SetSegmentStep ==
  ASSUME VideoInv, NEW s \in Segments, NEW play \in BOOLEAN, NEW positioned \in BOOLEAN,
         NEW allowed \in BOOLEAN, NEW failed \in BOOLEAN,
         SetSegment(s, play, positioned, allowed, failed)
  PROVE  VideoInv'
<1> USE VideoFields
<1> DEFINE id == transport.id + 1
           d == DeckFor(s)
           goesOn == Continues(s, play, positioned)
           preserves == ~positioned /\ shown = s /\ d = activeDeck /\ deck[d].at = s /\ ~deck[d].end
           halted == IF Halts(s, play) THEN Decks ELSE {}
           kept == Prepared(Halted(halted, deck), d, SourceOf[s], failed)
           reassigned == IF deck[d].src = SourceOf[s] /\ ~failed THEN halted
                         ELSE halted \cup {d}
           o == [id |-> id, segment |-> s, play |-> play, deck |-> d, previous |-> activeDeck,
                 seeks |-> ~preserves \/ failed, phase |-> "metadata"]
           new == IF goesOn THEN Plays(o, "play", allowed) ELSE o
<1>1. /\ transport' = [id |-> id, live |-> TRUE]
      /\ current' = [segment |-> s, play |-> play]
      /\ pendingDeck' = IF goesOn THEN 0 ELSE d
      /\ shown' = IF goesOn THEN s ELSE shown
      /\ deck' = [kept EXCEPT ![d].owner = id]
      /\ operation' = Rejected(reassigned, Surviving) \cup {new}
      /\ armed' = 0 /\ ended' = 0 /\ paused' = FALSE
      /\ activeDeck' = activeDeck
  BY DEF SetSegment
<1>2. d \in Decks
  BY DEF DeckFor, Decks
<1>3. s # NoSegment /\ id \in Nat /\ id > 0 /\ id # transport.id
  BY VideoAssumption
<1>4. /\ Halted(halted, deck) \in [Decks -> Medium]
      /\ \A c \in Decks :
           /\ Halted(halted, deck)[c].playing => deck[c].playing /\ c \notin halted
           /\ Halted(halted, deck)[c].src = deck[c].src
  BY HaltedDecks
<1>5. /\ kept \in [Decks -> Medium] /\ kept[d].src = SourceOf[s]
      /\ \A c \in Decks :
           /\ c # d => kept[c] = Halted(halted, deck)[c]
           /\ kept[c].playing => Halted(halted, deck)[c].playing
  BY <1>2, <1>4, PreparedDecks
\* What plays on is the deck that has taken over, on the source of the new segment.
<1>6. ASSUME NEW c \in Decks, kept[c].playing
      PROVE  c = activeDeck /\ kept[c].src = SourceOf[s]
  <2>1. deck[c].playing /\ c \notin halted
    BY <1>4, <1>5, <1>6
  <2>2. c = activeDeck
    BY <2>1 DEF VideoInv, PlaysCurrent
  <2>3. ~ Halts(s, play)
    BY <2>1
  <2>4. d = activeDeck
    BY <2>3 DEF Halts, Replaces
  <2> QED
    BY <1>5, <2>2, <2>4
<1>7. goesOn => d = activeDeck
  BY DEF Continues
<1>8. /\ o \in Operation
      /\ new \in Operation
      /\ new.id = id /\ new.segment = s /\ new.deck = d /\ new.previous = activeDeck
      /\ IF goesOn THEN new.phase \in {"play", "refused"} ELSE new.phase = "metadata"
  <2>1. o \in Operation
    BY <1>2, <1>3 DEF Operation, Phases
  <2>2. CASE goesOn
    BY <1>2, <1>3, <2>1, <2>2 DEF Operation, Phases, Plays
  <2>3. CASE ~ goesOn
    BY <2>1, <2>3
  <2> QED
    BY <2>1, <2>2, <2>3
<1>9. /\ Rejected(reassigned, Surviving) \subseteq Operation
      /\ \A p \in Rejected(reassigned, Surviving) :
           /\ p.id \in 1..transport.id
           /\ p.phase \notin {"metadata", "seek", "data", "again"}
  BY SurvivingOperations
<1>10. transport'.id = id /\ current'.segment = s
  BY <1>1
<1> HIDE DEF id, d, goesOn, kept, reassigned, o, new
<1>11. operation' \subseteq Operation
  BY <1>1, <1>8, <1>9
<1>12. /\ \A p \in operation' : p.id \in 1..id
       /\ \A p \in operation' : p # new => p.id # id /\ p.phase \notin {"metadata", "seek", "data", "again"}
  BY <1>1, <1>8, <1>9 DEF id
<1>13. Numbered'
  BY <1>3, <1>8, <1>10, <1>12 DEF Numbered, IsCurrent
<1>14. Armed'
  BY <1>1, <1>3, <1>10 DEF Armed
<1>15. /\ deck' \in [Decks -> Medium]
       /\ \A c \in Decks : deck'[c].src = kept[c].src /\ deck'[c].playing = kept[c].playing
       /\ deck'[d].owner = id
  <2> DEFINE own == [kept[d] EXCEPT !.owner = id]
  <2>1. /\ own \in Medium /\ own.src = kept[d].src /\ own.playing = kept[d].playing
        /\ own.owner = id
    BY <1>2, <1>3, <1>5 DEF Medium
  <2>2. deck' = [kept EXCEPT ![d] = own]
    BY <1>1, <1>2, <1>5 DEF Medium
  <2> HIDE DEF own
  <2> QED
    BY <1>2, <1>5, <2>1, <2>2
<1>16. PlaysCurrent'
  BY <1>1, <1>3, <1>6, <1>10, <1>15 DEF PlaysCurrent
<1>17. \A p \in operation' : (IsCurrent(p) => OwnsDeck(p))'
  <2> SUFFICES ASSUME NEW p \in operation', p.id = id
               PROVE  OwnsDeck(p)'
    BY <1>10 DEF IsCurrent
  <2>1. p = new
    BY <1>12
  <2> QED
    BY <1>1, <1>2, <1>5, <1>7, <1>8, <1>10, <1>15, <2>1 DEF OwnsDeck, Prepares
<1>18. VideoTypes'
  BY <1>1, <1>2, <1>3, <1>11, <1>15 DEF VideoInv, VideoTypes
<1> QED
  BY <1>13, <1>14, <1>16, <1>17, <1>18 DEF VideoInv

\* The player starts so.
LEMMA VideoInitially == VideoInit => VideoInv
<1> SUFFICES ASSUME VideoInit PROVE VideoInv
  OBVIOUS
<1>1. operation = {} /\ transport.id = 0 /\ current.segment = NoSegment
  BY DEF VideoInit
<1>2. \A d \in Decks : deck[d] \in Medium /\ ~ deck[d].playing
  BY DEF VideoInit, Medium, Sources
<1>3. VideoTypes
  BY <1>2 DEF VideoInit, VideoTypes, Decks
<1> QED
  BY <1>1, <1>2, <1>3 DEF VideoInv, PlaysCurrent, Numbered, Armed

\* Every command, event and continuation keeps it so.
LEMMA VideoStep == VideoInv /\ [VideoNext]_videoVars => VideoInv'
<1> SUFFICES ASSUME VideoInv, [VideoNext]_videoVars PROVE VideoInv'
  OBVIOUS
<1>1. CASE UNCHANGED videoVars
  BY <1>1 DEF videoVars, VideoInv, VideoTypes, PlaysCurrent, Numbered, Armed, OwnsDeck, IsCurrent
<1>2. CASE VideoNext
  <2>1. ASSUME NEW s \in Segments, NEW failed \in BOOLEAN,
               \/ PreloadSegment(s, failed)
               \/ \E play, positioned, allowed \in BOOLEAN :
                    SetSegment(s, play, positioned, allowed, failed)
        PROVE  VideoInv'
    BY <2>1, PreloadStep, SetSegmentStep
  <2>2. ASSUME NEW o \in operation,
               \/ Prepare(o) \/ GiveUp(o) \/ PromiseSettles(o)
               \/ ContinuePlayed(o) \/ ContinueRefused(o) \/ ContinueLost(o)
               \/ \E allowed \in BOOLEAN : TakeOver(o, allowed) \/ PlayAgain(o, allowed)
        PROVE  VideoInv'
    BY <2>2, PrepareStep, OperationsStep, ContinuePlayedStep, TakeOverStep, PlayAgainStep
  <2>3. ASSUME NEW d \in Decks,
               ReachEnd(d) \/ \E seamless \in BOOLEAN : FinishSegment(d, seamless)
        PROVE  VideoInv'
    BY <2>3, ReachEndStep, FinishStep
  <2> QED
    BY <1>2, <2>1, <2>2, <2>3, PauseStep, StopStep DEF VideoNext
<1> QED
  BY <1>1, <1>2

\* In every reachable state of the player the invariant holds.
THEOREM VideoSpecInvariant == VideoSpec => []VideoInv
<1> QED
  BY VideoInitially, VideoStep, PTL DEF VideoSpec

\* Whatever order commands, seeks and promises arrive in, one deck plays at most, and
\* it plays the source of the latest command (segmented-video-controller.ts:66).
THEOREM VideoPlaysTheLastCommand == VideoSpec => []OnlyTheLastCommandPlays
<1>1. VideoInv => OnlyTheLastCommandPlays
  <2> SUFFICES ASSUME VideoInv PROVE OnlyTheLastCommandPlays
    OBVIOUS
  <2>1. \A d \in Decks : deck[d].playing =>
          /\ d = activeDeck /\ current.segment # NoSegment
          /\ deck[d].src = SourceOf[current.segment]
    BY DEF VideoInv, PlaysCurrent
  <2>2. 1 \in Decks /\ 2 \in Decks
    BY DEF Decks
  <2> QED
    BY <2>1, <2>2 DEF OnlyTheLastCommandPlays
<1> QED
  BY <1>1, VideoSpecInvariant, PTL

\* Once the command is armed no operation of it is left, and a stale one owns another
\* deck: no step but a command, or the end of the segment, halts the deck.
LEMMA PlayingStep ==
  ASSUME VideoInv, VideoNext,
         armed = transport.id, armed' = armed, ended' = ended, deck[activeDeck].playing
  PROVE  deck'[activeDeck].playing
<1> USE VideoFields
<1>1. transport.id > 0 /\ armed # 0
  BY DEF VideoInv, PlaysCurrent, Numbered
<1>2. /\ \A o \in operation : ~ IsCurrent(o)
      /\ deck[activeDeck].owner = transport.id
  BY <1>1 DEF VideoInv, Armed
<1>3. \A o \in operation : o.phase \notin Prepares
  BY <1>2
<1>4. \A s \in Segments, play, positioned, allowed, failed \in BOOLEAN :
        ~ SetSegment(s, play, positioned, allowed, failed)
  BY <1>1 DEF SetSegment
<1>5. ~ PauseVideo /\ ~ StopVideo
  BY <1>1 DEF PauseVideo, StopVideo
<1>6. ASSUME NEW s \in Segments, NEW failed \in BOOLEAN, PreloadSegment(s, failed)
      PROVE  deck'[activeDeck].playing
  <2> DEFINE d == DeckFor(s)
             new == Prepared(deck, d, SourceOf[s], failed)
  <2>1. d # activeDeck /\ deck' = [new EXCEPT ![d].at = s, ![d].end = FALSE]
    BY <1>6 DEF PreloadSegment
  <2>2. d \in Decks
    BY DEF DeckFor, Decks
  <2> HIDE DEF d
  <2>3. new \in [Decks -> Medium] /\ new[activeDeck] = deck[activeDeck]
    BY <2>1, <2>2, PreparedDecks
  <2> HIDE DEF new
  <2> QED
    BY <2>1, <2>3
<1>7. ASSUME NEW o \in operation, Prepare(o)
      PROVE  deck'[activeDeck].playing
  BY <1>3, <1>7 DEF Prepare, Prepares
<1>8. ASSUME NEW o \in operation,
             GiveUp(o) \/ PromiseSettles(o) \/ ContinueRefused(o) \/ ContinueLost(o)
      PROVE  deck'[activeDeck].playing
  BY <1>8 DEF GiveUp, PromiseSettles, ContinueRefused, ContinueLost
<1>9. ASSUME NEW o \in operation, ContinuePlayed(o)
      PROVE  deck'[activeDeck].playing
  <2>1. deck' = IF Owned(o) THEN Halted({o.deck}, deck) ELSE deck
    BY <1>2, <1>9 DEF ContinuePlayed
  <2>2. Owned(o) => o.deck # activeDeck
    BY <1>2 DEF Owned, IsCurrent
  <2> QED
    BY <2>1, <2>2, HaltedDecks
<1>10. ASSUME NEW o \in operation, NEW allowed \in BOOLEAN
       PROVE  ~ TakeOver(o, allowed)
  BY <1>3 DEF TakeOver, Prepares
<1>11. ASSUME NEW o \in operation, NEW allowed \in BOOLEAN, PlayAgain(o, allowed)
       PROVE  deck'[activeDeck].playing
  BY <1>2, <1>11 DEF PlayAgain
<1>12. ASSUME NEW d \in Decks, ReachEnd(d)
       PROVE  deck'[activeDeck].playing
  BY <1>12 DEF ReachEnd, Medium
<1>13. ASSUME NEW d \in Decks, NEW seamless \in BOOLEAN
       PROVE  ~ FinishSegment(d, seamless)
  BY DEF FinishSegment, Finishes
<1> QED
  BY <1>4, <1>5, <1>6, <1>7, <1>8, <1>9, <1>10, <1>11, <1>12, <1>13 DEF VideoNext

\* A deck that the latest command plays is not halted by what an earlier command left
\* behind (the commandId a deck carries, segmented-video-controller.ts).
THEOREM VideoPlayingGoesOn == VideoSpec => PlayingGoesOn
<1> DEFINE Kept == armed = transport.id /\ armed' = armed /\ ended' = ended
                     /\ deck[activeDeck].playing => deck'[activeDeck].playing
<1>1. VideoInv /\ [VideoNext]_videoVars => [Kept]_videoVars
  BY PlayingStep
<1>2. VideoSpec => [][Kept]_videoVars
  BY <1>1, VideoSpecInvariant, PTL DEF VideoSpec
<1> QED
  BY <1>2 DEF PlayingGoesOn
=============================================================================
