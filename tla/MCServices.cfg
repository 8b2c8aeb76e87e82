SPECIFICATION ServicesSpec
CHECK_DEADLOCK FALSE
VIEW Running
CONSTANTS
  \* MediaQueue
  a = a  b = b  w1 = w1  w2 = w2  NoWorker = NoWorker
  Jobs = {a}  Workers = {w1}
  DependsOn <- NoDependencies  Outputs <- TwoFiles  Size <- UnitSize
  Reusable = {}  Quota = 2  MaxAttempts = 2
  ResourceOf <- AllTranscode  SlotLimit <- TwoSlots  MaxRetries = 0
  \* CanvasDocuments
  Replicas = {r1}  Nobody = Nobody
  UserEdits = {e1}  ServiceEdits = {e2}
  MaxTroubles = 1  MaxCheckpoints = 1
  \* StorageLifecycle
  Uploads = {u1, u2}  Bytes <- OneByte  Capacity = 2
  Requests = {p1, p2}  StorageWorkers = {s1, s2}
  MaxDeletions = 2  MaxStorageTroubles = 2
  \* WorkflowDocuments
  Windows = {n1, n2}
  MaxVersions = 3  MaxPinned = 1  HistoryLimit = 0
  \* SystemWorkflows
  older = older  newer = newer
  SystemReplicas = {older, newer}  Template <- Releases
  Choosers = {c1, c2}  Models = {m1}  MaxSystemVersions = 5
  \* GraphExecution
  Workflows <- Graphs
  MaxStepRetries = 1  StepAttempts = 2  MaxSteps = 12  MaxDeaths = 2
  \* GenerationAdmission
  q1 = q1  q2 = q2  q3 = q3  q4 = q4
  Admissions = {q1, q2, q3, q4}
  KeyOf <- Keys  SettingsOf <- Settings  NodeOf <- NodesOf  Exclusive = {q1, q2, q3}
  Concurrency = 2  MaxAdmissionTroubles = 2
  \* SegmentedVideo
  g3 = g3
  Segments = {g1, g2, g3}  SourceOf <- Sources  MaxTransports = 3
  \* CanvasWindow
  Browsers = {1, 2}  Canvases = {"A", "B"}
  Home <- Placements  Placed = {"place"}  Start <- FirstOpened
  MaxIncidents = 3
INVARIANTS
  PublishedObjectsStay
  PublishedAsAWhole
  OwnerKeepsStaging
  StoredIsTracked
  AcceptedIsHeld
  BytesCountedOnce
  FilesAreKept
  HistoryKept
  SystemGraphIsCurrent
  ResultsStayCurrent
  AdmittedOnceWithinLimits
  OnlyTheLastCommandPlays
  
PROPERTIES
  PlayingGoesOn
