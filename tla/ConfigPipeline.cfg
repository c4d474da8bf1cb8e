\* Generations with benign faults, and two at a time with every kind of fault.
SPECIFICATION Spec
CONSTANTS
  Clients = {a1, a2}
  Senders = {s1}
  Texts = {"v1", "v2", "stock"}
  Settings = "v1"
  Masters = {"v1", "v2"}
  NoFile = NoFile
  NotRunning = NotRunning
  NoJob = NoJob
  NoRow = NoRow
  RoutingMaps <- MCRoutingMaps
  ImageConf <- MCStockConf
  Requests = {}
  Backlog = 2
  Profiles <- MCProfiles
INVARIANTS
  TypeOK
  HealthTruthfulWhenBenign
PROPERTIES
  Converges
  FilesConverge
CHECK_DEADLOCK TRUE
