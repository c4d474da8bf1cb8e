\* Every kind of fault, one or two per behaviour, two clients.
SPECIFICATION CSSpec
CONSTANTS
  Clients = {c1, c2}
  Senders = {s1}
  Texts = {"v1", "v2", "stock"}
  NoFile = NoFile
  NotRunning = NotRunning
  NoJob = NoJob
  RoutingMaps <- MCRoutingMaps
  ImageConf <- MCStockConf
  Requests <- MCRequests
  Backlog = 2
  Profiles <- MCProfiles
INVARIANTS
  CSTypeOK
  SuccessIsLive
  FailureRestores
PROPERTIES
  GrantOrder
  AnswerEventually
CHECK_DEADLOCK TRUE
