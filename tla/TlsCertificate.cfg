SPECIFICATION Spec
CONSTANTS
  Certs = {1, 2, 3, 4}
  Placeholder = 0
  NoCert = NoCert
  d1 = d1
  d2 = d2
  Domains = {d1, d2}
  NoDomain = NoDomain
  Orders = {1, 2}
  NoOrder = NoOrder
  Ticker = ticker
  Workers = {w1}
  NoWorker = NoWorker
  Profiles <- MCProfiles
INVARIANTS
  TypeOK
  OneOrderADay
  
PROPERTY SelfHeals
CHECK_DEADLOCK FALSE
