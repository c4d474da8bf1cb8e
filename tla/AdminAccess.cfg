SPECIFICATION Spec
CONSTANTS
  alice = alice
  bob = bob
  home = home
  cafe = cafe
  Sources = {home, cafe}
  Thresholds <- MCThresholds
  Window = 2
  AccountWideFactor = 3
  Admins = {alice, bob}
  Workers = {w1, w2}
  NoAdmin = NoAdmin
  NoWorker = NoWorker
  SessionTTL = 2
  MaxTime = 6
  MaxSessions = 3
  MaxChanges = 2
  MaxFailures = 4
  Profiles <- MCProfiles
SYMMETRY Symmetry
INVARIANTS
  TypeOK
  OneActiveRemains
  OldSessionsEnd
  CodeGoodOnce
  GuessesSpaced
  OneSourceLocksOnlyItself
