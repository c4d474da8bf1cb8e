\* Sequential and concurrent jobs, with clean failures and with all faults.
SPECIFICATION Spec
CONSTANTS
  Users = {u1, u2}
  Workers = {w1, w2}
  NoUser = NoUser
  MaxPasswords = 3
  Profiles <- MCProfiles
INVARIANTS
  TypeOK
  AgreesWhenOrderly
  RevokedForGood
  ReconcileCleans
PROPERTY JobsEnd
CHECK_DEADLOCK FALSE
