SPECIFICATION Spec
CONSTANTS
  StateKinds <- MCStateKinds
  VersionKinds <- MCVersionKinds
  TestKind = "upstream_test_failure"
  Accounts = {a1}
  Versions = {1, 2}
  MaxFaults = 2
  Profiles <- MCProfiles
INVARIANTS
  TypeOK
  NotifiedWasMailed
  
PROPERTY Settles
