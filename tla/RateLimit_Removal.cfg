\* A limit that is removed; only what the alert says of the user.
SPECIFICATION Spec
SYMMETRY MCSymmetry
CONSTANTS
  Connections = {c1}
  Hour = 3
  Gap = 1
  Threshold = 2
  Retain = 3
  NoTime = NoTime
  NoBucket = NoBucket
  Profiles <- Removal
  MaxTime = 5
  MaxMessages = 5
INVARIANT NoneGoneThrough
CHECK_DEADLOCK FALSE
