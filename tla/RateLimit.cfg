\* Two connections, five messages in eight ticks, of which three make an hour.
SPECIFICATION Spec
SYMMETRY MCSymmetry
CONSTANTS
  Connections = {c1, c2}
  Hour = 3
  Gap = 1
  Threshold = 2
  Retain = 3
  NoTime = NoTime
  NoBucket = NoBucket
  Profiles <- MCProfiles
  MaxTime = 7
  MaxMessages = 5
INVARIANTS
  TypeOK
  HourlyCeiling
  BurstBound
  StreakUnbroken
  NoneGoneThroughWhenLimited
\* Time and messages are bounded: a behaviour ends.
CHECK_DEADLOCK FALSE

