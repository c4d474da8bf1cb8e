\* Two ingesting threads, files rotated at two lines, two faults of any kind.
SPECIFICATION Spec
CONSTANTS
  Workers = {tick, page}
  Inodes = {i1, i2, i3}
  NoInode = NoInode
  MaxLines = 4
  Chunk = 1
  RotateLines = 2
  Kinds = {"refuse", "slow", "giveup", "halt", "quit", "commit"}
  MaxFaults = 2
INVARIANTS
  TypeOK
  NoneSkipped
PROPERTY Delivery
CHECK_DEADLOCK TRUE
