\* Two ingesting threads and nothing that fails: is a line lost in a rotation?
SPECIFICATION Spec
CONSTANTS
  Workers = {tick, page}
  Inodes = {i1, i2, i3}
  NoInode = NoInode
  MaxLines = 4
  Chunk = 1
  RotateLines = 2
  Kinds = {}
  MaxFaults = 0
INVARIANT NoneDropped
