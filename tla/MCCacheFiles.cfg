SPECIFICATION Spec
CONSTANTS
  Readers = {r1, r2}
  Values = {v1, v2}
  Miss = Miss
  NoFile = NoFile
  Inodes = {i1, i2, i3, i4}
INVARIANTS
  TypeOK
  PathWhole
PROPERTIES
  ImplementsCacheStore
