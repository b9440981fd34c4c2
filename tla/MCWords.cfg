CONSTANTS
  Ids = {1, 2}
  Storages = {s1}
  NULL = NULL
SPECIFICATION Spec
INVARIANTS TypeOK Faithful
