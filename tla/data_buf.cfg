SPECIFICATION Spec
CONSTANTS
  N = 3
  B = 2
  Lsa = {0, 3, 6, 7, 8}
  None = None
  Commands <- MCCommands
INVARIANTS
  ListsWhole
  NewestKept
PROPERTIES
  CommandsCovered
  ImplementsLruCache
