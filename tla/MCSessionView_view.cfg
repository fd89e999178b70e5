SPECIFICATION Spec
CONSTANTS
  s1 = s1
  s2 = s2
  m1 = m1
  m2 = m2
  Sessions = {s1, s2}
  Machines = {m1, m2}
  Home <- HomeDef
  FirstOnes = {s1}
  Slots <- SlotsDef
  None = None
  MaxSeq <- MaxSeqDef
  MaxRemovals = 1
  MaxUpsets = 2
INVARIANTS
  ShownIsOpenSession
  NothingSeenIsAttention
  DeletedIsForgotten
  OpenSessionHasMachine
PROPERTY
  CatchesUp
