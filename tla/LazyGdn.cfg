SPECIFICATION Spec
CONSTANTS
  r1 = r1
  r2 = r2
  b1 = b1
  b2 = b2
  b3 = b3
  b4 = b4
  b5 = b5
  Null = Null
  Requests <- MCRequests
  Slots <- MCSlots
  BlockSize = 2
  Drafts = 1
  MaxLen = 8
  MaxTurns = 2
  Prompts = {3, 6}
SYMMETRY Symmetry
CHECK_DEADLOCK FALSE
INVARIANTS TypeOK StepsExact CheckpointsExact
PROPERTY HoldsFew
