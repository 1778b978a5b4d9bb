\* An attach racing the queue's create: the registry keeps a freed block.
CONSTANTS
  a1 = a1  b1 = b1  b2 = b2  b3 = b3  b4 = b4  b5 = b5  b6 = b6  b7 = b7  b8 = b8  b9 = b9
  Nil = Nil
  Attachers <- MCAttachers
  Blocks <- MCBlocks
SPECIFICATION Spec
INVARIANT RegisteredLive
CHECK_DEADLOCK FALSE
