CONSTANTS
  p1 = p1
  p2 = p2
  a = a
  b = b
  c = c
  b1 = b1
  b2 = b2
  b3 = b3
  b4 = b4
  b5 = b5
  b6 = b6
  Nil = Nil
  Names = {a, b, c}
  Procs <- ConcurrentProcs
  Blocks <- SixBlocks
  Program <- ConcurrentProgram
SPECIFICATION Spec
INVARIANT ListIsEntries
INVARIANT TypeOK
