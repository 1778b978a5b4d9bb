\* The daemon's pselect, or the test child's, sees the doorbell byte and
\* another consumer takes it: the dequeue after it blocks in read().
CONSTANTS
  b1 = b1  b2 = b2  p1 = p1  p2 = p2  Nil = Nil  Daemon = Daemon
  Blocks <- MCBlocks
  d1 = d1  r1 = r1
  Dumpers <- MCDumpers
  Readers <- MCReaders
  Procs <- MCProcs
  Bits <- MCBits
  Program <- MCProgram
SPECIFICATION Spec
PROPERTY ReadyReadReturns
