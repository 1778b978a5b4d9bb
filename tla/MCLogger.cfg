\* Two processes logging to the daemon, dump_logs and the test's timed
\* child: blocks, doorbell, FIFO order, delivery.
CONSTANTS
  b1 = b1  b2 = b2  p1 = p1  p2 = p2  Nil = Nil  Daemon = Daemon
  Blocks <- MCBlocks
  d1 = d1  r1 = r1
  Dumpers <- MCDumpers
  Readers <- MCReaders
  Procs <- MCProcs
  Bits <- MCBits
  Program <- MCProgram
SPECIFICATION Spec
INVARIANTS TypeOK BlocksConserved NoSpuriousSignal ListIntact
PROPERTIES Logged FifoRefinement
