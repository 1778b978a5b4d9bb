\* A process attaches while the queue is in use.
CONSTANTS
  n1 = n1  n2 = n2  n3 = n3  c1 = c1  c2 = c2  x1 = x1  Nil = Nil
  Nodes <- MCNodes
  Consumers <- MCConsumers
  Timed <- MCTimed
  Attachers <- OneAttacher
SPECIFICATION SpecWithAttach
INVARIANT DoorbellSingle
CHECK_DEADLOCK FALSE
