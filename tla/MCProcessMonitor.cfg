\* Two processes, both attached, using a two-entry table.
CONSTANTS
  p1 = p1  p2 = p2  m1 = m1  a = a  b = b  c = c  None = None
  Procs <- MCProcs
  Slots <- TwoSlots
  Names <- MCNames
  Program <- MCProgram
  Late <- NoLate
SPECIFICATION Spec
INVARIANTS TypeOK MutualExclusion TableIsRegistrations
PROPERTY AllCallsReturn
