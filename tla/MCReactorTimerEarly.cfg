CONSTANTS
  h1 = h1
  h2 = h2
  sigterm = sigterm
  Notify = Notify
  Nil = Nil
  NS = 2
  TV = 2
  MaxPipe = 1
  Handlers <- MCHandlers
  Slots <- MCSlots
  Signals <- MCSignals
  Masks <- MCMasks
  OneShots <- MCOneShots
  Intervals <- MCIntervals
SPECIFICATION Spec
PROPERTY TimerNotEarly
