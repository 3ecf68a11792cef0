SPECIFICATION Spec
CONSTANTS
  CPU = {c1, c2}
  Sent <- MCSent
  Reached = {}
  MaxEvents = 2
SYMMETRY Symmetry
INVARIANT ShutdownNeverStranded
