SPECIFICATION Spec
CONSTANTS
  NLR = 3
  HwIrq = {h1}
  SwIrq = {s1}
  MaxPending = 2
INVARIANTS InjectedIsPending
