\* One turn that times out.
SPECIFICATION Spec
CONSTANTS
  c1 = c1  c2 = c2
  Cases = {c1}
  MaxTurns = 1
  Faults = {"timeout"}
INVARIANTS IndicatorInSync
CHECK_DEADLOCK FALSE
