\* Forty-eight groups of lanes over steps in which the counters wrap.
CONSTANTS
  Bits = 8
  KeyBits = 3
  Pow <- MCPow
  Xor <- MCXor
  Amount <- MCAmount
  Phi = 157
  Span0 = 15
  Span1 = 14
  Groups <- MCGroups
  StepCounts = {0, 1, 3}
  MaxSteps = 12
  None = None
CHECK_DEADLOCK FALSE
SPECIFICATION Spec
INVARIANTS ConstantInStep KeysInRange
PROPERTIES ImplementsLaneGroup
