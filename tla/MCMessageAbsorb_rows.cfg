\* Every remainder in every kernel.
CONSTANT
  LengthLists <- MCLengthLists
SPECIFICATION AbsorbSpec
INVARIANTS AbsorbsPadded ReadsInside
CHECK_DEADLOCK FALSE
