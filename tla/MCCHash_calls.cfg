\* Calls of all six functions, with pointers and lengths next to every limit.
CONSTANTS
  UsizeMax = 48
  IsizeMax = 24
  ByteMod = 7
  WordLen = 2
  Blank <- MCBlank
  Digest <- MCDigest
  OneArgs <- MCOneArgs
  FixedArgs <- MCFixedArgs
  VarArgs <- MCVarArgs
  Len256 = 2
  Len128 = 1
  CheckParMin = 3
  PoolThreads = 1
  RangesPerThread = 2
  None = None
SPECIFICATION CallSpec
INVARIANTS TableVerdict
PROPERTIES ImplementsHashCalls
