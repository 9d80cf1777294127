\* Batches of every kind and shape on three workers.
CONSTANTS
  Worker = {w1, w2, w3}
  Caller = caller
  Calls <- MCCalls
  Params <- MCParams
  MinMtMessages = 8
  TotalCap = 500
  BlockMessages = 8
  Window = 8
  SampleGroups = 1
  CountingMax = 2
  MinFillPct = 40
  NoCall = NoCall
SPECIFICATION HashSpec
INVARIANTS EachOutputOnce KernelContracts
PROPERTIES ImplementsHashBatch
