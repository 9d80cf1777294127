\* Batches of every shape on three workers.
CONSTANTS
  Worker = {w1, w2, w3}
  Caller = caller
  Sizes = {0, 3, 13}
  StepCounts = {0, 1, 9}
  State <- MCState
  Origin <- MCOrigin
  Mix <- MCMix
  Phi = 3
  WordMod = 8
  NearTasks <- MCNearTasks
  Rounds <- MCRounds
  Threshold <- MCThreshold
  MinTasks <- MCMinTasks
  BlockAt <- MCBlockAt
  MaxBlocks = 10
  None = None
SPECIFICATION FairSpec
INVARIANTS TypeOK WorkersApart ItemsFitPool
PROPERTIES ImplementsLaneStreams BatchReturns
CHECK_DEADLOCK FALSE
