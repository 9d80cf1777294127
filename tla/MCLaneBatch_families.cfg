\* Roots, ranges, paths and forks of every kind, and lanes taken out; snapshots, crashes
\* while one is written, imports of both kinds.
CONSTANTS
  Batch = {b1, b2}
  Solo = {h1}
  Store = {k1}
  State <- MCState
  Seeds = {6}
  IdLists <- MCIdLists
  MessageLists <- MCMessageLists
  Paths <- MCPaths
  Firsts = {3}
  Counts = {2}
  StepCounts = {0, 1, 4}
  IdMod = 4
  StepMod = 2
  UsizeMax = 7
  MaxBlocks = 2
  MaxForks = 1
  MaxHeld = 2
  PrepareBase <- MCPrepareBase
  BranchStream <- MCBranchStream
  Absorbed <- MCAbsorbed
  StreamStep <- MCStreamStep
  BlockAt <- MCBlockAt
  None = None
SPECIFICATION Spec
INVARIANTS TypeOK LanesOnSchedule AcceptedIffWhole
PROPERTIES ImplementsStreamFamily
