\* Two objects, or an object and a snapshot: reads across every kind of boundary, with
\* forks, clones, exports, imports and crashes between and during them.
CONSTANTS
  Handle = {h1, h2}
  Store = {k1}
  None = None
  State <- MCState
  Seeds = {2}
  Ids = {1}
  Messages = {0}
  ReadLens = {17, 40, 32}
  StreamStep <- MCStreamStep
  ForkLane <- MCForkLane
  Absorbed <- MCAbsorbed
  BlockAt <- MCBlockAt
  StepMod = 2
  MaxBlocks = 2
  MaxHeld = 2
SPECIFICATION FairSpec
INVARIANTS TypeOK StatesOnSchedule FilledIsStream SnapshotsImportable
PROPERTIES ImplementsByteStream ReadsReturn
