\* Variables of all four types, two addresses, one buffer; a usize of 8 bits.
CONSTANTS
  p1 = p1
  p2 = p2
  x1 = x1
  pb = pb
  xb = xb
  Var = {p1, p2, x1, pb, xb}
  KindOf <- MCKindOf
  Store = {k1}
  Cell = {a1, a2}
  None = None
  UsizeMax = 255
  IsizeMax = 127
  ByteMod = 256
  WordLen = 8
  State <- MCState
  StreamStep <- MCStreamStep
  ForkLane <- MCForkLane
  Absorbed <- MCAbsorbed
  StepMod = 1
  IdMod = 4
  Seeds = {0}
  Ids = {1}
  Firsts = {3}
  Counts = {0, 2, 3}
  ReadLens = {0, 128}
  WordSizes = {16}
  StepCounts = {0, 1, 8}
  MessageArgs <- MCMessageArgs
  Pointers = {0, 8}
  IdArrays <- MCIdArrays
  PathArrays <- MCPathArrays
  MessageArrays <- MCMessageArrays
  Freed = Freed
  FirstBytes <- MCFirstBytes
  MaxDangling = 1
  MaxHeld = 2
SYMMETRY Addresses
VIEW WithoutStatus
SPECIFICATION Spec
INVARIANTS OneOwner OwnImporterOnly
PROPERTIES ImplementsContextValues
