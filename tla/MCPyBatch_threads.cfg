\* Two threads that share a batch, a stream and an array of words.
SPECIFICATION Spec
CONSTANTS
  t1 = t1
  t2 = t2
  b = b
  s = s
  a1 = a1
  Thread = {t1, t2}
  NoThread = NoThread
  Batch = {b}
  Stream = {s}
  Array = {a1}
  Width <- MCWidth
  Sizes = {0, 1, 2}
  Shapes <- MCShapes
  Arrays <- MCArrays
  Other = Other
  MaxUnits <- MCMaxUnits
INVARIANT TypeOK
PROPERTY ImplementsSerial
SYMMETRY MCThreads
