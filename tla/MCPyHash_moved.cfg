\* As MCPyHash_hooks with one thread; the array may move while messages are read.
SPECIFICATION HashSpec
CONSTANTS
  t1 = t1
  t2 = t2
  b1 = b1
  Thread = {t1}
  NoThread = NoThread
  Bytes = {b1}
  Items = {b1, "hook", "view"}
  Texts = {b1, Other}
  Other = Other
  Garbage = Garbage
  FusedMin = 2
  MaxItems = 2
  MaxMoves = 1
  MaxDepth <- MCDepth
INVARIANT SharersRefused
