\* Two threads with a list and an array; items run code that may call again.
SPECIFICATION HashSpec
CONSTANTS
  t1 = t1
  t2 = t2
  b1 = b1
  Thread = {t1, t2}
  NoThread = NoThread
  Bytes = {b1}
  Items = {b1, "hook", "view"}
  Texts = {b1, Other}
  Other = Other
  Garbage = Garbage
  FusedMin = 2
  MaxItems = 2
  MaxMoves = 0
  MaxDepth <- MCDepth
INVARIANTS HashTypeOK DigestsAsLoaded NothingReadBack
PROPERTY ArrayKeepsSize
