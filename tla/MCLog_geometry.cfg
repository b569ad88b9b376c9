CONSTANTS
  b1 = b1  b2 = b2  b3 = b3  b4 = b4  b5 = b5  b6 = b6
  p1 = p1  p2 = p2  p3 = p3  v1 = v1  v2 = v2  none = none
  Block <- Blocks6
  Val <- Vals1
  Caller <- Callers3
  LOGSIZE = 6
  MAXOPBLOCKS = 2
  LogCap = 5
  OpBlocks = 2
  InodeBlock = b1
  NoBlock = none
SYMMETRY SpaceSymmetry
SPECIFICATION Spec
INVARIANT ReservationSuffices
