SPECIFICATION Spec
CONSTANTS
  Threads = {t1, t2}
  AlignBits = 1
  PageSz = 16
  SizeBits = 8
  IntBits = 7
  SegFirst = 16
  SegEnd = 200
  MdSize <- MCMdSize
  ArenaSizes = {0}
  Requests <- MCLargeRequests
  MaxArenas = 1
  MaxOps = 4
INVARIANTS
  BlocksBelowBreak
CHECK_DEADLOCK FALSE
