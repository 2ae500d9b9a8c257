SPECIFICATION Spec
CONSTANTS
  Threads = {t1, t2}
  AlignBits = 1
  PageSz = 16
  SizeBits = 8
  IntBits = 7
  SegFirst = 16
  SegEnd = 144
  MdSize <- MCMdSize
  ArenaSizes = {0, 17, 123, 255}
  Requests <- MCRequests
  MaxArenas = 2
  MaxOps = 4
SYMMETRY ThreadSymmetry
INVARIANTS
  BlocksBelowBreak
  CoreAccounted
PROPERTIES
  HeapRefined
CHECK_DEADLOCK FALSE
