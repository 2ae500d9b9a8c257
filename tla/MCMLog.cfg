SPECIFICATION Spec
CONSTANTS
  Threads = {t1, t2}
  Programs <- MCPrograms
  Hint = 1
  FacPad = 1
  MaxFacs = 4
  Levels = {3, 16}
  Names = {n1}
  Hosts = {h1, h2}
  MaxUcons = 2
  MbLens = {0, 3, 4}
  MsgLens = {1, 2, 3, 4, 6}
SYMMETRY ThreadSymmetry
INVARIANTS
  MbufIsTail
  
  DescriptorsKept
