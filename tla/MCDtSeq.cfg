SPECIFICATION Spec
CONSTANTS
  WSize = 2
  Width = 4
  Threads = {a, b}
SYMMETRY ThreadSymmetry
INVARIANTS
  ReplyMatches
  HandleFresh
