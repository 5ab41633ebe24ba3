SPECIFICATION Spec
CONSTANTS
  N = 3
  Program = {"plain", "skip", "jrst", "halt", "data", "blk", "cono", "conso", "xct", "uuo", "blt"}
  Vector = {"plain", "jrst", "data", "blk", "cono", "xct", "uuo"}
  StopKey = TRUE
INVARIANTS TypeOK PcNamesUndone
PROPERTIES HeldAsVectored Nested DismissesHighest
