SPECIFICATION FairSpec
CONSTANTS
  N = 2
  Program = {"plain", "jrst", "cono", "xct", "blt"}
  Vector = {"plain", "skip", "data", "blk", "blt"}
  StopKey = TRUE
INVARIANTS WordFreesChannel
PROPERTIES Served StopKeyStops
