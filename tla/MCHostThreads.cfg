SPECIFICATION FairSpec
CONSTANTS
  Threads = {"a", "b", "c"}
  Data = {"x", "y"}
  Nobody = "nobody"
  BufSizes = {1, 2}
  Pixels = {"left", "right"}
  Halo <- MCHalo
  Intensities = {1, 2}
  MaxGlow = 2
  NoDot = NoDot
  Consoles = {"first", "second"}
  Dirs = {"left", "up"}
  Buttons = {"fire"}
  MaxInFlight = 2
  Uses <- MCUses
INVARIANTS TypeOK OnePlace ConsoleFollows
PROPERTIES FifoQueue NoLostWakeup GoesDark
CHECK_DEADLOCK FALSE
