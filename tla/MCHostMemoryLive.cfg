SPECIFICATION FairSpec
CONSTANTS
  Addr = {a1}
  Half = {h0, h1}
  MinGap = 1
PROPERTIES
  CallsReturn
CHECK_DEADLOCK TRUE
