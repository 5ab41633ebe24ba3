SPECIFICATION Spec
CONSTANTS
  Addr = {a1, a2}
  Half = {h0, h1}
  MinGap = 1
INVARIANTS
  TypeOK
  WindowServesBus
PROPERTIES
  RequestHeld
  Linearizable
CHECK_DEADLOCK TRUE
