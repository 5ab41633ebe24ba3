SPECIFICATION Spec
CONSTANTS
  Addr = {a1, a2}
  Absent = {}
  Reset = Reset
  Bit = {b}
  Waits = {0, 20, 60}
  Gaps = {0, 40}
  StopSwitch = {FALSE}
  Mode = {"exec", "user"}
  Outside = {}
  KeyDelay = 22
  NxmDelay = 160
  NoPort = NoPort
SYMMETRY Symmetry
INVARIANTS TypeOK Consistent
PROPERTIES PortHeld
