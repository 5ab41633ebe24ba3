SPECIFICATION Spec
CONSTANTS
  Addr = {a1, ax}
  Absent = {ax}
  Outside = {ax}
  Mode = {"exec", "user"}
  Reset = Reset
  Bit = {b}
  Waits = {0}
  Gaps = {0}
  StopSwitch = {FALSE, TRUE}
  KeyDelay = 22
  NxmDelay = 100
  NoPort = NoPort
INVARIANTS Consistent AnsweredOnce NoFalseNxm NeverHangs ContinuesOnce
