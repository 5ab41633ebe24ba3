SPECIFICATION Spec
CONSTANTS
  Half = 16
  Host = 1024
  BufLen = 3
  MaxStack = 3
  Seen = {0, 5}
  Locations = {0, 3}
  Core = 16
  First = 2
  MAXBLK = 4
  Lines = 3
  Zone = 2
  Switches = {"off", "remote"}
  MaxOrders = 3
  Uses <- MCUses
INVARIANTS TypeOK DepositsTyped KeysObeyed Restored
CHECK_DEADLOCK FALSE
PROPERTIES LineByLine HaltReported
