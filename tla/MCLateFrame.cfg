SPECIFICATION Spec
CONSTANTS
  Uses = {{"reader", "binary"}}
  Data = {"data"}
  Leader = "leader"
  Chars = {}
PROPERTY SixFrames
