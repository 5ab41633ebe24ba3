SPECIFICATION Spec
CONSTANTS
  Uses = {{"punch"}}
  Data = {"data"}
  Leader = "leader"
  Chars = {"a", "b"}
PROPERTY Synchronized
