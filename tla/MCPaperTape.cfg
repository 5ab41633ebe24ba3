SPECIFICATION FairSpec
CONSTANTS
  Uses = {{"reader", "binary", "reader feed"}, {"reader", "punch"}}
  Data = {"data"}
  Leader = "leader"
  Chars = {"a", "b"}
INVARIANT TypeOK
PROPERTIES WordComplete FrameDelivered WordArrives DoneWhenRead PunchedOnce CharLeaves
