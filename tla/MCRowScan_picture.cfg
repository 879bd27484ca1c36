CONSTANTS
  v_sync = 2
  v_backporch = 3
  v_visible = 6
  v_frontporch = 2
  EngineTime = 600
  BgOpaque <- EveryOther
  FgOpaque <- PairsOf
  SprOpaque <- FoursOf
  SprPrio <- EightsOf
SPECIFICATION Spec
INVARIANTS PictureIsRight LayersInOrder
PROPERTIES SwapFindsRowDone
