CONSTANTS
  v_sync = 1
  v_backporch = 2
  v_visible = 2
  v_frontporch = 2
  EngineTime = 600
  BgOpaque <- EveryOther
  FgOpaque <- PairsOf
  SprOpaque <- FoursOf
  SprPrio <- EightsOf
SPECIFICATION Spec
INVARIANTS SpritesInTheirColumn
