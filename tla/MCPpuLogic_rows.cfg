CONSTANTS
  XMirror <- InColumns
  YMirror <- InPairsOfRows
  MAX_SPRITES = 4
  MAX_SPRITES_PER_LINE = 2
  Confs <- FiveSprites
  Opaque <- Striped
  Scenes <- ScenesShown
  NextRows <- LastRows
  Columns <- Across
SPECIFICATION LogicSpec
INVARIANTS RowIsPrepared SpritesAreRight ReadyInTime
