CONSTANTS
  t1 = t1
  t2 = t2
  Thread <- Threads
  Programs <- AllPrograms
  Jobs <- EveryJob
  AnyTile <- TilesAtFirst
  AnyColor <- ColorsAtFirst
SPECIFICATION ProgramSpec
INVARIANTS DrawnAsPromised StoresWhereItSays SpriteShowsItsPattern
  TilemapAsInFile SquareAsDrawn SixteenLines
PROPERTIES BusyOnlyAtFirst PollingSucceeds
