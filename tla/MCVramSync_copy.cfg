CONSTANTS
  Watched <- Borders
  Frames <- TwoFrames
SPECIFICATION Spec
INVARIANTS DoneIsCopied
PROPERTIES DoneOncePerSync SyncEnds
