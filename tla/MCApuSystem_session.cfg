CONSTANTS
  p1 = p1
  NoProc = NoProc
  NoBuf = NoBuf
  NoChunk = NoChunk
  Proc <- OneProcess
  MaxSessions = 1
  NumChunks = 2
  ChunkLen = 2
  Sample = {0, 1}
  Silence = 0
SPECIFICATION FairSpec
INVARIANTS TypeOK OneRequest
PROPERTIES InUseUnchanged SamplesWanted ImplementsSampleStreamLive
