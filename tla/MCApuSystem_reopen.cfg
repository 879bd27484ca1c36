CONSTANTS
  p1 = p1
  NoProc = NoProc
  NoBuf = NoBuf
  NoChunk = NoChunk
  Proc <- OneProcess
  MaxSessions = 2
  NumChunks = 2
  ChunkLen = 1
  Sample = {0, 1}
  Silence = 0
SPECIFICATION Spec
PROPERTIES InUseUnchanged
