CONSTANTS
  t1 = t1
  t2 = t2
  t3 = t3
  p1 = p1
  p2 = p2
  NoProc = NoProc
  Thread <- ThreeThreads
  Proc = {p1, p2}
  ProcOf <- MixedProcess
  NumWords = 2
  NumRegs = 2
  Value = {0, 1}
  Blank = 0
  FrameLen = 9
  VBlankLen = 5
  FifoDepth = 2
SPECIFICATION FairSpec
INVARIANTS TypeOK VramExclusive OneStage SyncIsolated AcknowledgedIsShown ClosedIsBlank
PROPERTIES FrozenInFlight LockComesFree ReleaseReturns ImplementsFrameHandoffLive
