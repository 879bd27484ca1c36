CONSTANTS
  Buttons <- TwoButtons
  Threads <- One
  MayFail <- OpenAndAtexit
  MaxFiles = 2
SPECIFICATION FairSpec
INVARIANTS ExitClosesFiles
PROPERTIES PublishesOnePoll ProgramSees
