CONSTANTS
  t1 = t1
  t2 = t2
  Thread <- Threads
  Programs <- SpriteProgram
SPECIFICATION Spec
INVARIANTS DrawnAsPromised
