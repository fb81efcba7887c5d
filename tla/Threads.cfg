SPECIFICATION ThreadsSpec
CONSTANTS
  t1 = t1
  t2 = t2
  f1 = f1
  NTokens = 3
  WaitedTokens = 2
  Horizon = 1
  Deadlines = {1, 2}
  Threads <- TwoThreads
  Tasks <- OneTask
  Written = {"stdout", "stderr"}
  MaxBlocks = 1
  MaxStrikes = 2
SYMMETRY Symmetry
INVARIANTS StopsGoDown NoLostWakeup
INVARIANTS SuccessIsWhole NeverClosesUnderReader ChildIsNotForgotten
PROPERTY FirstReasonStays
