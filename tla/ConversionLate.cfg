SPECIFICATION WritingSpec
CONSTANTS
  Parts = {"commands"}
  MaxRows = 3
  MaxSlots = 2
  Hosts = {"runtime"}
  Sources <- MCSources
  Batches <- MCBatches
  MaxWrites = 2
  NFiles = 3
  Modes = {"file", "dir", "set"}
  Platforms = {"linux", "windows", "bsd"}
INVARIANT NoneLeavesNothing
