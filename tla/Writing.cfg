SPECIFICATION WritingSpec
CONSTANTS
  Parts = {"commands", "publish"}
  MaxRows = 3
  MaxSlots = 2
  Hosts = {"cli", "runtime", "library"}
  Sources <- MCSources
  Batches <- MCBatches
  MaxWrites = 2
  NFiles = 3
  Modes = {"file", "dir", "set"}
  Platforms = {"linux", "windows", "bsd"}
INVARIANTS WriterIsTruthful SuccessIsComplete NothingIsLeft
INVARIANT OutcomeIsTrue
PROPERTIES CommandAnswers NeverClobbers ObservedStopPublishesNothing CrashAtomicSpec
