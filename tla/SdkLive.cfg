SPECIFICATION BackendSpec
CONSTANTS
  Written = {"stdout"}
  MaxBlocks = 1
  MaxStrikes = 1
INVARIANT AnswerIsDeserved
PROPERTIES ProcessCallEnds NativeStopIsAnswered
