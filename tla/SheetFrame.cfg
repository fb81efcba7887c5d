SPECIFICATION DocumentsSpec
CONSTANTS
  Topics = {"cells below"}
  None = None
  Null = Null
INVARIANT CellsKeepToTheFrame
