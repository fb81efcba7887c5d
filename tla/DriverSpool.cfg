SPECIFICATION ReadersSpec
CONSTANTS
  Parts = {"files"}
  Formats = {"kml", "dxf", "xls"}
  Files <- MCFiles
  Replacements <- MCReplacements
  r1 = r1
  r2 = r2
  Readers = {r1, r2}
  MaxRows = 2
  MaxBatch = 1
  Target = 1
  MemoryRows = 1
  SpillCapacity = 2
  RowIds <- MCRowIds
  NoRowId = NoRowId
  PageSizes = {1, 2}
  MaxChanges = 1
  Half = 2
  GroupRows = 2
  Hints <- MCHints
  None = None
  Null = Null
  NaN = NaN
  WholeLayer = WholeLayer
  Shapes <- MCShapes
  Tables <- MCTables
  Scopes = {0, 1, WholeLayer}
  BatchSizes = {1, 2}
  Kinds = {"signed"}
  Boxes <- MCBoxes
INVARIANT SpoolStaysReserved
