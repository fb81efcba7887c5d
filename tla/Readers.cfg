SPECIFICATION DriversSpec
CONSTANTS
  Parts = {"files", "gpkg", "shp", "pruning", "values", "documents"}
  Topics = {"geometry", "text", "crs", "files"}
  Subjects = {"columns", "sheets", "placemarks"}
  Formats = {"csv", "geojson", "kml", "dxf", "xls", "ipc", "geoparquet", "filegdb"}
  Files <- MCFiles
  Replacements <- MCReplacements
  r1 = r1
  r2 = r2
  Readers = {r1, r2}
  MaxRows = 2
  MaxBatch = 1
  Target = 1
  MemoryRows = 1
  SpillCapacity = 2
  RowIds <- MCRowIds
  NoRowId = NoRowId
  PageSizes = {1, 2}
  MaxChanges = 1
  Half = 2
  GroupRows = 2
  Hints <- MCHints
  None = None
  Null = Null
  NaN = NaN
  WholeLayer = WholeLayer
  Shapes <- MCShapes
  Tables <- MCTables
  Scopes = {0, 1, WholeLayer}
  BatchSizes = {1, 2}
  Kinds = {"signed", "float"}
  Boxes <- MCBoxes
  Absent = None
  MaxWords = 20
  ShapeFiles <- MCShapeFiles
  TableFiles <- MCTableFiles
  Nothing = None
  Refusal = Null
  Sheets <- MCWorksheets
  Requests <- MCSheetRequests
  WktTexts = {"POINT"}
  Numerals <- MCSheetNumerals
  MaxColumns = 4
  MaxSheetRows = 6
  Unsaid = None
  Denial = Null
  Origins <- MCColumnOrigins
  Destinations <- MCDestinations
  Names <- MCColumnNames
  Strings <- MCCrsStrings
  IntegerCodes <- MCCrsCodes
  NegativeCodes <- MCCrsNegatives
  Capitals <- MCCrsCapitals
  Nil = None
  Declined = Null
  Originals <- MCCrsOriginals
  Assumable <- MCCrsAssumable
  Targets <- MCCrsTargets
SYMMETRY Interchangeable
INVARIANTS DeliveredFitsContract UnchangedFileIsDelivered GateIsExact
INVARIANTS PagingIsExact RowsStayAligned PruningKeepsMatches
INVARIANTS GeometryIsKept CrsIsNotMisread AdmittedFileIsSurvived
INVARIANTS CellsComeBack SheetIsReadWhole PlacemarksAreReadWhole
