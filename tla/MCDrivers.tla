----------------------------- MODULE MCDrivers ------------------------------
(***************************************************************************)
(* The readers of the drivers and what their values become, in one         *)
(* instance for TLC: a behaviour is of one part of MCReaders, of one topic *)
(* of MCValues or of one of MCDocuments.                                   *)
(***************************************************************************)
EXTENDS MCReaders, ShapefileStructure, SheetCells, AttributePath, CrsPath

CONSTANTS Topics, Subjects

VARIABLES
  topic,
  payload, planned, cells, stage, cause, stored, column, driver,
  form, origin, text, text_cells, first, charged, text_stage,
  subject,
  document, events_read, element_stack, open_points, ancestors, calls, kml_step

valuesVars == <<topic, payload, planned, cells, stage, cause, stored, column, driver,
                form, origin, text, text_cells, first, charged, text_stage,
                original, assumed, held, target, announced, emitted, reread, crs_stage,
                opened, checked, fault, end>>

documentsVars == <<subject,
                   attributeVars, sheetVars,
                   document, events_read, element_stack, open_points, ancestors, calls, kml_step>>

Geo == INSTANCE MCValues WITH contract <- column, Topics <- Topics \cup {"none"}
Doc == INSTANCE MCDocuments WITH topic <- subject, Topics <- Subjects \cup {"none"}

MCShapeFiles == Geo!MCShapes
MCTableFiles == Geo!MCTables

MCCrsOriginals == Geo!MCOriginals
MCCrsTargets   == DOMAIN Geo!MCOriginals
MCCrsStrings   == STRING
MCCrsCodes     == Geo!MCCodes
MCCrsNegatives == Geo!MCNegatives
MCCrsCapitals  == Geo!MCCapitals
MCCrsAssumable == Geo!MCAssumable

MCWorksheets    == Doc!MCSheets
MCSheetRequests == Doc!MCRequests
MCSheetNumerals == Doc!MCNumerals

MCColumnOrigins == Doc!MCOrigins
MCColumnNames   == Doc!MCNames
MCDestinations  == Doc!MCDestinations

DriversInit ==
  /\ ReadersInit
  /\ topic \in IF part = "values" THEN Topics ELSE {"none"}
  /\ subject \in IF part = "documents" THEN Subjects ELSE {"none"}
  /\ Geo!ValuesInit /\ Doc!DocumentsInit

DriversNext ==
  \/ ReadersNext /\ UNCHANGED <<valuesVars, documentsVars>>
  \/ Geo!ValuesNext /\ UNCHANGED <<readersVars, documentsVars>>
  \/ Doc!DocumentsNext /\ UNCHANGED <<readersVars, valuesVars>>

DriversSpec == DriversInit /\ [][DriversNext]_<<readersVars, valuesVars, documentsVars>>

GeometryIsKept         == Geo!GeometryIsKept
PlacemarksAreReadWhole == Doc!PlacemarksAreReadWhole

=============================================================================
